------------------------------ MODULE Explain ------------------------------
(***************************************************************************)
(* explain/: recorded decisions are explained by a template, by a language *)
(* model, or by what the model said of an earlier decision of the same     *)
(* archetype, kept in a cache file that the dashboard, `praman explain`    *)
(* and `praman prewarm` share.                                             *)
(*                                                                         *)
(* A text is the set of claims it makes.  A claim is a kind, a value and   *)
(* how it is worded: with the canonical token or a digit ("token"), or in  *)
(* plain English that has neither ("words").  The model is not to be       *)
(* trusted: it can fail, answer with anything, or never answer until the   *)
(* client's timeout.  An access to the cache is one autocommitted          *)
(* statement.                                                              *)
(***************************************************************************)
EXTENDS LadderRules, TableRows, Sequences

CONSTANTS Ledger,      \* its DECISION rows, in order
          Procs,       \* the processes that explain
          Kind,        \* "page", "explain" or "prewarm"
          Keyed,       \* those with GEMINI_API_KEY set
          Topics,      \* what a model picks from its prompt: kinds with wordings
          Blurbs,      \* claims it makes of its own accord
          Shipped,     \* the cache file as found: from keys to texts
          MaxSummaries, ShownAtMost,  \* all_summaries' limit and the command's --limit
          NoText

\* What a DECISION row holds that an explanation is made of.  Confidence is in
\* millionths.
DecisionRow ==
  [cause : CAUSES, posterior : Nat, tier : Range(QUERIED_TIERS) \union {"T0"}, rail : STRING,
   deny_reasons : SUBSET STRING, tier_evaluations : [Range(QUERIED_TIERS) -> SUBSET STRING]]

ASSUME ExplainAssumption ==
  /\ Ledger \in Seq(DecisionRow)
  /\ Kind \in [Procs -> {"page", "explain", "prewarm"}]
  /\ Keyed \subseteq Procs
  /\ MaxSummaries \in Nat \ {0} /\ ShownAtMost \in Nat \ {0}

VARIABLES cache,   \* table explanations: from keys to texts, and (history) of
                   \* which entry a text was written, 0 for one that was there
          pc,      \* "idle", "visit", "lookup", "ask" or "put"
          todo,    \* the summaries left, the current one first
          seen,    \* prewarm(): the archetypes it has tried
          text,    \* the valid text about to be put
          shown,   \* the last explanation: of which entry, its source and text,
                   \* and (history) of which entry that text was written
          asked,   \* history: the archetypes the client was called for,
          twice,   \* whether for one of them twice,
          failed   \* and those for which it gave nothing usable

history == <<asked, twice, failed>>

vars == <<cache, pc, todo, seen, text, shown, history>>

-----------------------------------------------------------------------------
(* Summaries, archetypes and texts.                                        *)

_TIER_ACTION ==
  [T0 |-> "terminate", T1 |-> "silent_retry", T2 |-> "rail_switch",
   T3 |-> "customer_nudge", T4 |-> "human_escalate"]

\* The seq is the row's place.
_row_to_summary(seq) ==
  LET row == Ledger[seq]
  IN  [ledger_seq |-> seq, cause |-> row.cause, confidence |-> row.posterior, tier |-> row.tier,
       action |-> _TIER_ACTION[row.tier], rail |-> row.rail, deny_reasons |-> row.deny_reasons,
       tier_evaluations |-> row.tier_evaluations]

summary_at(seq) == _row_to_summary(seq)

\* What the DECISION rows hold.
recorded == {summary_at(seq) : seq \in 1..Len(Ledger)}

AtMost(n, limit) == IF n <= limit THEN n ELSE limit

\* The oldest rows.
all_summaries == [seq \in 1..AtMost(Len(Ledger), MaxSummaries) |-> _row_to_summary(seq)]

Deadlocked(s) ==
  /\ s.tier = "T4"
  /\ Cardinality({t \in ACTIONABLE_TIERS : s.tier_evaluations[t] # {}}) >= 3

\* The first of a list.
Limited(summaries) == [n \in 1..AtMost(Len(summaries), ShownAtMost) |-> summaries[n]]

deadlock_summaries ==
  Limited(Selected(all_summaries, {n \in 1..Len(all_summaries) : Deadlocked(all_summaries[n])}))

CONFIDENCE_BUCKETS == {400000, 700000, 900000}

confidence_bucket(p) == Cardinality({edge \in CONFIDENCE_BUCKETS : p >= edge})

\* A plausible slip: the tier follows from the rest, surely.
archetype_key_without_tier(s) == <<s.cause, s.deny_reasons, confidence_bucket(s.confidence)>>

archetype_key(s) == <<s.cause, s.tier, s.deny_reasons, confidence_bucket(s.confidence)>>

how_confident(s) ==
  IF s.confidence >= 700000 THEN "confident"
  ELSE IF s.confidence >= 400000 THEN "fairly sure" ELSE "unsure"

\* What is so of a decision: a rule "blocked" if it denied any tier.
Facts(s) ==
  {<<"cause", s.cause>>, <<"tier", s.tier>>, <<"action", s.action>>, <<"rail", s.rail>>,
   <<"confidence", how_confident(s)>>}
    \union {<<"blocked", r>> : r \in UNION {s.tier_evaluations[t] : t \in Range(QUERIED_TIERS)}}

\* The prompt holds these as data, and no figure.
_prompt(s) == Facts(s)

\* The template says them in words, but for the rules, and the amount, the
\* probability and the seq in digits.
render_template(s) ==
  {<<f[1], f[2], IF f[1] = "blocked" THEN "token" ELSE "words">> :
      f \in {f \in Facts(s) : f[1] # "tier"}}
    \union {<<"figure", s.ledger_seq, "token">>}

\* What complete() can return: text that claims something of the prompt, or of
\* its own; or no JSON, another shape, nothing, too much.
Completions(s) ==
  LET repeated == {<<f[1], f[2], w>> : f \in _prompt(s), w \in {"token", "words"}}
  IN  {{c} : c \in {c \in repeated : <<c[1], c[3]>> \in Topics} \union Blurbs} \union {NoText}

\* The tiers' names, figures, and the names of these rules are written with one.
HasDigit(c) ==
  /\ c[3] = "token"
  /\ \/ c[1] \in {"tier", "figure"}
     \/ c[1] = "blocked" /\ c[2] \in {"visa_cat1", "mac_03", "mac_21", "nudge_fatigue_7d"}

\* Only the canonical token gives a cause or a tier away: "the card was reported
\* stolen" names none.
NamesAnother(c, s) ==
  c[1] \in {"cause", "tier"} /\ c[3] = "token" /\ <<c[1], c[2]>> \notin Facts(s)

_validate(raw, s) ==
  IF raw = NoText \/ \E c \in raw : NamesAnother(c, s) \/ HasDigit(c) THEN NoText ELSE raw

\* What was put in the file came through _validate(), with whatever else it let
\* pass; of the one in the repository a test says that no text has a digit.
ASSUME ShippedAssumption == \A k \in DOMAIN Shipped : \A c \in Shipped[k] : ~HasDigit(c)

-----------------------------------------------------------------------------
Entry(claims, seq) == [text |-> claims, of |-> seq]

Shown(seq, source, entry) == [seq |-> seq, source |-> source, text |-> entry.text, of |-> entry.of]

NothingShown == Shown(0, "none", Entry({}, 0))

\* The file is opened as it is; what it holds is not looked at again.
Init ==
  /\ cache = [k \in DOMAIN Shipped |-> Entry(Shipped[k], 0)]
  /\ pc = [p \in Procs |-> "idle"]
  /\ todo = [p \in Procs |-> <<>>]
  /\ seen = [p \in Procs |-> {}]
  /\ text = [p \in Procs |-> NoText]
  /\ shown = [p \in Procs |-> NothingShown]
  /\ asked = [p \in Procs |-> {}]
  /\ twice = [p \in Procs |-> FALSE]
  /\ failed = [p \in Procs |-> {}]

\* The dashboard is built with client=None, the commands with from_settings().
client(p) == Kind[p] # "page" /\ p \in Keyed

\* The decision page, and `explain --seq`: one entry that exists.
decision == {<<summary_at(seq)>> : seq \in 1..Len(Ledger)}

\* What a page load or a command is asked to explain: one entry, the first
\* deadlocks or else the first decisions, everything.
Requests(p) ==
  CASE Kind[p] = "page" -> decision
    [] Kind[p] = "prewarm" -> {all_summaries}
    [] OTHER -> decision \union
                {IF deadlock_summaries # <<>> THEN deadlock_summaries ELSE Limited(all_summaries)}

\* A plausible slip: prewarm() leaves the looking to explain().
LoopWithoutLooking(p, summaries) ==
  /\ todo' = [todo EXCEPT ![p] = summaries]
  /\ pc' = [pc EXCEPT ![p] = IF summaries = <<>> THEN "idle" ELSE "lookup"]

\* Where the loop over the summaries starts: prewarm() looks before it calls
\* explain().
Loop(p, summaries) ==
  /\ todo' = [todo EXCEPT ![p] = summaries]
  /\ pc' = [pc EXCEPT ![p] = IF summaries = <<>> THEN "idle"
                             ELSE IF Kind[p] = "prewarm" THEN "visit" ELSE "lookup"]

Start(p) ==
  /\ pc[p] = "idle"
  /\ \E summaries \in Requests(p) : Loop(p, summaries)
  /\ seen' = [seen EXCEPT ![p] = {}]
  /\ asked' = [asked EXCEPT ![p] = {}]
  /\ twice' = [twice EXCEPT ![p] = FALSE]
  /\ failed' = [failed EXCEPT ![p] = {}]
  /\ shown' = [shown EXCEPT ![p] = NothingShown]
  /\ UNCHANGED <<cache, text>>

s_(p) == Head(todo[p])
key_(p) == archetype_key(s_(p))

\* A plausible slip: only what is cached is passed over.
VisitForgetting(p) ==
  /\ pc[p] = "visit"
  /\ \/ /\ key_(p) \in DOMAIN cache
        /\ Loop(p, Tail(todo[p]))
     \/ /\ key_(p) \notin DOMAIN cache
        /\ pc' = [pc EXCEPT ![p] = "lookup"]
        /\ UNCHANGED todo
  /\ UNCHANGED <<cache, seen, text, shown, history>>

\* prewarm()'s loop: archetypes tried or cached are passed over.
Visit(p) ==
  /\ pc[p] = "visit"
  /\ \/ /\ key_(p) \in seen[p] \union DOMAIN cache
        /\ Loop(p, Tail(todo[p]))
        /\ UNCHANGED seen
     \/ /\ key_(p) \notin seen[p] \union DOMAIN cache
        /\ seen' = [seen EXCEPT ![p] = @ \union {key_(p)}]
        /\ pc' = [pc EXCEPT ![p] = "lookup"]
        /\ UNCHANGED todo
  /\ UNCHANGED <<cache, text, shown, history>>

\* explain() returns; prewarm() shows nobody what it got.
Return(p, source, entry) ==
  /\ shown' = IF Kind[p] = "prewarm" THEN shown
              ELSE [shown EXCEPT ![p] = Shown(s_(p).ledger_seq, source, entry)]
  /\ Loop(p, Tail(todo[p]))

\* A text about the summary at hand.
Anew(p, claims) == Entry(claims, s_(p).ledger_seq)

\* explain() reads the cache, and without a client is done.
Lookup(p) ==
  /\ pc[p] = "lookup"
  /\ \/ /\ key_(p) \in DOMAIN cache
        /\ Return(p, "cache", cache[key_(p)])
        /\ UNCHANGED <<asked, twice>>
     \/ /\ key_(p) \notin DOMAIN cache /\ ~client(p)
        /\ Return(p, "template", Anew(p, render_template(s_(p))))
        /\ UNCHANGED <<asked, twice>>
     \/ /\ key_(p) \notin DOMAIN cache /\ client(p)
        /\ asked' = [asked EXCEPT ![p] = @ \union {key_(p)}]
        /\ twice' = [twice EXCEPT ![p] = @ \/ key_(p) \in asked[p]]
        /\ pc' = [pc EXCEPT ![p] = "ask"]
        /\ UNCHANGED <<todo, shown>>
  /\ UNCHANGED <<cache, seen, text, failed>>

\* A plausible slip: try again, for as long as it takes.
CompleteRetrying(p) ==
  /\ pc[p] = "ask"
  /\ \E raw \in Completions(s_(p)) :
       LET valid == _validate(raw, s_(p))
       IN  /\ text' = [text EXCEPT ![p] = valid]
           /\ pc' = [pc EXCEPT ![p] = IF valid = NoText THEN "lookup" ELSE "put"]
  /\ UNCHANGED <<cache, todo, seen, shown, history>>

\* complete() returns or raises, after its timeout at the latest: a valid text
\* is kept, anything else gives the template.
Complete(p) ==
  /\ pc[p] = "ask"
  /\ \E raw \in Completions(s_(p)) :
       LET valid == _validate(raw, s_(p))
       IN  \/ /\ valid = NoText
              /\ failed' = [failed EXCEPT ![p] = @ \union {key_(p)}]
              /\ Return(p, "template", Anew(p, render_template(s_(p))))
              /\ UNCHANGED text
           \/ /\ valid # NoText
              /\ text' = [text EXCEPT ![p] = valid]
              /\ pc' = [pc EXCEPT ![p] = "put"]
              /\ UNCHANGED <<todo, shown, failed>>
  /\ UNCHANGED <<cache, seen, asked, twice>>

\* INSERT OR REPLACE: whoever puts last.
Put(p) ==
  /\ pc[p] = "put"
  /\ cache' = [k \in DOMAIN cache \union {key_(p)} |->
                  IF k = key_(p) THEN Anew(p, text[p]) ELSE cache[k]]
  /\ text' = [text EXCEPT ![p] = NoText]
  /\ Return(p, "llm", Anew(p, text[p]))
  /\ UNCHANGED <<seen, history>>

\* A statement on the cache raises, outside explain()'s try, or the command is
\* interrupted.
Stop(p) ==
  /\ pc[p] # "idle"
  /\ pc' = [pc EXCEPT ![p] = "idle"]
  /\ todo' = [todo EXCEPT ![p] = <<>>]
  /\ text' = [text EXCEPT ![p] = NoText]
  /\ UNCHANGED <<cache, seen, shown, history>>

Step(p) == Visit(p) \/ Lookup(p) \/ Complete(p) \/ Put(p)

Next == \E p \in Procs : Start(p) \/ Step(p) \/ Stop(p)

Spec == Init /\ [][Next]_vars

\* A process that was started runs on; the client's timeout ends a call.
FairSpec == Spec /\ \A p \in Procs : WF_vars(Step(p))

-----------------------------------------------------------------------------
(* The decision page: what happened at each tier.                          *)

\* A plausible slip: the order of the query, not of preference.
tier_rank_in_query_order(s, tier) ==
  Cardinality({t \in proposed_tiers_for(s.cause) : IndexOf(t) < IndexOf(tier)}) + 1

\* The 1-based place of a tier the ladder proposes.
tier_rank(s, tier) ==
  Cardinality({t \in proposed_tiers_for(s.cause) : t # tier /\ Prefers(s.cause, t, tier)}) + 1

_tier_states(s) ==
  [tier \in Range(QUERIED_TIERS) |->
     CASE tier = s.tier -> <<"taken">>
       [] tier # s.tier /\ s.tier_evaluations[tier] # {} -> <<"deny">>
       [] OTHER -> IF tier = "T4" THEN <<"fallback">>
                   ELSE IF tier \in proposed_tiers_for(s.cause)
                   THEN <<"not-preferred", tier_rank(s, tier)>>
                   ELSE <<"not-proposed">>]

-----------------------------------------------------------------------------
\* Type invariant.
TypeOK ==
  /\ DOMAIN cache \subseteq {archetype_key(s) : s \in recorded} \union DOMAIN Shipped
  /\ pc \in [Procs -> {"idle", "visit", "lookup", "ask", "put"}]
  /\ \A p \in Procs : /\ Range(todo[p]) \subseteq recorded
                      /\ (todo[p] = <<>>) = (pc[p] = "idle")
                      /\ (text[p] # NoText) = (pc[p] = "put")
                      /\ asked[p] \subseteq seen[p] \/ Kind[p] # "prewarm"
                      /\ shown[p].source \in {"none", "template", "cache", "llm"}

\* Whatever a model wrote, for whichever decision, and whoever put it in the
\* cache last: prose a reader is shown has no digit; and what was not in the file
\* already names no cause and no tier of another decision by its token, and says
\* of the cause, the tier, the action and the confidence what is as true, or as
\* false, of this decision as it was of the one it was written for.
ServedFitsItsDecision ==
  \A p \in Procs : shown[p].source \in {"cache", "llm"} =>
    LET s == summary_at(shown[p].seq)
        origin == summary_at(shown[p].of)
    IN  \A c \in shown[p].text :
          /\ ~HasDigit(c)
          /\ shown[p].of # 0 =>
               /\ ~NamesAnother(c, s)
               /\ c[1] \in {"cause", "tier", "action", "confidence"} =>
                    (<<c[1], c[2]>> \in Facts(s)) = (<<c[1], c[2]>> \in Facts(origin))

\* The summaries prewarm() is done with.
Behind(p) == {s \in Range(all_summaries) : s.ledger_seq < Head(todo[p]).ledger_seq}

\* "Distinct archetypes only -- a thousand payments of the same shape cost one
\* call", the ones that fail included; and behind a prewarm that has a client
\* every archetype is cached, or was asked for in vain.  Others fill the cache
\* meanwhile.
PrewarmCoversOnce ==
  \A p \in Procs : Kind[p] = "prewarm" /\ pc[p] # "idle" =>
    /\ ~twice[p]
    /\ client(p) => \A s \in Behind(p) : archetype_key(s) \in DOMAIN cache \union failed[p]

\* What the page says of a tier is why the ladder did not take it: a legal
\* tier it ranks behind the one taken, a tier the policy denied, or one the
\* ladder never asks for with this cause.  For every cause and every outcome
\* of the four queries.  (It is about no state: the first ones are enough.)
TierStatesAreTrue ==
  Range(shown) = {NothingShown} /\ Range(pc) = {"idle"} =>
  \A cause \in CAUSES, allowed \in SUBSET Range(QUERIED_TIERS) :
    LET taken == SelectTier(cause, allowed)
        s == [cause |-> cause, tier |-> taken,
              tier_evaluations |-> [t \in Range(QUERIED_TIERS) |->
                                      IF t \in allowed THEN {} ELSE {"denied"}]]
        state == _tier_states(s)
    IN  \A t \in ACTIONABLE_TIERS :
          /\ (state[t][1] = "deny") = (t \notin allowed)
          /\ state[t][1] = "not-proposed" => cause \in NotRetryable
          /\ state[t][1] = "not-preferred" =>
               taken \in ACTIONABLE_TIERS /\ state[t][2] > tier_rank(s, taken)

\* "Never fails, never blocks": an explanation that was asked for is given,
\* whatever the gateway does.
EveryRequestIsAnswered == \A p \in Procs : pc[p] # "idle" ~> pc[p] = "idle"

-----------------------------------------------------------------------------
\* cache.py: decisions of one archetype "get the same words, because the same
\* things are true about them".
SameThingsAreTrue ==
  \A p \in Procs : \A c \in shown[p].text :
    c[1] # "figure" => <<c[1], c[2]>> \in Facts(summary_at(shown[p].seq))
=============================================================================
