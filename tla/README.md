# Praman in TLA+

Praman attributes a failed payment to a cause, asks a policy engine (OPA) which
recovery tier is legal, records the decision in a hash-chained SQLite ledger,
acts for the treatment arm only, and measures what that recovered against a
holdout. This directory holds TLA+ models of the parts of it that carry its
promises, the TLC configurations that check them on small instances, and proofs
that TLAPS checks for instances of every size.

Paths below are relative to `src/praman/` in the repository unless they say
otherwise.

## 1. Inventory

| component | state | operations | interacts through |
|---|---|---|---|
| ledger writer: `ledger/chain.py`, `schema.sql` | the `ledger` table and its write-ahead log; `_PATH_LOCKS` of each process; SQLite's write lock | `connect`, `append`, `head_hash` | one file shared by threads and processes |
| verification and tampering: `chain.verify`, `cli._cmd_tamper` | the table, its append-only trigger | `verify`, `tamper` | the same file |
| ladder and OPA client: `kernel/ladder.py`, `kernel/opa_client.py` | the evaluations of one decline | `evaluate_ladder`, `evaluate` | four HTTP queries per decline |
| policy: `policy/retry.rego`, `policy/config/data.json` (repository root) | none; the loaded bundle | `deny_reason`, `allow` | OPA, a separate process |
| counters: `kernel/counters.py` | sorted times per key | `record`, `count`, `total` | the batch runner's memory |
| batch runner: `slice_runner.py` | position in the batch, counters | `run_batch` | ladder, ledger |
| ingest: `ingest/router.py`, `store.py`, `worker.py` | `webhook_events` in its own file | the webhook handler, `process_pending` | Razorpay; two files |
| taxonomy: `taxonomy/` | none | `cause_meta`, `posterior`, `normalise_razorpay` | batch runner, worker |
| replay: `ledger/replay.py`, `cli._cmd_verify` | an OPA process per bundle | `replay_ledger` | ledger, bundles in `dist/` |
| measurement: `measure/` | none | `assign_arm`, `estimate_from_ledger`, `required_n` | ledger |
| ablation: `attribution/ablation.py` | two ledger files | `run_ablation`, `paired_delta` | batch runner, measurement |
| explanations: `explain/`, the dashboard's decision page | an archetype cache in SQLite | `explain`, `prewarm` | an LLM gateway; one cache file for the dashboard and two commands |
| attribution models, simulator, other pages, scripts | none that others depend on | | |

What is hard, and what makes each part correct:

* **Ledger.** Threads of one process, several processes, a busy timeout, any
  statement raising, process death, power loss. The chain must never fork; a
  call must be all or nothing; what a call returned must lead to its own row;
  no lock may be leaked.
* **Tampering.** Three autocommitted statements, two operators, appends on top
  of edits. `verify` must name the first altered entry.
* **Ladder.** OPA can fail any of the four queries of a pass and can come back
  with another bundle between two of them. No action without the permission of
  a policy that really ran; the row must reproduce.
* **Batch runner.** A run dies between the rows of a decline; a second run goes
  over the same ledger; attempts fire hours after they are decided. Every
  actuation must follow its authorising decision; the counters must be what
  the ledger says; recovery is credited to us exactly when we acted.
* **Ingest.** At-least-once delivery, an answer that is lost, a worker dying
  between two files, two workers, power loss. One decision per delivery; what
  was answered 200 is kept and decided; a mark leads to its decision.

* **Replay.** An OPA process per revision on a port that was free a moment ago,
  slow, dying, or another verifier's; bundles missing, changed or swapped.
  "Reproduced" must be earned by every row, no failure may come from nowhere,
  and the command must end.
* **Measurement.** Experiments, dead runs and repeated runs share a ledger. An
  estimate must read its own outcomes, each once, in the arm the hash gives;
  what the ledger says was gained must be what the simulator's sealed truth
  says; two runs of an ablation must pair row by row; a batch size must not be
  selected by luck.
* **Explanations.** A gateway that fails, invents or hangs, one cache for three
  processes, entries replaced between a look and a page. What is shown must be as
  true of the decision as of the one it was written for, an archetype must cost
  one call, and whoever asks must be answered.
* **Codes.** A processor's reason passes a table, a rail key and an emission
  matrix before it is evidence; a gap in any of them makes it none.

`PROJECT.json` lists each hazard at its line, with the properties aimed at it.

## 2. Modules

| module | models | kind |
|---|---|---|
| `AppendOnlyLog` | what `append` promises: one atomic step, or nothing | abstract specification |
| `HashChain` | entries, the hash link, `verify`, the unique constraints | pure |
| `LedgerChain` | `append` statement by statement, both locks, death, checkpoints, power loss | state machine; implements `AppendOnlyLog` |
| `LedgerTamper` | `praman tamper` by several operators, and `verify`'s walk | state machine over `HashChain` |
| `CanonicalCauses` | class, retryability and default tier of the nine causes | pure |
| `RetryPolicy` | every rule of `retry.rego`, with and without the T4 exemption | pure, parameterised by `config` |
| `LadderRules` | policy input, proposed tiers, selection, recorded tier | pure; uses the two above |
| `Ladder` | `evaluate_ladder` query by query against a changing OPA, and the DECISION row | state machine |
| `WindowedCounters` | `bisect`, `record`, `count`, `total` | pure |
| `Estimator` | arms by hash, CUPED-adjusted difference of means | pure, parameterised by `bucket` |
| `BatchRun` | `run_batch`, run after run, what it tallies, the estimate it ends with, the gate of `praman run-batch`, and the dashboard's overview | state machine; composes `LadderRules`, `RetryPolicy`, `WindowedCounters`, `Estimator` |
| `Ablation` | two runs of an experiment compared payment by payment | over `BatchRun` |
| `PowerCurve` | the batch size a measured curve recommends | pure, over `BatchRun` |
| `Taxonomy` | priors, emissions and signals of each code; posterior | pure; uses `LadderRules` |
| `Normalise` | Razorpay's reasons, and the decline the worker makes of a webhook | pure, over `Ladder` |
| `Ingest` | endpoint, delivery log, worker, both files | state machine |
| `Replay` | `praman verify`: `replay_ledger`, `BundleServer`, the verdict; the dashboard's attestation page | state machine over `HashChain` |
| `Explain` | `explain`, `prewarm`, the cache they share, the decision page | state machine over `LadderRules` |
| `MC*` | constants for TLC | |
| `TableRows` | what a query of an append-only table returns | pure; for proofs |
| `OperatorLemmas` | facts about tables, bisection, counters, selections, ranks and sums | proofs, used by five of the next |
| `LedgerChainProofs`, `LedgerTamperProofs`, `LadderProofs`, `BatchRunProofs`, `IngestProofs`, `ReplayProofs`, `ExplainProofs` | theorems about the module each is named after; `LadderProofs` also about `Normalise` and `Taxonomy`, `BatchRunProofs` about `WindowedCounters`, `Estimator`, `Ablation` and `PowerCurve` | proofs |

How they fit: `LedgerChain` establishes that `append` is atomic and that the
lookup by hash finds the caller's row; `LedgerTamper`, `BatchRun` and `Ingest`
therefore take an append, with that lookup, as one step. `Ladder` establishes
what one pass over the tiers can produce under failures; `BatchRun` uses the
same `SelectTier` and `RecordedTier` with an OPA that either answers every query
or none. `Ablation` reads the ledger that `BatchRun` writes, and `Explain` the
rows that `LadderRules` and `RetryPolicy` make of its declines. What a pass
may see in between - one query failing and not another, a bundle changing - stays
in `Ladder`, and `BatchRun` does not repeat it.

### Correspondence with the code

* A **hash** is modelled by what it commits to. `entry_hash(prev, row)` covers
  `prev` and the row, so, SHA-256 being taken as free of collisions, a hash
  determines the rows up to its entry: it is modelled as that sequence. A row is
  a value, all of its `FIELDS` together; `FloatRows` are rows with a float
  somewhere, which `canonical_bytes` rejects.
* `pc` in `LedgerChain` is the next statement of `append`: `lock` (the
  threading lock), `begin` (`BEGIN IMMEDIATE`), `head`, `insert`, `commit`,
  `return`. `Fail` is the `except Exception` branch and can happen at any
  statement inside the `try`; `BusyTimeout` is outside the `try` and has no
  `ROLLBACK`; `RefuseFork` is the `IntegrityError` branch.
* `synced` is how many entries the last WAL checkpoint put into the database
  file. `synchronous=NORMAL` syncs there and not at `COMMIT`, so `PowerLoss`
  leaves any prefix no shorter than that.
* A bundle may leave fields out of its result (`Has`): one loaded without
  `data.revision` echoes none, and a path that leads elsewhere has none at all.
  `_parse` then takes the default of each, and notes no failure
  (`kernel/opa_client.py:116`).
* In `Ladder`, `evaluations` is the dictionary of the loop, in the order of
  `QUERIED_TIERS`; `Query` is one `client.evaluate`; `Decide` the selection and
  the properties of `LadderOutcome` that fill the row. `OpaChanges` may happen
  between any two queries.
* A posterior is a number of ten-millionths, so that `prob_str`'s rounding to
  six places is a real conversion; a half is rounded up, where the code rounds
  the nearest binary fraction, a difference of one ten-millionth at the edge.
* In `BatchRun`, `pc` is the next append of the loop's body. Times are hours of
  Indian Standard Time, which is fine enough for the 1 h, 7 d and 30 d windows
  and the 6 h and 24 h delays. Whether a payment recovers, with and without our
  action, is part of the decline, as in the simulator.
* A run of `BatchRun` is one call of `run_batch` with its arguments, `plan`: the
  experiment, the share of the holdout and the posterior of each decline.
  `actioned` and `results` are its locals of that name, one result per run.
  `Estimate` is everything after the loop; `tally` is what `RunResult` counts
  as the loop goes. `overview`, `run_batch_passes` and `_experiments` are what
  others read off the ledger: the overview page's counts, the exit code of
  `praman run-batch`, and the page's table of experiments. In `Estimator` numbers are whole and
  a quotient is a pair, so that the identities `AblationIsPaired` states are
  exact; the hash is the constant `bucket`.
* In `Ablation` the rows one run wrote are its ledger file: `run_ablation` gives
  each run a file of its own, and `load_experiment` would not see the others. Run
  twice on one directory it would append to those files; its only caller,
  `praman ablation`, gives it a directory that is new (`cli.py:473`).
* In `Explain` a text is the set of claims it makes. A claim is a kind, a value
  and its wording, as `<<"cause", c, "words">>`: `token` is the canonical name of
  a cause or a tier, or a digit, and `words` is plain English. That is all the
  validator looks at (`explain/service.py:147-160`): it finds another cause or
  tier by its token (`NamesAnother`) and any digit (`HasDigit`), and lets "the
  card was reported stolen" and "four separate rules" pass, as
  `tests/test_explain.py:184` wants of the second. What it never looks for
  (rules, rails, actions) are further kinds. A rule counts as blocking whichever
  tier it denied. `pc` is the next call that leaves the process: `visit` and
  `lookup` read the cache, `ask` waits for the model, `put` writes. `asked`,
  `twice` and `failed` are history variables, and so is `of`, the entry a text
  was written about.
* The cache file is opened as it is found (`Shipped`; the repository has
  `data/explanations.db`) and what is in it is served unread, also for a ledger
  it was not written for. Both limits of `explain/from_ledger.py` are kept:
  `all_summaries` ends at `MaxSummaries` rows (5000 in the code), so a prewarm
  covers the oldest of a longer ledger, and the command shows `ShownAtMost`.
* In `Taxonomy` probabilities are percent and the likelihood of an observation
  its code's alone; a row of the emissions is a set of pairs. In `Normalise`
  reasons that share an entry of the table are one.
* In `PowerCurve` the median is stated by ranks (`Smallest`) and the sorted curve
  by the rank of each point (`ordered`), not by sorting. A size that a grid
  repeats keeps its points in their order, as Python's stable sort does.
* In `Ingest`, `log` is the sequence of committed writes to the delivery log,
  `insert` or `mark`, so that a power cut can take a tail of it; the operators
  `Stored`, `processed` and `pending` read the table off it. A body in
  `Malformed` is one the worker raises on every time (`Raise`).

* In `Replay` a verdict stands for `opa_allow` and the sorted deny-set, and a
  bundle is the revision it carries with the verdict it gives each input, filed
  under the revision in its file name. `server` is a `BundleServer` with its OPA
  process: `starting` (no socket yet), `listening`, `active`, `dead`. Requests go
  to whoever listens on the port. `disturbed` is a history variable: OPA failed
  the command, or another command's OPA answered it.

Operators introduced by "A plausible slip" are not part of any specification.
They are the code's step with one mistake in it, and serve to show that a
property notices the mistake: substituting the slip for the operator below it
makes TLC report the property violated.

## 3. Runs

Passing runs:

| run | checks | instance |
|---|---|---|
| `ledger` | `TypeOK`, `ChainIntact`, `LockSuffices`, `AckedIsRecorded`, `Atomic` (refinement), `LocksAreReleased` (liveness) | 3 threads in 2 processes, 2 rows one of which holds a float, processes die, power fails |
| `tamper` | `TypeOK`, `TamperIsPinpointed`, `TriggerIsRestored` | 2 operators (symmetric), 3 rows one of which holds a float, 3 entries |
| `ladder` | `TypeOK`, `ActsOnlyIfPermitted`, `GuessesAreNotActedOn`, `HumanIsAlwaysLegal`, `RowsReplay`, `WebhookCodesAreEvidence`, `EveryDeclineIsDecided` (liveness) | 20 declines that put each rule at its edge for a retryable and for another soft cause, one of every cause, 4 bundles; every Razorpay reason on 5 rails |
| `batch` | `TypeOK`, `EveryActuationIsAuthorised`, `OutcomesAreAttributed`, `CapBindsOnThePast`, `CountersAreActuations`, `CountIsExact`, `EstimateReadsItsExperiment`, `LedgerAgreesWithSealedTruth`, `AblationIsPaired`, `MissesAreBehind` | 4 declines around the hour and the week, 3 customers, 2 runs of 4 plans, deaths anywhere; every curve of 3 points over 3 sizes and 5 effects |
| `ingest` | `TypeOK`, `DecisionsAreBounded`, `ProcessedIsRecorded`, `AnsweredIsStored`, `AnsweredIsDecided` (liveness) | 3 events of one payment, one of which cannot be read and two of which share a key, 2 workers, one death or power cut |
| `replay` | `TypeOK`, `AttestationIsProof`, `FailHasACause`, `VerifyEnds` (liveness) | 2 verifiers, 2 ports, ledgers of up to 2 of 3 rows, 3 states of `dist/` |
| `explain` | `TypeOK`, `ServedFitsItsDecision`, `PrewarmCoversOnce`, `TierStatesAreTrue`, `EveryRequestIsAnswered` (liveness) | the dashboard, `praman explain` and `praman prewarm`, 5 decisions of 3 archetypes, a cache file with an untrue entry, a model with six answers, limits of 4 and 2 rows |

What they show together: the chain is never forked and its locks alone see to
that; `append` is one atomic step and its result leads to the caller's own row;
no path leaks a lock; tampering is located exactly; the ladder acts only on the
word of a policy that ran, and its rows reproduce as long as the answers of a
pass come from one bundle; an actuation is never detached from its
authorisation by a crash or a re-run, and the counters the policy sees are what
the ledger says; a delivery answered 200 is kept and, if no unreadable one is
before it, decided, at most once per
worker, once more per worker for each power cut, and once more for each death;
`praman verify` says that decisions were reproduced only if their own committed
bundles reproduce them,
whatever happens to its OPA processes; an estimate reads its own experiment,
agrees with the sealed truth, and two runs of an experiment differ by exactly
the effect of what they did differently; of what a model wrote, nobody is shown a
digit, or another cause or tier by its canonical name, however the cache is shared;
every code of a webhook is judged on evidence.

They do not show that prose is true. A cause in plain words, a figure spelled out
and a made-up action pass the validator, are cached, and are shown for every
decision of the archetype; `ServedFitsItsDecision` says of those that sharing the
cache makes nothing false that was true of the decision they were written for, in
what the archetype's key holds.

Runs that exhibit a disagreement between the code and what a comment, a
document or a test says of it (`PROJECT.json`, "findings", quotes each):

| run | property | what TLC finds |
|---|---|---|
| `ladder_t4` | `FailsClosedToT4` | with OPA down a soft decline ends in T0, not T4 |
| `ladder_outage` | `EveryPinnedRowReplays` | one failed query in a pass makes an unreproducible row |
| `batch_velocity` | `BinVelocityEnforced` | attempts decided within the 6 h delay do not see each other |
| `ingest_death` | `OneDecisionPerDelivery` | a worker dies between append and mark, the next one decides again |
| `explain_archetype` | `SameThingsAreTrue` | prose about one decision is quoted for another that different rules blocked |

Other disagreements met while modelling, which the models show and no run is
spent on:

* `connect` sets `synchronous=NORMAL` in WAL mode (`ledger/chain.py:128`), so a
  power cut can take a row after `append` returned and its caller acted, where
  `chain.py:149-151` says that the audit trail exists to make this "impossible".
  `AckedIsRecorded` excepts what a power cut took.
* `required_n` (`measure/power.py:186`) takes the larger of the measured size and
  the fitted one, "the more conservative". When no measured batch resolves the
  effect the measured rule returns 0, so the fit alone is recommended, which may
  be a size that was measured to miss. `MissesAreBehind` therefore begins "when
  the measured rule names a size".
* The arm is "re-derivable ... from the customer id alone" (`measure/assign.py:14`)
  only for one `--holdout-pct`, which every command takes anew: repeating an
  experiment with another share on the same ledger puts customers in both arms,
  and the estimate pools both runs, with the interval of none of them. The models
  let it happen, and run `batch` has such a plan: `EstimateReadsItsExperiment`
  says that each outcome is in the arm of the share its own DECISION row records,
  which `ledger/records.py:70` asks for, and `AblationIsPaired` is about runs of
  one share, as `run_ablation` makes them. The worker and `run-batch` have the
  same default experiment.
* A stored body that the worker raises on, such as one whose `amount` is no number
  (`ingest/worker.py:160-164`), stays pending and is fetched first by every later
  `process-webhooks`: nothing behind it is ever decided. `AnsweredIsDecided`
  excepts an event that is `Blocked` so.
* `proposed_tiers_for` says that "an authentication failure is not retryable" and
  that the ladder skips its silent retry (`kernel/ladder.py:184-186`). The
  taxonomy has AUTH_FAILURE retryable, so the code proposes T1 for it, and takes it
  where the policy allows it; so do the models.
* `run_batch` raises from its estimate after the whole batch has been written
  and acted on if an arm is empty (`measure/harness.py:210`); `Die` covers it.
* `explain` "never fails" (`explain/service.py:166`) except by the cache's SQLite
  errors, which are outside its `try` (`Stop`). "Each distinct decision shape is
  generated once" (`explain/llm.py:49`) except by racing processes: the later
  `INSERT OR REPLACE` replaces what was already quoted.
* The template says what "we" did of holdout decisions too, where nothing was
  done (`explain/template.py:96`).
* Nothing reads `cause_hint`. The taxonomy's likeliest cause differs from it for
  a blocked instrument and for the reasons that become U16 (ISSUER_RISK_BLOCK
  is likelier); `WebhookCodesAreEvidence` shows that the tier is the same.
  `cardless_emi` begins with `card` and so takes the cards' emissions; on
  `netbanking` and wallets the posterior is the prior.
* `append` increments `LEDGER_ENTRIES` (`ledger/chain.py:179`), which starts at
  zero in every process and is never set from the table: it is not the "current
  ledger height" that `metrics.py:61` calls it (variable `gauge`).
* `praman tamper` drops the trigger, updates and recreates it in three
  autocommitted statements (`cli.py:160`). If it stops after the first the
  table stays without its append-only trigger, since `connect` creates triggers
  only with a missing table. `TriggerIsRestored` therefore excludes runs in
  which a command was `abandoned`.
* A value that is not all digits becomes a REAL in an INTEGER column, and
  `verify` then raises out of `canonical_bytes` (`ledger/canonical.py:28`) and
  returns no verdict. `StoppedAt` counts it as stopping at that entry.
* The row takes the first known revision of the pass (`kernel/ladder.py:91`);
  when OPA changes its bundle within a pass, the revision can be another one
  than the verdict's. `RowsReplay` has the condition that it did not.
* `run_batch` counts attempts from zero in each run (`slice_runner.py:169`), so
  a second run over the same ledger may exceed the per-payment ceiling of
  `LIMITATIONS.md:137`. `CountersAreActuations` is about one run.
* The policy is asked about the hour of the decline and the retry fires six
  hours later (`slice_runner.py:270`): a mandate declined at 05:00 is allowed
  and fires at 11:00, inside the blackout of `retry.rego:83`.
* Two processes running `praman process-webhooks` fetch the same rows
  (`ingest/worker.py:150`) and both decide them; `DecisionsAreBounded` counts one
  decision per worker.
* When `_await_ready` raises, `__exit__` does not run (`ledger/replay.py:129`), so
  a process that was slow and not dead stays, with its port; in `Replay` it may
  answer a later command. `AttestationIsProof` holds even so, because each row
  is compared with the revision that answered (`ledger/replay.py:288`).
* A query that fails during replay becomes a divergence of the policy
  (`ledger/replay.py:338`), so a verdict of FAIL may have no other cause than
  OPA; `FailHasACause` counts that as one.
* After a power cut the two files are back at two different moments, so a mark
  may name a sequence number that the next decision takes;
  `ProcessedIsRecorded` and `AnsweredIsStored` are claimed only until a cut.
* Without the event id header the key is made up from the payment
  (`ingest/router.py:94`), so a payment's second event is dropped as a duplicate
  of its first; `AnsweredIsStored` claims an event's own body only with the
  header.
* `_customer_key` takes the first identifier a payload carries
  (`ingest/worker.py:82`), so a person whose payments carry different ones may be
  in both arms, as the two events of `MCIngest` are.

### Bounds

* `MaxEntries = 2` in `ledger`: three threads are the fewest with two in one
  process (who meet at the path lock) and one in another (who meets them at
  SQLite's lock). The bound stops calls from *starting* on a full ledger; the
  three calls in flight may still take it to four entries, so links to genesis,
  to an entry of the same process and to one of another all occur.
  `LedgerChainProofs` removes the bound.
* `MaxEntries = 3` in `tamper`, two operators: one edit comes before, on and
  after another, with appends chained on an edited entry.
* One pass of the ladder starts from cleared evaluations, so passes do not
  interact, and one pass per decline in any order is every behaviour. Each rule
  of the policy occurs just firing and just not firing. The rules ask for no more
  of a cause than its class, so the edges are tried with two causes, and every
  cause occurs once. The bundles are the committed one, the one before the
  exemption, one without a revision and one with nothing at our path.
* `MaxRuns = 2` in `batch` is the smallest number with a second run over a used
  ledger. Caps of one are reached by one attempt, which fires exactly one hour
  before a decline that must count it (bob's), two hours before one that must not
  (carol's), and exactly seven days before the customer's next decline.
  `batch_velocity` needs one run of two declines.
* `CountIsExact` looks at every sequence of up to four of the times at which the
  batch's retries fire, in any order, and at every window the code asks for: ties,
  both edges of a window, every insertion point of `bisect`.
* `MaxDeaths = MaxCuts = MaxFaults = 1` and `Limit = 2` in `ingest`: one
  death or one power cut, at every point of every order of two
  fetch-append-mark sequences. The mark that a fault separates from its append
  needs one fault; further faults add decisions one by one, which the
  bound of `DecisionsAreBounded` counts. A file is checkpointed at its third
  entry (`Checkpoints`), when a row may have been decided and marked, and checkpoints stop mattering, and stop, after the last
  power cut. Two of the three events share a made-up key, so the one that cannot be
  read takes the place of one that can, before or after the third.
  `ingest_death` has one worker, no such event and no power cut.

* In `replay` two rows give the ledgers with one revision and with two, and two
  verifiers with two ports every collision: both ask for a port before either's
  OPA binds it, one's process dies and its port goes to the other, one gives up
  and leaves its process behind. Rows come only while no command has fetched its
  own (`NoneReplays`) and the one edit before a command runs (`NoneRuns`): later
  ones concern no command that has its rows. That bound is `Late = FALSE`;
  `ReplayProofs` needs neither it nor any other, and its `Late = TRUE` lets rows
  and edits come at any time. `mode` is `replay` or `require`;
  without replay the command is `verify`, which `tamper` covers.

* Four plans in `batch`: one experiment under two attributions, which is an
  ablation, the same with a share that puts one customer into the other arm, and
  another experiment in which the customers at the edges of a
  fifth and of a half of the buckets change sides. With two runs every pair of
  plans occurs, each plan twice included, with OPA gone for any decline of
  either and a death of either anywhere. Amounts, covariates and customers
  differ so that CUPED's theta does not vanish, and one holdout payment recovers.
* `MissesAreBehind` looks at every curve of up to three points of the sizes 1000,
  4000 and 9000, repeated ones included (`Grid`) with detectable effects up to four
  (`Effects`), in every
  order. It is about no state, so it asks only before the first run, when a size
  is to be chosen; `MissesAreBehindOnEveryCurve` is the same without that.
* Three archetypes in `explain`: three decisions of one, of which two differ in
  the rules that denied their tiers; a fraud, for which the cache file already has
  an entry that is not true; and one beyond the limit of `all_summaries`. The
  command shows two of the three deadlocks. The model repeats a claim of its
  prompt, names another cause by its token or in words, gives a figure, or
  nothing. `explain_archetype` has a model that only repeats its prompt, and an
  empty cache.
* A reason of Razorpay's table occurs with every decline of `ladder`, with every
  bundle, on cards, UPI, AutoPay, a rail with a family and a rail with none.

`CHECK_DEADLOCK FALSE` appears in the batch runs, which end when `MaxRuns` runs
have ended, and in `replay`, where the commands end.

### Fairness

* `LedgerChain`: weak fairness of each writer's next statement, which is the
  operating system scheduling threads. Waiting for a lock needs no stronger
  assumption: the busy timeout ends the wait for SQLite's lock, and a thread that
  starves at the path lock does not hold it. No fairness on `Call` or `Crash`.
* `Ladder`: weak fairness of `Query` and `Decide`. The HTTP client has a
  timeout, so a query ends whatever OPA does; nothing is assumed of OPA.
* `Ingest`: weak fairness of each worker's steps. `praman process-webhooks` is a
  command that somebody runs; the liveness property is what it means to run it
  for as long as rows are pending. Nothing is assumed of Razorpay.

* `Replay`: weak fairness of a started command's steps, whose waits for OPA are
  all bounded by timeouts. Nothing is assumed of the OPA processes, which may
  never bind, never activate their bundle, or exit.
* `Explain`: weak fairness of each process's next step. The client is built with
  a timeout and one retry (`explain/llm.py:36`), so a call to the model ends,
  and nothing is assumed of what it returns. No fairness on `Start` or `Stop`.

## 4. Proofs

TLAPS proves each of these for every value of the constants: any number of
processes, rows, events, declines, runs and revisions, any policy configuration
and posterior, and any value of the bounds. In each, the property
is the one a run checks on a small instance. Every invariant that a passing run
checks is among them.

| module | theorem | property |
|---|---|---|
| `LedgerChainProofs` | `TypeCorrect` | `TypeOK` |
| | `ChainAlwaysIntact` | `ChainIntact`: `verify` accepts every reachable ledger, power cuts included |
| | `LockAlwaysSuffices` | `LockSuffices`: the `UNIQUE(prev_hash)` constraint never fires |
| | `AckedAlwaysRecorded` | `AckedIsRecorded`: a returned hash leads to the caller's row, until a power cut takes it |
| | `AppendIsAtomic` | `Atomic`: every step maps to a step of `AppendOnlyLog` or a stutter |
| `LedgerTamperProofs` | `TypeCorrect` | `TypeOK` |
| | `TamperAlwaysPinpointed` | `TamperIsPinpointed`: `verify` names the first entry that is not as it was written, and accepts if there is none |
| | `TriggerAlwaysRestored` | `TriggerIsRestored`, unless a command stopped halfway |
| `LadderProofs` | `TypeCorrect` | `TypeOK` |
| | `ActionsArePermitted` | `ActsOnlyIfPermitted`: no action without a permission of this pass by a policy that ran |
| | `GuessesNeverActedOn` | `GuessesAreNotActedOn`: none on a posterior below the floor, as the policy compares it |
| | `HumanAlwaysLegal` | `HumanIsAlwaysLegal`: a soft decline is terminated only if T4's query failed or its bundle has no exemption, or no verdict |
| | `RowsAlwaysReplay` | `RowsReplay`: a row that names a bundle reproduces, if one bundle answered the pass |
| | `CodesAlwaysEvidence` | `WebhookCodesAreEvidence`, for any decline and any configuration whose confidence floor is above the priors |
| `BatchRunProofs` | `TypeCorrect` | `TypeOK` |
| | `ActuationsAlwaysAuthorised` | `EveryActuationIsAuthorised`: by one earlier decision, allowed, treated, used once; no reader counts a violation and no finished run fails its gate |
| | `OutcomesAlwaysAttributed` | `OutcomesAreAttributed`: credited to us exactly when we acted |
| | `CapAlwaysBindsOnThePast` | `CapBindsOnThePast` |
| | `CountersAlwaysAreActuations` | `CountersAreActuations`: four binary-searched counters and the tally are what SQL would count |
| | `EstimatesReadTheirExperiment` | `EstimateReadsItsExperiment`: each outcome once, joined to its decision, in the arm of that decision's share, for any plans |
| | `LedgerAlwaysAgreesWithSealedTruth` | `LedgerAgreesWithSealedTruth`: a run's rows add up to what the simulator sealed |
| | `AblationsAlwaysPaired` | `AblationIsPaired`: runs of one share pair row by row, and effects subtract exactly |
| | `CountsAlwaysExact` | `CountIsExact`: whatever order a batch's attempts are recorded in |
| | `MissesAlwaysBehind` | `MissesAreBehind`, for any grid of sizes and any effects; `MissesAreBehindOnEveryCurve` is the same of one curve |
| `IngestProofs` | `TypeCorrect` | `TypeOK` |
| | `DecisionsAlwaysBounded` | `DecisionsAreBounded`: each worker decides a delivery at most once, and once more per power cut; each death adds one |
| | `ProcessedAlwaysRecorded` | `ProcessedIsRecorded`, until a power cut |
| | `AnsweredAlwaysStored` | `AnsweredIsStored`, until a power cut |
| `ReplayProofs` | `TypeCorrect` | `TypeOK` |
| | `AttestationAlwaysIsProof` | `AttestationIsProof`: "reproduced" is earned by every row, and the page agrees |
| | `FailAlwaysHasACause` | `FailHasACause`: no phantom divergence while OPA serves |
| `ExplainProofs` | `TypeCorrect` | `TypeOK` |
| | `ServedAlwaysFitsItsDecision` | `ServedFitsItsDecision`: what the validator's two scans and the archetype's key see to, and no more |
| | `PrewarmAlwaysCoversOnce` | `PrewarmCoversOnce`: one call per archetype, and no archetype forgotten |
| | `TierStatesAlwaysTrue` | `TierStatesAreTrue`: the page says of each tier why it was not taken |

### Assumptions

They are the named `ASSUME`s of the modules, and TLC evaluates them in the runs.
Most give the constants their kinds. Those that say something of the world:

* `WritersAssumption`: `NoOne`, the holder of a free lock, is not a writer.
* `RevisionsAssumption`: no bundle is called `unknown`, which is what the client
  records when there was no answer.
* `BatchAssumption`, `PaymentsAssumption`: a batch is not empty, comes in the
  order of time, and numbers its payments, as the simulator makes it.
* `EventIdAssumption`: Razorpay's event ids are unique and do not begin with
  `noeid`, the prefix of the keys the endpoint makes up. `ArmAssumption`: the
  arm is one of two.
* `BucketAssumption`: a hash bucket is one of the ten thousand.
* `PowerAssumption`: the grid of a power curve is a finite set of sizes, and
  effects are natural numbers.
* `ShippedAssumption`: no text in the cache file as it is found has a digit, which
  `tests/test_explain.py:367` checks of the committed one. Nothing else is assumed
  of that file.
* `ReplayAssumption`: no file of `dist/` is named after `unknown`. What the
  bundles carry, and under which file names, is left open.

One theorem has a hypothesis of its own: `CodesAlwaysEvidence` asks that the
configured confidence floor be above every prior (26 % is the largest; the
committed floor is 40 %). On a rail without emissions the posterior *is* the
prior, and with a lower floor a payment on `netbanking` would be retried as
`INSUFFICIENT_FUNDS` whatever the processor said.

### The arguments

None of these properties is inductive as it stands. Each module has an `IInv`
that is, in named parts, and the proof that a step keeps it has a lemma or a
step per action.

* **`LedgerChainProofs`.** Nothing in `ChainIntact` prevents a commit whose link
  is stale. `LockInv` adds that a writer is between `BEGIN IMMEDIATE` and
  `COMMIT` exactly if it holds SQLite's write lock, that what it read as the head
  *is* the head from that read on, and that its open transaction holds exactly
  the entry that follows; `HashesGrow`, that entry i commits to i rows. From
  `LockInv` a commit extends an intact chain by its right successor
  (`ExtendIntact`); from `HashesGrow` that successor's hashes are new, so the
  unique constraint has nothing to refuse (`LinkedEntryIsUnique`); a power cut
  leaves a prefix, and a prefix of an intact chain is intact (`PrefixIntact`).
  `AckedIsRecorded` needs what a writer between `COMMIT` and its return knows of
  the table (`AckInv`), that a recorded entry stays where it is
  (`RecordedStays`), and that what a power cut leaves of it is still that entry.
  The refinement uses `IInv` and one step per action.
* **`LedgerTamperProofs`.** An edit changes a row and never a stored hash, so
  whatever has been edited `StoredChain` holds: positions, links, and hashes that
  commit to the rows *as written*. An entry then verifies exactly if its row is
  the one written (`BadIsAltered`), and the least altered entry is where
  `verify` stops. `TriggerInv` is the disjunction of who may have the trigger off.
* **`LadderProofs`.** `EvaluationsInv`: each evaluation is the fail-closed denial
  or the answer of some bundle to this decline's input at this tier.
  `RowInv`: the row is computed from the four of them. Everything then follows
  from `Selection`, which is about `SelectTier` alone, and from the rules of
  `RetryPolicy`, for every `config`. For webhooks, each code of a family of
  rails points to one cause (`PointsTo`): what it weighs for that cause is more
  than for any other that emits it. The hinted cause is that one but for card
  code 62 and UPI code U16, whose signals forbid every action, as the floor does
  on a rail without emissions; and two causes of one class are the same input to
  the policy (`SameInput`), so that where no action is legal both end alike
  (`SameTier`).
* **`BatchRunProofs`.** A row names only rows before it and is never changed, so
  what was true when it was appended stays true (`OldRowsKept`); `IterationInv`
  ties the iteration's locals to the rows it has appended so far, which is what
  makes it true when it is appended. A counter is a sorted sequence searched by
  bisection; `CounterInv` says that for *any* set of times it holds as many
  events as the run has actuations at those times that count against its key, and
  `WindowIsExact` that `count` finds the number in a window. `TallyInv` does the
  same for the tally. For the estimate, `ReadInv` says of an outcome
  what the estimator will join to it, and `ProgressInv` that a run at decline i
  has i - 1 outcomes, of i - 1 payments.
  The sealed truth and the ablation need more than where a run stands:
  `HistoryInv` says of *every* run, past ones included, that its n-th outcome is
  of the n-th decline, with its payment, customer and covariate, and recovered
  with our action or without as the run's ACTUATION rows say, only the treated
  having any. So the outcomes of a run that was scored correspond one to one to
  the batch (`CompleteRun`), sums over rows become sums over the batch
  (`SumRenamed`), and what is left is linear (`SumLinear`). Of two runs of an
  experiment the two columns are the same but for y, so theta's denominator is
  the same and the estimate of the differences is the difference of the
  estimates (`EstimateOfDifferences`).
  For the counters alone, recording a sequence of times in any order leaves a
  sorted one with as many events at any times (`AllAreRecorded`), and
  `WindowIsExact` does the rest. For the power curve, the j-th point of the
  ordered curve is the one with j - 1 smaller sizes (`OrderedPoints`); a point
  that missed is before the crossing, for everything from there on detects, and
  so is smaller than what is recommended.
* **`IngestProofs`.** `DecisionsAreBounded` says nothing of what is yet to come.
  `PotentialInv` does: the decisions on a delivery, with the workers that may
  still decide it though nothing fails any more (`Open`), stay within the
  bound. An append moves its worker from one side to the other, a mark closes it
  for everyone who has not fetched it, and each death or cut adds what the bound
  then allows.
* **`ReplayProofs`.** The report holds three numbers. `CountInv` says that they
  count: the rows a command fetched fall into those reproduced, without input,
  diverged, left of this revision, of revisions to come, and without a bundle,
  and no row is in two of the first five. A number that equals the total leaves
  no room for a row that was not reproduced.
* **`ExplainProofs`.** Every text in the cache that was not in the file passed the
  validator for *some* decision of the archetype it is filed under (`CacheInv`).
  The archetype's key holds the cause, the tier, with it the action, and the
  confidence band (`KeyTells`), so two decisions of one archetype agree in these
  (`ArchetypesShareTexts`), which is all that `ServedFitsItsDecision` claims, and
  less than `SameThingsAreTrue` would. `OnceInv`: `prewarm` looks a key up only after it
  entered it into `seen`, and whatever is in `seen` was tried but for the one at
  hand. `TierStatesAreTrue` is about `SelectTier` alone: `Prefers` is a strict
  order, so what is taken ranks before whatever else was permitted, and the
  number of tiers before one (`PreferredRanksLower`) tells which came first.

`OperatorLemmas` holds what several of them use. `BisectRight`, `BisectLeft`,
`InsortCounts` and `WindowIsExact` are about `WindowedCounters`: for every sorted
sequence, the binary search, written as a recursive function, ends between the
smaller and the larger events, and `count` is the number of events in the
window. A sum over a finite set is the library's `SumFunction`, a fold that picks
its members by `CHOOSE`: `SumEquation` shows that the fold exists and takes one
member off, `SumMember` that any member may go first, and `SumSame`,
`SumLinear`, `SumRenamed` and `SumOfPart` that it is what one means by a sum.
`NthProperties` is about the n-th smallest of a set of numbers.

The library's induction theorems cannot be used here (they take an
operator), so an induction is carried by `LeastMember`: a set of natural numbers
that is not empty has a least one, and the least counterexample has a smaller
one, or by `SubsetInduction`. `SelectedProperties` is about the rows a query returns (`TableRows`).

### What trying to prove them showed

* `AttestationIsProof` used to say that the rows reproduce under the bundle
  filed under their revision, always. The proof of `Evaluate` failed: once
  another command's OPA answers, the verdict is compared against whatever
  bundle carries that revision, which another *file* may. It takes two files
  that carry one revision and disagree, and commands that fetched different
  ledgers, which the run's bound excludes. The property now says which of the two
  holds when.
* `PrewarmCoversOnce` was stated of every prewarm. One without a key is given the
  template at once and so covers nothing; the run had no such process.

* `MissesAreBehind` was stated of a sorted curve. `SortSeq` of the standard
  modules and its permutations tell the prover nothing, so the curve is ordered
  by rank, and the median is a value with so many below it; TLC found the two
  forms equal on every curve of the run before the old one went. For the same
  reason the estimator adds up with `SumFunction` and the emissions are sets of
  pairs.
* `WebhookCodesAreEvidence` looked like a fact about fixed tables. The proof
  stopped at `netbanking`, where it rests on the configured confidence floor:
  hence the theorem's hypothesis.
* `EstimateReadsItsExperiment` rested on an assumption that an experiment keeps its
  share of holdouts. With the share of each decision's row in its place the
  assumption was not needed.
* `CountIsExact` was about times and windows of its own making. It is now about
  the firing times of the batch and the three windows the code asks for.

### Only model-checked

* Liveness, `LocksAreReleased`, `EveryDeclineIsDecided`, `AnsweredIsDecided`,
  `VerifyEnds` and `EveryRequestIsAnswered`: the prover has no rules for
  fairness or `ENABLED`.
* The disagreements of section 3, which are counterexamples.
* That the tables of `Taxonomy` and `CanonicalCauses` are those of the YAML file
  is nobody's theorem: they are copied.

## 5. Not modelled

* Schema creation in `connect`, the bytes of canonical JSON, and `to_row`:
  formatting of one row, covered by unit tests.
* Signature checks and redaction: pure functions of one request.
* The bootstrap and its BCa intervals, the validation over random worlds, power
  points, `report`'s three tiers: random draws and reals. A point of a power
  curve enters `PowerCurve` as an input.
* Training, calibration, the information ratios and the simulator's sampling:
  their results enter as posteriors and declines. Side signals (CVV, expiry,
  AVS), the US priors, and the Stripe and Adyen tables, which only tests use.
* The layout of the dashboard's pages and the wording of explanations. Scripts:
  sequential, run once.

## 6. Plan

Done, in the order of importance: the ledger, tampering, ladder and policy,
counters, batch runner, ingest, replay, measurement, ablation, codes and
explanations are modelled and checked, and every safety property that a run checks
is proved. Next:

1. An abstract specification for `Ingest` (each delivery is pending, decided,
   or decided and closed), as a property of `ingest`, and its refinement proved
   as `AppendIsAtomic` is.
2. `Atomic` with its abstract specification also told what a power cut may
   take, so that `AckedIsRecorded` follows from it.
3. Schema creation by racing `connect`s; a configuration with missing keys.
