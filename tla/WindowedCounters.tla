-------------------------- MODULE WindowedCounters --------------------------
(***************************************************************************)
(* kernel/counters.py: events per key, kept in time order, counted by      *)
(* binary search.  `events` is a function from keys to sequences of times. *)
(***************************************************************************)
EXTENDS Integers, Sequences, SequencesExt

\* Python's bisect: where x would go into the sorted s, after its equals ...
\* (A span is the pair <<lo, hi>>.)
bisect_right(s, x) ==
  LET from[span \in (0..Len(s)) \X (0..Len(s))] ==
        LET mid == (span[1] + span[2]) \div 2
        IN  IF span[1] >= span[2] THEN span[1]
            ELSE IF x < s[mid + 1] THEN from[<<span[1], mid>>] ELSE from[<<mid + 1, span[2]>>]
  IN  from[<<0, Len(s)>>]

\* ... or before them.
bisect_left(s, x) ==
  LET from[span \in (0..Len(s)) \X (0..Len(s))] ==
        LET mid == (span[1] + span[2]) \div 2
        IN  IF span[1] >= span[2] THEN span[1]
            ELSE IF s[mid + 1] < x THEN from[<<mid + 1, span[2]>>] ELSE from[<<span[1], mid>>]
  IN  from[<<0, Len(s)>>]

insort(s, x) == InsertAt(s, bisect_right(s, x) + 1, x)

\* A plausible slip: events are taken to arrive in order.
record_appending(events, key, ts) == [events EXCEPT ![key] = Append(@, ts)]

record(events, key, ts) == [events EXCEPT ![key] = insort(@, ts)]

\* A plausible slip: the window is open at its old end.
count_open(events, key, now, window) ==
  bisect_right(events[key], now) - bisect_right(events[key], now - window)

\* Events in [now - window, now].
count(events, key, now, window) ==
  bisect_right(events[key], now) - bisect_left(events[key], now - window)

total(events, key) == Len(events[key])
=============================================================================
