---------------------------- MODULE RateLimiter ----------------------------
(***************************************************************************)
(* The sliding-window limiter in front of the authentication endpoints.    *)
(* check runs on many threads: it reads the clock first and locks a bucket *)
(* later, so hits may be recorded out of order, and the size of the map is *)
(* read apart from the insertion it guards.  DashMap::retain (external)    *)
(* locks one part of the map at a time.                                    *)
(***************************************************************************)
EXTENDS Integers, Sequences, FiniteSets, SequencesExt

CONSTANTS
  Threads, Keys,
  MaxRequests, Window, SweepInterval, MaxKeys,
  MaxDelay,   \* longest time between reading the clock and locking a bucket
  MaxTime     \* bound of the model: the last instant

VARIABLES
  now,
  buckets,     \* key -> instants of its hits
  last_sweep,
  thr,         \* the calls of check: step, key, the instant read, keys to sweep
  allowed      \* key -> when its latest requests were let through

vars == <<now, buckets, last_sweep, thr, allowed>>

Idle == [step |-> "idle", key |-> "none", at |-> 0, todo |-> {}]
At(t, step) == thr[t].step = step
Goto(t, step) == thr' = [thr EXCEPT ![t].step = step]
Return(t) == thr' = [thr EXCEPT ![t] = Idle]
MapFull == Cardinality(DOMAIN buckets) >= MaxKeys
InWindow(t, hit) == thr[t].at - hit < Window

Init ==
  /\ now = 0 /\ last_sweep = 0
  /\ buckets = [k \in {} |-> <<>>]
  /\ thr = [t \in Threads |-> Idle]
  /\ allowed = [k \in Keys |-> <<>>]

\* check: the clock, and whether a new key finds the map full.
Check(t) ==
  /\ At(t, "idle")
  /\ \E k \in Keys :
       thr' = [thr EXCEPT ![t] =
                 [step |-> IF MapFull /\ k \notin DOMAIN buckets THEN "sweep" ELSE "entry",
                  key |-> k, at |-> now, todo |-> {}]]
  /\ UNCHANGED <<now, buckets, last_sweep, allowed>>

\* sweep: one sweep per SWEEP_INTERVAL, decided under the mutex.
Sweep(t) ==
  /\ At(t, "sweep")
  /\ IF thr[t].at - last_sweep < SweepInterval
       THEN Goto(t, "recheck") /\ UNCHANGED last_sweep
       ELSE /\ last_sweep' = thr[t].at
            /\ thr' = [thr EXCEPT ![t].step = "retain", ![t].todo = Keys]
  /\ UNCHANGED <<now, buckets, allowed>>

\* Mutant: a key goes when its oldest hit has left the window.
HitsIdleFirst(t, hits) == hits = <<>> \/ ~InWindow(t, Head(hits))

\* No request inside the window, as the hit recorded last has it.
HitsIdle(t, hits) == hits = <<>> \/ ~InWindow(t, Last(hits))

\* sweep: the retain, one key at a time.
Retain(t) ==
  /\ At(t, "retain")
  /\ \E k \in thr[t].todo :
       /\ thr' = [thr EXCEPT ![t].todo = @ \ {k},
                             ![t].step = IF thr[t].todo = {k} THEN "recheck" ELSE @]
       /\ buckets' = [x \in {y \in DOMAIN buckets : y # k \/ ~HitsIdle(t, buckets[y])} |->
                        buckets[x]]
  /\ UNCHANGED <<now, last_sweep, allowed>>

\* Mutant: a full map no longer refuses after the sweep.
RecheckNothing(t) == At(t, "recheck") /\ Goto(t, "entry")

\* check: a map that is still full refuses the new key.
RecheckSize(t) ==
  /\ At(t, "recheck")
  /\ IF MapFull THEN Return(t) ELSE Goto(t, "entry")

Recheck(t) == RecheckSize(t) /\ UNCHANGED <<now, buckets, last_sweep, allowed>>

\* check: under the lock of the bucket, drop what has aged out, then count.
Entry(t) ==
  /\ At(t, "entry")
  /\ LET k == thr[t].key
         hits == IF k \in DOMAIN buckets THEN buckets[k] ELSE <<>>
         recent == SelectSeq(hits, LAMBDA h : InWindow(t, h))
         ok == Len(recent) < MaxRequests
         entry == IF ok THEN Append(recent, thr[t].at) ELSE recent
         latest == SubSeq(allowed[k], IF Len(allowed[k]) > MaxRequests THEN 2 ELSE 1,
                          Len(allowed[k]))
     IN /\ buckets' = [x \in DOMAIN buckets \cup {k} |-> IF x = k THEN entry ELSE buckets[x]]
        /\ allowed' = IF ok THEN [allowed EXCEPT ![k] = Append(latest, now)] ELSE allowed
  /\ Return(t)
  /\ UNCHANGED <<now, last_sweep>>

\* No thread is held up for longer than MaxDelay between two steps of check.
Tick ==
  /\ now < MaxTime
  /\ \A t \in Threads : ~At(t, "idle") => now < thr[t].at + MaxDelay
  /\ now' = now + 1
  /\ UNCHANGED <<buckets, last_sweep, thr, allowed>>

Next ==
  \/ \E t \in Threads : Check(t) \/ Sweep(t) \/ Retain(t) \/ Recheck(t) \/ Entry(t)
  \/ Tick

Spec == Init /\ [][Next]_vars
-----------------------------------------------------------------------------
(* Properties *)

\* The quota of check: one more request than max_requests takes a key at least a
\* window, less the time a thread was held up, although hits are recorded out of
\* order and the sweep forgets whole keys by their last hit.
Quota ==
  \A k \in Keys : Len(allowed[k]) > MaxRequests =>
    Last(allowed[k]) - Head(allowed[k]) >= Window - MaxDelay

\* "new keys are refused (fail closed) instead of growing the map" (check): the
\* map exceeds max_keys at most by the other threads that passed the test of its
\* size before one of them inserted.
KeysBounded == Cardinality(DOMAIN buckets) <= MaxKeys + Cardinality(Threads) - 1
=============================================================================
