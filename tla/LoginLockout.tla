---------------------------- MODULE LoginLockout ----------------------------
(***************************************************************************)
(* The lockout of one account in rivetlink-server.  A login counts itself  *)
(* in one UPDATE before its password is checked; requests interleave       *)
(* between their statements, and a request may end after any of them.      *)
(***************************************************************************)
EXTENDS Integers, Sequences, TLAPS

CONSTANTS
  Requests,     \* login requests that may run at once
  MaxAttempts,  \* max_failed_logins
  Lockout,      \* lockout_duration_secs
  MaxDelay,     \* longest wait of the UPDATE for a pool connection or the row
  MaxTrials,    \* bound of the model: attempts counted since the last reset
  MaxTime       \* bound of the model: the last instant

ASSUME LockoutConstants ==
  /\ MaxAttempts \in Nat \ {0} /\ Lockout \in Nat /\ MaxDelay \in Nat
  /\ MaxTrials \in Nat /\ MaxTime \in Nat

VARIABLES
  now,     \* the clock
  count,   \* users.failed_login_count
  locked,  \* users.locked_until
  req,     \* the handlers: step, and the end of the lock they would set
  trials   \* when the attempts since the last reset were let through

vars == <<now, count, locked, req, trials>>

NULL == -1
Idle == [step |-> "idle", until |-> 0]
At(r, step) == req[r].step = step
Respond(r) == req' = [req EXCEPT ![r] = Idle]

Init ==
  /\ now = 0 /\ count = 0 /\ locked = NULL
  /\ req = [r \in Requests |-> Idle]
  /\ trials = <<>>

\* login up to the UPDATE: locked_until is computed before it is sent.
Begin(r) ==
  /\ At(r, "idle")
  /\ req' = [req EXCEPT ![r] = [step |-> "reserve", until |-> now + Lockout]]
  /\ UNCHANGED <<now, count, locked, trials>>

\* Mutant: the attempt that reaches the limit does not lock yet.
LocksAboveLimit(n) == n > MaxAttempts

\* The CASE of the UPDATE: the attempt that reaches the limit locks.
Locks(n) == n >= MaxAttempts

\* reserve_login_attempt, one statement; None while the account is locked.
Reserve(r) ==
  /\ At(r, "reserve")
  /\ Len(trials) < MaxTrials
  /\ IF locked = NULL \/ locked <= now
       THEN /\ count' = count + 1
            /\ locked' = IF Locks(count + 1) THEN req[r].until ELSE locked
            /\ trials' = Append(trials, now)
            /\ req' = [req EXCEPT ![r] = [step |-> "verify", until |-> 0]]
       ELSE Respond(r) /\ UNCHANGED <<count, locked, trials>>
  /\ UNCHANGED now

\* verify_password on a blocking thread; a wrong password ends the request.
Verify(r) ==
  /\ At(r, "verify")
  /\ req' = [req EXCEPT ![r] = [step |-> "reset", until |-> 0]] \/ Respond(r)
  /\ UNCHANGED <<now, count, locked, trials>>

\* reset_failed_logins; the tokens are issued next (module RefreshTokens).
Reset(r) ==
  /\ At(r, "reset")
  /\ count' = 0 /\ locked' = NULL /\ trials' = <<>>
  /\ Respond(r)
  /\ UNCHANGED now

\* A statement fails, or the request is dropped.
Fail(r) ==
  /\ ~At(r, "idle")
  /\ Respond(r)
  /\ UNCHANGED <<now, count, locked, trials>>

\* No UPDATE waits longer than MaxDelay.
Tick ==
  /\ now < MaxTime
  /\ \A r \in Requests : At(r, "reserve") => now < req[r].until - Lockout + MaxDelay
  /\ now' = now + 1
  /\ UNCHANGED <<count, locked, req, trials>>

Handler(r) == Begin(r) \/ Reserve(r) \/ Verify(r) \/ Reset(r) \/ Fail(r)

Next == (\E r \in Requests : Handler(r)) \/ Tick

Spec == Init /\ [][Next]_vars
-----------------------------------------------------------------------------
(* Properties *)

\* "at most max_attempts passwords are tried before the first lock, and one per
\* lockout period after it" (reserve_login_attempt), however many requests run at
\* once, wherever they fail, and whoever resets the count in between.  The lock of
\* an attempt starts when the request does, so a period may be shorter by the time
\* the UPDATE waited.
TrialsAreSpaced ==
  \A i \in 1..(Len(trials) - 1) :
    i >= MaxAttempts => trials[i + 1] - trials[i] >= Lockout - MaxDelay
-----------------------------------------------------------------------------
(* Inductive strengthening and proof *)

TypeOK ==
  /\ now \in Nat /\ count \in Nat /\ locked \in Int
  /\ req \in [Requests -> [step : {"idle", "reserve", "verify", "reset"}, until : Nat]]
  /\ trials \in Seq(Nat)

\* A lock at the limit outlasts the last attempt by the period, but for the wait.
LockInv ==
  /\ count = Len(trials)
  /\ count < MaxAttempts => locked = NULL
  /\ count >= MaxAttempts => locked # NULL /\ locked >= trials[count] + Lockout - MaxDelay
  /\ \A r \in Requests : At(r, "reserve") => now <= req[r].until - Lockout + MaxDelay

IndInv == TypeOK /\ LockInv /\ TrialsAreSpaced

\* The lockout of reserve_login_attempt holds for any number of requests.
THEOREM LockoutHolds == Spec => []TrialsAreSpaced
<1>1. Init => IndInv
  BY LockoutConstants DEF Init, IndInv, TypeOK, LockInv, TrialsAreSpaced, Idle, At, NULL
<1>2. ASSUME IndInv, [Next]_vars PROVE IndInv'
  <2> USE DEF IndInv, At, Idle, Respond
  <2>0. ASSUME NEW r \in Requests, NEW step \in {"idle", "reset"},
               UNCHANGED <<now, count, locked, trials>>,
               req' = [req EXCEPT ![r] = [step |-> step, until |-> 0]]
        PROVE  IndInv'
    <3>1. \A s \in Requests : req'[s].step = "reserve" =>
            req[s].step = "reserve" /\ req'[s] = req[s]
      BY <1>2, <2>0 DEF TypeOK
    <3>2. TypeOK'
      BY <1>2, <2>0 DEF TypeOK
    <3>3. LockInv' /\ TrialsAreSpaced'
      BY <1>2, <2>0, <3>1 DEF LockInv, TrialsAreSpaced
    <3> QED
      BY <3>2, <3>3
  <2>1. ASSUME NEW r \in Requests, Begin(r) PROVE IndInv'
    BY <1>2, <2>1, LockoutConstants DEF Begin, TypeOK, LockInv, TrialsAreSpaced
  <2>2. ASSUME NEW r \in Requests, Reserve(r) PROVE IndInv'
    <3>1. CASE locked = NULL \/ locked <= now
      <4>1. /\ now \in Nat /\ count \in Nat /\ trials \in Seq(Nat) /\ count = Len(trials)
            /\ req[r].until \in Nat /\ now <= req[r].until - Lockout + MaxDelay
        BY <1>2, <2>2 DEF Reserve, TypeOK, LockInv
      <4>2. /\ count' = count + 1 /\ now' = now /\ trials' = Append(trials, now)
            /\ locked' = IF count + 1 >= MaxAttempts THEN req[r].until ELSE locked
            /\ req' = [req EXCEPT ![r] = [step |-> "verify", until |-> 0]]
        BY <2>2, <3>1 DEF Reserve, Locks
      <4>3. /\ trials' \in Seq(Nat) /\ Len(trials') = Len(trials) + 1
            /\ trials'[Len(trials) + 1] = now
            /\ \A i \in 1..Len(trials) : trials'[i] = trials[i] /\ trials[i] \in Nat
        BY <4>1, <4>2
      <4>4. TypeOK'
        BY <1>2, <4>1, <4>2, <4>3 DEF TypeOK
      <4>5. LockInv'
        <5>1. \A s \in Requests : req'[s].step = "reserve" =>
                req[s].step = "reserve" /\ req'[s] = req[s]
          BY <1>2, <4>2 DEF TypeOK
        <5>2. count' < MaxAttempts => locked' = NULL
          BY <1>2, <4>1, <4>2, LockoutConstants DEF LockInv
        <5>3. count' >= MaxAttempts =>
                locked' # NULL /\ locked' >= trials'[count'] + Lockout - MaxDelay
          BY <4>1, <4>2, <4>3, LockoutConstants DEF NULL
        <5> QED
          BY <1>2, <4>1, <4>2, <4>3, <5>1, <5>2, <5>3 DEF LockInv
      <4>6. count >= MaxAttempts => now - trials[count] >= Lockout - MaxDelay
        <5>1. ASSUME count >= MaxAttempts
              PROVE  count \in 1..Len(trials) /\ locked # NULL
                     /\ locked >= trials[count] + Lockout - MaxDelay
          BY <1>2, <4>1, <5>1, LockoutConstants DEF LockInv
        <5>2. locked \in Int
          BY <1>2 DEF TypeOK
        <5> QED
          BY <3>1, <4>1, <4>3, <5>1, <5>2, LockoutConstants, SMTT(30)
      <4>7. TrialsAreSpaced'
        <5> SUFFICES ASSUME NEW i \in 1..(Len(trials') - 1), i >= MaxAttempts
                     PROVE  trials'[i + 1] - trials'[i] >= Lockout - MaxDelay
          BY DEF TrialsAreSpaced
        <5>1. CASE i = Len(trials)
          BY <4>1, <4>3, <4>6, <5>1
        <5>2. CASE i # Len(trials)
          <6>1. i \in 1..(Len(trials) - 1) /\ i + 1 \in 1..Len(trials) /\ i \in 1..Len(trials)
            BY <4>1, <4>3, <5>2
          <6> QED
            BY <1>2, <4>3, <6>1 DEF TrialsAreSpaced
        <5> QED
          BY <5>1, <5>2
      <4> QED
        BY <4>4, <4>5, <4>7
    <3>2. CASE ~(locked = NULL \/ locked <= now)
      BY <2>0, <2>2, <3>2 DEF Reserve
    <3> QED
      BY <3>1, <3>2
  <2>3. ASSUME NEW r \in Requests, Verify(r) \/ Fail(r) PROVE IndInv'
    BY <2>0, <2>3 DEF Verify, Fail
  <2>4. ASSUME NEW r \in Requests, Reset(r) PROVE IndInv'
    BY <1>2, <2>4, LockoutConstants DEF Reset, TypeOK, LockInv, TrialsAreSpaced, NULL
  <2>5. CASE Tick
    BY <1>2, <2>5, LockoutConstants DEF Tick, TypeOK, LockInv, TrialsAreSpaced
  <2>6. CASE UNCHANGED vars
    BY <1>2, <2>6 DEF vars, TypeOK, LockInv, TrialsAreSpaced
  <2> QED
    BY <1>2, <2>1, <2>2, <2>3, <2>4, <2>5, <2>6 DEF Next, Handler
<1>3. IndInv => TrialsAreSpaced
  BY DEF IndInv
<1> QED
  BY <1>1, <1>2, <1>3, PTL DEF Spec
=============================================================================
