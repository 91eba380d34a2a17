--------------------------- MODULE ConsoleDesktop ---------------------------
(***************************************************************************)
(* The desktop stream of the physical console: viewers that claim, take    *)
(* over, switch and stop it (lan.rs), the broker's client of the session   *)
(* worker (broker.rs) and the worker itself (worker.rs).  All run on       *)
(* threads of their own.  One worker connection is modelled, of a session  *)
(* that is DesktopReady.                                                   *)
(*                                                                         *)
(* Requests to the worker go one at a time through request_lock, a fair    *)
(* mutex; the worker answers them in order on one socket, between the      *)
(* frames and DesktopStreamEnded notices of its forwarder task.  A capture *)
(* client gives its request up when its own timeout fires.                 *)
(***************************************************************************)
EXTENDS Integers, Sequences, FiniteSets, SequencesExt

CONSTANTS
  Viewers,      \* sessions that stream the desktop
  Controllers,  \* the viewers that may control it, and so take it over
  Relayed,      \* the viewers that come through a tunnel of the relay link
  Captures,     \* sessions that take console captures
  None,
  MaxClaims,    \* bound of the model: claims of the stream
  MaxStreams,   \* bound of the model: no display switch after so many streams
  MaxQueue,     \* bound of the model: no capture while so many packets travel
  MaxEnds       \* bound of the model: captures that end by themselves

VARIABLES
  active,     \* ConsoleWorkerClient.desktop_stream_active
  owner,      \* ConsoleWorkerPool.desktop_owner
  lock,       \* holder of desktop_claim
  viewer,     \* the sessions: step, claim id, stream, Ended notices received
  waiting,    \* request_lock: holder first, then the queue
  sent,       \* the holder has written its request
  call,       \* session -> the request it makes
  toWorker, toBroker,  \* the socket
  responses,  \* ConsoleWorkerClient.responses
  wstep,      \* the worker: at its read, or waiting for a stopped forwarder
  wactive,    \* the worker's desktop_stream_active
  current,    \* the worker's desktop_stream handle, 0 for None
  tasks,      \* the forwarder tasks ever spawned, a stream each
  ends        \* captures that ended by themselves

brokerVars == <<active, owner, lock, viewer>>
requestVars == <<waiting, sent, call, responses>>
workerVars == <<wstep, wactive, current, tasks, ends>>
vars == <<brokerVars, requestVars, workerVars, toWorker, toBroker>>

Sessions == Viewers \cup Captures

\* A receiver of Ended notices: not subscribed, subscribed without a notice,
\* or (a positive number) the stream its first notice is of.
NotSubscribed == -1
Quiet == 0
Gone == [step |-> "gone", id |-> 0, stream |-> 0,
         ended |-> NotSubscribed, starting |-> NotSubscribed]

TypeOK ==
  /\ active \in BOOLEAN /\ owner \in 0..MaxClaims /\ lock \in Viewers \cup {None}
  /\ viewer \in [Viewers ->
       [step : {"gone", "claim", "takeover", "starting", "stream", "asking", "ending",
                "releasing", "stop", "stopping", "switchStop", "switchStopping",
                "switchStart", "switchStarting", "switchFailed"},
        id : 0..MaxClaims, stream : Nat, ended : Int, starting : Int]]
  /\ \A i \in DOMAIN waiting : waiting[i] \in Sessions
  /\ sent \in BOOLEAN /\ (sent => waiting # <<>>)
  /\ call \in [Sessions -> {"none", "start", "stop", "input", "capture"}]
  /\ wstep \in {"read", "stopping"} /\ wactive \in BOOLEAN
  /\ current \in 0..Len(tasks) /\ ends \in 0..MaxEnds
  /\ \A i \in DOMAIN tasks : tasks[i] \in {"run", "over", "notify", "done"}

Init ==
  /\ active = FALSE /\ owner = 0 /\ lock = None
  /\ viewer = [x \in Viewers |-> Gone]
  /\ waiting = <<>> /\ sent = FALSE /\ call = [x \in Sessions |-> "none"]
  /\ toWorker = <<>> /\ toBroker = <<>> /\ responses = <<>>
  /\ wstep = "read" /\ wactive = FALSE /\ current = 0 /\ tasks = <<>> /\ ends = 0

At(x, step) == viewer[x].step = step
Goto(x, step) == viewer' = [viewer EXCEPT ![x].step = step]

-----------------------------------------------------------------------------
(* ConsoleWorkerClient.request: queue for request_lock, write, take the     *)
(* first response in the channel.                                          *)

Ask(x, kind) ==
  /\ waiting' = Append(waiting, x)
  /\ call' = [call EXCEPT ![x] = kind]
  /\ UNCHANGED <<sent, responses, toWorker, toBroker, workerVars>>

\* Mutant: the request is written before request_lock is taken.
MayWriteUnlocked(x) == x \in ToSet(waiting)

MayWrite(x) == waiting # <<>> /\ Head(waiting) = x

Write(x) ==
  /\ MayWrite(x) /\ ~sent
  /\ sent' = TRUE
  /\ toWorker' = Append(toWorker, [kind |-> call[x], from |-> x])
  /\ UNCHANGED <<brokerVars, waiting, call, responses, workerVars, toBroker>>

\* x's request returns the response r.
Answered(x, r) ==
  /\ waiting # <<>> /\ Head(waiting) = x /\ sent
  /\ responses # <<>> /\ r = Head(responses)
  /\ responses' = Tail(responses)
  /\ waiting' = Tail(waiting)
  /\ sent' = FALSE
  /\ call' = [call EXCEPT ![x] = "none"]
  /\ UNCHANGED <<toWorker, toBroker, workerVars>>

\* Mutant: a dropped request keeps the lock.
SentUnlessAnswered(x) == sent

SentUnlessHolder(x) == sent /\ Head(waiting) # x

\* The future of x's request, if any, is dropped; one that is written stays written.
Cancelled(x) ==
  /\ sent' = SentUnlessHolder(x)
  /\ waiting' = SelectSeq(waiting, LAMBDA y : y # x)
  /\ call' = [call EXCEPT ![x] = "none"]
  /\ UNCHANGED <<responses, toWorker, toBroker, workerVars>>

-----------------------------------------------------------------------------
(* A viewer's session: claim_desktop_stream, start_desktop_stream.          *)

Request(x) ==
  /\ At(x, "gone") /\ owner < MaxClaims
  /\ Goto(x, "claim")
  /\ UNCHANGED <<active, owner, lock, requestVars, workerVars, toWorker, toBroker>>

\* The claim lock, the check for a busy stream, and the owner counter.
Claim(x) ==
  /\ At(x, "claim") /\ lock = None /\ owner < MaxClaims
  /\ IF x \notin Controllers /\ active
     THEN viewer' = [viewer EXCEPT ![x] = Gone] /\ UNCHANGED <<owner, lock>>
     ELSE /\ owner' = owner + 1
          /\ lock' = x
          /\ viewer' = [viewer EXCEPT ![x].step = "takeover", ![x].id = owner + 1]
  /\ UNCHANGED <<active, requestVars, workerVars, toWorker, toBroker>>

\* The polling loop sees the stream inactive and starts it.
Start(x) ==
  /\ At(x, "takeover") /\ ~active
  /\ active' = TRUE
  /\ viewer' = [viewer EXCEPT ![x].step = "starting", ![x].starting = Quiet]
  /\ Ask(x, "start")
  /\ UNCHANGED <<owner, lock>>

\* Mutant: a viewer that gives up cleans up like one that streamed.
CleanUpAfterGiveUp(x) == [viewer[x] EXCEPT !.step = "ending"]

AfterGiveUp(x) == Gone

\* Mutant: a takeover waits without a deadline.
NoDeadline(x) == FALSE

\* TAKEOVER_WAIT has passed.
GiveUp(x) ==
  /\ At(x, "takeover") /\ active
  /\ viewer' = [viewer EXCEPT ![x] = AfterGiveUp(x)]
  /\ lock' = None
  /\ UNCHANGED <<active, owner, requestVars, workerVars, toWorker, toBroker>>

\* The new handle, with the receiver subscribed before the request.
Opened(x, r) == [viewer[x] EXCEPT !.step = "stream", !.stream = r.stream,
                                  !.ended = viewer[x].starting, !.starting = NotSubscribed]

Started(x) ==
  /\ At(x, "starting")
  /\ \E r \in ToSet(responses) :
       /\ Answered(x, r)
       /\ IF r.kind = "start"
          THEN viewer' = [viewer EXCEPT ![x] = Opened(x, r)] /\ UNCHANGED active
          ELSE viewer' = [viewer EXCEPT ![x] = Gone] /\ active' = FALSE
  /\ lock' = None
  /\ UNCHANGED owner

-----------------------------------------------------------------------------
(* stream_authenticated_desktop: the select loop and what follows it.       *)

TakenOver(x) ==
  /\ At(x, "stream") /\ owner # viewer[x].id
  /\ Goto(x, "ending")
  /\ UNCHANGED <<active, owner, lock, requestVars, workerVars, toWorker, toBroker>>

\* DesktopStreamEnded: the viewer waits for a login screen, then leaves.
StreamEnded(x) ==
  /\ At(x, "stream") /\ viewer[x].ended > 0
  /\ Goto(x, "ending")
  /\ UNCHANGED <<active, owner, lock, requestVars, workerVars, toWorker, toBroker>>

\* The device has left, stopped receiving or lost its permission.
Leave(x) ==
  /\ At(x, "stream")
  /\ Goto(x, "ending")
  /\ UNCHANGED <<active, owner, lock, requestVars, workerVars, toWorker, toBroker>>

\* Input and sharing requests of the loop; releases of held input after it.
Inject(x) ==
  /\ x \in Controllers
  /\ \/ At(x, "stream") /\ Goto(x, "asking")
     \/ At(x, "ending") /\ Goto(x, "releasing")
  /\ Ask(x, "input")
  /\ UNCHANGED <<active, owner, lock>>

\* A failed input ends the session, a failed release or share request does not.
Injected(x) ==
  /\ \E r \in ToSet(responses) :
       /\ Answered(x, r)
       /\ \/ At(x, "asking") /\ Goto(x, "stream")
          \/ At(x, "asking") /\ r.kind # "input" /\ Goto(x, "ending")
          \/ At(x, "releasing") /\ Goto(x, "ending")
  /\ UNCHANGED <<active, owner, lock>>


\* stop_desktop_stream clears the flag before it queues its request.
Ending(x) ==
  /\ At(x, "ending")
  /\ active' = FALSE
  /\ Goto(x, "stop")
  /\ UNCHANGED <<owner, lock, requestVars, workerVars, toWorker, toBroker>>

Stop(x) ==
  /\ At(x, "stop")
  /\ Goto(x, "stopping")
  /\ Ask(x, "stop")
  /\ UNCHANGED <<active, owner, lock>>

Stopped(x) ==
  /\ At(x, "stopping")
  /\ \E r \in ToSet(responses) : Answered(x, r)
  /\ viewer' = [viewer EXCEPT ![x] = Gone]
  /\ UNCHANGED <<active, owner, lock>>

\* The relay link is gone: run_host_tunnels returns and drops its sessions
\* wherever they are, with the locks they hold.
LinkLost(x) ==
  /\ x \in Relayed /\ ~At(x, "gone")
  /\ viewer' = [viewer EXCEPT ![x] = Gone]
  /\ lock' = IF lock = x THEN None ELSE lock
  /\ Cancelled(x)
  /\ UNCHANGED <<active, owner>>

-----------------------------------------------------------------------------
(* switch_desktop_display: refused (no step) unless the claim lock is free  *)
(* and the viewer still owns the stream.  Every start holds that lock, so   *)
(* the restart never finds the flag set.                                    *)

\* Mutant: the claim lock is only probed.
ProbeClaim(x) == lock = None /\ UNCHANGED lock

TryLockClaim(x) == lock = None /\ lock' = x

Switch(x) ==
  /\ x \in Controllers /\ At(x, "stream") /\ Len(tasks) < MaxStreams
  /\ TryLockClaim(x) /\ owner = viewer[x].id
  /\ active' = FALSE
  /\ Goto(x, "switchStop")
  /\ UNCHANGED <<owner, requestVars, workerVars, toWorker, toBroker>>

SwitchStop(x) ==
  /\ At(x, "switchStop")
  /\ Goto(x, "switchStopping")
  /\ Ask(x, "stop")
  /\ UNCHANGED <<active, owner, lock>>

SwitchStopped(x) ==
  /\ At(x, "switchStopping")
  /\ \E r \in ToSet(responses) :
       /\ Answered(x, r)
       /\ IF r.kind = "stop"
          THEN Goto(x, "switchStart") /\ UNCHANGED lock
          ELSE Goto(x, "switchFailed") /\ lock' = None
  /\ UNCHANGED <<active, owner>>

SwitchStart(x) ==
  /\ At(x, "switchStart")
  /\ active' = TRUE
  /\ viewer' = [viewer EXCEPT ![x].step = "switchStarting", ![x].starting = Quiet]
  /\ Ask(x, "start")
  /\ UNCHANGED <<owner, lock>>

SwitchStarted(x) ==
  /\ At(x, "switchStarting")
  /\ \E r \in ToSet(responses) :
       /\ Answered(x, r)
       /\ IF r.kind = "start"
          THEN viewer' = [viewer EXCEPT ![x] = Opened(x, r)] /\ UNCHANGED active
          ELSE /\ viewer' = [viewer EXCEPT ![x].step = "switchFailed",
                                           ![x].starting = NotSubscribed]
               /\ active' = FALSE
  /\ lock' = None
  /\ UNCHANGED owner

\* The flag is read again: another viewer may have claimed the stream by now.
\* With the flag clear the session ends without a stop (stream_stopped).
SwitchFailed(x) ==
  /\ At(x, "switchFailed")
  /\ IF active THEN Goto(x, "stream") ELSE viewer' = [viewer EXCEPT ![x] = Gone]
  /\ UNCHANGED <<active, owner, lock, requestVars, workerVars, toWorker, toBroker>>

-----------------------------------------------------------------------------
(* Console captures, each under a timeout of the session that asks for it.  *)

Capture(c) ==
  /\ call[c] = "none" /\ Len(toWorker) + Len(toBroker) + Len(responses) < MaxQueue
  /\ Ask(c, "capture")
  /\ UNCHANGED brokerVars

Captured(c) ==
  /\ \E r \in ToSet(responses) : Answered(c, r)
  /\ UNCHANGED brokerVars

CaptureTimeout(c) ==
  /\ call[c] # "none"
  /\ Cancelled(c)
  /\ UNCHANGED brokerVars

-----------------------------------------------------------------------------
(* The worker: serve_with_session, and the forwarder tasks it spawns.       *)

\* A response carries, for the properties, who asked and the stream it is of.
Reply(m, kind, stream) ==
  toBroker' = Append(toBroker, [kind |-> kind, from |-> m.from, stream |-> stream])


Busy == wactive

ServeStart(m) ==
  /\ m.kind = "start"
  /\ IF Busy
     THEN Reply(m, "error", 0) /\ UNCHANGED <<wactive, tasks, current>>
     ELSE /\ wactive' = TRUE
          /\ tasks' = Append(tasks, "run")
          /\ current' = Len(tasks) + 1
          /\ Reply(m, "start", Len(tasks) + 1)
  /\ toWorker' = Tail(toWorker)
  /\ UNCHANGED wstep

\* The stop signal, and the wait for the forwarder to be done.
ServeStop(m) ==
  /\ m.kind = "stop"
  /\ wstep' = "stopping"
  /\ UNCHANGED <<wactive, tasks, current, toWorker, toBroker>>

ServeOther(m) ==
  /\ m.kind \in {"input", "capture"}
  /\ \E kind \in {m.kind, "error"} : Reply(m, kind, 0)
  /\ toWorker' = Tail(toWorker)
  /\ UNCHANGED <<wstep, wactive, tasks, current>>

Serve ==
  /\ wstep = "read" /\ toWorker # <<>>
  /\ LET m == Head(toWorker) IN ServeStart(m) \/ ServeStop(m) \/ ServeOther(m)
  /\ UNCHANGED <<brokerVars, requestVars, ends>>

ForwarderJoined ==
  /\ wstep = "stopping" /\ (current # 0 => tasks[current] = "done")
  /\ wstep' = "read"
  /\ wactive' = FALSE
  /\ current' = 0
  /\ toWorker' = Tail(toWorker)
  /\ Reply(Head(toWorker), "stop", Len(tasks))
  /\ UNCHANGED <<brokerVars, requestVars, tasks, ends>>

\* A forwarder takes the stop signal between packets.
ForwarderStops(i) ==
  /\ wstep = "stopping" /\ i = current /\ tasks[i] = "run"
  /\ tasks' = [tasks EXCEPT ![i] = "done"]
  /\ UNCHANGED <<brokerVars, requestVars, wstep, wactive, current, ends, toWorker, toBroker>>

\* The capture is over: compositor failure, or the end of the session.
CaptureEnds(i) ==
  /\ tasks[i] = "run" /\ ends < MaxEnds
  /\ tasks' = [tasks EXCEPT ![i] = "over"]
  /\ ends' = ends + 1
  /\ UNCHANGED <<brokerVars, requestVars, wstep, wactive, current, toWorker, toBroker>>

ForwarderClears(i) ==
  /\ tasks[i] = "over"
  /\ tasks' = [tasks EXCEPT ![i] = "notify"]
  /\ wactive' = FALSE
  /\ UNCHANGED <<brokerVars, requestVars, wstep, current, ends, toWorker, toBroker>>

ForwarderNotifies(i) ==
  /\ tasks[i] = "notify"
  /\ tasks' = [tasks EXCEPT ![i] = "done"]
  /\ toBroker' = Append(toBroker, [kind |-> "ended", from |-> None, stream |-> i])
  /\ UNCHANGED <<brokerVars, requestVars, wstep, wactive, current, ends, toWorker>>

-----------------------------------------------------------------------------
(* The broker's reader of the socket.                                       *)

Heard(receiver, stream) == IF receiver = Quiet THEN stream ELSE receiver

Read ==
  /\ toBroker # <<>>
  /\ toBroker' = Tail(toBroker)
  /\ LET m == Head(toBroker) IN
       IF m.kind = "ended"
       THEN /\ active' = FALSE
            /\ viewer' = [x \in Viewers |->
                 [viewer[x] EXCEPT !.ended = Heard(@, m.stream),
                                   !.starting = Heard(@, m.stream)]]
            /\ UNCHANGED responses
       ELSE responses' = Append(responses, m) /\ UNCHANGED <<active, viewer>>
  /\ UNCHANGED <<owner, lock, waiting, sent, call, workerVars, toWorker>>

-----------------------------------------------------------------------------

\* What devices, compositors and timeouts do, in their own time.
Environment ==
  \/ \E x \in Viewers : Request(x) \/ Leave(x) \/ Inject(x) \/ Switch(x) \/ LinkLost(x)
  \/ \E c \in Captures : Capture(c) \/ CaptureTimeout(c)
  \/ \E i \in DOMAIN tasks : CaptureEnds(i)

\* A session's own steps.
Session(x) ==
  \/ Claim(x) \/ Start(x) \/ GiveUp(x) \/ Started(x)
  \/ TakenOver(x) \/ StreamEnded(x) \/ Injected(x)
  \/ Ending(x) \/ Stop(x) \/ Stopped(x)
  \/ SwitchStop(x) \/ SwitchStopped(x) \/ SwitchStart(x)
  \/ SwitchStarted(x) \/ SwitchFailed(x)

Forwarder(i) == ForwarderStops(i) \/ ForwarderClears(i) \/ ForwarderNotifies(i)

Worker == Serve \/ ForwarderJoined \/ \E i \in DOMAIN tasks : Forwarder(i)

Next ==
  \/ Environment
  \/ \E x \in Viewers : Session(x)
  \/ \E c \in Captures : Captured(c)
  \/ \E x \in Sessions : Write(x)
  \/ Worker
  \/ Read

Spec == Init /\ [][Next]_vars

\* Tasks of the runtimes are polled and the deadline of a claim comes; nobody
\* has to ask for, leave, switch or type anything.
Fairness ==
  /\ \A x \in Viewers : WF_vars(Session(x))
  /\ \A c \in Captures : WF_vars(Captured(c))
  /\ \A x \in Sessions : WF_vars(Write(x))
  /\ WF_vars(Worker)
  /\ WF_vars(Read)

FairSpec == Spec /\ Fairness

-----------------------------------------------------------------------------

\* A request gets the response to itself, not to another request: requests are
\* written and answered in order under request_lock (broker.rs, request).
AnswersMatch ==
  sent /\ responses # <<>> => Head(responses).from = Head(waiting)

\* As long as no capture has ended by itself, a stop ends the stream of the
\* viewer that asked for it, never one another viewer has started since, although
\* the broker's flag is cleared before the request is queued (stop_desktop_stream).
StopHitsOwnStream ==
  [][wstep = "read" /\ wstep' = "stopping" /\ ends = 0
     /\ current # 0 /\ tasks[current] = "run"
       => viewer[Head(toWorker).from].stream = current]_vars


\* Once every viewer is gone and every message is handled, the worker captures
\* nothing and the broker's flag lets the next viewer in.
ReleasedWhenQuiet ==
  /\ \A x \in Viewers : At(x, "gone")
  /\ toWorker = <<>> /\ toBroker = <<>> /\ wstep = "read"
  => ~active /\ ~wactive /\ \A i \in DOMAIN tasks : tasks[i] # "run"

\* Between the stop and the start of a display switch no other viewer starts
\* a stream (the claim lock in switch_desktop_display).
SwitchKeepsClaim ==
  [][\A x \in Viewers :
       viewer[x].step \in {"switchStop", "switchStopping", "switchStart", "switchStarting"}
         => \A i \in DOMAIN tasks' \ DOMAIN tasks : Head(toWorker).from = x]_vars

\* Whoever holds the claim lock, to take over or to switch, lets it go: a
\* takeover and the viewer it waits for never wait for each other.
ClaimReleased ==
  \A x \in Viewers : (lock = x) ~> (lock # x)
=============================================================================
