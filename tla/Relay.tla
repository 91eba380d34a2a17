------------------------------- MODULE Relay -------------------------------
(***************************************************************************)
(* The relay server: the connection map, the session manager, the          *)
(* signaling router and the WebSocket gateway of rivetlink-server, at the  *)
(* granularity of single operations on the shared maps.  The router is one *)
(* task; every connection has a handler (registration, cleanup), a reader  *)
(* and a writer, all running concurrently.                                 *)
(*                                                                         *)
(* A connection id authenticates at most once and is never reused, so the  *)
(* principal behind it is a constant function of the id.                   *)
(***************************************************************************)
EXTENDS Integers, FiniteSets, Sequences

CONSTANTS
  Conns,         \* connection ids
  Users,         \* principals that open sessions
  Devices,       \* principals that serve them
  Principal,     \* Conns -> Users \cup Devices: who authenticates on a connection
  Org,           \* Users \cup Devices -> organisations
  NoConn,        \* "no connection"
  NoMsg,         \* the idle router's message
  MaxPerUser,    \* MAX_SESSIONS_PER_USER
  MaxPerDevice,  \* MAX_SESSIONS_PER_DEVICE
  OutQueue,      \* OUTGOING_QUEUE
  SignalQueue,   \* SIGNALING_QUEUE
  MaxRequests,   \* bound of the model: session requests ever read
  Inputs         \* bound of the model: the kinds of frames read, a subset of
                 \* {"legacy", "tunnel", "end", "data", "frame"}

ASSUME RelayConstants ==
  /\ Users \cap Devices = {}
  /\ Principal \in [Conns -> Users \cup Devices]
  /\ NoConn \notin Conns
  /\ MaxPerUser \in Nat \ {0} /\ MaxPerDevice \in Nat \ {0}
  /\ OutQueue \in Nat \ {0} /\ SignalQueue \in Nat \ {0}
  /\ MaxRequests \in Nat

VARIABLES
  life,      \* where each connection's handler is
  inner,     \* ConnectionMap.inner: the connections that can be sent to
  devices,   \* ConnectionMap.devices: device -> its current connection
  sessions,  \* SessionManager.sessions
  nextId,    \* session ids handed out so far (Uuid::now_v7 never repeats)
  out,       \* outgoing queue of each connection
  sigq,      \* queue of text frames waiting for the router
  rstep, rmsg, rsid, rconn,  \* the router: step, message, session, target
  reader,    \* each connection's reader, inside forward_tunnel_frame or idle
  todo,      \* remove_for_conn: ids collected and not yet removed
  notices,   \* spawned session-closed notices waiting for room
  serving    \* the sessions the host at the far end of a connection serves

mapVars == <<inner, devices>>
routerVars == <<rstep, rmsg, rsid, rconn>>
vars == <<life, inner, devices, sessions, nextId, out, sigq, rstep, rmsg, rsid,
          rconn, reader, todo, notices, serving>>

IsUser(c) == Principal[c] \in Users
Ends(s) == {s.initiator_conn, s.device_conn}
SessionIds == Nat
ActiveSession == [id : SessionIds, device_id : Devices, device_conn : Conns,
                  initiator_id : Users, initiator_conn : Conns, tunnel : BOOLEAN]

Packets == [type : {"request"}, device : Devices, tunnel : BOOLEAN]
             \cup [type : {"end", "data"}, sid : SessionIds]
Messages == [from : Conns, packet : Packets]
\* Only a request and a close notice change what the far end does.
OutMessages == [type : {"request", "closed", "other"}, sid : SessionIds]
Other == [type |-> "other", sid |-> 0]
IdleReader == [step |-> "idle", sid |-> 0, peer |-> NoConn]
Readers == {IdleReader} \cup [step : {"send", "end", "cut"}, sid : SessionIds, peer : Conns]

Init ==
  /\ life = [c \in Conns |-> "new"]
  /\ inner = {}
  /\ devices = [d \in Devices |-> NoConn]
  /\ sessions = {}
  /\ nextId = 0
  /\ out = [c \in Conns |-> <<>>]
  /\ sigq = <<>>
  /\ rstep = "idle" /\ rmsg = NoMsg /\ rsid = 0 /\ rconn = NoConn
  /\ reader = [c \in Conns |-> IdleReader]
  /\ todo = [c \in Conns |-> {}]
  /\ notices = {}
  /\ serving = [c \in Conns |-> {}]
-----------------------------------------------------------------------------
(* Session manager *)

\* peer_conn: the other connection of session i, a set of at most one.
PeerConn(i, c) ==
  {IF s.initiator_conn = c THEN s.device_conn ELSE s.initiator_conn :
     s \in {x \in sessions : x.id = i /\ c \in Ends(x)}}

\* tunnel_peer_conn
TunnelPeerConn(i, c) ==
  IF \E s \in sessions : s.id = i /\ s.tunnel THEN PeerConn(i, c) ELSE {}

\* create_session: the limits are counted over all sessions.  Only the router
\* adds sessions, so removals racing the scan can only lower the counts and the
\* scan and the insertion may be taken as one step.
SessionsOf(u) == {s \in sessions : s.initiator_id = u}
SessionsOn(d) == {s \in sessions : s.device_id = d}
\* Mutant: the limits are off by one.
HasRoomOffByOne(u, d) ==
  /\ Cardinality(SessionsOf(u)) <= MaxPerUser
  /\ Cardinality(SessionsOn(d)) <= MaxPerDevice

HasRoom(u, d) ==
  /\ Cardinality(SessionsOf(u)) < MaxPerUser
  /\ Cardinality(SessionsOn(d)) < MaxPerDevice

\* remove_session
Without(i) == {s \in sessions : s.id # i}

\* notify_closed: one notice task for each end still in the map.  A task for an
\* end that is closing fails at once and is left out.  Taken in one step with
\* the removal it follows: an end that leaves the map in between loses the
\* notice, as it does when it closes before the notice is written.
NoticesFor(i) ==
  {[conn |-> c, sid |-> i] :
     c \in {x \in inner : life[x] = "open"}
          \cap UNION {Ends(s) : s \in {x \in sessions : x.id = i}}}
-----------------------------------------------------------------------------
(* Outgoing queues *)

\* The queue lives as long as the writer; what is put in it later is lost.
Push(c, m) == out' = IF life[c] = "open" THEN [out EXCEPT ![c] = Append(@, m)] ELSE out
\* Mutant: the queue takes one message too many.
FullOffByOne(c) == Len(out[c]) > OutQueue

Full(c) == Len(out[c]) >= OutQueue

\* send_to: try_send on a connection still in the map.  It fails when the
\* connection is gone, its queue is full, or its writer has stopped.
SendTo(c, m, delivered) ==
  \/ /\ delivered
     /\ c \in inner /\ ~Full(c)
     /\ Push(c, m)
  \/ /\ ~delivered
     /\ c \notin inner \/ Full(c) \/ life[c] # "open"
     /\ UNCHANGED out

\* Mutant: the handler keeps a sender of its own queue.
SenderHeldByHandler(c) == life[c] = "open"

\* A sender cloned out of the map (a notice, a waiting tunnel frame) keeps
\* working after the connection left the map, until the receiver is dropped.
SenderHeld(c) ==
  \/ c \in inner
  \/ \E n \in notices : n.conn = c
  \/ \E r \in Conns : reader[r].peer = c

\* write_loop: one message reaches the far end's socket.  A host starts to serve
\* a session with its request and stops when told that it closed.
Write(c) ==
  /\ life[c] = "open"
  /\ out[c] # <<>>
  /\ out' = [out EXCEPT ![c] = Tail(@)]
  /\ LET m == Head(out[c]) IN
       serving' = [serving EXCEPT ![c] =
                     CASE m.type = "request" -> @ \cup {m.sid}
                       [] m.type = "closed" -> @ \ {m.sid}
                       [] m.type = "other" -> @]
  /\ UNCHANGED <<life, mapVars, sessions, nextId, sigq, routerVars, reader, todo, notices>>

\* A notice task finds room in the queue ...
NoticeQueued(n) ==
  /\ n \in notices
  /\ ~Full(n.conn)
  /\ Push(n.conn, [type |-> "closed", sid |-> n.sid])
  /\ notices' = notices \ {n}
  /\ UNCHANGED <<life, mapVars, sessions, nextId, sigq, routerVars, reader, todo, serving>>

\* ... or gives up after CLOSE_NOTICE_TIMEOUT.
NoticeLost(n) ==
  /\ n \in notices
  /\ Full(n.conn)
  /\ notices' = notices \ {n}
  /\ UNCHANGED <<life, mapVars, sessions, nextId, out, sigq, routerVars, reader, todo, serving>>
-----------------------------------------------------------------------------
(* Connection handler: registration and cleanup *)

Goto(c, step) == life' = [life EXCEPT ![c] = step]

\* The handshake fails or takes more than five seconds.
AuthFails(c) ==
  /\ life[c] = "new"
  /\ Goto(c, "gone")
  /\ UNCHANGED <<mapVars, sessions, nextId, out, sigq, routerVars, reader, todo, notices, serving>>

\* insert writes the device table first ...
InsertDevice(c) ==
  /\ life[c] = "new" /\ ~IsUser(c)
  /\ devices' = [devices EXCEPT ![Principal[c]] = c]
  /\ Goto(c, "registering")
  /\ UNCHANGED <<inner, sessions, nextId, out, sigq, routerVars, reader, todo, notices, serving>>

\* ... and then the map of connections.
Insert(c) ==
  /\ life[c] = IF IsUser(c) THEN "new" ELSE "registering"
  /\ inner' = inner \cup {c}
  /\ Goto(c, "open")
  /\ UNCHANGED <<devices, sessions, nextId, out, sigq, routerVars, reader, todo, notices, serving>>

\* The socket closed or failed, a write timed out, or the heartbeat expired:
\* handle_socket aborts reader and writer.  A reader waiting for room in the
\* peer's queue stops there; one past that wait runs to its end.  The queue goes
\* with the writer, and senders waiting for it fail.
Close(c) ==
  /\ life[c] = "open"
  /\ Goto(c, "closing")
  /\ reader' = [reader EXCEPT ![c] = IF @.step = "send" THEN IdleReader ELSE @]
  /\ serving' = [serving EXCEPT ![c] = {}]
  /\ out' = [out EXCEPT ![c] = <<>>]
  /\ notices' = {n \in notices : n.conn # c}
  /\ UNCHANGED <<mapVars, sessions, nextId, sigq, routerVars, todo>>

\* write_loop ends once its queue is empty and every sender is gone.
WriterDone(c) ==
  /\ out[c] = <<>>
  /\ ~SenderHeld(c)
  /\ Close(c)

\* forget_connection, connections.remove: the map entry first ...
RemoveInner(c) ==
  /\ life[c] = "closing"
  /\ inner' = inner \ {c}
  /\ Goto(c, IF c \in inner /\ ~IsUser(c) THEN "unlisted" ELSE "collect")
  /\ UNCHANGED <<devices, sessions, nextId, out, sigq, routerVars, reader, todo, notices, serving>>

\* Mutant: the device entry is removed whatever it names.
RemoveDeviceAlways(c) ==
  /\ life[c] = "unlisted"
  /\ devices' = [devices EXCEPT ![Principal[c]] = NoConn]
  /\ Goto(c, "collect")
  /\ UNCHANGED <<inner, sessions, nextId, out, sigq, routerVars, reader, todo, notices, serving>>

\* ... then the device entry, if it still names this connection.
RemoveDevice(c) ==
  /\ life[c] = "unlisted"
  /\ devices' = [devices EXCEPT ![Principal[c]] = IF @ = c THEN NoConn ELSE @]
  /\ Goto(c, "collect")
  /\ UNCHANGED <<inner, sessions, nextId, out, sigq, routerVars, reader, todo, notices, serving>>

\* Mutant: the device end of sessions is forgotten.
CollectInitiated(c) ==
  /\ life[c] = "collect"
  /\ todo' = [todo EXCEPT ![c] = {s.id : s \in {x \in sessions : x.initiator_conn = c}}]
  /\ Goto(c, "dropping")
  /\ UNCHANGED <<mapVars, sessions, nextId, out, sigq, routerVars, reader, notices, serving>>

\* remove_for_conn: collect the ids ...
CollectSessions(c) ==
  /\ life[c] = "collect"
  /\ todo' = [todo EXCEPT ![c] = {s.id : s \in {x \in sessions : c \in Ends(x)}}]
  /\ Goto(c, "dropping")
  /\ UNCHANGED <<mapVars, sessions, nextId, out, sigq, routerVars, reader, notices, serving>>

\* ... remove the sessions one by one, telling the ends of each one removed ...
DropSession(c) ==
  /\ life[c] = "dropping"
  /\ \E i \in todo[c] :
       /\ todo' = [todo EXCEPT ![c] = @ \ {i}]
       /\ sessions' = Without(i)
       /\ notices' = notices \cup NoticesFor(i)
  /\ UNCHANGED <<life, mapVars, nextId, out, sigq, routerVars, reader, serving>>

\* ... and the handler returns.
Forgotten(c) ==
  /\ life[c] = "dropping" /\ todo[c] = {}
  /\ Goto(c, "gone")
  /\ UNCHANGED <<mapVars, sessions, nextId, out, sigq, routerVars, reader, todo, notices, serving>>
-----------------------------------------------------------------------------
(* Reader *)

\* The router has created the session and not yet confirmed it.
UnderConstruction(s) == s.id = rsid /\ rstep \in {"deliver", "check", "undo"}

\* Ids an end may name: a host those of the sessions it serves, a user those of
\* its sessions the host can have answered on.
Named(c) ==
  IF IsUser(c)
    THEN {s.id : s \in {x \in sessions : x.initiator_conn = c
                                                 /\ ~UnderConstruction(x)}}
    ELSE serving[c]

Requested == nextId + Len(SelectSeq(sigq, LAMBDA m : m.packet.type = "request"))

ToRouter(c, p) ==
  /\ life[c] = "open" /\ reader[c].step = "idle"
  /\ Len(sigq) < SignalQueue
  /\ sigq' = Append(sigq, [from |-> c, packet |-> p])
  /\ UNCHANGED <<life, mapVars, sessions, nextId, out, routerVars, reader, todo, notices>>

\* A text frame waits for room in the router's queue, which stops the reader.
ReadRequest(c) ==
  /\ Requested < MaxRequests
  /\ \E d \in Devices, version \in {"legacy", "tunnel"} \cap Inputs :
       ToRouter(c, [type |-> "request", device |-> d, tunnel |-> version = "tunnel"])
  /\ UNCHANGED serving

\* SessionClosed or SessionRejected; a host that sends one has stopped serving.
ReadEnd(c) ==
  /\ "end" \in Inputs
  /\ \E i \in Named(c) :
       /\ ToRouter(c, [type |-> "end", sid |-> i])
       /\ serving' = [serving EXCEPT ![c] = @ \ {i}]

\* Any other packet of a session.
ReadData(c) ==
  /\ "data" \in Inputs
  /\ \E i \in Named(c) : ToRouter(c, [type |-> "data", sid |-> i])
  /\ UNCHANGED serving

\* forward_tunnel_frame: look up the peer and clone its client.
ReadFrame(c) ==
  /\ "frame" \in Inputs
  /\ life[c] = "open" /\ reader[c].step = "idle"
  /\ \E i \in Named(c) : \E peer \in TunnelPeerConn(i, c) \cap inner :
       reader' = [reader EXCEPT ![c] = [step |-> "send", sid |-> i, peer |-> peer]]
  /\ UNCHANGED <<life, mapVars, sessions, nextId, out, sigq, routerVars, todo, notices, serving>>

\* send_timeout finds room ...
SendFrame(c) ==
  /\ life[c] = "open" /\ reader[c].step = "send"
  /\ life[reader[c].peer] = "open" /\ ~Full(reader[c].peer)
  /\ Push(reader[c].peer, Other)
  /\ reader' = [reader EXCEPT ![c] = IdleReader]
  /\ UNCHANGED <<life, mapVars, sessions, nextId, sigq, routerVars, todo, notices, serving>>

\* ... or the peer is stuck or gone,
FrameStuck(c) ==
  /\ life[c] = "open" /\ reader[c].step = "send"
  /\ Full(reader[c].peer) \/ life[reader[c].peer] # "open"
  /\ reader' = [reader EXCEPT ![c].step = "end"]
  /\ UNCHANGED <<life, mapVars, sessions, nextId, out, sigq, routerVars, todo, notices, serving>>

\* Mutant: a stuck device is cut off like a stuck viewer.
EndStuckAnyKind(c) ==
  /\ reader[c].step = "end"
  /\ sessions' = Without(reader[c].sid)
  /\ notices' = notices \cup NoticesFor(reader[c].sid)
  /\ reader' = [reader EXCEPT ![c].step = "cut"]
  /\ UNCHANGED <<life, mapVars, nextId, out, sigq, routerVars, todo, serving>>

\* which ends the session ...
EndStuck(c) ==
  /\ reader[c].step = "end"
  /\ sessions' = Without(reader[c].sid)
  /\ notices' = notices \cup NoticesFor(reader[c].sid)
  /\ reader' = [reader EXCEPT ![c] = IF IsUser(@.peer) THEN [@ EXCEPT !.step = "cut"]
                                     ELSE IdleReader]
  /\ UNCHANGED <<life, mapVars, nextId, out, sigq, routerVars, todo, serving>>

\* ... and takes a stuck viewer out of the map, so that its writer finishes.
CutViewer(c) ==
  /\ reader[c].step = "cut"
  /\ inner' = inner \ {reader[c].peer}
  /\ reader' = [reader EXCEPT ![c] = IdleReader]
  /\ UNCHANGED <<life, devices, sessions, nextId, out, sigq, routerVars, todo, notices, serving>>
-----------------------------------------------------------------------------
(* Signaling router *)

RouterAt(step, msg, sid, conn) ==
  rstep' = step /\ rmsg' = msg /\ rsid' = sid /\ rconn' = conn
RouterIdle == RouterAt("idle", NoMsg, 0, NoConn)
RouterGoto(step) == rstep' = step /\ UNCHANGED <<rmsg, rsid, rconn>>

\* A session request: a fresh id, the kind check and the device lookup.
TakeRequest ==
  /\ rstep = "idle" /\ sigq # <<>> /\ Head(sigq).packet.type = "request"
  /\ LET m == Head(sigq)
         conn == IF IsUser(m.from) THEN devices[m.packet.device] ELSE NoConn
     IN RouterAt(IF conn = NoConn THEN "reject" ELSE "filter", m, nextId, conn)
  /\ sigq' = Tail(sigq)
  /\ nextId' = nextId + 1
  /\ UNCHANGED <<life, mapVars, sessions, out, reader, todo, notices, serving>>

\* Mutant: the organisation is not compared.
FilterNothing ==
  /\ rstep = "filter"
  /\ RouterGoto(IF rconn \in inner THEN "create" ELSE "reject")
  /\ UNCHANGED <<life, mapVars, sessions, nextId, out, sigq, reader, todo, notices, serving>>

\* The connection found must be in the map, of the sender's organisation.
FilterDevice ==
  /\ rstep = "filter"
  /\ RouterGoto(IF rconn \in inner /\ Org[Principal[rconn]] = Org[Principal[rmsg.from]]
                  THEN "create" ELSE "reject")
  /\ UNCHANGED <<life, mapVars, sessions, nextId, out, sigq, reader, todo, notices, serving>>

CreateSession ==
  /\ rstep = "create"
  /\ LET u == Principal[rmsg.from]
         d == rmsg.packet.device
     IN IF HasRoom(u, d)
          THEN /\ sessions' = sessions \cup
                    {[id |-> rsid, device_id |-> d, device_conn |-> rconn,
                      initiator_id |-> u, initiator_conn |-> rmsg.from,
                      tunnel |-> rmsg.packet.tunnel]}
               /\ RouterGoto("deliver")
          ELSE RouterGoto("reject") /\ UNCHANGED sessions
  /\ UNCHANGED <<life, mapVars, nextId, out, sigq, reader, todo, notices, serving>>

\* The request goes to the device with its session id.
DeliverRequest ==
  /\ rstep = "deliver"
  /\ \E delivered \in BOOLEAN :
       /\ SendTo(rconn, [type |-> "request", sid |-> rsid], delivered)
       /\ RouterGoto(IF delivered THEN "check" ELSE "undo")
  /\ UNCHANGED <<life, mapVars, sessions, nextId, sigq, reader, todo, notices, serving>>

\* Mutant: the initiator is not looked up again.
CheckNothing ==
  /\ rstep = "check"
  /\ RouterIdle
  /\ UNCHANGED <<life, mapVars, sessions, nextId, out, sigq, reader, todo, notices, serving>>

\* The initiator may have closed while the request waited in the queue.
CheckInitiator ==
  /\ rstep = "check"
  /\ IF rmsg.from \in inner THEN RouterIdle ELSE RouterGoto("undo")
  /\ UNCHANGED <<life, mapVars, sessions, nextId, out, sigq, reader, todo, notices, serving>>

\* Mutant: the session is refused and kept.
RejectWithoutUndo ==
  /\ rstep = "undo"
  /\ RouterGoto("reject")
  /\ UNCHANGED <<life, mapVars, sessions, nextId, out, sigq, reader, todo, notices, serving>>

UndoSession ==
  /\ rstep = "undo"
  /\ sessions' = Without(rsid)
  /\ RouterGoto("reject")
  /\ UNCHANGED <<life, mapVars, nextId, out, sigq, reader, todo, notices, serving>>

Reject ==
  /\ rstep = "reject"
  /\ \E delivered \in BOOLEAN : SendTo(rmsg.from, Other, delivered)
  /\ RouterIdle
  /\ UNCHANGED <<life, mapVars, sessions, nextId, sigq, reader, todo, notices, serving>>

\* A packet of a session is dropped unless it comes from one of its ends.
TakeSessionPacket ==
  /\ rstep = "idle" /\ sigq # <<>> /\ Head(sigq).packet.type # "request"
  /\ LET m == Head(sigq)
         peers == PeerConn(m.packet.sid, m.from)
     IN IF peers = {} THEN UNCHANGED routerVars
        ELSE \E peer \in peers : RouterAt("forward", m, m.packet.sid, peer)
  /\ sigq' = Tail(sigq)
  /\ UNCHANGED <<life, mapVars, sessions, nextId, out, reader, todo, notices, serving>>

\* The peer may be unreachable; an ending packet ends the session all the same.
Forward ==
  /\ rstep = "forward"
  /\ \E delivered \in BOOLEAN :
       SendTo(rconn, IF rmsg.packet.type = "end" THEN [type |-> "closed", sid |-> rsid]
                     ELSE Other, delivered)
  /\ IF rmsg.packet.type = "end" THEN RouterGoto("end") ELSE RouterIdle
  /\ UNCHANGED <<life, mapVars, sessions, nextId, sigq, reader, todo, notices, serving>>

EndSession ==
  /\ rstep = "end"
  /\ sessions' = Without(rsid)
  /\ RouterIdle
  /\ UNCHANGED <<life, mapVars, nextId, out, sigq, reader, todo, notices, serving>>
-----------------------------------------------------------------------------
Router == \/ TakeRequest \/ FilterDevice \/ CreateSession \/ DeliverRequest
          \/ CheckInitiator \/ UndoSession \/ Reject
          \/ TakeSessionPacket \/ Forward \/ EndSession
Cleanup(c) == \/ RemoveInner(c) \/ RemoveDevice(c) \/ CollectSessions(c)
              \/ DropSession(c) \/ Forgotten(c)
ReadPacket(c) == ReadRequest(c) \/ ReadEnd(c) \/ ReadData(c) \/ ReadFrame(c)
Forwarding(c) == SendFrame(c) \/ FrameStuck(c) \/ EndStuck(c) \/ CutViewer(c)
Handler(c) == AuthFails(c) \/ InsertDevice(c) \/ Insert(c) \/ Close(c)
Notice == \E n \in notices : NoticeQueued(n) \/ NoticeLost(n)

Next == \/ Router
        \/ Notice
        \/ \E c \in Conns : \/ Handler(c) \/ Cleanup(c) \/ ReadPacket(c)
                            \/ Forwarding(c) \/ Write(c) \/ WriterDone(c)

Spec == Init /\ [][Next]_vars

\* Tasks that are ready run.  Nothing is assumed of the far ends: sockets need
\* not open, close or send anything.
Fairness == /\ WF_vars(Router) /\ WF_vars(Notice)
            /\ \A c \in Conns : /\ WF_vars(Cleanup(c)) /\ WF_vars(Forwarding(c))
                                /\ WF_vars(Write(c)) /\ WF_vars(WriterDone(c))
FairSpec == Spec /\ Fairness
-----------------------------------------------------------------------------
(* Properties *)

\* Shape of the state; both kinds of queue stay within their bounds.
TypeOK ==
  /\ life \in [Conns -> {"new", "registering", "open", "closing", "unlisted",
                         "collect", "dropping", "gone"}]
  /\ inner \subseteq Conns
  /\ devices \in [Devices -> Conns \cup {NoConn}]
  /\ sessions \subseteq ActiveSession
  /\ nextId \in Nat
  /\ out \in [Conns -> Seq(OutMessages)]
  /\ sigq \in Seq(Messages)
  /\ rstep \in {"idle", "filter", "create", "deliver", "check", "undo", "reject",
                "forward", "end"}
  /\ rmsg \in Messages \cup {NoMsg}
  /\ rsid \in SessionIds
  /\ rconn \in Conns \cup {NoConn}
  /\ reader \in [Conns -> Readers]
  /\ todo \in [Conns -> SUBSET SessionIds]
  /\ notices \subseteq [conn : Conns, sid : SessionIds]
  /\ serving \in [Conns -> SUBSET SessionIds]
  /\ \A c \in Conns : Len(out[c]) <= OutQueue
  /\ Len(sigq) <= SignalQueue

\* "A session is bound to the two WebSocket connections that set it up, so it
\* ends with either" (manager.rs): once the router has let go of a session, the
\* cleanup of each of its two connections has yet to collect it or has it on
\* its list.  Requests queued in the router race the cleanup of both ends.
Collectable(s, c) == life[c] \notin {"dropping", "gone"} \/ s.id \in todo[c]
NoLeakedSession ==
  \A s \in sessions : UnderConstruction(s) \/ \A c \in Ends(s) : Collectable(s, c)

\* create_session's limits hold of the sessions that exist, whatever removals
\* race the router's count.
SessionLimits ==
  /\ \A u \in Users : Cardinality(SessionsOf(u)) <= MaxPerUser
  /\ \A d \in Devices : Cardinality(SessionsOn(d)) <= MaxPerDevice

\* route_packet: a session joins a user and a device of one organisation, and
\* the device connection is the device's own, however the device reconnects
\* between the lookup, the organisation check and the creation.
SessionsWithinOrg ==
  \A s \in sessions : /\ Principal[s.device_conn] = s.device_id
                      /\ Principal[s.initiator_conn] = s.initiator_id
                      /\ Org[s.device_id] = Org[s.initiator_id]

\* device_is_connected never reports a device whose connection's handler has
\* finished with the connection map: no entry outlives its connection.
PresenceIsLive ==
  \A d \in Devices : devices[d] # NoConn =>
    /\ Principal[devices[d]] = d
    /\ life[devices[d]] \in {"registering", "open", "closing", "unlisted"}

\* "A device stays online if it already reconnected on a newer connection"
\* (connection.rs): a device's entry changes only to a connection that is just
\* registering, or once the connection it names has left the map.
DeviceStaysOnline ==
  [][\A d \in Devices : devices'[d] # devices[d] =>
       \/ devices'[d] # NoConn /\ life[devices'[d]] = "new"
       \/ devices[d] \notin inner]_vars

\* A closed connection gives back the session slots it held, for good: no
\* request still queued in the router revives a session on it.
SlotsReleased ==
  \A c \in Conns : life[c] = "closing" ~> [](\A s \in sessions : c \notin Ends(s))

\* forward_tunnel_frame takes a stuck viewer out of the map; its socket is then
\* closed and its connection forgotten.
StuckViewerDisconnected ==
  \A c \in Conns : (life[c] = "open" /\ c \notin inner) ~> life[c] = "gone"

\* The relay implements the session service: sessions the router has confirmed
\* are established, connections whose handler returned are finished.
Service == INSTANCE SessionService WITH
  established <- {s \in sessions : ~UnderConstruction(s)},
  finished <- {c \in Conns : life[c] = "gone"},
  nextId <- IF rstep \in {"idle", "forward", "end"} THEN nextId ELSE rsid
ImplementsService == Service!Spec

\* A host is told of the end of every session it serves: "a host that missed it
\* would keep serving the session (capturing and encoding) for nobody"
\* (gateway.rs, notify_closed).
HostToldOfEnd ==
  \A c \in Conns : \A i \in serving[c] :
    \/ \E s \in sessions : s.id = i
    \/ i = rsid /\ rstep # "idle"
    \/ [conn |-> c, sid |-> i] \in notices
    \/ \E k \in 1..Len(out[c]) : out[c][k] = [type |-> "closed", sid |-> i]
-----------------------------------------------------------------------------
(* Inductive strengthening of the safety properties *)

\* Who is in the connection map: only connections whose handler has not begun
\* to forget them, and every such device (only viewers are ever cut out).
MapInv ==
  /\ \A c \in inner : life[c] \in {"open", "closing"}
  /\ \A c \in Conns : ~IsUser(c) /\ life[c] \in {"open", "closing"} => c \in inner
  /\ \A c \in Conns : reader[c].step = "cut" => IsUser(reader[c].peer)

\* What the router holds at each step.
Requesting == rstep \in {"filter", "create", "deliver", "check", "undo", "reject"}
RouterInv ==
  /\ rstep # "idle" => rmsg \in Messages
  /\ Requesting => nextId = rsid + 1 /\ rmsg.packet.type = "request"
  /\ rstep \in {"filter", "create", "deliver", "check", "undo"} =>
       /\ rconn \in Conns /\ Principal[rconn] = rmsg.packet.device
       /\ IsUser(rmsg.from)
  /\ rstep \in {"create", "deliver", "check", "undo"} =>
       Org[Principal[rconn]] = Org[Principal[rmsg.from]]
  /\ rstep \in {"forward", "end"} => rconn \in Conns /\ rmsg.packet.type # "request"

\* Whoever is named by a queued message, by the router past its filter or by a
\* session has been through registration.
Registered == {c \in Conns : life[c] \notin {"new", "registering"}}
RegisteredInv ==
  /\ \A k \in 1..Len(sigq) : sigq[k].from \in Registered
  /\ rstep # "idle" => rmsg.from \in Registered
  /\ rstep \in {"create", "deliver", "check", "undo"} => rconn \in Registered
  /\ \A s \in sessions : Ends(s) \subseteq Registered

\* Ids are unique and the one being requested is new; a session the router
\* confirmed to the device is on the device end's cleanup list or will be.
SessionInv ==
  /\ \A s, t \in sessions : s.id = t.id => s = t
  /\ \A s \in sessions : s.id < nextId
  /\ \A s \in sessions : rstep \in {"filter", "create"} => s.id # rsid
  /\ \A s \in sessions : UnderConstruction(s) =>
       /\ s.device_conn = rconn /\ s.initiator_conn = rmsg.from
       /\ rstep = "check" => Collectable(s, s.device_conn)

\* Only a handler that is dropping sessions has a list of them.
TodoInv == \A c \in Conns : life[c] # "dropping" => todo[c] = {}

IndInv == /\ TypeOK /\ RouterInv /\ MapInv /\ RegisteredInv /\ SessionInv /\ TodoInv
          /\ PresenceIsLive /\ SessionsWithinOrg /\ NoLeakedSession
=============================================================================
