---------------------------- MODULE RelayProofs ----------------------------
(***************************************************************************)
(* Proofs about Relay for every set of connections, users and devices and  *)
(* every limit and queue bound.                                            *)
(***************************************************************************)
EXTENDS Relay, FiniteSetTheorems, TLAPS

\* The type of the outgoing queues survives a send that checked for room ...
LEMMA PushType ==
  ASSUME TypeOK, NEW c \in Conns, ~Full(c), NEW m \in OutMessages, Push(c, m)
  PROVE  out' \in [Conns -> Seq(OutMessages)] /\ \A x \in Conns : Len(out'[x]) <= OutQueue
<1>1. CASE life[c] = "open"
  <2>1. out' = [out EXCEPT ![c] = Append(out[c], m)]
    BY <1>1 DEF Push
  <2>2. out[c] \in Seq(OutMessages) /\ Len(out[c]) \in Nat
    BY DEF TypeOK
  <2>3. Append(out[c], m) \in Seq(OutMessages) /\ Len(Append(out[c], m)) = Len(out[c]) + 1
    BY <2>2
  <2> QED
    BY <2>1, <2>2, <2>3, RelayConstants DEF TypeOK, Full
<1>2. CASE life[c] # "open"
  BY <1>2 DEF Push, TypeOK
<1> QED
  BY <1>1, <1>2

\* ... and so it does a send that may fail.
LEMMA SendToType ==
  ASSUME TypeOK, NEW c, NEW m \in OutMessages, NEW ok, SendTo(c, m, ok)
  PROVE  out' \in [Conns -> Seq(OutMessages)] /\ \A x \in Conns : Len(out'[x]) <= OutQueue
BY PushType DEF SendTo, TypeOK

\* Closing a connection keeps every type.
LEMMA CloseType ==
  ASSUME TypeOK, NEW c \in Conns, Close(c)
  PROVE  TypeOK'
<1>1. reader' \in [Conns -> Readers]
  <2>1. IdleReader \in Readers /\ reader[c] \in Readers
    BY DEF Readers, TypeOK
  <2> QED
    BY <2>1 DEF Close, TypeOK
<1>2. out' \in [Conns -> Seq(OutMessages)] /\ \A x \in Conns : Len(out'[x]) <= OutQueue
  BY RelayConstants DEF Close, TypeOK
<1>3. life' \in [Conns -> {"new", "registering", "open", "closing", "unlisted",
                           "collect", "dropping", "gone"}]
  BY DEF Close, Goto, TypeOK
<1>4. serving' \in [Conns -> SUBSET SessionIds] /\ notices' \subseteq notices
  BY DEF Close, TypeOK
<1> QED
  BY <1>1, <1>2, <1>3, <1>4 DEF Close, TypeOK, mapVars, routerVars

\* A device's entry in the device table names a connection of that device.
Owned == \A d \in Devices : devices[d] # NoConn => Principal[devices[d]] = d

\* The steps of the router keep the types.
LEMMA RouterType ==
  ASSUME TypeOK, RouterInv, Owned, Router
  PROVE  (TypeOK /\ RouterInv /\ Owned)'
<1> USE RelayConstants DEF TypeOK, RouterInv, Requesting, Owned, mapVars, routerVars, SessionIds
<1> Other \in OutMessages
  BY DEF Other, OutMessages
<1>1. ASSUME sigq # <<>>
      PROVE  /\ Head(sigq) \in Messages /\ Tail(sigq) \in Seq(Messages)
             /\ Len(Tail(sigq)) = Len(sigq) - 1
  BY <1>1
<1>2. CASE TakeRequest
  <2>1. sigq # <<>> /\ Head(sigq).from \in Conns /\ Head(sigq).packet.type = "request"
        /\ Head(sigq).packet.device \in Devices
    BY <1>1, <1>2 DEF TakeRequest, Messages, Packets
  <2> QED
    BY SMTT(30), <1>1, <1>2, <2>1 DEF TakeRequest, RouterAt, IsUser
<1>3. CASE FilterDevice
  BY <1>3 DEF FilterDevice, RouterGoto
<1>4. CASE CreateSession
  <2>1. /\ rmsg.packet.device \in Devices /\ rmsg.packet.tunnel \in BOOLEAN
        /\ rmsg.from \in Conns /\ Principal[rmsg.from] \in Users
    BY <1>4 DEF CreateSession, Messages, Packets, IsUser
  <2>2. sessions' \subseteq ActiveSession
    BY <1>4, <2>1 DEF CreateSession, ActiveSession
  <2> QED
    BY <1>4, <2>2 DEF CreateSession, RouterGoto
<1>5. CASE DeliverRequest
  <2>1. [type |-> "request", sid |-> rsid] \in OutMessages
    BY DEF OutMessages
  <2> QED
    BY Zenon, <1>5, <2>1, SendToType DEF DeliverRequest, RouterGoto
<1>6. CASE CheckInitiator
  <2>1. CASE rmsg.from \in inner
    BY <1>6, <2>1 DEF CheckInitiator, RouterIdle, RouterAt
  <2>2. CASE rmsg.from \notin inner
    BY <1>6, <2>2 DEF CheckInitiator, RouterGoto
  <2> QED
    BY Zenon, <2>1, <2>2
<1>7. CASE UndoSession
  BY <1>7 DEF UndoSession, RouterGoto, Without
<1>8. CASE Reject
  BY <1>8, SendToType DEF Reject, RouterIdle, RouterAt
<1>9. CASE TakeSessionPacket
  <2>1. sigq # <<>> /\ Head(sigq).packet.type # "request" /\ Head(sigq).packet.sid \in Nat
    BY <1>1, <1>9 DEF TakeSessionPacket, Messages, Packets
  <2>2. \A p \in PeerConn(Head(sigq).packet.sid, Head(sigq).from) : p \in Conns
    BY DEF PeerConn, ActiveSession
  <2> QED
    BY SMTT(30), <1>1, <1>9, <2>1, <2>2 DEF TakeSessionPacket, RouterAt
<1>10. CASE Forward
  <2>1. [type |-> "closed", sid |-> rsid] \in OutMessages
    BY DEF OutMessages
  <2>2. \E m \in OutMessages, ok \in BOOLEAN : SendTo(rconn, m, ok)
    BY <1>10, <2>1 DEF Forward
  <2>3. out' \in [Conns -> Seq(OutMessages)] /\ \A x \in Conns : Len(out'[x]) <= OutQueue
    BY Zenon, <2>2, SendToType
  <2>4. RouterInv' /\ rstep' \in {"idle", "end"} /\ rmsg' \in Messages \cup {NoMsg}
        /\ rsid' \in Nat /\ rconn' \in Conns \cup {NoConn}
    BY <1>10 DEF Forward, RouterGoto, RouterIdle, RouterAt
  <2> QED
    BY Zenon, <1>10, <2>3, <2>4 DEF Forward
<1>11. CASE EndSession
  BY <1>11 DEF EndSession, RouterIdle, RouterAt, Without
<1> QED
  BY Zenon, <1>2, <1>3, <1>4, <1>5, <1>6, <1>7, <1>8, <1>9, <1>10, <1>11 DEF Router

\* So do the steps of everyone else.
LEMMA OtherType ==
  ASSUME TypeOK, RouterInv, Owned, Next, ~Router
  PROVE  (TypeOK /\ RouterInv /\ Owned)'
<1> USE RelayConstants DEF TypeOK, mapVars, routerVars, SessionIds
<1> Other \in OutMessages /\ IdleReader \in Readers
  BY DEF Other, OutMessages, Readers
<1>1. ASSUME NEW n \in notices, NoticeQueued(n) PROVE TypeOK' /\ UNCHANGED <<routerVars, nextId, devices>>
  BY SMTT(30), <1>1, PushType DEF NoticeQueued, OutMessages
<1>2. ASSUME NEW n \in notices, NoticeLost(n) PROVE TypeOK' /\ UNCHANGED <<routerVars, nextId, devices>>
  BY <1>2 DEF NoticeLost
<1>3. ASSUME NEW c \in Conns, Handler(c)
      PROVE  TypeOK' /\ UNCHANGED <<routerVars, nextId>> /\ Owned'
  <2>1. CASE AuthFails(c) BY <2>1 DEF AuthFails, Goto, Owned
  <2>2. CASE InsertDevice(c) BY <2>2 DEF InsertDevice, Goto, IsUser, Owned
  <2>3. CASE Insert(c) BY <2>3 DEF Insert, Goto, Owned
  <2>4. CASE Close(c) BY Zenon, <2>4, CloseType DEF Close, Owned
  <2> QED BY Zenon, <1>3, <2>1, <2>2, <2>3, <2>4 DEF Handler
<1>4. ASSUME NEW c \in Conns, Cleanup(c)
      PROVE  TypeOK' /\ UNCHANGED <<routerVars, nextId>> /\ Owned'
  <2>1. CASE RemoveInner(c) BY <2>1 DEF RemoveInner, Goto, Owned
  <2>2. CASE RemoveDevice(c) BY Zenon, <2>2 DEF RemoveDevice, Goto, Owned
  <2>3. CASE CollectSessions(c) BY <2>3 DEF CollectSessions, Goto, ActiveSession, Owned
  <2>4. CASE DropSession(c)
    <3>1. PICK i \in todo[c] : /\ todo' = [todo EXCEPT ![c] = @ \ {i}]
                               /\ sessions' = Without(i)
                               /\ notices' = notices \cup NoticesFor(i)
      BY Zenon, <2>4 DEF DropSession
    <3>2. NoticesFor(i) \subseteq [conn : Conns, sid : SessionIds]
      BY DEF NoticesFor
    <3> QED BY <2>4, <3>1, <3>2 DEF DropSession, Without, Owned
  <2>5. CASE Forgotten(c) BY <2>5 DEF Forgotten, Goto, Owned
  <2> QED BY Zenon, <1>4, <2>1, <2>2, <2>3, <2>4, <2>5 DEF Cleanup
<1>5. ASSUME NEW c \in Conns, ReadPacket(c)
      PROVE  TypeOK' /\ UNCHANGED <<routerVars, nextId, devices>>
  <2>1. \A i \in Named(c) : i \in Nat
    BY DEF Named, ActiveSession
  <2>2. CASE ReadRequest(c)
    BY SMTT(30), <2>2 DEF ReadRequest, ToRouter, Messages, Packets
  <2>3. CASE ReadEnd(c)
    BY SMTT(30), <2>1, <2>3 DEF ReadEnd, ToRouter, Messages, Packets
  <2>4. CASE ReadData(c)
    BY <2>1, <2>4 DEF ReadData, ToRouter, Messages, Packets
  <2>5. CASE ReadFrame(c)
    <3>1. reader' \in [Conns -> Readers]
      BY <2>1, <2>5, SMTT(30) DEF ReadFrame, Readers
    <3> QED BY <2>5, <3>1 DEF ReadFrame
  <2> QED BY Zenon, <1>5, <2>2, <2>3, <2>4, <2>5 DEF ReadPacket
<1>6. ASSUME NEW c \in Conns, Forwarding(c)
      PROVE  TypeOK' /\ UNCHANGED <<routerVars, nextId, devices>>
  <2>1. reader[c].step # "idle" =>
          reader[c] \in [step : {"send", "end", "cut"}, sid : SessionIds, peer : Conns]
    BY DEF Readers, IdleReader
  <2>2. CASE SendFrame(c)
    BY Zenon, <2>1, <2>2, PushType DEF SendFrame
  <2>3. CASE FrameStuck(c)
    <3>1. reader' \in [Conns -> Readers]
      BY Zenon, <2>1, <2>3 DEF FrameStuck, Readers
    <3> QED BY <2>3, <3>1 DEF FrameStuck
  <2>4. CASE EndStuck(c)
    <3>1. [reader[c] EXCEPT !.step = "cut"] \in Readers
      BY Zenon, <2>1, <2>4 DEF EndStuck, Readers
    <3>2. reader' \in [Conns -> Readers]
      BY <2>4, <3>1 DEF EndStuck
    <3>3. sessions' \subseteq sessions
      BY <2>4 DEF EndStuck, Without
    <3>4. notices' \subseteq [conn : Conns, sid : SessionIds]
      BY <2>1, <2>4 DEF EndStuck, NoticesFor
    <3> QED BY <2>4, <3>2, <3>3, <3>4 DEF EndStuck
  <2>5. CASE CutViewer(c)
    BY <2>5 DEF CutViewer
  <2> QED BY Zenon, <1>6, <2>2, <2>3, <2>4, <2>5 DEF Forwarding
<1>7. ASSUME NEW c \in Conns, Write(c)
      PROVE  TypeOK' /\ UNCHANGED <<routerVars, nextId, devices>>
  <2> DEFINE m == Head(out[c])
  <2>1. out[c] \in Seq(OutMessages) /\ out[c] # <<>> /\ Len(out[c]) \in Nat
    BY <1>7 DEF Write
  <2>2. m \in OutMessages /\ Tail(out[c]) \in Seq(OutMessages)
        /\ Len(Tail(out[c])) = Len(out[c]) - 1
    BY <2>1
  <2>3. serving' \in [Conns -> SUBSET SessionIds]
    BY SMTT(30), <1>7, <2>2 DEF Write, OutMessages
  <2>4. out' \in [Conns -> Seq(OutMessages)] /\ \A x \in Conns : Len(out'[x]) <= OutQueue
    BY <1>7, <2>1, <2>2 DEF Write
  <2> QED BY Zenon, <1>7, <2>3, <2>4 DEF Write
<1>8. ASSUME NEW c \in Conns, WriterDone(c)
      PROVE  TypeOK' /\ UNCHANGED <<routerVars, nextId, devices>>
  BY Zenon, <1>8, CloseType DEF WriterDone, Close
<1>9. /\ UNCHANGED <<routerVars, nextId>> => RouterInv'
      /\ UNCHANGED devices => Owned'
  BY DEF RouterInv, Requesting, Owned
<1> QED
  BY Zenon, <1>1, <1>2, <1>3, <1>4, <1>5, <1>6, <1>7, <1>8, <1>9 DEF Next, Notice

\* Every state has its type, and both queues respect their bounds.
LEMMA Typing == Spec => [](TypeOK /\ RouterInv /\ Owned)
<1> DEFINE Inv == TypeOK /\ RouterInv /\ Owned
<1>1. Init => Inv
  BY RelayConstants DEF Init, TypeOK, RouterInv, Requesting, Owned, IdleReader, Readers, SessionIds
<1>2. Inv /\ [Next]_vars => Inv'
  <2> SUFFICES ASSUME TypeOK, RouterInv, Owned, [Next]_vars PROVE Inv'
    OBVIOUS
  <2>1. CASE Router
    BY <2>1, RouterType
  <2>2. CASE Next /\ ~Router
    BY <2>2, OtherType
  <2>3. CASE UNCHANGED vars
    BY <2>3 DEF vars, TypeOK, RouterInv, Requesting, Owned
  <2> QED
    BY <2>1, <2>2, <2>3
<1> QED
  BY <1>1, <1>2, PTL DEF Spec

\* Which connections are in the maps: no device entry outlives its connection,
\* because a device stays in the map of connections until its own handler
\* removes it (only viewers are cut out by somebody else).
LEMMA MapStep ==
  ASSUME TypeOK, Owned, MapInv, PresenceIsLive, [Next]_vars
  PROVE  MapInv' /\ PresenceIsLive'
<1> USE RelayConstants DEF TypeOK, MapInv, PresenceIsLive, Owned, mapVars, IsUser
<1>1. ASSUME UNCHANGED <<life, inner, devices, reader>> PROVE MapInv' /\ PresenceIsLive'
  BY <1>1
<1>3. CASE Router
  BY Zenon, <1>1, <1>3 DEF Router, TakeRequest, FilterDevice, CreateSession, DeliverRequest,
       CheckInitiator, UndoSession, Reject, TakeSessionPacket, Forward, EndSession
<1>4. CASE Notice
  BY SMTT(30), <1>1, <1>4 DEF Notice, NoticeQueued, NoticeLost
<1>5. ASSUME NEW c \in Conns, Close(c) PROVE MapInv' /\ PresenceIsLive'
  BY <1>5 DEF Close, Goto, IdleReader
<1>6. ASSUME NEW c \in Conns, Handler(c) PROVE MapInv' /\ PresenceIsLive'
  <2>1. CASE AuthFails(c) BY SMTT(30), <2>1 DEF AuthFails, Goto
  <2>2. CASE InsertDevice(c) BY <2>2 DEF InsertDevice, Goto
  <2>3. CASE Insert(c) BY <2>3 DEF Insert, Goto
  <2> QED BY Zenon, <1>5, <1>6, <2>1, <2>2, <2>3 DEF Handler
<1>7. ASSUME NEW c \in Conns, Cleanup(c) PROVE MapInv' /\ PresenceIsLive'
  <2>1. CASE RemoveInner(c) BY <2>1 DEF RemoveInner, Goto
  <2>2. CASE RemoveDevice(c) BY <2>2 DEF RemoveDevice, Goto
  <2>3. CASE CollectSessions(c) BY <2>3 DEF CollectSessions, Goto
  <2>4. CASE DropSession(c) BY SMTT(30), <1>1, <2>4 DEF DropSession
  <2>5. CASE Forgotten(c) BY <2>5 DEF Forgotten, Goto
  <2> QED BY Zenon, <1>7, <2>1, <2>2, <2>3, <2>4, <2>5 DEF Cleanup
<1>8. ASSUME NEW c \in Conns, ReadPacket(c) PROVE MapInv' /\ PresenceIsLive'
  <2>1. CASE ReadFrame(c)
    BY <2>1 DEF ReadFrame
  <2> QED
    BY Zenon, <1>1, <1>8, <2>1 DEF ReadPacket, ReadRequest, ReadEnd, ReadData, ToRouter
<1>9. ASSUME NEW c \in Conns, Forwarding(c) PROVE MapInv' /\ PresenceIsLive'
  <2>1. CASE SendFrame(c) BY <2>1 DEF SendFrame, IdleReader
  <2>2. CASE FrameStuck(c) BY <2>2 DEF FrameStuck
  <2>3. CASE EndStuck(c) BY <2>3 DEF EndStuck, IdleReader
  <2>4. CASE CutViewer(c) BY <2>4 DEF CutViewer, IdleReader
  <2> QED BY Zenon, <1>9, <2>1, <2>2, <2>3, <2>4 DEF Forwarding
<1>10. ASSUME NEW c \in Conns, Write(c) \/ WriterDone(c) PROVE MapInv' /\ PresenceIsLive'
  BY <1>1, <1>5, <1>10 DEF Write, WriterDone
<1> QED
  BY Zenon, <1>1, <1>3, <1>4, <1>6, <1>7, <1>8, <1>9, <1>10 DEF Next, vars

\* A connection, once registered, never goes back to the handshake.
LEMMA RegisteredGrows ==
  ASSUME TypeOK, [Next]_vars
  PROVE  Registered \subseteq Registered'
<1> USE DEF Registered, TypeOK
<1>1. ASSUME UNCHANGED life PROVE Registered \subseteq Registered'
  BY <1>1
<1>2. CASE Router
  BY Zenon, <1>1, <1>2 DEF Router, TakeRequest, FilterDevice, CreateSession, DeliverRequest,
       CheckInitiator, UndoSession, Reject, TakeSessionPacket, Forward, EndSession
<1>3. CASE Notice
  BY <1>1, <1>3 DEF Notice, NoticeQueued, NoticeLost
<1>4. ASSUME NEW d \in Conns, Handler(d) \/ Cleanup(d) \/ WriterDone(d)
      PROVE  Registered \subseteq Registered'
  BY Zenon, <1>4 DEF Handler, AuthFails, InsertDevice, Insert, Close, Cleanup, RemoveInner,
       RemoveDevice, CollectSessions, DropSession, Forgotten, WriterDone, Goto
<1>5. ASSUME NEW d \in Conns, ReadPacket(d) \/ Forwarding(d) \/ Write(d)
      PROVE  Registered \subseteq Registered'
  BY Zenon, <1>1, <1>5 DEF ReadPacket, ReadRequest, ReadEnd, ReadData, ReadFrame, ToRouter,
       Forwarding, SendFrame, FrameStuck, EndStuck, CutViewer, Write
<1> QED
  BY <1>1, <1>2, <1>3, <1>4, <1>5 DEF Next, vars

\* Sessions join registered connections only.
LEMMA RegisteredStep ==
  ASSUME TypeOK, RouterInv, MapInv, RegisteredInv, [Next]_vars
  PROVE  RegisteredInv'
<1> USE DEF RegisteredInv
<1>1. Registered \subseteq Registered'
  BY RegisteredGrows
<1>2. sigq \in Seq(Messages)
  BY DEF TypeOK
<1>3. ASSUME UNCHANGED <<sigq, rstep, rmsg, rconn>>, sessions' \subseteq sessions
      PROVE  RegisteredInv'
  BY <1>1, <1>3
<1>4. ASSUME sigq # <<>>, sigq' = Tail(sigq)
      PROVE  /\ Head(sigq).from \in Registered
             /\ \A k \in 1..Len(sigq') : sigq'[k].from \in Registered
  <2>1. Head(sigq) = sigq[1] /\ 1 \in 1..Len(sigq)
    BY <1>2, <1>4
  <2>2. \A k \in 1..Len(sigq') : sigq'[k] = sigq[k + 1] /\ k + 1 \in 1..Len(sigq)
    BY <1>2, <1>4
  <2> QED
    BY <2>1, <2>2
<1>5. CASE Router
  <2>1. CASE TakeRequest
    BY <1>1, <1>4, <2>1 DEF TakeRequest, RouterAt
  <2>2. CASE FilterDevice
    <3>1. inner \subseteq Registered
      BY Zenon DEF MapInv, Registered, TypeOK
    <3> QED
      BY <1>1, <2>2, <3>1 DEF FilterDevice, RouterGoto
  <2>3. CASE CreateSession
    BY <1>1, <2>3 DEF CreateSession, RouterGoto, Ends
  <2>4. CASE DeliverRequest \/ CheckInitiator \/ UndoSession \/ Reject
    BY <1>1, <2>4 DEF DeliverRequest, CheckInitiator, UndoSession, Reject,
         RouterGoto, RouterIdle, RouterAt, Without
  <2>5. CASE TakeSessionPacket
    BY Zenon, <1>1, <1>4, <2>5 DEF TakeSessionPacket, RouterAt, routerVars
  <2>6. CASE Forward \/ EndSession
    BY <1>1, <2>6 DEF Forward, EndSession, RouterGoto, RouterIdle, RouterAt, Without
  <2> QED
    BY <1>5, <2>1, <2>2, <2>3, <2>4, <2>5, <2>6 DEF Router
<1>6. CASE Notice
  BY <1>3, <1>6, SMTT(30) DEF Notice, NoticeQueued, NoticeLost, routerVars
<1>7. ASSUME NEW c \in Conns, Handler(c) \/ Cleanup(c) \/ Forwarding(c) \/ Write(c) \/ WriterDone(c)
      PROVE  RegisteredInv'
  BY SMTT(30), <1>3, <1>7 DEF Handler, AuthFails, InsertDevice, Insert, Close, Cleanup, RemoveInner,
       RemoveDevice, CollectSessions, DropSession, Forgotten, WriterDone, Forwarding,
       SendFrame, FrameStuck, EndStuck, CutViewer, Write, Without, routerVars
<1>8. ASSUME NEW c \in Conns, ReadPacket(c) PROVE RegisteredInv'
  <2>1. ASSUME NEW p, ToRouter(c, p) PROVE RegisteredInv'
    <3>1. \A k \in 1..Len(sigq') :
            sigq'[k] = IF k = Len(sigq) + 1 THEN [from |-> c, packet |-> p] ELSE sigq[k]
      BY <1>2, <2>1 DEF ToRouter
    <3>2. Len(sigq') = Len(sigq) + 1 /\ c \in Registered /\ Len(sigq) \in Nat
      BY <1>2, <2>1 DEF ToRouter, Registered
    <3> QED
      BY <1>1, <2>1, <3>1, <3>2 DEF ToRouter, routerVars
  <2> QED
    BY Zenon, <1>3, <1>8, <2>1 DEF ReadPacket, ReadRequest, ReadEnd, ReadData, ReadFrame, routerVars
<1> QED
  BY <1>3, <1>5, <1>6, <1>7, <1>8 DEF Next, vars

\* The session table: the heart of NoLeakedSession.  The device end is in the
\* map when the request is queued to it and the initiator when the router looks
\* it up again, so neither has collected its sessions at that moment.
LEMMA SessionStep ==
  ASSUME TypeOK, RouterInv, MapInv, RegisteredInv, SessionInv, NoLeakedSession, [Next]_vars
  PROVE  SessionInv' /\ NoLeakedSession'
<1> USE DEF SessionInv, NoLeakedSession, Collectable, UnderConstruction
<1>1. ASSUME UNCHANGED <<nextId, rstep, rmsg, rsid, rconn, life, todo>>, sessions' \subseteq sessions
      PROVE  SessionInv' /\ NoLeakedSession'
  BY <1>1
<1>2. /\ nextId \in Nat /\ rsid \in Nat
      /\ \A s \in sessions : s.id \in Nat /\ Ends(s) \subseteq Conns /\ s.device_conn \in Ends(s)
      /\ life \in [Conns -> {"new", "registering", "open", "closing", "unlisted",
                             "collect", "dropping", "gone"}]
      /\ todo \in [Conns -> SUBSET Nat]
  BY DEF TypeOK, ActiveSession, Ends, SessionIds
<1>3. CASE Router
  <2> USE DEF mapVars, RouterGoto, RouterIdle, RouterAt
  <2>1. CASE TakeRequest
    <3>1. /\ rstep = "idle" /\ rstep' \in {"filter", "reject"}
          /\ rsid' = nextId /\ nextId' = nextId + 1
          /\ UNCHANGED <<sessions, life, todo>>
      BY <2>1 DEF TakeRequest
    <3>2. \A s \in sessions : s.id < nextId /\ s.id < nextId + 1
      BY <1>2
    <3> QED
      BY <1>2, <3>1, <3>2
  <2>2. CASE FilterDevice
    BY <1>2, <2>2 DEF FilterDevice
  <2>3. CASE CreateSession
    <3>1. CASE ~HasRoom(Principal[rmsg.from], rmsg.packet.device)
      BY <1>2, <2>3, <3>1 DEF CreateSession
    <3>2. CASE HasRoom(Principal[rmsg.from], rmsg.packet.device)
      <4> DEFINE new == [id |-> rsid, device_id |-> rmsg.packet.device, device_conn |-> rconn,
                         initiator_id |-> Principal[rmsg.from], initiator_conn |-> rmsg.from,
                         tunnel |-> rmsg.packet.tunnel]
      <4>1. sessions' = sessions \cup {new} /\ rstep' = "deliver"
            /\ UNCHANGED <<life, todo, nextId, rsid, rmsg, rconn>>
        BY <2>3, <3>2 DEF CreateSession
      <4>2. rstep = "create" /\ rsid < nextId
        <5>1. rstep = "create"
          BY <2>3 DEF CreateSession
        <5>2. nextId = rsid + 1
          BY <5>1 DEF RouterInv, Requesting
        <5> QED
          BY <1>2, <5>1, <5>2
      <4>3. new.id = rsid /\ new.device_conn = rconn /\ new.initiator_conn = rmsg.from
        BY Zenon
      <4> HIDE DEF new
      <4>4. SessionInv'
        BY <4>1, <4>2, <4>3
      <4>5. NoLeakedSession'
        BY <4>1, <4>2, <4>3
      <4> QED
        BY <4>4, <4>5
    <3> QED
      BY Zenon, <3>1, <3>2
  <2>4. CASE DeliverRequest
    <3>1. ASSUME SendTo(rconn, [type |-> "request", sid |-> rsid], TRUE)
          PROVE  life[rconn] \notin {"dropping", "gone"}
      BY Zenon, <3>1 DEF SendTo, MapInv
    <3>2. /\ rstep = "deliver" /\ UNCHANGED <<sessions, nextId, rmsg, rsid, rconn, life, todo>>
          /\ \/ rstep' = "check" /\ life[rconn] \notin {"dropping", "gone"}
             \/ rstep' = "undo"
      BY Zenon, <2>4, <3>1 DEF DeliverRequest
    <3> QED
      BY <3>2
  <2>5. CASE CheckInitiator
    <3>1. CASE rmsg.from \in inner
      <4>1. life[rmsg.from] \notin {"dropping", "gone"}
        BY <3>1 DEF MapInv
      <4>2. rstep' = "idle" /\ UNCHANGED <<sessions, nextId, life, todo>> /\ rstep = "check"
        BY <2>5, <3>1 DEF CheckInitiator
      <4> QED
        BY <1>2, <4>1, <4>2 DEF Ends
    <3>2. CASE rmsg.from \notin inner
      BY <1>2, <2>5, <3>2 DEF CheckInitiator
    <3> QED
      BY <3>1, <3>2
  <2>6. CASE UndoSession
    BY <1>2, <2>6 DEF UndoSession, Without
  <2>7. CASE Reject
    BY <1>2, <2>7, SMTT(30) DEF Reject
  <2>8. CASE TakeSessionPacket
    BY <1>2, <2>8 DEF TakeSessionPacket, routerVars
  <2>9. CASE Forward
    BY Zenon, <1>2, <2>9 DEF Forward
  <2>10. CASE EndSession
    BY <1>2, <2>10 DEF EndSession, Without
  <2> QED
    BY Zenon, <1>3, <2>1, <2>2, <2>3, <2>4, <2>5, <2>6, <2>7, <2>8, <2>9, <2>10 DEF Router
<1>4. CASE Notice
  BY Zenon, <1>1, <1>4 DEF Notice, NoticeQueued, NoticeLost, routerVars
<1>5. ASSUME NEW c \in Conns, NEW step, step \notin {"dropping", "gone"},
             life[c] \notin {"dropping", "gone"}, Goto(c, step),
             UNCHANGED <<sessions, nextId, rstep, rmsg, rsid, rconn, todo>>
      PROVE  SessionInv' /\ NoLeakedSession'
  <2>1. \A x \in Conns : life[x] \notin {"dropping", "gone"} => life'[x] \notin {"dropping", "gone"}
    BY <1>2, <1>5, SMTT(30) DEF Goto
  <2> QED
    BY Zenon, <1>2, <1>5, <2>1
<1>6. ASSUME NEW c \in Conns, Handler(c) \/ WriterDone(c)
      PROVE  SessionInv' /\ NoLeakedSession'
  <2>1. CASE AuthFails(c)
    <3>1. c \notin Registered
      BY <2>1 DEF AuthFails, Registered
    <3>2. \A x \in Conns : x # c => life'[x] = life[x]
      BY <1>2, <2>1 DEF AuthFails, Goto
    <3>3. \A s \in sessions : \A x \in Ends(s) : life'[x] = life[x]
      BY <1>2, <3>1, <3>2 DEF RegisteredInv
    <3> QED
      BY Zenon, <1>2, <2>1, <3>3 DEF AuthFails, routerVars
  <2>2. CASE InsertDevice(c) \/ Insert(c) \/ Close(c) \/ WriterDone(c)
    BY Zenon, <1>2, <1>5, <2>2 DEF InsertDevice, Insert, Close, WriterDone, routerVars
  <2> QED
    BY <1>6, <2>1, <2>2 DEF Handler
<1>7. ASSUME NEW c \in Conns, Cleanup(c) PROVE SessionInv' /\ NoLeakedSession'
  <2>1. CASE RemoveInner(c) \/ RemoveDevice(c)
    BY Zenon, <1>5, <2>1 DEF RemoveInner, RemoveDevice, routerVars
  <2>2. CASE CollectSessions(c)
    <3>1. \A s \in sessions : c \in Ends(s) => s.id \in todo'[c]
      BY <1>2, <2>2 DEF CollectSessions
    <3>2. \A x \in Conns : x # c => life'[x] = life[x] /\ todo'[x] = todo[x]
      BY <1>2, <2>2 DEF CollectSessions, Goto
    <3>3. UNCHANGED <<sessions, nextId, rstep, rmsg, rsid, rconn>> /\ life[c] = "collect"
      BY <2>2 DEF CollectSessions, routerVars
    <3>4. \A s \in sessions : \A x \in Ends(s) : Collectable(s, x) => Collectable(s, x)'
      BY <1>2, <3>1, <3>2, <3>3, SMTT(30)
    <3> HIDE DEF Collectable
    <3> QED
      BY Zenon, <1>2, <3>3, <3>4
  <2>3. CASE DropSession(c)
    <3>1. PICK i \in todo[c] : todo' = [todo EXCEPT ![c] = @ \ {i}] /\ sessions' = Without(i)
      BY Zenon, <2>3 DEF DropSession
    <3>2. \A x \in Conns : \A j : j \in todo[x] /\ j # i => j \in todo'[x]
      BY <1>2, <3>1, SMTT(30)
    <3> QED
      BY <1>2, <2>3, <3>1, <3>2 DEF DropSession, Without, routerVars
  <2>4. CASE Forgotten(c)
    <3>1. \A x \in Conns : x # c => life'[x] = life[x]
      BY Zenon, <1>2, <2>4 DEF Forgotten, Goto
    <3>2. life[c] = "dropping" /\ todo[c] = {}
      BY <2>4 DEF Forgotten
    <3> QED
      BY <1>2, <2>4, <3>1, <3>2 DEF Forgotten, routerVars
  <2> QED
    BY Zenon, <1>7, <2>1, <2>2, <2>3, <2>4 DEF Cleanup
<1>8. ASSUME NEW c \in Conns, ReadPacket(c) \/ Forwarding(c) \/ Write(c)
      PROVE  SessionInv' /\ NoLeakedSession'
  BY Zenon, <1>1, <1>8 DEF ReadPacket, ReadRequest, ReadEnd, ReadData, ReadFrame, ToRouter, routerVars,
       Forwarding, SendFrame, FrameStuck, EndStuck, CutViewer, Write, Without
<1> QED
  BY Zenon, <1>1, <1>3, <1>4, <1>6, <1>7, <1>8 DEF Next, vars

\* The lists of remove_for_conn live only while it runs.
LEMMA TodoStep ==
  ASSUME TypeOK, TodoInv, [Next]_vars
  PROVE  TodoInv'
<1> USE DEF TypeOK, TodoInv
<1>1. CASE UNCHANGED <<life, todo>>
  BY <1>1
<1>2. CASE Router \/ Notice
  BY Zenon, <1>1, <1>2 DEF Router, TakeRequest, FilterDevice, CreateSession, DeliverRequest,
       CheckInitiator, UndoSession, Reject, TakeSessionPacket, Forward, EndSession,
       Notice, NoticeQueued, NoticeLost
<1>3. ASSUME NEW c \in Conns, ReadPacket(c) \/ Forwarding(c) \/ Write(c) PROVE TodoInv'
  BY Zenon, <1>1, <1>3 DEF ReadPacket, ReadRequest, ReadEnd, ReadData, ReadFrame, ToRouter,
       Forwarding, SendFrame, FrameStuck, EndStuck, CutViewer, Write
<1>4. ASSUME NEW c \in Conns, Handler(c) \/ WriterDone(c) PROVE TodoInv'
  BY Zenon, <1>4 DEF Handler, AuthFails, InsertDevice, Insert, Close, WriterDone, Goto
<1>5. ASSUME NEW c \in Conns, Cleanup(c) PROVE TodoInv'
  BY Zenon, <1>5 DEF Cleanup, RemoveInner, RemoveDevice, CollectSessions, DropSession, Forgotten, Goto
<1> QED
  BY <1>1, <1>2, <1>3, <1>4, <1>5 DEF Next, vars

\* Sessions are created by the router only, from what it looked up.
LEMMA SessionsChange ==
  ASSUME [Next]_vars, ~CreateSession
  PROVE  sessions' \subseteq sessions
<1>1. CASE Router
  BY Zenon, <1>1 DEF Router, TakeRequest, FilterDevice, DeliverRequest, CheckInitiator, UndoSession,
       Reject, TakeSessionPacket, Forward, EndSession, Without
<1>2. CASE Notice
  BY <1>2 DEF Notice, NoticeQueued, NoticeLost
<1>3. ASSUME NEW c \in Conns, Handler(c) \/ Cleanup(c) \/ WriterDone(c)
      PROVE  sessions' \subseteq sessions
  BY Zenon, <1>3 DEF Handler, AuthFails, InsertDevice, Insert, Close, Cleanup, RemoveInner,
       RemoveDevice, CollectSessions, DropSession, Forgotten, WriterDone, Without
<1>4. ASSUME NEW c \in Conns, ReadPacket(c) \/ Forwarding(c) \/ Write(c)
      PROVE  sessions' \subseteq sessions
  BY Zenon, <1>4 DEF ReadPacket, ReadRequest, ReadEnd, ReadData, ReadFrame, ToRouter, Forwarding,
       SendFrame, FrameStuck, EndStuck, CutViewer, Write, Without
<1> QED
  BY <1>1, <1>2, <1>3, <1>4 DEF Next, vars

\* A new session joins a user and a device of one organisation.
LEMMA OrgStep ==
  ASSUME RouterInv, SessionsWithinOrg, [Next]_vars
  PROVE  SessionsWithinOrg'
<1>1. CASE CreateSession
  <2>1. CASE UNCHANGED sessions
    BY <2>1 DEF SessionsWithinOrg
  <2>2. CASE ~UNCHANGED sessions
    <3>1. PICK s : /\ sessions' = sessions \cup {s}
                   /\ s.device_id = rmsg.packet.device /\ s.device_conn = rconn
                   /\ s.initiator_id = Principal[rmsg.from] /\ s.initiator_conn = rmsg.from
      BY <1>1, <2>2 DEF CreateSession
    <3>2. /\ Principal[rconn] = rmsg.packet.device
          /\ Org[Principal[rconn]] = Org[Principal[rmsg.from]]
      BY Zenon, <1>1 DEF CreateSession, RouterInv
    <3> QED
      BY <3>1, <3>2 DEF SessionsWithinOrg
  <2> QED
    BY <2>1, <2>2
<1>2. CASE ~CreateSession
  BY <1>2, SessionsChange DEF SessionsWithinOrg
<1> QED
  BY <1>1, <1>2

\* The limits, on a session table that is finite.
LimitInv == IsFiniteSet(sessions) /\ SessionLimits

LEMMA LimitStep ==
  ASSUME TypeOK, LimitInv, [Next]_vars
  PROVE  LimitInv'
<1> USE DEF LimitInv, SessionLimits, SessionsOf, SessionsOn
<1>1. ASSUME sessions' \subseteq sessions PROVE LimitInv'
  <2>1. IsFiniteSet(sessions')
    BY <1>1, FS_Subset
  <2>2. ASSUME NEW S, NEW T, IsFiniteSet(T), S \subseteq T, NEW n \in Nat, Cardinality(T) <= n
        PROVE  Cardinality(S) <= n
    BY <2>2, FS_Subset, FS_CardinalityType
  <2>3. ASSUME NEW u \in Users PROVE Cardinality(SessionsOf(u)') <= MaxPerUser
    <3>1. SessionsOf(u)' \subseteq SessionsOf(u) /\ IsFiniteSet(SessionsOf(u))
      BY <1>1, FS_Subset
    <3> QED BY <2>2, <2>3, <3>1, RelayConstants
  <2>4. ASSUME NEW d \in Devices PROVE Cardinality(SessionsOn(d)') <= MaxPerDevice
    <3>1. SessionsOn(d)' \subseteq SessionsOn(d) /\ IsFiniteSet(SessionsOn(d))
      BY <1>1, FS_Subset
    <3> QED BY <2>2, <2>4, <3>1, RelayConstants
  <2> QED BY <2>1, <2>3, <2>4
<1>2. ASSUME NEW s, sessions' = sessions \cup {s}, HasRoom(s.initiator_id, s.device_id)
      PROVE  LimitInv'
  <2>1. IsFiniteSet(sessions')
    BY <1>2, FS_AddElement
  <2>2. ASSUME NEW T, IsFiniteSet(T), NEW n \in Nat, Cardinality(T) < n
        PROVE  Cardinality(T \cup {s}) <= n
    <3>1. Cardinality(T) \in Nat
      BY <2>2, FS_CardinalityType
    <3>2. Cardinality(T \cup {s}) \in {Cardinality(T), Cardinality(T) + 1}
      BY <2>2, FS_AddElement
    <3> QED BY <2>2, <3>1, <3>2
  <2>3. ASSUME NEW u \in Users PROVE Cardinality(SessionsOf(u)') <= MaxPerUser
    <3>1. IsFiniteSet(SessionsOf(u))
      BY FS_Subset
    <3>2. CASE u = s.initiator_id
      <4>1. SessionsOf(u)' = SessionsOf(u) \cup {s}
        BY <1>2, <3>2
      <4> QED BY <1>2, <2>2, <3>1, <3>2, <4>1, RelayConstants DEF HasRoom
    <3>3. CASE u # s.initiator_id
      <4>1. SessionsOf(u)' = SessionsOf(u)
        BY <1>2, <3>3
      <4> QED BY <2>3, <4>1
    <3> QED BY <3>2, <3>3
  <2>4. ASSUME NEW d \in Devices PROVE Cardinality(SessionsOn(d)') <= MaxPerDevice
    <3>1. IsFiniteSet(SessionsOn(d))
      BY FS_Subset
    <3>2. CASE d = s.device_id
      <4>1. SessionsOn(d)' = SessionsOn(d) \cup {s}
        BY <1>2, <3>2
      <4> QED BY <1>2, <2>2, <3>1, <3>2, <4>1, RelayConstants DEF HasRoom
    <3>3. CASE d # s.device_id
      <4>1. SessionsOn(d)' = SessionsOn(d)
        BY <1>2, <3>3
      <4> QED BY <2>4, <4>1
    <3> QED BY <3>2, <3>3
  <2> QED BY <2>1, <2>3, <2>4
<1>3. CASE CreateSession
  <2> DEFINE s == [id |-> rsid, device_id |-> rmsg.packet.device, device_conn |-> rconn,
                   initiator_id |-> Principal[rmsg.from], initiator_conn |-> rmsg.from,
                   tunnel |-> rmsg.packet.tunnel]
  <2>1. \/ UNCHANGED sessions
        \/ sessions' = sessions \cup {s} /\ HasRoom(s.initiator_id, s.device_id)
    BY Zenon, <1>3 DEF CreateSession
  <2>2. CASE UNCHANGED sessions
    BY <1>1, <2>2
  <2> HIDE DEF s
  <2> QED BY <1>2, <2>1, <2>2
<1> QED
  BY <1>1, <1>3, SessionsChange

\* The inductive invariant.
THEOREM Invariance == Spec => [](IndInv /\ LimitInv)
<1>1. Init => MapInv /\ PresenceIsLive /\ RegisteredInv /\ SessionInv /\ NoLeakedSession
              /\ TodoInv /\ SessionsWithinOrg /\ LimitInv
  <2> SUFFICES ASSUME Init
               PROVE MapInv /\ PresenceIsLive /\ RegisteredInv /\ SessionInv
                     /\ NoLeakedSession /\ TodoInv /\ SessionsWithinOrg /\ LimitInv
    OBVIOUS
  <2>1. MapInv /\ PresenceIsLive
    BY DEF Init, MapInv, PresenceIsLive, IdleReader
  <2>4. RegisteredInv /\ SessionInv
    <3>1. sigq = <<>> /\ sessions = {} /\ rstep = "idle"
      BY DEF Init
    <3>2. Len(sigq) = 0
      BY <3>1
    <3> QED
      BY <3>1, <3>2 DEF RegisteredInv, SessionInv
  <2>5. NoLeakedSession /\ TodoInv /\ SessionsWithinOrg
    BY DEF Init, NoLeakedSession, TodoInv, SessionsWithinOrg
  <2>2. \A p : SessionsOf(p) = {} /\ SessionsOn(p) = {}
    BY DEF Init, SessionsOf, SessionsOn
  <2>3. LimitInv
    <3>1. Cardinality({}) = 0 /\ IsFiniteSet({})
      BY FS_EmptySet
    <3>2. \A p : Cardinality(SessionsOf(p)) = 0 /\ Cardinality(SessionsOn(p)) = 0
      BY <2>2, <3>1
    <3> QED BY <3>1, <3>2, RelayConstants DEF Init, LimitInv, SessionLimits
  <2> QED BY <2>1, <2>3, <2>4, <2>5
<1>2. /\ TypeOK /\ RouterInv /\ Owned
      /\ MapInv /\ PresenceIsLive /\ RegisteredInv /\ SessionInv /\ NoLeakedSession
      /\ TodoInv /\ SessionsWithinOrg /\ LimitInv /\ [Next]_vars
      => (MapInv /\ PresenceIsLive /\ RegisteredInv /\ SessionInv /\ NoLeakedSession
          /\ TodoInv /\ SessionsWithinOrg /\ LimitInv)'
  BY MapStep, RegisteredStep, SessionStep, TodoStep, OrgStep, LimitStep
<1> QED
  BY <1>1, <1>2, Typing, PTL DEF Spec, IndInv

\* Type correctness, the bounds of the outgoing queues and of the router's queue
\* included, for any number of connections and any limits.
THEOREM TypeCorrect == Spec => []TypeOK
BY Invariance, PTL DEF IndInv

\* No session outlives the cleanup of one of its two connections (manager.rs
\* header, router.rs 104-110, gateway.rs forget_connection).
THEOREM NoLeak == Spec => []NoLeakedSession
BY Invariance, PTL DEF IndInv

\* The limits of create_session hold of the sessions that exist.
THEOREM Limits == Spec => []SessionLimits
BY Invariance, PTL DEF LimitInv

\* route_packet joins only a user and a device of one organisation.
THEOREM WithinOrg == Spec => []SessionsWithinOrg
BY Invariance, PTL DEF IndInv

\* The device table names only connections whose handler still holds them.
THEOREM Presence == Spec => []PresenceIsLive
BY Invariance, PTL DEF IndInv

\* ConnectionMap.remove never takes a device offline that has reconnected.
THEOREM StaysOnline == Spec => DeviceStaysOnline
<1> DEFINE Kept == \A d \in Devices : devices'[d] # devices[d] =>
                      \/ devices'[d] # NoConn /\ life[devices'[d]] = "new"
                      \/ devices[d] \notin inner
<1>1. ASSUME IndInv, [Next]_vars PROVE [Kept]_vars
  <2> USE DEF IndInv
  <2>1. CASE UNCHANGED devices
    BY <2>1
  <2>2. ASSUME NEW c \in Conns, InsertDevice(c) PROVE Kept
    <3>1. devices \in [Devices -> Conns \cup {NoConn}] /\ c # NoConn
      BY <1>1, RelayConstants DEF TypeOK
    <3>2. devices' = [devices EXCEPT ![Principal[c]] = c] /\ life[c] = "new"
      BY <2>2 DEF InsertDevice
    <3>3. \A d \in Devices : devices'[d] # devices[d] => devices'[d] = c
      BY <3>1, <3>2
    <3> QED
      BY <3>1, <3>2, <3>3
  <2>3. ASSUME NEW c \in Conns, RemoveDevice(c) PROVE Kept
    BY Zenon, <1>1, <2>3, RelayConstants DEF RemoveDevice, TypeOK, MapInv
  <2>4. CASE Router \/ Notice
    BY Zenon, <2>1, <2>4 DEF Router, TakeRequest, FilterDevice, CreateSession, DeliverRequest,
         CheckInitiator, UndoSession, Reject, TakeSessionPacket, Forward, EndSession,
         Notice, NoticeQueued, NoticeLost, mapVars
  <2>5. ASSUME NEW c \in Conns, ReadPacket(c) \/ Forwarding(c) \/ Write(c) \/ WriterDone(c)
        PROVE  Kept
    BY Zenon, <2>1, <2>5 DEF ReadPacket, ReadRequest, ReadEnd, ReadData, ReadFrame, ToRouter,
         Forwarding, SendFrame, FrameStuck, EndStuck, CutViewer, Write, WriterDone, Close, mapVars
  <2>6. ASSUME NEW c \in Conns, Handler(c) \/ Cleanup(c) PROVE Kept
    <3>1. \/ InsertDevice(c) \/ RemoveDevice(c) \/ UNCHANGED devices
      BY Zenon, <2>6 DEF Handler, AuthFails, Insert, Close, Cleanup, RemoveInner,
           CollectSessions, DropSession, Forgotten, mapVars
    <3> QED
      BY Zenon, <2>1, <2>2, <2>3, <3>1
  <2> QED
    BY Zenon, <1>1, <2>1, <2>4, <2>5, <2>6 DEF Next, vars
<1> QED
  BY <1>1, Invariance, PTL DEF Spec, DeviceStaysOnline
=============================================================================
