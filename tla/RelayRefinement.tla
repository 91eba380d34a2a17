-------------------------- MODULE RelayRefinement --------------------------
(***************************************************************************)
(* The relay implements SessionService: every step of the relay is a step  *)
(* of the session service or leaves its state alone.                       *)
(***************************************************************************)
EXTENDS RelayProofs

Est == {s \in sessions : ~UnderConstruction(s)}
Fin == {c \in Conns : life[c] = "gone"}
Settled == IF rstep \in {"idle", "forward", "end"} THEN nextId ELSE rsid

\* What a step of the service is, seen from the relay.
ServiceStep ==
  \/ \E s \in Est' \ Est :
       /\ s.id >= Settled
       /\ Ends(s) \cap Fin = {}
       /\ Cardinality({t \in Est : t.initiator_id = s.initiator_id}) < MaxPerUser
       /\ Cardinality({t \in Est : t.device_id = s.device_id}) < MaxPerDevice
       /\ Est' = Est \cup {s} /\ Settled' = s.id + 1 /\ Fin' = Fin
  \/ \E s \in Est : Est' = Est \ {s} /\ Fin' = Fin /\ Settled' = Settled
  \/ Settled' > Settled /\ Est' = Est /\ Fin' = Fin
  \/ \E c \in Conns :
       /\ \A s \in Est : c \notin Ends(s)
       /\ Fin' = Fin \cup {c} /\ Est' = Est /\ Settled' = Settled
  \/ Est' = Est /\ Fin' = Fin /\ Settled' = Settled

LEMMA ServiceNext == ServiceStep => [Service!Next]_(Service!vars)
<1> USE DEF Est, Fin, Settled
<1>1. ASSUME NEW s \in Est' \ Est,
             s.id >= Settled, Ends(s) \cap Fin = {},
             Cardinality({t \in Est : t.initiator_id = s.initiator_id}) < MaxPerUser,
             Cardinality({t \in Est : t.device_id = s.device_id}) < MaxPerDevice,
             Est' = Est \cup {s}, Settled' = s.id + 1, Fin' = Fin
      PROVE  Service!Next
  <2>1. \A S : Service!Cardinality(S) = Cardinality(S)
    BY DEF Service!Cardinality, Cardinality
  <2> QED
    BY Zenon, <1>1, <2>1 DEF Ends, Service!Next, Service!Establish, Service!Ends
<1>2. ASSUME NEW s \in Est, Est' = Est \ {s}, Fin' = Fin, Settled' = Settled
      PROVE  Service!Next
  BY <1>2 DEF Service!Next, Service!End
<1>3. ASSUME Settled' > Settled, Est' = Est, Fin' = Fin PROVE Service!Next
  BY <1>3 DEF Service!Next, Service!Refuse
<1>4. ASSUME NEW c \in Conns, \A s \in Est : c \notin Ends(s),
             Fin' = Fin \cup {c}, Est' = Est, Settled' = Settled
      PROVE  Service!Next
  BY <1>4 DEF Ends, Service!Next, Service!Finish, Service!Ends
<1>5. ASSUME Est' = Est, Fin' = Fin, Settled' = Settled PROVE UNCHANGED Service!vars
  BY <1>5 DEF Service!vars
<1> HIDE DEF Est, Fin, Settled
<1> QED
  BY Zenon, <1>1, <1>2, <1>3, <1>4, <1>5 DEF ServiceStep

\* Removing the session of one id is the end of at most one session.
LEMMA RemovalIsEnd ==
  ASSUME SessionInv, NEW i, sessions' = Without(i), Fin' = Fin, Settled' = Settled,
         \A s \in sessions : UnderConstruction(s)' <=> UnderConstruction(s)
  PROVE  ServiceStep
<1>1. CASE \E s \in Est : s.id = i
  <2>1. PICK s \in Est : s.id = i
    BY <1>1
  <2>2. Est' = Est \ {s}
    BY <2>1 DEF Est, Without, SessionInv
  <2> QED
    BY <2>2 DEF ServiceStep
<1>2. CASE ~\E s \in Est : s.id = i
  <2>1. Est' = Est
    BY <1>2 DEF Est, Without
  <2> QED
    BY <2>1 DEF ServiceStep
<1> QED
  BY <1>1, <1>2

\* The router establishes a session when it has seen the initiator again.
LEMMA CheckEstablishes ==
  ASSUME IndInv, LimitInv, CheckInitiator
  PROVE  ServiceStep
<1> USE DEF IndInv
<1>1. CASE rmsg.from \notin inner
  BY <1>1 DEF CheckInitiator, RouterGoto, ServiceStep, Est, Fin, Settled, UnderConstruction
<1>2. CASE rmsg.from \in inner
  <2>1. /\ rstep = "check" /\ rstep' = "idle"
        /\ Est' = sessions /\ Fin' = Fin /\ Settled = rsid /\ Settled' = rsid + 1
        /\ Est = Without(rsid) /\ rsid \in Nat
    BY <1>2 DEF CheckInitiator, RouterIdle, RouterAt, Est, Fin, Settled, UnderConstruction,
         Without, RouterInv, Requesting, TypeOK, SessionIds
  <2>2. CASE Without(rsid) = sessions
    BY <2>1, <2>2 DEF ServiceStep
  <2>3. CASE Without(rsid) # sessions
    <3>1. PICK s \in sessions : s.id = rsid
      BY <2>3 DEF Without
    <3>2. Est' = Est \cup {s} /\ s \notin Est
      BY <2>1, <3>1 DEF SessionInv, Without
    <3>3. Ends(s) \cap Fin = {}
      <4>1. /\ s.device_conn = rconn /\ s.initiator_conn = rmsg.from
            /\ Collectable(s, s.device_conn)
        BY <2>1, <3>1 DEF SessionInv, UnderConstruction
      <4>2. life[rmsg.from] # "gone"
        BY <1>2 DEF MapInv
      <4>3. s.device_conn \in Conns => life[s.device_conn] # "gone"
        BY <4>1 DEF Collectable, TodoInv
      <4> QED
        BY <4>1, <4>2, <4>3 DEF Ends, Fin
    <3>4. ASSUME NEW T, NEW n \in Nat, T \subseteq sessions, s \in T, Cardinality(T) <= n
          PROVE  Cardinality(T \cap Est) < n
      <4>1. IsFiniteSet(T)
        BY <3>4, FS_Subset DEF LimitInv
      <4>2. IsFiniteSet(T \ {s}) /\ Cardinality(T \ {s}) = Cardinality(T) - 1
        BY <3>4, <4>1, FS_RemoveElement
      <4>3. T \cap Est \subseteq T \ {s}
        BY <3>2
      <4>4. Cardinality(T \cap Est) <= Cardinality(T \ {s}) /\ Cardinality(T \cap Est) \in Nat
            /\ Cardinality(T) \in Nat
        BY <4>1, <4>2, <4>3, FS_Subset, FS_CardinalityType
      <4> QED
        BY <3>4, <4>2, <4>4
    <3>5. s.initiator_id \in Users /\ s.device_id \in Devices
      BY <3>1 DEF TypeOK, ActiveSession
    <3>6. Cardinality({t \in Est : t.initiator_id = s.initiator_id}) < MaxPerUser
      <4>1. {t \in Est : t.initiator_id = s.initiator_id} = SessionsOf(s.initiator_id) \cap Est
        BY DEF SessionsOf, Est
      <4>2. Cardinality(SessionsOf(s.initiator_id)) <= MaxPerUser
        BY <3>5 DEF LimitInv, SessionLimits
      <4>3. SessionsOf(s.initiator_id) \subseteq sessions /\ s \in SessionsOf(s.initiator_id)
        BY <3>1 DEF SessionsOf
      <4> QED
        BY <3>4, <4>1, <4>2, <4>3, RelayConstants
    <3>7. Cardinality({t \in Est : t.device_id = s.device_id}) < MaxPerDevice
      <4>1. {t \in Est : t.device_id = s.device_id} = SessionsOn(s.device_id) \cap Est
        BY DEF SessionsOn, Est
      <4>2. Cardinality(SessionsOn(s.device_id)) <= MaxPerDevice
        BY <3>5 DEF LimitInv, SessionLimits
      <4>3. SessionsOn(s.device_id) \subseteq sessions /\ s \in SessionsOn(s.device_id)
        BY <3>1 DEF SessionsOn
      <4> QED
        BY <3>4, <4>1, <4>2, <4>3, RelayConstants
    <3> QED
      <4>1. s.id >= Settled /\ Settled' = s.id + 1 /\ s \in Est' \ Est
        BY <2>1, <3>1, <3>2
      <4> QED
        BY Zenon, <2>1, <3>2, <3>3, <3>6, <3>7, <4>1 DEF ServiceStep
  <2> QED
    BY <2>2, <2>3
<1> QED
  BY <1>1, <1>2

\* Every step of the router ...
LEMMA RouterServes ==
  ASSUME IndInv, LimitInv, Router
  PROVE  ServiceStep
<1> USE DEF IndInv, RouterGoto, RouterIdle, RouterAt
<1>1. ASSUME UNCHANGED <<sessions, life>>, Settled' = Settled,
             \A s \in sessions : UnderConstruction(s)' <=> UnderConstruction(s)
      PROVE  ServiceStep
  BY <1>1 DEF ServiceStep, Est, Fin
<1>2. CASE TakeRequest
  BY <1>1, <1>2 DEF TakeRequest, Settled, UnderConstruction
<1>3. CASE FilterDevice
  BY <1>1, <1>3 DEF FilterDevice, Settled, UnderConstruction
<1>4. CASE CreateSession
  <2>1. CASE UNCHANGED sessions
    BY <1>1, <1>4, <2>1 DEF CreateSession, Settled, UnderConstruction, SessionInv
  <2>2. CASE ~UNCHANGED sessions
    <3>1. /\ rstep = "create" /\ rstep' = "deliver" /\ rsid' = rsid /\ life' = life
          /\ \E s : sessions' = sessions \cup {s} /\ s.id = rsid
      BY <1>4, <2>2 DEF CreateSession
    <3>2. Est' = Est /\ Fin' = Fin /\ Settled' = Settled
      BY <3>1 DEF Est, Fin, Settled, UnderConstruction, SessionInv
    <3> QED
      BY <3>2 DEF ServiceStep
  <2> QED
    BY <2>1, <2>2
<1>5. CASE DeliverRequest
  BY <1>1, <1>5 DEF DeliverRequest, Settled, UnderConstruction
<1>6. CASE UndoSession
  <2>1. Est' = Est /\ Fin' = Fin /\ Settled' = Settled
    BY <1>6 DEF UndoSession, Est, Fin, Settled, UnderConstruction, Without
  <2> QED
    BY <2>1 DEF ServiceStep
<1>7. CASE Reject
  <2>1. Est' = Est /\ Fin' = Fin /\ Settled' > Settled
    BY <1>7 DEF Reject, Est, Fin, Settled, UnderConstruction, RouterInv, Requesting, TypeOK,
         SessionIds
  <2> QED
    BY <2>1 DEF ServiceStep
<1>8. CASE TakeSessionPacket
  BY <1>1, <1>8 DEF TakeSessionPacket, Settled, UnderConstruction, routerVars
<1>9. CASE Forward
  BY <1>1, <1>9 DEF Forward, Settled, UnderConstruction
<1>10. CASE EndSession
  BY <1>10, RemovalIsEnd DEF EndSession, Settled, Fin, UnderConstruction
<1> QED
  BY <1>2, <1>3, <1>4, <1>5, <1>6, <1>7, <1>8, <1>9, <1>10, CheckEstablishes DEF Router

\* ... and of everyone else is one of the service.
LEMMA OthersServe ==
  ASSUME IndInv, [Next]_vars, ~Router
  PROVE  ServiceStep
<1> USE DEF IndInv, mapVars, routerVars
<1>1. ASSUME UNCHANGED <<sessions, routerVars, nextId>>, Fin' = Fin PROVE ServiceStep
  BY <1>1 DEF ServiceStep, Est, Settled, UnderConstruction
<1>2. ASSUME NEW i, sessions' = Without(i), UNCHANGED <<life, routerVars, nextId>>
      PROVE  ServiceStep
  BY <1>2, RemovalIsEnd DEF Fin, Settled, UnderConstruction
<1>3. ASSUME NEW c \in Conns, NEW step, step # "gone", life[c] # "gone", Goto(c, step)
      PROVE  Fin' = Fin
  BY <1>3 DEF Goto, Fin, TypeOK
<1>4. ASSUME NEW c \in Conns, Goto(c, "gone"), UNCHANGED <<sessions, routerVars, nextId>>,
             \A s \in sessions : c \notin Ends(s)
      PROVE  ServiceStep
  <2>1. Fin' = Fin \cup {c}
    BY <1>4 DEF Goto, Fin, TypeOK
  <2>2. Est' = Est /\ Settled' = Settled /\ \A s \in Est : c \notin Ends(s)
    BY <1>4 DEF Est, Settled, UnderConstruction
  <2> QED
    BY <2>1, <2>2 DEF ServiceStep
<1>5. CASE UNCHANGED vars
  BY <1>1, <1>5 DEF vars, Fin
<1>6. CASE Notice
  BY <1>1, <1>6 DEF Notice, NoticeQueued, NoticeLost, Fin
<1>7. ASSUME NEW c \in Conns, Handler(c) \/ WriterDone(c) PROVE ServiceStep
  <2>1. CASE AuthFails(c)
    BY <1>4, <2>1 DEF AuthFails, RegisteredInv, Registered
  <2>2. CASE InsertDevice(c) \/ Insert(c) \/ Close(c) \/ WriterDone(c)
    <3>1. Fin' = Fin
      BY <1>3, <2>2 DEF InsertDevice, Insert, Close, WriterDone
    <3> QED
      BY <1>1, <2>2, <3>1 DEF InsertDevice, Insert, Close, WriterDone
  <2> QED
    BY <1>7, <2>1, <2>2 DEF Handler
<1>8. ASSUME NEW c \in Conns, Cleanup(c) PROVE ServiceStep
  <2>1. CASE RemoveInner(c) \/ RemoveDevice(c) \/ CollectSessions(c)
    <3>1. Fin' = Fin
      BY <1>3, <2>1 DEF RemoveInner, RemoveDevice, CollectSessions
    <3> QED
      BY <1>1, <2>1, <3>1 DEF RemoveInner, RemoveDevice, CollectSessions
  <2>2. CASE DropSession(c)
    BY <1>2, <2>2 DEF DropSession
  <2>3. CASE Forgotten(c)
    <3>1. \A s \in Est : c \notin Ends(s)
      BY <2>3 DEF Forgotten, Est, NoLeakedSession, Collectable
    <3>2. Fin' = Fin \cup {c} /\ Est' = Est /\ Settled' = Settled
      BY <2>3 DEF Forgotten, Goto, Fin, Est, Settled, UnderConstruction, TypeOK
    <3> QED
      BY <3>1, <3>2 DEF ServiceStep
  <2> QED
    BY <1>8, <2>1, <2>2, <2>3, SMTT(30) DEF Cleanup
<1>9. ASSUME NEW c \in Conns, ReadPacket(c) \/ Forwarding(c) \/ Write(c) PROVE ServiceStep
  <2>1. CASE EndStuck(c)
    BY <1>2, <2>1 DEF EndStuck
  <2> QED
    BY Zenon, <1>1, <1>9, <2>1 DEF ReadPacket, ReadRequest, ReadEnd, ReadData, ReadFrame, ToRouter,
       Forwarding, SendFrame, FrameStuck, CutViewer, Write, Fin
<1> QED
  BY <1>5, <1>6, <1>7, <1>8, <1>9 DEF Next

\* The relay implements the session service, for any connections, users, devices
\* and limits.
THEOREM Implements == Spec => ImplementsService
<1>1. Init => Service!Init
  BY DEF Init, Service!Init
<1>2. IndInv /\ LimitInv /\ [Next]_vars => [Service!Next]_(Service!vars)
  BY RouterServes, OthersServe, ServiceNext
<1> QED
  BY <1>1, <1>2, Invariance, PTL DEF Spec, ImplementsService, Service!Spec
=============================================================================
