------------------------ MODULE RefreshTokensProofs ------------------------
(***************************************************************************)
(* Rotation retires a token for good and pruning never hides a reuse, for  *)
(* any number of concurrent requests, any expiry and any leeway up to the  *)
(* grace period of delete_expired.                                         *)
(***************************************************************************)
EXTENDS RefreshTokens, TLAPS

\* What the tokens are, without the sequence they are kept in.
LEMMA TokenFacts ==
  ASSUME TypeOK
  PROVE  /\ Jti \subseteq Nat /\ 0 \notin Jti
         /\ \A t \in Jti : jwts[t] \in [family : Nat, parent : Nat, exp : Nat]
         /\ \A t \in Jti : jwts[t].exp \in Nat
<1> DEFINE R == [family : Nat, parent : Nat, exp : Nat]
<1>1. jwts \in Seq(R)
  BY DEF TypeOK
<1>2. \A t \in Jti : jwts[t] \in R
  <2> HIDE DEF R
  <2> QED
    BY <1>1 DEF Jti
<1> QED
  BY <1>2 DEF Jti

\* Signing adds a token and changes none.
LEMMA SignFacts ==
  ASSUME TypeOK, NEW r \in Requests, NEW parent \in Jti \cup {0}, Sign(r, parent)
  PROVE  /\ Len(jwts') = Len(jwts) + 1 /\ Jti \subseteq Jti'
         /\ Len(jwts') \in Jti' /\ Len(jwts') \notin Jti /\ 0 \notin Jti'
         /\ Jti' = Jti \cup {Len(jwts')}
         /\ jwts' \in Seq([family : Nat, parent : Nat, exp : Nat])
         /\ \A t \in Jti : jwts'[t] = jwts[t]
         /\ jwts'[Len(jwts')].parent = parent
         /\ jwts'[Len(jwts')].exp = now + Expiry
<1> DEFINE new == [family |-> IF parent = 0 THEN Len(jwts) + 1 ELSE Family(parent),
                   parent |-> parent, exp |-> now + Expiry]
<1>1. jwts \in Seq([family : Nat, parent : Nat, exp : Nat]) /\ Len(jwts) \in Nat /\ now \in Nat
  BY DEF TypeOK
<1>2. new \in [family : Nat, parent : Nat, exp : Nat]
  <2>1. parent \in Nat /\ now + Expiry \in Nat
    BY <1>1, TokenConstants DEF Jti
  <2>2. parent # 0 => Family(parent) \in Nat
    BY TokenFacts DEF Family
  <2> QED
    BY <1>1, <2>1, <2>2
<1>3. jwts' = Append(jwts, new)
  BY DEF Sign
<1>4. new.parent = parent /\ new.exp = now + Expiry
  OBVIOUS
<1> HIDE DEF new
<1> QED
  BY <1>1, <1>2, <1>3, <1>4, SMTT(30) DEF Jti

LEMMA SignStep ==
  ASSUME IndInv, NEW r \in Requests, NEW parent \in Jti \cup {0}, Sign(r, parent),
         parent # 0 => parent \in presented
  PROVE  IndInv'
<1> USE DEF IndInv
<1>1. /\ UNCHANGED <<now, rows, held, presented, detected>>
      /\ req' = [req EXCEPT ![r] = [step |-> "insert", jti |-> parent, new |-> Len(jwts) + 1]]
  BY DEF Sign
<1>2. TypeOK'
  <2>1. /\ Jti' = Jti \cup {Len(jwts')} /\ \A t \in Jti : jwts'[t] = jwts[t]
        /\ jwts'[Len(jwts')].parent = parent /\ Len(jwts') = Len(jwts) + 1
        /\ jwts' \in Seq([family : Nat, parent : Nat, exp : Nat])
    BY SignFacts
  <2>2. \A t \in Jti' : jwts'[t].parent \in held' \cup {0}
    BY <1>1, <2>1 DEF TypeOK
  <2>3. req' \in [Requests -> [step : {"idle", "validate", "revoke", "sign", "insert", "mark"},
                              jti : Jti' \cup {0}, new : Jti' \cup {0}]]
    BY <1>1, <2>1 DEF TypeOK
  <2> QED
    BY <1>1, <2>1, <2>2, <2>3, SMTT(30) DEF TypeOK
<1>3. RowInv'
  <2>1. DOMAIN rows \subseteq Jti /\ held \subseteq Jti
    BY DEF TypeOK
  <2>2. \A s \in Requests : req'[s].step = "mark" =>
          req[s].step = "mark" /\ req'[s] = req[s] /\ req[s].new \in Jti
    BY <1>1 DEF TypeOK, HandlerInv
  <2>3. /\ \A t \in Jti : jwts'[t] = jwts[t]
        /\ Jti' = Jti \cup {Len(jwts')} /\ jwts'[Len(jwts')].exp = now + Expiry
    BY SignFacts
  <2> now + Expiry \in Nat
    BY TokenConstants DEF TypeOK
  <2>4. \A t \in Jti' : jwts'[t].exp <= now' + Expiry
    BY <1>1, <2>3 DEF RowInv
  <2> QED
    BY <1>1, <2>1, <2>2, <2>3, <2>4 DEF RowInv, At
<1>4. RevokedInv'
  BY <1>1, SignFacts DEF TypeOK, RevokedInv, Family
<1>5. HandlerInv'
  <2>1. /\ req'[r] = [step |-> "insert", jti |-> parent, new |-> Len(jwts')]
        /\ \A s \in Requests : s # r => req'[s] = req[s]
    BY <1>1, SignFacts DEF TypeOK
  <2>2. \A s \in Requests : req[s].new \in Jti \cup {0}
    BY DEF TypeOK
  <2>3. Len(jwts') \notin held /\ Len(jwts') \notin DOMAIN rows /\ Len(jwts') # 0
    BY SignFacts DEF TypeOK
  <2>4. jwts'[Len(jwts')].parent = parent /\ Len(jwts') \notin Jti
        /\ \A t \in Jti : jwts'[t] = jwts[t]
    BY SignFacts
  <2>5. \A s, q \in Requests : s # q /\ req'[s].new # 0 => req'[s].new # req'[q].new
    BY <2>1, <2>2, <2>3, <2>4 DEF HandlerInv
  <2>6. ASSUME NEW s \in Requests
        PROVE  /\ req'[s].step \in {"validate", "revoke", "sign", "mark"} => req'[s].jti # 0
               /\ req'[s].step \in {"validate", "revoke", "sign"} => req'[s].new = 0
               /\ req'[s].jti # 0 => req'[s].jti \in presented'
               /\ req'[s].step \in {"insert", "mark"} => req'[s].new # 0
               /\ req'[s].new # 0 => /\ req'[s].new \notin held'
                                     /\ jwts'[req'[s].new].parent = req'[s].jti
               /\ req'[s].step = "insert" => req'[s].new \notin DOMAIN rows'
    <3>1. CASE s = r
      BY <1>1, <2>1, <2>3, <2>4, <3>1
    <3>2. CASE s # r
      BY <1>1, <2>1, <2>2, <2>4, <3>2 DEF HandlerInv, At
    <3> QED
      BY <3>1, <3>2
  <2> QED
    BY <2>5, <2>6 DEF HandlerInv, At
<1> QED
  BY <1>2, <1>3, <1>4, <1>5

\* The step of a handler that signs nothing.
LEMMA HandlerStep ==
  ASSUME IndInv, NEW r \in Requests, Handler(r), UNCHANGED jwts
  PROVE  IndInv'
<1> USE DEF IndInv, Jti, Family, Idle, At, Respond
<1>1. ASSUME UNCHANGED <<now, rows, held, detected>>, presented \subseteq presented',
             presented' \subseteq held, NEW step \in {"idle", "validate", "revoke", "sign"},
             NEW t \in presented' \cup {0}, step = "idle" \/ t # 0,
             req' = [req EXCEPT ![r] = [step |-> step, jti |-> t, new |-> 0]]
      PROVE  IndInv'
  <2>1. TypeOK'
    BY <1>1 DEF TypeOK
  <2>2. RowInv' /\ RevokedInv'
    BY <1>1, SMTT(30) DEF TypeOK, RowInv, RevokedInv
  <2>3. HandlerInv'
    BY <1>1, SMTT(30) DEF TypeOK, HandlerInv
  <2> QED
    BY <2>1, <2>2, <2>3
<1>2. CASE Login(r) \/ SignSuccessor(r)
  BY <1>2 DEF Login, SignSuccessor, Sign, TypeOK
<1>3. CASE Present(r)
  <2>1. PICK t \in held : /\ req' = [req EXCEPT ![r] = [step |-> "validate", jti |-> t, new |-> 0]]
                          /\ presented' = presented \cup {t}
    BY <1>3 DEF Present
  <2>2. UNCHANGED <<now, rows, held, detected>> /\ presented \subseteq held /\ t # 0
    BY <1>3, <2>1 DEF Present, TypeOK
  <2> QED
    BY <1>1, <2>1, <2>2
<1>4. CASE Validate(r)
  <2>1. /\ req[r].jti \in presented /\ req[r].new = 0 /\ req[r].jti # 0
        /\ req[r] = [step |-> "validate", jti |-> req[r].jti, new |-> 0]
    BY <1>4 DEF Validate, HandlerInv, TypeOK
  <2>2. \E step \in {"idle", "revoke", "sign"}, t \in {req[r].jti, 0} :
          /\ req' = [req EXCEPT ![r] = [step |-> step, jti |-> t, new |-> 0]]
          /\ step = "idle" \/ t # 0
    BY <1>4, <2>1 DEF Validate
  <2>3. UNCHANGED <<now, rows, held, detected, presented>> /\ presented \subseteq held
    BY <1>4 DEF Validate, TypeOK
  <2> QED
    BY <1>1, <2>1, <2>2, <2>3
<1>5. CASE Fail(r)
  BY <1>1, <1>5 DEF Fail, TypeOK
<1>6. CASE RevokeFamily(r)
  <2>1. /\ DOMAIN rows' = DOMAIN rows /\ detected \subseteq detected'
        /\ UNCHANGED <<now, held, presented>>
        /\ req' = [req EXCEPT ![r] = [step |-> "idle", jti |-> 0, new |-> 0]]
    BY <1>6 DEF RevokeFamily
  <2>2. ASSUME NEW t \in DOMAIN rows
        PROVE  /\ rows'[t] \in [expires : Nat, revoked : BOOLEAN, replaced : Nat]
               /\ rows'[t].expires = rows[t].expires
               /\ rows[t].revoked => rows'[t].revoked
               /\ rows'[t].revoked => rows[t].revoked \/ Family(t) \in detected'
    BY <1>6, <2>2 DEF RevokeFamily, TypeOK
  <2>3. rows' \in [DOMAIN rows' -> [expires : Nat, revoked : BOOLEAN, replaced : Nat]]
    BY <1>6, <2>1, <2>2 DEF RevokeFamily
  <2>4. TypeOK'
    BY <2>1, <2>3 DEF TypeOK
  <2>5. RowInv' /\ RevokedInv'
    BY <2>1, <2>2, SMTT(30) DEF TypeOK, RowInv, RevokedInv
  <2>6. HandlerInv'
    BY <2>1 DEF TypeOK, HandlerInv
  <2> QED
    BY <2>4, <2>5, <2>6
<1>7. CASE Insert(r)
  <2> DEFINE n == req[r].new
  <2>1. n \in Jti /\ n \notin DOMAIN rows /\ n \notin held /\ n # 0 /\ jwts[n].parent = req[r].jti
    BY <1>7 DEF Insert, HandlerInv, TypeOK
  <2>2. /\ DOMAIN rows' = DOMAIN rows \cup {n} /\ \A t \in DOMAIN rows : rows'[t] = rows[t]
        /\ rows'[n] = [expires |-> now + Expiry, revoked |-> FALSE, replaced |-> 0]
        /\ rows' = [t \in DOMAIN rows' |-> rows'[t]]
        /\ UNCHANGED <<now, presented, detected>>
    BY <1>7, <2>1 DEF Insert
  <2>3. rows'[n] \in [expires : Nat, revoked : BOOLEAN, replaced : Nat]
    BY <2>2, TokenConstants DEF TypeOK
  <2>4. rows' \in [DOMAIN rows' -> [expires : Nat, revoked : BOOLEAN, replaced : Nat]]
    BY <2>2, <2>3 DEF TypeOK
  <2>5. \/ /\ req[r].jti = 0 /\ held' = held \cup {n}
           /\ req' = [req EXCEPT ![r] = [step |-> "idle", jti |-> 0, new |-> 0]]
        \/ /\ req[r].jti # 0 /\ held' = held /\ req' = [req EXCEPT ![r].step = "mark"]
    BY <1>7 DEF Insert
  <2>6. /\ \A s \in Requests : s # r => req'[s] = req[s]
        /\ req'[r].step \in {"idle", "mark"} /\ req'[r].new \in {0, n} /\ req'[r].jti \in {0, req[r].jti}
        /\ req'[r].step = "mark" => req'[r].jti # 0 /\ req'[r].new = n
        /\ req'[r].new # 0 => held' = held /\ req'[r].jti = req[r].jti
        /\ req' = [s \in Requests |-> req'[s]]
        /\ req'[r] \in [step : {"idle", "mark"}, jti : {0, req[r].jti}, new : {0, n}]
    BY <2>5 DEF TypeOK
  <2>7. /\ held \subseteq held' /\ held' \subseteq held \cup {n}
        /\ n \in held' => jwts[n].parent = 0
    BY <2>1, <2>5
  <2> Jti' = Jti
    OBVIOUS
  <2> HIDE DEF Jti, n
  <2>8. TypeOK'
    <3>1. req[r].jti \in Jti \cup {0}
      BY DEF TypeOK
    <3>2. req' \in [Requests -> [step : {"idle", "validate", "revoke", "sign", "insert", "mark"},
                                 jti : Jti \cup {0}, new : Jti \cup {0}]]
      <4> DEFINE R == [step : {"idle", "validate", "revoke", "sign", "insert", "mark"},
                       jti : Jti \cup {0}, new : Jti \cup {0}]
      <4>1. req'[r] \in R
        BY <2>1, <2>6, <3>1
      <4>2. \A s \in Requests : s # r => req'[s] \in R
        BY <2>6 DEF TypeOK
      <4> QED
        BY <2>6, <4>1, <4>2
    <3> QED
      BY <2>1, <2>2, <2>4, <2>7, <3>2, SMTT(30) DEF TypeOK
  <2>9. RowInv'
    <3>1. rows'[n].expires >= jwts[n].exp
      BY <2>1, <2>2 DEF RowInv
    <3> QED
      BY <2>1, <2>2, <2>6, <2>7, <3>1 DEF RowInv, TypeOK
  <2>10. RevokedInv'
    <3>1. \A t \in held' : jwts[t].parent # n
      BY <2>1, <2>7, TokenFacts, SMTT(30) DEF TypeOK, RevokedInv
    <3>2. ~rows'[n].revoked
      BY <2>2
    <3>3. \A t \in DOMAIN rows' : rows'[t].revoked => t \in presented' \/ Family(t)' \in detected'
      BY <2>2, <3>2 DEF RevokedInv
    <3>4. ASSUME NEW t \in held', jwts[t].parent # 0, jwts[t].parent \in DOMAIN rows'
          PROVE  rows'[jwts[t].parent].revoked
      BY <2>2, <2>7, <3>1, <3>4 DEF RevokedInv
    <3> QED
      BY <3>3, <3>4 DEF RevokedInv
  <2>11. HandlerInv'
    <3>1. \A s \in Requests : s # r => req[s].new # n
      BY <2>1 DEF HandlerInv, n
    <3>2. \A s, q \in Requests : s # q /\ req'[s].new # 0 => req'[s].new # req'[q].new
      BY <2>6, <3>1 DEF HandlerInv
    <3>3. ASSUME NEW s \in Requests, s # r
          PROVE  /\ req'[s].new # 0 => req'[s].new \notin held'
                 /\ req'[s].step = "insert" => req'[s].new \notin DOMAIN rows'
      BY <2>1, <2>2, <2>6, <2>7, <3>1, <3>3 DEF HandlerInv
    <3>4. req[r].jti # 0 => req[r].jti \in presented
      BY DEF HandlerInv
    <3> QED
      BY <2>1, <2>2, <2>6, <3>2, <3>3, <3>4 DEF HandlerInv
  <2> QED
    BY <2>8, <2>9, <2>10, <2>11
<1>8. CASE MarkRevoked(r)
  <2> DEFINE n == req[r].new
  <2>1. /\ n \in Jti /\ n \notin held /\ n # 0 /\ jwts[n].parent = req[r].jti
        /\ req[r].jti # 0 /\ req[r].jti \in presented /\ req[r].step = "mark"
    BY <1>8, ZenonT(40) DEF MarkRevoked, HandlerInv, TypeOK
  <2>2. /\ DOMAIN rows' = DOMAIN rows /\ held' = held \cup {n}
        /\ UNCHANGED <<now, presented, detected>>
        /\ req' = [req EXCEPT ![r] = [step |-> "idle", jti |-> 0, new |-> 0]]
    BY <1>8 DEF MarkRevoked
  <2>3. ASSUME NEW t \in DOMAIN rows
        PROVE  /\ rows'[t] \in [expires : Nat, revoked : BOOLEAN, replaced : Nat]
               /\ rows'[t].expires = rows[t].expires
               /\ rows[t].revoked => rows'[t].revoked
               /\ rows'[t].revoked => rows[t].revoked \/ t = req[r].jti
               /\ t = req[r].jti => rows'[t].revoked
    <3>1. rows[t] \in [expires : Nat, revoked : BOOLEAN, replaced : Nat] /\ n \in Nat
      BY <2>1, <2>3 DEF TypeOK
    <3>2. rows'[t] = IF t = req[r].jti /\ ~rows[t].revoked
                       THEN [rows[t] EXCEPT !.revoked = TRUE, !.replaced = n] ELSE rows[t]
      BY <1>8, <2>3 DEF MarkRevoked
    <3> QED
      BY <3>1, <3>2
  <2>4. rows' \in [DOMAIN rows' -> [expires : Nat, revoked : BOOLEAN, replaced : Nat]]
    BY <1>8, <2>2, <2>3 DEF MarkRevoked
  <2>5. TypeOK'
    BY <2>1, <2>2, <2>4, SMTT(30) DEF TypeOK
  <2>6. RowInv'
    BY <2>1, <2>2, <2>3, SMTT(30) DEF RowInv, TypeOK
  <2>7. RevokedInv'
    BY <2>1, <2>2, <2>3 DEF RevokedInv, TypeOK
  <2>8. HandlerInv'
    BY <2>1, <2>2 DEF HandlerInv, TypeOK
  <2> QED
    BY <2>5, <2>6, <2>7, <2>8, SMTT(30)
<1> QED
  BY <1>2, <1>3, <1>4, <1>5, <1>6, <1>7, <1>8 DEF Handler

\* The clock and the pruning.
LEMMA EnvironmentStep ==
  ASSUME IndInv, Tick \/ DeleteExpired \/ UNCHANGED vars
  PROVE  IndInv'
<1> USE DEF IndInv, Jti, At
<1>1. CASE UNCHANGED vars
  BY <1>1 DEF vars, TypeOK, RowInv, RevokedInv, HandlerInv, Family
<1>2. CASE Tick
  <2>1. /\ now \in Nat /\ now' = now + 1 /\ Grace \in Nat /\ Expiry \in Nat
        /\ \A t \in Jti : jwts[t].exp \in Nat
        /\ UNCHANGED <<jwts, rows, req, held, presented, detected>>
    BY <1>2, TokenConstants, TokenFacts DEF Tick, TypeOK
  <2>2. TypeOK' /\ RevokedInv' /\ HandlerInv'
    <3>1. TypeOK'
      BY <2>1, SMTT(30) DEF TypeOK
    <3>2. RevokedInv'
      BY <2>1 DEF RevokedInv, Family
    <3>3. HandlerInv'
      BY <2>1 DEF HandlerInv
    <3> QED
      BY <3>1, <3>2, <3>3
  <2>3. \A t \in Jti : /\ jwts[t].exp < now - Grace => jwts[t].exp < now' - Grace
                       /\ jwts[t].exp <= now + Expiry => jwts[t].exp <= now' + Expiry
    BY <2>1
  <2>4. RowInv'
    BY <2>1, <2>3 DEF TypeOK, RowInv, HandlerInv
  <2> QED
    BY <2>2, <2>4
<1>3. CASE DeleteExpired
  <2>1. /\ DOMAIN rows' \subseteq DOMAIN rows /\ \A t \in DOMAIN rows' : rows'[t] = rows[t]
        /\ \A t \in DOMAIN rows \ DOMAIN rows' : rows[t].expires < now - Grace
        /\ rows' = [t \in DOMAIN rows' |-> rows'[t]]
        /\ UNCHANGED <<now, jwts, req, held, presented, detected>>
    BY <1>3, TokenConstants DEF DeleteExpired, TypeOK
  <2>2. TypeOK'
    BY <2>1 DEF TypeOK
  <2>3. RevokedInv' /\ HandlerInv'
    BY <2>1, SMTT(30) DEF TypeOK, RevokedInv, HandlerInv, Family
  <2>4. ASSUME NEW t \in DOMAIN rows \ DOMAIN rows' PROVE jwts[t].exp < now - Grace
    <3>1. /\ jwts[t].exp \in Nat /\ rows[t].expires \in Nat /\ now \in Nat /\ Grace \in Nat
          /\ rows[t].expires >= jwts[t].exp /\ rows[t].expires < now - Grace
      BY <2>1, TokenConstants, TokenFacts DEF TypeOK, RowInv
    <3> QED
      BY <3>1
  <2>5. RowInv'
    BY <2>1, <2>4, SMTT(30) DEF TypeOK, RowInv, HandlerInv
  <2> QED
    BY <2>2, <2>3, <2>5
<1> QED
  BY <1>1, <1>2, <1>3

\* The inductive invariant of the token table.
THEOREM Invariance == Spec => []IndInv
<1>1. Init => IndInv
  BY TokenConstants DEF Init, IndInv, TypeOK, RowInv, RevokedInv, HandlerInv, Idle, Jti, At
<1>2. IndInv /\ [Next]_vars => IndInv'
  <2> SUFFICES ASSUME IndInv, [Next]_vars PROVE IndInv'
    OBVIOUS
  <2>1. ASSUME NEW r \in Requests, Handler(r) PROVE IndInv'
    <3>1. CASE Login(r)
      BY <3>1, SignStep DEF Login
    <3>2. CASE SignSuccessor(r)
      <4>1. req[r].jti \in Jti \cup {0} /\ req[r].jti \in presented
        BY <3>2 DEF SignSuccessor, IndInv, TypeOK, HandlerInv, At
      <4> QED
        BY <3>2, <4>1, SignStep DEF SignSuccessor
    <3>3. CASE ~Login(r) /\ ~SignSuccessor(r)
      <4>1. UNCHANGED jwts
        BY <2>1, <3>3 DEF Handler, Present, Validate, RevokeFamily, Insert, MarkRevoked, Fail
      <4> QED
        BY <2>1, <4>1, HandlerStep, SMTT(30)
    <3> QED
      BY <3>1, <3>2, <3>3
  <2> QED
    BY <2>1, EnvironmentStep DEF Next
<1> QED
  BY <1>1, <1>2, PTL DEF Spec

\* A rotated token is never rotated again once its successor was handed out
\* (validate_for_rotation, mark_revoked, delete_expired).
THEOREM NeverRotatedTwice == Spec => NoSecondRotation
<1> DEFINE Once == \A r \in Requests : At(r, "validate") /\ req'[r].step = "sign" =>
                      \A t \in held : jwts[t].parent # req[r].jti
<1>1. ASSUME IndInv, [Next]_vars PROVE Once
  <2>1. ASSUME NEW r \in Requests, At(r, "validate"), req'[r].step = "sign"
        PROVE  \A t \in held : jwts[t].parent # req[r].jti
    <3>1. Validate(r)
      <4>1. req'[r] # req[r]
        BY <2>1 DEF At
      <4>2. PICK s \in Requests : Handler(s)
        BY <1>1, <4>1, SMTT(30) DEF Next, vars, Tick, DeleteExpired
      <4>3. \A x \in Requests : x # s => req'[x] = req[x]
        BY <1>1, <4>2 DEF Handler, Login, Present, Validate, RevokeFamily, SignSuccessor,
             Sign, Insert, MarkRevoked, Fail, Respond, IndInv, TypeOK
      <4>4. Handler(r)
        BY <4>1, <4>2, <4>3
      <4>5. ~Fail(r)
        BY <1>1, <2>1 DEF Fail, Respond, Idle, IndInv, TypeOK
      <4> QED
        BY <2>1, <4>4, <4>5 DEF Handler, Login, Present, RevokeFamily, SignSuccessor,
             Insert, MarkRevoked, At
    <3>2. req[r].jti \in DOMAIN rows /\ ~rows[req[r].jti].revoked /\ req[r].jti # 0
      BY <1>1, <2>1, <3>1 DEF Validate, Respond, Idle, IndInv, TypeOK, HandlerInv, At
    <3> QED
      BY <1>1, <3>2 DEF IndInv, RevokedInv
  <2> QED
    BY <2>1
<1> QED
  BY <1>1, Invariance, PTL DEF Spec, NoSecondRotation

\* While a held token decodes, delete_expired has left its row in place.
THEOREM PruningIsSafe == Spec => []PruneKeepsDetection
<1>1. ASSUME IndInv, NEW t \in held, Decodes(t) PROVE t \in DOMAIN rows
  <2>1. jwts[t].exp \in Nat /\ now \in Nat /\ now <= jwts[t].exp + Leeway
    BY <1>1, TokenFacts DEF IndInv, TypeOK, Decodes
  <2>2. ~(jwts[t].exp < now - Grace)
    BY <2>1, TokenConstants
  <2> QED
    BY <1>1, <2>2 DEF IndInv, RowInv
<1>2. IndInv => PruneKeepsDetection
  BY <1>1 DEF PruneKeepsDetection
<1> QED
  BY <1>2, Invariance, PTL

\* A token that was never presented is revoked only with a stolen family.
THEOREM NewestKept == Spec => []NewestTokenKept
<1>1. IndInv => NewestTokenKept
  BY DEF IndInv, RevokedInv, NewestTokenKept
<1> QED
  BY <1>1, Invariance, PTL
=============================================================================
