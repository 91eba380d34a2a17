--------------------------- MODULE RefreshTokens ---------------------------
(***************************************************************************)
(* Refresh token rotation and theft detection of rivetlink-server.  Every  *)
(* request is a sequence of separate database statements without a         *)
(* transaction, so requests for one family interleave, and any statement   *)
(* may fail.  Logins, refreshes and the hourly pruning share the table.    *)
(* A response that is lost on its way leaves its token in held, where the  *)
(* model's clients are free never to present it.                           *)
(***************************************************************************)
EXTENDS Integers, Sequences

CONSTANTS
  Requests,   \* request handlers that may run at once
  Expiry,     \* refresh_token_expiry_secs
  Leeway,     \* what the JWT decoder allows after exp (60 s)
  Grace,      \* how long delete_expired keeps an expired row (1 day)
  MaxTokens,  \* bound of the model: tokens ever signed
  MaxTime     \* bound of the model: the last instant

ASSUME TokenConstants ==
  /\ Expiry \in Nat /\ Leeway \in Nat /\ Grace \in Nat
  /\ Leeway <= Grace
  /\ MaxTokens \in Nat /\ MaxTime \in Nat

VARIABLES
  now,       \* the clock
  jwts,      \* signed refresh tokens; a jti is an index of this sequence
  rows,      \* table refresh_tokens: jti -> row
  req,       \* the handlers: step, token presented, token being issued
  held,      \* tokens that were returned to a client
  presented, \* tokens a client ever presented
  detected   \* families revoked because of a reuse

vars == <<now, jwts, rows, req, held, presented, detected>>

Jti == 1..Len(jwts)
Idle == [step |-> "idle", jti |-> 0, new |-> 0]
Family(t) == jwts[t].family

Init ==
  /\ now = 0
  /\ jwts = <<>>
  /\ rows = [t \in {} |-> Idle]
  /\ req = [r \in Requests |-> Idle]
  /\ held = {} /\ presented = {} /\ detected = {}

At(r, step) == req[r].step = step
Respond(r) == req' = [req EXCEPT ![r] = Idle]

\* encode_token: an expiry counted from now; a family that is new or inherited.
Sign(r, parent) ==
  LET t == Len(jwts) + 1 IN
  /\ Len(jwts) < MaxTokens
  /\ jwts' = Append(jwts, [family |-> IF parent = 0 THEN t ELSE Family(parent),
                           parent |-> parent, exp |-> now + Expiry])
  /\ req' = [req EXCEPT ![r] = [step |-> "insert", jti |-> parent, new |-> t]]
  /\ UNCHANGED <<now, rows, held, presented, detected>>

\* issue_new_family, after a login or a registration.
Login(r) == At(r, "idle") /\ Sign(r, 0)

\* decode_refresh_token: the signature is good and exp has not passed.
Decodes(t) == now <= jwts[t].exp + Leeway

Present(r) ==
  /\ At(r, "idle")
  /\ \E t \in held :
       /\ Decodes(t)
       /\ req' = [req EXCEPT ![r] = [step |-> "validate", jti |-> t, new |-> 0]]
       /\ presented' = presented \cup {t}
  /\ UNCHANGED <<now, jwts, rows, held, detected>>

\* Mutant: a revoked token is not recognised once it has a successor.
ValidateUnreplaced(r) ==
  /\ At(r, "validate")
  /\ LET t == req[r].jti IN
       IF t \notin DOMAIN rows THEN Respond(r)
       ELSE IF rows[t].revoked /\ rows[t].replaced = 0
         THEN req' = [req EXCEPT ![r].step = "revoke"]
       ELSE IF rows[t].expires <= now THEN Respond(r)
       ELSE req' = [req EXCEPT ![r].step = "sign"]
  /\ UNCHANGED <<now, jwts, rows, held, presented, detected>>

\* validate_for_rotation: Unknown, Reused, Expired or the row.
Validate(r) ==
  /\ At(r, "validate")
  /\ LET t == req[r].jti IN
       IF t \notin DOMAIN rows THEN Respond(r)
       ELSE IF rows[t].revoked THEN req' = [req EXCEPT ![r].step = "revoke"]
       ELSE IF rows[t].expires <= now THEN Respond(r)
       ELSE req' = [req EXCEPT ![r].step = "sign"]
  /\ UNCHANGED <<now, jwts, rows, held, presented, detected>>

\* revoke_family, one statement; the request is refused.
RevokeFamily(r) ==
  /\ At(r, "revoke")
  /\ LET f == Family(req[r].jti) IN
       /\ rows' = [t \in DOMAIN rows |->
                     IF Family(t) = f THEN [rows[t] EXCEPT !.revoked = TRUE] ELSE rows[t]]
       /\ detected' = detected \cup {f}
  /\ Respond(r)
  /\ UNCHANGED <<now, jwts, held, presented>>

\* get_user_by_id and create_token_pair.
SignSuccessor(r) == At(r, "sign") /\ Sign(r, req[r].jti)

\* insert: a first token is returned at once, a successor after the next step.
Insert(r) ==
  /\ At(r, "insert")
  /\ LET n == req[r].new
         row == [expires |-> now + Expiry, revoked |-> FALSE, replaced |-> 0]
     IN /\ rows' = [t \in DOMAIN rows \cup {n} |-> IF t = n THEN row ELSE rows[t]]
        /\ IF req[r].jti = 0
             THEN Respond(r) /\ held' = held \cup {n}
             ELSE req' = [req EXCEPT ![r].step = "mark"] /\ UNCHANGED held
  /\ UNCHANGED <<now, jwts, presented, detected>>

\* Mutant: the rest of the family is revoked with the old token.
MarkSiblings(r) ==
  /\ At(r, "mark")
  /\ rows' = [x \in DOMAIN rows |->
                IF Family(x) = Family(req[r].new) /\ x # req[r].new
                  THEN [rows[x] EXCEPT !.revoked = TRUE] ELSE rows[x]]
  /\ held' = held \cup {req[r].new}
  /\ Respond(r)
  /\ UNCHANGED <<now, jwts, presented, detected>>

\* mark_revoked leaves a row alone that is revoked or deleted already; the
\* client gets the successor either way.
MarkRevoked(r) ==
  /\ At(r, "mark")
  /\ LET t == req[r].jti IN
       rows' = [x \in DOMAIN rows |->
                  IF x = t /\ ~rows[x].revoked
                    THEN [rows[x] EXCEPT !.revoked = TRUE, !.replaced = req[r].new]
                    ELSE rows[x]]
  /\ held' = held \cup {req[r].new}
  /\ Respond(r)
  /\ UNCHANGED <<now, jwts, presented, detected>>

\* A statement fails, or the server stops: the request ends with an error.
Fail(r) ==
  /\ ~At(r, "idle")
  /\ Respond(r)
  /\ UNCHANGED <<now, jwts, rows, held, presented, detected>>

\* Mutant: rows are deleted as soon as they expire.
DeleteAtExpiry ==
  /\ \E t \in DOMAIN rows : rows[t].expires < now
  /\ rows' = [t \in {x \in DOMAIN rows : rows[x].expires >= now} |-> rows[t]]
  /\ UNCHANGED <<now, jwts, req, held, presented, detected>>

\* delete_expired, hourly.
DeleteExpired ==
  /\ \E t \in DOMAIN rows : rows[t].expires < now - Grace
  /\ rows' = [t \in {x \in DOMAIN rows : rows[x].expires >= now - Grace} |-> rows[t]]
  /\ UNCHANGED <<now, jwts, req, held, presented, detected>>

Tick ==
  /\ now < MaxTime
  /\ now' = now + 1
  /\ UNCHANGED <<jwts, rows, req, held, presented, detected>>

Handler(r) == \/ Login(r) \/ Present(r) \/ Validate(r) \/ RevokeFamily(r)
              \/ SignSuccessor(r) \/ Insert(r) \/ MarkRevoked(r) \/ Fail(r)

Next == (\E r \in Requests : Handler(r)) \/ DeleteExpired \/ Tick

Spec == Init /\ [][Next]_vars
-----------------------------------------------------------------------------
(* Properties *)

\* Rows, handlers and clients hold tokens that were signed.
TypeOK ==
  /\ now \in Nat
  /\ jwts \in Seq([family : Nat, parent : Nat, exp : Nat])
  /\ rows \in [DOMAIN rows -> [expires : Nat, revoked : BOOLEAN, replaced : Nat]]
  /\ req \in [Requests -> [step : {"idle", "validate", "revoke", "sign", "insert", "mark"},
                           jti : Jti \cup {0}, new : Jti \cup {0}]]
  /\ DOMAIN rows \subseteq Jti /\ held \subseteq Jti /\ presented \subseteq held
  /\ \A t \in Jti : jwts[t].parent \in held \cup {0}

\* Rotation retires a token for good: once a client has received a successor, no
\* request for the old token is ever let through to a second rotation, whatever
\* other requests, failures and pruning do to the table in between.
NoSecondRotation ==
  [][\A r \in Requests : At(r, "validate") /\ req'[r].step = "sign" =>
       \A t \in held : jwts[t].parent # req[r].jti]_vars

\* delete_expired: "Their JWTs no longer decode, so the rows can no longer take
\* part in rotation or theft detection": while a token in a client's hands
\* decodes, its row exists, so that its reuse is seen as one.
PruneKeepsDetection == \A t \in held : Decodes(t) => t \in DOMAIN rows

\* A client's newest token stays good: a token that was never presented is only
\* ever revoked by a theft detection in its family.
NewestTokenKept ==
  \A t \in held \ presented :
    t \in DOMAIN rows /\ Family(t) \notin detected => ~rows[t].revoked

\* "if a revoked token is ever presented again it's treated as theft and the
\* whole family is invalidated" (refresh_tokens.rs).
FamilyInvalidated ==
  \A t \in DOMAIN rows : Family(t) \in detected => rows[t].revoked
-----------------------------------------------------------------------------
(* Inductive strengthening *)

\* A row outlives the JWT it stands for; a token a client holds, or one a handler
\* has inserted, has a row until it is pruned.
RowInv ==
  /\ \A t \in Jti : jwts[t].exp <= now + Expiry
  /\ \A t \in DOMAIN rows : rows[t].expires >= jwts[t].exp
  /\ \A t \in held : t \in DOMAIN rows \/ jwts[t].exp < now - Grace
  /\ \A r \in Requests : At(r, "mark") =>
       req[r].new \in DOMAIN rows \/ jwts[req[r].new].exp < now - Grace

\* Only a token that was presented, or one of a family found stolen, is revoked;
\* whoever has received a successor has seen the old row revoked or pruned.
RevokedInv ==
  /\ \A t \in DOMAIN rows : rows[t].revoked => t \in presented \/ Family(t) \in detected
  /\ \A t \in held : LET p == jwts[t].parent IN
       p # 0 /\ p \in DOMAIN rows => rows[p].revoked

\* What a handler holds: a token the client presented, and the one it is issuing,
\* which nobody else has.
HandlerInv ==
  /\ \A r \in Requests :
       /\ req[r].step \in {"validate", "revoke", "sign", "mark"} => req[r].jti # 0
       /\ req[r].step \in {"validate", "revoke", "sign"} => req[r].new = 0
       /\ req[r].jti # 0 => req[r].jti \in presented
       /\ req[r].step \in {"insert", "mark"} => req[r].new # 0
       /\ req[r].new # 0 => /\ req[r].new \notin held
                            /\ jwts[req[r].new].parent = req[r].jti
       /\ At(r, "insert") => req[r].new \notin DOMAIN rows
  /\ \A r, s \in Requests : r # s /\ req[r].new # 0 => req[r].new # req[s].new

IndInv == TypeOK /\ RowInv /\ RevokedInv /\ HandlerInv
=============================================================================
