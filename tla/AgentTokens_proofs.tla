--------------------------- MODULE AgentTokens_proofs ---------------------------
(***************************************************************************)
(* Safety of the agent tokens for every set of tokens, requests and        *)
(* revocations, every limit, expiry and retention.                         *)
(***************************************************************************)
EXTENDS AgentTokens, FiniteSetTheorems, TLAPS

-----------------------------------------------------------------------------
(***************************************************************************)
(* Types, and which token a row or a copy of one is about                  *)
(***************************************************************************)
Hashes == Tokens \union {NoToken}
Calls  == Requests \union Revocations

\* A row holds its own token's attributes or none, and a request in hand likewise.
Belong ==
  /\ \A t \in Tokens : Whole(owner[t]) => owner[t].token = t
  /\ \A h \in Hashes : Whole(lookup[h]) => lookup[h].token = h
  /\ \A r \in Requests : pc[r] \in {"check", "consume", "touch"} =>
       inHand[r] # NoRow /\ inHand[r].token = TokenOf[r]
  /\ \A v \in Revocations : pc[v] = "write" =>
       inHand[v] # NoRow /\ inHand[v].token \in {RevokedOf[v], NoToken}

LEMMA NewRowType ==
  ASSUME NEW t \in Tokens
  PROVE  /\ NewRow(t) \in Row
         /\ NewRow(t).token = t
         /\ ~NewRow(t).revoked
         /\ Whole(NewRow(t))
<1>1. NewRow(t) \in Row /\ NewRow(t).token = t /\ ~NewRow(t).revoked
  BY DEF NewRow, Row
<1> QED BY <1>1, TokenAssumption, RowAssumption DEF Whole

LEMMA StampedType ==
  ASSUME NEW row \in Row \union {NoRow}
  PROVE  /\ Stamped(row) \in Row
         /\ Stamped(row).revoked
         /\ Whole(Stamped(row)) <=> Whole(row)
         /\ row # NoRow => Stamped(row).token = row.token /\ Stamped(row).used = row.used
<1>1. CASE row = NoRow
  <2>1. Stamped(row) = [token |-> NoToken, revoked |-> TRUE, used |-> FALSE]
    BY <1>1 DEF Stamped
  <2>2. Stamped(row) \in Row /\ Stamped(row).revoked /\ Stamped(row).token = NoToken
    BY <2>1 DEF Row
  <2> QED BY <1>1, <2>2 DEF Whole
<1>2. CASE row # NoRow
  <2>1. Stamped(row) = [row EXCEPT !.revoked = TRUE] /\ row \in Row
    BY <1>2 DEF Stamped
  <2>2. /\ Stamped(row) \in Row
        /\ Stamped(row).revoked
        /\ Stamped(row).token = row.token
        /\ Stamped(row).used = row.used
    BY <2>1 DEF Row
  <2> QED BY <1>2, <2>2, RowAssumption DEF Whole
<1> QED BY <1>1, <1>2

LEMMA UsedType ==
  ASSUME NEW row \in Row
  PROVE  LET seen == [row EXCEPT !.used = TRUE] IN
         /\ seen \in Row
         /\ seen.used
         /\ seen.token = row.token
         /\ seen.revoked = row.revoked
         /\ Whole(seen) <=> Whole(row)
<1> DEFINE seen == [row EXCEPT !.used = TRUE]
<1>1. seen \in Row /\ seen.used /\ seen.token = row.token /\ seen.revoked = row.revoked
  BY DEF Row
<1> QED BY <1>1, RowAssumption DEF Whole

LEMMA BelongInit == Init => TypeOK /\ Belong
<1> SUFFICES ASSUME Init PROVE TypeOK /\ Belong
  OBVIOUS
<1> USE TokenAssumption, RowAssumption DEF Init
<1>1. TypeOK
  BY DEF TypeOK, Minutes, AtRequest, AtRevocation, Running
<1>2. Belong
  BY DEF Belong, Whole, Hashes
<1> QED BY <1>1, <1>2

LEMMA Moves ==
  ASSUME TypeOK, NEW x \in Calls, NEW where, Goto(x, where),
         x \in Requests => where \in AtRequest,
         x \in Revocations => where \in AtRevocation
  PROVE  /\ pc' \in [Calls -> AtRequest \union AtRevocation]
         /\ \A r \in Requests : pc'[r] \in AtRequest
         /\ \A v \in Revocations : pc'[v] \in AtRevocation
         /\ pc'[x] = where
         /\ \A y \in Calls \ {x} : pc'[y] = pc[y]
BY DEF TypeOK, Goto, Calls

LEMMA Keeps ==
  ASSUME TypeOK, NEW x \in Calls, NEW row \in Row \union {NoRow}, Keep(x, row)
  PROVE  /\ inHand' \in [Calls -> Row \union {NoRow}]
         /\ inHand'[x] = row
         /\ \A y \in Calls \ {x} : inHand'[y] = inHand[y]
BY DEF TypeOK, Keep, Calls

\* What a step leaves alone when only call x is at work.
Alone(x) == \A y \in Calls \ {x} : pc'[y] = pc[y] /\ inHand'[y] = inHand[y]

LEMMA RequestStep ==
  ASSUME TypeOK, NEW r \in Requests, Authorize(r)
  PROVE  /\ pc' \in [Calls -> AtRequest \union AtRevocation]
         /\ \A q \in Requests : pc'[q] \in AtRequest
         /\ \A v \in Revocations : pc'[v] \in AtRevocation
         /\ inHand' \in [Calls -> Row \union {NoRow}]
         /\ Alone(r)
<1> DEFINE Good ==
      /\ pc' \in [Calls -> AtRequest \union AtRevocation]
      /\ \A q \in Requests : pc'[q] \in AtRequest
      /\ \A v \in Revocations : pc'[v] \in AtRevocation
      /\ inHand' \in [Calls -> Row \union {NoRow}]
      /\ Alone(r)
<1>1. r \in Calls /\ r \notin Revocations
  BY TokenAssumption DEF Calls
<1>2. {"check", "consume", "touch", "authorized", "denied"} \subseteq AtRequest
  BY DEF AtRequest, Running
<1>3. ASSUME NEW where \in {"authorized", "denied"}, End(r, where) PROVE Good
  BY <1>1, <1>2, <1>3, Moves, Keeps DEF End, Alone
<1>4. ASSUME NEW where \in {"consume", "touch"}, Goto(r, where), UNCHANGED inHand PROVE Good
  <2>1. inHand' \in [Calls -> Row \union {NoRow}]
    BY <1>4 DEF TypeOK, Calls
  <2> QED BY <1>1, <1>2, <1>4, <2>1, Moves DEF Alone
<1>5. ASSUME UNCHANGED <<pc, inHand>> PROVE Good
  BY <1>5 DEF TypeOK, Calls, Alone
<1>6. CASE Find(r)
  <2>1. lookup[TokenOf[r]] \in Row \union {NoRow}
    BY TokenAssumption DEF TypeOK
  <2>2. CASE Goto(r, "check") /\ Keep(r, lookup[TokenOf[r]])
    BY <1>1, <1>2, <2>1, <2>2, Moves, Keeps DEF Alone
  <2> QED BY <1>3, <1>6, <2>2 DEF Find
<1>7. CASE Check(r)
  BY <1>3, <1>4, <1>7 DEF Check
<1>8. CASE Consume(r)
  BY <1>3, <1>4, <1>8 DEF Consume
<1>9. CASE ConsumeUnheard(r)
  BY <1>3, <1>5, <1>9 DEF ConsumeUnheard
<1>10. CASE Touch(r)
  BY <1>3, <1>10 DEF Touch
<1>11. CASE TouchUnheard(r)
  BY <1>3, <1>5, <1>11 DEF TouchUnheard
<1>12. CASE Deny(r)
  BY <1>3, <1>12 DEF Deny
<1> QED BY <1>6, <1>7, <1>8, <1>9, <1>10, <1>11, <1>12 DEF Authorize

LEMMA RevocationStep ==
  ASSUME TypeOK, NEW v \in Revocations, Revoke(v)
  PROVE  /\ pc' \in [Calls -> AtRequest \union AtRevocation]
         /\ \A r \in Requests : pc'[r] \in AtRequest
         /\ \A w \in Revocations : pc'[w] \in AtRevocation
         /\ inHand' \in [Calls -> Row \union {NoRow}]
         /\ Alone(v)
<1> DEFINE Good ==
      /\ pc' \in [Calls -> AtRequest \union AtRevocation]
      /\ \A r \in Requests : pc'[r] \in AtRequest
      /\ \A w \in Revocations : pc'[w] \in AtRevocation
      /\ inHand' \in [Calls -> Row \union {NoRow}]
      /\ Alone(v)
<1>1. v \in Calls /\ v \notin Requests
  BY TokenAssumption DEF Calls
<1>2. ASSUME NEW where \in {"revoked", "notFound", "storage"}, End(v, where) PROVE Good
  BY <1>1, <1>2, Moves, Keeps DEF End, Alone, AtRevocation
<1>3. CASE RevokeGet(v)
  <2>1. owner[RevokedOf[v]] \in Row \union {NoRow}
    BY TokenAssumption DEF TypeOK
  <2>2. CASE Goto(v, "write") /\ Keep(v, owner[RevokedOf[v]])
    BY <1>1, <2>1, <2>2, Moves, Keeps DEF Alone, AtRevocation
  <2> QED BY <1>2, <1>3, <2>2 DEF RevokeGet
<1>4. CASE RevokeWrites(v) \/ RevokeFails(v)
  BY <1>2, <1>4 DEF RevokeWrites, RevokeFails
<1> QED BY <1>3, <1>4, <1>2 DEF Revoke

LEMMA TypeNext == TypeOK /\ Belong /\ [Next]_vars => TypeOK'
<1> SUFFICES ASSUME TypeOK, Belong, [Next]_vars PROVE TypeOK'
  OBVIOUS
<1> USE TokenAssumption
<1>1. ASSUME NEW t \in Tokens, Create(t) PROVE TypeOK'
  <2>1. NewRow(t) \in Row
    BY NewRowType
  <2>2. /\ owner' \in [Tokens -> Row \union {NoRow}]
        /\ lookup' \in [Hashes -> Row \union {NoRow}]
    BY <1>1, <2>1 DEF TypeOK, Create, Hashes
  <2>3. secret' \in [Tokens -> {"none", "handed", "lost"}] /\ faults' \in 0 .. MaxFaults
    BY <1>1 DEF TypeOK, Create, Fault
  <2>4. UNCHANGED <<counter, pc, inHand, minute, late, clock>>
    BY <1>1 DEF Create
  <2> QED BY <2>2, <2>3, <2>4 DEF TypeOK, Hashes
<1>2. ASSUME NEW t \in Tokens, Sweep(t) PROVE TypeOK'
  <2>1. CASE SweepOwner(t)
    BY <2>1 DEF TypeOK, SweepOwner
  <2>2. CASE SweepLookup(t)
    BY <2>2 DEF TypeOK, SweepLookup
  <2>3. ASSUME NEW m \in Minutes, SweepCounter(t, m) PROVE TypeOK'
    <3>1. counter' \in [Tokens -> [Minutes -> 0 .. Limit]]
      BY <2>3 DEF TypeOK, SweepCounter
    <3> QED BY <2>3, <3>1 DEF TypeOK, SweepCounter
  <2> QED BY <1>2, <2>1, <2>2, <2>3 DEF Sweep
<1>3. ASSUME NEW r \in Requests, Authorize(r) PROVE TypeOK'
  <2> DEFINE t == TokenOf[r]
  <2>1. t \in Tokens /\ minute[r] \in Minutes /\ counter \in [Tokens -> [Minutes -> 0 .. Limit]]
    BY DEF TypeOK
  <2>2. pc[r] \in {"consume", "touch"} => inHand[r].token = t
    BY DEF Belong
  <2>3. owner' \in [Tokens -> Row \union {NoRow}]
    <3>1. CASE owner' = owner
      BY <3>1 DEF TypeOK
    <3>2. CASE pc[r] = "touch" /\ owner[t] # NoRow /\ owner' = [owner EXCEPT ![t].used = TRUE]
      <4>1. [owner[t] EXCEPT !.used = TRUE] \in Row
        BY <2>1, <3>2, UsedType DEF TypeOK
      <4> QED BY <2>1, <3>2, <4>1 DEF TypeOK
    <3> QED BY <1>3, <2>2, <3>1, <3>2
         DEF Authorize, Find, Check, Consume, ConsumeUnheard, Touch, TouchUnheard, Deny
  <2>4. counter' \in [Tokens -> [Minutes -> 0 .. Limit]]
    <3>1. CASE counter' = counter
      BY <2>1, <3>1
    <3>2. CASE UnderLimit(t, minute[r]) /\ Count(t, minute[r])
      <4>1. counter[t][minute[r]] + 1 \in 0 .. Limit
        BY <2>1, <3>2 DEF UnderLimit
      <4> QED BY <2>1, <3>2, <4>1 DEF Count
    <3> QED BY <1>3, <2>2, <3>1, <3>2
         DEF Authorize, Find, Check, Consume, ConsumeUnheard, Touch, TouchUnheard, Deny
  <2>5. minute' \in [Requests -> Minutes]
    BY <1>3 DEF TypeOK, Authorize, Find, Check, Consume, ConsumeUnheard, Touch, TouchUnheard, Deny
  <2>6. faults' \in 0 .. MaxFaults
    BY <1>3 DEF TypeOK, Fault, Authorize, Find, Check, Consume, ConsumeUnheard, Touch, TouchUnheard, Deny
  <2>7. UNCHANGED <<lookup, secret, late, clock>>
    BY <1>3 DEF Authorize, Find, Check, Consume, ConsumeUnheard, Touch, TouchUnheard, Deny
  <2> QED BY <1>3, <2>3, <2>4, <2>5, <2>6, <2>7, RequestStep DEF TypeOK, Calls
<1>4. ASSUME NEW v \in Revocations, Revoke(v) PROVE TypeOK'
  <2>1. /\ owner' \in [Tokens -> Row \union {NoRow}]
        /\ lookup' \in [Hashes -> Row \union {NoRow}]
        /\ late' \subseteq Requests
        /\ faults' \in 0 .. MaxFaults
    <3>1. CASE RevokeGet(v) \/ RevokeFails(v)
      BY <3>1 DEF TypeOK, RevokeGet, RevokeFails, Hashes
    <3>2. CASE RevokeWrites(v)
      <4>1. RevokedOf[v] \in Tokens /\ inHand[v].token \in Hashes
        BY <3>2 DEF RevokeWrites, Belong, Hashes
      <4>2. Stamped(owner[RevokedOf[v]]) \in Row /\ Stamped(lookup[inHand[v].token]) \in Row
        BY <4>1, StampedType DEF TypeOK, Hashes
      <4> QED BY <3>2, <4>1, <4>2 DEF TypeOK, RevokeWrites, Stamp, Fault, Hashes
    <3> QED BY <1>4, <3>1, <3>2 DEF Revoke
  <2>2. UNCHANGED <<counter, secret, minute, clock>>
    BY <1>4 DEF Revoke, RevokeGet, RevokeWrites, RevokeFails
  <2> QED BY <1>4, <2>1, <2>2, RevocationStep DEF TypeOK, Hashes, Calls
<1>5. CASE Tick
  BY <1>5 DEF TypeOK, Tick, Minutes
<1>6. CASE UNCHANGED vars
  BY <1>6 DEF TypeOK, vars
<1> QED BY <1>1, <1>2, <1>3, <1>4, <1>5, <1>6 DEF Next

LEMMA BelongNext == TypeOK /\ Belong /\ [Next]_vars => Belong'
<1> SUFFICES ASSUME TypeOK, Belong, [Next]_vars PROVE Belong'
  OBVIOUS
<1> USE TokenAssumption
<1>1. ASSUME NEW t \in Tokens, Create(t) PROVE Belong'
  BY <1>1, NewRowType DEF TypeOK, Belong, Create, Hashes, Whole
<1>2. ASSUME NEW t \in Tokens, Sweep(t) PROVE Belong'
  BY <1>2 DEF TypeOK, Belong, Sweep, SweepOwner, SweepLookup, SweepCounter, Hashes, Whole
<1>3. ASSUME NEW r \in Requests, Authorize(r) PROVE Belong'
  <2> DEFINE t == TokenOf[r]
  <2>1. t \in Tokens /\ r \in Calls /\ UNCHANGED lookup
    BY <1>3 DEF Calls, Authorize, Find, Check, Consume, ConsumeUnheard, Touch, TouchUnheard, Deny
  <2>2. \A u \in Tokens : Whole(owner'[u]) => owner'[u].token = u
    <3>1. CASE owner' = owner
      BY <3>1 DEF Belong, Whole
    <3>2. CASE owner[t] # NoRow /\ owner' = [owner EXCEPT ![t].used = TRUE]
      <4>1. owner'[t] = [owner[t] EXCEPT !.used = TRUE] /\ owner[t] \in Row
        BY <2>1, <3>2 DEF TypeOK
      <4>2. \A u \in Tokens \ {t} : owner'[u] = owner[u]
        BY <3>2 DEF TypeOK
      <4>3. owner'[t].token = owner[t].token
        BY <4>1, UsedType
      <4>4. Whole(owner'[t]) => owner'[t].token = t
        BY <2>1, <3>2, <4>3 DEF Belong, Whole
      <4> QED BY <4>2, <4>4 DEF Belong, Whole
    <3> QED BY <1>3, <3>1, <3>2
         DEF Authorize, Find, Check, Consume, ConsumeUnheard, Touch, TouchUnheard, Deny, Belong
  <2>3. pc'[r] \in {"check", "consume", "touch"} => inHand'[r] # NoRow /\ inHand'[r].token = t
    <3>1. CASE Find(r)
      <4>1. pc'[r] = "check" => Whole(lookup[t]) /\ inHand'[r] = lookup[t]
        BY <2>1, <3>1 DEF TypeOK, Find, Goto, Keep, End
      <4> QED BY <2>1, <3>1, <4>1 DEF TypeOK, Find, Goto, End, Belong, Hashes, Whole
    <3>2. CASE Check(r) \/ Consume(r) \/ ConsumeUnheard(r) \/ Touch(r) \/ TouchUnheard(r) \/ Deny(r)
      <4>1. \/ pc'[r] \in {"authorized", "denied"}
            \/ pc[r] \in {"check", "consume", "touch"} /\ UNCHANGED inHand
        BY <2>1, <3>2 DEF TypeOK, Check, Consume, ConsumeUnheard, Touch, TouchUnheard, Deny, End, Goto
      <4> QED BY <4>1 DEF Belong
    <3> QED BY <1>3, <3>1, <3>2 DEF Authorize
  <2> QED BY <1>3, <2>1, <2>2, <2>3, RequestStep DEF Belong, Alone, Calls, Whole
<1>4. ASSUME NEW v \in Revocations, Revoke(v) PROVE Belong'
  <2> DEFINE t == RevokedOf[v]
  <2>1. t \in Tokens /\ v \in Calls
    BY DEF Calls
  <2>2. /\ \A u \in Tokens : Whole(owner'[u]) => owner'[u].token = u
        /\ \A h \in Hashes : Whole(lookup'[h]) => lookup'[h].token = h
    <3>1. CASE RevokeGet(v) \/ RevokeFails(v)
      BY <3>1 DEF RevokeGet, RevokeFails, Belong, Whole
    <3>2. CASE RevokeWrites(v)
      <4> DEFINE h == inHand[v].token
      <4>1. h \in Hashes
        BY <3>2 DEF RevokeWrites, Belong, Hashes
      <4>2. owner' = [owner EXCEPT ![t] = Stamped(@)] /\ lookup' = [lookup EXCEPT ![h] = Stamped(@)]
        BY <3>2 DEF RevokeWrites, Stamp
      <4>3. Whole(owner'[t]) => owner'[t].token = t
        BY <2>1, <4>2, StampedType DEF TypeOK, Belong, Whole
      <4>4. Whole(lookup'[h]) => lookup'[h].token = h
        BY <4>1, <4>2, StampedType DEF TypeOK, Belong, Whole, Hashes
      <4>5. /\ \A u \in Tokens \ {t} : owner'[u] = owner[u]
            /\ \A k \in Hashes \ {h} : lookup'[k] = lookup[k]
        BY <4>2 DEF TypeOK, Hashes
      <4> QED BY <4>3, <4>4, <4>5 DEF Belong, Whole
    <3> QED BY <1>4, <3>1, <3>2 DEF Revoke
  <2>3. pc'[v] = "write" => inHand'[v] # NoRow /\ inHand'[v].token \in {t, NoToken}
    <3>1. CASE RevokeGet(v)
      <4>1. pc'[v] = "write" => owner[t] # NoRow /\ inHand'[v] = owner[t]
        BY <2>1, <3>1 DEF TypeOK, RevokeGet, Goto, Keep, End
      <4> QED BY <2>1, <4>1 DEF TypeOK, Belong, Whole
    <3>2. CASE RevokeWrites(v) \/ RevokeFails(v)
      BY <2>1, <3>2 DEF TypeOK, RevokeWrites, RevokeFails, End, Goto
    <3> QED BY <1>4, <3>1, <3>2 DEF Revoke
  <2> QED BY <1>4, <2>1, <2>2, <2>3, RevocationStep DEF Belong, Alone, Calls
<1>5. CASE Tick
  BY <1>5 DEF Belong, Tick, Whole
<1>6. CASE UNCHANGED vars
  BY <1>6 DEF Belong, vars, Whole
<1> QED BY <1>1, <1>2, <1>3, <1>4, <1>5, <1>6 DEF Next

\* Every variable keeps its type: in particular no counter passes the limit, however
\* often an update is sent again.
THEOREM TokenTypeCorrect == Spec => []TypeOK
<1>1. Spec => [](TypeOK /\ Belong)
  BY BelongInit, TypeNext, BelongNext, PTL DEF Spec
<1> QED BY <1>1, PTL

-----------------------------------------------------------------------------
(***************************************************************************)
(* What the two kinds of calls do to the rows                              *)
(***************************************************************************)
LEMMA RowsAtRequest ==
  ASSUME TypeOK, Belong, NEW r \in Requests, Authorize(r), NEW t \in Tokens
  PROVE  /\ Whole(owner'[t]) <=> Whole(owner[t])
         /\ Whole(owner[t]) => /\ owner'[t].revoked = owner[t].revoked
                               /\ owner[t].used => owner'[t].used
         /\ UNCHANGED <<lookup, secret, late, clock>>
<1>1. UNCHANGED <<lookup, secret, late, clock>>
  BY DEF Authorize, Find, Check, Consume, ConsumeUnheard, Touch, TouchUnheard, Deny
<1>2. CASE owner'[t] = owner[t]
  BY <1>1, <1>2 DEF Whole
<1>3. CASE owner[t] # NoRow /\ owner' = [owner EXCEPT ![t].used = TRUE]
  <2>1. owner'[t] = [owner[t] EXCEPT !.used = TRUE] /\ owner[t] \in Row
    BY <1>3 DEF TypeOK
  <2> QED BY <1>1, <2>1, UsedType DEF Whole
<1> QED
  BY <1>2, <1>3
     DEF TypeOK, Belong, Authorize, Find, Check, Consume, ConsumeUnheard, Touch, TouchUnheard, Deny

LEMMA RowsAtRevocation ==
  ASSUME TypeOK, Belong, NEW v \in Revocations, Revoke(v), NEW t \in Tokens
  PROVE  /\ UNCHANGED <<counter, secret, minute, clock>>
         /\ Whole(owner'[t]) <=> Whole(owner[t])
         /\ Whole(lookup'[t]) <=> Whole(lookup[t])
         /\ Whole(owner[t]) => owner'[t].used = owner[t].used
         /\ owner'[t] # owner[t] => t = RevokedOf[v] /\ RevokeWrites(v)
         /\ lookup'[t] # lookup[t] => t = inHand[v].token /\ RevokeWrites(v)
         /\ lookup'[t] # lookup[t] => lookup'[t].revoked
         /\ RevokeWrites(v) /\ t = RevokedOf[v] => owner'[t].revoked
         /\ RevokeWrites(v) /\ t = inHand[v].token => lookup'[t].revoked
<1>1. UNCHANGED <<counter, secret, minute, clock>>
  BY DEF Revoke, RevokeGet, RevokeWrites, RevokeFails
<1>2. CASE RevokeWrites(v)
  <2>1. /\ owner'[t] = IF t = RevokedOf[v] THEN Stamped(owner[t]) ELSE owner[t]
        /\ lookup'[t] = IF t = inHand[v].token THEN Stamped(lookup[t]) ELSE lookup[t]
    BY <1>2 DEF TypeOK, RevokeWrites, Stamp
  <2>2. owner[t] \in Row \union {NoRow} /\ lookup[t] \in Row \union {NoRow}
    BY DEF TypeOK
  <2> QED BY <1>1, <1>2, <2>1, <2>2, StampedType DEF Whole
<1>3. CASE RevokeGet(v) \/ RevokeFails(v)
  <2>1. pc'[v] # "revoked" /\ UNCHANGED <<owner, lookup>>
    BY <1>3, TokenAssumption DEF TypeOK, RevokeGet, RevokeFails, Goto, End
  <2>2. CASE ~RevokeWrites(v)
    BY <1>1, <2>1, <2>2 DEF Whole
  <2> QED BY <1>1, <1>2, <2>2
<1> QED BY <1>2, <1>3 DEF Revoke

-----------------------------------------------------------------------------
(***************************************************************************)
(* The two copies.  A revocation whose read preceded the sweep knows the   *)
(* hash; one that read a row an update had put back does not, and may not  *)
(* run before the retention has ended.                                     *)
(***************************************************************************)
KnowsHash ==
  \A v \in Revocations : pc[v] = "write" =>
    /\ secret[RevokedOf[v]] # "none"
    /\ clock < KeptUntil(RevokedOf[v]) => inHand[v].token = RevokedOf[v]

LEMMA CopiesInit == Init => CopiesAgree /\ KnowsHash
BY TokenAssumption DEF Init, CopiesAgree, KnowsHash

LEMMA CopiesNext ==
  TypeOK /\ Belong /\ CopiesAgree /\ KnowsHash /\ [Next]_vars => CopiesAgree' /\ KnowsHash'
<1> SUFFICES ASSUME TypeOK, Belong, CopiesAgree, KnowsHash, [Next]_vars
             PROVE  CopiesAgree' /\ KnowsHash'
  OBVIOUS
<1> USE TokenAssumption
<1> DEFINE Kept(t) == secret[t] # "none" /\ clock < KeptUntil(t)
           Good(t) == Whole(owner[t]) /\ Whole(lookup[t]) /\ owner[t].revoked = lookup[t].revoked
<1>0. \A t \in Tokens : Kept(t) => Good(t)
  BY DEF CopiesAgree, KeptUntil
<1>g. (\A t \in Tokens : (Kept(t))' => (Good(t))') => CopiesAgree'
  BY DEF CopiesAgree, KeptUntil
<1>1. ASSUME NEW u \in Tokens, Create(u) PROVE CopiesAgree' /\ KnowsHash'
  <2>1. (Good(u))'
    BY <1>1, NewRowType DEF TypeOK, Create, Whole, NewRow
  <2>2. \A t \in Tokens \ {u} :
          owner'[t] = owner[t] /\ lookup'[t] = lookup[t] /\ secret'[t] = secret[t]
    BY <1>1 DEF TypeOK, Create
  <2>3. secret'[u] # "none" /\ UNCHANGED <<clock, pc, inHand>>
    BY <1>1 DEF TypeOK, Create
  <2>4. CopiesAgree'
    BY <1>0, <1>g, <2>1, <2>2, <2>3 DEF Whole, KeptUntil
  <2>5. KnowsHash'
    BY <2>2, <2>3 DEF KnowsHash, KeptUntil
  <2> QED BY <2>4, <2>5
<1>2. ASSUME NEW u \in Tokens, Sweep(u) PROVE CopiesAgree' /\ KnowsHash'
  <2>1. \A t \in Tokens : Kept(t) => owner'[t] = owner[t] /\ lookup'[t] = lookup[t]
    BY <1>2 DEF TypeOK, Sweep, SweepOwner, SweepLookup, SweepCounter, KeptUntil, Minutes
  <2>2. UNCHANGED <<secret, clock, pc, inHand>>
    BY <1>2 DEF Sweep, SweepOwner, SweepLookup, SweepCounter
  <2>3. CopiesAgree'
    BY <1>0, <1>g, <2>1, <2>2 DEF Whole, KeptUntil
  <2> QED BY <2>2, <2>3 DEF KnowsHash, KeptUntil
<1>3. ASSUME NEW r \in Requests, Authorize(r) PROVE CopiesAgree' /\ KnowsHash'
  <2>1. CopiesAgree'
    BY <1>0, <1>g, <1>3, RowsAtRequest DEF Whole, KeptUntil
  <2>2. \A v \in Revocations : pc'[v] = pc[v] /\ inHand'[v] = inHand[v]
    BY <1>3, RequestStep DEF Alone, Calls
  <2>3. UNCHANGED <<secret, clock>>
    BY <1>3 DEF Authorize, Find, Check, Consume, ConsumeUnheard, Touch, TouchUnheard, Deny
  <2> QED BY <2>1, <2>2, <2>3 DEF KnowsHash, KeptUntil
<1>4. ASSUME NEW v \in Revocations, Revoke(v) PROVE CopiesAgree' /\ KnowsHash'
  <2>1. UNCHANGED <<secret, clock>>
    BY <1>4 DEF Revoke, RevokeGet, RevokeWrites, RevokeFails
  <2>2. ASSUME NEW t \in Tokens, Kept(t) PROVE (Good(t))'
    <3>1. Good(t)
      BY <1>0, <2>2
    <3>2. RevokeWrites(v) /\ t = RevokedOf[v] => t = inHand[v].token
      BY <2>2 DEF KnowsHash, RevokeWrites
    <3>3. RevokeWrites(v) /\ t = inHand[v].token => t = RevokedOf[v]
      BY DEF Belong, RevokeWrites
    <3>4. Whole(owner'[t]) /\ Whole(lookup'[t])
      BY <1>4, <3>1, RowsAtRevocation
    <3>5. CASE RevokeWrites(v) /\ t = RevokedOf[v]
      <4>1. owner'[t] \in Row /\ lookup'[t] \in Row /\ owner'[t].revoked /\ lookup'[t].revoked
        BY <1>4, <3>2, <3>4, <3>5, RowsAtRevocation, TypeNext DEF TypeOK, Whole
      <4>2. owner'[t].revoked = TRUE /\ lookup'[t].revoked = TRUE
        BY <4>1 DEF Row
      <4> QED BY <3>4, <4>2 DEF Whole
    <3>6. CASE ~(RevokeWrites(v) /\ t = RevokedOf[v])
      <4>1. owner'[t] = owner[t] /\ lookup'[t] = lookup[t]
        BY <1>4, <3>3, <3>6, RowsAtRevocation
      <4> QED BY <3>1, <4>1 DEF Whole
    <3> QED BY <3>5, <3>6
  <2>3. CopiesAgree'
    BY <1>g, <2>1, <2>2 DEF KeptUntil
  <2>4. ASSUME NEW w \in Revocations, pc'[w] = "write"
        PROVE  /\ secret'[RevokedOf[w]] # "none"
               /\ clock' < KeptUntil(RevokedOf[w]) => inHand'[w].token = RevokedOf[w]
    <3>1. CASE w # v
      BY <1>4, <2>1, <2>4, <3>1, RevocationStep DEF Alone, Calls, KnowsHash
    <3>2. CASE w = v
      <4>1. RevokeGet(v)
        BY <1>4, <2>4, <3>2 DEF Revoke, RevokeWrites, RevokeFails, TypeOK, End, Goto
      <4>2. /\ secret[RevokedOf[v]] # "none"
            /\ owner[RevokedOf[v]] # NoRow
            /\ inHand'[v] = owner[RevokedOf[v]]
        BY <2>4, <3>2, <4>1 DEF TypeOK, RevokeGet, End, Goto, Keep
      <4>3. Kept(RevokedOf[v]) => Whole(owner[RevokedOf[v]])
        BY <1>0
      <4> QED BY <2>1, <3>2, <4>2, <4>3 DEF Belong
    <3> QED BY <3>1, <3>2
  <2>5. KnowsHash'
    BY <2>4 DEF KnowsHash, KeptUntil
  <2> QED BY <2>3, <2>5
<1>5. CASE Tick
  <2>1. UNCHANGED <<owner, lookup, secret, pc, inHand>> /\ clock' = clock + 1
    BY <1>5 DEF Tick
  <2>2. \A t \in Tokens : (Kept(t))' => Kept(t)
    BY <2>1 DEF TypeOK, KeptUntil, Minutes
  <2>3. CopiesAgree'
    BY <1>0, <1>g, <2>1, <2>2 DEF Whole
  <2>4. KnowsHash'
    BY <2>1 DEF TypeOK, KnowsHash, KeptUntil, Minutes
  <2> QED BY <2>3, <2>4
<1>6. CASE UNCHANGED vars
  BY <1>6 DEF CopiesAgree, KnowsHash, KeptUntil, Whole, vars
<1> QED BY <1>1, <1>2, <1>3, <1>4, <1>5, <1>6 DEF Next

\* Until its retention ends, a token has both rows and they agree on whether it is
\* revoked, whatever revocations, requests and sweeps run beside each other.
THEOREM RowsAgree == Spec => []CopiesAgree
<1>1. Spec => [](TypeOK /\ Belong /\ CopiesAgree /\ KnowsHash)
  BY BelongInit, TypeNext, BelongNext, CopiesInit, CopiesNext, PTL DEF Spec
<1> QED BY <1>1, PTL

-----------------------------------------------------------------------------
(***************************************************************************)
(* Who is allowed.  A request sent after a revocation meets the stamp in   *)
(* the row it finds, or no row; the one exception is a revocation that did *)
(* not know the hash, and then the token has expired.                      *)
(***************************************************************************)
Refused(row, t) == row.revoked \/ clock >= ExpiresAt[t]

LateRefused ==
  \A r \in late :
    /\ secret[TokenOf[r]] # "none"
    /\ pc[r] \in {"find", "check", "denied"}
    /\ Whole(lookup[TokenOf[r]]) => Refused(lookup[TokenOf[r]], TokenOf[r])
    /\ pc[r] = "check" => Refused(inHand[r], TokenOf[r])

Entitled ==
  \A r \in Requests : pc[r] \in {"consume", "touch", "authorized"} =>
    /\ minute[r] < ExpiresAt[TokenOf[r]]
    /\ RequiredScope[RouteOf[r]] \in ScopesOf[TokenOf[r]]

LEMMA EntitledInit == Init => LateRefused /\ Entitled
BY TokenAssumption DEF Init, LateRefused, Entitled

LEMMA EntitledNext ==
  TypeOK /\ Belong /\ KnowsHash /\ LateRefused /\ Entitled /\ [Next]_vars
    => LateRefused' /\ Entitled'
<1> SUFFICES ASSUME TypeOK, Belong, KnowsHash, LateRefused, Entitled, [Next]_vars
             PROVE  LateRefused' /\ Entitled'
  OBVIOUS
<1> USE TokenAssumption
<1>1. ASSUME NEW u \in Tokens, Create(u) PROVE LateRefused' /\ Entitled'
  <2>1. \A t \in Tokens : secret[t] # "none" => secret'[t] # "none" /\ lookup'[t] = lookup[t]
    BY <1>1 DEF TypeOK, Create
  <2>2. UNCHANGED <<pc, inHand, minute, late, clock>>
    BY <1>1 DEF Create
  <2> QED BY <2>1, <2>2 DEF TypeOK, LateRefused, Entitled, Refused, Whole
<1>2. ASSUME NEW u \in Tokens, Sweep(u) PROVE LateRefused' /\ Entitled'
  <2>1. \A t \in Tokens : lookup'[t] = lookup[t] \/ lookup'[t] = NoRow
    BY <1>2 DEF TypeOK, Sweep, SweepOwner, SweepLookup, SweepCounter
  <2>2. UNCHANGED <<secret, pc, inHand, minute, late, clock>>
    BY <1>2 DEF Sweep, SweepOwner, SweepLookup, SweepCounter
  <2> QED BY <2>1, <2>2 DEF TypeOK, LateRefused, Entitled, Refused, Whole
<1>3. ASSUME NEW r \in Requests, Authorize(r) PROVE LateRefused' /\ Entitled'
  <2> DEFINE t == TokenOf[r]
  <2>1. UNCHANGED <<lookup, secret, late, clock>>
    BY <1>3 DEF Authorize, Find, Check, Consume, ConsumeUnheard, Touch, TouchUnheard, Deny
  <2>2. \A q \in Requests \ {r} : pc'[q] = pc[q] /\ inHand'[q] = inHand[q] /\ minute'[q] = minute[q]
    <3>1. \A q \in Requests \ {r} : minute'[q] = minute[q]
      BY <1>3 DEF TypeOK, Authorize, Find, Check, Consume, ConsumeUnheard, Touch, TouchUnheard, Deny
    <3> QED BY <1>3, <3>1, RequestStep DEF Alone, Calls
  <2>3. pc'[r] = "check" => pc[r] = "find" /\ Whole(lookup[t]) /\ inHand'[r] = lookup[t]
    BY <1>3 DEF TypeOK, Authorize, Find, Check, Consume, ConsumeUnheard, Touch, TouchUnheard, Deny,
                Goto, Keep, End
  <2>4. pc'[r] = "consume" /\ pc[r] # "consume" =>
          /\ pc[r] = "check"
          /\ ~Refused(inHand[r], t)
          /\ minute'[r] < ExpiresAt[t]
          /\ RequiredScope[RouteOf[r]] \in ScopesOf[t]
    <3>1. CASE Check(r)
      <4>1. inHand[r].token = t /\ clock \in Nat /\ ExpiresAt[t] \in Nat
        BY <3>1 DEF TypeOK, Belong, Check, Minutes
      <4>2. pc'[r] = "consume" => Active(inHand[r]) /\ HasScope(inHand[r], r) /\ minute'[r] = clock
        BY <3>1 DEF TypeOK, Check, Goto, End
      <4> QED BY <3>1, <4>1, <4>2 DEF Check, Active, HasScope, Refused
    <3>2. CASE ~Check(r)
      BY <1>3, <3>2 DEF TypeOK, Authorize, Find, Consume, ConsumeUnheard, Touch, TouchUnheard, Deny,
                        Goto, End
    <3> QED BY <3>1, <3>2
  <2>5. pc'[r] \in {"touch", "authorized"} => pc[r] \in {"consume", "touch"} /\ minute'[r] = minute[r]
    BY <1>3 DEF TypeOK, Authorize, Find, Check, Consume, ConsumeUnheard, Touch, TouchUnheard, Deny,
                Goto, End
  <2>6. pc[r] = "consume" => minute'[r] = minute[r]
    BY <1>3 DEF TypeOK, Authorize, Find, Check, Consume, ConsumeUnheard, Touch, TouchUnheard, Deny
  <2>7. pc'[r] \in AtRequest /\ pc'[r] # "find"
    <3>1. pc'[r] # "find"
      BY <1>3 DEF TypeOK, Authorize, Find, Check, Consume, ConsumeUnheard, Touch, TouchUnheard, Deny,
                  Goto, End
    <3> QED BY <1>3, <3>1, RequestStep
  <2>8. Entitled'
    BY <2>2, <2>4, <2>5, <2>6 DEF Entitled
  <2>9. ASSUME r \in late
        PROVE  /\ pc'[r] \in {"find", "check", "denied"}
               /\ pc'[r] = "check" => (Refused(inHand[r], t))'
    <3>1. /\ pc[r] \in {"find", "check", "denied"}
          /\ Whole(lookup[t]) => Refused(lookup[t], t)
          /\ pc[r] = "check" => Refused(inHand[r], t)
      BY <2>9 DEF LateRefused
    <3>2. pc'[r] \notin {"consume", "touch", "authorized"}
      BY <2>4, <2>5, <3>1
    <3>3. pc'[r] \in {"check", "denied"}
      BY <2>7, <3>2 DEF AtRequest, Running
    <3> QED BY <2>1, <2>3, <3>1, <3>3 DEF Refused
  <2>10. LateRefused'
    BY <2>1, <2>2, <2>9 DEF TypeOK, LateRefused, Refused, Whole
  <2> QED BY <2>8, <2>10
<1>4. ASSUME NEW v \in Revocations, Revoke(v) PROVE LateRefused' /\ Entitled'
  <2>1. /\ UNCHANGED <<secret, minute, clock>>
        /\ \A r \in Requests : pc'[r] = pc[r] /\ inHand'[r] = inHand[r]
    <3>1. UNCHANGED <<secret, minute, clock>>
      BY <1>4 DEF Revoke, RevokeGet, RevokeWrites, RevokeFails
    <3> QED BY <1>4, <3>1, RevocationStep DEF Alone, Calls
  <2>2. Entitled'
    BY <2>1 DEF Entitled
  <2>3. \A t \in Tokens : Whole(lookup'[t]) =>
          Whole(lookup[t]) /\ (lookup[t].revoked => lookup'[t].revoked)
    BY <1>4, RowsAtRevocation
  <2>4. ASSUME NEW r \in late
        PROVE  Whole(lookup'[TokenOf[r]]) => (Refused(lookup[TokenOf[r]], TokenOf[r]))'
    BY <2>1, <2>3 DEF TypeOK, LateRefused, Refused
  <2>5. ASSUME NEW r \in late' \ late
        PROVE  /\ r \in Requests
               /\ secret[TokenOf[r]] # "none"
               /\ pc[r] = "find"
               /\ Whole(lookup'[TokenOf[r]]) => (Refused(lookup[TokenOf[r]], TokenOf[r]))'
    <3>1. RevokeWrites(v) /\ r \in Requests /\ pc[r] = "find" /\ TokenOf[r] = RevokedOf[v]
      BY <1>4, <2>5 DEF Revoke, RevokeGet, RevokeWrites, RevokeFails
    <3>2. /\ secret[RevokedOf[v]] # "none"
          /\ clock < KeptUntil(RevokedOf[v]) => inHand[v].token = RevokedOf[v]
      BY <3>1 DEF KnowsHash, RevokeWrites
    <3>3. CASE inHand[v].token = RevokedOf[v]
      BY <1>4, <3>1, <3>2, <3>3, RowsAtRevocation DEF Refused
    <3>4. CASE inHand[v].token # RevokedOf[v]
      <4>1. clock \in Nat /\ ExpiresAt[RevokedOf[v]] \in Nat /\ Retention \in Nat
        BY DEF TypeOK, Minutes
      <4>2. clock' >= ExpiresAt[RevokedOf[v]]
        BY <2>1, <3>2, <3>4, <4>1 DEF KeptUntil
      <4> QED BY <3>1, <3>2, <4>2 DEF Refused
    <3> QED BY <3>3, <3>4
  <2>6. LateRefused'
    BY <2>1, <2>4, <2>5 DEF TypeOK, LateRefused, Refused
  <2> QED BY <2>2, <2>6
<1>5. CASE Tick
  <2>1. UNCHANGED <<lookup, secret, pc, inHand, minute, late>> /\ clock' = clock + 1 /\ clock \in Nat
    BY <1>5 DEF TypeOK, Tick, Minutes
  <2> QED BY <2>1 DEF TypeOK, LateRefused, Entitled, Refused, Whole
<1>6. CASE UNCHANGED vars
  BY <1>6 DEF LateRefused, Entitled, Refused, Whole, vars
<1> QED BY <1>1, <1>2, <1>3, <1>4, <1>5, <1>6 DEF Next

\* Nobody is allowed under a token that was revoked before the request was sent or had
\* expired when it was checked, or on a route outside its scopes.
THEOREM NobodyUnentitled == Spec => []RefusesUnentitled
<1>1. LateRefused /\ Entitled => RefusesUnentitled
  BY DEF LateRefused, Entitled, RefusesUnentitled
<1>2. Spec => [](TypeOK /\ Belong /\ CopiesAgree /\ KnowsHash /\ LateRefused /\ Entitled)
  BY BelongInit, TypeNext, BelongNext, CopiesInit, CopiesNext, EntitledInit, EntitledNext, PTL DEF Spec
<1> QED BY <1>1, <1>2, PTL

-----------------------------------------------------------------------------
(***************************************************************************)
(* The use that is shown                                                   *)
(***************************************************************************)
\* A request that found a token was sent after it was created.
Created ==
  \A r \in Requests : pc[r] \in {"check", "consume", "touch", "authorized"} =>
    secret[TokenOf[r]] # "none"

LEMMA UseInit == Init => UseIsShown /\ Created
BY TokenAssumption DEF Init, UseIsShown, Created

LEMMA UseNext ==
  TypeOK /\ Belong /\ UseIsShown /\ Created /\ [Next]_vars => UseIsShown' /\ Created'
<1> SUFFICES ASSUME TypeOK, Belong, UseIsShown, Created, [Next]_vars
             PROVE  UseIsShown' /\ Created'
  OBVIOUS
<1> USE TokenAssumption
<1>1. ASSUME NEW u \in Tokens, Create(u) PROVE UseIsShown' /\ Created'
  <2>1. \A t \in Tokens : secret[t] # "none" => secret'[t] # "none" /\ owner'[t] = owner[t]
    BY <1>1 DEF TypeOK, Create
  <2>2. UNCHANGED pc
    BY <1>1 DEF Create
  <2> QED BY <2>1, <2>2 DEF TypeOK, UseIsShown, Created, Whole
<1>2. ASSUME NEW u \in Tokens, Sweep(u) PROVE UseIsShown' /\ Created'
  <2>1. \A t \in Tokens : owner'[t] = owner[t] \/ owner'[t] = NoRow
    BY <1>2 DEF TypeOK, Sweep, SweepOwner, SweepLookup, SweepCounter
  <2>2. UNCHANGED <<secret, pc>>
    BY <1>2 DEF Sweep, SweepOwner, SweepLookup, SweepCounter
  <2> QED BY <2>1, <2>2 DEF TypeOK, UseIsShown, Created, Whole
<1>3. ASSUME NEW r \in Requests, Authorize(r) PROVE UseIsShown' /\ Created'
  <2> DEFINE t == TokenOf[r]
  <2>1. \A q \in Requests \ {r} : pc'[q] = pc[q]
    BY <1>3, RequestStep DEF Alone, Calls
  <2>2. \A u \in Tokens : /\ Whole(owner'[u]) <=> Whole(owner[u])
                          /\ Whole(owner[u]) /\ owner[u].used => owner'[u].used
    BY <1>3, RowsAtRequest
  <2>3. UNCHANGED secret
    BY <1>3 DEF Authorize, Find, Check, Consume, ConsumeUnheard, Touch, TouchUnheard, Deny
  <2>4. pc'[r] = "authorized" /\ pc[r] # "authorized" => owner'[t].used
    <3>1. CASE Touch(r)
      <4>1. inHand[r].token = t
        BY <3>1 DEF Belong, Touch
      <4>2. pc'[r] = "authorized" => owner[t] \in Row /\ owner'[t] = [owner[t] EXCEPT !.used = TRUE]
        <5>1. CASE owner[t] = NoRow
          BY <3>1, <4>1, <5>1 DEF TypeOK, Touch, Goto, End
        <5>2. CASE owner[t] # NoRow
          <6>1. t \in Tokens /\ owner[t] \in Row
            BY <5>2 DEF TypeOK
          <6>2. owner' = [owner EXCEPT ![t].used = TRUE]
            BY <3>1, <4>1, <5>2 DEF Touch
          <6>3. owner'[t] = [owner[t] EXCEPT !.used = TRUE]
            BY <6>1, <6>2 DEF TypeOK
          <6> QED BY <6>1, <6>3
        <5> QED BY <5>1, <5>2
      <4> QED BY <4>2, UsedType
    <3>2. CASE ~Touch(r)
      BY <1>3, <3>2 DEF TypeOK, Authorize, Find, Check, Consume, ConsumeUnheard, TouchUnheard, Deny,
                        Goto, End
    <3> QED BY <3>1, <3>2
  <2>5. pc[r] # "authorized"
    BY <1>3 DEF Authorize, Find, Check, Consume, ConsumeUnheard, Touch, TouchUnheard, Deny, Running
  <2>6. pc'[r] \in {"check", "consume", "touch", "authorized"} => secret[t] # "none"
    BY <1>3 DEF TypeOK, Created, Authorize, Find, Check, Consume, ConsumeUnheard, Touch, TouchUnheard,
                Deny, Goto, End
  <2>7. UseIsShown'
    <3> SUFFICES ASSUME NEW q \in Requests, pc'[q] = "authorized", Whole(owner'[TokenOf[q]])
                 PROVE  owner'[TokenOf[q]].used
      BY DEF UseIsShown, Whole
    <3>1. CASE q = r
      BY <2>4, <2>5, <3>1
    <3>2. CASE q # r
      <4>1. TokenOf[q] \in Tokens /\ pc[q] = "authorized"
        BY <2>1, <3>2
      <4>2. Whole(owner[TokenOf[q]])
        BY <2>2, <4>1
      <4>3. owner[TokenOf[q]].used
        BY <4>1, <4>2 DEF UseIsShown
      <4> QED BY <2>2, <4>1, <4>2, <4>3
    <3> QED BY <3>1, <3>2
  <2> QED BY <2>1, <2>3, <2>6, <2>7 DEF Created
<1>4. ASSUME NEW v \in Revocations, Revoke(v) PROVE UseIsShown' /\ Created'
  <2>1. \A r \in Requests : pc'[r] = pc[r]
    BY <1>4, RevocationStep DEF Alone, Calls
  <2>2. \A u \in Tokens : /\ Whole(owner'[u]) <=> Whole(owner[u])
                          /\ Whole(owner[u]) => owner'[u].used = owner[u].used
    BY <1>4, RowsAtRevocation
  <2>3. UNCHANGED secret
    BY <1>4 DEF Revoke, RevokeGet, RevokeWrites, RevokeFails
  <2>4. UseIsShown'
    <3> SUFFICES ASSUME NEW q \in Requests, pc'[q] = "authorized", Whole(owner'[TokenOf[q]])
                 PROVE  owner'[TokenOf[q]].used
      BY DEF UseIsShown, Whole
    <3>1. TokenOf[q] \in Tokens /\ pc[q] = "authorized"
      BY <2>1
    <3>2. Whole(owner[TokenOf[q]])
      BY <2>2, <3>1
    <3>3. owner[TokenOf[q]].used
      BY <3>1, <3>2 DEF UseIsShown
    <3> QED BY <2>2, <3>1, <3>2, <3>3
  <2> QED BY <2>1, <2>3, <2>4 DEF Created
<1>5. CASE Tick
  BY <1>5 DEF Tick, UseIsShown, Created, Whole
<1>6. CASE UNCHANGED vars
  BY <1>6 DEF UseIsShown, Created, Whole, vars
<1> QED BY <1>1, <1>2, <1>3, <1>4, <1>5, <1>6 DEF Next

\* Whatever revocations run beside it, a request that is allowed is shown in the
\* owner's list as long as the token is.
THEOREM UseStaysShown == Spec => []UseIsShown
<1>1. Spec => [](TypeOK /\ Belong /\ UseIsShown /\ Created)
  BY BelongInit, TypeNext, BelongNext, UseInit, UseNext, PTL DEF Spec
<1> QED BY <1>1, PTL

-----------------------------------------------------------------------------
(***************************************************************************)
(* The limit.  A minute's counter is at least the number of requests that  *)
(* passed it, until it is swept; and by then no request is left that would *)
(* count against it.                                                       *)
(***************************************************************************)
Counted(t, m) ==
  {r \in Requests : pc[r] \in {"touch", "authorized"} /\ TokenOf[r] = t /\ minute[r] = m}

CountsCover ==
  \A t \in Tokens, m \in Minutes :
    /\ Cardinality(Counted(t, m)) <= Limit
    /\ clock < m + CounterTtl => Cardinality(Counted(t, m)) <= counter[t][m]

Prompt == \A r \in Requests : pc[r] = "consume" => clock < minute[r] + CounterTtl

LEMMA CountedFinite ==
  ASSUME NEW t, NEW m
  PROVE  /\ IsFiniteSet(Counted(t, m)) /\ Cardinality(Counted(t, m)) \in Nat
         /\ IsFiniteSet(Counted(t, m)') /\ Cardinality(Counted(t, m)') \in Nat
<1>1. Counted(t, m) \subseteq Requests /\ Counted(t, m)' \subseteq Requests
  BY DEF Counted
<1> QED BY <1>1, TokenAssumption, FS_Subset, FS_CardinalityType

LEMMA CountInit == TypeOK /\ Init => CountsCover /\ Prompt
<1> SUFFICES ASSUME TypeOK, Init PROVE CountsCover /\ Prompt
  OBVIOUS
<1>1. ASSUME NEW t \in Tokens, NEW m \in Minutes PROVE Cardinality(Counted(t, m)) = 0
  <2>1. Counted(t, m) = {}
    BY DEF Init, Counted
  <2> QED BY <2>1, FS_EmptySet
<1> QED BY <1>1, TokenAssumption DEF TypeOK, Init, CountsCover, Prompt

\* The same requests, or fewer, against a counter that has not gone down.
LEMMA StillCovers ==
  ASSUME TypeOK, TypeOK', CountsCover, NEW t \in Tokens, NEW m \in Minutes,
         Counted(t, m)' \subseteq Counted(t, m),
         clock' < m + CounterTtl => clock < m + CounterTtl /\ counter'[t][m] >= counter[t][m]
  PROVE  /\ Cardinality(Counted(t, m)') <= Limit
         /\ clock' < m + CounterTtl => Cardinality(Counted(t, m)') <= counter'[t][m]
<1>1. Cardinality(Counted(t, m)') <= Cardinality(Counted(t, m))
  BY CountedFinite, FS_Subset
<1>2. Cardinality(Counted(t, m)) \in Nat /\ Cardinality(Counted(t, m)') \in Nat
  BY CountedFinite
<1>3. counter[t][m] \in Nat /\ counter'[t][m] \in Nat /\ Limit \in Nat
  BY TokenAssumption DEF TypeOK
<1>4. /\ Cardinality(Counted(t, m)) <= Limit
      /\ clock < m + CounterTtl => Cardinality(Counted(t, m)) <= counter[t][m]
  BY DEF CountsCover
<1> QED BY <1>1, <1>2, <1>3, <1>4

LEMMA CountNext ==
  TypeOK /\ TypeOK' /\ Belong /\ CountsCover /\ Prompt /\ [Next]_vars => CountsCover' /\ Prompt'
<1> SUFFICES ASSUME TypeOK, TypeOK', Belong, CountsCover, Prompt, [Next]_vars
             PROVE  CountsCover' /\ Prompt'
  OBVIOUS
<1> USE TokenAssumption
<1> DEFINE Covers(t, m) == /\ Cardinality(Counted(t, m)) <= Limit
                           /\ clock < m + CounterTtl => Cardinality(Counted(t, m)) <= counter[t][m]
<1>g. (\A t \in Tokens, m \in Minutes : (Covers(t, m))') => CountsCover'
  BY DEF CountsCover
<1>0. \A t \in Tokens, m \in Minutes : counter[t][m] \in Nat /\ counter'[t][m] \in Nat
  BY DEF TypeOK
<1>q. ASSUME \A r \in Requests : pc'[r] = pc[r], UNCHANGED <<minute, counter, clock>>
      PROVE  CountsCover' /\ Prompt'
  <2>1. ASSUME NEW t \in Tokens, NEW m \in Minutes PROVE (Covers(t, m))'
    <3>1. Counted(t, m)' \subseteq Counted(t, m)
      BY <1>q DEF Counted
    <3>2. clock' < m + CounterTtl => clock < m + CounterTtl /\ counter'[t][m] >= counter[t][m]
      BY <1>0, <1>q
    <3> QED BY <3>1, <3>2, StillCovers
  <2> QED BY <1>g, <1>q, <2>1 DEF Prompt
<1>1. ASSUME NEW u \in Tokens, Create(u) PROVE CountsCover' /\ Prompt'
  BY <1>1, <1>q DEF Create
<1>2. ASSUME NEW u \in Tokens, Sweep(u) PROVE CountsCover' /\ Prompt'
  <2>1. UNCHANGED <<pc, minute, clock>>
    BY <1>2 DEF Sweep, SweepOwner, SweepLookup, SweepCounter
  <2>2. ASSUME NEW t \in Tokens, NEW m \in Minutes PROVE (Covers(t, m))'
    <3>1. Counted(t, m)' \subseteq Counted(t, m)
      BY <2>1 DEF Counted
    <3>2. clock < m + CounterTtl => counter'[t][m] = counter[t][m]
      <4>1. CASE SweepOwner(u) \/ SweepLookup(u)
        BY <4>1 DEF SweepOwner, SweepLookup
      <4>2. ASSUME NEW n \in Minutes, SweepCounter(u, n), clock < m + CounterTtl
            PROVE  counter'[t][m] = counter[t][m]
        <5>1. n # m
          BY <4>2 DEF TypeOK, SweepCounter, CounterTtl, Minutes
        <5> QED BY <4>2, <5>1 DEF TypeOK, SweepCounter
      <4> QED BY <1>2, <4>1, <4>2 DEF Sweep
    <3> QED BY <1>0, <2>1, <3>1, <3>2, StillCovers
  <2> QED BY <1>g, <2>1, <2>2 DEF Prompt
<1>3. ASSUME NEW r \in Requests, Authorize(r) PROVE CountsCover' /\ Prompt'
  <2>1. UNCHANGED clock /\ \A q \in Requests \ {r} : pc'[q] = pc[q] /\ minute'[q] = minute[q]
    <3>1. UNCHANGED clock /\ \A q \in Requests \ {r} : minute'[q] = minute[q]
      BY <1>3 DEF TypeOK, Authorize, Find, Check, Consume, ConsumeUnheard, Touch, TouchUnheard, Deny
    <3> QED BY <1>3, <3>1, RequestStep DEF Alone, Calls
  <2>2. Prompt'
    <3>1. pc'[r] = "consume" => minute'[r] = clock \/ (pc[r] = "consume" /\ minute'[r] = minute[r])
      BY <1>3 DEF TypeOK, Authorize, Find, Check, Consume, ConsumeUnheard, Touch, TouchUnheard, Deny,
                  Goto, End
    <3>2. clock \in Nat
      BY DEF TypeOK, Minutes
    <3> QED BY <2>1, <3>1, <3>2 DEF Prompt, CounterTtl
  <2>3. CASE pc'[r] = "touch" /\ pc[r] = "consume"
    <3> DEFINE t == TokenOf[r]
    <3>0. PICK m \in Minutes : m = minute[r]
      BY DEF TypeOK
    <3>1. UnderLimit(t, m) /\ Count(t, m) /\ minute' = minute /\ t \in Tokens
      BY <1>3, <2>3, <3>0 DEF TypeOK, Belong, Authorize, Find, Check, Consume, ConsumeUnheard, Touch,
                        TouchUnheard, Deny, Goto, End
    <3>2. Counted(t, m)' = Counted(t, m) \union {r} /\ r \notin Counted(t, m)
      BY <2>1, <2>3, <3>0, <3>1 DEF Counted
    <3>3. Cardinality(Counted(t, m)') = Cardinality(Counted(t, m)) + 1
      BY <3>2, CountedFinite, FS_AddElement
    <3>4. Cardinality(Counted(t, m)) <= counter[t][m]
      BY <2>3, <3>0, <3>1 DEF Prompt, CountsCover
    <3>5. counter'[t][m] = counter[t][m] + 1 /\ counter[t][m] < Limit
      BY <3>1 DEF TypeOK, UnderLimit, Count
    <3>6. (Covers(t, m))'
      <4>1. Cardinality(Counted(t, m)) \in Nat
        BY CountedFinite
      <4>2. counter[t][m] \in Nat /\ Limit \in Nat
        BY <1>0, <3>1
      <4>3. Cardinality(Counted(t, m)') <= Limit /\ Cardinality(Counted(t, m)') <= counter'[t][m]
        BY <3>3, <3>4, <3>5, <4>1, <4>2
      <4> QED BY <3>1, <4>3
    <3>7. ASSUME NEW u \in Tokens, NEW n \in Minutes, u # t \/ n # m PROVE (Covers(u, n))'
      <4>1. Counted(u, n)' \subseteq Counted(u, n)
        BY <2>1, <3>0, <3>1, <3>7 DEF Counted
      <4>2. counter'[u][n] = counter[u][n]
        BY <3>1, <3>7 DEF TypeOK, Count
      <4> QED BY <1>0, <2>1, <4>1, <4>2, StillCovers
    <3>8. \A u \in Tokens, n \in Minutes : (Covers(u, n))'
      <4> SUFFICES ASSUME NEW u \in Tokens, NEW n \in Minutes PROVE (Covers(u, n))'
        OBVIOUS
      <4>1. CASE u = t /\ n = m
        BY <3>6, <4>1
      <4> QED BY <3>7, <4>1
    <3> QED BY <1>g, <2>2, <3>8
  <2>4. CASE ~(pc'[r] = "touch" /\ pc[r] = "consume")
    <3>1. pc'[r] \in {"touch", "authorized"} =>
            pc[r] \in {"touch", "authorized"} /\ minute'[r] = minute[r]
      BY <1>3, <2>4 DEF TypeOK, Authorize, Find, Check, Consume, ConsumeUnheard, Touch, TouchUnheard,
                        Deny, Goto, End
    <3>2. ASSUME NEW u \in Tokens, NEW n \in Minutes PROVE (Covers(u, n))'
      <4>1. Counted(u, n)' \subseteq Counted(u, n)
        BY <2>1, <3>1 DEF Counted
      <4>2. counter'[u][n] >= counter[u][n]
        <5>1. counter' = counter \/ \E t \in Tokens, m \in Minutes : Count(t, m)
          BY <1>3 DEF TypeOK, Belong, Authorize, Find, Check, Consume, ConsumeUnheard, Touch,
                      TouchUnheard, Deny
        <5>2. ASSUME NEW t \in Tokens, NEW m \in Minutes, Count(t, m)
              PROVE  counter'[u][n] >= counter[u][n]
          <6>1. counter'[u][n] = IF u = t /\ n = m THEN counter[u][n] + 1 ELSE counter[u][n]
            BY <5>2 DEF TypeOK, Count
          <6> QED BY <1>0, <6>1
        <5> QED BY <1>0, <5>1, <5>2
      <4> QED BY <2>1, <4>1, <4>2, StillCovers
    <3> QED BY <1>g, <2>2, <3>2
  <2> QED BY <2>3, <2>4
<1>4. ASSUME NEW v \in Revocations, Revoke(v) PROVE CountsCover' /\ Prompt'
  <2>1. \A r \in Requests : pc'[r] = pc[r]
    BY <1>4, RevocationStep DEF Alone, Calls
  <2>2. UNCHANGED <<minute, counter, clock>>
    BY <1>4 DEF Revoke, RevokeGet, RevokeWrites, RevokeFails
  <2> QED BY <1>q, <2>1, <2>2
<1>5. CASE Tick
  <2>1. UNCHANGED <<pc, minute, counter>> /\ clock' = clock + 1 /\ clock \in Nat
    BY <1>5 DEF TypeOK, Tick, Minutes
  <2>2. ASSUME NEW t \in Tokens, NEW m \in Minutes PROVE (Covers(t, m))'
    <3>1. Counted(t, m)' \subseteq Counted(t, m)
      BY <2>1 DEF Counted
    <3>2. clock' < m + CounterTtl => clock < m + CounterTtl /\ counter'[t][m] >= counter[t][m]
      BY <1>0, <2>1 DEF Minutes, CounterTtl
    <3> QED BY <3>1, <3>2, StillCovers
  <2>3. Prompt'
    BY <1>5, <2>1 DEF Tick, Prompt, CounterTtl
  <2> QED BY <1>g, <2>2, <2>3
<1>6. CASE UNCHANGED vars
  BY <1>6, <1>q DEF vars
<1> QED BY <1>1, <1>2, <1>3, <1>4, <1>5, <1>6 DEF Next

\* No token is allowed more requests in a minute than its limit, for any limit and any
\* number of concurrent requests, repeated counts and swept counters.
THEOREM LimitHolds == Spec => []MinuteIsBounded
<1>1. TypeOK /\ CountsCover => MinuteIsBounded
  <2> SUFFICES ASSUME TypeOK, CountsCover, NEW t \in Tokens, NEW m \in Minutes
               PROVE  Cardinality({r \in Requests : pc[r] = "authorized" /\ TokenOf[r] = t
                                                      /\ minute[r] = m}) <= Limit
    BY DEF MinuteIsBounded
  <2> DEFINE Allowed == {r \in Requests : pc[r] = "authorized" /\ TokenOf[r] = t /\ minute[r] = m}
  <2>1. Allowed \subseteq Counted(t, m)
    BY DEF Counted
  <2>2. IsFiniteSet(Allowed) /\ Cardinality(Allowed) <= Cardinality(Counted(t, m))
    BY <2>1, CountedFinite, FS_Subset
  <2>3. Cardinality(Allowed) \in Nat /\ Cardinality(Counted(t, m)) \in Nat /\ Limit \in Nat
    BY <2>2, CountedFinite, FS_CardinalityType, TokenAssumption
  <2>4. Cardinality(Counted(t, m)) <= Limit
    BY DEF CountsCover
  <2> QED BY <2>2, <2>3, <2>4
<1>2. Spec => [](TypeOK /\ Belong /\ CountsCover /\ Prompt)
  BY BelongInit, TypeNext, BelongNext, CountInit, CountNext, PTL DEF Spec
<1> QED BY <1>1, <1>2, PTL
=============================================================================
