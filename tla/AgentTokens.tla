------------------------------ MODULE AgentTokens ------------------------------
(***************************************************************************)
(* The tokens a learner gives to authoring agents (agenttokens.Service,    *)
(* dynamoagenttokens.Repository) and the authorizer of the machine API     *)
(* (machineauth.Handler).                                                  *)
(*                                                                         *)
(* A token has two rows: one under its owner, for the list and to revoke   *)
(* it, and one under the hash of its secret, for the authorizer.  Authorize*)
(* finds the second, checks it, counts the request against its minute, and *)
(* stamps the first: four steps, while the owner revokes the token and the *)
(* table's time-to-live removes rows, each by itself.  A hash is as good as*)
(* the token it belongs to, so the rows under hashes are indexed by tokens;*)
(* an owner's requests reach that owner's rows only, so owners are left    *)
(* out.  Time is counted in minutes.                                       *)
(***************************************************************************)
EXTENDS Integers, FiniteSets

CONSTANTS
  Tokens,       \* token ids, drawn at random and never drawn again
  NoToken,      \* the empty hash of a row without attributes
  NoRow,
  ScopesOf,     \* what each token may do
  ExpiresAt,    \* the minute from which it is expired
  Retention,    \* expiredTokenRetention, in minutes
  Requests,     \* calls of the machine API
  TokenOf,      \* the token whose secret each presents
  RouteOf,      \* the route each calls
  Revocations,  \* calls of Revoke
  RevokedOf,    \* the token each is about
  Limit,        \* RequestsPerMinute
  MaxClock,     \* bound: the last minute of a behaviour
  MaxFaults     \* bound: lost answers in a behaviour

ASSUME TokenAssumption ==
  /\ NoToken \notin Tokens
  /\ ExpiresAt \in [Tokens -> Nat]
  /\ Retention \in Nat
  /\ TokenOf \in [Requests -> Tokens]
  /\ RevokedOf \in [Revocations -> Tokens]
  /\ IsFiniteSet(Requests)
  /\ Requests \cap Revocations = {}
  /\ Limit \in Nat \ {0}
  /\ MaxClock \in Nat
  /\ MaxFaults \in Nat

\* The authorizer's routes and the scope each requires; no other route is allowed.
RequiredScope == [reference |-> "read-reference", import |-> "import-lessons"]

\* What the steps read of a row: the token it describes, if it has attributes at
\* all, and its stamps.  A row that an update created has none but the stamp.
Row == [token : Tokens \union {NoToken}, revoked : BOOLEAN, used : BOOLEAN]

ASSUME RowAssumption == NoRow \notin Row

VARIABLES
  owner,     \* owner[t]: the row of t under its owner
  lookup,    \* lookup[h]: the row under the hash h
  counter,   \* counter[t][m]: the requests counted against minute m, 0 for no row
  secret,    \* whether t was created, and whether its secret reached the owner
  pc,        \* where each request and each revocation is
  inHand,    \* the row it has read
  minute,    \* the minute in which a request was checked
  late,      \* history: requests sent after their token was revoked
  clock,
  faults

vars == <<owner, lookup, counter, secret, pc, inHand, minute, late, clock, faults>>

Minutes == 0 .. MaxClock
Running == {"find", "check", "consume", "touch"}
AtRequest    == Running \union {"authorized", "denied"}
AtRevocation == {"get", "write", "revoked", "notFound", "storage"}

TypeOK ==
  /\ owner \in [Tokens -> Row \union {NoRow}]
  /\ lookup \in [Tokens \union {NoToken} -> Row \union {NoRow}]
  /\ counter \in [Tokens -> [Minutes -> 0 .. Limit]]
  /\ secret \in [Tokens -> {"none", "handed", "lost"}]
  /\ pc \in [Requests \union Revocations -> AtRequest \union AtRevocation]
  /\ \A r \in Requests : pc[r] \in AtRequest
  /\ \A v \in Revocations : pc[v] \in AtRevocation
  /\ inHand \in [Requests \union Revocations -> Row \union {NoRow}]
  /\ minute \in [Requests -> Minutes]
  /\ late \subseteq Requests
  /\ clock \in Minutes
  /\ faults \in 0 .. MaxFaults

Init ==
  /\ owner = [t \in Tokens |-> NoRow]
  /\ lookup = [h \in Tokens \union {NoToken} |-> NoRow]
  /\ counter = [t \in Tokens |-> [m \in Minutes |-> 0]]
  /\ secret = [t \in Tokens |-> "none"]
  /\ pc = [x \in Requests \union Revocations |-> IF x \in Requests THEN "find" ELSE "get"]
  /\ inHand = [x \in Requests \union Revocations |-> NoRow]
  /\ minute = [r \in Requests |-> 0]
  /\ late = {}
  /\ clock = 0
  /\ faults = 0

-----------------------------------------------------------------------------
Goto(x, where) == pc' = [pc EXCEPT ![x] = where]
Keep(x, row)   == inHand' = [inHand EXCEPT ![x] = row]
End(x, answer) == Goto(x, answer) /\ Keep(x, NoRow)
Fault          == faults < MaxFaults /\ faults' = faults + 1
Whole(row)     == row # NoRow /\ row.token # NoToken

-----------------------------------------------------------------------------
(***************************************************************************)
(* Create: both rows in one transaction.  The secret is in the answer only:*)
(* when that is lost, the token is listed but nobody can present it.       *)
(***************************************************************************)
NewRow(t) == [token |-> t, revoked |-> FALSE, used |-> FALSE]

Create(t) ==
  /\ secret[t] = "none"
  /\ clock < ExpiresAt[t]
  /\ owner' = [owner EXCEPT ![t] = NewRow(t)]
  /\ lookup' = [lookup EXCEPT ![t] = NewRow(t)]
  /\ \/ secret' = [secret EXCEPT ![t] = "handed"] /\ UNCHANGED faults
     \/ secret' = [secret EXCEPT ![t] = "lost"] /\ Fault
  /\ UNCHANGED <<counter, pc, inHand, minute, late, clock>>

-----------------------------------------------------------------------------
(***************************************************************************)
(* Authorize, behind the handler.                                          *)
(***************************************************************************)
Find(r) ==
  LET row == lookup[TokenOf[r]] IN
  /\ pc[r] = "find"
  /\ secret[TokenOf[r]] = "handed"
  /\ RouteOf[r] \in DOMAIN RequiredScope
  /\ IF Whole(row)
     THEN Goto(r, "check") /\ Keep(r, row)
     ELSE End(r, "denied")
  /\ UNCHANGED <<owner, lookup, counter, secret, minute, late, clock, faults>>

Active(row)      == ~row.revoked /\ clock < ExpiresAt[row.token]
HasScope(row, r) == RequiredScope[RouteOf[r]] \in ScopesOf[row.token]

Check(r) ==
  /\ pc[r] = "check"
  /\ IF Active(inHand[r]) /\ HasScope(inHand[r], r)
     THEN Goto(r, "consume") /\ minute' = [minute EXCEPT ![r] = clock] /\ UNCHANGED inHand
     ELSE End(r, "denied") /\ UNCHANGED minute
  /\ UNCHANGED <<owner, lookup, counter, secret, late, clock, faults>>

\* Mutant of UnderLimit: one request too many.
UpToLimit(t, m)  == counter[t][m] <= Limit

\* The update's condition, and its addition.
UnderLimit(t, m) == counter[t][m] < Limit
Count(t, m)      == counter' = [counter EXCEPT ![t][m] = @ + 1]

Consume(r) ==
  LET t == inHand[r].token IN
  /\ pc[r] = "consume"
  /\ IF UnderLimit(t, minute[r])
     THEN Count(t, minute[r]) /\ Goto(r, "touch") /\ UNCHANGED inHand
     ELSE End(r, "denied") /\ UNCHANGED counter
  /\ UNCHANGED <<owner, lookup, secret, minute, late, clock, faults>>

\* The request is counted, and the client sends the update again or gives up.
ConsumeUnheard(r) ==
  LET t == inHand[r].token IN
  /\ pc[r] = "consume"
  /\ UnderLimit(t, minute[r])
  /\ Count(t, minute[r])
  /\ Fault
  /\ \/ End(r, "denied")
     \/ UNCHANGED <<pc, inHand>>
  /\ UNCHANGED <<owner, lookup, secret, minute, late, clock>>

\* The owner's row is stamped, if it is there.
Touch(r) ==
  LET t == inHand[r].token IN
  /\ pc[r] = "touch"
  /\ IF owner[t] # NoRow
     THEN owner' = [owner EXCEPT ![t].used = TRUE] /\ End(r, "authorized")
     ELSE End(r, "denied") /\ UNCHANGED owner
  /\ UNCHANGED <<lookup, counter, secret, minute, late, clock, faults>>

TouchUnheard(r) ==
  LET t == inHand[r].token IN
  /\ pc[r] = "touch"
  /\ owner[t] # NoRow
  /\ owner' = [owner EXCEPT ![t].used = TRUE]
  /\ Fault
  /\ \/ End(r, "denied")
     \/ UNCHANGED <<pc, inHand>>
  /\ UNCHANGED <<lookup, counter, secret, minute, late, clock>>

\* A route without a scope, a call that fails without effect, or a Lambda that is
\* stopped: the request is not allowed.
Deny(r) ==
  /\ pc[r] \in Running
  /\ End(r, "denied")
  /\ UNCHANGED <<owner, lookup, counter, secret, minute, late, clock, faults>>

-----------------------------------------------------------------------------
(***************************************************************************)
(* Revoke: the owner's row is read for the hash, and both rows are stamped *)
(* in one transaction of two updates.  Neither has a condition, and an     *)
(* update of a row that is not there creates it.                           *)
(***************************************************************************)
Stamped(row) == IF row = NoRow THEN [token |-> NoToken, revoked |-> TRUE, used |-> FALSE]
                               ELSE [row EXCEPT !.revoked = TRUE]

RevokeGet(v) ==
  LET row == owner[RevokedOf[v]] IN
  /\ pc[v] = "get"
  /\ secret[RevokedOf[v]] # "none"
  /\ IF row = NoRow
     THEN End(v, "notFound")
     ELSE Goto(v, "write") /\ Keep(v, row)
  /\ UNCHANGED <<owner, lookup, counter, secret, minute, late, clock, faults>>

\* Mutant of Stamp: the authorizer's row is forgotten.
StampOwnerOnly(v) ==
  /\ owner' = [owner EXCEPT ![RevokedOf[v]] = Stamped(@)]
  /\ UNCHANGED lookup

\* Mutant of Stamp: the row that was read is put back whole.
PutBack(v) ==
  /\ owner' = [owner EXCEPT ![RevokedOf[v]] = Stamped(inHand[v])]
  /\ lookup' = [lookup EXCEPT ![inHand[v].token] = Stamped(@)]

Stamp(v) ==
  /\ owner' = [owner EXCEPT ![RevokedOf[v]] = Stamped(@)]
  /\ lookup' = [lookup EXCEPT ![inHand[v].token] = Stamped(@)]

RevokeWrites(v) ==
  /\ pc[v] = "write"
  /\ Stamp(v)
  /\ late' = late \union {r \in Requests : pc[r] = "find" /\ TokenOf[r] = RevokedOf[v]}
  /\ \/ End(v, "revoked") /\ UNCHANGED faults
     \/ End(v, "storage") /\ Fault
  /\ UNCHANGED <<counter, secret, minute, clock>>

RevokeFails(v) ==
  /\ pc[v] \in {"get", "write"}
  /\ End(v, "storage")
  /\ UNCHANGED <<owner, lookup, counter, secret, minute, late, clock, faults>>

-----------------------------------------------------------------------------
(***************************************************************************)
(* The table's time-to-live removes each row some time after its           *)
(* expiresAtUnix, which both rows of a token and the counters carry.       *)
(***************************************************************************)
\* Mutant of KeptUntil: no retention.
AtExpiry(t) == ExpiresAt[t]

KeptUntil(t) == ExpiresAt[t] + Retention

\* Mutant of CounterTtl: a counter goes with its window.
OneMinute == 1

CounterTtl == 2   \* minutes from the start of a window

SweepOwner(t) ==
  /\ Whole(owner[t])
  /\ clock >= KeptUntil(t)
  /\ owner' = [owner EXCEPT ![t] = NoRow]
  /\ UNCHANGED <<lookup, counter, secret, pc, inHand, minute, late, clock, faults>>

SweepLookup(t) ==
  /\ Whole(lookup[t])
  /\ clock >= KeptUntil(t)
  /\ lookup' = [lookup EXCEPT ![t] = NoRow]
  /\ UNCHANGED <<owner, counter, secret, pc, inHand, minute, late, clock, faults>>

SweepCounter(t, m) ==
  /\ counter[t][m] > 0
  /\ clock >= m + CounterTtl
  /\ counter' = [counter EXCEPT ![t][m] = 0]
  /\ UNCHANGED <<owner, lookup, secret, pc, inHand, minute, late, clock, faults>>

\* An authorizer is stopped before it has been counting for a minute.
Tick ==
  /\ clock < MaxClock
  /\ \A r \in Requests : pc[r] = "consume" => minute[r] = clock
  /\ clock' = clock + 1
  /\ UNCHANGED <<owner, lookup, counter, secret, pc, inHand, minute, late, faults>>

-----------------------------------------------------------------------------
Authorize(r) == \/ Find(r)
                \/ Check(r)
                \/ Consume(r)
                \/ ConsumeUnheard(r)
                \/ Touch(r)
                \/ TouchUnheard(r)
                \/ Deny(r)

Revoke(v) == \/ RevokeGet(v)
             \/ RevokeWrites(v)
             \/ RevokeFails(v)

Sweep(t) == \/ SweepOwner(t)
            \/ SweepLookup(t)
            \/ \E m \in Minutes : SweepCounter(t, m)

Next == \/ \E t \in Tokens : Create(t) \/ Sweep(t)
        \/ \E r \in Requests : Authorize(r)
        \/ \E v \in Revocations : Revoke(v)
        \/ Tick

Spec == Init /\ [][Next]_vars

-----------------------------------------------------------------------------
(***************************************************************************)
(* Properties                                                              *)
(***************************************************************************)

\* A request is allowed only for a token with the route's scope that was neither
\* expired when it was checked nor revoked before the request was sent, however
\* the revocation and the request's four calls fall (Service.Authorize, Revoke).
RefusesUnentitled ==
  \A r \in Requests : pc[r] = "authorized" =>
    /\ r \notin late
    /\ minute[r] < ExpiresAt[TokenOf[r]]
    /\ RequiredScope[RouteOf[r]] \in ScopesOf[TokenOf[r]]

\* No token is allowed more than its limit of requests in a minute, though they are
\* counted after they are checked, counts are lost in answers or sent twice, and
\* old counters are removed (Repository.Consume).
MinuteIsBounded ==
  \A t \in Tokens, m \in Minutes :
    Cardinality({r \in Requests : pc[r] = "authorized" /\ TokenOf[r] = t /\ minute[r] = m})
      <= Limit

\* Until its retention ends a token has both of its rows, whole, and they agree on
\* whether it is revoked: what the authorizer accepts is what the owner's list
\* shows as active (Repository.Create, Revoke, toItem).
CopiesAgree ==
  \A t \in Tokens : secret[t] # "none" /\ clock < ExpiresAt[t] + Retention =>
    /\ Whole(owner[t])
    /\ Whole(lookup[t])
    /\ owner[t].revoked = lookup[t].revoked

\* While the owner's list shows a token, it shows the use of every request that was
\* allowed, whatever revocations ran beside it (Repository.Touch, Revoke).
UseIsShown ==
  \A r \in Requests : pc[r] = "authorized" /\ Whole(owner[TokenOf[r]]) =>
    owner[TokenOf[r]].used

\* Every row of a token carries expiresAtUnix, so that the time-to-live sweep removes
\* it.  False: Revoke puts back a row that was just swept, without attributes.
RowsExpire ==
  /\ \A t \in Tokens : owner[t] # NoRow => Whole(owner[t])
  /\ \A h \in Tokens \union {NoToken} : lookup[h] # NoRow => Whole(lookup[h])
=============================================================================
