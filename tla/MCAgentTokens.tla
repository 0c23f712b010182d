----------------------------- MODULE MCAgentTokens -----------------------------
(***************************************************************************)
(* A small instance of AgentTokens: a token for one of the two scopes,     *)
(* two requests under it where one is allowed a minute, one it is not      *)
(* meant for, and two revocations.                                         *)
(***************************************************************************)
EXTENDS AgentTokens

MCTokens      == {"t"}
MCScopes      == [t \in MCTokens |-> {"read-reference"}]
MCExpiresAt   == [t \in MCTokens |-> 2]
MCRequests    == {"r1", "r2", "other"}
MCTokenOf     == [r \in MCRequests |-> "t"]
MCRouteOf     == [r \in MCRequests |-> IF r = "other" THEN "import" ELSE "reference"]
MCRevocations == {"v", "w"}
MCRevokedOf   == [v \in MCRevocations |-> "t"]
=============================================================================
