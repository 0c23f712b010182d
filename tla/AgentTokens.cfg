SPECIFICATION Spec
CONSTANTS
  Tokens      <- MCTokens
  NoToken     = NoToken
  NoRow       = NoRow
  ScopesOf    <- MCScopes
  ExpiresAt   <- MCExpiresAt
  Retention   = 1
  Requests    <- MCRequests
  TokenOf     <- MCTokenOf
  RouteOf     <- MCRouteOf
  Revocations <- MCRevocations
  RevokedOf   <- MCRevokedOf
  Limit       = 1
  MaxClock    = 3
  MaxFaults   = 1
CHECK_DEADLOCK FALSE
INVARIANTS
  TypeOK
  RefusesUnentitled
  MinuteIsBounded
  CopiesAgree
  UseIsShown
