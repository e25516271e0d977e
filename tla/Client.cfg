\* Two keys, two logins, and more commands than the channel holds.
SPECIFICATION FairSpec

CONSTANTS
  ApiKeys = {"k1", "k2"}
  Command <- MCCommand
  Capacity = 2
  MaxAttempts = 2
  MaxLogins = 2
  MaxCalls = 3

\* A client may be dropped and its engine ended: then nothing is left to do.
CHECK_DEADLOCK FALSE

INVARIANTS
  TypeOK
  CredentialsTogether
  TokensInOrder

PROPERTIES
  DroppedClientEnds
