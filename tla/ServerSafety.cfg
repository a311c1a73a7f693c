\* A text for each gate, one more that the operator saves, one set-tier, one
\* change of the account, one crash or restart.
CONSTANTS
  Texts <- MCTexts
  Drafts <- MCDrafts
  Setters = {s1}
  MaxEdits = 1
  Users = {"dev"}
  Uids = {0, 1000}
  Sudoers = {}
  Flags <- MCFlags
  Requests <- MCRequests
  Headers <- MCHeaders
  MaxChanges = 1
  MaxStops = 1
SPECIFICATION ServerLiveSpec
INVARIANTS
  TypeOK
  RisksAcknowledged
  DeniesInForce
  ReinstatementIsWarned
  TokenOpensTheDoor
  JournalIsTheAuditTrail
  NoSelfInflictedFailure
  DroppedToTheAccount
PROPERTIES
  FileIsRegister
  Recovers
