CONSTANTS
  Texts <- MCTexts
  Drafts <- MCDrafts
  Setters = {s1, s2}
  MaxEdits = 1
  Users = {"dev"}
  Uids = {0, 1000}
  Sudoers = {}
  Flags <- MCFlags
  Requests <- MCRequests
  Headers <- MCHeaders
  MaxChanges = 1
  MaxStops = 1
SPECIFICATION ServerSpec
INVARIANT UnrelatedKeysPreserved
