SPECIFICATION FairSpec
CONSTANTS
  Fetches = {f1, f2}
  Nobody = Nobody
  Indexes = {"a", "b"}
  Keys = {"k1", "k2"}
  Patches <- MCPatches
  PatchKey <- MCPatchKey
  RecordKey <- MCRecordKey
  PageSize = 2
  MaxFaults = 2
INVARIANTS TypeOK HashMatchesVersion MacsMatchCursor ServerPagesVerify EventsMatchCursor
PROPERTIES CatchesUp
