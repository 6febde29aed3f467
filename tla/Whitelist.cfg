CONSTANTS
  i1 = i1  i2 = i2
  k1 = k1  k2 = k2  k3 = k3  bad = bad
  None = None
  Ids = {i1, i2}
  Keys = {k1, k2, k3, bad}
  Combos = {0, 1}
  Combo <- MCCombo
  AddBatches <- Adds
  DelBatches <- Dels
  SyncBatches <- Syncs
  Packets <- MCPackets
  Faulty = {"insert", "delete", "publish", "clear"}
  MaxOpFaults = 2
  MaxFaults = 2
  WatchedFaults = 1
SPECIFICATION GSpec
INVARIANTS EntriesAdmitted NothingElseAdmitted OldGoesFirst MemoryExact KeptAdmitted AdmittedForCause
