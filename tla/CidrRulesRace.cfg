CONSTANTS
  r1 = r1  r2 = r2
  wide = wide  narrow = narrow  apart = apart
  http = http  dns = dns  Bad = Bad  None = None
  Ids = {r1, r2}
  Nets = {wide, narrow, apart}
  Ports = {http, dns, Bad}
  Inside <- MCInside
  Procs = {"p1", "p2"}
  Adds <- RaceAdds
  Dels <- RaceDels
  Syncs <- OneSync
  Faulty = {"put", "untrie", "insert", "delete", "publish"}
  MaxOpFaults = 1
  MaxFaults = 1
  MaxID = 2
SPECIFICATION FairSpec
INVARIANTS RefsExact TrieMatches
PROPERTY Returns
