CONSTANTS
  r1 = r1  r2 = r2
  wide = wide  narrow = narrow  apart = apart
  http = http  dns = dns  Bad = Bad  None = None
  Ids = {r1, r2}
  Nets = {wide, narrow, apart}
  Ports = {http, dns, Bad}
  Inside <- MCInside
  Procs = {"p1"}
  Adds <- SeqAdds
  Dels <- SomeDels
  Syncs <- SomeSyncs
  Faulty = {"put", "untrie", "insert", "delete", "publish", "clear"}
  MaxOpFaults = 2
  MaxFaults = 2
  MaxID = 4
SPECIFICATION Spec
INVARIANTS IdsStay Enforced LongestMatch
