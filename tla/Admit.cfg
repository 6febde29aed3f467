CONSTANTS
  a4 = a4  b4 = b4  a6 = a6  mapped = mapped  junk = junk
  wide = wide  narrow = narrow  hostBits = hostBits  v6net = v6net  all4 = all4
  r1 = r1  r2 = r2
  None = None  Bad = Bad  Any4 = Any4  Any6 = Any6
  Hosts4 = {a4, b4}
  Hosts6 = {a6}
  Nets4 = {wide, narrow, all4}
  Nets6 = {v6net}
  Default = {all4}
  Covers <- MCCovers
  IpOf <- MCIpOf
  CidrOf <- MCCidrOf
  MaxU16 = 3
  MaxU32 = 3
  Ids = {r1, r2}
  Handlers = {"h1"}
  Requests <- AllRequests
  Batches <- MCBatches
  Patches <- MCPatches
  Packets <- MCPackets
SPECIFICATION Spec
SYMMETRY Alike
INVARIANTS WellFormed Agreed Acted NothingElse
