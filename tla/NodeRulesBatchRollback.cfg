CONSTANTS
  i1 = i1  i2 = i2
  k1 = k1  k2 = k2  k3 = k3  bad = bad
  c1 = c1  c2 = c2
  Plain = Plain  Anomaly = Anomaly  None = None
  Ids = {i1, i2}
  Keys = {k1, k2, k3, bad}
  Combos = {c1, c2}
  Combo <- MCCombo
  AddBatches <- AddMany
  DelBatches <- DelOne
  SyncBatches <- NoBatch
  Faulty = {"publish"}
  MaxOpFaults = 1
  MaxFaults = 1
SPECIFICATION Spec
INVARIANT Enforced
