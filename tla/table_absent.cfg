CONSTANTS
  k1 = k1
  k2 = k2
  k3 = k3
  k4 = k4
  Keys = {k1, k2, k3, k4}
  Hash <- MCHash
  MinCapacity = 2
  ShrinkFloor = 1
  TableValues = {v1, v2}
  InitCapacities = {1, 24}
SPECIFICATION Spec
PROPERTIES FoundIsStored
