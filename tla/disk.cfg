SPECIFICATION Spec
CONSTANTS
  p1 = p1 p2 = p2 k1 = k1 k2 = k2 k3 = k3
  Proc = {p1, p2}
  Block = {k1, k2, k3}
  Uses <- MCUses
  Changed = {k1}
  NBUF = 2
  NUMS = {5, 6}
  None = None
INVARIANTS DescriptorsKept NoLostWakeup
PROPERTIES Answered IsBlockStore
