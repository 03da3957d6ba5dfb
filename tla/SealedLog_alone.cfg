\* Two writers killed anywhere, racing on one body and never on the other.
SPECIFICATION Spec
CONSTANTS
  Name = {n1, n2}
  Obs = {o1, o2}
  Writer = {w1, w2}
  Inode = {i1, i2, i3, i4}
  Alone = {n1}
  Torn = Torn
  None = None
INVARIANTS NoHalfFileAlone AddedIsThere LoserFindsItThere
PROPERTIES TableSpec
