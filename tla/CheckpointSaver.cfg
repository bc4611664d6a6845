SPECIFICATION Spec
CONSTANTS
  c1 = c1
  c2 = c2
  t1 = t1
  r1 = r1
  Channels = {c1, c2}
  Tasks = {t1}
  Engine = Engine
  Readers = {r1}
  MaxId = 3
SYMMETRY MCSymmetry
INVARIANTS
  TypeOK
  ReadsBack
  ReadsAreSnapshots
  LatestIsNewest
  NothingDoneTwice
