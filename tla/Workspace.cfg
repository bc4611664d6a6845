SPECIFICATION FairSpec
CONSTANTS
  u1 = u1
  u2 = u2
  s1 = s1
  s2 = s2
  User = {u1, u2}
  SessionId = {s1, s2}
  Content = {c1}
  Fact = {f1}
  RunId = {r1}
  Worker = {w1, w2}
  Calls <- Everything
  Nobody = nobody
  NoCall = nocall
INVARIANTS
  TypeOK
  NothingOrphaned
  DocumentsWhole
  DuplicateCheckCurrent
  RunsReadOneCorpus
PROPERTIES
  RequestsAreAtomic
  RequestsEnd
