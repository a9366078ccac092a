\* Two processes; source hashes given and computed, builds and crashes at any step.
SPECIFICATION Spec
CONSTANTS
  p1 = p1  p2 = p2
  n1 = n1  n2 = n2  bad = bad  far = far
  a1 = a1  a2 = a2  b1 = b1  b2 = b2  s1 = s1  s2 = s2
  Proc = {p1, p2}
  Index = Index
  Path = {Index}
  NoPath = NoPath
  Inode = {i1, i2, i3, i4}
  NoInode = NoInode
  Name = {n1, n2, bad, far}
  BadName = {bad}
  Artifact = {a1, a2}
  SuffixOf <- Suffixes
  Bits = {b1, b2}
  Source = {s1, s2}
  Short = {s1, b1, b2}
  ShortOf <- Begins
  Escaping <- Outside
  None = None  Empty = Empty  Damaged = Damaged
  Entry <- Listed
  Requests <- Commands
  MaxCommands = 3
  MaxKills = 1
  MaxBuilds = 1
INVARIANT KeysUnique
INVARIANT ListedArtifactExists
INVARIANT AckedStaysListed
INVARIANT ListedArtifactIntact
PROPERTY NothingForgotten
SYMMETRY Symmetry
CHECK_DEADLOCK FALSE
