\* Any process writes; no process is killed.
SPECIFICATION ClientSpec
CONSTANTS
  p1 = p1  p2 = p2  p3 = p3
  e1 = e1  e2 = e2
  x1 = x1  x2 = x2
  Proc = {p1, p2, p3}
  Path = {x1}
  NoPath = NoPath
  Inode = {i1, i2, i3, i4, i5}
  NoInode = NoInode
  Entry = {e1, e2}
  Writer <- AnyWriter
  Docs <- Nested
  MaxClientCalls = 4
  MaxClientKills = 0
INVARIANT AlwaysWhole
CHECK_DEADLOCK FALSE
