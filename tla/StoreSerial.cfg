\* One writer for each path, reads and crashes at any step.
SPECIFICATION ClientSpec
CONSTANTS
  p1 = p1  p2 = p2  p3 = p3
  e1 = e1  e2 = e2
  x1 = x1  x2 = x2
  Proc = {p1, p2, p3}
  Path = {x1, x2}
  NoPath = NoPath
  Inode = {i1, i2, i3, i4, i5, i6, i7}
  NoInode = NoInode
  Entry = {e1, e2}
  Writer <- OneWriter
  Docs <- Unordered
  MaxClientCalls = 4
  MaxClientKills = 1
PROPERTY ImplementsAtomicStore
CHECK_DEADLOCK FALSE
