\* discover, toolchain probe and status in two processes, programs that
\* fail, are missing or hang, and a crash at any step.
SPECIFICATION FairSpec
CONSTANTS
  Proc = {p1, p2}
  Devices = Devices
  Toolchains = Toolchains
  Path = {Devices, Toolchains}
  NoPath = NoPath
  Inode = {i1, i2, i3, i4, i5, i6}
  NoInode = NoInode
  Entry <- Reports
  MaxCommands = 3
  MaxKills = 1
INVARIANT WholeUnlessOverlapped
INVARIANT StatusFresh
PROPERTY NeverVanishes
PROPERTY OnlyWholeReports
PROPERTY CommandsEnd
CHECK_DEADLOCK FALSE
