SPECIFICATION Spec
CONSTANTS
  fixed = fixed stick = stick late = late
  g9 = g9 g10 = g10 g11 = g11 foo = foo
  None = None DiskWord = DiskWord OtherWord = OtherWord
  Name = {g9, g10, g11, foo}
  CounterMax = 4
  Disk = {fixed, stick, late}
  Removable = {stick}
  Tiny = {late}
  DiskSeq <- MCDiskSeq
  Table <- MCTable
  Files <- MCFiles
  Default <- MCDefault
  NameOrder <- MCNameOrder
  LogLevels = {4, 6}
  Lines <- MCLines
  FormatMax = 2
INVARIANTS RemovableFirst
CHECK_DEADLOCK FALSE
