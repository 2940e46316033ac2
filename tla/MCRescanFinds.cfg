SPECIFICATION Spec
CONSTANTS
  Disk = {d1}
  Mountable = {d1}
  WithConf = {d1}
INVARIANTS RescanFindsAll
CHECK_DEADLOCK FALSE
