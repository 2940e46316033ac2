SPECIFICATION Spec
CONSTANTS
  Disk = {d1, d2, bare, alien}
  Mountable = {d1, d2, bare}
  WithConf = {d1, d2}
INVARIANTS TypeOK NeverWipes NothingLeftMounted OffersAreMounted FreshProbeFindsAll
PROPERTIES RescanKeepsDevices
CHECK_DEADLOCK FALSE
