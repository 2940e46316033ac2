SPECIFICATION FairSpec
CONSTANTS
  d1 = d1 d2 = d2 t1 = t1 sda = sda ttyS0 = ttyS0
  Device = {d1, d2, t1}
  Block = {d1, d2}
  Fixed = {t1}
  NameOf <- MCNameOf
  QueueMax = 2
  ChangeMax = 1
INVARIANTS TypeOK LinksMatch AbortExplained VerificationAsReported
PROPERTIES ImplementsDevices Settles
CHECK_DEADLOCK FALSE
