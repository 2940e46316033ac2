SPECIFICATION FairSpec
CONSTANTS
  DeviceLists <- MCDeviceLists
  MaxReadErrors = 1
INVARIANTS AllDevicesTried
CHECK_DEADLOCK FALSE
