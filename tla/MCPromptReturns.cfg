SPECIFICATION FairSpec
CONSTANTS
  DeviceLists <- MCDeviceLists
  MaxReadErrors = 1
PROPERTIES PromptReturns
CHECK_DEADLOCK FALSE
