SPECIFICATION FairSpec
CONSTANTS
  DeviceLists <- MCDeviceLists
  MaxReadErrors = 1
INVARIANTS TypeOK OneTurn NoMutualWait ChannelsHold KeyStopsAutoboot
PROPERTIES KeyGetsPrompt AutobootDecides CommandAnswered OutcomeReached
CHECK_DEADLOCK FALSE
