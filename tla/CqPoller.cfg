CONSTANTS
  WrNumber = 3
  MaxSends = 6
  MaxMsgs = 4
SPECIFICATION FairSpec
INVARIANTS TypeOK NoLostWakeup OneWakeup
PROPERTIES OverrunNeedsSends SendQueueDrains CompletionsHandled
CHECK_DEADLOCK FALSE
