SPECIFICATION Spec
CONSTANTS
  Requests = {1, 2}
  Keys = {hard, soft}
  Hard = {hard}
  MaxSessions = 1
  QueueLimit = 1
  MaxFaults = 1
  Me = me
  Rival = rival
  None = None
CHECK_DEADLOCK FALSE
PROPERTY ReplacementKeepsOwnership
