SPECIFICATION Spec
CONSTANTS
  TTL = 2   MaxClock = 3
PROPERTIES
  LogoutEndsTokens
CHECK_DEADLOCK FALSE
