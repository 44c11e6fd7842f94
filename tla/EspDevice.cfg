CONSTANTS
  MAX_LINE_LEN = 4
  KeyArgs = 2
  Tags = {c1, c2}
  Nobody = none
  DEBOUNCE_TICKS = 2
  LONG_PRESS = 2
  Peers = {p1, p2, p3}
  MAX_CONNECTIONS = 2
  CMD_QUEUE_SIZE = 2
  MaxWrites = 4
  MAX_LNURL_LEN = 3
  MaxBoots = 3
  MaxProvisions = 2
  Chunks = 2
  MaxUpdates = 3
  MaxResets = 4
SPECIFICATION MCSpec
INVARIANTS
  DeviceTypeOK
  
  
  
  
  ProvisionedIsServed
  UpdatesAreReversible
CHECK_DEADLOCK FALSE
