CONSTANTS
  Loops = {"thumbnails"}
  ProtectLoops = {"backfill"}
  Requests = {"r1"}
  MaxBackoff = 3
  Handshake = 2
  Keepalive = 3
  MaxConnections = 4
SPECIFICATION Spec
INVARIANTS TypeOK BackInTime
PROPERTY ExitsOnSignal
CHECK_DEADLOCK FALSE
