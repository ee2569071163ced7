SPECIFICATION FairSpec
CONSTANTS
  Peers = {p1, p2, p3}
  Fds = {3, 4, 5}
  kMaxConcurrentClients = 2
  Other = Other
CHECK_DEADLOCK FALSE
INVARIANTS
  SocketsAccounted
PROPERTIES
  ServerWindsDown
