SPECIFICATION Spec
CONSTANT MaxSessions = 1
INVARIANT SocketCarriesJsonOnly
CHECK_DEADLOCK FALSE
