SPECIFICATION FairSpec
CONSTANT MaxSessions = 2
INVARIANTS TypeOK OneMicPath NothingLeaks GoneSessionsAreDetached
PROPERTIES NobodyIsStranded
CHECK_DEADLOCK FALSE
