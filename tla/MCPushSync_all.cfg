CONSTANTS
    Tasks = {t1, t2, t3}
    PushBound = 3
SPECIFICATION Spec
INVARIANTS DatabaseAdvances AnnouncedInOrder PushIsSynced
PROPERTIES EveryTaskEnds
CHECK_DEADLOCK FALSE
