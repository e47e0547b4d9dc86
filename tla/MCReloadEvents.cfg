SPECIFICATION FairSpec
CONSTANTS
    Emitters = {t1, t2}
    Receivers = {r1, r2}
    Events = {applied, rejected}
    MaxEmits = 3
    Free = Free
INVARIANTS
    ExactlyOnceInOrder
PROPERTIES
    EmitEnds
    ImplementsStream
CHECK_DEADLOCK FALSE
