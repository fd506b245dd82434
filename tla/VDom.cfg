SPECIFICATION Spec
CONSTANTS
    Lifted <- LiftedStatic
    Programs <- MCPrograms
INVARIANTS
    PageAgrees
    OneFrame
PROPERTIES
    KeepsNodes
    DrawsLatest
CHECK_DEADLOCK FALSE
