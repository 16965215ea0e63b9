SPECIFICATION SmokeSpec
CONSTANT Requests = {r1, r2}
INVARIANT HandoffComplete
PROPERTY SmokeEnds
CHECK_DEADLOCK FALSE
