SPECIFICATION Spec
CONSTANT MaxClkFaults = 2
INVARIANTS TypeOK UnboundHoldsNothing BoundHoldsAll PllCounted
