SPECIFICATION Spec
CONSTANT MaxClkFaults = 1
INVARIANT BoundIsClocked
