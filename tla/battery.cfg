\* An empty, a middling and a full battery, power cuts and plugs anywhere.
SPECIFICATION Spec
CONSTANTS
    Supply <- MCSupply
    Nothing = Nothing
INVARIANTS TypeOK OnTheSafeSide
PROPERTIES MovesWithTheMode SmoothingApproaches RestoreAgrees
CHECK_DEADLOCK FALSE
