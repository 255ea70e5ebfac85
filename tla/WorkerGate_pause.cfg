SPECIFICATION Spec
INVARIANT PauseStands
