SPECIFICATION Spec
INVARIANT GracefulStopCancels
