CONSTANTS
  c1 = c1
  c2 = c2
  Conn = {c1, c2}
  Sends <- TwoSends
  MaxFrames <- TwoBounds
SPECIFICATION Spec
INVARIANTS
  PipelineReplies
  ExitLosesNothing
PROPERTY ShutdownCompletes
CHECK_DEADLOCK FALSE
