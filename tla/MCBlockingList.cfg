CONSTANTS
  p1 = p1
  p2 = p2
  v1 = v1
  v2 = v2
  v3 = v3
  None = None
  Pusher = {p1, p2}
  Popper = {c1}
  Blocker = {b1, b2}
  Setter = {s1}
  Pushes <- TwoPushes
  Impatient = {b1}
SPECIFICATION Spec
INVARIANTS
  DeliveredOnce
  LostOnlyByTimeout
PROPERTY ServedInOrder
CHECK_DEADLOCK FALSE
