\* Three detections fit the window, a fourth falls on the cooldown.
SPECIFICATION Spec
CONSTANTS
  Period = 1
  Window = 3
  Cooldown = 5
  RingSize = 3
  TailLines = 2
  MaxTime = 9
  Never = Never
  Empty = Empty
PROPERTIES
  RebootsApart
  NothingSkipped
  EscalatesInOrder
