\* What the comments promise of every exit.
CONSTANT MaxDials = 1
SPECIFICATION Spec
INVARIANT
  ExitRestores
CHECK_DEADLOCK FALSE
