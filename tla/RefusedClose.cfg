CONSTANTS
  SAMPLES = 3
  LOW_MIN = 2
  MaxBounces = 0
SPECIFICATION Spec
INVARIANTS HeldIsHeld
