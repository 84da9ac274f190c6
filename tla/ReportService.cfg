\* Exports, requests, edits, a fault and a crash in every order.
SPECIFICATION Spec
CONSTANTS
  prod = prod
  custom = custom
  Names = {prod}
  Chosen = {custom}
  NoPath = NoPath
  Inodes = {1, 2, 3, 4, 5, 6}
  Choices <- Various
  MaxEdits = 3
  MaxWrites = 3
  MaxFaults = 1
  MaxCrashes = 1
INVARIANTS
  NoHalfReport
  ReadYourWrites
  NeverVanishes
\* The bounded actors run out of steps.
CHECK_DEADLOCK FALSE
