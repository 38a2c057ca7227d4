CONSTANTS
  MaxInt = 31
SPECIFICATION Spec
INVARIANTS
  ExactOrRefused
