\* A snapshot taken while a restore waits for its answer.
CONSTANTS
  Clis = {p1, p2}
  Names = {n1, n2, n3}
  MaxSnaps = 3
  MaxPromotes = 0
SPECIFICATION Spec
CHECK_DEADLOCK FALSE
SYMMETRY Symmetric
PROPERTY ConfirmedOnly
