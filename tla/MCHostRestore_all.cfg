\* Two commands at a time on two machines, promotes in between.
CONSTANTS
  Clis = {p1, p2}
  Names = {n1, n2, n3}
  MaxSnaps = 3
  MaxPromotes = 1
SPECIFICATION Spec
CHECK_DEADLOCK FALSE
SYMMETRY Symmetric
INVARIANT TypeOK
PROPERTIES NothingLostUnasked ConfirmedUnlessNew RestoresUnlessMoved
