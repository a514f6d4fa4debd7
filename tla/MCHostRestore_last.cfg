\* A snapshot taken between the listing and the restore of the last one.
CONSTANTS
  Clis = {p1, p2}
  Names = {n1, n2}
  MaxSnaps = 2
  MaxPromotes = 0
SPECIFICATION Spec
CHECK_DEADLOCK FALSE
SYMMETRY Symmetric
PROPERTY RestoresWhatItSaid
