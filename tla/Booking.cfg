\* Two requests over one unit: capacity two, or any mode with capacity one.
SPECIFICATION Spec
CONSTANTS
  NumLeases = 2
  Units = {u1}
  BedNumbers = {b1}
  Modes = {"WHOLE_UNIT", "BED", "CAPACITY"}
  MaxCapacity = 2
  NumDays = 2
  Requests = {q1, q2}
  NoBed = NoBed
  Nowhere = Nowhere
INVARIANTS
  TypeOK
  WithinPeak
  RentedHasPlace
  NoDoubleBooking
PROPERTIES
  EndedStaysPut
CONSTRAINT InScope
SYMMETRY RequestSymmetry
