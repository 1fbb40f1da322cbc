\* Texts of up to seven characters in pieces of up to three.
CONSTANTS
  Characters = {"a", "b", "c"}
  Markers <- MCMarkers
  MaxChunk = 3
  MaxText = 7
SPECIFICATION Spec
INVARIANTS
  CutAtFirstMarker
  NothingToTakeBack
  HeldForAReason
\* The text comes to an end.
CHECK_DEADLOCK FALSE
