\* One key, two requests that look it up and a call that revokes it; one column of
\* settings, one reader and two updates; backups restored at any time.
CONSTANTS
  Keys = {k1}
  Lookups = {l1, l2}
  Revokers = {d1}
  TTL = 2
  MaxTime = 3
  Columns = {x1}
  Values = {0, 1}
  Gets = {g1}
  Updates = {u1, u2}
  NoRow = NoRow
SPECIFICATION Spec
SYMMETRY CallSymmetry
INVARIANTS
  StaleOnlyByRace
PROPERTIES
  RevocationBites
  DeleteHolds
