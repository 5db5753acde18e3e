SPECIFICATION Spec
CONSTANTS
  None = None
  Malformed = Malformed
  Scans = {"integrity", "deprecation", "advisories"}
  Sizes <- MCSizes
  Bases = {r1, r2}
  Pinned = {r1}
  Names = {a, b}
  Versions = {v1, v2}
  Hashes = {h1, h2}
  Limits = {0, 2}
  Batches = {1, 2}
SYMMETRY DataSymmetry
INVARIANTS Accounted FailClosed NoFalseAlarm
PROPERTIES QuietAfterReturn
