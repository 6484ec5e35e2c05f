\* Two pods on the shared store; either may die.
SPECIFICATION Spec
CONSTANTS
  Action = {a1}
  Request = {r1, r2}
  Pod = {p1, p2}
  User = {u1, u2}
  NoRequest = NoRequest
  NoOne = NoOne
  Verdicts = {"allowed", "needs_approval", "forbidden"}
  AllowSelfApproval = FALSE
  FileStore = FALSE
  StoreFaults = FALSE
  MaxFaults = 1
  MaxRuns = 2
SYMMETRY Symmetry
INVARIANTS SecondPersonApproved
