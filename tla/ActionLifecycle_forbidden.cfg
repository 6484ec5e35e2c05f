\* A command the policy forbids.
SPECIFICATION Spec
CONSTANTS
  Action = {a1}
  Request = {r1}
  Pod = {p1}
  User = {u1}
  NoRequest = NoRequest
  NoOne = NoOne
  Verdicts = {"allowed", "needs_approval", "forbidden"}
  AllowSelfApproval = FALSE
  FileStore = FALSE
  StoreFaults = FALSE
  MaxFaults = 0
  MaxRuns = 5
INVARIANTS ForbiddenNeverRuns
