\* One pod on the Redis store: reads and writes may fail, the pod may die.
SPECIFICATION Spec
CONSTANTS
  Action = {a1, a2}
  Request = {r1, r2}
  Pod = {p1}
  User = {u1}
  NoRequest = NoRequest
  NoOne = NoOne
  Verdicts = {"allowed"}
  AllowSelfApproval = TRUE
  FileStore = FALSE
  StoreFaults = TRUE
  MaxFaults = 1
  MaxRuns = 5
SYMMETRY Symmetry
INVARIANTS TypeOK RollbackOfFailure
PROPERTIES RunsWhileApproved ImplementsApprovedExecution
