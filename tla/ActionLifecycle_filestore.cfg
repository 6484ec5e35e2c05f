\* One pod on the file store, two requests for one action: saves fail, a failed
\* or interrupted save may cut the file, the pod dies and loads it.
SPECIFICATION FairSpec
CONSTANTS
  Action = {a1}
  Request = {r1, r2}
  Pod = {p1}
  User = {u1}
  NoRequest = NoRequest
  NoOne = NoOne
  Verdicts = {"allowed"}
  AllowSelfApproval = TRUE
  FileStore = TRUE
  StoreFaults = TRUE
  MaxFaults = 3
  MaxRuns = 5
INVARIANTS RunsOncePerLoss
PROPERTIES TerminalStays RequestAnswered
