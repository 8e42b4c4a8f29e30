SPECIFICATION Spec
CONSTANTS
  n1 = n1  n2 = n2  t1 = t1  t2 = t2  u1 = u1
  Nodes = {n1}  Tasks = {t1, t2}  Users = {u1}  None = None
  Drainers = {d1, d2}  RetryLoop = RetryLoop  Submitter = Submitter  Mover = Mover
  UserOf <- OneTenant  Priority <- SecondFirst  Need <- OneNode
  Pinned <- NoNode  Preferred <- FirstToN1  Avoid <- NoNodes  LocalForce = {t1}
  HasCapability <- AnyNode  HasMemory <- AnyNode  TenantLimit <- LimitOne
  MaxActive = 2  MaxRetry = 1  MaxRetryLoop = 10  MaxQueue = 1
  MaxDegrade <- NeverDegraded  Cancellable = {t1, t2}  Movable = {t1}
  Replies = {"ok", "transient", "fenced", "blocked"}  Unreliable = {}  Drainable = {}
INVARIANTS NoPendingTaskLost QuotaRespected
PROPERTIES FinalIsFinal
