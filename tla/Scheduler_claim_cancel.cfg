SPECIFICATION Spec
CONSTANTS
  n1 = n1  n2 = n2  t1 = t1  t2 = t2  u1 = u1
  Nodes = {n1, n2}  Tasks = {t1}  Users = {u1}  None = None
  Drainers = {d1}  RetryLoop = RetryLoop  Submitter = Submitter  Mover = Mover
  UserOf <- OneTenant  Priority <- SecondFirst  Need <- OneNode
  Pinned <- NoNode  Preferred <- NoNode  Avoid <- NoNodes  LocalForce = {}
  HasCapability <- AnyNode  HasMemory <- AnyNode  TenantLimit <- Unlimited
  MaxActive = 1  MaxRetry = 1  MaxRetryLoop = 10  MaxQueue = 1
  MaxDegrade <- NeverDegraded  Cancellable = {t1}  Movable = {}
  Replies = {"ok", "transient"}  Unreliable = {n1}  Drainable = {}
PROPERTY CancelledStaysCancelled
