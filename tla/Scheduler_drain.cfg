SPECIFICATION Spec
CONSTANTS
  n1 = n1  n2 = n2  t1 = t1  t2 = t2  u1 = u1
  Nodes = {n1, n2}  Tasks = {t1, t2}  Users = {u1}  None = None
  Drainers = {d1}  RetryLoop = RetryLoop  Submitter = Submitter  Mover = Mover
  UserOf <- OneTenant  Priority <- SecondFirst  Need <- OneNodeTwoNodes
  Pinned <- FirstToN1  Preferred <- FirstToN1  Avoid <- NoNodes  LocalForce = {}
  HasCapability <- AnyNode  HasMemory <- AnyNode  TenantLimit <- Unlimited
  MaxActive = 1  MaxRetry = 1  MaxRetryLoop = 10  MaxQueue = 1
  MaxDegrade <- FirstDegradedOnce  Cancellable = {}  Movable = {}
  Replies = {"ok"}  Unreliable = {}  Drainable = {n1}
INVARIANTS PinnedStaysPut
PROPERTIES DrainReadyIsStable
