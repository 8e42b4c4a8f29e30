SPECIFICATION TimersSpec
CONSTANTS
  n1 = n1  n2 = n2  t1 = t1  t2 = t2  u1 = u1
  Nodes = {n1, n2}  Tasks = {t1}  Users = {u1}  None = None
  Drainers = {d1}  RetryLoop = RetryLoop  Submitter = Submitter  Mover = Mover
  UserOf <- OneTenant  Priority <- SecondFirst  Need <- OneNode
  Pinned <- NoNode  Preferred <- NoNode  Avoid <- NoNodes  LocalForce = {}
  HasCapability <- AnyNode  HasMemory <- AnyNode  TenantLimit <- Unlimited
  MaxActive = 1  MaxRetry = 1  MaxRetryLoop = 10  MaxQueue = 1
  MaxDegrade <- NeverDegraded  Cancellable = {}  Movable = {}
  Replies = {"transient"}  Unreliable = {n1}  Drainable = {}
  s1 = s1  s2 = s2  Schedules = {s1, s2}
  Fragile = {s2}
  Specs <- MCSpecs
  NoSpec = NoSpec
  Day = 2
  Week = 2
  MaxRuns = 1
  MaxClock = 2
INVARIANTS TimersOK
PROPERTIES RunningSettles RetriesHappen NoCatchUp DueIsServed
