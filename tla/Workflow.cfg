SPECIFICATION Spec
CONSTANTS
  Scans = {s1, s2}
  Reviews = {v1}
  Executions = {x1, x2}
  Recoveries = {r1, r2}
  Handles <- AllHandles
  TypeOf <- TypeOfAll
  HandleStates <- AllStates
  Reservations <- Executions
  Capacity = 5
  Ttl = 2
  MaxTime = 3
  Threads = {t1, t2}
  MaxItems = 2
  NoHandle = NoHandle
  NoThread = NoThread
SYMMETRY Interchangeable
INVARIANTS ServiceTypeOK RecoveriesCovered ResultReadable OneExecution ConfirmedFirst NothingLeaked ReservedIsExact WithinCapacity
PROPERTIES StaleIsRemembered
CHECK_DEADLOCK FALSE
