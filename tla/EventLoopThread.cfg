\* The owner destroys the object once loop() runs.
CONSTANTS
  Threads = {owner, t1}
  Owner = owner
  OwnerWaits = TRUE
  LoopThread = loopThread
  Channels = {c1}
  WakeupChannel = wakeupChannel
  Functors = {f1, f2, f3}
  NoChannel = noChannel
SPECIFICATION ThreadSpec
CHECK_DEADLOCK FALSE
INVARIANTS
  NoLostWakeup
  LoopUsable
PROPERTIES
  ImplementsFunctorQueue
  QueuedRuns
  DestructorReturns
