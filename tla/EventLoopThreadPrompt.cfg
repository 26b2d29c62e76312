\* The owner may destroy the object as soon as startLoop() returns.
CONSTANTS
  Threads = {owner, t1}
  Owner = owner
  OwnerWaits = FALSE
  LoopThread = loopThread
  Channels = {c1}
  WakeupChannel = wakeupChannel
  Functors = {f1, f2}
  NoChannel = noChannel
SPECIFICATION ThreadSpec
CHECK_DEADLOCK FALSE
PROPERTY
  DestructorReturns
