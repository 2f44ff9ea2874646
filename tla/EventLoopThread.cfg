SPECIFICATION ThreadSpec
CONSTANTS
  Tasks = {f1, f2, f3}
  Threads = {a, b}
  Owner = owner
  Starter = a
INVARIANTS
  TypesOK
  WakeupPromise
  PublishedIsAlive
  StartReturnsLoop
PROPERTIES
  ImplementsTaskQueue
  DestructorMeetsLoop
  StartReturns
  QuitEnds
CHECK_DEADLOCK FALSE
