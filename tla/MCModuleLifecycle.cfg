\* Two topics, so that the second registration may fail.
SPECIFICATION FairSpec
CONSTANTS
  Client = {c1, c2}
  Id = {o1, o2}
  Topics = {t1, t2}
  Null = Null
  NotRunning = NotRunning
  WorkQueueTaskId = WorkQueueTaskId
INVARIANTS
  UsesLive
  CallbacksLive
  SoleInstance
PROPERTIES
  CommandsReturn
  NoLostMessage
