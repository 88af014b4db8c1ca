\* Callbacks, workers, start and two stopping threads; queues of two blocks.
SPECIFICATION Spec
CONSTANTS
  None = None
  Starter = starter
  Stoppers = {loop, runtime}
  QueueBlocks = 2
INVARIANTS
  TypeOK StartLeavesNone SourcesAreOwned LossIsTold
PROPERTIES
  FailureStopsAll WorkersEnd
