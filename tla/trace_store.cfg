\* A cap of two traces, three ids, five spans in batches of up to two.
CONSTANTS
  Probe = {}
  Lifespan = lifespan
  Retries = 1
  Unsteady = FALSE
  Trace = {t1, t2, t3}
  ClientOp = {"query"}
  Price <- MCPrice
  MaxTraces = 2
  Replay = {r1}
  MaxSpans = 5
  MaxBatch = 2
  MaxRunning = 1
SPECIFICATION FairSpec
INVARIANTS TypeOK HeldWithoutGap Partition CostsAccounted ReplayIsSnapshot
PROPERTIES ReplayEnds ImplementsTraceWindow
