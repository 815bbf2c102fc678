\* Two attempts of one chunk, two runs and one fault: every one is judged
\* after the faults stop.
CONSTANTS a = a b = b p = p q = q c = c
CONSTANTS
  Works = {a, b}
  Chunks = {c}
  ChunkOf <- AllOneChunk
  Procs = {p, q}
  Contents = {"body"}
  Draws = {"selected"}
  Decisions = {"pass", "fail"}
  UnavailableAfter = 2
  LockLoss = TRUE
  TaskLeaves = TRUE
  MaxFaults = 1
SPECIFICATION KeptSpec
PROPERTIES VerdictsAtomic AllJudged
CHECK_DEADLOCK FALSE
