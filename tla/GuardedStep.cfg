\* Two workers race on overlapping batches and interleave in the log.
SPECIFICATION Spec
CONSTANTS
  a = a  b = b  c = c  d = d  w1 = w1  w2 = w2
  Worker = {w1, w2}
  Input = {a, b}
  Nonce = {"na", "nb"}
  UpdateId = {"u1", "u2"}
  NonceOf <- MCNonceOf
  UpdateOf <- MCUpdateOf
  Allowed = {a, b}
  Batches <- MCBatches
  GroupSize = {2}
  Freezes <- All
  Unbound = Unbound  NoHandle = NoHandle
  Fragile = {}
  AdapterUsers = {}
  LogFaults = FALSE
  TornWrites = FALSE
SYMMETRY WorkerSymmetry
INVARIANTS AppliedAtMostOnce
PROPERTIES ImplementsLedger
