\* One worker and its restarts: aliased nonces, a repeated handle, events that
\* freeze nothing, tampered rewards, corrupt artifacts, failing and torn log
\* writes, an input whose decision is not ALLOW.
SPECIFICATION Spec
CONSTANTS
  a = a  b = b  c = c  d = d  w1 = w1  w2 = w2
  Worker = {w1}
  Input = {a, b, c, d}
  Nonce = {"na", "nc", "nd"}
  UpdateId = {"u1", "u2"}
  NonceOf <- AliasedNonceOf
  UpdateOf <- AliasedUpdateOf
  Allowed = {a, b, c}
  Batches <- AliasedBatches
  GroupSize = {1, 2}
  Freezes <- AllOrNothing
  Unbound = Unbound  NoHandle = NoHandle
  Fragile = {c}
  AdapterUsers = {w1}
  LogFaults = TRUE
  TornWrites = TRUE
INVARIANTS RecoveryFindsEveryStep CommittedIsComplete
PROPERTIES StepOnVerifiedBatch
