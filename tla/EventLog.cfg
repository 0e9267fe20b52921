\* Operations of three processes and two leases, in turn or at once, with
\* crashes inside them and runs started anew.
SPECIFICATION Spec
CONSTANTS
  p1 = p1  p2 = p2  p3 = p3  v1 = v1  v2 = v2
  Process = {p1, p2, p3}
  LeaseId = {"guard-trainer", "guard-trl"}
  LeaseOf <- TwoLeases
  EventId = {"e1"}
  Payload = {v1, v2}
  Edge <- TwoRoles
  None = None  Torn = Torn
  MaxEpoch = 2
SYMMETRY TrainerSymmetry
INVARIANTS SingleWriter EdgesAgree
PROPERTIES FencedWrites NeverOverwritten LeaseNotStolen
