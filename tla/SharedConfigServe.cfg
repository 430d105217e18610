SPECIFICATION Spec
CONSTANTS
  r1 = r1
  r2 = r2
  r3 = r3
  n1 = n1
  n2 = n2
  n3 = n3
  Blank = Blank
  Requests <- TwoRequests
  Names <- ThreeNames
  Worlds <- AsServed
  Configured <- OneConfigured
INVARIANTS ThreadSafe
CHECK_DEADLOCK FALSE
