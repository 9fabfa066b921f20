CONSTANTS
  Windows = {1, 2}
  Clients = {c1, c2}
  Outputs = {1, 2}
  Tags = {1, 2}
  c1 = c1
  c2 = c2
  FirstClient = c1
SPECIFICATION Spec
CONSTRAINT Bound
INVARIANT SlotHolderExists
