SPECIFICATION Spec
CONSTANTS
  Conn <- TwoConns
  Database = {db}
  Name <- TwoNames
  Fid <- TwoFids
  Value = {0, 1}
  MaxRef = 3
  None = None
  c1 = c1
  c2 = c2
  t1 = t1
  t2 = t2
  f1 = f1
  f2 = f2
SYMMETRY Interchangeable
INVARIANTS HeldIsOpen IdsInUse
 
