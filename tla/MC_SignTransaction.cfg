CONSTANTS
  c1 = c1
  c2 = c2
  o1 = o1
  o2 = o2
  Undef = Undef
  Null = Null
  Val = Val
  MaxNonce = 2
  Calls <- MC_Calls
  Objs <- MC_Objs
  InitTxs <- MC_InitTxs
SPECIFICATION Spec
CHECK_DEADLOCK FALSE
INVARIANT TypeOK
PROPERTY CallSettles
