\* ENS Resolver: two concurrent callers while the registry changes twice.
CONSTANTS
    c1 = c1  c2 = c2  n1 = n1  r1 = r1  r2 = r2
    iAddr = iAddr  iName = iName  iPubkey = iPubkey  v1 = v1
    Zero = Zero  Unset = Unset  Undef = Undef
    Calls <- MC_Calls
    Names <- MC_Names
    Resolvers <- MC_Resolvers
    Ifaces <- MC_Ifaces
    Supports <- MC_Supports
    Sha3Id <- MC_Sha3Id
    Methods <- MC_Methods
    IfaceOf <- MC_IfaceOf
    Values <- MC_Values
    MaxChanges = 2
SPECIFICATION Spec
CHECK_DEADLOCK FALSE
INVARIANT AddrRecordsInAddrResolvers
PROPERTY CallsSettle
