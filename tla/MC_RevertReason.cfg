\* getRevertReason over the ABI codec: decoding of well-formed, padded and
\* corrupted revert data against a contract ABI, or no ABI.
CONSTANT W = 2
CONSTANT Base = 16
CONSTANT MaxElems = 4
CONSTANT AddrBytes = 1
CONSTANT Probes <- MC_Probes
CONSTANT Undef = Undef
CONSTANT Abis <- MC_Abis
CONSTANT Raws <- MC_Raws
SPECIFICATION Spec
CHECK_DEADLOCK FALSE
INVARIANT TypeOK
INVARIANT RevertDecodesCustomError
INVARIANT CorruptPayloadRejected
INVARIANT EncodeChecksAndRoundTrips
