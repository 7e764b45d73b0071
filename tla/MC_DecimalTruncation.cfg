\* A big.Rat on bytes-decimal schemas whose 10^scale still fits in int64,
\* round-tripped: only ratFromBytes' Int64() can lose the value.
CONSTANTS
  ByteBits = 2
  Int8Bits = 2
  Int16Bits = 3
  Int32Bits = 4
  Int64Bits = 8
  NsPerUs = 2
  UsPerMs = 2
  MsPerSec = 2
  SecPerDay = 4
  Arch = "amd64"
  DecimalScales = {0, 1, 2}
  WriterTypes = {"rat"}
  ReaderTypes = {"rat"}
  IntValues <- MC_IntValues
  FloatValues <- MC_FloatValues
  TimeValues <- MC_TimeValues
  RatValues <- MC_RatValues
  TextValues <- MC_TextValues
SPECIFICATION Spec
CHECK_DEADLOCK FALSE
INVARIANTS
  RoundTrip
