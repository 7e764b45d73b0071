\* A time.Time host on the date schema, round-tripped.
CONSTANTS
  ByteBits = 2
  Int8Bits = 2
  Int16Bits = 3
  Int32Bits = 4
  Int64Bits = 8
  NsPerUs = 2
  UsPerMs = 2
  MsPerSec = 2
  SecPerDay = 4
  Arch = "amd64"
  DecimalScales = {0, 1, 2, 3}
  WriterTypes = {"time"}
  ReaderTypes = {"time"}
  IntValues <- MC_IntValues
  FloatValues <- MC_FloatValues
  TimeValues <- MC_TimeValues
  RatValues <- MC_RatValues
  TextValues <- MC_TextValues
SPECIFICATION Spec
CHECK_DEADLOCK FALSE
INVARIANTS
  RoundTrip
