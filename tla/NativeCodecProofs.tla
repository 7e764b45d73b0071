------------------------- MODULE NativeCodecProofs -------------------------
(***************************************************************************)
(* Proofs about the resolver tables of NativeCodec, for every value of the *)
(* constants: the decoder never panics, and the encoder panics exactly for *)
(* a big.Rat on a non-bytes schema.  Both rest on one inductive invariant  *)
(* tying the resolved codecs to the tables, and on two lemmas that read    *)
(* the tables for every schema and host type.  A last part proves what    *)
(* the timestamp, date and duration codecs' arithmetic does to a value.    *)
(***************************************************************************)
EXTENDS NativeCodec, TLAPS

\* The logical types the parser attaches: decimal only on bytes.
LEMMA DecimalOnlyOnBytes ==
  ASSUME NEW s \in Schemas
  PROVE  /\ s.logical = "decimal" => s.type = "bytes"
         /\ s.type \in PrimitiveTypes
  <1>1. CASE s \in {Schema(t, "") : t \in PrimitiveTypes}
    <2>1. PICK t \in PrimitiveTypes : s = Schema(t, "")
      BY <1>1
    <2>. QED
      BY <2>1 DEF Schema
  <1>2. CASE s \in {Schema("int", l) : l \in {"date", "time-millis"}}
    BY <1>2 DEF Schema, PrimitiveTypes
  <1>3. CASE s \in {Schema("long", l) :
                       l \in {"time-micros", "timestamp-millis",
                              "timestamp-micros"}}
    BY <1>3 DEF Schema, PrimitiveTypes
  <1>4. CASE s = Schema("string", "uuid")
    BY <1>4 DEF Schema, PrimitiveTypes
  <1>5. CASE s \in {[type |-> "bytes", logical |-> "decimal", scale |-> n] :
                       n \in DecimalScales}
    BY <1>5 DEF PrimitiveTypes
  <1>. QED
    BY <1>1, <1>2, <1>3, <1>4, <1>5 DEF Schemas

\* createDecoderOfNative reaches its type assertions only with a decimal
\* logical type, so it returns a codec or the error decoder.
LEMMA DecoderTotal ==
  ASSUME NEW s \in Schemas, NEW h \in HostTypes
  PROVE  createDecoderOfNative(s, h) # "panic"
  <1>1. decoderOfStruct(s, h) # "panic"
    BY DEF decoderOfStruct, AssertDecimal, getLogicalType
  <1>. QED
    BY <1>1 DEF createDecoderOfNative, KindOf, HostTypes, AssertDecimal,
                getLogicalType

\* createEncoderOfNative panics exactly on a big.Rat with a non-bytes schema.
LEMMA EncoderPanics ==
  ASSUME NEW s \in Schemas, NEW h \in HostTypes
  PROVE  createEncoderOfNative(s, h) = "panic" <=> (h = "rat" /\ s.type # "bytes")
  <1>1. s.logical = "decimal" => s.type = "bytes"
    BY DecimalOnlyOnBytes
  <1>2. CASE h = "rat"
    <2>1. encoderOfStruct(s, h) = "panic" <=> s.type # "bytes"
      BY <1>1, <1>2 DEF encoderOfStruct, AssertDecimal, getLogicalType
    <2>2. KindOf(h) = "struct"
      BY <1>2 DEF KindOf
    <2>3. /\ encoderOfStruct(s, h) # "none"
               => createEncoderOfNative(s, h) = encoderOfStruct(s, h)
          /\ encoderOfStruct(s, h) = "none"
               => createEncoderOfNative(s, h) \in {"null", "error"}
      BY <2>2 DEF createEncoderOfNative, getLogicalType
    <2>4. CASE s.type # "bytes"
      <3>1. encoderOfStruct(s, h) = "panic"
        BY <2>1, <2>4
      <3>. QED
        BY <3>1, <2>3, <2>4, <1>2
    <2>5. CASE s.type = "bytes"
      <3>1. encoderOfStruct(s, h) # "panic"
        BY <2>1, <2>5
      <3>. QED
        BY <3>1, <2>3, <2>5, <1>2
    <2>. QED
      BY <2>4, <2>5
  <1>3. CASE h = "time"
    <2>1. encoderOfStruct(s, h) # "panic"
      BY <1>3 DEF encoderOfStruct, AssertDecimal, getLogicalType
    <2>2. KindOf(h) = "struct"
      BY <1>3 DEF KindOf
    <2>3. /\ encoderOfStruct(s, h) # "none"
               => createEncoderOfNative(s, h) = encoderOfStruct(s, h)
          /\ encoderOfStruct(s, h) = "none"
               => createEncoderOfNative(s, h) \in {"null", "error"}
      BY <2>2 DEF createEncoderOfNative, getLogicalType
    <2>. QED
      BY <1>3, <2>1, <2>3
  <1>4. CASE h \notin {"rat", "time"}
    BY <1>4 DEF createEncoderOfNative, KindOf, HostTypes, AssertDecimal,
                getLogicalType
  <1>. QED
    BY <1>2, <1>3, <1>4

-----------------------------------------------------------------------------
(* The inductive invariant: the resolved codecs are what the tables give   *)
(* for the schema and host types of the behaviour, and the encoder is      *)
(* resolved exactly when the behaviour has left its start.                 *)

IInv ==
  /\ schema \in Schemas
  /\ wtype \in HostTypes /\ rtype \in HostTypes
  /\ phase \in Phases
  /\ enc \in {"none", createEncoderOfNative(schema, wtype)}
  /\ dec \in {"none", createDecoderOfNative(schema, rtype)}
  /\ (enc = "none" <=> phase = "start")

LEMMA InitIInv == Init => IInv
  BY DomainAssumption DEF Init, IInv, Phases

LEMMA NextIInv == IInv /\ [Next]_vars => IInv'
  <1>. SUFFICES ASSUME IInv, [Next]_vars PROVE IInv'
    OBVIOUS
  <1>1. createEncoderOfNative(schema, wtype) # "none"
    BY DEF IInv, createEncoderOfNative
  <1>2. CASE ResolveEncoder
    BY <1>1, <1>2 DEF ResolveEncoder, IInv, Phases
  <1>3. CASE Encode
    BY <1>3 DEF Encode, IInv, Phases
  <1>4. CASE ResolveDecoder
    BY <1>4 DEF ResolveDecoder, IInv, Phases
  <1>5. CASE Decode
    BY <1>5 DEF Decode, IInv, Phases
  <1>6. CASE UNCHANGED vars
    BY <1>6 DEF vars, IInv
  <1>. QED
    BY <1>2, <1>3, <1>4, <1>5, <1>6 DEF Next

\* The decoder a behaviour resolves never panics, whatever the constants.
THEOREM DecoderNeverPanicsThm == Spec => []DecoderNeverPanics
  <1>1. IInv => DecoderNeverPanics
    BY DecoderTotal DEF IInv, DecoderNeverPanics
  <1>. QED
    BY <1>1, InitIInv, NextIInv, PTL DEF Spec

\* Once resolved, the encoder panics exactly for a big.Rat host on a schema
\* other than bytes: the reach of the precedence slip in the struct case.
THEOREM EncoderPanicsExactlyOnRatThm == Spec => []EncoderPanicsExactlyOnRat
  <1>1. IInv => EncoderPanicsExactlyOnRat
    BY EncoderPanics DEF IInv, EncoderPanicsExactlyOnRat
  <1>. QED
    BY <1>1, InitIInv, NextIInv, PTL DEF Spec

-----------------------------------------------------------------------------
(* The timestamp codecs' arithmetic, for every unit ratio.  Encode splits  *)
(* a time into t.Unix() and t.Nanosecond(); Decode rebuilds it with       *)
(* time.Unix(sec, nsec).  These lemmas show that, short of the int64 wrap  *)
(* of Encode, a time loses exactly its sub-unit part, rounded toward the   *)
(* past for times before 1970 as well.                                     *)

\* Integer division by a positive divisor is determined by the quotient and
\* remainder it leaves.
LEMMA DivUnique ==
  ASSUME NEW t \in Int, NEW d \in Nat \ {0}, NEW q \in Int, NEW r \in 0 .. d - 1,
         t = q * d + r
  PROVE  t \div d = q /\ t % d = r
  BY SMT

\* The quotient and remainder of a division by a positive divisor.
LEMMA DivMod ==
  ASSUME NEW x \in Int, NEW d \in Nat \ {0}
  PROVE  /\ x \div d \in Int /\ x % d \in 0 .. d - 1
         /\ x = (x \div d) * d + (x % d)
  BY SMT

\* t.Unix() and t.Nanosecond() split a time into whole seconds, rounded
\* down, and the nanoseconds within the second.
LEMMA UnixSplit ==
  ASSUME NEW t \in Int
  PROVE  /\ UnixOf(t) \in Int /\ NanosecondOf(t) \in 0 .. NsPerSec - 1
         /\ t = UnixOf(t) * NsPerSec + NanosecondOf(t)
  <1>1. NsPerSec \in Nat \ {0}
    BY UnitAssumption DEF NsPerSec, NsPerMs
  <1>. QED
    BY <1>1 DEF UnixOf, NanosecondOf

\* timestampMillisCodec.Encode, before its int64 conversion, computes the
\* number of whole milliseconds since the epoch, rounded down.
LEMMA TimestampMillisEncodeFloor ==
  ASSUME NEW t \in Int
  PROVE  UnixOf(t) * MsPerSec + NanosecondOf(t) \div NsPerMs = t \div NsPerMs
  <1>. DEFINE s == UnixOf(t)
              n == NanosecondOf(t)
              a == n \div NsPerMs
              b == n % NsPerMs
  <1>1. /\ NsPerMs \in Nat \ {0} /\ MsPerSec \in Nat \ {0}
        /\ NsPerSec = NsPerMs * MsPerSec
    BY UnitAssumption DEF NsPerSec, NsPerMs
  <1>2. s \in Int /\ n \in 0 .. NsPerSec - 1 /\ t = s * NsPerSec + n
    BY UnixSplit
  <1>3. a \in Int /\ b \in 0 .. NsPerMs - 1 /\ n = a * NsPerMs + b
    <2>1. n \in Int
      BY <1>1, <1>2
    <2>. QED
      BY <1>1, <2>1, DivMod
  <1>4. t = (s * MsPerSec + a) * NsPerMs + b
    BY <1>1, <1>2, <1>3
  <1>5. t \div NsPerMs = s * MsPerSec + a
    <2>1. s * MsPerSec + a \in Int
      BY <1>1, <1>2, <1>3
    <2>. QED
      BY <1>1, <1>3, <1>4, <2>1, DivUnique
  <1>. QED
    BY <1>5

\* timestampMicrosCodec.Encode: the same at microsecond precision.
LEMMA TimestampMicrosEncodeFloor ==
  ASSUME NEW t \in Int
  PROVE  UnixOf(t) * MsPerSec * UsPerMs + NanosecondOf(t) \div NsPerUs = t \div NsPerUs
  <1>. DEFINE s == UnixOf(t)
              n == NanosecondOf(t)
              a == n \div NsPerUs
              b == n % NsPerUs
  <1>1. /\ NsPerUs \in Nat \ {0} /\ UsPerMs \in Nat \ {0} /\ MsPerSec \in Nat \ {0}
        /\ NsPerSec = NsPerUs * (MsPerSec * UsPerMs)
    BY UnitAssumption DEF NsPerSec, NsPerMs
  <1>2. s \in Int /\ n \in 0 .. NsPerSec - 1 /\ t = s * NsPerSec + n
    BY UnixSplit
  <1>3. a \in Int /\ b \in 0 .. NsPerUs - 1 /\ n = a * NsPerUs + b
    <2>1. n \in Int
      BY <1>1, <1>2
    <2>. QED
      BY <1>1, <2>1, DivMod
  <1>. DEFINE q == s * MsPerSec * UsPerMs + a
  <1>4. t = q * NsPerUs + b /\ q \in Int
    <2>1. s * NsPerSec = (s * MsPerSec * UsPerMs) * NsPerUs
      BY <1>1, <1>2
    <2>2. s * MsPerSec * UsPerMs \in Int
      BY <1>1, <1>2
    <2>3. q * NsPerUs = (s * MsPerSec * UsPerMs) * NsPerUs + a * NsPerUs
      BY <1>1, <1>3, <2>2
    <2>. HIDE DEF s, n, a, b
    <2>. QED
      BY <1>1, <1>2, <1>3, <2>1, <2>2, <2>3
  <1>5. t \div NsPerUs = q
    <2>. HIDE DEF q, b
    <2>. QED
      BY <1>1, <1>3, <1>4, DivUnique
  <1>. QED
    BY <1>5

\* timestampMillisCodec.Decode: time.Unix(sec, nsec) normalises a negative
\* nsec, so the time it rebuilds is exactly i milliseconds.
LEMMA TimestampMillisDecodeExact ==
  ASSUME NEW i \in Int
  PROVE  timestampMillisCodecDecode(i) = Cell("time", i * NsPerMs)
  <1>. DEFINE sec == TruncDiv(i, MsPerSec)
  <1>1. sec \in Int
    BY UnitAssumption DEF TruncDiv
  <1>2. sec * NsPerSec + (i - sec * MsPerSec) * NsPerMs = i * NsPerMs
    BY <1>1, UnitAssumption DEF NsPerSec, NsPerMs
  <1>. QED
    BY <1>2 DEF timestampMillisCodecDecode

\* timestampMicrosCodec.Decode: exactly i microseconds.
LEMMA TimestampMicrosDecodeExact ==
  ASSUME NEW i \in Int
  PROVE  timestampMicrosCodecDecode(i) = Cell("time", i * NsPerUs)
  <1>. DEFINE sec == TruncDiv(i, MsPerSec * UsPerMs)
  <1>1. sec \in Int
    BY UnitAssumption DEF TruncDiv
  <1>2. sec * NsPerSec + (i - sec * MsPerSec * UsPerMs) * NsPerUs = i * NsPerUs
    BY <1>1, UnitAssumption DEF NsPerSec, NsPerMs
  <1>. QED
    BY <1>2 DEF timestampMicrosCodecDecode

\* Short of the int64 conversion in Encode, a timestamp-millis round trip
\* through timestampMillisCodec gives back the time rounded down to the
\* millisecond, before 1970 as after: t.Unix() floors and t.Nanosecond()
\* is never negative, and time.Unix(sec, nsec) takes a negative nsec.
THEOREM TimestampMillisRoundTripThm ==
  ASSUME NEW t \in Int
  PROVE  timestampMillisCodecDecode(UnixOf(t) * MsPerSec + NanosecondOf(t) \div NsPerMs)
           = Cell("time", (t \div NsPerMs) * NsPerMs)
  <1>1. t \div NsPerMs \in Int
    BY UnitAssumption DEF NsPerMs
  <1>. QED
    BY <1>1, TimestampMillisEncodeFloor, TimestampMillisDecodeExact

\* The same for timestampMicrosCodec at microsecond precision.
THEOREM TimestampMicrosRoundTripThm ==
  ASSUME NEW t \in Int
  PROVE  timestampMicrosCodecDecode(UnixOf(t) * MsPerSec * UsPerMs + NanosecondOf(t) \div NsPerUs)
           = Cell("time", (t \div NsPerUs) * NsPerUs)
  <1>1. t \div NsPerUs \in Int
    BY UnitAssumption
  <1>. QED
    BY <1>1, TimestampMicrosEncodeFloor, TimestampMicrosDecodeExact

-----------------------------------------------------------------------------
(* dateCodec, timeMillisCodec and timeMicrosCodec divide with Go's integer *)
(* division, which truncates toward zero, and multiply back on decode.     *)

\* Short of the int32 and int64 conversions, a date or a duration sent
\* through dateCodec (unit a day), timeMillisCodec (a millisecond) or
\* timeMicrosCodec (a microsecond) comes back as TruncDiv(a, b) * b: the
\* value itself exactly when it is a whole number of units, and otherwise
\* rounded toward zero, so that a time before 1970 that is not a midnight
\* comes back as the following midnight, later than it was, while one after
\* 1970 comes back as the midnight before it (timestampMillisCodec rounds
\* down on both sides, see TimestampMillisRoundTripThm).
THEOREM TruncDivTowardZeroThm ==
  ASSUME NEW a \in Int, NEW b \in Nat \ {0}
  PROVE  /\ TruncDiv(a, b) \in Int
         /\ a >= 0 => TruncDiv(a, b) * b \in a - b + 1 .. a
         /\ a < 0 => TruncDiv(a, b) * b \in a .. a + b - 1
         /\ TruncDiv(a, b) * b = a <=> a % b = 0
  <1>1. CASE a >= 0
    <2>1. a \div b \in Int /\ a % b \in 0 .. b - 1 /\ a = (a \div b) * b + (a % b)
      BY DivMod
    <2>2. TruncDiv(a, b) = a \div b
      BY <1>1 DEF TruncDiv
    <2>. QED
      BY <1>1, <2>1, <2>2
  <1>2. CASE a < 0
    <2>. DEFINE q == (-a) \div b
                r == (-a) % b
    <2>1. q \in Int /\ r \in 0 .. b - 1 /\ -a = q * b + r
      <3>. DEFINE x == -a
      <3>1. x \in Int
        OBVIOUS
      <3>2. x \div b \in Int /\ x % b \in 0 .. b - 1 /\ x = (x \div b) * b + (x % b)
        <4>. HIDE DEF x
        <4>. QED
          BY <3>1, DivMod
      <3>. QED
        BY <3>2
    <2>2. TruncDiv(a, b) = -q
      BY <1>2 DEF TruncDiv
    <2>. HIDE DEF q, r
    <2>3. TruncDiv(a, b) * b = a + r
      BY <2>1, <2>2
    <2>4. CASE r = 0
      <3>1. a = (-q) * b + 0
        BY <2>1, <2>4
      <3>2. a % b = 0
        BY <2>1, <3>1, DivUnique
      <3>. QED
        BY <1>2, <2>1, <2>2, <2>3, <2>4, <3>2
    <2>5. CASE r # 0
      <3>1. a = (-q - 1) * b + (b - r) /\ b - r \in 0 .. b - 1 /\ -q - 1 \in Int
        BY <2>1, <2>5
      <3>2. a % b = b - r
        BY <3>1, DivUnique
      <3>. QED
        BY <1>2, <2>1, <2>2, <2>3, <2>5, <3>2
    <2>. QED
      BY <2>4, <2>5
  <1>. QED
    BY <1>1, <1>2

=============================================================================
