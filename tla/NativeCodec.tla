---------------------------- MODULE NativeCodec ----------------------------
(***************************************************************************)
(* The native codecs of src/codec_native.go: the two resolver tables       *)
(* createEncoderOfNative / createDecoderOfNative, which pick a codec for a *)
(* primitive Avro schema and a Go host type, and the Encode / Decode       *)
(* methods of the codecs they return.                                      *)
(*                                                                         *)
(* One behaviour is one transfer of one value: a writer holding a value of *)
(* host type wtype resolves its encoder and encodes the value; a reader    *)
(* with host type rtype resolves its decoder for the same schema and       *)
(* decodes the wire into its own memory.  Host memory is a typed cell: a   *)
(* codec that stores a value of another Go type through the unsafe pointer *)
(* leaves a cell whose type differs from the host's.                       *)
(*                                                                         *)
(* Integer widths, the byte width and the time units are CONSTANTS so that *)
(* TLC can check a scaled instance that keeps the real ratios (a day of    *)
(* nanoseconds times the int32 range exceeds the int64 range, 10^scale    *)
(* leaves int64 for some scale, ...).                                      *)
(***************************************************************************)
EXTENDS Integers, Sequences

CONSTANTS
  ByteBits,          \* bits of a byte of big.Int.Bytes (8)
  Int8Bits, Int16Bits, Int32Bits, Int64Bits,   \* Go int is int64 (amd64)
  NsPerUs, UsPerMs, MsPerSec, SecPerDay,       \* time unit ratios
  Arch,              \* "amd64" or "arm64": result of an overflowing float->int
  DecimalScales,     \* scales the parser accepts on a bytes decimal schema
  WriterTypes,       \* host types of the encoding side
  ReaderTypes,       \* host types of the decoding side
  IntValues, FloatValues, TimeValues, RatValues, TextValues

HostTypes == {"bool", "int", "int8", "int16", "int32", "int64", "float32",
              "float64", "string", "bytes", "time", "rat", "ratptr"}

ASSUME WidthAssumption ==
  /\ ByteBits \in Nat \ {0}
  /\ Int8Bits \in Nat \ {0}
  /\ Int8Bits < Int16Bits /\ Int16Bits < Int32Bits /\ Int32Bits < Int64Bits
  /\ Int64Bits % ByteBits = 0

ASSUME UnitAssumption ==
  /\ {NsPerUs, UsPerMs, MsPerSec, SecPerDay} \subseteq Nat \ {0}
  /\ Arch \in {"amd64", "arm64"}

ASSUME DomainAssumption ==
  /\ DecimalScales \subseteq Nat
  /\ WriterTypes \subseteq HostTypes /\ ReaderTypes \subseteq HostTypes
  /\ IntValues \subseteq Int /\ FloatValues \subseteq Int
  /\ TimeValues \subseteq Int
  /\ RatValues \subseteq [num : Int, den : Nat \ {0}]
  /\ TextValues \subseteq Seq(Nat)

NsPerMs  == NsPerUs * UsPerMs
NsPerSec == NsPerMs * MsPerSec
NsPerDay == NsPerSec * SecPerDay
Base     == 2 ^ ByteBits

-----------------------------------------------------------------------------
(* Fixed-width integer arithmetic.                                         *)

MinOf(w) == -(2 ^ (w - 1))
MaxOf(w) == 2 ^ (w - 1) - 1
RangeOf(w) == MinOf(w) .. MaxOf(w)

\* A Go conversion to, or an overflowing operation in, a w-bit signed integer.
Wrap(x, w) == ((x + 2 ^ (w - 1)) % (2 ^ w)) - 2 ^ (w - 1)

\* Go's integer division truncates toward zero.
TruncDiv(a, b) == IF a >= 0 THEN a \div b ELSE -((-a) \div b)

\* A float is held as a count of halves; FloatValue.f = 2 * value.
\* int32(f) / int64(f): truncation toward zero; out of range, the build's
\* result (amd64: the integer indefinite MinOf(w); arm64: saturation).
FloatToInt(x, w) ==
  LET t == TruncDiv(x.f, 2)
  IN  IF t \in RangeOf(w) THEN t
      ELSE IF Arch = "amd64" \/ t < 0 THEN MinOf(w)
      ELSE MaxOf(w)

\* int64(math.Pow10(scale)), with the same overflow rule.
Pow10Int64(scale) ==
  IF 10 ^ scale <= MaxOf(Int64Bits) THEN 10 ^ scale
  ELSE IF Arch = "amd64" THEN MinOf(Int64Bits)
  ELSE MaxOf(Int64Bits)

\* time.Time is its count of nanoseconds since the epoch.
UnixOf(t)       == t \div NsPerSec          \* t.Unix(): floor
NanosecondOf(t) == t % NsPerSec             \* t.Nanosecond(): in [0, 1s)
UnixNanoOf(t)   == Wrap(t, Int64Bits)       \* t.UnixNano(): wraps

-----------------------------------------------------------------------------
(* Schemas: the primitive schemas the parser builds, with the logical      *)
(* types it accepts on each.  Only these reach the native resolver.        *)

PrimitiveTypes == {"null", "boolean", "int", "long", "float", "double",
                   "string", "bytes"}

Schema(t, l) == [type |-> t, logical |-> l, scale |-> 0]

Schemas ==
  {Schema(t, "") : t \in PrimitiveTypes}
  \cup {Schema("int", l) : l \in {"date", "time-millis"}}
  \cup {Schema("long", l) : l \in {"time-micros", "timestamp-millis",
                                   "timestamp-micros"}}
  \cup {Schema("string", "uuid")}
  \cup {[type |-> "bytes", logical |-> "decimal", scale |-> s] : s \in DecimalScales}

\* getLogicalType: "" when the schema carries no logical schema.
getLogicalType(schema) == schema.logical

\* ls.(*DecimalLogicalSchema): a type assertion that panics unless the
\* schema's logical schema is a decimal one.
AssertDecimal(schema, codec) ==
  IF getLogicalType(schema) = "decimal" THEN codec ELSE "panic"

\* reflect.Kind of a host type: time.Time and big.Rat are structs,
\* time.Duration is an int64, *big.Rat a pointer, []byte a slice.
KindOf(h) ==
  CASE h \in {"time", "rat"} -> "struct"
    [] h = "ratptr"          -> "ptr"
    [] h = "bytes"           -> "slice"
    [] OTHER                 -> h

-----------------------------------------------------------------------------
(* The resolver tables.                                                    *)

\* Mutant: the encoder's decimal case as the spec suggests it was meant,
\* typ == ratRType && (st == Bytes || lt == Decimal).
encoderOfStructMeant(schema, h) ==
  IF h = "time" /\ schema.type = "int" /\ getLogicalType(schema) = "date" THEN "date"
  ELSE IF h = "time" /\ schema.type = "long" /\ getLogicalType(schema) = "timestamp-millis"
       THEN "timestampMillis"
  ELSE IF h = "time" /\ schema.type = "long" /\ getLogicalType(schema) = "timestamp-micros"
       THEN "timestampMicros"
  ELSE IF h = "rat" /\ (schema.type = "bytes" \/ getLogicalType(schema) = "decimal")
       THEN AssertDecimal(schema, "bytesDecimal")
  ELSE "none"

\* Mutant: the decoder's decimal case written with the encoder's precedence.
decoderOfStructLoose(schema, h) ==
  IF (h = "rat" /\ schema.type # "bytes") \/ getLogicalType(schema) = "decimal"
  THEN AssertDecimal(schema, "bytesDecimal") ELSE "error"

\* The reflect.Struct case of createDecoderOfNative: time.Time and big.Rat.
decoderOfStruct(schema, h) ==
  LET st == schema.type
      lt == getLogicalType(schema)
  IN  IF h = "time" /\ st = "int" /\ lt = "date" THEN "date"
      ELSE IF h = "time" /\ st = "long" /\ lt = "timestamp-millis" THEN "timestampMillis"
      ELSE IF h = "time" /\ st = "long" /\ lt = "timestamp-micros" THEN "timestampMicros"
      ELSE IF h = "rat" /\ st = "bytes" /\ lt = "decimal"
           THEN AssertDecimal(schema, "bytesDecimal")
      ELSE "error"

\* The reflect.Struct case of createEncoderOfNative; "none" when it breaks.
\* Its decimal case is typ == ratRType && st != Bytes || lt == Decimal,
\* which Go reads as (typ == ratRType && st != Bytes) || lt == Decimal.
encoderOfStruct(schema, h) ==
  LET st == schema.type
      lt == getLogicalType(schema)
  IN  IF h = "time" /\ st = "int" /\ lt = "date" THEN "date"
      ELSE IF h = "time" /\ st = "long" /\ lt = "timestamp-millis" THEN "timestampMillis"
      ELSE IF h = "time" /\ st = "long" /\ lt = "timestamp-micros" THEN "timestampMicros"
      ELSE IF (h = "rat" /\ st # "bytes") \/ lt = "decimal"
           THEN AssertDecimal(schema, "bytesDecimal")
      ELSE "none"

createDecoderOfNative(schema, h) ==
  LET st == schema.type
      lt == getLogicalType(schema)
  IN CASE KindOf(h) = "bool"  -> IF st = "boolean" THEN "bool" ELSE "error"
       [] KindOf(h) \in {"int", "int8", "int16", "int32"} ->
            IF st = "int" THEN h ELSE "error"
       [] KindOf(h) = "int64" ->
            IF st = "int" /\ lt = "time-millis" THEN "timeMillis"
            ELSE IF st = "long" /\ lt = "time-micros" THEN "timeMicros"
            ELSE IF st = "long" THEN "int64" ELSE "error"
       [] KindOf(h) = "float32" -> IF st = "float" THEN "float32" ELSE "error"
       [] KindOf(h) = "float64" ->
            CASE st = "double" -> "float64"
              [] st = "int"    -> "int64"
              [] OTHER         -> "error"
       [] KindOf(h) = "string" -> IF st = "string" THEN "string" ELSE "error"
       [] KindOf(h) = "slice"  -> IF st = "bytes" THEN "bytes" ELSE "error"
       [] KindOf(h) = "struct" -> decoderOfStruct(schema, h)
       [] KindOf(h) = "ptr" ->
            IF lt # "" /\ h = "ratptr" /\ st = "bytes" /\ lt = "decimal"
            THEN AssertDecimal(schema, "bytesDecimalPtr") ELSE "error"

\* The encoder table; a kind whose case breaks falls through to the Null
\* check at the end of the function.
createEncoderOfNative(schema, h) ==
  LET st == schema.type
      lt == getLogicalType(schema)
      c  == CASE KindOf(h) = "bool" -> IF st = "boolean" THEN "bool" ELSE "none"
               [] KindOf(h) \in {"int", "int8", "int16"} ->
                    IF st = "int" THEN h ELSE "none"
               [] KindOf(h) = "int32" ->
                    CASE st = "long" -> "int32Long"
                      [] st = "int"  -> "int32"
                      [] OTHER       -> "none"
               [] KindOf(h) = "int64" ->
                    IF st = "int" /\ lt = "time-millis" THEN "timeMillis"
                    ELSE IF st = "long" /\ lt = "time-micros" THEN "timeMicros"
                    ELSE IF st = "long" THEN "int64" ELSE "none"
               [] KindOf(h) = "float32" ->
                    CASE st = "double" -> "float32Double"
                      [] st = "float"  -> "float32"
                      [] OTHER         -> "none"
               [] KindOf(h) = "float64" ->
                    CASE st = "double" -> "float64"
                      [] st = "long"   -> "longFromFloat64"
                      [] st = "int"    -> "intFromFloat64"
                      [] OTHER         -> "none"
               [] KindOf(h) = "string" -> IF st = "string" THEN "string" ELSE "none"
               [] KindOf(h) = "slice"  -> IF st = "bytes" THEN "bytes" ELSE "none"
               [] KindOf(h) = "struct" -> encoderOfStruct(schema, h)
               [] KindOf(h) = "ptr" ->
                    IF lt # "" /\ h = "ratptr" /\ st = "bytes" /\ lt = "decimal"
                    THEN AssertDecimal(schema, "bytesDecimalPtr") ELSE "none"
  IN IF c # "none" THEN c
     ELSE IF st = "null" THEN "null"
     ELSE "error"


-----------------------------------------------------------------------------
(* Two's-complement big-endian bytes of bytesDecimalCodec / ratFromBytes.  *)

\* big.Int.BitLen of m >= 0, bounded by twice the widest integer in play.
BitLen(m) == CHOOSE k \in 0 .. 4 * Int64Bits : m < 2 ^ k /\ (k = 0 \/ 2 ^ (k - 1) <= m)

\* big.Int.Bytes of m >= 0: the magnitude, big-endian, no leading zero byte.
BytesOf(m) ==
  LET n == (BitLen(m) + ByteBits - 1) \div ByteBits
  IN  [j \in 1 .. n |-> (m \div Base ^ (n - j)) % Base]

\* big.Int.SetBytes: the unsigned big-endian value of b.
SetBytes(b) ==
  LET acc[j \in 0 .. Len(b)] == IF j = 0 THEN 0 ELSE acc[j - 1] * Base + b[j]
  IN  acc[Len(b)]

HighBitSet(b) == Len(b) > 0 /\ b[1] >= Base \div 2

\* The signed value the decoders give b: SetBytes, less 2^(8 len) when the
\* high bit of the first byte is set.
SignedOfBytes(b) == IF HighBitSet(b) THEN SetBytes(b) - 2 ^ (ByteBits * Len(b)) ELSE SetBytes(b)

\* bytesDecimalCodec.Encode: the unscaled value num * 10^scale / den
\* (big.Int.Div is Euclidean: the floor for a positive denominator) and its
\* bytes by sign.
UnscaledOf(r, scale) == (r.num * Pow10Int64(scale)) \div r.den

\* Mutant: no zero byte before a positive value whose high bit is set.
DecimalBytesNoPad(r, scale) ==
  LET i == UnscaledOf(r, scale)
  IN  CASE i = 0 -> <<0>>
        [] i > 0 -> BytesOf(i)
        [] i < 0 -> BytesOf(i + 2 ^ ((BitLen(-i) \div ByteBits + 1) * ByteBits))

DecimalBytes(r, scale) ==
  LET i == UnscaledOf(r, scale)
  IN  CASE i = 0 -> <<0>>
        [] i > 0 -> IF HighBitSet(BytesOf(i)) THEN <<0>> \o BytesOf(i) ELSE BytesOf(i)
        [] i < 0 -> LET length == (BitLen(-i) \div ByteBits + 1) * ByteBits
                    IN  BytesOf(i + 2 ^ length)

\* ratFromBytes: big.NewRat(i.Int64(), int64(math.Pow10(scale))).
ratFromBytes(b, scale) ==
  [num |-> Wrap(SignedOfBytes(b), Int64Bits), den |-> Pow10Int64(scale)]

-----------------------------------------------------------------------------
(* Wire tokens written by the Writer and consumed by the Reader.  An int   *)
(* and a long are the same zig-zag varint on the wire.                     *)

Token(k, v) == [k |-> k, v |-> v]
WriteInt(n)  == Token("varint", n)
WriteLong(n) == Token("varint", n)
WriteBytes(b) == Token("bytes", b)

\* Outcomes of one codec's Encode: the tokens written, or a crash.
Ok(out) == [crashed |-> FALSE, out |-> out]
Crash   == [crashed |-> TRUE, out |-> <<>>]

\* A host memory cell: the Go type last stored in it and the value.
Cell(t, v) == [type |-> t, val |-> v]
NoCell     == Cell("none", 0)

\* The codecs whose Encode or Decode converts.  v is the host value read
\* through the pointer, i the value the Reader returns.
\* Mutant: intCodec without its int32 conversion.
intCodecEncodeNoCast(v) == WriteInt(v)
\* Mutant: int8Codec without its int8 conversion.
int8CodecDecodeNoCast(i) == Cell("int8", i)

intCodecEncode(v)     == WriteInt(Wrap(v, Int32Bits))     \* int32(*(*int)(ptr))
int8CodecDecode(i)    == Cell("int8", Wrap(i, Int8Bits))   \* int8(r.ReadInt())
int16CodecDecode(i)   == Cell("int16", Wrap(i, Int16Bits))
intFromFloat64CodecEncode(v)  == WriteInt(FloatToInt(v, Int32Bits))
longFromFloat64CodecEncode(v) == WriteLong(FloatToInt(v, Int64Bits))

\* dateCodec: t.UnixNano() / (24h) as int32; time.Unix(0, i * 24h).
dateCodecEncode(t) == WriteInt(Wrap(TruncDiv(UnixNanoOf(t), NsPerDay), Int32Bits))
dateCodecDecode(i) == Cell("time", Wrap(i * NsPerDay, Int64Bits))

\* timestampMillisCodec: t.Unix()*1e3 + t.Nanosecond()/1e6; time.Unix(sec, nsec).
timestampMillisCodecEncode(t) ==
  WriteLong(Wrap(UnixOf(t) * MsPerSec + NanosecondOf(t) \div NsPerMs, Int64Bits))
timestampMillisCodecDecode(i) ==
  LET sec  == TruncDiv(i, MsPerSec)
      nsec == (i - sec * MsPerSec) * NsPerMs
  IN  Cell("time", sec * NsPerSec + nsec)

\* timestampMicrosCodec: the same at microsecond precision.
timestampMicrosCodecEncode(t) ==
  WriteLong(Wrap(UnixOf(t) * MsPerSec * UsPerMs + NanosecondOf(t) \div NsPerUs, Int64Bits))
timestampMicrosCodecDecode(i) ==
  LET sec  == TruncDiv(i, MsPerSec * UsPerMs)
      nsec == (i - sec * MsPerSec * UsPerMs) * NsPerUs
  IN  Cell("time", sec * NsPerSec + nsec)

\* timeMillisCodec / timeMicrosCodec on a time.Duration (an int64 of ns).
timeMillisCodecEncode(d) == WriteInt(Wrap(TruncDiv(d, NsPerMs), Int32Bits))
timeMillisCodecDecode(i) == Cell("int64", Wrap(i * NsPerMs, Int64Bits))
timeMicrosCodecEncode(d) == WriteLong(TruncDiv(d, NsPerUs))
timeMicrosCodecDecode(i) == Cell("int64", Wrap(i * NsPerUs, Int64Bits))

\* bytesDecimalCodec / bytesDecimalPtrCodec: Encode reads the memory as a
\* big.Rat; Decode stores ratFromBytes (the signed value it computes first
\* and discards changes nothing).
bytesDecimalCodecEncode(r, scale) == WriteBytes(DecimalBytes(r, scale))
bytesDecimalCodecDecode(t, b, scale) == Cell(t, ratFromBytes(b, scale))

\* Encode of codec c on memory of host type h holding v.  A bytes decimal
\* codec on any memory but a big.Rat reads it as one: undefined, a crash or
\* arbitrary bytes.
EncodeOutcomes(c, h, v, schema) ==
  CASE c = "null"  -> {Ok(<<>>)}
    [] c = "bool"  -> {Ok(<<Token("bool", v)>>)}
    [] c = "int"   -> {Ok(<<intCodecEncode(v)>>)}
    [] c \in {"int8", "int16", "int32"} -> {Ok(<<WriteInt(v)>>)}
    [] c \in {"int32Long", "int64"}     -> {Ok(<<WriteLong(v)>>)}
    [] c = "float32" -> {Ok(<<Token("float", v)>>)}
    [] c \in {"float32Double", "float64"} -> {Ok(<<Token("double", v)>>)}
    [] c = "intFromFloat64"  -> {Ok(<<intFromFloat64CodecEncode(v)>>)}
    [] c = "longFromFloat64" -> {Ok(<<longFromFloat64CodecEncode(v)>>)}
    [] c \in {"string", "bytes"} -> {Ok(<<Token(c, v)>>)}
    [] c = "date"            -> {Ok(<<dateCodecEncode(v)>>)}
    [] c = "timestampMillis" -> {Ok(<<timestampMillisCodecEncode(v)>>)}
    [] c = "timestampMicros" -> {Ok(<<timestampMicrosCodecEncode(v)>>)}
    [] c = "timeMillis"      -> {Ok(<<timeMillisCodecEncode(v)>>)}
    [] c = "timeMicros"      -> {Ok(<<timeMicrosCodecEncode(v)>>)}
    [] c \in {"bytesDecimal", "bytesDecimalPtr"} /\ h \in {"rat", "ratptr"} ->
         {Ok(<<bytesDecimalCodecEncode(v, schema.scale)>>)}
    [] c \in {"bytesDecimal", "bytesDecimalPtr"} /\ h \notin {"rat", "ratptr"} ->
         {Crash} \cup {Ok(<<WriteBytes(<<d>>)>>) : d \in 0 .. Base - 1}

\* Decode of codec c from token tok: the cell it stores through the pointer,
\* typed by the codec, whatever the host type.
DecodeCell(c, tok, schema) ==
  LET i == tok.v IN
  CASE c \in {"bool", "int", "int32", "int64", "float32", "float64",
              "string", "bytes"} -> Cell(c, i)
    [] c = "int8"            -> int8CodecDecode(i)
    [] c = "int16"           -> int16CodecDecode(i)
    [] c = "date"            -> dateCodecDecode(i)
    [] c = "timestampMillis" -> timestampMillisCodecDecode(i)
    [] c = "timestampMicros" -> timestampMicrosCodecDecode(i)
    [] c = "timeMillis"      -> timeMillisCodecDecode(i)
    [] c = "timeMicros"      -> timeMicrosCodecDecode(i)
    [] c = "bytesDecimal"    -> bytesDecimalCodecDecode("rat", i, schema.scale)
    [] c = "bytesDecimalPtr" -> bytesDecimalCodecDecode("ratptr", i, schema.scale)

-----------------------------------------------------------------------------
(* The transfer.                                                           *)

ValuesOf(h) ==
  CASE h = "bool" -> BOOLEAN
    [] h \in {"int", "int8", "int16", "int32", "int64"} ->
         {n \in IntValues : n \in RangeOf(IF h = "int8" THEN Int8Bits
                                          ELSE IF h = "int16" THEN Int16Bits
                                          ELSE IF h = "int32" THEN Int32Bits
                                          ELSE Int64Bits)}
    [] h \in {"float32", "float64"} -> {[f |-> x] : x \in FloatValues}
    [] h \in {"string", "bytes"}    -> TextValues
    [] h = "time"                   -> TimeValues
    [] h \in {"rat", "ratptr"}      -> RatValues

VARIABLES
  schema,   \* the schema both sides use
  wtype,    \* host type of the value encoded
  rtype,    \* host type the reader decodes into
  src,      \* the value encoded
  enc,      \* the encoder resolved ("none" before)
  dec,      \* the decoder resolved ("none" before)
  wire,     \* tokens written
  dst,      \* the reader's memory cell
  phase

vars == <<schema, wtype, rtype, src, enc, dec, wire, dst, phase>>

Init ==
  /\ schema \in Schemas
  /\ wtype \in WriterTypes
  /\ rtype \in ReaderTypes
  /\ src \in ValuesOf(wtype)
  /\ enc = "none" /\ dec = "none"
  /\ wire = <<>>
  /\ dst = NoCell
  /\ phase = "start"

\* Resolving the encoder: a panic in the resolver ends the program.
ResolveEncoder ==
  /\ phase = "start"
  /\ enc' = createEncoderOfNative(schema, wtype)
  /\ phase' = IF enc' = "panic" THEN "crashed" ELSE "encoderReady"
  /\ UNCHANGED <<schema, wtype, rtype, src, dec, wire, dst>>

\* Encode: the errorEncoder fails; any other codec writes its tokens or
\* crashes on an undefined read.
Encode ==
  /\ phase = "encoderReady"
  /\ \/ /\ enc = "error"
        /\ phase' = "failed"
        /\ UNCHANGED wire
     \/ /\ enc # "error"
        /\ \E o \in EncodeOutcomes(enc, wtype, src, schema) :
              /\ wire' = wire \o o.out
              /\ phase' = IF o.crashed THEN "crashed" ELSE "encoded"
  /\ UNCHANGED <<schema, wtype, rtype, src, enc, dec, dst>>

ResolveDecoder ==
  /\ phase = "encoded"
  /\ dec' = createDecoderOfNative(schema, rtype)
  /\ phase' = IF dec' = "panic" THEN "crashed" ELSE "decoderReady"
  /\ UNCHANGED <<schema, wtype, rtype, src, enc, wire, dst>>

\* Decode: the errorDecoder fails; any other codec stores the value it reads.
Decode ==
  /\ phase = "decoderReady"
  /\ \/ /\ dec = "error"
        /\ phase' = "failed"
        /\ UNCHANGED dst
     \/ /\ dec # "error"
        /\ dst' = DecodeCell(dec, Head(wire), schema)
        /\ phase' = "decoded"
  /\ UNCHANGED <<schema, wtype, rtype, src, enc, dec, wire>>

Next == ResolveEncoder \/ Encode \/ ResolveDecoder \/ Decode

Spec == Init /\ [][Next]_vars


-----------------------------------------------------------------------------
(* Properties.                                                             *)

Codecs == {"null", "bool", "int", "int8", "int16", "int32", "int32Long",
           "int64", "float32", "float32Double", "float64", "intFromFloat64",
           "longFromFloat64", "string", "bytes", "date", "timestampMillis",
           "timestampMicros", "timeMillis", "timeMicros", "bytesDecimal",
           "bytesDecimalPtr", "error", "panic"}

Phases == {"start", "encoderReady", "encoded", "decoderReady", "decoded",
           "failed", "crashed"}

TokenKinds == {"bool", "varint", "float", "double", "string", "bytes"}

\* What a cell of each Go type can hold.
CellDomain(t) ==
  CASE t = "bool"                -> BOOLEAN
    [] t = "int8"                -> RangeOf(Int8Bits)
    [] t = "int16"               -> RangeOf(Int16Bits)
    [] t = "int32"               -> RangeOf(Int32Bits)
    [] t \in {"int", "int64"}    -> RangeOf(Int64Bits)
    [] t \in {"float32", "float64"} -> [f : Int]
    [] t \in {"string", "bytes"} -> Seq(Nat)
    [] t = "time"                -> Int
    [] t \in {"rat", "ratptr"}   -> [num : Int, den : Int \ {0}]

\* Type invariant: every cell holds a value of its Go type (a narrowing
\* conversion that is missing shows here) and every varint is a long.
TypeOK ==
  /\ schema \in Schemas
  /\ wtype \in WriterTypes /\ rtype \in ReaderTypes
  /\ src \in ValuesOf(wtype)
  /\ enc \in Codecs \cup {"none"} /\ dec \in Codecs \cup {"none"}
  /\ Len(wire) <= 1
  /\ \A n \in 1 .. Len(wire) :
        /\ wire[n].k \in TokenKinds
        /\ wire[n].k = "varint" => wire[n].v \in RangeOf(Int64Bits)
  /\ dst = NoCell \/ (dst.type \in HostTypes /\ dst.val \in CellDomain(dst.type))
  /\ phase \in Phases

\* The token a schema allows on the wire: a Java or C reader of the same
\* schema accepts it (an int varint must fit in 32 bits).
ConformsTo(tok, s) ==
  CASE s.type = "boolean" -> tok.k = "bool"
    [] s.type = "int"     -> tok.k = "varint" /\ tok.v \in RangeOf(Int32Bits)
    [] s.type = "long"    -> tok.k = "varint" /\ tok.v \in RangeOf(Int64Bits)
    [] s.type = "float"   -> tok.k = "float"
    [] s.type = "double"  -> tok.k = "double"
    [] s.type = "string"  -> tok.k = "string"
    [] s.type = "bytes"   -> tok.k = "bytes" /\ \A j \in 1 .. Len(tok.v) : tok.v[j] \in 0 .. Base - 1
    [] s.type = "null"    -> FALSE

\* Whatever host value the encoder is given, every token it writes is one
\* the schema allows: the narrowing casts of intCodec, intFromFloat64Codec,
\* dateCodec and timeMillisCodec keep an int schema's varint in 32 bits,
\* which is also what keeps Reader.ReadInt from ever rejecting it.
WireConformsToSchema == \A n \in 1 .. Len(wire) : ConformsTo(wire[n], schema)

\* createDecoderOfNative never panics: its decimal type assertions are
\* reached only for schemas whose logical type is decimal.
DecoderNeverPanics == dec # "panic"

\* createEncoderOfNative never panics (spec 4.D: resolution never panics;
\* an unsupported pair gets an error encoder).
EncoderNeverPanics == enc # "panic"

\* Spec 4.D: a bytes schema with the decimal logical type binds a rational
\* value, and any other pair gets an error plan; so the decimal codecs,
\* whose Encode reads the memory as a big.Rat, are resolved only for a
\* big.Rat or a *big.Rat, never for a time.Time.
EncoderReadsItsHostType ==
  enc \in {"bytesDecimal", "bytesDecimalPtr"} => wtype \in {"rat", "ratptr"}

\* The extent of the encoder's panic: once resolved, the encoder panics
\* exactly for a big.Rat on a schema other than bytes, the null schema
\* included, and for nothing else (no time.Time, no *big.Rat, no bytes).
EncoderPanicsExactlyOnRat ==
  enc # "none" => (enc = "panic" <=> (wtype = "rat" /\ schema.type # "bytes"))

\* bytesDecimalCodec.Encode writes the two's complement of the unscaled
\* value: read back with the decoders' sign rule, the bytes it writes for
\* num/den at a scale whose 10^scale fits int64 are floor(num*10^scale/den),
\* for every sign and every length (leading zero byte, sign extension).
DecimalEncodingExact ==
  (/\ Len(wire) = 1
   /\ enc \in {"bytesDecimal", "bytesDecimalPtr"}
   /\ wtype \in {"rat", "ratptr"}
   /\ 10 ^ schema.scale <= MaxOf(Int64Bits))
  => SignedOfBytes(wire[1].v) = UnscaledOf(src, schema.scale)

\* Spec 4.D: the decimal encoding uses the minimum byte length that keeps
\* the sign: its first byte is never a pure sign extension of the second.
DecimalEncodingMinimal ==
  (Len(wire) = 1 /\ enc \in {"bytesDecimal", "bytesDecimalPtr"} /\ wtype \in {"rat", "ratptr"})
  => LET b == wire[1].v
     IN  Len(b) >= 2 => ~(\/ b[1] = 0 /\ b[2] < Base \div 2
                          \/ b[1] = Base - 1 /\ b[2] >= Base \div 2)

\* A host value that denotes a value of the schema (spec 8: the values
\* round-trip is promised for).
IsWhole(h, v) ==
  \/ h \in {"int", "int8", "int16", "int32", "int64"}
  \/ h \in {"float32", "float64"} /\ v.f % 2 = 0
WholeOf(h, v) == IF h \in {"float32", "float64"} THEN v.f \div 2 ELSE v

Validates(s, h, v) ==
  LET lt == s.logical IN
  IF lt = "date" THEN h = "time" /\ v % NsPerDay = 0 /\ v \div NsPerDay \in RangeOf(Int32Bits)
  ELSE IF lt = "time-millis" THEN h = "int64" /\ v % NsPerMs = 0 /\ v \div NsPerMs \in RangeOf(Int32Bits)
  ELSE IF lt = "time-micros" THEN h = "int64" /\ v % NsPerUs = 0
  ELSE IF lt = "timestamp-millis" /\ h = "time"
       THEN v % NsPerMs = 0 /\ v \div NsPerMs \in RangeOf(Int64Bits)
  ELSE IF lt = "timestamp-micros" /\ h = "time"
       THEN v % NsPerUs = 0 /\ v \div NsPerUs \in RangeOf(Int64Bits)
  ELSE IF lt = "decimal" THEN h \in {"rat", "ratptr"} /\ (v.num * 10 ^ s.scale) % v.den = 0
  ELSE IF s.type \in {"int", "long"}
       THEN IsWhole(h, v) /\ WholeOf(h, v) \in RangeOf(IF s.type = "int" THEN Int32Bits ELSE Int64Bits)
  ELSE IF s.type \in {"float", "double"} THEN h \in {"float32", "float64"}
  ELSE IF s.type = "boolean" THEN h = "bool"
  ELSE IF s.type \in {"string", "bytes"} THEN h = s.type
  ELSE FALSE

SameValue(a, b) ==
  /\ a.type = b.type
  /\ IF a.type \in {"rat", "ratptr"} THEN a.val.num * b.val.den = b.val.num * a.val.den
     ELSE a.val = b.val

\* What the host reads from a cell through its own type: a float64 whose
\* memory holds an int64 reads the IEEE value of those bits, equal to the
\* integer only for 0 (any other small integer is a subnormal or a NaN).
ReadAs(h, c) ==
  IF h = "float64" /\ c.type = "int64" /\ c.val = 0 THEN Cell("float64", [f |-> 0]) ELSE c

\* Spec 8, round-trip: a value that validates against the schema, encoded
\* and decoded into the same host type, comes back equal.
RoundTrip ==
  (phase = "decoded" /\ wtype = rtype /\ Validates(schema, wtype, src))
  => SameValue(ReadAs(rtype, dst), Cell(wtype, src))

\* Spec 7: a value out of range for the host width is a CodecError; a
\* successful decode of an integer stores exactly the integer on the wire.
NoSilentTruncation ==
  (phase = "decoded" /\ dec \in {"int", "int8", "int16", "int32", "int64"})
  => dst.val = Head(wire).v

=============================================================================
