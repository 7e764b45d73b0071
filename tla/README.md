# Formal model of hamba-avro's native codecs

This directory holds TLA+ modules, TLC configurations and TLAPS proofs for
the part of the Avro library that lives under `src/`. The main piece is
`src/codec_native.go`: the resolver that picks a codec for a (schema, Go
type) pair, and the codecs that move one primitive or logical value between
Go memory and the wire. The second piece is `src/registry/client.go`: the
schema-registry client, whose cache and HTTP calls are shared by
concurrent goroutines.

## The system and its parts

| Part (spec section) | Source | Status | Module |
|---|---|---|---|
| Codec resolver, primitive and logical types (4.D) | `src/codec_native.go` | modelled | `NativeCodec` |
| Primitive I/O: Reader/Writer (4.A) | not under `src/` | partly, from the spec | `NativeCodec` (tokens) |
| Schema model and parser (4.B, 4.C) | not under `src/` | partly, from the spec | `NativeCodec` (`Schemas`) |
| Records, arrays, maps, unions, generic layer, plan cache (4.D, 4.E) | not under `src/` | not modelled | – |
| OCF container (4.F) | only tests under `src/` | not modelled | – |
| Registry client (4.G) | `src/registry/client.go` | modelled | `RegistryServer`, `RegistryClient`, `RegistryAbstract`, `RegistryProofs` |

The parts interact like this. A Marshal call resolves an encoder for the
schema and the value's Go type, runs it, and so writes primitives through the
Writer. An Unmarshal call resolves a decoder for the schema and the target's
Go type, runs it, and so reads primitives and stores them through an
`unsafe.Pointer`. Because the codecs write through untyped pointers, a
resolver that picks the wrong codec does not raise an error. It writes the
wrong bits into the target memory. That is the main thing this model looks
for.

## NativeCodec.tla

**Constants.** Go's integer widths are scaled down. `ByteBits`, `Int8Bits`,
`Int16Bits`, `Int32Bits` and `Int64Bits` give the widths. The time units are
`NsPerUs`, `UsPerMs`, `MsPerSec` and `SecPerDay`. `Arch` fixes what an
out-of-range float-to-int conversion produces: amd64 gives the minimum
integer, arm64 saturates. The remaining constants are the sets of host values
and the decimal scales. `WidthAssumption`, `UnitAssumption` and
`DomainAssumption` state what the definitions need.

**Data.**
- A host value is a typed cell `[type, val]`, one of 13 host types (bool,
  int … int64, float32/64, string, bytes, time.Time, big.Rat, *big.Rat).
  `KindOf` maps a host type to its reflect kind.
- A float is a count of halves.
- A time.Time is a count of nanoseconds. `UnixOf`, `NanosecondOf` and
  `UnixNanoOf` give what Go's methods return, with int64 overflow.
- A rational is `[num, den]`.
- A schema is a primitive type, a logical type and a scale. `Schemas` holds
  every primitive and every logical type the parser attaches to it.
- The wire holds primitive tokens: `WriteInt`/`WriteLong` give varints,
  `WriteBytes` gives byte sequences. The varint byte layout is not modelled.

**Conversions.** Go conversions are `Wrap` (two's complement, width w) and
`TruncDiv` (Go `/`). The decimal codec's big.Int arithmetic is modelled by
what it does: `BitLen`, `BytesOf`, `SetBytes`, `SignedOfBytes`,
`DecimalBytes` and `ratFromBytes`.

**Resolver.**
- `createDecoderOfNative` and `createEncoderOfNative` follow the Go switches
  arm by arm.
- The struct cases are the separate operators `decoderOfStruct` and
  `encoderOfStruct`.
- `encoderOfStruct` keeps the code's operator precedence:
  `rat && st != Bytes || lt == Decimal`.
- `AssertDecimal` models the `ls.(*DecimalLogicalSchema)` type assertion. It
  panics when the schema has no decimal logical type.
- Go's first-match `switch` is written as IF/ELSE chains, not `CASE`. A TLA+
  `CASE` whose arms overlap picks one of them arbitrarily.

**Codecs.** Each codec has its own operator: `intCodecEncode`,
`int8CodecDecode`, `dateCodecEncode`, `timestampMillisCodecDecode`,
`bytesDecimalCodecEncode` and so on. `EncodeOutcomes` and `DecodeCell`
dispatch on the codec name. A decimal codec resolved for memory that does not
hold a big.Rat reads that memory as one, which is undefined behaviour. It is
modelled as a choice between a crash and arbitrary bytes.

**State and actions.** One transfer is modelled. The variables are `schema`,
`wtype`/`rtype` (the writer's and reader's Go types), `src`, `enc`/`dec` (the
resolved codecs), `wire`, `dst` (the target cell) and `phase`. The actions
are `ResolveEncoder`, `Encode`, `ResolveDecoder` and `Decode`, in that order:

- A `"panic"` resolution moves the transfer to `crashed`.
- An error plan fails on its first use (`failed`).
- Encode and decode otherwise run the chosen codec.

The drivers (Marshal, Unmarshal) are not under `src/`, so these four actions
are marked as modelled from the spec.

## Runs (`MC_NativeCodec.tla` and its cfgs)

The instance:
- **Widths.** 2-bit bytes, and int8/16/32/64 of 2/3/4/8 bits.
- **Time units.** 2 ns per µs, 2 µs per ms, 2 ms per s and 4 s per day, so a
  day is 32 ns.
- **Why these units.** As in Go, a day count that fits in int32 can overflow
  int64 nanoseconds (here from day 4 on). Likewise, 10^scale overflows int64
  at a scale the parser accepts (here 3).
- **Sample values.** They sit at each width's boundaries (-128, -8, 7, 8,
  100), on both sides of the epoch and of a day boundary, and at the decimal
  cases: zero, positive with the high bit set, and negative at a power-of-two
  magnitude.
- **Coverage.** Every schema, every pair of host types and every sample value
  is explored.
- **Deadlock.** It is not checked (`CHECK_DEADLOCK FALSE`), because a
  transfer ends.

| Run | Cfg | Expect | What it shows |
|---|---|---|---|
| native_codec_safety | MC_NativeCodec.cfg | pass | See the list below. About 62,000 states. |
| encoder_rat_panic | MC_EncoderPanic.cfg | violation | `EncoderNeverPanics`: a `big.Rat` against an `int` schema panics in resolution, where spec 4.D says resolution never panics. |
| encoder_host_type | MC_EncoderHostType.cfg | violation | `EncoderReadsItsHostType`: a `time.Time` under a bytes-decimal schema gets `bytesDecimalCodec`, whose Encode reads the time's memory as a `big.Rat`. Spec 4.D binds a bytes decimal only to a rational and gives other pairs an error plan. The same precedence at line 231 causes it. |
| float64_int_roundtrip | MC_Float64Int.cfg | violation | `RoundTrip`: float64 under an `int` schema decodes through `int64Codec` into float memory. |
| date_overflow | MC_DateOverflow.cfg | violation | `RoundTrip`: a date beyond the int64-nanosecond range comes back as another date. |
| narrow_decode | MC_NarrowDecode.cfg | violation | `NoSilentTruncation`: an int decoded into int8/int16 keeps the low bits, where the spec calls it a CodecError. |
| decimal_minimal | MC_DecimalMinimal.cfg | violation | `DecimalEncodingMinimal`: negative decimals at -2^(8k-1) get one byte more than the minimum the spec asks for. |
| decimal_truncation | MC_DecimalTruncation.cfg | violation | `RoundTrip`: a big.Rat whose unscaled value exceeds int64 (here -64 at scale 2, unscaled -6400, written as 7 two-bit bytes) is encoded exactly but decodes to 0/100. `ratFromBytes` keeps only `i.Int64()`. |

What native_codec_safety checks:
- `TypeOK`: values stay typed.
- `WireConformsToSchema`: every token written is one the schema admits, and
  int tokens stay inside int32.
- `DecimalEncodingExact`: a decimal's bytes decode to exactly the unscaled
  value, whenever 10^scale fits.
- `DecoderNeverPanics`.
- `EncoderPanicsExactlyOnRat`: the encoder panics exactly for a big.Rat on a
  non-bytes schema. This pins down how far the precedence slip reaches.

Every property of the passing run has a mutant in `PROJECT.json` that TLC
catches. The mutants are:
- dropping the int8 cast on decode;
- dropping the int32 cast on encode;
- loosening the decoder's struct test as the encoder has it;
- dropping the sign padding of positive decimals;
- the encoder's struct test as it was presumably meant.

## Proofs (`NativeCodecProofs.tla`)

TLAPS proves, for every value of the constants:
- `DecoderNeverPanicsThm`: `Spec => []DecoderNeverPanics`.
- `EncoderPanicsExactlyOnRatThm`: `Spec => []EncoderPanicsExactlyOnRat`.

**Lemmas.** Three lemmas read the resolver tables:
- `DecimalOnlyOnBytes`: the parser attaches decimal only to bytes.
- `DecoderTotal`: the decoder resolver never returns a panic.
- `EncoderPanics`: the encoder resolver panics exactly for a rat on a
  non-bytes schema.

**Inductive invariant.** Neither property is inductive on its own: it says
nothing about which codec `enc` and `dec` can hold. The invariant `IInv`
states that the resolved codecs are `"none"` or exactly what the resolver
gives for the behaviour's schema and host types. It also states that `enc` is
resolved exactly when the phase has left `start`. The proof shows that `Init`
implies `IInv`, that every action preserves it (one case per action), and
that `IInv` implies each property. The step to `[]` is by PTL. The
assumptions used are `DomainAssumption` (the host types come from the 13
modelled types).

**The timestamp codecs' arithmetic.** Two more theorems hold for every
time `t` and every unit ratio:
- `TimestampMillisRoundTripThm`. `timestampMillisCodec.Encode` computes
  `t.Unix()*1e3 + t.Nanosecond()/1e6`. Decoding that value, before its
  int64 conversion, gives `t` rounded down to the millisecond.
- `TimestampMicrosRoundTripThm`: the same at microsecond precision.

Both rest on four lemmas:
- `DivUnique` and `DivMod`: facts about integer division.
- `UnixSplit`: `t.Unix()` floors and `t.Nanosecond()` lies in [0, 1s).
- The `...EncodeFloor` lemmas: the encoder's sum is the floor of `t` over
  the unit.
- The `...DecodeExact` lemmas: `time.Unix(sec, nsec)` with a negative `nsec`
  rebuilds exactly `i` units.

So, short of the int64 wrap, a time before 1970 is also rounded toward the
past.

**The date and duration codecs' arithmetic.** `TruncDivTowardZeroThm` holds
for every integer `a` and every positive unit `b`. `dateCodec`,
`timeMillisCodec` and `timeMicrosCodec` divide with Go's `/`, which
truncates, and multiply back on decode. Short of their int32 and int64
conversions, a value therefore comes back as `TruncDiv(a, b) * b`:
- exactly `a` when `a` is a whole number of units (`a % b = 0`), and only
  then;
- otherwise rounded toward zero, by less than one unit.

So a `time.Time` before 1970 that is not a midnight comes back through the
date logical type as the following midnight, later than it was. One after
1970 comes back as the midnight before it. This differs from the
timestamp codecs, which round down on both sides. The proof splits on the
sign of `a` and uses `DivMod` on `a` or `-a`. What the conversions do is
only model-checked (`RoundTrip` in the `date_overflow` run).

**Only model-checked.** `TypeOK`, `WireConformsToSchema` and
`DecimalEncodingExact` are checked by TLC only. They need facts about `^`
that the installed provers lack: they cannot even show
2^(n+1) = 2·2^n. Examples are the range of `Wrap` and the byte values of
`BytesOf`. Such a fact could only be assumed, not proved, so these
invariants stay with TLC. They also rest on `BitLen`, a CHOOSE bounded by
4·`Int64Bits`, so they do not hold for unbounded `RatValues`. Liveness is
not at stake: a transfer is a straight line of four steps.

## The registry client

`registry.Client` is one value shared by any number of goroutines. Its only
shared state is `cache`, a `concurrent.Map` from schema id to parsed schema.
`GetSchema` first does a `Load`; on a miss it sends `GET /schemas/ids/{id}`,
parses the reply with `avro.Parse` and `Store`s it. Every other method sends
one request and turns the reply into its result. `CreateSchema` and
`IsRegistered` POST the schema and only then parse it locally.
`GetLatestSchemaInfo` parses the schema of the info it receives.
`Client.request` returns a transport error from `c.client.Do`, a registry
`Error` for a status >= 400, or the decoded body.

**`RegistryServer.tla`** is the registry, as the client's environment (spec
4.G):
- **State.** `schemaOf` maps each id to its text. `versions` maps each
  subject to the ids of its versions.
- **Requests.** `Ops` has one record per method of the `Registry`
  interface.
- **Registration.** `NewSchemaOf` and `AfterVersions` model a POST. A text
  already known keeps its id. A new valid text gets any free id: ids are
  global and other clients register too. The id is appended to the subject
  unless the text is already one of its versions.
- **Replies.** `Reply` gives the answer to each request. `Ok`, `HttpErr`
  and `NetErr` are the three things `request` can return.
- **Texts.** A parsed `avro.Schema` is represented by its text. The
  registry's own validation (`ServerAccepts`) and `avro.Parse` in the
  client process (`ClientParses`) are separate sets, so the two can
  disagree.

**`RegistryClient.tla`** is the client with concurrent callers.

*State.*
- `pc`, `op`, `resp`, `ret` and `calls` are per caller. `pc` is `idle`,
  `sent` (inside `c.client.Do`) or `replied`.
- `cache` is the concurrent.Map.
- `schemaOf` and `versions` are the registry.

*Actions.* Each `concurrent.Map` operation is atomic, and nothing else is
shared, so the steps of different callers interleave freely.
- `CacheHit`: a `Load` that hits.
- `Call`: any method sends its request. For GetSchema this follows a
  missed `Load`.
- `Serve`: the registry handles the request and its reply arrives.
- `LoseRequest`: the request is lost before the registry sees it.
- `LoseReply`: the registry handles the request and the reply is lost.
  This is the fault model. Both losses end `Do` with a transport error.
- `Complete`: the method's tail. For GetSchema that is parse, `Store`,
  return. For the other methods, `Returns` gives the result.

*No fairness.* `defaultClient` sets no overall timeout, so a call ends only
when the registry or the network ends it. The registry is the client's
environment, and nothing in the code makes it answer. The specification
therefore has no fairness and claims no liveness: a sent request may stay
unanswered forever, as it can in the code. A property "every call
returns" would hold only by assuming the registry answers, and the call
has no loop, so it would follow from that assumption alone.

*Properties.*
- `CacheMatchesServer`: every cached schema is the one the registry holds
  under its id, and it parsed.
- `CreateErrMeansNotRegistered`: what the doc comment of `CreateSchema`
  suggests, that an error means nothing was created.
- `ImplementsAbstract`: the refinement below.

**`RegistryAbstract.tla`** is what the client promises, with no cache and
no network. Each call is linearizable:
- `ACall` invokes it.
- `ATakeEffect` is the instant at which the registry handles it, or fails
  it.
- `AReturn` returns that instant's answer, or an error, which may carry an
  id.
- `AInstant` is a read answered from the registry's state at the instant it
  is made. Cache hits map to it.

`RegistryClient` instantiates it with `apc <- APc`. `APc` maps
`idle`/`sent`/`replied` to `idle`/`called`/`answered`, and `op` and `resp`
map to `aop` and `ans` directly. `ImplementsAbstract == Abs!ASpec` is then
checked as a property. That a cache hit maps to a correct `AInstant` is
exactly the claim that the cache is never stale.

**Runs** (`MC_RegistryClient.tla`). The instance has two callers with two
calls each, one subject, two texts and two ids, which is enough for two
versions whose numbers differ from their ids. The registry accepts both
texts. `avro.Parse` here accepts only `t1`. That is enough for:
- concurrent misses of the same id;
- a hit racing a Create;
- a lost reply to a POST;
- a parse failure after registration.

| Run | Cfg | Expect | What it shows |
|---|---|---|---|
| registry_client | MC_RegistryClient.cfg | pass | `TypeOK`, `CacheMatchesServer`, `ImplementsAbstract` over a lossy network (about 446,000 states, 2 minutes). Deadlock is not checked: callers stop after their calls. |
| registry_create_partial | MC_RegistryCreate.cfg | violation | `CreateErrMeansNotRegistered`: one caller, reliable network. `CreateSchema(s1, t2)` registers t2, then `avro.Parse` fails and the method returns an error (with the id). |

The mutants, each caught:
- `GetLatestSchemaInfo` returning the schema: `TypeOK`;
- storing before the parse: `CacheMatchesServer`;
- swapping ID and Version in `schemaInfoPayload.Parse`: `ImplementsAbstract`.

**Proofs (`RegistryProofs.tla`).** These theorems hold for any sets of
callers, subjects, texts and ids, with `Lossy` either way.
- `CacheMatchesServerThm`: `Spec => []CacheMatchesServer`.
- `TypeOKThm`: `Spec => []TypeOK`.
- `ImplementsAbstractThm`: `Spec => ImplementsAbstract`. This is the
  safety part of the refinement, the whole of `ASpec`.

**Inductive invariant.** `CacheMatchesServer` is not inductive on its own.
A `Store` writes what a reply carried, so the invariant `IInv` adds:
- a GetSchema reply not yet consumed holds the registry's text for its id,
  and that id is taken;
- a successful Info, Create or IsRegistered reply carries ids (needed by
  the refinement, whose errors carry an id);
- the types of the variables.

**Why `TypeOK` needs more.** `TypeOK` is not inductive either. A
GetVersions reply is a list `1..Len(versions[s])`, which `TypeOK` types as
`Seq(1 .. Cardinality(Ids))`. A GetSchemaByVersion or GetLatestSchema reply
is the text of a listed id. Both hold only because of `VersionsInv`:
- the registry appends an id only for a text that no version of the subject
  holds, so the id is new to the subject (`AfterVersionsOK`, with
  `AppendInjective`);
- a list of distinct ids is no longer than `Ids` (`VersionsBound`, from
  `FS_Injection` of FiniteSetTheorems);
- a listed id holds a text, since ids are never freed.

So `TInv` is `IInv /\ VersionsInv /\ TypeOK /\ DOMAIN ret = Callers`.
`InitTInv` and `NextTInv` show it is inductive. TLC checked `TInv` as an
invariant of the `registry_client` instance before the proof
(446,251 states). The typing lemmas are:
- `ReplyType`: every reply has its method's type;
- `ReturnsType`: every method turns such a reply into a result of its type;
- `BodyOfKinds`, `InReplies`, `InResults`: read the type tables.

**Lemmas.**
- `NewSchemaOfKeepsIds`: a registry step only fills free ids. This is why a
  pending reply and the cache stay right.
- `AfterVersionsType`, `ReplyPayload`, `ReturnsAbstract`: what the
  registry's and the methods' switches return.
- `SameServer`: the instance's copies of the registry operators equal the
  client's.

**The refinement proof.** `InitRefines` covers the initial state, and
`NextRefines` has one step per action:
- a cache hit is an `AInstant`, by `CacheMatchesServer`;
- `Call` is an `ACall`;
- `Serve` and the two losses are an `ATakeEffect`;
- `Complete` is an `AReturn`;
- a stutter is a stutter.

**Only model-checked.** Nothing: every property the registry run checks is
also proved. `VersionsInv` is proved only as part of `TInv`. It is a fact
about the registry, which is modelled from the spec, not about
`client.go`.

## Not modelled, and the plan

- **Nil pointers.** A nil `*big.Rat` on encode panics
  (`src/codec_native.go:537`). The host values hold no nil pointer. Nil is
  bound to `[null, T]` unions by the pointer/union layer, which is not
  under `src/`. The spec says nothing of a nil under a plain decimal
  schema.
- **Spec-only parts.** Primitive I/O (its varint layout and sticky error),
  the complex-type resolver and OCF are given only in the spec.
- **Registry configuration.** URL building, JSON encoding, basic auth and
  the `ClientFunc` options only shape the request; they are left out. A
  registry that never answers is allowed (there is no fairness), but no
  property is claimed about it.
- **Deleted schemas.** The spec names no deletion, so the modelled registry
  never frees or reassigns an id. A registry that hard-deletes a schema
  and reuses its id would leave the never-evicted cache stale
  (`client.go:170`). Nothing in the client could notice.
- **More proofs.** `WireConformsToSchema` and `TypeOK` of `NativeCodec`
  need facts about powers of two that the provers lack (see above). They
  are not taken as assumptions.
