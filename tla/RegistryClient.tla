--------------------------- MODULE RegistryClient ---------------------------
(***************************************************************************)
(* registry.Client (src/registry/client.go) shared by concurrent callers.  *)
(* Each caller runs one method at a time: GetSchema first consults the     *)
(* concurrent.Map cache; a method that misses sends one HTTP request,      *)
(* which the registry handles at some later instant, and the network may   *)
(* lose the request or the reply; the method then turns the response into *)
(* its result, GetSchema storing what it parsed.  Steps of different       *)
(* callers interleave freely: concurrent.Map makes each Load and Store     *)
(* atomic and nothing else is shared.                                      *)
(***************************************************************************)
EXTENDS RegistryServer

VARIABLES
  schemaOf,   \* the registry: id -> schema text
  versions,   \* the registry: subject -> ids of its versions
  cache,      \* Client.cache: id -> parsed schema, NoText for absent
  pc,         \* each caller: "idle", "sent" (in c.client.Do), "replied"
  op,         \* each caller's current or last request
  resp,       \* the response c.request got
  ret,        \* each caller's last result
  calls       \* calls each caller has made

vars == <<schemaOf, versions, cache, pc, op, resp, ret, calls>>

\* avro.Parse in the client process, abstracted to whether it succeeds.
Parses(t) == t \in ClientParses

\* c.request: a transport error or a status >= 400 is an error; otherwise
\* the body is decoded into the method's payload.
Failed(r) == r.status # "ok"

OkR(k, v) == [kind |-> k, status |-> "ok", val |-> v]
ErrR(v)   == [kind |-> "err", status |-> "err", val |-> v]

\* Mutant: GetLatestSchemaInfo returns the schema, as GetLatestSchema does.
ReturnsSchemaForInfo(o, r) ==
  IF Failed(r) THEN ErrR(NoVal)
  ELSE CASE o.kind \in {"GetSubjects", "GetVersions"} -> OkR(o.kind, r.payload)
         [] o.kind \in {"GetSchemaByVersion", "GetLatestSchema"} ->
              IF Parses(r.payload) THEN OkR(o.kind, r.payload) ELSE ErrR(NoVal)
         [] o.kind = "GetLatestSchemaInfo" ->
              IF Parses(r.payload.text) THEN OkR(o.kind, r.payload.text) ELSE ErrR(r.payload.id)
         [] o.kind \in {"CreateSchema", "IsRegistered"} ->
              IF Parses(o.text) THEN OkR(o.kind, r.payload) ELSE ErrR(r.payload)

\* Mutant: schemaInfoPayload.Parse with ID and Version swapped.
ReturnsSwappingInfo(o, r) ==
  IF Failed(r) THEN ErrR(NoVal)
  ELSE CASE o.kind \in {"GetSubjects", "GetVersions"} -> OkR(o.kind, r.payload)
         [] o.kind \in {"GetSchemaByVersion", "GetLatestSchema"} ->
              IF Parses(r.payload) THEN OkR(o.kind, r.payload) ELSE ErrR(NoVal)
         [] o.kind = "GetLatestSchemaInfo" ->
              IF Parses(r.payload.text)
              THEN OkR(o.kind, [text |-> r.payload.text, id |-> r.payload.version,
                                version |-> r.payload.id])
              ELSE ErrR(r.payload.id)
         [] o.kind \in {"CreateSchema", "IsRegistered"} ->
              IF Parses(o.text) THEN OkR(o.kind, r.payload) ELSE ErrR(r.payload)

\* The result each method but GetSchema returns for response r.
Returns(o, r) ==
  IF Failed(r) THEN ErrR(NoVal)
  ELSE CASE o.kind \in {"GetSubjects", "GetVersions"} -> OkR(o.kind, r.payload)
         [] o.kind \in {"GetSchemaByVersion", "GetLatestSchema"} ->
              IF Parses(r.payload) THEN OkR(o.kind, r.payload) ELSE ErrR(NoVal)
         [] o.kind = "GetLatestSchemaInfo" ->
              IF Parses(r.payload.text) THEN OkR(o.kind, r.payload) ELSE ErrR(r.payload.id)
         [] o.kind \in {"CreateSchema", "IsRegistered"} ->
              IF Parses(o.text) THEN OkR(o.kind, r.payload) ELSE ErrR(r.payload)

Init ==
  /\ schemaOf = [i \in Ids |-> NoText]
  /\ versions = [s \in Subjects |-> <<>>]
  /\ cache = [i \in Ids |-> NoText]
  /\ pc = [c \in Callers |-> "idle"]
  /\ op = [c \in Callers |-> NoOp]
  /\ resp = [c \in Callers |-> NetErr]
  /\ ret = [c \in Callers |-> NoResult]
  /\ calls = [c \in Callers |-> 0]

\* GetSchema whose c.cache.Load hits returns the cached schema at once.
CacheHit(c, id) ==
  /\ pc[c] = "idle" /\ calls[c] < MaxCalls
  /\ cache[id] # NoText
  /\ op' = [op EXCEPT ![c] = [kind |-> "GetSchema", id |-> id]]
  /\ ret' = [ret EXCEPT ![c] = OkR("GetSchema", cache[id])]
  /\ calls' = [calls EXCEPT ![c] = @ + 1]
  /\ UNCHANGED <<schemaOf, versions, cache, pc, resp>>

\* Any other call sends its request (GetSchema after a missed Load).
Call(c, o) ==
  /\ pc[c] = "idle" /\ calls[c] < MaxCalls
  /\ o.kind = "GetSchema" => cache[o.id] = NoText
  /\ pc' = [pc EXCEPT ![c] = "sent"]
  /\ op' = [op EXCEPT ![c] = o]
  /\ calls' = [calls EXCEPT ![c] = @ + 1]
  /\ UNCHANGED <<schemaOf, versions, cache, resp, ret>>

\* The registry handles the request and its reply reaches c.client.Do.
Serve(c) ==
  /\ pc[c] = "sent"
  /\ \E so2 \in NewSchemaOf(op[c], schemaOf) :
       schemaOf' = so2 /\ versions' = AfterVersions(op[c], so2, versions)
  /\ resp' = [resp EXCEPT ![c] = Reply(op[c], schemaOf', versions')]
  /\ pc' = [pc EXCEPT ![c] = "replied"]
  /\ UNCHANGED <<cache, op, ret, calls>>

\* The request never reaches the registry: Do returns a transport error.
LoseRequest(c) ==
  /\ Lossy /\ pc[c] = "sent"
  /\ resp' = [resp EXCEPT ![c] = NetErr]
  /\ pc' = [pc EXCEPT ![c] = "replied"]
  /\ UNCHANGED <<schemaOf, versions, cache, op, ret, calls>>

\* The registry handles the request but its reply is lost.
LoseReply(c) ==
  /\ Lossy /\ pc[c] = "sent"
  /\ \E so2 \in NewSchemaOf(op[c], schemaOf) :
       schemaOf' = so2 /\ versions' = AfterVersions(op[c], so2, versions)
  /\ resp' = [resp EXCEPT ![c] = NetErr]
  /\ pc' = [pc EXCEPT ![c] = "replied"]
  /\ UNCHANGED <<cache, op, ret, calls>>

\* Mutant: GetSchema stores the payload before avro.Parse has accepted it.
CompleteStoringUnparsed(c) ==
  LET o == op[c]
      r == resp[c]
  IN
  /\ pc[c] = "replied"
  /\ pc' = [pc EXCEPT ![c] = "idle"]
  /\ IF o.kind = "GetSchema" /\ ~Failed(r)
     THEN cache' = [cache EXCEPT ![o.id] = r.payload]
     ELSE UNCHANGED cache
  /\ ret' = [ret EXCEPT ![c] = IF o.kind = "GetSchema"
                                THEN IF ~Failed(r) /\ Parses(r.payload)
                                     THEN OkR(o.kind, r.payload) ELSE ErrR(NoVal)
                                ELSE Returns(o, r)]
  /\ UNCHANGED <<schemaOf, versions, op, resp, calls>>

\* The method returns; GetSchema parses the payload and, when it parses,
\* stores it with c.cache.Store before returning it.
Complete(c) ==
  LET o == op[c]
      r == resp[c]
  IN
  /\ pc[c] = "replied"
  /\ pc' = [pc EXCEPT ![c] = "idle"]
  /\ IF o.kind = "GetSchema"
     THEN IF ~Failed(r) /\ Parses(r.payload)
          THEN /\ cache' = [cache EXCEPT ![o.id] = r.payload]
               /\ ret' = [ret EXCEPT ![c] = OkR(o.kind, r.payload)]
          ELSE /\ ret' = [ret EXCEPT ![c] = ErrR(NoVal)]
               /\ UNCHANGED cache
     ELSE /\ ret' = [ret EXCEPT ![c] = Returns(o, r)]
          /\ UNCHANGED cache
  /\ UNCHANGED <<schemaOf, versions, op, resp, calls>>

Next ==
  \E c \in Callers :
    \/ \E i \in Ids : CacheHit(c, i)
    \/ \E o \in Ops : Call(c, o)
    \/ Serve(c) \/ LoseRequest(c) \/ LoseReply(c)
    \/ Complete(c)

\* No fairness: the registry is the client's environment, and defaultClient
\* sets no overall Timeout, so nothing in the code makes a sent request
\* return; only safety is claimed of the Client.
Spec == Init /\ [][Next]_vars

-----------------------------------------------------------------------------
(* Properties.                                                             *)

TypeOK ==
  /\ schemaOf \in [Ids -> Texts \cup {NoText}]
  /\ versions \in [Subjects -> Seq(Ids)]
  /\ cache \in [Ids -> Texts \cup {NoText}]
  /\ pc \in [Callers -> {"idle", "sent", "replied"}]
  /\ op \in [Callers -> Ops \cup {NoOp}]
  /\ \A c \in Callers :
       /\ pc[c] = "replied" =>
            resp[c] \in [kind : {op[c].kind}, payload : BodyOf(op[c].kind), status : {"ok"}] \cup {HttpErr, NetErr}
       /\ pc[c] = "idle" => ret[c] \in ResultsOf(op[c].kind) \cup {NoResult}
  /\ calls \in [Callers -> 0 .. MaxCalls]

\* GetSchema stores only what it fetched for that id and could parse: every
\* cached schema is the one the registry holds under its id, whatever the
\* interleaving of concurrent misses and Stores for the same id.
CacheMatchesServer ==
  \A i \in Ids : cache[i] # NoText => cache[i] = schemaOf[i] /\ Parses(cache[i])

\* CreateSchema's error promises the schema was not registered: an error
\* result leaves the subject without the text (the method's doc comment and
\* spec 4.G read it as "creates a schema ... returning the schema id").
CreateErrMeansNotRegistered ==
  \A c \in Callers :
    (pc[c] = "idle" /\ op[c].kind = "CreateSchema" /\ ret[c].status = "err")
      => ~UnderSubject(schemaOf, versions, op[c].subject, op[c].text)

\* The refinement mapping: a caller in c.client.Do has called; one whose
\* Do has returned has its answer.
APc == [c \in Callers |-> IF pc[c] = "idle" THEN "idle"
                          ELSE IF pc[c] = "sent" THEN "called" ELSE "answered"]

\* The Client implements the abstract registry: the cache and the network
\* are invisible, and each call is linearizable.
Abs == INSTANCE RegistryAbstract WITH apc <- APc, aop <- op, ans <- resp

\* The Client's behaviours are behaviours of RegistryAbstract.
ImplementsAbstract == Abs!ASpec

=============================================================================
