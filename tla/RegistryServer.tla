--------------------------- MODULE RegistryServer ---------------------------
(***************************************************************************)
(* The Confluent-style schema registry that src/registry/client.go talks   *)
(* to, as the environment of the client: its state (which id holds which   *)
(* schema text, and each subject's list of versions), the requests the     *)
(* client's methods send, and the reply the registry gives to each.  A     *)
(* parsed avro.Schema is abstracted by the text it was parsed from.        *)
(***************************************************************************)
EXTENDS Naturals, Sequences, FiniteSets

CONSTANTS
  Callers,        \* goroutines sharing one Client
  Subjects,       \* registry subjects
  Texts,          \* schema texts a caller may submit
  Ids,            \* the ids the registry may assign
  ServerAccepts,  \* texts the registry accepts as valid Avro
  ClientParses,   \* texts avro.Parse accepts in this process
  MaxCalls,       \* calls each caller makes
  Lossy,          \* whether the network may lose a request or a reply
  NoText,         \* an id with no schema
  NoVal           \* the value of a result that carries none

ASSUME RegistryAssumption ==
  /\ ServerAccepts \subseteq Texts /\ ClientParses \subseteq Texts
  /\ Ids \subseteq Nat \ {0}
  /\ IsFiniteSet(Ids)
  /\ NoText \notin Texts /\ NoVal \notin Ids
  /\ MaxCalls \in Nat /\ Lossy \in BOOLEAN

\* The requests of the Registry interface, one per method.
Ops ==
  [kind : {"GetSchema"}, id : Ids]
  \cup [kind : {"GetSubjects"}]
  \cup [kind : {"GetVersions", "GetLatestSchema", "GetLatestSchemaInfo"},
        subject : Subjects]
  \cup [kind : {"GetSchemaByVersion"}, subject : Subjects,
        version : 1 .. Cardinality(Ids)]
  \cup [kind : {"CreateSchema", "IsRegistered"}, subject : Subjects,
        text : Texts]

\* What reaches the client: the 2xx payload of a request of kind k, a
\* status >= 400, or a transport error.
Ok(k, payload) == [kind |-> k, payload |-> payload, status |-> "ok"]
HttpErr == [kind |-> "err", payload |-> NoVal, status |-> "httperr"]
NetErr  == [kind |-> "err", payload |-> NoVal, status |-> "neterr"]

Registered(so, t) == \E i \in Ids : so[i] = t
IdOf(so, t) == CHOOSE i \in Ids : so[i] = t
FreeIds(so) == {i \in Ids : so[i] = NoText}
UnderSubject(so, vs, s, t) == \E v \in 1 .. Len(vs[s]) : so[vs[s][v]] = t

\* A new valid text needs a free id: CreateSchema assigns one.
Creates(o, so) ==
  o.kind = "CreateSchema" /\ o.text \in ServerAccepts /\ ~Registered(so, o.text)

\* The id map after the registry handles o: POST /subjects/{s}/versions
\* reuses the id a text already has and gives a new text a free id.  Ids
\* are global and other clients register too, so any free id may be the
\* next; there is none to give when the ids are used up.
NewSchemaOf(o, so) ==
  IF Creates(o, so) THEN {[so EXCEPT ![i] = o.text] : i \in FreeIds(so)}
  ELSE {so}

\* The versions after the registry handles o, with so2 the new id map:
\* the text's id is appended to the subject unless already under it.
AfterVersions(o, so2, vs) ==
  IF /\ o.kind = "CreateSchema" /\ o.text \in ServerAccepts
     /\ ~UnderSubject(so2, vs, o.subject, o.text)
  THEN [vs EXCEPT ![o.subject] = Append(@, IdOf(so2, o.text))]
  ELSE vs

\* The reply to o from a registry in state (so, vs), after it handled o.
Reply(o, so, vs) ==
  LET vsub   == vs[o.subject]
      latest == vsub[Len(vsub)]
  IN
  CASE o.kind = "GetSchema" ->
         IF so[o.id] = NoText THEN HttpErr ELSE Ok(o.kind, so[o.id])
    [] o.kind = "GetSubjects" -> Ok(o.kind, {s \in Subjects : vs[s] # <<>>})
    [] o.kind = "GetVersions" ->
         IF vsub = <<>> THEN HttpErr ELSE Ok(o.kind, [v \in 1 .. Len(vsub) |-> v])
    [] o.kind = "GetSchemaByVersion" ->
         IF o.version > Len(vsub) THEN HttpErr ELSE Ok(o.kind, so[vsub[o.version]])
    [] o.kind = "GetLatestSchema" ->
         IF vsub = <<>> THEN HttpErr ELSE Ok(o.kind, so[latest])
    [] o.kind = "GetLatestSchemaInfo" ->
         IF vsub = <<>> THEN HttpErr
         ELSE Ok(o.kind, [text |-> so[latest], id |-> latest, version |-> Len(vsub)])
    [] o.kind \in {"CreateSchema", "IsRegistered"} ->
         IF UnderSubject(so, vs, o.subject, o.text)
         THEN Ok(o.kind, IdOf(so, o.text)) ELSE HttpErr

\* The body of a successful reply to a request of kind k.
BodyOf(k) ==
  CASE k \in {"GetSchema", "GetSchemaByVersion", "GetLatestSchema"} -> Texts
    [] k = "GetSubjects" -> SUBSET Subjects
    [] k = "GetVersions" -> Seq(1 .. Cardinality(Ids))
    [] k = "GetLatestSchemaInfo" -> [text : Texts, id : Ids, version : Nat]
    [] k \in {"CreateSchema", "IsRegistered"} -> Ids
    [] k = "none" -> {}

\* The results a method of kind k returns: a value, or an error that may
\* carry one.
ErrResults == [kind : {"err"}, status : {"err"}, val : Ids \cup {NoVal}]
ResultsOf(k) == [kind : {k}, status : {"ok"}, val : BodyOf(k)] \cup ErrResults
NoOp == [kind |-> "none"]
NoResult == [kind |-> "none", status |-> "none", val |-> NoVal]

=============================================================================
