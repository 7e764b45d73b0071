--------------------------- MODULE RegistryProofs ---------------------------
(***************************************************************************)
(* Proof that the registry Client's schema cache never holds a schema the  *)
(* registry does not hold under that id, for any number of callers, ids,   *)
(* subjects and texts, and over a lossy network.  It rests on two facts:   *)
(* the registry never reassigns an id (NewSchemaOf only fills free ids),   *)
(* and a GetSchema reply that a caller has not yet consumed still matches *)
(* the registry, since its id is taken.  The same invariant, with the     *)
(* registry's versions kept free of repeats, gives the type invariant, and *)
(* the last part proves that the Client refines RegistryAbstract.         *)
(***************************************************************************)
EXTENDS RegistryClient, FiniteSetTheorems, TLAPS

TextOrNone == Texts \cup {NoText}

\* What a successful reply to o carries that an error result may return:
\* the id of GetLatestSchemaInfo, the id of CreateSchema and IsRegistered.
PayloadIds(o, p) ==
  /\ o.kind = "GetLatestSchemaInfo" => p.id \in Ids
  /\ o.kind \in {"CreateSchema", "IsRegistered"} => p \in Ids

\* The invariant the proof carries: the shapes it needs, the cache property,
\* and what a pending GetSchema reply says about the registry.
IInv ==
  /\ schemaOf \in [Ids -> TextOrNone]
  /\ versions \in [Subjects -> Seq(Ids)]
  /\ cache \in [Ids -> TextOrNone]
  /\ pc \in [Callers -> {"idle", "sent", "replied"}]
  /\ op \in [Callers -> Ops \cup {NoOp}]
  /\ \A c \in Callers : pc[c] # "idle" => op[c] \in Ops
  /\ DOMAIN resp = Callers
  /\ CacheMatchesServer
  /\ \A c \in Callers :
       (pc[c] = "replied" /\ op[c].kind = "GetSchema" /\ resp[c].status = "ok")
         => /\ schemaOf[op[c].id] # NoText
            /\ resp[c].payload = schemaOf[op[c].id]
  /\ \A c \in Callers :
       (pc[c] = "replied" /\ resp[c].status = "ok")
         => PayloadIds(op[c], resp[c].payload)

\* The registry handles a request by filling at most free ids: a taken id
\* keeps its text, and only CreateSchema changes the id map.
LEMMA NewSchemaOfKeepsIds ==
  ASSUME NEW o, NEW so \in [Ids -> TextOrNone],
         NEW so2 \in NewSchemaOf(o, so)
  PROVE  /\ so2 \in [Ids -> TextOrNone]
         /\ \A i \in Ids : so[i] # NoText => so2[i] = so[i]
         /\ o.kind # "CreateSchema" => so2 = so
  <1>1. CASE Creates(o, so)
    <2>1. PICK i \in FreeIds(so) : so2 = [so EXCEPT ![i] = o.text]
      BY <1>1 DEF NewSchemaOf
    <2>2. o.text \in Texts /\ o.kind = "CreateSchema"
      BY <1>1, RegistryAssumption DEF Creates
    <2>. QED
      BY <2>1, <2>2 DEF FreeIds, TextOrNone
  <1>2. CASE ~Creates(o, so)
    <2>1. so2 = so
      BY <1>2 DEF NewSchemaOf
    <2>. QED
      BY <2>1
  <1>. QED
    BY <1>1, <1>2

\* A GetSchema request names an id.
LEMMA GetSchemaOp ==
  ASSUME NEW o \in Ops \cup {NoOp}, o.kind = "GetSchema"
  PROVE  o.id \in Ids
  BY DEF Ops, NoOp

\* The methods of the Registry interface.
LEMMA OpKinds ==
  ASSUME NEW o \in Ops
  PROVE  o.kind \in {"GetSchema", "GetSubjects", "GetVersions",
                     "GetSchemaByVersion", "GetLatestSchema",
                     "GetLatestSchemaInfo", "CreateSchema", "IsRegistered"}
  BY DEF Ops

\* The fields of the requests of Ops.
LEMMA SubjectOp ==
  ASSUME NEW o \in Ops, o.kind \notin {"GetSchema", "GetSubjects"}
  PROVE  /\ o.subject \in Subjects
         /\ o.kind \in {"CreateSchema", "IsRegistered"} => o.text \in Texts
  BY DEF Ops

\* After a CreateSchema of a text it accepts, the registry holds the text.
LEMMA NewSchemaOfRegisters ==
  ASSUME NEW o, NEW so \in [Ids -> TextOrNone],
         NEW so2 \in NewSchemaOf(o, so),
         o.kind = "CreateSchema", o.text \in ServerAccepts
  PROVE  Registered(so2, o.text)
  <1>1. CASE Creates(o, so)
    <2>1. PICK i \in FreeIds(so) : so2 = [so EXCEPT ![i] = o.text]
      BY <1>1 DEF NewSchemaOf
    <2>. QED
      BY <2>1 DEF FreeIds, Registered
  <1>2. CASE ~Creates(o, so)
    BY <1>2 DEF NewSchemaOf, Creates, Registered
  <1>. QED
    BY <1>1, <1>2

\* The registry's versions stay lists of ids.
LEMMA AfterVersionsType ==
  ASSUME NEW o \in Ops, NEW so \in [Ids -> TextOrNone],
         NEW so2 \in NewSchemaOf(o, so), NEW vs \in [Subjects -> Seq(Ids)]
  PROVE  AfterVersions(o, so2, vs) \in [Subjects -> Seq(Ids)]
  <1>1. CASE o.kind = "CreateSchema" /\ o.text \in ServerAccepts
    <2>1. Registered(so2, o.text)
      BY <1>1, NewSchemaOfRegisters
    <2>2. IdOf(so2, o.text) \in Ids
      BY <2>1 DEF Registered, IdOf
    <2>3. o.subject \in Subjects
      BY <1>1, SubjectOp
    <2>. QED
      BY <2>2, <2>3 DEF AfterVersions
  <1>2. CASE ~(o.kind = "CreateSchema" /\ o.text \in ServerAccepts)
    BY <1>2 DEF AfterVersions
  <1>. QED
    BY <1>1, <1>2

\* The reply to GetSchema, to GetLatestSchemaInfo and to CreateSchema or
\* IsRegistered, read off the registry's switch.
LEMMA ReplyGetSchema ==
  ASSUME NEW o, NEW so, NEW vs, o.kind = "GetSchema"
  PROVE  Reply(o, so, vs) = IF so[o.id] = NoText THEN HttpErr
                            ELSE Ok(o.kind, so[o.id])
  BY Zenon DEF Reply

LEMMA ReplyInfo ==
  ASSUME NEW o, NEW so, NEW vs, o.kind = "GetLatestSchemaInfo"
  PROVE  Reply(o, so, vs) =
           IF vs[o.subject] = <<>> THEN HttpErr
           ELSE Ok(o.kind, [text |-> so[vs[o.subject][Len(vs[o.subject])]],
                            id |-> vs[o.subject][Len(vs[o.subject])],
                            version |-> Len(vs[o.subject])])
  BY Zenon DEF Reply

LEMMA ReplyId ==
  ASSUME NEW o, NEW so, NEW vs, o.kind \in {"CreateSchema", "IsRegistered"}
  PROVE  Reply(o, so, vs) = IF UnderSubject(so, vs, o.subject, o.text)
                            THEN Ok(o.kind, IdOf(so, o.text)) ELSE HttpErr
  BY Zenon DEF Reply

\* A successful reply carries the ids an error result may return.
LEMMA ReplyPayload ==
  ASSUME NEW o \in Ops, NEW so \in [Ids -> TextOrNone],
         NEW vs \in [Subjects -> Seq(Ids)],
         Reply(o, so, vs).status = "ok"
  PROVE  PayloadIds(o, Reply(o, so, vs).payload)
  <1>1. CASE o.kind = "GetLatestSchemaInfo"
    <2>1. o.subject \in Subjects
      BY <1>1, SubjectOp
    <2>2. vs[o.subject] # <<>>
      <3>1. vs[o.subject] = <<>> => Reply(o, so, vs) = HttpErr
        BY <1>1, ReplyInfo
      <3>. QED
        BY <3>1 DEF HttpErr
    <2>3. vs[o.subject][Len(vs[o.subject])] \in Ids
      BY <2>1, <2>2
    <2>. QED
      BY <1>1, <2>2, <2>3, ReplyInfo DEF PayloadIds, Ok
  <1>2. CASE o.kind \in {"CreateSchema", "IsRegistered"}
    <2>1. o.subject \in Subjects
      BY <1>2, SubjectOp
    <2>2. UnderSubject(so, vs, o.subject, o.text)
      BY <1>2, ReplyId DEF HttpErr
    <2>3. IdOf(so, o.text) \in Ids
      BY <2>1, <2>2 DEF UnderSubject, IdOf
    <2>. QED
      BY <1>2, <2>2, <2>3, ReplyId DEF PayloadIds, Ok
  <1>3. CASE o.kind \notin {"GetLatestSchemaInfo", "CreateSchema", "IsRegistered"}
    BY <1>3 DEF PayloadIds
  <1>. QED
    BY <1>1, <1>2, <1>3

LEMMA InitIInv == Init => IInv
  <1>. SUFFICES ASSUME Init PROVE IInv
    OBVIOUS
  <1>1. NoText \in TextOrNone
    BY DEF TextOrNone
  <1>2. NoOp \in Ops \cup {NoOp}
    OBVIOUS
  <1>. QED
    BY <1>1, <1>2 DEF Init, IInv, CacheMatchesServer, NoOp

LEMMA NextIInv == IInv /\ [Next]_vars => IInv'
  <1>. SUFFICES ASSUME IInv, [Next]_vars PROVE IInv'
    OBVIOUS
  <1>. USE RegistryAssumption
  <1>1. ASSUME NEW c \in Callers, NEW id \in Ids, CacheHit(c, id)
        PROVE  IInv'
    <2>1. op' \in [Callers -> Ops \cup {NoOp}]
      BY <1>1 DEF CacheHit, IInv, Ops
    <2>. QED
      BY <1>1, <2>1 DEF CacheHit, IInv, CacheMatchesServer
  <1>2. ASSUME NEW c \in Callers, NEW o \in Ops, Call(c, o)
        PROVE  IInv'
    BY <1>2 DEF Call, IInv, CacheMatchesServer
  <1>3. ASSUME NEW c \in Callers, Serve(c)
        PROVE  IInv'
    <2>1. PICK so2 \in NewSchemaOf(op[c], schemaOf) :
            schemaOf' = so2 /\ versions' = AfterVersions(op[c], so2, versions)
      BY <1>3 DEF Serve
    <2>2. /\ schemaOf' \in [Ids -> TextOrNone]
          /\ \A i \in Ids : schemaOf[i] # NoText => schemaOf'[i] = schemaOf[i]
          /\ op[c].kind # "CreateSchema" => schemaOf' = schemaOf
      BY <2>1, NewSchemaOfKeepsIds DEF IInv
    <2>3. CacheMatchesServer'
      BY <1>3, <2>2 DEF Serve, IInv, CacheMatchesServer, TextOrNone
    <2>4. ASSUME NEW d \in Callers, pc'[d] = "replied",
                 op'[d].kind = "GetSchema", resp'[d].status = "ok"
          PROVE  /\ schemaOf'[op'[d].id] # NoText
                 /\ resp'[d].payload = schemaOf'[op'[d].id]
      <3>1. op'[d].id \in Ids
        BY <1>3, <2>4, GetSchemaOp DEF Serve, IInv
      <3>2. CASE d = c
        <4>1. schemaOf' = schemaOf /\ op' = op
          BY <1>3, <2>2, <2>4, <3>2 DEF Serve
        <4>2. resp'[c] = Reply(op[c], schemaOf', versions')
          BY <1>3, <3>2 DEF Serve, IInv
        <4>3. resp'[c] = IF schemaOf'[op[c].id] = NoText THEN HttpErr
                         ELSE Ok(op[c].kind, schemaOf'[op[c].id])
          BY <4>1, <4>2, <2>4, <3>2 DEF Reply
        <4>. QED
          BY <4>1, <4>3, <2>4, <3>2 DEF HttpErr, Ok
      <3>3. CASE d # c
        BY <1>3, <2>2, <2>4, <3>1, <3>3 DEF Serve, IInv
      <3>. QED
        BY <3>2, <3>3
    <2>5. versions' \in [Subjects -> Seq(Ids)]
      BY <1>3, <2>1, AfterVersionsType DEF Serve, IInv
    <2>6. ASSUME NEW d \in Callers, pc'[d] = "replied", resp'[d].status = "ok"
          PROVE  PayloadIds(op'[d], resp'[d].payload)
      <3>1. CASE d = c
        <4>1. resp'[c] = Reply(op[c], schemaOf', versions') /\ op' = op
          BY <1>3 DEF Serve, IInv
        <4>2. op[c] \in Ops
          BY <1>3 DEF Serve, IInv
        <4>. QED
          BY <2>2, <2>5, <2>6, <3>1, <4>1, <4>2, ReplyPayload
      <3>2. CASE d # c
        BY <1>3, <2>6, <3>2 DEF Serve, IInv
      <3>. QED
        BY <3>1, <3>2
    <2>. QED
      BY <1>3, <2>2, <2>3, <2>4, <2>5, <2>6 DEF Serve, IInv
  <1>4. ASSUME NEW c \in Callers, LoseRequest(c)
        PROVE  IInv'
    BY <1>4 DEF LoseRequest, IInv, CacheMatchesServer, NetErr
  <1>5. ASSUME NEW c \in Callers, LoseReply(c)
        PROVE  IInv'
    <2>1. PICK so2 \in NewSchemaOf(op[c], schemaOf) :
            schemaOf' = so2 /\ versions' = AfterVersions(op[c], so2, versions)
      BY <1>5 DEF LoseReply
    <2>2. /\ schemaOf' \in [Ids -> TextOrNone]
          /\ \A i \in Ids : schemaOf[i] # NoText => schemaOf'[i] = schemaOf[i]
      BY <2>1, NewSchemaOfKeepsIds DEF IInv
    <2>3. CacheMatchesServer'
      BY <1>5, <2>2 DEF LoseReply, IInv, CacheMatchesServer, TextOrNone
    <2>4. ASSUME NEW d \in Callers, pc'[d] = "replied",
                 op'[d].kind = "GetSchema", resp'[d].status = "ok"
          PROVE  /\ schemaOf'[op'[d].id] # NoText
                 /\ resp'[d].payload = schemaOf'[op'[d].id]
      <3>1. op'[d].id \in Ids
        BY <1>5, <2>4, GetSchemaOp DEF LoseReply, IInv
      <3>. QED
        BY <1>5, <2>2, <2>4, <3>1 DEF LoseReply, IInv, NetErr
    <2>5. versions' \in [Subjects -> Seq(Ids)]
      BY <1>5, <2>1, AfterVersionsType DEF LoseReply, IInv
    <2>. QED
      BY <1>5, <2>2, <2>3, <2>4, <2>5 DEF LoseReply, IInv, NetErr
  <1>6. ASSUME NEW c \in Callers, Complete(c)
        PROVE  IInv'
    <2>1. CacheMatchesServer'
      BY <1>6, GetSchemaOp DEF Complete, IInv, CacheMatchesServer, Failed
    <2>2. cache' \in [Ids -> TextOrNone]
      BY <1>6, GetSchemaOp DEF Complete, IInv, CacheMatchesServer, Failed,
         TextOrNone, Parses
    <2>. QED
      BY <1>6, <2>1, <2>2 DEF Complete, IInv
  <1>7. CASE UNCHANGED vars
    BY <1>7 DEF vars, IInv, CacheMatchesServer
  <1>. QED
    BY <1>1, <1>2, <1>3, <1>4, <1>5, <1>6, <1>7 DEF Next

\* Whatever the interleaving of callers, of Loads, Stores and registry
\* steps, and whatever the network loses, GetSchema's cache only holds
\* schemas the registry holds under the same id and avro.Parse accepts.
THEOREM CacheMatchesServerThm == Spec => []CacheMatchesServer
  <1>1. IInv => CacheMatchesServer
    BY DEF IInv
  <1>. QED
    BY <1>1, InitIInv, NextIInv, PTL DEF Spec

-----------------------------------------------------------------------------
(* Type correctness.  A reply to GetVersions is a list of version numbers *)
(* 1 .. Cardinality(Ids) and a version's schema is a text only because   *)
(* the registry lists each id at most once under a subject and lists     *)
(* only taken ids; TInv adds these facts to IInv.                        *)

\* POST /subjects/{s}/versions appends an id only for a text not yet under
\* the subject, and only an id that holds the text.
VersionsOK(so, vs) ==
  \A s \in Subjects :
    /\ \A v \in 1 .. Len(vs[s]) : so[vs[s][v]] # NoText
    /\ IsInjective(vs[s])

VersionsInv == VersionsOK(schemaOf, versions)

\* What reaches c.client.Do for a request of kind k.
RepliesOf(k) ==
  [kind : {k}, payload : BodyOf(k), status : {"ok"}] \cup {HttpErr, NetErr}

\* The payload and result types of each method.
LEMMA BodyOfKinds ==
  /\ BodyOf("GetSchema") = Texts
  /\ BodyOf("GetSchemaByVersion") = Texts
  /\ BodyOf("GetLatestSchema") = Texts
  /\ BodyOf("GetSubjects") = SUBSET Subjects
  /\ BodyOf("GetVersions") = Seq(1 .. Cardinality(Ids))
  /\ BodyOf("GetLatestSchemaInfo") = [text : Texts, id : Ids, version : Nat]
  /\ BodyOf("CreateSchema") = Ids
  /\ BodyOf("IsRegistered") = Ids
  <1>1. BodyOf("GetSchema") = Texts
    BY Zenon DEF BodyOf
  <1>2. BodyOf("GetSchemaByVersion") = Texts
    BY Zenon DEF BodyOf
  <1>3. BodyOf("GetLatestSchema") = Texts
    BY Zenon DEF BodyOf
  <1>4. BodyOf("GetSubjects") = SUBSET Subjects
    BY Zenon DEF BodyOf
  <1>5. BodyOf("GetVersions") = Seq(1 .. Cardinality(Ids))
    BY Zenon DEF BodyOf
  <1>6. BodyOf("GetLatestSchemaInfo") = [text : Texts, id : Ids, version : Nat]
    BY Zenon DEF BodyOf
  <1>7. BodyOf("CreateSchema") = Ids
    BY Zenon DEF BodyOf
  <1>8. BodyOf("IsRegistered") = Ids
    BY Zenon DEF BodyOf
  <1>. QED
    BY <1>1, <1>2, <1>3, <1>4, <1>5, <1>6, <1>7, <1>8

\* A subject's versions list distinct ids, so there are at most as many
\* versions as ids.
LEMMA VersionsBound ==
  ASSUME NEW vs \in Seq(Ids), IsInjective(vs)
  PROVE  Len(vs) <= Cardinality(Ids)
  <1>1. vs \in Injection(1 .. Len(vs), Ids)
    BY DEF Injection
  <1>2. Cardinality(1 .. Len(vs)) <= Cardinality(Ids)
    BY <1>1, RegistryAssumption, FS_Injection
  <1>3. Cardinality(1 .. Len(vs)) = Len(vs)
    <2>1. Len(vs) \in Int /\ 1 \in Int
      OBVIOUS
    <2>2. Cardinality(1 .. Len(vs)) = IF 1 > Len(vs) THEN 0 ELSE Len(vs) - 1 + 1
      BY <2>1, FS_Interval, Zenon
    <2>. QED
      BY <2>2
  <1>. QED
    BY <1>2, <1>3

TInv == IInv /\ VersionsInv /\ TypeOK /\ DOMAIN ret = Callers

\* The replies to the other methods, read off the registry's switch.
LEMMA ReplyOthers ==
  ASSUME NEW o, NEW so, NEW vs
  PROVE  /\ o.kind = "GetSubjects" =>
              Reply(o, so, vs) = Ok(o.kind, {s \in Subjects : vs[s] # <<>>})
         /\ o.kind = "GetVersions" =>
              Reply(o, so, vs) =
                IF vs[o.subject] = <<>> THEN HttpErr
                ELSE Ok(o.kind, [v \in 1 .. Len(vs[o.subject]) |-> v])
         /\ o.kind = "GetSchemaByVersion" =>
              Reply(o, so, vs) =
                IF o.version > Len(vs[o.subject]) THEN HttpErr
                ELSE Ok(o.kind, so[vs[o.subject][o.version]])
         /\ o.kind = "GetLatestSchema" =>
              Reply(o, so, vs) =
                IF vs[o.subject] = <<>> THEN HttpErr
                ELSE Ok(o.kind, so[vs[o.subject][Len(vs[o.subject])]])
  <1>1. o.kind = "GetSubjects" =>
          Reply(o, so, vs) = Ok(o.kind, {s \in Subjects : vs[s] # <<>>})
    BY Zenon DEF Reply
  <1>2. o.kind = "GetVersions" =>
          Reply(o, so, vs) =
            IF vs[o.subject] = <<>> THEN HttpErr
            ELSE Ok(o.kind, [v \in 1 .. Len(vs[o.subject]) |-> v])
    BY Zenon DEF Reply
  <1>3. o.kind = "GetSchemaByVersion" =>
          Reply(o, so, vs) =
            IF o.version > Len(vs[o.subject]) THEN HttpErr
            ELSE Ok(o.kind, so[vs[o.subject][o.version]])
    BY Zenon DEF Reply
  <1>4. o.kind = "GetLatestSchema" =>
          Reply(o, so, vs) =
            IF vs[o.subject] = <<>> THEN HttpErr
            ELSE Ok(o.kind, so[vs[o.subject][Len(vs[o.subject])]])
    BY Zenon DEF Reply
  <1>. QED
    BY <1>1, <1>2, <1>3, <1>4

\* A 2xx payload of the method's body type, and an error, are replies.
LEMMA InReplies ==
  ASSUME NEW k, NEW x \in BodyOf(k)
  PROVE  /\ Ok(k, x) \in RepliesOf(k)
         /\ HttpErr \in RepliesOf(k)
  BY DEF RepliesOf, Ok

\* Every reply of a registry whose versions are well formed has the type
\* of the request's method.
LEMMA ReplyType ==
  ASSUME NEW o \in Ops, NEW so \in [Ids -> TextOrNone],
         NEW vs \in [Subjects -> Seq(Ids)], VersionsOK(so, vs)
  PROVE  Reply(o, so, vs) \in RepliesOf(o.kind)
  <1>. USE RegistryAssumption
  <1>0. /\ Cardinality(Ids) \in Nat
        /\ HttpErr \in RepliesOf(o.kind)
    BY FS_CardinalityType DEF RepliesOf
  <1>1. CASE o.kind = "GetSchema"
    <2>1. o.id \in Ids
      BY <1>1 DEF Ops
    <2>2. BodyOf(o.kind) = Texts
      BY <1>1, BodyOfKinds, Zenon
    <2>3. so[o.id] # NoText => so[o.id] \in BodyOf(o.kind)
      BY <2>1, <2>2 DEF TextOrNone
    <2>. QED
      BY <1>0, <1>1, <2>3, ReplyGetSchema, InReplies
  <1>2. CASE o.kind = "GetSubjects"
    <2>1. BodyOf(o.kind) = SUBSET Subjects
      BY <1>2, BodyOfKinds, Zenon
    <2>. DEFINE subs == {s \in Subjects : vs[s] # <<>>}
    <2>2. Ok(o.kind, subs) \in RepliesOf(o.kind)
      <3>1. subs \in BodyOf(o.kind)
        BY <2>1
      <3>. QED
        BY <3>1, InReplies
    <2>3. Reply(o, so, vs) = Ok(o.kind, subs)
      BY <1>2, ReplyOthers
    <2>. QED
      BY <2>2, <2>3
  <1>3. CASE o.kind \in {"GetVersions", "GetSchemaByVersion", "GetLatestSchema",
                         "GetLatestSchemaInfo"}
    <2>. DEFINE vsub == vs[o.subject]
    <2>1. o.subject \in Subjects
      BY <1>3, SubjectOp
    <2>2. /\ vsub \in Seq(Ids)
          /\ \A v \in 1 .. Len(vsub) : so[vsub[v]] \in Texts
          /\ Len(vsub) <= Cardinality(Ids)
      BY <2>1, VersionsBound DEF VersionsOK, TextOrNone
    <2>3. CASE o.kind = "GetVersions"
      <3>1. BodyOf(o.kind) = Seq(1 .. Cardinality(Ids))
        BY <2>3, BodyOfKinds, Zenon
      <3>. DEFINE nums == [v \in 1 .. Len(vsub) |-> v]
      <3>2. Ok(o.kind, nums) \in RepliesOf(o.kind)
        <4>1. Len(vsub) \in Nat /\ 1 .. Len(vsub) \subseteq 1 .. Cardinality(Ids)
          BY <1>0, <2>2
        <4>2. nums \in BodyOf(o.kind)
          BY <3>1, <4>1
        <4>. QED
          BY <4>2, InReplies
      <3>3. Reply(o, so, vs) = IF vsub = <<>> THEN HttpErr ELSE Ok(o.kind, nums)
        BY <2>3, ReplyOthers
      <3>. QED
        BY <1>0, <3>2, <3>3
    <2>4. CASE o.kind = "GetSchemaByVersion"
      <3>1. BodyOf(o.kind) = Texts
        BY <2>4, BodyOfKinds, Zenon
      <3>2. o.version \in 1 .. Cardinality(Ids)
        BY <2>4 DEF Ops
      <3>3. ~(o.version > Len(vsub)) => Ok(o.kind, so[vsub[o.version]]) \in RepliesOf(o.kind)
        <4>1. ~(o.version > Len(vsub)) => so[vsub[o.version]] \in BodyOf(o.kind)
          BY <1>0, <2>2, <3>1, <3>2
        <4>. QED
          BY <4>1, InReplies
      <3>4. Reply(o, so, vs) = IF o.version > Len(vsub) THEN HttpErr
                               ELSE Ok(o.kind, so[vsub[o.version]])
        BY <2>4, ReplyOthers
      <3>. QED
        BY <1>0, <3>3, <3>4
    <2>5. CASE o.kind = "GetLatestSchema"
      <3>1. BodyOf(o.kind) = Texts
        BY <2>5, BodyOfKinds, Zenon
      <3>2. vsub # <<>> => Ok(o.kind, so[vsub[Len(vsub)]]) \in RepliesOf(o.kind)
        <4>1. vsub # <<>> => so[vsub[Len(vsub)]] \in BodyOf(o.kind)
          BY <2>2, <3>1
        <4>. QED
          BY <4>1, InReplies
      <3>3. Reply(o, so, vs) = IF vsub = <<>> THEN HttpErr
                               ELSE Ok(o.kind, so[vsub[Len(vsub)]])
        BY <2>5, ReplyOthers
      <3>. QED
        BY <1>0, <3>2, <3>3
    <2>6. CASE o.kind = "GetLatestSchemaInfo"
      <3>1. BodyOf(o.kind) = [text : Texts, id : Ids, version : Nat]
        BY <2>6, BodyOfKinds, Zenon
      <3>. DEFINE info == [text |-> so[vsub[Len(vsub)]], id |-> vsub[Len(vsub)],
                           version |-> Len(vsub)]
      <3>2. vsub # <<>> => Ok(o.kind, info) \in RepliesOf(o.kind)
        <4>1. vsub # <<>> => info \in BodyOf(o.kind)
          BY <2>2, <3>1
        <4>. QED
          BY <4>1, InReplies
      <3>3. Reply(o, so, vs) = IF vsub = <<>> THEN HttpErr ELSE Ok(o.kind, info)
        BY <2>6, ReplyInfo
      <3>. QED
        BY <1>0, <3>2, <3>3
    <2>. QED
      BY <1>3, <2>3, <2>4, <2>5, <2>6
  <1>4. CASE o.kind \in {"CreateSchema", "IsRegistered"}
    <2>1. o.subject \in Subjects
      BY <1>4, SubjectOp
    <2>2. BodyOf(o.kind) = Ids
      BY <1>4, BodyOfKinds, Zenon
    <2>3. UnderSubject(so, vs, o.subject, o.text) => IdOf(so, o.text) \in BodyOf(o.kind)
      BY <2>1, <2>2 DEF UnderSubject, IdOf
    <2>. QED
      BY <1>0, <1>4, <2>3, ReplyId, InReplies
  <1>. QED
    BY <1>1, <1>2, <1>3, <1>4, OpKinds

\* Appending an element a sequence does not hold keeps it free of repeats.
LEMMA AppendInjective ==
  ASSUME NEW S, NEW q \in Seq(S), NEW x \in S, IsInjective(q),
         \A v \in 1 .. Len(q) : q[v] # x
  PROVE  IsInjective(Append(q, x))
  <1>. DEFINE n == Len(q)
              q2 == Append(q, x)
  <1>1. /\ n \in Nat
        /\ DOMAIN q2 = 1 .. n + 1
        /\ \A v \in 1 .. n : q2[v] = q[v]
        /\ q2[n + 1] = x
    OBVIOUS
  <1>2. SUFFICES ASSUME NEW a \in 1 .. n + 1, NEW b \in 1 .. n + 1,
                       q2[a] = q2[b]
                PROVE  a = b
    BY <1>1 DEF IsInjective
  <1>3. CASE a \in 1 .. n /\ b \in 1 .. n
    BY <1>1, <1>2, <1>3 DEF IsInjective
  <1>4. CASE a = n + 1 \/ b = n + 1
    BY <1>1, <1>2, <1>4
  <1>. QED
    BY <1>1, <1>3, <1>4

\* The registry keeps its versions well formed: it appends the id of a
\* text only when no version of the subject holds the text, so the id is
\* new to the subject, and it never frees an id.
LEMMA AfterVersionsOK ==
  ASSUME NEW o \in Ops, NEW so \in [Ids -> TextOrNone],
         NEW so2 \in NewSchemaOf(o, so), NEW vs \in [Subjects -> Seq(Ids)],
         VersionsOK(so, vs)
  PROVE  VersionsOK(so2, AfterVersions(o, so2, vs))
  <1>1. /\ so2 \in [Ids -> TextOrNone]
        /\ \A i \in Ids : so[i] # NoText => so2[i] = so[i]
    BY NewSchemaOfKeepsIds
  <1>2. VersionsOK(so2, vs)
    BY <1>1 DEF VersionsOK
  <1>3. CASE /\ o.kind = "CreateSchema" /\ o.text \in ServerAccepts
             /\ ~UnderSubject(so2, vs, o.subject, o.text)
    <2>. DEFINE s0 == o.subject
                id == IdOf(so2, o.text)
                vs2 == [vs EXCEPT ![s0] = Append(@, id)]
    <2>1. s0 \in Subjects /\ o.text \in Texts
      BY <1>3, SubjectOp, RegistryAssumption
    <2>2. id \in Ids /\ so2[id] = o.text
      <3>1. Registered(so2, o.text)
        BY <1>3, NewSchemaOfRegisters
      <3>. QED
        BY <3>1 DEF Registered, IdOf
    <2>3. so2[id] # NoText
      BY <2>1, <2>2, RegistryAssumption
    <2>4. \A v \in 1 .. Len(vs[s0]) : vs[s0][v] # id
      BY <1>3, <2>2 DEF UnderSubject
    <2>5. AfterVersions(o, so2, vs) = vs2
      BY <1>3 DEF AfterVersions
    <2>6. ASSUME NEW s \in Subjects
          PROVE  /\ \A v \in 1 .. Len(vs2[s]) : so2[vs2[s][v]] # NoText
                 /\ IsInjective(vs2[s])
      <3>1. CASE s # s0
        BY <1>2, <3>1 DEF VersionsOK
      <3>2. CASE s = s0
        <4>1. /\ vs2[s] = Append(vs[s0], id)
              /\ vs[s0] \in Seq(Ids)
          BY <2>1, <3>2
        <4>2. \A v \in 1 .. Len(vs[s0]) : so2[vs[s0][v]] # NoText
          BY <1>2, <2>1 DEF VersionsOK
        <4>3. IsInjective(vs[s0])
          BY <1>2, <2>1 DEF VersionsOK
        <4>4. \A v \in 1 .. Len(vs2[s]) : so2[vs2[s][v]] # NoText
          BY <2>3, <4>1, <4>2
        <4>5. IsInjective(vs2[s])
          BY <2>2, <2>4, <4>1, <4>3, AppendInjective
        <4>. QED
          BY <4>4, <4>5
      <3>. QED
        BY <3>1, <3>2
    <2>. QED
      BY <2>5, <2>6 DEF VersionsOK
  <1>4. CASE ~(/\ o.kind = "CreateSchema" /\ o.text \in ServerAccepts
               /\ ~UnderSubject(so2, vs, o.subject, o.text))
    BY <1>2, <1>4 DEF AfterVersions
  <1>. QED
    BY <1>3, <1>4

\* A value of the method's body type, and an error carrying no value or
\* an id, are results of the method.
LEMMA InResults ==
  ASSUME NEW k
  PROVE  /\ \A x \in BodyOf(k) : OkR(k, x) \in ResultsOf(k)
         /\ \A v \in Ids \cup {NoVal} : ErrR(v) \in ResultsOf(k)
  BY DEF OkR, ErrR, ResultsOf, ErrResults

\* Every method but GetSchema turns a reply of its type into a result of
\* its type: schemaInfoPayload.Parse and the CreateSchema/IsRegistered
\* error paths return the id of the payload they decoded.
LEMMA ReturnsType ==
  ASSUME NEW o \in Ops, o.kind # "GetSchema", NEW r \in RepliesOf(o.kind)
  PROVE  Returns(o, r) \in ResultsOf(o.kind)
  <1>1. CASE Failed(r)
    <2>1. Returns(o, r) = ErrR(NoVal)
      BY <1>1 DEF Returns
    <2>. QED
      BY <2>1, InResults
  <1>2. CASE ~Failed(r)
    <2>1. r.payload \in BodyOf(o.kind)
      BY <1>2 DEF Failed, RepliesOf, HttpErr, NetErr
    <2>2. CASE o.kind \in {"GetSubjects", "GetVersions"}
      <3>1. Returns(o, r) = OkR(o.kind, r.payload)
        BY <1>2, <2>2, Zenon DEF Returns
      <3>. QED
        BY <2>1, <3>1, InResults
    <2>3. CASE o.kind \in {"GetSchemaByVersion", "GetLatestSchema"}
      <3>1. Returns(o, r) = IF Parses(r.payload) THEN OkR(o.kind, r.payload)
                            ELSE ErrR(NoVal)
        BY <1>2, <2>3, Zenon DEF Returns
      <3>. QED
        BY <2>1, <3>1, InResults
    <2>4. CASE o.kind = "GetLatestSchemaInfo"
      <3>1. Returns(o, r) = IF Parses(r.payload.text) THEN OkR(o.kind, r.payload)
                            ELSE ErrR(r.payload.id)
        BY <1>2, <2>4, Zenon DEF Returns
      <3>2. r.payload.id \in Ids
        <4>1. BodyOf(o.kind) = [text : Texts, id : Ids, version : Nat]
          BY <2>4, BodyOfKinds, Zenon
        <4>. QED
          BY <2>1, <4>1
      <3>. QED
        BY <2>1, <3>1, <3>2, InResults
    <2>5. CASE o.kind \in {"CreateSchema", "IsRegistered"}
      <3>1. Returns(o, r) = IF Parses(o.text) THEN OkR(o.kind, r.payload)
                            ELSE ErrR(r.payload)
        BY <1>2, <2>5, Zenon DEF Returns
      <3>2. r.payload \in Ids
        <4>1. BodyOf(o.kind) = Ids
          BY <2>5, BodyOfKinds, Zenon
        <4>. QED
          BY <2>1, <4>1
      <3>. QED
        BY <2>1, <3>1, <3>2, InResults
    <2>. QED
      BY <2>2, <2>3, <2>4, <2>5, OpKinds
  <1>. QED
    BY <1>1, <1>2

\* The part of TypeOK about one caller's response and result.
CallerTyped(d) ==
  /\ pc[d] = "replied" => resp[d] \in RepliesOf(op[d].kind)
  /\ pc[d] = "idle" => ret[d] \in ResultsOf(op[d].kind) \cup {NoResult}

LEMMA TypeOKParts ==
  TypeOK <=> /\ schemaOf \in [Ids -> TextOrNone]
             /\ versions \in [Subjects -> Seq(Ids)]
             /\ cache \in [Ids -> TextOrNone]
             /\ pc \in [Callers -> {"idle", "sent", "replied"}]
             /\ op \in [Callers -> Ops \cup {NoOp}]
             /\ \A d \in Callers : CallerTyped(d)
             /\ calls \in [Callers -> 0 .. MaxCalls]
  BY DEF TypeOK, TextOrNone, CallerTyped, RepliesOf

LEMMA InitTInv == Init => TInv
  <1>. SUFFICES ASSUME Init PROVE TInv
    OBVIOUS
  <1>1. IInv
    BY InitIInv
  <1>2. VersionsInv
    BY DEF Init, VersionsInv, VersionsOK, IsInjective
  <1>3. \A d \in Callers : CallerTyped(d)
    BY DEF Init, CallerTyped
  <1>4. calls \in [Callers -> 0 .. MaxCalls]
    BY RegistryAssumption DEF Init
  <1>5. DOMAIN ret = Callers
    BY DEF Init
  <1>. QED
    BY <1>1, <1>2, <1>3, <1>4, <1>5, TypeOKParts DEF TInv, IInv

LEMMA NextTInv == TInv /\ [Next]_vars => TInv'
  <1>. SUFFICES ASSUME TInv, [Next]_vars PROVE TInv'
    OBVIOUS
  <1>. USE RegistryAssumption
  <1>0. /\ IInv /\ VersionsInv
        /\ \A d \in Callers : CallerTyped(d)
        /\ calls \in [Callers -> 0 .. MaxCalls]
        /\ DOMAIN ret = Callers
    BY TypeOKParts DEF TInv
  <1>1. IInv'
    BY <1>0, NextIInv
  <1>2. VersionsInv'
    <2>1. ASSUME NEW c \in Callers, Serve(c) \/ LoseReply(c)
          PROVE  VersionsInv'
      <3>1. PICK so2 \in NewSchemaOf(op[c], schemaOf) :
              schemaOf' = so2 /\ versions' = AfterVersions(op[c], so2, versions)
        BY <2>1 DEF Serve, LoseReply
      <3>2. op[c] \in Ops
        BY <1>0, <2>1 DEF Serve, LoseReply, IInv
      <3>. QED
        BY <1>0, <3>1, <3>2, AfterVersionsOK DEF IInv, VersionsInv
    <2>2. CASE UNCHANGED <<schemaOf, versions>>
      BY <1>0, <2>2 DEF VersionsInv, VersionsOK
    <2>. QED
      BY <2>1, <2>2 DEF Next, vars, CacheHit, Call, LoseRequest, Complete
  <1>3. calls' \in [Callers -> 0 .. MaxCalls]
    BY <1>0 DEF Next, vars, CacheHit, Call, Serve, LoseRequest, LoseReply,
               Complete
  <1>4. ASSUME NEW d \in Callers PROVE CallerTyped(d)'
    <2>1. ASSUME NEW c \in Callers, NEW id \in Ids, CacheHit(c, id)
          PROVE  CallerTyped(d)'
      <3>1. CASE d = c
        <4>1. cache[id] \in BodyOf("GetSchema")
          BY <1>0, <2>1, BodyOfKinds DEF CacheHit, IInv, TextOrNone
        <4>2. ret'[c] \in ResultsOf(op'[c].kind)
          BY <1>0, <2>1, <4>1, InResults DEF CacheHit, IInv
        <4>. QED
          BY <1>0, <2>1, <3>1, <4>2 DEF CacheHit, CallerTyped, IInv
      <3>2. CASE d # c
        BY <1>0, <2>1, <3>2 DEF CacheHit, CallerTyped, IInv
      <3>. QED
        BY <3>1, <3>2
    <2>2. ASSUME NEW c \in Callers, NEW o \in Ops, Call(c, o)
          PROVE  CallerTyped(d)'
      BY <1>0, <2>2 DEF Call, CallerTyped, IInv
    <2>3. ASSUME NEW c \in Callers, Serve(c)
          PROVE  CallerTyped(d)'
      <3>1. CASE d = c
        <4>1. /\ schemaOf' \in [Ids -> TextOrNone]
              /\ versions' \in [Subjects -> Seq(Ids)]
              /\ VersionsOK(schemaOf', versions')
          BY <1>1, <1>2 DEF IInv, VersionsInv
        <4>2. op[c] \in Ops /\ op' = op
          BY <1>0, <2>3 DEF Serve, IInv
        <4>3. resp'[c] = Reply(op[c], schemaOf', versions')
          BY <1>0, <2>3 DEF Serve, IInv
        <4>4. resp'[c] \in RepliesOf(op'[c].kind)
          BY <4>1, <4>2, <4>3, ReplyType
        <4>. QED
          BY <1>0, <2>3, <3>1, <4>4 DEF Serve, CallerTyped, IInv
      <3>2. CASE d # c
        BY <1>0, <2>3, <3>2 DEF Serve, CallerTyped, IInv
      <3>. QED
        BY <3>1, <3>2
    <2>4. ASSUME NEW c \in Callers, LoseRequest(c) \/ LoseReply(c)
          PROVE  CallerTyped(d)'
      <3>1. /\ pc' = [pc EXCEPT ![c] = "replied"]
            /\ resp' = [resp EXCEPT ![c] = NetErr]
            /\ UNCHANGED <<op, ret>>
        BY <2>4 DEF LoseRequest, LoseReply
      <3>. QED
        BY <1>0, <3>1 DEF CallerTyped, IInv, RepliesOf
    <2>5. ASSUME NEW c \in Callers, Complete(c)
          PROVE  CallerTyped(d)'
      <3>1. CASE d = c
        <4>. DEFINE o == op[c]
                    r == resp[c]
        <4>1. o \in Ops /\ r \in RepliesOf(o.kind) /\ pc[c] = "replied"
          BY <1>0, <2>5 DEF Complete, IInv, CallerTyped
        <4>2. ret'[c] \in ResultsOf(o.kind)
          <5>1. CASE o.kind = "GetSchema"
            <6>1. Parses(r.payload) => OkR(o.kind, r.payload) \in ResultsOf(o.kind)
              <7>1. Parses(r.payload) => r.payload \in BodyOf(o.kind)
                BY <5>1, BodyOfKinds DEF Parses
              <7>. QED
                BY <7>1, InResults
            <6>2. ErrR(NoVal) \in ResultsOf(o.kind)
              BY InResults
            <6>3. ret'[c] = IF ~Failed(r) /\ Parses(r.payload)
                            THEN OkR(o.kind, r.payload) ELSE ErrR(NoVal)
              BY <1>0, <2>5, <5>1 DEF Complete
            <6>. QED
              BY <6>1, <6>2, <6>3
          <5>2. CASE o.kind # "GetSchema"
            <6>1. ret'[c] = Returns(o, r)
              BY <1>0, <2>5, <5>2 DEF Complete, IInv
            <6>. QED
              BY <4>1, <5>2, <6>1, ReturnsType
          <5>. QED
            BY <5>1, <5>2
        <4>. QED
          BY <1>0, <2>5, <3>1, <4>2 DEF Complete, CallerTyped, IInv
      <3>2. CASE d # c
        BY <1>0, <2>5, <3>2 DEF Complete, CallerTyped, IInv
      <3>. QED
        BY <3>1, <3>2
    <2>6. CASE UNCHANGED vars
      BY <1>0, <2>6 DEF vars, CallerTyped
    <2>. QED
      BY <2>1, <2>2, <2>3, <2>4, <2>5, <2>6 DEF Next
  <1>5. DOMAIN ret' = Callers
    BY <1>0 DEF Next, vars, CacheHit, Call, Serve, LoseRequest, LoseReply,
               Complete
  <1>6. \A d \in Callers : CallerTyped(d)'
    BY <1>4
  <1>. QED
    BY <1>1, <1>2, <1>3, <1>5, <1>6 DEF TInv, IInv, TypeOK, TextOrNone,
       CallerTyped, RepliesOf

\* Whatever the interleaving and whatever the network loses, every reply
\* c.client.Do hands a caller has the shape its method decodes (a GetVersions
\* list numbers at most as many versions as there are ids, a version's
\* schema is a text), and every result a method returns is its own type or
\* an error carrying no value or an id.
THEOREM TypeOKThm == Spec => []TypeOK
  <1>1. TInv => TypeOK
    BY DEF TInv
  <1>. QED
    BY <1>1, InitTInv, NextTInv, PTL DEF Spec

-----------------------------------------------------------------------------
(* The Client implements RegistryAbstract under the mapping APc.          *)

\* What a method other than GetSchema returns is the response's value, or
\* an error that carries no value or an id the registry sent.
LEMMA ReturnsAbstract ==
  ASSUME NEW o \in Ops, o.kind # "GetSchema", NEW r,
         r.status = "ok" => PayloadIds(o, r.payload)
  PROVE  \/ r.status = "ok" /\ Returns(o, r) = OkR(o.kind, r.payload)
         \/ \E v \in Ids \cup {NoVal} : Returns(o, r) = ErrR(v)
  <1>1. CASE Failed(r)
    BY <1>1 DEF Returns
  <1>2. CASE ~Failed(r) /\ o.kind \in {"GetSubjects", "GetVersions"}
    <2>1. Returns(o, r) = OkR(o.kind, r.payload)
      BY <1>2, Zenon DEF Returns
    <2>. QED
      BY <1>2, <2>1 DEF Failed
  <1>3. CASE ~Failed(r) /\ o.kind \in {"GetSchemaByVersion", "GetLatestSchema"}
    <2>1. Returns(o, r) = IF Parses(r.payload) THEN OkR(o.kind, r.payload)
                          ELSE ErrR(NoVal)
      BY <1>3, Zenon DEF Returns
    <2>. QED
      BY <1>3, <2>1 DEF Failed
  <1>4. CASE ~Failed(r) /\ o.kind = "GetLatestSchemaInfo"
    <2>1. Returns(o, r) = IF Parses(r.payload.text) THEN OkR(o.kind, r.payload)
                          ELSE ErrR(r.payload.id)
      BY <1>4, Zenon DEF Returns
    <2>2. r.payload.id \in Ids
      BY <1>4 DEF Failed, PayloadIds
    <2>. QED
      BY <1>4, <2>1, <2>2 DEF Failed
  <1>5. CASE ~Failed(r) /\ o.kind \in {"CreateSchema", "IsRegistered"}
    <2>1. Returns(o, r) = IF Parses(o.text) THEN OkR(o.kind, r.payload)
                          ELSE ErrR(r.payload)
      BY <1>5, Zenon DEF Returns
    <2>2. r.payload \in Ids
      BY <1>5 DEF Failed, PayloadIds
    <2>. QED
      BY <1>5, <2>1, <2>2 DEF Failed
  <1>. QED
    BY <1>1, <1>2, <1>3, <1>4, <1>5, OpKinds

\* The results of both levels are the same records.
LEMMA ResultsAgree ==
  /\ \A k, v : OkR(k, v) = Abs!AOk(k, v)
  /\ \A v : ErrR(v) = Abs!AErr(v)
  BY DEF OkR, ErrR, Abs!AOk, Abs!AErr

\* RegistryAbstract and RegistryClient share the registry's definitions.
LEMMA SameServer ==
  /\ Abs!Ops = Ops /\ Abs!NoOp = NoOp /\ Abs!NoResult = NoResult
  /\ Abs!NetErr = NetErr /\ Abs!HttpErr = HttpErr
  /\ \A o, so, vs : Abs!Reply(o, so, vs) = Reply(o, so, vs)
  /\ \A o, so : Abs!NewSchemaOf(o, so) = NewSchemaOf(o, so)
  /\ \A o, so, vs : Abs!AfterVersions(o, so, vs) = AfterVersions(o, so, vs)
  <1>1. Abs!Ops = Ops /\ Abs!NoOp = NoOp /\ Abs!NoResult = NoResult
    <2>1. Abs!Cardinality(Ids) = Cardinality(Ids)
      BY DEF Abs!Cardinality, Cardinality
    <2>. QED
      BY <2>1 DEF Abs!Ops, Ops, Abs!NoOp, NoOp, Abs!NoResult, NoResult
  <1>2. Abs!NetErr = NetErr /\ Abs!HttpErr = HttpErr
    BY DEF Abs!NetErr, NetErr, Abs!HttpErr, HttpErr
  <1>3. \A o, so, vs : Abs!Reply(o, so, vs) = Reply(o, so, vs)
    <2>. SUFFICES ASSUME NEW o, NEW so, NEW vs
                  PROVE  Abs!Reply(o, so, vs) = Reply(o, so, vs)
      OBVIOUS
    <2>1. /\ \A k, p : Abs!Ok(k, p) = Ok(k, p)
          /\ Abs!HttpErr = HttpErr
          /\ \A s, x : Abs!UnderSubject(so, vs, s, x) = UnderSubject(so, vs, s, x)
          /\ \A x : Abs!IdOf(so, x) = IdOf(so, x)
      BY DEF Abs!Ok, Ok, Abs!HttpErr, HttpErr, Abs!UnderSubject, UnderSubject,
             Abs!IdOf, IdOf
    <2>. QED
      BY <2>1 DEF Abs!Reply, Reply
  <1>4. \A o, so : Abs!NewSchemaOf(o, so) = NewSchemaOf(o, so)
    BY DEF Abs!NewSchemaOf, NewSchemaOf, Abs!Creates, Creates,
           Abs!FreeIds, FreeIds, Abs!Registered, Registered
  <1>5. \A o, so, vs : Abs!AfterVersions(o, so, vs) = AfterVersions(o, so, vs)
    BY DEF Abs!AfterVersions, AfterVersions, Abs!UnderSubject, UnderSubject,
           Abs!IdOf, IdOf
  <1>. QED
    BY <1>1, <1>2, <1>3, <1>4, <1>5

LEMMA InitRefines == Init => Abs!AInit
  BY SameServer DEF Init, Abs!AInit, APc

LEMMA NextRefines == IInv /\ [Next]_vars => [Abs!ANext]_Abs!avars
  <1>. SUFFICES ASSUME IInv, [Next]_vars PROVE [Abs!ANext]_Abs!avars
    OBVIOUS
  <1>. USE RegistryAssumption
  <1>1. ASSUME NEW c \in Callers, NEW id \in Ids, CacheHit(c, id)
        PROVE  Abs!ANext
    <2>. DEFINE o == [kind |-> "GetSchema", id |-> id]
    <2>1. o \in Ops
      BY DEF Ops
    <2>2. schemaOf[id] # NoText /\ cache[id] = schemaOf[id]
      BY <1>1 DEF CacheHit, IInv, CacheMatchesServer
    <2>3. Reply(o, schemaOf, versions) = Ok(o.kind, schemaOf[id])
      BY <2>2, ReplyGetSchema
    <2>4. APc' = APc /\ APc[c] = "idle"
      BY <1>1 DEF CacheHit, APc
    <2>5. Abs!Reply(o, schemaOf, versions) = Ok(o.kind, schemaOf[id])
      BY <2>3, SameServer
    <2>6. Abs!AOk(o.kind, schemaOf[id]) = OkR("GetSchema", cache[id])
      BY <2>2, ResultsAgree
    <2>7. Abs!Reply(o, schemaOf, versions).status = "ok"
          /\ Abs!Reply(o, schemaOf, versions).payload = schemaOf[id]
      BY <2>5 DEF Ok
    <2>8. /\ op' = [op EXCEPT ![c] = o]
          /\ ret' = [ret EXCEPT ![c] = Abs!AOk(o.kind, schemaOf[id])]
          /\ UNCHANGED <<schemaOf, versions, resp>>
      BY <1>1, <2>6 DEF CacheHit
    <2>9. Abs!AInstant(c, o)
      BY <2>4, <2>7, <2>8 DEF Abs!AInstant
    <2>. QED
      BY <2>1, <2>9, SameServer DEF Abs!ANext
  <1>2. ASSUME NEW c \in Callers, NEW o \in Ops, Call(c, o)
        PROVE  Abs!ANext
    <2>1. APc[c] = "idle" /\ APc' = [APc EXCEPT ![c] = "called"]
      BY <1>2 DEF Call, IInv, APc
    <2>. QED
      BY <1>2, <2>1, SameServer DEF Call, Abs!ACall, Abs!ANext
  <1>3. ASSUME NEW c \in Callers, Serve(c) \/ LoseRequest(c) \/ LoseReply(c)
        PROVE  Abs!ANext
    <2>1. /\ pc[c] = "sent" /\ pc' = [pc EXCEPT ![c] = "replied"]
          /\ UNCHANGED <<cache, op, ret>>
      BY <1>3 DEF Serve, LoseRequest, LoseReply
    <2>2. APc[c] = "called" /\ APc' = [APc EXCEPT ![c] = "answered"]
      BY <2>1 DEF IInv, APc
    <2>3. Abs!ATakeEffect(c)
      <3>1. CASE Serve(c)
        BY <2>1, <2>2, <3>1, SameServer DEF Serve, Abs!ATakeEffect
      <3>2. CASE LoseRequest(c)
        BY <2>1, <2>2, <3>2, SameServer DEF LoseRequest, Abs!ATakeEffect
      <3>3. CASE LoseReply(c)
        BY <2>1, <2>2, <3>3, SameServer DEF LoseReply, Abs!ATakeEffect
      <3>. QED
        BY <1>3, <3>1, <3>2, <3>3
    <2>. QED
      BY <2>3 DEF Abs!ANext
  <1>4. ASSUME NEW c \in Callers, Complete(c)
        PROVE  Abs!ANext
    <2>. DEFINE o == op[c]
                r == resp[c]
    <2>1. APc[c] = "answered" /\ APc' = [APc EXCEPT ![c] = "idle"]
      BY <1>4 DEF Complete, IInv, APc
    <2>2. o \in Ops /\ (r.status = "ok" => PayloadIds(o, r.payload))
      BY <1>4 DEF Complete, IInv
    <2>3. \/ r.status = "ok" /\ ret' = [ret EXCEPT ![c] = OkR(o.kind, r.payload)]
          \/ \E v \in Ids \cup {NoVal} : ret' = [ret EXCEPT ![c] = ErrR(v)]
      <3>1. CASE o.kind = "GetSchema"
        BY <1>4, <3>1 DEF Complete, Failed
      <3>2. CASE o.kind # "GetSchema"
        <4>1. ret' = [ret EXCEPT ![c] = Returns(o, r)]
          BY <1>4, <3>2 DEF Complete
        <4>. QED
          BY <2>2, <3>2, <4>1, ReturnsAbstract
      <3>. QED
        BY <3>1, <3>2
    <2>4. Abs!AReturn(c)
      BY <1>4, <2>1, <2>3, ResultsAgree DEF Complete, Abs!AReturn
    <2>. QED
      BY <2>4 DEF Abs!ANext
  <1>5. CASE UNCHANGED vars
    BY <1>5 DEF vars, Abs!avars, APc
  <1>. QED
    BY <1>1, <1>2, <1>3, <1>4, <1>5 DEF Next

\* Whatever the cache answers and whatever the network loses, every
\* behaviour of the Client is one of RegistryAbstract: a cache hit returns
\* what the registry holds at that instant, and every call that reaches
\* c.client.Do takes effect at one instant and returns that instant's
\* answer or an error.
THEOREM ImplementsAbstractThm == Spec => ImplementsAbstract
  <1>1. IInv /\ [Next]_vars => [Abs!ANext]_Abs!avars
    BY NextRefines
  <1>. QED
    BY <1>1, InitIInv, NextIInv, InitRefines, PTL
       DEF Spec, ImplementsAbstract, Abs!ASpec

=============================================================================
