-------------------------- MODULE RegistryAbstract --------------------------
(***************************************************************************)
(* What the registry Client promises its callers, with no cache and no     *)
(* network: every call takes effect at one instant between its invocation *)
(* and its return (it is linearizable), and there the registry answers it  *)
(* from its state of that instant.  A call may fail, and a failed          *)
(* CreateSchema may or may not have registered its text; a call that       *)
(* returns a value returns the registry's answer.  A call may also be      *)
(* answered at the instant it is made.                                     *)
(***************************************************************************)
EXTENDS RegistryServer

VARIABLES
  schemaOf,   \* the registry: id -> schema text
  versions,   \* the registry: subject -> ids of its versions
  apc,        \* each caller: "idle", "called" or "answered"
  aop,        \* each caller's current or last request
  ans,        \* the answer taken at the call's instant
  ret         \* each caller's last result

avars == <<schemaOf, versions, apc, aop, ans, ret>>

AInit ==
  /\ schemaOf = [i \in Ids |-> NoText]
  /\ versions = [s \in Subjects |-> <<>>]
  /\ apc = [c \in Callers |-> "idle"]
  /\ aop = [c \in Callers |-> NoOp]
  /\ ans = [c \in Callers |-> NetErr]
  /\ ret = [c \in Callers |-> NoResult]

ACall(c, o) ==
  /\ apc[c] = "idle"
  /\ apc' = [apc EXCEPT ![c] = "called"]
  /\ aop' = [aop EXCEPT ![c] = o]
  /\ UNCHANGED <<schemaOf, versions, ans, ret>>

\* The call's instant: the registry handles it and answers, or it fails
\* before the registry sees it, or the answer is lost after.
ATakeEffect(c) ==
  LET o == aop[c] IN
  /\ apc[c] = "called"
  /\ apc' = [apc EXCEPT ![c] = "answered"]
  /\ \/ /\ \E so2 \in NewSchemaOf(o, schemaOf) :
             schemaOf' = so2 /\ versions' = AfterVersions(o, so2, versions)
        /\ \E a \in {Reply(o, schemaOf', versions'), HttpErr, NetErr} :
             ans' = [ans EXCEPT ![c] = a]
     \/ /\ \E a \in {HttpErr, NetErr} : ans' = [ans EXCEPT ![c] = a]
        /\ UNCHANGED <<schemaOf, versions>>
  /\ UNCHANGED <<aop, ret>>

\* A value result and an error result, as the Client's methods return them.
AOk(k, v) == [kind |-> k, status |-> "ok", val |-> v]
AErr(v) == [kind |-> "err", status |-> "err", val |-> v]

\* The call returns the answer's value when it has one, or an error, which
\* may carry an id.
AReturn(c) ==
  /\ apc[c] = "answered"
  /\ apc' = [apc EXCEPT ![c] = "idle"]
  /\ \/ /\ ans[c].status = "ok"
        /\ ret' = [ret EXCEPT ![c] = AOk(aop[c].kind, ans[c].payload)]
     \/ \E v \in Ids \cup {NoVal} : ret' = [ret EXCEPT ![c] = AErr(v)]
  /\ UNCHANGED <<schemaOf, versions, aop, ans>>

\* A read answered at the instant it is made, from the registry's state.
AInstant(c, o) ==
  /\ apc[c] = "idle"
  /\ o.kind # "CreateSchema"
  /\ Reply(o, schemaOf, versions).status = "ok"
  /\ aop' = [aop EXCEPT ![c] = o]
  /\ ret' = [ret EXCEPT ![c] = AOk(o.kind, Reply(o, schemaOf, versions).payload)]
  /\ UNCHANGED <<schemaOf, versions, apc, ans>>

ANext ==
  \E c \in Callers :
    \/ \E o \in Ops : ACall(c, o) \/ AInstant(c, o)
    \/ ATakeEffect(c)
    \/ AReturn(c)

ASpec == AInit /\ [][ANext]_avars

=============================================================================
