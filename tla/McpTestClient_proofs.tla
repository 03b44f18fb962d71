------------------------- MODULE McpTestClient_proofs -------------------------
(***************************************************************************)
(* Proofs about McpTestClient.  Everything rests on one fact: what is on   *)
(* the exit stack is what is open.  The tempdir exists while it is on the  *)
(* stack, a server runs only while its scope is, and the stack is always a *)
(* beginning of Opening, so the server's scope is closed first.            *)
(***************************************************************************)
EXTENDS McpTestClient, SequenceTheorems, TLAPS

(* The stacks a client can have, spelled out. *)
Stacks ==
  IF isolation = "strict"
  THEN {<<>>, <<"home">>, <<"home", "stdio">>, <<"home", "stdio", "session">>}
  ELSE {<<>>, <<"stdio">>, <<"stdio", "session">>}

BeforeSpawn == IF isolation = "strict" THEN <<"home">> ELSE <<>>
WithServer == IF isolation = "strict" THEN <<"home", "stdio">> ELSE <<"stdio">>

Types ==
  /\ isolation \in {"strict", "passthrough"}
  /\ pc \in {"new", "spawning", "entering", "initializing", "open", "calling",
             "unwinding"} \union Over
  /\ call \in Calls \union {None} /\ (pc = "calling") = (call # None)
  /\ bound \in BOOLEAN
  /\ exc \in {None, "notOnPath", "spawn", "protocol", "timeout", "notFound",
              "interrupt"}
  /\ server \in {"none", "running", "gone"}
  /\ home \in BOOLEAN

(* How far __aenter__ came says what is on the stack. *)
StackInStep ==
  /\ stack \in Stacks
  /\ pc \in {"new"} \union Over => stack = <<>>
  /\ pc = "spawning" => stack = BeforeSpawn
  /\ pc = "entering" => stack = WithServer
  /\ pc \in {"initializing", "open", "calling"} => stack = Opening

(* The stack owns the tempdir and the server. *)
StackOwns ==
  /\ home = (isolation = "strict" /\ stack # <<>>)
  /\ server = "running" => stack \notin {<<>>, <<"home">>}
  /\ stack \notin {<<>>, <<"home">>} => server # "none"
  /\ pc \in {"new", "refused", "spawning"} => server = "none"
  /\ pc \in {"entering", "initializing", "open", "calling"} => server # "none"

(* The invariant that is inductive. *)
IInv == Types /\ StackInStep /\ StackOwns

-----------------------------------------------------------------------------
(* The few stacks there are.                                               *)

LEMMA StacksArePrefixes ==
  ASSUME isolation \in {"strict", "passthrough"}, stack \in Stacks
  PROVE  IsPrefix(stack, Opening)
<1>1. CASE isolation = "strict"
  <2>1. Opening = <<"home", "stdio", "session">>
    BY <1>1 DEF Opening
  <2>2. CASE stack = <<>>
    BY <2>1, <2>2 DEF IsPrefix
  <2>3. CASE stack = <<"home">>
    BY <2>1, <2>3 DEF IsPrefix
  <2>4. CASE stack = <<"home", "stdio">>
    BY <2>1, <2>4 DEF IsPrefix
  <2>5. CASE stack = <<"home", "stdio", "session">>
    BY <2>1, <2>5 DEF IsPrefix
  <2> QED
    BY <1>1, <2>2, <2>3, <2>4, <2>5 DEF Stacks
<1>2. CASE isolation = "passthrough"
  <2>1. Opening = <<"stdio", "session">>
    BY <1>2 DEF Opening
  <2>2. CASE stack = <<>>
    BY <2>1, <2>2 DEF IsPrefix
  <2>3. CASE stack = <<"stdio">>
    BY <2>1, <2>3 DEF IsPrefix
  <2>4. CASE stack = <<"stdio", "session">>
    BY <2>1, <2>4 DEF IsPrefix
  <2> QED
    BY <1>2, <2>2, <2>3, <2>4 DEF Stacks
<1> QED
  BY <1>1, <1>2

(* Pushing, and taking back what was pushed last. *)
LEMMA AppendToOne ==
  ASSUME NEW S, NEW x \in S, NEW y \in S
  PROVE  Append(<<x>>, y) = <<x, y>>
<1>1. <<x>> \in Seq(S) /\ <<x, y>> \in Seq(S) /\ Len(<<x>>) = 1 /\ Len(<<x, y>>) = 2
  OBVIOUS
<1>2. Append(<<x>>, y) \in Seq(S) /\ Len(Append(<<x>>, y)) = 2
  BY <1>1
<1>3. \A i \in 1 .. 2 : Append(<<x>>, y)[i] = <<x, y>>[i]
  BY <1>1
<1> QED
  BY <1>1, <1>2, <1>3, SeqEqual

LEMMA AppendToTwo ==
  ASSUME NEW S, NEW x \in S, NEW y \in S, NEW z \in S
  PROVE  Append(<<x, y>>, z) = <<x, y, z>>
<1>1. /\ <<x, y>> \in Seq(S) /\ <<x, y, z>> \in Seq(S)
      /\ Len(<<x, y>>) = 2 /\ Len(<<x, y, z>>) = 3
  OBVIOUS
<1>2. Append(<<x, y>>, z) \in Seq(S) /\ Len(Append(<<x, y>>, z)) = 3
  BY <1>1
<1>3. \A i \in 1 .. 3 : Append(<<x, y>>, z)[i] = <<x, y, z>>[i]
  BY <1>1
<1> QED
  BY <1>1, <1>2, <1>3, SeqEqual

LEMMA LastIn ==
  ASSUME NEW S, NEW s \in Seq(S), NEW e \in S
  PROVE  Front(Append(s, e)) = s /\ Last(Append(s, e)) = e
<1>1. /\ Append(s, e) \in Seq(S) /\ Len(Append(s, e)) = Len(s) + 1
      /\ Len(s) \in Nat
  OBVIOUS
<1>2. Front(Append(s, e)) = SubSeq(Append(s, e), 1, Len(s))
  BY <1>1 DEF Front
<1>3. /\ SubSeq(Append(s, e), 1, Len(s)) \in Seq(S)
      /\ Len(SubSeq(Append(s, e), 1, Len(s))) = Len(s)
  BY <1>1
<1>4. \A i \in 1 .. Len(s) : SubSeq(Append(s, e), 1, Len(s))[i] = s[i]
  BY <1>1
<1>5. SubSeq(Append(s, e), 1, Len(s)) = s
  BY <1>3, <1>4, SeqEqual
<1> QED
  BY <1>1, <1>2, <1>5 DEF Last

(* What opens a scope puts on the stack. *)
LEMMA Pushing ==
  /\ Append(BeforeSpawn, "stdio") = WithServer
  /\ Append(WithServer, "session") = Opening
<1>1. "home" \in Resources /\ "stdio" \in Resources /\ "session" \in Resources
  BY DEF Resources
<1>2. /\ Append(<<>>, "stdio") = <<"stdio">>
      /\ Append(<<"home">>, "stdio") = <<"home", "stdio">>
      /\ Append(<<"stdio">>, "session") = <<"stdio", "session">>
      /\ Append(<<"home", "stdio">>, "session") = <<"home", "stdio", "session">>
  <2>1. Append(<<>>, "stdio") = <<"stdio">>
    OBVIOUS
  <2> QED
    BY <1>1, <2>1, AppendToOne, AppendToTwo
<1> QED
  BY <1>2 DEF BeforeSpawn, WithServer, Opening

(* The top of each stack, and what is below it. *)
LEMMA Popping ==
  /\ Front(<<"stdio">>) = <<>> /\ Last(<<"stdio">>) = "stdio"
  /\ Front(<<"home">>) = <<>> /\ Last(<<"home">>) = "home"
  /\ Front(<<"home", "stdio">>) = <<"home">> /\ Last(<<"home", "stdio">>) = "stdio"
  /\ Front(<<"stdio", "session">>) = <<"stdio">> /\ Last(<<"stdio", "session">>) = "session"
  /\ Front(<<"home", "stdio", "session">>) = <<"home", "stdio">>
  /\ Last(<<"home", "stdio", "session">>) = "session"
<1>1. "home" \in Resources /\ "stdio" \in Resources /\ "session" \in Resources
  BY DEF Resources
<1>2. /\ <<>> \in Seq(Resources) /\ <<"home">> \in Seq(Resources)
      /\ <<"stdio">> \in Seq(Resources) /\ <<"home", "stdio">> \in Seq(Resources)
  BY <1>1
<1>3. /\ Append(<<>>, "stdio") = <<"stdio">> /\ Append(<<>>, "home") = <<"home">>
  OBVIOUS
<1>4. /\ Front(<<"stdio">>) = <<>> /\ Last(<<"stdio">>) = "stdio"
      /\ Front(<<"home">>) = <<>> /\ Last(<<"home">>) = "home"
  BY <1>1, <1>2, <1>3, LastIn
<1>5. Front(<<"home", "stdio">>) = <<"home">> /\ Last(<<"home", "stdio">>) = "stdio"
  <2>1. Append(<<"home">>, "stdio") = <<"home", "stdio">>
    BY <1>1, AppendToOne
  <2>2. /\ Front(Append(<<"home">>, "stdio")) = <<"home">>
        /\ Last(Append(<<"home">>, "stdio")) = "stdio"
    BY <1>1, <1>2, LastIn
  <2> QED
    BY <2>1, <2>2
<1>6. Front(<<"stdio", "session">>) = <<"stdio">> /\ Last(<<"stdio", "session">>) = "session"
  <2>1. Append(<<"stdio">>, "session") = <<"stdio", "session">>
    BY <1>1, AppendToOne
  <2>2. /\ Front(Append(<<"stdio">>, "session")) = <<"stdio">>
        /\ Last(Append(<<"stdio">>, "session")) = "session"
    BY <1>1, <1>2, LastIn
  <2> QED
    BY <2>1, <2>2
<1>7. /\ Front(<<"home", "stdio", "session">>) = <<"home", "stdio">>
      /\ Last(<<"home", "stdio", "session">>) = "session"
  <2>1. Append(<<"home", "stdio">>, "session") = <<"home", "stdio", "session">>
    BY <1>1, AppendToTwo
  <2>2. /\ Front(Append(<<"home", "stdio">>, "session")) = <<"home", "stdio">>
        /\ Last(Append(<<"home", "stdio">>, "session")) = "session"
    BY <1>1, <1>2, LastIn
  <2> QED
    BY <2>1, <2>2
<1> QED
  BY <1>4, <1>5, <1>6, <1>7

LEMMA NamedStacks ==
  /\ BeforeSpawn \in Stacks /\ WithServer \in Stacks /\ Opening \in Stacks
  /\ WithServer \notin {<<>>, <<"home">>} /\ Opening \notin {<<>>, <<"home">>}
  /\ BeforeSpawn # <<>> <=> isolation = "strict"
BY DEF Stacks, BeforeSpawn, WithServer, Opening

(* Closing the innermost scope: the directory is the last to go, and a     *)
(* server is gone once its scope is closed.                                *)
LEMMA Closing ==
  ASSUME stack \in Stacks, UnwindLast, UNCHANGED isolation,
         home = (isolation = "strict" /\ stack # <<>>),
         server = "running" => stack \notin {<<>>, <<"home">>},
         stack \notin {<<>>, <<"home">>} => server # "none",
         server \in {"none", "running", "gone"}
  PROVE  /\ stack' \in Stacks'
         /\ home' = (isolation = "strict" /\ stack' # <<>>)
         /\ server' = "running" => stack' \notin {<<>>, <<"home">>}
         /\ stack' \notin {<<>>, <<"home">>} => server' # "none"
         /\ server' \in {server, "gone"}
         /\ server' # server => server # "none"
         /\ home' # home => server # "running" /\ server' = server
         /\ home' # home => home
<1> USE Popping DEF UnwindLast, CloseResource, Stacks
<1>1. CASE stack = <<"home", "stdio", "session">>
  <2>1. stack' = <<"home", "stdio">> /\ Last(stack) = "session"
    BY <1>1
  <2> QED
    BY <1>1, <2>1
<1>2. CASE stack = <<"home", "stdio">>
  <2>1. stack' = <<"home">> /\ Last(stack) = "stdio"
    BY <1>2
  <2> QED
    BY <1>2, <2>1
<1>3. CASE stack = <<"home">>
  <2>1. stack' = <<>> /\ Last(stack) = "home"
    BY <1>3
  <2> QED
    BY <1>3, <2>1
<1>4. CASE stack = <<"stdio", "session">>
  <2>1. stack' = <<"stdio">> /\ Last(stack) = "session"
    BY <1>4
  <2> QED
    BY <1>4, <2>1
<1>5. CASE stack = <<"stdio">>
  <2>1. stack' = <<>> /\ Last(stack) = "stdio"
    BY <1>5
  <2> QED
    BY <1>5, <2>1
<1> QED
  BY <1>1, <1>2, <1>3, <1>4, <1>5

-----------------------------------------------------------------------------
(* Invariance.                                                             *)

LEMMA InitIInv == Init => IInv
BY DEF Init, IInv, Types, StackInStep, StackOwns, Stacks, Over, BeforeSpawn,
       WithServer

(* __aenter__ keeps the invariant. *)
LEMMA EnterIInv ==
  ASSUME IInv,
         CommandMissing \/ Begin \/ SpawnOk \/ SessionEntered \/ InitializeOk
         \/ EnterFails \/ InitializeTimeout
  PROVE  IInv'
<1> USE DEF IInv, Types, StackInStep, StackOwns, Over, Calls, None
<1>0. isolation' = isolation
  BY DEF CommandMissing, Begin, SpawnOk, SessionEntered, InitializeOk, EnterFails,
         InitializeTimeout, CatchBaseException
<1>n. /\ Stacks' = Stacks /\ BeforeSpawn' = BeforeSpawn
      /\ WithServer' = WithServer /\ Opening' = Opening
  BY <1>0 DEF Stacks, BeforeSpawn, WithServer, Opening
<1>1. CASE CommandMissing
  BY <1>1, <1>n DEF CommandMissing
<1>2. CASE Begin
  <2>1. stack' = BeforeSpawn
    BY <1>2 DEF Begin, BeforeSpawn
  <2> QED
    BY <1>2, <1>n, <2>1, NamedStacks DEF Begin
<1>3. CASE SpawnOk
  BY <1>3, <1>n, Pushing, NamedStacks DEF SpawnOk
<1>4. CASE SessionEntered
  BY <1>4, <1>n, Pushing, NamedStacks DEF SessionEntered
<1>5. CASE InitializeOk
  BY <1>5, <1>n DEF InitializeOk
<1>6. CASE EnterFails \/ InitializeTimeout
  BY <1>6, <1>n DEF EnterFails, InitializeTimeout, CatchBaseException
<1> QED
  BY <1>1, <1>2, <1>3, <1>4, <1>5, <1>6

(* So do the calls, leaving and unwinding. *)
LEMMA LeaveIInv ==
  ASSUME IInv,
         StartCall \/ CallReturns \/ LeaveBlock \/ CallFails \/ CallTimeout
         \/ Unwind \/ Unwound \/ ServerExits \/ Finished
  PROVE  IInv'
<1> USE DEF IInv, Types, StackInStep, StackOwns, Over, Calls, None
<1>0. isolation' = isolation
  BY DEF StartCall, CallReturns, LeaveBlock, CallFails, CallTimeout, Leave, Unwind,
         Unwound, ServerExits, Finished, vars
<1>n. /\ Stacks' = Stacks /\ BeforeSpawn' = BeforeSpawn
      /\ WithServer' = WithServer /\ Opening' = Opening
  BY <1>0 DEF Stacks, BeforeSpawn, WithServer, Opening
<1>1. CASE StartCall \/ CallReturns
  BY <1>1, <1>n DEF StartCall, CallReturns
<1>2. CASE LeaveBlock \/ CallFails \/ CallTimeout
  BY <1>2, <1>n DEF LeaveBlock, CallFails, CallTimeout, Leave
<1>3. CASE Unwind
  <2>1. /\ stack' \in Stacks'
        /\ home' = (isolation = "strict" /\ stack' # <<>>)
        /\ server' = "running" => stack' \notin {<<>>, <<"home">>}
        /\ stack' \notin {<<>>, <<"home">>} => server' # "none"
        /\ server' \in {server, "gone"}
    BY <1>0, <1>3, Closing DEF Unwind
  <2> QED
    BY <1>0, <1>3, <1>n, <2>1 DEF Unwind
<1>4. CASE Unwound
  BY <1>4, <1>n DEF Unwound
<1>5. CASE ServerExits
  BY <1>5, <1>n DEF ServerExits
<1>6. CASE Finished
  BY <1>6, <1>n DEF Finished, vars
<1> QED
  BY <1>1, <1>2, <1>3, <1>4, <1>5, <1>6

LEMMA Invariance == Spec => []IInv
<1>1. IInv /\ [Next]_vars => IInv'
  <2>1. ASSUME IInv, UNCHANGED vars PROVE IInv'
    BY <2>1 DEF IInv, Types, StackInStep, StackOwns, Stacks, BeforeSpawn, WithServer,
                Opening, vars
  <2> QED
    BY <2>1, EnterIInv, LeaveIInv DEF Next
<1> QED
  BY <1>1, InitIInv, PTL DEF Spec

(* Every reachable state of the client is well typed; the exit stack is    *)
(* always a beginning of the order the scopes are opened in.               *)
THEOREM TypeCorrect == Spec => []TypeOK
<1>1. IInv => TypeOK
  BY StacksArePrefixes DEF IInv, Types, StackInStep, TypeOK
<1> QED
  BY <1>1, Invariance, PTL

(* Whatever was raised and wherever, __aenter__ and __aexit__ leave        *)
(* neither a server nor a tempdir behind.                                  *)
THEOREM EverythingClosed == Spec => []NothingLeft
<1>1. IInv => NothingLeft
  BY DEF IInv, StackInStep, StackOwns, NothingLeft
<1> QED
  BY <1>1, Invariance, PTL

(* Under strict isolation no server runs without its HOME, also while an   *)
(* exception unwinds the stack.                                            *)
THEOREM HomeOutlives == Spec => []HomeOutlivesServer
<1>1. IInv => HomeOutlivesServer
  BY DEF IInv, StackOwns, HomeOutlivesServer
<1> QED
  BY <1>1, Invariance, PTL

-----------------------------------------------------------------------------
(* The client implements ServerLease.                                      *)

LEMMA EnterRefines ==
  ASSUME IInv,
         CommandMissing \/ Begin \/ SpawnOk \/ SessionEntered \/ InitializeOk
         \/ EnterFails \/ InitializeTimeout
  PROVE  [Lease!Next]_(Lease!vars)
<1> USE DEF LeaseState, Lease!vars
<1>1. CASE CommandMissing
  BY <1>1 DEF CommandMissing
<1>2. CASE Begin
  BY <1>2 DEF Begin, Lease!Next, Lease!Acquire
<1>3. CASE SpawnOk
  <2>1. isolation = "strict" => home
    BY <1>3, NamedStacks DEF SpawnOk, IInv, StackInStep, StackOwns
  <2> QED
    BY <1>3, <2>1 DEF SpawnOk, Lease!Next, Lease!Spawn, IInv, StackOwns
<1>4. CASE SessionEntered
  BY <1>4 DEF SessionEntered
<1>5. CASE InitializeOk
  BY <1>5 DEF InitializeOk, Lease!Next, Lease!Grant, IInv, StackOwns
<1>6. CASE EnterFails \/ InitializeTimeout
  BY <1>6 DEF EnterFails, InitializeTimeout, CatchBaseException, Lease!Next,
              Lease!Release
<1> QED
  BY <1>1, <1>2, <1>3, <1>4, <1>5, <1>6

LEMMA LeaveRefines ==
  ASSUME IInv,
         StartCall \/ CallReturns \/ LeaveBlock \/ CallFails \/ CallTimeout
         \/ Unwind \/ Unwound \/ ServerExits \/ Finished
  PROVE  [Lease!Next]_(Lease!vars)
<1> USE DEF LeaseState, Lease!vars
<1>1. CASE StartCall \/ CallReturns
  BY <1>1 DEF StartCall, CallReturns
<1>2. CASE LeaveBlock \/ CallFails \/ CallTimeout
  BY <1>2 DEF LeaveBlock, CallFails, CallTimeout, Leave, Lease!Next, Lease!Release
<1>3. CASE Unwind
  <2>1. /\ server' \in {server, "gone"}
        /\ server' # server => server # "none"
        /\ home' # home => server # "running" /\ server' = server
        /\ home' # home => home
    BY <1>3, Closing DEF Unwind, IInv, Types, StackInStep, StackOwns
  <2>2. home \in BOOLEAN /\ home' \in BOOLEAN
    BY <1>3 DEF Unwind, UnwindLast, CloseResource, IInv, Types
  <2>3. isolation' = isolation /\ pc' = pc
    BY <1>3 DEF Unwind
  <2>4. CASE home' # home
    <3>1. home /\ home' = FALSE /\ server # "running" /\ server' = server
      BY <2>1, <2>2, <2>4
    <3> QED
      BY <2>3, <3>1 DEF Lease!Next, Lease!DropHome
  <2>5. CASE home' = home /\ server' # server
    <3>1. server = "running" /\ server' = "gone"
      BY <1>3, <2>1, <2>5 DEF Unwind, IInv, Types, StackOwns
    <3> QED
      BY <2>3, <2>5, <3>1 DEF Lease!Next, Lease!ServerExits
  <2> QED
    BY <2>3, <2>4, <2>5
<1>4. CASE Unwound
  BY <1>4 DEF Unwound, Lease!Next, Lease!End, IInv, StackOwns
<1>5. CASE ServerExits
  BY <1>5 DEF ServerExits, Lease!Next, Lease!ServerExits
<1>6. CASE Finished
  BY <1>6 DEF Finished, vars
<1> QED
  BY <1>1, <1>2, <1>3, <1>4, <1>5, <1>6

(* Every behaviour of the client, seen through LeaseState, is a behaviour  *)
(* of the lease.                                                           *)
THEOREM Refinement == Spec => ImplementsLease
<1>1. Init => Lease!Init
  BY DEF Init, Lease!Init, LeaseState
<1>2. IInv /\ [Next]_vars => [Lease!Next]_(Lease!vars)
  <2>1. ASSUME UNCHANGED vars PROVE UNCHANGED Lease!vars
    BY <2>1 DEF vars, Lease!vars, LeaseState
  <2> QED
    BY <2>1, EnterRefines, LeaveRefines DEF Next
<1> QED
  BY <1>1, <1>2, Invariance, PTL DEF Spec, ImplementsLease, Lease!Spec
=============================================================================
