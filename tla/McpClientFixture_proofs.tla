----------------------- MODULE McpClientFixture_proofs -----------------------
(***************************************************************************)
(* What McpClientFixture promises, proved from one inductive invariant.    *)
(***************************************************************************)
EXTENDS McpClientFixture, TLAPS

(* The owner lives exactly from the moment the body creates it, and no     *)
(* ending of the body leaves it behind.                                    *)
TasksInStep ==
  /\ (owner = "absent") = (body \in {"idle", "homed"})
  /\ body \in Ended => owner = "ended"

(* The server's life is inside the owner's scopes. *)
ServerInScope ==
  /\ owner \in {"absent", "created", "spawning"} => server = "none"
  /\ owner \in {"initializing", "serving", "exitSession", "exitStdio"}
       => server # "none"
  /\ owner = "ended" => server # "running"

(* The directory exists from its fixture's setup to its finalizer. *)
HomeHeld ==
  /\ isolation = "passthrough" => ~home
  /\ body = "idle" => ~home
  /\ isolation = "strict" /\ body \notin {"idle"} \union Ended => home

(* Who settled `ready', and with what. *)
ReadyAndOwner ==
  /\ ready # "cancelled"
  /\ owner \in {"absent", "created", "spawning", "initializing"}
       => ready = "pending" /\ firstExc = None
  /\ owner = "serving" => ready = "result" /\ firstExc = None
  /\ owner \in {"exitSession", "exitStdio"} => ready # "pending"
  /\ ready = "exception" => firstExc # None /\ readyExc = firstExc
  /\ ready = "result" => server # "none"
  /\ (ownerExc = None) = (firstExc = None)
  /\ firstExc # "invalidState"

(* What the body has learnt from it. *)
BodyAndReady ==
  /\ body \in {"yielded", "awaitOwner"} => ready = "result"
  /\ body \in {"reaping", "failed"} =>
       \/ raised \in {"setupTimeout", "interrupt"}
       \/ raised = firstExc /\ firstExc # None

(* A body that gave up has cancelled the owner, and the owner takes no     *)
(* step before that cancellation reaches it.                               *)
GivenUp ==
  body = "reaping" /\ owner \in {"created", "spawning", "initializing"}
    => cancelling

IInv == /\ TypeOK /\ TasksInStep /\ ServerInScope /\ HomeHeld
        /\ ReadyAndOwner /\ BodyAndReady /\ GivenUp /\ BrokenSessionReported

USE DEF None, Ended, OwnerErrors, Exceptions, bodyVars, ownerVars, readyVars

-----------------------------------------------------------------------------

(* The initial states satisfy the invariant. *)
LEMMA InitIInv == Init => IInv
  BY DEF Init, IInv, TypeOK, TasksInStep, ServerInScope, HomeHeld,
         ReadyAndOwner, BodyAndReady, GivenUp, BrokenSessionReported

(* Every step of the owner task preserves it. *)
LEMMA OwnerPreserves ==
  ASSUME IInv, OwnerStep
  PROVE  IInv'
<1> USE DEF IInv, TypeOK, TasksInStep, ServerInScope, HomeHeld,
            ReadyAndOwner, BodyAndReady, GivenUp, BrokenSessionReported,
            OwnerRuns
<1>1. CASE OwnerStart
  BY <1>1 DEF OwnerStart
<1>2. CASE SpawnOk
  BY <1>2 DEF SpawnOk
<1>3. CASE SpawnFails
  BY <1>3 DEF SpawnFails, SettleExc
<1>4. CASE InitializeOk
  BY <1>4 DEF InitializeOk
<1>5. CASE InitializeFails
  BY <1>5 DEF InitializeFails, InitRaises, SettleExc
<1>6. CASE InitializeTimesOut
  BY <1>6 DEF InitializeTimesOut, InitRaises, SettleExc
<1>7. CASE ServingEnds
  BY <1>7 DEF ServingEnds
<1>8. CASE ServingBreaks
  BY <1>8 DEF ServingBreaks
<1>9. CASE RaiseCancelled
  <2>1. /\ cancelling' \in BOOLEAN
        /\ UNCHANGED <<isolation, body, wake, raised, shutdown, home>>
    BY <1>9 DEF RaiseCancelled, InitRaises, SettleExc
  <2>2. owner' \notin {"created", "spawning", "initializing"}
    BY <1>9 DEF RaiseCancelled, InitRaises, SettleExc
  <2>3. TypeOK'
    BY <1>9, <2>1 DEF RaiseCancelled, InitRaises, SettleExc
  <2>4. TasksInStep' /\ ServerInScope' /\ HomeHeld' /\ BrokenSessionReported'
    BY <1>9, <2>1 DEF RaiseCancelled, InitRaises, SettleExc
  <2>5. ReadyAndOwner' /\ BodyAndReady'
    BY <1>9, <2>1 DEF RaiseCancelled, InitRaises, SettleExc
  <2> QED
    BY <2>1, <2>2, <2>3, <2>4, <2>5
<1>10. CASE LeaveSession
  BY <1>10 DEF LeaveSession, Unwind
<1>11. CASE LeaveStdio
  BY <1>11 DEF LeaveStdio, Unwind, SettleExc
<1> QED
  BY <1>1, <1>2, <1>3, <1>4, <1>5, <1>6, <1>7, <1>8, <1>9, <1>10, <1>11
     DEF OwnerStep

(* Every step of the fixture body preserves it. *)
LEMMA BodyPreserves ==
  ASSUME IInv, BodyStep \/ Interrupt
  PROVE  IInv'
<1> USE DEF IInv, TypeOK, TasksInStep, ServerInScope, HomeHeld,
            ReadyAndOwner, BodyAndReady, GivenUp, BrokenSessionReported
<1>1. CASE SetupHome
  <2>1. TypeOK'
    BY <1>1 DEF SetupHome
  <2>2. HomeHeld'
    BY <1>1 DEF SetupHome
  <2> QED
    BY <1>1, <2>1, <2>2 DEF SetupHome
<1>2. CASE StartOwner
  BY <1>2 DEF StartOwner
<1>3. ASSUME NEW why \in {"timeout", "interrupt"}, AbortWait(why)
      PROVE  IInv'
  BY <1>3 DEF AbortWait, CancelWaiter
<1>4. CASE BodyAborts
  <2>1. TypeOK'
    BY <1>4 DEF BodyAborts, GiveUp, CancelOwner
  <2>2. GivenUp'
    BY <1>4 DEF BodyAborts, GiveUp, CancelOwner
  <2>3. BodyAndReady' /\ TasksInStep' /\ HomeHeld'
    BY <1>4 DEF BodyAborts, GiveUp
  <2> QED
    BY <1>4, <2>1, <2>2, <2>3 DEF BodyAborts, GiveUp
<1>5. CASE BodyGetsClient
  BY <1>5 DEF BodyGetsClient
<1>6. CASE BodyGetsError
  BY <1>6 DEF BodyGetsError, GiveUp, CancelOwner
<1>7. CASE Reaped
  BY <1>7 DEF Reaped
<1>8. CASE BeginTeardown
  BY <1>8 DEF BeginTeardown
<1>9. ASSUME NEW why \in {"timeout", "interrupt"}, StopOwnerWait(why)
      PROVE  IInv'
  BY <1>9 DEF StopOwnerWait, CancelOwner
<1>10. CASE FinishTeardown
  <2>1. body' \in {"closed", "closeError"}
    BY <1>10 DEF FinishTeardown, TeardownResult
  <2>2. body' = "closed" /\ wake = None => ownerExc = None
    BY <1>10 DEF FinishTeardown, TeardownResult
  <2> QED
    BY <1>10, <2>1, <2>2 DEF FinishTeardown
<1>11. CASE RemoveHome
  <2>1. home' \in BOOLEAN /\ ~home'
    BY ONLY <1>11, Zenon DEF RemoveHome
  <2>2. body' \in Ended
    BY <1>11 DEF RemoveHome
  <2>3. TypeOK'
    BY ONLY <1>11, <2>1, TypeOK DEF RemoveHome, TypeOK
  <2> QED
    BY <1>11, <2>1, <2>2, <2>3 DEF RemoveHome
<1> QED
  BY <1>1, <1>2, <1>3, <1>4, <1>5, <1>6, <1>7, <1>8, <1>9, <1>10, <1>11
     DEF BodyStep, Interrupt, ReadyTimeout, ShutdownTimeout

(* The server's own exit, and a step that changes nothing, preserve it. *)
LEMMA NextIInv == IInv /\ [Next]_vars => IInv'
<1> SUFFICES ASSUME IInv, [Next]_vars PROVE IInv'
  OBVIOUS
<1>1. CASE ServerExits
  BY <1>1 DEF ServerExits, IInv, TypeOK, TasksInStep, ServerInScope, HomeHeld,
              ReadyAndOwner, BodyAndReady, GivenUp, BrokenSessionReported
<1>2. CASE UNCHANGED vars
  BY <1>2 DEF vars, IInv, TypeOK, TasksInStep, ServerInScope, HomeHeld,
              ReadyAndOwner, BodyAndReady, GivenUp, BrokenSessionReported
<1> QED
  BY <1>1, <1>2, OwnerPreserves, BodyPreserves DEF Next, Finished

(* The invariant holds in every state of every behaviour of the fixture. *)
THEOREM Invariance == Spec => []IInv
  BY InitIInv, NextIInv, PTL DEF Spec

(* Every variable keeps its type; the future holds an exception exactly    *)
(* when it was settled with one.                                           *)
THEOREM TypeCorrect == Spec => []TypeOK
  BY Invariance, PTL DEF IInv

(* No ending of the fixture leaves its owner task or an MCP server behind. *)
THEOREM ServerReaped == Spec => []NoLeakedServer
<1>1. IInv => NoLeakedServer
  BY DEF IInv, TasksInStep, ServerInScope, NoLeakedServer
<1> QED
  BY <1>1, Invariance, PTL

(* A server under strict isolation never runs without its HOME. *)
THEOREM HomeOutlives == Spec => []HomeOutlivesServer
<1>1. IInv => HomeOutlivesServer
  BY DEF IInv, TypeOK, TasksInStep, ServerInScope, HomeHeld, HomeOutlivesServer
<1> QED
  BY <1>1, Invariance, PTL

(* A failed setup that was neither timed out nor interrupted raises the    *)
(* exception the owner met first.                                          *)
THEOREM ErrorPreserved == Spec => []OriginalErrorRaised
<1>1. IInv => OriginalErrorRaised
  BY DEF IInv, BodyAndReady, OriginalErrorRaised
<1> QED
  BY <1>1, Invariance, PTL

(* ready.set_result is called on a pending future only.                    *)
THEOREM HandoffValid == Spec => []HandoffAlwaysValid
<1>1. IInv => HandoffAlwaysValid
  BY DEF IInv, ReadyAndOwner, HandoffAlwaysValid
<1> QED
  BY <1>1, Invariance, PTL

(* A session that broke in use is reported when the fixture ends.          *)
THEOREM BrokenReported == Spec => []BrokenSessionReported
<1>1. IInv => BrokenSessionReported
  BY DEF IInv
<1> QED
  BY <1>1, Invariance, PTL

-----------------------------------------------------------------------------
(* The fixture implements ServerLease.                                     *)

(* A step of the owner task is the start or the end of the server, or is   *)
(* invisible to the lease.                                                 *)
LEMMA OwnerRefines ==
  ASSUME IInv, OwnerStep
  PROVE  [Lease!Next]_(Lease!vars)
<1> USE DEF LeaseState, Lease!vars, InitRaises, SettleExc, Unwind
<1>1. CASE SpawnOk
  <2>1. body = "awaitReady"
    BY <1>1 DEF SpawnOk, OwnerRuns, IInv, TypeOK, TasksInStep, BodyAndReady,
                ReadyAndOwner, GivenUp
  <2>2. Lease!Spawn
    BY <1>1, <2>1 DEF SpawnOk, Lease!Spawn, IInv, ServerInScope, HomeHeld
  <2> QED
    BY <2>2 DEF Lease!Next
<1>2. CASE LeaveStdio
  <2>1. Lease!ServerExits \/ UNCHANGED Lease!vars
    BY <1>2 DEF LeaveStdio, Lease!ServerExits, IInv, TypeOK, ServerInScope
  <2> QED
    BY <2>1 DEF Lease!Next
<1>3. CASE RaiseCancelled
  BY <1>3 DEF RaiseCancelled
<1>4. CASE \/ OwnerStart \/ SpawnFails \/ InitializeOk \/ InitializeFails
           \/ InitializeTimesOut \/ ServingEnds \/ ServingBreaks \/ LeaveSession
  BY <1>4 DEF OwnerStart, SpawnFails, InitializeOk, InitializeFails,
              InitializeTimesOut, ServingEnds, ServingBreaks, LeaveSession
<1> QED
  BY <1>1, <1>2, <1>3, <1>4 DEF OwnerStep

(* A step of the body opens, grants, releases or ends the lease, or makes  *)
(* or drops its directory.                                                 *)
LEMMA BodyRefines ==
  ASSUME IInv, BodyStep \/ Interrupt
  PROVE  [Lease!Next]_(Lease!vars)
<1> USE DEF LeaseState, Lease!vars
<1>1. CASE SetupHome
  BY <1>1 DEF SetupHome, Lease!Next, Lease!MakeHome, IInv, TypeOK, HomeHeld
<1>2. CASE StartOwner
  BY <1>2 DEF StartOwner, Lease!Next, Lease!Acquire
<1>3. ASSUME NEW why, AbortWait(why) \/ StopOwnerWait(why)
      PROVE  UNCHANGED Lease!vars
  BY <1>3 DEF AbortWait, StopOwnerWait
<1>4. CASE BodyAborts \/ BodyGetsError \/ BeginTeardown
  BY <1>4 DEF BodyAborts, BodyGetsError, BeginTeardown, GiveUp,
              Lease!Next, Lease!Release
<1>5. CASE BodyGetsClient
  BY <1>5 DEF BodyGetsClient, Lease!Next, Lease!Grant, IInv, ReadyAndOwner
<1>6. CASE Reaped
  BY <1>6 DEF Reaped, Lease!Next, Lease!End, IInv, ServerInScope
<1>7. CASE FinishTeardown
  <2>1. body' \in {"closed", "closeError"}
    BY <1>7 DEF FinishTeardown, TeardownResult
  <2> QED
    BY <1>7, <2>1 DEF FinishTeardown, Lease!Next, Lease!End, IInv, ServerInScope
<1>8. CASE RemoveHome
  BY <1>8 DEF RemoveHome, Lease!Next, Lease!DropHome, IInv, TasksInStep,
              ServerInScope
<1> QED
  BY <1>1, <1>2, <1>3, <1>4, <1>5, <1>6, <1>7, <1>8
     DEF BodyStep, Interrupt, ReadyTimeout, ShutdownTimeout

(* Every behaviour of the fixture, seen through LeaseState, is a behaviour *)
(* of the lease: one server per lease, running only while the lease is     *)
(* open and its directory exists, gone when the lease has ended.           *)
THEOREM Refinement == Spec => ImplementsLease
<1>1. Init => Lease!Init
  BY DEF Init, Lease!Init, LeaseState
<1>2. IInv /\ [Next]_vars => [Lease!Next]_(Lease!vars)
  <2> SUFFICES ASSUME IInv, [Next]_vars PROVE [Lease!Next]_(Lease!vars)
    OBVIOUS
  <2>1. CASE ServerExits
    BY <2>1 DEF ServerExits, LeaseState, Lease!Next, Lease!ServerExits
  <2>2. CASE UNCHANGED vars
    BY <2>2 DEF vars, Lease!vars, LeaseState
  <2> QED
    BY <2>1, <2>2, OwnerRefines, BodyRefines DEF Next, Finished
<1> QED
  BY <1>1, <1>2, Invariance, PTL DEF Spec, ImplementsLease, Lease!Spec
=============================================================================
