----------------------- MODULE ContractSession_proofs -----------------------
(***************************************************************************)
(* Type correctness of ContractSession, the single owner of passthrough    *)
(* credentials, and what a session reports, for any number of tools,       *)
(* buckets and workers.                                                    *)
(***************************************************************************)
EXTENDS ContractSession, TLAPS

(* SingleOwner says nothing of how many processes the session has, nor of  *)
(* which of them may have a server: both must be known to step over Spawn. *)

(* A process that takes no part has never left its place. *)
Bystanders ==
  \A p \in Procs \ Running : pc[p] \in {"new", "done"}

(* A server belongs to a process that takes part and is past configuration. *)
ServersInScope ==
  \A p \in Procs : server[p] # None => p \in Running /\ pc[p] # "new"

(* The step that stashes a config clamps. *)
Clamped ==
  stash /\ isolation = "passthrough" /\ (option.numprocesses # 0 \/ option.tx = 0)
    => Running = {1}

IInv == TypeOK /\ Bystanders /\ ServersInScope /\ Clamped

(* The inductive invariant gives the property. *)
LEMMA IInvSingleOwner == IInv => SingleOwner
  BY DEF IInv, SingleOwner, ServersInScope, Clamped

(* The processes of a session are numbered from 1. *)
LEMMA RunningProcs == ASSUME TypeOK PROVE Running \subseteq Procs
  BY MaxWorkersAssumption DEF TypeOK, Running, Procs

(* What is injected for opted-in tools are items. *)
LEMMA InjectedItems ==
  ASSUME NEW names \in SUBSET Tools
  PROVE  Injected(names) \subseteq Item
<1> SUFFICES ASSUME NEW i \in Injected(names) PROVE i \in Item
  OBVIOUS
<1>1. PICK b \in Buckets : i \in Cells(b, names) /\ i.tool # "NOTSET"
  BY DEF Injected
<1>2. i \in [tool : Tools, bucket : Buckets]
  BY <1>1 DEF Cells
<1> QED
  BY <1>2 DEF Item

(* The operator's own items are items. *)
LEMMA OwnItemsItems == ASSUME TypeOK PROVE OwnItems \subseteq Item
  BY DEF TypeOK, OwnItems, Item

(* The initial states satisfy the invariant. *)
LEMMA InitIInv == Init => IInv
<1> SUFFICES ASSUME Init PROVE IInv
  OBVIOUS
<1> USE MaxWorkersAssumption DEF Init
<1>1. option \in [numprocesses : 0 .. MaxWorkers, tx : 0 .. MaxWorkers]
  BY DEF Options
<1>2. tools \in [Tools -> ToolConfig]
  BY ConfigsAssumption
<1>3. TypeOK
  BY <1>1, <1>2 DEF TypeOK, Item
<1>4. Bystanders /\ ServersInScope /\ Clamped
  BY DEF Bystanders, ServersInScope, Clamped, Procs
<1> QED
  BY <1>3, <1>4 DEF IInv

(* A step that leaves the options and the stash alone, in which one process *)
(* that takes part moves on, keeps what SingleOwner rests on.              *)
LEMMA ProcessStep ==
  ASSUME IInv, NEW p \in Procs, pc[p] # "new", pc[p] # "done",
         UNCHANGED <<isolation, option, stash>>,
         \E there \in {"collecting", "discovering", "collected", "waiting", "checking",
                       "gateless", "ready", "connecting", "serving", "clientless", "done"} :
           pc' = [pc EXCEPT ![p] = there],
         \E s \in {None, "strict", "passthrough"} : server' = [server EXCEPT ![p] = s]
  PROVE  Bystanders' /\ ServersInScope' /\ Clamped'
<1> USE DEF IInv
<1>1. p \in Running
  BY DEF Bystanders
<1>2. Running' = Running
  BY DEF Running
<1>3. pc \in [Procs -> {"new", "collecting", "discovering", "collected", "waiting",
                       "checking", "gateless", "ready", "connecting", "serving",
                       "clientless", "done"}]
      /\ server \in [Procs -> {None, "strict", "passthrough"}]
  BY DEF TypeOK
<1>4. Bystanders'
  BY <1>1, <1>2, <1>3 DEF Bystanders
<1>5. ServersInScope'
  BY <1>1, <1>2, <1>3 DEF ServersInScope
<1>6. Clamped'
  BY <1>2 DEF Clamped
<1> QED
  BY <1>4, <1>5, <1>6

(* Every step keeps the types. *)
LEMMA TypeStep == ASSUME TypeOK, [Next]_vars PROVE TypeOK'
<1> USE DEF TypeOK, inputs, lists
<1>1. CASE Configure
  <2>1. option' \in [numprocesses : 0 .. MaxWorkers, tx : 0 .. MaxWorkers]
    BY <1>1, MaxWorkersAssumption DEF Configure, Clamp
  <2> QED
    BY <1>1, <2>1 DEF Configure
<1>2. CASE ConfigureFails
  BY <1>2 DEF ConfigureFails
<1>3. CASE Start
  BY <1>3 DEF Start
<1>4. CASE FinishSession
  BY <1>4 DEF FinishSession
<1>5. CASE Interrupt
  BY <1>5 DEF Interrupt
<1>6. CASE Done \/ UNCHANGED vars
  BY <1>6 DEF Done, vars
<1>7. ASSUME NEW p \in Procs PROVE CollectOwn(p) => TypeOK'
  BY OwnItemsItems DEF CollectOwn
<1>8. ASSUME NEW p \in Procs PROVE Discover(p) => TypeOK'
  BY DEF Discover, Isolation
<1>9. ASSUME NEW p \in Procs, Collect(p) PROVE TypeOK'
  <2>1. PICK names \in Listings :
          /\ listed' = [listed EXCEPT ![p] = names]
          /\ items' = [items EXCEPT ![p] =
                         OwnItems \union Injected(Allowed \intersect names)]
    BY <1>9 DEF Collect
  <2>2. names \subseteq Tools
    BY ListingsAssumption
  <2>3. OwnItems \union Injected(Allowed \intersect names) \subseteq Item
    BY <2>2, OwnItemsItems, InjectedItems
  <2> QED
    BY <1>9, <2>1, <2>2, <2>3 DEF Collect
<1>10. ASSUME NEW p \in Procs, DiscoveryFails(p) \/ CheckFails(p) \/ NoClasses(p)
       PROVE  TypeOK'
  <2>1. PICK reason \in {"setupError", "noClasses"} : Exits(p, reason)
    BY <1>10 DEF DiscoveryFails, CheckFails, NoClasses, ExitsInItem
  <2>2. report' \in [Item -> {None, "ran", "error", "crashed"}]
    BY <1>10 DEF DiscoveryFails, CheckFails, NoClasses, ExitsInItem
  <2> QED
    BY <2>1, <2>2 DEF Exits
<1>11. ASSUME NEW p \in Procs PROVE NoPreflight(p) \/ Check(p) \/ CheckRaises(p) => TypeOK'
  BY DEF NoPreflight, Check, CheckRaises
<1>12. ASSUME NEW p \in Procs PROVE CheckPasses(p) => TypeOK'
  BY ListingsAssumption DEF CheckPasses, Unknown, Configured
<1>13. ASSUME NEW p \in Procs PROVE OpenClient(p) \/ ClientFails(p) => TypeOK'
  <2>1. OpenClient(p) => TypeOK'
    <3>1. Isolation \in {"strict", "passthrough"}
      BY DEF Isolation
    <3> QED
      BY <3>1 DEF OpenClient
  <2>2. ClientFails(p) => TypeOK'
    BY DEF ClientFails
  <2> QED
    BY <2>1, <2>2
<1>14. ASSUME NEW p \in Procs PROVE ClientReady(p) => TypeOK'
  BY DEF ClientReady
<1>15. ASSUME NEW p \in Procs PROVE FinishProc(p) => TypeOK'
  BY DEF FinishProc
<1>16. ASSUME NEW p \in Procs, NEW i \in Pending(p) PROVE Run(p, i) => TypeOK'
  BY DEF Run, Pending, Outcomes
<1> QED
  BY <1>1, <1>2, <1>3, <1>4, <1>5, <1>6, <1>7, <1>8, <1>9, <1>10, <1>11, <1>12, <1>13,
     <1>14, <1>15, <1>16 DEF Next

(* Every step keeps what SingleOwner rests on. *)
LEMMA OwnerStep ==
  ASSUME IInv, [Next]_vars
  PROVE  Bystanders' /\ ServersInScope' /\ Clamped'
<1> USE DEF inputs, lists
<1> DEFINE Places == {"new", "collecting", "discovering", "collected", "waiting",
                      "checking", "gateless", "ready", "connecting", "serving", "clientless",
                      "done"}
<1>0. /\ pc \in [Procs -> Places]
      /\ server \in [Procs -> {None, "strict", "passthrough"}]
      /\ option \in [numprocesses : 0 .. MaxWorkers, tx : 0 .. MaxWorkers]
  BY DEF IInv, TypeOK
<1>a. CASE UNCHANGED <<isolation, option, stash, pc, server>>
  BY <1>a DEF IInv, Bystanders, ServersInScope, Clamped, Running
<1>1. CASE Configure
  <2>1. \A p \in Procs : server'[p] = None
    BY <1>1 DEF Configure, IInv, ServersInScope
  <2>2. \A p \in Procs : p \notin Running' => pc'[p] = "done"
    BY <1>1 DEF Configure
  <2>3. Clamped'
    BY <1>0, <1>1, MaxWorkersAssumption DEF Configure, Clamp, Clamped, Running
  <2> QED
    BY <2>1, <2>2, <2>3 DEF Bystanders, ServersInScope
<1>2. CASE ConfigureFails
  <2>1. \A p \in Procs : server'[p] = None /\ pc'[p] = "done"
    BY <1>2 DEF ConfigureFails, IInv, ServersInScope
  <2>2. Clamped'
    BY <1>2 DEF ConfigureFails, Clamped, IInv, Running
  <2> QED
    BY <2>1, <2>2 DEF Bystanders, ServersInScope
<1>3. CASE Start
  <2>1. Running' = Running
    BY <1>3 DEF Start, Running
  <2>2. \A p \in Procs : pc'[p] # pc[p] => p \in Running /\ pc[p] # "new" /\ pc'[p] # "new"
    BY <1>0, <1>3 DEF Start, Collected
  <2> QED
    BY <1>3, <2>1, <2>2 DEF Start, IInv, Bystanders, ServersInScope, Clamped
<1>4. CASE FinishSession \/ Interrupt \/ Done \/ UNCHANGED vars
  BY <1>4, <1>a DEF FinishSession, Interrupt, Done, vars
<1>5. ASSUME NEW p \in Procs, NEW i \in Pending(p), Run(p, i)
      PROVE  Bystanders' /\ ServersInScope' /\ Clamped'
  BY <1>5, <1>a DEF Run
<1>6. ASSUME NEW p \in Procs, pc[p] # "new", pc[p] # "done",
             UNCHANGED <<isolation, option, stash>>,
             NEW there \in Places \ {"new"}, pc' = [pc EXCEPT ![p] = there],
             UNCHANGED server
      PROVE  Bystanders' /\ ServersInScope' /\ Clamped'
  <2>1. server' = [server EXCEPT ![p] = server[p]] /\ server[p] \in {None, "strict", "passthrough"}
    BY <1>0, <1>6
  <2> QED
    BY <1>6, <2>1, ProcessStep
<1>7. ASSUME NEW p \in Procs,
             \/ CollectOwn(p) \/ Discover(p) \/ Collect(p) \/ DiscoveryFails(p)
             \/ NoPreflight(p) \/ Check(p) \/ CheckFails(p) \/ CheckRaises(p)
             \/ CheckPasses(p) \/ OpenClient(p) \/ ClientReady(p) \/ ClientFails(p)
             \/ NoClasses(p)
      PROVE  Bystanders' /\ ServersInScope' /\ Clamped'
  <2>1. CASE CollectOwn(p)
    BY <2>1, <1>6 DEF CollectOwn
  <2>2. CASE Discover(p)
    BY <2>2, ProcessStep DEF Discover, Isolation, IInv, TypeOK
  <2>3. CASE Collect(p)
    BY <2>3, ProcessStep DEF Collect
  <2>4. CASE DiscoveryFails(p)
    BY <2>4, ProcessStep DEF DiscoveryFails, Exits
  <2>5. CASE NoPreflight(p)
    BY <2>5, <1>6 DEF NoPreflight
  <2>6. CASE Check(p)
    BY <2>6, ProcessStep DEF Check
  <2>7. CASE CheckFails(p)
    BY <2>7, ProcessStep DEF CheckFails, ExitsInItem, Exits
  <2>8. CASE CheckPasses(p)
    BY <2>8, ProcessStep DEF CheckPasses
  <2>9. CASE OpenClient(p)
    BY <2>9, ProcessStep DEF OpenClient, Isolation, IInv, TypeOK
  <2>10. CASE ClientReady(p)
    BY <2>10, <1>6 DEF ClientReady
  <2>11. CASE ClientFails(p)
    BY <2>11, ProcessStep DEF ClientFails
  <2>12. CASE CheckRaises(p)
    BY <2>12, <1>6 DEF CheckRaises
  <2>13. CASE NoClasses(p)
    BY <2>13, ProcessStep DEF NoClasses, ExitsInItem, Exits
  <2> QED
    BY <1>7, <2>1, <2>2, <2>3, <2>4, <2>5, <2>6, <2>7, <2>8, <2>9, <2>10, <2>11, <2>12,
       <2>13
<1>8. ASSUME NEW p \in Procs, FinishProc(p)
      PROVE  Bystanders' /\ ServersInScope' /\ Clamped'
  <2>1. Running' = Running
    BY <1>8 DEF FinishProc, Running
  <2>2. Bystanders' /\ ServersInScope'
    BY <1>0, <1>8, <2>1 DEF FinishProc, IInv, Bystanders, ServersInScope
  <2>3. Clamped'
    BY <1>8, <2>1 DEF FinishProc, IInv, Clamped
  <2> QED
    BY <2>2, <2>3
<1> QED
  BY <1>1, <1>2, <1>3, <1>4, <1>5, <1>7, <1>8 DEF Next

(* IInv is an invariant of every session. *)
THEOREM Invariance == Spec => []IInv
<1>1. IInv /\ [Next]_vars => IInv'
  BY TypeStep, OwnerStep DEF IInv
<1> QED
  BY InitIInv, <1>1, PTL DEF Spec

(* The variables keep their types for every choice of the constants. *)
THEOREM TypeCorrect == Spec => []TypeOK
<1>1. IInv => TypeOK
  BY DEF IInv
<1> QED
  BY Invariance, <1>1, PTL

(* With -n N, however many workers were asked for, no two processes of a   *)
(* passthrough session have a server at the same time.                     *)
THEOREM CredentialsSingleOwner == Spec => []SingleOwner
  BY Invariance, IInvSingleOwner, PTL

-----------------------------------------------------------------------------
(* What a session reports.  The properties speak of the end; on the way    *)
(* there one has to know what every process collected, that no process     *)
(* runs an item while another still collects, and which process has passed *)
(* its preflight.                                                          *)

Testing == {"waiting", "checking", "gateless", "ready", "connecting", "serving",
            "clientless"}
Gated == {"ready", "connecting", "serving", "clientless"}

Gathered(p) ==
  items[p] = IF Allowed = {} THEN OwnItems
             ELSE OwnItems \union Injected(Allowed \intersect listed[p])

(* Every process that takes part collected the same, by the rules. *)
Agreed == \A p \in Running : Gathered(p) /\ items[p] = items[1]

AllStarted == Agreed /\ \A p \in Running : pc[p] \in Testing \union {"done"}

Collecting ==
  \A p \in Running : /\ pc[p] = "discovering" => Allowed # {}
                     /\ pc[p] = "collected" => Gathered(p)

Started ==
  /\ (\E p \in Procs : pc[p] \in Testing) => AllStarted
  /\ exit = None /\ (\E p \in Running : pc[p] = "done") => AllStarted
  /\ Reported # {} => AllStarted /\ Reported \subseteq items[1]

Finished ==
  /\ exit = None => \A p \in Running : pc[p] = "done" => Pending(p) = {}
  /\ RanTests => items[1] \subseteq Reported

FirstFails ==
  /\ Running = {1} /\ pc[1] \in {"waiting", "checking"} => Reported = {}
  /\ FailFast

(* A test that ran was run by a process that passed its preflight.         *)
Ran == {i \in Item : report[i] = "ran"}

Warned ==
  /\ \A p \in Procs : pc[p] \in Gated /\ NeedsPreflight(p) => Unknown(checked[p]) \subseteq warned
  /\ Ran # {} /\ NeedsPreflight(1) =>
       \E p \in Running : pc[p] \in Gated \union {"done"} /\ Unknown(checked[p]) \subseteq warned

(* A worker that dies in an item ends the session.                         *)
NoneCrashed ==
  exit \in {None, "ok", "failed"} => \A i \in Item : report[i] # "crashed"

RInv ==
  IInv /\ Collecting /\ Started /\ Finished /\ FirstFails /\ Warned /\ NoneCrashed

(* Some process takes part. *)
LEMMA OneRuns == ASSUME TypeOK PROVE 1 \in Running /\ Running \subseteq Procs
  BY MaxWorkersAssumption DEF TypeOK, Running, Procs

(* What a step that leaves these variables alone leaves alone. *)
LEMMA Frame ==
  ASSUME UNCHANGED <<tools, own, option, stash, listed, items, report>>
  PROVE  /\ Running' = Running /\ Reported' = Reported /\ Allowed' = Allowed
         /\ Ran' = Ran /\ Agreed' = Agreed /\ \A p : Gathered(p)' = Gathered(p)
         /\ \A p : Pending(p)' = Pending(p) /\ NeedsPreflight(p)' = NeedsPreflight(p)
         /\ \A names : Unknown(names)' = Unknown(names)
<1>1. Running' = Running /\ Reported' = Reported /\ Allowed' = Allowed /\ Ran' = Ran
  BY DEF Running, Reported, Allowed, Configured, Ran
<1>2. \A p : Gathered(p)' = Gathered(p)
  BY <1>1 DEF Gathered, OwnItems, Injected, Cells
<1>3. Agreed' = Agreed
  BY <1>1, <1>2 DEF Agreed
<1>4. /\ \A p : Pending(p)' = Pending(p) /\ NeedsPreflight(p)' = NeedsPreflight(p)
      /\ \A names : Unknown(names)' = Unknown(names)
  BY DEF Pending, NeedsPreflight, Unknown, Configured
<1> QED
  BY <1>1, <1>2, <1>3, <1>4

(* A process moves on: to its discovery, or from one place of the tests to *)
(* another.                                                                *)
LEMMA QuietStep ==
  ASSUME RInv, UNCHANGED <<tools, own, option, stash, listed, items, report>>,
         NEW p \in Procs, pc[p] \notin {"new", "done"},
         NEW there, pc' = [pc EXCEPT ![p] = there],
         exit = None, exit' = None,
         \/ there \in Testing /\ pc[p] \in Testing
         \/ there = "discovering" /\ pc[p] = "collecting" /\ Allowed # {},
         there \in {"waiting", "checking", "gateless"} => pc[p] \in {"waiting", "checking"},
         there \in Gated /\ NeedsPreflight(p) => Unknown(checked'[p]) \subseteq warned',
         warned \subseteq warned', \A q \in Procs \ {p} : checked'[q] = checked[q],
         pc[p] \in Gated => checked'[p] = checked[p]
  PROVE  Collecting' /\ Started' /\ Finished' /\ FirstFails' /\ Warned' /\ NoneCrashed'
<1> USE DEF RInv, IInv
<1>1. /\ Running' = Running /\ Reported' = Reported /\ Allowed' = Allowed
      /\ Ran' = Ran /\ Agreed' = Agreed /\ \A q : Gathered(q)' = Gathered(q)
      /\ \A q : Pending(q)' = Pending(q) /\ NeedsPreflight(q)' = NeedsPreflight(q)
      /\ \A names : Unknown(names)' = Unknown(names)
  BY Frame
<1>2. /\ pc'[p] = there /\ \A q \in Procs \ {p} : pc'[q] = pc[q]
  BY DEF TypeOK
<1>3. p \in Running /\ Running \subseteq Procs
  BY OneRuns DEF Bystanders
<1>4. Collecting'
  BY <1>1, <1>2, <1>3 DEF Collecting, Testing
<1>5. AllStarted => pc[p] \in Testing /\ AllStarted'
  BY <1>1, <1>2, <1>3 DEF AllStarted, Testing
<1>6. Started'
  <2>1. ASSUME NEW q \in Procs, pc'[q] \in Testing PROVE AllStarted
    BY <1>2, <2>1 DEF Started, Testing
  <2>2. ASSUME NEW q \in Running, pc'[q] = "done" PROVE AllStarted
    BY <1>2, <1>3, <2>2 DEF Started, Testing
  <2>3. Reported # {} => AllStarted /\ Reported \subseteq items[1]
    BY DEF Started
  <2> QED
    BY <1>1, <1>5, <2>1, <2>2, <2>3 DEF Started
<1>7. Finished'
  <2>1. ~RanTests'
    BY DEF RanTests, None
  <2> QED
    BY <1>1, <1>2, <1>3, <2>1 DEF Finished, Testing
<1>8. FirstFails'
  <2>1. FailFast'
    BY DEF FailFast, None
  <2>2. ASSUME Running = {1}, pc'[1] \in {"waiting", "checking"} PROVE Reported = {}
    BY <1>2, <1>3, <2>2 DEF FirstFails
  <2> QED
    BY <1>1, <2>1, <2>2 DEF FirstFails
<1>9. Warned'
  <2>1. ASSUME NEW q \in Procs, pc'[q] \in Gated, NeedsPreflight(q)
        PROVE  Unknown(checked'[q]) \subseteq warned'
    BY <1>2, <2>1 DEF Warned
  <2>2. ASSUME NEW q \in Running, pc[q] \in Gated \union {"done"},
               Unknown(checked[q]) \subseteq warned
        PROVE  pc'[q] \in Gated \union {"done"} /\ Unknown(checked'[q]) \subseteq warned'
    BY <1>2, <1>3, <2>2 DEF Gated, Testing
  <2> QED
    BY <1>1, <2>1, <2>2 DEF Warned
<1>10. NoneCrashed'
  BY DEF NoneCrashed
<1> QED
  BY <1>4, <1>6, <1>7, <1>8, <1>9, <1>10

(* A process has collected. *)
LEMMA GatherStep ==
  ASSUME RInv, NEW p \in Procs, CollectOwn(p) \/ Collect(p)
  PROVE  Collecting' /\ Started' /\ Finished' /\ FirstFails' /\ Warned' /\ NoneCrashed'
<1> USE DEF RInv, IInv
<1>1. /\ exit = None /\ pc[p] \in {"collecting", "discovering"}
      /\ pc' = [pc EXCEPT ![p] = "collected"]
      /\ UNCHANGED <<inputs, option, stash, exit, checked, warned, report>>
  BY DEF CollectOwn, Collect, lists
<1>2. /\ p \in Running /\ Running \subseteq Procs /\ Running' = Running /\ 1 \in Running
      /\ Allowed' = Allowed /\ Reported' = Reported
  BY <1>1, OneRuns DEF Bystanders, Running, Allowed, Configured, Reported, inputs
<1>3. pc'[p] = "collected" /\ \A q \in Procs \ {p} : pc'[q] = pc[q]
  BY <1>1 DEF TypeOK
<1>4. ~AllStarted
  BY <1>1, <1>2 DEF AllStarted, Testing
<1>5. /\ \A q \in Procs : pc[q] \notin Testing
      /\ \A q \in Running : pc[q] # "done"
      /\ Reported = {}
  BY <1>1, <1>4 DEF Started
<1>6. Gathered(p)'
  <2>1. CASE CollectOwn(p)
    <3>1. items'[p] = OwnItems /\ Allowed' = {} /\ OwnItems' = OwnItems
      BY <1>1, <1>2, <2>1 DEF CollectOwn, TypeOK, OwnItems, inputs
    <3> QED
      BY <3>1 DEF Gathered
  <2>2. CASE Collect(p)
    <3>1. PICK names \in Listings :
            /\ listed' = [listed EXCEPT ![p] = names]
            /\ items' = [items EXCEPT ![p] =
                           OwnItems \union Injected(Allowed \intersect names)]
      BY <2>2 DEF Collect
    <3>2. /\ listed'[p] = names
          /\ items'[p] = OwnItems \union Injected(Allowed \intersect listed'[p])
      BY <3>1 DEF TypeOK
    <3>3. Allowed # {}
      BY <1>2, <2>2 DEF Collect, Collecting
    <3>4. OwnItems' = OwnItems /\ \A ns : Injected(ns)' = Injected(ns)
      BY <1>1 DEF OwnItems, Injected, Cells, inputs
    <3> QED
      BY <1>2, <3>2, <3>3, <3>4 DEF Gathered
  <2> QED
    BY <2>1, <2>2
<1>7. \A q \in Procs \ {p} : Gathered(q) => Gathered(q)'
  <2>1. \A q \in Procs \ {p} : items'[q] = items[q] /\ listed'[q] = listed[q]
    BY DEF CollectOwn, Collect, TypeOK, lists
  <2>2. OwnItems' = OwnItems /\ \A ns : Injected(ns)' = Injected(ns)
    BY <1>1 DEF OwnItems, Injected, Cells, inputs
  <2> QED
    BY <1>2, <2>1, <2>2 DEF Gathered
<1>8. Collecting'
  BY <1>2, <1>3, <1>6, <1>7 DEF Collecting
<1>9. Started'
  BY <1>2, <1>3, <1>5 DEF Started, Testing
<1>10. Finished' /\ FirstFails'
  BY <1>1, <1>2, <1>3, <1>5 DEF Finished, FirstFails, FailFast, RanTests, None
<1>11. Ran' = {} /\ NoneCrashed'
  BY <1>1, <1>2, <1>5 DEF Ran, Reported, NoneCrashed, None
<1>12. Warned'
  BY <1>2, <1>3, <1>5, <1>11 DEF Warned, Gated, Testing
<1> QED
  BY <1>8, <1>9, <1>10, <1>11, <1>12

(* The session exits, or one of its processes ends. *)
LEMMA EndStep ==
  ASSUME RInv, UNCHANGED <<tools, own, option, stash, listed, items, report, checked, warned>>,
         pc' = pc \/ \E p \in Procs : pc' = [pc EXCEPT ![p] = "done"],
         exit' # None,
         exit' = "setupError" /\ exit # "setupError" /\ Running = {1} => Reported = {},
         exit' \in {"ok", "failed"} =>
           exit = exit' \/ (exit = None /\ (Reported = {} \/ items[1] \subseteq Reported))
  PROVE  Collecting' /\ Started' /\ Finished' /\ FirstFails' /\ Warned' /\ NoneCrashed'
<1> USE DEF RInv, IInv
<1>1. /\ Running' = Running /\ Reported' = Reported /\ Allowed' = Allowed
      /\ Ran' = Ran /\ Agreed' = Agreed /\ \A q : Gathered(q)' = Gathered(q)
      /\ \A q : Pending(q)' = Pending(q) /\ NeedsPreflight(q)' = NeedsPreflight(q)
      /\ \A names : Unknown(names)' = Unknown(names)
  BY Frame
<1>2. \A q \in Procs : pc'[q] = pc[q] \/ pc'[q] = "done"
  BY DEF TypeOK
<1>3. 1 \in Running /\ Running \subseteq Procs
  BY OneRuns
<1>4. Collecting'
  BY <1>1, <1>2, <1>3 DEF Collecting
<1>5. Started'
  <2>1. AllStarted => AllStarted'
    BY <1>1, <1>2, <1>3 DEF AllStarted
  <2>2. \A q \in Procs : pc'[q] \in Testing => pc[q] \in Testing
    BY <1>2 DEF Testing
  <2> QED
    BY <1>1, <2>1, <2>2 DEF Started
<1>6. Finished'
  BY <1>1 DEF Finished, RanTests
<1>7. FirstFails'
  <2>1. FailFast'
    BY <1>1 DEF FirstFails, FailFast
  <2> QED
    BY <1>1, <1>2, <1>3, <2>1 DEF FirstFails
<1>8. Warned'
  <2>1. \A q \in Procs : pc'[q] \in Gated => pc[q] \in Gated
    BY <1>2 DEF Gated
  <2>2. \A q \in Running : pc[q] \in Gated \union {"done"} => pc'[q] \in Gated \union {"done"}
    BY <1>2, <1>3
  <2> QED
    BY <1>1, <2>1, <2>2 DEF Warned
<1>9. NoneCrashed'
  BY DEF NoneCrashed
<1> QED
  BY <1>4, <1>5, <1>6, <1>7, <1>8, <1>9

(* A process exits in an item, which its controller reports if the process *)
(* is a worker.                                                            *)
LEMMA CrashStep ==
  ASSUME RInv, NEW p \in Procs, NEW i \in Pending(p), exit = None,
         NEW reason, ExitsInItem(p, i, reason),
         \/ reason = "setupError" /\ pc[p] \in {"waiting", "checking"}
         \/ reason = "noClasses" /\ pc[p] \in Gated
  PROVE  Collecting' /\ Started' /\ Finished' /\ FirstFails' /\ Warned' /\ NoneCrashed'
<1> USE DEF RInv, IInv
<1>1. /\ i \in items[p] /\ i \in Item /\ report[i] = None
      /\ pc' = [pc EXCEPT ![p] = "done"] /\ exit' = reason
      /\ UNCHANGED <<tools, own, option, stash, listed, items, checked, warned>>
      /\ pc[p] \in Testing
  BY DEF ExitsInItem, Exits, Pending, TypeOK, inputs, lists, Testing, Gated
<1>2. pc'[p] = "done" /\ \A q \in Procs \ {p} : pc'[q] = pc[q]
  BY <1>1 DEF TypeOK
<1>3. /\ Running' = Running /\ Allowed' = Allowed /\ Agreed' = Agreed
      /\ \A q : Gathered(q)' = Gathered(q) /\ NeedsPreflight(q)' = NeedsPreflight(q)
      /\ \A names : Unknown(names)' = Unknown(names)
  BY <1>1 DEF Running, Allowed, Configured, Agreed, Gathered, OwnItems, Injected, Cells,
              NeedsPreflight, Unknown
<1>4. p \in Running /\ 1 \in Running /\ Running \subseteq Procs
  BY <1>1, OneRuns DEF Bystanders, Testing
<1>5. \/ option.tx = 0 /\ report' = report
      \/ option.tx # 0 /\ report' = [report EXCEPT ![i] = "crashed"]
  BY DEF ExitsInItem
<1>6. /\ Ran' = Ran /\ Reported' \subseteq Reported \union {i}
      /\ option.tx = 0 => Reported' = Reported
      /\ option.tx # 0 => report'[i] = "crashed"
  BY <1>1, <1>5 DEF Ran, Reported, TypeOK, None
<1>7. AllStarted /\ items[p] = items[1]
  BY <1>1, <1>4 DEF Started, AllStarted, Agreed
<1>8. Collecting'
  BY <1>2, <1>3, <1>4 DEF Collecting
<1>9. Started'
  <2>1. AllStarted'
    BY <1>1, <1>2, <1>3, <1>4, <1>7 DEF AllStarted
  <2>2. Reported' \subseteq items'[1]
    BY <1>1, <1>6, <1>7 DEF Started
  <2> QED
    BY <2>1, <2>2 DEF Started
<1>10. Finished'
  BY <1>1 DEF Finished, RanTests, None
<1>11. FirstFails'
  <2>1. ASSUME Running = {1}, reason = "setupError" PROVE Reported = {}
    BY <1>4, <2>1 DEF FirstFails, Gated
  <2>2. FailFast'
    BY <1>1, <1>3, <1>6, <2>1 DEF FailFast
  <2>3. Running = {1} => pc'[1] = "done"
    BY <1>2, <1>4
  <2> QED
    BY <1>3, <2>2, <2>3 DEF FirstFails
<1>12. Warned'
  <2>1. \A q \in Procs : pc'[q] \in Gated => pc[q] \in Gated
    BY <1>2 DEF Gated
  <2>2. \A q \in Running : pc[q] \in Gated \union {"done"} => pc'[q] \in Gated \union {"done"}
    BY <1>2, <1>4
  <2> QED
    BY <1>1, <1>3, <1>6, <2>1, <2>2 DEF Warned
<1>13. NoneCrashed'
  BY <1>1 DEF NoneCrashed, None
<1> QED
  BY <1>8, <1>9, <1>10, <1>11, <1>12, <1>13

(* A process that ran all its items ends while the session goes on. *)
LEMMA FinishStep ==
  ASSUME RInv, NEW p \in Procs, FinishProc(p), exit = None
  PROVE  Collecting' /\ Started' /\ Finished' /\ FirstFails' /\ Warned' /\ NoneCrashed'
<1> USE DEF RInv, IInv
<1>1. /\ pc[p] \in Testing /\ Pending(p) = {} /\ pc' = [pc EXCEPT ![p] = "done"]
      /\ UNCHANGED <<tools, own, option, stash, listed, items, report, checked, warned, exit>>
  BY DEF FinishProc, Testing, inputs, lists
<1>2. /\ Running' = Running /\ Reported' = Reported /\ Allowed' = Allowed
      /\ Ran' = Ran /\ Agreed' = Agreed /\ \A q : Gathered(q)' = Gathered(q)
      /\ \A q : Pending(q)' = Pending(q) /\ NeedsPreflight(q)' = NeedsPreflight(q)
      /\ \A names : Unknown(names)' = Unknown(names)
  BY <1>1, Frame
<1>3. pc'[p] = "done" /\ \A q \in Procs \ {p} : pc'[q] = pc[q]
  BY <1>1 DEF TypeOK
<1>4. 1 \in Running /\ Running \subseteq Procs
  BY OneRuns
<1>5. AllStarted'
  BY <1>1, <1>2, <1>3, <1>4 DEF Started, AllStarted
<1>6. Collecting'
  BY <1>2, <1>3, <1>4 DEF Collecting
<1>7. Started'
  BY <1>2, <1>1, <1>5 DEF Started
<1>8. Finished'
  BY <1>1, <1>2, <1>3, <1>4 DEF Finished, RanTests, None
<1>9. FirstFails'
  BY <1>1, <1>2, <1>3, <1>4 DEF FirstFails, FailFast, None
<1>10. Warned'
  <2>1. \A q \in Procs : pc'[q] \in Gated => pc[q] \in Gated
    BY <1>3 DEF Gated
  <2>2. \A q \in Running : pc[q] \in Gated \union {"done"} => pc'[q] \in Gated \union {"done"}
    BY <1>3, <1>4
  <2> QED
    BY <1>1, <1>2, <2>1, <2>2 DEF Warned
<1>11. NoneCrashed'
  BY <1>1 DEF NoneCrashed
<1> QED
  BY <1>6, <1>7, <1>8, <1>9, <1>10, <1>11

(* An item is reported. *)
LEMMA RunStep ==
  ASSUME RInv, NEW p \in Procs, NEW i \in Pending(p), Run(p, i)
  PROVE  Collecting' /\ Started' /\ Finished' /\ FirstFails' /\ Warned' /\ NoneCrashed'
<1> USE DEF RInv, IInv
<1>0. PICK outcome \in Outcomes(p, i) : report' = [report EXCEPT ![i] = outcome]
  BY DEF Run
<1>1. /\ exit = None /\ MayRun(p, i) /\ i \in items[p] /\ i \in Item /\ report[i] = None
      /\ UNCHANGED <<tools, own, option, stash, listed, items, checked, warned, pc, exit>>
  BY DEF Run, Pending, TypeOK, inputs, lists
<1>2. outcome \in {"ran", "error"} /\ (pc[p] = "gateless" => outcome = "error")
  BY DEF Outcomes
<1>3. /\ Running' = Running /\ Allowed' = Allowed /\ Agreed' = Agreed
      /\ \A q : Gathered(q)' = Gathered(q) /\ NeedsPreflight(q)' = NeedsPreflight(q)
      /\ \A names : Unknown(names)' = Unknown(names)
  BY <1>1 DEF Running, Allowed, Configured, Agreed, Gathered, OwnItems, Injected, Cells,
              NeedsPreflight, Unknown
<1>4. /\ Reported' = Reported \union {i}
      /\ Ran' \subseteq Ran \union {i} /\ (outcome = "error" => Ran' = Ran)
  BY <1>0, <1>1, <1>2 DEF Reported, Ran, TypeOK, None
<1>5. pc[p] \in Gated \union {"gateless"} /\ pc[p] \in Testing
  BY <1>1 DEF MayRun, Gated, Testing
<1>6. p \in Running /\ 1 \in Running /\ Running \subseteq Procs
  BY <1>5, OneRuns DEF Bystanders, Testing
<1>7. AllStarted /\ items[p] = items[1]
  BY <1>5, <1>6 DEF Started, AllStarted, Agreed
<1>8. Collecting'
  BY <1>1, <1>3 DEF Collecting
<1>9. Started'
  <2>1. AllStarted'
    BY <1>1, <1>3, <1>7 DEF AllStarted
  <2>2. Reported' \subseteq items'[1]
    BY <1>1, <1>4, <1>7 DEF Started
  <2> QED
    BY <2>1, <2>2 DEF Started
<1>10. Finished'
  <2>1. \A q \in Procs : Pending(q)' \subseteq Pending(q)
    BY <1>0, <1>1, <1>2 DEF Pending, TypeOK, None
  <2> QED
    BY <1>1, <1>3, <1>6, <2>1 DEF Finished, RanTests, None
<1>11. FirstFails'
  <2>1. FailFast'
    BY <1>1 DEF FailFast, None
  <2>2. Running = {1} => pc[1] \notin {"waiting", "checking"}
    BY <1>5, <1>6 DEF Gated
  <2> QED
    BY <1>1, <1>3, <2>1, <2>2 DEF FirstFails
<1>12. Warned'
  <2>1. ASSUME outcome = "ran", NeedsPreflight(1)
        PROVE  pc[p] \in Gated /\ Unknown(checked[p]) \subseteq warned
    <3>1. NeedsPreflight(p)
      BY <1>7, <2>1 DEF NeedsPreflight
    <3> QED
      BY <1>2, <1>5, <2>1, <3>1 DEF Warned
  <2>2. Ran' # {} /\ NeedsPreflight(1) =>
          \E q \in Running : pc[q] \in Gated \union {"done"} /\ Unknown(checked[q]) \subseteq warned
    BY <1>2, <1>4, <1>6, <2>1 DEF Warned
  <2> QED
    BY <1>1, <1>3, <2>2 DEF Warned
<1>13. NoneCrashed'
  BY <1>0, <1>1, <1>2 DEF NoneCrashed, TypeOK
<1> QED
  BY <1>8, <1>9, <1>10, <1>11, <1>12, <1>13

(* Tests start when every process has collected the same. *)
LEMMA StartStep ==
  ASSUME RInv, Start
  PROVE  Collecting' /\ Started' /\ Finished' /\ FirstFails' /\ Warned' /\ NoneCrashed'
<1> USE DEF RInv, IInv
<1>1. /\ exit = None /\ \A q \in Running : pc[q] = "collected"
      /\ UNCHANGED <<tools, own, option, stash, listed, items, report, checked, warned>>
  BY DEF Start, Collected, inputs, lists
<1>2. /\ Running' = Running /\ Reported' = Reported /\ Allowed' = Allowed
      /\ Ran' = Ran /\ Agreed' = Agreed /\ \A q : Gathered(q)' = Gathered(q)
      /\ \A q : Pending(q)' = Pending(q) /\ NeedsPreflight(q)' = NeedsPreflight(q)
      /\ \A names : Unknown(names)' = Unknown(names)
  BY <1>1, Frame
<1>3. 1 \in Running /\ Running \subseteq Procs
  BY OneRuns
<1>4. Reported = {}
  BY <1>1, <1>3 DEF Started, AllStarted, Testing
<1>5. CASE exit' # None
  <2>1. pc' = pc /\ exit' \in {"failed", "noTests"}
    BY <1>1, <1>5 DEF Start
  <2> QED
    BY <1>1, <1>4, <1>5, <2>1, EndStep
<1>6. CASE exit' = None
  <2>1. /\ \A q, r \in Running : items[q] = items[r]
        /\ pc' = [q \in Procs |-> IF q \in Running THEN "waiting" ELSE pc[q]]
    BY <1>6 DEF Start, None
  <2>2. \A q \in Running : pc'[q] = "waiting"
    BY <1>3, <2>1
  <2>3. \A q \in Procs \ Running : pc'[q] \in {"new", "done"}
    BY <2>1 DEF Bystanders
  <2>4. Agreed
    BY <1>1, <1>3, <2>1 DEF Agreed, Collecting
  <2>5. AllStarted'
    BY <1>2, <2>2, <2>4 DEF AllStarted, Testing
  <2>6. Collecting' /\ Started'
    BY <1>2, <1>4, <2>2, <2>5 DEF Collecting, Started
  <2>7. Finished' /\ FirstFails'
    BY <1>2, <1>4, <1>6, <2>2 DEF Finished, FirstFails, RanTests, FailFast, None
  <2>8. Warned'
    BY <1>2, <1>3, <1>4, <2>2, <2>3 DEF Warned, Gated, Ran, Reported, None
  <2>9. NoneCrashed'
    BY <1>1 DEF NoneCrashed
  <2> QED
    BY <2>6, <2>7, <2>8, <2>9
<1> QED
  BY <1>5, <1>6

(* Nothing was reported before the session was configured. *)
LEMMA ConfigureStep ==
  ASSUME RInv, Configure \/ ConfigureFails, Running' \subseteq Procs
  PROVE  Collecting' /\ Started' /\ Finished' /\ FirstFails' /\ Warned' /\ NoneCrashed'
<1> USE DEF RInv, IInv
<1>1. Reported = {}
  BY OneRuns DEF Configure, ConfigureFails, Started, AllStarted, Testing
<1>2. Reported' = {}
  BY <1>1 DEF Configure, ConfigureFails, Reported
<1>3. \A p \in Procs : pc'[p] \in {"collecting", "done"}
  BY DEF Configure, ConfigureFails
<1>4. exit' = None => \A p \in Running' : pc'[p] = "collecting"
  BY DEF Configure, ConfigureFails, None
<1>5. Collecting'
  BY <1>3 DEF Collecting
<1>6. Started'
  BY <1>2, <1>3, <1>4 DEF Started, Testing
<1>7. ~RanTests' /\ FailFast'
  BY <1>2 DEF RanTests, FailFast
<1>8. Finished' /\ FirstFails'
  BY <1>2, <1>4, <1>7 DEF Finished, FirstFails
<1>9. Ran' = {} /\ NoneCrashed'
  BY <1>2 DEF Ran, Reported, NoneCrashed, None
<1>10. Warned'
  BY <1>3, <1>9 DEF Warned, Gated
<1> QED
  BY <1>5, <1>6, <1>8, <1>9, <1>10

LEMMA RInvStep ==
  ASSUME RInv, [Next]_vars
  PROVE  RInv'
<1> DEFINE Goal == Collecting' /\ Started' /\ Finished' /\ FirstFails' /\ Warned' /\ NoneCrashed'
<1>1. IInv' /\ IInv /\ TypeOK /\ Bystanders
  BY TypeStep, OwnerStep DEF RInv, IInv
<1>2. ASSUME Configure \/ ConfigureFails PROVE Goal
  <2>1. Running' \subseteq Procs
    BY <1>1, MaxWorkersAssumption DEF IInv, TypeOK, Running, Procs
  <2> QED
    BY <1>2, <2>1, ConfigureStep
<1>3. ASSUME Start PROVE Goal
  BY <1>3, StartStep
<1>4. ASSUME Interrupt PROVE Goal
  BY <1>4, EndStep DEF Interrupt, inputs, lists, None
<1>5. ASSUME FinishSession PROVE Goal
  <2>1. items[1] \subseteq Reported
    <3>1. 1 \in Running /\ pc[1] = "done" /\ exit = None
      BY <1>1, <1>5, OneRuns DEF FinishSession
    <3>2. Pending(1) = {}
      BY <3>1 DEF RInv, Finished
    <3>3. items[1] \subseteq Item
      BY <1>1, OneRuns DEF TypeOK
    <3> QED
      BY <3>2, <3>3 DEF Pending, Reported
  <2> QED
    BY <1>5, <2>1, EndStep DEF FinishSession, inputs, lists, None
<1>6. ASSUME Done \/ UNCHANGED vars PROVE Goal
  <2>1. UNCHANGED vars
    BY <1>6 DEF Done
  <2>2. /\ UNCHANGED <<tools, own, option, stash, listed, items, report>>
        /\ UNCHANGED <<pc, exit, checked, warned>>
    BY <2>1 DEF vars, inputs, lists
  <2>3. /\ Running' = Running /\ Reported' = Reported /\ Allowed' = Allowed
        /\ Ran' = Ran /\ Agreed' = Agreed /\ \A q : Gathered(q)' = Gathered(q)
        /\ \A q : Pending(q)' = Pending(q) /\ NeedsPreflight(q)' = NeedsPreflight(q)
        /\ \A names : Unknown(names)' = Unknown(names)
    BY <2>2, Frame
  <2> QED
    BY <2>2, <2>3 DEF RInv, Collecting, Started, AllStarted, Finished, RanTests, FirstFails,
                      FailFast, Warned, NoneCrashed
<1>7. ASSUME NEW p \in Procs, CollectOwn(p) \/ Collect(p) PROVE Goal
  BY <1>7, GatherStep
<1>8. ASSUME NEW p \in Procs, DiscoveryFails(p) PROVE Goal
  <2>1. /\ exit = None /\ exit' = "setupError" /\ pc' = [pc EXCEPT ![p] = "done"]
        /\ UNCHANGED <<tools, own, option, stash, listed, items, report, checked, warned>>
    BY <1>8 DEF DiscoveryFails, Exits, inputs, lists
  <2>2. pc[p] \in {"collecting", "discovering"}
    BY <1>8 DEF DiscoveryFails
  <2>3. p \in Running
    BY <1>1, <2>2 DEF Bystanders
  <2>4. Reported = {}
    BY <2>2, <2>3 DEF RInv, Started, AllStarted, Testing
  <2> QED
    BY <2>1, <2>4, EndStep DEF None
<1>9. ASSUME NEW p \in Procs, Discover(p) PROVE Goal
  BY <1>9, QuietStep DEF Discover, Testing, Gated, inputs, lists
<1>10. ASSUME NEW p \in Procs, NoPreflight(p) PROVE Goal
  BY <1>10, QuietStep DEF NoPreflight, Testing, Gated, inputs, lists
<1>11. ASSUME NEW p \in Procs, Check(p) PROVE Goal
  BY <1>11, QuietStep DEF Check, Testing, Gated, inputs, lists
<1>12. ASSUME NEW p \in Procs, CheckPasses(p) PROVE Goal
  <2>1. PICK names \in Listings :
          /\ checked' = [checked EXCEPT ![p] = names]
          /\ warned' = warned \union Unknown(names)
    BY <1>12 DEF CheckPasses
  <2>2. checked'[p] = names /\ \A q \in Procs \ {p} : checked'[q] = checked[q]
    BY <1>1, <2>1 DEF TypeOK
  <2>3. Unknown(checked'[p]) \subseteq warned' /\ warned \subseteq warned'
    BY <2>1, <2>2
  <2> QED
    BY <1>12, <2>2, <2>3, QuietStep DEF CheckPasses, Testing, Gated, inputs, lists
<1>13. ASSUME NEW p \in Procs, OpenClient(p) \/ ClientReady(p) \/ ClientFails(p) PROVE Goal
  <2>1. PICK there \in {"connecting", "serving", "clientless"} : pc' = [pc EXCEPT ![p] = there]
    BY <1>13 DEF OpenClient, ClientReady, ClientFails
  <2>2. /\ exit = None /\ exit' = None /\ pc[p] \in {"ready", "connecting"}
        /\ UNCHANGED <<tools, own, option, stash, listed, items, report, checked, warned>>
    BY <1>13 DEF OpenClient, ClientReady, ClientFails, inputs, lists
  <2>3. NeedsPreflight(p) => Unknown(checked'[p]) \subseteq warned'
    BY <2>2 DEF RInv, Warned, Gated
  <2> QED
    BY <2>1, <2>2, <2>3, QuietStep DEF Testing, Gated
<1>14. ASSUME NEW p \in Procs, FinishProc(p) PROVE Goal
  <2>1. CASE exit = None
    BY <1>14, <2>1, FinishStep
  <2>2. CASE exit # None
    <3>1. /\ exit' = exit /\ pc' = [pc EXCEPT ![p] = "done"]
          /\ UNCHANGED <<tools, own, option, stash, listed, items, report, checked, warned>>
      BY <1>14 DEF FinishProc, inputs, lists
    <3> QED
      BY <2>2, <3>1, EndStep
  <2> QED
    BY <2>1, <2>2
<1>15. ASSUME NEW p \in Procs, NEW i \in Pending(p), Run(p, i) PROVE Goal
  BY <1>15, RunStep
<1>16. ASSUME NEW p \in Procs, CheckFails(p) \/ NoClasses(p) PROVE Goal
  BY <1>16, CrashStep DEF CheckFails, NoClasses, Gated
<1>17. ASSUME NEW p \in Procs, CheckRaises(p) PROVE Goal
  BY <1>17, QuietStep DEF CheckRaises, Testing, Gated, inputs, lists
<1>18. Goal
  BY <1>2, <1>3, <1>4, <1>5, <1>6, <1>7, <1>8, <1>9, <1>10, <1>11, <1>12, <1>13, <1>14,
     <1>15, <1>16, <1>17 DEF Next
<1> QED
  BY <1>1, <1>18 DEF RInv

LEMMA InitRInv == Init => RInv
<1> SUFFICES ASSUME Init PROVE RInv
  OBVIOUS
<1>1. IInv /\ Reported = {} /\ exit = None /\ \A p \in Procs : pc[p] = "new"
  BY InitIInv DEF Init, Reported
<1>2. Running \subseteq Procs
  BY <1>1, OneRuns DEF IInv
<1>3. Collecting /\ Started
  BY <1>1, <1>2 DEF Collecting, Started, Testing
<1>4. Ran = {} /\ NoneCrashed
  BY <1>1 DEF Ran, Reported, NoneCrashed, None
<1>5. Finished /\ FirstFails /\ Warned
  BY <1>1, <1>2, <1>4, OneRuns
     DEF IInv, Finished, RanTests, FirstFails, FailFast, Warned, Gated
<1> QED
  BY <1>1, <1>3, <1>4, <1>5 DEF RInv

LEMMA Reporting == Spec => []RInv
  BY InitRInv, RInvStep, PTL DEF Spec

(* What parametrization and the stripping of placeholders leave. *)
LEMMA InjectedIs ==
  ASSUME NEW names \in SUBSET Tools
  PROVE  Injected(names) =
           {i \in [tool : names, bucket : Buckets] : i.bucket \notin tools[i.tool].skipBuckets}
<1> DEFINE kept(b) == {t \in names : b \notin tools[t].skipBuckets}
<1>1. "NOTSET" \notin names
  BY ToolNamesAssumption
<1>2. ASSUME NEW i \in Injected(names)
      PROVE  i \in [tool : names, bucket : Buckets] /\ i.bucket \notin tools[i.tool].skipBuckets
  <2>1. PICK b \in Buckets : i \in Cells(b, names) /\ i.tool # "NOTSET"
    BY <1>2 DEF Injected
  <2>2. i \in [tool : IF kept(b) = {} THEN {"NOTSET"} ELSE kept(b), bucket : {b}]
    BY <2>1 DEF Cells
  <2>3. kept(b) # {}
    BY <2>1, <2>2
  <2> QED
    BY <2>2, <2>3
<1>3. ASSUME NEW i \in [tool : names, bucket : Buckets],
             i.bucket \notin tools[i.tool].skipBuckets
      PROVE  i \in Injected(names)
  <2>1. i.tool \in kept(i.bucket) /\ i.bucket \in Buckets /\ names # {}
    BY <1>3
  <2>2. i \in [tool : kept(i.bucket), bucket : {i.bucket}]
    BY <1>3, <2>1
  <2>3. i \in Cells(i.bucket, names)
    BY <2>1, <2>2 DEF Cells
  <2>4. i.tool # "NOTSET"
    BY <1>1, <2>1
  <2> QED
    BY <2>1, <2>3, <2>4 DEF Injected
<1> QED
  BY <1>2, <1>3

(* The items of a process that are cells of the contract tests. *)
LEMMA CellsOfProcess ==
  ASSUME TypeOK, NEW p \in Procs, Gathered(p), NEW i \in Item
  PROVE  i \in items[p] /\ i.tool # None <=>
           /\ i.tool \in Allowed /\ i.tool \in listed[p]
           /\ i.bucket \in Buckets /\ i.bucket \notin tools[i.tool].skipBuckets
<1>1. Allowed \intersect listed[p] \in SUBSET Tools
  BY DEF TypeOK
<1>2. \A j \in OwnItems : j.tool = None
  BY DEF OwnItems
<1>3. None \notin Tools /\ Allowed \subseteq Tools
  BY ToolNamesAssumption DEF Allowed, Configured
<1>4. i.tool \in Tools => i \in [tool : Tools, bucket : Buckets]
  BY <1>3 DEF Item
<1>5. Allowed # {} => items[p] = OwnItems \union Injected(Allowed \intersect listed[p])
  BY DEF Gathered
<1>6. Allowed = {} => items[p] = OwnItems
  BY DEF Gathered
<1>7. Injected(Allowed \intersect listed[p]) =
        {j \in [tool : Allowed \intersect listed[p], bucket : Buckets] :
           j.bucket \notin tools[j.tool].skipBuckets}
  BY <1>1, InjectedIs
<1>8. ASSUME i \in items[p], i.tool # None
      PROVE  /\ i.tool \in Allowed /\ i.tool \in listed[p]
             /\ i.bucket \in Buckets /\ i.bucket \notin tools[i.tool].skipBuckets
  <2>1. i \in Injected(Allowed \intersect listed[p])
    BY <1>2, <1>5, <1>6, <1>8
  <2>2. /\ i \in [tool : Allowed \intersect listed[p], bucket : Buckets]
        /\ i.bucket \notin tools[i.tool].skipBuckets
    BY <1>7, <2>1
  <2> QED
    BY <2>2
<1>9. ASSUME i.tool \in Allowed, i.tool \in listed[p],
             i.bucket \in Buckets, i.bucket \notin tools[i.tool].skipBuckets
      PROVE  i \in items[p] /\ i.tool # None
  <2>1. i \in [tool : Allowed \intersect listed[p], bucket : Buckets]
    BY <1>3, <1>4, <1>9
  <2> QED
    BY <1>3, <1>5, <1>7, <1>9, <2>1
<1> QED
  BY <1>8, <1>9

(* What a session that ran its tests reported. *)
LEMMA ReportedIs ==
  ASSUME RInv, RanTests
  PROVE  /\ TypeOK /\ 1 \in Running /\ Running \subseteq Procs
         /\ Reported = items[1] /\ Reported \subseteq Item
         /\ \A p \in Running : Gathered(p) /\ items[p] = Reported
<1>1. TypeOK /\ 1 \in Running /\ Running \subseteq Procs
  BY OneRuns DEF RInv, IInv
<1>2. Reported = items[1] /\ AllStarted
  BY DEF RInv, Started, Finished, RanTests
<1> QED
  BY <1>1, <1>2 DEF AllStarted, Agreed, Reported

(* A session that ran its tests reported the opted-in cells the server     *)
(* lists, all of them and no other, whatever each worker was told.         *)
THEOREM SelectedExactly == Spec => []ExactlyTheSelected
<1>1. ASSUME RInv, RanTests, NEW i \in Item
      PROVE  i \in Reported /\ i.tool # None <=>
               /\ i.tool \in Allowed /\ i.bucket \notin tools[i.tool].skipBuckets
               /\ \A p \in Running : i.tool \in listed[p]
  <2>1. /\ TypeOK /\ 1 \in Running /\ Running \subseteq Procs
        /\ \A p \in Running : Gathered(p) /\ items[p] = Reported
    BY <1>1, ReportedIs
  <2>2. \A p \in Running :
          i \in Reported /\ i.tool # None <=>
            /\ i.tool \in Allowed /\ i.tool \in listed[p]
            /\ i.bucket \in Buckets /\ i.bucket \notin tools[i.tool].skipBuckets
    BY <2>1, CellsOfProcess
  <2>3. i.tool \in Allowed => i.bucket \in Buckets
    BY ToolNamesAssumption DEF Allowed, Configured, Item
  <2> QED
    BY <2>1, <2>2, <2>3
<1>2. RInv => ExactlyTheSelected
  <2> SUFFICES ASSUME RInv, RanTests
               PROVE  {i \in Reported : i.tool # None} =
                      {i \in Item : /\ i.tool \in Allowed
                                    /\ i.bucket \notin tools[i.tool].skipBuckets
                                    /\ \A p \in Running : i.tool \in listed[p]}
    BY DEF ExactlyTheSelected
  <2>1. Reported \subseteq Item
    BY DEF Reported
  <2> QED
    BY <1>1, <2>1
<1> QED
  BY <1>2, Reporting, PTL

(* When a session of one process exits because a precondition failed,      *)
(* nothing was reported, not even an item that asks for no client; where   *)
(* the process is an xdist worker, its crash is reported and no item ran.  *)
THEOREM FailsFast == Spec => []FailFast
<1>1. RInv => FailFast
  BY DEF RInv, FirstFails
<1> QED
  BY <1>1, Reporting, PTL

(* An opted-in tool is tested, warned of, skipped by the config, or the    *)
(* server changed its list between two questions, or no test ran.          *)
THEOREM NoneVanishes == Spec => []Accounted
<1>1. ASSUME RInv, RanTests, \E i \in Reported : i.tool # None, NEW t \in Allowed
      PROVE  \/ \E i \in Reported : i.tool = t
             \/ t \in warned
             \/ tools[t].skipBuckets = Buckets
             \/ \E p \in Running : t \in checked[p] \ listed[p]
             \/ \A i \in Reported : report[i] = "error"
  <2> SUFFICES ASSUME NEW i0 \in Reported, report[i0] # "error"
               PROVE  \/ \E i \in Reported : i.tool = t
                      \/ t \in warned
                      \/ tools[t].skipBuckets = Buckets
                      \/ \E p \in Running : t \in checked[p] \ listed[p]
    OBVIOUS
  <2>0. /\ 1 \in Running /\ Running \subseteq Procs /\ items[1] = Reported
        /\ Reported \subseteq Item /\ TypeOK
    BY <1>1, ReportedIs
  <2>a. i0 \in Ran
    BY <1>1, <2>0 DEF RInv, NoneCrashed, RanTests, Reported, Ran, TypeOK
  <2>b. NeedsPreflight(1)
    <3>1. PICK i \in Reported : i.tool # None
      BY <1>1
    <3>2. Live(i)
      BY <2>0, <3>1, BucketNamesAssumption DEF Item, Live
    <3> QED
      BY <2>0, <3>1, <3>2 DEF NeedsPreflight
  <2>1. PICK p \in Running : Unknown(checked[p]) \subseteq warned
    BY <1>1, <2>a, <2>b DEF RInv, Warned
  <2>2. t \in Configured /\ t \in Tools
    BY DEF Allowed, Configured
  <2>3. t \notin checked[p] => t \in warned
    BY <2>1, <2>2 DEF Unknown
  <2>4. /\ TypeOK /\ Running \subseteq Procs /\ Gathered(p) /\ items[p] = Reported
    BY <1>1, ReportedIs
  <2>5. ASSUME t \in listed[p], tools[t].skipBuckets # Buckets
        PROVE  \E i \in Reported : i.tool = t
    <3>1. tools[t].skipBuckets \subseteq Buckets
      BY <2>2, <2>4 DEF TypeOK, ToolConfig
    <3>2. PICK b \in Buckets : b \notin tools[t].skipBuckets
      BY <2>5, <3>1
    <3> DEFINE i == [tool |-> t, bucket |-> b]
    <3>3. i \in Item /\ i.tool = t /\ i.bucket = b
      BY <2>2 DEF Item
    <3>4. i \in items[p]
      BY <2>4, <2>5, <3>2, <3>3, CellsOfProcess
    <3> QED
      BY <2>4, <3>3, <3>4
  <2> QED
    BY <2>3, <2>5
<1>2. RInv => Accounted
  BY <1>1 DEF Accounted
<1> QED
  BY <1>2, Reporting, PTL
=============================================================================
