--------------------------- MODULE ContractSession ---------------------------
(***************************************************************************)
(* One pytest session with the plugin loaded: configuration, discovery of  *)
(* the server's tools, collection of the contract tests, the preflight     *)
(* gate, and the tests that share one client.                              *)
(*                                                                         *)
(* Every test process (the only one, or each xdist worker) discovers,      *)
(* collects, checks and connects for itself.  It opens up to three servers *)
(* one after the other; each open is a lease as in ServerLease, so here a  *)
(* process has at most one server and it is gone when the lease ends.  A   *)
(* server may list other tools each time it is asked.                      *)
(*                                                                         *)
(* External: pytest (collection, autouse session fixtures, exit codes) and *)
(* xdist (workers collect, a run needs equal collections, an item goes to  *)
(* one worker; a worker that exits in an item is taken for crashed, and    *)
(* the session ends).                                                      *)
(***************************************************************************)
EXTENDS Naturals, FiniteSets

CONSTANTS
  Tools,      \* tool names a config or a server may mention
  Buckets,    \* keys of TEST_FUNCTION_BUCKETS; a bucket stands for its tests
  Configs,    \* the `tools' sections a config file may hold
  Listings,   \* what a server may answer to list_tools
  MaxWorkers  \* how many test processes the options may ask for

None == "none"
Procs == 1 .. MaxWorkers

(* What the validators of ToolConfig let through, and "no entry". *)
ToolConfig ==
  {[entry |-> "absent", skipBuckets |-> {}], [entry |-> "skip", skipBuckets |-> {}]}
  \union [entry : {"run"}, skipBuckets : SUBSET Buckets]

ASSUME ConfigsAssumption == Configs \subseteq [Tools -> ToolConfig]
ASSUME ListingsAssumption == Listings \subseteq SUBSET Tools
ASSUME MaxWorkersAssumption == MaxWorkers \in Nat \ {0}
ASSUME ToolNamesAssumption == {None, "NOTSET"} \intersect Tools = {}
ASSUME BucketNamesAssumption == "plain" \notin Buckets

Item == [tool : Tools, bucket : Buckets]
        \union [tool : {None}, bucket : {"plain", "scenario"}]

VARIABLES
  ini,       \* the mcp_config_file setting, never written
  isolation, \* host_isolation of that file, never written
  tools,     \* tools of that file, never written
  own,       \* the operator's own items, never written
  option,    \* xdist's numprocesses and the length of its tx
  stash,     \* config._mcp_contracts_config is set
  exit,      \* how the session ended, None while it runs; setupError, noClasses
             \* and interrupted have the same code
  pc,        \* where each test process stands
  server,    \* the isolation of a process's server, None if it has none
  listed,    \* what the server listed to a process's discovery
  checked,   \* what it listed to its preflight
  items,     \* session.items of a process
  warned,    \* tools a preflight warned of
  report     \* what became of an item

inputs == <<ini, isolation, tools, own>>
lists == <<listed, checked>>
vars == <<inputs, option, stash, exit, pc, server, lists, items, warned, report>>

TypeOK ==
  /\ ini \in {"unset", "missing", "invalid", "valid"}
  /\ isolation \in {"strict", "passthrough"}
  /\ tools \in [Tools -> ToolConfig]
  /\ own \subseteq {"plain", "scenario"}
  /\ option \in [numprocesses : 0 .. MaxWorkers, tx : 0 .. MaxWorkers]
  /\ stash \in BOOLEAN
  /\ exit \in {None, "ok", "failed", "setupError", "noClasses", "noTests",
               "internalError", "interrupted"}
  /\ pc \in [Procs -> {"new", "collecting", "discovering", "collected", "waiting",
                       "checking", "gateless", "ready", "connecting", "serving",
                       "clientless", "done"}]
  /\ server \in [Procs -> {None, "strict", "passthrough"}]
  /\ listed \in [Procs -> SUBSET Tools]
  /\ checked \in [Procs -> SUBSET Tools]
  /\ items \in [Procs -> SUBSET Item]
  /\ warned \subseteq Tools
  /\ report \in [Item -> {None, "ran", "error", "crashed"}]

(* -n N sets both options, --tx N*popen only the second. *)
Options ==
  LET asked == 1 .. MaxWorkers
  IN  {[numprocesses |-> 0, tx |-> 0]}
      \union {[numprocesses |-> n, tx |-> n] : n \in asked}
      \union {[numprocesses |-> 0, tx |-> n] : n \in asked}

Init ==
  /\ ini \in {"unset", "missing", "invalid", "valid"}
  /\ isolation \in {"strict", "passthrough"}
  /\ tools \in Configs
  /\ own \in SUBSET {"plain", "scenario"}
  /\ option \in Options
  /\ stash = FALSE /\ exit = None
  /\ pc = [p \in Procs |-> "new"] /\ server = [p \in Procs |-> None]
  /\ listed = [p \in Procs |-> {}] /\ checked = [p \in Procs |-> {}]
  /\ items = [p \in Procs |-> {}]
  /\ warned = {} /\ report = [i \in Item |-> None]

(* The processes that run tests: workers, or the session's own. *)
Running == IF option.tx = 0 THEN {1} ELSE 1 .. option.tx

(* What the mcp_config fixture returns: the stash, else a default Config. *)
Isolation == IF stash THEN isolation ELSE "strict"
Configured == IF stash THEN {t \in Tools : tools[t].entry # "absent"} ELSE {}

-----------------------------------------------------------------------------
(* pytest_configure, before xdist reads its options.                       *)

(* As if only the worker count were clamped. *)
ClampCountOnly(opt) == [opt EXCEPT !.numprocesses = 1]

Clamp(opt) == [numprocesses |-> 1, tx |-> 1]

Configure ==
  /\ exit = None /\ \A p \in Procs : pc[p] = "new"
  /\ ini \in {"unset", "valid"}
  /\ stash' = (ini = "valid")
  /\ option' = IF stash' /\ isolation = "passthrough" /\ option.numprocesses # 0
               THEN Clamp(option) ELSE option
  /\ pc' = [p \in Procs |-> IF p \in Running' THEN "collecting" ELSE "done"]
  /\ UNCHANGED <<inputs, exit, server, lists, items, warned, report>>

(* A path that is no file exits with code 2.  A file that does not validate *)
(* is reported by raising typer.Exit, a RuntimeError, so `except SystemExit' *)
(* lets it through to pytest, like what the black-box guard raises.        *)
ConfigureFails ==
  /\ exit = None /\ \A p \in Procs : pc[p] = "new"
  /\ \/ ini = "missing" /\ exit' = "setupError"
     \/ ini \in {"invalid", "valid"} /\ exit' = "internalError"
  /\ pc' = [p \in Procs |-> "done"]
  /\ UNCHANGED <<inputs, option, stash, server, lists, items, warned, report>>

-----------------------------------------------------------------------------
(* pytest_collection, pytest_generate_tests, pytest_collection_modifyitems. *)

Allowed == {t \in Configured : tools[t].entry = "run"}

OwnItems == [tool : {None}, bucket : own]

(* As if skip_buckets were ignored. *)
CellsOfAll(bucket, names) == [tool : names, bucket : {bucket}]

(* What parametrize makes of the tools that do not skip the bucket; of an  *)
(* empty list pytest makes one placeholder.                                *)
Cells(bucket, names) ==
  LET kept == {t \in names : bucket \notin tools[t].skipBuckets}
  IN  [tool : IF kept = {} THEN {"NOTSET"} ELSE kept, bucket : {bucket}]

(* As if the placeholders were left in session.items. *)
InjectedAll(names) ==
  IF names = {} THEN {} ELSE UNION {Cells(b, names) : b \in Buckets}

Injected(names) ==
  IF names = {} THEN {}
  ELSE {i \in UNION {Cells(b, names) : b \in Buckets} : i.tool # "NOTSET"}

CollectOwn(p) ==          \* no config, or no tool opted in: nothing to inject
  /\ exit = None /\ pc[p] = "collecting" /\ Allowed = {}
  /\ pc' = [pc EXCEPT ![p] = "collected"]
  /\ items' = [items EXCEPT ![p] = OwnItems]
  /\ UNCHANGED <<inputs, option, stash, exit, server, lists, warned, report>>

Discover(p) ==
  /\ exit = None /\ pc[p] = "collecting" /\ Allowed # {}
  /\ pc' = [pc EXCEPT ![p] = "discovering"]
  /\ server' = [server EXCEPT ![p] = Isolation]
  /\ UNCHANGED <<inputs, option, stash, exit, lists, items, warned, report>>

(* The brief client has closed and told its tools. *)
Collect(p) ==
  /\ exit = None /\ pc[p] = "discovering"
  /\ pc' = [pc EXCEPT ![p] = "collected"]
  /\ server' = [server EXCEPT ![p] = None]
  /\ \E names \in Listings :
       /\ listed' = [listed EXCEPT ![p] = names]
       /\ items' = [items EXCEPT ![p] = OwnItems \union Injected(Allowed \intersect names)]
  /\ UNCHANGED <<inputs, option, stash, exit, checked, warned, report>>

(* pytest.exit(returncode=2) in one process, which opens nothing more.     *)
Exits(p, reason) ==
  /\ exit' = reason
  /\ pc' = [pc EXCEPT ![p] = "done"]
  /\ server' = [server EXCEPT ![p] = None]
  /\ UNCHANGED <<inputs, option, stash, lists, items, warned>>

DiscoveryFails(p) ==      \* no such command, or any exception of the client
  /\ exit = None
  /\ \/ pc[p] = "collecting" /\ Allowed # {}
     \/ pc[p] = "discovering"
  /\ Exits(p, "setupError") /\ UNCHANGED report

Collected == \A p \in Running : pc[p] = "collected"

(* xdist runs nothing when two workers collected different items. *)
Start ==
  /\ exit = None /\ Collected
  /\ IF \E p, q \in Running : items[p] # items[q]
     THEN exit' = "failed" /\ UNCHANGED pc
     ELSE IF items[1] = {} THEN exit' = "noTests" /\ UNCHANGED pc
     ELSE pc' = [p \in Procs |-> IF p \in Running THEN "waiting" ELSE pc[p]]
          /\ UNCHANGED exit
  /\ UNCHANGED <<inputs, option, stash, server, lists, items, warned, report>>

-----------------------------------------------------------------------------
(* _preflight, set up before the first item of a process.                  *)

Live(i) == i.bucket # "plain"
NeedsPreflight(p) == \E i \in items[p] : Live(i)
Pending(p) == {i \in items[p] : report[i] = None}

NoPreflight(p) ==
  /\ exit = None /\ pc[p] = "waiting" /\ Pending(p) # {} /\ ~NeedsPreflight(p)
  /\ pc' = [pc EXCEPT ![p] = "ready"]
  /\ UNCHANGED <<inputs, option, stash, exit, server, lists, items, warned, report>>

(* Command and judge were found; the brief client has no host_isolation    *)
(* argument, so its server is isolated whatever the config says.           *)
Check(p) ==
  /\ exit = None /\ pc[p] = "waiting" /\ Pending(p) # {} /\ NeedsPreflight(p)
  /\ pc' = [pc EXCEPT ![p] = "checking"]
  /\ server' = [server EXCEPT ![p] = "strict"]
  /\ UNCHANGED <<inputs, option, stash, exit, lists, items, warned, report>>

(* In a worker, also the only one of `-n 1', the item it was about to run  *)
(* is reported as crashed; alone, pytest reports nothing.                  *)
ExitsInItem(p, i, reason) ==
  /\ Exits(p, reason)
  /\ report' = IF option.tx = 0 THEN report ELSE [report EXCEPT ![i] = "crashed"]

CheckFails(p) ==          \* command, Ollama, its model, or the handshake
  /\ exit = None
  /\ \/ pc[p] = "waiting" /\ NeedsPreflight(p)
     \/ pc[p] = "checking"
  /\ \E i \in Pending(p) : ExitsInItem(p, i, "setupError")

(* Ollama answers, but not with an object: the `get' that reads the models *)
(* is outside the try, so the fixture fails as any other would, and pytest *)
(* raises its error again for every item of the process.                   *)
CheckRaises(p) ==
  /\ exit = None /\ pc[p] = "waiting" /\ Pending(p) # {} /\ NeedsPreflight(p)
  /\ pc' = [pc EXCEPT ![p] = "gateless"]
  /\ UNCHANGED <<inputs, option, stash, exit, server, lists, items, warned, report>>

(* As if the warning named the tools without a config entry. *)
UnknownSwapped(names) == names \ Configured

Unknown(names) == Configured \ names

CheckPasses(p) ==
  /\ exit = None /\ pc[p] = "checking"
  /\ pc' = [pc EXCEPT ![p] = "ready"]
  /\ server' = [server EXCEPT ![p] = None]
  /\ \E names \in Listings :
       /\ checked' = [checked EXCEPT ![p] = names]
       /\ warned' = warned \union Unknown(names)
  /\ UNCHANGED <<inputs, option, stash, exit, listed, items, report>>

-----------------------------------------------------------------------------
(* Tests and the client they share.                                        *)

OpenClient(p) ==          \* mcp_client, set up for the first item that asks for it
  /\ exit = None /\ pc[p] = "ready" /\ \E i \in Pending(p) : Live(i)
  /\ pc' = [pc EXCEPT ![p] = "connecting"]
  /\ server' = [server EXCEPT ![p] = Isolation]
  /\ UNCHANGED <<inputs, option, stash, exit, lists, items, warned, report>>

ClientReady(p) ==
  /\ exit = None /\ pc[p] = "connecting"
  /\ pc' = [pc EXCEPT ![p] = "serving"]
  /\ UNCHANGED <<inputs, option, stash, exit, server, lists, items, warned, report>>

ClientFails(p) ==         \* pytest keeps the error and raises it for every live item
  /\ exit = None /\ pc[p] = "connecting"
  /\ pc' = [pc EXCEPT ![p] = "clientless"]
  /\ server' = [server EXCEPT ![p] = None]
  /\ UNCHANGED <<inputs, option, stash, exit, lists, items, warned, report>>

(* As if the preflight gated only the items that ask for the client. *)
MayRunUngated(p, i) ==
  \/ pc[p] \in {"gateless", "serving", "clientless"}
  \/ ~Live(i) /\ pc[p] \in {"waiting", "ready"}

MayRun(p, i) ==
  \/ pc[p] \in {"gateless", "serving", "clientless"}
  \/ ~Live(i) /\ pc[p] = "ready"

(* mcp_target_tool asks the live server for the item's tool; a scenario    *)
(* loads a package.                                                        *)
Outcomes(p, i) ==
  CASE pc[p] = "gateless" \/ (pc[p] = "clientless" /\ Live(i)) -> {"error"}
    [] pc[p] \notin {"gateless", "clientless"} /\ Live(i)       -> {"ran", "error"}
    [] OTHER                                                    -> {"ran"}

Run(p, i) ==
  /\ exit = None /\ MayRun(p, i)
  /\ report' \in {[report EXCEPT ![i] = outcome] : outcome \in Outcomes(p, i)}
  /\ UNCHANGED <<inputs, option, stash, exit, pc, server, lists, items, warned>>

(* mcp_session finds no generated package for the server. *)
NoClasses(p) ==
  /\ exit = None /\ pc[p] = "serving"
  /\ \E i \in Pending(p) : i.bucket = "scenario" /\ ExitsInItem(p, i, "noClasses")

(* Session fixtures are finalized when a process has no item left to run,  *)
(* or when the session exits.                                              *)
FinishProc(p) ==
  /\ pc[p] # "done"
  /\ \/ exit # None
     \/ /\ pc[p] \in {"waiting", "gateless", "ready", "serving", "clientless"}
        /\ Pending(p) = {}
  /\ pc' = [pc EXCEPT ![p] = "done"]
  /\ server' = [server EXCEPT ![p] = None]
  /\ UNCHANGED <<inputs, option, stash, exit, lists, items, warned, report>>

(* Any error fails the session; a test that ran may fail it. *)
FinishSession ==
  /\ exit = None /\ \A p \in Procs : pc[p] = "done"
  /\ exit' \in {"failed"} \union (IF \E i \in Item : report[i] = "error" THEN {} ELSE {"ok"})
  /\ UNCHANGED <<inputs, option, stash, pc, server, lists, items, warned, report>>

(* Ctrl-C: pytest finalizes the session fixtures all the same. *)
Interrupt ==
  /\ exit = None
  /\ exit' = "interrupted"
  /\ UNCHANGED <<inputs, option, stash, pc, server, lists, items, warned, report>>

Over == exit # None /\ \A p \in Procs : pc[p] = "done"

Done == Over /\ UNCHANGED vars

Next ==
  \/ Configure \/ ConfigureFails \/ Start \/ FinishSession \/ Interrupt \/ Done
  \/ \E p \in Procs :
       \/ CollectOwn(p) \/ Discover(p) \/ Collect(p) \/ DiscoveryFails(p)
       \/ NoPreflight(p) \/ Check(p) \/ CheckFails(p) \/ CheckRaises(p) \/ CheckPasses(p)
       \/ OpenClient(p) \/ ClientReady(p) \/ ClientFails(p) \/ NoClasses(p) \/ FinishProc(p)
       \/ \E i \in Pending(p) : Run(p, i)

Spec == Init /\ [][Next]_vars

-----------------------------------------------------------------------------
(* Properties.                                                             *)

(* "host_isolation=passthrough serializes subprocess spawns so the         *)
(* operator's credentials remain a single-owner resource": with -n N, no   *)
(* two processes of a passthrough session have a server at the same time.  *)
SingleOwner ==
  stash /\ isolation = "passthrough" /\ (option.numprocesses # 0 \/ option.tx = 0)
    => \A p, q \in Procs : server[p] # None /\ server[q] # None => p = q

Reported == {i \in Item : report[i] # None}
RanTests == exit \in {"ok", "failed"} /\ Reported # {}

(* A session that ran its tests reported exactly the opted-in cells the    *)
(* server lists, through discovery, parametrization, the placeholder and   *)
(* the distribution over workers: an excluded cell is not even a skip, and *)
(* no cell is lost.                                                        *)
ExactlyTheSelected ==
  RanTests =>
    {i \in Reported : i.tool # None} =
    {i \in Item : /\ i.tool \in Allowed
                  /\ i.bucket \notin tools[i.tool].skipBuckets
                  /\ \A p \in Running : i.tool \in listed[p]}

(* "Three pre-test checks; pytest.exit(returncode=2) on any failure": when  *)
(* a session of one process exits because a precondition fails, no item    *)
(* was reported, the operator's own tests included.  Where the one process *)
(* is a worker (`-n 1', or the clamp), xdist makes one report, of the item *)
(* the worker died in, and no item ran.  (An answer of Ollama that is no   *)
(* object makes every item an error instead, and the session fail.)        *)
FailFast ==
  exit = "setupError" /\ Running = {1} =>
    /\ option.tx = 0 => Reported = {}
    /\ \A i, j \in Reported : report[i] = "crashed" /\ i = j

(* No opted-in tool vanishes from a session with contract tests: it was    *)
(* tested, or a preflight warned that the server lacks it, or the config   *)
(* skips all its buckets, or the server changed its list in between, or no *)
(* test ran at all.                                                        *)
Accounted ==
  RanTests /\ (\E i \in Reported : i.tool # None) =>
    \A t \in Allowed :
      \/ \E i \in Reported : i.tool = t
      \/ t \in warned
      \/ tools[t].skipBuckets = Buckets
      \/ \E p \in Running : t \in checked[p] \ listed[p]
      \/ \A i \in Reported : report[i] = "error"

(* "so the convention `returncode=2 = setup error` is preserved end-to-end": *)
(* a config file that cannot be loaded ends the session as a setup error.  *)
InvalidConfigIsSetupError ==
  ini \in {"missing", "invalid"} => exit \in {None, "setupError", "interrupted"}
=============================================================================
