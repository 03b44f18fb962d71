--------------------------- MODULE ScenarioSession ---------------------------
(***************************************************************************)
(* Scenario tests over generated packages: what mcp_session loads and puts *)
(* into the module-level slots of _tool_factory, what tool() and call()    *)
(* find there, and what is restored, for sessions that follow or contain   *)
(* each other in one interpreter, while commands of Codegen rewrite the    *)
(* packages they load.                                                     *)
(*                                                                         *)
(* Loading a package is one step: a generation is before it, after it, or  *)
(* between two of its own files.                                           *)
(***************************************************************************)
EXTENDS Codegen

CONSTANT MaxSessions      \* bound: sessions of the interpreter

VARIABLES
  stack,        \* sessions in progress, a nested one after the one it runs in
  opened,       \* sessions opened so far; a session's client has its number
  activeSlug, activeClient, registries, \* slots of _tool_factory
  modules,      \* sys.modules: per slug, the submodules of its package
  lastCall      \* history: the last wire call

slots == <<activeSlug, activeClient, registries>>
interpreter == <<stack, opened, slots, modules, lastCall>>

None == "none"
NoClient == 0

ASSUME ScenarioAssumption == MaxSessions \in Nat /\ None \notin Slugs

(* A _REGISTRY: the classes it holds for each tool, by the file that        *)
(* defines them.                                                           *)
NoRegistry == [t \in {} |-> Own]
NoWrapper == [tool |-> None, classes |-> Own]

(* phase: the fixture of the session is not set up, yields, or has failed. *)
(* popped: a session of its slug has ended inside it.                      *)
IsSession(s) ==
  /\ s = [slug |-> s.slug, client |-> s.client, phase |-> s.phase,
          priorSlug |-> s.priorSlug, priorClient |-> s.priorClient,
          registry |-> s.registry, wrapper |-> s.wrapper, popped |-> s.popped]
  /\ s.slug \in Slugs /\ s.client \in 1 .. MaxSessions
  /\ s.phase \in {"opened", "active", "failed"}
  /\ s.priorSlug \in Slugs \union {None} /\ s.priorClient \in 0 .. MaxSessions
  /\ Holds(Tools, s.registry)
  /\ s.wrapper \in [tool : Tools \union {None}, classes : Content]
  /\ s.popped \in BOOLEAN

STypeOK ==
  /\ TypeOK
  /\ opened \in 0 .. MaxSessions /\ Len(stack) <= opened
  /\ \A i \in 1 .. Len(stack) : IsSession(stack[i])
  /\ activeSlug \in Slugs \union {None} /\ activeClient \in 0 .. MaxSessions
  /\ \A s \in Slugs : Holds(Tools, registries[s]) /\ Holds(Modules, modules[s])
  /\ lastCall \in [by : 0 .. MaxSessions, client : 0 .. MaxSessions]

SInit ==
  /\ Init
  /\ stack = <<>> /\ opened = 0
  /\ activeSlug = None /\ activeClient = NoClient
  /\ registries = [s \in Slugs |-> NoRegistry]
  /\ modules = [s \in Slugs |-> Empty]
  /\ lastCall = [by |-> 0, client |-> NoClient]

Top == stack[Len(stack)]
SetTop(session) == stack' = [stack EXCEPT ![Len(stack)] = session]

-----------------------------------------------------------------------------
(* mcp_session                                                             *)

(* A session starts at top level or inside a test of another. *)
OpenSession(s) ==
  /\ opened < MaxSessions
  /\ stack # <<>> => Top.phase = "active"
  /\ opened' = opened + 1
  /\ stack' = Append(stack, [slug |-> s, client |-> opened + 1, phase |-> "opened",
                             priorSlug |-> None, priorClient |-> NoClient,
                             registry |-> NoRegistry, wrapper |-> NoWrapper,
                             popped |-> FALSE])
  /\ UNCHANGED <<vars, slots, modules, lastCall>>

(* The package and its submodules are dropped before the load. *)
Purged == Empty

(* Where an import finds a submodule; Own stands for nowhere. *)
Found(m) ==
  CASE m \in DOMAIN Purged                                      -> Purged[m]
    [] m \notin DOMAIN Purged /\ m \in DOMAIN package[Top.slug] -> package[Top.slug][m]
    [] OTHER                                                    -> Own

(* `from .module import TParams, TResponse' works if the file defines      *)
(* classes of that name; a torn file may define them.                      *)
Importable(t) ==
  LET file == Found(Module[t])
  IN file.kind = "classes" /\ \E u \in file.tools : Class[u] = Class[t]
MayImport(t) == Importable(t) \/ Found(Module[t]).kind = "torn"

Before(t, ts) == {u \in ts : Rank[u] < Rank[t]}

(* The imports share one namespace: the last one that binds a class name,  *)
(* in the order of the tools' names, is what the _REGISTRY sees under it.  *)
Namesakes(t, ts) == {u \in ts : Class[u] = Class[t]}
Binds(u, t, ts) ==
  u \in Namesakes(t, ts) /\ \A v \in Namesakes(t, ts) : Rank[v] <= Rank[u]
Loaded(ts) == [t \in ts |-> Found(Module[CHOOSE u \in ts : Binds(u, t, ts)])]

Cached(ts) == [m \in {Module[t] : t \in ts} |-> Found(m)]

HasPackage == InitFile \in DOMAIN package[Top.slug]
RegistryText == package[Top.slug][InitFile]

Activate(ts) ==
  /\ SetTop([Top EXCEPT !.phase = "active", !.priorSlug = activeSlug,
                        !.priorClient = activeClient, !.registry = Loaded(ts)])
  /\ activeSlug' = Top.slug /\ activeClient' = Top.client
  /\ registries' = [registries EXCEPT ![Top.slug] = Loaded(ts)]

LoadPackage ==
  /\ stack # <<>> /\ Top.phase = "opened"
  /\ HasPackage /\ RegistryText.kind = "registry"
  /\ \A t \in RegistryText.tools : MayImport(t)
  /\ Activate(RegistryText.tools)
  /\ modules' = [modules EXCEPT ![Top.slug] = Cached(RegistryText.tools)]
  /\ UNCHANGED <<vars, opened, lastCall>>

(* No directory or no `__init__.py' ends the session; one that is torn, or *)
(* whose imports fail, is an error of the fixture.                         *)
LoadFails ==
  /\ stack # <<>> /\ Top.phase = "opened"
  /\ \/ ~HasPackage /\ UNCHANGED modules
     \/ /\ HasPackage /\ RegistryText.kind = "torn"
        /\ modules' = [modules EXCEPT ![Top.slug] = Purged]
     \/ /\ HasPackage /\ RegistryText.kind = "registry"
        /\ \E t \in RegistryText.tools :
             /\ ~Importable(t)
             /\ \A u \in Before(t, RegistryText.tools) : MayImport(u)
             /\ modules' = [modules EXCEPT ![Top.slug] = Cached(Before(t, RegistryText.tools))]
  /\ SetTop([Top EXCEPT !.phase = "failed"])
  /\ UNCHANGED <<vars, opened, slots, lastCall>>

(* As if the fixture reset the slots instead of restoring them. *)
Resets(session) == activeSlug' = None /\ activeClient' = NoClient

Restores(session) ==
  activeSlug' = session.priorSlug /\ activeClient' = session.priorClient

PopsRegistry(s) == registries' = [registries EXCEPT ![s] = NoRegistry]

(* The sessions around one that ends. *)
Outer(ended) ==
  [i \in 1 .. Len(stack) - 1 |->
     [stack[i] EXCEPT !.popped = @ \/ (ended.phase = "active" /\ stack[i].slug = ended.slug)]]

(* The session ends; a fixture that was set up is torn down. *)
CloseSession ==
  /\ stack # <<>> /\ Top.phase # "opened"
  /\ IF Top.phase = "active"
       THEN Restores(Top) /\ PopsRegistry(Top.slug)
       ELSE UNCHANGED slots
  /\ stack' = Outer(Top)
  /\ UNCHANGED <<vars, opened, modules, lastCall>>

-----------------------------------------------------------------------------
(* tool() and ToolWrapper.call() in a test of the innermost session.  A    *)
(* RuntimeError or KeyError changes nothing.                               *)

(* As if the last registry installed were used. *)
AnyRegistry(t) == {r[t] : r \in {registries[s] : s \in {s \in Slugs :
                                             t \in DOMAIN registries[s]}}}

ActiveRegistry(t) ==
  IF activeSlug # None /\ t \in DOMAIN registries[activeSlug]
    THEN {registries[activeSlug][t]} ELSE {}

TakeWrapper(t) ==
  /\ stack # <<>> /\ Top.phase = "active"
  /\ \E c \in ActiveRegistry(t) : SetTop([Top EXCEPT !.wrapper = [tool |-> t, classes |-> c]])
  /\ UNCHANGED <<vars, opened, slots, modules, lastCall>>

(* A wrapper taken earlier; the client is looked up now. *)
Call ==
  /\ stack # <<>> /\ Top.wrapper.tool # None
  /\ activeClient # NoClient
  /\ lastCall' = [by |-> Top.client, client |-> activeClient]
  /\ UNCHANGED <<vars, stack, opened, slots, modules>>

-----------------------------------------------------------------------------
SessionNext ==
  \/ \E s \in Slugs : OpenSession(s)
  \/ LoadPackage \/ LoadFails \/ CloseSession
  \/ \E t \in Tools : TakeWrapper(t)
  \/ Call

Next == (CodegenNext /\ UNCHANGED interpreter) \/ SessionNext
Spec == SInit /\ [][Next]_<<vars, interpreter>>

-----------------------------------------------------------------------------
IsWhole(registry, g) ==
  /\ DOMAIN registry = made[g]
  /\ \A t \in made[g] : \E u \in Namesakes(t, made[g]) :
       registry[t] = [kind |-> "classes", gen |-> g, tools |-> {u}]

Active == {i \in 1 .. Len(stack) : stack[i].phase = "active"}
Innermost == stack[CHOOSE i \in Active : \A j \in Active : j <= i]

(* `__init__.py' is written last "so partial states fail clean, not        *)
(* half-imported": what a session loads is the whole of one generation,    *)
(* however many generations failed and wherever, and no tool has the       *)
(* classes of a tool with another class name, although tools may share     *)
(* their files: a tool whose class name is its own has its own.  It takes  *)
(* a directory the wipe can clear: rmtree's errors are ignored.            *)
LoadIsWhole ==
  \A i \in Active : ~sealed[stack[i].slug] =>
    \E g \in 1 .. Len(made) : IsWhole(stack[i].registry, g)

(* A test finds the slots of the session it runs in: also after a session  *)
(* inside it has ended or failed to load, and none, with no registry left, *)
(* once all have ended.  Its registry is the one its session loaded, or is *)
(* gone if a session of the same slug has ended inside it.                 *)
SlotsOfInnermost ==
  IF Active = {} THEN /\ activeSlug = None /\ activeClient = NoClient
                      /\ \A s \in Slugs : registries[s] = NoRegistry
  ELSE /\ activeSlug = Innermost.slug /\ activeClient = Innermost.client
       /\ registries[activeSlug] =
            IF Innermost.popped THEN NoRegistry ELSE Innermost.registry

(* "install _REGISTRY / _ACTIVE_SLUG / _ACTIVE_CLIENT slots on             *)
(* _tool_factory and restore prior state on teardown": whatever has ended  *)
(* inside a session, tool() finds the registry the session installed.      *)
RegistryRestored ==
  Active # {} => registries[Innermost.slug] = Innermost.registry

(* A wrapper has the classes its own session loaded and calls the server   *)
(* of its own session, whichever sessions began and ended inside it.       *)
WrapperOfItsSession ==
  /\ \A i \in Active : stack[i].wrapper.tool # None =>
       /\ stack[i].wrapper.tool \in DOMAIN stack[i].registry
       /\ stack[i].wrapper.classes = stack[i].registry[stack[i].wrapper.tool]
  /\ lastCall.client = lastCall.by

=============================================================================
