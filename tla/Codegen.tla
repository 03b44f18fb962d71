------------------------------- MODULE Codegen -------------------------------
(***************************************************************************)
(* `mcp-contracts gen-test-classes': ask the server for its tools, pass    *)
(* the overwrite gate, delete the package of the server and write it again *)
(* one file at a time, `__init__.py' last.  Commands follow each other;    *)
(* each may be refused, fail or die at any step.  (How the handshake gets  *)
(* at the server's name is CodegenHandshake.)                              *)
(*                                                                         *)
(* External: the file system.  A directory that became read-only keeps its *)
(* files and takes no new one, but the files in it can still be written.   *)
(***************************************************************************)
EXTENDS Integers, Sequences, FiniteSets

CONSTANTS
  Slugs,      \* servers, as the slugs of their names
  Tools,      \* names a server may list
  Rank,       \* their order in sorted()
  Module,     \* module_name(tool)
  Class,      \* pascal_case(tool)
  Smoke,      \* module_name(tool) with "_call_smoke"
  Required,   \* tools with a required parameter
  Listings,   \* what a server may list
  MaxGen      \* bound: generations that reach the wipe

VARIABLES
  package,    \* per slug: its directory, a function from file names to contents
  sealed,     \* per slug: its directory is read-only
  made,       \* history: per generation, the tools it was asked to write
  pc,         \* where the command stands
  target,     \* the slug it writes
  todo,       \* tools not written yet
  consent,    \* the operator agreed to overwrite
  status      \* exit status of the last command

command == <<pc, target, todo, consent, status>>
vars == <<package, sealed, made, command>>

InitFile == "__init__"
OwnFile == "own"          \* any file of the operator's
Modules == {Module[t] : t \in Tools} \union {Smoke[t] : t \in Tools}
Files == Modules \union {InitFile, OwnFile}

ASSUME CodegenAssumption ==
  /\ IsFiniteSet(Tools)
  /\ Rank \in [Tools -> Nat] /\ \A t, u \in Tools : Rank[t] = Rank[u] => t = u
  /\ Required \subseteq Tools
  /\ Listings \subseteq SUBSET Tools
  /\ MaxGen \in Nat
  /\ \A t \in Tools : Smoke[t] # Module[t]
  /\ InitFile \notin Modules /\ OwnFile \notin Modules

(* What a file holds: which generation wrote it, for which tools.  A torn  *)
(* file was opened for writing and not finished.                           *)
Content == [kind : {"classes", "smoke", "registry", "torn", "own"},
            gen : 0 .. MaxGen, tools : SUBSET Tools]

Own == [kind |-> "own", gen |-> 0, tools |-> {}]
Empty == [f \in {} |-> Own]
Running == -1             \* no exit status yet

First(ts) == CHOOSE t \in ts : \A u \in ts : Rank[t] <= Rank[u]

Put(dir, file, content) ==
  [f \in DOMAIN dir \union {file} |-> IF f = file THEN content ELSE dir[f]]

(* A finite map from some of the names to contents. *)
Holds(names, map) ==
  /\ map = [n \in DOMAIN map |-> map[n]]
  /\ DOMAIN map \subseteq names
  /\ \A n \in DOMAIN map : map[n] \in Content

TypeOK ==
  /\ package = [s \in Slugs |-> package[s]] /\ \A s \in Slugs : Holds(Files, package[s])
  /\ sealed \in [Slugs -> BOOLEAN]
  /\ made \in Seq(SUBSET Tools) /\ Len(made) <= MaxGen
  /\ pc \in {"idle", "handshake", "gate", "wipe", "write", "smoke"}
  /\ target \in Slugs /\ todo \subseteq Tools /\ consent \in BOOLEAN
  /\ status \in {Running, 0, 1, 2, 130}

Init ==
  /\ package = [s \in Slugs |-> Empty] /\ sealed = [s \in Slugs |-> FALSE]
  /\ made = <<>>
  /\ pc = "idle" /\ target \in Slugs /\ todo = {} /\ consent = FALSE
  /\ status = Running

Exit(code) == pc' = "idle" /\ status' = code

-----------------------------------------------------------------------------
(* The operator, between two commands.                                     *)

AddOwnFile(s) ==
  /\ pc = "idle" /\ ~sealed[s] /\ OwnFile \notin DOMAIN package[s]
  /\ package' = [package EXCEPT ![s] = Put(@, OwnFile, Own)]
  /\ UNCHANGED <<sealed, made, command>>

Seal(s) ==
  /\ pc = "idle" /\ ~sealed[s]
  /\ sealed' = [sealed EXCEPT ![s] = TRUE]
  /\ UNCHANGED <<package, made, command>>

-----------------------------------------------------------------------------
(* gen_test_classes                                                        *)

(* The config loads and its target is outside the framework's own tree. *)
Start ==
  /\ pc = "idle" /\ Len(made) < MaxGen
  /\ pc' = "handshake" /\ status' = Running /\ consent' = FALSE /\ todo' = {}
  /\ UNCHANGED <<package, sealed, made, target>>

(* It does not, or the server cannot be asked, or has no usable name. *)
Refused ==
  /\ pc = "handshake"
  /\ \E code \in {1, 2, 130} : Exit(code)
  /\ UNCHANGED <<package, sealed, made, target, todo, consent>>

Identified(s, tools) ==
  /\ pc = "handshake"
  /\ pc' = "gate" /\ target' = s /\ todo' = tools
  /\ UNCHANGED <<package, sealed, made, consent, status>>

(* As if the gate looked for a package only. *)
NoPackage == InitFile \notin DOMAIN package[target]

(* The directory is missing or has no entry at all. *)
NothingToLose == DOMAIN package[target] = {}

(* Nothing to lose, or the operator says yes on a terminal. *)
PassGate ==
  /\ pc = "gate"
  /\ consent' = ~NothingToLose
  /\ pc' = "wipe" /\ made' = Append(made, todo)
  /\ UNCHANGED <<package, sealed, target, todo, status>>

(* Not a terminal, declined, unreadable, or Ctrl-C at the prompt. *)
GateRefuses ==
  /\ pc = "gate" /\ ~NothingToLose
  /\ \E code \in {1, 2} : Exit(code)
  /\ UNCHANGED <<package, sealed, made, target, todo, consent>>

-----------------------------------------------------------------------------
(* _codegen.generate                                                       *)

dir == package[target]
Write(file, content) == package' = [package EXCEPT ![target] = Put(@, file, content)]
Written(kind, tools) == [kind |-> kind, gen |-> Len(made), tools |-> tools]

Classes(t) == Written("classes", {t})
SmokeTest(t) == Written("smoke", {t})
Registry == Written("registry", made[Len(made)])     \* names every tool of the loop

(* Opening a file for writing. *)
Opens(file) == file \in DOMAIN dir \/ ~sealed[target]

(* rmtree deletes in any order, and ignores what it cannot delete. *)
Wipe ==
  /\ pc = "wipe" /\ ~sealed[target]
  /\ \E f \in DOMAIN dir :
       package' = [package EXCEPT ![target] = [g \in DOMAIN @ \ {f} |-> @[g]]]
  /\ UNCHANGED <<sealed, made, command>>

(* As if the old files were written over without a wipe. *)
KeepsOld == TRUE

WipeDone == DOMAIN dir = {} \/ sealed[target]

Wiped ==
  /\ pc = "wipe" /\ WipeDone
  /\ pc' = "write"
  /\ UNCHANGED <<package, sealed, made, target, todo, consent, status>>

WriteTool ==
  /\ pc = "write" /\ todo # {} /\ Opens(Module[First(todo)])
  /\ Write(Module[First(todo)], Classes(First(todo)))
  /\ IF First(todo) \in Required
       THEN pc' = "smoke" /\ UNCHANGED todo
       ELSE pc' = pc /\ todo' = todo \ {First(todo)}
  /\ UNCHANGED <<sealed, made, target, consent, status>>

WriteSmoke ==
  /\ pc = "smoke" /\ Opens(Smoke[First(todo)])
  /\ Write(Smoke[First(todo)], SmokeTest(First(todo)))
  /\ pc' = "write" /\ todo' = todo \ {First(todo)}
  /\ UNCHANGED <<sealed, made, target, consent, status>>

WriteRegistry ==
  /\ pc = "write" /\ todo = {} /\ Opens(InitFile)
  /\ Write(InitFile, Registry)
  /\ Exit(0)
  /\ UNCHANGED <<sealed, made, target, todo, consent>>

NextFile ==
  CASE pc = "smoke"               -> Smoke[First(todo)]
    [] pc = "write" /\ todo # {}  -> Module[First(todo)]
    [] OTHER                      -> InitFile

(* As if an error ended the loop and not the command. *)
FailsQuietly ==
  /\ pc \in {"wipe", "write", "smoke"} /\ Exit(0)
  /\ UNCHANGED <<package, sealed, made, target, todo, consent>>

(* A schema that is none (2), a name with no identifier in it, an error of *)
(* the file system (1), an interrupt (130); the next file may be left torn. *)
GenerateFails ==
  /\ pc \in {"wipe", "write", "smoke"}
  /\ \E code \in {1, 2, 130} : Exit(code)
  /\ \/ UNCHANGED package
     \/ /\ pc # "wipe" /\ Opens(NextFile)
        /\ Write(NextFile, Written("torn", {}))
  /\ UNCHANGED <<sealed, made, target, todo, consent>>

-----------------------------------------------------------------------------
CodegenNext ==
  \/ \E s \in Slugs : AddOwnFile(s) \/ Seal(s)
  \/ Start \/ Refused
  \/ \E s \in Slugs, tools \in Listings : Identified(s, tools)
  \/ PassGate \/ GateRefuses
  \/ Wipe \/ Wiped \/ WriteTool \/ WriteSmoke \/ WriteRegistry \/ GenerateFails

(* Another tool whose file is written to, or beside, the module of t. *)
Clashes(t, tools) ==
  \E u \in tools \ {t} : Module[u] = Module[t] \/ (u \in Required /\ Smoke[u] = Module[t])

(* A command that exits 0 leaves a package with every tool it was asked to *)
(* write, also in a directory it could not clear.                          *)
SuccessIsWhole ==
  status = 0 =>
    /\ InitFile \in DOMAIN dir /\ dir[InitFile] = Registry
    /\ \A t \in Registry.tools :
         Clashes(t, Registry.tools) \/ dir[Module[t]] = Classes(t)

(* What the operator has in a directory is deleted or changed only by a    *)
(* command that found it there and was told to: the "never silently        *)
(* destroy data" posture of _confirm_or_abort_non_empty_target.  Files the *)
(* running generation wrote itself are its own.                            *)
Lost(s) == {f \in DOMAIN package[s] :
              f \notin DOMAIN package'[s] \/ package'[s][f] # package[s][f]}
DataKept ==
  [][\A s \in Slugs : \A f \in Lost(s) :
        consent \/ package[s][f].gen = Len(made)]_vars
=============================================================================
