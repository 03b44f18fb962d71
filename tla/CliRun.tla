------------------------------- MODULE CliRun -------------------------------
(***************************************************************************)
(* One invocation of `mcp-contracts run': resolve and load the config,     *)
(* discover the server's tools, run pytest as a child process on the same  *)
(* config, read the JUnit XML the child wrote, show a summary and exit.    *)
(*                                                                         *)
(* External: the child, a session as in ContractSession, seen here by its  *)
(* exit code, its XML and its output; the terminal, whose Ctrl-C reaches   *)
(* the command and the child at once; subprocess.run, which then gives the *)
(* child a moment and kills it.                                            *)
(***************************************************************************)
EXTENDS Integers, FiniteSets

CONSTANT Tools            \* names a server may list

VARIABLES
  option,     \* the flags of the invocation, never written
  atRoot,     \* the working directory is the child's rootdir, never written
  iniSet,     \* the nearest pyproject.toml sets mcp_config_file, never written
  exists,     \* the places with a config file, never written
  advertised, \* the tools the server lists to either process, never written
  pc,         \* where the command stands
  resolved,   \* the place it loaded its config from
  childFile,  \* the place the child's plugin looks at
  lease,      \* the discovery client is open
  discovered, \* the tools the command discovered
  child,      \* the pytest process
  rc,         \* its exit code, negative for a signal
  collected,  \* tools with an item in the child's session
  ran,        \* tools with a report
  xml,        \* the temporary JUnit file, "none" before its path is chosen;
              \* "read" and "discarded" once it is removed
  summary,    \* summaries shown to the operator
  exit        \* exit status of the command

inputs == <<option, atRoot, iniSet, exists, advertised>>
session == <<childFile, child, rc, collected, ran>>
vars == <<inputs, pc, resolved, session, lease, discovered, xml, summary, exit>>

None == "none"
NoCode == 256             \* no exit status is that large
Interrupted == 130
Killed == -9              \* any signal

(* How --config is given, if it is, and the other flags modelled. *)
Options == [path : {"none", "absolute", "relative"},
            raw : BOOLEAN, quiet : BOOLEAN, debug : BOOLEAN]

(* The --config path as given, the same path seen from the child's rootdir, *)
(* the value of mcp_config_file, and ./config.yaml.                        *)
Places == {"given", "givenFromRoot", "ini", "cwd"}

(* A summary: who showed it, and the tools it counts as skipped. *)
Summary == [by : {"child", "command", "appendix"}, skipped : SUBSET Tools]

TypeOK ==
  /\ option \in Options
  /\ atRoot \in BOOLEAN /\ iniSet \in BOOLEAN /\ exists \subseteq Places
  /\ advertised \subseteq Tools
  /\ pc \in {"new", "loaded", "discovering", "starting", "running", "stopping",
             "reporting", "over"}
  /\ resolved \in Places \union {None} /\ childFile \in Places \union {None}
  /\ lease \in BOOLEAN
  /\ discovered \subseteq Tools /\ collected \subseteq Tools /\ ran \subseteq collected
  /\ child \in {"none", "running", "ended", "killed"}
  /\ rc \in (0 .. 5) \union {Killed, NoCode}
  /\ xml \in {"none", "absent", "broken", "written", "read", "discarded"}
  /\ summary \subseteq Summary
  /\ exit \in 0 .. NoCode

Init ==
  /\ option \in Options
  /\ atRoot \in BOOLEAN /\ iniSet \in BOOLEAN /\ exists \in SUBSET Places
  /\ advertised \in SUBSET Tools
  /\ pc = "new" /\ resolved = None /\ lease = FALSE /\ discovered = {}
  /\ childFile = None /\ child = "none" /\ rc = NoCode /\ collected = {} /\ ran = {}
  /\ xml = "none" /\ summary = {} /\ exit = NoCode

Exit(status) == pc' = "over" /\ exit' = status

-----------------------------------------------------------------------------
(* _load_config                                                            *)

(* --config over mcp_config_file over ./config.yaml. *)
Choose ==
  CASE option.path # "none"           -> "given"
    [] option.path = "none" /\ iniSet -> "ini"
    [] OTHER                          -> "cwd"

(* A choice that names no file is an error, never a reason to look on; so  *)
(* is a file that does not validate.  One that is no YAML raises.          *)
LoadFails ==
  /\ pc = "new"
  /\ \/ Exit(2)
     \/ Choose \in exists /\ Exit(1)
  /\ UNCHANGED <<inputs, resolved, session, lease, discovered, xml, summary>>

Load ==
  /\ pc = "new" /\ Choose \in exists
  /\ resolved' = Choose
  /\ pc' = IF option.raw THEN "starting" ELSE "loaded"
  /\ UNCHANGED <<inputs, session, lease, discovered, xml, summary, exit>>

-----------------------------------------------------------------------------
(* _discover_tools_for_run: a McpTestClient of its own, one lease.         *)

Discover ==
  /\ pc = "loaded"
  /\ pc' = "discovering" /\ lease' = TRUE
  /\ UNCHANGED <<inputs, resolved, session, discovered, xml, summary, exit>>

(* As if the client were left for the child to end. *)
DiscoveredOpen ==
  /\ pc = "discovering"
  /\ pc' = "starting"
  /\ discovered' = advertised
  /\ UNCHANGED <<inputs, resolved, session, lease, xml, summary, exit>>

Discovered ==
  /\ pc = "discovering"
  /\ pc' = "starting" /\ lease' = FALSE
  /\ discovered' = advertised
  /\ UNCHANGED <<inputs, resolved, session, xml, summary, exit>>

DiscoveryFails ==         \* no such command, or any exception of the client
  /\ \/ pc = "loaded"
     \/ pc = "discovering"
  /\ Exit(2) /\ lease' = FALSE
  /\ UNCHANGED <<inputs, resolved, session, discovered, xml, summary>>

-----------------------------------------------------------------------------
(* run_pytest_subprocess                                                   *)

(* As if -q silenced the reporter whatever else was asked. *)
ReporterOnUnlessQuiet == ~option.raw /\ ~option.quiet

(* --mcp-domain-ui=force: --debug wins over -q. *)
ReporterOn == ~option.raw /\ (option.debug \/ ~option.quiet)

(* The child inherits stdout; otherwise its output is captured. *)
Streams == ~option.quiet /\ ~option.debug

(* The plugin takes a relative path from its rootdir. *)
PathInChild ==
  IF resolved = "given" /\ option.path = "relative" /\ ~atRoot
  THEN "givenFromRoot" ELSE resolved

StartChild ==
  /\ pc = "starting"
  /\ pc' = "running" /\ child' = "running"
  /\ childFile' = PathInChild
  /\ xml' = IF option.raw THEN "none" ELSE "absent"
  /\ UNCHANGED <<inputs, resolved, rc, collected, ran, lease, discovered, summary, exit>>

(* How a session can end: the XML is written when a session that started   *)
(* finishes.  pytest.exit or an interrupt while configuring, `--help' and  *)
(* usage errors leave none; a signal leaves anything.                      *)
Endings ==
  IF childFile \notin exists THEN [rc : {2, Killed}, xml : {"absent"}]
  ELSE [rc : {Killed}, xml : {"absent", "broken", "written"}]
       \union [rc : 0 .. 4, xml : {"absent"}]
       \union [rc : 0 .. 5, xml : {"written"}]

(* The summary line counts what was discovered and did not run. *)
SkippedOf(names) == names \ ran'

(* The reporter's summary: what it takes for discovered are the tools of   *)
(* the collected items.                                                    *)
ChildSummary(finished) ==
  IF ReporterOn /\ finished
  THEN {[by |-> IF Streams THEN "child" ELSE "appendix", skipped |-> SkippedOf(collected')]}
  ELSE {}

(* A session that ends tells which tools it collected and reported. *)
Outcome(e) ==
  /\ rc' = e.rc
  /\ collected' \in IF e.xml = "written" /\ e.rc # 5 THEN SUBSET advertised ELSE {{}}
  /\ IF e.rc = 0 THEN ran' = collected' ELSE ran' \in SUBSET collected'
  /\ xml' = IF option.raw THEN "none" ELSE e.xml

(* Inherited output is seen at once, captured output later, if at all.  A  *)
(* signal may strike before or after the reporter's summary.               *)
ChildShows(e) ==
  summary' \in
    CASE ~Streams                    -> {{}}
      [] Streams /\ e.rc = Killed    -> {{}, ChildSummary(TRUE)}
      [] Streams /\ ~(e.rc = Killed) -> {ChildSummary(e.xml = "written")}

ChildEnds ==
  /\ pc = "running"
  /\ pc' = "reporting" /\ child' = "ended"
  /\ \E e \in Endings : Outcome(e) /\ ChildShows(e)
  /\ UNCHANGED <<inputs, resolved, childFile, lease, discovered, exit>>

-----------------------------------------------------------------------------
(* What the command makes of it.                                           *)

(* As if only the codes it knows were errors. *)
MapOthersToZero(code) == IF code \in 0 .. 2 THEN code ELSE 0

(* _map_exit_code: no tests collected is no error. *)
MapExitCode(code) == IF code = 5 THEN 0 ELSE code

(* As if a status could be negative. *)
StatusVerbatim(code) == code

(* What the operating system makes of the argument of sys.exit. *)
Status(code) == code % 256

RawExit ==
  /\ pc = "reporting" /\ option.raw
  /\ Exit(Status(MapExitCode(rc)))
  /\ UNCHANGED <<inputs, resolved, session, lease, discovered, xml, summary>>

(* _dispatch_default_mode_or_error lets a child that exited with 0 and left *)
(* no XML pass, and the parser then raises FileNotFoundError.              *)
NoXml ==
  /\ pc = "reporting" /\ xml = "absent"
  /\ Exit(IF rc = 0 THEN 1 ELSE 2)
  /\ UNCHANGED <<inputs, resolved, session, lease, discovered, xml, summary>>

(* As if the file were unlinked only after it was parsed. *)
ParseFailsKeeping ==
  /\ pc = "reporting" /\ xml = "broken"
  /\ Exit(2)
  /\ UNCHANGED <<inputs, resolved, session, lease, discovered, xml, summary>>

ParseFails ==
  /\ pc = "reporting" /\ xml = "broken"
  /\ Exit(2) /\ xml' = "discarded"
  /\ UNCHANGED <<inputs, resolved, session, lease, discovered, summary>>

(* -q shows a summary line of the command's own, --debug the captured      *)
(* output; either way the child's code is passed on and the file removed.  *)
Report ==
  /\ pc = "reporting" /\ xml = "written"
  /\ Exit(Status(MapExitCode(rc))) /\ xml' = "read"
  /\ UNCHANGED <<inputs, resolved, session, lease, discovered>>
  /\ summary' =
       summary \union
       (IF option.quiet /\ ~option.debug
        THEN {[by |-> "command", skipped |-> SkippedOf(discovered)]} ELSE {})
       \union (IF option.debug THEN ChildSummary(TRUE) ELSE {})

-----------------------------------------------------------------------------
(* Ctrl-C.                                                                 *)

(* The command unwinds its client or its finally block and exits with 130. *)
InterruptCommand ==
  /\ pc \in {"new", "loaded", "discovering", "starting", "reporting"}
  /\ Exit(Interrupted) /\ lease' = FALSE
  /\ xml' = IF xml \in {"broken", "written"} THEN "discarded" ELSE xml
  /\ UNCHANGED <<inputs, resolved, session, discovered, summary>>

InterruptBoth ==
  /\ pc = "running"
  /\ pc' = "stopping"
  /\ UNCHANGED <<inputs, resolved, session, lease, discovered, xml, summary, exit>>

(* The interrupted child finishes its session in time, or it is killed.    *)
(* Nobody removes the file: its path was still in run_pytest_subprocess.   *)
Stopped ==
  /\ pc = "stopping"
  /\ Exit(Interrupted)
  /\ \E e \in Endings :
       /\ Outcome(e) /\ ChildShows(e)
       /\ child' = IF e.rc = Killed THEN "killed" ELSE "ended"
  /\ UNCHANGED <<inputs, resolved, childFile, lease, discovered>>

Done == pc = "over" /\ UNCHANGED vars

Next ==
  \/ LoadFails \/ Load \/ Discover \/ Discovered \/ DiscoveryFails
  \/ StartChild \/ ChildEnds \/ RawExit \/ NoXml \/ ParseFails \/ Report
  \/ InterruptCommand \/ InterruptBoth \/ Stopped \/ Done

Spec == Init /\ [][Next]_vars

-----------------------------------------------------------------------------
(* Properties.                                                             *)

(* The command succeeds only on what a session earned: the child ended by  *)
(* itself with success or with nothing to run, a config file was loaded in *)
(* both processes and, unless --raw, the results were read.                *)
GreenIsEarned ==
  exit = 0 => /\ child = "ended" /\ rc \in {0, 5}
              /\ {resolved, childFile} \subseteq exists
              /\ ~option.raw => xml = "read"

(* The command's own server and those of the session it starts never run   *)
(* at the same time, so the command adds no second owner of the operator's *)
(* credentials.                                                            *)
DiscoveryClosedFirst == child = "running" => ~lease

(* The live reporter, the command and the appendix share the output: a run *)
(* whose results were read shows one summary, under every combination of   *)
(* -q and --debug, unless a signal ended the child in the middle of it.    *)
OneSummary ==
  xml = "read" /\ rc # Killed => Cardinality(summary) = 1

(* However the command ends, its client is closed and no child runs; the   *)
(* temporary file is gone too, unless Ctrl-C came while the child ran.     *)
NothingLeft ==
  exit # NoCode => /\ ~lease /\ child # "running"
                   /\ exit # Interrupted => xml \notin {"broken", "written"}

(* "so the in-subprocess plugin sees the same YAML". *)
SameConfigFile == childFile # None => childFile = resolved
=============================================================================
