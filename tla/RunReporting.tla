---------------------------- MODULE RunReporting ----------------------------
(***************************************************************************)
(* How the reports of one pytest session become one verdict per tool.      *)
(* Two readers aggregate the same session: the live reporter, which        *)
(* buckets the TestReport events it accumulated, and parse_junit_xml,      *)
(* which reads the XML that pytest's own JUnit writer made of them.        *)
(*                                                                         *)
(* External: pytest (three phases per test, the JUnit writer) and xdist    *)
(* (reports of several workers interleave; a worker that dies is reported  *)
(* by one failed report of no phase).                                      *)
(***************************************************************************)
EXTENDS Naturals, Sequences, FiniteSets

CONSTANTS
  Tests,     \* the collected items
  Tools,     \* the names in [<tool>]
  ToolOf,    \* the tool an item is parametrized with
  ReasonOf,  \* why an item is skipped, when it is
  Workers    \* how many items xdist has in flight

ASSUME ToolOfAssumption == ToolOf \in [Tests -> Tools]
ASSUME WorkersAssumption == Workers \in Nat \ {0}

VARIABLES
  xdist,     \* the reports come from worker processes, never written
  session,   \* "running", or "ended" from sessionfinish on
  status,    \* the last phase of an item that was reported
  order,     \* keys of by_nodeid, in insertion order
  phases,    \* values of by_nodeid: the outcome of each phase reported
  xml,       \* the <testcase> elements, in order
  openCase,  \* the element an item's next report is recorded in, 0 if none
  liveAt,    \* items the live adapter has aggregated
  live,      \* its per_tool
  xmlAt,     \* elements parse_junit_xml has aggregated
  junit      \* its per_tool

logVars  == <<status, order, phases, xml, openCase>>
readVars == <<liveAt, live, xmlAt, junit>>
vars == <<xdist, session, logVars, readVars>>

None == "none"
Phases == {"setup", "call", "teardown"}
Failing == {"failed", "toolError"}

(* "toolError" is a failed report that carries the mcptf_error_* properties. *)
(* pytest_exception_interact adds them after the report was logged, when a *)
(* worker has sent its copy already.                                       *)
Outcomes == {"passed", "failed", "skipped"}
            \union (IF xdist THEN {} ELSE {"toolError"})

(* A failure message: whose, of which phase, and if it is the hoisted one. *)
Message == [item : Tests, phase : {"crash"} \union Phases, hoisted : BOOLEAN]

(* A ToolVerdict with its _has_pass entry; verdict "none" is no entry yet. *)
Bucket == [verdict : {None, "PASS", "FAIL", "SKIP"}, hasPass : BOOLEAN,
           message : SUBSET Message,
           reasons : SUBSET {ReasonOf[t] : t \in Tests}, cases : Nat]

NoBucket == [verdict |-> None, hasPass |-> FALSE, message |-> {},
             reasons |-> {}, cases |-> 0]

TestCase == [test : Tests, named : BOOLEAN, failure : {None, "crash"} \union Phases,
             skipped : BOOLEAN, hoisted : BOOLEAN]

TypeOK ==
  /\ xdist \in BOOLEAN
  /\ session \in {"running", "ended"}
  /\ status \in [Tests -> {"todo", "crashed"} \union Phases]
  /\ order \in Seq(Tests)
  /\ phases \in [Tests -> [Phases -> {None, "passed", "skipped"} \union Failing]]
  /\ xml \in Seq(TestCase)
  /\ openCase \in [Tests -> 0 .. Len(xml)]
  /\ liveAt \in 0 .. Len(order) /\ xmlAt \in 0 .. Len(xml)
  /\ live \in [Tools -> Bucket] /\ junit \in [Tools -> Bucket]

Init ==
  /\ xdist \in BOOLEAN /\ session = "running"
  /\ status = [t \in Tests |-> "todo"]
  /\ order = <<>> /\ phases = [t \in Tests |-> [p \in Phases |-> None]]
  /\ xml = <<>> /\ openCase = [t \in Tests |-> 0]
  /\ liveAt = 0 /\ live = [tool \in Tools |-> NoBucket]
  /\ xmlAt = 0 /\ junit = [tool \in Tools |-> NoBucket]

-----------------------------------------------------------------------------
(* The session (external) and the reporter's pytest_runtest_logreport.     *)

InFlight == {t \in Tests : status[t] \in {"setup", "call"}}
MayStart == Cardinality(InFlight) < (IF xdist THEN Workers ELSE 1)

(* The reporter keeps a report of a phase under its item and phase. *)
Accumulate(t, phase, outcome) ==
  /\ phases' = [phases EXCEPT ![t][phase] = outcome]
  /\ order' = IF \E i \in DOMAIN order : order[i] = t THEN order
                                                      ELSE Append(order, t)

NewCase(t) == [test |-> t, named |-> FALSE, failure |-> None,
               skipped |-> FALSE, hoisted |-> FALSE]

(* What the JUnit writer adds to an element: a passing setup or teardown   *)
(* leaves no child; a reader picks the first failure or error.             *)
Recorded(case, phase, outcome) ==
  [test    |-> case.test,
   named   |-> IF phase = "setup" /\ outcome = "passed" THEN case.named ELSE TRUE,
   failure |-> IF case.failure = None /\ outcome \in Failing
               THEN phase ELSE case.failure,
   skipped |-> IF outcome = "skipped" THEN TRUE ELSE case.skipped,
   hoisted |-> case.hoisted]

(* The elements once a report of t was recorded in the one open for it. *)
Record(t, phase, outcome) ==
  IF openCase[t] = 0
  THEN Append(xml, Recorded(NewCase(t), phase, outcome))
  ELSE [xml EXCEPT ![openCase[t]] = Recorded(xml[openCase[t]], phase, outcome)]

LogSetup(t, outcome) ==
  /\ session = "running" /\ status[t] = "todo" /\ MayStart
  /\ status' = [status EXCEPT ![t] = "setup"]
  /\ Accumulate(t, "setup", outcome)
  /\ xml' = Record(t, "setup", outcome)
  /\ openCase' = [openCase EXCEPT ![t] = Len(xml')]
  /\ UNCHANGED <<xdist, session, readVars>>

LogCall(t, outcome) ==
  /\ session = "running" /\ status[t] = "setup" /\ phases[t]["setup"] = "passed"
  /\ status' = [status EXCEPT ![t] = "call"]
  /\ Accumulate(t, "call", outcome)
  /\ xml' = Record(t, "call", outcome)
  /\ UNCHANGED <<xdist, session, openCase, readVars>>

(* The open element of t, closed with the properties of its call report. *)
Hoist(t) ==
  [xml[openCase[t]] EXCEPT !.hoisted = (phases[t]["call"] = "toolError")]

(* The writer closes the element, and on a failed call that fails again in *)
(* teardown it closes the first (with the call report's properties, which  *)
(* no other element ever gets) and reports the teardown in a second one.   *)
LogTeardown(t, outcome) ==
  /\ session = "running"
  /\ \/ status[t] = "call"
     \/ status[t] = "setup" /\ phases[t]["setup"] # "passed"
  /\ status' = [status EXCEPT ![t] = "teardown"]
  /\ Accumulate(t, "teardown", outcome)
  /\ IF outcome \in Failing /\ phases[t]["call"] \in Failing
     THEN xml' = Append([xml EXCEPT ![openCase[t]] = Hoist(t)],
                        Recorded(NewCase(t), "teardown", outcome))
     ELSE xml' = Record(t, "teardown", outcome)
  /\ openCase' = [openCase EXCEPT ![t] = 0]
  /\ UNCHANGED <<xdist, session, readVars>>

(* The worker running t dies: xdist logs a failed report whose `when' is   *)
(* "???", which the reporter drops and the JUnit writer records.           *)
WorkerCrash(t) ==
  /\ session = "running" /\ xdist
  /\ \/ status[t] = "todo" /\ MayStart
     \/ status[t] \in {"setup", "call"}
  /\ status' = [status EXCEPT ![t] = "crashed"]
  /\ xml' = Record(t, "crash", "failed")
  /\ openCase' = [openCase EXCEPT ![t] = IF @ = 0 THEN Len(xml') ELSE @]
  /\ UNCHANGED <<xdist, session, order, phases, readVars>>

Settled == \A t \in Tests : status[t] \in {"teardown", "crashed"}

(* Ctrl-C or pytest.exit: the items in flight get no further report, and   *)
(* sessionfinish runs all the same.                                        *)
Interrupt ==
  /\ session = "running" /\ ~Settled
  /\ session' = "ended"
  /\ UNCHANGED <<xdist, logVars, readVars>>

Finish ==
  /\ session = "running" /\ Settled
  /\ session' = "ended"
  /\ UNCHANGED <<xdist, logVars, readVars>>

-----------------------------------------------------------------------------
(* The two aggregation loops, one item or element at a time.               *)

FailCase(t, phase, hoisted) ==
  [kind |-> "FAIL", reasons |-> {},
   message |-> {[item |-> t, phase |-> phase, hoisted |-> hoisted]}]
SkipCase(reason)  == [kind |-> "SKIP", message |-> {}, reasons |-> {reason}]
PassCase          == [kind |-> "PASS", message |-> {}, reasons |-> {}]

(* As if a skipped case demoted a tool whenever none had failed. *)
AbsorbLastWins(bucket, case) ==
  [verdict |-> IF bucket.verdict = "FAIL" THEN "FAIL" ELSE case.kind,
   hasPass |-> IF case.kind = "PASS" THEN TRUE ELSE bucket.hasPass,
   message |-> IF bucket.message = {} THEN case.message ELSE bucket.message,
   reasons |-> bucket.reasons \union case.reasons,
   cases   |-> bucket.cases + 1]

(* FAIL is sticky, PASS dominates SKIP, the first message wins. *)
Absorb(bucket, case) ==
  [verdict |-> IF bucket.verdict = "FAIL" \/ (case.kind = "SKIP" /\ bucket.hasPass)
               THEN bucket.verdict ELSE case.kind,
   hasPass |-> IF case.kind = "PASS" THEN TRUE ELSE bucket.hasPass,
   message |-> IF bucket.message = {} THEN case.message ELSE bucket.message,
   reasons |-> bucket.reasons \union case.reasons,
   cases   |-> bucket.cases + 1]

(* The failing report that speaks for an item: the call's, else the setup's. *)
FailedPhase(p) ==
  CASE p["call"] \in Failing -> "call"
    [] p["call"] \notin Failing /\ p["setup"] \in Failing -> "setup"
    [] OTHER -> "teardown"

Failed(p) == \E phase \in Phases : p[phase] \in Failing
Skipped(p) == "skipped" \in {p["setup"], p["call"]}

(* As if a skip were looked for before a failure. *)
LiveCaseSkipFirst(t) ==
  LET p == phases[t]
  IN  IF Skipped(p) THEN SkipCase(ReasonOf[t])
      ELSE IF Failed(p)
      THEN FailCase(t, FailedPhase(p), p[FailedPhase(p)] = "toolError")
      ELSE PassCase

(* One item for the live adapter: any failed report, else a skip, else it  *)
(* passed, which includes an item whose call was never reported.           *)
LiveCase(t) ==
  LET p == phases[t]
  IN  IF Failed(p)
      THEN FailCase(t, FailedPhase(p), p[FailedPhase(p)] = "toolError")
      ELSE IF Skipped(p) THEN SkipCase(ReasonOf[t])
      ELSE PassCase

(* As if only <failure>, which the writer emits for the call phase, counted. *)
XmlCaseNoErrors(e) ==
  IF e.failure = "call" THEN FailCase(e.test, e.failure, e.hoisted)
  ELSE IF e.skipped THEN SkipCase(ReasonOf[e.test])
  ELSE PassCase

(* One element for parse_junit_xml: <failure> or <error>, else <skipped>. *)
XmlCase(e) ==
  IF e.failure # None THEN FailCase(e.test, e.failure, e.hoisted)
  ELSE IF e.skipped THEN SkipCase(ReasonOf[e.test])
  ELSE PassCase

(* _build_parsed_run_from_reports, called by pytest_sessionfinish. *)
AggregateReports ==
  /\ session = "ended" /\ liveAt < Len(order)
  /\ LET t == order[liveAt + 1]
     IN  live' = [live EXCEPT ![ToolOf[t]] = Absorb(@, LiveCase(t))]
  /\ liveAt' = liveAt + 1
  /\ UNCHANGED <<xdist, session, logVars, xmlAt, junit>>

(* parse_junit_xml, called by the command once the session's process ended; *)
(* an element that never got a name belongs to no tool.                    *)
AggregateXml ==
  /\ session = "ended" /\ liveAt = Len(order) /\ xmlAt < Len(xml)
  /\ LET e == xml[xmlAt + 1]
     IN  junit' = IF e.named
                  THEN [junit EXCEPT ![ToolOf[e.test]] = Absorb(@, XmlCase(e))]
                  ELSE junit
  /\ xmlAt' = xmlAt + 1
  /\ UNCHANGED <<xdist, session, logVars, liveAt, live>>

Reported == session = "ended" /\ liveAt = Len(order) /\ xmlAt = Len(xml)

Done == Reported /\ UNCHANGED vars

Next ==
  \/ \E t \in Tests :
       \/ \E outcome \in Outcomes : LogSetup(t, outcome) \/ LogCall(t, outcome)
       \/ \E outcome \in Outcomes \ {"skipped"} : LogTeardown(t, outcome)
       \/ WorkerCrash(t)
  \/ Interrupt \/ Finish \/ AggregateReports \/ AggregateXml \/ Done

Spec == Init /\ [][Next]_vars

-----------------------------------------------------------------------------
(* Properties.                                                             *)

(* "FAIL is sticky; PASS dominates SKIP", whatever the order. *)
AnyFailWins(kinds) ==
  CASE "FAIL" \in kinds                     -> "FAIL"
    [] "FAIL" \notin kinds /\ "PASS" \in kinds -> "PASS"
    [] kinds = {"SKIP"}                     -> "SKIP"
    [] OTHER                                -> None

(* What the loops have read of a tool so far. *)
LiveKinds(tool) ==
  {LiveCase(order[i]).kind : i \in {j \in 1 .. liveAt : ToolOf[order[j]] = tool}}
XmlKinds(tool) ==
  {XmlCase(xml[i]).kind :
     i \in {j \in 1 .. xmlAt : xml[j].named /\ ToolOf[xml[j].test] = tool}}

(* "Order-independence: a tool's verdict is the same regardless of the     *)
(* order": at every point of either loop a tool's verdict depends on the   *)
(* set of outcomes read for it alone.                                      *)
OrderIndependent ==
  \A tool \in Tools : /\ live[tool].verdict = AnyFailWins(LiveKinds(tool))
                      /\ junit[tool].verdict = AnyFailWins(XmlKinds(tool))

(* Every item ran to its end, in a worker that survived it. *)
Undisturbed == \A t \in Tests : status[t] = "teardown"

Source(message) == {<<m.item, m.phase>> : m \in message}

(* After an undisturbed session both readers report the same tools, with   *)
(* the same verdict, the same skip reasons and a failure message taken     *)
(* from the same phase of the same item, although they see the session in  *)
(* different shapes and the reports of the items interleave.               *)
ReadersAgree ==
  Reported /\ Undisturbed =>
    \A tool \in Tools :
      /\ live[tool].verdict = junit[tool].verdict
      /\ live[tool].reasons = junit[tool].reasons
      /\ Source(live[tool].message) = Source(junit[tool].message)

(* The command's verdict is never better than the run: PASS means that the *)
(* call of some item of the tool passed, that no phase of any failed and   *)
(* that no worker died of one, interrupted or not.                         *)
PassIsEarned ==
  Reported =>
    \A tool \in {u \in Tools : junit[u].verdict = "PASS"} :
      LET own == {t \in Tests : ToolOf[t] = tool}
      IN  /\ \E t \in own : phases[t]["call"] = "passed"
          /\ \A t \in own : /\ status[t] # "crashed"
                            /\ \A p \in Phases : phases[t][p] \notin Failing

(* "field-equal to parse_junit_xml output for the same logical run": a     *)
(* tool that both readers report has one verdict.                          *)
SameVerdicts ==
  Reported =>
    \A tool \in Tools :
      None \notin {live[tool].verdict, junit[tool].verdict}
        => live[tool].verdict = junit[tool].verdict
=============================================================================
