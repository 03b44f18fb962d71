---------------------------- MODULE CliRun_proofs ----------------------------
(***************************************************************************)
(* What CliRun promises for any set of tools, from one inductive           *)
(* invariant.                                                              *)
(***************************************************************************)
EXTENDS CliRun, FiniteSetTheorems, TLAPS

(* The exit status is chosen once, on the last step. *)
ExitIsLast == exit = NoCode <=> pc # "over"

(* The discovery client lives while the command waits for its answer. *)
LeaseInScope == lease <=> pc = "discovering"

(* Where the child is, what is known of it. *)
ChildInStep ==
  /\ pc \in {"new", "loaded", "discovering", "starting"}
       => child = "none" /\ rc = NoCode /\ childFile = None /\ xml = "none"
  /\ pc \in {"running", "stopping"}
       => child = "running" /\ rc = NoCode /\ xml \in {"none", "absent"}
  /\ pc = "reporting" => child = "ended" /\ rc # NoCode
  /\ pc = "over" => child # "running"
  /\ child = "none" => rc = NoCode

(* The command never goes past loading without the file it chose. *)
LoadedFirst ==
  /\ pc = "new" => resolved = None
  /\ pc \notin {"new", "over"} => resolved = Choose /\ Choose \in exists

(* A child that could not read its own file fails without results. *)
ChildReadItsFile ==
  pc = "reporting" /\ childFile \notin exists => rc \in {2, Killed} /\ xml \in {"none", "absent"}

(* Results are a file only outside raw mode. *)
XmlInStep ==
  /\ option.raw => xml = "none"
  /\ pc = "reporting" /\ ~option.raw => xml \in {"absent", "broken", "written"}
  /\ xml \in {"read", "discarded"} => pc = "over"

(* No summary before the child ended; then its own, if it streams; at last *)
(* exactly one.                                                            *)
SummaryInStep ==
  /\ pc \notin {"reporting", "over"} => summary = {}
  /\ pc = "reporting" /\ ~Streams => summary = {}
  /\ pc = "reporting" /\ Streams /\ xml = "written" /\ rc # Killed
       => \E s : summary = {s}
  /\ xml = "read" /\ rc # Killed => \E s : summary = {s}

IInv == /\ TypeOK /\ ExitIsLast /\ LeaseInScope /\ ChildInStep /\ LoadedFirst
        /\ ChildReadItsFile /\ XmlInStep
        /\ SummaryInStep /\ GreenIsEarned /\ NothingLeft

USE DEF None, NoCode, Interrupted, Killed, inputs, session

-----------------------------------------------------------------------------

(* A status is a byte, and only the codes 0 and 5 become success. *)
LEMMA StatusOfCode ==
  ASSUME NEW code \in (0 .. 5) \union {Killed}
  PROVE  /\ Status(MapExitCode(code)) \in 0 .. 255
         /\ Status(MapExitCode(code)) = 0 => code \in {0, 5}
  BY DEF Status, MapExitCode

(* The initial states satisfy the invariant. *)
LEMMA InitIInv == Init => IInv
<1> SUFFICES ASSUME Init PROVE IInv
  OBVIOUS
<1>1. TypeOK
  <2>1. option \in Options /\ atRoot \in BOOLEAN /\ iniSet \in BOOLEAN
    BY DEF Init
  <2>2. exists \subseteq Places /\ advertised \subseteq Tools
    BY DEF Init
  <2>3. exit \in 0 .. NoCode /\ rc \in (0 .. 5) \union {Killed, NoCode}
    BY DEF Init
  <2>4. lease \in BOOLEAN
    BY DEF Init
  <2> QED
    BY <2>1, <2>2, <2>3, <2>4 DEF Init, TypeOK
<1>2. ExitIsLast /\ ChildInStep /\ LoadedFirst /\ XmlInStep
  BY DEF Init, ExitIsLast, ChildInStep, LoadedFirst, XmlInStep
<1>3. LeaseInScope
  BY DEF Init, LeaseInScope
<1>5. SummaryInStep
  BY DEF Init, SummaryInStep
<1>4. ChildReadItsFile /\ GreenIsEarned /\ NothingLeft
  BY DEF Init, ChildReadItsFile, GreenIsEarned, NothingLeft
<1> QED
  BY <1>1, <1>2, <1>3, <1>4, <1>5 DEF IInv

(* Summaries of the three sources count tools. *)
LEMMA SummaryType ==
  ASSUME TypeOK, ran' \subseteq Tools, collected' \subseteq Tools, NEW finished \in BOOLEAN
  PROVE  ChildSummary(finished) \subseteq Summary
  BY DEF ChildSummary, SkippedOf, Summary

(* How a child ends keeps the types of what is known of it. *)
LEMMA OutcomeType ==
  ASSUME TypeOK, NEW e \in Endings, Outcome(e)
  PROVE  /\ rc' \in (0 .. 5) \union {Killed}
         /\ collected' \subseteq Tools /\ ran' \subseteq collected'
         /\ xml' = IF option.raw THEN "none" ELSE e.xml
         /\ e.xml \in {"absent", "broken", "written"}
         /\ childFile \notin exists => rc' \in {2, Killed} /\ e.xml = "absent"
  BY DEF Outcome, Endings, TypeOK

(* What the child shows of itself is a set of summaries. *)
LEMMA ShownType ==
  ASSUME TypeOK, NEW e \in Endings, Outcome(e), ChildShows(e)
  PROVE  summary' \subseteq Summary
<1>1. ran' \subseteq Tools /\ collected' \subseteq Tools
  BY OutcomeType
<1>2. ChildSummary(TRUE) \subseteq Summary /\ ChildSummary(e.xml = "written") \subseteq Summary
  BY <1>1, SummaryType
<1> QED
  BY <1>2 DEF ChildShows

(* Every step preserves the types. *)
LEMMA TypePreserved ==
  ASSUME IInv, Next
  PROVE  TypeOK'
<1> USE DEF IInv, TypeOK
<1>1. CASE LoadFails
  BY <1>1 DEF LoadFails, Exit
<1>2. CASE Load
  BY <1>2 DEF Load, Choose, Places
<1>3. CASE Discover
  BY <1>3 DEF Discover
<1>4. CASE Discovered
  <2>1. lease' \in BOOLEAN
    BY <1>4 DEF Discovered
  <2>2. pc' = "starting" /\ discovered' \subseteq Tools
    BY <1>4 DEF Discovered
  <2> QED
    BY <1>4, <2>1, <2>2 DEF Discovered
<1>5. CASE DiscoveryFails
  <2>1. lease' \in BOOLEAN
    BY <1>5 DEF DiscoveryFails
  <2>2. pc' = "over" /\ exit' = 2
    BY <1>5 DEF DiscoveryFails, Exit
  <2> QED
    BY <1>5, <2>1, <2>2 DEF DiscoveryFails
<1>6. CASE StartChild
  BY <1>6 DEF StartChild, PathInChild, Places
<1>7. CASE ChildEnds
  <2>1. PICK e \in Endings : Outcome(e) /\ ChildShows(e)
    BY <1>7 DEF ChildEnds
  <2>2. summary' \subseteq Summary
    BY <2>1, ShownType
  <2> QED
    BY <1>7, <2>1, <2>2, OutcomeType DEF ChildEnds
<1>8. CASE RawExit
  BY <1>8, StatusOfCode DEF RawExit, Exit, ChildInStep
<1>9. CASE NoXml
  BY <1>9 DEF NoXml, Exit
<1>10. CASE ParseFails
  BY <1>10 DEF ParseFails, Exit
<1>11. CASE Report
  <2>1. summary' \subseteq Summary
    <3>1. ran' \subseteq Tools /\ collected' \subseteq Tools
      BY <1>11 DEF Report
    <3>2. ChildSummary(TRUE) \subseteq Summary
      BY <3>1, SummaryType
    <3>3. [by |-> "command", skipped |-> SkippedOf(discovered)] \in Summary
      BY DEF SkippedOf, Summary
    <3> QED
      <4>1. \A s \in summary' : \/ s \in summary
                                  \/ s = [by |-> "command", skipped |-> SkippedOf(discovered)]
                                  \/ s \in ChildSummary(TRUE)
        BY <1>11 DEF Report
      <4> QED
        BY <3>2, <3>3, <4>1
  <2>2. exit' \in 0 .. NoCode
    BY <1>11, StatusOfCode DEF Report, Exit, ChildInStep
  <2> QED
    <3>1. /\ pc' = "over" /\ xml' = "read"
          /\ UNCHANGED <<inputs, resolved, session, lease, discovered>>
      BY <1>11 DEF Report, Exit
    <3> QED
      BY <2>1, <2>2, <3>1
<1>12. CASE InterruptCommand
  <2>1. lease' \in BOOLEAN
    BY <1>12 DEF InterruptCommand
  <2>2. pc' = "over" /\ exit' = Interrupted
    BY <1>12 DEF InterruptCommand, Exit
  <2>3. xml' \in {xml, "discarded"}
    BY <1>12 DEF InterruptCommand
  <2> QED
    BY <1>12, <2>1, <2>2, <2>3 DEF InterruptCommand
<1>13. CASE InterruptBoth
  BY <1>13 DEF InterruptBoth
<1>14. CASE Stopped
  <2>1. PICK e \in Endings :
          Outcome(e) /\ ChildShows(e) /\ child' \in {"killed", "ended"}
    BY <1>14 DEF Stopped
  <2>2. summary' \subseteq Summary
    BY <2>1, ShownType
  <2> QED
    BY <1>14, <2>1, <2>2, OutcomeType DEF Stopped, Exit
<1>15. CASE Done
  BY <1>15 DEF Done, vars
<1> QED
  BY <1>1, <1>2, <1>3, <1>4, <1>5, <1>6, <1>7, <1>8, <1>9, <1>10, <1>11, <1>12, <1>13, <1>14, <1>15 DEF Next

(* Every step preserves what relates the parts of the state. *)
LEMMA ControlPreserved ==
  ASSUME IInv, Next
  PROVE  ExitIsLast' /\ ChildInStep' /\ XmlInStep'
<1> USE DEF IInv, TypeOK, ExitIsLast, ChildInStep, XmlInStep
<1>1. CASE LoadFails
  BY <1>1 DEF LoadFails, Exit
<1>2. CASE Load
  BY <1>2 DEF Load, Choose, Places
<1>3. CASE Discover
  BY <1>3 DEF Discover
<1>4. CASE Discovered
  BY <1>4 DEF Discovered
<1>5. CASE DiscoveryFails
  BY <1>5 DEF DiscoveryFails, Exit
<1>6. CASE StartChild
  BY <1>6 DEF StartChild, PathInChild, Places
<1>7. CASE ChildEnds
  BY <1>7, OutcomeType DEF ChildEnds
<1>8. CASE RawExit
  BY <1>8, StatusOfCode DEF RawExit, Exit
<1>9. CASE NoXml
  BY <1>9 DEF NoXml, Exit
<1>10. CASE ParseFails
  BY <1>10 DEF ParseFails, Exit
<1>11. CASE Report
  BY <1>11, StatusOfCode DEF Report, Exit
<1>12. CASE InterruptCommand
  BY <1>12 DEF InterruptCommand, Exit
<1>13. CASE InterruptBoth
  BY <1>13 DEF InterruptBoth
<1>14. CASE Stopped
  BY <1>14, OutcomeType DEF Stopped, Exit
<1>15. CASE Done
  BY <1>15 DEF Done, vars
<1> QED
  BY <1>1, <1>2, <1>3, <1>4, <1>5, <1>6, <1>7, <1>8, <1>9, <1>10, <1>11, <1>12, <1>13, <1>14, <1>15 DEF Next

(* Every step keeps the discovery client in its scope. *)
LEMMA LeasePreserved ==
  ASSUME IInv, Next
  PROVE  LeaseInScope' /\ NothingLeft'
<1> USE DEF IInv, TypeOK, ExitIsLast, LeaseInScope, NothingLeft, ChildInStep, XmlInStep
<1>1. CASE LoadFails
  BY <1>1 DEF LoadFails, Exit
<1>2. CASE Load
  BY <1>2 DEF Load, Choose, Places
<1>3. CASE Discover
  BY <1>3 DEF Discover
<1>4. CASE Discovered
  BY <1>4 DEF Discovered
<1>5. CASE DiscoveryFails
  BY <1>5 DEF DiscoveryFails, Exit
<1>6. CASE StartChild
  BY <1>6 DEF StartChild, PathInChild, Places
<1>7. CASE ChildEnds
  BY <1>7, OutcomeType DEF ChildEnds
<1>8. CASE RawExit
  BY <1>8, StatusOfCode DEF RawExit, Exit
<1>9. CASE NoXml
  BY <1>9 DEF NoXml, Exit
<1>10. CASE ParseFails
  BY <1>10 DEF ParseFails, Exit
<1>11. CASE Report
  BY <1>11, StatusOfCode DEF Report, Exit
<1>12. CASE InterruptCommand
  BY <1>12 DEF InterruptCommand, Exit
<1>13. CASE InterruptBoth
  BY <1>13 DEF InterruptBoth
<1>14. CASE Stopped
  BY <1>14, OutcomeType DEF Stopped, Exit
<1>15. CASE Done
  BY <1>15 DEF Done, vars
<1> QED
  BY <1>1, <1>2, <1>3, <1>4, <1>5, <1>6, <1>7, <1>8, <1>9, <1>10, <1>11, <1>12, <1>13, <1>14, <1>15 DEF Next

(* Every step keeps the places of the two config files. *)
LEMMA ConfigPreserved ==
  ASSUME IInv, Next
  PROVE  LoadedFirst' /\ ChildReadItsFile'
<1> USE DEF IInv, TypeOK, LoadedFirst, ChildReadItsFile, Choose, XmlInStep
<1>1. CASE LoadFails
  BY <1>1 DEF LoadFails, Exit
<1>2. CASE Load
  BY <1>2 DEF Load, Choose, Places
<1>3. CASE Discover
  BY <1>3 DEF Discover
<1>4. CASE Discovered
  BY <1>4 DEF Discovered
<1>5. CASE DiscoveryFails
  BY <1>5 DEF DiscoveryFails, Exit
<1>6. CASE StartChild
  BY <1>6 DEF StartChild, PathInChild, Places
<1>7. CASE ChildEnds
  BY <1>7, OutcomeType DEF ChildEnds
<1>8. CASE RawExit
  BY <1>8, StatusOfCode DEF RawExit, Exit
<1>9. CASE NoXml
  BY <1>9 DEF NoXml, Exit
<1>10. CASE ParseFails
  BY <1>10 DEF ParseFails, Exit
<1>11. CASE Report
  BY <1>11, StatusOfCode DEF Report, Exit
<1>12. CASE InterruptCommand
  BY <1>12 DEF InterruptCommand, Exit
<1>13. CASE InterruptBoth
  BY <1>13 DEF InterruptBoth
<1>14. CASE Stopped
  BY <1>14, OutcomeType DEF Stopped, Exit
<1>15. CASE Done
  BY <1>15 DEF Done, vars
<1> QED
  BY <1>1, <1>2, <1>3, <1>4, <1>5, <1>6, <1>7, <1>8, <1>9, <1>10, <1>11, <1>12, <1>13, <1>14, <1>15 DEF Next

(* Every step that exits with 0 has earned it. *)
LEMMA GreenPreserved ==
  ASSUME IInv, Next
  PROVE  GreenIsEarned'
<1> USE DEF IInv, TypeOK, GreenIsEarned, ExitIsLast, ChildInStep, LoadedFirst, ChildReadItsFile, XmlInStep
<1>1. CASE LoadFails
  BY <1>1 DEF LoadFails, Exit
<1>2. CASE Load
  BY <1>2 DEF Load, Choose, Places
<1>3. CASE Discover
  BY <1>3 DEF Discover
<1>4. CASE Discovered
  BY <1>4 DEF Discovered
<1>5. CASE DiscoveryFails
  BY <1>5 DEF DiscoveryFails, Exit
<1>6. CASE StartChild
  BY <1>6 DEF StartChild, PathInChild, Places
<1>7. CASE ChildEnds
  BY <1>7, OutcomeType DEF ChildEnds
<1>8. CASE RawExit
  <2>1. rc \in (0 .. 5) \union {Killed} /\ child = "ended" /\ resolved \in exists
    BY <1>8 DEF RawExit
  <2>2. exit' = Status(MapExitCode(rc)) /\ option.raw
    BY <1>8 DEF RawExit, Exit
  <2>3. exit' = 0 => rc \in {0, 5}
    BY <2>1, <2>2, StatusOfCode, ZenonT(30)
  <2>4. exit' = 0 => childFile \in exists
    BY <1>8, <2>3 DEF RawExit
  <2> QED
    BY <1>8, <2>1, <2>2, <2>3, <2>4 DEF RawExit
<1>9. CASE NoXml
  BY <1>9 DEF NoXml, Exit
<1>10. CASE ParseFails
  BY <1>10 DEF ParseFails, Exit
<1>11. CASE Report
  <2>1. rc \in (0 .. 5) \union {Killed} /\ child = "ended" /\ resolved \in exists
    BY <1>11 DEF Report
  <2>2. exit' = Status(MapExitCode(rc)) /\ xml' = "read"
    BY <1>11 DEF Report, Exit
  <2>3. exit' = 0 => rc \in {0, 5}
    BY <2>1, <2>2, StatusOfCode
  <2>4. exit' = 0 => childFile \in exists
    BY <1>11, <2>3 DEF Report
  <2> QED
    BY <1>11, <2>1, <2>2, <2>3, <2>4 DEF Report
<1>12. CASE InterruptCommand
  BY <1>12 DEF InterruptCommand, Exit
<1>13. CASE InterruptBoth
  BY <1>13 DEF InterruptBoth
<1>14. CASE Stopped
  BY <1>14, OutcomeType DEF Stopped, Exit
<1>15. CASE Done
  BY <1>15 DEF Done, vars
<1> QED
  BY <1>1, <1>2, <1>3, <1>4, <1>5, <1>6, <1>7, <1>8, <1>9, <1>10, <1>11, <1>12, <1>13, <1>14, <1>15 DEF Next

(* Every step that shows a summary shows the first one. *)
LEMMA SummaryPreserved ==
  ASSUME IInv, Next
  PROVE  SummaryInStep'
<1> USE DEF IInv, TypeOK, SummaryInStep, Streams
<1>1. CASE LoadFails \/ DiscoveryFails
  BY <1>1 DEF LoadFails, DiscoveryFails, Exit, ChildInStep
<1>2. CASE Load \/ Discover \/ Discovered
  BY <1>2 DEF Load, Discover, Discovered
<1>3. CASE StartChild \/ InterruptBoth
  BY <1>3 DEF StartChild, InterruptBoth, ChildInStep
<1>4. CASE ChildEnds
  <2>1. PICK e \in Endings : Outcome(e) /\ ChildShows(e)
    BY <1>4 DEF ChildEnds
  <2>2. ~Streams => summary' = {}
    BY <2>1 DEF ChildShows
  <2>3. ASSUME Streams, xml' = "written", rc' # Killed
        PROVE  \E s : summary' = {s}
    <3>1. e.xml = "written" /\ e.rc # Killed /\ ~option.raw
      BY <2>1, <2>3 DEF Outcome
    <3>2. summary' = ChildSummary(TRUE)
      BY <2>1, <2>3, <3>1 DEF ChildShows
    <3>3. ReporterOn
      BY <2>3, <3>1 DEF ReporterOn
    <3> QED
      BY <3>2, <3>3 DEF ChildSummary
  <2> QED
    BY <1>4, <2>2, <2>3, <2>1, OutcomeType DEF ChildEnds
<1>5. CASE RawExit \/ NoXml \/ ParseFails
  BY <1>5 DEF RawExit, NoXml, ParseFails, Exit
<1>6. CASE Report
  <2>1. pc' = "over" /\ xml' = "read" /\ rc' = rc /\ option' = option
    BY <1>6 DEF Report, Exit
  <2>2. ASSUME rc # Killed
        PROVE  \E s : summary' = {s}
    <3>1. CASE Streams
      BY <1>6, <2>2, <3>1 DEF Report
    <3>2. CASE option.debug
      <4>1. summary' = ChildSummary(TRUE)
        BY <1>6, <3>2 DEF Report
      <4>2. ReporterOn
        BY <1>6, <3>2 DEF ReporterOn, Report, XmlInStep
      <4> QED
        BY <4>1, <4>2 DEF ChildSummary
    <3>3. CASE option.quiet /\ ~option.debug
      <4>1. summary = {}
        BY <1>6, <3>3 DEF Report
      <4>2. summary' = {[by |-> "command", skipped |-> SkippedOf(discovered)]}
        BY <1>6, <3>3, <4>1 DEF Report
      <4> QED
        BY <4>2
    <3> QED
      BY <3>1, <3>2, <3>3
  <2> QED
    BY <2>1, <2>2
<1>7. CASE InterruptCommand
  BY <1>7 DEF InterruptCommand, Exit, XmlInStep
<1>8. CASE Stopped
  BY <1>8, OutcomeType DEF Stopped, Exit
<1>9. CASE Done
  BY <1>9 DEF Done, vars
<1> QED
  BY <1>1, <1>2, <1>3, <1>4, <1>5, <1>6, <1>7, <1>8, <1>9 DEF Next

-----------------------------------------------------------------------------

(* The invariant holds in every state of every behaviour. *)
LEMMA Inductive == Spec => []IInv
<1>1. IInv /\ Next => IInv'
  BY TypePreserved, ControlPreserved, LeasePreserved, ConfigPreserved, GreenPreserved,
     SummaryPreserved DEF IInv
<1>2. IInv /\ UNCHANGED vars => IInv'
  <2> SUFFICES ASSUME IInv, UNCHANGED vars PROVE IInv'
    OBVIOUS
  <2> USE DEF vars, IInv
  <2>1. TypeOK'
    BY DEF TypeOK
  <2>2. ExitIsLast' /\ LeaseInScope' /\ ChildInStep' /\ XmlInStep'
    BY DEF ExitIsLast, LeaseInScope, ChildInStep, XmlInStep
  <2>3. LoadedFirst' /\ ChildReadItsFile'
    BY DEF LoadedFirst, ChildReadItsFile, Choose
  <2>4. GreenIsEarned' /\ NothingLeft'
    BY DEF GreenIsEarned, NothingLeft
  <2>5. SummaryInStep'
    BY DEF SummaryInStep, Streams
  <2> QED
    BY <2>1, <2>2, <2>3, <2>4, <2>5
<1> QED
  BY InitIInv, <1>1, <1>2, PTL DEF Spec

(* Every variable keeps its type; a status is what the operating system    *)
(* can return.                                                             *)
THEOREM TypeCorrect == Spec => []TypeOK
<1>1. IInv => TypeOK
  BY DEF IInv
<1> QED
  BY Inductive, <1>1, PTL

(* An exit status 0 of `mcp-contracts run' is earned by a session that     *)
(* read a config file and ended by itself with success or nothing to run.  *)
THEOREM SuccessIsEarned == Spec => []GreenIsEarned
<1>1. IInv => GreenIsEarned
  BY DEF IInv
<1> QED
  BY Inductive, <1>1, PTL

(* The discovery client is closed before the child starts, so the two      *)
(* servers never run at the same time.                                     *)
THEOREM OneServerAtATime == Spec => []DiscoveryClosedFirst
<1>1. IInv => DiscoveryClosedFirst
  BY DEF IInv, LeaseInScope, ChildInStep, DiscoveryClosedFirst
<1> QED
  BY Inductive, <1>1, PTL

(* A run whose results were read shows exactly one summary, for any set of *)
(* tools and every combination of the flags.                               *)
THEOREM OneSummaryShown == Spec => []OneSummary
<1>1. IInv => OneSummary
  BY FS_Singleton DEF IInv, SummaryInStep, OneSummary
<1> QED
  BY Inductive, <1>1, PTL

(* However the command ends, no client, no child and, unless Ctrl-C came   *)
(* while the child ran, no temporary file is left.                         *)
THEOREM CleanExit == Spec => []NothingLeft
<1>1. IInv => NothingLeft
  BY DEF IInv
<1> QED
  BY Inductive, <1>1, PTL
=============================================================================
