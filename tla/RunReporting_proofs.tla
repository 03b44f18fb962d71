------------------------ MODULE RunReporting_proofs ------------------------
(***************************************************************************)
(* For any items, tools and number of workers: a tool's verdict depends on *)
(* the set of outcomes read for it alone, the command's PASS is earned,    *)
(* and the two readers agree on a session that nothing disturbed.          *)
(***************************************************************************)
EXTENDS RunReporting, TLAPS

Kinds == {"FAIL", "SKIP", "PASS"}

-----------------------------------------------------------------------------
(* The rule both loops apply to one bucket.                                *)

(* A bucket that stands for the kinds K stands for K and one more after    *)
(* absorbing it.                                                           *)
LEMMA AbsorbRule ==
  ASSUME NEW bucket \in Bucket, NEW case, NEW K \in SUBSET Kinds,
         case.kind \in Kinds,
         bucket.verdict = AnyFailWins(K),
         bucket.hasPass = ("PASS" \in K)
  PROVE  /\ Absorb(bucket, case).verdict = AnyFailWins(K \union {case.kind})
         /\ Absorb(bucket, case).hasPass = ("PASS" \in K \union {case.kind})
<1>1. Absorb(bucket, case).verdict =
        IF bucket.verdict = "FAIL" \/ (case.kind = "SKIP" /\ bucket.hasPass)
        THEN bucket.verdict ELSE case.kind
  BY DEF Absorb, Bucket
<1>2. Absorb(bucket, case).hasPass =
        IF case.kind = "PASS" THEN TRUE ELSE bucket.hasPass
  BY DEF Absorb, Bucket
<1>3. (K \union {case.kind} = {"SKIP"}) <=> (K \subseteq {"SKIP"} /\ case.kind = "SKIP")
  OBVIOUS
<1>4. Absorb(bucket, case).verdict = AnyFailWins(K \union {case.kind})
  <2>1. CASE "FAIL" \in K
    BY <1>1, <2>1 DEF AnyFailWins
  <2>2. CASE "FAIL" \notin K /\ "PASS" \in K
    BY <1>1, <2>2 DEF AnyFailWins, Kinds
  <2>3. CASE "FAIL" \notin K /\ "PASS" \notin K
    BY <1>1, <1>3, <2>3 DEF AnyFailWins, Kinds, None
  <2> QED
    BY <2>1, <2>2, <2>3
<1>5. Absorb(bucket, case).hasPass = ("PASS" \in K \union {case.kind})
  <2>1. CASE case.kind = "PASS"
    <3>1. ("PASS" \in K \union {case.kind}) = TRUE
      BY <2>1
    <3> QED
      BY <1>2, <2>1, <3>1
  <2>2. CASE case.kind # "PASS"
    <3>1. ("PASS" \in K \union {case.kind}) = ("PASS" \in K)
      BY <2>2
    <3> QED
      BY <1>2, <2>2, <3>1
  <2> QED
    BY <2>1, <2>2
<1> QED
  BY <1>4, <1>5

(* An absorbed bucket is a bucket. *)
LEMMA AbsorbType ==
  ASSUME NEW bucket \in Bucket, NEW case,
         case.kind \in Kinds, case.message \in SUBSET Message,
         case.reasons \in SUBSET {ReasonOf[t] : t \in Tests}
  PROVE  Absorb(bucket, case) \in Bucket
<1>1. bucket.hasPass \in BOOLEAN
  BY DEF Bucket
<1>2. (IF case.kind = "PASS" THEN TRUE ELSE bucket.hasPass) \in BOOLEAN
  BY <1>1, Zenon
<1>3. Absorb(bucket, case).hasPass \in BOOLEAN
  BY <1>2, Zenon DEF Absorb
<1>4. /\ Absorb(bucket, case).verdict \in {None, "PASS", "FAIL", "SKIP"}
      /\ Absorb(bucket, case).message \in SUBSET Message
      /\ Absorb(bucket, case).reasons \in SUBSET {ReasonOf[t] : t \in Tests}
      /\ Absorb(bucket, case).cases \in Nat
  BY DEF Absorb, Bucket, Kinds
<1>5. \A v, h, m, r, c : [verdict |-> v, hasPass |-> h, message |-> m,
                         reasons |-> r, cases |-> c] \in Bucket
        <=> /\ v \in {None, "PASS", "FAIL", "SKIP"} /\ h \in BOOLEAN
            /\ m \in SUBSET Message /\ c \in Nat
            /\ r \in SUBSET {ReasonOf[t] : t \in Tests}
  BY DEF Bucket
<1> DEFINE b == Absorb(bucket, case)
<1>6. b = [verdict |-> b.verdict, hasPass |-> b.hasPass, message |-> b.message,
           reasons |-> b.reasons, cases |-> b.cases]
  BY DEF Absorb
<1> HIDE DEF b
<1>7. b \in Bucket
  <2>1. b.hasPass \in BOOLEAN
    BY <1>3 DEF b
  <2>2. /\ b.verdict \in {None, "PASS", "FAIL", "SKIP"}
        /\ b.message \in SUBSET Message /\ b.cases \in Nat
        /\ b.reasons \in SUBSET {ReasonOf[t] : t \in Tests}
    BY <1>4 DEF b
  <2>3. [verdict |-> b.verdict, hasPass |-> b.hasPass, message |-> b.message,
         reasons |-> b.reasons, cases |-> b.cases] \in Bucket
    BY ONLY <1>5, <2>1, <2>2
  <2> QED
    BY ONLY <1>6, <2>3
<1> QED
  BY <1>7 DEF b

(* What either loop reads is a case of one of the three kinds. *)
LEMMA CaseType ==
  ASSUME TypeOK
  PROVE  /\ \A t \in Tests :
              /\ LiveCase(t).kind \in Kinds
              /\ LiveCase(t).message \in SUBSET Message
              /\ LiveCase(t).reasons \in SUBSET {ReasonOf[u] : u \in Tests}
         /\ \A e \in TestCase :
              /\ XmlCase(e).kind \in Kinds
              /\ XmlCase(e).message \in SUBSET Message
              /\ XmlCase(e).reasons \in SUBSET {ReasonOf[u] : u \in Tests}
<1>1. ASSUME NEW t \in Tests
      PROVE  /\ LiveCase(t).kind \in Kinds
             /\ LiveCase(t).message \in SUBSET Message
             /\ LiveCase(t).reasons \in SUBSET {ReasonOf[u] : u \in Tests}
  <2>1. FailedPhase(phases[t]) \in Phases
    BY DEF FailedPhase, Phases
  <2>2. \A h \in BOOLEAN :
          LET c == FailCase(t, FailedPhase(phases[t]), h)
          IN  c.kind \in Kinds /\ c.message \in SUBSET Message /\ c.reasons = {}
    BY <2>1 DEF FailCase, Message, Kinds
  <2>3. LET c == SkipCase(ReasonOf[t])
        IN  c.kind \in Kinds /\ c.message = {} /\ c.reasons = {ReasonOf[t]}
    BY DEF SkipCase, Kinds
  <2>4. PassCase.kind \in Kinds /\ PassCase.message = {} /\ PassCase.reasons = {}
    BY DEF PassCase, Kinds
  <2> QED
    BY <2>2, <2>3, <2>4 DEF LiveCase
<1>2. ASSUME NEW e \in TestCase
      PROVE  /\ XmlCase(e).kind \in Kinds
             /\ XmlCase(e).message \in SUBSET Message
             /\ XmlCase(e).reasons \in SUBSET {ReasonOf[u] : u \in Tests}
  <2>1. e.test \in Tests /\ e.hoisted \in BOOLEAN
        /\ e.failure \in {None, "crash"} \union Phases
    BY DEF TestCase
  <2>2. e.failure # None =>
          LET c == FailCase(e.test, e.failure, e.hoisted)
          IN  c.kind \in Kinds /\ c.message \in SUBSET Message /\ c.reasons = {}
    BY <2>1 DEF FailCase, Message, Kinds
  <2>3. LET c == SkipCase(ReasonOf[e.test])
        IN  c.kind \in Kinds /\ c.message = {} /\ c.reasons = {ReasonOf[e.test]}
    BY DEF SkipCase, Kinds
  <2>4. PassCase.kind \in Kinds /\ PassCase.message = {} /\ PassCase.reasons = {}
    BY DEF PassCase, Kinds
  <2> QED
    BY <2>1, <2>2, <2>3, <2>4 DEF XmlCase
<1> QED
  BY <1>1, <1>2

-----------------------------------------------------------------------------
(* The inductive invariant.                                                *)

Fails(e) == e.named /\ e.failure # None
Passes(e) == e.named /\ e.failure = None /\ ~e.skipped

(* Nothing is read while the session runs, and a tool's bucket stands for  *)
(* the kinds read of it.                                                   *)
ReadSoFar ==
  /\ session = "running" => liveAt = 0 /\ xmlAt = 0
  /\ \A tool \in Tools :
       /\ live[tool].hasPass = ("PASS" \in LiveKinds(tool))
       /\ junit[tool].hasPass = ("PASS" \in XmlKinds(tool))

(* How far an item got, and the element open for it. *)
ItemProgress ==
  \A t \in Tests :
    /\ openCase[t] # 0 => xml[openCase[t]].test = t
    /\ status[t] = "todo" =>
         openCase[t] = 0 /\ \A p \in Phases : phases[t][p] = None
    /\ status[t] = "setup" =>
         /\ openCase[t] # 0 /\ phases[t]["setup"] # None
         /\ phases[t]["call"] = None /\ phases[t]["teardown"] = None
    /\ status[t] = "call" =>
         /\ openCase[t] # 0 /\ phases[t]["call"] # None
         /\ phases[t]["teardown"] = None

(* The open element has a child for every setup or call that did not pass. *)
OpenElement ==
  \A t \in Tests : status[t] \in {"setup", "call"} =>
    /\ {phases[t]["setup"], phases[t]["call"]} \intersect Failing # {}
         => xml[openCase[t]].failure # None
    /\ "skipped" \in {phases[t]["setup"], phases[t]["call"]}
         => xml[openCase[t]].skipped

(* No failure is missing from the elements, no pass is invented. *)
FailuresRecorded ==
  \A t \in Tests : status[t] = "crashed" \/ Failed(phases[t]) =>
    \E i \in 1 .. Len(xml) : xml[i].test = t /\ Fails(xml[i])

PassesHappened ==
  \A i \in 1 .. Len(xml) : Passes(xml[i]) =>
    phases[xml[i].test]["call"] = "passed"

IInv == /\ TypeOK /\ OrderIndependent /\ ReadSoFar
        /\ ItemProgress /\ OpenElement /\ FailuresRecorded /\ PassesHappened

-----------------------------------------------------------------------------
(* The JUnit writer's elements.                                            *)

Slot(t) == IF openCase[t] = 0 THEN Len(xml) + 1 ELSE openCase[t]
Current(t) == IF openCase[t] = 0 THEN NewCase(t) ELSE xml[openCase[t]]
AnyOutcome == {"passed", "skipped"} \union Failing

(* What recording a report does to one element. *)
LEMMA RecordedFacts ==
  ASSUME NEW c \in TestCase, NEW phase \in {"crash"} \union Phases,
         NEW outcome \in AnyOutcome
  PROVE  LET r == Recorded(c, phase, outcome)
         IN  /\ r \in TestCase /\ r.test = c.test
             /\ c.failure # None => r.failure # None
             /\ c.skipped => r.skipped
             /\ outcome = "skipped" => r.skipped
             /\ outcome \in Failing => Fails(r)
             /\ Fails(c) => Fails(r)
             /\ Passes(r) => outcome = "passed" /\ ~c.skipped /\ c.failure = None
             /\ Passes(r) /\ phase = "setup" => c.named # FALSE
<1> DEFINE r == Recorded(c, phase, outcome)
<1>1. /\ c.test \in Tests /\ c.failure \in {None, "crash"} \union Phases
      /\ c.named \in BOOLEAN /\ c.skipped \in BOOLEAN /\ c.hoisted \in BOOLEAN
  BY DEF TestCase
<1>2. r.named \in BOOLEAN /\ r.skipped \in BOOLEAN /\ r.hoisted \in BOOLEAN
  BY <1>1, Zenon DEF Recorded
<1>3. r.test = c.test /\ r.failure \in {None, "crash"} \union Phases
  BY <1>1 DEF Recorded
<1>4. r = [test |-> r.test, named |-> r.named, failure |-> r.failure,
           skipped |-> r.skipped, hoisted |-> r.hoisted]
  BY DEF Recorded
<1>5. /\ c.failure # None => r.failure # None
      /\ outcome \in Failing => r.failure # None
      /\ r.failure = None => c.failure = None /\ outcome \notin Failing
  BY DEF Recorded, Failing, None, Phases
<1>6. (c.skipped => r.skipped) /\ (outcome = "skipped" => r.skipped)
  BY <1>1, Zenon DEF Recorded
<1>7. (c.named => r.named) /\ (outcome # "passed" => r.named)
      /\ (r.named /\ phase = "setup" /\ outcome = "passed" => c.named # FALSE)
  BY <1>1, Zenon DEF Recorded
<1>8. outcome \in Failing => outcome # "passed"
  BY DEF Failing
<1> HIDE DEF r
<1>9. r \in TestCase
  BY <1>1, <1>2, <1>3, <1>4 DEF TestCase
<1>10. Passes(r) => outcome = "passed"
  BY <1>5, <1>6 DEF Passes, AnyOutcome
<1> QED
  BY <1>3, <1>5, <1>6, <1>7, <1>8, <1>9, <1>10 DEF r, Fails, Passes

(* Recording a report writes one element and leaves the others alone. *)
LEMMA RecordEffect ==
  ASSUME TypeOK, ItemProgress, NEW t \in Tests,
         NEW phase \in {"crash"} \union Phases, NEW outcome \in AnyOutcome
  PROVE  LET s == Record(t, phase, outcome)
         IN  /\ s \in Seq(TestCase)
             /\ Current(t) \in TestCase /\ Current(t).test = t
             /\ Slot(t) \in 1 .. Len(s)
             /\ s[Slot(t)] = Recorded(Current(t), phase, outcome)
             /\ Len(s) = (IF openCase[t] = 0 THEN Len(xml) + 1 ELSE Len(xml))
             /\ \A i \in 1 .. Len(s) : i # Slot(t) =>
                  i \in 1 .. Len(xml) /\ s[i] = xml[i]
             /\ \A u \in Tests : u # t /\ openCase[u] # 0 =>
                  s[openCase[u]] = xml[openCase[u]]
<1>1. Current(t) \in TestCase /\ Current(t).test = t
  <2>1. NewCase(t) \in TestCase /\ NewCase(t).test = t
    BY DEF NewCase, TestCase
  <2>2. ASSUME openCase[t] # 0
        PROVE  xml[openCase[t]] \in TestCase /\ xml[openCase[t]].test = t
    BY <2>2 DEF TypeOK, ItemProgress
  <2> QED
    BY <2>1, <2>2 DEF Current
<1>2. Recorded(Current(t), phase, outcome) \in TestCase
  BY <1>1, RecordedFacts
<1>3. CASE openCase[t] = 0
  <2>1. \A u \in Tests : openCase[u] \in 0 .. Len(xml)
    BY DEF TypeOK
  <2> QED
    <3>1. Record(t, phase, outcome) = Append(xml, Recorded(Current(t), phase, outcome))
      BY <1>3 DEF Record, Current
    <3>2. xml \in Seq(TestCase) /\ Slot(t) = Len(xml) + 1
      BY <1>3 DEF Slot, TypeOK
    <3> QED
      BY <1>1, <1>2, <1>3, <2>1, <3>1, <3>2
<1>4. CASE openCase[t] # 0
  <2>1. \A u \in Tests : u # t /\ openCase[u] # 0 => openCase[u] # openCase[t]
    BY <1>4 DEF ItemProgress
  <2> QED
    BY <1>1, <1>2, <1>4, <2>1 DEF Record, Slot, Current, TypeOK
<1> QED
  BY <1>3, <1>4

(* What a report of t that is recorded in its element leaves true of all   *)
(* the elements, given what else the step does.                            *)
LEMMA RecordKeeps ==
  ASSUME IInv, NEW t \in Tests,
         NEW phase \in {"crash"} \union Phases, NEW outcome \in AnyOutcome,
         xml' = Record(t, phase, outcome),
         \A u \in Tests : u # t => phases'[u] = phases[u] /\ status'[u] = status[u],
         phases[t]["call"] = "passed" => phases'[t]["call"] = "passed",
         status'[t] = "crashed" \/ Failed(phases'[t])
           => Failed(phases[t]) \/ status[t] = "crashed" \/ outcome \in Failing,
         Passes(Recorded(Current(t), phase, outcome))
           => phases'[t]["call"] = "passed"
  PROVE  FailuresRecorded' /\ PassesHappened'
<1> DEFINE n == Slot(t)
           r == Recorded(Current(t), phase, outcome)
<1>1. /\ xml' \in Seq(TestCase) /\ n \in 1 .. Len(xml') /\ xml'[n] = r
      /\ Current(t) \in TestCase /\ Current(t).test = t
      /\ \A i \in 1 .. Len(xml) : i \in 1 .. Len(xml')
      /\ \A i \in 1 .. Len(xml') : i # n => i \in 1 .. Len(xml) /\ xml'[i] = xml[i]
  <2>1. TypeOK /\ ItemProgress /\ xml \in Seq(TestCase)
    BY DEF IInv, TypeOK
  <2>2. LET s == Record(t, phase, outcome)
        IN  /\ s \in Seq(TestCase)
            /\ Current(t) \in TestCase /\ Current(t).test = t
            /\ Slot(t) \in 1 .. Len(s)
            /\ s[Slot(t)] = Recorded(Current(t), phase, outcome)
            /\ Len(s) = (IF openCase[t] = 0 THEN Len(xml) + 1 ELSE Len(xml))
            /\ \A i \in 1 .. Len(s) : i # Slot(t) =>
                 i \in 1 .. Len(xml) /\ s[i] = xml[i]
            /\ \A u \in Tests : u # t /\ openCase[u] # 0 =>
                 s[openCase[u]] = xml[openCase[u]]
    BY <2>1, RecordEffect
  <2> HIDE DEF n, r
  <2>3. Len(xml') = (IF openCase[t] = 0 THEN Len(xml) + 1 ELSE Len(xml))
    BY <2>2
  <2>4. \A i \in 1 .. Len(xml) : i \in 1 .. Len(xml')
    BY <2>1, <2>3
  <2> QED
    BY <2>2, <2>4 DEF n, r
<1>2. /\ r.test = t
      /\ outcome \in Failing => Fails(r)
      /\ Fails(Current(t)) => Fails(r)
  BY <1>1, RecordedFacts
<1>3. \A i \in 1 .. Len(xml) : i = n => xml[i] = Current(t)
  BY DEF Slot, Current, IInv, TypeOK
<1> HIDE DEF n, r
<1>4. FailuresRecorded'
  <2> SUFFICES ASSUME NEW u \in Tests, status'[u] = "crashed" \/ Failed(phases'[u])
               PROVE  \E i \in 1 .. Len(xml') : xml'[i].test = u /\ Fails(xml'[i])
    BY DEF FailuresRecorded, Fails, Failed
  <2>1. CASE \E i \in 1 .. Len(xml) : xml[i].test = u /\ Fails(xml[i])
    <3>1. PICK i \in 1 .. Len(xml) : xml[i].test = u /\ Fails(xml[i])
      BY <2>1
    <3>2. i # n => xml'[i] = xml[i]
      BY <1>1
    <3>3. i = n => Fails(xml'[i]) /\ xml'[i].test = u
      BY <1>1, <1>2, <1>3, <3>1
    <3> QED
      BY <1>1, <3>1, <3>2, <3>3
  <2>2. CASE ~ \E i \in 1 .. Len(xml) : xml[i].test = u /\ Fails(xml[i])
    <3>1. ~(status[u] = "crashed" \/ Failed(phases[u]))
      BY <2>2 DEF IInv, FailuresRecorded
    <3>2. u = t /\ outcome \in Failing
      BY <3>1
    <3> QED
      BY <1>1, <1>2, <3>2
  <2> QED
    BY <2>1, <2>2
<1>5. PassesHappened'
  <2> SUFFICES ASSUME NEW i \in 1 .. Len(xml'), Passes(xml'[i])
               PROVE  phases'[xml'[i].test]["call"] = "passed"
    BY DEF PassesHappened, Passes
  <2>1. CASE i = n
    BY <1>1, <1>2, <2>1 DEF r
  <2>2. CASE i # n
    <3>1. i \in 1 .. Len(xml) /\ xml'[i] = xml[i]
      BY <1>1, <2>2
    <3>3. xml[i].test \in Tests
      <4>1. xml \in Seq(TestCase)
        BY DEF IInv, TypeOK
      <4>2. xml[i] \in TestCase
        BY <3>1, <4>1
      <4> QED
        BY <4>2 DEF TestCase
    <3>2. phases[xml[i].test]["call"] = "passed"
      BY <3>1 DEF IInv, PassesHappened
    <3> QED
      BY <3>1, <3>2, <3>3
  <2> QED
    BY <2>1, <2>2
<1> QED
  BY <1>4, <1>5

(* A failed call that fails again in teardown closes one element and adds  *)
(* another; both record a failure of t.                                    *)
LEMMA DoubleFailure ==
  ASSUME IInv, NEW t \in Tests, NEW outcome \in Failing, status[t] = "call",
         phases[t]["call"] \in Failing,
         xml' = Append([xml EXCEPT ![openCase[t]] = Hoist(t)],
                       Recorded(NewCase(t), "teardown", outcome)),
         phases' = [phases EXCEPT ![t]["teardown"] = outcome],
         status' = [status EXCEPT ![t] = "teardown"]
  PROVE  /\ xml' \in Seq(TestCase) /\ Len(xml') = Len(xml) + 1
         /\ \A u \in Tests : u # t /\ openCase[u] # 0 =>
              xml'[openCase[u]] = xml[openCase[u]]
         /\ FailuresRecorded' /\ PassesHappened'
<1> DEFINE n == openCase[t]
           r == Recorded(NewCase(t), "teardown", outcome)
<1>1. /\ xml \in Seq(TestCase) /\ n \in 1 .. Len(xml) /\ xml[n] \in TestCase
      /\ xml[n].test = t /\ xml[n].failure # None
  BY DEF IInv, TypeOK, ItemProgress, OpenElement
<1>2. /\ Hoist(t) \in TestCase /\ Hoist(t).test = t /\ Hoist(t).failure # None
      /\ Hoist(t).named = xml[n].named
  BY <1>1 DEF Hoist, TestCase
<1>3. NewCase(t) \in TestCase /\ NewCase(t).test = t
  BY DEF NewCase, TestCase
<1>4. r \in TestCase /\ r.test = t /\ Fails(r)
  BY <1>3, RecordedFacts DEF Failing, AnyOutcome, Phases
<1> HIDE DEF n, r
<1>5. /\ xml' \in Seq(TestCase) /\ Len(xml') = Len(xml) + 1
      /\ xml'[Len(xml) + 1] = r /\ xml'[n] = Hoist(t)
      /\ \A i \in 1 .. Len(xml) : i # n => xml'[i] = xml[i]
  BY <1>1, <1>2, <1>4 DEF n, r
<1>6. \A u \in Tests : u # t /\ openCase[u] # 0 =>
        xml'[openCase[u]] = xml[openCase[u]]
  BY <1>1, <1>5 DEF n, IInv, TypeOK, ItemProgress
<1>7. FailuresRecorded'
  <2> SUFFICES ASSUME NEW u \in Tests, status'[u] = "crashed" \/ Failed(phases'[u])
               PROVE  \E i \in 1 .. Len(xml') : xml'[i].test = u /\ Fails(xml'[i])
    BY DEF FailuresRecorded, Fails, Failed
  <2>1. CASE u = t
    BY <1>1, <1>4, <1>5, <2>1
  <2>2. CASE u # t
    <3>1. status[u] = "crashed" \/ Failed(phases[u])
      BY <2>2 DEF IInv, TypeOK
    <3>2. PICK i \in 1 .. Len(xml) : xml[i].test = u /\ Fails(xml[i])
      BY <3>1 DEF IInv, FailuresRecorded
    <3> QED
      BY <1>1, <1>5, <2>2, <3>2
  <2> QED
    BY <2>1, <2>2
<1>8. PassesHappened'
  <2> SUFFICES ASSUME NEW i \in 1 .. Len(xml'), Passes(xml'[i])
               PROVE  phases'[xml'[i].test]["call"] = "passed"
    BY DEF PassesHappened, Passes
  <2>1. i \in 1 .. Len(xml) /\ i # n
    BY <1>1, <1>2, <1>4, <1>5 DEF Passes, Fails
  <2>2. Passes(xml[i]) /\ xml'[i] = xml[i]
    BY <1>5, <2>1
  <2>3. phases[xml[i].test]["call"] = "passed"
    BY <2>1, <2>2 DEF IInv, PassesHappened
  <2>4. xml[i].test \in Tests
    <3>1. xml[i] \in TestCase
      BY <1>1, <2>1
    <3> QED
      BY <3>1 DEF TestCase
  <2> QED
    BY <2>2, <2>3, <2>4 DEF IInv, TypeOK, Phases
<1> QED
  BY <1>5, <1>6, <1>7, <1>8

-----------------------------------------------------------------------------
(* Every step preserves the invariant.                                     *)

(* The initial states satisfy the invariant. *)
LEMMA InitIInv == Init => IInv
<1> SUFFICES ASSUME Init PROVE IInv
  OBVIOUS
<1>1. NoBucket \in Bucket
  BY DEF NoBucket, Bucket
<1>2. TypeOK
  BY <1>1 DEF Init, TypeOK, Phases
<1>3. \A tool \in Tools : LiveKinds(tool) = {} /\ XmlKinds(tool) = {}
  BY DEF Init, LiveKinds, XmlKinds
<1>4. OrderIndependent /\ ReadSoFar
  <2>1. AnyFailWins({}) = None
    BY DEF AnyFailWins
  <2>2. ("PASS" \in {}) = FALSE
    OBVIOUS
  <2>3. \A tool \in Tools : /\ live[tool] = NoBucket /\ junit[tool] = NoBucket
                            /\ NoBucket.verdict = None /\ NoBucket.hasPass = FALSE
    BY DEF Init, NoBucket
  <2> QED
    BY <1>3, <2>1, <2>2, <2>3 DEF Init, OrderIndependent, ReadSoFar
<1>5. ItemProgress /\ OpenElement
  BY DEF Init, ItemProgress, OpenElement, Phases
<1>6. \A t \in Tests : status[t] # "crashed" /\ ~Failed(phases[t])
  BY DEF Init, Failed, Failing, None
<1>7. FailuresRecorded /\ PassesHappened
  BY <1>6 DEF Init, FailuresRecorded, PassesHappened
<1> QED
  BY <1>2, <1>4, <1>5, <1>7 DEF IInv

(* While the session runs nothing has been read. *)
LEMMA RunningReads ==
  ASSUME IInv, session = "running", UNCHANGED <<session, readVars>>
  PROVE  OrderIndependent' /\ ReadSoFar'
<1>1. liveAt = 0 /\ xmlAt = 0 /\ liveAt' = 0 /\ xmlAt' = 0
  BY DEF IInv, ReadSoFar, readVars
<1>2. \A tool \in Tools : /\ LiveKinds(tool) = {} /\ XmlKinds(tool) = {}
                          /\ LiveKinds(tool)' = {} /\ XmlKinds(tool)' = {}
  BY <1>1 DEF LiveKinds, XmlKinds
<1>3. live' = live /\ junit' = junit
  BY DEF readVars
<1>4. \A tool \in Tools : LiveKinds(tool)' = LiveKinds(tool) /\ XmlKinds(tool)' = XmlKinds(tool)
  BY <1>2
<1>5. OrderIndependent'
  BY <1>3, <1>4 DEF IInv, OrderIndependent
<1>6. \A tool \in Tools :
        /\ live'[tool].hasPass = ("PASS" \in LiveKinds(tool)')
        /\ junit'[tool].hasPass = ("PASS" \in XmlKinds(tool)')
  BY <1>3, <1>4, Zenon DEF IInv, ReadSoFar
<1> QED
  BY <1>1, <1>5, <1>6, Zenon DEF ReadSoFar

(* Every outcome a report can have is one the invariant speaks of. *)
LEMMA OutcomesAny == Outcomes \subseteq AnyOutcome
  BY DEF Outcomes, AnyOutcome, Failing

(* Accumulating a report keeps the types of by_nodeid. *)
LEMMA AccumulateType ==
  ASSUME TypeOK, NEW t \in Tests, NEW phase \in Phases,
         NEW outcome \in AnyOutcome, Accumulate(t, phase, outcome)
  PROVE  /\ phases' \in [Tests -> [Phases -> {None, "passed", "skipped"} \union Failing]]
         /\ order' \in Seq(Tests) /\ Len(order) <= Len(order')
         /\ \A u \in Tests, p \in Phases :
              phases'[u][p] = IF u = t /\ p = phase THEN outcome ELSE phases[u][p]
         /\ \A u \in Tests : u # t => phases'[u] = phases[u]
  BY DEF TypeOK, Accumulate, AnyOutcome

(* A setup report, which opens an element, keeps the invariant. *)
LEMMA SetupPreserves ==
  ASSUME IInv, NEW t \in Tests, NEW outcome \in AnyOutcome, LogSetup(t, outcome)
  PROVE  IInv'
<1> DEFINE r == Recorded(Current(t), "setup", outcome)
<1>1. /\ TypeOK /\ ItemProgress /\ status[t] = "todo" /\ openCase[t] = 0
      /\ \A p \in Phases : phases[t][p] = None
  BY DEF IInv, LogSetup, ItemProgress
<1>2. /\ xml' = Record(t, "setup", outcome) /\ Current(t) = NewCase(t)
      /\ "setup" \in Phases /\ Accumulate(t, "setup", outcome)
  BY <1>1 DEF LogSetup, Current, Phases
<1>3. /\ xml' \in Seq(TestCase) /\ Len(xml') = Len(xml) + 1 /\ xml'[Len(xml')] = r
      /\ Current(t) \in TestCase /\ Current(t).test = t
      /\ \A u \in Tests : u # t /\ openCase[u] # 0 =>
           xml'[openCase[u]] = xml[openCase[u]]
  BY <1>1, <1>2, RecordEffect DEF Slot
<1>4. /\ r.test = t /\ (outcome \in Failing => r.failure # None)
      /\ (outcome = "skipped" => r.skipped) /\ ~Passes(r)
  <2>1. Current(t).named = FALSE
    BY <1>2 DEF NewCase
  <2>2. "setup" \in {"crash"} \union Phases
    BY <1>2
  <2>3. r.test = t /\ (outcome \in Failing => Fails(r))
    BY <1>3, <2>2, RecordedFacts
  <2>4. outcome = "skipped" => r.skipped
    BY <1>3, <2>2, RecordedFacts
  <2>5. ~Passes(r)
    BY <1>3, <2>1, <2>2, RecordedFacts
  <2> QED
    BY <2>3, <2>4, <2>5 DEF Fails
<1> HIDE DEF r
<1>5. /\ \A u \in Tests : status'[u] = IF u = t THEN "setup" ELSE status[u]
      /\ \A u \in Tests : openCase'[u] = IF u = t THEN Len(xml') ELSE openCase[u]
      /\ \A u \in Tests : openCase[u] \in 0 .. Len(xml)
      /\ Len(xml) \in Nat
  BY <1>1 DEF LogSetup, TypeOK
<1>6. TypeOK'
  <2>1. UNCHANGED <<xdist, session, liveAt, xmlAt, live, junit>>
    BY DEF LogSetup, readVars
  <2>2. status' \in [Tests -> {"todo", "crashed"} \union Phases]
    BY <1>1 DEF LogSetup, TypeOK, Phases
  <2>3. openCase' \in [Tests -> 0 .. Len(xml')]
    BY <1>1, <1>3 DEF LogSetup, TypeOK
  <2>4. liveAt' \in 0 .. Len(order') /\ xmlAt' \in 0 .. Len(xml')
    BY <1>1, <1>2, <1>3, <2>1, AccumulateType DEF TypeOK
  <2> QED
    BY <1>1, <1>2, <1>3, <2>1, <2>2, <2>3, <2>4, AccumulateType DEF TypeOK
<1>7. /\ \A u \in Tests, p \in Phases :
           phases'[u][p] = IF u = t /\ p = "setup" THEN outcome ELSE phases[u][p]
      /\ \A u \in Tests : u # t => phases'[u] = phases[u]
  BY <1>1, <1>2, AccumulateType
<1>8. ItemProgress'
  BY <1>1, <1>3, <1>4, <1>5, <1>7 DEF ItemProgress, Phases, AnyOutcome, Failing, None
<1>9. OpenElement'
  BY <1>1, <1>3, <1>4, <1>5, <1>7
     DEF IInv, OpenElement, ItemProgress, Phases, Failing, None
<1>10. FailuresRecorded' /\ PassesHappened'
  <2>1. Failed(phases'[t]) => outcome \in Failing
    BY <1>1, <1>7 DEF Failed, Failing, None
  <2>2. phases[t]["call"] # "passed"
    BY <1>1 DEF Phases, None
  <2> QED
    BY <1>2, <1>4, <1>5, <1>7, <2>1, <2>2, RecordKeeps DEF r
<1> QED
  BY <1>6, <1>8, <1>9, <1>10, RunningReads DEF IInv, LogSetup

(* A call report, recorded in the open element, keeps the invariant. *)
LEMMA CallPreserves ==
  ASSUME IInv, NEW t \in Tests, NEW outcome \in AnyOutcome, LogCall(t, outcome)
  PROVE  IInv'
<1> DEFINE c == Current(t)
           r == Recorded(Current(t), "call", outcome)
<1>1. /\ TypeOK /\ ItemProgress /\ status[t] = "setup" /\ openCase[t] # 0
      /\ phases[t]["setup"] = "passed" /\ phases[t]["call"] = None
      /\ phases[t]["teardown"] = None
  BY DEF IInv, LogCall, ItemProgress
<1>2. /\ xml' = Record(t, "call", outcome) /\ "call" \in Phases
      /\ "call" \in {"crash"} \union Phases /\ Accumulate(t, "call", outcome)
  BY <1>1 DEF LogCall, Phases
<1>3. /\ xml' \in Seq(TestCase) /\ Len(xml') = Len(xml) /\ xml'[openCase[t]] = r
      /\ c \in TestCase /\ c.test = t
      /\ \A u \in Tests : u # t /\ openCase[u] # 0 =>
           xml'[openCase[u]] = xml[openCase[u]]
  BY <1>1, <1>2, RecordEffect DEF Slot
<1>4. /\ r.test = t /\ (outcome \in Failing => r.failure # None)
      /\ (outcome = "skipped" => r.skipped)
      /\ (Passes(r) => outcome = "passed")
  <2>1. r.test = t /\ (outcome \in Failing => Fails(r))
    BY <1>2, <1>3, RecordedFacts
  <2>2. outcome = "skipped" => r.skipped
    BY <1>2, <1>3, RecordedFacts
  <2>3. Passes(r) => outcome = "passed" /\ ~c.skipped /\ c.failure = None
    BY <1>2, <1>3, RecordedFacts
  <2> QED
    BY <2>1, <2>2, <2>3 DEF Fails
<1> HIDE DEF r, c
<1>5. /\ \A u \in Tests : status'[u] = IF u = t THEN "call" ELSE status[u]
      /\ openCase' = openCase
  BY <1>1 DEF LogCall, TypeOK
<1>6. TypeOK'
  <2>1. UNCHANGED <<xdist, session, liveAt, xmlAt, live, junit>>
    BY DEF LogCall, readVars
  <2>2. status' \in [Tests -> {"todo", "crashed"} \union Phases]
    BY <1>1 DEF LogCall, TypeOK, Phases
  <2>3. openCase' \in [Tests -> 0 .. Len(xml')]
    BY <1>1, <1>3, <1>5 DEF TypeOK
  <2>4. liveAt' \in 0 .. Len(order') /\ xmlAt' \in 0 .. Len(xml')
    BY <1>1, <1>2, <1>3, <2>1, AccumulateType DEF TypeOK
  <2> QED
    BY <1>1, <1>2, <1>3, <2>1, <2>2, <2>3, <2>4, AccumulateType DEF TypeOK
<1>7. /\ \A u \in Tests, p \in Phases :
           phases'[u][p] = IF u = t /\ p = "call" THEN outcome ELSE phases[u][p]
      /\ \A u \in Tests : u # t => phases'[u] = phases[u]
  BY <1>1, <1>2, AccumulateType
<1>8. ItemProgress'
  BY <1>1, <1>3, <1>4, <1>5, <1>7 DEF ItemProgress, Phases, AnyOutcome, Failing, None
<1>9. OpenElement'
  BY <1>1, <1>3, <1>4, <1>5, <1>7
     DEF IInv, OpenElement, ItemProgress, Phases, Failing, None
<1>10. FailuresRecorded' /\ PassesHappened'
  <2>1. Failed(phases'[t]) => outcome \in Failing
    BY <1>1, <1>7 DEF Failed, Failing, None, Phases
  <2>2. phases[t]["call"] # "passed" /\ phases'[t]["call"] = outcome
    BY <1>1, <1>2, <1>7 DEF None
  <2> QED
    BY <1>2, <1>4, <1>5, <1>7, <2>1, <2>2, RecordKeeps DEF r
<1> QED
  BY <1>6, <1>8, <1>9, <1>10, RunningReads DEF IInv, LogCall

(* A teardown report closes the element, and opens a second one when call   *)
(* and teardown both failed; either way it keeps the invariant.            *)
LEMMA TeardownPreserves ==
  ASSUME IInv, NEW t \in Tests, NEW outcome \in AnyOutcome \ {"skipped"},
         LogTeardown(t, outcome)
  PROVE  IInv'
<1> DEFINE c == Current(t)
           r == Recorded(Current(t), "teardown", outcome)
           twice == outcome \in Failing /\ phases[t]["call"] \in Failing
<1>1. /\ TypeOK /\ ItemProgress /\ openCase[t] # 0 /\ phases[t]["teardown"] = None
      /\ \/ status[t] = "call" /\ phases[t]["call"] # None
         \/ /\ status[t] = "setup" /\ phases[t]["call"] = None
            /\ phases[t]["setup"] \in Failing \union {"skipped"}
  BY DEF IInv, LogTeardown, ItemProgress, TypeOK, Phases
<1>2. /\ "teardown" \in Phases /\ "teardown" \in {"crash"} \union Phases
      /\ Accumulate(t, "teardown", outcome)
      /\ phases' = [phases EXCEPT ![t]["teardown"] = outcome]
      /\ status' = [status EXCEPT ![t] = "teardown"]
  BY DEF LogTeardown, Accumulate, Phases
<1>3. /\ \A u \in Tests : status'[u] = IF u = t THEN "teardown" ELSE status[u]
      /\ \A u \in Tests : openCase'[u] = IF u = t THEN 0 ELSE openCase[u]
      /\ \A u \in Tests : openCase[u] \in 0 .. Len(xml)
      /\ \A u \in Tests, p \in Phases :
           phases'[u][p] = IF u = t /\ p = "teardown" THEN outcome ELSE phases[u][p]
      /\ \A u \in Tests : u # t => phases'[u] = phases[u]
  <2>1. \A u \in Tests : openCase'[u] = IF u = t THEN 0 ELSE openCase[u]
    BY <1>1 DEF LogTeardown, TypeOK
  <2> QED
    BY <1>1, <1>2, <2>1, AccumulateType DEF TypeOK
<1>4. /\ xml' \in Seq(TestCase) /\ Len(xml) <= Len(xml')
      /\ \A u \in Tests : u # t /\ openCase[u] # 0 =>
           xml'[openCase[u]] = xml[openCase[u]]
      /\ FailuresRecorded' /\ PassesHappened'
  <2>1. CASE twice
    <3>1. /\ status[t] = "call" /\ outcome \in Failing /\ phases[t]["call"] \in Failing
          /\ xml' = Append([xml EXCEPT ![openCase[t]] = Hoist(t)],
                           Recorded(NewCase(t), "teardown", outcome))
      BY <1>1, <2>1 DEF LogTeardown, Failing, None
    <3>2. xml \in Seq(TestCase) /\ Len(xml) \in Nat
      BY <1>1 DEF TypeOK
    <3>3. /\ xml' \in Seq(TestCase) /\ Len(xml') = Len(xml) + 1
          /\ \A u \in Tests : u # t /\ openCase[u] # 0 =>
               xml'[openCase[u]] = xml[openCase[u]]
          /\ FailuresRecorded' /\ PassesHappened'
      BY <1>2, <3>1, DoubleFailure
    <3> QED
      BY <3>2, <3>3
  <2>2. CASE ~twice
    <3>1. xml' = Record(t, "teardown", outcome)
      BY <2>2 DEF LogTeardown
    <3>2. /\ xml' \in Seq(TestCase) /\ Len(xml') = Len(xml)
          /\ c \in TestCase /\ c = xml[openCase[t]]
          /\ \A u \in Tests : u # t /\ openCase[u] # 0 =>
               xml'[openCase[u]] = xml[openCase[u]]
      BY <1>1, <1>2, <3>1, RecordEffect DEF Current
    <3>3. Passes(r) => outcome = "passed" /\ ~c.skipped /\ c.failure = None
      BY <1>2, <3>2, RecordedFacts
    <3>4. Passes(r) => phases[t]["call"] = "passed"
      BY <1>1, <3>2, <3>3, ZenonT(30) DEF IInv, OpenElement, TypeOK, Phases, Failing
    <3>5. Failed(phases'[t]) => Failed(phases[t]) \/ outcome \in Failing
      BY <1>3 DEF Failed
    <3>6. phases'[t]["call"] = phases[t]["call"] /\ status'[t] # "crashed"
      BY <1>3 DEF Phases
    <3>7. FailuresRecorded' /\ PassesHappened'
      BY <1>2, <1>3, <3>1, <3>4, <3>5, <3>6, RecordKeeps DEF r
    <3> QED
      BY <1>1, <3>2, <3>7 DEF TypeOK
  <2> QED
    BY <2>1, <2>2
<1>5. TypeOK'
  <2>1. UNCHANGED <<xdist, session, liveAt, xmlAt, live, junit>>
    BY DEF LogTeardown, readVars
  <2>2. status' \in [Tests -> {"todo", "crashed"} \union Phases]
    BY <1>1, <1>2 DEF TypeOK, Phases
  <2>3. openCase' \in [Tests -> 0 .. Len(xml')]
    BY <1>1, <1>4 DEF LogTeardown, TypeOK
  <2>4. liveAt' \in 0 .. Len(order') /\ xmlAt' \in 0 .. Len(xml')
    BY <1>1, <1>2, <1>4, <2>1, AccumulateType DEF TypeOK
  <2> QED
    BY <1>1, <1>2, <1>4, <2>1, <2>2, <2>3, <2>4, AccumulateType DEF TypeOK
<1>6. ItemProgress'
  BY <1>1, <1>3, <1>4 DEF ItemProgress, Phases
<1>7. OpenElement'
  BY <1>1, <1>3, <1>4 DEF IInv, OpenElement, ItemProgress, Phases
<1> QED
  BY <1>4, <1>5, <1>6, <1>7, RunningReads DEF IInv, LogTeardown

(* A crash report, which only the XML takes in, keeps the invariant. *)
LEMMA CrashPreserves ==
  ASSUME IInv, NEW t \in Tests, WorkerCrash(t)
  PROVE  IInv'
<1> DEFINE r == Recorded(Current(t), "crash", "failed")
<1>1. /\ TypeOK /\ ItemProgress /\ "failed" \in AnyOutcome /\ "failed" \in Failing
      /\ xml' = Record(t, "crash", "failed") /\ phases' = phases /\ order' = order
  BY DEF IInv, WorkerCrash, AnyOutcome, Failing
<1>2. /\ xml' \in Seq(TestCase) /\ xml'[Slot(t)] = r /\ Slot(t) \in 1 .. Len(xml')
      /\ Len(xml') = (IF openCase[t] = 0 THEN Len(xml) + 1 ELSE Len(xml))
      /\ Current(t) \in TestCase /\ Current(t).test = t
      /\ \A u \in Tests : u # t /\ openCase[u] # 0 =>
           xml'[openCase[u]] = xml[openCase[u]]
  BY <1>1, RecordEffect
<1>3. r.test = t /\ ~Passes(r)
  <2>1. r.test = t
    BY <1>1, <1>2, RecordedFacts
  <2>2. Passes(r) => /\ "failed" = "passed" /\ ~Current(t).skipped
                     /\ Current(t).failure = None
    BY <1>1, <1>2, RecordedFacts
  <2> QED
    BY <2>1, <2>2
<1> HIDE DEF r
<1>4. /\ \A u \in Tests : status'[u] = IF u = t THEN "crashed" ELSE status[u]
      /\ \A u \in Tests : openCase'[u] = IF u = t THEN Slot(t) ELSE openCase[u]
      /\ openCase' \in [Tests -> 0 .. Len(xml')]
      /\ \A u \in Tests : openCase[u] \in 0 .. Len(xml)
  <2>1. openCase' = [openCase EXCEPT ![t] = Slot(t)]
    BY <1>1, <1>2 DEF WorkerCrash, Slot, TypeOK
  <2>2. xml \in Seq(TestCase) /\ Len(xml) \in Nat
    BY <1>1 DEF TypeOK
  <2> QED
    BY <1>1, <1>2, <2>1, <2>2 DEF WorkerCrash, TypeOK
<1>5. TypeOK'
  <2>1. UNCHANGED <<xdist, session, liveAt, xmlAt, live, junit>>
    BY DEF WorkerCrash, readVars
  <2>2. status' \in [Tests -> {"todo", "crashed"} \union Phases]
    BY <1>1 DEF WorkerCrash, TypeOK
  <2>3. xmlAt' \in 0 .. Len(xml')
    BY <1>1, <1>2, <2>1 DEF TypeOK
  <2> QED
    BY <1>1, <1>2, <1>4, <2>1, <2>2, <2>3 DEF TypeOK
<1>6. ItemProgress'
  BY <1>1, <1>2, <1>3, <1>4 DEF ItemProgress
<1>7. OpenElement'
  BY <1>1, <1>2, <1>4 DEF IInv, OpenElement, ItemProgress
<1>8. FailuresRecorded' /\ PassesHappened'
  BY <1>1, <1>3, <1>4, RecordKeeps DEF r
<1> QED
  BY <1>5, <1>6, <1>7, <1>8, RunningReads DEF IInv, WorkerCrash

(* The kinds read of a tool are kinds. *)
LEMMA KindsRead ==
  ASSUME TypeOK, NEW tool
  PROVE  LiveKinds(tool) \subseteq Kinds /\ XmlKinds(tool) \subseteq Kinds
<1>1. \A i \in 1 .. liveAt : order[i] \in Tests
  BY DEF TypeOK
<1>2. \A i \in 1 .. xmlAt : xml[i] \in TestCase
  BY DEF TypeOK
<1> QED
  BY <1>1, <1>2, CaseType DEF LiveKinds, XmlKinds

(* One step of the live loop keeps the invariant. *)
LEMMA ReportReadPreserves ==
  ASSUME IInv, AggregateReports
  PROVE  IInv'
<1> DEFINE t == order[liveAt + 1]
           k == LiveCase(t).kind
<1>1. /\ TypeOK /\ t \in Tests /\ ToolOf[t] \in Tools /\ liveAt \in Nat
      /\ liveAt + 1 \in 0 .. Len(order)
  BY ToolOfAssumption DEF IInv, TypeOK, AggregateReports
<1>2. /\ session' = session /\ session = "ended" /\ xdist' = xdist
      /\ status' = status /\ order' = order /\ phases' = phases /\ xml' = xml
      /\ openCase' = openCase /\ xmlAt' = xmlAt /\ junit' = junit
      /\ liveAt' = liveAt + 1
  BY DEF AggregateReports, logVars
<1>3. live' = [live EXCEPT ![ToolOf[t]] = Absorb(live[ToolOf[t]], LiveCase(t))]
  BY DEF AggregateReports
<1>4. /\ k \in Kinds /\ LiveCase(t).message \in SUBSET Message
      /\ LiveCase(t).reasons \in SUBSET {ReasonOf[u] : u \in Tests}
  BY <1>1, CaseType
<1>5. \A tool : XmlKinds(tool)' = XmlKinds(tool)
  BY <1>2 DEF XmlKinds
<1>6. \A tool \in Tools : LiveKinds(tool)' =
        IF tool = ToolOf[t] THEN LiveKinds(tool) \union {k} ELSE LiveKinds(tool)
  <2>1. \A x : LiveCase(x)' = LiveCase(x)
    BY <1>2 DEF LiveCase
  <2>2. 1 .. liveAt' = (1 .. liveAt) \union {liveAt + 1}
    BY <1>1, <1>2
  <2> QED
    BY <1>2, <2>1, <2>2 DEF LiveKinds
<1>7. \A tool \in Tools : live[tool] \in Bucket
  BY <1>1 DEF TypeOK
<1>8. live' \in [Tools -> Bucket]
  <2>1. Absorb(live[ToolOf[t]], LiveCase(t)) \in Bucket
    BY <1>1, <1>4, <1>7, AbsorbType
  <2> HIDE DEF t
  <2> QED
    BY <1>1, <1>3, <2>1 DEF TypeOK
<1>9. TypeOK'
  BY <1>1, <1>2, <1>8 DEF TypeOK
<1>10. \A tool \in Tools :
         /\ live'[tool].verdict = AnyFailWins(LiveKinds(tool)')
         /\ live'[tool].hasPass = ("PASS" \in LiveKinds(tool)')
  <2> SUFFICES ASSUME NEW tool \in Tools
               PROVE  /\ live'[tool].verdict = AnyFailWins(LiveKinds(tool)')
                      /\ live'[tool].hasPass = ("PASS" \in LiveKinds(tool)')
    OBVIOUS
  <2>1. /\ live[tool].verdict = AnyFailWins(LiveKinds(tool))
        /\ live[tool].hasPass = ("PASS" \in LiveKinds(tool))
        /\ LiveKinds(tool) \in SUBSET Kinds
    BY <1>1, KindsRead DEF IInv, OrderIndependent, ReadSoFar
  <2>2. CASE tool = ToolOf[t]
    <3>1. live'[tool] = Absorb(live[tool], LiveCase(t))
      BY <1>1, <1>3, <2>2 DEF TypeOK
    <3>2. LiveKinds(tool)' = LiveKinds(tool) \union {k}
      BY <1>6, <2>2
    <3> QED
      BY <1>4, <1>7, <2>1, <3>1, <3>2, AbsorbRule
  <2>3. CASE tool # ToolOf[t]
    <3>1. live'[tool] = live[tool]
      BY <1>1, <1>3, <2>3 DEF TypeOK
    <3>2. LiveKinds(tool)' = LiveKinds(tool)
      BY <1>6, <2>3
    <3> QED
      BY <2>1, <3>1, <3>2
  <2> QED
    BY <2>2, <2>3
<1>11. OrderIndependent' /\ ReadSoFar'
  BY <1>2, <1>5, <1>10 DEF IInv, OrderIndependent, ReadSoFar
<1>12. ItemProgress' /\ OpenElement' /\ FailuresRecorded' /\ PassesHappened'
  BY <1>2 DEF IInv, ItemProgress, OpenElement, FailuresRecorded, PassesHappened,
              Failed
<1> QED
  BY <1>9, <1>11, <1>12 DEF IInv

(* One step of the XML loop keeps the invariant. *)
LEMMA XmlReadPreserves ==
  ASSUME IInv, AggregateXml
  PROVE  IInv'
<1> DEFINE e == xml[xmlAt + 1]
           k == XmlCase(e).kind
<1>1. /\ TypeOK /\ e \in TestCase /\ ToolOf[e.test] \in Tools /\ xmlAt \in Nat
      /\ xmlAt + 1 \in 0 .. Len(xml)
  <2>1. TypeOK /\ e \in TestCase /\ xmlAt \in Nat /\ xmlAt + 1 \in 0 .. Len(xml)
    BY DEF IInv, TypeOK, AggregateXml
  <2>2. e.test \in Tests
    BY <2>1 DEF TestCase
  <2> QED
    BY <2>1, <2>2, ToolOfAssumption
<1>2. /\ session' = session /\ session = "ended" /\ xdist' = xdist
      /\ status' = status /\ order' = order /\ phases' = phases /\ xml' = xml
      /\ openCase' = openCase /\ liveAt' = liveAt /\ live' = live
      /\ xmlAt' = xmlAt + 1
  BY DEF AggregateXml, logVars
<1>3. junit' = IF e.named
               THEN [junit EXCEPT ![ToolOf[e.test]] =
                       Absorb(junit[ToolOf[e.test]], XmlCase(e))]
               ELSE junit
  BY DEF AggregateXml
<1>4. /\ k \in Kinds /\ XmlCase(e).message \in SUBSET Message
      /\ XmlCase(e).reasons \in SUBSET {ReasonOf[u] : u \in Tests}
  BY <1>1, CaseType
<1>5. \A tool : LiveKinds(tool)' = LiveKinds(tool)
  <2>1. \A x : LiveCase(x)' = LiveCase(x)
    BY <1>2 DEF LiveCase
  <2> QED
    BY <1>2, <2>1 DEF LiveKinds
<1>6. \A tool \in Tools : XmlKinds(tool)' =
        IF e.named /\ tool = ToolOf[e.test] THEN XmlKinds(tool) \union {k}
                                           ELSE XmlKinds(tool)
  <2>1. 1 .. xmlAt' = (1 .. xmlAt) \union {xmlAt + 1}
    BY <1>1, <1>2
  <2> QED
    BY <1>2, <2>1 DEF XmlKinds
<1>7. \A tool \in Tools : junit[tool] \in Bucket
  BY <1>1 DEF TypeOK
<1>8. junit' \in [Tools -> Bucket]
  <2>1. Absorb(junit[ToolOf[e.test]], XmlCase(e)) \in Bucket
    BY <1>1, <1>4, <1>7, AbsorbType
  <2> HIDE DEF e
  <2> QED
    BY <1>1, <1>3, <2>1 DEF TypeOK
<1>9. TypeOK'
  BY <1>1, <1>2, <1>8 DEF TypeOK
<1>10. \A tool \in Tools :
         /\ junit'[tool].verdict = AnyFailWins(XmlKinds(tool)')
         /\ junit'[tool].hasPass = ("PASS" \in XmlKinds(tool)')
  <2> SUFFICES ASSUME NEW tool \in Tools
               PROVE  /\ junit'[tool].verdict = AnyFailWins(XmlKinds(tool)')
                      /\ junit'[tool].hasPass = ("PASS" \in XmlKinds(tool)')
    OBVIOUS
  <2>1. /\ junit[tool].verdict = AnyFailWins(XmlKinds(tool))
        /\ junit[tool].hasPass = ("PASS" \in XmlKinds(tool))
        /\ XmlKinds(tool) \in SUBSET Kinds
    BY <1>1, KindsRead DEF IInv, OrderIndependent, ReadSoFar
  <2>2. CASE e.named /\ tool = ToolOf[e.test]
    <3>1. junit'[tool] = Absorb(junit[tool], XmlCase(e))
      BY <1>1, <1>3, <2>2 DEF TypeOK
    <3>2. XmlKinds(tool)' = XmlKinds(tool) \union {k}
      BY <1>6, <2>2
    <3> QED
      BY <1>4, <1>7, <2>1, <3>1, <3>2, AbsorbRule
  <2>3. CASE ~(e.named /\ tool = ToolOf[e.test])
    <3>1. junit'[tool] = junit[tool]
      BY <1>1, <1>3, <2>3 DEF TypeOK
    <3>2. XmlKinds(tool)' = XmlKinds(tool)
      BY <1>6, <2>3
    <3> QED
      BY <2>1, <3>1, <3>2
  <2> QED
    BY <2>2, <2>3
<1>11. OrderIndependent' /\ ReadSoFar'
  BY <1>2, <1>5, <1>10 DEF IInv, OrderIndependent, ReadSoFar
<1>12. ItemProgress' /\ OpenElement' /\ FailuresRecorded' /\ PassesHappened'
  BY <1>2 DEF IInv, ItemProgress, OpenElement, FailuresRecorded, PassesHappened,
              Failed
<1> QED
  BY <1>9, <1>11, <1>12 DEF IInv

(* A step that leaves what was logged and read alone, Ctrl-C included. *)
LEMMA SessionEndPreserves ==
  ASSUME IInv, session' \in {session, "ended"}, UNCHANGED <<xdist, logVars, readVars>>
  PROVE  IInv'
<1>1. /\ xdist' = xdist /\ status' = status /\ order' = order /\ phases' = phases
      /\ xml' = xml /\ openCase' = openCase /\ liveAt' = liveAt /\ live' = live
      /\ xmlAt' = xmlAt /\ junit' = junit
  BY DEF logVars, readVars
<1>2. TypeOK'
  BY <1>1 DEF IInv, TypeOK
<1>3. \A tool : LiveKinds(tool)' = LiveKinds(tool) /\ XmlKinds(tool)' = XmlKinds(tool)
  <2>1. \A x : LiveCase(x)' = LiveCase(x)
    BY <1>1 DEF LiveCase
  <2> QED
    BY <1>1, <2>1 DEF LiveKinds, XmlKinds
<1>4. OrderIndependent' /\ ReadSoFar'
  BY <1>1, <1>3 DEF IInv, OrderIndependent, ReadSoFar
<1>5. ItemProgress' /\ OpenElement' /\ FailuresRecorded' /\ PassesHappened'
  BY <1>1 DEF IInv, ItemProgress, OpenElement, FailuresRecorded, PassesHappened,
              Failed
<1> QED
  BY <1>2, <1>4, <1>5 DEF IInv

(* Every step keeps the invariant. *)
LEMMA NextIInv == IInv /\ [Next]_vars => IInv'
<1> SUFFICES ASSUME IInv, [Next]_vars PROVE IInv'
  OBVIOUS
<1>1. ASSUME NEW t \in Tests, NEW outcome \in Outcomes, LogSetup(t, outcome)
      PROVE  IInv'
  BY <1>1, SetupPreserves, OutcomesAny
<1>2. ASSUME NEW t \in Tests, NEW outcome \in Outcomes, LogCall(t, outcome)
      PROVE  IInv'
  BY <1>2, CallPreserves, OutcomesAny
<1>3. ASSUME NEW t \in Tests, NEW outcome \in Outcomes \ {"skipped"},
             LogTeardown(t, outcome)
      PROVE  IInv'
  BY <1>3, TeardownPreserves, OutcomesAny
<1>4. ASSUME NEW t \in Tests, WorkerCrash(t)
      PROVE  IInv'
  BY <1>4, CrashPreserves
<1>5. CASE Interrupt \/ Finish \/ Done \/ UNCHANGED vars
  BY <1>5, SessionEndPreserves DEF Interrupt, Finish, Done, vars
<1>6. CASE AggregateReports \/ AggregateXml
  BY <1>6, ReportReadPreserves, XmlReadPreserves
<1> QED
  BY <1>1, <1>2, <1>3, <1>4, <1>5, <1>6 DEF Next

(* The invariant holds in every state of every session. *)
THEOREM Invariance == Spec => []IInv
  BY InitIInv, NextIInv, PTL DEF Spec

(* Every variable keeps its type. *)
THEOREM TypeCorrect == Spec => []TypeOK
  BY Invariance, PTL DEF IInv

(* Either reader's verdict of a tool is a function of the set of outcomes  *)
(* it has read of that tool, in whatever order they came.                  *)
THEOREM VerdictOrderIndependent == Spec => []OrderIndependent
  BY Invariance, PTL DEF IInv

(* The command reports PASS for a tool only if one of its items passed and *)
(* nothing of any of them failed, whatever was interrupted or crashed.     *)
THEOREM PassEarned == Spec => []PassIsEarned
<1>1. IInv => PassIsEarned
  <2> SUFFICES ASSUME IInv, Reported, NEW tool \in Tools, junit[tool].verdict = "PASS"
               PROVE  LET own == {t \in Tests : ToolOf[t] = tool}
                      IN  /\ \E t \in own : phases[t]["call"] = "passed"
                          /\ \A t \in own : /\ status[t] # "crashed"
                                            /\ \A p \in Phases :
                                                 phases[t][p] \notin Failing
    BY DEF PassIsEarned
  <2> DEFINE mine == {j \in 1 .. xmlAt : xml[j].named /\ ToolOf[xml[j].test] = tool}
  <2>1. TypeOK /\ xmlAt = Len(xml) /\ \A i \in 1 .. Len(xml) : xml[i] \in TestCase
    BY DEF IInv, TypeOK, Reported
  <2>2. XmlKinds(tool) = {XmlCase(xml[i]).kind : i \in mine}
    BY DEF XmlKinds
  <2>3. "PASS" \in XmlKinds(tool) /\ "FAIL" \notin XmlKinds(tool)
    BY KindsRead DEF IInv, OrderIndependent, AnyFailWins, None, Kinds
  <2>4. \E t \in Tests : ToolOf[t] = tool /\ phases[t]["call"] = "passed"
    <3>1. PICK i \in mine : XmlCase(xml[i]).kind = "PASS"
      BY <2>2, <2>3
    <3>2. Passes(xml[i])
      BY <3>1 DEF XmlCase, FailCase, SkipCase, Passes
    <3>3. xml[i].test \in Tests
      BY <2>1, <3>1 DEF TestCase
    <3> QED
      BY <2>1, <3>1, <3>2, <3>3 DEF IInv, PassesHappened
  <2>5. ASSUME NEW t \in Tests, ToolOf[t] = tool
        PROVE  status[t] # "crashed" /\ ~Failed(phases[t])
    <3> SUFFICES ASSUME status[t] = "crashed" \/ Failed(phases[t]) PROVE FALSE
      OBVIOUS
    <3>1. PICK i \in 1 .. Len(xml) : xml[i].test = t /\ Fails(xml[i])
      BY DEF IInv, FailuresRecorded
    <3>2. i \in mine /\ XmlCase(xml[i]).kind = "FAIL"
      BY <2>1, <2>5, <3>1 DEF Fails, XmlCase, FailCase
    <3> QED
      BY <2>2, <2>3, <3>2
  <2> QED
    BY <2>4, <2>5 DEF Failed
<1> QED
  BY <1>1, Invariance, PTL

-----------------------------------------------------------------------------
(* The two readers agree.  An item and its elements stand in the same      *)
(* place of both sequences and tell the same of it, and of what a loop     *)
(* read the first failure speaks.                                          *)

(* An element of t that tells what its reports p tell, once it has got so far. *)
Tells(e, t, p, reached) ==
  /\ e.test = t
  /\ e.failure = IF Failed(p) THEN FailedPhase(p) ELSE None
  /\ e.skipped = Skipped(p)
  /\ reached \in {"call", "teardown"} => e.named

Mirrors(e, t) == Tells(e, t, phases[t], status[t])

(* The first element of an item mirrors it, and there is another one only  *)
(* for a failed item that failed again in teardown.                        *)
Mirrored(t) ==
  status[t] \in Phases =>
    /\ status[t] \in {"setup", "call"} =>
         \A l \in 1 .. Len(xml) : xml[l].test = t => l = openCase[t]
    /\ \A l \in 1 .. Len(xml) : xml[l].test = t =>
         \E k \in 1 .. l :
           /\ Mirrors(xml[k], t)
           /\ k # l => xml[l].failure # None /\ Failed(phases[t])

(* Items without a report are nowhere; the others have their elements in   *)
(* the order in which the reporter met them.                               *)
InOrder ==
  /\ \A l \in 1 .. Len(xml) : status[xml[l].test] # "todo"
  /\ \A t \in Tests : status[t] \in Phases => \E i \in 1 .. Len(order) : order[i] = t
  /\ \A i \in 1 .. Len(order) : /\ status[order[i]] # "todo"
                                /\ \E k \in 1 .. Len(xml) : xml[k].test = order[i]
  /\ \A i, j \in 1 .. Len(order), l \in 1 .. Len(xml) :
       i < j /\ xml[l].test = order[j] => \E k \in 1 .. Len(xml) : k < l /\ xml[k].test = order[i]

(* What a bucket keeps of the cases mine, read up to the n-th: all their   *)
(* reasons, and the message of the first failed one.                       *)
Folded(bucket, cases, mine, n) ==
  /\ bucket.reasons = UNION {cases[i].reasons : i \in {j \in 1 .. n : j \in mine}}
  /\ bucket.message = {} => \A i \in 1 .. n : i \in mine => cases[i].message = {}
  /\ bucket.message # {} =>
       \E i \in 1 .. n : /\ i \in mine /\ bucket.message = cases[i].message
                         /\ \A j \in 1 .. n : j < i /\ j \in mine => cases[j].message = {}

LiveCases == [i \in 1 .. Len(order) |-> LiveCase(order[i])]
XmlCases == [i \in 1 .. Len(xml) |-> XmlCase(xml[i])]
LiveOf(tool) == {i \in 1 .. Len(order) : ToolOf[order[i]] = tool}
XmlOf(tool) == {i \in 1 .. Len(xml) : xml[i].named /\ ToolOf[xml[i].test] = tool}

ReadInOrder ==
  \A tool \in Tools : /\ Folded(live[tool], LiveCases, LiveOf(tool), liveAt)
                      /\ Folded(junit[tool], XmlCases, XmlOf(tool), xmlAt)

AllMirrored == \A t \in Tests : Mirrored(t)
AInv == IInv /\ AllMirrored /\ InOrder /\ ReadInOrder

-----------------------------------------------------------------------------
(* A report changes what is recorded of its own item.                      *)

Touched(t) ==
  /\ xml' \in Seq(TestCase) /\ Len(xml) <= Len(xml')
  /\ \A i \in 1 .. Len(xml) : /\ xml'[i].test = xml[i].test
                              /\ xml[i].test # t => xml'[i] = xml[i]
  /\ \A i \in 1 .. Len(xml') : i \notin 1 .. Len(xml) => xml'[i].test = t

(* So does recording a report in its element. *)
LEMMA RecordTouches ==
  ASSUME TypeOK, ItemProgress, NEW t \in Tests,
         NEW phase \in {"crash"} \union Phases, NEW outcome \in AnyOutcome,
         xml' = Record(t, phase, outcome)
  PROVE  /\ Touched(t)
         /\ xml'[Slot(t)] = Recorded(Current(t), phase, outcome)
         /\ Slot(t) \in 1 .. Len(xml')
         /\ Len(xml') = IF openCase[t] = 0 THEN Len(xml) + 1 ELSE Len(xml)
<1>1. /\ xml' \in Seq(TestCase)
      /\ Current(t) \in TestCase /\ Current(t).test = t
      /\ Slot(t) \in 1 .. Len(xml')
      /\ xml'[Slot(t)] = Recorded(Current(t), phase, outcome)
      /\ Len(xml') = (IF openCase[t] = 0 THEN Len(xml) + 1 ELSE Len(xml))
      /\ \A i \in 1 .. Len(xml') : i # Slot(t) => i \in 1 .. Len(xml) /\ xml'[i] = xml[i]
  BY RecordEffect
<1>2. xml'[Slot(t)].test = t
  BY <1>1 DEF Recorded
<1>3. Slot(t) \in 1 .. Len(xml) => xml[Slot(t)].test = t
  BY DEF Slot, TypeOK, ItemProgress
<1>4. Len(xml) \in Nat
  BY DEF TypeOK
<1> QED
  BY <1>1, <1>2, <1>3, <1>4 DEF Touched

(* Nothing changes for the other items. *)
LEMMA OthersMirrored ==
  ASSUME TypeOK, NEW t \in Tests, Touched(t),
         NEW u \in Tests, u # t, Mirrored(u), phases'[u] = phases[u],
         status'[u] = status[u], openCase'[u] = openCase[u]
  PROVE  Mirrored(u)'
<1> SUFFICES ASSUME status[u] \in Phases
             PROVE  /\ status[u] \in {"setup", "call"} =>
                         \A l \in 1 .. Len(xml') : xml'[l].test = u => l = openCase[u]
                    /\ \A l \in 1 .. Len(xml') : xml'[l].test = u =>
                         \E k \in 1 .. l :
                           /\ Mirrors(xml[k], u) /\ xml'[k] = xml[k]
                           /\ k # l => xml'[l].failure # None /\ Failed(phases[u])
  BY DEF Mirrored, Mirrors
<1>1. \A l \in 1 .. Len(xml') : xml'[l].test = u =>
        l \in 1 .. Len(xml) /\ xml[l].test = u /\ xml'[l] = xml[l]
  BY DEF Touched
<1>2. Len(xml) \in Nat
  BY DEF TypeOK
<1>3. ASSUME NEW l \in 1 .. Len(xml'), xml'[l].test = u
      PROVE  \E k \in 1 .. l :
               /\ Mirrors(xml[k], u) /\ xml'[k] = xml[k]
               /\ k # l => xml'[l].failure # None /\ Failed(phases[u])
  <2>1. l \in 1 .. Len(xml) /\ xml[l].test = u /\ xml'[l] = xml[l]
    BY <1>1, <1>3
  <2>2. PICK k \in 1 .. l : /\ Mirrors(xml[k], u)
                            /\ k # l => xml[l].failure # None /\ Failed(phases[u])
    BY <2>1 DEF Mirrored
  <2>3. k \in 1 .. Len(xml) /\ xml[k].test = u
    BY <1>2, <2>1, <2>2 DEF Mirrors, Tells
  <2>4. xml'[k] = xml[k]
    BY <2>3 DEF Touched
  <2> QED
    BY <2>1, <2>2, <2>4
<1> QED
  BY <1>1, <1>3 DEF Mirrored

(* A report of an item the reporter has, whatever it does to its elements. *)
LEMMA InOrderKept ==
  ASSUME TypeOK, InOrder, NEW t \in Tests, Touched(t), order' = order,
         Len(xml') = Len(xml) \/ \A i \in 1 .. Len(order) : order[i] # t
                              \/ \E k \in 1 .. Len(xml) : xml[k].test = t,
         \A u \in Tests : u # t => status'[u] = status[u],
         status'[t] # "todo",
         status'[t] \in Phases => status[t] \in Phases
  PROVE  InOrder'
<1>1. /\ Len(xml) \in Nat /\ Len(xml') \in Nat /\ Len(xml) <= Len(xml')
      /\ \A l \in 1 .. Len(xml') : xml'[l].test \in Tests
  <2>1. \A l \in 1 .. Len(xml') : xml'[l] \in TestCase
    BY DEF Touched
  <2>2. \A l \in 1 .. Len(xml') : xml'[l].test \in Tests
    BY <2>1 DEF TestCase
  <2>3. Len(xml) \in Nat /\ Len(xml') \in Nat /\ Len(xml) <= Len(xml')
    BY DEF TypeOK, Touched
  <2> QED
    BY <2>2, <2>3
<1>2. \A l \in 1 .. Len(xml') : status'[xml'[l].test] # "todo"
  BY <1>1 DEF InOrder, Touched
<1>3. \A u \in Tests : status'[u] \in Phases => \E i \in 1 .. Len(order) : order[i] = u
  BY DEF InOrder
<1>4. \A i \in 1 .. Len(order) : /\ status'[order[i]] # "todo"
                                 /\ \E k \in 1 .. Len(xml') : xml'[k].test = order[i]
  <2>1. \A i \in 1 .. Len(order) : order[i] \in Tests
    BY DEF TypeOK
  <2> SUFFICES ASSUME NEW i \in 1 .. Len(order)
               PROVE  /\ status'[order[i]] # "todo"
                      /\ \E k \in 1 .. Len(xml') : xml'[k].test = order[i]
    OBVIOUS
  <2>2. PICK k \in 1 .. Len(xml) : xml[k].test = order[i]
    BY DEF InOrder
  <2>3. k \in 1 .. Len(xml') /\ xml'[k].test = order[i]
    BY <1>1, <2>2 DEF Touched
  <2>4. status'[order[i]] # "todo"
    BY <2>1 DEF InOrder
  <2> QED
    BY <2>3, <2>4
<1>5. ASSUME NEW i \in 1 .. Len(order), NEW j \in 1 .. Len(order), NEW l \in 1 .. Len(xml'),
             i < j, xml'[l].test = order[j]
      PROVE  \E k \in 1 .. Len(xml') : k < l /\ xml'[k].test = order[i]
  <2>1. \E m \in 1 .. Len(xml) : m <= l /\ xml[m].test = order[j]
    <3>1. CASE l \in 1 .. Len(xml)
      BY <1>5, <3>1 DEF Touched
    <3>2. CASE l \notin 1 .. Len(xml)
      <4>1. xml'[l].test = t /\ Len(xml') # Len(xml)
        BY <3>2 DEF Touched
      <4>2. PICK m \in 1 .. Len(xml) : xml[m].test = t
        BY <1>5, <4>1
      <4>3. m <= l
        BY <1>1, <3>2
      <4> QED
        BY <1>5, <4>1, <4>2, <4>3
    <3> QED
      BY <3>1, <3>2
  <2>2. PICK m \in 1 .. Len(xml) : m <= l /\ xml[m].test = order[j]
    BY <2>1
  <2>3. PICK k \in 1 .. Len(xml) : k < m /\ xml[k].test = order[i]
    BY <1>5, <2>2 DEF InOrder
  <2> QED
    BY <1>1, <2>2, <2>3 DEF Touched
<1> QED
  BY <1>2, <1>3, <1>4, <1>5 DEF InOrder

(* The first report of an item appends it to both sequences. *)
LEMMA SetupAgrees ==
  ASSUME IInv, AllMirrored, InOrder, NEW t \in Tests, NEW outcome \in AnyOutcome,
         LogSetup(t, outcome)
  PROVE  AllMirrored' /\ InOrder'
<1> DEFINE r == Recorded(NewCase(t), "setup", outcome)
<1> PICK n : n = Len(xml) + 1
  OBVIOUS
<1>1. /\ TypeOK /\ ItemProgress /\ status[t] = "todo" /\ openCase[t] = 0
      /\ \A p \in Phases : phases[t][p] = None
      /\ Len(xml) \in Nat /\ Len(order) \in Nat /\ order \in Seq(Tests)
  BY DEF IInv, TypeOK, LogSetup, ItemProgress
<1>2. xml' = Record(t, "setup", outcome) /\ Accumulate(t, "setup", outcome)
      /\ "setup" \in Phases
  BY DEF LogSetup, Phases
<1>3. Touched(t) /\ Len(xml') = n /\ xml'[n] = r /\ n \in 1 .. Len(xml')
  BY <1>1, <1>2, RecordTouches DEF Slot, Current
<1>4. /\ \A u \in Tests : u # t => /\ status'[u] = status[u] /\ openCase'[u] = openCase[u]
                                   /\ phases'[u] = phases[u]
      /\ status'[t] = "setup" /\ openCase'[t] = n
      /\ \A p \in Phases : phases'[t][p] = IF p = "setup" THEN outcome ELSE None
  BY <1>1, <1>2, <1>3, AccumulateType DEF LogSetup, TypeOK
<1>5. \A l \in 1 .. Len(xml') : xml'[l].test = t => l = n
  BY <1>1, <1>3 DEF InOrder, Touched
<1>6. Tells(r, t, phases'[t], "setup")
  <2>1. Failed(phases'[t]) <=> outcome \in Failing
    BY <1>4 DEF Failed, Phases, Failing, None
  <2>2. outcome \in Failing => FailedPhase(phases'[t]) = "setup"
    BY <1>4 DEF FailedPhase, Phases, Failing, None
  <2>3. Skipped(phases'[t]) <=> outcome = "skipped"
    BY <1>4 DEF Skipped, Phases, None
  <2>4. /\ r.test = t /\ r.failure = IF outcome \in Failing THEN "setup" ELSE None
        /\ r.skipped = IF outcome = "skipped" THEN TRUE ELSE FALSE
    BY DEF Recorded, NewCase
  <2>5. Skipped(phases'[t]) \in BOOLEAN
    BY DEF Skipped
  <2>6. r.skipped = Skipped(phases'[t])
    BY <2>3, <2>4, <2>5
  <2>7. r.failure = IF Failed(phases'[t]) THEN FailedPhase(phases'[t]) ELSE None
    BY <2>1, <2>2, <2>4
  <2> HIDE DEF r
  <2> QED
    BY <2>4, <2>6, <2>7 DEF Tells
<1> HIDE DEF r
<1>7. Mirrored(t)'
  <2>1. Mirrors(xml[n], t)'
    BY <1>3, <1>4, <1>6 DEF Mirrors
  <2>2. \A l \in 1 .. Len(xml') : xml'[l].test = t => l = n /\ l = openCase'[t]
    BY <1>4, <1>5
  <2> QED
    BY <1>3, <2>1, <2>2 DEF Mirrored
<1>8. \A u \in Tests : u # t => Mirrored(u)'
  BY <1>1, <1>3, <1>4, OthersMirrored DEF AllMirrored
<1>9. order' = Append(order, t)
  <2>1. ~ \E i \in DOMAIN order : order[i] = t
    BY <1>1, DOMAIN order = 1 .. Len(order) DEF InOrder
  <2> QED
    BY <1>2, <2>1 DEF Accumulate
<1>10. /\ Len(order') = Len(order) + 1 /\ order'[Len(order) + 1] = t
       /\ \A i \in 1 .. Len(order) : order'[i] = order[i] /\ order[i] \in Tests /\ order[i] # t
  BY <1>1, <1>9 DEF InOrder
<1>11. InOrder'
  <2>1. \A l \in 1 .. Len(xml') : status'[xml'[l].test] # "todo"
    <3>1. \A l \in 1 .. Len(xml') : xml'[l].test \in Tests
      <4>1. \A l \in 1 .. Len(xml') : xml'[l] \in TestCase
        BY <1>3 DEF Touched
      <4> QED
        BY <4>1 DEF TestCase
    <3>2. \A l \in 1 .. Len(xml') : xml'[l].test # t => l \in 1 .. Len(xml) /\ xml'[l] = xml[l]
      BY <1>3 DEF Touched
    <3> QED
      BY <1>4, <3>1, <3>2 DEF InOrder
  <2>2. \A u \in Tests : status'[u] \in Phases => \E i \in 1 .. Len(order') : order'[i] = u
    BY <1>1, <1>4, <1>10 DEF InOrder
  <2>3. \A i \in 1 .. Len(order') : /\ status'[order'[i]] # "todo"
                                    /\ \E k \in 1 .. Len(xml') : xml'[k].test = order'[i]
    <3>1. xml'[n].test = t
      BY <1>3, <1>6 DEF Tells
    <3>2. \A k \in 1 .. Len(xml) : k \in 1 .. Len(xml') /\ xml'[k].test = xml[k].test
      BY <1>1, <1>3 DEF Touched
    <3> SUFFICES ASSUME NEW i \in 1 .. Len(order')
                 PROVE  /\ status'[order'[i]] # "todo"
                        /\ \E k \in 1 .. Len(xml') : xml'[k].test = order'[i]
      OBVIOUS
    <3>3. CASE i \in 1 .. Len(order)
      <4>1. status[order[i]] # "todo" /\ \E k \in 1 .. Len(xml) : xml[k].test = order[i]
        BY <3>3 DEF InOrder
      <4>2. order'[i] = order[i] /\ status'[order[i]] = status[order[i]]
        BY <1>4, <1>10, <3>3
      <4> QED
        BY <3>2, <4>1, <4>2
    <3>4. CASE i = Len(order) + 1
      BY <1>3, <1>4, <1>10, <3>1, <3>4
    <3> QED
      BY <1>1, <1>10, <3>3, <3>4
  <2>4. ASSUME NEW i \in 1 .. Len(order'), NEW j \in 1 .. Len(order'),
               NEW l \in 1 .. Len(xml'), i < j, xml'[l].test = order'[j]
        PROVE  \E k \in 1 .. Len(xml') : k < l /\ xml'[k].test = order'[i]
    <3>1. i \in 1 .. Len(order)
      BY <1>1, <1>10, <2>4
    <3>2. CASE j = Len(order) + 1
      <4>1. l = n
        BY <1>5, <1>10, <2>4, <3>2
      <4>2. PICK k \in 1 .. Len(xml) : xml[k].test = order[i]
        BY <3>1 DEF InOrder
      <4> QED
        BY <1>1, <1>3, <1>10, <3>1, <4>1, <4>2 DEF Touched
    <3>3. CASE j \in 1 .. Len(order)
      <4>1. l \in 1 .. Len(xml) /\ xml[l].test = order[j]
        BY <1>3, <1>10, <2>4, <3>3 DEF Touched
      <4>2. PICK k \in 1 .. Len(xml) : k < l /\ xml[k].test = order[i]
        BY <2>4, <3>1, <3>3, <4>1 DEF InOrder
      <4> QED
        BY <1>1, <1>3, <1>10, <3>1, <4>2 DEF Touched
    <3> QED
      BY <1>1, <1>10, <3>2, <3>3
  <2> QED
    BY <2>1, <2>2, <2>3, <2>4 DEF InOrder
<1> QED
  BY <1>7, <1>8, <1>11 DEF AllMirrored

(* The element that is open mirrors what was reported. *)
LEMMA OpenMirrors ==
  ASSUME TypeOK, ItemProgress, NEW t \in Tests, Mirrored(t),
         status[t] \in {"setup", "call"}
  PROVE  /\ openCase[t] \in 1 .. Len(xml) /\ Tells(xml[openCase[t]], t, phases[t], status[t])
         /\ \A l \in 1 .. Len(xml) : xml[l].test = t => l = openCase[t]
<1>1. /\ openCase[t] \in 1 .. Len(xml) /\ xml[openCase[t]].test = t
      /\ "setup" \in Phases /\ "call" \in Phases
  BY DEF TypeOK, ItemProgress, Phases
<1>2. \A l \in 1 .. Len(xml) : xml[l].test = t => l = openCase[t]
  BY <1>1 DEF Mirrored
<1>3. PICK k \in 1 .. openCase[t] : Mirrors(xml[k], t)
  BY <1>1 DEF Mirrored
<1>4. k = openCase[t]
  <2>1. k \in 1 .. Len(xml) /\ xml[k].test = t
    BY <1>1, <1>3 DEF Mirrors, Tells
  <2> QED
    BY <1>2, <2>1
<1> QED
  BY <1>1, <1>2, <1>3, <1>4 DEF Mirrors

(* One more report, recorded in the open element. *)
LEMMA RecordedTells ==
  ASSUME NEW t \in Tests, NEW e, NEW p, NEW q, NEW phase \in {"call", "teardown"},
         NEW outcome \in AnyOutcome, NEW reached, Tells(e, t, p, reached),
         p \in [Phases -> {None} \union AnyOutcome], p[phase] = None, p["teardown"] = None,
         q = [p EXCEPT ![phase] = outcome],
         phase = "call" => p["setup"] = "passed",
         phase = "teardown" => outcome # "skipped" /\ ~(outcome \in Failing /\ p["call"] \in Failing)
  PROVE  Tells(Recorded(e, phase, outcome), t, q, phase)
<1> DEFINE r == Recorded(e, phase, outcome)
<1>1. /\ e.test = t /\ e.skipped = Skipped(p)
      /\ e.failure = IF Failed(p) THEN FailedPhase(p) ELSE None
  BY DEF Tells
<1>2. /\ "setup" \in Phases /\ "call" \in Phases /\ "teardown" \in Phases
      /\ None \notin Phases /\ None \notin Failing /\ "passed" \notin Failing
      /\ "skipped" \notin Failing /\ "skipped" # None /\ Phases = {"setup", "call", "teardown"}
  BY DEF Phases, None, Failing
<1>3. \A x \in Phases : q[x] = IF x = phase THEN outcome ELSE p[x]
  BY <1>2
<1>4. /\ r.test = t /\ r.named = TRUE
      /\ r.failure = IF e.failure = None /\ outcome \in Failing THEN phase ELSE e.failure
      /\ r.skipped = IF outcome = "skipped" THEN TRUE ELSE e.skipped
  BY <1>1 DEF Recorded
<1> HIDE DEF r
<1>5. Failed(q) <=> Failed(p) \/ outcome \in Failing
  BY <1>2, <1>3 DEF Failed
<1>6. r.failure = IF Failed(q) THEN FailedPhase(q) ELSE None
  <2>1. FailedPhase(p) # None
    BY <1>2 DEF FailedPhase
  <2>2. CASE phase = "call"
    <3>1. ~Failed(p)
      BY <1>2, <2>2 DEF Failed
    <3>2. e.failure = None
      BY <1>1, <3>1
    <3>3. outcome \in Failing => FailedPhase(q) = "call"
      BY <1>2, <1>3, <2>2 DEF FailedPhase
    <3> QED
      BY <1>4, <1>5, <2>2, <3>1, <3>2, <3>3
  <2>3. CASE phase = "teardown" /\ Failed(p)
    <3>1. FailedPhase(q) = FailedPhase(p)
      BY <1>2, <1>3, <2>3 DEF FailedPhase, Failed
    <3> QED
      BY <1>1, <1>4, <1>5, <2>1, <2>3, <3>1
  <2>4. CASE phase = "teardown" /\ ~Failed(p)
    <3>1. outcome \in Failing => FailedPhase(q) = "teardown"
      BY <1>2, <1>3, <2>4 DEF FailedPhase, Failed
    <3> QED
      BY <1>1, <1>4, <1>5, <2>4, <3>1
  <2> QED
    BY <2>2, <2>3, <2>4
<1>7. r.skipped = Skipped(q)
  <2>1. Skipped(q) \in BOOLEAN /\ Skipped(p) \in BOOLEAN
    BY DEF Skipped
  <2>2. Skipped(q) <=> Skipped(p) \/ outcome = "skipped"
    BY <1>2, <1>3 DEF Skipped
  <2>3. CASE outcome = "skipped"
    BY <1>4, <2>1, <2>2, <2>3
  <2>4. CASE outcome # "skipped"
    BY <1>1, <1>4, <2>1, <2>2, <2>4
  <2> QED
    BY <2>3, <2>4
<1> QED
  BY <1>4, <1>6, <1>7 DEF Tells, r

(* A further report of an item finds it among the items. *)
LEMMA AccumulateAgain ==
  ASSUME TypeOK, InOrder, NEW t \in Tests, status[t] \in Phases, NEW phase \in Phases,
         NEW outcome \in AnyOutcome, Accumulate(t, phase, outcome)
  PROVE  /\ order' = order /\ \E k \in 1 .. Len(xml) : xml[k].test = t
         /\ phases'[t] = [phases[t] EXCEPT ![phase] = outcome]
         /\ phases[t] \in [Phases -> {None} \union AnyOutcome]
         /\ \A u \in Tests : u # t => phases'[u] = phases[u]
<1>1. PICK i \in 1 .. Len(order) : order[i] = t
  BY DEF InOrder
<1>2. DOMAIN order = 1 .. Len(order)
  BY DEF TypeOK
<1>3. order' = order
  BY <1>1, <1>2 DEF Accumulate
<1>4. \E k \in 1 .. Len(xml) : xml[k].test = t
  BY <1>1 DEF InOrder
<1>5. phases' = [phases EXCEPT ![t][phase] = outcome]
  BY DEF Accumulate
<1> QED
  BY <1>3, <1>4, <1>5 DEF TypeOK, AnyOutcome

(* A call report is told by the open element. *)
LEMMA CallAgrees ==
  ASSUME IInv, AllMirrored, InOrder, NEW t \in Tests, NEW outcome \in AnyOutcome,
         LogCall(t, outcome)
  PROVE  AllMirrored' /\ InOrder'
<1> PICK n : n = openCase[t]
  OBVIOUS
<1>1. /\ TypeOK /\ ItemProgress /\ status[t] = "setup" /\ phases[t]["setup"] = "passed"
      /\ phases[t]["call"] = None /\ phases[t]["teardown"] = None
      /\ "call" \in Phases /\ "setup" \in Phases /\ Len(xml) \in Nat
      /\ xml' = Record(t, "call", outcome) /\ Accumulate(t, "call", outcome)
  BY DEF IInv, TypeOK, LogCall, ItemProgress, Phases
<1>2. /\ n \in 1 .. Len(xml) /\ Tells(xml[n], t, phases[t], "setup")
      /\ \A l \in 1 .. Len(xml) : xml[l].test = t => l = n
  BY <1>1, OpenMirrors DEF AllMirrored
<1>3. /\ Touched(t) /\ Len(xml') = Len(xml)
      /\ xml'[n] = Recorded(xml[n], "call", outcome)
  <2>1. openCase[t] # 0
    BY <1>2
  <2> QED
    BY <1>1, <2>1, RecordTouches DEF Slot, Current
<1>4. /\ order' = order /\ phases'[t] = [phases[t] EXCEPT !["call"] = outcome]
      /\ phases[t] \in [Phases -> {None} \union AnyOutcome]
      /\ \A u \in Tests : u # t => phases'[u] = phases[u]
  BY <1>1, AccumulateAgain
<1>5. /\ status'[t] = "call" /\ openCase' = openCase
      /\ \A u \in Tests : u # t => status'[u] = status[u]
  BY <1>1 DEF LogCall, TypeOK
<1>6. Tells(xml'[n], t, phases'[t], "call")
  <2> DEFINE p == phases[t]
             q == phases'[t]
             e == xml[n]
  <2>1. /\ Tells(e, t, p, "setup") /\ p \in [Phases -> {None} \union AnyOutcome]
        /\ q = [p EXCEPT !["call"] = outcome] /\ p["call"] = None /\ p["teardown"] = None
        /\ p["setup"] = "passed" /\ xml'[n] = Recorded(e, "call", outcome)
    BY <1>1, <1>2, <1>3, <1>4
  <2> HIDE DEF p, q, e
  <2>2. Tells(Recorded(e, "call", outcome), t, q, "call")
    BY <2>1, RecordedTells
  <2> QED
    BY <2>1, <2>2 DEF q
<1>7. Mirrored(t)'
  <2>1. Mirrors(xml[n], t)'
    BY <1>5, <1>6 DEF Mirrors
  <2>2. \A l \in 1 .. Len(xml') : xml'[l].test = t => l = n /\ l = openCase'[t]
    BY <1>2, <1>3, <1>5 DEF Touched
  <2> QED
    BY <1>1, <2>1, <2>2 DEF Mirrored
<1>8. \A u \in Tests : u # t => Mirrored(u)'
  BY <1>1, <1>3, <1>4, <1>5, OthersMirrored DEF AllMirrored
<1>9. InOrder'
  BY <1>1, <1>3, <1>4, <1>5, InOrderKept
<1> QED
  BY <1>7, <1>8, <1>9 DEF AllMirrored

(* A teardown report is told by the open element, or by a second one of an *)
(* item that failed before.                                                *)
LEMMA TeardownAgrees ==
  ASSUME IInv, AllMirrored, InOrder, NEW t \in Tests, NEW outcome \in AnyOutcome \ {"skipped"},
         LogTeardown(t, outcome)
  PROVE  AllMirrored' /\ InOrder'
<1> PICK n : n = openCase[t]
  OBVIOUS
<1>1. /\ TypeOK /\ ItemProgress /\ status[t] \in {"setup", "call"} /\ status[t] \in Phases
      /\ phases[t]["teardown"] = None /\ "teardown" \in Phases /\ "call" \in Phases
      /\ Len(xml) \in Nat /\ Accumulate(t, "teardown", outcome)
  BY DEF IInv, TypeOK, LogTeardown, ItemProgress, Phases
<1>2. /\ n \in 1 .. Len(xml) /\ Tells(xml[n], t, phases[t], status[t])
      /\ \A l \in 1 .. Len(xml) : xml[l].test = t => l = n
  BY <1>1, OpenMirrors DEF AllMirrored
<1>3. /\ order' = order /\ phases'[t] = [phases[t] EXCEPT !["teardown"] = outcome]
      /\ phases[t] \in [Phases -> {None} \union AnyOutcome]
      /\ \A u \in Tests : u # t => phases'[u] = phases[u]
      /\ \E k \in 1 .. Len(xml) : xml[k].test = t
  BY <1>1, AccumulateAgain
<1>4. /\ status'[t] = "teardown"
      /\ \A u \in Tests : u # t => status'[u] = status[u] /\ openCase'[u] = openCase[u]
  BY <1>1 DEF LogTeardown, TypeOK
<1> DEFINE twice == outcome \in Failing /\ phases[t]["call"] \in Failing
<1>5. CASE ~twice
  <2>1. xml' = Record(t, "teardown", outcome)
    BY <1>5 DEF LogTeardown
  <2>2. /\ Touched(t) /\ Len(xml') = Len(xml)
        /\ xml'[n] = Recorded(xml[n], "teardown", outcome)
    <3>1. openCase[t] # 0
      BY <1>2
    <3> QED
      BY <1>1, <2>1, <3>1, RecordTouches DEF Slot, Current
  <2>3. Tells(xml'[n], t, phases'[t], "teardown")
    <3> DEFINE p == phases[t]
               q == phases'[t]
               e == xml[n]
               s == status[t]
    <3>1. /\ Tells(e, t, p, s) /\ p \in [Phases -> {None} \union AnyOutcome]
          /\ q = [p EXCEPT !["teardown"] = outcome] /\ p["teardown"] = None
          /\ outcome # "skipped" /\ ~(outcome \in Failing /\ p["call"] \in Failing)
          /\ xml'[n] = Recorded(e, "teardown", outcome)
      BY <1>1, <1>2, <1>3, <1>5, <2>2
    <3> HIDE DEF p, q, e, s
    <3>2. Tells(Recorded(e, "teardown", outcome), t, q, "teardown")
      BY <3>1, RecordedTells
    <3> QED
      BY <3>1, <3>2 DEF q
  <2>4. Mirrored(t)'
    <3>1. Mirrors(xml[n], t)'
      BY <1>4, <2>3 DEF Mirrors
    <3>2. \A l \in 1 .. Len(xml') : xml'[l].test = t => l = n
      BY <1>2, <2>2 DEF Touched
    <3> QED
      BY <1>2, <1>4, <3>1, <3>2 DEF Mirrored
  <2>5. \A u \in Tests : u # t => Mirrored(u)'
    BY <1>1, <1>3, <1>4, <2>2, OthersMirrored DEF AllMirrored
  <2>6. InOrder'
    BY <1>1, <1>3, <1>4, <2>2, InOrderKept
  <2> QED
    BY <2>4, <2>5, <2>6 DEF AllMirrored
<1>6. CASE twice
  <2> PICK m : m = Len(xml) + 1
    OBVIOUS
  <2> DEFINE r == Recorded(NewCase(t), "teardown", outcome)
  <2>1. xml' = Append([xml EXCEPT ![n] = Hoist(t)], r)
    BY <1>6 DEF LogTeardown
  <2>2. xml[n] \in TestCase /\ xml[n].test = t /\ xml \in Seq(TestCase)
    BY <1>1, <1>2 DEF TypeOK, Tells
  <2>3. /\ Hoist(t) \in TestCase /\ Hoist(t).test = t /\ Hoist(t).failure = xml[n].failure
        /\ Hoist(t).skipped = xml[n].skipped /\ Hoist(t).named = xml[n].named
    BY <2>2 DEF Hoist, TestCase
  <2>4. r \in TestCase /\ r.test = t /\ r.failure = "teardown"
    <3>1. NewCase(t) \in TestCase /\ NewCase(t).test = t /\ NewCase(t).failure = None
      BY DEF NewCase, TestCase
    <3>2. r.failure = "teardown"
      BY <1>6, <3>1 DEF Recorded
    <3> QED
      <4>1. outcome \in AnyOutcome /\ "teardown" \in {"crash"} \union Phases
        BY <1>1
      <4>2. r \in TestCase /\ r.test = NewCase(t).test
        BY <3>1, <4>1, RecordedFacts
      <4> QED
        BY <3>1, <3>2, <4>2
  <2> HIDE DEF r
  <2>5. /\ xml' \in Seq(TestCase) /\ Len(xml') = m /\ m \in 1 .. Len(xml')
        /\ xml'[m] = r /\ xml'[n] = Hoist(t)
        /\ \A i \in 1 .. Len(xml) : i # n => xml'[i] = xml[i]
        /\ \A i \in 1 .. Len(xml') : i \in 1 .. Len(xml) \/ i = m
    BY <1>1, <1>2, <2>1, <2>2, <2>3, <2>4
  <2>6. Touched(t)
    BY <1>1, <2>2, <2>3, <2>4, <2>5 DEF Touched
  <2>7. Failed(phases[t]) /\ Failed(phases'[t]) /\ FailedPhase(phases'[t]) = FailedPhase(phases[t])
        /\ Skipped(phases'[t]) = Skipped(phases[t])
    <3>1. /\ phases'[t]["call"] = phases[t]["call"] /\ phases'[t]["setup"] = phases[t]["setup"]
      BY <1>3 DEF Phases
    <3> QED
      BY <1>1, <1>6, <3>1 DEF Failed, FailedPhase, Skipped
  <2>8. status[t] = "call"
    BY <1>1, <1>6 DEF ItemProgress, Failing, None
  <2>9. Tells(xml'[n], t, phases'[t], "teardown")
    BY <1>2, <2>3, <2>5, <2>7, <2>8 DEF Tells
  <2>10. Mirrored(t)'
    <3>1. Mirrors(xml[n], t)'
      BY <1>4, <2>9 DEF Mirrors
    <3>2. \A l \in 1 .. Len(xml') : xml'[l].test = t => l = n \/ l = m
      BY <1>2, <2>5
    <3>3. xml'[m].failure # None /\ n \in 1 .. m
      BY <1>1, <1>2, <2>4, <2>5 DEF None
    <3> QED
      BY <1>2, <1>4, <2>7, <3>1, <3>2, <3>3 DEF Mirrored
  <2>11. \A u \in Tests : u # t => Mirrored(u)'
    BY <1>1, <1>3, <1>4, <2>6, OthersMirrored DEF AllMirrored
  <2>12. InOrder'
    BY <1>1, <1>3, <1>4, <2>6, InOrderKept
  <2> QED
    BY <2>10, <2>11, <2>12 DEF AllMirrored
<1> QED
  BY <1>5, <1>6

(* A crash is no report of a phase: the item drops out. *)
LEMMA CrashAgrees ==
  ASSUME IInv, AllMirrored, InOrder, NEW t \in Tests, WorkerCrash(t)
  PROVE  AllMirrored' /\ InOrder'
<1>1. /\ TypeOK /\ ItemProgress /\ xml' = Record(t, "crash", "failed")
      /\ "failed" \in AnyOutcome /\ order' = order /\ phases' = phases
  BY DEF IInv, WorkerCrash, AnyOutcome, Failing
<1>2. /\ Touched(t) /\ Len(xml') = IF openCase[t] = 0 THEN Len(xml) + 1 ELSE Len(xml)
  BY <1>1, RecordTouches
<1>3. /\ status'[t] = "crashed" /\ "crashed" \notin Phases
      /\ \A u \in Tests : u # t => status'[u] = status[u] /\ openCase'[u] = openCase[u]
  BY <1>1 DEF WorkerCrash, TypeOK, Phases
<1>4. Mirrored(t)'
  BY <1>3 DEF Mirrored
<1>5. \A u \in Tests : u # t => Mirrored(u)'
  BY <1>1, <1>2, <1>3, OthersMirrored DEF AllMirrored
<1>6. InOrder'
  <2>1. CASE status[t] = "todo"
    <3>1. \A i \in 1 .. Len(order) : order[i] # t
      BY <2>1 DEF InOrder
    <3> QED
      BY <1>1, <1>2, <1>3, <3>1, InOrderKept
  <2>2. CASE status[t] # "todo"
    <3>1. openCase[t] # 0
      BY <1>1, <2>2 DEF WorkerCrash, ItemProgress
    <3> QED
      BY <1>1, <1>2, <1>3, <3>1, InOrderKept
  <2> QED
    BY <2>1, <2>2
<1> QED
  BY <1>4, <1>5, <1>6 DEF AllMirrored

-----------------------------------------------------------------------------
(* The loops keep what Folded says.                                        *)

(* Before anything is read a bucket keeps nothing. *)
LEMMA NothingFolded ==
  ASSUME NEW bucket, NEW cases, NEW mine
  PROVE  Folded(bucket, cases, mine, 0) <=> bucket.reasons = {} /\ bucket.message = {}
<1>1. 1 .. 0 = {}
  OBVIOUS
<1>2. {j \in 1 .. 0 : j \in mine} = {}
  BY <1>1
<1>3. UNION {cases[i].reasons : i \in {j \in 1 .. 0 : j \in mine}} = {}
  BY <1>2
<1> QED
  BY <1>1, <1>3 DEF Folded

(* Absorbing the next case of the tool. *)
LEMMA FoldedStep ==
  ASSUME NEW bucket, NEW cases, NEW mine, NEW n \in Nat,
         Folded(bucket, cases, mine, n), n + 1 \in mine
  PROVE  Folded(Absorb(bucket, cases[n + 1]), cases, mine, n + 1)
<1> DEFINE b == Absorb(bucket, cases[n + 1])
           c == cases[n + 1]
<1>1. /\ b.message = IF bucket.message = {} THEN c.message ELSE bucket.message
      /\ b.reasons = bucket.reasons \union c.reasons
  BY DEF Absorb
<1>2. 1 .. n + 1 = (1 .. n) \union {n + 1}
  OBVIOUS
<1>3. {j \in 1 .. n + 1 : j \in mine} = {j \in 1 .. n : j \in mine} \union {n + 1}
  BY <1>2
<1> HIDE DEF b
<1>4. b.reasons = UNION {cases[i].reasons : i \in {j \in 1 .. n + 1 : j \in mine}}
  <2> DEFINE R == {j \in 1 .. n : j \in mine}
             S == {j \in 1 .. n + 1 : j \in mine}
             A == UNION {cases[i].reasons : i \in S}
             B == UNION {cases[i].reasons : i \in R}
  <2>1. bucket.reasons = B
    BY DEF Folded
  <2>2. S = R \union {n + 1}
    BY <1>3
  <2> HIDE DEF R, S
  <2>3. \A r : r \in A <=> \E i \in S : r \in cases[i].reasons
    OBVIOUS
  <2>4. \A r : r \in B <=> \E i \in R : r \in cases[i].reasons
    OBVIOUS
  <2> HIDE DEF A, B
  <2>5. \A r : r \in A <=> r \in B \/ r \in cases[n + 1].reasons
    BY <2>2, <2>3, <2>4
  <2>6. b.reasons = A
    BY <1>1, <2>1, <2>5
  <2> QED
    BY <2>6 DEF A, S
<1>5. b.message = {} => \A i \in 1 .. n + 1 : i \in mine => cases[i].message = {}
  BY <1>1, <1>2 DEF Folded
<1>6. ASSUME b.message # {}
      PROVE  \E i \in 1 .. n + 1 :
               /\ i \in mine /\ b.message = cases[i].message
               /\ \A j \in 1 .. n + 1 : j < i /\ j \in mine => cases[j].message = {}
  <2>1. CASE bucket.message = {}
    <3>1. \A j \in 1 .. n : j \in mine => cases[j].message = {}
      BY <2>1 DEF Folded
    <3>2. b.message = cases[n + 1].message /\ n + 1 \in 1 .. n + 1
      BY <1>1, <2>1
    <3>3. \A j \in 1 .. n + 1 : j < n + 1 => j \in 1 .. n
      OBVIOUS
    <3> QED
      BY <3>1, <3>2, <3>3
  <2>2. CASE bucket.message # {}
    <3>1. PICK i \in 1 .. n :
            /\ i \in mine /\ bucket.message = cases[i].message
            /\ \A j \in 1 .. n : j < i /\ j \in mine => cases[j].message = {}
      BY <2>2 DEF Folded
    <3>2. i \in 1 .. n + 1 /\ b.message = cases[i].message
      BY <1>1, <2>2, <3>1
    <3>3. \A j \in 1 .. n + 1 : j < i => j \in 1 .. n
      OBVIOUS
    <3> QED
      BY <3>1, <3>2, <3>3
  <2> QED
    BY <2>1, <2>2
<1> QED
  BY <1>4, <1>5, <1>6 DEF Folded, b

(* Passing over a case that is not the tool's. *)
LEMMA FoldedSkip ==
  ASSUME NEW bucket, NEW cases, NEW mine, NEW n \in Nat,
         Folded(bucket, cases, mine, n), n + 1 \notin mine
  PROVE  Folded(bucket, cases, mine, n + 1)
<1>1. 1 .. n + 1 = (1 .. n) \union {n + 1}
  OBVIOUS
<1>2. {j \in 1 .. n + 1 : j \in mine} = {j \in 1 .. n : j \in mine}
  BY <1>1
<1> QED
  BY <1>1, <1>2 DEF Folded

(* At first nothing is read. *)
LEMMA InitReadInOrder == Init => ReadInOrder
<1> SUFFICES ASSUME Init PROVE ReadInOrder
  OBVIOUS
<1>1. \A tool \in Tools : live[tool] = NoBucket /\ junit[tool] = NoBucket
  BY DEF Init
<1>2. liveAt = 0 /\ xmlAt = 0 /\ NoBucket.reasons = {} /\ NoBucket.message = {}
  BY DEF Init, NoBucket
<1> QED
  BY <1>1, <1>2, NothingFolded DEF ReadInOrder

(* While the session runs nothing has been read. *)
LEMMA RunningFolds ==
  ASSUME IInv, ReadInOrder, session = "running", UNCHANGED readVars
  PROVE  ReadInOrder'
<1>1. liveAt = 0 /\ xmlAt = 0 /\ UNCHANGED <<liveAt, live, xmlAt, junit>>
  BY DEF IInv, ReadSoFar, readVars
<1>2. ASSUME NEW tool \in Tools
      PROVE  /\ Folded(live'[tool], LiveCases', LiveOf(tool)', 0)
             /\ Folded(junit'[tool], XmlCases', XmlOf(tool)', 0)
  <2>1. /\ Folded(live[tool], LiveCases, LiveOf(tool), 0)
        /\ Folded(junit[tool], XmlCases, XmlOf(tool), 0)
    BY <1>1 DEF ReadInOrder
  <2>2. /\ live[tool].reasons = {} /\ live[tool].message = {}
        /\ junit[tool].reasons = {} /\ junit[tool].message = {}
    BY <2>1, NothingFolded
  <2> QED
    BY <1>1, <2>2, NothingFolded
<1>3. liveAt' = 0 /\ xmlAt' = 0
  BY <1>1
<1> QED
  BY <1>2, <1>3 DEF ReadInOrder, Folded

(* Once it has ended nothing more is logged. *)
LEMMA ReadFolds ==
  ASSUME IInv, ReadInOrder, UNCHANGED logVars,
         AggregateReports \/ AggregateXml \/ UNCHANGED readVars
  PROVE  ReadInOrder'
<1>1. /\ TypeOK /\ UNCHANGED <<order, xml, phases, status, openCase>>
      /\ liveAt \in Nat /\ xmlAt \in Nat
  BY DEF IInv, TypeOK, logVars
<1>2. /\ LiveCases' = LiveCases /\ XmlCases' = XmlCases
      /\ \A tool \in Tools : LiveOf(tool)' = LiveOf(tool) /\ XmlOf(tool)' = XmlOf(tool)
  <2>1. \A t : LiveCase(t)' = LiveCase(t)
    BY <1>1 DEF LiveCase
  <2> QED
    BY <1>1, <2>1 DEF LiveCases, XmlCases, LiveOf, XmlOf
<1> SUFFICES ASSUME NEW tool \in Tools
             PROVE  /\ Folded(live'[tool], LiveCases, LiveOf(tool), liveAt')
                    /\ Folded(junit'[tool], XmlCases, XmlOf(tool), xmlAt')
  BY <1>2 DEF ReadInOrder, Folded
<1>3. /\ Folded(live[tool], LiveCases, LiveOf(tool), liveAt)
      /\ Folded(junit[tool], XmlCases, XmlOf(tool), xmlAt)
  BY DEF ReadInOrder
<1>4. CASE AggregateReports
  <2> DEFINE t == order[liveAt + 1]
  <2>1. /\ liveAt' = liveAt + 1 /\ xmlAt' = xmlAt /\ junit' = junit
        /\ live' = [live EXCEPT ![ToolOf[t]] = Absorb(live[ToolOf[t]], LiveCase(t))]
        /\ liveAt + 1 \in 1 .. Len(order) /\ t \in Tests
    BY <1>1, <1>4 DEF AggregateReports, TypeOK
  <2>2. LiveCases[liveAt + 1] = LiveCase(t)
    BY <2>1 DEF LiveCases
  <2>3. liveAt + 1 \in LiveOf(tool) <=> ToolOf[t] = tool
    BY <2>1 DEF LiveOf
  <2>4. live'[tool] = IF ToolOf[t] = tool THEN Absorb(live[tool], LiveCase(t)) ELSE live[tool]
    BY <1>1, <2>1, ToolOfAssumption DEF TypeOK
  <2> HIDE DEF t
  <2>5. CASE ToolOf[t] = tool
    BY <1>1, <1>3, <2>1, <2>2, <2>3, <2>4, <2>5, FoldedStep
  <2>6. CASE ToolOf[t] # tool
    BY <1>1, <1>3, <2>1, <2>3, <2>4, <2>6, FoldedSkip
  <2> QED
    BY <2>5, <2>6
<1>5. CASE AggregateXml
  <2> DEFINE e == xml[xmlAt + 1]
             own == e.named /\ ToolOf[e.test] = tool
  <2>1. /\ xmlAt' = xmlAt + 1 /\ liveAt' = liveAt /\ live' = live
        /\ junit' = IF e.named
                    THEN [junit EXCEPT ![ToolOf[e.test]] =
                            Absorb(junit[ToolOf[e.test]], XmlCase(e))]
                    ELSE junit
        /\ xmlAt + 1 \in 1 .. Len(xml) /\ e \in TestCase
    BY <1>1, <1>5 DEF AggregateXml, TypeOK
  <2>2. XmlCases[xmlAt + 1] = XmlCase(e)
    BY <2>1 DEF XmlCases
  <2>3. xmlAt + 1 \in XmlOf(tool) <=> own
    BY <2>1 DEF XmlOf
  <2>4. CASE own
    <3>1. junit'[tool] = Absorb(junit[tool], XmlCase(e))
      BY <1>1, <2>1, <2>4 DEF TypeOK
    <3> HIDE DEF e, own
    <3> QED
      BY <1>1, <1>3, <2>1, <2>2, <2>3, <2>4, <3>1, FoldedStep
  <2>5. CASE ~own
    <3>1. junit'[tool] = junit[tool]
      BY <1>1, <2>1, <2>5 DEF TypeOK
    <3> HIDE DEF e, own
    <3> QED
      BY <1>1, <1>3, <2>1, <2>3, <2>5, <3>1, FoldedSkip
  <2> QED
    BY <2>4, <2>5
<1>6. CASE UNCHANGED readVars
  BY <1>3, <1>6 DEF readVars
<1> QED
  BY <1>4, <1>5, <1>6

(* A mirroring element of an item that ran to its end tells both readers   *)
(* the same.                                                               *)
LEMMA MirrorTells ==
  ASSUME TypeOK, NEW t \in Tests, NEW e \in TestCase, Mirrors(e, t), status[t] = "teardown"
  PROVE  /\ e.named
         /\ XmlCase(e).kind = LiveCase(t).kind
         /\ XmlCase(e).reasons = LiveCase(t).reasons
         /\ Source(XmlCase(e).message) = Source(LiveCase(t).message)
         /\ XmlCase(e).message = {} <=> LiveCase(t).message = {}
<1>1. e.named /\ e.test = t /\ e.skipped = Skipped(phases[t])
      /\ e.failure = IF Failed(phases[t]) THEN FailedPhase(phases[t]) ELSE None
  BY DEF Mirrors, Tells
<1>2. FailedPhase(phases[t]) \in Phases /\ None \notin Phases
  BY DEF FailedPhase, Phases, None
<1>3. CASE Failed(phases[t])
  <2>1. e.failure = FailedPhase(phases[t]) /\ e.failure # None
    BY <1>1, <1>2, <1>3
  <2>2. /\ XmlCase(e) = FailCase(t, FailedPhase(phases[t]), e.hoisted)
        /\ LiveCase(t) = FailCase(t, FailedPhase(phases[t]),
                                  phases[t][FailedPhase(phases[t])] = "toolError")
    BY <1>1, <1>3, <2>1 DEF XmlCase, LiveCase
  <2>3. \A f, h : LET c == FailCase(t, f, h)
                  IN  /\ c.kind = "FAIL" /\ c.reasons = {} /\ c.message # {}
                      /\ Source(c.message) = {<<t, f>>}
    BY DEF FailCase, Source
  <2>4. \A c : (\E f, h : c = FailCase(t, f, h)) =>
          c.kind = "FAIL" /\ c.reasons = {} /\ c.message # {}
    BY <2>3
  <2>5. /\ XmlCase(e).kind = "FAIL" /\ XmlCase(e).reasons = {} /\ XmlCase(e).message # {}
        /\ LiveCase(t).kind = "FAIL" /\ LiveCase(t).reasons = {} /\ LiveCase(t).message # {}
    BY <2>2, <2>4
  <2>6. /\ Source(XmlCase(e).message) = {<<t, FailedPhase(phases[t])>>}
        /\ Source(LiveCase(t).message) = {<<t, FailedPhase(phases[t])>>}
    BY <2>2, <2>3
  <2> QED
    BY <1>1, <2>5, <2>6
<1>4. CASE ~Failed(phases[t])
  <2>1. e.failure = None
    BY <1>1, <1>4
  <2>2. XmlCase(e) = LiveCase(t)
    BY <1>1, <1>4, <2>1 DEF XmlCase, LiveCase
  <2> QED
    BY <1>1, <2>2
<1> QED
  BY <1>3, <1>4

(* What the two readers find, once every item ran to its end. *)
LEMMA Matched ==
  ASSUME AInv, Undisturbed
  PROVE  /\ \A i \in 1 .. Len(order) : order[i] \in Tests /\ status[order[i]] = "teardown"
         /\ \A l \in 1 .. Len(xml) :
              /\ xml[l] \in TestCase /\ xml[l].test \in Tests
              /\ \E i \in 1 .. Len(order) : order[i] = xml[l].test
              /\ \E k \in 1 .. l :
                   /\ Mirrors(xml[k], xml[l].test)
                   /\ k # l => /\ XmlCase(xml[l]).message # {} /\ XmlCase(xml[l]).reasons = {}
                               /\ XmlCase(xml[l]).kind = "FAIL"
                               /\ LiveCase(xml[l].test).kind = "FAIL"
                               /\ LiveCase(xml[l].test).message # {}
<1>1. TypeOK /\ AllMirrored /\ InOrder
  BY DEF AInv, IInv
<1>2. \A i \in 1 .. Len(order) : order[i] \in Tests /\ status[order[i]] = "teardown"
  BY <1>1 DEF TypeOK, Undisturbed
<1>3. ASSUME NEW l \in 1 .. Len(xml)
      PROVE  /\ xml[l] \in TestCase /\ xml[l].test \in Tests
             /\ \E i \in 1 .. Len(order) : order[i] = xml[l].test
             /\ \E k \in 1 .. l :
                  /\ Mirrors(xml[k], xml[l].test)
                  /\ k # l => /\ XmlCase(xml[l]).message # {} /\ XmlCase(xml[l]).reasons = {}
                              /\ XmlCase(xml[l]).kind = "FAIL"
                              /\ LiveCase(xml[l].test).kind = "FAIL"
                              /\ LiveCase(xml[l].test).message # {}
  <2>1. xml[l] \in TestCase
    BY <1>1 DEF TypeOK
  <2>2. xml[l].test \in Tests
    BY <2>1 DEF TestCase
  <2>3. status[xml[l].test] = "teardown" /\ "teardown" \in Phases
    BY <2>2 DEF Undisturbed, Phases
  <2>4. \E i \in 1 .. Len(order) : order[i] = xml[l].test
    BY <1>1, <2>2, <2>3 DEF InOrder
  <2>5. PICK k \in 1 .. l :
          /\ Mirrors(xml[k], xml[l].test)
          /\ k # l => xml[l].failure # None /\ Failed(phases[xml[l].test])
    BY <1>1, <2>2, <2>3 DEF AllMirrored, Mirrored
  <2>6. \A u, f, h : LET c == FailCase(u, f, h)
                     IN  c.kind = "FAIL" /\ c.reasons = {} /\ c.message # {}
    BY DEF FailCase
  <2>7. k # l => /\ XmlCase(xml[l]) = FailCase(xml[l].test, xml[l].failure, xml[l].hoisted)
                 /\ \E f, h : LiveCase(xml[l].test) = FailCase(xml[l].test, f, h)
    BY <2>5 DEF XmlCase, LiveCase
  <2> QED
    BY <2>1, <2>2, <2>4, <2>5, <2>6, <2>7
<1> QED
  BY <1>2, <1>3

(* The invariant makes the readers agree. *)
LEMMA AInvReadersAgree == AInv => ReadersAgree
<1> SUFFICES ASSUME AInv, Reported, Undisturbed, NEW tool \in Tools
             PROVE  /\ live[tool].verdict = junit[tool].verdict
                    /\ live[tool].reasons = junit[tool].reasons
                    /\ Source(live[tool].message) = Source(junit[tool].message)
  BY DEF ReadersAgree
<1> DEFINE L == LiveOf(tool)
           X == XmlOf(tool)
<1>1. /\ TypeOK /\ InOrder /\ liveAt = Len(order) /\ xmlAt = Len(xml)
      /\ Len(order) \in Nat /\ Len(xml) \in Nat
  BY DEF AInv, IInv, TypeOK, Reported
<1>2. /\ L \subseteq 1 .. Len(order) /\ X \subseteq 1 .. Len(xml)
      /\ \A i \in 1 .. Len(order) : i \in L <=> ToolOf[order[i]] = tool
      /\ \A l \in 1 .. Len(xml) : l \in X <=> xml[l].named /\ ToolOf[xml[l].test] = tool
      /\ \A i \in 1 .. Len(order) : LiveCases[i] = LiveCase(order[i])
      /\ \A l \in 1 .. Len(xml) : XmlCases[l] = XmlCase(xml[l])
  BY DEF LiveOf, XmlOf, LiveCases, XmlCases
(* An item has an element that tells the same. *)
<1>3. ASSUME NEW i \in L, NEW l \in 1 .. Len(xml), xml[l].test = order[i]
      PROVE  \E k \in 1 .. l : /\ k \in X /\ xml[k].test = order[i]
                               /\ XmlCases[k].kind = LiveCases[i].kind
                               /\ XmlCases[k].reasons = LiveCases[i].reasons
                               /\ Source(XmlCases[k].message) = Source(LiveCases[i].message)
                               /\ XmlCases[k].message = {} <=> LiveCases[i].message = {}
  <2>1. PICK k \in 1 .. l : Mirrors(xml[k], xml[l].test)
    BY Matched
  <2>2. k \in 1 .. Len(xml) /\ Mirrors(xml[k], order[i]) /\ i \in 1 .. Len(order)
    BY <1>1, <1>2, <1>3, <2>1
  <2>3. xml[k] \in TestCase /\ order[i] \in Tests /\ status[order[i]] = "teardown"
    BY <2>2, Matched
  <2>4. /\ xml[k].named
        /\ XmlCase(xml[k]).kind = LiveCase(order[i]).kind
        /\ XmlCase(xml[k]).reasons = LiveCase(order[i]).reasons
        /\ Source(XmlCase(xml[k]).message) = Source(LiveCase(order[i]).message)
        /\ XmlCase(xml[k]).message = {} <=> LiveCase(order[i]).message = {}
    BY <1>1, <2>2, <2>3, MirrorTells
  <2>5. xml[k].test = order[i]
    BY <2>2 DEF Mirrors, Tells
  <2> QED
    BY <1>2, <2>2, <2>4, <2>5
<1>4. \A i \in L : \E l \in 1 .. Len(xml) : xml[l].test = order[i]
  BY <1>1, <1>2 DEF InOrder
(* An element has an item that tells the same, or fails as it does. *)
<1>5. ASSUME NEW l \in X
      PROVE  \E i \in L : /\ order[i] = xml[l].test
                          /\ XmlCases[l].kind = LiveCases[i].kind
                          /\ XmlCases[l].reasons \subseteq LiveCases[i].reasons
                          /\ XmlCases[l].message = {} <=> LiveCases[i].message = {}
  <2>1. /\ l \in 1 .. Len(xml) /\ xml[l] \in TestCase /\ xml[l].test \in Tests
        /\ ToolOf[xml[l].test] = tool
    BY <1>2, Matched
  <2>2. PICK i \in 1 .. Len(order) : order[i] = xml[l].test
    BY <2>1, Matched
  <2>3. i \in L /\ status[xml[l].test] = "teardown"
    BY <1>2, <2>1, <2>2, Matched
  <2>4. PICK k \in 1 .. l :
          /\ Mirrors(xml[k], xml[l].test)
          /\ k # l => /\ XmlCase(xml[l]).message # {} /\ XmlCase(xml[l]).reasons = {}
                      /\ XmlCase(xml[l]).kind = "FAIL"
                      /\ LiveCase(xml[l].test).kind = "FAIL"
                      /\ LiveCase(xml[l].test).message # {}
    BY <2>1, Matched
  <2>5. CASE k = l
    <3>1. /\ XmlCase(xml[l]).kind = LiveCase(xml[l].test).kind
          /\ XmlCase(xml[l]).reasons = LiveCase(xml[l].test).reasons
          /\ XmlCase(xml[l]).message = {} <=> LiveCase(xml[l].test).message = {}
      BY <1>1, <2>1, <2>3, <2>4, <2>5, MirrorTells
    <3> QED
      BY <1>2, <2>1, <2>2, <2>3, <3>1
  <2>6. CASE k # l
    BY <1>2, <2>1, <2>2, <2>3, <2>4, <2>6
  <2> QED
    BY <2>5, <2>6
<1>6. LiveKinds(tool) = {LiveCases[i].kind : i \in L}
      /\ XmlKinds(tool) = {XmlCases[l].kind : l \in X}
  <2>1. /\ {j \in 1 .. liveAt : ToolOf[order[j]] = tool} = L
        /\ {j \in 1 .. xmlAt : xml[j].named /\ ToolOf[xml[j].test] = tool} = X
    BY <1>1 DEF LiveOf, XmlOf
  <2> QED
    BY <1>2, <2>1 DEF LiveKinds, XmlKinds
<1>7. LiveKinds(tool) = XmlKinds(tool)
  <2> HIDE DEF L, X
  <2>1. ASSUME NEW i \in L PROVE \E l \in X : XmlCases[l].kind = LiveCases[i].kind
    <3>1. PICK l \in 1 .. Len(xml) : xml[l].test = order[i]
      BY <1>4
    <3> QED
      BY <1>3, <3>1
  <2>2. \A l \in X : \E i \in L : XmlCases[l].kind = LiveCases[i].kind
    BY <1>5
  <2> QED
    BY <1>6, <2>1, <2>2
<1>8. live[tool].verdict = junit[tool].verdict
  BY <1>7 DEF AInv, IInv, OrderIndependent
<1>9. /\ Folded(live[tool], LiveCases, L, Len(order))
      /\ Folded(junit[tool], XmlCases, X, Len(xml))
  BY <1>1 DEF AInv, ReadInOrder
<1> HIDE DEF L, X
<1>10. live[tool].reasons = junit[tool].reasons
  <2>1. /\ {j \in 1 .. Len(order) : j \in L} = L /\ {j \in 1 .. Len(xml) : j \in X} = X
    BY <1>2
  <2>2. /\ live[tool].reasons = UNION {LiveCases[i].reasons : i \in L}
        /\ junit[tool].reasons = UNION {XmlCases[l].reasons : l \in X}
    BY <1>9, <2>1 DEF Folded
  <2>3. ASSUME NEW i \in L PROVE \E l \in X : XmlCases[l].reasons = LiveCases[i].reasons
    <3>1. PICK l \in 1 .. Len(xml) : xml[l].test = order[i]
      BY <1>4
    <3> QED
      BY <1>3, <3>1
  <2>4. \A l \in X : \E i \in L : XmlCases[l].reasons \subseteq LiveCases[i].reasons
    BY <1>5
  <2>5. ASSUME NEW r, r \in live[tool].reasons PROVE r \in junit[tool].reasons
    <3>1. PICK i \in L : r \in LiveCases[i].reasons
      BY <2>2, <2>5
    <3> QED
      BY <2>2, <2>3, <3>1
  <2>6. ASSUME NEW r, r \in junit[tool].reasons PROVE r \in live[tool].reasons
    <3>1. PICK l \in X : r \in XmlCases[l].reasons
      BY <2>2, <2>6
    <3> QED
      BY <2>2, <2>4, <3>1
  <2> QED
    BY <2>5, <2>6
<1>11. Source(live[tool].message) = Source(junit[tool].message)
  <2>1. CASE live[tool].message = {}
    <3>1. \A i \in L : LiveCases[i].message = {}
      BY <1>2, <1>9, <2>1 DEF Folded
    <3>2. \A l \in X : XmlCases[l].message = {}
      BY <1>5, <3>1
    <3>3. junit[tool].message = {}
      BY <1>9, <3>2 DEF Folded
    <3> QED
      BY <2>1, <3>3
  <2>2. CASE live[tool].message # {}
    <3>1. PICK i \in 1 .. Len(order) :
            /\ i \in L /\ live[tool].message = LiveCases[i].message
            /\ \A j \in 1 .. Len(order) : j < i /\ j \in L => LiveCases[j].message = {}
      BY <1>9, <2>2 DEF Folded
    <3>2. \E l \in X : XmlCases[l].message # {}
      <4>1. PICK l \in 1 .. Len(xml) : xml[l].test = order[i]
        BY <1>4, <3>1
      <4> QED
        BY <1>3, <2>2, <3>1, <4>1
    <3>3. junit[tool].message # {}
      BY <1>2, <1>9, <3>2 DEF Folded
    <3>4. PICK l \in 1 .. Len(xml) :
            /\ l \in X /\ junit[tool].message = XmlCases[l].message
            /\ \A k \in 1 .. Len(xml) : k < l /\ k \in X => XmlCases[k].message = {}
      BY <1>9, <3>3 DEF Folded
    <3>5. PICK m \in L : /\ order[m] = xml[l].test
                         /\ XmlCases[l].message = {} <=> LiveCases[m].message = {}
      BY <1>5, <3>4
    <3>6. m \in 1 .. Len(order) /\ LiveCases[m].message # {}
      BY <1>2, <3>3, <3>4, <3>5
    <3>7. ~(i < m)
      <4> SUFFICES ASSUME i < m PROVE FALSE
        OBVIOUS
      <4>1. PICK k \in 1 .. Len(xml) : k < l /\ xml[k].test = order[i]
        BY <1>1, <3>4, <3>5, <3>6 DEF InOrder
      <4>2. PICK n \in 1 .. k : n \in X /\ (XmlCases[n].message = {} <=> LiveCases[i].message = {})
        BY <1>3, <3>1, <4>1, ZenonT(30)
      <4>3. n \in 1 .. Len(xml) /\ n < l
        BY <1>1, <4>1, <4>2
      <4> QED
        BY <2>2, <3>1, <3>4, <4>2, <4>3
    <3>8. m = i
      BY <3>1, <3>6, <3>7
    <3>9. PICK k \in 1 .. l : /\ k \in X
                              /\ Source(XmlCases[k].message) = Source(LiveCases[i].message)
                              /\ XmlCases[k].message = {} <=> LiveCases[i].message = {}
      BY <1>3, <3>1, <3>4, <3>5, <3>8
    <3>10. k = l
      BY <1>1, <2>2, <3>1, <3>4, <3>9
    <3> QED
      BY <3>1, <3>4, <3>9, <3>10
  <2> QED
    BY <2>1, <2>2
<1> QED
  BY <1>8, <1>10, <1>11

-----------------------------------------------------------------------------
(* The initial states satisfy the invariant. *)
LEMMA InitAInv == Init => AInv
<1> SUFFICES ASSUME Init PROVE AInv
  OBVIOUS
<1>1. AllMirrored
  BY DEF Init, AllMirrored, Mirrored, Phases
<1>2. xml = <<>> /\ order = <<>> /\ \A t \in Tests : status[t] \notin Phases
  BY DEF Init, Phases
<1>3. InOrder
  BY <1>2 DEF InOrder
<1> QED
  BY <1>1, <1>3, InitIInv, InitReadInOrder DEF AInv

(* Every step keeps the invariant. *)
LEMMA NextAInv == AInv /\ [Next]_vars => AInv'
<1> SUFFICES ASSUME AInv, [Next]_vars PROVE AInv'
  OBVIOUS
<1>1. IInv' /\ IInv /\ AllMirrored /\ InOrder /\ ReadInOrder
  BY NextIInv DEF AInv
<1>2. ASSUME NEW t \in Tests, NEW outcome \in Outcomes, LogSetup(t, outcome)
      PROVE  AInv'
  <2>1. outcome \in AnyOutcome /\ session = "running" /\ UNCHANGED readVars
    BY <1>2, OutcomesAny DEF LogSetup
  <2> QED
    BY <1>1, <1>2, <2>1, SetupAgrees, RunningFolds DEF AInv
<1>3. ASSUME NEW t \in Tests, NEW outcome \in Outcomes, LogCall(t, outcome)
      PROVE  AInv'
  <2>1. outcome \in AnyOutcome /\ session = "running" /\ UNCHANGED readVars
    BY <1>3, OutcomesAny DEF LogCall
  <2> QED
    BY <1>1, <1>3, <2>1, CallAgrees, RunningFolds DEF AInv
<1>4. ASSUME NEW t \in Tests, NEW outcome \in Outcomes \ {"skipped"},
             LogTeardown(t, outcome)
      PROVE  AInv'
  <2>1. outcome \in AnyOutcome \ {"skipped"} /\ session = "running" /\ UNCHANGED readVars
    BY <1>4, OutcomesAny DEF LogTeardown
  <2> QED
    BY <1>1, <1>4, <2>1, TeardownAgrees, RunningFolds DEF AInv
<1>5. ASSUME NEW t \in Tests, WorkerCrash(t)
      PROVE  AInv'
  <2>1. session = "running" /\ UNCHANGED readVars
    BY <1>5 DEF WorkerCrash
  <2> QED
    BY <1>1, <1>5, <2>1, CrashAgrees, RunningFolds DEF AInv
<1>6. CASE \/ Interrupt \/ Finish \/ Done \/ AggregateReports \/ AggregateXml
           \/ UNCHANGED vars
  <2>1. /\ UNCHANGED logVars
        /\ AggregateReports \/ AggregateXml \/ UNCHANGED readVars
    <3>1. AggregateReports \/ AggregateXml => UNCHANGED logVars
      BY DEF AggregateReports, AggregateXml
    <3>2. Interrupt \/ Finish => UNCHANGED <<logVars, readVars>>
      BY DEF Interrupt, Finish
    <3>3. Done \/ UNCHANGED vars => UNCHANGED <<logVars, readVars>>
      BY DEF Done, vars
    <3> QED
      BY <1>6, <3>1, <3>2, <3>3
  <2>2. /\ status' = status /\ order' = order /\ phases' = phases
        /\ xml' = xml /\ openCase' = openCase
    BY <2>1 DEF logVars
  <2>3. AllMirrored'
    BY <1>1, <2>2 DEF AllMirrored, Mirrored, Mirrors
  <2>4. InOrder'
    <3>1. /\ \A l \in 1 .. Len(xml') : status'[xml'[l].test] # "todo"
          /\ \A i \in 1 .. Len(order') : /\ status'[order'[i]] # "todo"
                                         /\ \E k \in 1 .. Len(xml') : xml'[k].test = order'[i]
      BY <1>1, <2>2 DEF InOrder
    <3>2. \A t \in Tests : status'[t] \in Phases => \E i \in 1 .. Len(order') : order'[i] = t
      BY <1>1, <2>2 DEF InOrder
    <3>3. \A i, j \in 1 .. Len(order'), l \in 1 .. Len(xml') :
            i < j /\ xml'[l].test = order'[j]
            => \E k \in 1 .. Len(xml') : k < l /\ xml'[k].test = order'[i]
      BY <1>1, <2>2 DEF InOrder
    <3> QED
      BY <3>1, <3>2, <3>3 DEF InOrder
  <2> QED
    BY <1>1, <2>1, <2>3, <2>4, ReadFolds DEF AInv
<1> QED
  BY <1>2, <1>3, <1>4, <1>5, <1>6 DEF Next

(* For any items, tools, workers and interleaving of reports: after a      *)
(* session in which every item ran to its end, the summary of the live     *)
(* reporter and the one parsed from the XML give each tool the same        *)
(* verdict, the same skip reasons and a failure of the same phase of the   *)
(* same item.                                                              *)
THEOREM ReadersAgreed == Spec => []ReadersAgree
<1>1. Spec => []AInv
  BY InitAInv, NextAInv, PTL DEF Spec
<1> QED
  BY <1>1, AInvReadersAgree, PTL
=============================================================================
