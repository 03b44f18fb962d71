----------------------------- MODULE JudgeParser -----------------------------
(***************************************************************************)
(* OllamaJudge: questions to the model and the four-step parser of their   *)
(* free-text answers: strip think blocks and code fences, try the whole     *)
(* text, extract the first balanced object and try that, fall back to a    *)
(* failed verdict.  The scanner of _extract_first_json_object runs one     *)
(* character per step.                                                     *)
(*                                                                         *)
(* Text is a sequence of tokens; white space is left out.  External:       *)
(* httpx, and json.loads with the JudgeResult model (IsVerdict).           *)
(***************************************************************************)
EXTENDS Integers, Sequences, FiniteSets

CONSTANT Contents         \* texts the server may send

VARIABLES
  pc,         \* where judge() stands; "outside" of the `async with' block
  content,    \* the text that goes to the parser
  text,       \* what _strip_decorations left of it
  at,         \* scanner: the character it looks at
  depth, inString, escape,
  extracted,  \* the object it found, empty if none
  result      \* the JudgeResult

scanner == <<at, depth, inString, escape>>
vars == <<pc, content, text, scanner, extracted, result>>

(* "pass" and "fail" stand for `"passed": true, "score": 5, "reasoning":'  *)
(* and its negative; "char" for any other character; "fence" for three     *)
(* backticks, with or without json.                                        *)
Tokens == {"open", "close", "quote", "backslash", "char", "fence", "think", "unthink",
           "pass", "fail"}

ASSUME JudgeAssumption == Contents \subseteq Seq(Tokens)

NoResult == [passed |-> FALSE, malformed |-> FALSE, raw |-> <<>>]
Malformed == [passed |-> FALSE, malformed |-> TRUE, raw |-> content]

TypeOK ==
  /\ pc \in {"outside", "asking", "stripped", "scanning", "scanned", "answered", "raised"}
  /\ content \in Seq(Tokens) /\ text \in Seq(Tokens) /\ extracted \in Seq(Tokens)
  /\ at \in Nat /\ depth \in Nat /\ inString \in BOOLEAN /\ escape \in BOOLEAN
  /\ result \in [passed : BOOLEAN, malformed : BOOLEAN, raw : Seq(Tokens)]

Init ==
  /\ pc = "outside" /\ content = <<>> /\ text = <<>>
  /\ at = 0 /\ depth = 0 /\ inString = FALSE /\ escape = FALSE
  /\ extracted = <<>> /\ result = NoResult

-----------------------------------------------------------------------------
(* External: what json.loads and JudgeResult.model_validate accept.        *)

(* Where a string ends whose characters begin at k, 0 if it does not; only *)
(* quotes and backslashes may be escaped.                                  *)
StringEnds(s) ==
  LET end[k \in 1 .. Len(s) + 1] ==
        IF k > Len(s) THEN 0
        ELSE IF s[k] = "quote" THEN k
        ELSE IF s[k] # "backslash" THEN end[k + 1]
        ELSE IF k < Len(s) /\ s[k + 1] \in {"quote", "backslash"} THEN end[k + 2]
        ELSE 0
  IN end

(* The whole of s is one object with the three fields. *)
IsVerdict(s) ==
  /\ Len(s) >= 5
  /\ s[1] = "open" /\ s[2] \in {"pass", "fail"} /\ s[3] = "quote"
  /\ StringEnds(s)[4] = Len(s) - 1 /\ s[Len(s)] = "close"

-----------------------------------------------------------------------------
(* _strip_decorations                                                      *)

Positions(s, token) == {i \in 1 .. Len(s) : s[i] = token}
Least(S) == CHOOSE i \in S : \A j \in S : i <= j
Greatest(S) == CHOOSE i \in S : \A j \in S : j <= i
Drop(s, i) == SubSeq(s, 1, i - 1) \o SubSeq(s, i + 1, Len(s))

(* What s has at the positions in kept, in their order. *)
UpTo(kept, i) == Cardinality({k \in kept : k <= i})
Keep(s, kept) == [n \in 1 .. Cardinality(kept) |-> s[CHOOSE i \in kept : UpTo(kept, i) = n]]

(* re.sub of `<think>.*?</think>': a block ends at the next </think>, one  *)
(* without an end stays.  A <think> inside a block has the same end.       *)
InBlock(s, k) ==
  \E i \in Positions(s, "think"), j \in Positions(s, "unthink") :
    /\ i <= k /\ k <= j
    /\ \A l \in Positions(s, "unthink") : l < i \/ j <= l

WithoutThinking(s) == Keep(s, {k \in 1 .. Len(s) : ~InBlock(s, k)})

(* The first fence goes; then everything from the last one left. *)
WithoutFences(s) ==
  LET first == Positions(s, "fence")
      opened == IF first = {} THEN s ELSE Drop(s, Least(first))
      last == Positions(opened, "fence")
  IN IF last = {} THEN opened ELSE SubSeq(opened, 1, Greatest(last) - 1)

(* As if the think blocks stayed. *)
KeepsThinking(s) == WithoutFences(s)

Stripped(s) == WithoutFences(WithoutThinking(s))

-----------------------------------------------------------------------------
(* OllamaJudge                                                             *)

Enter ==
  /\ pc = "outside"
  /\ pc' = "asking"
  /\ UNCHANGED <<content, text, scanner, extracted, result>>

(* What a call knew is gone with it. *)
Forget ==
  /\ content' = <<>> /\ text' = <<>> /\ extracted' = <<>> /\ result' = NoResult
  /\ at' = 0 /\ depth' = 0 /\ inString' = FALSE /\ escape' = FALSE

Exit ==
  /\ pc \in {"asking", "answered", "raised"}
  /\ pc' = "outside" /\ Forget

(* The next judge() on the same client. *)
AskAgain ==
  /\ pc \in {"answered", "raised"}
  /\ pc' = "asking" /\ Forget

(* A status that is no success, a timeout, no connection. *)
TransportFails ==
  /\ pc = "asking"
  /\ pc' = "raised"
  /\ UNCHANGED <<content, text, scanner, extracted, result>>

(* The message of the envelope, or the whole body if it has none. *)
Answer(s) ==
  /\ pc = "asking"
  /\ content' = s /\ text' = Stripped(s)
  /\ pc' = "stripped"
  /\ UNCHANGED <<scanner, extracted, result>>

(* As if only what was validated were kept. *)
AcceptPayload(payload) ==
  /\ result' = [passed |-> payload[2] = "pass", malformed |-> FALSE, raw |-> payload]
  /\ pc' = "answered"

Accept(payload) ==
  /\ result' = [passed |-> payload[2] = "pass", malformed |-> FALSE, raw |-> content]
  /\ pc' = "answered"

(* Step 2 of the parser. *)
WholeText ==
  /\ pc = "stripped" /\ IsVerdict(text)
  /\ Accept(text)
  /\ UNCHANGED <<content, text, scanner, extracted>>

-----------------------------------------------------------------------------
(* _extract_first_json_object                                              *)

StartScan ==
  /\ pc = "stripped" /\ ~IsVerdict(text)
  /\ IF Positions(text, "open") = {}
       THEN pc' = "scanned" /\ UNCHANGED at
       ELSE pc' = "scanning" /\ at' = Least(Positions(text, "open"))
  /\ depth' = 0 /\ inString' = FALSE /\ escape' = FALSE /\ extracted' = <<>>
  /\ UNCHANGED <<content, text, result>>

Start == Least(Positions(text, "open"))
(* As if the escape flag were set without a step. *)
Lingers ==
  /\ at' = IF inString /\ text[at] = "backslash" THEN at ELSE at + 1
  /\ UNCHANGED <<pc, content, text, extracted, result>>

Continue == at' = at + 1 /\ UNCHANGED <<pc, content, text, extracted, result>>

(* As if escapes were not tracked. *)
IgnoresEscapes ==
  /\ pc = "scanning" /\ at <= Len(text) /\ inString
  /\ inString' = (text[at] # "quote")
  /\ Continue /\ UNCHANGED <<depth, escape>>

InString ==
  /\ pc = "scanning" /\ at <= Len(text) /\ inString
  /\ escape' = (~escape /\ text[at] = "backslash")
  /\ inString' = (escape \/ text[at] # "quote")
  /\ Continue /\ UNCHANGED depth

OpenString ==
  /\ pc = "scanning" /\ at <= Len(text) /\ ~inString /\ text[at] = "quote"
  /\ inString' = TRUE
  /\ Continue /\ UNCHANGED <<depth, escape>>

OpenBrace ==
  /\ pc = "scanning" /\ at <= Len(text) /\ ~inString /\ text[at] = "open"
  /\ depth' = depth + 1
  /\ Continue /\ UNCHANGED <<inString, escape>>

CloseInner ==
  /\ pc = "scanning" /\ at <= Len(text) /\ ~inString /\ text[at] = "close" /\ depth # 1
  /\ depth' = depth - 1
  /\ Continue /\ UNCHANGED <<inString, escape>>

CloseObject ==
  /\ pc = "scanning" /\ at <= Len(text) /\ ~inString /\ text[at] = "close" /\ depth = 1
  /\ depth' = 0 /\ extracted' = SubSeq(text, Start, at)
  /\ pc' = "scanned"
  /\ UNCHANGED <<content, text, at, inString, escape, result>>

Plain ==
  /\ pc = "scanning" /\ at <= Len(text) /\ ~inString
  /\ text[at] \notin {"quote", "open", "close"}
  /\ Continue /\ UNCHANGED <<depth, inString, escape>>

Unbalanced ==
  /\ pc = "scanning" /\ at > Len(text)
  /\ pc' = "scanned"
  /\ UNCHANGED <<content, text, scanner, extracted, result>>

-----------------------------------------------------------------------------
(* Step 3. *)
FirstObject ==
  /\ pc = "scanned" /\ IsVerdict(extracted)
  /\ Accept(extracted)
  /\ UNCHANGED <<content, text, scanner, extracted>>

(* As if an object were believed when it could not be validated. *)
BelievesAnyObject ==
  result' = [Malformed EXCEPT !.passed = extracted # <<>>, !.malformed = extracted = <<>>]

FallBack == result' = Malformed

(* Step 4. *)
NoVerdict ==
  /\ pc = "scanned" /\ ~IsVerdict(extracted)
  /\ FallBack
  /\ pc' = "answered"
  /\ UNCHANGED <<content, text, scanner, extracted>>

Scan == InString \/ OpenString \/ OpenBrace \/ CloseInner \/ CloseObject \/ Plain
        \/ Unbalanced

Parse == WholeText \/ StartScan \/ Scan \/ FirstObject \/ NoVerdict

Next == Enter \/ Exit \/ AskAgain \/ TransportFails \/ (\E s \in Contents : Answer(s)) \/ Parse

(* The parser is ordinary code: it runs on. *)
Spec == Init /\ [][Next]_vars /\ WF_vars(Parse)

-----------------------------------------------------------------------------
(* What the scanner has to find: the first brace and what closes it, where *)
(* the contents of an object are strings, objects and anything else.       *)

(* The position after the string or object whose contents begin at i, 0 if *)
(* it never ends.                                                          *)
Ends(s) ==
  LET f[a \in {"string", "object"} \X (1 .. Len(s) + 2)] ==
        LET i == a[2]
            past(j) == IF j = 0 THEN 0 ELSE f[<<"object", j>>]
        IN IF i > Len(s) THEN 0
           ELSE IF a[1] = "string"
             THEN IF s[i] = "quote" THEN i + 1
                  ELSE IF s[i] = "backslash" THEN f[<<"string", i + 2>>]
                  ELSE f[<<"string", i + 1>>]
             ELSE IF s[i] = "close" THEN i + 1
                  ELSE IF s[i] = "open" THEN past(f[<<"object", i + 1>>])
                  ELSE IF s[i] = "quote" THEN past(f[<<"string", i + 1>>])
                  ELSE f[<<"object", i + 1>>]
  IN f

FirstBalanced(s) ==
  IF Positions(s, "open") = {} THEN <<>>
  ELSE LET start == Least(Positions(s, "open"))
           end == Ends(s)[<<"object", start + 1>>]
       IN IF end = 0 THEN <<>> ELSE SubSeq(s, start, end - 1)

(* The counter with its two flags finds the first balanced object of every *)
(* text, braces and quotes in strings, escapes and missing ends included.  *)
ScannerExact == pc = "scanned" => extracted = FirstBalanced(text)

(* The answer without what a model wraps around it. *)
Bare(s) == LET said == WithoutThinking(s)
           IN Keep(said, {k \in 1 .. Len(said) : said[k] # "fence"})

(* A pass is never made up: the answer says so in a valid verdict outside  *)
(* its closed think blocks; the whole answer is kept with every result.    *)
PassIsSaid ==
  /\ pc = "answered" => result.raw = content
  /\ result.passed =>
       LET bare == Bare(content)
       IN \E i, j \in 1 .. Len(bare) :
            IsVerdict(SubSeq(bare, i, j)) /\ bare[i + 1] = "pass"

(* A verdict from i to j in what the parser promises to see through: think *)
(* blocks and prose, a fence before it, fences and prose after it.         *)
WrappedVerdict(s, i, j) ==
  LET verdict == SubSeq(s, i, j)
      before == WithoutThinking(SubSeq(s, 1, i - 1))
      after == SubSeq(s, j + 1, Len(s))
      None(t, tokens) == \A k \in 1 .. Len(t) : t[k] \notin tokens
  IN /\ IsVerdict(verdict) /\ None(verdict, {"fence", "think", "unthink"})
     /\ None(before, {"open"})
     /\ \A k, l \in Positions(before, "fence") : k = l
     /\ None(after, {"think", "unthink"})

(* No verdict is lost in its wrapping. *)
WrappedVerdictCounts ==
  pc = "answered" =>
    \A i, j \in 1 .. Len(content) : WrappedVerdict(content, i, j) =>
      ~result.malformed /\ result.passed = (content[i + 1] = "pass")

(* What an answer means, with no scanner and no state in it. *)
Meaning(s) ==
  LET said == Stripped(s)
      object == FirstBalanced(said)
      believed(payload) == [passed |-> payload[2] = "pass", malformed |-> FALSE, raw |-> s]
  IN IF IsVerdict(said) THEN believed(said)
     ELSE IF IsVerdict(object) THEN believed(object)
     ELSE [passed |-> FALSE, malformed |-> TRUE, raw |-> s]

Stage == IF pc \in {"stripped", "scanning", "scanned"} THEN "heard" ELSE pc

Promise == INSTANCE Judge WITH Answers <- Contents, NoAnswer <- <<>>, Verdict <- Meaning,
                               stage <- Stage, answer <- content

(* Every call of judge() gives what its own answer means, whatever calls   *)
(* came before; once there is an answer no step raises or leaves.          *)
ImplementsJudge == Promise!Spec

(* Every answer gets a result, also one cut off in the middle. *)
ParserEnds == pc = "stripped" ~> pc = "answered"
=============================================================================
