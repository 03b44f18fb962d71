-------------------------------- MODULE Judge --------------------------------
(***************************************************************************)
(* What the Judge protocol promises who calls judge(): what it returns is  *)
(* a function of the answer of this very call, whatever was asked before,  *)
(* and only a call without an answer raises.  JudgeParser implements it.   *)
(***************************************************************************)
CONSTANTS Answers,          \* texts a backend may send
          NoAnswer,
          NoResult,
          Verdict(_)        \* the JudgeResult an answer deserves

VARIABLES stage,            \* "outside", "asking", "heard", "answered" or "raised"
          answer, result

vars == <<stage, answer, result>>

Fresh == answer' = NoAnswer /\ result' = NoResult

Init == stage = "outside" /\ answer = NoAnswer /\ result = NoResult

Open ==
  /\ stage = "outside"
  /\ stage' = "asking" /\ Fresh

(* A judge that has an answer is not left before it has said what it means. *)
Close ==
  /\ stage \in {"asking", "answered", "raised"}
  /\ stage' = "outside" /\ Fresh

Again ==
  /\ stage \in {"answered", "raised"}
  /\ stage' = "asking" /\ Fresh

Raise ==
  /\ stage = "asking"
  /\ stage' = "raised"
  /\ UNCHANGED <<answer, result>>

Hear ==
  /\ stage = "asking"
  /\ stage' = "heard" /\ answer' \in Answers
  /\ UNCHANGED result

Decide ==
  /\ stage = "heard"
  /\ stage' = "answered" /\ result' = Verdict(answer)
  /\ UNCHANGED answer

Next == Open \/ Close \/ Again \/ Raise \/ Hear \/ Decide

Spec == Init /\ [][Next]_vars
=============================================================================
