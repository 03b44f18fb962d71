---------------------------- MODULE MCJudgeParser ----------------------------
(* Texts put together from pieces: verdicts whose reasoning has braces,    *)
(* escaped quotes and fences in it, objects that are no verdict, loose     *)
(* braces, quotes and backslashes, and everything a model may wrap around. *)
EXTENDS JudgeParser, SequencesExt

CONSTANT MaxPieces        \* bound: pieces of a text

Verdict(v, reasoning) == <<"open", v, "quote">> \o reasoning \o <<"quote", "close">>

Pieces ==
  {Verdict("pass", <<>>), Verdict("fail", <<"close">>),
   Verdict("pass", <<"backslash", "quote", "open">>),
   Verdict("pass", <<"backslash", "char">>),
   Verdict("fail", <<"fence", "char", "fence">>),
   <<"fence">> \o Verdict("fail", <<"char">>) \o <<"fence">>,
   <<"think">> \o Verdict("pass", <<>>) \o <<"unthink">>,
   <<"open", "open", "quote", "close", "quote", "close">>,
   <<"open", "quote", "char", "quote", "close">>,
   <<"open">>, <<"close">>, <<"quote">>, <<"backslash">>, <<"char">>, <<"fence">>,
   <<"think">>, <<"unthink">>}

MCContents == {FlattenSeq(ps) : ps \in UNION {[1 .. n -> Pieces] : n \in 0 .. MaxPieces}}
=============================================================================
