------------------------------ MODULE MCPhones -------------------------------
(* Up to three words: a mobile number in one group, in two, or spread over   *)
(* three words; the same with the country's code; a landline; a number with  *)
(* a sign that makes it none; a word without digits.                         *)
EXTENDS Phones

Word(s, t, gs) == [sign |-> s, tel |-> t, groups |-> gs]

Words == {Word("", FALSE, <<<<0, 5, 4, 1, 2, 3, 4, 5, 6, 7>>>>),
          Word("", TRUE, <<<<0, 5, 2>>, <<7, 6, 5, 4, 3, 2, 1>>>>),
          Word("", FALSE, <<<<0, 5, 4>>>>), Word("", FALSE, <<<<1, 2, 3>>>>),
          Word("", FALSE, <<<<4, 5, 6, 7>>>>),
          Word("+", FALSE, <<<<9, 7, 2>>, <<5, 4, 1, 2, 3, 4, 5, 6, 7>>>>),
          Word("", TRUE, <<<<0, 2>>, <<1, 2, 3>>, <<4, 5, 6, 7>>>>),
          Word("-", FALSE, <<<<0, 5, 4, 1, 2, 3, 4, 5, 6, 7>>>>),
          None}

MCParagraphs == UNION {[1..n -> Words] : n \in 1..3}
=============================================================================
