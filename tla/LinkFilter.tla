----------------------------- MODULE LinkFilter ------------------------------
(***************************************************************************)
(* MustJobLinkURL of internal/validators decides whether a link of a       *)
(* career page is a job: it must stay on the site or lead to a known       *)
(* applicant tracking system, and the words of its text and address must   *)
(* score enough.  The words come one by one, so that the decisions before  *)
(* and after another word can be compared.  Shares are kept in percent and *)
(* compared exactly by multiplying out; the code divides floats.  No word   *)
(* is both a good and a bad keyword.                                       *)
(***************************************************************************)
EXTENDS Naturals, FiniteSets, Functions

CONSTANTS GoodWords,  \* the set of good keywords
          Threshold,  \* heuristicThr, in percent
          WordBound   \* words of each kind that are followed

ASSUME FilterAssumption ==
  /\ IsFiniteSet(GoodWords)
  /\ Threshold \in 0..100
  /\ WordBound \in Nat

VARIABLES href,      \* what badHrefLite (empty, #, mailto:, .pdf, ...) and the
                     \* scope make of the address
          hardExcl,  \* hardExcludeOnBad
          good,      \* how often each good word occurs
          bad, other \* how many bad and other words there are

filterVars == <<href, hardExcl, good, bad, other>>

FilterInit ==
  /\ href \in {"unfit", "elsewhere", "onSite", "knownATS"}
  /\ hardExcl \in BOOLEAN
  /\ good = [w \in GoodWords |-> 0]
  /\ bad = 0 /\ other = 0

badHrefLite == href = "unfit"
InScope == href \in {"onSite", "knownATS"}

Capped(n, max) == IF n > max THEN max ELSE n

jobGood == SumFunctionOnSet(good, GoodWords)
words == jobGood + bad + other
uniq == Cardinality({w \in GoodWords : good[w] > 0})
goods == IF GoodWords = {} THEN 1 ELSE Cardinality(GoodWords)

\* A repeated good word counts once among the good ones (mutant).
ScoresEnoughOnce ==
  \/ Threshold = 0
  \/ /\ words > 0
     /\ 65 * uniq * goods + 35 * uniq * words
          >= (Threshold + Capped(15 * bad, 60)) * words * goods

\* HeuristicMatchScore(combined, good, bad) >= heuristicThr: 65 percent for
\* the share of good words among the words, 35 for the share of the good words
\* that occur, less 15 for each bad word and no more than 60.
ScoresEnough ==
  \/ Threshold = 0
  \/ /\ words > 0
     /\ 65 * jobGood * goods + 35 * uniq * words
          >= (Threshold + Capped(15 * bad, 60)) * words * goods

MustJobLinkURL ==
  /\ ~badHrefLite
  /\ InScope
  /\ hardExcl => bad = 0
  /\ ScoresEnough

ReadGood(w) ==
  /\ good[w] < WordBound
  /\ good' = [good EXCEPT ![w] = @ + 1]
  /\ UNCHANGED <<href, hardExcl, bad, other>>

ReadBad ==
  /\ bad < WordBound
  /\ bad' = bad + 1
  /\ UNCHANGED <<href, hardExcl, good, other>>

ReadOther ==
  /\ other < WordBound
  /\ other' = other + 1
  /\ UNCHANGED <<href, hardExcl, good, bad>>

FilterNext == (\E w \in GoodWords : ReadGood(w)) \/ ReadBad \/ ReadOther

FilterSpec == FilterInit /\ [][FilterNext]_filterVars

------------------------------------------------------------------------------

\* The score mixes two shares and a penalty with two caps, and yet every word
\* counts the way it should: another good word, new or repeated, never loses a
\* link, another bad or neutral one never wins it (heuristic.go:5).
WordsCountTheRightWay ==
  [][/\ good' # good /\ MustJobLinkURL => MustJobLinkURL'
     /\ good' = good /\ MustJobLinkURL' => MustJobLinkURL]_filterVars
==============================================================================
