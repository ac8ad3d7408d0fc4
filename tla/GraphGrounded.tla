---------------------------- MODULE GraphGrounded ----------------------------
(***************************************************************************)
(* ExtensionUtils and its two users: GraphBasedGroundedSemanticsSolver     *)
(* (the option --graphBased) and DefaultDungTriathlonSolver (the problem   *)
(* D3), for a framework that does not change.                              *)
(*                                                                         *)
(* groundedExtension: the grounded extension, without any SAT engine, by   *)
(* rounds over a work list from which an argument is taken out as soon as  *)
(* it is accepted or defeated.  The last candidate takes the place of the  *)
(* one taken out, and the index stays where it is.                         *)
(*                                                                         *)
(* The triathlon enumerates the maximal satisfiable subsets of the         *)
(* complete encoding over the argument variables.  By the exactness of     *)
(* this encoding (MssSemantics!EncodingExact, for one variable for each    *)
(* argument as here) they are the preferred extensions, in any order.      *)
(***************************************************************************)
EXTENDS Integers, Sequences, Dung

CONSTANTS
  Arg,      \* the arguments, by their variables
  Order     \* VarMap::intVars

ASSUME OrderAssumption ==
  /\ Order \in Seq(Arg)
  /\ Arg = {Order[k] : k \in DOMAIN Order}
  /\ \A j, k \in DOMAIN Order : Order[j] = Order[k] => j = k

VARIABLES
  attacks,        \* what Attacks::getAttacksTo knows
  candidates,     \* the work list
  i,              \* index in it, from 0
  inExt,          \* arguments accepted
  defeated,       \* arguments attacked by an accepted one
  grExt,          \* the arguments accepted, in order
  didSomething,   \* the round has changed something
  searching       \* inside groundedExtension

workList == <<candidates, i, inExt, defeated, grExt, didSomething, searching>>
graphVars == <<attacks, workList>>

Attackers(x) == {y \in Arg : <<y, x>> \in attacks}

StartSearch ==
  /\ candidates = Order
  /\ i = 0
  /\ inExt = {}
  /\ defeated = {}
  /\ grExt = << >>
  /\ didSomething = FALSE
  /\ searching = TRUE

GraphInit == attacks \in SUBSET (Arg \X Arg) /\ StartSearch

----------------------------------------------------------------------------
(* The rounds *)

Candidate == candidates[i + 1]

\* The attackers that still count for the candidate.
Standing == Attackers(Candidate) \ defeated

InRound == searching /\ i < Len(candidates)

\* The last element of s takes the place of the k-th.
TakenOut(s, k) ==
  [j \in 1..(Len(s) - 1) |-> IF j = k THEN s[Len(s)] ELSE s[j]]

TakeOut ==
  /\ candidates' = TakenOut(candidates, i + 1)
  /\ didSomething' = TRUE
  /\ UNCHANGED <<attacks, i, searching>>

Defeat ==
  /\ InRound
  /\ Standing \cap inExt # {}
  /\ defeated' = defeated \cup {Candidate}
  /\ TakeOut
  /\ UNCHANGED <<inExt, grExt>>

Accept ==
  /\ InRound
  /\ Standing = {}
  /\ inExt' = inExt \cup {Candidate}
  /\ grExt' = Append(grExt, Candidate)
  /\ TakeOut
  /\ UNCHANGED defeated

Skip ==
  /\ InRound
  /\ Standing # {}
  /\ Standing \cap inExt = {}
  /\ i' = i + 1
  /\ UNCHANGED <<attacks, candidates, inExt, defeated, grExt, didSomething, searching>>

RoundOver == searching /\ i = Len(candidates)

\* Mutant: the flag is not reset, so that the rounds never end.
NextRoundFlagged ==
  /\ RoundOver
  /\ didSomething
  /\ i' = 0
  /\ UNCHANGED <<attacks, candidates, inExt, defeated, grExt, didSomething, searching>>

NextRound ==
  /\ RoundOver
  /\ didSomething
  /\ i' = 0
  /\ didSomething' = FALSE
  /\ UNCHANGED <<attacks, candidates, inExt, defeated, grExt, searching>>

\* Mutant: one round is enough.
EndSearchAtOnce ==
  /\ RoundOver
  /\ searching' = FALSE
  /\ UNCHANGED <<attacks, candidates, i, inExt, defeated, grExt, didSomething>>

EndSearch ==
  /\ RoundOver
  /\ ~didSomething
  /\ searching' = FALSE
  /\ UNCHANGED <<attacks, candidates, i, inExt, defeated, grExt, didSomething>>

SearchStep ==
  \/ Defeat
  \/ Accept
  \/ Skip
  \/ NextRound
  \/ EndSearch

GraphSpec == GraphInit /\ [][SearchStep]_graphVars

----------------------------------------------------------------------------
(* isMaxRange *)

\* Mutant: the argument's own membership is not asked.
RangeIsAllOutside(S) ==
  \A x \in Arg : \E y \in S : <<y, x>> \in attacks

IsMaxRange(S) ==
  \A x \in Arg : x \in S \/ \E y \in S : <<y, x>> \in attacks

----------------------------------------------------------------------------
\* Each argument is accepted, defeated or a candidate, and never two of them
\* nor twice, whatever the shuffling of the list.
WorkListOK ==
  /\ attacks \subseteq Arg \X Arg
  /\ candidates \in Seq(Arg)
  /\ i \in 0..Len(candidates)
  /\ inExt \subseteq Arg /\ defeated \subseteq Arg
  /\ grExt \in Seq(Arg) /\ {grExt[k] : k \in DOMAIN grExt} = inExt
  /\ didSomething \in BOOLEAN /\ searching \in BOOLEAN
  /\ inExt \cap defeated = {}
  /\ {candidates[k] : k \in DOMAIN candidates} = Arg \ (inExt \cup defeated)
  /\ \A j, k \in DOMAIN candidates : candidates[j] = candidates[k] => j = k

\* groundedExtension returns the least complete extension, whatever the order
\* of the variables and of the attackers lists.
GroundedExact == ~searching => inExt = Grounded(Arg, attacks)

----------------------------------------------------------------------------
(* Its two users *)

CONSTANT Tasks      \* bound: a subset of {"SE", "EE", "DC", "DS", "D3"}

VARIABLES
  task, query,      \* the task, acceptanceQueryArgument
  stage,            \* "grounded", "msses", "ranges", "returned"
  allMss,           \* MssSolver::getAllMss
  asked,            \* how many of them isMaxRange has been asked of
  stExts,           \* those of which it has said yes
  written,          \* the extensions given to the formatter, by heading
  answer            \* the acceptance given to it, or "none"

triathlon == <<allMss, asked, stExts>>
call == <<task, query, stage, triathlon, written, answer>>
solverVars == <<graphVars, call>>

Headings == {"extensions", "grounded", "stable", "preferred"}

Nothing == [h \in Headings |-> << >>]

SolverInit ==
  /\ GraphInit
  /\ task \in Tasks
  /\ query \in Arg
  /\ task \notin {"DC", "DS"} => query = Order[1]
  /\ stage = "grounded"
  /\ allMss = << >> /\ asked = 0 /\ stExts = << >>
  /\ written = Nothing
  /\ answer = "none"

----------------------------------------------------------------------------
(* What follows groundedExtension *)

Grounding == SearchStep /\ UNCHANGED call

Ready == stage = "grounded" /\ ~searching

WriteGrounded ==
  /\ Ready
  /\ task \in {"SE", "EE"}
  /\ written' = [written EXCEPT !["extensions"] = <<inExt>>]
  /\ stage' = "returned"
  /\ UNCHANGED <<graphVars, task, query, triathlon, answer>>

\* Mutant: any argument of the list is taken for the query.
FirstDecides == IF grExt = << >> THEN "NO" ELSE "YES"

\* The return is outside the if, so that the loop over the list ends in its
\* first round: unless the first argument is the query, no answer is written.
Membership ==
  IF grExt = << >> THEN "NO" ELSE IF grExt[1] = query THEN "YES" ELSE "none"

WriteAcceptance ==
  /\ Ready
  /\ task \in {"DC", "DS"}
  /\ answer' = Membership
  /\ stage' = "returned"
  /\ UNCHANGED <<graphVars, task, query, triathlon, written>>

\* writeD3GrExts, then computeAllMss.
StartTriathlon ==
  /\ Ready
  /\ task = "D3"
  /\ written' = [written EXCEPT !["grounded"] = <<inExt>>]
  /\ stage' = "msses"
  /\ UNCHANGED <<graphVars, task, query, triathlon, answer>>

NewMsses == Preferred(Arg, attacks) \ {allMss[k] : k \in DOMAIN allMss}

EnumerateMss ==
  /\ stage = "msses"
  /\ \E S \in NewMsses : allMss' = Append(allMss, S)
  /\ UNCHANGED <<graphVars, task, query, stage, asked, stExts, written, answer>>

MssesDone ==
  /\ stage = "msses"
  /\ NewMsses = {}
  /\ stage' = "ranges"
  /\ UNCHANGED <<graphVars, task, query, triathlon, written, answer>>

\* The stable extensions are picked from all of them.
AskRange ==
  /\ stage = "ranges"
  /\ asked < Len(allMss)
  /\ LET S == allMss[asked + 1]
     IN  stExts' = IF IsMaxRange(S) THEN Append(stExts, S) ELSE stExts
  /\ asked' = asked + 1
  /\ UNCHANGED <<graphVars, task, query, stage, allMss, written, answer>>

EndTriathlon ==
  /\ stage = "ranges"
  /\ asked = Len(allMss)
  /\ written' = [written EXCEPT !["stable"] = stExts, !["preferred"] = allMss]
  /\ stage' = "returned"
  /\ UNCHANGED <<graphVars, task, query, triathlon, answer>>

SolverNext ==
  \/ Grounding
  \/ WriteGrounded
  \/ WriteAcceptance
  \/ StartTriathlon
  \/ EnumerateMss
  \/ MssesDone
  \/ AskRange
  \/ EndTriathlon

SolverSpec == SolverInit /\ [][SolverNext]_solverVars /\ WF_solverVars(SolverNext)

----------------------------------------------------------------------------
Lists(seq, sets) ==
  /\ {seq[k] : k \in DOMAIN seq} = sets
  /\ \A j, k \in DOMAIN seq : seq[j] = seq[k] => j = k

\* What is written under each heading is what the heading says, each extension
\* once: the stable ones are found among the maximal sets by their range alone.
WrittenCorrect ==
  stage = "returned" =>
    IF task = "D3"
      THEN /\ Lists(written["grounded"], {Grounded(Arg, attacks)})
           /\ Lists(written["stable"], Stable(Arg, attacks))
           /\ Lists(written["preferred"], Preferred(Arg, attacks))
      ELSE task \in {"SE", "EE"} =>
             Lists(written["extensions"], {Grounded(Arg, attacks)})

\* An acceptance that is written is right.
AnswerTruthful ==
  /\ answer = "YES" => query \in Grounded(Arg, attacks)
  /\ answer = "NO"  => query \notin Grounded(Arg, attacks)

\* The work list, the enumeration and the task end.
TaskEnds == <>(stage = "returned")
=============================================================================
