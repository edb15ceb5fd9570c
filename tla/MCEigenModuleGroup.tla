------------------------- MODULE MCEigenModuleGroup -------------------------
(***************************************************************************)
(* An instance of EigenModuleGroup, a group of two modules, and one of     *)
(* EigenVariable: texts of which some are no number, and some none for a   *)
(* byte.  What a group polls and what it shows share no state, and a       *)
(* behaviour has one of the two move.                                      *)
(***************************************************************************)
EXTENDS EigenModuleGroup, EigenVariable

MCLists == {<<"02", "01">>}

MCSetupPolls == {<<"status", "FF">>}

MCKeys == MCSetupPolls \cup ((Kinds \cup Writes) \X Modules)

CONSTANTS nil, t05, tFF   \* the empty text and others

MCTexts == {nil, t05, tFF}
MCHex == [t \in MCTexts |-> CASE t = t05 -> 5 [] t = tFF -> 255 [] OTHER -> None]
MCDec == [t \in MCTexts |-> IF t = t05 THEN 5 ELSE None]

\* TLC has no number as large as the largest uint32; no text comes near it.
MCTop == [type \in Short |-> CASE type = "uint8" -> 255 [] type = "uint16" -> 65535 [] OTHER -> 2147483646]

CONSTANT MaxAlone   \* bound: calls without a group, and steps back of the clock, beside a group

VARIABLES
  moves,            \* which part moves
  alone             \* calls without a group, and steps back of the clock, so far

MCInit == Init /\ VariableInit /\ moves \in {"groups", "alone", "variables"} /\ alone = 0

\* An application with a group does a few things without it.
Together ==
  \/ (Course \/ AppStep \/ AppReturn \/ \E g \in Groups : GroupCalls(g)) /\ UNCHANGED alone
  \/ (SingleCalls \/ ClockIsSet) /\ alone < MaxAlone /\ alone' = alone + 1

MCNext ==
  /\ \/ moves = "groups" /\ Together /\ UNCHANGED variableVars
     \/ moves = "alone" /\ (Course \/ SingleCalls \/ ClockIsSet) /\ UNCHANGED <<variableVars, alone>>
     \/ moves = "variables" /\ VariableNext /\ UNCHANGED <<vars, alone>>
  /\ UNCHANGED moves

MCSpec == MCInit /\ [][MCNext]_<<vars, variableVars, moves, alone>>

\* In a behaviour of the polls.
MCFairSpec ==
  MCSpec /\ WF_vars(moves # "variables" /\ ServiceStep) /\ WF_vars(moves # "variables" /\ TimePasses)
=============================================================================
