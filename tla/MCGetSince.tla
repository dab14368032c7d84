----------------------------- MODULE MCGetSince ------------------------------
(* A log of three entries and four bytes, of messages that are empty, that *)
(* fit several times and that exceed the cap alone, and get_since called   *)
(* on each of its states with every small argument.                        *)
EXTENDS GetSince

CONSTANTS a, b, MaxHistory

MCMessage == {<< >>, <<a>>, <<b, a>>, <<b, a, a, b, b>>}
MCFilter == {NoFilter, {b}}

MCNext ==
  \/ AppendOrClear /\ Len(history') <= MaxHistory
  \/ Enter
  \/ Skip
  \/ Take
  \/ Count
  \/ Return

MCSpec == LoopInit /\ [][MCNext]_loopVars
=============================================================================
