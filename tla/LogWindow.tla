------------------------------ MODULE LogWindow ------------------------------
(***************************************************************************)
(* What LogBuffer promises the clients of XAUTO_REQ_GET_LOG, without       *)
(* saying how it is stored or measured: a finite map from absolute indices *)
(* to messages.  Indices are handed out consecutively, an index means the  *)
(* same message until that message is dropped, messages are dropped oldest *)
(* first, at most MAX_ENTRIES are kept, and a reset starts again at 0.     *)
(***************************************************************************)
EXTENDS Integers

CONSTANTS Message, MAX_ENTRIES

VARIABLES
  retained,   \* the retained messages, by absolute index
  next        \* the index the next message gets

windowVars == <<retained, next>>

Init ==
  /\ retained = [i \in {} |-> i]
  /\ next = 0

Log(m) ==
  \E oldest \in DOMAIN retained \cup {next} :
    /\ next + 1 - oldest <= MAX_ENTRIES
    /\ retained' = [i \in oldest .. next |-> IF i = next THEN m ELSE retained[i]]
    /\ next' = next + 1

Reset ==
  /\ retained' = [i \in {} |-> i]
  /\ next' = 0

Next == Reset \/ \E m \in Message : Log(m)

Spec == Init /\ [][Next]_windowVars
-----------------------------------------------------------------------------
(* What a client may conclude: the retained indices are consecutive, end   *)
(* with the newest message, and are no more than MAX_ENTRIES; until a      *)
(* reset, an index that stays retained keeps its message, and one that is  *)
(* dropped was older than all that stay.                                   *)
Consecutive ==
  /\ next \in Nat
  /\ \E oldest \in 0 .. next :
       DOMAIN retained = oldest .. next - 1 /\ next - oldest <= MAX_ENTRIES

IndicesKept ==
  [][next' >= next =>
       \A i \in DOMAIN retained, j \in DOMAIN retained \cap DOMAIN retained' :
         /\ retained'[j] = retained[j]
         /\ i \notin DOMAIN retained' => i < j]_windowVars
=============================================================================
