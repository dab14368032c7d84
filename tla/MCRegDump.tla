------------------------------ MODULE MCRegDump ------------------------------
(* Every word; the registers hold what tells them apart, and their tags    *)
(* are a word of any value or one whose tags, 0 to 3 from R[0] on and 3 to *)
(* 0 again, no rotation of the stack maps to themselves.                   *)
EXTENDS RegDump

MCWord == 0 .. 65535

MCInit ==
  /\ word \in Word
  /\ TagWord \in {word, \h1BE4}
  /\ RegisterArea = [s \in Register |-> s]
  /\ reply = << >>

MCSpec == MCInit /\ [][Next]_vars
=============================================================================
