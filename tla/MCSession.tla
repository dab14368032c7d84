------------------------------ MODULE MCSession -------------------------------
(* Two pids, ports 0 to 4 of which 3 and 4 are dynamic, defaults 1 and 2;   *)
(* local mode, remote mode with its defaults, and remote mode with the     *)
(* default of the other socket, beyond the width of a port, and a port     *)
(* that is cast to 0.                                                      *)
(* At most MaxBusy ports are taken when others take or free one.           *)
EXTENDS Session, TLC

CONSTANTS p1, p2, MaxBusy

MCDynamic == 3 .. 4

Local     == [mode |-> "local",  req |-> 0,     pub |-> 0]
Defaults  == [mode |-> "remote", req |-> 0,     pub |-> 0]
Wide      == [mode |-> "remote", req |-> 5 + 2, pub |-> 5]

MCSetting == {Local, Defaults, Wide}

LocalOnly == {Local}

(* Processes are told apart only by being different. *)
MCSymmetry == Permutations(Process)

MCNext ==
  \/ \E p \in Process : Start(p)
  \/ \E p \in Process : BindRep(p)
  \/ \E p \in Process : BindPub(p)
  \/ \E p \in Process : BindThrows(p)
  \/ \E p \in Process : OpenFile(p)
  \/ \E p \in Process : WriteLine(p)
  \/ \E p \in Process : CloseRep(p)
  \/ \E p \in Process : ClosePub(p)
  \/ \E p \in Process : RemoveFile(p)
  \/ \E p \in Process : Crash(p)
  \/ Environment /\ Cardinality(busy') <= MaxBusy

MCSpec == Init /\ [][MCNext]_vars

FairMCSpec == MCSpec /\ Fairness
=============================================================================
