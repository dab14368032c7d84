----------------------------- MODULE MCLogClient -----------------------------
(* A log of two retained entries and two clients: c1 reads everything, c2  *)
(* only the lines that contain its filter.                                 *)
EXTENDS LogClient

CONSTANTS a, b, c1, c2, MaxHistory, MaxSession

MCMessage == {<<a>>, <<b, a>>}
MCFilterOf == [c \in Client |-> IF c = c1 THEN NoFilter ELSE {b}]

MCNext ==
  \/ Len(history) < MaxHistory /\ LogMessage
  \/ session < MaxSession /\ InitDebug
  \/ \E c \in Client : get_log(c)
  \/ \E c \in Client : Receive(c)

MCSpec == ClientInit /\ [][MCNext]_vars

(* The REP loop serves every request and a client goes on paging. *)
FairMCSpec ==
  /\ MCSpec
  /\ \A c \in Client : WF_vars(get_log(c)) /\ WF_vars(Receive(c))

(* Paging terminates: once the log is quiet every client reaches its end   *)
(* and stays there, whatever limits it uses and whatever stale cursor it   *)
(* brought along.                                                          *)
CatchesUp == \A c \in Client : <>[](cursor[c] = End)
=============================================================================
