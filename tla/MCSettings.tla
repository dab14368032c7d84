------------------------------ MODULE MCSettings ------------------------------
(* Ports 0 to 2, of which 1 and 2 are the defaults and dynamic as well; the *)
(* settings may hold any number up to one past the last of them, and a user *)
(* may type the one that follows.                                          *)
EXTENDS Settings

CONSTANT p1

MCDynamic == Port

MCNumber == 0 .. PORTS + 1

MCSetting == [mode : {"local", "remote"}, req : 0 .. PORTS, pub : 0 .. PORTS]

(* Settings of no port, or of one that is the other's default; clients     *)
(* write the mode, and a REP port that is cast to 0.                       *)
MCSettingsInit == SettingsInit /\ ini \in [mode : {"local", "remote"}, req : {0, 2}, pub : {0, 1}]

(* No port is taken by others, or given back before the process stops, and *)
(* no line of a session file fails: the settings do not depend on it.      *)
MCSettingsNext ==
  \/ \E p \in Process : busy = {} /\ Load(p)
  \/ \E p \in Process : SessionStep(p) /\ cut_short' = {}
  \/ \E p \in Process : Open(p)
  \/ \E p \in Process : Edit(p)
  \/ \E p \in Process : Ok(p)
  \/ \E p \in Process : Flush(p)
  \/ \E p \in Process : Cancel(p)
  \/ \E p \in Process : /\ ClientWrites(p)
                       /\ store'[p].req \in {store[p].req, PORTS}
                       /\ store'[p].pub = store[p].pub
  \/ \E p \in Process : Exit(p)
  \/ \E p \in Process : Die(p)
  \/ GivenBack /\ UNCHANGED <<pc, setting, sessionPorts, sockets, file, histories, settings>>

MCSettingsSpec == MCSettingsInit /\ [][MCSettingsNext]_<<vars, settings>>
=============================================================================
