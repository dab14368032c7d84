--------------------------- MODULE SessionDirectory ---------------------------
(***************************************************************************)
(* What the session files promise a client that looks for a session,       *)
(* without saying how files are written, ports bound or sessions ended: a  *)
(* directory with at most one listing per process.  A session comes up and *)
(* is listed in one step, with two ports no other session has, or with 0   *)
(* for one that only the operating system knows; its listing stays as long *)
(* as it is up, may outlast it, and is gone before the next session of     *)
(* that process is listed.                                                 *)
(***************************************************************************)
EXTENDS Integers

CONSTANTS Process, Port, None

VARIABLES
  up,         \* the ports <<rep, pub>> of each process's session, or None
  listing     \* the two ports a client finds listed for it, or None

directoryVars == <<up, listing>>

Init ==
  /\ up = [p \in Process |-> None]
  /\ listing = [p \in Process |-> None]

Taken == UNION {{up[p][1], up[p][2]} : p \in {q \in Process : up[q] # None}}

(* 0 is no port: it may stand for several. *)
Entry == {ports \in (Port \cup {0}) \X (Port \cup {0}) : ports[1] = ports[2] => ports[1] = 0}

Publish(p) ==
  LET entry == listing'[p]
  IN /\ up[p] = None /\ listing[p] = None
     /\ entry \in Entry /\ {entry[1], entry[2]} \cap Taken \subseteq {0}
     /\ up' = [up EXCEPT ![p] = entry]
     /\ listing' = [listing EXCEPT ![p] = entry]

(* The session is stopped, or its process dies. *)
Close(p) ==
  /\ up[p] # None
  /\ up' = [up EXCEPT ![p] = None]
  /\ UNCHANGED listing

Unlist(p) ==
  /\ up[p] = None
  /\ listing' = [listing EXCEPT ![p] = None]
  /\ UNCHANGED up

Next == \E p \in Process : Publish(p) \/ Close(p) \/ Unlist(p)

Spec == Init /\ [][Next]_directoryVars
-----------------------------------------------------------------------------
(* What a client may conclude: a session that is up is listed, with its    *)
(* own two ports as far as they are known, and no other session that is up *)
(* has either of them.                                                     *)
ListedRight ==
  \A p \in Process : up[p] # None =>
    /\ listing[p] = up[p]
    /\ up[p][1] = up[p][2] => up[p][1] = 0
    /\ \A q \in Process :
         up[q] # None /\ p # q => {up[p][1], up[p][2]} \cap {up[q][1], up[q][2]} \subseteq {0}
=============================================================================
