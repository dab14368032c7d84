------------------------------- MODULE Session --------------------------------
(***************************************************************************)
(* Sessions of several x64dbg processes on one machine: acquire_session    *)
(* and release_session, the TCP ports they compete for, and the session    *)
(* files xauto_session.<pid>.lock by which clients find a session.         *)
(*                                                                         *)
(* A process is its pid.  It may crash at any step; a new process, or the  *)
(* plugin loaded again, may then run under the same pid and find the file  *)
(* that was left behind.  The addresses sessions bind to overlap, so a     *)
(* port is bound once.  A session file is the sequence of its lines, each  *)
(* flushed as it is written; a flush that fails leaves none of its line.   *)
(***************************************************************************)
EXTENDS Integers, Sequences, FiniteSets

CONSTANTS
  Process,
  PORTS,              \* 65536, the range of a uint16_t
  Dynamic,            \* 0xc000 .. 0xFFFF, also the system's ephemeral ports
  DEFAULT_REQ, DEFAULT_PUB,
                      \* 27066 and 27067
  Setting,            \* what x64dbg's settings may hold: mode and ports
  Address,            \* the third line of a session file, bind_address
  None

Port == 1 .. PORTS - 1

ASSUME SessionAssumption ==
  /\ PORTS \in Nat \ {0}
  /\ Dynamic \subseteq Port
  /\ {DEFAULT_REQ, DEFAULT_PUB} \subseteq Port
  /\ Setting \subseteq [mode : {"local", "remote"}, req : Nat, pub : Nat]
  /\ None \notin Nat \cup Seq(Nat \cup {Address})

VARIABLES
  pc,                 \* where each process is in the life of its session
  setting,            \* the settings it has read, or None
  sess_req_rep_port, sess_pub_sub_port,
  rep_at, pub_at,     \* the port each socket is bound to, or None
  busy,               \* ports bound by other programs, or closed by a
                      \* session and not yet given back by ZeroMQ
  file,               \* the lines of each process's session file, or None
  unclean,            \* history: the pids whose last process crashed, or
                      \* failed to remove its file
  cut_short           \* history: the processes that failed to write a line

sockets == <<rep_at, pub_at>>
sessionPorts == <<sess_req_rep_port, sess_pub_sub_port>>
histories == <<unclean, cut_short>>
vars == <<pc, setting, sessionPorts, sockets, busy, file, histories>>

Init ==
  /\ pc = [p \in Process |-> "none"]
  /\ setting = [p \in Process |-> None]
  /\ sess_req_rep_port = [p \in Process |-> 0]
  /\ sess_pub_sub_port = [p \in Process |-> 0]
  /\ rep_at = [p \in Process |-> None]
  /\ pub_at = [p \in Process |-> None]
  /\ busy = {}
  /\ file = [p \in Process |-> None]
  /\ unclean = {} /\ cut_short = {}

InUse == busy \cup {rep_at[p] : p \in Process} \cup {pub_at[p] : p \in Process}

Goto(p, at) == pc' = [pc EXCEPT ![p] = at]

-----------------------------------------------------------------------------
(* acquire_session.                                                        *)

Start(p) ==
  /\ pc[p] = "none"
  /\ Goto(p, "bind_rep")
  /\ \E s \in Setting : setting' = [setting EXCEPT ![p] = s]
  /\ UNCHANGED <<sessionPorts, sockets, busy, file, histories>>

(* The process is gone, and its server object with it. *)
End(p) ==
  /\ Goto(p, "none")
  /\ setting' = [setting EXCEPT ![p] = None]
  /\ sess_req_rep_port' = [sess_req_rep_port EXCEPT ![p] = 0]
  /\ sess_pub_sub_port' = [sess_pub_sub_port EXCEPT ![p] = 0]
  /\ cut_short' = cut_short \ {p}

\* mutant of Draws: every draw is the same
DrawsOnce == {CHOOSE port \in Dynamic : TRUE}

(* _random_port. *)
Draws == Dynamic

\* mutant of PortOf: no cast to uint16_t
PortUncast(configured, default) == IF configured = 0 THEN default ELSE configured

(* 0 stands for the default, and a duint is cast to uint16_t. *)
PortOf(configured, default) == (IF configured = 0 THEN default ELSE configured) % PORTS

(* The port asked for: drawn at random in local mode, configured in remote *)
(* mode.                                                                   *)
Wanted(p, configured, default) ==
  IF setting[p].mode = "local" THEN Draws ELSE {PortOf(configured, default)}

(* A port a socket gets when it asks for `wanted`: ZeroMQ lets the system  *)
(* choose when that is 0.                                                  *)
Bindable(wanted) == (IF wanted = 0 THEN Dynamic ELSE {wanted}) \ InUse

BindRep(p) ==
  /\ pc[p] = "bind_rep"
  /\ \E wanted \in Wanted(p, setting[p].req, DEFAULT_REQ) :
       /\ sess_req_rep_port' = [sess_req_rep_port EXCEPT ![p] = wanted]
       /\ \E port \in Bindable(wanted) : rep_at' = [rep_at EXCEPT ![p] = port]
  /\ Goto(p, "bind_pub")
  /\ UNCHANGED <<setting, sess_pub_sub_port, pub_at, busy, file, histories>>

BindPub(p) ==
  /\ pc[p] = "bind_pub"
  /\ \E wanted \in Wanted(p, setting[p].pub, DEFAULT_PUB) :
       /\ sess_pub_sub_port' = [sess_pub_sub_port EXCEPT ![p] = wanted]
       /\ \E port \in Bindable(wanted) : pub_at' = [pub_at EXCEPT ![p] = port]
  /\ Goto(p, "open_file")
  /\ UNCHANGED <<setting, sess_req_rep_port, rep_at, busy, file, histories>>

Closed(p) == {rep_at[p], pub_at[p]} \ {None}

\* mutant of BindThrows: remote mode goes on after a failed bind
BindThrowsGoesOn(p) ==
  /\ pc[p] \in {"bind_rep", "bind_pub"}
  /\ Goto(p, IF pc[p] = "bind_rep" THEN "bind_pub" ELSE "open_file")
  /\ UNCHANGED <<setting, sessionPorts, sockets, busy, file, histories>>

(* A bind throws: the port is taken, or ZeroMQ cannot bind for any other   *)
(* reason.  Local mode draws again; remote mode closes both sockets and    *)
(* gives up.  The port it wanted is read no more, and left out.            *)
BindThrows(p) ==
  /\ pc[p] \in {"bind_rep", "bind_pub"}
  /\ IF setting[p].mode = "local"
     THEN UNCHANGED <<pc, sockets, busy>>
     ELSE /\ Goto(p, "failed")
          /\ rep_at' = [rep_at EXCEPT ![p] = None]
          /\ pub_at' = [pub_at EXCEPT ![p] = None]
          /\ busy' = busy \cup Closed(p)
  /\ UNCHANGED <<setting, sessionPorts, file, histories>>

\* mutant of Opened: the lines of a file that is there are kept
OpenedToAppend(p) == IF file[p] = None THEN << >> ELSE file[p]

Opened(p) == << >>

(* Opening the file empties one that is there, or fails.  Both sockets     *)
(* stay bound when it fails.                                               *)
OpenFile(p) ==
  /\ pc[p] = "open_file"
  /\ \/ Goto(p, "write_file") /\ file' = [file EXCEPT ![p] = Opened(p)]
     \/ Goto(p, "failed") /\ UNCHANGED file
  /\ UNCHANGED <<setting, sessionPorts, sockets, busy, histories>>

\* mutant of Lines: swapped
LinesSwapped(p) == <<sess_pub_sub_port[p], sess_req_rep_port[p], Address>>

Lines(p) == <<sess_req_rep_port[p], sess_pub_sub_port[p], Address>>

(* The next line, or none any more: a write that fails makes the stream    *)
(* ignore the others, and acquire_session returns TRUE all the same.       *)
WriteLine(p) ==
  /\ pc[p] = "write_file"
  /\ \/ /\ \E n \in 1 .. 3 :
             /\ Len(file[p]) = n - 1
             /\ file' = [file EXCEPT ![p] = Append(@, Lines(p)[n])]
             /\ IF n = 3 THEN Goto(p, "running") ELSE UNCHANGED pc
        /\ UNCHANGED cut_short
     \/ Goto(p, "running") /\ cut_short' = cut_short \cup {p} /\ UNCHANGED file
  /\ UNCHANGED <<setting, sessionPorts, sockets, busy, unclean>>

-----------------------------------------------------------------------------
(* release_session, which plugstop calls whether or not there is a session.*)

CloseRep(p) ==
  /\ pc[p] \in {"running", "failed"}
  /\ Goto(p, "close_pub")
  /\ rep_at' = [rep_at EXCEPT ![p] = None]
  /\ busy' = busy \cup ({rep_at[p]} \ {None})
  /\ UNCHANGED <<setting, sessionPorts, pub_at, file, histories>>

ClosePub(p) ==
  /\ pc[p] = "close_pub"
  /\ Goto(p, "remove_file")
  /\ pub_at' = [pub_at EXCEPT ![p] = None]
  /\ busy' = busy \cup ({pub_at[p]} \ {None})
  /\ UNCHANGED <<setting, sessionPorts, rep_at, file, histories>>

\* mutant of RemoveFile: forgets the file
RemoveNothing(p) ==
  /\ pc[p] = "remove_file" /\ End(p) /\ unclean' = unclean \ {p}
  /\ UNCHANGED <<sockets, busy, file>>

(* _wremove fails when there is no file, or when somebody has it open. *)
RemoveFile(p) ==
  /\ pc[p] = "remove_file"
  /\ End(p)
  /\ \/ file' = [file EXCEPT ![p] = None] /\ unclean' = unclean \ {p}
     \/ file[p] # None /\ unclean' = unclean \cup {p} /\ UNCHANGED file
  /\ UNCHANGED <<sockets, busy>>

-----------------------------------------------------------------------------
(* The system frees the ports of a process that dies; nobody frees its     *)
(* session file.                                                           *)
Crash(p) ==
  /\ pc[p] # "none"
  /\ End(p)
  /\ rep_at' = [rep_at EXCEPT ![p] = None]
  /\ pub_at' = [pub_at EXCEPT ![p] = None]
  /\ unclean' = unclean \cup {p}
  /\ UNCHANGED <<busy, file>>

OthersBind == \E port \in Port \ InUse : busy' = busy \cup {port}

GivenBack == \E port \in busy : busy' = busy \ {port}

Environment ==
  /\ OthersBind \/ GivenBack
  /\ UNCHANGED <<pc, setting, sessionPorts, sockets, file, histories>>

Acquire(p) == BindRep(p) \/ BindPub(p) \/ BindThrows(p) \/ OpenFile(p) \/ WriteLine(p)

Release(p) == CloseRep(p) \/ ClosePub(p) \/ RemoveFile(p)

Next ==
  \/ \E p \in Process : Start(p) \/ Acquire(p) \/ Release(p) \/ Crash(p)
  \/ Environment

Spec == Init /\ [][Next]_vars

(* Every draw may be any port of Dynamic, so a port that is free again and *)
(* again is drawn in the end: the binds are strongly fair.                 *)
Fairness == \A p \in Process : SF_vars(BindRep(p)) /\ SF_vars(BindPub(p))

FairSpec == Spec /\ Fairness

-----------------------------------------------------------------------------
TypeOK ==
  /\ pc \in [Process -> {"none", "bind_rep", "bind_pub", "open_file", "write_file",
                         "running", "failed", "close_pub", "remove_file"}]
  /\ setting \in [Process -> Setting \cup {None}]
  /\ sess_req_rep_port \in [Process -> 0 .. PORTS - 1]
  /\ sess_pub_sub_port \in [Process -> 0 .. PORTS - 1]
  /\ rep_at \in [Process -> Port \cup {None}]
  /\ pub_at \in [Process -> Port \cup {None}]
  /\ busy \subseteq Port
  /\ file \in [Process -> Seq((0 .. PORTS - 1) \cup {Address}) \cup {None}]
  /\ unclean \subseteq Process /\ cut_short \subseteq Process

(* A configured multiple of 65536 is cast to 0: the socket gets a port     *)
(* that the system chooses, and that the server does not know.             *)
CastToZero(p, configured) ==
  setting[p].mode = "remote" /\ configured # 0 /\ configured % PORTS = 0

(* What can be told of the port a socket is bound to. *)
Known(p, configured, bound) == IF CastToZero(p, configured) THEN 0 ELSE bound

KnownRep(p) == Known(p, setting[p].req, rep_at[p])
KnownPub(p) == Known(p, setting[p].pub, pub_at[p])

(* What a client relies on: the file of a session that is up names, in     *)
(* this order, the ports its REP and its PUB socket are bound to, and no   *)
(* other session has them; whatever its pid's earlier processes left       *)
(* behind, and whoever competed for the ports.  Only a configured multiple *)
(* of 65536 is named as 0, and only a failed write leaves lines out, the   *)
(* last ones.                                                              *)
FileNamesItsSockets ==
  \A p \in Process : pc[p] = "running" =>
    /\ IF p \in cut_short THEN Len(file[p]) < 3 ELSE Len(file[p]) = 3
    /\ \A n \in 1 .. Len(file[p]) : file[p][n] = <<KnownRep(p), KnownPub(p), Address>>[n]
    /\ rep_at[p] # None /\ pub_at[p] # None /\ rep_at[p] # pub_at[p]
    /\ \A q \in Process : {rep_at[p], pub_at[p]} \cap {rep_at[q], pub_at[q]} # {} => p = q

(* A client that reads two ports in a file is not led to another session   *)
(* unless the file is a leftover: its process is stopping, or an earlier   *)
(* one of its pid crashed or could not remove it.                          *)
LeadsAstrayOnlyWhenStale ==
  \A p, q \in Process :
    /\ p # q
    /\ pc[q] = "running"
    /\ file[p] # None /\ Len(file[p]) >= 2
    /\ {file[p][1], file[p][2]} \cap {rep_at[q], pub_at[q]} # {}
    => p \in unclean \/ pc[p] \in {"close_pub", "remove_file"}

(* "Is another instance already running in remote mode on the same ports?":*)
(* two sessions whose remote configurations share a port are never up      *)
(* together, also when one of them spells out the default, swaps the ports *)
(* or needs the cast to say the same.                                      *)
Configured(p) ==
  Wanted(p, setting[p].req, DEFAULT_REQ) \cup Wanted(p, setting[p].pub, DEFAULT_PUB)

RemoteSession(p) == pc[p] = "running" /\ setting[p].mode = "remote"

RemoteExclusive ==
  \A p, q \in Process :
    RemoteSession(p) /\ RemoteSession(q) /\ p # q
      => Configured(p) \cap Configured(q) \subseteq {0}

(* A session file outlives its process only after a crash or a failed      *)
(* removal: every other end, that of a failed acquisition under a reused   *)
(* pid included, leaves none, and clears away what it found.               *)
LeftoverOnlyWhenUnclean ==
  \A p \in Process : pc[p] = "none" /\ file[p] # None => p \in unclean

(* Every step of the processes is a step of the directory that module      *)
(* SessionDirectory promises, or changes nothing there.  A session is up   *)
(* from the moment its file is complete to the closing of its first socket *)
(* or its crash; a listing is a file with all of its lines.                *)
Whole(p) == file[p] # None /\ Len(file[p]) = 3

Up == [p \in Process |->
         IF pc[p] = "running" /\ Whole(p) THEN <<KnownRep(p), KnownPub(p)>> ELSE None]

Listing == [p \in Process |-> IF Whole(p) THEN <<file[p][1], file[p][2]>> ELSE None]

Directory == INSTANCE SessionDirectory WITH up <- Up, listing <- Listing

ImplementsDirectory == Directory!Spec

(* Local mode gets its two ports however often a draw hits a taken one, as *)
(* long as the dynamic ports are not taken for good.                       *)
LocalAcquires ==
  []<>(Dynamic \ InUse # {}) =>
    \A p \in Process :
      pc[p] = "bind_rep" /\ setting[p].mode = "local"
        ~> pc[p] \notin {"bind_rep", "bind_pub"}
=============================================================================
