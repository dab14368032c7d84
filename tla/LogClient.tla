------------------------------ MODULE LogClient ------------------------------
(***************************************************************************)
(* Clients reading x64dbg's log with XAUTO_REQ_GET_LOG while the log-task  *)
(* thread appends to it and the debug thread clears it (cb_init_debug).    *)
(*                                                                         *)
(* A client obeys the contract of xauto_log.h: it passes the next_index of *)
(* one reply as the since_index of its next request.  The reply is in      *)
(* flight between the handler, get_log, and the client; the buffer may be  *)
(* appended to, evicted from or cleared meanwhile.  A client asks for the  *)
(* lines of one filter throughout, with any limit each time.               *)
(***************************************************************************)
EXTENDS LogBuffer

CONSTANTS
  Client,
  Limit,        \* the limits clients ask for, 0 for "no limit"
  FilterOf,     \* the filter of each client
  NoReply

ASSUME LogClientAssumption ==
  /\ Limit \subseteq Nat
  /\ FilterOf \in [Client -> (SUBSET Line) \cup {NoFilter}]

VARIABLES
  cursor,       \* the since_index of each client's next request
  reply,        \* the reply on its way to each client, or NoReply
  (* History variables.  A session is the time between two clears. *)
  session,      \* the number of the current session
  origin,       \* the session in which each cursor was handed out
  landed,       \* where in that session each client started reading
  seen,         \* the absolute indices each client got in that session
  lost,         \* those the server told it were evicted
  text          \* the entries each client collected in that session, in order

clientVars == <<cursor, reply, session, origin, landed, seen, lost, text>>
vars == <<bufferVars, clientVars>>

ClientInit ==
  /\ Init
  /\ cursor = [c \in Client |-> 0]
  /\ reply = [c \in Client |-> NoReply]
  /\ session = 0
  /\ origin = [c \in Client |-> 0]
  /\ landed = [c \in Client |-> 0]
  /\ seen = [c \in Client |-> {}]
  /\ lost = [c \in Client |-> {}]
  /\ text = [c \in Client |-> << >>]

End == base_index + Len(entries)

Absolute(positions) == {base_index + i - 1 : i \in positions}

-----------------------------------------------------------------------------
LogMessage == \E m \in Message : append(m) /\ UNCHANGED clientVars

InitDebug ==
  /\ clear
  /\ session' = session + 1
  /\ UNCHANGED <<cursor, reply, origin, landed, seen, lost, text>>

(* The handler serves c's request: get_since and the packing of its        *)
(* snapshot.  The other fields are history: which entries the snapshot     *)
(* took, in which session, where the log ended then, from where on c reads.*)
get_log(c) ==
  /\ reply[c] = NoReply
  /\ \E limit \in Limit, last \in 0 .. Len(entries) :
       /\ EndsAt(last, cursor[c], limit, FilterOf[c])
       /\ reply' = [reply EXCEPT ![c] =
            [ snap    |-> Snapshot(last, cursor[c], FilterOf[c]),
              index   |-> Absolute(Taken(last, cursor[c], FilterOf[c])),
              session |-> session,
              end     |-> End,
              landed  |-> IF cursor[c] > End THEN End ELSE cursor[c] ]]
  /\ UNCHANGED <<bufferVars, cursor, session, origin, landed, seen, lost, text>>

(* The reply reaches c.  If it is the first one of a session c's cursor    *)
(* is carried over from an earlier one, and what c collects starts afresh. *)
Receive(c) ==
  /\ reply[c] # NoReply
  /\ LET r == reply[c]
         gone == cursor[c] .. cursor[c] + r.snap.evicted - 1
         carried == r.session # origin[c]
     IN  /\ cursor' = [cursor EXCEPT ![c] = r.snap.next_index]
         /\ origin' = [origin EXCEPT ![c] = r.session]
         /\ landed' = [landed EXCEPT ![c] = IF carried THEN r.landed ELSE @]
         /\ seen' = [seen EXCEPT ![c] = IF carried THEN r.index ELSE @ \cup r.index]
         /\ lost' = [lost EXCEPT ![c] = IF carried THEN gone ELSE @ \cup gone]
         /\ text' = [text EXCEPT ![c] =
              IF carried THEN r.snap.entries ELSE @ \o r.snap.entries]
  /\ reply' = [reply EXCEPT ![c] = NoReply]
  /\ UNCHANGED <<bufferVars, session>>

ClientNext ==
  \/ LogMessage
  \/ InitDebug
  \/ \E c \in Client : get_log(c) \/ Receive(c)

ClientSpec == ClientInit /\ [][ClientNext]_vars

-----------------------------------------------------------------------------
(* The indices between where c started reading this session and its cursor *)
(* that its filter keeps and that it was not told were evicted.            *)
Owed(c) ==
  {i \in landed[c] .. cursor[c] - 1 :
     i \notin lost[c] /\ Keeps(history[i+1], FilterOf[c])}

(* Nothing is skipped silently: paging through the log with next_index, a  *)
(* client gets every matching message of the session from where it started *)
(* reading, except exactly those a reply's `evicted` count told it about.  *)
NothingSkipped ==
  \A c \in Client : origin[c] = session => seen[c] = Owed(c)

(* And what it collects is that part of the log: every page's entries,     *)
(* put one after the other, are the matching lines of those messages, each *)
(* once and in the order x64dbg logged them.                               *)
StreamIntegrity ==
  \A c \in Client : origin[c] = session =>
    text[c] = [n \in 1 .. Cardinality(Owed(c)) |->
                 Candidate(history[NthSmallest(Owed(c), n) + 1], FilterOf[c])]

(* remaining is exact, so paging while remaining > 0 and stopping at 0 is  *)
(* right: it counts the matching messages that the log held past           *)
(* next_index when the request was served, whatever was appended, evicted  *)
(* and returned before.                                                    *)
RemainingIsExact ==
  \A c \in Client :
    LET r == reply[c]
    IN  r # NoReply /\ r.session = session =>
          r.snap.remaining =
            Cardinality({i \in r.snap.next_index .. r.end - 1 :
                           Keeps(history[i+1], FilterOf[c])})

(* next_index is "Monotonic only within a session": a client's cursor      *)
(* never moves back while the session it came from lasts.                  *)
CursorMonotonic ==
  [][\A c \in Client : origin'[c] = origin[c] => cursor'[c] >= cursor[c]]_vars

(* xauto_log.h says that a next_index carried over from a prior session    *)
(* "restarts at the new log": every message of the new session that lies   *)
(* before the client's cursor was then either returned or counted as       *)
(* evicted.                                                                *)
CarriedCursorRestarts ==
  \A c \in Client : origin[c] = session =>
    \A i \in 0 .. cursor[c] - 1 :
      Keeps(history[i+1], FilterOf[c]) => i \in seen[c] \cup lost[c]
=============================================================================
