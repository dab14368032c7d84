----------------------------- MODULE MCCommands ------------------------------
(* Every command, with no to four arguments of every type, about one item  *)
(* that holds a value or is absent.                                        *)
EXTENDS Commands

CONSTANTS here, v1, MaxLeaks

MCArgs == UNION {[1 .. n -> ArgType] : n \in 0 .. 4}

(* Not to multiply the requests by what no handler looks at, an argument   *)
(* past the last one a handler takes is NIL, and so is what lies beyond    *)
(* the array when it is long enough.                                       *)
MCRequest ==
  LET taken(cmd) == IF cmd \in Command THEN Len(Handler[cmd].takes) ELSE 0
  IN  UNION {
        { r \in [cmd : {cmd}, args : {a \in MCArgs : Len(a) <= taken(cmd) + 1},
                 beyond : ArgType, item : {here}, value : {v1}] :
            /\ \A i \in DOMAIN r.args : i > taken(cmd) => r.args[i] = "NIL"
            /\ Len(r.args) + 1 # taken(cmd) => r.beyond = "NIL" }
        : cmd \in Command \cup {"unknown", "unparsable"} }

MCNext ==
  \/ \E r \in MCRequest : (r.cmd = "GET_SYMBOL" => allocated < MaxLeaks) /\ Recv(r)
  \/ Handling \/ World \/ Over

MCSpec == Init /\ [][MCNext]_vars
=============================================================================
