------------------------------ MODULE Commands -------------------------------
(***************************************************************************)
(* The commands a client sends to the REP thread: what each handler of     *)
(* xauto_cmd.cpp demands of its arguments, asks of x64dbg's bridge, packs  *)
(* into the response, allocates and frees, while the debuggee runs and     *)
(* users and other plugins change what the commands ask about.             *)
(*                                                                         *)
(* A handler is a record; the actions below are what the handlers have in  *)
(* common.  An Item is anything a command can be about: a stretch of       *)
(* memory, a label, a setting, the state of the debugger.  GET_LOG is in   *)
(* module LogClient, PING, QUIT and the closing of the socket in Plugin.   *)
(***************************************************************************)
EXTENDS Integers, Sequences

CONSTANTS
  Item,
  Value,         \* what an item may hold; a client may also ask to write it
  Absent,        \* what an item holds that is not there
  Blank,         \* what zeroed memory holds
  Garbage,       \* what memory holds that nobody has written
  ArgType,       \* the msgpack types a request's arguments may have
  NoRequest

(* Three kinds of POSITIVE_INTEGER: one that does not fit a size_t (in the *)
(* 32-bit build), a size no vector can have, any other one.                *)
POSITIVE_INTEGER == {"INT", "HUGE", "WIDE"}

ASSUME CommandsAssumption ==
  /\ ArgType \subseteq POSITIVE_INTEGER \cup {"STR", "BIN", "NIL"}
  /\ {Absent, Blank, Garbage} \cap Value = {}
  /\ Blank # Absent /\ Garbage # Absent /\ Garbage # Blank

VARIABLES
  pc,            \* where the REP thread is, or "terminated" with x64dbg
  request,       \* the request in hand
  response,      \* response_buffer: the objects packed so far
  local,         \* what disassemble_at has read so far
  blocks,        \* the blocks of BridgeAlloc that the handler is to free
  allocated,     \* all those not freed, also by earlier requests
  world,         \* what every item holds
  (* history variables *)
  held,          \* what the request's item has held since it was received
  changed        \* the handler has changed the item

memory == <<local, blocks, allocated>>
ghosts == <<held, changed>>
vars == <<pc, request, response, memory, world, ghosts>>

-----------------------------------------------------------------------------
(* The handlers: the types of the arguments they take, how many of them    *)
(* they demand, how they answer when they refuse, what they do otherwise,  *)
(* what a failed lookup leaves in the buffer they pack, and how many       *)
(* blocks they have allocated for them, strings of a symbol aside.         *)

Handles(takes, demands, refusal, does, blank, owns) ==
  [ takes |-> takes, demands |-> demands, refusal |-> refusal, does |-> does,
    blank |-> blank, owns |-> owns ]

Tells == Handles(<< >>, 0, "none", "report", Blank, 0)

get_debugger_pid       == Tells
get_compat_v           == Tells
get_debugger_version   == Tells
dbg_eval               == Handles(<<"STR">>, 1, "XERROR_BAD_EVAL", "execute", Blank, 0)
dbg_cmd_exec_direct    == Handles(<<"STR">>, 1, "XERROR_BAD_EVAL", "execute", Blank, 0)
dbg_is_running         == Tells
dbg_is_debugging       == Tells
dbg_is_elevated        == Tells
dbg_get_bitness        == Tells
dbg_memmap             == Handles(<< >>, 0, "none", "report", Blank, 1)
gui_refresh_views      == Tells
dbg_read_memory        == Handles(<<"INT", "INT">>, 2, "XERROR_BAD_READ", "read", Blank, 0)
dbg_write_memory       == Handles(<<"INT", "BIN">>, 2, "XERROR_BAD_WRITE", "change", Blank, 0)
dbg_read_regs          == Tells                          \* see module RegDump
dbg_read_setting_sz    == Handles(<<"STR", "STR">>, 2, "XERROR_BAD_SETTING", "find", Blank, 1)
dbg_write_setting_sz   == Handles(<<"STR", "STR", "STR">>, 2, "XERROR_BAD_SETTING", "change", Blank, 0)
dbg_read_setting_uint  == Handles(<<"STR", "STR">>, 2, "XERROR_BAD_SETTING", "find", Garbage, 0)
dbg_write_setting_uint == Handles(<<"STR", "STR", "INT">>, 2, "XERROR_BAD_SETTING", "change", Blank, 0)
dbg_is_valid_read_ptr  == Handles(<<"INT">>, 1, "false", "report", Blank, 0)
disassemble_at         == Handles(<<"INT">>, 1, "false", "disassemble", Blank, 0)
assemble_at            == Handles(<<"INT", "STR">>, 2, "false", "change", Blank, 0)
get_breakpoints        == Handles(<<"INT">>, 1, "false", "report", Blank, 1)
\* mutant of get_label_at: no memset
LabelUncleared         == Handles(<<"INT", "INT">>, 2, "false", "find", Garbage, 0)
get_label_at           == Handles(<<"INT", "INT">>, 2, "false", "find", Blank, 0)
get_comment_at         == Handles(<<"INT">>, 1, "false", "find", Blank, 0)
get_symbol_at          == Handles(<<"INT">>, 1, "false", "find", Blank, 1)

Handler ==
  [ DEBUGGER_PID |-> get_debugger_pid, COMPAT_VERSION |-> get_compat_v,
    DEBUGGER_VERSION |-> get_debugger_version, EVAL |-> dbg_eval,
    CMD_EXEC_DIRECT |-> dbg_cmd_exec_direct, IS_RUNNING |-> dbg_is_running,
    IS_DEBUGGING |-> dbg_is_debugging, IS_ELEVATED |-> dbg_is_elevated,
    MEMMAP |-> dbg_memmap, GET_BITNESS |-> dbg_get_bitness,
    REFRESH_VIEWS |-> gui_refresh_views, READ_MEMORY |-> dbg_read_memory,
    WRITE_MEMORY |-> dbg_write_memory, READ_REGISTERS |-> dbg_read_regs,
    READ_SETTING_SZ |-> dbg_read_setting_sz, WRITE_SETTING_SZ |-> dbg_write_setting_sz,
    READ_SETTING_UINT |-> dbg_read_setting_uint,
    WRITE_SETTING_UINT |-> dbg_write_setting_uint,
    IS_VALID_READ_PTR |-> dbg_is_valid_read_ptr, DISASSEMBLE |-> disassemble_at,
    ASSEMBLE |-> assemble_at, GET_BREAKPOINTS |-> get_breakpoints,
    GET_LABEL |-> get_label_at, GET_COMMENT |-> get_comment_at,
    GET_SYMBOL |-> get_symbol_at ]

Command == DOMAIN Handler

Called == Handler[request.cmd]

-----------------------------------------------------------------------------
Init ==
  /\ pc = "recv"
  /\ request = NoRequest
  /\ response = << >>
  /\ local = {}
  /\ blocks = 0
  /\ allocated = 0
  /\ world \in [Item -> Value \cup {Absent}]
  /\ held = {}
  /\ changed = FALSE

(* recv.  `beyond` is the type of the object that the memory behind the    *)
(* array happens to show.                                                  *)
Recv(r) ==
  /\ pc = "recv"
  /\ request' = r
  /\ pc' = "dispatch"
  /\ held' = {world[r.item]}
  /\ UNCHANGED <<response, memory, world, changed>>

(* msgpack::unpack throws what the loop does not catch. *)
Unpack ==
  /\ pc = "dispatch"
  /\ request.cmd = "unparsable"
  /\ pc' = "terminated"
  /\ UNCHANGED <<request, response, memory, world, ghosts>>

(* Every packed object says "ok" or what is wrong, and what data from the  *)
(* debugger it was put together from.                                      *)
Pack(says, data) == response' = Append(response, [says |-> says, data |-> data])

\* mutant of AnswerUnknown: sends what was packed, nothing
AnswerNothing ==
  /\ pc = "dispatch" /\ request.cmd = "unknown"
  /\ pc' = "send"
  /\ UNCHANGED <<request, response, memory, world, ghosts>>

(* No array, or one that starts with no known command: nothing was packed. *)
AnswerUnknown ==
  /\ pc = "dispatch"
  /\ request.cmd = "unknown"
  /\ Pack("XERROR_UNK", {})
  /\ pc' = "send"
  /\ UNCHANGED <<request, memory, world, ghosts>>

Arg(i) == IF i <= Len(request.args) THEN request.args[i] ELSE request.beyond

Has(type, arg) == IF type = "INT" THEN arg \in POSITIVE_INTEGER ELSE arg = type

\* mutants of Accepts: no check of the size; only the first type checked
AcceptsShort == \A i \in DOMAIN Called.takes : Has(Called.takes[i], Arg(i))
AcceptsFirst ==
  /\ Len(request.args) >= Called.demands
  /\ Len(Called.takes) > 0 => Has(Called.takes[1], Arg(1))

(* The condition at the top of every handler. *)
Accepts ==
  /\ Len(request.args) >= Called.demands
  /\ \A i \in DOMAIN Called.takes : Has(Called.takes[i], Arg(i))

(* get_symbol_at has its first block before it looks at the arguments, and *)
(* keeps it when it refuses them.                                          *)
Refuse ==
  /\ pc = "dispatch"
  /\ request.cmd \in Command /\ ~ Accepts
  /\ Pack(Called.refusal, {})
  /\ allocated' = allocated + (IF request.cmd = "GET_SYMBOL" THEN 1 ELSE 0)
  /\ pc' = "send"
  /\ UNCHANGED <<request, local, blocks, world, held, changed>>

(* convert throws msgpack::type_error unless the argument has the type,    *)
(* and an integer the width, of its target.                                *)
Converts == \A i \in DOMAIN Called.takes : Has(Called.takes[i], Arg(i)) /\ Arg(i) # "WIDE"

OverRead == Len(request.args) < Len(Called.takes)

(* It leaves the thread's function; so does the vector that dbg_read_memory*)
(* cannot allocate.  What is read behind an array need not be readable.    *)
Throw ==
  /\ pc = "dispatch"
  /\ request.cmd \in Command /\ Accepts
  /\ \/ ~ Converts
     \/ request.cmd = "READ_MEMORY" /\ Arg(2) = "HUGE"
     \/ OverRead
  /\ pc' = "terminated"
  /\ UNCHANGED <<request, response, memory, world, ghosts>>

It == world[request.item]

Report == Pack("ok", {It}) /\ UNCHANGED <<local, world, held, changed>>

Find ==
  /\ IF It # Absent THEN Pack("ok", {It}) ELSE Pack("false", {Called.blank})
  /\ UNCHANGED <<local, world, held, changed>>

Read ==
  /\ \/ It # Absent /\ Pack("ok", {It})
     \/ Pack("XERROR_READ_FAILED", {})
  /\ UNCHANGED <<local, world, held, changed>>

Becomes(v) ==
  /\ world' = [world EXCEPT ![request.item] = v]
  /\ held' = held \cup {v}
  /\ changed' = TRUE

Execute ==
  /\ \E v \in Value \cup {Absent}, says \in {"ok", "false"} : Becomes(v) /\ Pack(says, {v})
  /\ UNCHANGED local

(* A write to memory may fail after part of it is done. *)
Change ==
  /\ \/ Becomes(IF OverRead THEN Garbage ELSE request.value) /\ Pack("ok", {})
     \/ /\ Pack(IF request.cmd = "WRITE_MEMORY" THEN "XERROR_WRITE_FAILED" ELSE "false", {})
        /\ \/ UNCHANGED <<world, held, changed>>
           \/ request.cmd \in {"WRITE_MEMORY", "ASSEMBLE"} /\ \E v \in Value : Becomes(v)
  /\ UNCHANGED local

(* DbgDisasmAt; GuiGetDisassembly comes later. *)
Disassemble == local' = {It} /\ UNCHANGED <<response, world, held, changed>>

(* The handler's allocations and its one call of the bridge.  The bridge   *)
(* hands over strings only with a symbol that it found.                    *)
Serve ==
  /\ pc = "dispatch"
  /\ request.cmd \in Command /\ Accepts /\ Converts
  /\ ~ (request.cmd = "READ_MEMORY" /\ Arg(2) = "HUGE")
  /\ \/ Called.does = "report" /\ Report
     \/ Called.does = "find" /\ Find
     \/ Called.does = "read" /\ Read
     \/ Called.does = "execute" /\ Execute
     \/ Called.does = "change" /\ Change
     \/ Called.does = "disassemble" /\ Disassemble
  /\ \E strings \in 0 .. (IF request.cmd = "GET_SYMBOL" /\ It # Absent THEN 2 ELSE 0) :
       /\ blocks' = Called.owns + strings
       /\ allocated' = allocated + Called.owns + strings
  /\ pc' = IF Called.does = "disassemble" THEN "symbolize" ELSE "free"
  /\ UNCHANGED request

(* The second call of disassemble_at, which may fail. *)
Symbolize ==
  /\ pc = "symbolize"
  /\ Pack("ok", local) \/ Pack("ok", local \cup {It})
  /\ local' = {}
  /\ pc' = "free"
  /\ UNCHANGED <<request, blocks, allocated, world, ghosts>>

\* mutant of Free: every block twice
FreeTwice ==
  /\ pc = "free" /\ pc' = "send"
  /\ allocated' = allocated - 2 * blocks
  /\ blocks' = 0
  /\ UNCHANGED <<request, response, local, world, ghosts>>

Free ==
  /\ pc = "free"
  /\ allocated' = allocated - blocks
  /\ blocks' = 0
  /\ pc' = "send"
  /\ UNCHANGED <<request, response, local, world, ghosts>>

Send ==
  /\ pc = "send"
  /\ pc' = "recv"
  /\ request' = NoRequest
  /\ response' = << >>
  /\ held' = {}
  /\ changed' = FALSE
  /\ UNCHANGED <<memory, world>>

(* The debuggee runs, the user edits, another plugin writes a setting. *)
World ==
  /\ pc # "terminated"
  /\ \E item \in Item, v \in Value \cup {Absent} :
       /\ world' = [world EXCEPT ![item] = v]
       /\ held' = IF request # NoRequest /\ item = request.item THEN held \cup {v} ELSE held
  /\ UNCHANGED <<pc, request, response, memory, changed>>

(* x64dbg is gone. *)
Over == pc = "terminated" /\ UNCHANGED vars

RequestOf(args) ==
  [ cmd : Command \cup {"unknown", "unparsable"}, args : args, beyond : ArgType,
    item : Item, value : Value ]

ASSUME NoRequestAssumption == NoRequest \notin RequestOf(Seq(ArgType))

Handling == Unpack \/ AnswerUnknown \/ Refuse \/ Throw \/ Serve \/ Symbolize \/ Free \/ Send

Next ==
  \/ \E r \in RequestOf(Seq(ArgType)) : Recv(r)
  \/ Handling \/ World \/ Over

Spec == Init /\ [][Next]_vars

-----------------------------------------------------------------------------
Answer == {"ok", "none", "false", "XERROR_UNK", "XERROR_BAD_EVAL", "XERROR_BAD_READ",
           "XERROR_BAD_WRITE", "XERROR_BAD_SETTING", "XERROR_READ_FAILED", "XERROR_WRITE_FAILED"}

TypeOK ==
  /\ pc \in {"recv", "dispatch", "symbolize", "free", "send", "terminated"}
  /\ request \in RequestOf(Seq(ArgType)) \cup {NoRequest}
  /\ response \in Seq([says : Answer, data : SUBSET (Value \cup {Absent, Blank, Garbage})])
  /\ local \subseteq Value \cup {Absent, Garbage}
  /\ {blocks, allocated} \subseteq Nat
  /\ world \in [Item -> Value \cup {Absent, Garbage}]
  /\ held \subseteq Value \cup {Absent, Garbage}
  /\ changed \in BOOLEAN

(* The reply is packed; the handler has only to free its blocks.          *)
Answered == pc \in {"free", "send"}

(* A reply is one msgpack object, on whichever path the handler left: a    *)
(* client unpacks one, and the REP socket's strict alternation depends on  *)
(* something having been packed.                                           *)
ReplyIsOneObject == Answered => Len(response) = 1

(* A request whose arguments are missing or have the wrong type changes    *)
(* nothing and is told so, except that the writers of settings do not      *)
(* notice a missing value.                                                 *)
Malformed ==
  /\ request.cmd \in Command
  /\ \/ Len(request.args) < Len(Called.takes)
     \/ \E i \in DOMAIN Called.takes : ~ Has(Called.takes[i], request.args[i])

MissesTheValue ==
  request.cmd \in {"WRITE_SETTING_SZ", "WRITE_SETTING_UINT"} /\ Len(request.args) = 2

MalformedIsRefused ==
  Answered /\ Malformed /\ ~ MissesTheValue => response[1].says # "ok" /\ ~ changed

(* No other request takes the process down than one that is no msgpack,    *)
(* holds an integer too wide for a size_t, asks for more memory than there *)
(* is, or leaves out a setting's value: the conditions of the handlers     *)
(* keep every other conversion from throwing.                              *)
DiesOnlyOf ==
  pc = "terminated" =>
    \/ request.cmd = "unparsable"
    \/ \E i \in DOMAIN request.args : request.args[i] = "WIDE"
    \/ request.cmd = "READ_MEMORY" /\ request.args[2] = "HUGE"
    \/ MissesTheValue

(* The debuggee runs while a command is served, so an answer may be out of *)
(* date; but all of it was true since the request came in.  A lookup that  *)
(* found nothing answers with cleared memory, READ_SETTING_UINT with       *)
(* memory that nobody has written.                                         *)
AnswerWasTrue ==
  Answered =>
    response[1].data \subseteq
      held \cup (IF response[1].says # "false" THEN {}
                 ELSE IF request.cmd = "READ_SETTING_UINT" THEN {Garbage} ELSE {Blank})

(* The error message of the writers of settings, "Invalid or missing       *)
(* setting string": a request without the value is refused.                *)
MissingValueRefused ==
  Answered /\ MissesTheValue => response[1].says = "XERROR_BAD_SETTING"
=============================================================================
