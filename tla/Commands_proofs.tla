--------------------------- MODULE Commands_proofs ---------------------------
(***************************************************************************)
(* Proofs about module Commands, for any items and values, requests of any *)
(* length, and however the world changes meanwhile.                        *)
(***************************************************************************)
EXTENDS Commands, TLAPS

Request == RequestOf(Seq(ArgType))

Datum == Value \cup {Absent, Blank, Garbage}

Object == [says : Answer, data : SUBSET Datum]

(* What the proofs use of the table of handlers.                           *)
TakesNone == {"DEBUGGER_PID", "COMPAT_VERSION", "DEBUGGER_VERSION", "IS_RUNNING",
              "IS_DEBUGGING", "IS_ELEVATED", "MEMMAP", "GET_BITNESS", "REFRESH_VIEWS",
              "READ_REGISTERS"}
TakesOne  == {"EVAL", "CMD_EXEC_DIRECT", "IS_VALID_READ_PTR", "DISASSEMBLE",
              "GET_BREAKPOINTS", "GET_COMMENT", "GET_SYMBOL"}
TakesTwo  == {"READ_MEMORY", "WRITE_MEMORY", "READ_SETTING_SZ", "READ_SETTING_UINT",
              "ASSEMBLE", "GET_LABEL"}
Writers   == {"WRITE_SETTING_SZ", "WRITE_SETTING_UINT"}

LEMMA HandlerFacts ==
  ASSUME NEW c \in Command
  PROVE  /\ DOMAIN Handler[c].takes = 1 .. Len(Handler[c].takes)
         /\ Len(Handler[c].takes) \in Nat /\ Handler[c].demands \in Nat
         /\ c \in Writers => Handler[c].demands = 2 /\ Len(Handler[c].takes) = 3
         /\ c \notin Writers => Handler[c].demands = Len(Handler[c].takes)
         /\ c = "READ_MEMORY" => Handler[c].demands = 2
         /\ Handler[c].refusal \in Answer \ {"ok"}
         /\ c = "READ_SETTING_UINT" => Handler[c].blank = Garbage
         /\ c # "READ_SETTING_UINT" => Handler[c].blank = Blank
         /\ Handler[c].owns \in {0, 1}
         /\ Handler[c].does = "disassemble" => c = "DISASSEMBLE"
<1> USE DEF Command, Handler, Handles, Tells, get_debugger_pid, get_compat_v, get_debugger_version,
       dbg_eval, dbg_cmd_exec_direct, dbg_is_running, dbg_is_debugging, dbg_is_elevated,
       dbg_get_bitness, dbg_memmap, gui_refresh_views, dbg_read_memory, dbg_write_memory,
       dbg_read_regs, dbg_read_setting_sz, dbg_write_setting_sz, dbg_read_setting_uint,
       dbg_write_setting_uint, dbg_is_valid_read_ptr, disassemble_at, assemble_at,
       get_breakpoints, get_label_at, get_comment_at, get_symbol_at
<1>1. c \in TakesNone \cup TakesOne \cup TakesTwo \cup Writers
  BY DEF TakesNone, TakesOne, TakesTwo, Writers
<1>2. c \in TakesNone => Handler[c].demands = 0 /\ Len(Handler[c].takes) = 0
  BY DEF TakesNone
<1>3. c \in TakesOne => Handler[c].demands = 1 /\ Len(Handler[c].takes) = 1
  BY DEF TakesOne
<1>4. c \in TakesTwo => Handler[c].demands = 2 /\ Len(Handler[c].takes) = 2
  BY DEF TakesTwo
<1>5. c \in Writers => Handler[c].demands = 2 /\ Len(Handler[c].takes) = 3
  BY DEF Writers
<1>6. DOMAIN Handler[c].takes = 1 .. Len(Handler[c].takes)
  OBVIOUS
<1>7. Handler[c].refusal \in Answer /\ Handler[c].refusal # "ok"
  BY DEF Answer
<1>8. /\ c = "READ_SETTING_UINT" => Handler[c].blank = Garbage
      /\ c # "READ_SETTING_UINT" => Handler[c].blank = Blank
  OBVIOUS
<1>9. Handler[c].owns \in {0, 1}
  OBVIOUS
<1>10. Handler[c].does = "disassemble" => c = "DISASSEMBLE"
  OBVIOUS
<1> HIDE DEF Command, Handler, Handles, Tells, get_debugger_pid, get_compat_v, get_debugger_version,
       dbg_eval, dbg_cmd_exec_direct, dbg_is_running, dbg_is_debugging, dbg_is_elevated,
       dbg_get_bitness, dbg_memmap, gui_refresh_views, dbg_read_memory, dbg_write_memory,
       dbg_read_regs, dbg_read_setting_sz, dbg_write_setting_sz, dbg_read_setting_uint,
       dbg_write_setting_uint, dbg_is_valid_read_ptr, disassemble_at, assemble_at,
       get_breakpoints, get_label_at, get_comment_at, get_symbol_at
<1>11. c \notin Writers => Handler[c].demands = Len(Handler[c].takes)
  <2>1. CASE c \in TakesNone
    BY <2>1, <1>2
  <2>2. CASE c \in TakesOne
    BY <2>2, <1>3
  <2>3. CASE c \in TakesTwo
    BY <2>3, <1>4
  <2>4. QED BY <2>1, <2>2, <2>3, <1>1
<1>12. Len(Handler[c].takes) \in Nat /\ Handler[c].demands \in Nat
  BY <1>1, <1>2, <1>3, <1>4, <1>5
<1>13. c = "READ_MEMORY" => Handler[c].demands = 2
  BY <1>4 DEF TakesTwo
<1>14. QED BY <1>5, <1>6, <1>7, <1>8, <1>9, <1>10, <1>11, <1>12, <1>13

-----------------------------------------------------------------------------
(* The condition of a handler lets nothing malformed through but what      *)
(* leaves out a setting's value.                                           *)
LEMMA AcceptedArguments ==
  ASSUME request \in Request, request.cmd \in Command, Accepts
  PROVE  /\ Malformed => MissesTheValue
         /\ OverRead => MissesTheValue
         /\ \A i \in DOMAIN Called.takes : i \in DOMAIN request.args \/ MissesTheValue
         /\ request.cmd = "READ_MEMORY" => 2 \in DOMAIN request.args
<1> DEFINE n == Len(request.args)
<1>1. request.args \in Seq(ArgType) /\ n \in Nat /\ DOMAIN request.args = 1 .. n
  BY DEF Request, RequestOf
<1>2. /\ DOMAIN Called.takes = 1 .. Len(Called.takes)
      /\ Len(Called.takes) \in Nat /\ Called.demands \in Nat
      /\ request.cmd \in Writers => Called.demands = 2 /\ Len(Called.takes) = 3
      /\ request.cmd \notin Writers => Called.demands = Len(Called.takes)
      /\ request.cmd = "READ_MEMORY" => Called.demands = 2
  BY HandlerFacts DEF Called
<1>3. n >= Called.demands
  BY DEF Accepts
<1>4. OverRead => MissesTheValue
  <2> SUFFICES ASSUME n < Len(Called.takes) PROVE MissesTheValue
    BY DEF OverRead
  <2>1. request.cmd \in Writers
    BY <1>1, <1>2, <1>3
  <2>2. n = 2
    <3>1. Called.demands = 2 /\ Len(Called.takes) = 3
      BY <2>1, <1>2
    <3>2. n \in Nat /\ n >= 2 /\ n < 3
      BY <3>1, <1>1, <1>3
    <3>3. \A k \in Nat : k >= 2 /\ k < 3 => k = 2
      OBVIOUS
    <3> HIDE DEF n
    <3>4. QED BY <3>2, <3>3
  <2>3. QED BY <2>1, <2>2 DEF MissesTheValue, Writers
<1>5. ~ OverRead => \A i \in DOMAIN Called.takes : i \in DOMAIN request.args
  BY <1>1, <1>2 DEF OverRead
<1>6. ~ OverRead => ~ Malformed
  <2> SUFFICES ASSUME ~ OverRead PROVE ~ Malformed
    OBVIOUS
  <2>1. \A i \in DOMAIN Called.takes : Arg(i) = request.args[i]
    BY <1>1, <1>5 DEF Arg
  <2>2. \A i \in DOMAIN Called.takes : Has(Called.takes[i], request.args[i])
    BY <2>1 DEF Accepts
  <2>3. QED BY <2>2 DEF Malformed, OverRead
<1>7. request.cmd = "READ_MEMORY" => 2 \in DOMAIN request.args
  BY <1>1, <1>2, <1>3
<1>8. QED BY <1>4, <1>5, <1>6, <1>7

-----------------------------------------------------------------------------
(* What holds between the steps of a handler.                              *)
Frame ==
  /\ IF pc = "recv" THEN request = NoRequest ELSE request \in Request
  /\ Answered \/ response = << >>
  /\ pc = "symbolize" \/ local = {}
  /\ pc \in {"symbolize", "free"} \/ blocks = 0
  /\ blocks <= allocated
  /\ pc # "recv" => world[request.item] \in held
  /\ local \subseteq held
  /\ Answered \/ ~ changed
  /\ pc = "symbolize" => request.cmd = "DISASSEMBLE" /\ ~ Malformed

Told == MalformedIsRefused /\ AnswerWasTrue

IInv == TypeOK /\ Frame /\ ReplyIsOneObject /\ Told /\ DiesOnlyOf

LEMMA InitInv == Init => IInv
<1> SUFFICES ASSUME Init PROVE IInv
  OBVIOUS
<1>1. TypeOK
  <2>1. world \in [Item -> Value \cup {Absent, Garbage}]
    BY DEF Init
  <2>2. response \in Seq(Object)
    BY DEF Init
  <2>3. {blocks, allocated} \subseteq Nat
    BY DEF Init
  <2>4. QED BY <2>1, <2>2, <2>3 DEF Init, TypeOK, Object, Datum
<1>2. Frame
  BY DEF Init, Frame
<1>3. ReplyIsOneObject /\ Told /\ DiesOnlyOf
  BY DEF Init, ReplyIsOneObject, Told, MalformedIsRefused, AnswerWasTrue,
         DiesOnlyOf, Answered
<1>4. QED BY <1>1, <1>2, <1>3 DEF IInv

(* Recv, the only action that begins a request. *)
LEMMA RecvInv ==
  ASSUME IInv, NEW r \in Request, Recv(r)
  PROVE  IInv'
<1> USE DEF Recv, memory
<1>1. r.item \in Item
  BY DEF Request, RequestOf
<1>2. TypeOK'
  BY <1>1 DEF IInv, TypeOK, Request
<1>3. Frame'
  BY <1>1 DEF IInv, Frame, Answered
<1>4. (ReplyIsOneObject /\ Told /\ DiesOnlyOf)'
  BY DEF ReplyIsOneObject, Told, MalformedIsRefused, AnswerWasTrue,
         DiesOnlyOf, Answered
<1>5. QED BY <1>2, <1>3, <1>4 DEF IInv

(* The exceptions that end the process. *)
LEMMA EndInv ==
  ASSUME IInv, Unpack \/ Throw
  PROVE  IInv'
<1> USE DEF Unpack, Throw, memory, ghosts
<1>1. TypeOK'
  BY DEF IInv, TypeOK
<1>2. Frame'
  BY DEF IInv, Frame, Answered
<1>3. (ReplyIsOneObject /\ Told)'
  BY DEF ReplyIsOneObject, Told, MalformedIsRefused, AnswerWasTrue, Answered
<1>4. DiesOnlyOf'
  <2>1. CASE Unpack
    BY <2>1 DEF DiesOnlyOf
  <2>2. CASE Throw
    <3>1. request \in Request
      BY <2>2 DEF IInv, Frame
    <3>2. CASE OverRead
      BY <2>2, <3>1, <3>2, AcceptedArguments DEF DiesOnlyOf, MissesTheValue
    <3>3. CASE request.cmd = "READ_MEMORY" /\ Arg(2) = "HUGE"
      <4>1. Arg(2) = request.args[2]
        BY <2>2, <3>1, <3>3, AcceptedArguments DEF Arg, Request, RequestOf
      <4>2. QED BY <2>2, <3>3, <4>1 DEF DiesOnlyOf
    <3>4. CASE ~ OverRead /\ ~ Converts
      <4>1. PICK i \in DOMAIN Called.takes : Arg(i) = "WIDE"
        BY <2>2, <3>4 DEF Converts, Accepts
      <4>2. (i \in DOMAIN request.args /\ Arg(i) = request.args[i]) \/ MissesTheValue
        BY <2>2, <3>1, AcceptedArguments DEF Arg, Request, RequestOf
      <4>3. QED BY <2>2, <4>1, <4>2 DEF DiesOnlyOf, MissesTheValue
    <3>5. QED BY <2>2, <3>2, <3>3, <3>4
  <2>3. QED BY <2>1, <2>2
<1>5. QED BY <1>1, <1>2, <1>3, <1>4 DEF IInv

-----------------------------------------------------------------------------
(* Packing an object into the empty buffer. *)
LEMMA Packed ==
  ASSUME response = << >>, NEW says \in Answer, NEW data \in SUBSET Datum,
         response' = Append(response, [says |-> says, data |-> data])
  PROVE  /\ response' \in Seq(Object)
         /\ Len(response') = 1
         /\ response'[1].says = says /\ response'[1].data = data
<1> DEFINE o == [says |-> says, data |-> data]
<1>1. o \in Object /\ o.says = says /\ o.data = data
  BY DEF Object
<1> HIDE DEF o
<1>2. << >> \in Seq(Object) /\ response' = Append(<< >>, o)
  BY DEF o
<1>3. response' \in Seq(Object) /\ Len(response') = 1 /\ response'[1] = o
  BY <1>1, <1>2
<1>4. QED BY <1>1, <1>3

LEMMA DispatchFacts ==
  ASSUME IInv, pc = "dispatch"
  PROVE  /\ request \in Request /\ request.item \in Item /\ request.value \in Value
         /\ response = << >> /\ local = {} /\ blocks = 0 /\ changed = FALSE
         /\ It \in held /\ It \in Value \cup {Absent, Garbage}
  BY DEF IInv, Frame, TypeOK, Request, RequestOf, It, Answered

(* No array, or one without a known command. *)
LEMMA UnknownInv ==
  ASSUME IInv, AnswerUnknown
  PROVE  IInv'
<1> USE DEF AnswerUnknown, memory, ghosts
<1>1. /\ response' \in Seq(Object) /\ Len(response') = 1
      /\ response'[1].says = "XERROR_UNK" /\ response'[1].data = {}
  <2>1. response = << >> /\ "XERROR_UNK" \in Answer /\ {} \in SUBSET Datum
    BY DispatchFacts DEF Answer
  <2>2. QED BY <2>1, Packed DEF Pack
<1>2. "unknown" \notin Command
  BY DEF Command, Handler
<1>3. TypeOK'
  BY <1>1 DEF IInv, TypeOK, Object, Datum
<1>4. Frame'
  BY DEF IInv, Frame, Answered
<1>5. (ReplyIsOneObject /\ DiesOnlyOf)'
  BY <1>1 DEF ReplyIsOneObject, DiesOnlyOf
<1>6. Told'
  BY <1>1, <1>2 DEF Told, MalformedIsRefused, AnswerWasTrue, Malformed
<1>7. QED BY <1>3, <1>4, <1>5, <1>6 DEF IInv

(* A handler that does not like its arguments. *)
LEMMA RefuseInv ==
  ASSUME IInv, Refuse
  PROVE  IInv'
<1> USE DEF Refuse
<1>1. /\ response' \in Seq(Object) /\ Len(response') = 1
      /\ response'[1].says # "ok" /\ response'[1].data = {}
  <2>1. /\ response = << >> /\ Called.refusal \in Answer /\ Called.refusal # "ok"
        /\ {} \in SUBSET Datum
    BY DispatchFacts, HandlerFacts DEF Called
  <2>2. QED BY <2>1, Packed DEF Pack
<1>2. \E d \in {0, 1} : allocated' = allocated + d
  OBVIOUS
<1>3. TypeOK'
  BY <1>1, <1>2 DEF IInv, TypeOK, Object, Datum
<1>4. Frame'
  BY <1>2 DEF IInv, Frame, TypeOK, Answered
<1>5. (ReplyIsOneObject /\ DiesOnlyOf)'
  BY <1>1 DEF ReplyIsOneObject, DiesOnlyOf
<1>6. changed' = FALSE
  BY DispatchFacts
<1>7. Told'
  BY <1>1, <1>6 DEF Told, MalformedIsRefused, AnswerWasTrue
<1>8. QED BY <1>3, <1>4, <1>5, <1>7 DEF IInv

-----------------------------------------------------------------------------
(* A command that is carried out: what it packs, by what it does. *)
Done ==
  /\ response' \in Seq(Object) /\ Len(response') = 1
  /\ response'[1].data \subseteq
       held' \cup (IF response'[1].says # "false" THEN {}
                   ELSE IF request.cmd = "READ_SETTING_UINT" THEN {Garbage} ELSE {Blank})
  /\ local' = {}

Kept == /\ world' \in [Item -> Value \cup {Absent, Garbage}]
        /\ held' \subseteq Value \cup {Absent, Garbage}
        /\ held \subseteq held' /\ world'[request.item] \in held'
        /\ changed' \in BOOLEAN

LEMMA UnchangedKept ==
  ASSUME IInv, pc = "dispatch", UNCHANGED <<world, held, changed>>
  PROVE  Kept
  BY DEF IInv, TypeOK, Frame, Kept

LEMMA BecomesKept ==
  ASSUME IInv, pc = "dispatch", NEW v \in Value \cup {Absent, Garbage}, Becomes(v)
  PROVE  Kept /\ v \in held' /\ changed' = TRUE
<1>1. request.item \in Item
  BY DispatchFacts
<1>2. world' \in [Item -> Value \cup {Absent, Garbage}] /\ world'[request.item] = v
  BY <1>1 DEF IInv, TypeOK, Becomes
<1>3. QED BY <1>2 DEF IInv, TypeOK, Becomes, Kept

LEMMA ReportDone ==
  ASSUME IInv, pc = "dispatch", Report, Called.does = "report"
  PROVE  Done /\ Kept
<1>1. /\ "ok" \in Answer /\ {It} \in SUBSET Datum /\ response = << >>
      /\ It \in held /\ local = {}
  BY DispatchFacts DEF Answer, Datum
<1>2. response' \in Seq(Object) /\ Len(response') = 1 /\ response'[1].data = {It}
  BY <1>1, Packed DEF Report, Pack
<1>3. Kept
  BY UnchangedKept DEF Report
<1>4. QED BY <1>1, <1>2, <1>3 DEF Report, Done

LEMMA FindDone ==
  ASSUME IInv, pc = "dispatch", request.cmd \in Command, Find, Called.does = "find"
  PROVE  Done /\ Kept
<1>1. /\ {"ok", "false"} \subseteq Answer /\ {It} \in SUBSET Datum /\ response = << >>
      /\ It \in held /\ local = {}
  BY DispatchFacts DEF Answer, Datum
<1>2. Called.blank = IF request.cmd = "READ_SETTING_UINT" THEN Garbage ELSE Blank
  BY HandlerFacts DEF Called
<1>3. Kept
  BY UnchangedKept DEF Find
<1>4. CASE It # Absent
  <2>1. response' \in Seq(Object) /\ Len(response') = 1 /\ response'[1].data = {It}
    BY <1>1, <1>4, Packed DEF Find, Pack
  <2>2. QED BY <1>1, <1>3, <2>1 DEF Find, Done
<1>5. CASE It = Absent
  <2>1. {Called.blank} \in SUBSET Datum
    BY <1>2 DEF Datum
  <2>2. /\ response' \in Seq(Object) /\ Len(response') = 1
        /\ response'[1].says = "false" /\ response'[1].data = {Called.blank}
    BY <1>1, <1>5, <2>1, Packed DEF Find, Pack
  <2>3. QED BY <1>1, <1>2, <1>3, <2>2 DEF Find, Done
<1>6. QED BY <1>4, <1>5

LEMMA ReadDone ==
  ASSUME IInv, pc = "dispatch", Read, Called.does = "read"
  PROVE  Done /\ Kept
<1>1. /\ {"ok", "XERROR_READ_FAILED"} \subseteq Answer /\ {{It}, {}} \subseteq SUBSET Datum
      /\ response = << >> /\ It \in held /\ local = {}
  BY DispatchFacts DEF Answer, Datum
<1>2. response' \in Seq(Object) /\ Len(response') = 1 /\ response'[1].data \in {{It}, {}}
  <2>1. CASE Pack("ok", {It})
    BY <1>1, <2>1, Packed DEF Pack
  <2>2. CASE Pack("XERROR_READ_FAILED", {})
    BY <1>1, <2>2, Packed DEF Pack
  <2>3. QED BY <2>1, <2>2 DEF Read
<1>3. Kept
  BY UnchangedKept DEF Read
<1>4. QED BY <1>1, <1>2, <1>3 DEF Read, Done

LEMMA ExecuteDone ==
  ASSUME IInv, pc = "dispatch", Execute, Called.does = "execute"
  PROVE  Done /\ Kept
<1>1. PICK v \in Value \cup {Absent}, says \in {"ok", "false"} : Becomes(v) /\ Pack(says, {v})
  BY DEF Execute
<1>2. response = << >> /\ says \in Answer /\ {v} \in SUBSET Datum /\ local = {}
  BY DispatchFacts DEF Answer, Datum
<1>3. response' \in Seq(Object) /\ Len(response') = 1 /\ response'[1].data = {v}
  BY <1>1, <1>2, Packed DEF Pack
<1>4. Kept /\ v \in held'
  BY <1>1, BecomesKept
<1>5. QED BY <1>2, <1>3, <1>4 DEF Execute, Done

LEMMA ChangeDone ==
  ASSUME IInv, pc = "dispatch", request.cmd \in Command, Accepts, Change,
         Called.does = "change"
  PROVE  Done /\ Kept
<1>1. /\ {"ok", "false", "XERROR_WRITE_FAILED"} \subseteq Answer /\ {} \in SUBSET Datum
      /\ response = << >> /\ local = {} /\ changed = FALSE
  BY DispatchFacts DEF Answer
<1>2. CASE Becomes(IF OverRead THEN Garbage ELSE request.value) /\ Pack("ok", {})
  <2>1. /\ response' \in Seq(Object) /\ Len(response') = 1
        /\ response'[1].says = "ok" /\ response'[1].data = {}
    BY <1>1, <1>2, Packed DEF Pack
  <2> DEFINE v == IF OverRead THEN Garbage ELSE request.value
  <2>2. v \in Value \cup {Absent, Garbage}
    BY DispatchFacts
  <2>3. Kept /\ v \in held' /\ changed' = TRUE
    BY <1>2, <2>2, BecomesKept
  <2> HIDE DEF v
  <2>4. QED BY <1>1, <2>1, <2>3 DEF Change, Done
<1>3. CASE /\ Pack(IF request.cmd = "WRITE_MEMORY" THEN "XERROR_WRITE_FAILED" ELSE "false", {})
           /\ UNCHANGED <<world, held, changed>> \/ \E v \in Value : Becomes(v)
  <2>1. /\ response' \in Seq(Object) /\ Len(response') = 1
        /\ response'[1].says # "ok" /\ response'[1].data = {}
    <3>1. CASE request.cmd = "WRITE_MEMORY"
      BY <1>1, <1>3, <3>1, Packed DEF Pack
    <3>2. CASE request.cmd # "WRITE_MEMORY"
      BY <1>1, <1>3, <3>2, Packed DEF Pack
    <3>3. QED BY <3>1, <3>2
  <2>2. Kept
    BY <1>3, UnchangedKept, BecomesKept
  <2>3. QED BY <1>1, <1>3, <2>1, <2>2 DEF Change, Done
<1>4. QED BY <1>2, <1>3 DEF Change

(* A handler that is content with its arguments. *)
LEMMA ServeInv ==
  ASSUME IInv, Serve
  PROVE  IInv'
<1>1. /\ pc = "dispatch" /\ request.cmd \in Command /\ Accepts /\ request' = request
  BY DEF Serve
<1>2. request \in Request /\ Called.owns \in {0, 1} /\ blocks = 0
  BY <1>1, DispatchFacts, HandlerFacts DEF Called
<1>3. blocks' \in Nat /\ allocated' \in Nat /\ blocks' <= allocated'
  <2>1. allocated \in Nat
    BY DEF IInv, TypeOK
  <2>2. PICK strings \in 0 .. 2 : /\ blocks' = Called.owns + strings
                                 /\ allocated' = allocated + Called.owns + strings
    BY DEF Serve
  <2>3. QED BY <1>2, <2>1, <2>2
<1>4. CASE Called.does = "disassemble"
  <2>1. /\ local' = {It} /\ pc' = "symbolize"
        /\ UNCHANGED <<response, world, held, changed>>
    BY <1>4 DEF Serve, Disassemble
  <2>2. /\ response = << >> /\ It \in held /\ It \in Value \cup {Absent, Garbage}
        /\ changed = FALSE
    BY <1>1, DispatchFacts
  <2>3. request.cmd = "DISASSEMBLE" /\ ~ Malformed
    BY <1>1, <1>2, <1>4, HandlerFacts, AcceptedArguments DEF Called, MissesTheValue
  <2>4. ~ Malformed'
    BY <1>1, <2>3 DEF Malformed, Called
  <2>5. TypeOK'
    BY <1>1, <1>3, <2>1, <2>2 DEF IInv, TypeOK
  <2>6. Frame'
    BY <1>1, <1>2, <1>3, <2>1, <2>2, <2>3, <2>4 DEF IInv, Frame, Answered, It
  <2>7. (ReplyIsOneObject /\ Told /\ DiesOnlyOf)'
    BY <2>1 DEF ReplyIsOneObject, Told, MalformedIsRefused, AnswerWasTrue,
                DiesOnlyOf, Answered
  <2>8. QED BY <2>5, <2>6, <2>7 DEF IInv
<1>5. CASE Called.does # "disassemble"
  <2>1. pc' = "free"
    BY <1>5 DEF Serve
  <2>2. Done /\ Kept
    BY <1>1, <1>5, ReportDone, FindDone, ReadDone, ExecuteDone, ChangeDone DEF Serve
  <2>3. TypeOK'
    BY <1>1, <1>3, <2>1, <2>2 DEF IInv, TypeOK, Done, Kept, Object, Datum
  <2>4. Frame'
    BY <1>1, <1>2, <1>3, <2>1, <2>2 DEF IInv, Frame, Answered, Done, Kept
  <2>5. (ReplyIsOneObject /\ DiesOnlyOf)'
    BY <2>1, <2>2 DEF ReplyIsOneObject, DiesOnlyOf, Done
  <2>6. MalformedIsRefused'
    BY <1>1, <1>2, AcceptedArguments DEF MalformedIsRefused, Malformed, MissesTheValue, Called
  <2>7. AnswerWasTrue'
    BY <1>1, <2>2 DEF AnswerWasTrue, Done
  <2>8. QED BY <2>3, <2>4, <2>5, <2>6, <2>7 DEF IInv, Told
<1>6. QED BY <1>4, <1>5

-----------------------------------------------------------------------------
(* The second call of disassemble_at. *)
LEMMA SymbolizeInv ==
  ASSUME IInv, Symbolize
  PROVE  IInv'
<1> USE DEF Symbolize, ghosts
<1>1. /\ request \in Request /\ It \in held /\ local \subseteq held /\ response = << >>
      /\ held \subseteq Value \cup {Absent, Garbage} /\ request.cmd = "DISASSEMBLE"
      /\ ~ Malformed /\ changed = FALSE
  BY DEF IInv, TypeOK, Frame, Answered, It
<1>2. /\ response' \in Seq(Object) /\ Len(response') = 1
      /\ response'[1].says = "ok" /\ response'[1].data \subseteq held
  <2>1. /\ "ok" \in Answer /\ local \in SUBSET Datum /\ local \cup {It} \in SUBSET Datum
        /\ local \cup {It} \subseteq held
    BY <1>1 DEF Answer, Datum
  <2>2. PICK d \in SUBSET Datum : d \subseteq held /\ Pack("ok", d)
    BY <1>1, <2>1
  <2>3. QED BY <1>1, <2>1, <2>2, Packed DEF Pack
<1>3. TypeOK'
  BY <1>2 DEF IInv, TypeOK, Object, Datum
<1>4. Frame'
  BY <1>1 DEF IInv, Frame, Answered
<1>5. (ReplyIsOneObject /\ DiesOnlyOf)'
  BY <1>2 DEF ReplyIsOneObject, DiesOnlyOf
<1>6. (MalformedIsRefused /\ AnswerWasTrue)'
  BY <1>1, <1>2 DEF MalformedIsRefused, AnswerWasTrue, Malformed, Called
<1>7. QED BY <1>3, <1>4, <1>5, <1>6 DEF IInv, Told

LEMMA FreeInv ==
  ASSUME IInv, Free
  PROVE  IInv'
<1> USE DEF Free, ghosts
<1>1. TypeOK'
  BY DEF IInv, TypeOK, Frame
<1>2. Frame'
  BY DEF IInv, TypeOK, Frame, Answered
<1>3. (ReplyIsOneObject /\ DiesOnlyOf)'
  BY DEF IInv, ReplyIsOneObject, DiesOnlyOf, Answered
<1>4. Told'
  BY DEF IInv, Told, MalformedIsRefused, AnswerWasTrue, Answered,
         Malformed, MissesTheValue, Called
<1>5. QED BY <1>1, <1>2, <1>3, <1>4 DEF IInv

LEMMA SendInv ==
  ASSUME IInv, Send
  PROVE  IInv'
<1> USE DEF Send, memory
<1>1. TypeOK'
  <2>1. response' \in Seq(Object)
    OBVIOUS
  <2>2. QED BY <2>1 DEF IInv, TypeOK, Object, Datum
<1>2. Frame'
  BY DEF IInv, Frame
<1>3. (ReplyIsOneObject /\ Told /\ DiesOnlyOf)'
  BY DEF ReplyIsOneObject, Told, MalformedIsRefused, AnswerWasTrue,
         DiesOnlyOf, Answered
<1>4. QED BY <1>1, <1>2, <1>3 DEF IInv

(* The debuggee runs. *)
LEMMA WorldInv ==
  ASSUME IInv, World
  PROVE  IInv'
<1> USE DEF memory
<1>1. PICK item \in Item, v \in Value \cup {Absent} :
        /\ world' = [world EXCEPT ![item] = v]
        /\ held' = IF request # NoRequest /\ item = request.item
                      THEN held \cup {v} ELSE held
  BY DEF World
<1>2. UNCHANGED <<pc, request, response, local, blocks, allocated, changed>>
  BY DEF World
<1>3. held \subseteq held' /\ held' \subseteq held \cup {v}
  BY <1>1
<1>4. TypeOK'
  BY <1>1, <1>2, <1>3 DEF IInv, TypeOK
<1>5. Frame'
  <2>1. pc # "recv" => world'[request.item] \in held'
    <3> SUFFICES ASSUME pc # "recv" PROVE world'[request.item] \in held'
      OBVIOUS
    <3>1. request \in Request /\ request # NoRequest /\ world[request.item] \in held
      BY NoRequestAssumption DEF IInv, Frame, Request
    <3>2. QED BY <1>1, <3>1 DEF IInv, TypeOK, Request, RequestOf
  <2>2. Malformed' = Malformed /\ Answered' = Answered
    BY <1>2 DEF Malformed, Answered, Called
  <2>3. QED BY <1>2, <1>3, <2>1, <2>2 DEF IInv, Frame
<1>6. (ReplyIsOneObject /\ MalformedIsRefused /\ DiesOnlyOf)'
  BY <1>2 DEF IInv, Told, ReplyIsOneObject, MalformedIsRefused, DiesOnlyOf, Answered,
              Malformed, MissesTheValue, Called
<1>7. AnswerWasTrue'
  BY <1>2, <1>3 DEF IInv, Told, AnswerWasTrue, Answered
<1>8. QED BY <1>4, <1>5, <1>6, <1>7 DEF IInv, Told

LEMMA StutterInv ==
  ASSUME IInv, UNCHANGED vars
  PROVE  IInv'
<1> USE DEF vars, memory, ghosts
<1>1. (TypeOK /\ Frame)'
  BY DEF IInv, TypeOK, Frame, Answered, Malformed, Called
<1>2. (ReplyIsOneObject /\ Told /\ DiesOnlyOf)'
  BY DEF IInv, Told, ReplyIsOneObject, MalformedIsRefused, AnswerWasTrue,
         DiesOnlyOf, Answered, Malformed, MissesTheValue, Called
<1>3. QED BY <1>1, <1>2 DEF IInv

-----------------------------------------------------------------------------
(* The invariant of the request loop: every step of every handler keeps    *)
(* it, and so does the world it asks about.                                *)
THEOREM Invariance == Spec => []IInv
<1>1. ASSUME IInv, [Next]_vars
      PROVE  IInv'
  <2>1. CASE \E r \in RequestOf(Seq(ArgType)) : Recv(r)
    BY <1>1, <2>1, RecvInv DEF Request
  <2>2. CASE Unpack \/ Throw
    BY <1>1, <2>2, EndInv
  <2>3. CASE AnswerUnknown
    BY <1>1, <2>3, UnknownInv
  <2>4. CASE Refuse
    BY <1>1, <2>4, RefuseInv
  <2>5. CASE Serve
    BY <1>1, <2>5, ServeInv
  <2>6. CASE Symbolize \/ Free \/ Send
    BY <1>1, <2>6, SymbolizeInv, FreeInv, SendInv
  <2>7. CASE World
    BY <1>1, <2>7, WorldInv
  <2>8. CASE Over \/ UNCHANGED vars
    BY <1>1, <2>8, StutterInv DEF Over
  <2>9. QED BY <1>1, <2>1, <2>2, <2>3, <2>4, <2>5, <2>6, <2>7, <2>8 DEF Next, Handling
<1>2. QED BY <1>1, InitInv, PTL DEF Spec

(* Requests, replies and allocations have the types the handlers rely on,  *)
(* and never more is freed than was allocated.                             *)
THEOREM TypeCorrect == Spec => []TypeOK
<1>1. IInv => TypeOK
  BY DEF IInv
<1>2. QED BY <1>1, Invariance, PTL

(* On every path through every handler exactly one object is packed. *)
THEOREM OneReply == Spec => []ReplyIsOneObject
<1>1. IInv => ReplyIsOneObject
  BY DEF IInv
<1>2. QED BY <1>1, Invariance, PTL

(* A malformed request is refused and changes nothing, but for one that    *)
(* leaves out a setting's value; and one that is refused names no data.    *)
THEOREM Refused == Spec => []MalformedIsRefused
<1>1. IInv => MalformedIsRefused
  BY DEF IInv, Told
<1>2. QED BY <1>1, Invariance, PTL

(* What takes x64dbg down is one of four kinds of request. *)
THEOREM Deaths == Spec => []DiesOnlyOf
<1>1. IInv => DiesOnlyOf
  BY DEF IInv
<1>2. QED BY <1>1, Invariance, PTL

(* An answer was true at some time since the request came in, or is the    *)
(* blank of a lookup without a result.                                     *)
THEOREM AnswersTrue == Spec => []AnswerWasTrue
<1>1. IInv => AnswerWasTrue
  BY DEF IInv, Told
<1>2. QED BY <1>1, Invariance, PTL
=============================================================================
