---------------------------- MODULE Plugin_proofs ----------------------------
(***************************************************************************)
(* Proofs about module Plugin, for any number of log threads and clients,  *)
(* and for every outcome of acquire_session.                               *)
(***************************************************************************)
EXTENDS Plugin, TLAPS, FiniteSetTheorems

(* Whoever is inside libzmq with the PUB socket holds pub_mutex. *)
HolderInside ==
  /\ \A t \in LogThread : capture[t] = "sending" => pub_mutex = t
  /\ debug = "sending" => pub_mutex = "debug"
  /\ gui = "closing_pub" => pub_mutex = "gui"

(* What pluginit and plugstop have done so far. *)
Constructing == {"unloaded", "write_file", "acquired", "constructed"}

Lifecycle ==
  /\ gui \in Constructing => ~ hooked /\ ~ registered
  /\ gui \notin Constructing => srv
  /\ gui \in Constructing \ {"constructed"} => rep = "not_started"
  /\ gui \in {"unloaded", "write_file"} => ~ session_file
  /\ gui = "write_file" => pub = "bound" /\ rep_sock = "bound"
  /\ gui = "acquired" => (session_file <=> acquired = "session")
  /\ gui \in {"remove_file", "stopped"} => pub = "closed"

(* Nobody is in the plugin's code before srv is set. *)
CallsNeedServer ==
  /\ hooked \/ registered => srv
  /\ debug # "idle" => srv
  /\ \A t \in LogThread : capture[t] # "idle" => srv

IInv ==
  /\ capture \in [LogThread -> {"idle", "entered", "append", "lock", "sending"}]
  /\ HolderInside
  /\ Lifecycle
  /\ CallsNeedServer
  /\ SessionFileMeansServed

LEMMA InitInvariant == Init => IInv
BY PluginAssumption DEF Init, IInv, HolderInside, Lifecycle, Constructing, CallsNeedServer,
   SessionFileMeansServed

-----------------------------------------------------------------------------
LEMMA LoadingInvariant ==
  ASSUME IInv,
         \/ BindSockets \/ WriteSessionFile \/ XAutoServer
         \/ pluginit \/ Attach \/ Activate \/ pluginInit
  PROVE  IInv'
<1>1. UNCHANGED <<capture, debug, pub_mutex>>
  BY DEF BindSockets, WriteSessionFile, XAutoServer, pluginit, Attach, Installs, Activate,
         pluginInit, running, sockets, logcalls, debugger
<1>2. /\ gui \in {"unloaded", "write_file", "acquired", "constructed", "attach", "activate",
                 "register"}
      /\ gui' \in {"write_file", "acquired", "constructed", "attach", "activate", "register",
                  "running"}
  BY DEF BindSockets, BindFailed, WriteSessionFile, XAutoServer, pluginit, Attach, Installs,
         Activate, pluginInit
<1>3. CASE BindSockets \/ WriteSessionFile \/ XAutoServer
  <2>1. UNCHANGED <<srv, hooked, registered>> /\ gui \in Constructing /\ gui' \in Constructing
    BY <1>3 DEF BindSockets, BindFailed, WriteSessionFile, XAutoServer, hook, Constructing
  <2>2. CallsNeedServer'
    BY <1>1, <2>1 DEF IInv, CallsNeedServer
  <2>3. Lifecycle' /\ SessionFileMeansServed'
    <3>1. CASE BindSockets
      <4>1. /\ UNCHANGED <<session_file, rep>> /\ rep_sock' = pub' /\ gui = "unloaded"
            /\ \/ gui' = "write_file" /\ pub' = "bound"
               \/ gui' = "acquired" /\ acquired' = "bind_failed"
        BY <3>1 DEF BindSockets, BindFailed, running, serverq
      <4>2. QED BY <2>1, <4>1 DEF IInv, Lifecycle, Constructing, SessionFileMeansServed
    <3>2. CASE WriteSessionFile
      <4>1. /\ UNCHANGED <<pub, rep_sock, rep>> /\ gui = "write_file" /\ gui' = "acquired"
            /\ session_file' <=> acquired' = "session"
        BY <3>2 DEF WriteSessionFile, sockets, running, serverq
      <4>2. QED BY <2>1, <4>1 DEF IInv, Lifecycle, Constructing, SessionFileMeansServed
    <3>3. CASE XAutoServer
      <4>1. /\ UNCHANGED <<pub, rep_sock, session_file, acquired>>
            /\ gui = "acquired" /\ gui' = "constructed"
            /\ rep' = IF acquired = "session" THEN "recv" ELSE rep
        BY <3>3 DEF XAutoServer, sockets, life
      <4>2. QED BY <2>1, <4>1
            DEF IInv, Lifecycle, Constructing, SessionFileMeansServed, Releasing
    <3>4. QED BY <1>3, <3>1, <3>2, <3>3
  <2>4. QED BY <1>1, <1>2, <2>2, <2>3 DEF IInv, HolderInside
<1>4. CASE pluginit \/ Attach \/ Activate \/ pluginInit
  <2>1. /\ UNCHANGED <<pub, rep_sock, session_file, rep>>
        /\ gui \notin {"unloaded", "write_file", "acquired"}
        /\ gui' \notin Constructing
    BY <1>4 DEF pluginit, Attach, Installs, running, Activate, pluginInit, sockets, life, serverq,
                Constructing
  <2>2. Lifecycle' /\ CallsNeedServer'
    BY <1>1, <1>2, <1>4, <2>1 DEF IInv, Lifecycle, Constructing, CallsNeedServer, pluginit, Attach,
                Installs, Activate, pluginInit, hook
  <2>3. SessionFileMeansServed'
    BY <1>2, <2>1 DEF IInv, SessionFileMeansServed, Releasing, Constructing
  <2>4. QED BY <1>1, <1>2, <2>2, <2>3 DEF IInv, HolderInside
<1>5. QED BY <1>3, <1>4

LEMMA StoppingInvariant ==
  ASSUME IInv,
         pluginStop \/ Deactivate \/ Detach \/ CloseRep \/ LockToClose \/ ClosePub \/ RemoveFile
  PROVE  IInv'
<1>1. UNCHANGED <<capture, debug, srv>> /\ gui \notin Constructing /\ gui' \notin Constructing
  BY DEF Constructing, running, pluginStop, Deactivate, Detach, CloseRep, LockToClose, ClosePub, RemoveFile,
         hook, life, logcalls, debugger
<1>2. HolderInside'
  <2>1. CASE LockToClose
    BY <1>1, <2>1, PluginAssumption DEF LockToClose, IInv, HolderInside
  <2>2. CASE ClosePub
    BY <1>1, <2>2, PluginAssumption DEF ClosePub, IInv, HolderInside
  <2>3. CASE pluginStop \/ Deactivate \/ Detach \/ CloseRep \/ RemoveFile
    BY <1>1, <2>3 DEF running, pluginStop, Deactivate, Detach, CloseRep, RemoveFile, sockets,
                      IInv, HolderInside
  <2>4. QED BY <2>1, <2>2, <2>3
<1>3. Lifecycle' /\ CallsNeedServer'
  BY <1>1 DEF IInv, Lifecycle, CallsNeedServer, running, pluginStop, Deactivate, Detach, CloseRep,
              LockToClose, ClosePub, RemoveFile, hook, sockets
<1>4. SessionFileMeansServed'
  BY <1>1 DEF Constructing, IInv, SessionFileMeansServed, Releasing, running, pluginStop, Deactivate, Detach, CloseRep,
         LockToClose, ClosePub, RemoveFile, sockets, life, serverq
<1>5. QED BY <1>1, <1>2, <1>3, <1>4 DEF IInv

LEMMA CaptureInvariant ==
  ASSUME IInv, NEW t \in LogThread,
         \/ hook_GuiAddLogMessage(t) \/ CheckActive(t) \/ CaptureAppend(t)
         \/ CaptureLock(t) \/ CaptureSend(t)
  PROVE  IInv'
<1>1. UNCHANGED <<gui, debug, hooked, registered, srv, pub, rep_sock, acquired,
                  session_file, rep>>
  BY DEF hook_GuiAddLogMessage, CheckActive, CaptureAppend, CaptureLock, CaptureSend,
         CaptureOver, Returned, AppendMessage, sockets, hook, life, debugger, serverq
<1>2. \E at \in {"idle", "entered", "append", "lock", "sending"} :
        capture' = [capture EXCEPT ![t] = at]
  BY DEF hook_GuiAddLogMessage, CheckActive, CaptureAppend, CaptureLock, CaptureSend,
         CaptureOver, Returned, AppendMessage
<1>3. capture' \in [LogThread -> {"idle", "entered", "append", "lock", "sending"}]
  BY <1>2 DEF IInv
<1>4. HolderInside'
  <2>1. CASE CaptureLock(t)
    <3>1. /\ capture' = [capture EXCEPT ![t] = "sending"]
          /\ pub_mutex = None /\ pub_mutex' = t
      BY <2>1 DEF CaptureLock, LockToSend
    <3>2. QED BY <1>1, <3>1, PluginAssumption DEF IInv, HolderInside
  <2>2. CASE CaptureSend(t)
    <3>1. /\ capture' = [capture EXCEPT ![t] = "idle"]
          /\ capture[t] = "sending" /\ pub_mutex' = None
      BY <2>2 DEF CaptureSend, CaptureOver, Returned, Send, SendThrows
    <3>2. QED BY <1>1, <3>1, PluginAssumption DEF IInv, HolderInside
  <2>3. CASE hook_GuiAddLogMessage(t) \/ CheckActive(t) \/ CaptureAppend(t)
    <3>1. \E at \in {"idle", "entered", "append", "lock"} :
            capture' = [capture EXCEPT ![t] = at]
      BY <2>3 DEF hook_GuiAddLogMessage, CheckActive, CaptureAppend, CaptureOver
    <3>2. pub_mutex' = pub_mutex
      BY <2>3 DEF hook_GuiAddLogMessage, CheckActive, CaptureAppend, sockets
    <3>3. QED BY <1>1, <3>1, <3>2 DEF IInv, HolderInside
  <2>4. QED BY <2>1, <2>2, <2>3
<1>5. CallsNeedServer'
  <2>1. srv
    <3>1. hooked \/ capture[t] # "idle"
      BY DEF hook_GuiAddLogMessage, CheckActive, CaptureAppend, CaptureLock, CaptureSend
    <3>2. QED BY <3>1 DEF IInv, CallsNeedServer
  <2>2. QED BY <1>1, <2>1 DEF CallsNeedServer
<1>6. QED BY <1>1, <1>3, <1>4, <1>5 DEF IInv, Lifecycle, SessionFileMeansServed

LEMMA DebuggerInvariant ==
  ASSUME IInv, Debugger \/ cb_init_debug \/ cb_event
  PROVE  IInv'
<1>1. UNCHANGED <<gui, capture, hooked, registered, srv, pub, rep_sock, acquired, session_file,
                  rep>>
  BY DEF Debugger, DebugLock, DebugSend, cb_init_debug, cb_event, sockets, hook, life,
         logcalls, serverq
<1>2. HolderInside'
  <2>1. CASE DebugLock
    BY <1>1, <2>1, PluginAssumption DEF DebugLock, LockToSend, IInv, HolderInside
  <2>2. CASE DebugSend
    BY <1>1, <2>2, PluginAssumption DEF DebugSend, Send, SendThrows, IInv, HolderInside
  <2>3. CASE cb_init_debug \/ cb_event
    BY <1>1, <2>3 DEF cb_init_debug, cb_event, sockets, IInv, HolderInside
  <2>4. QED BY <2>1, <2>2, <2>3 DEF Debugger
<1>3. CallsNeedServer'
  <2>1. srv
    BY DEF Debugger, DebugLock, DebugSend, cb_init_debug, cb_event, IInv, CallsNeedServer
  <2>2. QED BY <1>1, <2>1 DEF CallsNeedServer
<1>4. QED BY <1>1, <1>2, <1>3 DEF IInv, Lifecycle, SessionFileMeansServed

LEMMA ServerInvariant ==
  ASSUME IInv, Server \/ RecvClosed \/ SendReplyClosed \/ \E c \in Client : Ask(c)
  PROVE  IInv'
<1>1. UNCHANGED <<gui, capture, debug, pub_mutex, hooked, registered, srv, pub, rep_sock,
                  acquired, session_file>>
  BY DEF Server, Recv, Dispatch, SendReply, SendReplyClosed, RecvClosed, Ask, sockets,
         hook, life, logcalls, debugger
<1>2. \/ rep' = rep
      \/ rep # "not_started" /\ rep' \in {"recv", "dispatch", "send", "quit"}
      \/ rep # "not_started" /\ rep' = "over" /\ rep_sock = "closed"
  BY DEF Server, Recv, Dispatch, SendReply, SendReplyClosed, RecvClosed, Ask
<1>3. Lifecycle'
  BY <1>1, <1>2 DEF IInv, Lifecycle, Constructing
<1>4. SessionFileMeansServed'
  BY <1>1, <1>2 DEF IInv, SessionFileMeansServed
<1>5. QED BY <1>1, <1>3, <1>4 DEF IInv, HolderInside, CallsNeedServer

LEMMA StutterInvariant ==
  ASSUME IInv, UNCHANGED vars
  PROVE  IInv'
BY DEF vars, running, sockets, hook, life, logcalls, debugger, serverq, IInv, HolderInside,
       Lifecycle, CallsNeedServer, SessionFileMeansServed

THEOREM PluginInvariant == Spec => []IInv
<1>1. IInv /\ [Next]_vars => IInv'
  <2> SUFFICES ASSUME IInv, [Next]_vars PROVE IInv'
    OBVIOUS
  <2>1. CASE Gui \/ pluginStop
    BY <2>1, LoadingInvariant, StoppingInvariant DEF Gui
  <2>2. ASSUME NEW t \in LogThread,
               \/ hook_GuiAddLogMessage(t) \/ CheckActive(t) \/ CaptureAppend(t)
               \/ CaptureLock(t) \/ CaptureSend(t)
        PROVE  IInv'
    BY <2>2, CaptureInvariant
  <2>3. CASE Debugger \/ cb_init_debug \/ cb_event
    BY <2>3, DebuggerInvariant
  <2>4. CASE Server \/ RecvClosed \/ SendReplyClosed \/ \E c \in Client : Ask(c)
    BY <2>4, ServerInvariant
  <2>5. CASE Over \/ UNCHANGED vars
    BY <2>5, StutterInvariant DEF Over
  <2>6. QED BY <2>1, <2>2, <2>3, <2>4, <2>5 DEF Next, LogThreads
<1>2. QED BY InitInvariant, <1>1, PTL DEF Spec

-----------------------------------------------------------------------------
(* However many threads log, publish and tear down: no two are ever inside *)
(* libzmq with the PUB socket, and whoever is holds pub_mutex.             *)
THEOREM PubSocketIsExclusive == Spec => []PubSocketExclusive
<1>1. IInv => PubSocketExclusive
  <2> SUFFICES ASSUME IInv, NEW t \in UsingPub
               PROVE  UsingPub = {t} /\ pub_mutex = t
    BY DEF PubSocketExclusive
  <2>1. \A u \in UsingPub : pub_mutex = u
    BY DEF IInv, HolderInside, UsingPub
  <2>2. QED BY <2>1
<1>2. QED BY <1>1, PluginInvariant, PTL

(* srv is set before any callback or capture can use it. *)
THEOREM ServerIsSetFirst == Spec => []ServerSetFirst
<1>1. IInv => ServerSetFirst
  BY DEF IInv, CallsNeedServer, ServerSetFirst
<1>2. QED BY <1>1, PluginInvariant, PTL

(* While the session file is there and the plugin is not stopping, both    *)
(* sockets are bound, and the REP thread is about to start, serves, or has *)
(* answered a QUIT.                                                        *)
THEOREM FileMeansServed == Spec => []SessionFileMeansServed
<1>1. IInv => SessionFileMeansServed
  BY DEF IInv
<1>2. QED BY <1>1, PluginInvariant, PTL

(* Nothing is published once plugstop has returned. *)
THEOREM NothingAfterStop == Spec => SilentAfterStop
<1>1. IInv /\ [Next]_vars => [gui = "stopped" => UNCHANGED published]_vars
  <2> SUFFICES ASSUME IInv, [Next]_vars, gui = "stopped" PROVE UNCHANGED published
    OBVIOUS
  <2>1. pub = "closed"
    BY DEF IInv, Lifecycle
  <2>2. CASE Gui \/ pluginStop
    BY <2>2 DEF Gui, BindSockets, BindFailed, WriteSessionFile, XAutoServer, pluginit,
                Attach, Installs, Activate, pluginInit, running,
                pluginStop, Deactivate, Detach, CloseRep, LockToClose, ClosePub, RemoveFile, ghosts
  <2>3. ASSUME NEW t \in LogThread,
               \/ hook_GuiAddLogMessage(t) \/ CheckActive(t) \/ CaptureAppend(t)
               \/ CaptureLock(t) \/ CaptureSend(t)
        PROVE  UNCHANGED published
    BY <2>1, <2>3 DEF hook_GuiAddLogMessage, CheckActive, CaptureAppend, CaptureLock,
                      AppendMessage, CaptureSend, Send, SendThrows, ghosts
  <2>4. CASE Debugger \/ cb_init_debug \/ cb_event
    BY <2>1, <2>4 DEF Debugger, DebugLock, DebugSend, Send, SendThrows, cb_init_debug,
                      cb_event, ghosts
  <2>5. CASE Server \/ RecvClosed \/ SendReplyClosed \/ \E c \in Client : Ask(c)
    BY <2>5 DEF Server, Recv, Dispatch, SendReply, SendReplyClosed, RecvClosed, Ask, ghosts
  <2>6. CASE Over \/ UNCHANGED vars
    BY <2>6 DEF Over, vars, running, ghosts
  <2>7. QED BY <2>2, <2>3, <2>4, <2>5, <2>6 DEF Next, LogThreads
<1>2. QED BY PluginInvariant, <1>1, PTL DEF Spec, SilentAfterStop

-----------------------------------------------------------------------------
(* Which messages are in the buffer.  Messages are told apart, so each is  *)
(* appended once; what the buffer holds was appended since its last clear; *)
(* and each clear has at most one EVENT_INIT_DEBUG, published after it.    *)
Event ==
  {[type |-> cb] : cb \in Callback \cup {"EVENT_INIT_DEBUG"}} \cup {LogEvent(m) : m \in Message}

LogRecord == [msg : Message, thread : LogThread, logged_in : Nat, session : Nat]

Logged ==
  /\ entries \in Seq(Message)
  /\ appended \in Seq(LogRecord)
  /\ session \in Nat
  /\ msg \in [LogThread -> Message \cup {None}] /\ logged_in \in [LogThread -> Nat]
  /\ \A t \in LogThread : capture[t] # "idle" => msg[t] \in Message

(* Each message is on its way on one thread at most, and appended once. *)
Once ==
  /\ \A t, u \in LogThread :
       t # u /\ capture[t] # "idle" /\ capture[u] # "idle" => msg[t] # msg[u]
  /\ \A t \in LogThread : capture[t] \in {"entered", "append"} =>
       \A k \in DOMAIN appended : appended[k].msg # msg[t]
  /\ \A k, l \in DOMAIN appended : appended[k].msg = appended[l].msg => k = l

OfThisSession ==
  \A j \in DOMAIN entries : \E k \in DOMAIN appended :
    appended[k].msg = entries[j] /\ appended[k].session = session

(* EVENT_INIT_DEBUGs published, and the one that is about to be. *)
Announced ==
  /\ published \in Seq(Event)
  /\ debug # "idle" => event \in Event
  /\ InitDebugEvents \in Nat
  /\ InitDebugEvents + (IF debug # "idle" /\ event = InitDebugEvent THEN 1 ELSE 0) <= session

FreshInv == IInv /\ Logged /\ Once /\ OfThisSession /\ Announced

LEMMA InitFresh == Init => FreshInv
<1>1. SUFFICES ASSUME Init PROVE Logged /\ Once /\ OfThisSession /\ Announced
  BY InitInvariant DEF FreshInv
<1>2. Logged /\ Once /\ OfThisSession
  BY <1>1 DEF Init, Buffer!Init, Logged, Once, OfThisSession
<1>3. InitDebugEvents = 0
  <2>1. {j \in DOMAIN published : published[j] = InitDebugEvent} = {}
    BY <1>1 DEF Init
  <2>2. QED BY <2>1, FS_EmptySet DEF InitDebugEvents
<1>4. Announced
  BY <1>1, <1>3 DEF Init, Announced
<1>5. QED BY <1>2, <1>4

(* The number of EVENT_INIT_DEBUGs after one more event. *)
LEMMA OneMoreEvent ==
  ASSUME published \in Seq(Event), NEW e \in Event, published' = Append(published, e),
         InitDebugEvents \in Nat
  PROVE  /\ published' \in Seq(Event)
         /\ InitDebugEvents' = InitDebugEvents + (IF e = InitDebugEvent THEN 1 ELSE 0)
<1> DEFINE n == Len(published)
           S == {j \in DOMAIN published : published[j] = InitDebugEvent}
           T == {j \in DOMAIN published' : published'[j] = InitDebugEvent}
<1>1. /\ n \in Nat /\ DOMAIN published = 1 .. n /\ DOMAIN published' = 1 .. n + 1
      /\ published'[n + 1] = e /\ \A j \in 1 .. n : published'[j] = published[j]
      /\ published' \in Seq(Event)
  OBVIOUS
<1>2. T = S \cup (IF e = InitDebugEvent THEN {n + 1} ELSE {}) /\ n + 1 \notin S
  <2>1. \A j \in 1 .. n + 1 : j \in 1 .. n \/ j = n + 1
    BY <1>1
  <2>2. n + 1 \notin 1 .. n /\ n + 1 \in 1 .. n + 1 /\ 1 .. n \subseteq 1 .. n + 1
    BY <1>1
  <2>3. QED BY <1>1, <2>1, <2>2
<1>3. IsFiniteSet(S) /\ Cardinality(S) = InitDebugEvents /\ Cardinality(T) = InitDebugEvents'
  <2>1. S \in SUBSET (1 .. n) /\ IsFiniteSet(1 .. n)
    BY <1>1, FS_Interval
  <2>2. QED BY <2>1, FS_Subset DEF InitDebugEvents
<1> HIDE DEF S, T
<1>4. CASE e = InitDebugEvent
  <2>1. T = S \cup {n + 1}
    BY <1>2, <1>4
  <2>2. Cardinality(T) = Cardinality(S) + 1
    BY <1>2, <1>3, <2>1, FS_AddElement
  <2>3. QED BY <1>1, <1>3, <1>4, <2>2
<1>5. CASE e # InitDebugEvent
  <2>1. T = S
    BY <1>2, <1>5
  <2>2. QED BY <1>1, <1>3, <1>5, <2>1
<1>6. QED BY <1>4, <1>5

(* append keeps entries of the buffer, and adds its message. *)
LEMMA BufferAppends ==
  ASSUME entries \in Seq(Message), NEW m \in Message, Buffer!append(m)
  PROVE  /\ entries' \in Seq(Message)
         /\ \A j \in DOMAIN entries' :
              entries'[j] = m \/ \E k \in DOMAIN entries : entries'[j] = entries[k]
<1>1. PICK k \in 0 .. Len(entries) :
        entries' = Append(SubSeq(entries, k+1, Len(entries)), m)
  BY DEF Buffer!append
<1>2. PICK tail : tail = SubSeq(entries, k+1, Len(entries))
  OBVIOUS
<1>3. /\ tail \in Seq(Message) /\ Len(tail) = Len(entries) - k
      /\ \A j \in 1 .. Len(tail) : k + j \in 1 .. Len(entries) /\ tail[j] = entries[k + j]
  BY <1>2
<1>4. /\ entries' = Append(tail, m) /\ entries' \in Seq(Message)
      /\ DOMAIN entries' = 1 .. Len(tail) + 1 /\ DOMAIN entries = 1 .. Len(entries)
  BY <1>1, <1>2, <1>3
<1>5. ASSUME NEW j \in DOMAIN entries'
      PROVE  entries'[j] = m \/ \E l \in DOMAIN entries : entries'[j] = entries[l]
  <2>1. CASE j = Len(tail) + 1
    BY <1>3, <1>4, <2>1
  <2>2. CASE j \in 1 .. Len(tail)
    <3>1. entries'[j] = tail[j]
      BY <1>3, <1>4, <2>2
    <3>2. QED BY <1>3, <1>4, <2>2, <3>1
  <2>3. QED BY <1>3, <1>4, <2>1, <2>2
<1>6. QED BY <1>4, <1>5

LEMMA UnloggedSteps ==
  ASSUME FreshInv, UNCHANGED <<entries, appended, session, logcalls, debugger, published>>
  PROVE  Logged' /\ Once' /\ OfThisSession' /\ Announced'
<1>1. InitDebugEvents' = InitDebugEvents
  BY DEF InitDebugEvents
<1>2. QED BY <1>1 DEF FreshInv, Logged, Once, OfThisSession, Announced, logcalls, debugger

(* A log thread appends the message it was called with. *)
LEMMA AppendIsFresh ==
  ASSUME FreshInv, NEW t \in LogThread, CaptureAppend(t)
  PROVE  Logged' /\ Once' /\ OfThisSession' /\ Announced'
<1> DEFINE rec == [msg |-> msg[t], thread |-> t, logged_in |-> logged_in[t], session |-> session]
           n == Len(appended)
<1>1. /\ capture[t] = "append" /\ Buffer!append(msg[t])
      /\ appended' = Append(appended, rec)
      /\ UNCHANGED <<debug, event, published, session>>
      /\ \/ capture' = [capture EXCEPT ![t] = "lock"] /\ UNCHANGED <<msg, logged_in>>
         \/ /\ capture' = [capture EXCEPT ![t] = "idle"] /\ msg' = [msg EXCEPT ![t] = None]
            /\ logged_in' = [logged_in EXCEPT ![t] = 0]
  BY DEF CaptureAppend, AppendMessage, CaptureOver, debugger
<1>2. /\ msg[t] \in Message /\ session \in Nat /\ entries \in Seq(Message)
      /\ appended \in Seq(LogRecord)
      /\ msg \in [LogThread -> Message \cup {None}] /\ logged_in \in [LogThread -> Nat]
      /\ capture \in [LogThread -> {"idle", "entered", "append", "lock", "sending"}]
  BY <1>1 DEF FreshInv, Logged, IInv
<1> HIDE DEF rec
<1>3. /\ n \in Nat /\ DOMAIN appended = 1 .. n /\ DOMAIN appended' = 1 .. n + 1
      /\ appended'[n + 1] = rec /\ \A k \in 1 .. n : appended'[k] = appended[k]
      /\ rec.msg = msg[t] /\ rec.session = session
      /\ appended' \in Seq(LogRecord)
  <2>1. rec \in LogRecord
    BY <1>2 DEF rec, LogRecord
  <2>2. rec.msg = msg[t] /\ rec.session = session
    BY DEF rec
  <2>3. QED BY <1>1, <1>2, <2>1, <2>2
<1>4. \A k \in 1 .. n : appended[k].msg # msg[t]
  BY <1>1, <1>3 DEF FreshInv, Once
<1>5. /\ entries' \in Seq(Message)
      /\ \A j \in DOMAIN entries' :
           entries'[j] = msg[t] \/ \E k \in DOMAIN entries : entries'[j] = entries[k]
  BY <1>1, <1>2, BufferAppends
<1>6. /\ capture'[t] \in {"lock", "idle"}
      /\ capture'[t] # "idle" => msg'[t] = msg[t]
      /\ \A u \in LogThread : u # t => capture'[u] = capture[u] /\ msg'[u] = msg[u]
      /\ msg' \in [LogThread -> Message \cup {None}] /\ logged_in' \in [LogThread -> Nat]
  BY <1>1, <1>2
<1>7. Logged'
  BY <1>1, <1>2, <1>3, <1>5, <1>6 DEF FreshInv, Logged
<1>8. Once'
  <2>1. ASSUME NEW u \in LogThread, NEW v \in LogThread, u # v,
               capture'[u] # "idle", capture'[v] # "idle"
        PROVE  msg'[u] # msg'[v]
    BY <1>1, <1>6, <2>1 DEF FreshInv, Once
  <2>2. ASSUME NEW u \in LogThread, capture'[u] \in {"entered", "append"},
               NEW k \in DOMAIN appended'
        PROVE  appended'[k].msg # msg'[u]
    <3>1. u # t /\ capture[u] \in {"entered", "append"} /\ msg'[u] = msg[u]
      BY <1>6, <2>2
    <3>2. CASE k = n + 1
      BY <1>1, <1>3, <3>1, <3>2 DEF FreshInv, Once
    <3>3. CASE k \in 1 .. n
      BY <1>3, <3>1, <3>3 DEF FreshInv, Once
    <3>4. QED BY <1>3, <3>2, <3>3
  <2>3. ASSUME NEW k \in DOMAIN appended', NEW l \in DOMAIN appended',
               appended'[k].msg = appended'[l].msg
        PROVE  k = l
    <3>1. CASE k = n + 1 \/ l = n + 1
      BY <1>3, <1>4, <2>3, <3>1
    <3>2. CASE k \in 1 .. n /\ l \in 1 .. n
      BY <1>3, <2>3, <3>2 DEF FreshInv, Once
    <3>3. QED BY <1>3, <3>1, <3>2
  <2>4. QED BY <2>1, <2>2, <2>3 DEF Once
<1>9. OfThisSession'
  <2>1. ASSUME NEW j \in DOMAIN entries'
        PROVE  \E k \in DOMAIN appended' :
                 appended'[k].msg = entries'[j] /\ appended'[k].session = session
    <3>1. CASE entries'[j] = msg[t]
      <4>1. n + 1 \in DOMAIN appended'
        BY <1>3
      <4>2. QED BY <1>3, <3>1, <4>1
    <3>2. CASE \E l \in DOMAIN entries : entries'[j] = entries[l]
      <4>1. PICK l \in DOMAIN entries : entries'[j] = entries[l]
        BY <3>2
      <4>2. PICK k \in DOMAIN appended :
              appended[k].msg = entries[l] /\ appended[k].session = session
        BY DEF FreshInv, OfThisSession
      <4>3. k \in DOMAIN appended' /\ appended'[k] = appended[k]
        BY <1>3
      <4>4. QED BY <4>1, <4>2, <4>3
    <3>3. QED BY <1>5, <3>1, <3>2
  <2>2. QED BY <1>1, <2>1 DEF OfThisSession
<1>10. Announced'
  <2>1. InitDebugEvents' = InitDebugEvents
    BY <1>1 DEF InitDebugEvents
  <2>2. QED BY <1>1, <2>1 DEF FreshInv, Announced
<1>11. QED BY <1>7, <1>8, <1>9, <1>10

(* The other steps of a log thread leave the buffer alone. *)
LEMMA CaptureIsFresh ==
  ASSUME FreshInv, NEW t \in LogThread,
         \/ hook_GuiAddLogMessage(t) \/ CheckActive(t) \/ CaptureLock(t) \/ CaptureSend(t)
  PROVE  Logged' /\ Once' /\ OfThisSession' /\ Announced'
<1>1. UNCHANGED <<entries, appended, session, debug, event>>
  BY DEF hook_GuiAddLogMessage, CheckActive, CaptureLock, CaptureSend, buffer, debugger, ghosts
<1>2. /\ msg \in [LogThread -> Message \cup {None}]
      /\ logged_in \in [LogThread -> Nat] /\ session \in Nat
      /\ capture \in [LogThread -> {"idle", "entered", "append", "lock", "sending"}]
      /\ \A u \in LogThread : capture[u] # "idle" => msg[u] \in Message
  BY DEF FreshInv, Logged, IInv
<1>3. \/ /\ capture' = [capture EXCEPT ![t] = "entered"]
         /\ \E m \in Message :
              /\ m \notin {appended[k].msg : k \in DOMAIN appended}
              /\ \A u \in LogThread : msg[u] # m
              /\ msg' = [msg EXCEPT ![t] = m]
      \/ /\ capture[t] # "idle" /\ UNCHANGED msg
         /\ \/ capture[t] = "entered" /\ capture' = [capture EXCEPT ![t] = "append"]
            \/ capture' = [capture EXCEPT ![t] = "sending"]
      \/ capture' = [capture EXCEPT ![t] = "idle"] /\ msg' = [msg EXCEPT ![t] = None]
  BY DEF hook_GuiAddLogMessage, CheckActive, CaptureLock, CaptureSend, CaptureOver, Returned
<1>4. /\ msg' \in [LogThread -> Message \cup {None}]
      /\ \A u \in LogThread : u # t => capture'[u] = capture[u] /\ msg'[u] = msg[u]
  BY <1>2, <1>3
<1>5. \/ /\ capture'[t] = "entered" /\ msg'[t] \in Message
         /\ \A k \in DOMAIN appended : appended[k].msg # msg'[t]
         /\ \A u \in LogThread : msg[u] # msg'[t]
      \/ /\ capture[t] # "idle" /\ msg'[t] = msg[t]
         /\ capture'[t] = "append" => capture[t] = "entered"
         /\ capture'[t] \in {"append", "sending"}
      \/ capture'[t] = "idle"
  BY <1>2, <1>3
<1>6. Logged'
  <2>1. \/ UNCHANGED logged_in
        \/ \E n \in Nat : logged_in' = [logged_in EXCEPT ![t] = n]
    BY <1>2 DEF hook_GuiAddLogMessage, CheckActive, CaptureLock, CaptureSend, CaptureOver, Returned
  <2>2. logged_in' \in [LogThread -> Nat]
    BY <1>2, <2>1
  <2>3. QED BY <1>1, <1>2, <1>4, <1>5, <2>2 DEF FreshInv, Logged
<1>7. Once'
  <2>1. ASSUME NEW u \in LogThread, NEW v \in LogThread, u # v,
               capture'[u] # "idle", capture'[v] # "idle"
        PROVE  msg'[u] # msg'[v]
    BY <1>4, <1>5, <2>1 DEF FreshInv, Once
  <2>2. ASSUME NEW u \in LogThread, capture'[u] \in {"entered", "append"},
               NEW k \in DOMAIN appended
        PROVE  appended[k].msg # msg'[u]
    BY <1>4, <1>5, <2>2 DEF FreshInv, Once
  <2>3. QED BY <1>1, <2>1, <2>2 DEF FreshInv, Once
<1>8. OfThisSession'
  BY <1>1 DEF FreshInv, OfThisSession
<1>9. Announced'
  <2>1. CASE published' = published
    <3>1. InitDebugEvents' = InitDebugEvents
      BY <2>1 DEF InitDebugEvents
    <3>2. QED BY <1>1, <2>1, <3>1 DEF FreshInv, Announced
  <2>2. CASE published' # published
    <3>1. published' = Append(published, LogEvent(msg[t])) /\ capture[t] = "sending"
      BY <2>2 DEF hook_GuiAddLogMessage, CheckActive, CaptureLock, CaptureSend, Send,
                  SendThrows, ghosts
    <3>2. LogEvent(msg[t]) \in Event /\ LogEvent(msg[t]) # InitDebugEvent
      <4>1. msg[t] \in Message
        BY <1>2, <3>1
      <4>2. LogEvent(msg[t]).type # InitDebugEvent.type
        BY DEF LogEvent, InitDebugEvent
      <4>3. QED BY <4>1, <4>2 DEF Event
    <3>3. published' \in Seq(Event) /\ InitDebugEvents' = InitDebugEvents
      BY <3>1, <3>2, OneMoreEvent DEF FreshInv, Announced
    <3>4. QED BY <1>1, <3>3 DEF FreshInv, Announced
  <2>3. QED BY <2>1, <2>2
<1>10. QED BY <1>6, <1>7, <1>8, <1>9

(* cb_init_debug: the buffer is empty before the event is published. *)
LEMMA DebuggerIsFresh ==
  ASSUME FreshInv, Debugger \/ cb_init_debug \/ cb_event
  PROVE  Logged' /\ Once' /\ OfThisSession' /\ Announced'
<1>1. UNCHANGED <<appended, msg, logged_in, capture>>
  BY DEF Debugger, DebugLock, DebugSend, cb_init_debug, cb_event, logcalls, ghosts
<1>2. CASE cb_init_debug
  <2>1. /\ entries' = << >> /\ session' = session + 1 /\ published' = published
        /\ debug = "idle" /\ debug' = "lock" /\ event' = InitDebugEvent
    BY <1>2 DEF cb_init_debug, ClearLog, Buffer!clear
  <2>2. Logged' /\ Once' /\ OfThisSession'
    BY <1>1, <2>1 DEF FreshInv, Logged, Once, OfThisSession
  <2>3. InitDebugEvents' = InitDebugEvents
    BY <2>1 DEF InitDebugEvents
  <2>4. InitDebugEvent \in Event
    BY DEF InitDebugEvent, Event
  <2>5. Announced'
    BY <2>1, <2>3, <2>4 DEF FreshInv, Logged, Announced
  <2>6. QED BY <2>2, <2>5
<1>3. CASE Debugger \/ cb_event
  <2>1. UNCHANGED <<entries, session>>
    BY <1>3 DEF Debugger, DebugLock, DebugSend, cb_event, buffer, ghosts
  <2>2. Logged' /\ Once' /\ OfThisSession'
    BY <1>1, <2>1 DEF FreshInv, Logged, Once, OfThisSession
  <2>3. Announced'
    <3>1. CASE cb_event
      <4>1. PICK cb \in Callback : event' = [type |-> cb]
        BY <3>1 DEF cb_event
      <4>2. event' \in Event /\ event' # InitDebugEvent
        <5>1. event'.type = cb /\ InitDebugEvent.type = "EVENT_INIT_DEBUG"
          BY <4>1 DEF InitDebugEvent
        <5>2. QED BY <4>1, <5>1, PluginAssumption DEF Event
      <4>3. published' = published /\ debug = "idle"
        BY <3>1 DEF cb_event, ghosts
      <4>4. InitDebugEvents' = InitDebugEvents
        BY <4>3 DEF InitDebugEvents
      <4>5. QED BY <2>1, <4>2, <4>3, <4>4 DEF FreshInv, Announced
    <3>2. CASE Debugger /\ published' = published
      <4>1. \/ debug' = "idle"
            \/ debug' = "sending" /\ debug = "lock" /\ event' = event
        BY <3>2 DEF Debugger, DebugLock, DebugSend
      <4>2. InitDebugEvents' = InitDebugEvents
        BY <3>2 DEF InitDebugEvents
      <4>3. QED BY <2>1, <3>2, <4>1, <4>2 DEF FreshInv, Logged, Announced
    <3>3. CASE Debugger /\ published' # published
      <4>1. debug = "sending" /\ debug' = "idle" /\ published' = Append(published, event)
        BY <3>3 DEF Debugger, DebugLock, DebugSend, Send, SendThrows, ghosts
      <4>2. published \in Seq(Event) /\ event \in Event /\ InitDebugEvents \in Nat
        BY <4>1 DEF FreshInv, Announced
      <4>3. /\ published' \in Seq(Event)
            /\ InitDebugEvents' = InitDebugEvents + (IF event = InitDebugEvent THEN 1 ELSE 0)
        BY <4>1, <4>2, OneMoreEvent
      <4>4. QED BY <2>1, <4>1, <4>2, <4>3 DEF FreshInv, Logged, Announced
    <3>4. QED BY <1>3, <3>1, <3>2, <3>3
  <2>4. QED BY <2>2, <2>3
<1>4. QED BY <1>2, <1>3

THEOREM FreshInvariant == Spec => []FreshInv
<1>1. FreshInv /\ [Next]_vars /\ IInv' => FreshInv'
  <2> SUFFICES ASSUME FreshInv, [Next]_vars PROVE Logged' /\ Once' /\ OfThisSession' /\ Announced'
    BY DEF FreshInv
  <2>1. CASE Gui \/ pluginStop
    <3>1. UNCHANGED <<entries, appended, session, logcalls, debugger, published>>
      BY <2>1 DEF Gui, BindSockets, BindFailed, WriteSessionFile, XAutoServer, pluginit,
                Attach, Activate, pluginInit, running, pluginStop,
                  Deactivate, Detach, CloseRep, LockToClose, ClosePub, RemoveFile, buffer,
                  logcalls, debugger, ghosts
    <3>2. QED BY <3>1, UnloggedSteps
  <2>2. ASSUME NEW t \in LogThread,
               \/ hook_GuiAddLogMessage(t) \/ CheckActive(t) \/ CaptureAppend(t)
               \/ CaptureLock(t) \/ CaptureSend(t)
        PROVE  Logged' /\ Once' /\ OfThisSession' /\ Announced'
    BY <2>2, AppendIsFresh, CaptureIsFresh
  <2>3. CASE Debugger \/ cb_init_debug \/ cb_event
    BY <2>3, DebuggerIsFresh
  <2>4. CASE Server \/ RecvClosed \/ SendReplyClosed \/ \E c \in Client : Ask(c)
    <3>1. UNCHANGED <<entries, appended, session, logcalls, debugger, published>>
      BY <2>4 DEF Server, Recv, Dispatch, SendReply, SendReplyClosed, RecvClosed, Ask, buffer,
                  logcalls, debugger, ghosts
    <3>2. QED BY <3>1, UnloggedSteps
  <2>5. CASE Over \/ UNCHANGED vars
    <3>1. UNCHANGED <<entries, appended, session, logcalls, debugger, published>>
      BY <2>5 DEF Over, vars, running, buffer, logcalls, debugger, ghosts
    <3>2. QED BY <3>1, UnloggedSteps
  <2>6. QED BY <2>1, <2>2, <2>3, <2>4, <2>5 DEF Next, LogThreads
<1>2. QED BY InitFresh, PluginInvariant, <1>1, PTL DEF Spec

(* Which session a message was logged in: never a later one than it was    *)
(* appended in, and no earlier one than the thread's messages before it    *)
(* were appended in.                                                       *)
Stamped ==
  /\ \A k \in DOMAIN appended : appended[k].session <= session
  /\ \A t \in LogThread : capture[t] \in {"entered", "append"} =>
       \A k \in DOMAIN appended : appended[k].thread = t => appended[k].session <= logged_in[t]
  /\ \A k, l \in DOMAIN appended :
       k < l /\ appended[k].thread = appended[l].thread
       => appended[k].session <= appended[l].logged_in

LEMMA RecordFields ==
  ASSUME FreshInv, NEW k \in DOMAIN appended
  PROVE  /\ appended[k].thread \in LogThread
         /\ appended[k].logged_in \in Nat /\ appended[k].session \in Nat
         /\ k \in Nat
<1>1. appended \in Seq(LogRecord)
  BY DEF FreshInv, Logged
<1>2. appended[k] \in LogRecord /\ k \in Nat
  BY <1>1
<1>3. QED BY <1>2 DEF LogRecord

LEMMA AppendStamps ==
  ASSUME FreshInv, Stamped, NEW t \in LogThread, CaptureAppend(t)
  PROVE  Stamped'
<1> DEFINE rec == [msg |-> msg[t], thread |-> t, logged_in |-> logged_in[t], session |-> session]
           n == Len(appended)
<1>1. /\ capture[t] = "append" /\ appended' = Append(appended, rec) /\ session' = session
      /\ \/ capture' = [capture EXCEPT ![t] = "lock"] /\ UNCHANGED logged_in
         \/ /\ capture' = [capture EXCEPT ![t] = "idle"]
            /\ logged_in' = [logged_in EXCEPT ![t] = 0]
  BY DEF CaptureAppend, AppendMessage, CaptureOver
<1>2. /\ session \in Nat /\ msg[t] \in Message /\ logged_in \in [LogThread -> Nat]
      /\ appended \in Seq(LogRecord)
      /\ capture \in [LogThread -> {"idle", "entered", "append", "lock", "sending"}]
  BY <1>1 DEF FreshInv, Logged, IInv
<1> HIDE DEF rec
<1>3. /\ n \in Nat /\ DOMAIN appended = 1 .. n /\ DOMAIN appended' = 1 .. n + 1
      /\ appended'[n + 1] = rec /\ \A k \in 1 .. n : appended'[k] = appended[k]
      /\ rec.thread = t /\ rec.logged_in = logged_in[t] /\ rec.session = session
  <2>1. rec \in LogRecord
    BY <1>2 DEF rec, LogRecord
  <2>2. rec.thread = t /\ rec.logged_in = logged_in[t] /\ rec.session = session
    BY DEF rec
  <2>3. QED BY <1>1, <1>2, <2>1, <2>2
<1>4. \A u \in LogThread : capture'[u] \in {"entered", "append"} =>
        u # t /\ capture'[u] = capture[u] /\ logged_in'[u] = logged_in[u]
  BY <1>1, <1>2
<1>5. \A k \in DOMAIN appended' : appended'[k].session <= session
  BY <1>2, <1>3 DEF Stamped
<1>6. ASSUME NEW u \in LogThread, capture'[u] \in {"entered", "append"},
             NEW k \in 1 .. n + 1, appended'[k].thread = u
      PROVE  appended'[k].session <= logged_in'[u]
  <2>1. k \in 1 .. n
    BY <1>3, <1>4, <1>6
  <2>2. QED BY <1>3, <1>4, <1>6, <2>1 DEF Stamped
<1>7. ASSUME NEW k \in 1 .. n + 1, NEW l \in 1 .. n + 1, k < l,
             appended'[k].thread = appended'[l].thread
      PROVE  appended'[k].session <= appended'[l].logged_in
  <2>1. k \in 1 .. n /\ appended'[k] = appended[k]
    BY <1>3, <1>7
  <2>2. CASE l = n + 1
    BY <1>1, <1>3, <1>7, <2>1, <2>2 DEF Stamped
  <2>3. CASE l \in 1 .. n
    BY <1>3, <1>7, <2>1, <2>3 DEF Stamped
  <2>4. QED BY <1>3, <2>2, <2>3
<1>8. QED BY <1>1, <1>3, <1>5, <1>6, <1>7 DEF Stamped

THEOREM StampInvariant == Spec => []Stamped
<1>1. Init => Stamped
  BY DEF Init, Stamped
<1>2. FreshInv /\ Stamped /\ [Next]_vars => Stamped'
  <2> SUFFICES ASSUME FreshInv, Stamped, [Next]_vars PROVE Stamped'
    OBVIOUS
  <2>1. CASE Gui \/ pluginStop
    <3>1. UNCHANGED <<appended, session, logcalls>>
      BY <2>1 DEF Gui, BindSockets, BindFailed, WriteSessionFile, XAutoServer, pluginit,
                  Attach, Activate, pluginInit, running, pluginStop, Deactivate, Detach, CloseRep,
                  LockToClose, ClosePub, RemoveFile, ghosts
    <3>2. QED BY <3>1 DEF Stamped, logcalls
  <2>2. ASSUME NEW t \in LogThread, hook_GuiAddLogMessage(t)
        PROVE  Stamped'
    <3>1. /\ UNCHANGED <<appended, session>>
          /\ capture' = [capture EXCEPT ![t] = "entered"]
          /\ logged_in' = [logged_in EXCEPT ![t] = session]
      BY <2>2 DEF hook_GuiAddLogMessage, ghosts
    <3>2. logged_in \in [LogThread -> Nat] /\ logged_in'[t] = session
      BY <3>1 DEF FreshInv, Logged
    <3>3. \A u \in LogThread : u # t => capture'[u] = capture[u] /\ logged_in'[u] = logged_in[u]
      BY <3>1, <3>2 DEF FreshInv, IInv, Logged
    <3>4. QED BY <3>1, <3>2, <3>3 DEF Stamped
  <2>3. ASSUME NEW t \in LogThread, CheckActive(t) \/ CaptureLock(t) \/ CaptureSend(t)
        PROVE  Stamped'
    <3>1. UNCHANGED <<appended, session>>
      BY <2>3 DEF CheckActive, CaptureLock, CaptureSend, ghosts
    <3>2. \/ capture[t] = "entered" /\ capture' = [capture EXCEPT ![t] = "append"]
             /\ UNCHANGED logged_in
          \/ capture' = [capture EXCEPT ![t] = "sending"] /\ UNCHANGED logged_in
          \/ capture' = [capture EXCEPT ![t] = "idle"] /\ logged_in' = [logged_in EXCEPT ![t] = 0]
      BY <2>3 DEF CheckActive, CaptureLock, CaptureSend, CaptureOver, Returned
    <3>3. \A u \in LogThread : capture'[u] \in {"entered", "append"} =>
            capture[u] \in {"entered", "append"} /\ logged_in'[u] = logged_in[u]
      BY <3>2 DEF FreshInv, IInv, Logged
    <3>4. QED BY <3>1, <3>3 DEF Stamped
  <2>4. CASE Debugger \/ cb_init_debug \/ cb_event
    <3>1. UNCHANGED <<appended, logcalls>> /\ session' \in {session, session + 1}
      BY <2>4 DEF Debugger, DebugLock, DebugSend, cb_init_debug, cb_event, ghosts
    <3>2. session \in Nat /\ \A k \in DOMAIN appended : appended[k].session \in Nat
      BY RecordFields DEF FreshInv, Logged
    <3>3. \A k \in DOMAIN appended : appended[k].session <= session'
      BY <3>1, <3>2 DEF Stamped
    <3>4. QED BY <3>1, <3>3 DEF Stamped, logcalls
  <2>5. CASE Server \/ RecvClosed \/ SendReplyClosed \/ \E c \in Client : Ask(c)
    <3>1. UNCHANGED <<appended, session, logcalls>>
      BY <2>5 DEF Server, Recv, Dispatch, SendReply, SendReplyClosed, RecvClosed, Ask, ghosts
    <3>2. QED BY <3>1 DEF Stamped, logcalls
  <2>6. CASE Over \/ UNCHANGED vars
    <3>1. UNCHANGED <<appended, session, logcalls>>
      BY <2>6 DEF Over, vars, running, ghosts
    <3>2. QED BY <3>1 DEF Stamped, logcalls
  <2>7. QED BY <2>1, <2>2, <2>3, <2>4, <2>5, <2>6, AppendStamps DEF Next, LogThreads
<1>3. QED BY <1>1, <1>2, FreshInvariant, PTL DEF Spec

(* Whoever has seen n EVENT_INIT_DEBUGs reads at most one message per log  *)
(* thread that was logged before the n-th session, the first that the      *)
(* thread has in the buffer.                                               *)
THEOREM FewStaleEntries == Spec => []StaleEntriesBounded
<1>1. ASSUME FreshInv, NEW j \in DOMAIN entries
      PROVE  \E k \in DOMAIN appended :
               /\ IndexOf(entries[j]) = k
               /\ appended[k].session = session
  <2>1. PICK k \in DOMAIN appended :
          appended[k].msg = entries[j] /\ appended[k].session = session
    BY <1>1 DEF FreshInv, OfThisSession
  <2>2. \A l \in DOMAIN appended : appended[l].msg = entries[j] => l = k
    BY <1>1, <2>1 DEF FreshInv, Once
  <2>3. QED BY <2>1, <2>2 DEF IndexOf
<1>2. ASSUME FreshInv, Stamped, NEW i \in DOMAIN entries, NEW j \in DOMAIN entries,
             LoggedIn(entries[i]) < InitDebugEvents,
             ThreadOf(entries[i]) = ThreadOf(entries[j])
      PROVE  IndexOf(entries[i]) <= IndexOf(entries[j])
  <2>1. PICK l \in DOMAIN appended : IndexOf(entries[i]) = l
    BY <1>1, <1>2
  <2>2. PICK k \in DOMAIN appended : IndexOf(entries[j]) = k /\ appended[k].session = session
    BY <1>1, <1>2
  <2>3. appended[l].logged_in < InitDebugEvents /\ appended[l].thread = appended[k].thread
    BY <1>2, <2>1, <2>2 DEF LoggedIn, ThreadOf
  <2>4. /\ session \in Nat /\ InitDebugEvents \in Nat /\ InitDebugEvents <= session
        /\ appended[l].logged_in \in Nat /\ k \in Nat /\ l \in Nat
    BY <1>2, RecordFields DEF FreshInv, Logged, Announced
  <2>5. ~ k < l
    BY <1>2, <2>2, <2>3, <2>4 DEF Stamped
  <2>6. QED BY <2>1, <2>2, <2>4, <2>5
<1>3. FreshInv /\ Stamped => StaleEntriesBounded
  BY <1>2 DEF StaleEntriesBounded
<1>4. QED BY <1>3, FreshInvariant, StampInvariant, PTL

-----------------------------------------------------------------------------
(* Which messages are published: those appended, each once, in order.      *)
Publishing(t) == capture[t] \in {"lock", "sending"}

Sent(m) == \E i \in LogEvents : published[i].msg = m

(* The event of a message is sent once, after the message is appended. *)
Traced ==
  /\ \A i \in LogEvents : \E k \in DOMAIN appended : appended[k].msg = published[i].msg
  /\ \A i, j \in LogEvents : published[i].msg = published[j].msg => i = j
  /\ debug # "idle" => event.type # "EVENT_LOG_MESSAGE"

(* What a thread is about to publish is what it has appended last. *)
Latest(t, k) ==
  /\ appended[k].msg = msg[t] /\ appended[k].thread = t
  /\ \A l \in DOMAIN appended : appended[l].thread = t => l <= k

OnItsWay ==
  \A t \in LogThread : Publishing(t) =>
    /\ \E k \in DOMAIN appended : Latest(t, k)
    /\ ~ Sent(msg[t])

InOrder ==
  \A i, j \in LogEvents : \A k, l \in DOMAIN appended :
    /\ i < j
    /\ appended[k].msg = published[i].msg /\ appended[l].msg = published[j].msg
    /\ appended[k].thread = appended[l].thread
    => k < l

(* No message is dropped while the socket is bound. *)
NoneDropped ==
  /\ pub = "bound" =>
       \A k \in DOMAIN appended :
         \/ Sent(appended[k].msg)
         \/ \E t \in LogThread : Publishing(t) /\ msg[t] = appended[k].msg
  /\ ~ srv => appended = << >>
  /\ gui = "unloaded" => ~ srv

(* The k-th message was not yet published when the n-th event was. *)
Late(k, n) ==
  \/ \E i \in LogEvents : i > n /\ published[i].msg = appended[k].msg
  \/ \E t \in LogThread : Publishing(t) /\ msg[t] = appended[k].msg

Old(k, n) == appended[k].session < AnnouncedBy(n)

(* A thread is in the middle of one message only. *)
OneLate ==
  \A n \in DOMAIN published : published[n] = InitDebugEvent =>
    \A k, l \in DOMAIN appended :
      /\ Old(k, n) /\ Old(l, n) /\ Late(k, n) /\ Late(l, n)
      /\ appended[k].thread = appended[l].thread
      => k = l

MirrorInv == Traced /\ OnItsWay /\ InOrder /\ NoneDropped /\ OneLate

(* What the proofs use of FreshInv. *)
LEMMA FreshFacts ==
  ASSUME FreshInv
  PROVE  /\ published \in Seq(Event)
         /\ appended \in Seq(LogRecord)
         /\ \A k, l \in DOMAIN appended : appended[k].msg = appended[l].msg => k = l
         /\ \A t, u \in LogThread :
              Publishing(t) /\ Publishing(u) /\ msg[t] = msg[u] => t = u
         /\ \A t \in LogThread : capture[t] # "idle" => msg[t] \in Message /\ srv
         /\ \A t \in LogThread : capture[t] = "append" =>
              \A k \in DOMAIN appended : appended[k].msg # msg[t]
         /\ capture \in [LogThread -> {"idle", "entered", "append", "lock", "sending"}]
         /\ msg \in [LogThread -> Message \cup {None}]
BY DEF FreshInv, IInv, Logged, Once, Announced, Publishing, CallsNeedServer

(* No session is announced before it has begun. *)
LEMMA AnnouncedInTime ==
  ASSUME FreshInv, NEW n \in DOMAIN published
  PROVE  AnnouncedBy(n) \in Nat /\ AnnouncedBy(n) <= session /\ session \in Nat
<1> DEFINE S == {j \in 1 .. n : published[j] = InitDebugEvent}
           T == {j \in DOMAIN published : published[j] = InitDebugEvent}
<1>1. /\ DOMAIN published = 1 .. Len(published) /\ Len(published) \in Nat
      /\ InitDebugEvents \in Nat /\ session \in Nat /\ InitDebugEvents <= session
  BY DEF FreshInv, Announced, Logged
<1>2. IsFiniteSet(T)
  <2>1. T \in SUBSET (1 .. Len(published)) /\ IsFiniteSet(1 .. Len(published))
    BY <1>1, FS_Interval
  <2>2. QED BY <2>1, FS_Subset
<1>3. S \in SUBSET T
  BY <1>1
<1>4. IsFiniteSet(S) /\ Cardinality(S) <= Cardinality(T) /\ Cardinality(S) \in Nat
  BY <1>2, <1>3, FS_Subset, FS_CardinalityType
<1>5. Cardinality(S) = AnnouncedBy(n) /\ Cardinality(T) = InitDebugEvents
  BY DEF AnnouncedBy, InitDebugEvents
<1>6. QED BY <1>1, <1>4, <1>5

(* One more event. *)
LEMMA EventsGrow ==
  ASSUME published \in Seq(Event), NEW e \in Event, published' = Append(published, e)
  PROVE  /\ DOMAIN published = 1 .. Len(published) /\ Len(published) \in Nat
         /\ DOMAIN published' = 1 .. Len(published) + 1
         /\ published'[Len(published) + 1] = e
         /\ \A i \in DOMAIN published : published'[i] = published[i]
         /\ LogEvents' = LogEvents \cup
              (IF e.type = "EVENT_LOG_MESSAGE" THEN {Len(published) + 1} ELSE {})
         /\ \A n \in DOMAIN published : AnnouncedBy(n)' = AnnouncedBy(n)
<1>1. /\ DOMAIN published = 1 .. Len(published) /\ Len(published) \in Nat
      /\ DOMAIN published' = 1 .. Len(published) + 1
      /\ published'[Len(published) + 1] = e
      /\ \A i \in DOMAIN published : published'[i] = published[i]
  OBVIOUS
<1>2. \A i \in DOMAIN published' : i \in DOMAIN published \/ i = Len(published) + 1
  BY <1>1
<1>3. DOMAIN published \subseteq DOMAIN published' /\ Len(published) + 1 \in DOMAIN published'
  BY <1>1
<1>4. LogEvents' = LogEvents \cup
        (IF e.type = "EVENT_LOG_MESSAGE" THEN {Len(published) + 1} ELSE {})
  BY <1>1, <1>2, <1>3 DEF LogEvents
<1>5. ASSUME NEW n \in DOMAIN published
      PROVE  AnnouncedBy(n)' = AnnouncedBy(n)
  <2>1. \A j \in 1 .. n : j \in DOMAIN published
    BY <1>1
  <2>2. {j \in 1 .. n : published'[j] = InitDebugEvent} =
          {j \in 1 .. n : published[j] = InitDebugEvent}
    BY <1>1, <2>1
  <2>3. QED BY <2>2 DEF AnnouncedBy
<1>6. QED BY <1>1, <1>4, <1>5

-----------------------------------------------------------------------------
(* Steps that neither append nor publish, and start no publishing. *)
LEMMA QuietMirror ==
  ASSUME MirrorInv, UNCHANGED <<appended, published>>,
         \A t \in LogThread : Publishing(t)' => Publishing(t) /\ msg'[t] = msg[t],
         debug' # "idle" => event'.type # "EVENT_LOG_MESSAGE",
         pub' = "bound" =>
           \/ appended = << >>
           \/ pub = "bound" /\ \A t \in LogThread :
                Publishing(t) => Publishing(t)' /\ msg'[t] = msg[t],
         ~ srv' => ~ srv, gui' = "unloaded" => gui = "unloaded" /\ srv' = srv
  PROVE  MirrorInv'
<1>1. LogEvents' = LogEvents /\ \A m : Sent(m)' = Sent(m)
  BY DEF LogEvents, Sent
<1>2. Traced'
  BY <1>1 DEF MirrorInv, Traced
<1>3. OnItsWay'
  <2> SUFFICES ASSUME NEW t \in LogThread, Publishing(t)'
               PROVE  (\E k \in DOMAIN appended' : Latest(t, k)') /\ ~ Sent(msg[t])'
    BY DEF OnItsWay
  <2>1. Publishing(t) /\ msg'[t] = msg[t]
    OBVIOUS
  <2>2. PICK k \in DOMAIN appended : Latest(t, k)
    BY <2>1 DEF MirrorInv, OnItsWay
  <2>3. Latest(t, k)'
    BY <2>1, <2>2 DEF Latest
  <2>4. ~ Sent(msg[t])'
    BY <1>1, <2>1 DEF MirrorInv, OnItsWay, Sent
  <2>5. QED BY <2>3, <2>4
<1>4. InOrder'
  BY <1>1 DEF MirrorInv, InOrder
<1>5. NoneDropped'
  BY <1>1 DEF MirrorInv, NoneDropped, Sent
<1>6. OneLate'
  <2>1. ASSUME NEW k, NEW n, Late(k, n)' PROVE Late(k, n)
    BY <1>1, <2>1 DEF Late
  <2>2. \A k, n : Old(k, n)' = Old(k, n)
    BY DEF Old, AnnouncedBy
  <2>3. QED BY <2>1, <2>2 DEF MirrorInv, OneLate
<1>7. QED BY <1>2, <1>3, <1>4, <1>5, <1>6 DEF MirrorInv

(* A thread appends its message, and goes on to publish it. *)
LEMMA AppendMirror ==
  ASSUME FreshInv, MirrorInv, NEW t \in LogThread, CaptureAppend(t)
  PROVE  MirrorInv'
<1> DEFINE rec == [msg |-> msg[t], thread |-> t, logged_in |-> logged_in[t], session |-> session]
<1> PICK n : n = Len(appended)
  OBVIOUS
<1>1. /\ capture[t] = "append" /\ srv /\ appended' = Append(appended, rec)
      /\ capture' = [capture EXCEPT ![t] = "lock"]
      /\ UNCHANGED <<msg, debug, event, published, session, pub, srv, gui>>
  BY FreshFacts DEF CaptureAppend, AppendMessage, debugger, sockets, hook
<1>2. /\ n \in Nat /\ DOMAIN appended = 1 .. n /\ DOMAIN appended' = 1 .. n + 1
      /\ appended'[n + 1] = rec /\ \A k \in 1 .. n : appended'[k] = appended[k]
  <2>1. msg[t] \in Message /\ session \in Nat /\ logged_in[t] \in Nat
    BY <1>1 DEF FreshInv, Logged
  <2>2. QED BY <1>1, <2>1, FreshFacts
<1>3. /\ \A k \in 1 .. n : appended[k].msg # msg[t]
      /\ \A u \in LogThread : Publishing(u)' <=> (Publishing(u) \/ u = t)
      /\ ~ Publishing(t)
  BY <1>1, <1>2, FreshFacts DEF Publishing
<1>4. LogEvents' = LogEvents /\ \A m : Sent(m)' = Sent(m)
  BY <1>1 DEF LogEvents, Sent
<1>5. ~ Sent(msg[t])
  BY <1>2, <1>3 DEF MirrorInv, Traced, Sent
<1>6. Traced'
  BY <1>1, <1>2, <1>4 DEF MirrorInv, Traced
<1>7. OnItsWay'
  <2> SUFFICES ASSUME NEW u \in LogThread, Publishing(u)'
               PROVE  (\E k \in DOMAIN appended' : Latest(u, k)') /\ ~ Sent(msg[u])'
    BY DEF OnItsWay
  <2>1. CASE u = t
    <3>1. n + 1 \in DOMAIN appended' /\ \A l \in DOMAIN appended' : l <= n + 1
      BY <1>2
    <3>2. appended'[n + 1].msg = msg'[u] /\ appended'[n + 1].thread = u
      BY <1>1, <1>2, <2>1
    <3>3. Latest(u, n + 1)'
      BY <3>1, <3>2 DEF Latest
    <3>4. \A i \in LogEvents' : published'[i].msg # msg'[u]
      BY <1>1, <1>4, <1>5, <2>1 DEF Sent
    <3>5. QED BY <3>1, <3>3, <3>4 DEF Sent
  <2>2. CASE u # t
    <3>1. Publishing(u)
      BY <1>3, <2>2
    <3>2. PICK k \in DOMAIN appended : Latest(u, k)
      BY <3>1 DEF MirrorInv, OnItsWay
    <3>3. Latest(u, k)' /\ k \in DOMAIN appended'
      BY <1>1, <1>2, <2>2, <3>2 DEF Latest
    <3>4. ~ Sent(msg[u])'
      BY <1>1, <1>4, <3>1 DEF MirrorInv, OnItsWay, Sent
    <3>5. QED BY <3>3, <3>4
  <2>3. QED BY <2>1, <2>2
<1>8. InOrder'
  <2> SUFFICES ASSUME NEW i \in LogEvents, NEW j \in LogEvents,
                      NEW k \in 1 .. n + 1, NEW l \in 1 .. n + 1, i < j,
                      appended'[k].msg = published[i].msg, appended'[l].msg = published[j].msg,
                      appended'[k].thread = appended'[l].thread
               PROVE  k < l
    BY <1>1, <1>2, <1>4 DEF InOrder
  <2>1. k \in 1 .. n /\ l \in 1 .. n
    BY <1>2, <1>5 DEF Sent
  <2>2. QED BY <1>2, <2>1 DEF MirrorInv, InOrder
<1>9. NoneDropped'
  <2> SUFFICES ASSUME pub = "bound", NEW k \in 1 .. n + 1
               PROVE  \/ Sent(appended'[k].msg)
                      \/ \E u \in LogThread : Publishing(u)' /\ msg[u] = appended'[k].msg
    BY <1>1, <1>2, <1>4 DEF MirrorInv, NoneDropped, Sent
  <2>1. CASE k = n + 1
    BY <1>2, <1>3, <2>1
  <2>2. CASE k \in 1 .. n
    BY <1>2, <1>3, <2>2 DEF MirrorInv, NoneDropped
  <2>3. QED BY <2>1, <2>2
<1>10. OneLate'
  <2> SUFFICES ASSUME NEW e \in DOMAIN published, published[e] = InitDebugEvent,
                      NEW k \in 1 .. n + 1, NEW l \in 1 .. n + 1,
                      Old(k, e)', Old(l, e)', Late(k, e)', Late(l, e)',
                      appended'[k].thread = appended'[l].thread
               PROVE  k = l
    BY <1>1, <1>2 DEF OneLate
  <2>1. AnnouncedBy(e)' = AnnouncedBy(e)
    BY <1>1 DEF AnnouncedBy
  <2>2. ~ (appended'[n + 1].session < AnnouncedBy(e))
    <3>1. appended'[n + 1].session = session
      BY <1>2
    <3>2. AnnouncedBy(e) \in Nat /\ session \in Nat /\ AnnouncedBy(e) <= session
      BY AnnouncedInTime
    <3>3. QED BY <3>1, <3>2
  <2>3. k \in 1 .. n /\ l \in 1 .. n
    <3>1. appended'[k].session < AnnouncedBy(e) /\ appended'[l].session < AnnouncedBy(e)
      BY <2>1 DEF Old
    <3>2. k # n + 1 /\ l # n + 1
      BY <2>2, <3>1
    <3>3. QED BY <1>2, <3>2
  <2>4. ASSUME NEW m \in 1 .. n, Old(m, e)', Late(m, e)'
        PROVE  Old(m, e) /\ Late(m, e)
    <3>1. Old(m, e)
      BY <1>2, <2>1, <2>4 DEF Old
    <3>2. CASE \E i \in LogEvents : i > e /\ published[i].msg = appended[m].msg
      BY <3>1, <3>2 DEF Late
    <3>3. CASE \E u \in LogThread : Publishing(u)' /\ msg[u] = appended[m].msg
      BY <1>3, <3>1, <3>3 DEF Late
    <3>4. QED BY <1>1, <1>2, <1>4, <2>4, <3>2, <3>3 DEF Late
  <2>5. Old(k, e) /\ Old(l, e) /\ Late(k, e) /\ Late(l, e)
    BY <2>3, <2>4
  <2>6. appended[k].thread = appended[l].thread
    BY <1>2, <2>3
  <2>7. QED BY <1>2, <2>3, <2>5, <2>6 DEF MirrorInv, OneLate
<1>11. QED BY <1>6, <1>7, <1>8, <1>9, <1>10 DEF MirrorInv

(* A thread publishes its message. *)
LEMMA SendMirror ==
  ASSUME FreshInv, MirrorInv, NEW t \in LogThread, CaptureSend(t), Send(LogEvent(msg[t]))
  PROVE  MirrorInv'
<1> DEFINE n == Len(published)
           e == LogEvent(msg[t])
<1>1. /\ capture[t] = "sending" /\ published' = Append(published, e)
      /\ capture' = [capture EXCEPT ![t] = "idle"] /\ msg' = [msg EXCEPT ![t] = None]
      /\ UNCHANGED <<debug, event, appended, session, pub, srv, gui>>
  BY DEF CaptureSend, Send, Returned, CaptureOver, debugger, hook
<1>2. /\ msg[t] \in Message /\ e \in Event /\ published \in Seq(Event)
      /\ e.type = "EVENT_LOG_MESSAGE" /\ e.msg = msg[t] /\ e # InitDebugEvent
  <2>1. msg[t] \in Message /\ published \in Seq(Event)
    BY <1>1, FreshFacts
  <2>2. e.type = "EVENT_LOG_MESSAGE" /\ InitDebugEvent.type = "EVENT_INIT_DEBUG"
    BY DEF LogEvent, InitDebugEvent
  <2>3. QED BY <2>1, <2>2 DEF LogEvent, Event
<1> HIDE DEF e
<1>3. /\ n \in Nat /\ DOMAIN published = 1 .. n /\ DOMAIN published' = 1 .. n + 1
      /\ published'[n + 1] = e /\ \A i \in 1 .. n : published'[i] = published[i]
      /\ LogEvents' = LogEvents \cup {n + 1}
      /\ \A i \in 1 .. n : AnnouncedBy(i)' = AnnouncedBy(i)
  BY <1>1, <1>2, EventsGrow
<1>4. LogEvents \subseteq 1 .. n
  BY <1>3 DEF LogEvents
<1>5. /\ Publishing(t) /\ \A u \in LogThread : Publishing(u)' <=> (Publishing(u) /\ u # t)
      /\ \A u \in LogThread : u # t => msg'[u] = msg[u]
  BY <1>1, FreshFacts DEF Publishing
<1>6. PICK k0 \in DOMAIN appended : Latest(t, k0)
  BY <1>5 DEF MirrorInv, OnItsWay
<1>7. ~ Sent(msg[t])
  BY <1>5 DEF MirrorInv, OnItsWay
<1>8. \A m : Sent(m)' <=> (Sent(m) \/ m = msg[t])
  BY <1>2, <1>3, <1>4 DEF Sent
<1>9. /\ DOMAIN appended \subseteq Nat
      /\ \A k, l \in DOMAIN appended : appended[k].msg = appended[l].msg => k = l
  BY FreshFacts
<1>10. Traced'
  <2>1. ASSUME NEW i \in LogEvents'
        PROVE  \E k \in DOMAIN appended : appended[k].msg = published'[i].msg
    <3>1. CASE i = n + 1
      BY <1>2, <1>3, <1>6, <3>1 DEF Latest
    <3>2. CASE i \in LogEvents
      BY <1>3, <1>4, <3>2 DEF MirrorInv, Traced
    <3>3. QED BY <1>3, <3>1, <3>2
  <2>2. ASSUME NEW i \in LogEvents', NEW j \in LogEvents', published'[i].msg = published'[j].msg
        PROVE  i = j
    <3>1. CASE i = n + 1 \/ j = n + 1
      BY <1>2, <1>3, <1>4, <1>7, <2>2, <3>1 DEF Sent
    <3>2. CASE i \in LogEvents /\ j \in LogEvents
      BY <1>3, <1>4, <2>2, <3>2 DEF MirrorInv, Traced
    <3>3. QED BY <1>3, <3>1, <3>2
  <2>3. QED BY <1>1, <2>1, <2>2 DEF MirrorInv, Traced
<1>11. OnItsWay'
  <2> SUFFICES ASSUME NEW u \in LogThread, Publishing(u)'
               PROVE  (\E k \in DOMAIN appended' : Latest(u, k)') /\ ~ Sent(msg[u])'
    BY DEF OnItsWay
  <2>1. Publishing(u) /\ u # t /\ msg'[u] = msg[u] /\ msg[u] # msg[t]
    BY <1>5, FreshFacts
  <2>2. PICK k \in DOMAIN appended : Latest(u, k)
    BY <2>1 DEF MirrorInv, OnItsWay
  <2>3. Latest(u, k)'
    BY <1>1, <2>1, <2>2 DEF Latest
  <2>4. ~ Sent(msg[u])
    BY <2>1 DEF MirrorInv, OnItsWay
  <2>5. \A i \in LogEvents' : published'[i].msg # msg'[u]
    BY <1>2, <1>3, <1>4, <2>1, <2>4 DEF Sent
  <2>6. QED BY <1>1, <2>3, <2>5 DEF Sent
<1>12. InOrder'
  <2> SUFFICES ASSUME NEW i \in LogEvents', NEW j \in LogEvents',
                      NEW k \in DOMAIN appended, NEW l \in DOMAIN appended, i < j,
                      appended[k].msg = published'[i].msg, appended[l].msg = published'[j].msg,
                      appended[k].thread = appended[l].thread
               PROVE  k < l
    BY <1>1 DEF InOrder
  <2>1. i \in LogEvents /\ i \in 1 .. n /\ j \in 1 .. n + 1
    BY <1>3, <1>4
  <2>2. CASE j = n + 1
    <3>1. l = k0
      BY <1>2, <1>3, <1>6, <1>9, <2>2 DEF Latest
    <3>2. appended[k].msg # msg[t]
      BY <1>3, <1>7, <2>1 DEF Sent
    <3>3. k # k0 /\ k <= k0
      BY <1>6, <3>1, <3>2 DEF Latest
    <3>4. QED BY <1>9, <3>1, <3>3
  <2>3. CASE j \in LogEvents
    BY <1>3, <1>4, <2>1, <2>3 DEF MirrorInv, InOrder
  <2>4. QED BY <1>3, <2>2, <2>3
<1>13. NoneDropped'
  <2> SUFFICES ASSUME pub' = "bound", NEW k \in DOMAIN appended'
               PROVE  (\/ Sent(appended[k].msg)
                       \/ \E u \in LogThread : Publishing(u) /\ msg[u] = appended[k].msg)'
    BY <1>1 DEF NoneDropped, MirrorInv
  <2> k \in DOMAIN appended /\ pub = "bound" /\ appended'[k] = appended[k]
    BY <1>1
  <2>1. CASE Sent(appended[k].msg) \/ appended[k].msg = msg[t]
    <3>1. \E i \in LogEvents' : published'[i].msg = appended[k].msg
      BY <1>2, <1>3, <1>4, <2>1 DEF Sent
    <3>2. QED BY <1>1, <3>1 DEF Sent
  <2>2. CASE ~ Sent(appended[k].msg) /\ appended[k].msg # msg[t]
    BY <1>1, <1>5, <2>2 DEF MirrorInv, NoneDropped
  <2>3. QED BY <2>1, <2>2
<1>14. OneLate'
  <2> SUFFICES ASSUME NEW m \in 1 .. n + 1, published'[m] = InitDebugEvent,
                      NEW k \in DOMAIN appended, NEW l \in DOMAIN appended,
                      Old(k, m)', Old(l, m)', Late(k, m)', Late(l, m)',
                      appended[k].thread = appended[l].thread
               PROVE  k = l
    BY <1>1, <1>3 DEF OneLate
  <2>1. m \in 1 .. n /\ published[m] = InitDebugEvent
    BY <1>2, <1>3
  <2>2. ASSUME NEW h \in DOMAIN appended, Old(h, m)', Late(h, m)'
        PROVE  Old(h, m) /\ Late(h, m)
    <3>1. Old(h, m)
      BY <1>1, <1>3, <2>1, <2>2 DEF Old
    <3>2. CASE \E i \in LogEvents' : i > m /\ published'[i].msg = appended[h].msg
      <4>1. PICK i \in LogEvents' : i > m /\ published'[i].msg = appended[h].msg
        BY <3>2
      <4>2. CASE i = n + 1
        BY <1>2, <1>3, <1>5, <3>1, <4>1, <4>2 DEF Late
      <4>3. CASE i \in LogEvents
        BY <1>3, <1>4, <3>1, <4>1, <4>3 DEF Late
      <4>4. QED BY <1>3, <4>2, <4>3
    <3>3. CASE \E u \in LogThread : Publishing(u)' /\ msg'[u] = appended[h].msg
      BY <1>5, <3>1, <3>3 DEF Late
    <3>4. QED BY <1>1, <2>2, <3>2, <3>3 DEF Late
  <2>3. QED BY <1>3, <2>1, <2>2 DEF MirrorInv, OneLate
<1>15. QED BY <1>10, <1>11, <1>12, <1>13, <1>14 DEF MirrorInv

(* The debug thread publishes its event: the messages that it overtakes    *)
(* are on their way, each on its thread.                                   *)
LEMMA DebugSendMirror ==
  ASSUME FreshInv, MirrorInv, DebugSend, Send(event)
  PROVE  MirrorInv'
<1> DEFINE n == Len(published)
<1>1. /\ debug = "sending" /\ debug' = "idle" /\ published' = Append(published, event)
      /\ UNCHANGED <<appended, capture, msg, session, pub, srv, gui>>
  BY DEF DebugSend, Send, logcalls, hook
<1>2. event \in Event /\ event.type # "EVENT_LOG_MESSAGE" /\ published \in Seq(Event)
  BY <1>1 DEF FreshInv, Announced, MirrorInv, Traced
<1>3. /\ n \in Nat /\ DOMAIN published = 1 .. n /\ DOMAIN published' = 1 .. n + 1
      /\ published'[n + 1] = event /\ \A i \in 1 .. n : published'[i] = published[i]
      /\ LogEvents' = LogEvents
      /\ \A i \in 1 .. n : AnnouncedBy(i)' = AnnouncedBy(i)
  BY <1>1, <1>2, EventsGrow
<1>4. LogEvents \subseteq 1 .. n
  BY <1>3 DEF LogEvents
<1>5. \A t \in LogThread : Publishing(t)' = Publishing(t)
  BY <1>1 DEF Publishing
<1>6. \A i \in LogEvents : published'[i] = published[i]
  BY <1>3, <1>4
<1>7. \A m : Sent(m)' = Sent(m)
  BY <1>3, <1>6 DEF Sent
<1>8. Traced'
  <2>1. ASSUME NEW i \in LogEvents'
        PROVE  \E k \in DOMAIN appended : appended[k].msg = published'[i].msg
    BY <1>3, <1>6 DEF MirrorInv, Traced
  <2>2. ASSUME NEW i \in LogEvents', NEW j \in LogEvents', published'[i].msg = published'[j].msg
        PROVE  i = j
    BY <1>3, <1>6, <2>2 DEF MirrorInv, Traced
  <2>3. QED BY <1>1, <2>1, <2>2 DEF Traced
<1>9. OnItsWay'
  <2> SUFFICES ASSUME NEW t \in LogThread, Publishing(t)
               PROVE  (\E k \in DOMAIN appended : Latest(t, k)') /\ ~ Sent(msg[t])
    BY <1>1, <1>3, <1>5, <1>6 DEF OnItsWay, Sent
  <2>1. QED BY <1>1 DEF MirrorInv, OnItsWay, Latest
<1>10. InOrder'
  <2> SUFFICES ASSUME NEW i \in LogEvents', NEW j \in LogEvents',
                      NEW k \in DOMAIN appended', NEW l \in DOMAIN appended', i < j,
                      appended'[k].msg = published'[i].msg, appended'[l].msg = published'[j].msg,
                      appended'[k].thread = appended'[l].thread
               PROVE  k < l
    BY DEF InOrder
  <2>1. i \in LogEvents /\ j \in LogEvents /\ appended' = appended
    BY <1>1, <1>3
  <2>2. published'[i] = published[i] /\ published'[j] = published[j]
    BY <1>6, <2>1
  <2>3. QED BY <2>1, <2>2 DEF MirrorInv, InOrder
<1>11. NoneDropped'
  <2> SUFFICES ASSUME pub = "bound", NEW k \in DOMAIN appended
               PROVE  \/ \E i \in LogEvents : published'[i].msg = appended[k].msg
                      \/ \E t \in LogThread : Publishing(t) /\ msg[t] = appended[k].msg
    BY <1>1, <1>3, <1>5 DEF MirrorInv, NoneDropped, Sent
  <2>1. QED BY <1>6 DEF MirrorInv, NoneDropped, Sent
<1>12. OneLate'
  <2> SUFFICES ASSUME NEW m \in 1 .. n + 1, published'[m] = InitDebugEvent,
                      NEW k \in DOMAIN appended, NEW l \in DOMAIN appended,
                      Old(k, m)', Old(l, m)', Late(k, m)', Late(l, m)',
                      appended[k].thread = appended[l].thread
               PROVE  k = l
    BY <1>1, <1>3 DEF OneLate
  <2>1. CASE m \in 1 .. n
    <3>1. published[m] = InitDebugEvent
      BY <1>3, <2>1
    <3>2. ASSUME NEW h \in DOMAIN appended, Old(h, m)', Late(h, m)'
          PROVE  Old(h, m) /\ Late(h, m)
      BY <1>1, <1>3, <1>5, <1>6, <2>1, <3>2 DEF Old, Late
    <3>3. QED BY <1>3, <2>1, <3>1, <3>2 DEF MirrorInv, OneLate
  <2>2. CASE m = n + 1
    <3>1. ASSUME NEW h \in DOMAIN appended, Late(h, m)'
          PROVE  \E t \in LogThread :
                   Publishing(t) /\ msg[t] = appended[h].msg /\ appended[h].thread = t
      <4>1. ~ \E i \in LogEvents : i > n + 1
        BY <1>3, <1>4
      <4>2. PICK t \in LogThread : Publishing(t) /\ msg[t] = appended[h].msg
        BY <1>1, <1>3, <1>5, <2>2, <3>1, <4>1 DEF Late
      <4>3. PICK g \in DOMAIN appended : Latest(t, g)
        BY <4>2 DEF MirrorInv, OnItsWay
      <4>4. g = h
        BY <4>2, <4>3, FreshFacts DEF Latest
      <4>5. QED BY <4>2, <4>3, <4>4 DEF Latest
    <3>2. QED BY <3>1, FreshFacts
  <2>3. QED BY <2>1, <2>2
<1>13. QED BY <1>8, <1>9, <1>10, <1>11, <1>12 DEF MirrorInv

THEOREM MirrorInvariant == Spec => []MirrorInv
<1>1. Init => MirrorInv
  <2> SUFFICES ASSUME Init PROVE MirrorInv
    OBVIOUS
  <2>1. /\ published = << >> /\ appended = << >> /\ debug = "idle" /\ pub = "none" /\ ~ srv
        /\ \A t \in LogThread : capture[t] = "idle"
    BY DEF Init
  <2>2. LogEvents = {} /\ \A t \in LogThread : ~ Publishing(t)
    BY <2>1 DEF LogEvents, Publishing
  <2>3. QED BY <2>1, <2>2 DEF MirrorInv, Traced, OnItsWay, InOrder, NoneDropped, OneLate
<1>2. FreshInv /\ MirrorInv /\ [Next]_vars => MirrorInv'
  <2> SUFFICES ASSUME FreshInv, MirrorInv, [Next]_vars PROVE MirrorInv'
    OBVIOUS
  <2>1. CASE Gui \/ pluginStop
    <3>1. UNCHANGED <<appended, published, msg, capture, debug, event>>
      BY <2>1 DEF Gui, BindSockets, BindFailed, WriteSessionFile, XAutoServer, pluginit,
                Attach, Activate, pluginInit, running, pluginStop,
                  Deactivate, Detach, CloseRep, LockToClose, ClosePub, RemoveFile,
                  logcalls, debugger, ghosts
    <3>2. gui' # "unloaded"
      BY <2>1 DEF Gui, BindSockets, BindFailed, WriteSessionFile, XAutoServer, pluginit,
                Attach, Activate, pluginInit, pluginStop,
                  Deactivate, Detach, CloseRep, LockToClose, ClosePub, RemoveFile
    <3>3. ~ srv' => ~ srv
      BY <2>1 DEF Gui, BindSockets, BindFailed, WriteSessionFile, XAutoServer, pluginit,
                Attach, Activate, pluginInit, pluginStop,
                  Deactivate, Detach, CloseRep, LockToClose, ClosePub, RemoveFile, hook
    <3>4. pub' = "bound" => appended = << >> \/ pub = "bound"
      <4>1. CASE BindSockets
        <5>1. gui = "unloaded"
          BY <4>1 DEF BindSockets
        <5>2. QED BY <5>1 DEF MirrorInv, NoneDropped
      <4>2. CASE ~ BindSockets
        BY <2>1, <4>2 DEF Gui, WriteSessionFile, XAutoServer, pluginit, Attach, Activate, pluginInit, pluginStop, Deactivate,
                  Detach, CloseRep, LockToClose, ClosePub, RemoveFile, sockets
      <4>3. QED BY <4>1, <4>2
    <3>5. \A t \in LogThread : Publishing(t)' = Publishing(t)
      BY <3>1 DEF Publishing
    <3>6. QED BY <3>1, <3>2, <3>3, <3>4, <3>5, QuietMirror DEF MirrorInv, Traced
  <2>2. ASSUME NEW t \in LogThread,
               hook_GuiAddLogMessage(t) \/ CheckActive(t) \/ CaptureLock(t)
        PROVE  MirrorInv'
    <3>1. UNCHANGED <<appended, published, debug, event, pub, srv, gui>>
      BY <2>2 DEF hook_GuiAddLogMessage, CheckActive, CaptureLock, debugger, sockets, hook, ghosts
    <3>2. \A u \in LogThread :
            /\ Publishing(u)' <=> Publishing(u)
            /\ Publishing(u) => msg'[u] = msg[u]
      <4>1. \/ /\ capture[t] \in {"idle", "entered"} /\ \E m : msg' = [msg EXCEPT ![t] = m]
               /\ \E at \in {"entered", "append", "idle"} : capture' = [capture EXCEPT ![t] = at]
            \/ /\ capture[t] = "lock" /\ msg' = msg
               /\ capture' = [capture EXCEPT ![t] = "sending"]
        <5>1. CASE hook_GuiAddLogMessage(t)
          BY <5>1 DEF hook_GuiAddLogMessage
        <5>2. CASE CheckActive(t)
          <6>1. msg = [msg EXCEPT ![t] = msg[t]]
            BY FreshFacts
          <6>2. QED BY <5>2, <6>1 DEF CheckActive, CaptureOver
        <5>3. CASE CaptureLock(t)
          BY <5>3 DEF CaptureLock
        <5>4. QED BY <2>2, <5>1, <5>2, <5>3
      <4>2. QED BY <4>1, FreshFacts DEF Publishing
    <3>3. QED BY <3>1, <3>2, QuietMirror DEF MirrorInv, Traced
  <2>3. ASSUME NEW t \in LogThread, CaptureSend(t)
        PROVE  MirrorInv'
    <3>1. CASE Send(LogEvent(msg[t]))
      BY <2>3, <3>1, SendMirror
    <3>2. CASE SendThrows
      <4>1. /\ UNCHANGED <<appended, published, debug, event, pub, srv, gui>> /\ pub # "bound"
            /\ capture' = [capture EXCEPT ![t] = "idle"] /\ msg' = [msg EXCEPT ![t] = None]
        BY <2>3, <3>2 DEF CaptureSend, SendThrows, Returned, CaptureOver, debugger, hook
      <4>2. \A u \in LogThread : Publishing(u)' => Publishing(u) /\ msg'[u] = msg[u]
        BY <4>1, FreshFacts DEF Publishing
      <4>3. QED BY <4>1, <4>2, QuietMirror DEF MirrorInv, Traced
    <3>3. QED BY <2>3, <3>1, <3>2 DEF CaptureSend
  <2>4. CASE cb_init_debug \/ cb_event \/ DebugLock
    <3>1. UNCHANGED <<appended, published, msg, capture, pub, srv, gui>>
      BY <2>4 DEF cb_init_debug, cb_event, DebugLock, sockets, hook, logcalls, ghosts
    <3>2. event'.type # "EVENT_LOG_MESSAGE"
      <4>1. CASE cb_init_debug
        BY <4>1 DEF cb_init_debug, InitDebugEvent
      <4>2. CASE cb_event
        <5>1. PICK cb \in Callback : event' = [type |-> cb]
          BY <4>2 DEF cb_event
        <5>2. QED BY <5>1, PluginAssumption
      <4>3. CASE DebugLock
        BY <4>3 DEF DebugLock, MirrorInv, Traced
      <4>4. QED BY <2>4, <4>1, <4>2, <4>3
    <3>3. \A t \in LogThread : Publishing(t)' = Publishing(t)
      BY <3>1 DEF Publishing
    <3>4. QED BY <3>1, <3>2, <3>3, QuietMirror
  <2>5. CASE DebugSend
    <3>1. CASE Send(event)
      BY <2>5, <3>1, DebugSendMirror
    <3>2. CASE SendThrows
      <4>1. /\ UNCHANGED <<appended, published, msg, capture, pub, srv, gui>> /\ debug' = "idle"
        BY <2>5, <3>2 DEF DebugSend, SendThrows, hook, logcalls
      <4>2. \A t \in LogThread : Publishing(t)' = Publishing(t)
        BY <4>1 DEF Publishing
      <4>3. QED BY <4>1, <4>2, QuietMirror
    <3>3. QED BY <2>5, <3>1, <3>2 DEF DebugSend
  <2>6. CASE Server \/ RecvClosed \/ SendReplyClosed \/ Over \/ UNCHANGED vars \/ \E c \in Client : Ask(c)
    <3>1. UNCHANGED <<appended, published, msg, capture, debug, event, pub, srv, gui>>
      BY <2>6 DEF Server, Recv, Dispatch, SendReply, SendReplyClosed, RecvClosed, Ask, Over, vars,
                  running, sockets, hook, logcalls, debugger, ghosts
    <3>2. \A t \in LogThread : Publishing(t)' = Publishing(t)
      BY <3>1 DEF Publishing
    <3>3. QED BY <3>1, <3>2, QuietMirror DEF MirrorInv, Traced
  <2>7. QED BY <2>1, <2>2, <2>3, <2>4, <2>5, <2>6, AppendMirror DEF Next, LogThreads, Debugger
<1>3. QED BY <1>1, <1>2, FreshInvariant, PTL DEF Spec

(* The published log events mirror the buffer: every appended message is   *)
(* published once or about to be, and each thread's in their order.        *)
THEOREM LogEventsMirror == Spec => []LogEventsMirrorBuffer
<1>1. ASSUME FreshInv, MirrorInv, NEW k \in DOMAIN appended
      PROVE  IndexOf(appended[k].msg) = k
  BY <1>1, FreshFacts DEF IndexOf
<1>2. ASSUME FreshInv, MirrorInv, pub = "bound"
      PROVE  {appended[i].msg : i \in DOMAIN appended} =
               InFlight \cup {published[i].msg : i \in LogEvents}
  <2>1. ASSUME NEW k \in DOMAIN appended
        PROVE  appended[k].msg \in InFlight \cup {published[i].msg : i \in LogEvents}
    BY <1>2 DEF MirrorInv, NoneDropped, Sent, Publishing, InFlight
  <2>2. ASSUME NEW i \in LogEvents
        PROVE  published[i].msg \in {appended[k].msg : k \in DOMAIN appended}
    BY <1>2 DEF MirrorInv, Traced
  <2>3. ASSUME NEW t \in LogThread, Publishing(t)
        PROVE  msg[t] \in {appended[k].msg : k \in DOMAIN appended}
    BY <1>2, <2>3 DEF MirrorInv, OnItsWay, Latest
  <2>4. QED BY <2>1, <2>2, <2>3 DEF InFlight, Publishing
<1>3. ASSUME FreshInv, MirrorInv, NEW i \in LogEvents
      PROVE  published[i].msg \notin InFlight
  BY <1>3 DEF MirrorInv, OnItsWay, Sent, InFlight, Publishing
<1>4. ASSUME FreshInv, MirrorInv, NEW i \in LogEvents, NEW j \in LogEvents, i < j
      PROVE  LET before == published[i].msg
                 after  == published[j].msg
             IN  /\ before # after
                 /\ ThreadOf(before) = ThreadOf(after) => IndexOf(before) < IndexOf(after)
  <2>1. published[i].msg # published[j].msg
    <3>1. i # j
      BY <1>4, FreshFacts DEF LogEvents
    <3>2. QED BY <1>4, <3>1 DEF MirrorInv, Traced
  <2>2. PICK k \in DOMAIN appended, l \in DOMAIN appended :
          appended[k].msg = published[i].msg /\ appended[l].msg = published[j].msg
    BY <1>4 DEF MirrorInv, Traced
  <2>3. IndexOf(published[i].msg) = k /\ IndexOf(published[j].msg) = l
    BY <1>1, <1>4, <2>2
  <2>4. appended[k].thread = appended[l].thread => k < l
    BY <1>4, <2>2 DEF MirrorInv, InOrder
  <2>5. QED BY <2>1, <2>3, <2>4 DEF ThreadOf
<1>5. FreshInv /\ MirrorInv => LogEventsMirrorBuffer
  BY <1>2, <1>3, <1>4 DEF LogEventsMirrorBuffer
<1>6. QED BY <1>5, FreshInvariant, MirrorInvariant, PTL

(* An EVENT_INIT_DEBUG overtakes the events of no more messages that it    *)
(* cleared than there are log threads.                                     *)
THEOREM FewStaleEvents == Spec => []StaleEventsBounded
<1>1. ASSUME FreshInv, MirrorInv, NEW n \in DOMAIN published, published[n] = InitDebugEvent
      PROVE  Cardinality({i \in LogEvents : i > n /\ SessionOf(published[i].msg) < AnnouncedBy(n)})
               <= Cardinality(LogThread)
  <2> DEFINE S == {i \in LogEvents : i > n /\ SessionOf(published[i].msg) < AnnouncedBy(n)}
             f == [i \in S |-> appended[IndexOf(published[i].msg)].thread]
  <2>1. \A k \in DOMAIN appended : IndexOf(appended[k].msg) = k
    BY <1>1, FreshFacts DEF IndexOf
  <2>2. \A i \in LogEvents : \E k \in DOMAIN appended :
          appended[k].msg = published[i].msg /\ IndexOf(published[i].msg) = k
    BY <1>1, <2>1 DEF MirrorInv, Traced
  <2>3. IsFiniteSet(S) /\ IsFiniteSet(LogThread)
    <3>1. IsFiniteSet(DOMAIN published)
      BY <1>1, FreshFacts, FS_Interval
    <3>2. S \subseteq DOMAIN published
      BY DEF LogEvents
    <3>3. QED BY <3>1, <3>2, FS_Subset, PluginAssumption
  <2>4. f \in [S -> LogThread]
    <3>1. ASSUME NEW i \in S PROVE f[i] \in LogThread
      <4>1. PICK k \in DOMAIN appended : IndexOf(published[i].msg) = k
        BY <2>2
      <4>2. appended[k].thread \in LogThread
        BY <1>1, RecordFields
      <4>3. QED BY <4>1, <4>2
    <3>2. QED BY <3>1
  <2>5. ASSUME NEW i \in S, NEW j \in S, f[i] = f[j]
        PROVE  i = j
    <3>1. PICK k \in DOMAIN appended :
            appended[k].msg = published[i].msg /\ IndexOf(published[i].msg) = k
      BY <2>2
    <3>2. PICK l \in DOMAIN appended :
            appended[l].msg = published[j].msg /\ IndexOf(published[j].msg) = l
      BY <2>2
    <3>3. appended[k].thread = appended[l].thread
      BY <2>5, <3>1, <3>2
    <3>4. Old(k, n) /\ Old(l, n) /\ Late(k, n) /\ Late(l, n)
      BY <3>1, <3>2 DEF Old, Late, SessionOf
    <3>5. k = l
      BY <1>1, <3>3, <3>4 DEF MirrorInv, OneLate
    <3>6. QED BY <1>1, <3>1, <3>2, <3>5 DEF MirrorInv, Traced
  <2> HIDE DEF S, f
  <2>6. ~ (Cardinality(LogThread) < Cardinality(S))
    BY <2>3, <2>4, <2>5, FS_PigeonHole
  <2>7. Cardinality(S) \in Nat /\ Cardinality(LogThread) \in Nat
    BY <2>3, FS_CardinalityType
  <2>8. Cardinality(S) <= Cardinality(LogThread)
    BY <2>6, <2>7
  <2>9. QED BY <2>8 DEF S
<1>2. FreshInv /\ MirrorInv => StaleEventsBounded
  BY <1>1 DEF StaleEventsBounded
<1>3. QED BY <1>2, FreshInvariant, MirrorInvariant, PTL
-----------------------------------------------------------------------------
(* What the plugin does to g_log_buffer and to the number of its session:  *)
(* LogMessage or InitDebug of module LogClient, and nothing else.  So the  *)
(* environment that LogClient gives its readers is the plugin.             *)
LogStep ==
  \/ \E m \in Message : Buffer!append(m) /\ UNCHANGED session
  \/ Buffer!clear /\ session' = session + 1

LEMMA StepsOfTheLog ==
  ASSUME FreshInv, [Next]_vars
  PROVE  [LogStep]_<<buffer, session>>
<1>1. CASE Gui \/ pluginStop
  BY <1>1 DEF Gui, BindSockets, BindFailed, WriteSessionFile, XAutoServer, pluginit,
                Attach, Installs, Activate, pluginInit, running,
              pluginStop, Deactivate, Detach, CloseRep, LockToClose, ClosePub, RemoveFile, ghosts
<1>2. ASSUME NEW t \in LogThread,
             hook_GuiAddLogMessage(t) \/ CheckActive(t) \/ CaptureLock(t) \/ CaptureSend(t)
      PROVE  UNCHANGED <<buffer, session>>
  BY <1>2 DEF hook_GuiAddLogMessage, CheckActive, CaptureLock, CaptureSend, ghosts
<1>3. ASSUME NEW t \in LogThread, CaptureAppend(t)
      PROVE  LogStep
  <2>1. msg[t] \in Message
    BY <1>3 DEF CaptureAppend, FreshInv, Logged
  <2>2. QED BY <1>3, <2>1 DEF CaptureAppend, AppendMessage, LogStep
<1>4. CASE cb_init_debug
  BY <1>4 DEF cb_init_debug, ClearLog, LogStep
<1>5. CASE Debugger \/ cb_event
  BY <1>5 DEF Debugger, DebugLock, DebugSend, cb_event, ghosts
<1>6. CASE Server \/ RecvClosed \/ SendReplyClosed \/ \E c \in Client : Ask(c)
  BY <1>6 DEF Server, Recv, Dispatch, SendReply, SendReplyClosed, RecvClosed, Ask, ghosts
<1>7. CASE Over \/ UNCHANGED vars
  BY <1>7 DEF Over, vars, running, ghosts
<1>8. QED BY <1>1, <1>2, <1>3, <1>4, <1>5, <1>6, <1>7 DEF Next, LogThreads

THEOREM PluginDrivesTheLog == Spec => [][LogStep]_<<buffer, session>>
BY StepsOfTheLog, FreshInvariant, PTL DEF Spec

(* The plugin uses g_log_buffer only as module LogBuffer lets it be used.  *)
THEOREM PluginKeepsTheLog == Spec => Buffer!Spec
<1>1. Init => Buffer!Init
  BY DEF Init
<1>2. FreshInv /\ [Next]_vars => [Buffer!Next]_(Buffer!bufferVars)
  BY StepsOfTheLog DEF LogStep, buffer, Buffer!bufferVars, Buffer!Next
<1>3. QED BY <1>1, <1>2, FreshInvariant, PTL DEF Spec, Buffer!Spec

(* So every theorem about the buffer holds of the plugin's, under all its  *)
(* threads.                                                                *)
BufferAlone == INSTANCE LogBuffer_proofs

LEMMA SameBuffer ==
  /\ Buffer!Spec => BufferAlone!Spec
  /\ BufferAlone!Window => Buffer!Window
  /\ BufferAlone!BytesAccounted => Buffer!BytesAccounted
  /\ BufferAlone!WithinCaps => Buffer!WithinCaps
<1>1. Buffer!Init => BufferAlone!Init
  BY DEF Buffer!Init, BufferAlone!Init
<1>2. [Buffer!Next]_(Buffer!bufferVars) => [BufferAlone!Next]_(BufferAlone!bufferVars)
  BY DEF Buffer!Next, BufferAlone!Next, Buffer!bufferVars, BufferAlone!bufferVars,
         Buffer!clear, BufferAlone!clear, Buffer!append, BufferAlone!append,
         Buffer!MustEvict, BufferAlone!MustEvict, Buffer!PrefixBytes, BufferAlone!PrefixBytes,
         Buffer!Size, BufferAlone!Size
<1>3. Buffer!Spec => BufferAlone!Spec
  BY <1>1, <1>2, PTL DEF Buffer!Spec, BufferAlone!Spec
<1>4. BufferAlone!Window => Buffer!Window
  BY DEF Buffer!Window, BufferAlone!Window
<1>5. BufferAlone!BytesAccounted => Buffer!BytesAccounted
  BY DEF Buffer!BytesAccounted, BufferAlone!BytesAccounted, Buffer!PrefixBytes,
         BufferAlone!PrefixBytes, Buffer!Size, BufferAlone!Size
<1>6. BufferAlone!WithinCaps => Buffer!WithinCaps
  BY DEF Buffer!WithinCaps, BufferAlone!WithinCaps
<1>7. QED BY <1>3, <1>4, <1>5, <1>6

(* However many threads append and whenever cb_init_debug clears: what the *)
(* buffer holds is the tail of the session's log, its byte count is right  *)
(* and its caps hold.                                                      *)
THEOREM PluginsBufferIsSound ==
  Spec => [](Buffer!Window /\ Buffer!BytesAccounted /\ Buffer!WithinCaps)
<1>1. BufferAlone!Spec => []BufferAlone!Window
  BY BufferAlone!WindowOfTheLog, PluginAssumption
<1>2. BufferAlone!Spec => []BufferAlone!BytesAccounted
  BY BufferAlone!BytesAreAccounted, PluginAssumption
<1>3. BufferAlone!Spec => []BufferAlone!WithinCaps
  BY BufferAlone!CapsHold, PluginAssumption
<1>4. QED BY <1>1, <1>2, <1>3, SameBuffer, PluginKeepsTheLog, PTL

(* And to whoever reads it, it is the log that module LogWindow promises,  *)
(* whose indices keep their messages, and which loses no entry that it has *)
(* room for.                                                               *)
THEOREM PluginImplementsLogWindow ==
  Spec => /\ BufferAlone!ImplementsLogWindow
          /\ []BufferAlone!Log!Consecutive /\ BufferAlone!Log!IndicesKept
          /\ BufferAlone!EvictsOnlyWhatItMust
<1>1. BufferAlone!Spec => BufferAlone!ImplementsLogWindow
  BY BufferAlone!BufferImplementsLogWindow, PluginAssumption
<1>2. BufferAlone!Spec => []BufferAlone!Log!Consecutive /\ BufferAlone!Log!IndicesKept
  BY BufferAlone!IndicesAreKept, PluginAssumption
<1>3. BufferAlone!Spec => BufferAlone!EvictsOnlyWhatItMust
  BY BufferAlone!EvictionIsMinimal, PluginAssumption
<1>4. QED BY <1>1, <1>2, <1>3, SameBuffer, PluginKeepsTheLog, PTL

-----------------------------------------------------------------------------
(* What the liveness of the plugin rests on, said as safety.               *)

(* RequestAnswered: until plugstop closes the socket, the REP thread of a  *)
(* session is about to be started, is at a step that it can take, or has   *)
(* answered a QUIT; and the request it dispatches is one that its client   *)
(* still waits for.                                                        *)
ServerAlive ==
  acquired = "session" /\ gui \notin Releasing =>
    /\ rep_sock = "bound"
    /\ gui # "acquired" => rep \in {"recv", "dispatch", "send", "quit"}
    /\ rep \in {"dispatch", "send"} => serving \in Client /\ request[serving] # None

ServerInv ==
  /\ gui \in {"unloaded", "write_file"} => acquired = None
  /\ gui = "write_file" => rep_sock = "bound"
  /\ acquired = "session" /\ gui \notin Releasing => rep_sock = "bound"
  /\ acquired = "session" /\ gui \notin Releasing \cup {"acquired"} =>
       rep \in {"recv", "dispatch", "send", "quit"}
  /\ rep \in {"dispatch", "send"} => serving \in Client /\ request[serving] # None

THEOREM ServerIsAlive == Spec => []ServerAlive
<1>1. Init => ServerInv
  BY PluginAssumption DEF Init, ServerInv
<1>2. ServerInv /\ [Next]_vars => ServerInv'
  <2> SUFFICES ASSUME ServerInv, [Next]_vars PROVE ServerInv'
    OBVIOUS
  <2>1. CASE BindSockets \/ WriteSessionFile \/ XAutoServer
    <3>1. CASE BindSockets
      <4>1. /\ UNCHANGED <<rep, serving, request>> /\ rep_sock' = pub'
            /\ \/ gui' = "write_file" /\ pub' = "bound" /\ acquired' = acquired
               \/ gui' = "acquired" /\ acquired' = "bind_failed"
        BY <3>1 DEF BindSockets, BindFailed, running, serverq
      <4>2. gui = "unloaded"
        BY <3>1 DEF BindSockets
      <4>3. QED BY <4>1, <4>2, PluginAssumption DEF ServerInv
    <3>2. CASE WriteSessionFile
      <4>1. /\ UNCHANGED <<rep, serving, request, rep_sock>>
            /\ gui = "write_file" /\ gui' = "acquired"
        BY <3>2 DEF WriteSessionFile, running, serverq, sockets
      <4>2. QED BY <4>1 DEF ServerInv
    <3>3. CASE XAutoServer
      <4>1. /\ UNCHANGED <<serving, request, rep_sock, acquired>>
            /\ gui = "acquired" /\ gui' = "constructed"
            /\ rep' = IF acquired = "session" THEN "recv" ELSE rep
        BY <3>3 DEF XAutoServer, sockets, life
      <4>2. QED BY <4>1 DEF ServerInv, Releasing
    <3>4. QED BY <2>1, <3>1, <3>2, <3>3
  <2>2. CASE pluginStop \/ (Gui /\ ~ (BindSockets \/ WriteSessionFile \/ XAutoServer))
    <3>1. /\ UNCHANGED <<acquired, rep, serving, request>>
          /\ gui' \notin {"unloaded", "write_file"} /\ gui # "acquired"
      BY <2>2 DEF Gui, pluginit, Attach, Installs, Activate, pluginInit, running, pluginStop,
                  Deactivate, Detach, CloseRep, LockToClose, ClosePub, RemoveFile, life, serverq
    <3>2. gui \in Releasing => gui' \in Releasing
      BY <2>2 DEF Gui, pluginit, Attach, Installs, Activate, pluginInit, pluginStop, Deactivate,
                  Detach, CloseRep, LockToClose, ClosePub, RemoveFile, Releasing
    <3>3. rep_sock' = rep_sock \/ gui' \in Releasing
      BY <2>2 DEF Gui, pluginit, Attach, Installs, Activate, pluginInit, running, pluginStop,
                  Deactivate, Detach, CloseRep, LockToClose, ClosePub, RemoveFile, sockets, Releasing
    <3>4. QED BY <3>1, <3>2, <3>3 DEF ServerInv
  <2>3. ASSUME NEW t \in LogThread,
               \/ hook_GuiAddLogMessage(t) \/ CheckActive(t) \/ CaptureAppend(t)
               \/ CaptureLock(t) \/ CaptureSend(t)
        PROVE  ServerInv'
    BY <2>3 DEF hook_GuiAddLogMessage, CheckActive, CaptureAppend, CaptureLock, CaptureSend,
                sockets, life, serverq, ServerInv
  <2>4. CASE Debugger \/ cb_init_debug \/ cb_event
    BY <2>4 DEF Debugger, DebugLock, DebugSend, cb_init_debug, cb_event, sockets, life, serverq,
                ServerInv
  <2>5. ASSUME NEW c \in Client, Recv(c) \/ Ask(c)
        PROVE  ServerInv'
    <3>1. UNCHANGED <<gui, acquired, rep_sock>>
      BY <2>5 DEF Recv, Ask, sockets, life
    <3>2. CASE Recv(c)
      BY <3>1, <3>2 DEF Recv, ServerInv
    <3>3. CASE Ask(c)
      <4>1. /\ UNCHANGED <<rep, serving>> /\ request[c] = None
            /\ \E r : request' = [request EXCEPT ![c] = r]
        BY <3>3 DEF Ask
      <4>2. QED BY <3>1, <4>1 DEF ServerInv
    <3>4. QED BY <2>5, <3>2, <3>3
  <2>6. CASE Dispatch \/ SendReply \/ SendReplyClosed \/ RecvClosed
    BY <2>6 DEF Dispatch, SendReply, SendReplyClosed, RecvClosed, sockets, life, ServerInv
  <2>7. CASE Over \/ UNCHANGED vars
    BY <2>7 DEF Over, vars, running, sockets, life, serverq, ServerInv
  <2>8. QED BY <2>1, <2>2, <2>3, <2>4, <2>5, <2>6, <2>7 DEF Next, Gui, LogThreads, Server
<1>3. ServerInv => ServerAlive
  BY DEF ServerInv, ServerAlive
<1>4. QED BY <1>1, <1>2, <1>3, PTL DEF Spec

(* StopCompletes, the wait for pub_mutex: nobody but a thread inside       *)
(* libzmq has it, whatever was thrown there.                               *)
HeldOnlyInside == pub_mutex # None => pub_mutex \in UsingPub

THEOREM MutexIsHeldOnlyInside == Spec => []HeldOnlyInside
<1>1. Init => HeldOnlyInside
  BY DEF Init, HeldOnlyInside
<1>2. IInv /\ HeldOnlyInside /\ [Next]_vars => HeldOnlyInside'
  <2> SUFFICES ASSUME IInv, HeldOnlyInside, [Next]_vars, pub_mutex' # None
               PROVE  pub_mutex' \in UsingPub'
    BY DEF HeldOnlyInside
  <2> DEFINE At(thread) ==
        \/ thread \in LogThread /\ capture[thread] = "sending"
        \/ thread = "debug" /\ debug = "sending"
        \/ thread = "gui" /\ gui = "closing_pub"
  <2>1. /\ pub_mutex # None => At(pub_mutex)
        /\ At(pub_mutex)' => pub_mutex' \in UsingPub'
    BY PluginAssumption DEF HeldOnlyInside, UsingPub
  <2>2. CASE LockToClose
    BY <2>1, <2>2 DEF LockToClose
  <2>3. CASE ClosePub
    BY <2>3 DEF ClosePub
  <2>4. CASE \/ pluginStop \/ BindSockets \/ WriteSessionFile \/ XAutoServer \/ pluginit
             \/ Attach \/ Activate \/ pluginInit \/ Deactivate \/ Detach \/ CloseRep \/ RemoveFile
    <3>1. UNCHANGED <<pub_mutex, capture, debug>> /\ gui # "closing_pub"
      BY <2>4 DEF BindSockets, BindFailed, WriteSessionFile, XAutoServer, pluginit, Attach, Installs, Activate, pluginInit, running, pluginStop,
                  Deactivate, Detach, CloseRep, RemoveFile, sockets, logcalls, debugger
    <3>2. QED BY <2>1, <3>1
  <2>5. ASSUME NEW t \in LogThread,
               hook_GuiAddLogMessage(t) \/ CheckActive(t) \/ CaptureAppend(t)
        PROVE  At(pub_mutex)'
    <3>1. UNCHANGED <<pub_mutex, gui, debug>>
      BY <2>5 DEF hook_GuiAddLogMessage, CheckActive, CaptureAppend, sockets, debugger
    <3>2. capture[t] # "sending" /\ \E at : capture' = [capture EXCEPT ![t] = at]
      BY <2>5 DEF hook_GuiAddLogMessage, CheckActive, CaptureAppend, CaptureOver
    <3>3. \A u \in LogThread : capture[u] = "sending" => capture'[u] = "sending"
      BY <3>2 DEF IInv
    <3>4. QED BY <2>1, <3>1, <3>3
  <2>6. ASSUME NEW t \in LogThread, CaptureLock(t)
        PROVE  At(pub_mutex)'
    BY <2>6 DEF CaptureLock, LockToSend, IInv
  <2>7. ASSUME NEW t \in LogThread, CaptureSend(t)
        PROVE  FALSE
    BY <2>7 DEF CaptureSend, Send, SendThrows
  <2>8. CASE cb_init_debug \/ cb_event
    <3>1. UNCHANGED <<pub_mutex, gui, capture>> /\ debug # "sending"
      BY <2>8 DEF cb_init_debug, cb_event, sockets, logcalls
    <3>2. QED BY <2>1, <3>1
  <2>9. CASE Debugger
    BY <2>1, <2>9 DEF Debugger, DebugLock, LockToSend, DebugSend, Send, SendThrows
  <2>10. CASE Server \/ RecvClosed \/ SendReplyClosed \/ Over \/ UNCHANGED vars \/ \E c \in Client : Ask(c)
    <3>1. UNCHANGED <<pub_mutex, gui, capture, debug>>
      BY <2>10 DEF Server, Recv, Dispatch, SendReply, SendReplyClosed, RecvClosed, Ask, Over, vars,
                   running, sockets, logcalls, debugger
    <3>2. QED BY <2>1, <3>1
  <2>11. QED BY <2>1, <2>2, <2>3, <2>4, <2>5, <2>6, <2>7, <2>8, <2>9, <2>10
             DEF Next, Gui, LogThreads
<1>3. QED BY <1>1, <1>2, PluginInvariant, PTL DEF Spec

(* StopCompletes, the captures: once log_hook_uninstall has cleared the    *)
(* flag no capture gets past its check, so the threads that may yet append *)
(* or publish are among those that had passed it, each for the last time.  *)
Deactivated == gui \in {"detach", "close_rep"} \cup Releasing

Passed == {t \in LogThread : capture[t] \in {"append", "lock", "sending"}}

CapturesDrain == [][Deactivated => Deactivated' /\ Passed' \subseteq Passed]_vars

FlagDown == Deactivated => ~ active

THEOREM CapturesOnlyDrain == Spec => CapturesDrain
<1>1. Init => FlagDown
  BY DEF Init, FlagDown, Deactivated, Releasing
<1>2. FlagDown /\ [Next]_vars => FlagDown'
  <2> SUFFICES ASSUME FlagDown, [Next]_vars PROVE FlagDown'
    OBVIOUS
  <2>1. CASE Gui \/ pluginStop
    BY <2>1 DEF Gui, BindSockets, BindFailed, WriteSessionFile, XAutoServer, pluginit,
                Attach, Installs, Activate, pluginInit, running,
                pluginStop, Deactivate, Detach, CloseRep, LockToClose, ClosePub, RemoveFile, hook,
                FlagDown, Deactivated, Releasing
  <2>2. CASE ~ (Gui \/ pluginStop)
    <3>1. UNCHANGED <<gui, active>>
      BY <2>2 DEF Next, LogThreads, hook_GuiAddLogMessage, CheckActive, CaptureAppend, CaptureLock,
                  CaptureSend, Debugger, DebugLock, DebugSend, cb_init_debug, cb_event, Server, Recv,
                  Dispatch, SendReply, SendReplyClosed, RecvClosed, Ask, Over, vars, hook
    <3>2. QED BY <3>1 DEF FlagDown, Deactivated
  <2>3. QED BY <2>1, <2>2
<1>3. IInv /\ FlagDown /\ [Next]_vars => [Deactivated => Deactivated' /\ Passed' \subseteq Passed]_vars
  <2> SUFFICES ASSUME IInv, FlagDown, [Next]_vars, Deactivated
               PROVE  Deactivated' /\ Passed' \subseteq Passed
    OBVIOUS
  <2>1. CASE Gui \/ pluginStop
    <3>1. UNCHANGED capture
      BY <2>1 DEF Gui, BindSockets, BindFailed, WriteSessionFile, XAutoServer, pluginit,
                Attach, Installs, Activate, pluginInit, running,
                  pluginStop, Deactivate, Detach, CloseRep, LockToClose, ClosePub, RemoveFile, logcalls
    <3>2. Deactivated'
      BY <2>1 DEF Gui, BindSockets, BindFailed, WriteSessionFile, XAutoServer, pluginit,
                Attach, Installs, Activate, pluginInit,
                  pluginStop, Deactivate, Detach, CloseRep, LockToClose, ClosePub, RemoveFile,
                  Deactivated, Releasing
    <3>3. QED BY <3>1, <3>2 DEF Passed
  <2>2. ASSUME NEW t \in LogThread,
               \/ hook_GuiAddLogMessage(t) \/ CheckActive(t) \/ CaptureAppend(t)
               \/ CaptureLock(t) \/ CaptureSend(t)
        PROVE  Deactivated' /\ Passed' \subseteq Passed
    <3>1. UNCHANGED gui
      BY <2>2 DEF hook_GuiAddLogMessage, CheckActive, CaptureAppend, CaptureLock, CaptureSend
    <3>2. \E at : /\ capture' = [capture EXCEPT ![t] = at]
                  /\ at \in {"append", "lock", "sending"} => t \in Passed
      BY <2>2 DEF hook_GuiAddLogMessage, CheckActive, CaptureAppend, CaptureLock, CaptureSend,
                  CaptureOver, Returned, Passed, FlagDown
    <3>3. \A u \in Passed' : u \in Passed
      BY <3>2 DEF Passed, IInv
    <3>4. QED BY <3>1, <3>3 DEF Deactivated
  <2>3. CASE Debugger \/ cb_init_debug \/ cb_event
    BY <2>3 DEF Debugger, DebugLock, DebugSend, cb_init_debug, cb_event, logcalls, Deactivated, Passed
  <2>4. CASE Server \/ RecvClosed \/ SendReplyClosed \/ Over \/ UNCHANGED vars \/ \E c \in Client : Ask(c)
    BY <2>4 DEF Server, Recv, Dispatch, SendReply, SendReplyClosed, RecvClosed, Ask, Over, vars,
                running, logcalls, Deactivated, Passed
  <2>5. QED BY <2>1, <2>2, <2>3, <2>4 DEF Next, LogThreads
<1>4. QED BY <1>1, <1>2, <1>3, PluginInvariant, PTL DEF Spec, CapturesDrain
=============================================================================
