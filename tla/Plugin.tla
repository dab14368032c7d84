------------------------------- MODULE Plugin --------------------------------
(***************************************************************************)
(* The plugin at run time: the threads of the x64dbg process that run its  *)
(* code, and what they share.                                              *)
(*                                                                         *)
(*   gui      x64dbg's main thread: pluginit, plugstop                     *)
(*   debug    the debug loop: one callback cb_* at a time                  *)
(*   a thread of LogThread    GuiAddLogMessage, detoured to capture_log    *)
(*   rep      the detached thread that serves the REP socket               *)
(*                                                                         *)
(* They share g_log_buffer (module LogBuffer, instantiated as Buffer), the *)
(* PUB socket and pub_mutex, the REP socket, g_log_hook_active, srv.       *)
(* Detours, ZeroMQ's sockets and x64dbg's scheduling of callbacks are      *)
(* external: they are modelled as the code uses them.                      *)
(***************************************************************************)
EXTENDS Integers, Sequences, FiniteSets

CONSTANTS
  LogThread,          \* the threads x64dbg adds log messages on
  Message,            \* log messages, told apart: each is logged once
  MAX_ENTRIES, MAX_BYTES, Line, NoFilter,
  Callback,           \* the callbacks that only publish: cb_breakpoint, ...
  Client, Request,    \* the processes with a REQ socket; what they may send
  Acquisition,        \* the outcomes acquire_session may have
  UnloadWhileDebugging,
                      \* x64dbg may call plugstop while it delivers callbacks
  None

ASSUME PluginAssumption ==
  /\ Message \subseteq Seq(Line)
  /\ MAX_ENTRIES \in Nat \ {0} /\ MAX_BYTES \in Nat
  /\ {"EVENT_INIT_DEBUG", "EVENT_LOG_MESSAGE"} \cap Callback = {}
  /\ Request \subseteq {"PING", "known", "unknown", "throwing", "QUIT"}
  /\ "session" \in Acquisition
  /\ Acquisition \subseteq {"session", "bind_failed", "no_session_file"}
  /\ UnloadWhileDebugging \in BOOLEAN
  /\ IsFiniteSet(LogThread) /\ LogThread \cap {"gui", "debug", "rep"} = {}
  /\ None \notin LogThread \cup {"gui", "debug", "rep"}
  /\ None \notin {"session", "bind_failed", "no_session_file"}

VARIABLES
  entries, base_index, total_bytes, history,     \* g_log_buffer
  gui, debug, capture, rep,                      \* program counters
  acquired,      \* what acquire_session returned and why, or None
  srv,           \* the global pointer is set
  hooked,        \* the detours are attached
  active,        \* g_log_hook_active
  registered,    \* the callbacks are registered
  pub_mutex,     \* the thread that holds it, or None
  pub, rep_sock, \* the sockets: "none", "bound", "closed"
  session_file,  \* the session file exists
  msg,           \* the message each log thread is in GuiAddLogMessage with
  event,         \* the event the debug thread is about to publish
  request,       \* what each client waits for the answer of, or None
  serving,       \* the client whose request the REP thread has received
  terminated,    \* the thread that took the process down, or None
  (* history variables *)
  session,       \* the debug session: the number of clears of the buffer
  published,     \* every event sent on the PUB socket
  appended,      \* every message appended, with its thread, the session it was
                 \* logged in and the one it was appended in
  logged_in      \* the session that each log thread's message was logged in

buffer   == <<entries, base_index, total_bytes, history>>
sockets  == <<pub_mutex, pub, rep_sock>>
hook     == <<hooked, active, registered, srv>>
life     == <<acquired, session_file, terminated>>
logcalls == <<capture, msg, logged_in>>
debugger == <<debug, event>>
serverq  == <<rep, request, serving>>
ghosts   == <<published, appended, session>>
running  == <<buffer, logcalls, debugger, serverq, ghosts>>
vars == <<gui, sockets, hook, life, running>>

Buffer == INSTANCE LogBuffer

-----------------------------------------------------------------------------
Init ==
  /\ Buffer!Init
  /\ gui = "unloaded" /\ debug = "idle" /\ rep = "not_started"
  /\ capture = [t \in LogThread |-> "idle"]
  /\ acquired = None /\ session_file = FALSE /\ terminated = None
  /\ srv = FALSE /\ hooked = FALSE /\ active = FALSE /\ registered = FALSE
  /\ pub_mutex = None /\ pub = "none" /\ rep_sock = "none"
  /\ msg = [t \in LogThread |-> None] /\ logged_in = [t \in LogThread |-> 0]
  /\ event = None
  /\ request = [c \in Client |-> None] /\ serving = None
  /\ published = << >> /\ appended = << >> /\ session = 0

-----------------------------------------------------------------------------
(* gui: pluginit.                                                          *)

\* mutant of BindFailed: no `return false`
BindFailureIgnored == pub' = "closed" /\ gui' = "write_file" /\ UNCHANGED acquired

(* A failed bind closes both sockets. *)
BindFailed ==
  /\ "bind_failed" \in Acquisition /\ acquired' = "bind_failed"
  /\ pub' = "closed"
  /\ gui' = "acquired"

(* acquire_session, until both sockets are bound: module Session has the   *)
(* binding in detail.                                                      *)
BindSockets ==
  /\ gui = "unloaded"
  /\ \/ pub' = "bound" /\ gui' = "write_file" /\ UNCHANGED acquired
     \/ BindFailed
  /\ rep_sock' = pub'
  /\ UNCHANGED <<pub_mutex, hook, session_file, terminated, running>>

(* The rest of acquire_session.  If the session file cannot be opened, the *)
(* sockets stay bound.                                                     *)
WriteSessionFile ==
  /\ gui = "write_file" /\ gui' = "acquired"
  /\ \E outcome \in Acquisition \ {"bind_failed"} :
       acquired' = outcome /\ session_file' = (outcome = "session")
  /\ UNCHANGED <<sockets, hook, terminated, running>>

(* The constructor starts the REP thread if acquire_session has succeeded, *)
(* after the session file: a request sent in between waits in the socket.  *)
XAutoServer ==
  /\ gui = "acquired" /\ gui' = "constructed"
  /\ rep' = IF acquired = "session" THEN "recv" ELSE rep
  /\ UNCHANGED <<buffer, sockets, hook, life, logcalls, debugger, request, serving, ghosts>>

\* mutant of Installs: srv may still be unset when the detours are attached
InstallsEarly == gui \in {"constructed", "attach"}

Installs == gui = "attach"

(* pluginit: srv = new XAutoServer(), whatever the constructor met. *)
pluginit ==
  /\ gui = "constructed" /\ gui' = "attach"
  /\ srv' = TRUE
  /\ UNCHANGED <<sockets, hooked, active, registered, life, running>>

(* log_hook_install: unless the bridge or both of its exports are missing, *)
(* it attaches the detours, which may fail unnoticed, and only then lets   *)
(* capture_log in.                                                         *)
Attach ==
  /\ Installs
  /\ \/ gui' = "activate" /\ hooked' \in BOOLEAN
     \/ gui' = "register" /\ UNCHANGED hooked
  /\ UNCHANGED <<sockets, active, registered, srv, life, running>>

Activate ==
  /\ gui = "activate" /\ gui' = "register"
  /\ active' = TRUE
  /\ UNCHANGED <<sockets, hooked, registered, srv, life, running>>

(* The rest of pluginInit. *)
pluginInit ==
  /\ gui = "register" /\ gui' = "running"
  /\ registered' = TRUE
  /\ UNCHANGED <<sockets, hooked, active, srv, life, running>>

-----------------------------------------------------------------------------
(* gui: plugstop.                                                          *)

(* The user closes x64dbg, the plugin is unloaded, or a client's QUIT made *)
(* the REP thread call GuiCloseApplication.  Unless UnloadWhileDebugging,  *)
(* x64dbg has ended the debuggee before, and delivers no more callbacks.   *)
pluginStop ==
  /\ gui = "running" /\ gui' = "deactivate"
  /\ UnloadWhileDebugging \/ debug = "idle"
  /\ registered' = UnloadWhileDebugging
  /\ UNCHANGED <<sockets, hooked, active, srv, life, running>>

(* log_hook_uninstall: the flag first, then the detours; detaching them may*)
(* fail unnoticed, too.                                                    *)
Deactivate ==
  /\ gui = "deactivate" /\ gui' = "detach"
  /\ active' = FALSE
  /\ UNCHANGED <<sockets, hooked, registered, srv, life, running>>

Detach ==
  /\ gui = "detach" /\ gui' = "close_rep"
  /\ hooked' \in {hooked, FALSE}
  /\ UNCHANGED <<sockets, active, registered, srv, life, running>>

(* release_session.  zmq_close hands the socket to ZeroMQ's reaper and     *)
(* returns, whatever the REP thread is doing with it.                      *)
CloseRep ==
  /\ gui = "close_rep" /\ gui' = "lock_pub"
  /\ rep_sock' = "closed"
  /\ UNCHANGED <<pub_mutex, pub, hook, life, running>>

LockToClose ==
  /\ gui = "lock_pub" /\ gui' = "closing_pub"
  /\ pub_mutex = None /\ pub_mutex' = "gui"
  /\ UNCHANGED <<pub, rep_sock, hook, life, running>>

\* mutant of ClosePub: the socket stays open
ClosePubForgets ==
  /\ gui = "closing_pub" /\ gui' = "remove_file" /\ pub_mutex' = None
  /\ UNCHANGED <<pub, rep_sock, hook, life, running>>

ClosePub ==
  /\ gui = "closing_pub" /\ gui' = "remove_file"
  /\ pub' = "closed" /\ pub_mutex' = None
  /\ UNCHANGED <<rep_sock, hook, life, running>>

RemoveFile ==
  /\ gui = "remove_file" /\ gui' = "stopped"
  /\ session_file' = FALSE
  /\ UNCHANGED <<sockets, hook, acquired, terminated, running>>

Gui ==
  \/ BindSockets \/ WriteSessionFile \/ XAutoServer \/ pluginit
  \/ Attach \/ Activate \/ pluginInit
  \/ Deactivate \/ Detach \/ CloseRep \/ LockToClose \/ ClosePub \/ RemoveFile

-----------------------------------------------------------------------------
(* A log thread in a detoured GuiAddLogMessage: hook_GuiAddLogMessage has  *)
(* called the original function, so x64dbg has logged the message in the   *)
(* present session, and is at the top of capture_log.  The thread is in at *)
(* most one call (in_hook: nothing capture_log does logs).  Messages that  *)
(* x64dbg logs while the detours are off never get here.                   *)
hook_GuiAddLogMessage(t) ==
  /\ capture[t] = "idle"
  /\ hooked
  /\ \E m \in Message :
       /\ m \notin {appended[i].msg : i \in DOMAIN appended}
       /\ \A u \in LogThread : msg[u] # m
       /\ msg' = [msg EXCEPT ![t] = m]
  /\ logged_in' = [logged_in EXCEPT ![t] = session]
  /\ capture' = [capture EXCEPT ![t] = "entered"]
  /\ UNCHANGED <<buffer, gui, sockets, hook, life, debugger, serverq, ghosts>>

CaptureOver(t) ==
  /\ capture' = [capture EXCEPT ![t] = "idle"]
  /\ msg' = [msg EXCEPT ![t] = None] /\ logged_in' = [logged_in EXCEPT ![t] = 0]

(* capture_log loads g_log_hook_active once, on entry. *)
CheckActive(t) ==
  /\ capture[t] = "entered"
  /\ IF active
     THEN /\ capture' = [capture EXCEPT ![t] = "append"]
          /\ UNCHANGED <<msg, logged_in>>
     ELSE CaptureOver(t)
  /\ UNCHANGED <<buffer, gui, sockets, hook, life, debugger, serverq, ghosts>>

\* mutant of AppendMessage: the message is not buffered
AppendNothing(t) == UNCHANGED <<buffer, appended>>

AppendMessage(t) ==
  /\ Buffer!append(msg[t])
  /\ appended' = Append(appended, [msg |-> msg[t], thread |-> t,
                                   logged_in |-> logged_in[t], session |-> session])

(* g_log_buffer.append(msg), then `if (srv)` and the packing of the event. *)
CaptureAppend(t) ==
  /\ capture[t] = "append"
  /\ AppendMessage(t)
  /\ IF srv
     THEN /\ capture' = [capture EXCEPT ![t] = "lock"]
          /\ UNCHANGED <<msg, logged_in>>
     ELSE CaptureOver(t)
  /\ UNCHANGED <<gui, sockets, hook, life, debugger, serverq, published, session>>

-----------------------------------------------------------------------------
(* pub_send.  Between "lock" and the return of zmq_send the caller is      *)
(* inside libzmq with pub_socket: Sending is two steps.                    *)
\* mutant of LockToSend: does not wait for the mutex
LockIgnored(thread) == pub_mutex' = thread

LockToSend(thread) == pub_mutex = None /\ pub_mutex' = thread

(* The lock_guard releases the mutex whether send returns or throws. *)
Send(e) ==
  /\ pub = "bound"
  /\ published' = Append(published, e)
  /\ pub_mutex' = None

(* zmq::socket_t::send on a socket that is closed, or never was bound. *)
SendThrows == pub # "bound" /\ pub_mutex' = None /\ UNCHANGED published

LogEvent(m) == [type |-> "EVENT_LOG_MESSAGE", msg |-> m]

CaptureLock(t) ==
  /\ capture[t] = "lock"
  /\ LockToSend(t)
  /\ capture' = [capture EXCEPT ![t] = "sending"]
  /\ UNCHANGED <<buffer, gui, pub, rep_sock, hook, life, msg, logged_in,
                 debugger, serverq, ghosts>>

\* mutant of Returned: the event is sent again
ReturnedToRetry(t) ==
  capture' = [capture EXCEPT ![t] = "lock"] /\ UNCHANGED <<msg, logged_in>>

(* capture_log returns either way: catch (...) drops the event. *)
Returned(t) == CaptureOver(t)

CaptureSend(t) ==
  /\ capture[t] = "sending"
  /\ Send(LogEvent(msg[t])) \/ SendThrows
  /\ Returned(t)
  /\ UNCHANGED <<buffer, gui, pub, rep_sock, hook, life, debugger, serverq, appended,
                 session>>

LogThreads ==
  \E t \in LogThread :
    CheckActive(t) \/ CaptureAppend(t) \/ CaptureLock(t) \/ CaptureSend(t)

-----------------------------------------------------------------------------
(* debug: x64dbg calls a registered callback.                              *)

InitDebugEvent == [type |-> "EVENT_INIT_DEBUG"]

\* mutant of ClearLog: the buffer keeps the last session's log
ClearNothing == UNCHANGED buffer

ClearLog == Buffer!clear

(* cb_init_debug empties the log of the previous session, then publishes. *)
cb_init_debug ==
  /\ debug = "idle"
  /\ registered
  /\ ClearLog /\ session' = session + 1
  /\ debug' = "lock"
  /\ event' = InitDebugEvent
  /\ UNCHANGED <<gui, sockets, hook, life, logcalls, serverq, published, appended>>

(* Every other callback only packs its event and publishes it, except that *)
(* cb_debugstr returns at once when it cannot read the debug string; that  *)
(* changes nothing here.                                                   *)
cb_event ==
  /\ debug = "idle"
  /\ registered
  /\ \E cb \in Callback : event' = [type |-> cb]
  /\ debug' = "lock"
  /\ UNCHANGED <<buffer, gui, sockets, hook, life, logcalls, serverq, ghosts>>

DebugLock ==
  /\ debug = "lock"
  /\ LockToSend("debug")
  /\ debug' = "sending"
  /\ UNCHANGED <<buffer, gui, pub, rep_sock, hook, life, logcalls, event, serverq,
                 ghosts>>

(* No callback catches what pub_send throws: it leaves the plugin through  *)
(* x64dbg's C call site.                                                   *)
DebugSend ==
  /\ debug = "sending"
  /\ \/ Send(event) /\ UNCHANGED terminated
     \/ SendThrows /\ terminated' = "debug"
  /\ debug' = "idle"
  /\ event' = None
  /\ UNCHANGED <<buffer, gui, pub, rep_sock, hook, acquired, session_file,
                 logcalls, serverq, appended, session>>

Debugger == DebugLock \/ DebugSend

-----------------------------------------------------------------------------
(* rep: xauto_srv_req_rep_thread.                                          *)

(* A client's REQ socket sends a request; it sends no other before the     *)
(* reply.                                                                  *)
Ask(c) ==
  /\ request[c] = None
  /\ \E r \in Request : request' = [request EXCEPT ![c] = r]
  /\ UNCHANGED <<buffer, gui, sockets, hook, life, logcalls, debugger, rep, serving,
                 ghosts>>

(* recv hands over the request of some client. *)
Recv(c) ==
  /\ rep = "recv"
  /\ rep_sock = "bound"
  /\ request[c] # None
  /\ serving' = c
  /\ rep' = "dispatch"
  /\ UNCHANGED <<buffer, gui, sockets, hook, life, logcalls, debugger, request, ghosts>>

(* CloseRep does not wait for the REP thread.  What becomes of a recv that *)
(* another thread closes the socket under is undefined: it may throw, it   *)
(* may abort in libzmq, or it may never return (the step is not fair).  A  *)
(* recv that begins afterwards throws zmq::error_t and ends the thread.    *)
RecvClosed ==
  /\ rep = "recv"
  /\ rep_sock = "closed"
  /\ \/ rep' = "over" /\ UNCHANGED terminated
     \/ UNCHANGED rep /\ terminated' = "rep"
  /\ UNCHANGED <<buffer, gui, sockets, hook, acquired, session_file, logcalls,
                 debugger, request, serving, ghosts>>

(* unpack and _dispatch_cmd.  What unpack throws on a message that is no   *)
(* msgpack, or a handler on what it is asked for (memory for a huge read), *)
(* is no zmq::error_t: it leaves the thread's function.                    *)
Dispatch ==
  /\ rep = "dispatch"
  /\ IF request[serving] = "throwing"
     THEN terminated' = "rep" /\ UNCHANGED rep
     ELSE rep' = "send" /\ UNCHANGED terminated
  /\ UNCHANGED <<buffer, gui, sockets, hook, acquired, session_file, logcalls,
                 debugger, request, serving, ghosts>>

\* mutant of Reply: drops it
ReplyDropped == serving' = None /\ UNCHANGED request

Reply == request' = [request EXCEPT ![serving] = None] /\ serving' = None

(* send, and the end of the loop after QUIT, which closes x64dbg; the      *)
(* closing itself is pluginStop.                                           *)
SendReply ==
  /\ rep = "send"
  /\ rep_sock = "bound"
  /\ Reply
  /\ rep' = IF request[serving] = "QUIT" THEN "quit" ELSE "recv"
  /\ UNCHANGED <<buffer, gui, sockets, hook, life, logcalls, debugger, ghosts>>

(* A send that another thread has closed the socket under is like such a  *)
(* recv.                                                                   *)
SendReplyClosed ==
  /\ rep = "send"
  /\ rep_sock = "closed"
  /\ \/ rep' = "over" /\ serving' = None /\ UNCHANGED terminated
     \/ UNCHANGED <<rep, serving>> /\ terminated' = "rep"
  /\ UNCHANGED <<buffer, gui, sockets, hook, acquired, session_file, logcalls,
                 debugger, request, ghosts>>

Server == (\E c \in Client : Recv(c)) \/ Dispatch \/ SendReply

-----------------------------------------------------------------------------
(* The plugin is stopped or x64dbg is gone. *)
Over == (terminated # None \/ gui = "stopped") /\ UNCHANGED vars

Next ==
  \/ /\ terminated = None
     /\ \/ Gui \/ pluginStop
        \/ LogThreads \/ \E t \in LogThread : hook_GuiAddLogMessage(t)
        \/ Debugger \/ cb_init_debug \/ cb_event
        \/ Server \/ RecvClosed \/ SendReplyClosed \/ \E c \in Client : Ask(c)
  \/ Over

Spec == Init /\ [][Next]_vars

(* A thread takes its next step when it can, and the REP socket queues the *)
(* requests of its peers fairly.  What is logged, debugged and asked, and  *)
(* whether x64dbg is closed at all, is up to the world outside.            *)
Fairness ==
  /\ WF_vars(terminated = None /\ Gui)
  /\ \A t \in LogThread :
       WF_vars(/\ terminated = None
               /\ CheckActive(t) \/ CaptureAppend(t) \/ CaptureLock(t) \/ CaptureSend(t))
  /\ WF_vars(terminated = None /\ Debugger)
  /\ WF_vars(terminated = None /\ Server)
  /\ \A c \in Client : SF_vars(terminated = None /\ Recv(c))

FairSpec == Spec /\ Fairness

-----------------------------------------------------------------------------
Releasing == {"lock_pub", "closing_pub", "remove_file", "stopped"}

(* The comment in release_session: close() is serialised against pub_send. *)
(* No two threads are ever inside libzmq with the PUB socket, which is not *)
(* thread-safe, and whoever is inside holds pub_mutex.                     *)
UsingPub ==
  {t \in LogThread : capture[t] = "sending"}
    \cup (IF debug = "sending" THEN {"debug"} ELSE {})
    \cup (IF gui = "closing_pub" THEN {"gui"} ELSE {})

PubSocketExclusive == \A t \in UsingPub : UsingPub = {t} /\ pub_mutex = t

(* The callbacks and the hook use srv without waiting for it: it is set    *)
(* before any of them can run.                                             *)
ServerSetFirst ==
  debug # "idle" \/ (\E t \in LogThread : capture[t] # "idle") => srv

(* As long as the PUB socket is bound, the log events published are the    *)
(* messages appended to the buffer, but for those whose thread is still    *)
(* between append and the return of pub_send: no message is dropped, none  *)
(* is published twice, none before XAUTO_REQ_GET_LOG can return it.  The   *)
(* events of one thread are in the order of the buffer.                    *)
LogEvents == {i \in DOMAIN published : published[i].type = "EVENT_LOG_MESSAGE"}

IndexOf(m) == CHOOSE i \in DOMAIN appended : appended[i].msg = m

InFlight == {msg[t] : t \in {u \in LogThread : capture[u] \in {"lock", "sending"}}}

ThreadOf(m) == appended[IndexOf(m)].thread

LogEventsMirrorBuffer ==
  pub = "bound" =>
    /\ {appended[i].msg : i \in DOMAIN appended} =
         InFlight \cup {published[i].msg : i \in LogEvents}
    /\ \A i \in LogEvents : published[i].msg \notin InFlight
    /\ \A i, j \in LogEvents :
         LET before == published[i].msg
             after  == published[j].msg
         IN  i < j =>
               /\ before # after
               /\ ThreadOf(before) = ThreadOf(after) => IndexOf(before) < IndexOf(after)

(* cb_init_debug clears before it publishes, but a capture that is between *)
(* the check of g_log_hook_active and its append then appends what was     *)
(* logged in the session before.  So whoever has seen n EVENT_INIT_DEBUGs  *)
(* may read messages that were logged before the n-th session: at most one *)
(* per log thread, and that one before all else the thread has in the      *)
(* buffer.                                                                 *)
InitDebugEvents == Cardinality({i \in DOMAIN published : published[i] = InitDebugEvent})

LoggedIn(m) == appended[IndexOf(m)].logged_in

SessionOf(m) == appended[IndexOf(m)].session

StaleEntriesBounded ==
  \A i, j \in DOMAIN entries :
    /\ LoggedIn(entries[i]) < InitDebugEvents
    /\ ThreadOf(entries[i]) = ThreadOf(entries[j])
    => IndexOf(entries[i]) <= IndexOf(entries[j])

(* The append and the publishing of a message are not atomic, so an        *)
(* EVENT_INIT_DEBUG may overtake the log event of a message that it        *)
(* cleared; but of no more messages than there are log threads.            *)
AnnouncedBy(n) == Cardinality({i \in 1 .. n : published[i] = InitDebugEvent})

StaleEventsBounded ==
  \A n \in DOMAIN published :
    published[n] = InitDebugEvent =>
      Cardinality({i \in LogEvents : i > n /\ SessionOf(published[i].msg) < AnnouncedBy(n)})
        <= Cardinality(LogThread)

(* A client that finds the session file finds both sockets bound, until    *)
(* the plugin stops.  The thread that serves it is about to start or does  *)
(* not end, except that a QUIT ends its loop.                              *)
SessionFileMeansServed ==
  session_file /\ gui \notin Releasing =>
    /\ pub = "bound" /\ rep_sock = "bound"
    /\ IF gui = "acquired"
       THEN rep = "not_started"
       ELSE rep \in {"recv", "dispatch", "send", "quit"}

(* No event leaves the plugin once plugstop has returned, whichever        *)
(* captures and callbacks were in flight.                                  *)
SilentAfterStop == [][gui = "stopped" => UNCHANGED published]_vars

(* The REP thread answers: a request is answered unless the plugin is      *)
(* stopped, a QUIT comes first, or x64dbg dies.                            *)
RequestAnswered ==
  \A c \in Client :
    acquired = "session" /\ request[c] # None
      ~> request[c] = None \/ rep = "quit" \/ gui \in Releasing \/ terminated # None

(* plugstop always returns: no capture or callback in flight can keep      *)
(* pub_mutex from it.  From then on no capture gets past the check of      *)
(* g_log_hook_active, should the detours still be there.                   *)
StopCompletes ==
  gui = "deactivate" ~>
    \/ terminated # None
    \/ [](gui = "stopped" /\ \A t \in LogThread : capture[t] \in {"idle", "entered"})

(* The constructor reports a failed acquisition with "plugin execution     *)
(* cannot continue": then no callback goes on to publish its event, which  *)
(* on a socket that never was bound throws into x64dbg.                    *)
StopsWithoutSession == acquired = "bind_failed" => debug = "idle"
=============================================================================
