# x64dbg Automate in TLA+

A verification development for the x64dbg-automate plugin (`src/`): TLA+ modules
of its parts, TLC runs on small instances, and TLAPS proofs for all instances.
Paths below are those of the repository; `xauto_log.cpp:18` is line 18 of
`src/xauto_log.cpp`.

## 1. The system

The plugin is a DLL that x64dbg loads. It lets other processes drive the
debugger: they find a running x64dbg by its *session file*, send requests to a
ZeroMQ REP socket and subscribe to events on a PUB socket.

    x64dbg process                                             client process
      GUI thread      pluginit / plugstop ──► XAutoServer        session files
      debug loop      cb_* callbacks ──┐        │ acquire/release_session
      log task        GuiAddLogMessage │        ▼                    │
                        └ capture_log ─┤     REP socket ◄──────── REQ socket
                            │          └──►  PUB socket ─────────► SUB socket
                            ▼                   ▲ pub_mutex
                       g_log_buffer ◄─ get_log  │
      REP thread      recv, _dispatch_cmd, send ┘

### Components

**Log buffer** (`LogBuffer`, `xauto_log.cpp:13-82`). State: `entries`,
`base_index`, `total_bytes`, guarded by `mtx`. Operations: `append` (evicts
oldest entries until both caps hold), `clear`, `get_since` (a page of matching
lines, `next_index`, `remaining`, `evicted`). Hard: two caps and a running byte
count in one loop; page boundaries under filters, limits and evictions.
Correct when: absolute indices name messages stably, bytes are counted exactly,
no more is evicted than must be, and a page's four numbers fit together.

**Log reading protocol** (`xauto_log.h:10-30`, `get_log` in `xauto_cmd.cpp`).
State: the cursor every client keeps between requests. Hard: the log is
appended to, evicted from and cleared between request and reply and between
requests. Correct when: nothing is skipped or repeated without the client being
told, `remaining` is exact, and paging reaches the end.

**Log hook** (`xauto_log.cpp:84-167`). State: the detours, `g_log_hook_active`.
Operations: install, uninstall, `capture_log` on x64dbg's log-task thread.
Hard: captures in flight while the hook is removed and the socket is closed.
Correct when: what is published mirrors what is buffered, and captures in flight
neither send on a closed socket nor hold up the unloading.

**Event publishing** (`plugin.cpp`, `xauto_server.h:pub_send`). Callbacks on the
debug loop and captures on the log thread send on one PUB socket under
`pub_mutex`. Correct when: at most one thread is inside ZeroMQ with the socket,
no event follows the return of `plugstop`, and little of the previous session's
log, in the buffer or in events, can follow `EVENT_INIT_DEBUG`.

**Request/reply server** (`xauto_server.cpp:18-125`). A detached thread loops
over receive, dispatch, send; `QUIT` ends it and closes x64dbg. Hard: its socket
is closed by another thread; only `zmq::error_t` is caught. Correct when every
request is answered once, by the reply it asked for, until the plugin stops.

**Plugin lifecycle** (`pluginmain.cpp`, `pluginInit`/`pluginStop` in
`plugin.cpp`). Orders the above: constructor, `srv`, hook, callbacks; and back.

**Sessions and discovery** (`acquire_session`, `release_session`,
`xauto_server.cpp:128-245`, `get_session_filename`). State per process: mode,
ports, sockets, `%TEMP%/xauto_session.<pid>.lock`. Hard: several processes
compete for ports; a process may die at any step and its pid may be reused; the
file is written line by line; ports are cast to 16 bits. Correct when a client
that finds a complete file reaches the right process.

**Command handlers** (`xauto_cmd.cpp`). The 26 requests of the REP socket. State:
the response being packed, the blocks of `BridgeAlloc` in hand; what they ask
about belongs to x64dbg and changes while they run. Hard: every handler checks its
arguments by hand, by type but not by width; two calls of the bridge are not one;
a failed lookup leaves the buffer it was to fill; exceptions end the process.
Correct when a reply is one object, malformed requests are refused and change
nothing, only known kinds of request end the process, and an answer was true at some
time since the request.

**Register dump** (`dbg_read_regs`, `xauto_cmd.cpp:149-446`). No state of its own:
it takes MXCSR and the x87 words apart with forty masks and renumbers the x87
stack by physical register. Correct when no bit is lost or reported twice and data,
number, tag and MMX part of a register belong together for every top of stack.

**Settings dialog** (`plugin.cpp:230-330`). State: the controls, x64dbg's settings
in memory and its ini file. Hard: saved key by key while clients write settings,
used only by the next process, which casts and defaults ports itself. Correct when
the next session uses the ports the dialog showed.

**External**: x64dbg with its bridge and plugin API, Detours, ZeroMQ,
MessagePack, Windows. They are present as actions of the environment and as the
assumptions of section 6.

### What is hard to test

`PROJECT.json` lists the hazards, each at its line, with the properties that
would catch it: steps of several threads in orders nobody wrote a test for (hook
removal against captures, `release_session` against both server threads), a log
cursor that goes stale, partial failures of the acquisition, crashes that leave
session files or half-saved settings, arguments that are missing or too wide,
memory that changes between two calls of one handler, and arithmetic at the two
caps, at page boundaries, at the width of a port and in the numbering of the x87
stack. Some hazards have no property, each with a note that says why. Most of these
are things that do go wrong and that no document of the repository rules out, so the
models have them and the properties except them by name: a request after `QUIT` that
is never answered (`rep = "quit"`), what becomes of a socket closed under the REP
thread (undefined), a session file whose removal failed (`unclean`), the block that a
malformed GET_SYMBOL loses (`allocated`), a disassembly mixed from two calls, a write
to memory that fails half way, a client's write of the settings while the dialog is
open (`disturbed`). And `dbg_read_regs` clears the CPU flags and never computes them
(`xauto_cmd.cpp:246-247`), so every reply reports each of them as 0: a constant,
which the definition `flags` of `RegDump` states.

## 2. The modules

| module | models | of |
|---|---|---|
| `LogWindow` | the abstract log: a map from indices to messages | what `xauto_log.h` promises |
| `LogBuffer` | `append`, `clear`, `get_since` as state functions | `LogBuffer` |
| `GetSince` | `get_since` as the loop it is; EXTENDS LogBuffer | `xauto_log.cpp:34-82` |
| `LogClient` | clients that page through the log; EXTENDS LogBuffer | `get_log` and the contract in `xauto_log.h` |
| `Plugin` | all threads of one x64dbg process; INSTANCEs LogBuffer | hook, publishing, REP thread, lifecycle |
| `SessionDirectory` | the abstract directory: which process is listed with which ports | what session files are for |
| `Session` | several x64dbg processes that start, fail, stop and crash | `acquire_session`, `release_session` |
| `Settings` | the dialog, the settings in memory and on disk, clients that write them; EXTENDS Session | `plugin.cpp:230-330` |
| `Commands` | what each request is answered, while the debuggee runs | the handlers of `xauto_cmd.cpp` |
| `RegDump` | the words and the stack of READ_REGISTERS | `dbg_read_regs` |
| `*_proofs` | the theorems about each of these modules | |
| `MC*` | instances for TLC | |

How the state corresponds to the code:

- **LogBuffer.** `entries`, `base_index` and `total_bytes` are the fields;
  `history` is a ghost, every message since the last clear. A message is the
  sequence of its lines; its size is the number of lines, which stands for its
  bytes: the caps only compare sums. A line is a model value; a filter is the
  set of lines that contain the filter string, so matching, which the code does
  line by line, is membership. `append` is one action with the whole eviction
  loop: the mutex makes it atomic, and as many entries go as it takes for
  `MustEvict`, the condition of the loop, to be false for the first time.
- **GetSince.** One action per way round the loop (`Skip`, `Take`, `Count`),
  `Enter` and `Return`. `mtx` is held throughout, so `AppendOrClear` waits. That the
  loop ends needs no check: it is a `for` over a buffer that stays as it is.
- **LogClient.** `get_log(c)` is the handler, `Receive(c)` the arrival of its
  reply. `session`, `origin`, `landed`, `seen`, `lost`, `text` are ghosts that
  say what a client has got and what it was told it missed.
- **Plugin.** `gui`, `debug`, `capture`, `rep` are program counters; a step is
  the code between two points where another thread can interfere: the load of
  the flag, the append (under `mtx`), the lock, the send with the unlock.
  Being inside `zmq_send` is a state of its own (`"sending"`), as is being
  inside `close` (`"closing_pub"`), so overlap would be visible. `terminated`
  names the thread whose uncaught exception or abort takes x64dbg down.
  `BindSockets`, `WriteSessionFile` and `XAutoServer` are the constructor in three
  steps: between the last two there is a session file and no thread yet.
  `published`, `appended`, `session`, `logged_in` are ghosts; `appended` has for each
  message the session x64dbg logged it in, taken when it enters the hook, and the one
  in which it got into the buffer.
- **Session.** `pc[p]` is where a process is in `acquire_session` or
  `release_session`; `busy` holds the ports of other programs and those that
  ZeroMQ has not given back after a `close` (which is asynchronous). A file is
  the sequence of its three lines, each written by one step or, as nobody checks the
  stream, lost together with those after it (`cut_short`, a ghost like `unclean`).
- **Settings.** `store[p]` is what `BridgeSettingGet*` reads in process `p`, `ini`
  the file that a flush and x64dbg's exit write and a new process reads. `dialog[p]`
  holds the controls and how far `IDOK` has got: the mode, the REP port, the PUB
  port and the flush are one step each. `promised` is a ghost, what the dialog
  confirmed last has shown, and so are the dialog's fields `before` and `disturbed`.
- **Commands.** A handler is a record: the types it takes, how many arguments it
  demands, how it refuses, what it does otherwise. The actions are what the
  handlers share: `Refuse`, `Throw`, `Serve` (the one call of the bridge that
  matters), `Symbolize` (the second call of `disassemble_at`), `Free`, `Send`.
  `beyond` is what lies behind the argument array, which two handlers read. `World`
  is the debuggee, the user and other plugins. A write to memory (`Change`) may fail
  and leave the item changed. `held`, `changed` are ghosts.
- **RegDump.** A word is a number, a mask a power of two, `(w & mask) != 0` is
  `(w \div mask) % 2`. `word` stands for MXCSR, control and status word, which are
  decoded apart from each other; MXCSR is a DWORD whose upper half the processor
  reserves as 0. The register area starts with ST(0), the reply and `TagWord` with R0.

Composition: `Plugin` uses `LogBuffer` through `INSTANCE` and takes the outcome
of `acquire_session` from the set `Acquisition`, which are the three ends that
`Session` has (running, failed with the sockets closed, failed with both bound);
`SocketsAreReleased` proves of `Session` that there are no others. Seen from the log,
every step of `Plugin` is one of `LogClient`'s environment (`PluginDrivesTheLog`).
`LogClient` and `GetSince` refine the reading side of `LogBuffer`; `GetSince`
shows the one-expression `Snapshot` that `LogClient` uses to be what the loop
returns. `LogBuffer` implements `LogWindow`, `Session` implements `SessionDirectory`. `Settings` runs the dialog and the
clients' writes beside the sessions of `Session`, whose steps it implements.
`Commands` is the inside of `Plugin`'s `Dispatch`, whose outcomes (`"known"`,
`"unknown"`, `"throwing"`) are the ends that `Commands` has.

## 3. The runs

| run | question | result |
|---|---|---|
| `log_buffer` | does any sequence of appends and clears break the caps, the byte count, the indices? Does the buffer implement `LogWindow`? Does the loop of `get_since` return the `Snapshot`, on every buffer on the way? | holds |
| `log_clients` | can a client miss, repeat or miscount entries unannounced? Does paging reach the end of a quiet log, also with a stale cursor? | no; yes |
| `carried_cursor` | does a carried-over cursor restart at the new log? | **no**, finding 1 |
| `plugin` | load, capture, debug, serve, unload in every interleaving, with two log threads | holds |
| `plugin_liveness` | is every request answered; does unloading end? Is the session of a session file served? | yes, if fair; yes |
| `unbound_publish` | does the plugin stop after a failed acquisition? | **no**, finding 2 |
| `sessions` | ports, files, failing writes, crashes, reused pids: are the session files the directory of `SessionDirectory`? | yes |
| `local_acquires` | does drawing random ports succeed? | yes, if a port is free again and again |
| `commands` | what do missing, mistyped and too wide arguments do; are answers true? | as the properties say |
| `missing_value` | is a setting written without its value refused? | **no**, finding 3 |
| `register_dump` | is the stack rotated right; do the fields make up the words? | yes |
| `settings` | does the next session use the ports the dialog showed? | yes |

### The properties

- *Log buffer.* `Window`: the entries are the tail of everything logged from
  `base_index` on. `BytesAccounted`, `WithinCaps`: `total_bytes` is the sum of
  the sizes, and both caps hold but for a single oversized message.
  `EvictsOnlyWhatItMust`: an append never evicts an entry that could have stayed.
  `ImplementsLogWindow`. `ReturnsSnapshot`: the loop ends with the page that one
  expression defines.
- *Paging.* `NothingSkipped`, `StreamIntegrity`, `RemainingIsExact`,
  `CursorMonotonic`, `CatchesUp`, as the comments in `LogClient` state them.
- *Threads.* `PubSocketExclusive`; `ServerSetFirst`; `LogEventsMirrorBuffer`;
  `StaleEntriesBounded` (after an `EVENT_INIT_DEBUG` the buffer may still get a line
  of the session before, from a capture that had passed the flag: one for each log
  thread at most, before all else of that thread); `StaleEventsBounded` (an
  `EVENT_INIT_DEBUG` may overtake the event of a message it cleared, but of no
  more messages than there are log threads); `SilentAfterStop`;
  `SessionFileMeansServed` (sockets bound; the REP thread about to start, in its loop
  or ended by `QUIT`); `RequestAnswered`; `StopCompletes`.
- *Sessions.* `FileNamesItsSockets` (line by line: the bound ports and the address; 0
  exactly for a configured multiple of 65536; missing lines, the last ones, exactly
  after a failed write); `LeadsAstrayOnlyWhenStale`; `RemoteExclusive`;
  `LeftoverOnlyWhenUnclean`; `ImplementsDirectory` (a session comes up, listed with
  two ports of its own, when the last line of its file is written; a listing outlasts
  it at most until the process's next one); `LocalAcquires`.
- *Commands.* `ReplyIsOneObject`; `MalformedIsRefused`; `DiesOnlyOf` (the four
  kinds of request that take x64dbg down are the only ones); `AnswerWasTrue`
  (of a disassembly: every part, for it may mix two instructions).
- *Register dump.* `StackFromTop` (number, contents and tag of each register of the
  stack); `FieldsPartitionWords`.
- *Settings.* `TakesEffect` ("Changes take effect on next restart."), across
  crashes; `OkKeepsPorts`: the defaults are written down twice, in the dialog and in
  `acquire_session`, and confirming an untouched dialog must not show it.

Every property of a passing run comes with a mutant in `PROJECT.json`: a
plausible bug in one definition under which the property fails in that run. The
mutated forms stand before the definition they change and are marked as such.

### Findings

1. **A carried-over cursor does not restart** (`carried_cursor`).
   `xauto_log.h:26-27` says that a `next_index` carried over from a prior session
   restarts at the new log. `get_since` starts at `since_index - base_index`
   whatever session the index is from (`xauto_log.cpp:40`). Messages of the new
   session that lie before the old cursor are neither returned nor counted in
   `evicted`; while the new log is no longer than that, this is all of them, and the
   reply is empty. TLC's run: read a message (cursor 1), `cb_init_debug`, log another,
   read: nothing comes back.
2. **Execution continues after a failed acquisition** (`unbound_publish`).
   `xauto_server.cpp:251` logs "plugin execution cannot continue", but the
   constructor just returns; `pluginInit` registers all callbacks
   (`plugin.cpp:353`), and the first one publishes on the unbound socket, where
   `pub_send` throws and no callback catches.
3. **A setting without its value is read past the array** (`missing_value`).
   `dbg_write_setting_sz` and `dbg_write_setting_uint` check for three elements and
   look at `ptr[3]` (`xauto_cmd.cpp:461`, `:502`). If that memory happens to have
   the type asked for, the setting is written from it and the reply is `true`,
   not the "Invalid or missing setting string" of `:466`. It may also not be
   readable, which ends the process.

More consequences of the code are part of what the models do and the properties
state or except, as no document says otherwise. A line of the old session may get
into the log that `cb_init_debug` has just emptied (`StaleEntriesBounded`). A session
file whose writing failed is taken for written (`FileNamesItsSockets`). A configured
port that is a multiple of 65536 is bound as an ephemeral port and written as 0
(`CastToZero`). `dbg_read_setting_uint` answers a missing setting with memory that
nobody wrote (`AnswerWasTrue`). `get_symbol_at` keeps its block when it refuses
(`Refuse`, `allocated`).

## 4. Bounds

The bounds are CONSTANTS of the MC modules, in the guards of `MCNext`.

- *Log.* For the buffer and the loop: `MAX_ENTRIES` 3 and `MAX_BYTES` 4 for 50,000
  and 20 MB; messages of 0, 1, 2 and 5 lines, so both caps bind, alone and
  together, one append evicts none, one or all entries, and a message exceeds the
  cap alone; `MaxHistory` 4 messages between clears; cursors before, in, at the end
  of and past the window; limits 0, 1, 2; no filter, and one that keeps all, some or
  none of a message. For paging: two clients, one with a filter, over 2 retained
  entries of 3 lines, `MaxHistory` 3 messages of one or two lines, limits 0 and 1,
  and `MaxSession` 1 clear: both caps evict, and every relation of cursor to window
  occurs, across the clear, too. Section 7 covers any values.
- *Plugin.* Safety: two log threads, three messages, `MaxPublished` 3 events,
  `MaxSession` 2 debug sessions, all outcomes of the acquisition, no client (the REP
  thread takes no part in these properties but by dying of its closed socket);
  threads and messages are interchangeable, hence the symmetry. Liveness: one log
  thread, one message, two clients, two events, one session. Loading and unloading
  happen once, as in the code. Four publishers (two log threads, the debug loop, the
  closing GUI thread) contend for `pub_mutex` in every order; further threads
  differ from these in nothing. One plain callback stands for all those that only
  publish.
- *Session.* Two pids; ports 0 to 4 (`PORTS` = 5 for 65,536), of which two are
  dynamic, so that two local sessions cannot both have both; settings for local
  mode, remote defaults, a port spelt beyond 16 bits that equals a default after
  the cast, and one that becomes 0, in three combinations; any line of a file may
  fail; `MaxBusy` = 1 port held by others at a time. The
  two processes are interchangeable, hence the symmetry.
- *Settings.* One pid, which crashes, exits and restarts; `PORTS` = 3, so every
  port is a default; the numbers 0 to 4 typed, of which 3 and 4 are too wide; files
  without ports or with one that is the other's default; clients write the mode, and
  a REP port that is cast to 0. No port is taken by others and no line of a session
  file fails: settings do not depend on it.
- *Commands.* All 25 commands (GET_LOG is in `LogClient`) with no to four arguments
  of six types, one item, one value beside "absent"; `MaxLeaks` 2. Two clients are
  served one after the other, so one request at a time is all there is. What no
  handler looks at is one fixed type.
- *Register dump.* All 65,536 values of a word, the same for MXCSR, control and status
  word, whose fields do not mix; a tag word of the same value, or one that no rotation
  of the stack maps to itself; eight registers that differ.

## 5. Fairness

Safety needs none. `FairSpec` of `Plugin` assumes that the operating system runs
each thread that can take a step (weak fairness of the GUI thread once it is
unloading or loading, of each log thread, the debug loop and the REP thread),
and that the REP socket takes requests from its peers in turn, which is what
ZeroMQ documents for REP (strong fairness of `Recv(c)`). What is logged, asked
or debugged, and whether x64dbg is closed, is not fair. `RecvClosed` is not
either: a `recv` whose socket is closed by another thread may hang.
`pub_mutex` is weakly fair only, so a waiting thread could in principle be
overtaken for ever; `StopCompletes` holds because `Deactivate` comes first, and
so the captures that can overtake are finitely many, and the run delivers a
bounded number of callbacks.

`FairSpec` of `Session` assumes strong fairness of the two binds: a draw is
uniform over all dynamic ports, so a port that is free again and again is drawn.
`LocalAcquires` is conditional on such a port. Without it (say, `localhost`
cannot be bound at all) the loops at `xauto_server.cpp:187` and `:200` run for
ever on x64dbg's GUI thread. `log_clients` assumes that the REP loop serves a
client that keeps asking.

## 6. Assumptions

- x64dbg calls one callback at a time; `plugsetup` precedes everything, and
  loading and unloading are on its GUI thread. Whether it may call `plugstop`
  while callbacks are still delivered is the constant `UnloadWhileDebugging`,
  and the runs take the pessimistic value.
- Detours makes a capture start only while attached; a call that is inside
  goes on after the detach. Attaching and detaching may each fail unnoticed.
- `zmq::socket_t::send` throws on a socket that is closed or was never bound;
  a `recv`, or the REP thread's `send`, whose socket is closed by another thread is
  undefined, and may throw, abort or hang. The `close` itself returns. The `PUB` high-water mark and slow subscribers are left out:
  what is "published" is what `send` accepted.
- The addresses sessions bind to overlap, and binding is exclusive: a port is
  bound once.
- In `Plugin` every message is told apart (logged once), so that an event can be
  traced to its message. `LogBuffer` and `LogClient` have repeated messages.
- A crash frees the ports of the process at once. A line of a session file whose
  flush fails leaves nothing in the file, and the stream then writes no more.
- `BridgeAlloc` zeroes what it returns and does not fail; `DbgDisasmAt` always fills
  in the instruction; the strings of a symbol are handed over only when one is
  found; the maps of MEMMAP and GET_BREAKPOINTS are x64dbg's own; setting strings
  fit their buffers; `DbgGetRegDumpEx` fills the whole dump.
- `BridgeSettingSet*` changes memory, `BridgeSettingFlush` the file; x64dbg also
  saves its settings when it exits, and each process those it has in memory. The
  dialog is modal: `plugstop` does not run on the GUI thread while it is open.

## 7. What is proved

All proofs are for every value of the constants under the named ASSUMEs, which
only give types, say that the model values differ, that `MAX_ENTRIES` is positive
and that log threads are finitely many.

**`LogBuffer_proofs`.** The inductive invariant is `TypeOK /\ Window /\
BytesAccounted /\ WithinCaps`: `total_bytes - size` stays in `Nat` only because
the bytes are accounted for, and accounting needs the entries to be messages.
Sizes are summed by the recursive *function* `PrefixBytes`. As induction over
data is out of reach, the lemmas about it (`PrefixBytesOfSuffix`,
`PrefixBytesOfAppend`, `PrefixBytesGrows`) rest on a least-counterexample
argument (`LeastNat`, `StepwiseEqual`) that needs no induction rule. From the
invariant: each conjunct, the action property `EvictsOnlyWhatItMust`, that the
eviction loop ends for every message (`AppendLoopEnds`), and the refinement
`BufferImplementsLogWindow`, with one lemma per action. What the refinement is for
is proved from it alone, without the buffer's state: `IndicesAreKept`, the indices
are consecutive and keep their messages until the oldest are dropped. The module ends with the
facts about the n-th smallest of a set of positions (`NthUnique`, `NthExists`,
`NthOfUnion`, `NthOfShift`) that the next two modules take pages apart with.

**`GetSince_proofs`.** The loop only reads (`LoopIsReader`), so the invariant of the
buffer holds in it. `LInv` says of every point of the loop what it has scanned: the
lines collected are those of the matching entries up to the last one taken,
`remaining` counts the matching ones held back since. At the return that is the
`Snapshot` (`LoopReturnsSnapshot`).

**`LogClient_proofs`.** `CInv`: a reply in flight is a page of the log of its
session, from where the request started to `next_index`, and what a client has
collected in its session is what lies before its cursor. The page survives appends,
evictions and clears because the ghost `history` only grows within a session.
Proved: `NothingSkipped`, `StreamIntegrity`, `RemainingIsExact`, `CursorMonotonic`,
for any number of clients, limits, filters, sessions and replies in flight.
`PagesGoOn`: a page ends past its cursor or where the log ended when it was read, and
one with `remaining` entries has strictly advanced; so a client that asks again while
`remaining` is not 0 never gets the same page twice.

**`Plugin_proofs`.** Properties that speak about one moment are strengthened by:
`HolderInside` (whoever is inside ZeroMQ is the holder of the mutex; exclusion
follows as the mutex has one holder), `Lifecycle` (what `pluginit` and `plugstop`
have done by each point) and `CallsNeedServer` (nobody is in the plugin's code
before `srv` is set). `FreshInv` adds what the buffer holds: messages that got there in
the current session, each appended once, and no more `EVENT_INIT_DEBUG`s than clears.
`Stamped` orders the sessions in which a thread's messages were logged: each no earlier
than the one its previous message was appended in. So of a thread's messages in the
buffer only the first can be of an earlier session, which is `StaleEntriesBounded`.
`MirrorInv` relates buffer and events: a thread that is about to publish has
appended that message last of its own, and of the messages that the n-th
`EVENT_INIT_DEBUG` has overtaken each thread has one at most (`OneLate`), whence
`StaleEventsBounded` by the pigeonhole principle. Proved: `PubSocketExclusive`,
`ServerSetFirst`, `SessionFileMeansServed`, `SilentAfterStop`,
`StaleEntriesBounded`, `LogEventsMirrorBuffer`, `StaleEventsBounded`, for any number of log threads and clients and every outcome of
the acquisition.

The same module carries the results about the log over to the plugin. By `LogStep`
the threads only append and clear (`PluginDrivesTheLog`, `PluginKeepsTheLog`), so the
theorems of `LogBuffer_proofs`, instantiated, hold of `g_log_buffer` in every
interleaving: `PluginsBufferIsSound`, `PluginImplementsLogWindow`. It also proves what
the liveness properties rest on: `ServerIsAlive` (until its socket is closed, the REP
thread is bound, in its loop, and serves a request that is still asked, or has
answered `QUIT`), `MutexIsHeldOnlyInside` (the holder of `pub_mutex` is inside ZeroMQ,
whatever was thrown before) and `CapturesOnlyDrain` (after the flag is cleared no
further capture gets past it, so those that can hold up `plugstop` only get fewer).

**`Session_proofs`.** `OwnPorts` (no port is bound twice), `Progress` (what
`acquire_session` has achieved at each step, line by line of the file) and
`FileLifetime` (without an unclean end, a pid has a file only while its process
is between opening and removing it) with `TypeOK` are inductive under crashes,
competitors and reused pids. Proved: `TypeOK`, `FileNamesItsSockets`,
`LeadsAstrayOnlyWhenStale`, `RemoteExclusive`, `LeftoverOnlyWhenUnclean`, for
any number of processes, ports and settings. `SessionsAreADirectory`: the refinement
of `SessionDirectory`, with one lemma per action that says which of the entries of
`Up` and `Listing` the action changes; the last line of the file publishes, and there
`Progress` gives that the file is whole and `OwnPorts` that its ports are nobody
else's. From the refinement alone follows `ListingsAreRight`: a session that is up is
listed with exactly the ports the server knows it to have, which nobody else has.
`SocketsAreReleased`: which sockets a process has at
each step, and so what a failed acquisition leaves.

**`Settings_proofs`.** `ImplementsSession`: with dialog, clients and settings file a
session takes no step that `Session` does not have, so the theorems about sessions
hold there: `SessionsHoldWithSettings` states them. `SInv` says what an open dialog has saved so far and that the file holds
what was promised; from it `TakesEffect`. `Untouched` says that an unedited dialog
differs from the settings in their spelling only; from it `OkKeepsPorts`.

**`Commands_proofs`.** The invariant `IInv` joins the properties with `Frame`, what
is in hand at each point of a handler. Proved: all five properties of the run, for
any items, values and argument lists.

**`RegDump_proofs`.** `StackFromTop`, for every status word, tag word and register
contents (`StackIsRotated`). `FieldsPartitionWords`, for every word (`FieldsAreTheWord`): each
field is a digit of the word between two masks, and `Digits` takes a number apart
into its digits and what is above them.

**Only model-checked.** Liveness: `CatchesUp`, `RequestAnswered`, `StopCompletes`,
`LocalAcquires`. Fairness and ENABLED are out of the prover's reach. Of the first
three, what a well-founded argument would use of the code is proved as safety
(`PagesGoOn`; `ServerIsAlive`; `MutexIsHeldOnlyInside` and `CapturesOnlyDrain`); that
fair threads then get there is TLC's. `LocalAcquires` is about luck with random ports
and has no such part. Every other property of a passing run is a theorem.

## 8. What is not modelled

- The fields of the events and the wording of log lines: no property is about
  them. The fields of MEMMAP, GET_BREAKPOINTS and GET_SYMBOL are copied one by one
  from structures that x64dbg fills in; `Commands` has one datum for each answer.
- The registers that `dbg_read_regs` copies as they are, and the names of the last
  error and status.
- Of the dialog: its layout, and the bind address but for being empty or not. Of
  the sessions: which bind address it is (one value in the third line), and a failing `GetTempPathW`, which ends like a
  session file that cannot be opened.
- In `get_log`: that a missing or mistyped argument counts as 0 or the empty string.
  That is not told apart from passing those values.
- `plugsetup`, which stores handles and adds the menu entry; `DllMain`; the build.
- The inside of the external components.
- `Commands` serves one request at a time and is not composed with the closing of
  its socket, which `Plugin` has; what a handler does when its socket is closed
  under it is what it does anyway, and only its `Send` then fails.

## 9. Running it

    tlc -config MCPlugin.cfg MCPlugin       # and so on, one .cfg per run
    tlapm Plugin_proofs.tla

`MCPluginUnbound.cfg`, `MCLogCarried.cfg` and `MCCommandsValue.cfg` are expected to
end in a violation. The largest runs are `plugin` (3.0 million states), `sessions`
(1.5 million), `settings` (1.1 million) and `plugin_liveness`, one to three minutes each.
