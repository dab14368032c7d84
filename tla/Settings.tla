------------------------------- MODULE Settings -------------------------------
(***************************************************************************)
(* Where the settings come from that acquire_session reads: the settings   *)
(* dialog, composed with module Session.  x64dbg keeps the settings of a   *)
(* process in memory, reads them from its ini file when it starts and      *)
(* writes all of them back when somebody flushes them and when it exits.   *)
(*                                                                         *)
(* The dialog is modal and runs on the GUI thread, which also loads and    *)
(* stops the plugin; the REP thread meanwhile writes settings for clients, *)
(* and the process may crash at any step.  A port is what GetDlgItemInt    *)
(* reads: 0 when its field is empty.                                       *)
(***************************************************************************)
EXTENDS Session

CONSTANT Number       \* the numbers a user may type for a port

ASSUME SettingsAssumption ==
  /\ Number \subseteq Nat
  /\ None \notin [mode : {"local", "remote"}, req : Nat, pub : Nat]

VARIABLES
  ini,                \* x64dbg's settings file
  store,              \* the settings in the memory of each process, or None
  dialog,             \* its open dialog, or None
  promised            \* history: what the dialog that was confirmed last
                      \* showed, or None when others have saved since

settings == <<ini, store, dialog, promised>>

-----------------------------------------------------------------------------
SettingsInit ==
  /\ Init
  /\ ini \in Setting
  /\ store = [p \in Process |-> None]
  /\ dialog = [p \in Process |-> None]
  /\ promised = None

(* pluginit, in a new process or in one that has unloaded the plugin.      *)
Load(p) ==
  /\ store' = [store EXCEPT ![p] = IF @ = None THEN ini ELSE @]
  /\ Start(p) /\ setting'[p] = store'[p]
  /\ UNCHANGED <<ini, dialog, promised>>

\* mutant of ReqShown: the other port's default
PubDefault(configured) == IF configured = 0 THEN DEFAULT_PUB ELSE configured

ReqShown(configured) == IF configured = 0 THEN DEFAULT_REQ ELSE configured

(* cb_menu_entry and WM_INITDIALOG.  The last two fields are history: the  *)
(* settings it was opened on, until the user or a client changes anything, *)
(* and whether a client has while the settings were saved.                 *)
Open(p) ==
  /\ pc[p] \in {"running", "failed"} /\ dialog[p] = None
  /\ dialog' = [dialog EXCEPT ![p] =
       [ at |-> "open", mode |-> store[p].mode, filled |-> TRUE,
         req |-> ReqShown(store[p].req),
         pub |-> IF store[p].pub = 0 THEN DEFAULT_PUB ELSE store[p].pub,
         before |-> store[p], disturbed |-> FALSE ]]
  /\ UNCHANGED <<ini, store, promised, vars>>

At(p, step) == dialog[p] # None /\ dialog[p].at = step

(* The fields of the remote configuration are disabled in local mode.      *)
Edit(p) ==
  /\ At(p, "open")
  /\ \/ \E mode \in {"local", "remote"} :
          dialog' = [dialog EXCEPT ![p].mode = mode, ![p].before = None]
     \/ /\ dialog[p].mode = "remote"
        /\ \E req, pub \in Number, filled \in BOOLEAN :
             dialog' = [dialog EXCEPT ![p].req = req, ![p].pub = pub,
                                      ![p].filled = filled, ![p].before = None]
  /\ UNCHANGED <<ini, store, promised, vars>>

\* mutant of Acceptable: the ports may be the same
AcceptableSame(d) == d.mode = "remote" => d.req \in Port /\ d.pub \in Port /\ d.filled

Acceptable(d) ==
  d.mode = "remote" => d.req \in Port /\ d.pub \in Port /\ d.req # d.pub /\ d.filled

Save(p, key, next) ==
  /\ store' = [store EXCEPT ![p][key] = dialog[p][key]]
  /\ dialog' = [dialog EXCEPT ![p].at = next]
  /\ UNCHANGED <<ini, promised, vars>>

(* IDOK: a message box unless the controls are acceptable, else the        *)
(* settings one by one, the ports in remote mode only.                     *)
Ok(p) ==
  \/ /\ At(p, "open") /\ Acceptable(dialog[p])
     /\ Save(p, "mode", IF dialog[p].mode = "remote" THEN "req" ELSE "flush")
  \/ At(p, "req") /\ Save(p, "req", "pub")
  \/ At(p, "pub") /\ Save(p, "pub", "flush")

Shown(p) ==
  [ mode |-> dialog[p].mode,
    ports |-> IF dialog[p].mode = "local" THEN None ELSE <<dialog[p].req, dialog[p].pub>> ]

(* BridgeSettingFlush and EndDialog. *)
Flush(p) ==
  /\ At(p, "flush")
  /\ ini' = store[p]
  /\ dialog' = [dialog EXCEPT ![p] = None]
  /\ promised' = IF dialog[p].disturbed THEN None ELSE Shown(p)
  /\ UNCHANGED <<store, vars>>

Cancel(p) ==
  /\ At(p, "open")
  /\ dialog' = [dialog EXCEPT ![p] = None]
  /\ UNCHANGED <<ini, store, promised, vars>>

-----------------------------------------------------------------------------
(* WRITE_SETTING_SZ or WRITE_SETTING_UINT, of one key. *)
ClientWrites(p) ==
  /\ pc[p] = "running"
  /\ \E key \in {"mode", "req", "pub"} : \E value \in {s[key] : s \in Setting} :
       store' = [store EXCEPT ![p][key] = value]
  /\ dialog' = IF dialog[p] = None THEN dialog
               ELSE [dialog EXCEPT ![p].before = None, ![p].disturbed = ~ At(p, "open")]
  /\ UNCHANGED <<ini, promised, vars>>

SessionStep(p) ==
  /\ Acquire(p) \/ (dialog[p] = None /\ Release(p))
  /\ UNCHANGED settings

(* x64dbg exits after it has stopped the plugin, and saves its settings:   *)
(* those it once read, when another process has saved others since.        *)
Exit(p) ==
  /\ pc[p] = "none" /\ store[p] # None
  /\ ini' = store[p]
  /\ store' = [store EXCEPT ![p] = None]
  /\ promised' = IF store[p] = ini THEN promised ELSE None
  /\ UNCHANGED <<dialog, vars>>

Die(p) ==
  /\ Crash(p)
  /\ store' = [store EXCEPT ![p] = None]
  /\ dialog' = [dialog EXCEPT ![p] = None]
  /\ UNCHANGED <<ini, promised>>

Dialog(p) == Open(p) \/ Edit(p) \/ Ok(p) \/ Flush(p) \/ Cancel(p)

SettingsNext ==
  \/ \E p \in Process : Load(p) \/ SessionStep(p) \/ Dialog(p) \/ ClientWrites(p) \/ Exit(p) \/ Die(p)
  \/ Environment /\ UNCHANGED settings

SettingsSpec == SettingsInit /\ [][SettingsNext]_<<vars, settings>>

-----------------------------------------------------------------------------
(* "Changes take effect on next restart.": a process that starts after a   *)
(* dialog was confirmed asks for the very ports it showed, no default and  *)
(* no cast in between, and for two different ones, whether the process the *)
(* dialog belonged to has crashed or exited since; unless a client or the  *)
(* exit of another process has overwritten them.                           *)
Restarts(p) == pc[p] = "none" /\ pc'[p] = "bind_rep" /\ store[p] = None

TakesEffect ==
  [][\A p \in Process : Restarts(p) /\ promised # None =>
       /\ setting'[p].mode = promised.mode
       /\ promised.mode = "remote" =>
            /\ Wanted(p, setting[p].req, DEFAULT_REQ)' = {promised.ports[1]}
            /\ Wanted(p, setting[p].pub, DEFAULT_PUB)' = {promised.ports[2]}
            /\ promised.ports[1] # promised.ports[2]]_<<vars, settings>>

(* Confirming a dialog without touching it changes nothing about the next  *)
(* session: it shows, and saves, what acquire_session makes of the         *)
(* settings, whose defaults are written down a second time there.          *)
Ports(s) == IF s.mode = "local" THEN Dynamic
            ELSE {<<PortOf(s.req, DEFAULT_REQ), PortOf(s.pub, DEFAULT_PUB)>>}

OkKeepsPorts ==
  [][\A p \in Process :
       Flush(p) /\ dialog[p].before # None
         => Ports(ini') = Ports(dialog[p].before)]_<<vars, settings>>
=============================================================================
