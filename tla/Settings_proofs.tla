--------------------------- MODULE Settings_proofs ----------------------------
(***************************************************************************)
(* Proofs about module Settings, for any settings file, any numbers typed, *)
(* any number of processes and clients, and crashes at any step.           *)
(***************************************************************************)
EXTENDS Settings, Session_proofs

(* The composition takes no step that module Session does not know, so     *)
(* what is proved about sessions holds for settings that come from the     *)
(* dialog, from clients and from other processes.                          *)
THEOREM ImplementsSession == SettingsSpec => Spec
<1>1. SettingsInit => Init
  BY DEF SettingsInit
<1>2. [SettingsNext]_<<vars, settings>> => [Next]_vars
  <2> SUFFICES ASSUME SettingsNext PROVE [Next]_vars
    OBVIOUS
  <2>1. ASSUME NEW p \in Process, Load(p) PROVE [Next]_vars
    BY <2>1 DEF Load, Next
  <2>2. ASSUME NEW p \in Process, SessionStep(p) PROVE [Next]_vars
    BY <2>2 DEF SessionStep, Next
  <2>3. ASSUME NEW p \in Process, Dialog(p) \/ ClientWrites(p) \/ Exit(p) PROVE [Next]_vars
    BY <2>3 DEF Dialog, Open, Edit, Ok, Save, Flush, Cancel, ClientWrites, Exit
  <2>4. ASSUME NEW p \in Process, Die(p) PROVE [Next]_vars
    BY <2>4 DEF Die, Next
  <2>5. ASSUME Environment PROVE [Next]_vars
    BY <2>5 DEF Next
  <2>6. QED BY <2>1, <2>2, <2>3, <2>4, <2>5 DEF SettingsNext
<1>3. QED BY <1>1, <1>2, PTL DEF SettingsSpec, Spec

(* In particular, wherever the settings come from and whoever changes them *)
(* when, every session file names the sockets of its session, which no     *)
(* other session has, and the files are the directory of SessionDirectory. *)
THEOREM SessionsHoldWithSettings ==
  SettingsSpec => [](FileNamesItsSockets /\ LeadsAstrayOnlyWhenStale /\ RemoteExclusive
                     /\ LeftoverOnlyWhenUnclean /\ SocketsHeld) /\ ImplementsDirectory
BY ImplementsSession, FilesAreRight, OnlyStaleFilesLeadAstray, RemoteSessionsExclude,
   CleanEndsLeaveNoFile, SocketsAreReleased, SessionsAreADirectory, PTL

-----------------------------------------------------------------------------
Mode == {"local", "remote"}

Record == [mode : Mode, req : Nat, pub : Nat]

PcStates == {"none", "bind_rep", "bind_pub", "open_file", "write_file", "running",
             "failed", "close_pub", "remove_file"}

(* A dialog, as opposed to None. *)
DialogRecord ==
  [ at : {"open", "req", "pub", "flush"}, mode : Mode, filled : BOOLEAN, req : Nat,
    pub : Nat, before : Record \cup {None}, disturbed : BOOLEAN ]

Types ==
  /\ pc \in [Process -> PcStates]
  /\ ini \in Record
  /\ store \in [Process -> Record \cup {None}]
  /\ dialog = [p \in Process |-> dialog[p]]
  /\ \A p \in Process :
       /\ pc[p] # "none" => store[p] # None
       /\ dialog[p] # None =>
            /\ pc[p] \in {"running", "failed"}
            /\ dialog[p] \in DialogRecord

(* How far the settings of the dialog d have got into s. *)
Saved(d, s) ==
  d.at # "open" =>
    /\ Acceptable(d)
    /\ d.at \in {"req", "pub"} => d.mode = "remote"
    /\ ~ d.disturbed =>
         /\ s.mode = d.mode
         /\ d.mode = "remote" /\ d.at \in {"pub", "flush"} => s.req = d.req
         /\ d.mode = "remote" /\ d.at = "flush" => s.pub = d.pub

(* What was promised is what the file holds, and acquire_session takes it  *)
(* for what it is.                                                         *)
Kept ==
  promised # None =>
    /\ ini.mode = promised.mode
    /\ promised.mode = "remote" =>
         /\ ini.req = promised.ports[1] /\ ini.pub = promised.ports[2]
         /\ ini.req \in Port /\ ini.pub \in Port /\ ini.req # ini.pub

SInv ==
  /\ Types
  /\ \A p \in Process : dialog[p] # None => Saved(dialog[p], store[p])
  /\ Kept

LEMMA InitInv == SettingsInit => SInv
<1> SUFFICES ASSUME SettingsInit PROVE SInv
  OBVIOUS
<1>1. ini \in Record
  BY SessionAssumption DEF SettingsInit, Record, Mode
<1>2. pc \in [Process -> PcStates] /\ \A p \in Process : pc[p] = "none"
  BY DEF SettingsInit, Init, PcStates
<1>3. /\ store \in [Process -> Record \cup {None}] /\ dialog = [p \in Process |-> dialog[p]]
      /\ \A p \in Process : dialog[p] = None
  BY DEF SettingsInit
<1>4. Types
  BY <1>1, <1>2, <1>3 DEF Types
<1>5. QED BY <1>3, <1>4 DEF SettingsInit, SInv, Kept

(* A session's own steps move the process that takes them, which has no    *)
(* dialog open.                                                            *)
LEMMA SessionSteps ==
  ASSUME SInv, NEW p \in Process, SessionStep(p)
  PROVE  /\ pc[p] # "none" /\ dialog[p] = None
         /\ \E to \in PcStates : pc' = [pc EXCEPT ![p] = to]
<1>1. pc = [pc EXCEPT ![p] = pc[p]] /\ pc[p] \in PcStates
  BY DEF SInv, Types
<1>2. CASE Acquire(p)
  <2>1. pc[p] \in {"bind_rep", "bind_pub", "open_file", "write_file"}
    BY <1>2 DEF Acquire, BindRep, BindPub, BindThrows, OpenFile, WriteLine
  <2>2. dialog[p] = None
    BY <2>1 DEF SInv, Types
  <2>3. \/ pc' = pc
        \/ \E to \in {"bind_pub", "open_file", "failed", "write_file", "running"} : Goto(p, to)
    BY <1>2 DEF Acquire, BindRep, BindPub, BindThrows, OpenFile, WriteLine
  <2>4. QED BY <1>1, <2>1, <2>2, <2>3 DEF Goto, PcStates
<1>3. CASE dialog[p] = None /\ Release(p)
  <2>1. pc[p] \in {"running", "failed", "close_pub", "remove_file"}
    BY <1>3 DEF Release, CloseRep, ClosePub, RemoveFile
  <2>2. \E to \in {"close_pub", "remove_file", "none"} : Goto(p, to)
    BY <1>3 DEF Release, CloseRep, ClosePub, RemoveFile, End
  <2>3. QED BY <1>3, <2>1, <2>2 DEF Goto, PcStates
<1>4. QED BY <1>2, <1>3 DEF SessionStep

LEMMA LoadInv ==
  ASSUME SInv, NEW p \in Process, Load(p)
  PROVE  SInv'
<1>1. /\ pc[p] = "none" /\ pc' = [pc EXCEPT ![p] = "bind_rep"]
      /\ store' = [store EXCEPT ![p] = IF @ = None THEN ini ELSE @]
      /\ UNCHANGED <<ini, dialog, promised>>
  BY DEF Load, Start, Goto
<1>2. ini # None
  BY SettingsAssumption DEF SInv, Types, Record, Mode
<1>3. dialog[p] = None
  BY <1>1 DEF SInv, Types
<1>4. Types'
  BY <1>1, <1>2, <1>3 DEF SInv, Types, PcStates
<1>5. \A q \in Process : dialog'[q] # None => store'[q] = store[q] /\ dialog'[q] = dialog[q]
  BY <1>1, <1>3 DEF SInv, Types
<1>6. QED BY <1>1, <1>4, <1>5 DEF SInv, Kept, Saved, Acceptable

LEMMA SessionInv ==
  ASSUME SInv, NEW p \in Process, SessionStep(p)
  PROVE  SInv'
<1>1. PICK to \in PcStates : pc' = [pc EXCEPT ![p] = to]
  BY SessionSteps
<1>2. pc[p] # "none" /\ dialog[p] = None /\ UNCHANGED settings
  BY SessionSteps DEF SessionStep
<1>3. Types'
  BY <1>1, <1>2 DEF SInv, Types, settings
<1>4. QED BY <1>2, <1>3 DEF SInv, Kept, settings, Saved, Acceptable

-----------------------------------------------------------------------------
(* A step of one dialog, or of the client of its process. *)
LEMMA DialogStep ==
  ASSUME SInv, NEW p \in Process, pc[p] \in {"running", "failed"}, UNCHANGED pc,
         NEW d, d # None => d \in DialogRecord,
         NEW s \in Record, d # None => Saved(d, s),
         dialog' = [dialog EXCEPT ![p] = d], store' = [store EXCEPT ![p] = s],
         ini' \in Record, Kept'
  PROVE  SInv'
<1>1. s # None
  BY SettingsAssumption DEF Record, Mode
<1>2. /\ dialog'[p] = d /\ store'[p] = s
      /\ \A q \in Process : q # p => dialog'[q] = dialog[q] /\ store'[q] = store[q]
  BY DEF SInv, Types
<1>3. Types'
  BY <1>1, <1>2 DEF SInv, Types
<1>4. ASSUME NEW q \in Process, dialog'[q] # None
      PROVE  Saved(dialog'[q], store'[q])
  BY <1>2, <1>4 DEF SInv
<1>5. QED BY <1>3, <1>4 DEF SInv, Saved, Acceptable

LEMMA OpenDialog ==
  ASSUME SInv, NEW p \in Process, dialog[p] # None
  PROVE  /\ dialog[p] \in DialogRecord /\ pc[p] \in {"running", "failed"}
         /\ store[p] \in Record /\ store[p] # None
         /\ store = [store EXCEPT ![p] = store[p]]
         /\ Saved(dialog[p], store[p])
  BY DEF SInv, Types

LEMMA OpenInv ==
  ASSUME SInv, NEW p \in Process, Open(p)
  PROVE  SInv'
<1>1. /\ pc[p] \in {"running", "failed"} /\ store[p] \in Record
      /\ store' = [store EXCEPT ![p] = store[p]]
  BY DEF Open, SInv, Types
<1> DEFINE d == [ at |-> "open", mode |-> store[p].mode, filled |-> TRUE,
                  req |-> ReqShown(store[p].req),
                  pub |-> IF store[p].pub = 0 THEN DEFAULT_PUB ELSE store[p].pub,
                  before |-> store[p], disturbed |-> FALSE ]
<1>2. /\ DEFAULT_REQ \in Nat /\ DEFAULT_PUB \in Nat
  BY SessionAssumption DEF Port
<1>3. d \in DialogRecord /\ Saved(d, store[p])
  BY <1>1, <1>2 DEF DialogRecord, Record, ReqShown, Saved
<1>4. dialog' = [dialog EXCEPT ![p] = d] /\ UNCHANGED <<pc, ini, promised>>
  BY DEF Open, vars
<1>5. ini' \in Record /\ Kept'
  BY <1>4 DEF SInv, Types, Kept
<1> HIDE DEF d
<1>6. QED BY <1>1, <1>3, <1>4, <1>5, DialogStep

LEMMA EditInv ==
  ASSUME SInv, NEW p \in Process, Edit(p)
  PROVE  SInv'
<1>1. dialog[p] # None /\ dialog[p].at = "open" /\ UNCHANGED <<pc, ini, store, promised>>
  BY DEF Edit, At, vars
<1>2. \E d \in DialogRecord : d.at = "open" /\ dialog' = [dialog EXCEPT ![p] = d]
  <2>1. CASE \E mode \in {"local", "remote"} :
               dialog' = [dialog EXCEPT ![p].mode = mode, ![p].before = None]
    <3>1. PICK mode \in {"local", "remote"} :
            dialog' = [dialog EXCEPT ![p].mode = mode, ![p].before = None]
      BY <2>1
    <3> DEFINE d == [dialog[p] EXCEPT !.mode = mode, !.before = None]
    <3>2. d \in DialogRecord /\ d.at = "open"
      BY <1>1, OpenDialog DEF DialogRecord, Mode
    <3>3. dialog' = [dialog EXCEPT ![p] = d]
      BY <3>1 DEF SInv, Types
    <3>4. QED BY <3>2, <3>3
  <2>2. CASE \E req, pub \in Number, filled \in BOOLEAN :
               dialog' = [dialog EXCEPT ![p].req = req, ![p].pub = pub,
                                        ![p].filled = filled, ![p].before = None]
    <3>1. PICK req \in Number, pub \in Number, filled \in BOOLEAN :
            dialog' = [dialog EXCEPT ![p].req = req, ![p].pub = pub,
                                     ![p].filled = filled, ![p].before = None]
      BY <2>2
    <3> DEFINE d == [dialog[p] EXCEPT !.req = req, !.pub = pub, !.filled = filled,
                                      !.before = None]
    <3>2. req \in Nat /\ pub \in Nat
      BY SettingsAssumption
    <3>3. d \in DialogRecord /\ d.at = "open"
      BY <1>1, <3>2, OpenDialog DEF DialogRecord
    <3>4. dialog' = [dialog EXCEPT ![p] = d]
      BY <3>1 DEF SInv, Types
    <3>5. QED BY <3>3, <3>4
  <2>3. QED BY <2>1, <2>2 DEF Edit
<1>3. PICK d \in DialogRecord : d.at = "open" /\ dialog' = [dialog EXCEPT ![p] = d]
  BY <1>2
<1>4. ini' \in Record /\ Kept'
  BY <1>1 DEF SInv, Types, Kept
<1>5. QED BY <1>1, <1>3, <1>4, OpenDialog, DialogStep DEF Saved

LEMMA OkInv ==
  ASSUME SInv, NEW p \in Process, Ok(p)
  PROVE  SInv'
<1>1. dialog[p] # None /\ UNCHANGED <<pc, ini, promised>>
  BY DEF Ok, Save, At, vars
<1>2. /\ dialog[p] \in DialogRecord /\ store[p] \in Record /\ pc[p] \in {"running", "failed"}
      /\ Saved(dialog[p], store[p])
  BY <1>1, OpenDialog
<1>3. ini' \in Record /\ Kept'
  BY <1>1 DEF SInv, Types, Kept
<1>4. ASSUME NEW key \in {"mode", "req", "pub"}, NEW next \in {"req", "pub", "flush"},
             Save(p, key, next),
             Saved([dialog[p] EXCEPT !.at = next], [store[p] EXCEPT ![key] = dialog[p][key]])
      PROVE  SInv'
  <2> DEFINE d == [dialog[p] EXCEPT !.at = next]
             s == [store[p] EXCEPT ![key] = dialog[p][key]]
  <2>1. dialog' = [dialog EXCEPT ![p] = d] /\ store' = [store EXCEPT ![p] = s]
    BY <1>4 DEF Save, SInv, Types
  <2>2. d \in DialogRecord
    BY <1>2 DEF DialogRecord
  <2>3. s \in Record
    BY <1>2 DEF DialogRecord, Record
  <2>4. Saved(d, s)
    BY <1>4
  <2> HIDE DEF d, s
  <2>5. QED BY <1>1, <1>2, <1>3, <2>1, <2>2, <2>3, <2>4, DialogStep
<1>5. CASE At(p, "open") /\ Acceptable(dialog[p])
           /\ Save(p, "mode", IF dialog[p].mode = "remote" THEN "req" ELSE "flush")
  <2> DEFINE next == IF dialog[p].mode = "remote" THEN "req" ELSE "flush"
  <2>1. Saved([dialog[p] EXCEPT !.at = next], [store[p] EXCEPT !["mode"] = dialog[p]["mode"]])
    BY <1>2, <1>5 DEF Saved, Acceptable, DialogRecord, Record, Mode
  <2>2. next \in {"req", "pub", "flush"}
    OBVIOUS
  <2> HIDE DEF next
  <2>3. Save(p, "mode", next)
    BY <1>5 DEF next
  <2>4. QED BY <1>4, <2>1, <2>2, <2>3
<1>6. CASE At(p, "req") /\ Save(p, "req", "pub")
  <2>1. Saved([dialog[p] EXCEPT !.at = "pub"], [store[p] EXCEPT !["req"] = dialog[p]["req"]])
    BY <1>2, <1>6 DEF Saved, Acceptable, At, DialogRecord, Record
  <2>2. QED BY <1>4, <1>6, <2>1
<1>7. CASE At(p, "pub") /\ Save(p, "pub", "flush")
  <2>1. Saved([dialog[p] EXCEPT !.at = "flush"], [store[p] EXCEPT !["pub"] = dialog[p]["pub"]])
    BY <1>2, <1>7 DEF Saved, Acceptable, At, DialogRecord, Record
  <2>2. QED BY <1>4, <1>7, <2>1
<1>8. QED BY <1>5, <1>6, <1>7 DEF Ok

(* The file gets what the dialog showed, unless a client wrote meanwhile. *)
LEMMA FlushInv ==
  ASSUME SInv, NEW p \in Process, Flush(p)
  PROVE  SInv'
<1>1. /\ dialog[p] # None /\ dialog[p].at = "flush" /\ UNCHANGED <<pc, store>>
      /\ ini' = store[p] /\ dialog' = [dialog EXCEPT ![p] = None]
      /\ promised' = IF dialog[p].disturbed THEN None ELSE Shown(p)
  BY DEF Flush, At, vars
<1>2. /\ dialog[p] \in DialogRecord /\ store[p] \in Record /\ pc[p] \in {"running", "failed"}
      /\ store' = [store EXCEPT ![p] = store[p]] /\ Saved(dialog[p], store[p])
  BY <1>1, OpenDialog
<1>3. Kept'
  <2>1. CASE dialog[p].disturbed
    BY <1>1, <2>1 DEF Kept
  <2>2. CASE ~ dialog[p].disturbed
    <3>1. /\ promised'.mode = dialog[p].mode
          /\ dialog[p].mode = "remote" => promised'.ports = <<dialog[p].req, dialog[p].pub>>
      BY <1>1, <2>2 DEF Shown
    <3>2. /\ store[p].mode = dialog[p].mode /\ Acceptable(dialog[p])
          /\ dialog[p].mode = "remote" =>
               store[p].req = dialog[p].req /\ store[p].pub = dialog[p].pub
      BY <1>1, <1>2, <2>2 DEF Saved
    <3>3. QED BY <1>1, <3>1, <3>2 DEF Kept, Acceptable
  <2>3. QED BY <2>1, <2>2
<1>4. QED BY <1>1, <1>2, <1>3, DialogStep

LEMMA CancelInv ==
  ASSUME SInv, NEW p \in Process, Cancel(p)
  PROVE  SInv'
<1>1. /\ dialog[p] # None /\ dialog' = [dialog EXCEPT ![p] = None]
      /\ UNCHANGED <<pc, store, ini, promised>>
  BY DEF Cancel, At, vars
<1>2. ini' \in Record /\ Kept'
  BY <1>1 DEF SInv, Types, Kept
<1>3. QED BY <1>1, <1>2, OpenDialog, DialogStep

LEMMA ClientInv ==
  ASSUME SInv, NEW p \in Process, ClientWrites(p)
  PROVE  SInv'
<1>1. /\ pc[p] = "running" /\ store[p] \in Record /\ UNCHANGED <<pc, ini, promised>>
  BY DEF ClientWrites, SInv, Types, vars
<1>2. \E s \in Record : store' = [store EXCEPT ![p] = s]
  <2>1. PICK key \in {"mode", "req", "pub"} : \E value \in {t[key] : t \in Setting} :
          store' = [store EXCEPT ![p][key] = value]
    BY DEF ClientWrites
  <2>2. PICK t \in Setting : store' = [store EXCEPT ![p][key] = t[key]]
    BY <2>1
  <2>3. t \in Record
    BY SessionAssumption DEF Record, Mode
  <2> DEFINE s == [store[p] EXCEPT ![key] = t[key]]
  <2>4. s \in Record
    BY <1>1, <2>3 DEF Record
  <2>5. store' = [store EXCEPT ![p] = s]
    BY <2>2 DEF SInv, Types
  <2>6. QED BY <2>4, <2>5
<1>3. PICK s \in Record : store' = [store EXCEPT ![p] = s]
  BY <1>2
<1>4. ini' \in Record /\ Kept'
  BY <1>1 DEF SInv, Types, Kept
<1>5. CASE dialog[p] = None
  <2>1. dialog' = [dialog EXCEPT ![p] = None]
    BY <1>5 DEF ClientWrites, SInv, Types
  <2>2. QED BY <1>1, <1>3, <1>4, <2>1, DialogStep
<1>6. CASE dialog[p] # None
  <2> DEFINE d == [dialog[p] EXCEPT !.before = None, !.disturbed = ~ At(p, "open")]
  <2>1. dialog' = [dialog EXCEPT ![p] = d]
    BY <1>6 DEF ClientWrites, SInv, Types
  <2>2. dialog[p] \in DialogRecord /\ Saved(dialog[p], store[p])
    BY <1>6, OpenDialog
  <2>3. At(p, "open") \in BOOLEAN /\ (At(p, "open") <=> dialog[p].at = "open")
    BY <1>6 DEF At
  <2>4. d \in DialogRecord
    BY <2>2, <2>3 DEF DialogRecord
  <2>5. Saved(d, s)
    BY <2>2, <2>3 DEF Saved, Acceptable, DialogRecord
  <2> HIDE DEF d
  <2>6. QED BY <1>1, <1>3, <1>4, <2>1, <2>4, <2>5, DialogStep
<1>7. QED BY <1>5, <1>6

-----------------------------------------------------------------------------
(* Another process's settings overwrite what was promised, and the promise *)
(* is given up, unless they are the same.                                  *)
LEMMA ExitInv ==
  ASSUME SInv, NEW p \in Process, Exit(p)
  PROVE  SInv'
<1>1. /\ pc[p] = "none" /\ store[p] # None /\ ini' = store[p]
      /\ store' = [store EXCEPT ![p] = None] /\ UNCHANGED <<pc, dialog>>
      /\ promised' = IF store[p] = ini THEN promised ELSE None
  BY DEF Exit, vars
<1>2. Types'
  BY <1>1 DEF SInv, Types
<1>3. Kept'
  BY <1>1 DEF SInv, Kept
<1>4. ASSUME NEW q \in Process, dialog'[q] # None
      PROVE  Saved(dialog'[q], store'[q])
  <2>1. q # p
    BY <1>1, <1>4 DEF SInv, Types
  <2>2. dialog'[q] = dialog[q] /\ store'[q] = store[q]
    BY <1>1, <2>1 DEF SInv, Types
  <2>3. QED BY <1>1, <1>4, <2>2 DEF SInv
<1>5. QED BY <1>2, <1>3, <1>4 DEF SInv, Saved, Acceptable

LEMMA DieInv ==
  ASSUME SInv, NEW p \in Process, Die(p)
  PROVE  SInv'
<1>1. /\ pc' = [pc EXCEPT ![p] = "none"] /\ UNCHANGED <<ini, promised>>
      /\ store' = [store EXCEPT ![p] = None] /\ dialog' = [dialog EXCEPT ![p] = None]
  BY DEF Die, Crash, End, Goto
<1>2. Types'
  BY <1>1 DEF SInv, Types, PcStates
<1>3. ASSUME NEW q \in Process, dialog'[q] # None
      PROVE  Saved(dialog'[q], store'[q])
  <2>1. q # p /\ dialog'[q] = dialog[q] /\ store'[q] = store[q]
    BY <1>1, <1>3 DEF SInv, Types
  <2>2. QED BY <1>3, <2>1 DEF SInv
<1>4. QED BY <1>1, <1>2, <1>3 DEF SInv, Kept, Saved, Acceptable

LEMMA QuietInv ==
  ASSUME SInv, UNCHANGED <<pc, settings>>
  PROVE  SInv'
BY DEF settings, SInv, Types, Kept, Saved, Acceptable

(* No process has a dialog without the settings it shows; what a dialog    *)
(* has saved so far is what it shows; and the file holds what the dialog   *)
(* confirmed last has promised.                                            *)
THEOREM Invariance == SettingsSpec => []SInv
<1>1. SettingsInit => SInv
  BY InitInv
<1>2. SInv /\ [SettingsNext]_<<vars, settings>> => SInv'
  <2> SUFFICES ASSUME SInv, [SettingsNext]_<<vars, settings>> PROVE SInv'
    OBVIOUS
  <2>1. ASSUME NEW p \in Process, Load(p) PROVE SInv'
    BY <2>1, LoadInv
  <2>2. ASSUME NEW p \in Process, SessionStep(p) PROVE SInv'
    BY <2>2, SessionInv
  <2>3. ASSUME NEW p \in Process, Dialog(p) PROVE SInv'
    BY <2>3, OpenInv, EditInv, OkInv, FlushInv, CancelInv DEF Dialog
  <2>4. ASSUME NEW p \in Process, ClientWrites(p) PROVE SInv'
    BY <2>4, ClientInv
  <2>5. ASSUME NEW p \in Process, Exit(p) PROVE SInv'
    BY <2>5, ExitInv
  <2>6. ASSUME NEW p \in Process, Die(p) PROVE SInv'
    BY <2>6, DieInv
  <2>7. CASE Environment /\ UNCHANGED settings
    BY <2>7, QuietInv DEF Environment
  <2>8. CASE UNCHANGED <<vars, settings>>
    BY <2>8, QuietInv DEF vars
  <2>9. QED BY <2>1, <2>2, <2>3, <2>4, <2>5, <2>6, <2>7, <2>8 DEF SettingsNext
<1>3. QED BY <1>1, <1>2, PTL DEF SettingsSpec

-----------------------------------------------------------------------------
(* A configured port goes through the cast and past the default unchanged. *)
LEMMA PortKept ==
  ASSUME NEW port \in Port
  PROVE  port # 0 /\ port % PORTS = port
BY SessionAssumption DEF Port

(* Only a load starts a session. *)
LEMMA OnlyLoadRestarts ==
  ASSUME SInv, [SettingsNext]_<<vars, settings>>, NEW p \in Process, Restarts(p)
  PROVE  Load(p)
<1> USE DEF Restarts
<1>1. ASSUME NEW q \in Process, Load(q) PROVE Load(p)
  BY <1>1 DEF Load, Start, Goto, SInv, Types
<1>2. ASSUME NEW q \in Process, SessionStep(q) PROVE FALSE
  <2>1. PICK to \in PcStates : pc[q] # "none" /\ pc' = [pc EXCEPT ![q] = to]
    BY <1>2, SessionSteps
  <2>2. QED BY <2>1 DEF SInv, Types
<1>3. ASSUME NEW q \in Process, Dialog(q) \/ ClientWrites(q) \/ Exit(q) PROVE FALSE
  <2>1. UNCHANGED pc
    BY <1>3 DEF Dialog, Open, Edit, Ok, Save, Flush, Cancel, ClientWrites, Exit, vars
  <2>2. QED BY <2>1
<1>4. ASSUME NEW q \in Process, Die(q) PROVE FALSE
  BY <1>4 DEF Die, Crash, End, Goto, SInv, Types
<1>5. CASE Environment \/ UNCHANGED <<vars, settings>>
  BY <1>5 DEF Environment, vars
<1>6. QED BY <1>1, <1>2, <1>3, <1>4, <1>5 DEF SettingsNext

(* "Changes take effect on next restart.": the ports of a confirmed dialog *)
(* are the ones the next session asks for, whatever happened to the        *)
(* process it belonged to.                                                 *)
THEOREM Restart == SettingsSpec => TakesEffect
<1>1. ASSUME SInv, [SettingsNext]_<<vars, settings>>, NEW p \in Process,
             Restarts(p), promised # None
      PROVE  /\ setting'[p].mode = promised.mode
             /\ promised.mode = "remote" =>
                  /\ Wanted(p, setting[p].req, DEFAULT_REQ)' = {promised.ports[1]}
                  /\ Wanted(p, setting[p].pub, DEFAULT_PUB)' = {promised.ports[2]}
                  /\ promised.ports[1] # promised.ports[2]
  <2>1. Load(p)
    BY <1>1, OnlyLoadRestarts
  <2>2. setting'[p] = ini
    BY <1>1, <2>1 DEF Load, Restarts, SInv, Types
  <2>3. /\ ini.mode = promised.mode
        /\ promised.mode = "remote" =>
             /\ ini.req = promised.ports[1] /\ ini.pub = promised.ports[2]
             /\ ini.req \in Port /\ ini.pub \in Port /\ ini.req # ini.pub
    BY <1>1 DEF SInv, Kept
  <2>4. ASSUME promised.mode = "remote"
        PROVE  /\ Wanted(p, setting[p].req, DEFAULT_REQ)' = {promised.ports[1]}
               /\ Wanted(p, setting[p].pub, DEFAULT_PUB)' = {promised.ports[2]}
    <3>1. /\ ini.req # 0 /\ ini.req % PORTS = ini.req
          /\ ini.pub # 0 /\ ini.pub % PORTS = ini.pub
      BY <2>3, <2>4, PortKept
    <3>2. setting'[p].mode # "local"
      BY <2>2, <2>3, <2>4
    <3>3. QED BY <2>2, <2>3, <2>4, <3>1, <3>2 DEF Wanted, PortOf
  <2>5. QED BY <2>2, <2>3, <2>4
<1>2. SInv /\ [SettingsNext]_<<vars, settings>> =>
        \A p \in Process : Restarts(p) /\ promised # None =>
          /\ setting'[p].mode = promised.mode
          /\ promised.mode = "remote" =>
               /\ Wanted(p, setting[p].req, DEFAULT_REQ)' = {promised.ports[1]}
               /\ Wanted(p, setting[p].pub, DEFAULT_PUB)' = {promised.ports[2]}
               /\ promised.ports[1] # promised.ports[2]
  BY <1>1
<1>3. QED BY <1>2, Invariance, PTL DEF SettingsSpec, TakesEffect

-----------------------------------------------------------------------------
PubShown(configured) == IF configured = 0 THEN DEFAULT_PUB ELSE configured

(* An untouched dialog shows what the settings s it was opened on come to, *)
(* and its saving changes their spelling only.                             *)
Spelt(d, s) ==
  d.before # None =>
    /\ d.mode = d.before.mode
    /\ d.req = ReqShown(d.before.req) /\ d.pub = PubShown(d.before.pub)
    /\ s.mode = d.before.mode
    /\ s.req \in {d.before.req, d.req} /\ s.pub \in {d.before.pub, d.pub}

Untouched == \A p \in Process : dialog[p] # None => Spelt(dialog[p], store[p])

(* Confirming writes out a default that acquire_session would have filled  *)
(* in.                                                                     *)
LEMMA SamePort ==
  ASSUME NEW x \in Nat
  PROVE  /\ PortOf(ReqShown(x), DEFAULT_REQ) = PortOf(x, DEFAULT_REQ)
         /\ PortOf(PubShown(x), DEFAULT_PUB) = PortOf(x, DEFAULT_PUB)
BY SessionAssumption DEF PortOf, ReqShown, PubShown, Port

(* Steps that neither open, edit nor save the dialogs that stay open. *)
LEMMA OthersUntouched ==
  ASSUME SInv, Untouched,
         \A q \in Process : dialog'[q] # None => dialog'[q] = dialog[q] /\ store'[q] = store[q]
  PROVE  Untouched'
<1> SUFFICES ASSUME NEW q \in Process, dialog'[q] # None PROVE Spelt(dialog'[q], store'[q])
  BY DEF Untouched, Spelt, ReqShown, PubShown
<1>1. QED BY DEF Untouched

(* Those of one dialog. *)
LEMMA OneUntouched ==
  ASSUME SInv, Untouched, NEW p \in Process, NEW d, NEW s,
         dialog' = [dialog EXCEPT ![p] = d], store' = [store EXCEPT ![p] = s],
         d # None => Spelt(d, s)
  PROVE  Untouched'
<1>1. /\ dialog'[p] = d /\ store'[p] = s
      /\ \A q \in Process : q # p => dialog'[q] = dialog[q] /\ store'[q] = store[q]
  BY DEF SInv, Types
<1> SUFFICES ASSUME NEW q \in Process, dialog'[q] # None PROVE Spelt(dialog'[q], store'[q])
  BY DEF Untouched, Spelt, ReqShown, PubShown
<1>2. QED BY <1>1 DEF Untouched

LEMMA OpenUntouched ==
  ASSUME SInv, Untouched, NEW p \in Process, Open(p)
  PROVE  Untouched'
<1> DEFINE d == [ at |-> "open", mode |-> store[p].mode, filled |-> TRUE,
                  req |-> ReqShown(store[p].req),
                  pub |-> IF store[p].pub = 0 THEN DEFAULT_PUB ELSE store[p].pub,
                  before |-> store[p], disturbed |-> FALSE ]
<1>1. dialog' = [dialog EXCEPT ![p] = d] /\ store' = [store EXCEPT ![p] = store[p]]
  BY DEF Open, SInv, Types
<1>2. Spelt(d, store[p])
  BY DEF Spelt, PubShown
<1> HIDE DEF d
<1>3. QED BY <1>1, <1>2, OneUntouched

LEMMA EditUntouched ==
  ASSUME SInv, Untouched, NEW p \in Process, Edit(p)
  PROVE  Untouched'
<1>1. dialog[p] # None /\ store' = [store EXCEPT ![p] = store[p]]
  BY DEF Edit, At, SInv, Types
<1>2. dialog[p] \in DialogRecord
  BY <1>1, OpenDialog
<1>3. \E d : d.before = None /\ dialog' = [dialog EXCEPT ![p] = d]
  <2>1. CASE \E mode \in {"local", "remote"} :
               dialog' = [dialog EXCEPT ![p].mode = mode, ![p].before = None]
    <3>1. PICK mode \in {"local", "remote"} :
            dialog' = [dialog EXCEPT ![p].mode = mode, ![p].before = None]
      BY <2>1
    <3> DEFINE d == [dialog[p] EXCEPT !.mode = mode, !.before = None]
    <3>2. d.before = None /\ dialog' = [dialog EXCEPT ![p] = d]
      BY <1>2, <3>1 DEF DialogRecord, SInv, Types
    <3>3. QED BY <3>2
  <2>2. CASE \E req, pub \in Number, filled \in BOOLEAN :
               dialog' = [dialog EXCEPT ![p].req = req, ![p].pub = pub,
                                        ![p].filled = filled, ![p].before = None]
    <3>1. PICK req \in Number, pub \in Number, filled \in BOOLEAN :
            dialog' = [dialog EXCEPT ![p].req = req, ![p].pub = pub,
                                     ![p].filled = filled, ![p].before = None]
      BY <2>2
    <3> DEFINE d == [dialog[p] EXCEPT !.req = req, !.pub = pub, !.filled = filled,
                                      !.before = None]
    <3>2. d.before = None /\ dialog' = [dialog EXCEPT ![p] = d]
      BY <1>2, <3>1 DEF DialogRecord, SInv, Types
    <3>3. QED BY <3>2
  <2>3. QED BY <2>1, <2>2 DEF Edit
<1>4. QED BY <1>1, <1>3, OneUntouched DEF Spelt

LEMMA OkUntouched ==
  ASSUME SInv, Untouched, NEW p \in Process, Ok(p)
  PROVE  Untouched'
<1>1. PICK key \in {"mode", "req", "pub"}, next \in {"req", "pub", "flush"} : Save(p, key, next)
  BY DEF Ok
<1>2. dialog[p] # None
  BY DEF Ok, At
<1>3. dialog[p] \in DialogRecord /\ store[p] \in Record /\ Spelt(dialog[p], store[p])
  BY <1>2, OpenDialog DEF Untouched
<1> DEFINE d == [dialog[p] EXCEPT !.at = next]
           s == [store[p] EXCEPT ![key] = dialog[p][key]]
<1>4. dialog' = [dialog EXCEPT ![p] = d] /\ store' = [store EXCEPT ![p] = s]
  BY <1>1 DEF Save, SInv, Types
<1>5. Spelt(d, s)
  BY <1>3 DEF Spelt, DialogRecord, Record
<1> HIDE DEF d, s
<1>6. QED BY <1>4, <1>5, OneUntouched

LEMMA ClientUntouched ==
  ASSUME SInv, Untouched, NEW p \in Process, ClientWrites(p)
  PROVE  Untouched'
<1>1. \E s : store' = [store EXCEPT ![p] = s]
  <2>1. PICK key \in {"mode", "req", "pub"} : \E value \in {t[key] : t \in Setting} :
          store' = [store EXCEPT ![p][key] = value]
    BY DEF ClientWrites
  <2>2. PICK value : store' = [store EXCEPT ![p][key] = value]
    BY <2>1
  <2> DEFINE s == [store[p] EXCEPT ![key] = value]
  <2>3. store' = [store EXCEPT ![p] = s]
    BY <2>2 DEF SInv, Types
  <2>4. QED BY <2>3
<1>2. CASE dialog[p] = None
  <2>1. dialog' = [dialog EXCEPT ![p] = None]
    BY <1>2 DEF ClientWrites, SInv, Types
  <2>2. QED BY <1>1, <2>1, OneUntouched
<1>3. CASE dialog[p] # None
  <2> DEFINE d == [dialog[p] EXCEPT !.before = None, !.disturbed = ~ At(p, "open")]
  <2>1. dialog' = [dialog EXCEPT ![p] = d]
    BY <1>3 DEF ClientWrites, SInv, Types
  <2>2. d.before = None
    BY <1>3, OpenDialog DEF DialogRecord
  <2> HIDE DEF d
  <2>3. QED BY <1>1, <2>1, <2>2, OneUntouched DEF Spelt
<1>4. QED BY <1>2, <1>3

(* The dialog of a process that dies, exits, loads or leaves its session   *)
(* is closed, as is a cancelled or confirmed one.                          *)
LEMMA RestUntouched ==
  ASSUME SInv, Untouched, NEW p \in Process,
         Load(p) \/ SessionStep(p) \/ Flush(p) \/ Cancel(p) \/ Exit(p) \/ Die(p)
  PROVE  Untouched'
<1>1. CASE Load(p)
  <2>1. /\ pc[p] = "none" /\ dialog' = dialog
        /\ store' = [store EXCEPT ![p] = IF @ = None THEN ini ELSE @]
    BY <1>1 DEF Load, Start
  <2>2. dialog[p] = None
    BY <2>1 DEF SInv, Types
  <2>3. QED BY <2>1, <2>2, OthersUntouched DEF SInv, Types
<1>2. CASE SessionStep(p)
  BY <1>2, OthersUntouched DEF SessionStep, settings
<1>3. CASE Flush(p) \/ Cancel(p)
  <2>1. dialog' = [dialog EXCEPT ![p] = None] /\ store' = store
    BY <1>3 DEF Flush, Cancel
  <2>2. QED BY <2>1, OthersUntouched DEF SInv, Types
<1>4. CASE Exit(p)
  <2>1. /\ pc[p] = "none" /\ dialog' = dialog /\ store' = [store EXCEPT ![p] = None]
    BY <1>4 DEF Exit
  <2>2. dialog[p] = None
    BY <2>1 DEF SInv, Types
  <2>3. QED BY <2>1, <2>2, OthersUntouched DEF SInv, Types
<1>5. CASE Die(p)
  <2>1. dialog' = [dialog EXCEPT ![p] = None] /\ store' = [store EXCEPT ![p] = None]
    BY <1>5 DEF Die
  <2>2. QED BY <2>1, OthersUntouched DEF SInv, Types
<1>6. QED BY <1>1, <1>2, <1>3, <1>4, <1>5

LEMMA UntouchedAlways == SettingsSpec => []Untouched
<1>1. SettingsInit => Untouched
  BY DEF SettingsInit, Untouched
<1>2. SInv /\ Untouched /\ [SettingsNext]_<<vars, settings>> => Untouched'
  <2> SUFFICES ASSUME SInv, Untouched, [SettingsNext]_<<vars, settings>> PROVE Untouched'
    OBVIOUS
  <2>1. ASSUME NEW p \in Process, Dialog(p) PROVE Untouched'
    BY <2>1, OpenUntouched, EditUntouched, OkUntouched, RestUntouched DEF Dialog
  <2>2. ASSUME NEW p \in Process,
               Load(p) \/ SessionStep(p) \/ ClientWrites(p) \/ Exit(p) \/ Die(p)
        PROVE  Untouched'
    BY <2>2, ClientUntouched, RestUntouched
  <2>3. CASE UNCHANGED settings
    BY <2>3, OthersUntouched DEF settings
  <2>4. QED BY <2>1, <2>2, <2>3 DEF SettingsNext
<1>3. QED BY <1>1, <1>2, Invariance, PTL DEF SettingsSpec

(* Confirming an untouched dialog writes the defaults down, and so changes *)
(* the settings, but not the ports that the next session asks for.         *)
THEOREM Confirming == SettingsSpec => OkKeepsPorts
<1>1. ASSUME SInv, Untouched, [SettingsNext]_<<vars, settings>>, NEW p \in Process,
             Flush(p), dialog[p].before # None
      PROVE  Ports(ini') = Ports(dialog[p].before)
  <2>1. dialog[p] # None
    BY <1>1 DEF Flush, At
  <2>2. dialog[p] \in DialogRecord /\ Saved(dialog[p], store[p]) /\ Spelt(dialog[p], store[p])
    BY <1>1, <2>1, OpenDialog DEF Untouched
  <2>3. ini' = store[p]
    BY <1>1 DEF Flush
  <2>4. dialog[p].before \in Record
    BY <1>1, <2>2 DEF DialogRecord
  <2>5. CASE dialog[p].mode = "local"
    BY <1>1, <2>2, <2>3, <2>5 DEF Spelt, Ports
  <2>6. CASE dialog[p].mode # "local"
    <3>1. /\ store[p].req \in {dialog[p].before.req, ReqShown(dialog[p].before.req)}
          /\ store[p].pub \in {dialog[p].before.pub, PubShown(dialog[p].before.pub)}
          /\ store[p].mode = dialog[p].before.mode
      BY <1>1, <2>2 DEF Spelt
    <3>2. /\ PortOf(store[p].req, DEFAULT_REQ) = PortOf(dialog[p].before.req, DEFAULT_REQ)
          /\ PortOf(store[p].pub, DEFAULT_PUB) = PortOf(dialog[p].before.pub, DEFAULT_PUB)
      BY <2>4, <3>1, SamePort DEF Record
    <3>3. QED BY <2>3, <3>1, <3>2 DEF Ports
  <2>7. QED BY <2>5, <2>6
<1>2. SInv /\ Untouched /\ [SettingsNext]_<<vars, settings>> =>
        \A p \in Process :
          Flush(p) /\ dialog[p].before # None
            => Ports(ini') = Ports(dialog[p].before)
  BY <1>1
<1>3. QED BY <1>2, Invariance, UntouchedAlways, PTL DEF SettingsSpec, OkKeepsPorts
=============================================================================
