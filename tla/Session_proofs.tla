---------------------------- MODULE Session_proofs ----------------------------
(***************************************************************************)
(* Proofs about module Session, for any number of processes and ports, any *)
(* settings, and crashes and competing programs at any step.               *)
(***************************************************************************)
EXTENDS Session, TLAPS, SequenceTheorems

(* Sockets have ports of their own. *)
OwnPorts ==
  /\ \A p \in Process : rep_at[p] = pub_at[p] => rep_at[p] = None
  /\ \A p, q \in Process : p # q =>
       /\ rep_at[p] = rep_at[q] => rep_at[p] = None
       /\ pub_at[p] = pub_at[q] => pub_at[p] = None
       /\ rep_at[p] = pub_at[q] => rep_at[p] = None

(* What acquire_session has achieved by the time it gets to each step. *)
RepBound(p) ==
  /\ rep_at[p] # None
  /\ sess_req_rep_port[p] = KnownRep(p)
  /\ sess_req_rep_port[p] \in Wanted(p, setting[p].req, DEFAULT_REQ)

PubBound(p) ==
  /\ pub_at[p] # None
  /\ sess_pub_sub_port[p] = KnownPub(p)
  /\ sess_pub_sub_port[p] \in Wanted(p, setting[p].pub, DEFAULT_PUB)

(* What its file may hold before the third line is written. *)
Begun(p) == {<< >>, <<sess_req_rep_port[p]>>, <<sess_req_rep_port[p], sess_pub_sub_port[p]>>}

Progress ==
  \A p \in Process :
    /\ pc[p] # "none" => setting[p] \in Setting
    /\ pc[p] \in {"bind_pub", "open_file", "write_file", "running"} => RepBound(p)
    /\ pc[p] \in {"open_file", "write_file", "running"} => PubBound(p)
    /\ pc[p] = "write_file" => file[p] \in Begun(p)
    /\ pc[p] = "running" =>
         IF p \in cut_short THEN file[p] \in Begun(p) ELSE file[p] = Lines(p)
    /\ p \in cut_short => pc[p] \in {"running", "close_pub", "remove_file"}

(* Without an unclean end behind it, a pid has a file only from the time   *)
(* its process opens it to the time it removes it.                         *)
FileLifetime ==
  \A p \in Process :
    file[p] # None =>
      p \in unclean \/ pc[p] \in {"write_file", "running", "close_pub", "remove_file"}

IInv == TypeOK /\ OwnPorts /\ Progress /\ FileLifetime

-----------------------------------------------------------------------------
(* The lines of a session file as they are written. *)
LEMMA LinesOfTheFile ==
  ASSUME NEW S, NEW r \in S, NEW s \in S, NEW a \in S
  PROVE  /\ << >> \in Seq(S) /\ <<r>> \in Seq(S) /\ <<r, s>> \in Seq(S) /\ <<r, s, a>> \in Seq(S)
         /\ Len(<< >>) = 0 /\ Len(<<r>>) = 1 /\ Len(<<r, s>>) = 2 /\ Len(<<r, s, a>>) = 3
         /\ Append(<< >>, r) = <<r>>
         /\ Append(<<r>>, s) = <<r, s>>
         /\ Append(<<r, s>>, a) = <<r, s, a>>
<1>1. /\ << >> \in Seq(S) /\ Len(<< >>) = 0
  BY EmptySeq
<1>2. <<r>> \in Seq(S) /\ Len(<<r>>) = 1 /\ <<r>>[1] = r
  OBVIOUS
<1>3. <<r, s>> \in Seq(S) /\ Len(<<r, s>>) = 2 /\ <<r, s>>[1] = r /\ <<r, s>>[2] = s
  OBVIOUS
<1>4. /\ <<r, s, a>> \in Seq(S) /\ Len(<<r, s, a>>) = 3
      /\ <<r, s, a>>[1] = r /\ <<r, s, a>>[2] = s /\ <<r, s, a>>[3] = a
  OBVIOUS
<1>5. 1 .. 1 = {1} /\ 1 .. 2 = {1, 2} /\ 1 .. 3 = {1, 2, 3}
  OBVIOUS
<1>6. Append(<< >>, r) = <<r>>
  <2>1. Append(<< >>, r) \in Seq(S) /\ Len(Append(<< >>, r)) = 1 /\ Append(<< >>, r)[1] = r
    BY <1>1, AppendProperties
  <2>2. QED BY <1>2, <1>5, <2>1, SeqEqual
<1>7. Append(<<r>>, s) = <<r, s>>
  <2>1. /\ Append(<<r>>, s) \in Seq(S) /\ Len(Append(<<r>>, s)) = 2
        /\ Append(<<r>>, s)[1] = r /\ Append(<<r>>, s)[2] = s
    BY <1>2, AppendProperties
  <2>2. QED BY <1>3, <1>5, <2>1, SeqEqual
<1>8. Append(<<r, s>>, a) = <<r, s, a>>
  <2>1. /\ Append(<<r, s>>, a) \in Seq(S) /\ Len(Append(<<r, s>>, a)) = 3
        /\ Append(<<r, s>>, a)[1] = r /\ Append(<<r, s>>, a)[2] = s
        /\ Append(<<r, s>>, a)[3] = a
    BY <1>3, AppendProperties
  <2>2. QED BY <1>4, <1>5, <2>1, SeqEqual
<1>9. QED BY <1>1, <1>2, <1>3, <1>4, <1>6, <1>7, <1>8

(* The lines of a session's file differ in their number. *)
LEMMA BegunIsShort ==
  ASSUME IInv, NEW p \in Process
  PROVE  /\ \A f \in Begun(p) : Len(f) \in 0 .. 2 /\ Len(f) # 3
         /\ Len(Lines(p)) = 3
         /\ Begun(p) \cup {Lines(p)} \subseteq Seq((0 .. PORTS - 1) \cup {Address})
<1>1. /\ sess_req_rep_port[p] \in (0 .. PORTS - 1) \cup {Address}
      /\ sess_pub_sub_port[p] \in (0 .. PORTS - 1) \cup {Address}
  BY DEF IInv, TypeOK
<1>2. QED BY <1>1, LinesOfTheFile DEF Begun, Lines

LEMMA InitInvariant == Init => IInv
<1> SUFFICES ASSUME Init PROVE IInv
  OBVIOUS
<1>1. PORTS \in Nat \ {0}
  BY SessionAssumption
<1>2. TypeOK
  BY <1>1 DEF Init, TypeOK
<1>3. OwnPorts /\ Progress /\ FileLifetime
  BY DEF Init, OwnPorts, Progress, FileLifetime
<1>4. QED BY <1>2, <1>3 DEF IInv

(* A configured port, cast to its width, is a uint16_t. *)
LEMMA WantedIsAPort ==
  ASSUME TypeOK, NEW p \in Process, setting[p] \in Setting
  PROVE  /\ Wanted(p, setting[p].req, DEFAULT_REQ) \subseteq 0 .. PORTS - 1
         /\ Wanted(p, setting[p].pub, DEFAULT_PUB) \subseteq 0 .. PORTS - 1
<1>1. /\ PORTS \in Nat \ {0}
      /\ Dynamic \subseteq 1 .. PORTS - 1
      /\ DEFAULT_REQ \in Nat /\ DEFAULT_PUB \in Nat
      /\ setting[p].req \in Nat /\ setting[p].pub \in Nat
  BY SessionAssumption DEF Port
<1>2. \A n \in Nat : n % PORTS \in 0 .. PORTS - 1
  BY <1>1
<1>3. 1 .. PORTS - 1 \subseteq 0 .. PORTS - 1
  BY <1>1
<1>4. ASSUME NEW configured \in Nat, NEW default \in Nat
      PROVE  Wanted(p, configured, default) \subseteq 0 .. PORTS - 1
  <2>1. (IF configured = 0 THEN default ELSE configured) \in Nat
    OBVIOUS
  <2>2. (IF configured = 0 THEN default ELSE configured) % PORTS \in 0 .. PORTS - 1
    BY <1>2, <2>1
  <2>3. Dynamic \subseteq 0 .. PORTS - 1
    BY <1>1, <1>3
  <2>4. QED BY <2>2, <2>3 DEF Wanted, Draws, PortOf
<1>5. QED BY <1>1, <1>4

(* The server takes 0 for its port exactly when the cast gives 0. *)
LEMMA WantedIsKnown ==
  ASSUME NEW p \in Process, setting[p] \in Setting,
         NEW configured \in Nat, NEW default \in Port,
         NEW wanted \in Wanted(p, configured, default)
  PROVE  wanted = 0 <=> CastToZero(p, configured)
<1>1. PORTS \in Nat \ {0} /\ Dynamic \subseteq Port /\ 0 \notin Port
  BY SessionAssumption DEF Port
<1>2. default \in Nat /\ default % PORTS = default /\ default # 0
  BY <1>1 DEF Port
<1>3. CASE setting[p].mode = "local"
  BY <1>1, <1>3 DEF Wanted, Draws, CastToZero
<1>4. CASE setting[p].mode # "local"
  <2>1. setting[p].mode = "remote"
    BY <1>4, SessionAssumption
  <2>2. wanted = (IF configured = 0 THEN default ELSE configured) % PORTS
    BY <1>4 DEF Wanted, PortOf
  <2>3. CASE configured = 0
    BY <1>2, <2>2, <2>3 DEF CastToZero
  <2>4. CASE configured # 0
    BY <2>1, <2>2, <2>4 DEF CastToZero
  <2>5. QED BY <2>3, <2>4
<1>5. QED BY <1>3, <1>4

LEMMA BoundPortIsFree ==
  ASSUME NEW p \in Process, setting[p] \in Setting,
         NEW configured \in Nat, NEW default \in Port,
         NEW wanted \in Wanted(p, configured, default), NEW port \in Bindable(wanted)
  PROVE  /\ port \in Port /\ port # None /\ port \notin InUse
         /\ wanted = Known(p, configured, port)
<1>1. PORTS \in Nat \ {0} /\ Dynamic \subseteq Port /\ None \notin Nat
  BY SessionAssumption
<1>2. wanted \in 0 .. PORTS - 1
  <2>1. \A n \in Nat : n % PORTS \in 0 .. PORTS - 1
    BY <1>1
  <2>2. (IF configured = 0 THEN default ELSE configured) \in Nat
    BY DEF Port
  <2>3. PortOf(configured, default) \in 0 .. PORTS - 1
    BY <2>1, <2>2 DEF PortOf
  <2>4. Port \subseteq 0 .. PORTS - 1
    BY <1>1 DEF Port
  <2>5. QED BY <1>1, <2>3, <2>4 DEF Wanted, Draws
<1>3. IF wanted = 0 THEN port \in Dynamic ELSE port = wanted
  BY DEF Bindable
<1>4. port \in Port /\ port # None /\ port \notin InUse
  BY <1>1, <1>2, <1>3 DEF Bindable, Port
<1>5. QED BY <1>3, <1>4, WantedIsKnown DEF Known

LEMMA ConfiguredIsNat ==
  ASSUME NEW p \in Process, setting[p] \in Setting
  PROVE  /\ setting[p].req \in Nat /\ setting[p].pub \in Nat
         /\ DEFAULT_REQ \in Port /\ DEFAULT_PUB \in Port
BY SessionAssumption

-----------------------------------------------------------------------------
LEMMA BindRepInvariant ==
  ASSUME IInv, NEW p \in Process, BindRep(p)
  PROVE  IInv'
<1>1. /\ pc[p] = "bind_rep" /\ setting[p] \in Setting
      /\ pc' = [pc EXCEPT ![p] = "bind_pub"]
      /\ UNCHANGED <<setting, sess_pub_sub_port, pub_at, busy, file, unclean, cut_short>>
  BY DEF BindRep, Goto, IInv, Progress, histories
<1>2. PICK wanted \in Wanted(p, setting[p].req, DEFAULT_REQ) :
        /\ sess_req_rep_port' = [sess_req_rep_port EXCEPT ![p] = wanted]
        /\ \E port \in Bindable(wanted) : rep_at' = [rep_at EXCEPT ![p] = port]
  BY DEF BindRep
<1>3. PICK port \in Bindable(wanted) : rep_at' = [rep_at EXCEPT ![p] = port]
  BY <1>2
<1>4. wanted \in 0 .. PORTS - 1
  BY <1>1, WantedIsAPort DEF IInv
<1>5. /\ port \in Port /\ port # None /\ port \notin InUse
      /\ wanted = Known(p, setting[p].req, port)
  BY <1>1, ConfiguredIsNat, BoundPortIsFree
<1>6. TypeOK'
  BY <1>1, <1>2, <1>3, <1>4, <1>5 DEF IInv, TypeOK
<1>7. OwnPorts'
  <2>1. \A q \in Process : rep_at[q] # port /\ pub_at[q] # port
    BY <1>5 DEF InUse
  <2>2. QED BY <1>1, <1>3, <2>1 DEF IInv, TypeOK, OwnPorts
<1>8. Progress'
  BY <1>1, <1>2, <1>3, <1>5 DEF IInv, TypeOK, Progress, RepBound, PubBound, Wanted, Draws, PortOf,
                                     KnownRep, KnownPub, Known, CastToZero, Begun, Lines
<1>9. FileLifetime'
  BY <1>1 DEF IInv, TypeOK, FileLifetime
<1>10. QED BY <1>6, <1>7, <1>8, <1>9 DEF IInv

LEMMA BindPubInvariant ==
  ASSUME IInv, NEW p \in Process, BindPub(p)
  PROVE  IInv'
<1>1. /\ pc[p] = "bind_pub" /\ setting[p] \in Setting /\ RepBound(p)
      /\ pc' = [pc EXCEPT ![p] = "open_file"]
      /\ UNCHANGED <<setting, sess_req_rep_port, rep_at, busy, file, unclean, cut_short>>
  BY DEF BindPub, Goto, IInv, Progress, histories
<1>2. PICK wanted \in Wanted(p, setting[p].pub, DEFAULT_PUB) :
        /\ sess_pub_sub_port' = [sess_pub_sub_port EXCEPT ![p] = wanted]
        /\ \E port \in Bindable(wanted) : pub_at' = [pub_at EXCEPT ![p] = port]
  BY DEF BindPub
<1>3. PICK port \in Bindable(wanted) : pub_at' = [pub_at EXCEPT ![p] = port]
  BY <1>2
<1>4. wanted \in 0 .. PORTS - 1
  BY <1>1, WantedIsAPort DEF IInv
<1>5. /\ port \in Port /\ port # None /\ port \notin InUse
      /\ wanted = Known(p, setting[p].pub, port)
  BY <1>1, ConfiguredIsNat, BoundPortIsFree
<1>6. TypeOK'
  BY <1>1, <1>2, <1>3, <1>4, <1>5 DEF IInv, TypeOK
<1>7. OwnPorts'
  <2>1. \A q \in Process : rep_at[q] # port /\ pub_at[q] # port
    BY <1>5 DEF InUse
  <2>2. QED BY <1>1, <1>3, <2>1 DEF IInv, TypeOK, OwnPorts
<1>8. Progress'
  BY <1>1, <1>2, <1>3, <1>5 DEF IInv, TypeOK, Progress, RepBound, PubBound, Wanted, Draws, PortOf,
                                     KnownRep, KnownPub, Known, CastToZero, Begun, Lines
<1>9. FileLifetime'
  BY <1>1 DEF IInv, TypeOK, FileLifetime
<1>10. QED BY <1>6, <1>7, <1>8, <1>9 DEF IInv

LEMMA BindThrowsInvariant ==
  ASSUME IInv, NEW p \in Process, BindThrows(p)
  PROVE  IInv'
<1>1. /\ pc[p] \in {"bind_rep", "bind_pub"}
      /\ UNCHANGED <<setting, sessionPorts, file, unclean, cut_short>>
  BY DEF BindThrows, histories
<1>2. CASE UNCHANGED <<pc, sockets, busy>>
  BY <1>1, <1>2 DEF IInv, TypeOK, OwnPorts, Progress, FileLifetime, RepBound, PubBound,
                    Wanted, sessionPorts, sockets, KnownRep, KnownPub, Known, CastToZero,
                    Begun, Lines
<1>3. CASE /\ pc' = [pc EXCEPT ![p] = "failed"]
           /\ rep_at' = [rep_at EXCEPT ![p] = None]
           /\ pub_at' = [pub_at EXCEPT ![p] = None]
           /\ busy' = busy \cup Closed(p)
  <2>1. TypeOK'
    BY <1>1, <1>3 DEF IInv, TypeOK, Closed, sessionPorts
  <2>2. OwnPorts'
    BY <1>3 DEF IInv, TypeOK, OwnPorts
  <2>3. Progress'
    BY <1>1, <1>3 DEF IInv, TypeOK, Progress, RepBound, PubBound, Wanted, sessionPorts,
                      KnownRep, KnownPub, Known, CastToZero, Begun, Lines
  <2>4. FileLifetime'
    BY <1>1, <1>3 DEF IInv, TypeOK, FileLifetime
  <2>5. QED BY <2>1, <2>2, <2>3, <2>4 DEF IInv
<1>4. QED BY <1>2, <1>3 DEF BindThrows, Goto

LEMMA OpenFileInvariant ==
  ASSUME IInv, NEW p \in Process, OpenFile(p)
  PROVE  IInv'
<1>1. /\ pc[p] = "open_file"
      /\ \/ pc' = [pc EXCEPT ![p] = "write_file"] /\ file' = [file EXCEPT ![p] = << >>]
         \/ pc' = [pc EXCEPT ![p] = "failed"] /\ file' = file
      /\ UNCHANGED <<setting, sessionPorts, sockets, busy, unclean, cut_short>>
  BY DEF OpenFile, Opened, Goto, histories
<1>2. << >> \in Seq((0 .. PORTS - 1) \cup {Address})
  OBVIOUS
<1>3. TypeOK'
  <2>1. pc' \in [Process -> {"none", "bind_rep", "bind_pub", "open_file", "write_file",
                             "running", "failed", "close_pub", "remove_file"}]
    BY <1>1 DEF IInv, TypeOK
  <2>2. file' \in [Process -> Seq((0 .. PORTS - 1) \cup {Address}) \cup {None}]
    BY <1>1, <1>2 DEF IInv, TypeOK
  <2>3. UNCHANGED <<setting, sess_req_rep_port, sess_pub_sub_port, rep_at, pub_at, busy, unclean, cut_short>>
    BY <1>1 DEF sessionPorts, sockets
  <2>4. QED BY <2>1, <2>2, <2>3 DEF IInv, TypeOK
<1>4. OwnPorts'
  BY <1>1 DEF IInv, OwnPorts, sockets
<1>5. Progress'
  <2>1. ASSUME NEW q \in Process, q # p
        PROVE  pc'[q] = pc[q] /\ file'[q] = file[q]
    BY <1>1, <2>1 DEF IInv, TypeOK
  <2>2. \/ pc'[p] = "write_file" /\ file'[p] = << >>
        \/ pc'[p] = "failed"
    BY <1>1 DEF IInv, TypeOK
  <2>3. UNCHANGED <<setting, sess_req_rep_port, sess_pub_sub_port, rep_at, pub_at>>
    BY <1>1 DEF sessionPorts, sockets
  <2>4. ASSUME NEW q \in Process
        PROVE  (RepBound(q) => RepBound(q)') /\ (PubBound(q) => PubBound(q)')
    BY <2>3 DEF RepBound, PubBound, Wanted, Draws, PortOf, KnownRep, KnownPub, Known, CastToZero
  <2>5. Begun(p)' = Begun(p) /\ << >> \in Begun(p)
    BY <2>3 DEF Begun
  <2>6. ASSUME NEW q \in Process
        PROVE  Begun(q)' = Begun(q) /\ Lines(q)' = Lines(q)
    BY <2>3 DEF Begun, Lines
  <2>7. p \notin cut_short
    BY <1>1 DEF IInv, Progress
  <2>8. QED BY <1>1, <2>1, <2>2, <2>3, <2>4, <2>5, <2>6, <2>7 DEF IInv, Progress
<1>6. FileLifetime'
  BY <1>1 DEF IInv, TypeOK, Progress, FileLifetime
<1>7. QED BY <1>3, <1>4, <1>5, <1>6 DEF IInv

(* Writing a line lengthens a file that is not whole, or ends the writing. *)
LEMMA LineWritten ==
  ASSUME IInv, NEW p \in Process, WriteLine(p)
  PROVE  /\ pc[p] = "write_file" /\ RepBound(p) /\ PubBound(p) /\ p \notin cut_short
         /\ file[p] \in Begun(p)
         /\ UNCHANGED <<setting, sess_req_rep_port, sess_pub_sub_port, rep_at, pub_at, busy, unclean>>
         /\ \/ /\ pc' = pc /\ cut_short' = cut_short
               /\ \E f \in Begun(p) : file' = [file EXCEPT ![p] = f]
            \/ /\ pc' = [pc EXCEPT ![p] = "running"] /\ cut_short' = cut_short
               /\ file' = [file EXCEPT ![p] = Lines(p)]
            \/ /\ pc' = [pc EXCEPT ![p] = "running"] /\ cut_short' = cut_short \cup {p}
               /\ file' = file
<1> DEFINE r == sess_req_rep_port[p]
           s == sess_pub_sub_port[p]
<1>1. /\ pc[p] = "write_file" /\ RepBound(p) /\ PubBound(p) /\ p \notin cut_short
      /\ file[p] \in Begun(p)
      /\ UNCHANGED <<setting, sess_req_rep_port, sess_pub_sub_port, rep_at, pub_at, busy, unclean>>
  BY DEF WriteLine, IInv, Progress, sessionPorts, sockets
<1>2. /\ Len(<< >>) = 0 /\ Len(<<r>>) = 1 /\ Len(<<r, s>>) = 2
      /\ Append(<< >>, r) = <<r>>
      /\ Append(<<r>>, s) = <<r, s>>
      /\ Append(<<r, s>>, Address) = Lines(p)
  <2>1. r \in (0 .. PORTS - 1) \cup {Address} /\ s \in (0 .. PORTS - 1) \cup {Address}
    BY DEF IInv, TypeOK, r, s
  <2> DEFINE S == (0 .. PORTS - 1) \cup {Address}
  <2>2. r \in S /\ s \in S /\ Address \in S
    BY <2>1
  <2> HIDE DEF S
  <2>3. /\ Len(<< >>) = 0 /\ Len(<<r>>) = 1 /\ Len(<<r, s>>) = 2
        /\ Append(<< >>, r) = <<r>>
        /\ Append(<<r>>, s) = <<r, s>>
        /\ Append(<<r, s>>, Address) = <<r, s, Address>>
    BY <2>2, LinesOfTheFile
  <2>4. QED BY <2>3 DEF Lines
<1>3. Lines(p)[1] = r /\ Lines(p)[2] = s /\ Lines(p)[3] = Address
  BY DEF Lines
<1>4. Begun(p) = {<< >>, <<r>>, <<r, s>>}
  BY DEF Begun
<1>5. CASE Goto(p, "running") /\ cut_short' = cut_short \cup {p} /\ file' = file
  BY <1>1, <1>5 DEF Goto
<1>6. ASSUME NEW n \in 1 .. 3, Len(file[p]) = n - 1,
             file' = [file EXCEPT ![p] = Append(@, Lines(p)[n])],
             IF n = 3 THEN Goto(p, "running") ELSE UNCHANGED pc,
             UNCHANGED cut_short
      PROVE  \/ /\ pc' = pc /\ cut_short' = cut_short
                /\ \E f \in Begun(p) : file' = [file EXCEPT ![p] = f]
             \/ /\ pc' = [pc EXCEPT ![p] = "running"] /\ cut_short' = cut_short
                /\ file' = [file EXCEPT ![p] = Lines(p)]
  <2> HIDE DEF r, s
  <2>1. CASE n = 1
    <3>1. file[p] = << >>
      BY <1>1, <1>2, <1>4, <1>6, <2>1
    <3>2. file' = [file EXCEPT ![p] = <<r>>]
      BY <1>2, <1>3, <1>6, <2>1, <3>1
    <3>3. pc' = pc /\ cut_short' = cut_short /\ <<r>> \in Begun(p)
      BY <1>4, <1>6, <2>1
    <3>4. QED BY <3>2, <3>3
  <2>2. CASE n = 2
    <3>1. file[p] = <<r>>
      BY <1>1, <1>2, <1>4, <1>6, <2>2
    <3>2. file' = [file EXCEPT ![p] = <<r, s>>]
      BY <1>2, <1>3, <1>6, <2>2, <3>1
    <3>3. pc' = pc /\ cut_short' = cut_short /\ <<r, s>> \in Begun(p)
      BY <1>4, <1>6, <2>2
    <3>4. QED BY <3>2, <3>3
  <2>3. CASE n = 3
    <3>1. file[p] = <<r, s>>
      BY <1>1, <1>2, <1>4, <1>6, <2>3
    <3>2. file' = [file EXCEPT ![p] = Lines(p)]
      BY <1>2, <1>3, <1>6, <2>3, <3>1
    <3>3. QED BY <1>6, <2>3, <3>2 DEF Goto
  <2>4. n = 1 \/ n = 2 \/ n = 3
    OBVIOUS
  <2>5. QED BY <2>1, <2>2, <2>3, <2>4
<1>7. QED BY <1>1, <1>5, <1>6 DEF WriteLine

LEMMA WriteLineInvariant ==
  ASSUME IInv, NEW p \in Process, WriteLine(p)
  PROVE  IInv'
<1>1. /\ pc[p] = "write_file" /\ RepBound(p) /\ PubBound(p) /\ p \notin cut_short
      /\ file[p] \in Begun(p)
      /\ UNCHANGED <<setting, sess_req_rep_port, sess_pub_sub_port, rep_at, pub_at, busy, unclean>>
  BY LineWritten
<1>2. /\ pc' = pc \/ pc' = [pc EXCEPT ![p] = "running"]
      /\ cut_short' = cut_short \/ cut_short' = cut_short \cup {p}
      /\ \E f \in Begun(p) \cup {Lines(p)} : file' = [file EXCEPT ![p] = f]
  <2>1. file = [file EXCEPT ![p] = file[p]]
    BY DEF IInv, TypeOK
  <2>2. QED BY <1>1, <2>1, LineWritten
<1>3. TypeOK'
  <2>1. pc' \in [Process -> {"none", "bind_rep", "bind_pub", "open_file", "write_file",
                             "running", "failed", "close_pub", "remove_file"}]
    BY <1>2 DEF IInv, TypeOK
  <2>2. file' \in [Process -> Seq((0 .. PORTS - 1) \cup {Address}) \cup {None}]
    BY <1>2, BegunIsShort DEF IInv, TypeOK
  <2>3. cut_short' \subseteq Process
    BY <1>2 DEF IInv, TypeOK
  <2>4. QED BY <1>1, <2>1, <2>2, <2>3 DEF IInv, TypeOK
<1>4. OwnPorts'
  BY <1>1 DEF IInv, OwnPorts
<1>5. Progress'
  <2>1. ASSUME NEW q \in Process, q # p
        PROVE  /\ pc'[q] = pc[q] /\ file'[q] = file[q]
               /\ q \in cut_short' <=> q \in cut_short
    BY <1>2, <2>1 DEF IInv, TypeOK
  <2>2. \/ pc'[p] = "write_file" /\ file'[p] \in Begun(p) /\ p \notin cut_short'
        \/ pc'[p] = "running" /\ file'[p] = Lines(p) /\ p \notin cut_short'
        \/ pc'[p] = "running" /\ file'[p] \in Begun(p) /\ p \in cut_short'
    BY <1>1, LineWritten DEF IInv, TypeOK
  <2>3. ASSUME NEW q \in Process
        PROVE  (RepBound(q) => RepBound(q)') /\ (PubBound(q) => PubBound(q)')
    BY <1>1 DEF RepBound, PubBound, Wanted, Draws, PortOf, KnownRep, KnownPub, Known, CastToZero
  <2>4. ASSUME NEW q \in Process
        PROVE  Begun(q)' = Begun(q) /\ Lines(q)' = Lines(q)
    BY <1>1 DEF Begun, Lines
  <2>5. ASSUME NEW q \in Process
        PROVE  /\ pc'[q] # "none" => setting'[q] \in Setting
               /\ pc'[q] \in {"bind_pub", "open_file", "write_file", "running"} => RepBound(q)'
               /\ pc'[q] \in {"open_file", "write_file", "running"} => PubBound(q)'
               /\ pc'[q] = "write_file" => file'[q] \in Begun(q)
               /\ pc'[q] = "running" =>
                    IF q \in cut_short' THEN file'[q] \in Begun(q) ELSE file'[q] = Lines(q)
               /\ q \in cut_short' => pc'[q] \in {"running", "close_pub", "remove_file"}
    <3>1. CASE q = p
      BY <1>1, <2>2, <2>3, <3>1 DEF IInv, Progress
    <3>2. CASE q # p
      BY <1>1, <2>1, <2>3, <3>2 DEF IInv, Progress
    <3>3. QED BY <3>1, <3>2
  <2>6. QED BY <2>4, <2>5 DEF Progress
<1>6. FileLifetime'
  BY <1>1, <1>2 DEF IInv, TypeOK, FileLifetime
<1>7. QED BY <1>3, <1>4, <1>5, <1>6 DEF IInv

LEMMA CloseInvariant ==
  ASSUME IInv, NEW p \in Process, CloseRep(p) \/ ClosePub(p)
  PROVE  IInv'
<1>1. UNCHANGED <<setting, sess_req_rep_port, sess_pub_sub_port, file, unclean, cut_short>>
  BY DEF CloseRep, ClosePub, sessionPorts, histories
<1>2. \/ pc[p] # "none" /\ pc' = [pc EXCEPT ![p] = "close_pub"]
      \/ pc[p] = "close_pub" /\ pc' = [pc EXCEPT ![p] = "remove_file"]
  BY DEF CloseRep, ClosePub, Goto
<1>3. \/ rep_at' = [rep_at EXCEPT ![p] = None] /\ pub_at' = pub_at
      \/ pub_at' = [pub_at EXCEPT ![p] = None] /\ rep_at' = rep_at
  BY DEF CloseRep, ClosePub
<1>4. \/ busy' = busy \cup ({rep_at[p]} \ {None})
      \/ busy' = busy \cup ({pub_at[p]} \ {None})
  BY DEF CloseRep, ClosePub
<1>5. TypeOK'
  <2>1. pc' \in [Process -> {"none", "bind_rep", "bind_pub", "open_file", "write_file",
                             "running", "failed", "close_pub", "remove_file"}]
    BY <1>2 DEF IInv, TypeOK
  <2>2. rep_at' \in [Process -> Port \cup {None}] /\ pub_at' \in [Process -> Port \cup {None}]
    BY <1>3 DEF IInv, TypeOK
  <2>3. busy' \subseteq Port
    <3>1. {rep_at[p], pub_at[p]} \subseteq Port \cup {None} /\ busy \subseteq Port
      BY DEF IInv, TypeOK
    <3>2. QED BY <1>4, <3>1
  <2>4. QED BY <1>1, <2>1, <2>2, <2>3 DEF IInv, TypeOK
<1>6. OwnPorts'
  <2>1. \/ \A q \in Process : pub_at'[q] = pub_at[q] /\ rep_at'[q] \in {rep_at[q], None}
        \/ \A q \in Process : rep_at'[q] = rep_at[q] /\ pub_at'[q] \in {pub_at[q], None}
    BY <1>3 DEF IInv, TypeOK
  <2>2. QED BY <2>1 DEF IInv, OwnPorts
<1>7. Progress'
  <2>1. ASSUME NEW q \in Process, q # p
        PROVE  pc'[q] = pc[q] /\ rep_at'[q] = rep_at[q] /\ pub_at'[q] = pub_at[q]
    BY <1>2, <1>3, <2>1 DEF IInv, TypeOK
  <2>2. pc[p] # "none" /\ pc'[p] \in {"close_pub", "remove_file"}
    BY <1>2 DEF IInv, TypeOK
  <2>3. ASSUME NEW q \in Process, q # p
        PROVE  (RepBound(q) => RepBound(q)') /\ (PubBound(q) => PubBound(q)')
    BY <1>1, <2>1, <2>3 DEF RepBound, PubBound, Wanted, Draws, PortOf,
                            KnownRep, KnownPub, Known, CastToZero
  <2>4. ASSUME NEW q \in Process
        PROVE  Begun(q)' = Begun(q) /\ Lines(q)' = Lines(q)
    BY <1>1 DEF Begun, Lines
  <2>5. QED BY <1>1, <2>1, <2>2, <2>3, <2>4 DEF IInv, Progress
<1>8. FileLifetime'
  BY <1>1, <1>2 DEF IInv, TypeOK, FileLifetime
<1>9. QED BY <1>5, <1>6, <1>7, <1>8 DEF IInv

LEMMA EndInvariant ==
  ASSUME IInv, NEW p \in Process, RemoveFile(p) \/ Crash(p)
  PROVE  IInv'
<1>1. /\ pc' = [pc EXCEPT ![p] = "none"]
      /\ setting' = [setting EXCEPT ![p] = None]
      /\ sess_req_rep_port' = [sess_req_rep_port EXCEPT ![p] = 0]
      /\ sess_pub_sub_port' = [sess_pub_sub_port EXCEPT ![p] = 0]
      /\ busy' = busy
      /\ cut_short' = cut_short \ {p}
  BY DEF RemoveFile, Crash, End, Goto
<1>2. \/ rep_at' = rep_at /\ pub_at' = pub_at
      \/ /\ rep_at' = [rep_at EXCEPT ![p] = None]
         /\ pub_at' = [pub_at EXCEPT ![p] = None]
  BY DEF RemoveFile, Crash, sockets
<1>3. \/ file' = [file EXCEPT ![p] = None] /\ unclean' = unclean \ {p}
      \/ file' = file /\ unclean' = unclean \cup {p}
  BY DEF RemoveFile, Crash
<1>4. TypeOK'
  <2>1. 0 \in 0 .. PORTS - 1
    BY SessionAssumption
  <2>2. /\ pc' \in [Process -> {"none", "bind_rep", "bind_pub", "open_file", "write_file",
                                "running", "failed", "close_pub", "remove_file"}]
        /\ setting' \in [Process -> Setting \cup {None}]
    BY <1>1 DEF IInv, TypeOK
  <2>3. /\ sess_req_rep_port' \in [Process -> 0 .. PORTS - 1]
        /\ sess_pub_sub_port' \in [Process -> 0 .. PORTS - 1]
    BY <1>1, <2>1 DEF IInv, TypeOK
  <2>4. rep_at' \in [Process -> Port \cup {None}] /\ pub_at' \in [Process -> Port \cup {None}]
    BY <1>2 DEF IInv, TypeOK
  <2>5. /\ file' \in [Process -> Seq((0 .. PORTS - 1) \cup {Address}) \cup {None}]
        /\ unclean' \subseteq Process /\ cut_short' \subseteq Process
    BY <1>1, <1>3 DEF IInv, TypeOK
  <2>6. busy' \subseteq Port
    BY <1>1 DEF IInv, TypeOK
  <2>7. QED BY <2>2, <2>3, <2>4, <2>5, <2>6 DEF TypeOK
<1>5. OwnPorts'
  BY <1>2 DEF IInv, TypeOK, OwnPorts
<1>6. Progress'
  <2>1. ASSUME NEW q \in Process, q # p
        PROVE  /\ pc'[q] = pc[q] /\ setting'[q] = setting[q] /\ file'[q] = file[q]
               /\ rep_at'[q] = rep_at[q] /\ pub_at'[q] = pub_at[q]
               /\ sess_req_rep_port'[q] = sess_req_rep_port[q]
               /\ sess_pub_sub_port'[q] = sess_pub_sub_port[q]
    <3>1. pc'[q] = pc[q] /\ setting'[q] = setting[q]
      BY <1>1, <2>1 DEF IInv, TypeOK
    <3>2. /\ sess_req_rep_port'[q] = sess_req_rep_port[q]
          /\ sess_pub_sub_port'[q] = sess_pub_sub_port[q]
      BY <1>1, <2>1 DEF IInv, TypeOK
    <3>3. rep_at'[q] = rep_at[q] /\ pub_at'[q] = pub_at[q]
      BY <1>2, <2>1 DEF IInv, TypeOK
    <3>4. file'[q] = file[q]
      BY <1>3, <2>1 DEF IInv, TypeOK
    <3>5. QED BY <3>1, <3>2, <3>3, <3>4
  <2>2. pc'[p] = "none"
    BY <1>1 DEF IInv, TypeOK
  <2>3. ASSUME NEW q \in Process, q # p
        PROVE  (RepBound(q) => RepBound(q)') /\ (PubBound(q) => PubBound(q)')
    BY <2>1, <2>3 DEF RepBound, PubBound, Wanted, Draws, PortOf,
                      KnownRep, KnownPub, Known, CastToZero
  <2>4. ASSUME NEW q \in Process, q # p
        PROVE  Begun(q)' = Begun(q) /\ Lines(q)' = Lines(q)
    BY <2>1, <2>4 DEF Begun, Lines
  <2>5. p \notin cut_short' /\ \A q \in Process : q # p => (q \in cut_short' <=> q \in cut_short)
    BY <1>1
  <2>6. QED BY <2>1, <2>2, <2>3, <2>4, <2>5 DEF IInv, Progress
<1>7. FileLifetime'
  BY <1>1, <1>3 DEF IInv, TypeOK, FileLifetime
<1>8. QED BY <1>4, <1>5, <1>6, <1>7 DEF IInv

LEMMA StartInvariant ==
  ASSUME IInv, NEW p \in Process, Start(p)
  PROVE  IInv'
<1>1. PICK s \in Setting : setting' = [setting EXCEPT ![p] = s]
  BY DEF Start
<1>2. /\ pc[p] = "none"
      /\ pc' = [pc EXCEPT ![p] = "bind_rep"]
      /\ UNCHANGED <<sessionPorts, sockets, busy, file, unclean, cut_short>>
  BY DEF Start, Goto, histories
<1>3. TypeOK'
  BY <1>1, <1>2 DEF IInv, TypeOK, sessionPorts, sockets
<1>4. OwnPorts'
  BY <1>2 DEF IInv, OwnPorts, sockets
<1>5. Progress'
  BY <1>1, <1>2 DEF IInv, TypeOK, Progress, RepBound, PubBound, Wanted, sessionPorts, sockets,
                    KnownRep, KnownPub, Known, CastToZero, Begun, Lines
<1>6. FileLifetime'
  BY <1>2 DEF IInv, TypeOK, FileLifetime
<1>7. QED BY <1>3, <1>4, <1>5, <1>6 DEF IInv

LEMMA OthersInvariant ==
  ASSUME IInv, Environment \/ UNCHANGED vars
  PROVE  IInv'
<1>1. /\ UNCHANGED <<pc, setting, sessionPorts, sockets, file, unclean, cut_short>>
      /\ \/ busy' = busy
         \/ \E port \in Port : busy' = busy \cup {port} \/ busy' = busy \ {port}
  BY DEF Environment, OthersBind, GivenBack, vars, histories, IInv, TypeOK
<1>2. TypeOK'
  BY <1>1 DEF IInv, TypeOK, sessionPorts, sockets
<1>3. OwnPorts' /\ Progress' /\ FileLifetime'
  BY <1>1 DEF IInv, OwnPorts, Progress, FileLifetime, RepBound, PubBound, Wanted,
              sessionPorts, sockets, KnownRep, KnownPub, Known, CastToZero, Begun, Lines
<1>4. QED BY <1>2, <1>3 DEF IInv

THEOREM SessionInvariant == Spec => []IInv
<1>1. IInv /\ [Next]_vars => IInv'
  <2> SUFFICES ASSUME IInv, [Next]_vars PROVE IInv'
    OBVIOUS
  <2>1. ASSUME NEW p \in Process, Start(p) PROVE IInv'
    BY <2>1, StartInvariant
  <2>2. ASSUME NEW p \in Process, Acquire(p) PROVE IInv'
    BY <2>2, BindRepInvariant, BindPubInvariant, BindThrowsInvariant,
       OpenFileInvariant, WriteLineInvariant DEF Acquire
  <2>3. ASSUME NEW p \in Process, Release(p) \/ Crash(p) PROVE IInv'
    BY <2>3, CloseInvariant, EndInvariant DEF Release
  <2>4. CASE Environment \/ UNCHANGED vars
    BY <2>4, OthersInvariant
  <2>5. QED BY <2>1, <2>2, <2>3, <2>4 DEF Next
<1>2. QED BY InitInvariant, <1>1, PTL DEF Spec

-----------------------------------------------------------------------------
(* For any number of processes and ports: the fields keep their types; in  *)
(* particular a configured port never exceeds a uint16_t after its cast.   *)
THEOREM SessionTypes == Spec => []TypeOK
<1>1. IInv => TypeOK
  BY DEF IInv
<1>2. QED BY <1>1, SessionInvariant, PTL

LEMMA RunningFile ==
  ASSUME IInv, NEW p \in Process, pc[p] = "running"
  PROVE  /\ IF p \in cut_short THEN Len(file[p]) < 3 ELSE Len(file[p]) = 3 /\ file[p] = Lines(p)
         /\ Len(file[p]) \in Nat
         /\ \A n \in 1 .. Len(file[p]) : file[p][n] = <<KnownRep(p), KnownPub(p), Address>>[n]
         /\ RepBound(p) /\ PubBound(p)
<1>1. /\ IF p \in cut_short THEN file[p] \in Begun(p) ELSE file[p] = Lines(p)
      /\ RepBound(p) /\ PubBound(p)
  BY DEF IInv, Progress
<1>2. Lines(p) = <<KnownRep(p), KnownPub(p), Address>> /\ Len(Lines(p)) = 3
  BY <1>1, BegunIsShort DEF RepBound, PubBound, Lines
<1>3. ASSUME NEW f \in Begun(p)
      PROVE  /\ Len(f) \in 0 .. 2
             /\ \A n \in 1 .. Len(f) : f[n] = <<KnownRep(p), KnownPub(p), Address>>[n]
  <2> DEFINE r == KnownRep(p)
             s == KnownPub(p)
  <2>1. Len(f) \in 0 .. 2
    BY BegunIsShort
  <2>2. f \in {<< >>, <<r>>, <<r, s>>}
    BY <1>1 DEF Begun, RepBound, PubBound
  <2>3. r \in (0 .. PORTS - 1) \cup {Address} /\ s \in (0 .. PORTS - 1) \cup {Address}
    BY <1>1 DEF IInv, TypeOK, RepBound, PubBound
  <2> HIDE DEF r, s
  <2>4. Len(<< >>) = 0 /\ Len(<<r>>) = 1 /\ Len(<<r, s>>) = 2
    BY <2>3, LinesOfTheFile
  <2>5. ASSUME NEW n \in 1 .. Len(f)
        PROVE  f[n] = <<r, s, Address>>[n]
    <3>1. CASE f = << >>
      BY <2>4, <3>1
    <3>2. CASE f = <<r>>
      BY <2>4, <3>2
    <3>3. CASE f = <<r, s>>
      BY <2>4, <3>3
    <3>4. QED BY <2>2, <3>1, <3>2, <3>3
  <2>6. QED BY <2>1, <2>5 DEF r, s
<1>4. CASE p \in cut_short
  BY <1>1, <1>3, <1>4
<1>5. CASE p \notin cut_short
  BY <1>1, <1>2, <1>5
<1>6. QED BY <1>1, <1>4, <1>5

LEMMA ZeroIsNoPort == 0 \notin Port
<1>1. PORTS \in Nat
  BY SessionAssumption
<1>2. QED BY <1>1 DEF Port

(* The file of a session that is up names the ports its REP and its PUB    *)
(* socket are bound to, in this order, and no other session has them; only *)
(* a port that the cast makes 0 is named as 0, and only a write that fails *)
(* leaves out lines, the last ones.                                        *)
THEOREM FilesAreRight == Spec => []FileNamesItsSockets
<1>1. IInv => FileNamesItsSockets
  <2> SUFFICES ASSUME IInv, NEW p \in Process, pc[p] = "running"
               PROVE  /\ IF p \in cut_short THEN Len(file[p]) < 3 ELSE Len(file[p]) = 3
                      /\ \A n \in 1 .. Len(file[p]) :
                           file[p][n] = <<KnownRep(p), KnownPub(p), Address>>[n]
                      /\ rep_at[p] # None /\ pub_at[p] # None /\ rep_at[p] # pub_at[p]
                      /\ \A q \in Process :
                           {rep_at[p], pub_at[p]} \cap {rep_at[q], pub_at[q]} # {} => p = q
    BY DEF FileNamesItsSockets
  <2>1. /\ IF p \in cut_short THEN Len(file[p]) < 3 ELSE Len(file[p]) = 3
        /\ \A n \in 1 .. Len(file[p]) : file[p][n] = <<KnownRep(p), KnownPub(p), Address>>[n]
        /\ RepBound(p) /\ PubBound(p)
    BY RunningFile
  <2>2. QED BY <2>1 DEF IInv, OwnPorts, RepBound, PubBound
<1>2. QED BY <1>1, SessionInvariant, PTL

(* Only a leftover, or the file of a process that is stopping, can lead a  *)
(* client to another session than the one it names.                        *)
THEOREM OnlyStaleFilesLeadAstray == Spec => []LeadsAstrayOnlyWhenStale
<1>1. IInv => LeadsAstrayOnlyWhenStale
  <2> SUFFICES ASSUME IInv, NEW p \in Process, NEW q \in Process, p # q,
                      pc[q] = "running", file[p] # None, Len(file[p]) >= 2,
                      {file[p][1], file[p][2]} \cap {rep_at[q], pub_at[q]} # {},
                      p \notin unclean, pc[p] \notin {"close_pub", "remove_file"}
               PROVE  FALSE
    BY DEF LeadsAstrayOnlyWhenStale
  <2>1. pc[p] \in {"write_file", "running"}
    BY DEF IInv, FileLifetime
  <2>2. /\ file[p] \in Begun(p) \cup {Lines(p)}
        /\ RepBound(p) /\ PubBound(p) /\ RepBound(q) /\ PubBound(q)
    BY <2>1 DEF IInv, Progress
  <2>3. file[p][1] = KnownRep(p) /\ file[p][2] = KnownPub(p)
    <3> DEFINE r == sess_req_rep_port[p]
               s == sess_pub_sub_port[p]
    <3>1. r \in (0 .. PORTS - 1) \cup {Address} /\ s \in (0 .. PORTS - 1) \cup {Address}
      BY DEF IInv, TypeOK
    <3>2. r = KnownRep(p) /\ s = KnownPub(p)
      BY <2>2 DEF RepBound, PubBound
    <3>3. file[p] \in {<< >>, <<r>>, <<r, s>>, <<r, s, Address>>}
      BY <2>2 DEF Begun, Lines
    <3> HIDE DEF r, s
    <3>4. Len(<< >>) = 0 /\ Len(<<r>>) = 1
      BY <3>1, LinesOfTheFile
    <3>5. file[p] = <<r, s>> \/ file[p] = <<r, s, Address>>
      BY <3>3, <3>4
    <3>6. QED BY <3>2, <3>5
  <2>4. 0 \notin {rep_at[q], pub_at[q]}
    BY <2>2, ZeroIsNoPort DEF IInv, TypeOK, RepBound, PubBound
  <2>5. KnownRep(p) \in {0, rep_at[p]} /\ KnownPub(p) \in {0, pub_at[p]}
    BY DEF KnownRep, KnownPub, Known
  <2>6. QED BY <2>2, <2>3, <2>4, <2>5 DEF IInv, OwnPorts, RepBound, PubBound
<1>2. QED BY <1>1, SessionInvariant, PTL

(* Two sessions whose remote configurations share a port are never up      *)
(* together.                                                               *)
THEOREM RemoteSessionsExclude == Spec => []RemoteExclusive
<1>1. IInv => RemoteExclusive
  <2> SUFFICES ASSUME IInv, NEW p \in Process, NEW q \in Process,
                      RemoteSession(p), RemoteSession(q), p # q
               PROVE  Configured(p) \cap Configured(q) \subseteq {0}
    BY DEF RemoteExclusive
  <2>1. ASSUME NEW r \in Process, RemoteSession(r)
        PROVE  /\ RepBound(r) /\ PubBound(r)
               /\ Configured(r) = {sess_req_rep_port[r], sess_pub_sub_port[r]}
    <3>1. RepBound(r) /\ PubBound(r) /\ setting[r].mode # "local"
      BY <2>1 DEF IInv, Progress, RemoteSession
    <3>2. QED BY <3>1 DEF RepBound, PubBound, Wanted, Configured
  <2>2. QED BY <2>1 DEF IInv, OwnPorts, RepBound, PubBound, KnownRep, KnownPub, Known
<1>2. QED BY <1>1, SessionInvariant, PTL

(* Every clean end leaves no session file.                                 *)
THEOREM CleanEndsLeaveNoFile == Spec => []LeftoverOnlyWhenUnclean
<1>1. IInv => LeftoverOnlyWhenUnclean
  BY DEF IInv, FileLifetime, LeftoverOnlyWhenUnclean
<1>2. QED BY <1>1, SessionInvariant, PTL

-----------------------------------------------------------------------------
(* The directory: what one process's step does to its own entry, the other *)
(* entries being left alone.                                               *)
UpOf(p) ==
  IF pc[p] = "running" /\ Whole(p) THEN <<KnownRep(p), KnownPub(p)>> ELSE None

ListingOf(p) == IF Whole(p) THEN <<file[p][1], file[p][2]>> ELSE None

OnlyEntry(p) ==
  \A q \in Process : q # p => UpOf(q)' = UpOf(q) /\ ListingOf(q)' = ListingOf(q)

LEMMA OneEntry ==
  ASSUME NEW p \in Process, OnlyEntry(p)
  PROVE  /\ Up' = [Up EXCEPT ![p] = UpOf(p)']
         /\ Listing' = [Listing EXCEPT ![p] = ListingOf(p)']
         /\ Up[p] = UpOf(p) /\ Listing[p] = ListingOf(p)
<1>1. /\ Up = [q \in Process |-> UpOf(q)] /\ Up' = [q \in Process |-> UpOf(q)']
      /\ Listing = [q \in Process |-> ListingOf(q)]
      /\ Listing' = [q \in Process |-> ListingOf(q)']
  BY DEF Up, UpOf, Listing, ListingOf
<1>2. QED BY <1>1 DEF OnlyEntry

(* A step of p that leaves everybody else's session and file alone. *)
LEMMA OthersKeepEntries ==
  ASSUME NEW p \in Process,
         \A q \in Process : q # p =>
           /\ pc'[q] = pc[q] /\ file'[q] = file[q] /\ setting'[q] = setting[q]
           /\ rep_at'[q] = rep_at[q] /\ pub_at'[q] = pub_at[q]
  PROVE  OnlyEntry(p)
<1>1. ASSUME NEW q \in Process, q # p
      PROVE  /\ Whole(q)' <=> Whole(q)
             /\ KnownRep(q)' = KnownRep(q) /\ KnownPub(q)' = KnownPub(q)
             /\ pc'[q] = pc[q] /\ file'[q] = file[q]
  BY <1>1 DEF Whole, KnownRep, KnownPub, Known, CastToZero
<1>2. QED BY <1>1 DEF OnlyEntry, UpOf, ListingOf

LEMMA StutterEntry ==
  ASSUME NEW p \in Process, OnlyEntry(p), UpOf(p)' = UpOf(p), ListingOf(p)' = ListingOf(p)
  PROVE  UNCHANGED <<Up, Listing>>
<1>1. /\ Up' = [Up EXCEPT ![p] = Up[p]]
      /\ Listing' = [Listing EXCEPT ![p] = Listing[p]]
  BY OneEntry
<1>2. QED BY <1>1 DEF Up, Listing

LEMMA OpenEntry ==
  ASSUME IInv, NEW p \in Process, OpenFile(p)
  PROVE  [Directory!Next]_<<Up, Listing>>
<1>1. /\ pc[p] = "open_file"
      /\ \/ pc' = [pc EXCEPT ![p] = "write_file"] /\ file' = [file EXCEPT ![p] = << >>]
         \/ pc' = [pc EXCEPT ![p] = "failed"] /\ file' = file
      /\ UNCHANGED <<sockets, setting>>
  BY DEF OpenFile, Opened, Goto
<1>2. OnlyEntry(p)
  BY <1>1, OthersKeepEntries DEF IInv, TypeOK, sockets
<1>3. UpOf(p) = None /\ UpOf(p)' = None
  BY <1>1 DEF IInv, TypeOK, UpOf
<1>4. ListingOf(p)' = ListingOf(p) \/ ListingOf(p)' = None
  <2>1. Len(<< >>) = 0
    BY EmptySeq
  <2>2. CASE file' = file
    BY <2>2 DEF ListingOf, Whole
  <2>3. CASE file' = [file EXCEPT ![p] = << >>]
    <3>1. file'[p] = << >>
      BY <2>3 DEF IInv, TypeOK
    <3>2. QED BY <2>1, <3>1 DEF ListingOf, Whole
  <2>4. QED BY <1>1, <2>2, <2>3
<1>5. CASE ListingOf(p)' = ListingOf(p)
  BY <1>2, <1>3, <1>5, StutterEntry
<1>6. CASE ListingOf(p)' = None
  <2>1. /\ Up[p] = None /\ Up' = [Up EXCEPT ![p] = Up[p]]
        /\ Listing' = [Listing EXCEPT ![p] = None]
    BY <1>2, <1>3, <1>6, OneEntry
  <2>2. Directory!Unlist(p)
    BY <2>1 DEF Directory!Unlist, Up
  <2>3. QED BY <2>2 DEF Directory!Next
<1>7. QED BY <1>4, <1>5, <1>6

(* The last line of a session file lists a session with two free ports.    *)
LEMMA WriteEntry ==
  ASSUME IInv, NEW p \in Process, WriteLine(p)
  PROVE  [Directory!Next]_<<Up, Listing>>
<1>1. /\ pc[p] = "write_file" /\ RepBound(p) /\ PubBound(p)
      /\ file[p] \in Begun(p)
      /\ UNCHANGED <<setting, sess_req_rep_port, sess_pub_sub_port, rep_at, pub_at>>
      /\ \/ pc' = pc /\ \E f \in Begun(p) : file' = [file EXCEPT ![p] = f]
         \/ pc' = [pc EXCEPT ![p] = "running"] /\ file' = [file EXCEPT ![p] = Lines(p)]
         \/ pc' = [pc EXCEPT ![p] = "running"] /\ file' = file
  BY LineWritten
<1>2. \A f \in Begun(p) : Len(f) # 3
  BY BegunIsShort
<1>3. ListingOf(p) = None /\ UpOf(p) = None
  BY <1>1, <1>2 DEF ListingOf, UpOf, Whole
<1>4. OnlyEntry(p)
  <2>1. ASSUME NEW q \in Process, q # p
        PROVE  pc'[q] = pc[q] /\ file'[q] = file[q]
    BY <1>1, <2>1 DEF IInv, TypeOK
  <2>2. QED BY <1>1, <2>1, OthersKeepEntries
<1>5. CASE \E f \in Begun(p) : file' = [file EXCEPT ![p] = f]
  <2>1. file'[p] \in Begun(p)
    BY <1>5 DEF IInv, TypeOK
  <2>2. UpOf(p)' = None /\ ListingOf(p)' = None
    BY <1>2, <2>1 DEF UpOf, ListingOf, Whole
  <2>3. QED BY <1>3, <1>4, <2>2, StutterEntry
<1>6. CASE file' = file
  <2>1. UpOf(p)' = None /\ ListingOf(p)' = None
    BY <1>1, <1>2, <1>6 DEF UpOf, ListingOf, Whole
  <2>2. QED BY <1>3, <1>4, <2>1, StutterEntry
<1>7. CASE pc' = [pc EXCEPT ![p] = "running"] /\ file' = [file EXCEPT ![p] = Lines(p)]
  <2> DEFINE r == KnownRep(p)
             s == KnownPub(p)
  <2>1. /\ rep_at[p] \in Port /\ pub_at[p] \in Port /\ rep_at[p] # pub_at[p]
        /\ r \in {0, rep_at[p]} /\ s \in {0, pub_at[p]}
    BY <1>1 DEF IInv, TypeOK, RepBound, PubBound, OwnPorts, KnownRep, KnownPub, Known
  <2>2. /\ Len(Lines(p)) = 3
        /\ Lines(p)[1] = r /\ Lines(p)[2] = s
    BY <1>1, BegunIsShort DEF RepBound, PubBound, Lines
  <2>3. /\ pc'[p] = "running" /\ file'[p] = Lines(p)
        /\ KnownRep(p)' = r /\ KnownPub(p)' = s
    BY <1>1, <1>7 DEF IInv, TypeOK, KnownRep, KnownPub, Known, CastToZero
  <2>4. Lines(p) # None
    <3>1. Lines(p) = <<r, s, Address>> /\ r \in Nat /\ s \in Nat
      <4>1. Port \subseteq Nat
        BY SessionAssumption DEF Port
      <4>2. rep_at[p] \in Nat /\ pub_at[p] \in Nat
        BY <2>1, <4>1
      <4>3. r \in Nat /\ s \in Nat
        BY <2>1, <4>2
      <4>4. Lines(p) = <<r, s, Address>>
        BY <1>1 DEF RepBound, PubBound, Lines
      <4>5. QED BY <4>3, <4>4
    <3> HIDE DEF r, s
    <3>2. <<r, s, Address>> \in Seq(Nat \cup {Address})
      BY <3>1
    <3>3. QED BY <3>1, <3>2, SessionAssumption
  <2>5. UpOf(p)' = <<r, s>> /\ ListingOf(p)' = <<r, s>>
    BY <2>2, <2>3, <2>4 DEF UpOf, ListingOf, Whole
  <2>6. /\ Up[p] = None /\ Listing[p] = None
        /\ Up' = [Up EXCEPT ![p] = <<r, s>>]
        /\ Listing' = [Listing EXCEPT ![p] = <<r, s>>]
        /\ Listing'[p] = <<r, s>>
    <3>1. /\ Up[p] = None /\ Listing[p] = None
          /\ Up' = [Up EXCEPT ![p] = <<r, s>>]
          /\ Listing' = [Listing EXCEPT ![p] = <<r, s>>]
      BY <1>3, <1>4, <2>5, OneEntry
    <3>2. QED BY <3>1 DEF Listing
  <2>7. {r, s} \cap Directory!Taken \subseteq {0}
    <3>1. ASSUME NEW q \in Process, Up[q] # None
          PROVE  {Up[q][1], Up[q][2]} \cap {r, s} \subseteq {0}
      <4>1. q # p /\ pc[q] = "running" /\ Up[q] = <<KnownRep(q), KnownPub(q)>>
        <5>1. q # p
          BY <2>6, <3>1
        <5>2. QED BY <3>1, <5>1 DEF Up
      <4>2. {rep_at[q], pub_at[q]} \cap {rep_at[p], pub_at[p]} = {}
        BY <1>1, <4>1 DEF IInv, OwnPorts, RepBound, PubBound
      <4>3. Up[q][1] \in {0, rep_at[q]} /\ Up[q][2] \in {0, pub_at[q]}
        BY <4>1 DEF KnownRep, KnownPub, Known
      <4>4. QED BY <2>1, <4>2, <4>3
    <3>2. QED BY <3>1 DEF Directory!Taken
  <2>8. <<r, s>> \in Directory!Entry
    BY <2>1 DEF Directory!Entry
  <2>9. <<r, s>>[1] = r /\ <<r, s>>[2] = s
    OBVIOUS
  <2> HIDE DEF r, s
  <2>10. Directory!Publish(p)
    BY <2>6, <2>7, <2>8, <2>9 DEF Directory!Publish
  <2>11. QED BY <2>10 DEF Directory!Next
<1>8. QED BY <1>1, <1>5, <1>6, <1>7

LEMMA CloseEntry ==
  ASSUME IInv, NEW p \in Process, CloseRep(p) \/ ClosePub(p)
  PROVE  [Directory!Next]_<<Up, Listing>>
<1>1. /\ file' = file /\ setting' = setting
      /\ \/ pc' = [pc EXCEPT ![p] = "close_pub"]
         \/ pc[p] = "close_pub" /\ pc' = [pc EXCEPT ![p] = "remove_file"]
      /\ \/ rep_at' = [rep_at EXCEPT ![p] = None] /\ pub_at' = pub_at
         \/ pub_at' = [pub_at EXCEPT ![p] = None] /\ rep_at' = rep_at
  BY DEF CloseRep, ClosePub, Goto
<1>2. OnlyEntry(p)
  BY <1>1, OthersKeepEntries DEF IInv, TypeOK
<1>3. UpOf(p)' = None
  BY <1>1 DEF IInv, TypeOK, UpOf
<1>4. ListingOf(p)' = ListingOf(p)
  BY <1>1 DEF ListingOf, Whole
<1>5. CASE UpOf(p) = None
  BY <1>2, <1>3, <1>4, <1>5, StutterEntry
<1>6. CASE UpOf(p) # None
  <2>1. /\ Up[p] # None /\ Up' = [Up EXCEPT ![p] = None]
        /\ Listing' = [Listing EXCEPT ![p] = Listing[p]]
    BY <1>2, <1>3, <1>4, <1>6, OneEntry
  <2>2. Directory!Close(p)
    BY <2>1 DEF Directory!Close, Listing
  <2>3. QED BY <2>2 DEF Directory!Next
<1>7. QED BY <1>5, <1>6

LEMMA RemoveEntry ==
  ASSUME IInv, NEW p \in Process, RemoveFile(p)
  PROVE  [Directory!Next]_<<Up, Listing>>
<1>1. /\ pc[p] = "remove_file" /\ pc' = [pc EXCEPT ![p] = "none"]
      /\ file' = [file EXCEPT ![p] = None] \/ file' = file
      /\ setting' = [setting EXCEPT ![p] = None]
      /\ UNCHANGED sockets
  BY DEF RemoveFile, End, Goto
<1>2. OnlyEntry(p)
  BY <1>1, OthersKeepEntries DEF IInv, TypeOK, sockets
<1>3. UpOf(p) = None /\ UpOf(p)' = None
  BY <1>1 DEF IInv, TypeOK, UpOf
<1>4. ListingOf(p)' = ListingOf(p) \/ ListingOf(p)' = None
  BY <1>1 DEF IInv, TypeOK, ListingOf, Whole
<1>5. CASE ListingOf(p)' = ListingOf(p)
  BY <1>2, <1>3, <1>5, StutterEntry
<1>6. CASE ListingOf(p)' = None
  <2>1. /\ Up[p] = None /\ Up' = [Up EXCEPT ![p] = Up[p]]
        /\ Listing' = [Listing EXCEPT ![p] = None]
    BY <1>2, <1>3, <1>6, OneEntry
  <2>2. Directory!Unlist(p)
    BY <2>1 DEF Directory!Unlist, Up
  <2>3. QED BY <2>2 DEF Directory!Next
<1>7. QED BY <1>4, <1>5, <1>6

(* Starting, binding and failing to bind change no entry, and a crash only *)
(* ends the session.                                                       *)
LEMMA OtherEntries ==
  ASSUME IInv, NEW p \in Process,
         Start(p) \/ BindRep(p) \/ BindPub(p) \/ BindThrows(p) \/ Crash(p)
  PROVE  [Directory!Next]_<<Up, Listing>>
<1>1. /\ file' = file
      /\ \E at \in {"bind_rep", "bind_pub", "open_file", "failed", "none"} :
           pc' = [pc EXCEPT ![p] = at] \/ (pc' = pc /\ pc[p] # "running")
      /\ \E at : rep_at' = [rep_at EXCEPT ![p] = at]
      /\ \E at : pub_at' = [pub_at EXCEPT ![p] = at]
      /\ \E s : setting' = [setting EXCEPT ![p] = s]
  <2>1. setting = [setting EXCEPT ![p] = setting[p]] /\ rep_at = [rep_at EXCEPT ![p] = rep_at[p]] /\ pub_at = [pub_at EXCEPT ![p] = pub_at[p]]
    BY DEF IInv, TypeOK
  <2>2. CASE Start(p)
    BY <2>1, <2>2 DEF Start, Goto, sockets
  <2>3. CASE BindRep(p)
    BY <2>1, <2>3 DEF BindRep, Goto
  <2>4. CASE BindPub(p)
    BY <2>1, <2>4 DEF BindPub, Goto
  <2>5. CASE BindThrows(p)
    <3>1. file' = file
      BY <2>5 DEF BindThrows
    <3>2. \/ pc' = pc /\ pc[p] # "running" /\ rep_at' = rep_at /\ pub_at' = pub_at
          \/ /\ pc' = [pc EXCEPT ![p] = "failed"]
             /\ rep_at' = [rep_at EXCEPT ![p] = None]
             /\ pub_at' = [pub_at EXCEPT ![p] = None]
      BY <2>5 DEF BindThrows, Goto, sockets
    <3>3. setting' = setting
      BY <2>5 DEF BindThrows
    <3>4. QED BY <2>1, <3>1, <3>2, <3>3
  <2>6. CASE Crash(p)
    BY <2>6 DEF Crash, End, Goto
  <2>7. QED BY <2>2, <2>3, <2>4, <2>5, <2>6
<1>2. OnlyEntry(p)
  BY <1>1, OthersKeepEntries DEF IInv, TypeOK
<1>3. UpOf(p)' = None
  BY <1>1 DEF IInv, TypeOK, UpOf
<1>4. ListingOf(p)' = ListingOf(p)
  BY <1>1 DEF ListingOf, Whole
<1>5. CASE UpOf(p) = None
  BY <1>2, <1>3, <1>4, <1>5, StutterEntry
<1>6. CASE UpOf(p) # None
  <2>1. /\ Up[p] # None /\ Up' = [Up EXCEPT ![p] = None]
        /\ Listing' = [Listing EXCEPT ![p] = Listing[p]]
    BY <1>2, <1>3, <1>4, <1>6, OneEntry
  <2>2. Directory!Close(p)
    BY <2>1 DEF Directory!Close, Listing
  <2>3. QED BY <2>2 DEF Directory!Next
<1>7. QED BY <1>5, <1>6

(* However many processes start, fail, stop and crash, and whoever else    *)
(* competes for ports: the session files are the directory that module     *)
(* SessionDirectory describes.  A session is listed in the very step that  *)
(* makes it complete, with two ports that no listed session still has; its *)
(* listing does not change while it is up, and nobody else touches it.     *)
THEOREM SessionsAreADirectory == Spec => ImplementsDirectory
<1>1. Init => Directory!Init
  <2> SUFFICES ASSUME Init PROVE Directory!Init
    OBVIOUS
  <2>1. \A p \in Process : pc[p] = "none" /\ file[p] = None
    BY DEF Init
  <2>2. QED BY <2>1 DEF Directory!Init, Up, Listing, Whole
<1>2. IInv /\ [Next]_vars => [Directory!Next]_<<Up, Listing>>
  <2> SUFFICES ASSUME IInv, [Next]_vars PROVE [Directory!Next]_<<Up, Listing>>
    OBVIOUS
  <2>1. ASSUME NEW p \in Process, Start(p) \/ Acquire(p) \/ Release(p) \/ Crash(p)
        PROVE  [Directory!Next]_<<Up, Listing>>
    BY <2>1, OtherEntries, OpenEntry, WriteEntry, CloseEntry, RemoveEntry DEF Acquire, Release
  <2>2. CASE Environment \/ UNCHANGED vars
    <3>1. UNCHANGED <<pc, setting, rep_at, pub_at, file>>
      BY <2>2 DEF Environment, vars, sockets
    <3>2. QED BY <3>1 DEF Up, Listing, Whole, KnownRep, KnownPub, Known, CastToZero
  <2>3. QED BY <2>1, <2>2 DEF Next
<1>3. QED
  BY <1>1, <1>2, SessionInvariant, PTL
     DEF Spec, ImplementsDirectory, Directory!Spec, Directory!directoryVars
(* What the directory alone lets a client conclude. *)
Directed ==
  /\ DOMAIN Up = Process /\ DOMAIN Listing = Process
  /\ \A p \in Process : Up[p] # None => Up[p] \in Directory!Entry
  /\ Directory!ListedRight

LEMMA PublishIsRight ==
  ASSUME Directed, NEW p \in Process, Directory!Publish(p)
  PROVE  Directed'
<1> DEFINE entry == Listing'[p]
<1>1. /\ entry \in Directory!Entry /\ {entry[1], entry[2]} \cap Directory!Taken \subseteq {0}
      /\ Up' = [Up EXCEPT ![p] = entry]
      /\ Listing' = [Listing EXCEPT ![p] = entry]
  BY DEF Directory!Publish
<1>2. /\ DOMAIN Up' = Process /\ DOMAIN Listing' = Process
      /\ Up'[p] = entry /\ Listing'[p] = entry
      /\ \A q \in Process : q # p => Up'[q] = Up[q] /\ Listing'[q] = Listing[q]
  BY <1>1 DEF Directed
<1> HIDE DEF entry
<1>3. entry[1] = entry[2] => entry[1] = 0
  BY <1>1 DEF Directory!Entry
<1>4. ASSUME NEW q \in Process, Up[q] # None
      PROVE  {entry[1], entry[2]} \cap {Up[q][1], Up[q][2]} \subseteq {0}
  BY <1>1, <1>4 DEF Directory!Taken
<1>5. ASSUME NEW q \in Process, Up'[q] # None
      PROVE  /\ Listing'[q] = Up'[q]
             /\ Up'[q][1] = Up'[q][2] => Up'[q][1] = 0
             /\ Up'[q] \in Directory!Entry
  <2>1. CASE q = p
    BY <1>1, <1>2, <1>3, <2>1
  <2>2. CASE q # p
    BY <1>2, <1>5, <2>2 DEF Directed, Directory!ListedRight
  <2>3. QED BY <2>1, <2>2
<1>6. ASSUME NEW q \in Process, NEW r \in Process, Up'[q] # None, Up'[r] # None, q # r
      PROVE  {Up'[q][1], Up'[q][2]} \cap {Up'[r][1], Up'[r][2]} \subseteq {0}
  <2>1. CASE q # p /\ r # p
    BY <1>2, <1>6, <2>1 DEF Directed, Directory!ListedRight
  <2>2. CASE q = p
    BY <1>2, <1>4, <1>6, <2>2
  <2>3. CASE r = p
    BY <1>2, <1>4, <1>6, <2>3
  <2>4. QED BY <2>1, <2>2, <2>3
<1>7. Directory!ListedRight'
  BY <1>5, <1>6 DEF Directory!ListedRight
<1>8. QED BY <1>2, <1>5, <1>7 DEF Directed, Directory!Entry

(* So the session files are right, whatever else this module does: a       *)
(* session that is up is listed with its two ports, as far as the server   *)
(* itself knows them, and nobody else has them.                            *)
THEOREM ListingsAreRight == Spec => []Directory!ListedRight
<1>1. Directory!Init => Directed
  BY DEF Directory!Init, Directed, Directory!ListedRight
<1>2. Directed /\ [Directory!Next]_(Directory!directoryVars) => Directed'
  <2> SUFFICES ASSUME Directed, [Directory!Next]_(Directory!directoryVars) PROVE Directed'
    OBVIOUS
  <2>1. ASSUME NEW p \in Process, Directory!Close(p)
        PROVE  Directed'
    <3>1. Up' = [Up EXCEPT ![p] = None] /\ Listing' = Listing
      BY <2>1 DEF Directory!Close
    <3>2. \A q \in Process : Up'[q] # None => Up'[q] = Up[q]
      BY <3>1 DEF Directed
    <3>3. DOMAIN Up' = Process
      BY <3>1 DEF Directed
    <3>4. QED BY <3>1, <3>2, <3>3 DEF Directed, Directory!ListedRight
  <2>2. ASSUME NEW p \in Process, Directory!Unlist(p)
        PROVE  Directed'
    <3>1. Up[p] = None /\ Up' = Up /\ Listing' = [Listing EXCEPT ![p] = None]
      BY <2>2 DEF Directory!Unlist
    <3>2. DOMAIN Listing' = Process /\ \A q \in Process : q # p => Listing'[q] = Listing[q]
      BY <3>1 DEF Directed
    <3>3. QED BY <3>1, <3>2 DEF Directed, Directory!ListedRight
  <2>3. CASE UNCHANGED Directory!directoryVars
    BY <2>3 DEF Directory!directoryVars, Directed, Directory!ListedRight
  <2>4. QED BY <2>1, <2>2, <2>3, PublishIsRight DEF Directory!Next
<1>3. Directed => Directory!ListedRight
  BY DEF Directed
<1>4. QED BY <1>1, <1>2, <1>3, SessionsAreADirectory, PTL DEF ImplementsDirectory, Directory!Spec

-----------------------------------------------------------------------------
(* Which sockets a process has at each step.  A plugin that is unloaded or *)
(* about to remove its file has none; a failed acquisition has both or     *)
(* neither, the outcomes in Acquisition of module Plugin: both when the    *)
(* file could not be opened, and plugstop closes them.                     *)
SocketsAt(at, rep, pub) ==
  /\ at \in {"none", "bind_rep", "remove_file"} => rep = None /\ pub = None
  /\ at = "bind_pub" => rep # None /\ pub = None
  /\ at \in {"open_file", "write_file", "running"} => rep # None /\ pub # None
  /\ at = "failed" => (rep = None <=> pub = None)
  /\ at = "close_pub" => rep = None

SocketsHeld == \A p \in Process : SocketsAt(pc[p], rep_at[p], pub_at[p])

LEMMA StepOfSockets ==
  ASSUME IInv, SocketsHeld, NEW p \in Process,
         Start(p) \/ Acquire(p) \/ Release(p) \/ Crash(p)
  PROVE  SocketsHeld'
<1>1. \E at, rep, pub :
        /\ pc' = [pc EXCEPT ![p] = at]
        /\ rep_at' = [rep_at EXCEPT ![p] = rep]
        /\ pub_at' = [pub_at EXCEPT ![p] = pub]
        /\ SocketsAt(at, rep, pub)
  <2> DEFINE Sets(at, rep, pub) ==
               /\ pc' = [pc EXCEPT ![p] = at]
               /\ rep_at' = [rep_at EXCEPT ![p] = rep]
               /\ pub_at' = [pub_at EXCEPT ![p] = pub]
  <2>1. /\ pc = [pc EXCEPT ![p] = pc[p]]
        /\ rep_at = [rep_at EXCEPT ![p] = rep_at[p]]
        /\ pub_at = [pub_at EXCEPT ![p] = pub_at[p]]
        /\ SocketsAt(pc[p], rep_at[p], pub_at[p])
    BY DEF IInv, TypeOK, SocketsHeld
  <2>2. CASE BindRep(p)
    <3>1. PICK wanted \in Wanted(p, setting[p].req, DEFAULT_REQ) :
            \E port \in Bindable(wanted) : rep_at' = [rep_at EXCEPT ![p] = port]
      BY <2>2 DEF BindRep
    <3>2. setting[p] \in Setting
      BY <2>2 DEF BindRep, IInv, Progress
    <3>3. PICK port : port # None /\ rep_at' = [rep_at EXCEPT ![p] = port]
      BY <3>1, <3>2, ConfiguredIsNat, BoundPortIsFree
    <3>4. Sets("bind_pub", port, pub_at[p]) /\ SocketsAt("bind_pub", port, pub_at[p])
      BY <2>1, <2>2, <3>3 DEF BindRep, Goto, SocketsAt
    <3>5. QED BY <3>4
  <2>3. CASE BindPub(p)
    <3>1. PICK wanted \in Wanted(p, setting[p].pub, DEFAULT_PUB) :
            \E port \in Bindable(wanted) : pub_at' = [pub_at EXCEPT ![p] = port]
      BY <2>3 DEF BindPub
    <3>2. setting[p] \in Setting
      BY <2>3 DEF BindPub, IInv, Progress
    <3>3. PICK port : port # None /\ pub_at' = [pub_at EXCEPT ![p] = port]
      BY <3>1, <3>2, ConfiguredIsNat, BoundPortIsFree
    <3>4. Sets("open_file", rep_at[p], port) /\ SocketsAt("open_file", rep_at[p], port)
      BY <2>1, <2>3, <3>3 DEF BindPub, Goto, SocketsAt
    <3>5. QED BY <3>4
  <2>4. CASE BindThrows(p)
    <3>1. Sets(pc[p], rep_at[p], pub_at[p]) \/ Sets("failed", None, None)
      BY <2>1, <2>4 DEF BindThrows, Goto, sockets
    <3>2. SocketsAt("failed", None, None)
      BY DEF SocketsAt
    <3>3. QED BY <2>1, <3>1, <3>2
  <2>5. CASE OpenFile(p) \/ WriteLine(p)
    <3>1. PICK at \in {"write_file", "running", "failed"} : Sets(at, rep_at[p], pub_at[p])
      BY <2>1, <2>5 DEF OpenFile, WriteLine, Goto, sockets
    <3>2. SocketsAt(at, rep_at[p], pub_at[p])
      BY <2>1, <2>5 DEF OpenFile, WriteLine, SocketsAt
    <3>3. QED BY <3>1, <3>2
  <2>6. CASE CloseRep(p)
    <3>1. Sets("close_pub", None, pub_at[p]) /\ SocketsAt("close_pub", None, pub_at[p])
      BY <2>1, <2>6 DEF CloseRep, Goto, SocketsAt
    <3>2. QED BY <3>1
  <2>7. CASE ClosePub(p)
    <3>1. Sets("remove_file", rep_at[p], None) /\ SocketsAt("remove_file", rep_at[p], None)
      BY <2>1, <2>7 DEF ClosePub, Goto, SocketsAt
    <3>2. QED BY <3>1
  <2>8. CASE Start(p) \/ RemoveFile(p)
    <3>1. PICK at \in {"bind_rep", "none"} : Sets(at, rep_at[p], pub_at[p])
      BY <2>1, <2>8 DEF Start, RemoveFile, End, Goto, sockets
    <3>2. SocketsAt(at, rep_at[p], pub_at[p])
      BY <2>1, <2>8 DEF Start, RemoveFile, SocketsAt
    <3>3. QED BY <3>1, <3>2
  <2>9. CASE Crash(p)
    <3>1. Sets("none", None, None) /\ SocketsAt("none", None, None)
      BY <2>9 DEF Crash, End, Goto, SocketsAt
    <3>2. QED BY <3>1
  <2>10. QED BY <2>2, <2>3, <2>4, <2>5, <2>6, <2>7, <2>8, <2>9 DEF Acquire, Release
<1>2. QED BY <1>1 DEF IInv, TypeOK, SocketsHeld

THEOREM SocketsAreReleased == Spec => []SocketsHeld
<1>1. Init => SocketsHeld
  BY DEF Init, SocketsHeld, SocketsAt
<1>2. IInv /\ SocketsHeld /\ [Next]_vars => SocketsHeld'
  <2> SUFFICES ASSUME IInv, SocketsHeld, [Next]_vars PROVE SocketsHeld'
    OBVIOUS
  <2>1. CASE Environment \/ UNCHANGED vars
    BY <2>1 DEF Environment, vars, sockets, SocketsHeld
  <2>2. QED BY <2>1, StepOfSockets DEF Next
<1>3. QED BY <1>1, <1>2, SessionInvariant, PTL DEF Spec
=============================================================================
