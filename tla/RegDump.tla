------------------------------- MODULE RegDump -------------------------------
(***************************************************************************)
(* dbg_read_regs: what the reply to READ_REGISTERS makes of the words and  *)
(* of the x87 register area that DbgGetRegDumpEx fills in.  The registers  *)
(* it copies as they are (general, segment, debug, ZMM, the last error and *)
(* status with their names) are left out.                                  *)
(***************************************************************************)
EXTENDS Integers

CONSTANTS
  Word,          \* the values a control, status or tag word may have
  Data           \* the contents of an x87 register

ASSUME RegDumpAssumption == \A w \in Word : w \in Nat /\ w < 65536

VARIABLES
  word,          \* MxCsr, ControlWord and StatusWord; MxCsr is a DWORD whose upper
                 \* half is reserved, and 0
  TagWord,       \* two bits for each register, R[0] first
  RegisterArea,  \* the registers as the processor saves them: ST(0) first
  reply          \* the dump sent last; <<>> before the first

vars == <<word, TagWord, RegisterArea, reply>>

Register == 0 .. 7

-----------------------------------------------------------------------------
MXCSRFLAG ==
  [ IE |-> \h1, DE |-> \h2, ZE |-> \h4, OE |-> \h8, UE |-> \h10, PE |-> \h20,
    DAZ |-> \h40, IM |-> \h80, DM |-> \h100, ZM |-> \h200, OM |-> \h400,
    UM |-> \h800, PM |-> \h1000, FZ |-> \h8000 ]

x87CONTROLWORD_FLAG ==
  [ IM |-> \h1, DM |-> \h2, ZM |-> \h4, OM |-> \h8, UM |-> \h10, PM |-> \h20,
    IEM |-> \h80, IC |-> \h1000 ]

\* mutant of x87STATUSWORD_FLAG: C3 next to C2
C3Adjacent ==
  [ I |-> \h1, D |-> \h2, Z |-> \h4, O |-> \h8, U |-> \h10, P |-> \h20, SF |-> \h40,
    ES |-> \h80, C0 |-> \h100, C1 |-> \h200, C2 |-> \h400, C3 |-> \h800, B |-> \h8000 ]

x87STATUSWORD_FLAG ==
  [ I |-> \h1, D |-> \h2, Z |-> \h4, O |-> \h8, U |-> \h10, P |-> \h20, SF |-> \h40,
    ES |-> \h80, C0 |-> \h100, C1 |-> \h200, C2 |-> \h400, C3 |-> \h4000, B |-> \h8000 ]

(* (w & mask) != 0, for each mask of a table. *)
Flags(masks, w) == [f \in DOMAIN masks |-> (w \div masks[f]) % 2]

GetMxCsrFields(w) == [flags |-> Flags(MXCSRFLAG, w), RC |-> (w \div \h2000) % 4]

Getx87ControlWordFields(w) ==
  [ flags |-> Flags(x87CONTROLWORD_FLAG, w), RC |-> (w \div \h400) % 4, PC |-> (w \div \h100) % 4 ]

Getx87StatusWordFields(w) ==
  [flags |-> Flags(x87STATUSWORD_FLAG, w), TOP |-> (w \div \h800) % 8]

\* mutant of Getx87r0PositionInRegisterArea: the wrong way round
TopItself(STInTopStack) == STInTopStack

(* Where the area holds R0, when ST(0) is R[STInTopStack]. *)
Getx87r0PositionInRegisterArea(STInTopStack) == (8 - STInTopStack) % 8

(* Also Calculatex87registerPositionInRegisterArea. *)
GetSTValueFromIndex(x87r0_position, i) == (x87r0_position + i) % 8

(* FLAGS is cleared, sent, and nothing in between. *)
flags == [f \in {"c", "p", "a", "z", "s", "t", "i", "d", "o"} |-> 0]

\* mutant of x87FPURegister: the tag found by the place in the area too
TagOfPosition(r0, i) ==
  LET position == GetSTValueFromIndex(r0, i)
  IN  [ data |-> RegisterArea[position], st_value |-> position,
        tag |-> (TagWord \div 4^position) % 4 ]

(* R[i]: its contents and its number are found by its place in the area,   *)
(* its tag by its own number.                                              *)
x87FPURegister(r0, i) ==
  LET position == GetSTValueFromIndex(r0, i)
  IN  [ data |-> RegisterArea[position], st_value |-> position,
        tag |-> (TagWord \div 4^i) % 4 ]

(* MMX register i is the low 64 bits of R[i], the register it is part of.  *)
dbg_read_regs ==
  LET status == Getx87StatusWordFields(word)
      r0     == Getx87r0PositionInRegisterArea(status.TOP)
      fpu    == [i \in Register |-> x87FPURegister(r0, i)]
  IN  /\ reply' = [ mxcsr   |-> GetMxCsrFields(word),
                    control |-> Getx87ControlWordFields(word),
                    status  |-> status,
                    flags   |-> flags,
                    fpu     |-> fpu,
                    mmx     |-> [i \in Register |-> fpu[i].data] ]
      /\ UNCHANGED <<word, TagWord, RegisterArea>>

Init ==
  /\ word \in Word
  /\ TagWord \in Word
  /\ RegisterArea \in [Register -> Data]
  /\ reply = << >>

(* The debuggee is paused: it does not run in between. *)
Next == dbg_read_regs

Spec == Init /\ [][Next]_vars

-----------------------------------------------------------------------------
Read == reply # << >>

(* A client that counts from the reply's own TOP finds ST(s) with its      *)
(* number and its contents, whatever the top of the stack is, and with the *)
(* tag of the physical register that ST(s) is in, which the tag word does  *)
(* not rotate with the stack; and MM[i] is part of the register R[i].      *)
StackFromTop ==
  Read =>
    /\ \A s \in Register : LET p == (reply.status.TOP + s) % 8
                               r == reply.fpu[p]
                           IN  /\ r.st_value = s
                               /\ r.data = RegisterArea[s]
                               /\ r.tag = (TagWord \div 4^p) % 4
    /\ \A i \in Register : reply.mmx[i] = reply.fpu[i].data

(* No two fields of a word overlap and none of its bits is missing from    *)
(* all of them: added up, each with the weight the processor gives it, the *)
(* fields are the word again, but for the control word's undefined bits 6  *)
(* and 13 to 15; and the registers' tags, two bits each, are the tag word. *)
FieldsPartitionWords ==
  Read =>
    /\ LET f == reply.mxcsr.flags
       IN  f.IE + \h2 * f.DE + \h4 * f.ZE + \h8 * f.OE + \h10 * f.UE + \h20 * f.PE
             + \h40 * f.DAZ + \h80 * f.IM + \h100 * f.DM + \h200 * f.ZM + \h400 * f.OM
             + \h800 * f.UM + \h1000 * f.PM + \h2000 * reply.mxcsr.RC + \h8000 * f.FZ
             = word
    /\ LET f == reply.status.flags
       IN  f.I + \h2 * f.D + \h4 * f.Z + \h8 * f.O + \h10 * f.U + \h20 * f.P + \h40 * f.SF
             + \h80 * f.ES + \h100 * f.C0 + \h200 * f.C1 + \h400 * f.C2
             + \h800 * reply.status.TOP + \h4000 * f.C3 + \h8000 * f.B
             = word
    /\ LET f == reply.control.flags
       IN  f.IM + \h2 * f.DM + \h4 * f.ZM + \h8 * f.OM + \h10 * f.UM + \h20 * f.PM
             + \h80 * f.IEM + \h100 * reply.control.PC + \h400 * reply.control.RC
             + \h1000 * f.IC
             = word - \h40 * ((word \div \h40) % 2) - \h2000 * (word \div \h2000)
    /\ LET tag(i) == reply.fpu[i].tag
       IN  tag(0) + 4 * tag(1) + 16 * tag(2) + 64 * tag(3) + 256 * tag(4) + 1024 * tag(5)
             + 4096 * tag(6) + 16384 * tag(7) = TagWord
=============================================================================
