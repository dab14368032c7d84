---------------------------- MODULE RegDump_proofs ----------------------------
(***************************************************************************)
(* The rotation of the x87 stack and the fields of the words, for any      *)
(* words and any register contents.                                        *)
(***************************************************************************)
EXTENDS RegDump, TLAPS

(* GetSTValueFromIndex inverts the numbering of the stack from its top. *)
LEMMA Rotation ==
  ASSUME NEW top \in Register, NEW s \in Register
  PROVE  /\ (top + s) % 8 \in Register
         /\ GetSTValueFromIndex(Getx87r0PositionInRegisterArea(top), (top + s) % 8) = s
<1>1. CASE top + s < 8
  <2>1. (top + s) % 8 = top + s
    BY <1>1 DEF Register
  <2>2. QED BY <2>1, <1>1 DEF Register, GetSTValueFromIndex, Getx87r0PositionInRegisterArea
<1>2. CASE top + s >= 8
  <2>1. (top + s) % 8 = top + s - 8
    BY <1>2 DEF Register
  <2>2. QED BY <2>1, <1>2 DEF Register, GetSTValueFromIndex, Getx87r0PositionInRegisterArea
<1>3. QED BY <1>1, <1>2 DEF Register

Top == (word \div \h800) % 8

Position(i) == GetSTValueFromIndex(Getx87r0PositionInRegisterArea(Top), i)

IInv ==
  /\ word \in Word
  /\ TagWord \in Word
  /\ Read => /\ reply.mxcsr = GetMxCsrFields(word)
             /\ reply.control = Getx87ControlWordFields(word)
             /\ reply.status = Getx87StatusWordFields(word)
             /\ reply.status.TOP = Top
             /\ \A i \in Register : /\ reply.fpu[i].st_value = Position(i)
                                    /\ reply.fpu[i].data = RegisterArea[Position(i)]
                                    /\ reply.fpu[i].tag = (TagWord \div 4^i) % 4
                                    /\ reply.mmx[i] = RegisterArea[Position(i)]

(* The reply describes the registers it was made from. *)
THEOREM Invariance == Spec => []IInv
<1>1. Init => IInv
  BY DEF Init, IInv, Read
<1>2. ASSUME IInv, [Next]_vars PROVE IInv'
  <2>1. CASE Next
    BY <1>2, <2>1 DEF IInv, Next, dbg_read_regs, Read, Top, Position, Getx87StatusWordFields,
                      x87FPURegister
  <2>2. CASE UNCHANGED vars
    BY <1>2, <2>2 DEF IInv, vars, Read, Top, Position
  <2>3. QED BY <1>2, <2>1, <2>2
<1>3. QED BY <1>1, <1>2, PTL DEF Spec

(* Counted from the reply's own TOP, every register of the stack has its   *)
(* number, its contents and the tag of the physical register it is in, and *)
(* the MMX registers are parts of them.                                    *)
THEOREM StackIsRotated == Spec => []StackFromTop
<1>1. IInv => StackFromTop
  <2> SUFFICES ASSUME IInv, Read PROVE StackFromTop
    BY DEF StackFromTop
  <2>1. Top \in Register
    <3>1. word \in Word
      BY DEF IInv
    <3>2. word \in Int
      BY <3>1, RegDumpAssumption
    <3>3. QED BY <3>2 DEF Top, Register
  <2>2. ASSUME NEW s \in Register
        PROVE  LET p == (reply.status.TOP + s) % 8
                   r == reply.fpu[p]
               IN  /\ r.st_value = s
                   /\ r.data = RegisterArea[s]
                   /\ r.tag = (TagWord \div 4^p) % 4
    <3>1. (Top + s) % 8 \in Register /\ Position((Top + s) % 8) = s
      BY <2>1, Rotation DEF Position
    <3>2. QED BY <3>1 DEF IInv
  <2>3. QED BY <2>2 DEF StackFromTop, IInv
<1>2. QED BY <1>1, Invariance, PTL

-----------------------------------------------------------------------------
Digit(at) == (word \div at) % 2

IsWord == word \in Nat /\ word < 65536

(* A flag is the digit of the word that its mask selects. *)
LEMMA FlagIsDigit ==
  ASSUME NEW masks, NEW f \in DOMAIN masks
  PROVE  Flags(masks, word)[f] = Digit(masks[f])
BY DEF Flags, Digit

LEMMA MxCsrFlags ==
  LET f == GetMxCsrFields(word).flags
  IN  /\ f.IE = Digit(1) /\ f.DE = Digit(2) /\ f.ZE = Digit(4) /\ f.OE = Digit(8)
      /\ f.UE = Digit(16) /\ f.PE = Digit(32) /\ f.DAZ = Digit(64) /\ f.IM = Digit(128)
      /\ f.DM = Digit(256) /\ f.ZM = Digit(512) /\ f.OM = Digit(1024) /\ f.UM = Digit(2048)
      /\ f.PM = Digit(4096) /\ f.FZ = Digit(32768)
<1>1. \A name \in DOMAIN MXCSRFLAG :
        GetMxCsrFields(word).flags[name] = Digit(MXCSRFLAG[name])
  BY FlagIsDigit DEF GetMxCsrFields
<1>2. QED BY <1>1 DEF MXCSRFLAG

LEMMA StatusFlags ==
  LET f == Getx87StatusWordFields(word).flags
  IN  /\ f.I = Digit(1) /\ f.D = Digit(2) /\ f.Z = Digit(4) /\ f.O = Digit(8)
      /\ f.U = Digit(16) /\ f.P = Digit(32) /\ f.SF = Digit(64) /\ f.ES = Digit(128)
      /\ f.C0 = Digit(256) /\ f.C1 = Digit(512) /\ f.C2 = Digit(1024) /\ f.C3 = Digit(16384)
      /\ f.B = Digit(32768)
<1>1. \A name \in DOMAIN x87STATUSWORD_FLAG :
        Getx87StatusWordFields(word).flags[name] = Digit(x87STATUSWORD_FLAG[name])
  BY FlagIsDigit DEF Getx87StatusWordFields
<1>2. QED BY <1>1 DEF x87STATUSWORD_FLAG

LEMMA ControlFlags ==
  LET f == Getx87ControlWordFields(word).flags
  IN  /\ f.IM = Digit(1) /\ f.DM = Digit(2) /\ f.ZM = Digit(4) /\ f.OM = Digit(8)
      /\ f.UM = Digit(16) /\ f.PM = Digit(32) /\ f.IEM = Digit(128) /\ f.IC = Digit(4096)
<1>1. \A name \in DOMAIN x87CONTROLWORD_FLAG :
        Getx87ControlWordFields(word).flags[name] = Digit(x87CONTROLWORD_FLAG[name])
  BY FlagIsDigit DEF Getx87ControlWordFields
<1>2. QED BY <1>1 DEF x87CONTROLWORD_FLAG

(* What a word is divided at a weight consists of the digits from there on.*)
LEMMA Digits ==
  ASSUME IsWord
  PROVE  /\ word = Digit(1) + 2 * Digit(2) + 4 * Digit(4) + 8 * (word \div 8)
         /\ word \div 8 = Digit(8) + 2 * Digit(16) + 4 * Digit(32) + 8 * (word \div 64)
         /\ word \div 64 = Digit(64) + 2 * Digit(128) + 4 * (word \div 256)
         /\ word \div 256 = Digit(256) + 2 * Digit(512) + 4 * Digit(1024)
                              + 8 * (word \div 2048)
         /\ word \div 2048 = Digit(2048) + 2 * Digit(4096) + 4 * (word \div 8192)
         /\ word \div 16384 = Digit(16384) + 2 * Digit(32768)
<1> DEFINE q(at) == word \div at
<1>1. word = Digit(1) + 2 * Digit(2) + 4 * Digit(4) + 8 * q(8)
  <2>1. word \in Int /\ q(2) \in Int /\ q(4) \in Int /\ q(8) \in Int
    BY DEF IsWord
  <2>2. Digit(1) \in Int /\ Digit(2) \in Int /\ Digit(4) \in Int
    BY DEF IsWord, Digit
  <2>3. /\ word = 2 * q(2) + Digit(1)
        /\ q(2) = 2 * q(4) + Digit(2)
        /\ q(4) = 2 * q(8) + Digit(4)
    BY DEF IsWord, Digit
  <2> HIDE DEF q
  <2>4. QED BY <2>1, <2>2, <2>3
<1>2. q(8) = Digit(8) + 2 * Digit(16) + 4 * Digit(32) + 8 * q(64)
  <2>1. q(8) \in Int /\ q(16) \in Int /\ q(32) \in Int /\ q(64) \in Int
    BY DEF IsWord
  <2>2. Digit(8) \in Int /\ Digit(16) \in Int /\ Digit(32) \in Int
    BY DEF IsWord, Digit
  <2>3. /\ q(8) = 2 * q(16) + Digit(8)
        /\ q(16) = 2 * q(32) + Digit(16)
        /\ q(32) = 2 * q(64) + Digit(32)
    BY DEF IsWord, Digit
  <2> HIDE DEF q
  <2>4. QED BY <2>1, <2>2, <2>3
<1>3. q(64) = Digit(64) + 2 * Digit(128) + 4 * q(256)
  <2>1. q(64) \in Int /\ q(128) \in Int /\ q(256) \in Int
    BY DEF IsWord
  <2>2. Digit(64) \in Int /\ Digit(128) \in Int
    BY DEF IsWord, Digit
  <2>3. /\ q(64) = 2 * q(128) + Digit(64)
        /\ q(128) = 2 * q(256) + Digit(128)
    BY DEF IsWord, Digit
  <2> HIDE DEF q
  <2>4. QED BY <2>1, <2>2, <2>3
<1>4. q(256) = Digit(256) + 2 * Digit(512) + 4 * Digit(1024) + 8 * q(2048)
  <2>1. q(256) \in Int /\ q(512) \in Int /\ q(1024) \in Int /\ q(2048) \in Int
    BY DEF IsWord
  <2>2. Digit(256) \in Int /\ Digit(512) \in Int /\ Digit(1024) \in Int
    BY DEF IsWord, Digit
  <2>3. /\ q(256) = 2 * q(512) + Digit(256)
        /\ q(512) = 2 * q(1024) + Digit(512)
        /\ q(1024) = 2 * q(2048) + Digit(1024)
    BY DEF IsWord, Digit
  <2> HIDE DEF q
  <2>4. QED BY <2>1, <2>2, <2>3
<1>5. q(2048) = Digit(2048) + 2 * Digit(4096) + 4 * q(8192)
  <2>1. q(2048) \in Int /\ q(4096) \in Int /\ q(8192) \in Int
    BY DEF IsWord
  <2>2. Digit(2048) \in Int /\ Digit(4096) \in Int
    BY DEF IsWord, Digit
  <2>3. q(2048) = 2 * q(4096) + Digit(2048)
    BY DEF IsWord, Digit
  <2>4. q(4096) = 2 * q(8192) + Digit(4096)
    BY DEF IsWord, Digit
  <2> HIDE DEF q
  <2>5. QED BY <2>1, <2>2, <2>3, <2>4
<1>6. word \div 16384 = Digit(16384) + 2 * Digit(32768)
  <2>1. word \div 32768 = 0 \/ word \div 32768 = 1
    BY DEF IsWord
  <2>2. Digit(32768) = word \div 32768
    BY <2>1 DEF Digit
  <2>3. word \div 16384 = 2 * (word \div 32768) + Digit(16384)
    BY DEF IsWord, Digit
  <2>4. word \div 16384 \in Int /\ Digit(16384) \in Int
    BY DEF IsWord, Digit
  <2>5. QED BY <2>1, <2>2, <2>3, <2>4
<1>7. QED BY <1>1, <1>2, <1>3, <1>4, <1>5, <1>6 DEF q

(* The fields of several bits. *)
LEMMA Fields ==
  ASSUME IsWord
  PROVE  /\ word \div 8192 = GetMxCsrFields(word).RC + 4 * Digit(32768)
         /\ word \div 2048 = Getx87StatusWordFields(word).TOP + 8 * (word \div 16384)
         /\ word \div 256 = Getx87ControlWordFields(word).PC
                              + 4 * Getx87ControlWordFields(word).RC
                              + 16 * Digit(4096) + 32 * (word \div 8192)
<1>1. /\ word \div 256 \in Int /\ word \div 1024 \in Int /\ word \div 4096 \in Int
      /\ word \div 8192 \in Int /\ (word \div 256) % 4 \in Int /\ (word \div 1024) % 4 \in Int
      /\ Digit(4096) \in Int
  BY DEF IsWord, Digit
<1>2. word \div 8192 = GetMxCsrFields(word).RC + 4 * Digit(32768)
  <2>1. Digit(32768) = word \div 32768
    <3>1. word \div 32768 = 0 \/ word \div 32768 = 1
      BY DEF IsWord
    <3>2. QED BY <3>1 DEF Digit
  <2>2. word \div 8192 = ((word \div 8192) % 4) + 4 * (word \div 32768)
    BY DEF IsWord
  <2>3. QED BY <2>1, <2>2 DEF GetMxCsrFields
<1>3. word \div 2048 = Getx87StatusWordFields(word).TOP + 8 * (word \div 16384)
  <2>1. word \div 2048 = ((word \div 2048) % 8) + 8 * (word \div 16384)
    BY DEF IsWord
  <2>2. QED BY <2>1 DEF Getx87StatusWordFields
<1>4. word \div 256 = ((word \div 256) % 4) + 4 * (word \div 1024)
  BY DEF IsWord
<1>5. word \div 1024 = ((word \div 1024) % 4) + 4 * (word \div 4096)
  BY DEF IsWord
<1>6. word \div 4096 = Digit(4096) + 2 * (word \div 8192)
  BY DEF IsWord, Digit
<1>7. word \div 256 = Getx87ControlWordFields(word).PC + 4 * Getx87ControlWordFields(word).RC
                        + 16 * Digit(4096) + 32 * (word \div 8192)
  <2> DEFINE PC == (word \div 256) % 4
  <2> DEFINE RC == (word \div 1024) % 4
  <2> DEFINE q(at) == word \div at
  <2>1. q(256) \in Int /\ q(1024) \in Int /\ q(4096) \in Int /\ q(8192) \in Int
        /\ PC \in Int /\ RC \in Int
    BY <1>1
  <2>2. q(256) = PC + 4 * q(1024) /\ q(1024) = RC + 4 * q(4096)
    BY <1>4, <1>5
  <2>3. q(4096) = Digit(4096) + 2 * q(8192)
    BY <1>6
  <2>4. Getx87ControlWordFields(word).PC = PC /\ Getx87ControlWordFields(word).RC = RC
    BY DEF Getx87ControlWordFields
  <2> HIDE DEF q, PC, RC
  <2>5. q(256) = PC + 4 * RC + 16 * Digit(4096) + 32 * q(8192)
    BY <1>1, <2>1, <2>2, <2>3
  <2>6. QED BY <2>4, <2>5 DEF q
<1>8. QED BY <1>2, <1>3, <1>7

LEMMA FieldTypes ==
  ASSUME IsWord
  PROVE  /\ GetMxCsrFields(word).RC \in Int /\ Getx87StatusWordFields(word).TOP \in Int
         /\ Getx87ControlWordFields(word).PC \in Int /\ Getx87ControlWordFields(word).RC \in Int
<1>1. /\ (word \div 8192) % 4 \in Int /\ (word \div 2048) % 8 \in Int
      /\ (word \div 256) % 4 \in Int /\ (word \div 1024) % 4 \in Int
  BY DEF IsWord
<1>2. QED BY <1>1 DEF GetMxCsrFields, Getx87StatusWordFields, Getx87ControlWordFields

LEMMA DigitTypes ==
  ASSUME IsWord
  PROVE  /\ Digit(1) \in Int /\ Digit(2) \in Int /\ Digit(4) \in Int /\ Digit(8) \in Int
         /\ Digit(16) \in Int /\ Digit(32) \in Int /\ Digit(64) \in Int /\ Digit(128) \in Int
         /\ Digit(256) \in Int /\ Digit(512) \in Int /\ Digit(1024) \in Int
         /\ Digit(2048) \in Int /\ Digit(4096) \in Int /\ Digit(16384) \in Int
         /\ Digit(32768) \in Int
<1>1. /\ Digit(1) \in Int /\ Digit(2) \in Int /\ Digit(4) \in Int /\ Digit(8) \in Int
      /\ Digit(16) \in Int
  BY DEF IsWord, Digit
<1>2. /\ Digit(32) \in Int /\ Digit(64) \in Int /\ Digit(128) \in Int /\ Digit(256) \in Int
      /\ Digit(512) \in Int
  BY DEF IsWord, Digit
<1>3. /\ Digit(1024) \in Int /\ Digit(2048) \in Int /\ Digit(4096) \in Int
      /\ Digit(16384) \in Int /\ Digit(32768) \in Int
  BY DEF IsWord, Digit
<1>4. QED BY <1>1, <1>2, <1>3

-----------------------------------------------------------------------------
(* The fields of each word, weighted, are the word. *)
LEMMA MxCsrWord ==
  ASSUME IsWord
  PROVE  LET f == GetMxCsrFields(word).flags
         IN  f.IE + \h2 * f.DE + \h4 * f.ZE + \h8 * f.OE + \h10 * f.UE + \h20 * f.PE
               + \h40 * f.DAZ + \h80 * f.IM + \h100 * f.DM + \h200 * f.ZM + \h400 * f.OM
               + \h800 * f.UM + \h1000 * f.PM + \h2000 * GetMxCsrFields(word).RC
               + \h8000 * f.FZ
               = word
<1> DEFINE q(at) == word \div at
<1> DEFINE RC == GetMxCsrFields(word).RC
<1>1. /\ word \in Int /\ q(8) \in Int /\ q(64) \in Int /\ q(256) \in Int
      /\ q(2048) \in Int /\ q(8192) \in Int
  BY DEF IsWord
<1>2. RC \in Int
  BY FieldTypes
<1>3. /\ word = Digit(1) + 2 * Digit(2) + 4 * Digit(4) + 8 * q(8)
      /\ q(8) = Digit(8) + 2 * Digit(16) + 4 * Digit(32) + 8 * q(64)
      /\ q(64) = Digit(64) + 2 * Digit(128) + 4 * q(256)
      /\ q(256) = Digit(256) + 2 * Digit(512) + 4 * Digit(1024) + 8 * q(2048)
      /\ q(2048) = Digit(2048) + 2 * Digit(4096) + 4 * q(8192)
      /\ q(8192) = RC + 4 * Digit(32768)
  BY Digits, Fields
<1>4. /\ Digit(1) \in Int /\ Digit(2) \in Int /\ Digit(4) \in Int /\ Digit(8) \in Int
      /\ Digit(16) \in Int /\ Digit(32) \in Int /\ Digit(64) \in Int /\ Digit(128) \in Int
      /\ Digit(256) \in Int /\ Digit(512) \in Int /\ Digit(1024) \in Int
      /\ Digit(2048) \in Int /\ Digit(4096) \in Int /\ Digit(16384) \in Int
      /\ Digit(32768) \in Int
  BY DigitTypes
<1> HIDE DEF q, RC
<1>5. word = Digit(1) + 2 * Digit(2) + 4 * Digit(4) + 8 * Digit(8) + 16 * Digit(16)
               + 32 * Digit(32) + 64 * q(64)
  BY <1>1, <1>2, <1>4, <1>3
<1>6. q(64) = Digit(64) + 2 * Digit(128) + 4 * Digit(256) + 8 * Digit(512)
                + 16 * Digit(1024) + 32 * q(2048)
  BY <1>1, <1>2, <1>4, <1>3
<1>7. q(2048) = Digit(2048) + 2 * Digit(4096) + 4 * RC + 16 * Digit(32768)
  BY <1>1, <1>2, <1>4, <1>3
<1>8. q(64) = Digit(64) + 2 * Digit(128) + 4 * Digit(256) + 8 * Digit(512)
                + 16 * Digit(1024) + 32 * Digit(2048) + 64 * Digit(4096) + 128 * RC
                + 512 * Digit(32768)
  BY <1>1, <1>2, <1>4, <1>6, <1>7
<1>9. word = Digit(1) + 2 * Digit(2) + 4 * Digit(4) + 8 * Digit(8) + 16 * Digit(16)
               + 32 * Digit(32) + 64 * Digit(64) + 128 * Digit(128) + 256 * Digit(256)
               + 512 * Digit(512) + 1024 * Digit(1024) + 2048 * Digit(2048)
               + 4096 * Digit(4096) + 8192 * RC + 32768 * Digit(32768)
  BY <1>1, <1>2, <1>4, <1>5, <1>8
<1>10. QED BY <1>9, MxCsrFlags DEF RC

LEMMA StatusWord ==
  ASSUME IsWord
  PROVE  LET f == Getx87StatusWordFields(word).flags
         IN  f.I + \h2 * f.D + \h4 * f.Z + \h8 * f.O + \h10 * f.U + \h20 * f.P + \h40 * f.SF
               + \h80 * f.ES + \h100 * f.C0 + \h200 * f.C1 + \h400 * f.C2
               + \h800 * Getx87StatusWordFields(word).TOP + \h4000 * f.C3 + \h8000 * f.B
               = word
<1> DEFINE q(at) == word \div at
<1> DEFINE TOP == Getx87StatusWordFields(word).TOP
<1>1. /\ word \in Int /\ q(8) \in Int /\ q(64) \in Int /\ q(256) \in Int
      /\ q(2048) \in Int /\ q(16384) \in Int
  BY DEF IsWord
<1>2. TOP \in Int
  BY FieldTypes
<1>3. /\ word = Digit(1) + 2 * Digit(2) + 4 * Digit(4) + 8 * q(8)
      /\ q(8) = Digit(8) + 2 * Digit(16) + 4 * Digit(32) + 8 * q(64)
      /\ q(64) = Digit(64) + 2 * Digit(128) + 4 * q(256)
      /\ q(256) = Digit(256) + 2 * Digit(512) + 4 * Digit(1024) + 8 * q(2048)
      /\ q(2048) = TOP + 8 * q(16384)
      /\ q(16384) = Digit(16384) + 2 * Digit(32768)
  BY Digits, Fields
<1>4. /\ Digit(1) \in Int /\ Digit(2) \in Int /\ Digit(4) \in Int /\ Digit(8) \in Int
      /\ Digit(16) \in Int /\ Digit(32) \in Int /\ Digit(64) \in Int /\ Digit(128) \in Int
      /\ Digit(256) \in Int /\ Digit(512) \in Int /\ Digit(1024) \in Int
      /\ Digit(2048) \in Int /\ Digit(4096) \in Int /\ Digit(16384) \in Int
      /\ Digit(32768) \in Int
  BY DigitTypes
<1> HIDE DEF q, TOP
<1>5. word = Digit(1) + 2 * Digit(2) + 4 * Digit(4) + 8 * Digit(8) + 16 * Digit(16)
               + 32 * Digit(32) + 64 * q(64)
  BY <1>1, <1>2, <1>4, <1>3
<1>6. q(64) = Digit(64) + 2 * Digit(128) + 4 * Digit(256) + 8 * Digit(512)
                + 16 * Digit(1024) + 32 * q(2048)
  BY <1>1, <1>2, <1>4, <1>3
<1>7. q(2048) = TOP + 8 * Digit(16384) + 16 * Digit(32768)
  BY <1>1, <1>2, <1>4, <1>3
<1>8. q(64) = Digit(64) + 2 * Digit(128) + 4 * Digit(256) + 8 * Digit(512)
                + 16 * Digit(1024) + 32 * TOP + 256 * Digit(16384) + 512 * Digit(32768)
  BY <1>1, <1>2, <1>4, <1>6, <1>7
<1>9. 64 * q(64) = 64 * Digit(64) + 128 * Digit(128) + 256 * Digit(256) + 512 * Digit(512)
                     + 1024 * Digit(1024) + 2048 * TOP + 16384 * Digit(16384)
                     + 32768 * Digit(32768)
  BY <1>1, <1>2, <1>4, <1>8
<1>10. word = Digit(1) + 2 * Digit(2) + 4 * Digit(4) + 8 * Digit(8) + 16 * Digit(16)
                + 32 * Digit(32) + 64 * Digit(64) + 128 * Digit(128) + 256 * Digit(256)
                + 512 * Digit(512) + 1024 * Digit(1024) + 2048 * TOP + 16384 * Digit(16384)
                + 32768 * Digit(32768)
  BY <1>1, <1>2, <1>4, <1>5, <1>9
<1>11. QED BY <1>10, StatusFlags DEF TOP

LEMMA ControlWord ==
  ASSUME IsWord
  PROVE  LET f == Getx87ControlWordFields(word).flags
         IN  f.IM + \h2 * f.DM + \h4 * f.ZM + \h8 * f.OM + \h10 * f.UM + \h20 * f.PM
               + \h80 * f.IEM + \h100 * Getx87ControlWordFields(word).PC
               + \h400 * Getx87ControlWordFields(word).RC + \h1000 * f.IC
               = word - \h40 * ((word \div \h40) % 2) - \h2000 * (word \div \h2000)
<1> DEFINE q(at) == word \div at
<1> DEFINE PC == Getx87ControlWordFields(word).PC
<1> DEFINE RC == Getx87ControlWordFields(word).RC
<1>1. /\ word \in Int /\ q(8) \in Int /\ q(64) \in Int /\ q(256) \in Int
      /\ q(8192) \in Int
  BY DEF IsWord
<1>2. PC \in Int /\ RC \in Int
  BY FieldTypes
<1>3. /\ word = Digit(1) + 2 * Digit(2) + 4 * Digit(4) + 8 * q(8)
      /\ q(8) = Digit(8) + 2 * Digit(16) + 4 * Digit(32) + 8 * q(64)
      /\ q(64) = Digit(64) + 2 * Digit(128) + 4 * q(256)
      /\ q(256) = PC + 4 * RC + 16 * Digit(4096) + 32 * q(8192)
  BY Digits, Fields
<1>4. (word \div \h40) % 2 = Digit(64) /\ word \div \h2000 = q(8192)
  BY DEF Digit
<1>5. /\ Digit(1) \in Int /\ Digit(2) \in Int /\ Digit(4) \in Int /\ Digit(8) \in Int
      /\ Digit(16) \in Int /\ Digit(32) \in Int /\ Digit(64) \in Int /\ Digit(128) \in Int
      /\ Digit(256) \in Int /\ Digit(512) \in Int /\ Digit(1024) \in Int
      /\ Digit(2048) \in Int /\ Digit(4096) \in Int /\ Digit(16384) \in Int
      /\ Digit(32768) \in Int
  BY DigitTypes
<1> HIDE DEF q, PC, RC
<1>6. word = Digit(1) + 2 * Digit(2) + 4 * Digit(4) + 8 * Digit(8) + 16 * Digit(16)
               + 32 * Digit(32) + 64 * q(64)
  BY <1>1, <1>2, <1>5, <1>3
<1>7. q(64) = Digit(64) + 2 * Digit(128) + 4 * PC + 16 * RC + 64 * Digit(4096)
                + 128 * q(8192)
  BY <1>1, <1>2, <1>5, <1>3
<1>8. word = Digit(1) + 2 * Digit(2) + 4 * Digit(4) + 8 * Digit(8) + 16 * Digit(16)
               + 32 * Digit(32) + 64 * Digit(64) + 128 * Digit(128) + 256 * PC + 1024 * RC
               + 4096 * Digit(4096) + 8192 * q(8192)
  BY <1>1, <1>2, <1>5, <1>6, <1>7
<1>9. Digit(1) + 2 * Digit(2) + 4 * Digit(4) + 8 * Digit(8) + 16 * Digit(16)
        + 32 * Digit(32) + 128 * Digit(128) + 256 * PC + 1024 * RC + 4096 * Digit(4096)
        = word - 64 * Digit(64) - 8192 * q(8192)
  BY <1>1, <1>2, <1>5, <1>8
<1>10. QED BY <1>4, <1>9, ControlFlags DEF PC, RC

(* The registers' tags: a word's digits of two bits. *)
LEMMA TagsAreTheWord ==
  ASSUME NEW w \in Nat, w < 65536
  PROVE  LET tag(i) == (w \div 4^i) % 4
         IN  tag(0) + 4 * tag(1) + 16 * tag(2) + 64 * tag(3) + 256 * tag(4) + 1024 * tag(5)
               + 4096 * tag(6) + 16384 * tag(7) = w
<1> DEFINE q(at) == w \div at
<1> DEFINE d(at) == (w \div at) % 4
<1>1. /\ w \in Int /\ q(16) \in Int /\ q(256) \in Int /\ q(4096) \in Int
      /\ q(4) \in Int /\ q(64) \in Int /\ q(1024) \in Int /\ q(16384) \in Int
  OBVIOUS
<1>2. d(1) \in Int /\ d(4) \in Int /\ d(16) \in Int /\ d(64) \in Int
  OBVIOUS
<1>3. d(256) \in Int /\ d(1024) \in Int /\ d(4096) \in Int /\ d(16384) \in Int
  OBVIOUS
<1>4. w = d(1) + 4 * q(4) /\ q(4) = d(4) + 4 * q(16)
  OBVIOUS
<1>5. q(16) = d(16) + 4 * q(64) /\ q(64) = d(64) + 4 * q(256)
  OBVIOUS
<1>6. q(256) = d(256) + 4 * q(1024) /\ q(1024) = d(1024) + 4 * q(4096)
  OBVIOUS
<1>7. q(4096) = d(4096) + 4 * q(16384) /\ q(16384) = d(16384)
  <2>1. q(4096) = d(4096) + 4 * q(16384)
    OBVIOUS
  <2>2. q(16384) = 0 \/ q(16384) = 1 \/ q(16384) = 2 \/ q(16384) = 3
    OBVIOUS
  <2>3. q(16384) = d(16384)
    BY <2>2
  <2>4. QED BY <2>1, <2>3
<1> HIDE DEF q
<1>8. /\ (w \div 4^0) % 4 = d(1) /\ (w \div 4^1) % 4 = d(4)
      /\ (w \div 4^2) % 4 = d(16) /\ (w \div 4^3) % 4 = d(64)
  OBVIOUS
<1>9. /\ (w \div 4^4) % 4 = d(256) /\ (w \div 4^5) % 4 = d(1024)
      /\ (w \div 4^6) % 4 = d(4096) /\ (w \div 4^7) % 4 = d(16384)
  OBVIOUS
<1> HIDE DEF d
<1>10. w = d(1) + 4 * d(4) + 16 * q(16)
  BY <1>1, <1>2, <1>4
<1>11. q(16) = d(16) + 4 * d(64) + 16 * q(256)
  BY <1>1, <1>2, <1>5
<1>12. q(256) = d(256) + 4 * d(1024) + 16 * q(4096)
  BY <1>1, <1>3, <1>6
<1>13. q(4096) = d(4096) + 4 * d(16384)
  BY <1>1, <1>3, <1>7
<1>14. q(256) = d(256) + 4 * d(1024) + 16 * d(4096) + 64 * d(16384)
  BY <1>1, <1>3, <1>12, <1>13
<1>15. w = d(1) + 4 * d(4) + 16 * d(16) + 64 * d(64) + 256 * q(256)
  BY <1>1, <1>2, <1>10, <1>11
<1>16. 256 * q(256) = 256 * d(256) + 1024 * d(1024) + 4096 * d(4096) + 16384 * d(16384)
  BY <1>1, <1>3, <1>14
<1>17. w = d(1) + 4 * d(4) + 16 * d(16) + 64 * d(64) + 256 * d(256) + 1024 * d(1024)
                + 4096 * d(4096) + 16384 * d(16384)
  BY <1>1, <1>2, <1>3, <1>15, <1>16
<1>18. QED BY <1>8, <1>9, <1>17

-----------------------------------------------------------------------------
(* No field of a word overlaps another and no bit is missing from all of   *)
(* them, for each of the 2^16 values of a word: weighted and added up, the *)
(* fields of a reply are the word it was made from.                        *)
THEOREM FieldsAreTheWord == Spec => []FieldsPartitionWords
<1>1. IInv => FieldsPartitionWords
  <2> SUFFICES ASSUME IInv, Read PROVE FieldsPartitionWords
    BY DEF FieldsPartitionWords
  <2>1. IsWord
    <3>1. word \in Word
      BY DEF IInv
    <3>2. QED BY <3>1, RegDumpAssumption DEF IsWord
  <2>2. /\ reply.mxcsr = GetMxCsrFields(word) /\ reply.status = Getx87StatusWordFields(word)
        /\ reply.control = Getx87ControlWordFields(word)
    BY DEF IInv
  <2>3. \A i \in Register : reply.fpu[i].tag = (TagWord \div 4^i) % 4
    BY DEF IInv
  <2>4. /\ reply.fpu[0].tag = (TagWord \div 4^0) % 4 /\ reply.fpu[1].tag = (TagWord \div 4^1) % 4
        /\ reply.fpu[2].tag = (TagWord \div 4^2) % 4 /\ reply.fpu[3].tag = (TagWord \div 4^3) % 4
        /\ reply.fpu[4].tag = (TagWord \div 4^4) % 4 /\ reply.fpu[5].tag = (TagWord \div 4^5) % 4
        /\ reply.fpu[6].tag = (TagWord \div 4^6) % 4 /\ reply.fpu[7].tag = (TagWord \div 4^7) % 4
    BY <2>3 DEF Register
  <2> DEFINE tag(i) == reply.fpu[i].tag
  <2>5. tag(0) + 4 * tag(1) + 16 * tag(2) + 64 * tag(3) + 256 * tag(4) + 1024 * tag(5)
          + 4096 * tag(6) + 16384 * tag(7) = TagWord
    <3>1. TagWord \in Word
      BY DEF IInv
    <3>2. TagWord \in Nat /\ TagWord < 65536
      BY <3>1, RegDumpAssumption
    <3>3. QED BY <2>4, <3>2, TagsAreTheWord
  <2>6. QED
    <3> HIDE DEF tag
    <3>1. LET f == reply.mxcsr.flags
          IN  f.IE + \h2 * f.DE + \h4 * f.ZE + \h8 * f.OE + \h10 * f.UE + \h20 * f.PE
                + \h40 * f.DAZ + \h80 * f.IM + \h100 * f.DM + \h200 * f.ZM + \h400 * f.OM
                + \h800 * f.UM + \h1000 * f.PM + \h2000 * reply.mxcsr.RC + \h8000 * f.FZ
                = word
      BY <2>1, <2>2, MxCsrWord
    <3>2. LET f == reply.status.flags
          IN  f.I + \h2 * f.D + \h4 * f.Z + \h8 * f.O + \h10 * f.U + \h20 * f.P + \h40 * f.SF
                + \h80 * f.ES + \h100 * f.C0 + \h200 * f.C1 + \h400 * f.C2
                + \h800 * reply.status.TOP + \h4000 * f.C3 + \h8000 * f.B
                = word
      BY <2>1, <2>2, StatusWord
    <3>3. LET f == reply.control.flags
          IN  f.IM + \h2 * f.DM + \h4 * f.ZM + \h8 * f.OM + \h10 * f.UM + \h20 * f.PM
                + \h80 * f.IEM + \h100 * reply.control.PC + \h400 * reply.control.RC
                + \h1000 * f.IC
                = word - \h40 * ((word \div \h40) % 2) - \h2000 * (word \div \h2000)
      BY <2>1, <2>2, ControlWord
    <3>4. QED BY <2>5, <3>1, <3>2, <3>3 DEF FieldsPartitionWords, tag
<1>2. QED BY <1>1, Invariance, PTL
=============================================================================
