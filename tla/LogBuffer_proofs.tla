-------------------------- MODULE LogBuffer_proofs ---------------------------
(***************************************************************************)
(* Theorems about LogBuffer, for every MAX_ENTRIES, MAX_BYTES and set of   *)
(* messages.  The invariant is the conjunction of the invariants TLC       *)
(* checks; the byte count needs what the recursive function PrefixBytes    *)
(* returns, which is proved by looking at a least counterexample.          *)
(***************************************************************************)
EXTENDS LogBuffer, TLAPS, FiniteSetTheorems, SequenceTheorems

-----------------------------------------------------------------------------
(* A set of natural numbers that is not empty has a least element: strict  *)
(* inclusion between the intervals 0 .. n is well-founded.                 *)
LEMMA LeastNat ==
  ASSUME NEW T \in SUBSET Nat, T # {}
  PROVE  \E n \in T : \A m \in T : n <= m
<1> DEFINE F == {0 .. n : n \in T}
<1>1. F \subseteq FiniteSubsetsOf(Nat)
  <2>1. SUFFICES ASSUME NEW n \in T PROVE 0 .. n \in FiniteSubsetsOf(Nat)
    OBVIOUS
  <2>2. IsFiniteSet(0 .. n) /\ 0 .. n \in SUBSET Nat
    BY FS_Interval
  <2>3. QED BY <2>2 DEF FiniteSubsetsOf
<1>2. PICK x \in F : \A y \in F : <<y, x>> \notin StrictSubsetOrdering(Nat)
  <2>1. F # {}
    OBVIOUS
  <2> HIDE DEF F
  <2> QED BY <1>1, <2>1, WFMin, FS_StrictSubsetOrderingWellFounded
<1>3. PICK n \in T : x = 0 .. n
  BY <1>2
<1>4. ASSUME NEW m \in T, m < n PROVE FALSE
  <2>1. <<0 .. m, x>> \in StrictSubsetOrdering(Nat)
    BY <1>3, <1>4 DEF StrictSubsetOrdering
  <2>2. QED BY <1>2, <2>1
<1>5. QED BY <1>3, <1>4

(* Two functions that start alike and grow alike are alike. *)
LEMMA StepwiseEqual ==
  ASSUME NEW N \in Nat, NEW f \in [0 .. N -> Int], NEW g \in [0 .. N -> Int],
         f[0] = g[0],
         \A n \in 1 .. N : f[n] - f[n-1] = g[n] - g[n-1]
  PROVE  \A n \in 0 .. N : f[n] = g[n]
<1> DEFINE Bad == {n \in 0 .. N : f[n] # g[n]}
<1>1. SUFFICES ASSUME Bad # {} PROVE FALSE
  OBVIOUS
<1>2. PICK n \in Bad : \A m \in Bad : n <= m
  <2>1. Bad \in SUBSET Nat
    OBVIOUS
  <2> HIDE DEF Bad
  <2>2. QED BY <1>1, <2>1, LeastNat
<1>3. n \in 1 .. N /\ n-1 \in 0 .. N /\ f[n-1] = g[n-1]
  BY <1>2
<1>4. f[n] \in Int /\ g[n] \in Int /\ f[n-1] \in Int /\ g[n-1] \in Int
  BY <1>3
<1>5. f[n] - f[n-1] = g[n] - g[n-1]
  BY <1>3
<1>6. QED BY <1>2, <1>3, <1>4, <1>5

-----------------------------------------------------------------------------
(* The functions that sum the sizes of the first entries of s, up to N.    *)
Sums(s, N) ==
  {f \in [0 .. N -> Nat] :
     f = [n \in 0 .. N |-> IF n = 0 THEN 0 ELSE f[n-1] + Len(s[n])]}

LEMMA SumsExist ==
  ASSUME NEW S, NEW s \in Seq(Seq(S)), NEW N \in 0 .. Len(s)
  PROVE  Sums(s, N) # {}
<1> DEFINE Bad == {n \in 0 .. Len(s) : Sums(s, n) = {}}
<1>1. SUFFICES ASSUME Bad # {} PROVE FALSE
  OBVIOUS
<1>2. PICK n \in Bad : \A m \in Bad : n <= m
  <2>1. Bad \in SUBSET Nat
    OBVIOUS
  <2> HIDE DEF Bad
  <2>2. QED BY <1>1, <2>1, LeastNat
<1>3. CASE n = 0
  <2>1. [m \in 0 .. 0 |-> 0] \in Sums(s, 0)
    BY DEF Sums
  <2>2. QED BY <1>2, <1>3, <2>1
<1>4. CASE n # 0
  <2>1. n \in 1 .. Len(s) /\ n-1 \in 0 .. Len(s) /\ n-1 \notin Bad /\ n \in Nat
    <3>1. n \in 0 .. Len(s) /\ n \in Nat /\ Len(s) \in Nat
      BY <1>2
    <3>2. n \in 1 .. Len(s) /\ n-1 \in 0 .. Len(s) /\ ~ (n <= n-1)
      BY <3>1, <1>4
    <3>3. n-1 \notin Bad
      BY <1>2, <3>2
    <3>4. QED BY <3>1, <3>2, <3>3
  <2>2. PICK f \in Sums(s, n-1) : TRUE
    BY <2>1
  <2> DEFINE g == [m \in 0 .. n |-> IF m = n THEN f[n-1] + Len(s[n]) ELSE f[m]]
  <2>3. /\ f \in [0 .. n-1 -> Nat]
        /\ \A m \in 0 .. n-1 : f[m] = IF m = 0 THEN 0 ELSE f[m-1] + Len(s[m])
    BY <2>2 DEF Sums
  <2>4. Len(s[n]) \in Nat
    BY <2>1
  <2>5. g \in [0 .. n -> Nat]
    BY <2>1, <2>3, <2>4
  <2>6. ASSUME NEW m \in 0 .. n
        PROVE  g[m] = IF m = 0 THEN 0 ELSE g[m-1] + Len(s[m])
    <3>1. CASE m = n
      BY <3>1, <1>4, <2>1
    <3>2. CASE m # n
      <4>1. m \in 0 .. n-1 /\ (m # 0 => m-1 \in 0 .. n /\ m-1 # n)
        BY <3>2, <2>1
      <4>2. QED BY <4>1, <2>3, <3>2
    <3>3. QED BY <3>1, <3>2
  <2>7. g \in Sums(s, n)
    BY <2>5, <2>6 DEF Sums
  <2>8. QED BY <1>2, <2>7
<1>5. QED BY <1>3, <1>4

(* PrefixBytes(s) is the function its recursive definition describes, and  *)
(* its values are natural numbers.                                         *)
LEMMA PrefixBytesDef ==
  ASSUME NEW S, NEW s \in Seq(Seq(S))
  PROVE  /\ PrefixBytes(s) \in [0 .. Len(s) -> Nat]
         /\ PrefixBytes(s)[0] = 0
         /\ \A n \in 1 .. Len(s) : PrefixBytes(s)[n] = PrefixBytes(s)[n-1] + Len(s[n])
<1> DEFINE Def(f) == f = [n \in 0 .. Len(s) |-> IF n = 0 THEN 0 ELSE f[n-1] + Size(s[n])]
<1>1. PICK f : Def(f)
  <2>1. Sums(s, Len(s)) # {}
    BY SumsExist
  <2>2. QED BY <2>1 DEF Sums, Size
<1>2. PrefixBytes(s) = CHOOSE g : Def(g)
  BY DEF PrefixBytes
<1>3. Def(PrefixBytes(s))
  <2> HIDE DEF Def
  <2>1. QED BY <1>1, <1>2
<1> DEFINE P == PrefixBytes(s)
<1>4. \A n \in 0 .. Len(s) : P[n] = IF n = 0 THEN 0 ELSE P[n-1] + Len(s[n])
  BY <1>3 DEF Size
<1>5. P = [n \in 0 .. Len(s) |-> P[n]]
  BY <1>3 DEF Size
<1> HIDE DEF P
<1> DEFINE Bad == {n \in 0 .. Len(s) : P[n] \notin Nat}
<1>6. Bad = {}
  <2>1. SUFFICES ASSUME Bad # {} PROVE FALSE
    OBVIOUS
  <2>2. PICK n \in Bad : \A m \in Bad : n <= m
    <3>1. Bad \in SUBSET Nat
      OBVIOUS
    <3> HIDE DEF Bad
    <3>2. QED BY <2>1, <3>1, LeastNat
  <2>3. n # 0
    BY <2>2, <1>4
  <2>4. n-1 \in 0 .. Len(s) /\ P[n-1] \in Nat /\ n \in 1 .. Len(s)
    BY <2>2, <2>3
  <2>5. Len(s[n]) \in Nat
    BY <2>4
  <2>6. QED BY <2>2, <2>3, <2>4, <2>5, <1>4
<1>7. P \in [0 .. Len(s) -> Nat]
  BY <1>5, <1>6
<1>8. \A n \in 1 .. Len(s) : P[n] = P[n-1] + Len(s[n])
  BY <1>4
<1>9. P[0] = 0
  BY <1>4
<1>10. QED BY <1>7, <1>8, <1>9 DEF P

(* Dropping the first k entries takes PrefixBytes(s)[k] off every sum. *)
LEMMA PrefixBytesOfSuffix ==
  ASSUME NEW S, NEW s \in Seq(Seq(S)), NEW k \in 0 .. Len(s)
  PROVE  LET t == SubSeq(s, k+1, Len(s))
         IN  /\ t \in Seq(Seq(S))
             /\ Len(t) = Len(s) - k
             /\ \A n \in 0 .. Len(t) :
                  PrefixBytes(t)[n] = PrefixBytes(s)[n+k] - PrefixBytes(s)[k]
<1> DEFINE t == SubSeq(s, k+1, Len(s))
           P == PrefixBytes(s)
           Q == PrefixBytes(t)
           g == [n \in 0 .. Len(t) |-> P[n+k] - P[k]]
<1>1. /\ t \in Seq(Seq(S))
      /\ Len(t) = Len(s) - k
      /\ \A n \in 1 .. Len(t) : t[n] = s[n+k]
  <2>1. \A n \in k+1 .. Len(s) : s[n] \in Seq(S)
    OBVIOUS
  <2>2. k+1 \in Int /\ Len(s) \in Int
    OBVIOUS
  <2>3. QED BY <2>1, <2>2, SubSeqProperties
<1> HIDE DEF t
<1>2. /\ P \in [0 .. Len(s) -> Nat]
      /\ \A n \in 1 .. Len(s) : P[n] = P[n-1] + Len(s[n])
  BY PrefixBytesDef
<1>3. /\ Q \in [0 .. Len(t) -> Nat]
      /\ Q[0] = 0
      /\ \A n \in 1 .. Len(t) : Q[n] = Q[n-1] + Len(t[n])
  BY <1>1, PrefixBytesDef
<1> HIDE DEF P, Q
<1>4. /\ \A n \in 0 .. Len(t) : n+k \in 0 .. Len(s) /\ P[n+k] \in Nat /\ Q[n] \in Nat
      /\ P[k] \in Nat
  <2>1. \A n \in 0 .. Len(t) : n+k \in 0 .. Len(s)
    BY <1>1
  <2>2. QED BY <2>1, <1>2, <1>3
<1>5. g \in [0 .. Len(t) -> Int] /\ Q \in [0 .. Len(t) -> Int] /\ Q[0] = g[0]
  <2>1. g \in [0 .. Len(t) -> Int]
    BY <1>4
  <2>2. 0 \in 0 .. Len(t) /\ 0 + k = k
    BY <1>1
  <2>3. g[0] = 0
    BY <2>2, <1>4
  <2>4. QED BY <2>1, <2>3, <1>3
<1>6. ASSUME NEW n \in 1 .. Len(t) PROVE Q[n] - Q[n-1] = g[n] - g[n-1]
  <2>1. /\ n+k \in 1 .. Len(s) /\ n-1 \in 0 .. Len(t) /\ n \in 0 .. Len(t)
        /\ (n+k)-1 = (n-1)+k
        /\ t[n] = s[n+k]
    BY <1>1
  <2>2. P[n+k] = P[(n-1)+k] + Len(s[n+k])
    BY <1>2, <2>1
  <2>3. g[n] = P[n+k] - P[k] /\ g[n-1] = P[(n-1)+k] - P[k]
    BY <2>1
  <2>4. Q[n] = Q[n-1] + Len(s[n+k])
    BY <1>3, <2>1
  <2>5. Len(s[n+k]) \in Nat
    BY <2>1
  <2>6. P[n+k] \in Nat /\ P[(n-1)+k] \in Nat /\ P[k] \in Nat /\ Q[n-1] \in Nat
    BY <1>4, <2>1
  <2> DEFINE x == P[n+k]
             y == P[(n-1)+k]
             z == P[k]
             w == Q[n-1]
             l == Len(s[n+k])
  <2> HIDE DEF x, y, z, w, l
  <2>7. Q[n] = w + l /\ Q[n-1] = w
    BY <2>4 DEF w, l
  <2>8. g[n] = x - z /\ g[n-1] = y - z /\ x = y + l
    BY <2>2, <2>3 DEF x, y, z, l
  <2>9. y \in Nat /\ z \in Nat /\ w \in Nat /\ l \in Nat
    BY <2>5, <2>6 DEF y, z, w, l
  <2>10. (w + l) - w = ((y + l) - z) - (y - z)
    BY <2>9
  <2>11. QED BY <2>7, <2>8, <2>10
<1>7. \A n \in 0 .. Len(t) : Q[n] = g[n]
  <2> HIDE DEF g
  <2>1. Len(t) \in Nat
    BY <1>1
  <2>2. QED BY <2>1, <1>5, <1>6, StepwiseEqual
<1>8. QED BY <1>1, <1>7 DEF t, P, Q

(* A new entry at the end leaves the earlier sums alone. *)
LEMMA PrefixBytesOfAppend ==
  ASSUME NEW S, NEW s \in Seq(Seq(S)), NEW m \in Seq(S)
  PROVE  LET t == Append(s, m)
         IN  PrefixBytes(t)[Len(t)] = PrefixBytes(s)[Len(s)] + Len(m)
<1> DEFINE t == Append(s, m)
           P == PrefixBytes(s)
           Q == PrefixBytes(t)
           R == [n \in 0 .. Len(s) |-> Q[n]]
<1>1. /\ t \in Seq(Seq(S))
      /\ Len(t) = Len(s) + 1
      /\ \A n \in 1 .. Len(s) : t[n] = s[n]
      /\ t[Len(s) + 1] = m
  BY AppendProperties
<1> HIDE DEF t
<1>2. /\ P \in [0 .. Len(s) -> Nat]
      /\ P[0] = 0
      /\ \A n \in 1 .. Len(s) : P[n] = P[n-1] + Len(s[n])
  BY PrefixBytesDef
<1>3. /\ Q \in [0 .. Len(t) -> Nat]
      /\ Q[0] = 0
      /\ \A n \in 1 .. Len(t) : Q[n] = Q[n-1] + Len(t[n])
  BY <1>1, PrefixBytesDef
<1> HIDE DEF P, Q
<1>4. /\ Len(s) \in Nat
      /\ \A n \in 0 .. Len(s) : n \in 0 .. Len(t) /\ Q[n] \in Nat /\ P[n] \in Nat
  <2>1. Len(s) \in Nat /\ \A n \in 0 .. Len(s) : n \in 0 .. Len(t)
    BY <1>1
  <2>2. \A n \in 0 .. Len(s) : P[n] \in Nat
    BY <1>2
  <2>3. \A n \in 0 .. Len(t) : Q[n] \in Nat
    BY <1>3
  <2>4. QED BY <2>1, <2>2, <2>3
<1>5. R \in [0 .. Len(s) -> Int] /\ P \in [0 .. Len(s) -> Int] /\ R[0] = P[0]
  BY <1>2, <1>3, <1>4
<1>6. ASSUME NEW n \in 1 .. Len(s) PROVE R[n] - R[n-1] = P[n] - P[n-1]
  <2>1. /\ n \in 1 .. Len(t) /\ n-1 \in 0 .. Len(s) /\ n \in 0 .. Len(s)
        /\ t[n] = s[n]
    BY <1>1
  <2>2. Q[n] = Q[n-1] + Len(s[n])
    BY <1>3, <2>1
  <2>3. P[n] = P[n-1] + Len(s[n])
    BY <1>2
  <2>4. Len(s[n]) \in Nat /\ Q[n-1] \in Nat /\ P[n-1] \in Nat
    BY <1>4, <2>1
  <2>5. R[n] = Q[n] /\ R[n-1] = Q[n-1]
    BY <2>1
  <2> DEFINE x == Q[n-1]
             y == P[n-1]
             l == Len(s[n])
  <2> HIDE DEF x, y, l
  <2>6. (x + l) - x = (y + l) - y
    BY <2>4 DEF x, y, l
  <2>7. QED BY <2>2, <2>3, <2>5, <2>6 DEF x, y, l
<1>7. R[Len(s)] = P[Len(s)]
  <2>1. Len(s) \in 0 .. Len(s)
    BY <1>4
  <2> HIDE DEF R
  <2>2. QED BY <2>1, <1>4, <1>5, <1>6, StepwiseEqual
<1>8. Q[Len(t)] = Q[Len(s)] + Len(m)
  <2>1. Len(t) \in 1 .. Len(t) /\ Len(t) - 1 = Len(s) /\ t[Len(t)] = m
    BY <1>1, <1>4
  <2>2. QED BY <2>1, <1>3
<1>9. Q[Len(s)] = R[Len(s)]
  BY <1>4
<1>10. QED BY <1>7, <1>8, <1>9 DEF t, P, Q

(* The sums only grow. *)
LEMMA PrefixBytesGrows ==
  ASSUME NEW S, NEW s \in Seq(Seq(S)), NEW k \in 0 .. Len(s)
  PROVE  PrefixBytes(s)[k] <= PrefixBytes(s)[Len(s)]
<1> DEFINE t == SubSeq(s, k+1, Len(s))
<1>1. /\ t \in Seq(Seq(S))
      /\ Len(t) = Len(s) - k
      /\ \A n \in 0 .. Len(t) :
           PrefixBytes(t)[n] = PrefixBytes(s)[n+k] - PrefixBytes(s)[k]
  BY PrefixBytesOfSuffix
<1> HIDE DEF t
<1>2. Len(t) \in 0 .. Len(t) /\ Len(t) + k = Len(s)
  BY <1>1
<1>3. PrefixBytes(t)[Len(t)] = PrefixBytes(s)[Len(s)] - PrefixBytes(s)[k]
  BY <1>1, <1>2
<1>4. PrefixBytes(t)[Len(t)] \in Nat
  BY <1>1, <1>2, PrefixBytesDef
<1>5. PrefixBytes(s)[k] \in Nat /\ PrefixBytes(s)[Len(s)] \in Nat
  <2>1. k \in 0 .. Len(s) /\ Len(s) \in 0 .. Len(s)
    OBVIOUS
  <2>2. QED BY <2>1, PrefixBytesDef
<1>6. QED BY <1>3, <1>4, <1>5

-----------------------------------------------------------------------------
(* The inductive invariant.  No part of it is inductive alone: that the    *)
(* subtraction of append stays a natural number rests on the byte count,   *)
(* and the byte count on the types.                                        *)
IInv == TypeOK /\ Window /\ BytesAccounted /\ WithinCaps

(* The entries are sequences over Line, so the lemmas above apply. *)
LEMMA EntriesAreLines ==
  ASSUME TypeOK
  PROVE  /\ entries \in Seq(Seq(Line))
         /\ \A m \in Message : m \in Seq(Line) /\ Size(m) \in Nat
         /\ \A i \in 1 .. Len(entries) : entries[i] \in Message /\ Size(entries[i]) \in Nat
<1>1. Message \subseteq Seq(Line)
  BY LogBufferAssumption
<1>2. entries \in Seq(Message)
  BY DEF TypeOK
<1>3. entries \in Seq(Seq(Line))
  BY <1>1, <1>2, SeqMonotonic
<1>4. \A m \in Message : m \in Seq(Line) /\ Size(m) \in Nat
  BY <1>1 DEF Size
<1>5. \A i \in 1 .. Len(entries) : entries[i] \in Message
  BY <1>2, ElementOfSeq
<1>6. QED BY <1>3, <1>4, <1>5

(* What append does, in terms of the number k of entries it evicts. *)
LEMMA AppendEffect ==
  ASSUME TypeOK, BytesAccounted, NEW m \in Message,
         NEW k \in 0 .. Len(entries),
         entries' = Append(SubSeq(entries, k+1, Len(entries)), m),
         total_bytes' = (total_bytes - PrefixBytes(entries)[k]) + Size(m)
  PROVE  /\ entries' \in Seq(Message)
         /\ Len(entries') = Len(entries) - k + 1
         /\ \A i \in 1 .. Len(entries) - k : entries'[i] = entries[i+k]
         /\ entries'[Len(entries) - k + 1] = m
         /\ total_bytes - PrefixBytes(entries)[k] \in Nat
         /\ total_bytes' \in Nat
         /\ BytesAccounted'
<1> DEFINE t == SubSeq(entries, k+1, Len(entries))
<1>1. entries \in Seq(Seq(Line)) /\ m \in Seq(Line) /\ Size(m) \in Nat
  BY EntriesAreLines
<1>2. /\ t \in Seq(Message)
      /\ Len(t) = Len(entries) - k
      /\ \A i \in 1 .. Len(t) : t[i] = entries[i+k]
  <2>1. entries \in Seq(Message)
    BY DEF TypeOK
  <2>2. \A i \in k+1 .. Len(entries) : entries[i] \in Message
    BY <2>1
  <2>3. k+1 \in Int /\ Len(entries) \in Int
    BY <2>1
  <2>4. QED BY <2>2, <2>3, SubSeqProperties
<1>3. /\ t \in Seq(Seq(Line))
      /\ \A n \in 0 .. Len(t) :
           PrefixBytes(t)[n] = PrefixBytes(entries)[n+k] - PrefixBytes(entries)[k]
  BY <1>1, PrefixBytesOfSuffix
<1>4. entries' = Append(t, m)
  OBVIOUS
<1> HIDE DEF t
<1>5. /\ entries' \in Seq(Message)
      /\ Len(entries') = Len(t) + 1
      /\ \A i \in 1 .. Len(t) : entries'[i] = t[i]
      /\ entries'[Len(t) + 1] = m
  <2> DEFINE u == Append(t, m)
  <2>1. /\ u \in Seq(Message)
        /\ Len(u) = Len(t) + 1
        /\ \A i \in 1 .. Len(t) : u[i] = t[i]
        /\ u[Len(t) + 1] = m
    BY <1>2, AppendProperties
  <2> HIDE DEF u
  <2>2. entries' = u
    BY <1>4 DEF u
  <2>3. QED BY <2>1, <2>2
<1>6. PrefixBytes(entries')[Len(entries')] = PrefixBytes(t)[Len(t)] + Len(m)
  <2>1. PrefixBytes(Append(t, m))[Len(Append(t, m))] = PrefixBytes(t)[Len(t)] + Len(m)
    <3>1. t \in Seq(Seq(Line)) /\ m \in Seq(Line)
      BY <1>1, <1>3
    <3>2. QED BY <3>1, PrefixBytesOfAppend
  <2>2. QED BY <2>1, <1>4
<1>7. PrefixBytes(t)[Len(t)] = PrefixBytes(entries)[Len(entries)] - PrefixBytes(entries)[k]
  <2>1. Len(t) \in 0 .. Len(t) /\ Len(t) + k = Len(entries)
    <3>1. Len(entries) \in Nat /\ k \in Nat
      BY <1>1
    <3>2. Len(t) \in Nat /\ Len(t) = Len(entries) - k
      BY <1>2
    <3>3. QED BY <3>1, <3>2
  <2>2. QED BY <2>1, <1>3
<1>8. PrefixBytes(t)[Len(t)] \in Nat
  <2>1. Len(t) \in 0 .. Len(t)
    BY <1>1, <1>2
  <2>2. QED BY <2>1, <1>3, PrefixBytesDef
<1>9. total_bytes - PrefixBytes(entries)[k] = PrefixBytes(t)[Len(t)]
  BY <1>7 DEF BytesAccounted
<1>10. total_bytes' = PrefixBytes(t)[Len(t)] + Size(m)
  BY <1>9
<1>11. BytesAccounted'
  BY <1>6, <1>10 DEF BytesAccounted, Size
<1>12. total_bytes' \in Nat
  BY <1>1, <1>8, <1>10
<1>13. QED BY <1>2, <1>5, <1>8, <1>9, <1>11, <1>12

LEMMA InitInvariant == Init => IInv
<1> SUFFICES ASSUME Init PROVE IInv
  OBVIOUS
<1>1. /\ entries = << >> /\ base_index = 0 /\ total_bytes = 0 /\ history = << >>
      /\ Len(entries) = 0 /\ Len(history) = 0
  BY DEF Init
<1>2. TypeOK
  BY <1>1 DEF TypeOK
<1>3. Window
  BY <1>1 DEF Window
<1>4. BytesAccounted
  <2>1. entries \in Seq(Seq(Line))
    BY <1>1
  <2>2. QED BY <1>1, <2>1, PrefixBytesDef DEF BytesAccounted
<1>5. WithinCaps
  BY <1>1, LogBufferAssumption DEF WithinCaps
<1>6. QED BY <1>2, <1>3, <1>4, <1>5 DEF IInv

LEMMA AppendInvariant ==
  ASSUME IInv, NEW m \in Message, append(m)
  PROVE  IInv'
<1>1. PICK k \in 0 .. Len(entries) :
        /\ ~ MustEvict(k, m)
        /\ entries' = Append(SubSeq(entries, k+1, Len(entries)), m)
        /\ base_index' = base_index + k
        /\ total_bytes' = (total_bytes - PrefixBytes(entries)[k]) + Size(m)
        /\ history' = Append(history, m)
  BY DEF append
<1>2. /\ entries' \in Seq(Message)
      /\ Len(entries') = Len(entries) - k + 1
      /\ \A i \in 1 .. Len(entries) - k : entries'[i] = entries[i+k]
      /\ entries'[Len(entries) - k + 1] = m
      /\ total_bytes' \in Nat
      /\ BytesAccounted'
  BY <1>1, AppendEffect DEF IInv
<1>3. Len(entries) \in Nat /\ base_index \in Nat /\ history \in Seq(Message) /\ k \in Nat
  BY DEF IInv, TypeOK
<1>4. /\ history' \in Seq(Message)
      /\ Len(history') = Len(history) + 1
      /\ \A i \in 1 .. Len(history) : history'[i] = history[i]
      /\ history'[Len(history) + 1] = m
  BY <1>1, <1>3, AppendProperties
<1>5. TypeOK'
  BY <1>1, <1>2, <1>3, <1>4 DEF TypeOK
<1>6. base_index' = base_index + k
  BY <1>1
<1>7. Window'
  <2>1. base_index + Len(entries) = Len(history)
    BY DEF IInv, Window
  <2>2. base_index' + Len(entries') = Len(history')
    <3>1. Len(entries') = Len(entries) - k + 1
      BY <1>2
    <3>2. Len(history') = Len(history) + 1
      BY <1>4
    <3>3. QED BY <1>6, <1>3, <2>1, <3>1, <3>2
  <2>3. ASSUME NEW i \in 1 .. Len(entries')
        PROVE  entries'[i] = history'[base_index' + i]
    <3>1. CASE i = Len(entries) - k + 1
      <4>1. base_index' + i = Len(history) + 1
        BY <1>6, <1>3, <2>1, <3>1
      <4>2. QED BY <4>1, <1>2, <1>4, <3>1
    <3>2. CASE i # Len(entries) - k + 1
      <4>1. i \in 1 .. Len(entries) - k + 1
        BY <1>2
      <4>2. i \in 1 .. Len(entries) - k /\ i+k \in 1 .. Len(entries)
        BY <4>1, <1>3, <3>2
      <4>3. entries[i+k] = history[base_index + (i+k)]
        BY <4>2 DEF IInv, Window
      <4>4. base_index' + i = base_index + (i+k) /\ base_index' + i \in 1 .. Len(history)
        BY <1>6, <1>3, <2>1, <4>2
      <4>5. QED BY <1>2, <1>4, <4>2, <4>3, <4>4
    <3>3. QED BY <3>1, <3>2
  <2>4. QED BY <2>2, <2>3 DEF Window
<1>8. WithinCaps'
  <2>1. MAX_ENTRIES \in Nat \ {0} /\ MAX_BYTES \in Nat
    BY LogBufferAssumption
  <2>2. CASE k = Len(entries)
    BY <1>2, <1>3, <2>1, <2>2 DEF WithinCaps
  <2>3. CASE k < Len(entries)
    <3>1. ~ (Len(entries) - k >= MAX_ENTRIES) /\ ~ (total_bytes' > MAX_BYTES)
      BY <1>1, <2>3 DEF MustEvict
    <3>2. QED BY <3>1, <1>2, <1>3, <2>1 DEF WithinCaps
  <2>4. QED BY <1>3, <2>2, <2>3
<1>9. QED BY <1>2, <1>5, <1>7, <1>8 DEF IInv

LEMMA ClearInvariant ==
  ASSUME clear
  PROVE  IInv'
<1>1. /\ entries' = << >> /\ base_index' = 0 /\ total_bytes' = 0 /\ history' = << >>
      /\ Len(entries') = 0 /\ Len(history') = 0
  BY DEF clear
<1>2. TypeOK'
  BY <1>1 DEF TypeOK
<1>3. Window'
  BY <1>1 DEF Window
<1>4. BytesAccounted'
  <2>1. << >> \in Seq(Seq(Line)) /\ Len(<< >>) = 0
    OBVIOUS
  <2>2. PrefixBytes(<< >>)[0] = 0
    BY <2>1, PrefixBytesDef
  <2>3. QED BY <1>1, <2>1, <2>2 DEF BytesAccounted
<1>5. WithinCaps'
  BY <1>1, LogBufferAssumption DEF WithinCaps
<1>6. QED BY <1>2, <1>3, <1>4, <1>5 DEF IInv

LEMMA StutterInvariant ==
  ASSUME IInv, UNCHANGED bufferVars
  PROVE  IInv'
BY DEF IInv, TypeOK, Window, BytesAccounted, WithinCaps, bufferVars

(* For every cap and every set of messages, every reachable buffer has     *)
(* well-typed fields (no `total_bytes -=` wraps below zero), is exactly    *)
(* the tail of the session's log, counts its bytes right and respects the  *)
(* caps.                                                                   *)
THEOREM BufferInvariant == Spec => []IInv
<1>1. IInv /\ [Next]_bufferVars => IInv'
  <2> SUFFICES ASSUME IInv, [Next]_bufferVars PROVE IInv'
    OBVIOUS
  <2>1. CASE clear
    BY <2>1, ClearInvariant
  <2>2. ASSUME NEW m \in Message, append(m) PROVE IInv'
    BY <2>2, AppendInvariant
  <2>3. CASE UNCHANGED bufferVars
    BY <2>3, StutterInvariant
  <2>4. QED BY <2>1, <2>2, <2>3 DEF Next
<1>2. QED BY InitInvariant, <1>1, PTL DEF Spec

(* Type correctness, for every value of the constants. *)
THEOREM TypesCorrect == Spec => []TypeOK
<1>1. IInv => TypeOK
  BY DEF IInv
<1>2. QED BY <1>1, BufferInvariant, PTL

(* An absolute index names the same message for as long as the message is  *)
(* retained, whatever was evicted in between.                              *)
THEOREM WindowOfTheLog == Spec => []Window
<1>1. IInv => Window
  BY DEF IInv
<1>2. QED BY <1>1, BufferInvariant, PTL

(* The incremental byte count is the sum of the sizes of the entries. *)
THEOREM BytesAreAccounted == Spec => []BytesAccounted
<1>1. IInv => BytesAccounted
  BY DEF IInv
<1>2. QED BY <1>1, BufferInvariant, PTL

(* The buffer never outgrows its caps, but for one oversized message. *)
THEOREM CapsHold == Spec => []WithinCaps
<1>1. IInv => WithinCaps
  BY DEF IInv
<1>2. QED BY <1>1, BufferInvariant, PTL

-----------------------------------------------------------------------------
(* The steps of append, one for each claim that is about a step.           *)

LEMMA AppendIsLog ==
  ASSUME IInv, IInv', NEW m \in Message, append(m)
  PROVE  Log!Log(m)
<1>1. PICK k \in 0 .. Len(entries) :
        /\ entries' = Append(SubSeq(entries, k+1, Len(entries)), m)
        /\ base_index' = base_index + k
        /\ total_bytes' = (total_bytes - PrefixBytes(entries)[k]) + Size(m)
  BY DEF append
<1>2. /\ Len(entries') = Len(entries) - k + 1
      /\ \A i \in 1 .. Len(entries) - k : entries'[i] = entries[i+k]
      /\ entries'[Len(entries) - k + 1] = m
  BY <1>1, AppendEffect DEF IInv
<1>3. base_index' = base_index + k
  BY <1>1
<1>4. Len(entries) \in Nat /\ base_index \in Nat /\ k \in Nat
  BY DEF IInv, TypeOK
<1> DEFINE next == base_index + Len(entries)
           oldest == base_index + k
<1>5. oldest \in DOMAIN Retained \cup {next}
  BY <1>4 DEF Retained
<1>6. next + 1 - oldest <= MAX_ENTRIES
  <2>1. Len(entries') <= MAX_ENTRIES
    BY DEF IInv, WithinCaps
  <2>2. QED BY <2>1, <1>2, <1>4
<1>7. base_index' + Len(entries') = next + 1
  BY <1>2, <1>3, <1>4
<1>8. ASSUME NEW i \in oldest .. next
      PROVE  entries'[i - oldest + 1] = IF i = next THEN m ELSE Retained[i]
  <2>1. CASE i = next
    BY <2>1, <1>2, <1>4
  <2>2. CASE i # next
    <3>1. /\ i - oldest + 1 \in 1 .. Len(entries) - k
          /\ (i - oldest + 1) + k = i - base_index + 1
          /\ i \in base_index .. base_index + Len(entries) - 1
      BY <2>2, <1>4
    <3>2. entries'[i - oldest + 1] = entries[i - base_index + 1]
      BY <3>1, <1>2
    <3>3. Retained[i] = entries[i - base_index + 1]
      BY <3>1 DEF Retained
    <3>4. QED BY <2>2, <3>2, <3>3
  <2>3. QED BY <2>1, <2>2
<1>9. Retained' = [i \in oldest .. next |-> IF i = next THEN m ELSE Retained[i]]
  <2>1. Retained' = [i \in base_index' .. base_index' + Len(entries') - 1 |->
                       entries'[i - base_index' + 1]]
    BY DEF Retained
  <2>2. base_index' + Len(entries') - 1 = next
    BY <1>2, <1>3, <1>4
  <2>3. base_index' = oldest
    BY <1>3
  <2> HIDE DEF oldest, next
  <2>4. Retained' = [i \in oldest .. next |-> entries'[i - oldest + 1]]
    BY <2>1, <2>2, <2>3
  <2>5. \A i \in oldest .. next :
          entries'[i - oldest + 1] = IF i = next THEN m ELSE Retained[i]
    BY <1>8
  <2>6. QED BY <2>4, <2>5
<1>10. QED BY <1>5, <1>6, <1>7, <1>9 DEF Log!Log

LEMMA ClearIsReset ==
  ASSUME clear
  PROVE  Log!Reset
<1>1. entries' = << >> /\ base_index' = 0 /\ Len(entries') = 0
  BY DEF clear
<1>2. Retained' = [i \in {} |-> i]
  BY <1>1 DEF Retained
<1>3. base_index' + Len(entries') = 0
  BY <1>1
<1>4. QED BY <1>2, <1>3 DEF Log!Reset

(* The buffer implements the log it promises its clients: consecutive      *)
(* indices, none reassigned, the oldest messages dropped first.            *)
THEOREM BufferImplementsLogWindow == Spec => ImplementsLogWindow
<1>1. Init => Log!Init
  <2> SUFFICES ASSUME Init PROVE Log!Init
    OBVIOUS
  <2>1. entries = << >> /\ base_index = 0 /\ Len(entries) = 0
    BY DEF Init
  <2>2. Retained = [i \in {} |-> i]
    BY <2>1 DEF Retained
  <2>3. QED BY <2>1, <2>2 DEF Log!Init
<1>2. IInv /\ IInv' /\ [Next]_bufferVars => [Log!Next]_Log!windowVars
  <2> SUFFICES ASSUME IInv, IInv', [Next]_bufferVars
               PROVE  [Log!Next]_Log!windowVars
    OBVIOUS
  <2>1. CASE clear
    BY <2>1, ClearIsReset DEF Log!Next
  <2>2. ASSUME NEW m \in Message, append(m) PROVE Log!Next
    BY <2>2, AppendIsLog DEF Log!Next
  <2>3. CASE UNCHANGED bufferVars
    BY <2>3 DEF bufferVars, Retained, Log!windowVars
  <2>4. QED BY <2>1, <2>2, <2>3 DEF Next
<1>3. QED BY BufferInvariant, <1>1, <1>2, PTL DEF Spec, ImplementsLogWindow, Log!Spec

(* One more message in a window of consecutive indices. *)
LEMMA WindowSlides ==
  ASSUME NEW n \in Nat, NEW from \in 0 .. n, NEW S, S = from .. n - 1,
         NEW oldest \in S \cup {n}
  PROVE  /\ n + 1 \in Nat /\ oldest \in 0 .. n + 1
         /\ oldest .. n = oldest .. (n + 1) - 1
         /\ \A j \in S : j # n /\ (j \notin oldest .. n => \A k \in oldest .. n : j < k)
<1>1. oldest \in Nat /\ oldest <= n
  OBVIOUS
<1>2. oldest \in 0 .. n + 1 /\ (n + 1) - 1 = n
  BY <1>1
<1>3. ASSUME NEW j \in S
      PROVE  j \in Int /\ j # n /\ (j < oldest \/ j \in oldest .. n)
  BY <1>1
<1>4. QED BY <1>1, <1>2, <1>3

LEMMA LogKeeps ==
  ASSUME Log!Consecutive, NEW m \in Message, Log!Log(m)
  PROVE  /\ Log!Consecutive'
         /\ \A i \in DOMAIN Retained, j \in DOMAIN Retained \cap DOMAIN Retained' :
              /\ Retained'[j] = Retained[j]
              /\ i \notin DOMAIN Retained' => i < j
<1>1. PICK n : n = base_index + Len(entries)
  OBVIOUS
<1>2. n \in Nat
  BY <1>1 DEF Log!Consecutive
<1>3. PICK from \in 0 .. n : DOMAIN Retained = from .. n - 1
  BY <1>1 DEF Log!Consecutive
<1>4. PICK oldest \in DOMAIN Retained \cup {n} :
        /\ n + 1 - oldest <= MAX_ENTRIES
        /\ Retained' = [i \in oldest .. n |-> IF i = n THEN m ELSE Retained[i]]
        /\ (base_index + Len(entries))' = n + 1
  BY <1>1 DEF Log!Log
<1>5. /\ n + 1 \in Nat /\ oldest \in 0 .. n + 1
      /\ oldest .. n = oldest .. (n + 1) - 1
      /\ \A j \in DOMAIN Retained :
           j # n /\ (j \notin oldest .. n => \A k \in oldest .. n : j < k)
  BY <1>2, <1>3, WindowSlides
<1>6. DOMAIN Retained' = oldest .. n
  BY <1>4
<1>7. Log!Consecutive'
  <2>1. /\ DOMAIN Retained' = oldest .. (n + 1) - 1
        /\ (n + 1) - oldest <= MAX_ENTRIES
    BY <1>2, <1>4, <1>5, <1>6
  <2>2. QED BY <1>4, <1>5, <2>1 DEF Log!Consecutive
<1>8. ASSUME NEW j \in DOMAIN Retained \cap DOMAIN Retained'
      PROVE  Retained'[j] = Retained[j]
  BY <1>4, <1>5, <1>6
<1>9. QED BY <1>5, <1>6, <1>7, <1>8

(* What a client may conclude from that of this buffer: the indices that   *)
(* are retained are consecutive and keep their messages, and the oldest go *)
(* first, until the log is cleared.                                        *)
THEOREM IndicesAreKept == Spec => []Log!Consecutive /\ Log!IndicesKept
<1> DEFINE Step ==
             (base_index + Len(entries))' >= base_index + Len(entries) =>
               \A i \in DOMAIN Retained, j \in DOMAIN Retained \cap DOMAIN Retained' :
                 /\ Retained'[j] = Retained[j]
                 /\ i \notin DOMAIN Retained' => i < j
<1>1. Log!Init => Log!Consecutive
  <2>1. SUFFICES ASSUME Log!Init PROVE Log!Consecutive
    OBVIOUS
  <2>2. base_index + Len(entries) = 0 /\ DOMAIN Retained = {}
    BY <2>1 DEF Log!Init
  <2>3. 0 .. 0 - 1 = {} /\ 0 \in 0 .. 0 /\ 0 - 0 <= MAX_ENTRIES
    BY LogBufferAssumption
  <2>4. QED BY <2>2, <2>3 DEF Log!Consecutive
<1>2. Log!Consecutive /\ [Log!Next]_Log!windowVars => Log!Consecutive' /\ [Step]_Log!windowVars
  <2> SUFFICES ASSUME Log!Consecutive, [Log!Next]_Log!windowVars
               PROVE  Log!Consecutive' /\ [Step]_Log!windowVars
    OBVIOUS
  <2>1. ASSUME NEW m \in Message, Log!Log(m)
        PROVE  Log!Consecutive' /\ Step
    BY <2>1, LogKeeps
  <2>2. ASSUME Log!Reset
        PROVE  Log!Consecutive' /\ Step
    <3>1. (base_index + Len(entries))' = 0 /\ DOMAIN Retained' = {}
      BY <2>2 DEF Log!Reset
    <3>2. 0 .. 0 - 1 = {} /\ 0 \in 0 .. 0 /\ 0 - 0 <= MAX_ENTRIES
      BY LogBufferAssumption
    <3>3. Log!Consecutive'
      BY <3>1, <3>2 DEF Log!Consecutive
    <3>4. QED BY <3>1, <3>3
  <2>3. CASE UNCHANGED Log!windowVars
    BY <2>3 DEF Log!windowVars, Log!Consecutive
  <2> HIDE DEF Step
  <2>4. QED BY <2>1, <2>2, <2>3 DEF Log!Next
<1>3. QED BY <1>1, <1>2, BufferImplementsLogWindow, PTL
          DEF ImplementsLogWindow, Log!Spec, Log!IndicesKept

(* append evicts no more than the caps make it: with the last entry it     *)
(* evicted still in place, one of them would be exceeded.                  *)
THEOREM EvictionIsMinimal == Spec => EvictsOnlyWhatItMust
<1> DEFINE Minimal ==
             base_index' > base_index =>
               \/ Len(entries') = MAX_ENTRIES
               \/ total_bytes' + Size(history[base_index']) > MAX_BYTES
<1>1. ASSUME IInv, IInv', [Next]_bufferVars PROVE Minimal \/ UNCHANGED bufferVars
  <2>1. CASE clear
    <3>1. base_index' = 0 /\ base_index \in Nat
      BY <1>1, <2>1 DEF clear, IInv, TypeOK
    <3>2. QED BY <3>1
  <2>2. ASSUME NEW m \in Message, append(m) PROVE Minimal
    <3>1. PICK k \in 0 .. Len(entries) :
            /\ \A j \in 0 .. k-1 : MustEvict(j, m)
            /\ entries' = Append(SubSeq(entries, k+1, Len(entries)), m)
            /\ base_index' = base_index + k
            /\ total_bytes' = (total_bytes - PrefixBytes(entries)[k]) + Size(m)
      BY <2>2 DEF append
    <3>2. /\ Len(entries) \in Nat /\ base_index \in Nat /\ k \in Nat /\ total_bytes \in Nat
          /\ base_index' = base_index + k
      BY <1>1, <3>1 DEF IInv, TypeOK
    <3>3. Len(entries') = Len(entries) - k + 1 /\ Len(entries') <= MAX_ENTRIES
      BY <1>1, <3>1, AppendEffect DEF IInv, WithinCaps
    <3>4. SUFFICES ASSUME k > 0 PROVE Minimal
      BY <3>2
    <3>5. k-1 \in 0 .. k-1 /\ k \in 1 .. Len(entries) /\ k-1 \in 0 .. Len(entries)
      BY <3>2, <3>4
    <3>6. MustEvict(k-1, m)
      BY <3>1, <3>5
    <3>7. entries[k] = history[base_index']
      BY <1>1, <3>2, <3>5 DEF IInv, Window
    <3>8. CASE Len(entries) - (k-1) >= MAX_ENTRIES
      BY <3>2, <3>3, <3>8, LogBufferAssumption
    <3>9. CASE (total_bytes - PrefixBytes(entries)[k-1]) + Size(m) > MAX_BYTES
      <4> DEFINE p == PrefixBytes(entries)[k]
                 q == PrefixBytes(entries)[k-1]
                 l == Size(entries[k])
      <4>1. entries \in Seq(Seq(Line)) /\ Size(m) \in Nat /\ l \in Nat
        BY <1>1, <3>5, EntriesAreLines DEF IInv
      <4>2. p = q + l /\ q \in Nat
        BY <3>5, <4>1, PrefixBytesDef DEF Size
      <4>3. total_bytes' = (total_bytes - p) + Size(m)
        BY <3>1
      <4>4. (total_bytes - q) + Size(m) > MAX_BYTES
        BY <3>9
      <4> HIDE DEF p, q, l
      <4>5. total_bytes' + l > MAX_BYTES
        BY <3>2, <4>1, <4>2, <4>3, <4>4, LogBufferAssumption
      <4>6. QED BY <3>7, <4>5 DEF l
    <3>10. QED BY <3>6, <3>8, <3>9 DEF MustEvict
  <2>3. QED BY <1>1, <2>1, <2>2 DEF Next
<1>2. IInv /\ IInv' /\ [Next]_bufferVars => [Minimal]_bufferVars
  BY <1>1
<1>3. QED BY BufferInvariant, <1>2, PTL DEF Spec, EvictsOnlyWhatItMust

(* The loop of append ends for every message: some number of evictions,    *)
(* at most all of them, falsifies its condition for the first time.        *)
THEOREM AppendLoopEnds ==
  ASSUME TypeOK, NEW m \in Message
  PROVE  \E k \in 0 .. Len(entries) :
           ~ MustEvict(k, m) /\ \A j \in 0 .. k-1 : MustEvict(j, m)
<1> DEFINE Ends == {k \in 0 .. Len(entries) : ~ MustEvict(k, m)}
<1>1. Len(entries) \in Nat
  BY DEF TypeOK
<1>2. Len(entries) \in Ends
  BY <1>1 DEF MustEvict
<1>3. PICK k \in Ends : \A j \in Ends : k <= j
  <2>1. Ends \in SUBSET Nat /\ Ends # {}
    BY <1>1, <1>2
  <2> HIDE DEF Ends
  <2>2. QED BY <2>1, LeastNat
<1>4. \A j \in 0 .. k-1 : j \notin Ends
  BY <1>1, <1>3
<1>5. \A j \in 0 .. k-1 : j \in 0 .. Len(entries)
  BY <1>1
<1>6. QED BY <1>4, <1>5
-----------------------------------------------------------------------------
(* NthSmallest, by which TextsAt orders what get_since returns: it is the  *)
(* element with n elements up to it, and shifts and unions of sets that    *)
(* follow one another keep the order.                                      *)
UpTo(S, i) == {j \in S : j <= i}

LEMMA BoundedIsFinite ==
  ASSUME NEW N \in Nat, NEW S, \A j \in S : j \in 0 .. N
  PROVE  IsFiniteSet(S) /\ \A j \in S : j \in Nat
<1>1. IsFiniteSet(0 .. N)
  BY FS_Interval
<1>2. S \in SUBSET (0 .. N)
  OBVIOUS
<1>3. IsFiniteSet(S)
  BY <1>1, <1>2, FS_Subset
<1>4. QED BY <1>3

LEMMA UpToFinite ==
  ASSUME NEW S, \A j \in S : j \in Nat, IsFiniteSet(S), NEW i
  PROVE  /\ IsFiniteSet(UpTo(S, i))
         /\ Cardinality(UpTo(S, i)) \in 0 .. Cardinality(S)
         /\ i \in S => Cardinality(UpTo(S, i)) >= 1
<1>1. UpTo(S, i) \in SUBSET S
  BY DEF UpTo
<1>2. /\ IsFiniteSet(UpTo(S, i))
      /\ Cardinality(UpTo(S, i)) <= Cardinality(S)
      /\ Cardinality(S) \in Nat /\ Cardinality(UpTo(S, i)) \in Nat
  BY <1>1, FS_Subset, FS_CardinalityType
<1>3. i \in S => UpTo(S, i) # {}
  BY DEF UpTo
<1>4. QED BY <1>2, <1>3, FS_EmptySet

(* The n-th smallest element is unique. *)
LEMMA NthUnique ==
  ASSUME NEW S, \A j \in S : j \in Nat, IsFiniteSet(S), NEW i \in S
  PROVE  NthSmallest(S, Cardinality(UpTo(S, i))) = i
<1>1. ASSUME NEW k \in S, NEW l \in S, k < l
      PROVE  Cardinality(UpTo(S, k)) # Cardinality(UpTo(S, l))
  <2>2. UpTo(S, k) \subseteq UpTo(S, l)
    BY <1>1 DEF UpTo
  <2>3. l \in UpTo(S, l) /\ l \notin UpTo(S, k)
    BY <1>1 DEF UpTo
  <2>4. IsFiniteSet(UpTo(S, l))
    BY UpToFinite
  <2>5. QED BY <2>2, <2>3, <2>4, FS_Subset
<1>2. \A k \in S : Cardinality(UpTo(S, k)) = Cardinality(UpTo(S, i)) => k = i
  BY <1>1
<1>3. QED BY <1>2 DEF NthSmallest, UpTo

(* A set bounded by N has an n-th smallest element for each n. *)
LEMMA NthExists ==
  ASSUME NEW N \in Nat, NEW S, \A j \in S : j \in 0 .. N, NEW n \in 1 .. Cardinality(S)
  PROVE  NthSmallest(S, n) \in S /\ Cardinality(UpTo(S, NthSmallest(S, n))) = n
<1> DEFINE T == {m \in Nat : Cardinality(UpTo(S, m)) >= n}
<1>1. IsFiniteSet(S) /\ \A j \in S : j \in Nat
  BY BoundedIsFinite
<1>2. UpTo(S, N) = S
  BY DEF UpTo
<1>3. PICK m \in T : \A k \in T : m <= k
  <2>1. T \in SUBSET Nat /\ N \in T
    BY <1>1, <1>2, FS_CardinalityType
  <2> HIDE DEF T
  <2>2. QED BY <2>1, LeastNat
<1> DEFINE c == Cardinality(UpTo(S, m))
<1>4. m \in S /\ c = n
  <2>1. CASE m = 0
    <3>1. UpTo(S, m) = IF 0 \in S THEN {0} ELSE {}
      BY <2>1 DEF UpTo
    <3>2. c \in Nat /\ c >= n /\ n >= 1
      BY <1>1, <1>3, UpToFinite, FS_CardinalityType
    <3>3. 0 \in S /\ UpTo(S, m) = {0}
      BY <3>1, <3>2, FS_EmptySet
    <3>4. Cardinality(UpTo(S, m)) = 1
      BY <3>3, FS_Singleton
    <3>5. QED BY <1>3, <2>1, <3>3, <3>4
  <2>2. CASE m # 0
    <3>1. m - 1 \in Nat /\ m - 1 \notin T
      BY <1>3, <2>2
    <3>2. /\ IsFiniteSet(UpTo(S, m - 1))
          /\ Cardinality(UpTo(S, m - 1)) \in Nat
          /\ Cardinality(UpTo(S, m - 1)) < n
      BY <1>1, <3>1, UpToFinite, FS_CardinalityType
    <3>3. UpTo(S, m) = UpTo(S, m - 1) \cup (IF m \in S THEN {m} ELSE {})
      BY <1>3 DEF UpTo
    <3>4. m \notin UpTo(S, m - 1)
      BY <1>3 DEF UpTo
    <3>5. CASE m \in S
      <4>1. UpTo(S, m) = UpTo(S, m - 1) \cup {m}
        BY <3>3, <3>5
      <4>2. c = Cardinality(UpTo(S, m - 1)) + 1
        BY <3>2, <3>4, <4>1, FS_AddElement
      <4>3. c >= n
        BY <1>3
      <4>4. QED BY <3>2, <3>5, <4>2, <4>3
    <3>6. CASE m \notin S
      <4>1. UpTo(S, m) = UpTo(S, m - 1)
        BY <3>3, <3>6
      <4>2. c >= n
        BY <1>3
      <4>3. QED BY <3>2, <4>1, <4>2
    <3>7. QED BY <3>5, <3>6
  <2>3. QED BY <1>3, <2>1, <2>2
<1>5. NthSmallest(S, n) = m
  BY <1>1, <1>4, NthUnique
<1>6. QED BY <1>4, <1>5

Precedes(S, T) == \A s \in S, t \in T : s < t

(* In the order of U come first the elements of S, then those of T. *)
InSequence(U, S, T) ==
  /\ Cardinality(U) = Cardinality(S) + Cardinality(T)
  /\ \A n \in 1 .. Cardinality(S) : NthSmallest(U, n) = NthSmallest(S, n)
  /\ \A n \in 1 .. Cardinality(T) : NthSmallest(U, Cardinality(S) + n) = NthSmallest(T, n)

LEMMA NthOfUnion ==
  ASSUME NEW N \in Nat, NEW S, \A j \in S : j \in 0 .. N, NEW T, \A j \in T : j \in 0 .. N,
         Precedes(S, T)
  PROVE  InSequence(S \cup T, S, T)
<1>1. /\ IsFiniteSet(S) /\ IsFiniteSet(T) /\ (\A j \in S : j \in Nat) /\ (\A j \in T : j \in Nat)
      /\ S \cap T = {} /\ \A s \in S, t \in T : s < t
  BY BoundedIsFinite DEF Precedes
<1>2. /\ IsFiniteSet(S \cup T) /\ \A j \in S \cup T : j \in Nat
      /\ Cardinality(S \cup T) = Cardinality(S) + Cardinality(T)
      /\ Cardinality(S) \in Nat /\ Cardinality(T) \in Nat
  <2>1. Cardinality(S) \in Nat /\ Cardinality(T) \in Nat
    BY <1>1, FS_CardinalityType
  <2>2. Cardinality(S \cap T) = 0
    BY <1>1, FS_EmptySet
  <2>3. IsFiniteSet(S \cup T) /\ Cardinality(S \cup T) = Cardinality(S) + Cardinality(T) - 0
    BY <1>1, <2>2, FS_Union
  <2>4. QED BY <1>1, <2>1, <2>3
<1>3. ASSUME NEW n \in 1 .. Cardinality(S)
      PROVE  NthSmallest(S \cup T, n) = NthSmallest(S, n)
  <2>1. PICK i \in S : i = NthSmallest(S, n) /\ Cardinality(UpTo(S, i)) = n
    BY <1>3, NthExists
  <2>2. UpTo(S \cup T, i) = UpTo(S, i)
    BY <1>1 DEF UpTo
  <2>3. QED BY <1>2, <2>1, <2>2, NthUnique
<1>4. ASSUME NEW n \in 1 .. Cardinality(T)
      PROVE  NthSmallest(S \cup T, Cardinality(S) + n) = NthSmallest(T, n)
  <2>1. PICK i \in T : i = NthSmallest(T, n) /\ Cardinality(UpTo(T, i)) = n
    BY <1>4, NthExists
  <2>2. UpTo(S \cup T, i) = S \cup UpTo(T, i) /\ S \cap UpTo(T, i) = {}
    BY <1>1 DEF UpTo
  <2>3. Cardinality(UpTo(S \cup T, i)) = Cardinality(S) + n
    <3>1. IsFiniteSet(UpTo(T, i)) /\ Cardinality(S \cap UpTo(T, i)) = 0
      BY <1>1, <2>2, UpToFinite, FS_EmptySet
    <3>2. Cardinality(UpTo(S \cup T, i)) = Cardinality(S) + Cardinality(UpTo(T, i)) - 0
      BY <1>1, <2>2, <3>1, FS_Union
    <3>3. QED BY <1>2, <2>1, <3>2
  <2>4. QED BY <1>2, <2>1, <2>3, NthUnique
<1>5. QED BY <1>2, <1>3, <1>4 DEF InSequence

IsShift(T, S, d) ==
  (\A i \in S : d + i \in T) /\ (\A j \in T : \E i \in S : j = d + i)

(* Shifting a set shifts its elements and keeps their order. *)
LEMMA NthOfShift ==
  ASSUME NEW N \in Nat, NEW S, \A j \in S : j \in 0 .. N, NEW d \in Int,
         NEW T, \A j \in T : j \in Nat, IsShift(T, S, d)
  PROVE  /\ IsFiniteSet(T) /\ Cardinality(T) = Cardinality(S)
         /\ \A n \in 1 .. Cardinality(S) :
              \E i \in S : i = NthSmallest(S, n) /\ NthSmallest(T, n) = d + i
<1>1. IsFiniteSet(S) /\ \A j \in S : j \in Nat
  BY BoundedIsFinite
<1>2. ASSUME NEW U \in SUBSET S
      PROVE  LET V == {d + i : i \in U}
             IN  IsFiniteSet(V) /\ Cardinality(V) = Cardinality(U)
  <2> DEFINE V == {d + i : i \in U}
             f == [i \in U |-> d + i]
  <2>1. f \in Bijection(U, V)
    BY DEF Bijection, Injection, Surjection, IsInjective
  <2>2. ExistsBijection(U, V)
    BY <2>1 DEF ExistsBijection
  <2>3. IsFiniteSet(U)
    BY <1>1, FS_Subset
  <2> HIDE DEF V
  <2>4. IsFiniteSet(V) /\ Cardinality(V) = Cardinality(U)
    BY <2>2, <2>3, FS_Bijection
  <2>5. QED BY <2>4 DEF V
<1>3. IsFiniteSet(T) /\ Cardinality(T) = Cardinality(S)
  <2>1. T = {d + i : i \in S}
    BY DEF IsShift
  <2>2. QED BY <1>2, <2>1
<1>4. ASSUME NEW n \in 1 .. Cardinality(S)
      PROVE  \E i \in S : i = NthSmallest(S, n) /\ NthSmallest(T, n) = d + i
  <2>1. PICK i \in S : i = NthSmallest(S, n) /\ Cardinality(UpTo(S, i)) = n
    BY <1>4, NthExists
  <2>2. UpTo(T, d + i) = {d + j : j \in UpTo(S, i)}
    <3>1. (\A j \in S : d + j \in T) /\ (\A j \in T : \E k \in S : j = d + k)
      BY DEF IsShift
    <3>2. QED BY <1>1, <3>1 DEF UpTo
  <2>3. UpTo(S, i) \in SUBSET S
    BY DEF UpTo
  <2>4. Cardinality(UpTo(T, d + i)) = n
    BY <1>2, <2>1, <2>2, <2>3
  <2>5. d + i \in T
    BY DEF IsShift
  <2>6. QED BY <1>3, <2>1, <2>4, <2>5, NthUnique
<1>5. QED BY <1>3, <1>4
=============================================================================
