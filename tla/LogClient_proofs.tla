-------------------------- MODULE LogClient_proofs ----------------------------
(***************************************************************************)
(* What a client of XAUTO_REQ_GET_LOG may rely on, for every set of        *)
(* clients, filter, limit and size of the buffer.  The invariant says what *)
(* a reply still on its way holds, in terms of the whole log of the        *)
(* session: it stays right while the buffer is appended to and evicted     *)
(* from, and means nothing any more once the log is cleared.               *)
(***************************************************************************)
EXTENDS LogClient, LogBuffer_proofs

(* What a reader with filter f gets of the log h from one index up to      *)
(* another, when the messages in `gone` were evicted before.               *)
Kept(h, from, to, gone, f) ==
  {j \in from .. to - 1 : j \notin gone /\ Keeps(h[j + 1], f)}

Texts(h, S, f) ==
  [n \in 1 .. Cardinality(S) |-> Candidate(h[NthSmallest(S, n) + 1], f)]

(* A reply of the current session: one page of the log, from the cursor    *)
(* it was asked with (or past what was evicted, or from the end of the log *)
(* if the cursor is beyond it).                                            *)
Page(h, r, since, f) ==
  LET from == IF since > r.end THEN r.end ELSE since + r.snap.evicted
  IN  /\ r.end \in Nat /\ r.end <= Len(h)
      /\ r.landed = IF since > r.end THEN r.end ELSE since
      /\ since > r.end => r.snap.evicted = 0
      /\ from <= r.snap.next_index /\ r.snap.next_index <= r.end
      /\ r.index = Kept(h, from, r.snap.next_index, {}, f)
      /\ r.snap.entries = Texts(h, r.index, f)
      /\ r.snap.remaining = Cardinality(Kept(h, r.snap.next_index, r.end, {}, f))

InFlight(c) ==
  LET r == reply[c]
  IN  r # NoReply =>
        /\ r.session \in Nat /\ r.session <= session
        /\ r.snap.next_index \in Nat /\ r.snap.evicted \in Nat /\ r.landed \in Nat
        /\ r.session = origin[c] => cursor[c] <= r.snap.next_index
        /\ r.session = session => Page(history, r, cursor[c], FilterOf[c])

(* What a client has of the log h: it got all it was not told it had lost. *)
Complete(h, since, cur, gone, got, txt, f) ==
  /\ cur <= Len(h)
  /\ since <= cur
  /\ \A j \in gone : j \in since .. cur - 1
  /\ got = Kept(h, since, cur, gone, f)
  /\ txt = Texts(h, got, f)

Collected(c) ==
  /\ origin[c] <= session
  /\ origin[c] = session =>
       Complete(history, landed[c], cursor[c], lost[c], seen[c], text[c], FilterOf[c])

Shape ==
  /\ session \in Nat
  /\ cursor \in [Client -> Nat] /\ origin \in [Client -> Nat] /\ landed \in [Client -> Nat]
  /\ DOMAIN reply = Client /\ reply = [c \in Client |-> reply[c]]
  /\ seen = [c \in Client |-> seen[c]]
  /\ lost = [c \in Client |-> lost[c]]
  /\ text = [c \in Client |-> text[c]]

CInv == Shape /\ \A c \in Client : InFlight(c) /\ Collected(c)

Buffered == TypeOK /\ Window

-----------------------------------------------------------------------------
(* Clients only read: the buffer behaves as module LogBuffer says, so that *)
(* its invariants hold here too.                                           *)
THEOREM ClientsAreReaders == ClientSpec => Spec
<1>1. ClientInit => Init
  BY DEF ClientInit
<1>2. [ClientNext]_vars => [Next]_bufferVars
  BY DEF ClientNext, LogMessage, InitDebug, get_log, Receive, vars, Next, bufferVars
<1>3. QED BY <1>1, <1>2, PTL DEF ClientSpec, Spec

LEMMA BufferedAlways == ClientSpec => []Buffered
BY ClientsAreReaders, TypesCorrect, WindowOfTheLog, PTL DEF Buffered

-----------------------------------------------------------------------------
LEMMA KeptMeans ==
  ASSUME NEW h, NEW from \in Int, NEW to \in Int, NEW gone, NEW f
  PROVE  /\ \A k \in Int :
              k \in Kept(h, from, to, gone, f) <=>
                from <= k /\ k < to /\ k \notin gone /\ Keeps(h[k + 1], f)
         /\ \A k \in Kept(h, from, to, gone, f) :
              k \in Int /\ from <= k /\ k < to /\ k \notin gone /\ Keeps(h[k + 1], f)
<1>1. \A k \in from .. to - 1 : k \in Int /\ from <= k /\ k < to
  OBVIOUS
<1>2. \A k \in Int : from <= k /\ k < to => k \in from .. to - 1
  OBVIOUS
<1>3. QED BY <1>1, <1>2 DEF Kept

(* The answer of get_since in terms of the log of the session. *)
LEMMA PositionsToIndices ==
  ASSUME Buffered, NEW f, NEW a \in Nat, NEW b \in Nat, a <= b, b <= Len(entries),
         NEW P, \A j : j \in P <=> j \in a + 1 .. b /\ Keeps(entries[j], f)
  PROVE  LET I == Kept(history, base_index + a, base_index + b, {}, f)
         IN  /\ Absolute(P) = I
             /\ Cardinality(I) = Cardinality(P)
             /\ TextsAt(P, f) = Texts(history, I, f)
<1> DEFINE d == base_index - 1
           I == Kept(history, base_index + a, base_index + b, {}, f)
<1>1. /\ Len(entries) \in Nat /\ base_index \in Nat /\ d \in Int
      /\ \A j \in 1 .. Len(entries) : entries[j] = history[base_index + j]
  BY DEF Buffered, TypeOK, Window
<1>2. ASSUME NEW j \in P
      PROVE  j \in 1 .. Len(entries) /\ j \in 0 .. Len(entries)
  BY <1>1
<1>3. ASSUME NEW j \in P  PROVE d + j \in I
  <2>1. j \in a + 1 .. b /\ j \in 1 .. Len(entries) /\ Keeps(entries[j], f)
    BY <1>2
  <2>2. /\ d + j \in Int /\ base_index + a <= d + j /\ d + j < base_index + b
        /\ (d + j) + 1 = base_index + j
    <3>1. base_index \in Nat /\ a \in Nat /\ b \in Nat /\ j \in a + 1 .. b
      BY <1>1, <2>1
    <3>2. QED BY <3>1
  <2>3. history[(d + j) + 1] = entries[j]
    BY <1>1, <2>1, <2>2
  <2> HIDE DEF d
  <2>4. base_index + a \in Int /\ base_index + b \in Int
    BY <1>1
  <2>5. QED BY <2>1, <2>2, <2>3, <2>4, KeptMeans
<1>4. ASSUME NEW k \in I
      PROVE  k \in Nat /\ k - d \in P /\ d + (k - d) = k
  <2>1. /\ k \in Int /\ base_index + a <= k /\ k < base_index + b
        /\ Keeps(history[k + 1], f)
    <3>1. base_index + a \in Int /\ base_index + b \in Int
      BY <1>1
    <3>2. QED BY <3>1, KeptMeans
  <2>2. /\ k \in Nat /\ d + (k - d) = k /\ k - d \in a + 1 .. b /\ k - d \in 1 .. Len(entries)
        /\ k + 1 = base_index + (k - d)
    BY <1>1, <2>1
  <2>3. history[k + 1] = entries[k - d]
    BY <1>1, <2>2
  <2>4. QED BY <2>1, <2>2, <2>3
<1> HIDE DEF I
<1>5. IsShift(I, P, d)
  <2> HIDE DEF d
  <2>1. QED BY <1>3, <1>4 DEF IsShift
<1>6. Absolute(P) = I
  <2>1. ASSUME NEW j \in P  PROVE base_index + j - 1 = d + j
    BY <1>1, <1>2
  <2> HIDE DEF d
  <2>2. Absolute(P) = {d + j : j \in P}
    BY <2>1 DEF Absolute
  <2>3. {d + j : j \in P} = I
    BY <1>5 DEF IsShift
  <2>4. QED BY <2>2, <2>3
<1> HIDE DEF d
<1>7. /\ Cardinality(I) = Cardinality(P)
      /\ \A n \in 1 .. Cardinality(P) :
           \E j \in P : j = NthSmallest(P, n) /\ NthSmallest(I, n) = d + j
  <2>1. (\A j \in P : j \in 0 .. Len(entries)) /\ \A k \in I : k \in Nat
    BY <1>2, <1>4
  <2>2. Len(entries) \in Nat /\ d \in Int
    BY <1>1
  <2>3. QED BY <1>5, <2>1, <2>2, NthOfShift
<1>8. TextsAt(P, f) = Texts(history, I, f)
  <2>1. ASSUME NEW n \in 1 .. Cardinality(P)
        PROVE  entries[NthSmallest(P, n)] = history[NthSmallest(I, n) + 1]
    <3>1. PICK j \in P : j = NthSmallest(P, n) /\ NthSmallest(I, n) = d + j
      BY <1>7
    <3>2. j \in 1 .. Len(entries) /\ NthSmallest(I, n) + 1 = base_index + j
      <4>1. j \in 1 .. Len(entries)
        BY <1>2
      <4>2. QED BY <1>1, <3>1, <4>1 DEF d
    <3>3. QED BY <1>1, <3>1, <3>2
  <2>2. QED BY <1>7, <2>1 DEF TextsAt, Texts
<1>9. QED BY <1>6, <1>7, <1>8 DEF I

LEMMA SnapshotReads ==
  ASSUME Buffered, NEW since \in Nat, NEW f, NEW limit \in Nat,
         NEW last \in 0 .. Len(entries), EndsAt(last, since, limit, f)
  PROVE  LET from == IF since > End THEN End ELSE since + Evicted(since)
         IN  /\ End = Len(history) /\ End \in Nat /\ Evicted(since) \in Nat
             /\ since > End => Evicted(since) = 0
             /\ from <= NextIndex(last) /\ NextIndex(last) <= End /\ NextIndex(last) \in Nat
             /\ Absolute(Taken(last, since, f)) = Kept(history, from, NextIndex(last), {}, f)
             /\ TextsAt(Taken(last, since, f), f) =
                  Texts(history, Kept(history, from, NextIndex(last), {}, f), f)
             /\ Remaining(last, since, f) = Cardinality(Kept(history, NextIndex(last), End, {}, f))
<1> DEFINE from == IF since > End THEN End ELSE since + Evicted(since)
           s == Start(since)
           P == Taken(last, since, f)
           R == Matching(since, f) \ P
<1>1. Len(entries) \in Nat /\ base_index \in Nat /\ s \in Nat /\ last \in Nat
  BY DEF Buffered, TypeOK, Start
<1>2. End = Len(history) /\ End \in Nat /\ End = base_index + Len(entries)
  BY <1>1 DEF Buffered, Window, End
<1>3. Evicted(since) \in Nat /\ (since > End => Evicted(since) = 0)
  BY <1>1, <1>2 DEF Evicted
<1>4. CASE since > End
  <2>1. s > Len(entries)
    BY <1>1, <1>2, <1>4 DEF Start
  <2>2. Matching(since, f) = {}
    <3>1. s + 1 .. Len(entries) = {}
      BY <1>1, <2>1
    <3>2. QED BY <3>1 DEF Matching
  <2>3. last = Len(entries)
    <3>1. limit = 0 \/ Cardinality(Matching(since, f)) < limit
      BY <2>2, FS_EmptySet
    <3>2. QED BY <3>1 DEF EndsAt
  <2>4. NextIndex(last) = End /\ from = End
    BY <1>2, <1>4, <2>3 DEF NextIndex
  <2>5. P = {} /\ R = {}
    BY <2>2 DEF Taken
  <2>6. Kept(history, End, End, {}, f) = {}
    <3>1. End .. End - 1 = {}
      BY <1>2
    <3>2. QED BY <3>1 DEF Kept
  <2>7. Absolute({}) = {} /\ TextsAt({}, f) = Texts(history, {}, f)
    <3>1. Cardinality({}) = 0
      BY FS_EmptySet
    <3>2. QED BY <3>1 DEF Absolute, TextsAt, Texts
  <2>8. Remaining(last, since, f) = Cardinality(Kept(history, NextIndex(last), End, {}, f))
    BY <2>4, <2>5, <2>6 DEF Remaining
  <2>9. /\ Absolute(P) = Kept(history, from, NextIndex(last), {}, f)
        /\ TextsAt(P, f) = Texts(history, Kept(history, from, NextIndex(last), {}, f), f)
    BY <2>4, <2>5, <2>6, <2>7
  <2>10. from <= NextIndex(last) /\ NextIndex(last) <= End /\ NextIndex(last) \in Nat
    BY <1>2, <2>4
  <2> HIDE DEF from, P
  <2>11. QED BY <1>2, <1>3, <2>8, <2>9, <2>10 DEF from, P
<1>5. CASE ~ (since > End)
  <2>1. from = base_index + s /\ s <= Len(entries)
    BY <1>1, <1>2, <1>5 DEF Start, Evicted
  <2>2. s <= last
    <3>1. last = Len(entries) \/ last \in Matching(since, f)
      BY DEF EndsAt
    <3>2. CASE last \in Matching(since, f)
      <4>1. last \in s + 1 .. Len(entries)
        BY <3>2 DEF Matching
      <4>2. QED BY <1>1, <4>1
    <3>3. QED BY <2>1, <3>1, <3>2
  <2>3. P = {j \in s + 1 .. last : Keeps(entries[j], f)}
    <3>1. \A j \in s + 1 .. Len(entries) : j <= last <=> j \in s + 1 .. last
      BY <1>1
    <3>2. s + 1 .. last \subseteq s + 1 .. Len(entries)
      BY <1>1
    <3>3. QED BY <3>1, <3>2 DEF Taken, Matching
  <2>4. R = {j \in last + 1 .. Len(entries) : Keeps(entries[j], f)}
    <3>1. \A j \in s + 1 .. Len(entries) : ~ (j <= last) <=> j \in last + 1 .. Len(entries)
      BY <1>1
    <3>2. last + 1 .. Len(entries) \subseteq s + 1 .. Len(entries)
      BY <1>1, <2>2
    <3>3. QED BY <3>1, <3>2 DEF Taken, Matching
  <2>5. NextIndex(last) = base_index + last
    BY DEF NextIndex
  <2>6. from <= NextIndex(last) /\ NextIndex(last) <= End /\ NextIndex(last) \in Nat
    BY <1>1, <1>2, <2>1, <2>2, <2>5
  <2>7. /\ Absolute(P) = Kept(history, from, NextIndex(last), {}, f)
        /\ TextsAt(P, f) = Texts(history, Kept(history, from, NextIndex(last), {}, f), f)
    <3>1. \A j : j \in P <=> j \in s + 1 .. last /\ Keeps(entries[j], f)
      BY <2>3
    <3> HIDE DEF P, s, from
    <3>2. last <= Len(entries)
      BY <1>1
    <3>3. /\ Absolute(P) = Kept(history, base_index + s, base_index + last, {}, f)
          /\ TextsAt(P, f) =
               Texts(history, Kept(history, base_index + s, base_index + last, {}, f), f)
      BY <1>1, <2>2, <3>1, <3>2, PositionsToIndices
    <3>4. QED BY <2>1, <2>5, <3>3
  <2>8. Cardinality(R) = Cardinality(Kept(history, NextIndex(last), End, {}, f))
    <3>1. \A j : j \in R <=> j \in last + 1 .. Len(entries) /\ Keeps(entries[j], f)
      BY <2>4
    <3> HIDE DEF R
    <3>2. last <= Len(entries) /\ Len(entries) <= Len(entries)
      BY <1>1
    <3>3. Cardinality(Kept(history, base_index + last, base_index + Len(entries), {}, f)) =
            Cardinality(R)
      BY <1>1, <3>1, <3>2, PositionsToIndices
    <3>4. QED BY <1>2, <2>5, <3>3
  <2>9. Remaining(last, since, f) = Cardinality(Kept(history, NextIndex(last), End, {}, f))
    BY <2>8 DEF Remaining
  <2> HIDE DEF from, P, R
  <2>10. QED BY <1>2, <1>3, <2>6, <2>7, <2>9 DEF from, P
<1>6. QED BY <1>4, <1>5
-----------------------------------------------------------------------------
(* What has been read of a log stays true of the log as it grows. *)
LEMMA KeptIsBounded ==
  ASSUME NEW h, NEW from \in Nat, NEW to \in Nat, NEW gone, NEW f
  PROVE  \A j \in Kept(h, from, to, gone, f) : j \in 0 .. to /\ from <= j /\ j < to
<1>1. from \in Int /\ to \in Int
  OBVIOUS
<1>2. \A j \in Kept(h, from, to, gone, f) : j \in Int /\ from <= j /\ j < to
  BY <1>1, KeptMeans
<1>3. QED BY <1>2

LEMMA KeptAsLogGrows ==
  ASSUME NEW h \in Seq(Message), NEW m \in Message, NEW from \in Nat, NEW to \in Nat,
         to <= Len(h), NEW gone, NEW f
  PROVE  LET S == Kept(h, from, to, gone, f)
         IN  Kept(Append(h, m), from, to, gone, f) = S /\ Texts(Append(h, m), S, f) = Texts(h, S, f)
<1> DEFINE S == Kept(h, from, to, gone, f)
<1>1. \A j \in from .. to - 1 : j \in 0 .. to /\ Append(h, m)[j + 1] = h[j + 1]
  OBVIOUS
<1>2. Kept(Append(h, m), from, to, gone, f) = S
  BY <1>1 DEF Kept
<1>3. \A j \in S : j \in 0 .. to /\ Append(h, m)[j + 1] = h[j + 1]
  BY <1>1 DEF Kept
<1> HIDE DEF S
<1>4. ASSUME NEW n \in 1 .. Cardinality(S)
      PROVE  Append(h, m)[NthSmallest(S, n) + 1] = h[NthSmallest(S, n) + 1]
  <2>1. NthSmallest(S, n) \in S
    BY <1>3, NthExists
  <2>2. QED BY <1>3, <2>1
<1>5. Texts(Append(h, m), S, f) = Texts(h, S, f)
  BY <1>4 DEF Texts
<1>6. QED BY <1>2, <1>5 DEF S

LEMMA PageAsLogGrows ==
  ASSUME NEW h \in Seq(Message), NEW m \in Message, NEW r, NEW since \in Nat, NEW f,
         r.snap.next_index \in Nat, r.snap.evicted \in Nat, Page(h, r, since, f)
  PROVE  Page(Append(h, m), r, since, f)
<1> DEFINE from == IF since > r.end THEN r.end ELSE since + r.snap.evicted
           next == r.snap.next_index
           end == r.end
<1>1. /\ end \in Nat /\ end <= Len(h) /\ from \in Nat /\ from <= next /\ next <= end
      /\ next \in Nat /\ next <= Len(h) /\ Len(h) \in Nat
  BY DEF Page
<1>2. r.index = Kept(h, from, next, {}, f) /\ r.snap.entries = Texts(h, r.index, f)
  BY DEF Page
<1>3. r.snap.remaining = Cardinality(Kept(h, next, end, {}, f))
  BY DEF Page
<1>4. Len(Append(h, m)) = Len(h) + 1
  OBVIOUS
<1> HIDE DEF from, next, end
<1>5. /\ r.index = Kept(Append(h, m), from, next, {}, f)
      /\ r.snap.entries = Texts(Append(h, m), r.index, f)
  BY <1>1, <1>2, KeptAsLogGrows
<1>6. r.snap.remaining = Cardinality(Kept(Append(h, m), next, end, {}, f))
  BY <1>1, <1>3, KeptAsLogGrows
<1>7. end <= Len(Append(h, m))
  BY <1>1, <1>4
<1>8. QED BY <1>1, <1>5, <1>6, <1>7 DEF Page, from, next, end

LEMMA CompleteAsLogGrows ==
  ASSUME NEW h \in Seq(Message), NEW m \in Message, NEW since \in Nat, NEW cur \in Nat,
         NEW gone, NEW got, NEW txt, NEW f, Complete(h, since, cur, gone, got, txt, f)
  PROVE  Complete(Append(h, m), since, cur, gone, got, txt, f)
<1>1. /\ cur <= Len(h) /\ got = Kept(h, since, cur, gone, f) /\ txt = Texts(h, got, f)
  BY DEF Complete
<1>2. /\ got = Kept(Append(h, m), since, cur, gone, f)
      /\ txt = Texts(Append(h, m), got, f)
  BY <1>1, KeptAsLogGrows
<1>3. cur <= Len(Append(h, m))
  BY <1>1
<1>4. QED BY <1>2, <1>3 DEF Complete

Below(S, N) == \A j \in S : j \in 0 .. N

Joined(h, S, T, f) == Texts(h, S, f) \o Texts(h, T, f) = Texts(h, S \cup T, f)

(* The texts of two sets, one below the other, put one after the other. *)
LEMMA TextsJoin ==
  ASSUME NEW h, NEW N \in Nat, NEW S, Below(S, N), NEW T, Below(T, N), Precedes(S, T), NEW f
  PROVE  Joined(h, S, T, f)
<1> DEFINE a == Cardinality(S)
           b == Cardinality(T)
           U == S \cup T
           x == Texts(h, S, f)
           y == Texts(h, T, f)
           z == Texts(h, U, f)
           Any == {Candidate(h[k + 1], f) : k \in U}
<1>1. /\ a \in Nat /\ b \in Nat /\ Cardinality(U) = a + b
      /\ \A n \in 1 .. a : NthSmallest(U, n) = NthSmallest(S, n)
      /\ \A n \in 1 .. b : NthSmallest(U, a + n) = NthSmallest(T, n)
  <2>1. a \in Nat /\ b \in Nat
    BY BoundedIsFinite, FS_CardinalityType DEF Below
  <2>2. InSequence(U, S, T)
    BY NthOfUnion DEF Below
  <2> HIDE DEF U
  <2>3. QED BY <2>1, <2>2 DEF InSequence
<1>2. /\ \A n \in 1 .. a : NthSmallest(S, n) \in U
      /\ \A n \in 1 .. b : NthSmallest(T, n) \in U
  BY NthExists DEF Below
<1>3. ASSUME NEW n \in 1 .. a + b
      PROVE  NthSmallest(U, n) \in U
  <2>1. CASE n \in 1 .. a
    BY <1>1, <1>2, <2>1
  <2>2. CASE n \notin 1 .. a
    <3>1. n - a \in 1 .. b /\ a + (n - a) = n
      BY <1>1, <2>2
    <3>2. QED BY <1>1, <1>2, <3>1
  <2>3. QED BY <2>1, <2>2
<1>4. /\ x = [n \in 1 .. a |-> Candidate(h[NthSmallest(S, n) + 1], f)]
      /\ y = [n \in 1 .. b |-> Candidate(h[NthSmallest(T, n) + 1], f)]
      /\ z = [n \in 1 .. a + b |-> Candidate(h[NthSmallest(U, n) + 1], f)]
  BY <1>1 DEF Texts
<1>5. \A k \in U : Candidate(h[k + 1], f) \in Any
  OBVIOUS
<1> HIDE DEF a, b, U, x, y, z, Any
<1>6. x \in Seq(Any) /\ y \in Seq(Any) /\ z \in Seq(Any)
  <2>1. x \in [1 .. a -> Any] /\ y \in [1 .. b -> Any] /\ z \in [1 .. a + b -> Any]
    BY <1>2, <1>3, <1>4, <1>5
  <2>2. QED BY <1>1, <2>1
<1>7. Len(x) = a /\ Len(y) = b /\ Len(z) = a + b
  BY <1>1, <1>4, <1>6
<1>8. /\ x \o y \in Seq(Any) /\ Len(x \o y) = a + b
      /\ \A n \in 1 .. a + b : (x \o y)[n] = IF n <= a THEN x[n] ELSE y[n - a]
  BY <1>1, <1>6, <1>7, ConcatProperties
<1>9. ASSUME NEW n \in 1 .. a + b
      PROVE  (x \o y)[n] = z[n]
  <2>1. CASE n <= a
    <3>1. n \in 1 .. a
      BY <1>1, <2>1
    <3>2. QED BY <1>1, <1>4, <1>8, <2>1, <3>1
  <2>2. CASE ~ (n <= a)
    <3>1. n - a \in 1 .. b /\ a + (n - a) = n
      BY <1>1, <2>2
    <3>2. (x \o y)[n] = y[n - a]
      BY <1>8, <2>2
    <3>3. y[n - a] = Candidate(h[NthSmallest(T, n - a) + 1], f)
      BY <1>4, <3>1
    <3>4. NthSmallest(T, n - a) = NthSmallest(U, n)
      BY <1>1, <3>1
    <3>5. QED BY <1>4, <3>2, <3>3, <3>4
  <2>3. QED BY <2>1, <2>2
<1>10. x \o y = z
  BY <1>1, <1>6, <1>7, <1>8, <1>9, SeqEqual
<1>11. QED BY <1>10 DEF x, y, z, U, Joined

-----------------------------------------------------------------------------
(* A page is complete by itself, and completes what was read before it. *)
Gone(r, since) == since .. since + r.snap.evicted - 1

LEMMA PageFacts ==
  ASSUME NEW h \in Seq(Message), NEW r, NEW since \in Nat, NEW f,
         r.snap.next_index \in Nat, r.snap.evicted \in Nat, Page(h, r, since, f)
  PROVE  /\ r.snap.next_index <= Len(h)
         /\ r.snap.entries = Texts(h, r.index, f)
         /\ \/ /\ since <= r.end /\ r.landed = since
               /\ since + r.snap.evicted <= r.snap.next_index
               /\ r.index = Kept(h, since + r.snap.evicted, r.snap.next_index, {}, f)
            \/ /\ since > r.end /\ r.end = r.snap.next_index /\ r.landed = r.snap.next_index
               /\ r.snap.evicted = 0
               /\ r.index = Kept(h, r.snap.next_index, r.snap.next_index, {}, f)
<1>1. Len(h) \in Nat /\ r.end \in Nat /\ r.end <= Len(h) /\ r.snap.next_index <= r.end
  BY DEF Page
<1>2. CASE since > r.end
  BY <1>1, <1>2 DEF Page
<1>3. CASE ~ (since > r.end)
  BY <1>1, <1>3 DEF Page
<1>4. QED BY <1>2, <1>3

LEMMA PageCompletes ==
  ASSUME NEW h \in Seq(Message), NEW r, NEW since \in Nat, NEW f,
         r.snap.next_index \in Nat, r.snap.evicted \in Nat, Page(h, r, since, f)
  PROVE  Complete(h, r.landed, r.snap.next_index, Gone(r, since), r.index, r.snap.entries, f)
<1> DEFINE next == r.snap.next_index
           ev == r.snap.evicted
           gone == Gone(r, since)
<1>1. next \in Nat /\ ev \in Nat /\ next <= Len(h) /\ r.snap.entries = Texts(h, r.index, f)
  BY PageFacts
<1>2. \A j : j \in gone <=> j \in since .. since + ev - 1
  BY DEF Gone
<1>3. CASE /\ since <= r.end /\ r.landed = since /\ since + ev <= next
           /\ r.index = Kept(h, since + ev, next, {}, f)
  <2>1. \A j \in gone : j \in since .. next - 1
    BY <1>1, <1>2, <1>3
  <2>2. \A j : (j \in since + ev .. next - 1) <=> (j \in since .. next - 1 /\ j \notin gone)
    BY <1>1, <1>2, <1>3
  <2>3. r.index = Kept(h, since, next, gone, f)
    BY <1>3, <2>2 DEF Kept
  <2>4. since <= next
    BY <1>1, <1>3
  <2> HIDE DEF gone, next
  <2>5. QED BY <1>1, <1>3, <2>1, <2>3, <2>4 DEF Complete, gone, next
<1>4. CASE /\ since > r.end /\ r.landed = next /\ ev = 0
           /\ r.index = Kept(h, next, next, {}, f)
  <2>1. next .. next - 1 = {} /\ since .. since + ev - 1 = {}
    BY <1>1, <1>4
  <2>2. gone = {}
    BY <2>1 DEF Gone
  <2> HIDE DEF gone, next
  <2>3. r.index = Kept(h, next, next, gone, f)
    BY <1>4, <2>2
  <2>4. QED BY <1>1, <1>4, <2>2, <2>3 DEF Complete, gone, next
<1>5. QED BY <1>3, <1>4, PageFacts

LEMMA PageExtends ==
  ASSUME NEW h \in Seq(Message), NEW r, NEW cur \in Nat, NEW since \in Nat, NEW f,
         r.snap.next_index \in Nat, r.snap.evicted \in Nat, Page(h, r, cur, f),
         cur <= r.snap.next_index,
         NEW gone, NEW got, NEW txt, Complete(h, since, cur, gone, got, txt, f)
  PROVE  Complete(h, since, r.snap.next_index, gone \cup Gone(r, cur), got \cup r.index,
                  txt \o r.snap.entries, f)
<1> DEFINE next == r.snap.next_index
           ev == r.snap.evicted
           more == gone \cup Gone(r, cur)
<1>1. next \in Nat /\ ev \in Nat /\ next <= Len(h) /\ r.snap.entries = Texts(h, r.index, f)
  BY PageFacts
<1>2. cur + ev <= next /\ r.index = Kept(h, cur + ev, next, {}, f)
  <2>1. r.end \in Nat
    BY DEF Page
  <2>2. ~ (cur > r.end /\ r.end = next)
    BY <1>1, <2>1
  <2>3. QED BY <2>2, PageFacts
<1>3. /\ since <= cur /\ got = Kept(h, since, cur, gone, f) /\ txt = Texts(h, got, f)
      /\ \A j \in gone : j \in since .. cur - 1
  BY DEF Complete
<1>4. \A j : j \in more <=> j \in gone \/ j \in cur .. cur + ev - 1
  BY DEF Gone
<1>5. /\ \A j \in more : j \in since .. next - 1
      /\ \A j : (j \in since .. next - 1 /\ j \notin more) <=>
                  \/ j \in since .. cur - 1 /\ j \notin gone
                  \/ j \in cur + ev .. next - 1
  <2> HIDE DEF next, ev, more
  <2>1. ASSUME NEW j \in more  PROVE j \in since .. next - 1
    BY <1>1, <1>2, <1>3, <1>4
  <2>2. ASSUME NEW j
        PROVE  (j \in since .. next - 1 /\ j \notin more) <=>
                  \/ j \in since .. cur - 1 /\ j \notin gone
                  \/ j \in cur + ev .. next - 1
    <3>1. j \in since .. next - 1 <=>
            \/ j \in since .. cur - 1
            \/ j \in cur .. cur + ev - 1
            \/ j \in cur + ev .. next - 1
      BY <1>1, <1>2, <1>3
    <3>2. /\ j \in cur .. cur + ev - 1 => j \notin cur + ev .. next - 1
          /\ j \in since .. cur - 1 => j \notin cur .. cur + ev - 1
          /\ j \in gone => j \in since .. cur - 1 /\ j \notin cur + ev .. next - 1
      BY <1>1, <1>2, <1>3
    <3>3. j \in more <=> j \in gone \/ j \in cur .. cur + ev - 1
      BY <1>4
    <3>4. QED BY <3>1, <3>2, <3>3
  <2>3. QED BY <2>1, <2>2
<1>6. got \cup r.index = Kept(h, since, next, more, f)
  BY <1>2, <1>3, <1>5 DEF Kept
<1>7. txt \o r.snap.entries = Texts(h, got \cup r.index, f)
  <2>1. /\ \A j \in got : j \in 0 .. cur /\ j < cur
        /\ \A j \in r.index : j \in 0 .. next /\ cur + ev <= j
    <3>1. cur + ev \in Nat
      BY <1>1
    <3>2. QED BY <1>1, <1>2, <1>3, <3>1, KeptIsBounded
  <2>2. \A j \in got : j \in 0 .. next
    BY <1>1, <1>2, <2>1
  <2>3. Precedes(got, r.index)
    BY <1>1, <2>1 DEF Precedes
  <2>4. \A j \in r.index : j \in 0 .. next
    BY <2>1
  <2> HIDE DEF next
  <2>5. Texts(h, got, f) \o Texts(h, r.index, f) = Texts(h, got \cup r.index, f)
    <3>1. PICK N \in Nat : N = next
      BY <1>1
    <3>2. PICK page : page = r.index
      OBVIOUS
    <3>3. Below(got, N) /\ Below(page, N) /\ Precedes(got, page)
      BY <2>2, <2>3, <2>4, <3>1, <3>2 DEF Below
    <3>4. Joined(h, got, page, f)
      BY <3>1, <3>3, TextsJoin
    <3>5. QED BY <3>2, <3>4 DEF Joined
  <2>6. QED BY <1>1, <1>3, <2>5
<1>8. since <= next
  BY <1>1, <1>2, <1>3
<1> HIDE DEF next, more
<1>9. QED BY <1>1, <1>5, <1>6, <1>7, <1>8 DEF Complete, next, more

-----------------------------------------------------------------------------
(* The invariant is kept by every action. *)
LEMMA LogMessageKeeps ==
  ASSUME CInv, Buffered, LogMessage
  PROVE  CInv'
<1>1. PICK m \in Message : history' = Append(history, m)
  BY DEF LogMessage, append
<1>2. UNCHANGED clientVars /\ history \in Seq(Message)
  BY DEF LogMessage, Buffered, TypeOK
<1>3. UNCHANGED <<cursor, reply, session, origin, landed, seen, lost, text>>
  BY <1>2 DEF clientVars
<1>4. ASSUME NEW c \in Client
      PROVE  InFlight(c)' /\ Collected(c)'
  <2>1. InFlight(c) /\ Collected(c) /\ cursor[c] \in Nat /\ landed[c] \in Nat
    BY DEF CInv, Shape
  <2>2. ASSUME reply[c] # NoReply, reply[c].session = session
        PROVE  Page(Append(history, m), reply[c], cursor[c], FilterOf[c])
    <3>1. /\ reply[c].snap.next_index \in Nat /\ reply[c].snap.evicted \in Nat
          /\ Page(history, reply[c], cursor[c], FilterOf[c])
      BY <2>1, <2>2 DEF InFlight
    <3>2. QED BY <1>1, <1>2, <2>1, <3>1, PageAsLogGrows
  <2>3. InFlight(c)'
    BY <1>1, <1>3, <2>1, <2>2 DEF InFlight
  <2>4. ASSUME origin[c] = session
        PROVE  Complete(Append(history, m), landed[c], cursor[c], lost[c], seen[c], text[c],
                        FilterOf[c])
    <3>1. Complete(history, landed[c], cursor[c], lost[c], seen[c], text[c], FilterOf[c])
      BY <2>1, <2>4 DEF Collected
    <3>2. QED BY <1>1, <1>2, <2>1, <3>1, CompleteAsLogGrows
  <2>5. Collected(c)'
    BY <1>1, <1>3, <2>1, <2>4 DEF Collected
  <2>6. QED BY <2>3, <2>5
<1>5. Shape'
  BY <1>3 DEF CInv, Shape
<1>6. QED BY <1>4, <1>5 DEF CInv

LEMMA InitDebugKeeps ==
  ASSUME CInv, InitDebug
  PROVE  CInv'
<1>1. /\ UNCHANGED <<cursor, reply, origin, landed, seen, lost, text>>
      /\ session \in Nat /\ session' = session + 1
  BY DEF InitDebug, CInv, Shape
<1>2. Shape'
  BY <1>1 DEF CInv, Shape
<1>3. ASSUME NEW c \in Client
      PROVE  InFlight(c)' /\ Collected(c)'
  <2>1. InFlight(c) /\ Collected(c) /\ origin[c] \in Nat
    BY DEF CInv, Shape
  <2>2. InFlight(c)'
    <3>1. ASSUME reply[c] # NoReply
          PROVE  /\ reply[c].session \in Nat /\ reply[c].session <= session'
                 /\ reply[c].session # session'
      BY <1>1, <2>1, <3>1 DEF InFlight
    <3>2. QED BY <1>1, <2>1, <3>1 DEF InFlight
  <2>3. origin[c] <= session' /\ origin[c] # session'
    BY <1>1, <2>1 DEF Collected
  <2>4. Collected(c)'
    BY <1>1, <2>3 DEF Collected
  <2>5. QED BY <2>2, <2>4
<1>4. QED BY <1>2, <1>3 DEF CInv

LEMMA GetLogKeeps ==
  ASSUME CInv, Buffered, NEW c \in Client, get_log(c)
  PROVE  CInv'
<1> DEFINE f == FilterOf[c]
           since == cursor[c]
<1>1. PICK limit \in Limit, last \in 0 .. Len(entries) :
        /\ EndsAt(last, since, limit, f)
        /\ reply' = [reply EXCEPT ![c] =
             [ snap    |-> Snapshot(last, since, f),
               index   |-> Absolute(Taken(last, since, f)),
               session |-> session,
               end     |-> End,
               landed  |-> IF since > End THEN End ELSE since ]]
  BY DEF get_log
<1>2. UNCHANGED <<history, cursor, session, origin, landed, seen, lost, text>>
  BY DEF get_log, bufferVars
<1>3. /\ Shape /\ since \in Nat /\ session \in Nat /\ limit \in Nat
      /\ \A d \in Client : InFlight(d) /\ Collected(d)
  BY LogClientAssumption DEF CInv, Shape
<1> DEFINE r == reply'[c]
           from == IF since > End THEN End ELSE since + Evicted(since)
           next == NextIndex(last)
<1>4. r = [ snap    |-> Snapshot(last, since, f),
            index   |-> Absolute(Taken(last, since, f)),
            session |-> session,
            end     |-> End,
            landed  |-> IF since > End THEN End ELSE since ]
  BY <1>1, <1>3 DEF Shape
<1>5. /\ r.session = session /\ r.end = End
      /\ r.landed = (IF since > End THEN End ELSE since)
      /\ r.index = Absolute(Taken(last, since, f))
      /\ r.snap.next_index = next /\ r.snap.evicted = Evicted(since)
      /\ r.snap.entries = TextsAt(Taken(last, since, f), f)
      /\ r.snap.remaining = Remaining(last, since, f)
  BY <1>4 DEF Snapshot
<1>6. /\ End = Len(history) /\ End \in Nat /\ Evicted(since) \in Nat
      /\ since > End => Evicted(since) = 0
      /\ from <= next /\ next <= End /\ next \in Nat
      /\ Absolute(Taken(last, since, f)) = Kept(history, from, next, {}, f)
      /\ TextsAt(Taken(last, since, f), f) = Texts(history, Kept(history, from, next, {}, f), f)
      /\ Remaining(last, since, f) = Cardinality(Kept(history, next, End, {}, f))
  BY <1>1, <1>3, SnapshotReads
<1> HIDE DEF r, f, since, next
<1>7. Page(history, r, since, f)
  BY <1>5, <1>6 DEF Page
<1>8. r.landed \in Nat
  BY <1>3, <1>5, <1>6
<1>9. r.session = origin[c] => since <= r.snap.next_index
  <2>1. ASSUME session = origin[c]
        PROVE  since <= End
    BY <1>3, <1>6, <2>1 DEF Collected, Complete, since
  <2>2. ASSUME since <= End
        PROVE  since <= next
    BY <1>3, <1>6, <2>2
  <2>3. QED BY <1>5, <2>1, <2>2
<1>10. InFlight(c)'
  <2>1. /\ r.session \in Nat /\ r.session <= session
        /\ r.snap.next_index \in Nat /\ r.snap.evicted \in Nat
    BY <1>3, <1>5, <1>6
  <2>2. QED BY <1>2, <1>7, <1>8, <1>9, <2>1 DEF InFlight, r, since, f
<1>11. ASSUME NEW d \in Client
       PROVE  InFlight(d)' /\ Collected(d)'
  <2>1. InFlight(d) /\ Collected(d)
    BY <1>3
  <2>2. Collected(d)'
    BY <1>2, <2>1 DEF Collected
  <2>3. CASE d = c
    BY <1>10, <2>2, <2>3
  <2>4. CASE d # c
    <3>1. reply'[d] = reply[d]
      BY <1>1, <1>3, <2>4 DEF Shape
    <3>2. QED BY <1>2, <2>1, <2>2, <3>1 DEF InFlight
  <2>5. QED BY <2>3, <2>4
<1>12. Shape'
  BY <1>1, <1>2, <1>3 DEF Shape
<1>13. QED BY <1>11, <1>12 DEF CInv

LEMMA ReceiveKeeps ==
  ASSUME CInv, Buffered, NEW c \in Client, Receive(c)
  PROVE  CInv' /\ (origin'[c] = origin[c] => cursor'[c] >= cursor[c])
<1> DEFINE r == reply[c]
           next == r.snap.next_index
           carried == r.session # origin[c]
           f == FilterOf[c]
<1>1. /\ cursor' = [cursor EXCEPT ![c] = next]
      /\ origin' = [origin EXCEPT ![c] = r.session]
      /\ landed' = [landed EXCEPT ![c] = IF carried THEN r.landed ELSE @]
      /\ seen' = [seen EXCEPT ![c] = IF carried THEN r.index ELSE @ \cup r.index]
      /\ lost' = [lost EXCEPT ![c] =
           IF carried THEN Gone(r, cursor[c]) ELSE @ \cup Gone(r, cursor[c])]
      /\ text' = [text EXCEPT ![c] = IF carried THEN r.snap.entries ELSE @ \o r.snap.entries]
      /\ reply' = [reply EXCEPT ![c] = NoReply]
      /\ UNCHANGED <<history, session>> /\ r # NoReply
  BY DEF Receive, bufferVars, Gone
<1>2. /\ Shape /\ cursor[c] \in Nat /\ origin[c] \in Nat /\ landed[c] \in Nat /\ session \in Nat
      /\ \A d \in Client : InFlight(d) /\ Collected(d)
      /\ history \in Seq(Message)
  BY DEF CInv, Shape, Buffered, TypeOK
<1>3. /\ r.session \in Nat /\ r.session <= session
      /\ next \in Nat /\ r.snap.evicted \in Nat /\ r.landed \in Nat
      /\ ~ carried => cursor[c] <= next
      /\ r.session = session => Page(history, r, cursor[c], f)
  BY <1>1, <1>2 DEF InFlight
<1>4. /\ cursor'[c] = next /\ origin'[c] = r.session /\ reply'[c] = NoReply
      /\ landed'[c] = (IF carried THEN r.landed ELSE landed[c])
      /\ seen'[c] = (IF carried THEN r.index ELSE seen[c] \cup r.index)
      /\ lost'[c] = (IF carried THEN Gone(r, cursor[c]) ELSE lost[c] \cup Gone(r, cursor[c]))
      /\ text'[c] = (IF carried THEN r.snap.entries ELSE text[c] \o r.snap.entries)
  BY <1>1, <1>2 DEF Shape
<1>5. Shape'
  <2>1. /\ cursor' \in [Client -> Nat] /\ origin' \in [Client -> Nat]
        /\ landed' \in [Client -> Nat] /\ session' \in Nat
    BY <1>1, <1>2, <1>3 DEF Shape
  <2>2. /\ DOMAIN reply' = Client /\ reply' = [d \in Client |-> reply'[d]]
        /\ seen' = [d \in Client |-> seen'[d]]
        /\ lost' = [d \in Client |-> lost'[d]]
        /\ text' = [d \in Client |-> text'[d]]
    BY <1>1, <1>2 DEF Shape
  <2>3. QED BY <2>1, <2>2 DEF Shape
<1>6. InFlight(c)'
  BY <1>4 DEF InFlight
<1> HIDE DEF r, next, f
<1>7. Collected(c)'
  <2>1. ASSUME r.session = session
        PROVE  Complete(history, landed'[c], next, lost'[c], seen'[c], text'[c], f)
    <3>1. CASE carried
      <4>1. Complete(history, r.landed, next, Gone(r, cursor[c]), r.index, r.snap.entries, f)
        BY <1>2, <1>3, <2>1, PageCompletes DEF next
      <4>2. QED BY <1>4, <3>1, <4>1
    <3>2. CASE ~ carried
      <4>1. Complete(history, landed[c], cursor[c], lost[c], seen[c], text[c], f)
        BY <1>2, <2>1, <3>2 DEF Collected, f
      <4>2. Complete(history, landed[c], next, lost[c] \cup Gone(r, cursor[c]),
                     seen[c] \cup r.index, text[c] \o r.snap.entries, f)
        BY <1>2, <1>3, <2>1, <3>2, <4>1, PageExtends DEF next
      <4>3. QED BY <1>4, <3>2, <4>2
    <3>3. QED BY <3>1, <3>2
  <2>2. QED BY <1>1, <1>3, <1>4, <2>1 DEF Collected, f
<1>8. ASSUME NEW d \in Client, d # c
      PROVE  InFlight(d)' /\ Collected(d)'
  <2>1. /\ cursor'[d] = cursor[d] /\ origin'[d] = origin[d] /\ landed'[d] = landed[d]
        /\ seen'[d] = seen[d] /\ lost'[d] = lost[d] /\ text'[d] = text[d]
        /\ reply'[d] = reply[d]
    BY <1>1, <1>2, <1>8 DEF Shape
  <2>2. InFlight(d) /\ Collected(d)
    BY <1>2
  <2>3. QED BY <1>1, <2>1, <2>2 DEF InFlight, Collected
<1>9. CInv'
  BY <1>5, <1>6, <1>7, <1>8 DEF CInv
<1>10. origin'[c] = origin[c] => cursor'[c] >= cursor[c]
  BY <1>2, <1>3, <1>4
<1>11. QED BY <1>9, <1>10

LEMMA InitialClients == ClientInit => CInv
<1>1. SUFFICES ASSUME ClientInit  PROVE CInv
  OBVIOUS
<1>2. Shape
  BY <1>1 DEF ClientInit, Shape
<1>3. ASSUME NEW c \in Client
      PROVE  InFlight(c) /\ Collected(c)
  <2>1. InFlight(c)
    BY <1>1 DEF ClientInit, InFlight
  <2>2. Kept(history, 0, 0, {}, FilterOf[c]) = {}
    <3>1. 0 .. 0 - 1 = {}
      OBVIOUS
    <3>2. QED BY <3>1 DEF Kept
  <2>3. Texts(history, {}, FilterOf[c]) = << >>
    BY FS_EmptySet DEF Texts
  <2>4. history = << >> /\ Len(<< >>) = 0
    BY <1>1 DEF ClientInit, Init
  <2>5. Complete(history, 0, 0, {}, {}, << >>, FilterOf[c])
    BY <2>2, <2>3, <2>4 DEF Complete
  <2>6. QED BY <1>1, <2>1, <2>5 DEF ClientInit, Collected
<1>4. QED BY <1>2, <1>3 DEF CInv

LEMMA ClientStep ==
  ASSUME CInv, Buffered, [ClientNext]_vars
  PROVE  CInv' /\ \A c \in Client : origin'[c] = origin[c] => cursor'[c] >= cursor[c]
<1>1. ASSUME cursor' = cursor
      PROVE  \A c \in Client : cursor'[c] >= cursor[c]
  BY <1>1 DEF CInv, Shape
<1>2. CASE LogMessage
  BY <1>1, <1>2, LogMessageKeeps DEF LogMessage, clientVars
<1>3. CASE InitDebug
  BY <1>1, <1>3, InitDebugKeeps DEF InitDebug
<1>4. ASSUME NEW c \in Client, get_log(c)
      PROVE  CInv' /\ \A d \in Client : cursor'[d] >= cursor[d]
  BY <1>1, <1>4, GetLogKeeps DEF get_log
<1>5. ASSUME NEW c \in Client, Receive(c)
      PROVE  CInv' /\ \A d \in Client : origin'[d] = origin[d] => cursor'[d] >= cursor[d]
  <2>1. CInv' /\ (origin'[c] = origin[c] => cursor'[c] >= cursor[c])
    BY <1>5, ReceiveKeeps
  <2>2. ASSUME NEW d \in Client, d # c
        PROVE  cursor'[d] >= cursor[d]
    <3>1. cursor'[d] = cursor[d] /\ cursor[d] \in Nat
      BY <1>5, <2>2 DEF Receive, CInv, Shape
    <3>2. QED BY <3>1
  <2>3. QED BY <2>1, <2>2
<1>6. CASE UNCHANGED vars
  <2>1. UNCHANGED <<history, cursor, reply, session, origin, landed, seen, lost, text>>
    BY <1>6 DEF vars, clientVars, bufferVars
  <2>2. CInv'
    BY <2>1 DEF CInv, Shape, InFlight, Collected
  <2>3. QED BY <1>1, <2>1, <2>2
<1>7. QED BY <1>2, <1>3, <1>4, <1>5, <1>6 DEF ClientNext

THEOREM ClientInvariant == ClientSpec => []CInv
BY InitialClients, ClientStep, BufferedAlways, PTL DEF ClientSpec

-----------------------------------------------------------------------------
(* Paging with next_index, a client gets every matching message of the     *)
(* session, except exactly those it was told were evicted.                 *)
THEOREM NothingIsSkipped == ClientSpec => []NothingSkipped
<1>1. CInv => NothingSkipped
  BY DEF CInv, NothingSkipped, Collected, Complete, Owed, Kept
<1>2. QED BY <1>1, ClientInvariant, PTL

(* What it puts together from the pages are the matching lines of those    *)
(* messages, once each and in the order of the log.                        *)
THEOREM StreamsAreIntact == ClientSpec => []StreamIntegrity
<1>1. ASSUME CInv, NEW c \in Client, origin[c] = session
      PROVE  text[c] = [n \in 1 .. Cardinality(Owed(c)) |->
                          Candidate(history[NthSmallest(Owed(c), n) + 1], FilterOf[c])]
  <2>1. /\ seen[c] = Kept(history, landed[c], cursor[c], lost[c], FilterOf[c])
        /\ text[c] = Texts(history, seen[c], FilterOf[c])
    BY <1>1 DEF CInv, Collected, Complete
  <2>2. Owed(c) = seen[c]
    BY <2>1 DEF Owed, Kept
  <2>3. QED BY <2>1, <2>2 DEF Texts
<1>2. CInv => StreamIntegrity
  BY <1>1 DEF StreamIntegrity
<1>3. QED BY <1>2, ClientInvariant, PTL

(* `remaining` counts the matching messages past next_index exactly. *)
THEOREM RemainingIsCounted == ClientSpec => []RemainingIsExact
<1>1. ASSUME CInv, NEW c \in Client, reply[c] # NoReply, reply[c].session = session
      PROVE  reply[c].snap.remaining =
               Cardinality({j \in reply[c].snap.next_index .. reply[c].end - 1 :
                              Keeps(history[j+1], FilterOf[c])})
  <2>1. reply[c].snap.remaining =
          Cardinality(Kept(history, reply[c].snap.next_index, reply[c].end, {}, FilterOf[c]))
    BY <1>1 DEF CInv, InFlight, Page
  <2>2. QED BY <2>1 DEF Kept
<1>2. CInv => RemainingIsExact
  BY <1>1 DEF RemainingIsExact
<1>3. QED BY <1>2, ClientInvariant, PTL

(* A cursor never moves back while the session it came from lasts. *)
THEOREM CursorsAreMonotonic == ClientSpec => CursorMonotonic
<1>1. CInv /\ Buffered /\ [ClientNext]_vars =>
        [\A c \in Client : origin'[c] = origin[c] => cursor'[c] >= cursor[c]]_vars
  BY ClientStep
<1>2. QED BY <1>1, ClientInvariant, BufferedAlways, PTL DEF ClientSpec, CursorMonotonic
(* What CatchesUp rests on, said as safety: every page ends at the end of  *)
(* the log as the handler saw it, or past the cursor it was asked with,    *)
(* whatever session that cursor came from; and the second is the case of   *)
(* every page that says `remaining`.  So a client that pages on while      *)
(* remaining > 0 never asks for the same page again.                       *)
PageAdvances(c) ==
  LET r == reply[c]
  IN  r # NoReply =>
        /\ r.snap.next_index <= r.end
        /\ r.snap.next_index = r.end \/ r.snap.next_index > cursor[c]
        /\ r.snap.remaining > 0 => r.snap.next_index > cursor[c]

PagesAdvance == \A c \in Client : PageAdvances(c)

LEMMA GetLogAdvances ==
  ASSUME CInv, Buffered, NEW c \in Client, get_log(c)
  PROVE  PageAdvances(c)'
<1> DEFINE f == FilterOf[c]
           since == cursor[c]
<1>1. PICK limit \in Limit, last \in 0 .. Len(entries) :
        /\ EndsAt(last, since, limit, f)
        /\ reply' = [reply EXCEPT ![c] =
             [ snap    |-> Snapshot(last, since, f),
               index   |-> Absolute(Taken(last, since, f)),
               session |-> session,
               end     |-> End,
               landed  |-> IF since > End THEN End ELSE since ]]
  BY DEF get_log
<1>2. /\ UNCHANGED cursor /\ since \in Nat /\ limit \in Nat
      /\ \A d \in Client : Collected(d)
      /\ Len(entries) \in Nat /\ base_index \in Nat /\ Shape
  BY LogClientAssumption DEF get_log, CInv, Shape, Buffered, TypeOK
<1>3. /\ reply'[c].end = End
      /\ reply'[c].snap.next_index = NextIndex(last)
      /\ reply'[c].snap.remaining = Remaining(last, since, f)
  BY <1>1, <1>2 DEF Snapshot, Shape
<1>4. NextIndex(last) = base_index + last /\ End = base_index + Len(entries)
  BY DEF NextIndex, End
<1>5. NextIndex(last) = End \/ NextIndex(last) > since
  <2>1. CASE last = Len(entries)
    BY <1>4, <2>1
  <2>2. CASE last \in Matching(since, f)
    <3>1. last \in Start(since) + 1 .. Len(entries)
      BY <2>2 DEF Matching
    <3>2. CASE since > base_index
      BY <1>2, <1>4, <3>1, <3>2 DEF Start
    <3>3. CASE ~ (since > base_index)
      BY <1>2, <1>4, <3>1, <3>3 DEF Start
    <3>4. QED BY <3>2, <3>3
  <2>3. QED BY <1>1, <2>1, <2>2 DEF EndsAt
<1>6. Remaining(last, since, f) > 0 => NextIndex(last) # End
  <2> SUFFICES ASSUME NextIndex(last) = End  PROVE Remaining(last, since, f) = 0
    OBVIOUS
  <2>1. last = Len(entries)
    <3>1. last \in Int /\ Len(entries) \in Int /\ base_index \in Int
      BY <1>2
    <3>2. base_index + last = base_index + Len(entries)
      BY <1>4
    <3>3. QED BY <3>1, <3>2
  <2>2. Matching(since, f) \ Taken(last, since, f) = {}
    <3>1. Start(since) + 1 \in Int
      BY <1>2 DEF Start
    <3>2. \A j \in Start(since) + 1 .. Len(entries) : j <= Len(entries)
      BY <1>2, <3>1
    <3>3. \A j \in Matching(since, f) : j <= Len(entries)
      BY <3>2 DEF Matching
    <3>4. QED BY <2>1, <3>3 DEF Taken
  <2>3. QED BY <2>2, FS_EmptySet DEF Remaining
<1>7. NextIndex(last) <= End
  BY <1>2, <1>4
<1>8. QED BY <1>2, <1>3, <1>5, <1>6, <1>7 DEF PageAdvances

THEOREM PagesGoOn == ClientSpec => []PagesAdvance
<1>1. ClientInit => PagesAdvance
  BY DEF ClientInit, PagesAdvance, PageAdvances
<1>2. CInv /\ Buffered /\ PagesAdvance /\ [ClientNext]_vars => PagesAdvance'
  <2> SUFFICES ASSUME CInv, Buffered, PagesAdvance, [ClientNext]_vars, NEW c \in Client
               PROVE  PageAdvances(c)'
    BY DEF PagesAdvance
  <2>1. PageAdvances(c) /\ Shape
    BY DEF PagesAdvance, CInv
  <2>2. CASE LogMessage \/ InitDebug \/ UNCHANGED vars
    BY <2>1, <2>2 DEF LogMessage, InitDebug, vars, clientVars, PageAdvances
  <2>3. CASE get_log(c)
    BY <2>3, GetLogAdvances
  <2>4. CASE Receive(c)
    BY <2>1, <2>4 DEF Receive, Shape, PageAdvances
  <2>5. ASSUME NEW d \in Client, d # c, get_log(d) \/ Receive(d)
        PROVE  PageAdvances(c)'
    <3>1. reply'[c] = reply[c] /\ cursor'[c] = cursor[c]
      BY <2>1, <2>5 DEF get_log, Receive, Shape
    <3>2. QED BY <2>1, <3>1 DEF PageAdvances
  <2>6. QED BY <2>2, <2>3, <2>4, <2>5 DEF ClientNext
<1>3. QED BY <1>1, <1>2, ClientInvariant, BufferedAlways, PTL DEF ClientSpec
=============================================================================
