--------------------------- MODULE GetSince_proofs ----------------------------
(***************************************************************************)
(* The loop of get_since returns the Snapshot of LogBuffer, for every      *)
(* buffer and every argument.                                              *)
(***************************************************************************)
EXTENDS GetSince, LogBuffer_proofs

Matches == Matching(since_index, filter)

(* Where collecting has got to: the end of what the loop has looked at,    *)
(* or, once the limit is hit, just past the last entry taken.              *)
Reached == IF limit_hit THEN last_i ELSE i

SoFar == UpTo(Matches, Reached)

HeldBack == {j \in Matches : Reached < j /\ j <= i}

(* In the loop, `collected` holds the matching entries up to Reached, one  *)
(* each and in order, `remaining` counts those between Reached and i, and  *)
(* limit_hit is set exactly when there are `limit` of them.                *)
Scanned ==
  /\ since_index \in Nat /\ limit \in Nat /\ i \in Nat /\ last_i \in Nat
  /\ limit_hit \in BOOLEAN
  /\ Start(since_index) <= i
  /\ limit_hit => last_i <= i /\ last_i \in SoFar
  /\ collected = TextsAt(SoFar, filter)
  /\ remaining = Cardinality(HeldBack)
  /\ limit_hit <=> limit > 0 /\ Cardinality(SoFar) = limit
  /\ limit > 0 => Cardinality(SoFar) <= limit

LInv ==
  /\ entries \in Seq(Message) /\ base_index \in Nat
  /\ pc = "loop" => Scanned

-----------------------------------------------------------------------------
(* get_since only reads, and nobody writes while it holds mtx: the buffer  *)
(* takes no step that module LogBuffer does not know.                      *)
THEOREM LoopIsReader == LoopSpec => Spec
<1>1. LoopInit => Init
  BY DEF LoopInit
<1>2. [LoopNext]_loopVars => [Next]_bufferVars
  BY DEF LoopNext, AppendOrClear, get_since, Enter, Skip, Take, Count, Return, loopVars, Next
<1>3. QED BY <1>1, <1>2, PTL DEF LoopSpec, Spec

LEMMA MatchesArePositions ==
  ASSUME entries \in Seq(Message), base_index \in Nat, since_index \in Nat
  PROVE  /\ Len(entries) \in Nat
         /\ Start(since_index) \in Nat
         /\ \A j \in Matches : j \in 0 .. Len(entries) /\ j > Start(since_index)
         /\ IsFiniteSet(Matches)
<1>1. Len(entries) \in Nat /\ Start(since_index) \in Nat
  BY DEF Start
<1>2. \A j \in Matches : j \in 0 .. Len(entries) /\ j > Start(since_index)
  BY <1>1 DEF Matches, Matching
<1>3. IsFiniteSet(Matches)
  BY <1>1, <1>2, BoundedIsFinite
<1>4. QED BY <1>1, <1>2, <1>3

(* The texts of a set and of one more position above it. *)
LEMMA TextsGrow ==
  ASSUME NEW N \in Nat, NEW S, \A j \in S : j \in 0 .. N, NEW x \in 0 .. N,
         \A j \in S : j < x, NEW f
  PROVE  /\ Cardinality(S \cup {x}) = Cardinality(S) + 1
         /\ TextsAt(S \cup {x}, f) = Append(TextsAt(S, f), Candidate(entries[x], f))
         /\ Len(TextsAt(S, f)) = Cardinality(S)
<1> DEFINE c == Cardinality(S)
           U == S \cup {x}
<1>1. c \in Nat /\ IsFiniteSet(S)
  BY BoundedIsFinite, FS_CardinalityType
<1>2. /\ Cardinality({x}) = 1 /\ IsFiniteSet({x})
      /\ UpTo({x}, x) = {x}
  <2>1. UpTo({x}, x) = {x}
    BY DEF UpTo
  <2>2. QED BY <2>1, FS_Singleton
<1>3. NthSmallest({x}, 1) = x
  <2>1. \A j \in {x} : j \in Nat
    OBVIOUS
  <2>2. QED BY <1>2, <2>1, NthUnique
<1>4. /\ Cardinality(U) = c + 1
      /\ \A n \in 1 .. c : NthSmallest(U, n) = NthSmallest(S, n)
      /\ NthSmallest(U, c + 1) = x
  <2> DEFINE X == {x}
  <2>1. (\A j \in X : j \in 0 .. N) /\ Precedes(S, X)
    BY DEF Precedes
  <2>2. Cardinality(X) = 1 /\ NthSmallest(X, 1) = x /\ U = S \cup X
    BY <1>2, <1>3
  <2> HIDE DEF X, U
  <2>3. /\ Cardinality(U) = c + Cardinality(X)
        /\ \A n \in 1 .. c : NthSmallest(U, n) = NthSmallest(S, n)
        /\ \A n \in 1 .. Cardinality(X) : NthSmallest(U, c + n) = NthSmallest(X, n)
    <3>1. InSequence(U, S, X)
      BY <2>1, <2>2, NthOfUnion
    <3>2. QED BY <3>1 DEF InSequence
  <2>4. NthSmallest(U, c + 1) = NthSmallest(X, 1)
    <3>1. 1 \in 1 .. Cardinality(X)
      BY <2>2
    <3>2. QED BY <2>3, <3>1
  <2>5. QED BY <2>2, <2>3, <2>4
<1> DEFINE t == TextsAt(S, f)
           u == TextsAt(U, f)
<1>5. /\ t = [n \in 1 .. c |-> Candidate(entries[NthSmallest(S, n)], f)]
      /\ u = [n \in 1 .. c + 1 |-> Candidate(entries[NthSmallest(U, n)], f)]
  BY <1>4 DEF TextsAt
<1> HIDE DEF t, u, c, U
<1>6. /\ DOMAIN t = 1 .. c /\ Len(t) = c
      /\ Append(t, Candidate(entries[x], f)) =
           [n \in 1 .. c + 1 |-> IF n = c + 1 THEN Candidate(entries[x], f) ELSE t[n]]
  BY <1>1, <1>5
<1>7. u = Append(t, Candidate(entries[x], f))
  BY <1>1, <1>4, <1>5, <1>6
<1>8. QED BY <1>4, <1>6, <1>7 DEF t, u, c, U

-----------------------------------------------------------------------------
LEMMA StartType ==
  ASSUME base_index \in Nat, NEW since \in Nat
  PROVE  Start(since) \in Nat
BY DEF Start

LEMMA EnterScans ==
  ASSUME LInv, Enter
  PROVE  LInv'
<1>1. /\ since_index' \in Nat /\ limit' \in Nat /\ entries' = entries /\ base_index' = base_index
      /\ i' = Start(since_index)' /\ last_i' = i' /\ limit_hit' = FALSE
      /\ collected' = << >> /\ remaining' = 0
  BY GetSinceAssumption DEF Enter, Start, bufferVars
<1>2. /\ Start(since_index)' \in Nat
      /\ \A j \in Matches' : j > Start(since_index)'
  <2>1. Start(since_index)' \in Nat
    <3>1. since_index' \in Nat /\ base_index \in Nat
      BY <1>1 DEF LInv
    <3>2. Start(since_index)' = Start(since_index')
      BY <1>1 DEF Start
    <3>3. Start(since_index') \in Nat
      BY <3>1, StartType
    <3>4. QED BY <3>2, <3>3
  <2>2. Matches' \subseteq Start(since_index)' + 1 .. Len(entries)
    BY <1>1 DEF Matches, Matching
  <2>3. Len(entries) \in Nat
    BY DEF LInv
  <2>4. QED BY <2>1, <2>2, <2>3
<1>3. SoFar' = {} /\ HeldBack' = {}
  <2>1. \A j \in Matches' : ~ (j <= i')
    <3>1. \A j \in Matches' : j \in Int
      BY <1>1, <1>2 DEF Matches, Matching, LInv
    <3>2. QED BY <1>1, <1>2, <3>1
  <2>2. Reached' = i'
    BY <1>1 DEF Reached
  <2>3. QED BY <2>1, <2>2 DEF SoFar, HeldBack, UpTo
<1>4. Cardinality(SoFar') = 0 /\ Cardinality(HeldBack') = 0
  BY <1>3, FS_EmptySet
<1>5. TextsAt(SoFar, filter)' = << >>
  BY <1>4 DEF TextsAt
<1>6. Scanned'
  <2>1. ~ (limit' > 0 /\ Cardinality(SoFar') = limit')
    BY <1>1, <1>4
  <2>2. limit' > 0 => Cardinality(SoFar') <= limit'
    BY <1>1, <1>4
  <2>3. Start(since_index)' <= i'
    BY <1>1, <1>2
  <2>4. QED BY <1>1, <1>2, <1>4, <1>5, <2>1, <2>2, <2>3 DEF Scanned
<1>7. QED BY <1>1, <1>6 DEF LInv

(* What one more step of the loop sees. *)
LEMMA NextEntry ==
  ASSUME LInv, pc = "loop", AtEntry, UNCHANGED <<bufferVars, call>>
  PROVE  /\ i \in Nat /\ i' = i + 1 /\ i' \in 0 .. Len(entries)
         /\ Matches' = Matches
         /\ i' \in Matches <=> Keeps(Entry, filter)
         /\ \A j \in Matches : j \in 0 .. Len(entries)
         /\ Reached \in Nat /\ Reached <= i
         /\ IsFiniteSet(SoFar) /\ Cardinality(SoFar) \in Nat
         /\ \A j \in SoFar : j \in 0 .. Len(entries) /\ j <= i
         /\ IsFiniteSet(HeldBack) /\ Cardinality(HeldBack) \in Nat
<1>1. /\ entries \in Seq(Message) /\ base_index \in Nat /\ Scanned
      /\ i \in Nat /\ i' = i + 1 /\ i < Len(entries)
  BY DEF LInv, AtEntry, Scanned
<1>2. /\ Len(entries) \in Nat /\ Start(since_index) \in Nat
      /\ \A j \in Matches : j \in 0 .. Len(entries) /\ j > Start(since_index)
      /\ IsFiniteSet(Matches)
  BY <1>1, MatchesArePositions DEF Scanned
<1>3. UNCHANGED <<entries, base_index, since_index, filter, limit>>
  BY DEF bufferVars, call
<1>4. Matches' = Matches
  BY <1>3 DEF Matches, Matching, Start
<1>5. i' \in Matches <=> Keeps(Entry, filter)
  <2>1. i' \in Start(since_index) + 1 .. Len(entries)
    BY <1>1, <1>2 DEF Scanned
  <2>2. i' \in Matches <=> Keeps(entries[i'], filter)
    BY <2>1 DEF Matches, Matching
  <2>3. QED BY <1>1, <2>2 DEF Entry
<1>6. Reached \in Nat /\ Reached <= i
  BY <1>1 DEF Reached, Scanned
<1>7. SoFar \in SUBSET Matches /\ HeldBack \in SUBSET Matches
  BY DEF SoFar, UpTo, HeldBack
<1>8. \A j \in SoFar : j <= i
  BY <1>1, <1>2, <1>6, <1>7 DEF SoFar, UpTo
<1>9. /\ IsFiniteSet(SoFar) /\ Cardinality(SoFar) \in Nat
      /\ IsFiniteSet(HeldBack) /\ Cardinality(HeldBack) \in Nat
  BY <1>2, <1>7, FS_Subset, FS_CardinalityType
<1>10. QED BY <1>1, <1>2, <1>4, <1>5, <1>6, <1>7, <1>8, <1>9

LEMMA SkipScans ==
  ASSUME LInv, Skip
  PROVE  LInv'
<1>1. /\ pc = "loop" /\ AtEntry /\ ~ Keeps(Entry, filter)
      /\ UNCHANGED <<bufferVars, call>>
      /\ UNCHANGED <<entries, base_index, since_index, limit, filter, last_i, limit_hit,
                     collected, remaining>>
  BY DEF Skip, AtEntry, bufferVars, call
<1>2. /\ i \in Nat /\ i' = i + 1 /\ Matches' = Matches /\ i' \notin Matches
      /\ \A j \in Matches : j \in 0 .. Len(entries)
  BY <1>1, NextEntry
<1>3. Scanned
  BY <1>1 DEF LInv
<1>4. SoFar' = SoFar /\ HeldBack' = HeldBack
  <2>1. CASE limit_hit
    <3>1. Reached' = last_i /\ Reached = last_i
      BY <1>1, <2>1 DEF Reached
    <3>2. HeldBack' = HeldBack
      BY <1>2, <1>3, <3>1 DEF HeldBack, Scanned
    <3>3. QED BY <1>2, <3>1, <3>2 DEF SoFar, UpTo
  <2>2. CASE ~ limit_hit
    <3>1. Reached' = i' /\ Reached = i
      BY <1>1, <2>2 DEF Reached
    <3>2. QED BY <1>2, <3>1 DEF SoFar, UpTo, HeldBack
  <2>3. QED BY <2>1, <2>2
<1>5. TextsAt(SoFar, filter)' = TextsAt(SoFar, filter)
  BY <1>1, <1>4 DEF TextsAt
<1>6. Start(since_index)' = Start(since_index)
  BY <1>1 DEF Start
<1>7. Scanned'
  <2>1. Start(since_index) <= i'
    BY <1>1, <1>2, <1>3, StartType DEF LInv, Scanned
  <2>2. limit_hit' => last_i' <= i' /\ last_i' \in SoFar'
    BY <1>1, <1>2, <1>3, <1>4 DEF Scanned
  <2>3. QED BY <1>1, <1>2, <1>3, <1>4, <1>5, <1>6, <2>1, <2>2 DEF Scanned
<1>8. QED BY <1>1, <1>7 DEF LInv

(* One more position, at the end of a half-open interval of a set. *)
LEMMA OneMore ==
  ASSUME NEW M, \A j \in M : j \in Nat, NEW n \in Nat, n + 1 \in M
  PROVE  /\ {j \in M : j <= n + 1} = {j \in M : j <= n} \cup {n + 1}
         /\ \A a \in Nat : a <= n =>
              /\ {j \in M : a < j /\ j <= n + 1} = {j \in M : a < j /\ j <= n} \cup {n + 1}
              /\ {j \in M : a < j /\ j <= a} = {}
         /\ n + 1 \notin {j \in M : j <= n}
<1>1. {j \in M : j <= n + 1} = {j \in M : j <= n} \cup {n + 1}
  <2>1. ASSUME NEW j \in M PROVE j <= n + 1 <=> j <= n \/ j = n + 1
    OBVIOUS
  <2>2. QED BY <2>1
<1>2. ASSUME NEW a \in Nat, a <= n
      PROVE  /\ {j \in M : a < j /\ j <= n + 1} = {j \in M : a < j /\ j <= n} \cup {n + 1}
             /\ {j \in M : a < j /\ j <= a} = {}
  <2>1. ASSUME NEW j \in M
        PROVE  /\ (a < j /\ j <= n + 1) <=> ((a < j /\ j <= n) \/ j = n + 1)
               /\ ~ (a < j /\ j <= a)
    BY <1>2
  <2>2. QED BY <2>1
<1>3. QED BY <1>1, <1>2

LEMMA TakeScans ==
  ASSUME LInv, Take
  PROVE  LInv'
<1>1. /\ pc = "loop" /\ AtEntry /\ Keeps(Entry, filter) /\ ~ limit_hit
      /\ UNCHANGED <<bufferVars, call>>
      /\ UNCHANGED <<entries, base_index, since_index, limit, filter, remaining>>
      /\ collected' = Append(collected, Candidate(Entry, filter))
      /\ last_i' = i + 1
      /\ limit_hit' = (limit > 0 /\ Len(collected') >= limit)
  BY DEF Take, AtEntry, bufferVars, call
<1>2. /\ i \in Nat /\ i' = i + 1 /\ i' \in 0 .. Len(entries)
      /\ Matches' = Matches /\ i' \in Matches
      /\ \A j \in Matches : j \in 0 .. Len(entries)
      /\ \A j \in SoFar : j \in 0 .. Len(entries) /\ j <= i
      /\ Cardinality(SoFar) \in Nat
  BY <1>1, NextEntry
<1>3. Scanned
  BY <1>1 DEF LInv
<1>4. Reached = i /\ Reached' = i'
  BY <1>1, <1>2 DEF Reached
<1>5. SoFar' = SoFar \cup {i'} /\ HeldBack = {} /\ HeldBack' = {}
  <2>1. \A j \in Matches : j \in Nat
    BY <1>2
  <2>2. SoFar' = {j \in Matches : j <= i + 1} /\ SoFar = {j \in Matches : j <= i}
    BY <1>2, <1>4 DEF SoFar, UpTo
  <2>3. {j \in Matches : j <= i + 1} = {j \in Matches : j <= i} \cup {i + 1}
    BY <1>2, <2>1, OneMore
  <2>4. /\ HeldBack = {j \in Matches : i < j /\ j <= i}
        /\ HeldBack' = {j \in Matches : i + 1 < j /\ j <= i + 1}
    BY <1>2, <1>4 DEF HeldBack
  <2>5. \A j \in Matches : ~ (i < j /\ j <= i) /\ ~ (i + 1 < j /\ j <= i + 1)
    <3>1. i \in Nat
      BY <1>2
    <3>2. QED BY <2>1, <3>1
  <2>6. HeldBack = {} /\ HeldBack' = {}
    BY <2>4, <2>5
  <2>7. QED BY <1>2, <2>2, <2>3, <2>6
<1>6. /\ Cardinality(SoFar') = Cardinality(SoFar) + 1
      /\ TextsAt(SoFar', filter) = Append(TextsAt(SoFar, filter), Candidate(entries[i'], filter))
      /\ Len(TextsAt(SoFar', filter)) = Cardinality(SoFar')
  <2>1. Len(entries) \in Nat
    BY DEF LInv
  <2>2. \A j \in SoFar : j < i'
    BY <1>2
  <2>3. PICK x : x = i'
    OBVIOUS
  <2>4. /\ Cardinality(SoFar \cup {x}) = Cardinality(SoFar) + 1
        /\ TextsAt(SoFar \cup {x}, filter) =
             Append(TextsAt(SoFar, filter), Candidate(entries[x], filter))
        /\ Len(TextsAt(SoFar, filter)) = Cardinality(SoFar)
    <3>1. (\A j \in SoFar : j \in 0 .. Len(entries)) /\ x \in 0 .. Len(entries)
      BY <1>2, <2>3
    <3>2. \A j \in SoFar : j < x
      BY <2>2, <2>3
    <3>3. QED BY <2>1, <3>1, <3>2, TextsGrow
  <2>5. Len(TextsAt(SoFar \cup {x}, filter)) = Cardinality(SoFar) + 1
    BY <1>2, <2>4 DEF TextsAt
  <2>6. QED BY <1>5, <2>3, <2>4, <2>5
<1>7. collected' = TextsAt(SoFar, filter)' /\ Len(collected') = Cardinality(SoFar')
  <2>1. TextsAt(SoFar, filter)' = TextsAt(SoFar', filter)
    BY <1>1 DEF TextsAt
  <2>2. QED BY <1>1, <1>2, <1>3, <1>6, <2>1 DEF Scanned, Entry
<1>8. remaining' = Cardinality(HeldBack')
  BY <1>1, <1>3, <1>5 DEF Scanned
<1>9. limit > 0 => Cardinality(SoFar) < limit
  BY <1>1, <1>2, <1>3 DEF Scanned
<1>10. Scanned'
  <2>1. Start(since_index)' = Start(since_index) /\ Start(since_index) <= i'
    BY <1>1, <1>2, <1>3, StartType DEF LInv, Start, Scanned
  <2>2. limit_hit' <=> limit' > 0 /\ Cardinality(SoFar') = limit'
    <3>1. limit' = limit /\ limit \in Nat /\ Cardinality(SoFar) \in Nat
      BY <1>1, <1>2, <1>3 DEF Scanned
    <3>2. limit_hit' <=> (limit > 0 /\ Cardinality(SoFar) + 1 >= limit)
      BY <1>1, <1>6, <1>7
    <3>3. (limit > 0 /\ Cardinality(SoFar) + 1 >= limit) <=>
            (limit' > 0 /\ Cardinality(SoFar') = limit')
      BY <1>6, <1>9, <3>1
    <3>4. QED BY <3>2, <3>3
  <2>3. limit' > 0 => Cardinality(SoFar') <= limit'
    BY <1>1, <1>2, <1>3, <1>6, <1>9 DEF Scanned
  <2>4. limit_hit' => last_i' <= i' /\ last_i' \in SoFar'
    BY <1>1, <1>2, <1>5
  <2>5. /\ since_index' \in Nat /\ limit' \in Nat /\ i' \in Nat /\ last_i' \in Nat
        /\ limit_hit' \in BOOLEAN
    BY <1>1, <1>2, <1>3 DEF Scanned
  <2>6. QED BY <1>7, <1>8, <2>1, <2>2, <2>3, <2>4, <2>5 DEF Scanned
<1>11. QED BY <1>1, <1>10 DEF LInv

LEMMA CountScans ==
  ASSUME LInv, Count
  PROVE  LInv'
<1>1. /\ pc = "loop" /\ AtEntry /\ Keeps(Entry, filter) /\ limit_hit
      /\ UNCHANGED <<bufferVars, call>>
      /\ UNCHANGED <<entries, base_index, since_index, limit, filter, last_i, limit_hit,
                     collected>>
      /\ remaining' = remaining + 1
  BY DEF Count, AtEntry, bufferVars, call
<1>2. /\ i \in Nat /\ i' = i + 1 /\ Matches' = Matches /\ i' \in Matches
      /\ \A j \in Matches : j \in 0 .. Len(entries)
      /\ IsFiniteSet(HeldBack) /\ Cardinality(HeldBack) \in Nat
  BY <1>1, NextEntry
<1>3. Scanned
  BY <1>1 DEF LInv
<1>4. Reached = last_i /\ Reached' = last_i /\ last_i \in Nat /\ last_i <= i
  BY <1>1, <1>3 DEF Reached, Scanned
<1>5. SoFar' = SoFar
  BY <1>2, <1>4 DEF SoFar, UpTo
<1>6. HeldBack' = HeldBack \cup {i'} /\ i' \notin HeldBack
  <2>1. \A j \in Matches : j \in Nat
    BY <1>2
  <2>2. /\ HeldBack' = {j \in Matches : last_i < j /\ j <= i + 1}
        /\ HeldBack = {j \in Matches : last_i < j /\ j <= i}
    BY <1>2, <1>4 DEF HeldBack
  <2>3. {j \in Matches : last_i < j /\ j <= i + 1} =
          {j \in Matches : last_i < j /\ j <= i} \cup {i + 1}
    <3>1. \A a \in Nat : a <= i =>
            {j \in Matches : a < j /\ j <= i + 1} =
              {j \in Matches : a < j /\ j <= i} \cup {i + 1}
      <4>1. i \in Nat /\ i + 1 \in Matches
        BY <1>2
      <4> HIDE DEF Matches
      <4>2. QED BY <2>1, <4>1, OneMore
    <3>2. QED BY <1>4, <3>1
  <2>4. i + 1 \notin {j \in Matches : last_i < j /\ j <= i}
    <3>1. ~ (i + 1 <= i)
      BY <1>2
    <3>2. QED BY <3>1
  <2>5. QED BY <1>2, <2>2, <2>3, <2>4
<1>7. remaining' = Cardinality(HeldBack')
  BY <1>1, <1>2, <1>3, <1>6, FS_AddElement DEF Scanned
<1>8. TextsAt(SoFar, filter)' = TextsAt(SoFar, filter)
  BY <1>1, <1>5 DEF TextsAt
<1>9. Scanned'
  <2>1. Start(since_index)' = Start(since_index) /\ Start(since_index) <= i'
    BY <1>1, <1>2, <1>3, StartType DEF LInv, Start, Scanned
  <2>2. limit_hit' => last_i' <= i' /\ last_i' \in SoFar'
    BY <1>1, <1>2, <1>3, <1>4, <1>5 DEF Scanned
  <2>3. QED BY <1>1, <1>2, <1>3, <1>5, <1>7, <1>8, <2>1, <2>2 DEF Scanned
<1>10. QED BY <1>1, <1>9 DEF LInv
LEMMA OtherStepsKeep ==
  ASSUME LInv, AppendOrClear \/ Return \/ UNCHANGED loopVars, TypeOK'
  PROVE  LInv'
<1>1. entries' \in Seq(Message) /\ base_index' \in Nat
  BY DEF TypeOK
<1>2. CASE AppendOrClear
  BY <1>1, <1>2 DEF AppendOrClear, LInv
<1>3. CASE Return
  BY <1>1, <1>3 DEF Return, LInv
<1>4. CASE UNCHANGED loopVars
  BY <1>4 DEF loopVars, bufferVars, call, locals, LInv, Scanned, SoFar, HeldBack, Matches,
              Reached, UpTo, Matching, Start, TextsAt
<1>5. QED BY <1>2, <1>3, <1>4

(* The loop's invariant, in every buffer that the append/clear of module   *)
(* LogBuffer can produce.                                                  *)
THEOREM LoopScans == LoopSpec => []LInv
<1>1. LoopInit => LInv
  BY DEF LoopInit, Init, LInv
<1>2. LInv /\ [LoopNext]_loopVars /\ TypeOK' => LInv'
  <2>1. SUFFICES ASSUME LInv, LoopNext \/ UNCHANGED loopVars, TypeOK'  PROVE LInv'
    OBVIOUS
  <2>2. CASE Enter
    BY <2>1, <2>2, EnterScans
  <2>3. CASE Skip
    BY <2>1, <2>3, SkipScans
  <2>4. CASE Take
    BY <2>1, <2>4, TakeScans
  <2>5. CASE Count
    BY <2>1, <2>5, CountScans
  <2>6. CASE AppendOrClear \/ Return \/ UNCHANGED loopVars
    BY <2>1, <2>6, OtherStepsKeep
  <2>7. QED BY <2>1, <2>2, <2>3, <2>4, <2>5, <2>6 DEF LoopNext, get_since
<1>3. LoopSpec => []TypeOK
  BY LoopIsReader, TypesCorrect
<1>4. QED BY <1>1, <1>2, <1>3, PTL DEF LoopSpec

-----------------------------------------------------------------------------
(* At Return the loop has looked at every entry.  Without a hit, all that  *)
(* matches is collected and nothing is held back; with one, the last entry *)
(* taken is the limit-th match, and what is held back is the rest.         *)
LEMMA ReturnAnswers ==
  ASSUME LInv, Return
  PROVE  \E last \in 0 .. Len(entries) :
           /\ EndsAt(last, since_index, limit, filter)
           /\ snap' = Snapshot(last, since_index, filter)
<1>1. /\ Scanned /\ i >= Len(entries)
      /\ snap' = [ entries    |-> collected,
                   next_index |-> base_index + CollectedTo,
                   remaining  |-> remaining,
                   evicted    |-> Evicted(since_index) ]
  BY DEF LInv, Return
<1>2. /\ Len(entries) \in Nat /\ i \in Nat /\ limit \in Nat /\ last_i \in Nat
      /\ \A j \in Matches : j \in 0 .. Len(entries)
      /\ IsFiniteSet(Matches) /\ Cardinality(Matches) \in Nat
  <2>1. since_index \in Nat /\ entries \in Seq(Message) /\ base_index \in Nat
    BY <1>1 DEF LInv, Scanned
  <2>2. QED BY <1>1, <2>1, MatchesArePositions, FS_CardinalityType DEF Scanned
<1>3. Matches = Matching(since_index, filter)
  BY DEF Matches
<1> HIDE DEF Matches
<1>4. CASE ~ limit_hit
  <2>1. CollectedTo = Len(entries) /\ Reached = i
    BY <1>4 DEF CollectedTo, Reached
  <2>2. \A j \in Matches : j <= i /\ ~ (i < j /\ j <= i)
    BY <1>1, <1>2
  <2>3. SoFar = Matches /\ HeldBack = {} /\ Taken(Len(entries), since_index, filter) = Matches
    <3>1. SoFar = Matches /\ HeldBack = {}
      BY <2>1, <2>2 DEF SoFar, UpTo, HeldBack
    <3>2. Taken(Len(entries), since_index, filter) = Matches
      BY <1>2, <1>3 DEF Taken
    <3>3. QED BY <3>1, <3>2
  <2>4. EndsAt(Len(entries), since_index, limit, filter)
    BY <1>1, <1>2, <1>3, <1>4, <2>3 DEF EndsAt, Scanned
  <2>5. Matches \ Matches = {}
    OBVIOUS
  <2>6. snap' = Snapshot(Len(entries), since_index, filter)
    BY <1>1, <1>3, <2>1, <2>3, <2>5 DEF Snapshot, NextIndex, Remaining, Scanned
  <2>7. QED BY <1>2, <2>4, <2>6
<1>5. CASE limit_hit
  <2>1. CollectedTo = last_i /\ Reached = last_i
    BY <1>5 DEF CollectedTo, Reached
  <2>2. SoFar = {j \in Matches : j <= last_i}
    BY <2>1 DEF SoFar, UpTo
  <2>3. /\ last_i \in Matches /\ last_i <= i /\ limit > 0 /\ Cardinality(SoFar) = limit
        /\ last_i \in 0 .. Len(entries)
    BY <1>1, <1>2, <1>5, <2>2 DEF Scanned
  <2>4. Taken(last_i, since_index, filter) = SoFar
    BY <1>3, <2>2 DEF Taken
  <2>5. HeldBack = Matches \ SoFar
    <3>1. \A j \in Matches : (last_i < j /\ j <= i) <=> ~ (j <= last_i)
      BY <1>1, <1>2, <2>3
    <3>2. QED BY <2>1, <2>2, <3>1 DEF HeldBack
  <2>6. EndsAt(last_i, since_index, limit, filter)
    <3>1. Cardinality(Matches) >= limit
      <4>1. SoFar \in SUBSET Matches
        BY <2>2
      <4>2. Cardinality(SoFar) <= Cardinality(Matches)
        BY <1>2, <4>1, FS_Subset
      <4>3. QED BY <2>3, <4>2
    <3>2. ~ (limit = 0 \/ Cardinality(Matches) < limit)
      BY <1>2, <2>3, <3>1
    <3>3. QED BY <1>3, <2>2, <2>3, <3>2 DEF EndsAt
  <2>7. snap' = Snapshot(last_i, since_index, filter)
    BY <1>1, <1>3, <2>1, <2>4, <2>5 DEF Snapshot, NextIndex, Remaining, Scanned
  <2>8. QED BY <2>3, <2>6, <2>7
<1>6. QED BY <1>4, <1>5

(* The answer of get_since is the Snapshot that LogBuffer defines, for     *)
(* every buffer, position, limit and filter.                               *)
THEOREM LoopReturnsSnapshot == LoopSpec => ReturnsSnapshot
<1>1. LInv /\ [LoopNext]_loopVars =>
        [Return => \E last \in 0 .. Len(entries) :
                     /\ EndsAt(last, since_index, limit, filter)
                     /\ snap' = Snapshot(last, since_index, filter)]_loopVars
  BY ReturnAnswers
<1>2. QED BY <1>1, LoopScans, PTL DEF LoopSpec, ReturnsSnapshot
=============================================================================
