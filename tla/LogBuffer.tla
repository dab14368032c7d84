------------------------------ MODULE LogBuffer ------------------------------
(***************************************************************************)
(* class LogBuffer (xauto_log.h, xauto_log.cpp): the bounded, in-memory    *)
(* copy of x64dbg's log that XAUTO_REQ_GET_LOG reads.                      *)
(*                                                                         *)
(* An entry is the sequence of the lines of one log message; a line weighs *)
(* one byte, so Len(m) is the size() of message m.  An absolute index      *)
(* counts the messages appended since the last clear(), from 0; entries[i] *)
(* has the absolute index base_index + i - 1.                              *)
(*                                                                         *)
(* Every member function holds mtx from its first access to its last, so   *)
(* each of them is one action, or one state function for the const one.    *)
(***************************************************************************)
EXTENDS Integers, Sequences, FiniteSets

CONSTANTS
  Line,         \* the lines a message may consist of
  Message,      \* the messages x64dbg may log: sequences of lines
  MAX_ENTRIES,
  MAX_BYTES,
  NoFilter      \* the empty filter string

ASSUME LogBufferAssumption ==
  /\ Message \subseteq Seq(Line)
  /\ MAX_ENTRIES \in Nat \ {0}
  /\ MAX_BYTES \in Nat

VARIABLES
  entries,      \* std::deque<std::string>, oldest first
  base_index,   \* absolute index of the oldest entry
  total_bytes,  \* the running size of all entries
  history       \* history variable: every message appended since clear()

bufferVars == <<entries, base_index, total_bytes, history>>

-----------------------------------------------------------------------------
Size(m) == Len(m)

(* PrefixBytes(s)[n] is the size of the first n entries of s. *)
PrefixBytes(s) ==
  LET upTo[n \in 0 .. Len(s)] == IF n = 0 THEN 0 ELSE upTo[n-1] + Size(s[n])
  IN  upTo

Init ==
  /\ entries = << >>
  /\ base_index = 0
  /\ total_bytes = 0
  /\ history = << >>

\* mutants of MustEvict: one cap forgotten; one entry too early
MustEvictCount(k, m) == k < Len(entries) /\ Len(entries) - k >= MAX_ENTRIES
MustEvictEarly(k, m) == k < Len(entries) /\ Len(entries) - k >= MAX_ENTRIES - 1

(* The condition of append's while loop after k evictions. *)
MustEvict(k, m) ==
  /\ k < Len(entries)
  /\ \/ Len(entries) - k >= MAX_ENTRIES
     \/ (total_bytes - PrefixBytes(entries)[k]) + Size(m) > MAX_BYTES

(* append(msg) runs its loop for exactly the k evictions that clear the    *)
(* condition for the first time, then pushes msg.                          *)
append(m) ==
  \E k \in 0 .. Len(entries) :
    /\ ~ MustEvict(k, m)
    /\ \A j \in 0 .. k-1 : MustEvict(j, m)
    /\ entries' = Append(SubSeq(entries, k+1, Len(entries)), m)
    /\ base_index' = base_index + k
    /\ total_bytes' = (total_bytes - PrefixBytes(entries)[k]) + Size(m)
    /\ history' = Append(history, m)

\* mutants of clear, each forgetting one of its three assignments
ClearKeepsEntries == total_bytes' = 0 /\ base_index' = 0 /\ history' = << >> /\ UNCHANGED entries
ClearKeepsBase == entries' = << >> /\ total_bytes' = 0 /\ history' = << >> /\ UNCHANGED base_index

clear ==
  /\ entries' = << >>
  /\ total_bytes' = 0
  /\ base_index' = 0
  /\ history' = << >>

-----------------------------------------------------------------------------
(* get_since(since_index, limit, filter), a function of the buffer.  A     *)
(* filter is the set of lines that contain the filter string.              *)

(* What get_since keeps of entry e: the matching lines, in order. *)
Candidate(e, filter) ==
  IF filter = NoFilter THEN e ELSE SelectSeq(e, LAMBDA line : line \in filter)

(* `continue` skips an entry only under a filter: an empty message is kept *)
(* when there is none.                                                     *)
Keeps(e, filter) == filter = NoFilter \/ Candidate(e, filter) # << >>

(* The first position the scan looks at, less one. *)
Start(since) == IF since > base_index THEN since - base_index ELSE 0

Matching(since, filter) ==
  {i \in Start(since)+1 .. Len(entries) : Keeps(entries[i], filter)}

(* `last` is where collecting ends: the position of the limit-th match, or *)
(* the end of the buffer when the limit is 0 or is never reached.          *)
EndsAt(last, since, limit, filter) ==
  LET matching == Matching(since, filter)
  IN  IF limit = 0 \/ Cardinality(matching) < limit
      THEN last = Len(entries)
      ELSE /\ last \in matching
           /\ Cardinality({i \in matching : i <= last}) = limit

Taken(last, since, filter) == {i \in Matching(since, filter) : i <= last}

Evicted(since) == IF since < base_index THEN base_index - since ELSE 0

NthSmallest(S, n) == CHOOSE i \in S : Cardinality({j \in S : j <= i}) = n

TextsAt(S, filter) ==
  [n \in 1 .. Cardinality(S) |-> Candidate(entries[NthSmallest(S, n)], filter)]

\* mutants of NextIndex: always the end of the buffer; the last entry and not
\* past it; not absolute
NextIndexAtEnd(last) == base_index + Len(entries)
NextIndexAtLast(last) == base_index + (IF last < Len(entries) THEN last - 1 ELSE last)
NextIndexRelative(last) == last

NextIndex(last) == base_index + last

\* mutant of Remaining: counts what the filter drops
RemainingUnfiltered(last, since, filter) == Len(entries) - last

Remaining(last, since, filter) ==
  Cardinality(Matching(since, filter) \ Taken(last, since, filter))

\* mutant of Snapshot: next_index never moves back, not even after a clear
NextIndexNeverBack(last, since, filter) ==
  [ entries    |-> TextsAt(Taken(last, since, filter), filter),
    next_index |-> IF since > NextIndex(last) THEN since ELSE NextIndex(last),
    remaining  |-> Remaining(last, since, filter), evicted |-> Evicted(since) ]

(* The Snapshot get_since returns once it has collected up to `last`. *)
Snapshot(last, since, filter) ==
  [ entries    |-> TextsAt(Taken(last, since, filter), filter),
    next_index |-> NextIndex(last),
    remaining  |-> Remaining(last, since, filter),
    evicted    |-> Evicted(since) ]

-----------------------------------------------------------------------------
Next == clear \/ \E m \in Message : append(m)

Spec == Init /\ [][Next]_bufferVars

-----------------------------------------------------------------------------
(* Types.  total_bytes is a size_t: being a Nat here says that no          *)
(* `total_bytes -= front.size()` ever wraps below zero.                    *)
TypeOK ==
  /\ entries \in Seq(Message)
  /\ base_index \in Nat
  /\ total_bytes \in Nat
  /\ history \in Seq(Message)

(* The buffer is exactly the tail of the session's log from base_index on: *)
(* an absolute index names the same message for as long as it is retained, *)
(* and nothing but the oldest messages is ever missing.                    *)
Window ==
  /\ base_index + Len(entries) = Len(history)
  /\ \A i \in 1 .. Len(entries) : entries[i] = history[base_index + i]

(* The incremental byte count agrees with the entries, across any mix of   *)
(* evictions, appends and clears.                                          *)
BytesAccounted == total_bytes = PrefixBytes(entries)[Len(entries)]

(* The caps hold, with the one exception the loop makes: a message larger  *)
(* than MAX_BYTES is kept, alone.                                          *)
WithinCaps ==
  /\ Len(entries) <= MAX_ENTRIES
  /\ total_bytes <= MAX_BYTES \/ Len(entries) = 1

(* Every step of the buffer is a step of the log that module LogWindow     *)
(* promises: consecutive indices, none ever reassigned, the oldest dropped *)
(* first.                                                                  *)
Retained == [i \in base_index .. base_index + Len(entries) - 1 |->
               entries[i - base_index + 1]]

Log == INSTANCE LogWindow
         WITH retained <- Retained, next <- base_index + Len(entries)

ImplementsLogWindow == Log!Spec

(* append evicts no more than it must: with the last evicted entry still   *)
(* in place one of the caps would be exceeded.                             *)
EvictsOnlyWhatItMust ==
  [][base_index' > base_index =>
       \/ Len(entries') = MAX_ENTRIES
       \/ total_bytes' + Size(history[base_index']) > MAX_BYTES]_bufferVars
=============================================================================
