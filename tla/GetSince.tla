------------------------------ MODULE GetSince -------------------------------
(***************************************************************************)
(* LogBuffer::get_since as it runs: one step per iteration of its loop,    *)
(* with mtx held from Enter to Return, so that no append or clear comes    *)
(* between two steps.  Outside a call its variables have no content; they  *)
(* are kept at their first values then.  Module LogBuffer says in one      *)
(* expression, Snapshot, what the loop is to compute; here it is shown to. *)
(***************************************************************************)
EXTENDS LogBuffer

CONSTANTS
  SinceIndex, Limit,    \* the arguments callers pass
  Filter

ASSUME GetSinceAssumption ==
  /\ SinceIndex \subseteq Nat
  /\ Limit \subseteq Nat
  /\ Filter \subseteq (SUBSET Line) \cup {NoFilter}

VARIABLES
  pc,                        \* "idle": nobody is in get_since
  since_index, limit, filter,
  i,                         \* the loop's index, from 0
  last_i,                    \* just past the last entry taken
  limit_hit,
  collected, remaining,      \* snap.entries, snap.remaining
  snap                       \* the Snapshot returned last

call   == <<since_index, limit, filter>>
locals == <<i, last_i, limit_hit, collected, remaining>>
loopVars == <<bufferVars, pc, call, locals, snap>>

NoSnapshot == [entries |-> << >>, next_index |-> 0, remaining |-> 0, evicted |-> 0]

LoopInit ==
  /\ Init
  /\ pc = "idle" /\ snap = NoSnapshot
  /\ since_index = 0 /\ limit = 0 /\ filter = NoFilter
  /\ i = 0 /\ last_i = 0 /\ limit_hit = FALSE /\ collected = << >> /\ remaining = 0

(* The other member functions wait for mtx. *)
AppendOrClear ==
  /\ pc = "idle"
  /\ clear \/ \E m \in Message : append(m)
  /\ UNCHANGED <<pc, call, locals, snap>>

Enter ==
  /\ pc = "idle"
  /\ pc' = "loop"
  /\ since_index' \in SinceIndex
  /\ limit' \in Limit
  /\ filter' \in Filter
  /\ i' = Start(since_index') /\ last_i' = Start(since_index')
  /\ limit_hit' = FALSE /\ collected' = << >> /\ remaining' = 0
  /\ snap' = NoSnapshot
  /\ UNCHANGED bufferVars

AtEntry == pc = "loop" /\ i < Len(entries) /\ i' = i + 1

Entry == entries[i + 1]

Skip ==
  /\ AtEntry
  /\ ~ Keeps(Entry, filter)
  /\ UNCHANGED <<bufferVars, pc, call, last_i, limit_hit, collected, remaining, snap>>

Take ==
  /\ AtEntry
  /\ Keeps(Entry, filter)
  /\ ~ limit_hit
  /\ collected' = Append(collected, Candidate(Entry, filter))
  /\ last_i' = i + 1
  /\ limit_hit' = (limit > 0 /\ Len(collected') >= limit)
  /\ UNCHANGED <<bufferVars, pc, call, remaining, snap>>

Count ==
  /\ AtEntry
  /\ Keeps(Entry, filter)
  /\ limit_hit
  /\ remaining' = remaining + 1
  /\ UNCHANGED <<bufferVars, pc, call, last_i, limit_hit, collected, snap>>

OutOfScope ==
  /\ since_index' = 0 /\ limit' = 0 /\ filter' = NoFilter
  /\ i' = 0 /\ last_i' = 0 /\ limit_hit' = FALSE /\ collected' = << >> /\ remaining' = 0

\* mutant of CollectedTo: the last entry taken, limit or not
LastTaken == last_i

CollectedTo == IF limit_hit THEN last_i ELSE Len(entries)

Return ==
  /\ pc = "loop"
  /\ i >= Len(entries)
  /\ pc' = "idle"
  /\ snap' = [ entries    |-> collected,
               next_index |-> base_index + CollectedTo,
               remaining  |-> remaining,
               evicted    |-> Evicted(since_index) ]
  /\ OutOfScope
  /\ UNCHANGED bufferVars

get_since == Enter \/ Skip \/ Take \/ Count \/ Return

LoopNext == AppendOrClear \/ get_since

LoopSpec == LoopInit /\ [][LoopNext]_loopVars

-----------------------------------------------------------------------------
(* get_since returns the Snapshot that LogBuffer defines: the first        *)
(* `limit` matching entries from since_index on, the index just past the   *)
(* last of them (the end of the buffer if nothing was held back), and the  *)
(* exact number of matching entries it held back.                          *)
ReturnsSnapshot ==
  [][Return =>
       \E last \in 0 .. Len(entries) :
         /\ EndsAt(last, since_index, limit, filter)
         /\ snap' = Snapshot(last, since_index, filter)]_loopVars
=============================================================================
