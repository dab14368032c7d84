------------------------------ MODULE MCPlugin -------------------------------
(* Two log threads or one, the debug thread, at most two clients: every    *)
(* interleaving of loading, one to three captures, a few callbacks,        *)
(* requests, and teardown.                                                 *)
EXTENDS Plugin, TLC

CONSTANTS m1, m2, m3, t1, t2, c1, c2, MaxPublished, MaxSession

MCMessage == {<<line>> : line \in Line}

(* Threads and messages are told apart only by being different. *)
MCSymmetry == Permutations(LogThread) \cup Permutations(Line)

(* Bounds on the callbacks delivered. *)
Callbacks == Len(published) + Cardinality(UsingPub) < MaxPublished

MCNext ==
  \/ /\ terminated = None
     /\ \/ Gui
        \/ pluginStop
        \/ LogThreads
        \/ \E t \in LogThread : hook_GuiAddLogMessage(t)
        \/ Debugger
        \/ Callbacks /\ session < MaxSession /\ cb_init_debug
        \/ Callbacks /\ cb_event
        \/ Server
        \/ RecvClosed \/ SendReplyClosed
        \/ \E c \in Client : Ask(c)
  \/ Over

MCSpec == Init /\ [][MCNext]_vars

FairMCSpec == MCSpec /\ Fairness
=============================================================================
