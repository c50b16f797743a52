--------------------------- MODULE PersistentKV ---------------------------
(* What a persistent state.Store promises its callers.

   Every operation is atomic, the last write to a key is the one that is read,
   and a restart of the process loses nothing that was accepted -- except that
   a store which has announced it is memory-only may stop saving, after which
   everything it accepts until the restart is lost, and nothing before it is. *)

EXTENDS StoreOps

VARIABLES
    kv,        \* what a read returns
    saved,     \* what a restart would bring back
    memOnly    \* the store has stopped saving until the next restart

vars == <<kv, saved, memOnly>>

Init ==
    /\ kv = Empty
    /\ saved = Empty
    /\ memOnly = FALSE

Write(o) ==
    /\ ~memOnly
    /\ kv' = Apply(kv, o)
    /\ saved' = Apply(saved, o)
    /\ UNCHANGED memOnly

WriteUnsaved(o) ==
    /\ memOnly' = TRUE
    /\ kv' = Apply(kv, o)
    /\ UNCHANGED saved

Restart ==
    /\ kv' = saved
    /\ memOnly' = FALSE
    /\ UNCHANGED saved

Next ==
    \/ \E o \in Ops : Write(o) \/ WriteUnsaved(o)
    \/ Restart

Spec == Init /\ [][Next]_vars

=============================================================================
