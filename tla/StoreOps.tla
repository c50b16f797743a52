----------------------------- MODULE StoreOps -----------------------------
(* The write operations of state.Store, shared by the models of its backends.

   A key stands for a (namespace, key) pair and a prefix for the set of keys
   DeletePrefix would remove: which strings those are matters to none of the
   backends' orderings.  `Absent' is the value of a key that is not stored. *)

CONSTANTS
    Keys,        \* (namespace, key) pairs
    Values,      \* values a Set may write
    Absent,      \* "not found"
    Prefixes     \* the key sets that DeletePrefix may name

ASSUME StoreOpsAssumption ==
    /\ Absent \notin Values
    /\ Prefixes \subseteq SUBSET Keys

ValuesOrAbsent == Values \cup {Absent}

Contents == [Keys -> ValuesOrAbsent]

Empty == [k \in Keys |-> Absent]

SetOps == {[op |-> "set", keys |-> {k}, val |-> v] : k \in Keys, v \in Values}

DeleteOps == {[op |-> "delete", keys |-> {k}, val |-> Absent] : k \in Keys}

DeletePrefixOps ==
    {[op |-> "delprefix", keys |-> p, val |-> Absent] : p \in Prefixes}

Ops == SetOps \cup DeleteOps \cup DeletePrefixOps

\* The effect of one operation on a map: the covered keys take its value.
Apply(m, o) == [k \in Keys |-> IF k \in o.keys THEN o.val ELSE m[k]]

=============================================================================
