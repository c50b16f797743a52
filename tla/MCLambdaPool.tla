---------------------------- MODULE MCLambdaPool ----------------------------
(* Two functions for TLC: f with two configurations, the second one larger and
   with a reserved concurrency of one, and d with one and a debug target that comes and
   goes.                                                                     *)

EXTENDS LambdaPool

MCFunctions == {"f", "d"}
MCConfigs == {"f1", "f2", "d1"}
MCNameOf == [c \in MCConfigs |-> IF c = "d1" THEN "d" ELSE "f"]
MCMemoryOf == [c \in MCConfigs |-> IF c = "f2" THEN 2 ELSE 1]
MCPinsOf == [f \in MCFunctions |-> IF f = "d" THEN BOOLEAN ELSE {FALSE}]
MCReservedOf == [c \in MCConfigs |-> IF c = "f2" THEN 1 ELSE -1]

-----------------------------------------------------------------------------
(* The states up to the names of calls and containers, and without what a call
   that is over has left behind: no action and no invariant tells such states
   apart (the order of the names only says which one is used next).          *)

Bag(f) == [x \in {f[k] : k \in DOMAIN f} |-> Cardinality({k \in DOMAIN f : f[k] = x})]
Container(i) == <<made[i], i \in booked, i \in provInst, i \in prewarmed>>
Containers(S) ==
    CASE S = {} -> <<>>
      [] Cardinality(S) = 1 -> Container(CHOOSE i \in S : TRUE)
      [] OTHER -> LET f == [i \in S |-> Container(i)] IN Bag(f)
Call(g) ==
    IF At(g, "over") \/ pc[g] = "unused" THEN <<pc[g]>>
    ELSE <<pc[g], kind[g], cfg[g], left[g], claimed[g],
           IF pc[g] \in {"admit", "admitWait"} THEN limit[g] ELSE 0, g \in doomed,
           Containers({inst[g]} \ {None}), Containers(drop[g])>>
AllCalls == LET f == [g \in Calls |-> Call(g)] IN Bag(f)
PoolView ==
    <<Containers(warm), AllCalls, Cardinality({i \in Instances : made[i] = None}),
      checkedOut, expected, evicted, provisioned, target, provPending,
      pendingMem, reservedMem, stopped>>

-----------------------------------------------------------------------------
(* Bound: three calls in progress at a time, two if one is a proactive start, and
   one background goroutine among them.                                      *)

FewAtOnce ==
    LET busy == {g \in Calls : pc[g] # "unused" /\ ~At(g, "over")}
        of(k) == {g \in busy : kind[g] = k}
    IN  /\ Cardinality(busy) <= IF of("proactive") = {} THEN 3 ELSE 2
        /\ Cardinality(of("replenish") \cup of("proactive")) <= 1

=============================================================================
