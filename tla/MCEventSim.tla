----------------------------- MODULE MCEventSim -----------------------------
(***************************************************************************)
(* Small transaction lists for TLC, on a mesh two columns wide: ports 0-3  *)
(* are PEs, 4 is the global buffer, 8 the DRAM.                            *)
(***************************************************************************)
EXTENDS EventSimProps

Tc(id, actor, op, size, dests, deps) ==
  [tc_id |-> id, actor |-> actor, op |-> op, size |-> size,
   dests |-> dests, deps |-> deps]

(* A weight load, a broadcast and a send whose routes share links, a MAC   *)
(* and the DRAM burst that feeds the buffer.                               *)
Kinds == {
  Tc(0, 4, "unicast",   1, <<1>>,    <<>>),
  Tc(0, 4, "multicast", 1, <<2, 0>>, <<>>),
  Tc(0, 2, "unicast",   1, <<1>>,    <<>>),
  Tc(0, 2, "count",     2, <<>>,     <<>>),
  Tc(0, 8, "unicast",   1, <<4>>,    <<>>)}

(* Rows come neither in the order of their ids nor in its reverse.         *)
Ids == <<3, 1, 2>>

(* Every dependency relation on three transactions, cyclic ones included.  *)
DependencyLists ==
  {[i \in 1 .. 3 |-> [kinds[i] EXCEPT !.tc_id = Ids[i],
                                      !.deps = SetToSeq(deps[i] \ {Ids[i]})]] :
     kinds \in [1 .. 3 -> Kinds], deps \in [1 .. 3 -> SUBSET (1 .. 3)]}

(* Lists that are refused, one that names a dependency twice, and one with *)
(* a transaction that waits for itself.                                    *)
OddLists == {
  <<Tc(1, 2, "count", 1, <<>>, <<>>), Tc(1, 3, "count", 1, <<>>, <<>>)>>,
  <<Tc(1, 2, "count", 1, <<>>, <<7>>)>>,
  <<Tc(1, 2, "count", 1, <<>>, <<>>), Tc(2, 4, "multicast", 1, <<>>, <<1>>)>>,
  <<Tc(1, 2, "count", 1, <<>>, <<>>), Tc(2, 3, "count", 1, <<>>, <<1, 1>>)>>,
  <<Tc(1, 2, "count", 1, <<>>, <<1>>), Tc(2, 3, "count", 1, <<>>, <<>>)>>}

SmallLists == DependencyLists \cup OddLists

(* Two chains on two PEs that meet on a third.                             *)
TwoChains ==
  {<<Tc(1, 0, "count", 1, <<>>, <<>>),
     Tc(2, 1, "count", size, <<>>, <<>>),
     Tc(ids[1], 2, "count", 1, <<>>, <<1>>),
     Tc(ids[2], 2, "count", 1, <<>>, <<2>>)>> :
   size \in 1 .. 3, ids \in {<<3, 4>>, <<4, 3>>}}
=============================================================================
