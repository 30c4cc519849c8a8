---------------------------- MODULE MC_TDMAAlloc ----------------------------
(* Node 0x41 with the full 400-slot frame.  The neighbour tables are the   *)
(* ones of 0 to 7 neighbours whose allocation needs the rate adjustments:  *)
(* seven RAP (class 1) members already force a member to double its rate   *)
(* and the inner loop to step back.                                        *)
EXTENDS TDMAAlloc

Nb(id, m, h) == [id |-> id, msgT |-> m, hops |-> h]

\* a small neighbourhood: one 1-hop position reporter, one 2-hop tracker
MC_Small == <<Nb(66, 3, 1), Nb(67, 2, 2)>>
\* six neighbours: five RAP senders and one tracker
MC_Six == <<Nb(66, 1, 1), Nb(67, 1, 1), Nb(68, 1, 2), Nb(69, 1, 2),
            Nb(70, 1, 1), Nb(71, 2, 1)>>
\* seven neighbours: six RAP senders and a tracker, with an empty entry
MC_Seven == <<Nb(66, 1, 1), Nb(67, 1, 1), Nb(68, 1, 2), Nb(0, 0, 3), Nb(69, 1, 2),
              Nb(70, 1, 1), Nb(71, 1, 1), Nb(72, 2, 2)>>
\* a neighbour that findLeavingNodes marked as 3 hops away
MC_Left == <<Nb(66, 2, 1), Nb(67, 3, 3)>>

\* twelve 1- and 2-hop neighbours, all present: five RAP senders, seven trackers
MC_Full == [j \in 1 .. 12 |-> Nb(65 + j, IF j <= 5 THEN 1 ELSE 2, 1 + (j % 2))]

MC_NbTables == {<<>>, MC_Small, MC_Six, MC_Seven}
MC_NbTables_left == {MC_Left}
MC_NbTables_full == {MC_Full}
=============================================================================
