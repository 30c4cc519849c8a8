----------------------------- MODULE MC_TDMANet -----------------------------
(***************************************************************************)
(* Two nodes of net 1 in range of each other on a 120-slot frame (net      *)
(* control slots 0, 20, 40, 60; control slots 80, 100).  The seeds are     *)
(* chosen so that every branch of the elections happens: 65 wins one net   *)
(* control slot, a virtual slot wins a control slot while 66 enters, and   *)
(* once both are in the net each wins one control slot and polls the other *)
(* as its third runner-up.                                                 *)
(***************************************************************************)
EXTENDS TDMANet

MCNode == {65, 66}
MCAssignedNet == [n \in MCNode |-> 1]
MCLink == {<<65, 66>>}
MCNodeSeed == (65 :> 16) @@ (66 :> 233)
MCVSlotDraws == {<<147, 174, 116>>}

\* hashSeed(slot, seed) of tdl_dynamic_tdma.cc, evaluated as the code does
\* (64-bit long, arithmetic shifts, abs of the low 32 bits) for the
\* control slots and the seeds in play.
MCHash ==
    (<<0, 16>> :> 2035350914) @@ (<<0, 233>> :> 1501592807) @@ (<<0, 147>> :> 359152263) @@ (<<0, 174>> :> 1372399349) @@ (<<0, 116>> :> 1349889923) @@
    (<<20, 16>> :> 587686961) @@ (<<20, 233>> :> 492323432) @@ (<<20, 147>> :> 644997787) @@ (<<20, 174>> :> 1259374372) @@ (<<20, 116>> :> 1507886091) @@
    (<<40, 16>> :> 1729800914) @@ (<<40, 233>> :> 1597496023) @@ (<<40, 147>> :> 1442627725) @@ (<<40, 174>> :> 2079121834) @@ (<<40, 116>> :> 1772775737) @@
    (<<60, 16>> :> 1539766350) @@ (<<60, 233>> :> 604837439) @@ (<<60, 147>> :> 1754596241) @@ (<<60, 174>> :> 500130450) @@ (<<60, 116>> :> 95952697) @@
    (<<80, 16>> :> 1746979499) @@ (<<80, 233>> :> 1099658002) @@ (<<80, 147>> :> 672916736) @@ (<<80, 174>> :> 1565632641) @@ (<<80, 116>> :> 1161074466) @@
    (<<100, 16>> :> 1471408583) @@ (<<100, 233>> :> 1938069536) @@ (<<100, 147>> :> 1524246122) @@ (<<100, 174>> :> 1882390762) @@ (<<100, 116>> :> 1451770589)
====
