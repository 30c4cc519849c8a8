---------------------------- MODULE MC_TDMANet2 ----------------------------
(***************************************************************************)
(* Two nodes of net 1 in range of each other on the 200-slot frame of      *)
(* MAC_TDMA_SLOT_NUM (control slots 0, 20, ..., 180).  The constructor     *)
(* seeds are the first two values of rand() % 256 (103 and 198); 103 is    *)
(* also the seed of the fourth virtual slot of net 1.                      *)
(***************************************************************************)
EXTENDS TDMANet2

MCNode == {65, 66}
MCAssignedNet == [n \in MCNode |-> 1]
MCLink == {<<65, 66>>}
\* The application of 65 sends target tracks (type 2), that of 66
\* position reports (type 3).
MCAppType == (65 :> 2) @@ (66 :> 3)
MCSeedDraws == (65 :> {115}) @@ (66 :> {81})
\* Both may draw either value: equal seeds in one frame.
MCSharedDraws == [n \in MCNode |-> {81, 115}]
MCNodeSeed == (65 :> 103) @@ (66 :> 198)

\* The frames explored: the first, in which both enter the net, and the
\* ones after it.
MCFrames == 2
MCBound == frame < MCFrames

\* hashSeed(slot, seed) of tdl_dynamic_tdma_2.cc, evaluated as the code
\* does (64-bit long, arithmetic shifts, abs of the low 32 bits) for the
\* control slots and the seeds in play.
MCHash ==
    (<<0, 81>> :> 1686878589) @@ (<<0, 97>> :> 348150261) @@ (<<0, 99>> :> 65707734) @@ (<<0, 101>> :> 216499777) @@ (<<0, 103>> :> 498843540) @@ (<<0, 105>> :> 1366158788) @@ (<<0, 115>> :> 2101901340) @@ (<<0, 198>> :> 2016079399) @@
    (<<20, 81>> :> 1055547230) @@ (<<20, 97>> :> 866769004) @@ (<<20, 99>> :> 1604898559) @@ (<<20, 101>> :> 905285471) @@ (<<20, 103>> :> 993500894) @@ (<<20, 105>> :> 1174793818) @@ (<<20, 115>> :> 1951115875) @@ (<<20, 198>> :> 318146305) @@
    (<<40, 81>> :> 694581851) @@ (<<40, 97>> :> 2065243970) @@ (<<40, 99>> :> 1233888636) @@ (<<40, 101>> :> 135305057) @@ (<<40, 103>> :> 110419556) @@ (<<40, 105>> :> 1790506774) @@ (<<40, 115>> :> 1046865126) @@ (<<40, 198>> :> 1005473485) @@
    (<<60, 81>> :> 1862683066) @@ (<<60, 97>> :> 602226505) @@ (<<60, 99>> :> 1939379040) @@ (<<60, 101>> :> 828965997) @@ (<<60, 103>> :> 1212693201) @@ (<<60, 105>> :> 1265144563) @@ (<<60, 115>> :> 1391379768) @@ (<<60, 198>> :> 708036758) @@
    (<<80, 81>> :> 692740907) @@ (<<80, 97>> :> 1211015570) @@ (<<80, 99>> :> 1878700522) @@ (<<80, 101>> :> 706177368) @@ (<<80, 103>> :> 773811467) @@ (<<80, 105>> :> 1922981421) @@ (<<80, 115>> :> 1626613017) @@ (<<80, 198>> :> 320299183) @@
    (<<100, 81>> :> 730153424) @@ (<<100, 97>> :> 70254555) @@ (<<100, 99>> :> 1719940224) @@ (<<100, 101>> :> 1167431467) @@ (<<100, 103>> :> 626978896) @@ (<<100, 105>> :> 402715264) @@ (<<100, 115>> :> 368378123) @@ (<<100, 198>> :> 1312226302) @@
    (<<120, 81>> :> 1806373157) @@ (<<120, 97>> :> 719575310) @@ (<<120, 99>> :> 1168753051) @@ (<<120, 101>> :> 1682731142) @@ (<<120, 103>> :> 139316739) @@ (<<120, 105>> :> 1055348834) @@ (<<120, 115>> :> 421439440) @@ (<<120, 198>> :> 416216296) @@
    (<<140, 81>> :> 953920079) @@ (<<140, 97>> :> 1042103560) @@ (<<140, 99>> :> 823503413) @@ (<<140, 101>> :> 776596506) @@ (<<140, 103>> :> 536620459) @@ (<<140, 105>> :> 178412910) @@ (<<140, 115>> :> 1190174441) @@ (<<140, 198>> :> 1101176690) @@
    (<<160, 81>> :> 2017812398) @@ (<<160, 97>> :> 978768546) @@ (<<160, 99>> :> 633121395) @@ (<<160, 101>> :> 1818040985) @@ (<<160, 103>> :> 1602844634) @@ (<<160, 105>> :> 1492886522) @@ (<<160, 115>> :> 1483756376) @@ (<<160, 198>> :> 1590329575) @@
    (<<180, 81>> :> 1707807261) @@ (<<180, 97>> :> 243455942) @@ (<<180, 99>> :> 2001378088) @@ (<<180, 101>> :> 1272442277) @@ (<<180, 103>> :> 1683185494) @@ (<<180, 105>> :> 1545854373) @@ (<<180, 115>> :> 306553268) @@ (<<180, 198>> :> 83765241)
====
