------------------------------ MODULE TDMAAlloc ------------------------------
(***************************************************************************)
(* Data-slot allocation of the dynamic TDMA MAC                            *)
(* (src/tdl/tdl_dynamic_tdma.cc, MacDynamicTdma::allocateDataSlots and     *)
(* MacDynamicTdma::assignSlots).                                           *)
(*                                                                         *)
(* Every node computes the data-slot schedule of its 1- and 2-hop          *)
(* neighbourhood locally from its neighbour table.  The members are sorted *)
(* by (message type, id); each is given the slots its message type needs   *)
(* at its update rate.  When a member cannot be placed, its rate is        *)
(* halved (the period doubled); when it still cannot be placed, the loop   *)
(* walks back to the nearest higher-priority member whose rate was not     *)
(* adjusted yet, frees its slots, halves its rate and starts again from    *)
(* there.                                                                  *)
(*                                                                         *)
(* One call of allocateDataSlots is a sequence of steps: Start builds and  *)
(* sorts the member list and resets the schedule; Assign is one iteration  *)
(* of the outer while loop (one assignSlots call); Backtrack is one        *)
(* iteration of the inner while(!foundN) loop; inside assignSlots (phase   *)
(* "assign") a step is one visit of a block: the slot pointer runs to the  *)
(* first free slot or onto the next control slot.  Between calls (phase    *)
(* "idle") the neighbour table may have changed arbitrarily: the next     *)
(* call starts from any table of NbTables.                                 *)
(***************************************************************************)
EXTENDS Integers, Sequences, FiniteSets, TLC

CONSTANTS
    MaxSlotNum,     \* max_slot_num_ (Tcl-bound; MAC_TDMA_SLOT_NUM = 400)
    SelfId,         \* node_ID_
    SelfTypes,      \* values node_msg_type_ may have when the call is made
    NbTables,       \* neighbour tables: sequences of [id, msgT, hops]
    GarbageIds,     \* what an uninitialized members[] cell may read as
    GarbageTypes,   \* ... an uninitialized memberMsgT[] cell
    GarbageAdj      \* ... an uninitialized memberRateAdj[] cell

ASSUME MaxSlotNum \in Nat /\ MaxSlotNum % 20 = 0
ASSUME GarbageTypes \subseteq 0..3   \* other values divide by zero in assignSlots

VARIABLES
    phase,      \* "idle" between calls, "loop" in the outer while, "back" in the inner one
    members,    \* members[] zipped with memberMsgT[]: sequence of [id, t]
    rate,       \* memberReqRate[]
    adj,        \* memberRateAdj[]
    sched,      \* tdma_schedule_[0..MaxSlotNum-1]
    idx,        \* idx
    nrAlloc,    \* nrAlloc
    adjust1,    \* adjust1
    ai,         \* assignSlots: period i
    ab,         \* assignSlots: current_block
    aa          \* assignSlots: slotsAssigned

vars == <<phase, members, rate, adj, sched, idx, nrAlloc, adjust1, ai, ab, aa>>

Slots == 0 .. MaxSlotNum - 1

\* The layout the constructor writes: -3 at the four net-control slots,
\* -2 at every other multiple of 20, -1 (free) elsewhere.
InitialSchedule ==
    [i \in Slots |-> IF i % 20 # 0 THEN -1 ELSE IF i < 80 THEN -3 ELSE -2]

\* MsgType -> the priority class the allocator uses (MSG_4, MSG_5 and MSG_0 -> 0).
Class(m) == IF m \in {1, 2, 3} THEN m ELSE 0

\* memberReqRate by class (assignSlots turns it into a period of 20*rate slots).
ReqRate(t) == CASE t = 1 -> 10 [] t \in {2, 3} -> 2 [] OTHER -> 0

\* slotPeriod = (int)(rate / slot_time_) with slot_time_ = 0.05: exactly 20*rate
\* for every rate the allocator can reach.
Period(r) == 20 * r

\* slotsReq = max(1, max_msg_size / 200) with integer division.
MaxMsgSize(t) == CASE t = 1 -> 5000 [] t = 2 -> 1200 [] OTHER -> 50
SlotsReq(t) == IF MaxMsgSize(t) \div 200 < 1 THEN 1 ELSE MaxMsgSize(t) \div 200

Free(s, k) == ~(s[k] > 0)

ClearId(s, id) == [k \in Slots |-> IF s[k] = id THEN -1 ELSE s[k]]

\* The member list of allocateDataSlots: memberCnt counts every non-empty
\* table entry, but only self and the 1- and 2-hop entries are written;
\* the remaining cells are read uninitialized.
\* Mutant: only 1-hop entries are copied into members[].
InNeighbourhoodOneHop(e) == e.id # 0 /\ e.hops = 1

InNeighbourhood(e) == e.id # 0 /\ e.hops \in {1, 2}

Written(tab, st) ==
    LET sel == SelectSeq(tab, InNeighbourhood)
    IN  <<[id |-> SelfId, t |-> Class(st)]>>
          \o [j \in 1 .. Len(sel) |-> [id |-> sel[j].id, t |-> Class(sel[j].msgT)]]

MemberCnt(tab) == 1 + Cardinality({i \in DOMAIN tab : tab[i].id # 0})

\* bubbleSort(memberMsgT, members): ascending by type, then by id.
SortMembers(ms) ==
    SortSeq(ms, LAMBDA x, y : x.t < y.t \/ (x.t = y.t /\ x.id < y.id))

-----------------------------------------------------------------------------

Init ==
    /\ phase = "idle"
    /\ members = <<>>
    /\ rate = <<>>
    /\ adj = <<>>
    /\ sched = InitialSchedule
    /\ idx = 0
    /\ nrAlloc = 0
    /\ adjust1 = FALSE
    /\ ai = 0 /\ ab = 0 /\ aa = 0

\* Entry of allocateDataSlots: build, sort, rate and reset.
Start ==
    /\ phase = "idle"
    /\ \E tab \in NbTables, st \in SelfTypes :
         LET w == Written(tab, st)
             n == MemberCnt(tab)
         IN  \E gid \in [1 .. n - Len(w) -> GarbageIds],
                gt  \in [1 .. n - Len(w) -> GarbageTypes],
                gadj \in [1 .. n - Len(w) -> GarbageAdj] :
               LET ms == SortMembers(w \o [j \in 1 .. n - Len(w) |-> [id |-> gid[j], t |-> gt[j]]])
               IN  /\ members' = ms
                   /\ rate' = [j \in 1 .. n |-> ReqRate(ms[j].t)]
                   \* memberRateAdj is indexed by position and not moved by the sort
                   /\ adj' = [j \in 1 .. n |-> IF j <= Len(w) THEN 0 ELSE gadj[j - Len(w)]]
    /\ sched' = [i \in Slots |-> IF i % 20 # 0 THEN -1 ELSE sched[i]]
    /\ phase' = "loop"
    /\ idx' = 0
    /\ nrAlloc' = 0
    /\ adjust1' = FALSE
    /\ UNCHANGED <<ai, ab, aa>>

\* Mutant: a failed member goes straight to the search for a member to
\* adjust, without first retrying at double period.
AllocatedNoRetry(ok) ==
    IF ok
    THEN /\ adjust1' = FALSE
         /\ nrAlloc' = nrAlloc + 1
         /\ idx' = idx + 1
         /\ phase' = IF nrAlloc + 1 < Len(members) THEN "loop" ELSE "idle"
         /\ UNCHANGED <<rate, adj>>
    ELSE /\ phase' = "back"
         /\ adjust1' = FALSE
         /\ UNCHANGED <<rate, adj, idx, nrAlloc>>


\* The body of while(nrAlloc < memberCnt) after assignSlots returned ok.
Allocated(ok) ==
    IF ok
    THEN /\ adjust1' = FALSE
         /\ nrAlloc' = nrAlloc + 1
         /\ idx' = idx + 1
         /\ phase' = IF nrAlloc + 1 < Len(members) THEN "loop" ELSE "idle"
         /\ UNCHANGED <<rate, adj>>
    ELSE IF ~adjust1
    THEN /\ rate' = [rate EXCEPT ![idx + 1] = 2 * @]
         /\ adj' = [adj EXCEPT ![idx + 1] = @ + 1]
         /\ adjust1' = TRUE
         /\ phase' = "loop"
         /\ UNCHANGED <<idx, nrAlloc>>
    ELSE /\ phase' = "back"
         /\ adjust1' = FALSE
         /\ UNCHANGED <<rate, adj, idx, nrAlloc>>

\* The member assignSlots is working for, and the shape of its periods.
Cur == members[idx + 1]
CurPeriod == Period(rate[idx + 1])
PeriodCount == MaxSlotNum \div CurPeriod
BlockCount == CurPeriod \div 20
BlockBase == ai * CurPeriod + 20 * ab

\* Call of assignSlots from the outer loop: class 0 returns 0 at once, and
\* a period longer than the frame leaves the for loop with nothing to do.
CallAssign ==
    /\ phase = "loop"
    /\ IF Cur.t = 0 \/ PeriodCount = 0
       THEN /\ Allocated(Cur.t # 0)
            /\ UNCHANGED <<sched, ai, ab, aa>>
       ELSE /\ phase' = "assign"
            /\ ai' = 0 /\ ab' = 0 /\ aa' = 0
            /\ UNCHANGED <<rate, adj, sched, idx, nrAlloc, adjust1>>
    /\ UNCHANGED members

\* Mutant: the slot pointer starts at 0, on the block's control slot.
TakeSlotFromZero ==
    /\ phase = "assign"
    /\ aa < SlotsReq(Cur.t)
    /\ \E p \in 0 .. 19 :
         /\ Free(sched, BlockBase + p)
         /\ \A q \in 0 .. p - 1 : ~Free(sched, BlockBase + q)
         /\ sched' = [sched EXCEPT ![BlockBase + p] = Cur.id]
    /\ aa' = aa + 1
    /\ ab' = (ab + 1) % BlockCount
    /\ UNCHANGED <<phase, members, rate, adj, idx, nrAlloc, adjust1, ai>>


\* The slot pointer finds a free slot in the current block: take it and move
\* to the next block, wrapping round to block 0 after the last.
TakeSlot ==
    /\ phase = "assign"
    /\ aa < SlotsReq(Cur.t)
    /\ \E p \in 1 .. 19 :
         /\ Free(sched, BlockBase + p)
         /\ \A q \in 1 .. p - 1 : ~Free(sched, BlockBase + q)
         /\ sched' = [sched EXCEPT ![BlockBase + p] = Cur.id]
    /\ aa' = aa + 1
    /\ ab' = (ab + 1) % BlockCount
    /\ UNCHANGED <<phase, members, rate, adj, idx, nrAlloc, adjust1, ai>>

\* Mutant: running onto a control slot that is not the last one does not
\* move to the next block.
BlockFullStuck ==
    /\ phase = "assign"
    /\ aa < SlotsReq(Cur.t)
    /\ \A p \in 1 .. 19 : ~Free(sched, BlockBase + p)
    /\ IF ab < BlockCount - 1
       THEN UNCHANGED <<phase, rate, adj, sched, idx, nrAlloc, adjust1, ai, ab, aa>>
       ELSE /\ sched' = ClearId(sched, Cur.id)
            /\ Allocated(FALSE)
            /\ UNCHANGED <<ai, ab, aa>>
    /\ UNCHANGED members

\* Mutant: the last-block test is off by one.
BlockFullPastLast ==
    /\ phase = "assign"
    /\ aa < SlotsReq(Cur.t)
    /\ \A p \in 1 .. 19 : ~Free(sched, BlockBase + p)
    /\ IF ab < BlockCount
       THEN /\ ab' = ab + 1
            /\ UNCHANGED <<phase, rate, adj, sched, idx, nrAlloc, adjust1, ai, aa>>
       ELSE /\ sched' = ClearId(sched, Cur.id)
            /\ Allocated(FALSE)
            /\ UNCHANGED <<ai, ab, aa>>
    /\ UNCHANGED members


\* The slot pointer runs onto the control slot that ends the block: go on
\* with the next block or, after the last one, give back every slot of this
\* id and return 0.
BlockFull ==
    /\ phase = "assign"
    /\ aa < SlotsReq(Cur.t)
    /\ \A p \in 1 .. 19 : ~Free(sched, BlockBase + p)
    /\ IF ab < BlockCount - 1
       THEN /\ ab' = ab + 1
            /\ UNCHANGED <<phase, rate, adj, sched, idx, nrAlloc, adjust1, ai, aa>>
       ELSE /\ sched' = ClearId(sched, Cur.id)
            /\ Allocated(FALSE)
            /\ UNCHANGED <<ai, ab, aa>>
    /\ UNCHANGED members

\* slotsReq slots taken in this period: the next period, or return 1.
PeriodDone ==
    /\ phase = "assign"
    /\ aa >= SlotsReq(Cur.t)
    /\ IF ai + 1 < PeriodCount
       THEN /\ ai' = ai + 1 /\ ab' = 0 /\ aa' = 0
            /\ UNCHANGED <<phase, rate, adj, idx, nrAlloc, adjust1>>
       ELSE /\ Allocated(TRUE)
            /\ UNCHANGED <<ai, ab, aa>>
    /\ UNCHANGED <<members, sched>>

\* Mutant: stepping back does not free the member's slots.
BacktrackKeepSlots ==
    /\ phase = "back"
    /\ idx > 0
    /\ idx' = idx - 1
    /\ nrAlloc' = nrAlloc - 1
    /\ IF adj[idx] = 0
       THEN /\ rate' = [rate EXCEPT ![idx] = 2 * @]
            /\ adj' = [adj EXCEPT ![idx] = 1]
            /\ phase' = "loop"
       ELSE UNCHANGED <<rate, adj, phase>>
    /\ UNCHANGED <<members, sched, adjust1, ai, ab, aa>>



\* One iteration of while(!foundN): step back, free that member's slots and
\* double its period if it has not been adjusted yet.  idx = 0 here means
\* the code is about to read members[-1].
Backtrack ==
    /\ phase = "back"
    /\ idx > 0
    /\ idx' = idx - 1
    /\ sched' = ClearId(sched, members[idx].id)
    /\ nrAlloc' = nrAlloc - 1
    /\ IF adj[idx] = 0
       THEN /\ rate' = [rate EXCEPT ![idx] = 2 * @]
            /\ adj' = [adj EXCEPT ![idx] = 1]
            /\ phase' = "loop"
       ELSE UNCHANGED <<rate, adj, phase>>
    /\ UNCHANGED <<members, adjust1, ai, ab, aa>>

AllocStep == CallAssign \/ TakeSlot \/ BlockFull \/ PeriodDone \/ Backtrack

Next == Start \/ AllocStep

Spec == Init /\ [][Next]_vars /\ WF_vars(AllocStep)

-----------------------------------------------------------------------------

TypeOK ==
    /\ phase \in {"idle", "loop", "assign", "back"}
    /\ sched \in [Slots -> Int]
    /\ Len(rate) = Len(members) /\ Len(adj) = Len(members)
    /\ idx \in 0 .. Len(members)
    /\ phase = "assign" => ab \in 0 .. BlockCount - 1 /\ ai \in 0 .. PeriodCount - 1
    /\ nrAlloc \in 0 .. Len(members)
    /\ adjust1 \in BOOLEAN

\* The inner loop of allocateDataSlots only steps back to a member that
\* exists: whenever it is entered there is a higher-priority member left
\* to give up slots, so members[idx - 1] is never read at idx = 0.
NoIndexUnderflow == phase = "back" => idx > 0

\* When allocateDataSlots returns, every member of class 1..3 holds exactly
\* slotsReq slots in each period of its final rate, and no data slot is
\* held by anyone who is not a member: the slots freed when assignSlots
\* fails, and when the inner loop steps back, are all given back.
ReservationMatchesRate ==
    phase = "idle" =>
      /\ \A j \in 1 .. Len(members) : members[j].t # 0 =>
            Cardinality({k \in Slots : sched[k] = members[j].id})
              = SlotsReq(members[j].t) * (MaxSlotNum \div Period(rate[j]))
      /\ \A k \in Slots : sched[k] > 0 => \E j \in 1 .. Len(members) : members[j].id = sched[k]

\* No step of the allocator ever writes a net-control or control slot
\* (every slot index that is a multiple of 20).
ControlSlotsKept == [][\A k \in Slots : k % 20 = 0 => sched'[k] = sched[k]]_vars

\* Every call of allocateDataSlots returns: the loop of assignSlots calls
\* and rate adjustments terminates.
AllocReturns == phase # "idle" ~> phase = "idle"

=============================================================================
