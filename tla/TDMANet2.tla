------------------------------ MODULE TDMANet2 ------------------------------
(***************************************************************************)
(* The second dynamic TDMA MAC, src/tdl/tdl_dynamic_tdma_2.cc, run by a    *)
(* set of nodes that share one slot clock.                                 *)
(*                                                                         *)
(* Unlike tdl_dynamic_tdma.cc there are no net-control slots: every 20th   *)
(* slot is a control slot of the node's own net channel.  A node whose     *)
(* application has started waits 1..4 control slots; if it heard no        *)
(* control or data frame meanwhile it is the first node of its net, else   *)
(* it sends a net-entry request when a virtual slot wins a control slot    *)
(* and waits five control slots for the ACK.  A node in the net that wins  *)
(* a control slot answers a queued net entry, acknowledges a queued        *)
(* control message, sends its own control message or polls three          *)
(* runners-up, who may answer after a backoff of 0, 10 or 20 ms.           *)
(*                                                                         *)
(* A slot is: the slotHandler of every node, in one step (they touch only  *)
(* their own node); the frames sent at the slot start are then            *)
(* received, node by node; then each backoff timer of the slot fires in    *)
(* order with the receptions of what it sends.  A receiver that gets two   *)
(* frames at one instant restarts its busy receive timer, whose start      *)
(* asserts it is idle; a node that transmits at the instant a frame        *)
(* arrives receives it in error.  Between slots the interface queue may    *)
(* hand the MAC a data packet or a message / net update.                   *)
(***************************************************************************)
EXTENDS Integers, Sequences, SequencesExt, FiniteSets, TLC

CONSTANTS
    Node,         \* node ids (node_ID_ = 0x41, 0x42, ... in creation order)
    AssignedNet,  \* assigned_Net_ of each node when it is constructed
    Link,         \* pairs <<a, b>> of nodes in radio range of each other
    MaxSlotNum,   \* max_slot_num_
    NodeSeed,     \* node_seed_ drawn by each constructor
    SeedDraws,    \* SeedDraws[n]: values a later assignSeed of node n may return
    WaitDraws,    \* values waiting_ct_slot may take (rand() % 5, 0 read as 1)
    Hash,         \* Hash[slot, seed]: a table of hashSeed values
    AppType,      \* AppType[n]: the message type the application of n starts with
    NewTypes,     \* message types a message update may switch to
    GarbageFlags, \* values the never-initialised flags start with
    GarbageCounts,\* values the never-initialised counters start with
    Lossy,        \* TRUE: any reception may be lost
    NetUpdates,   \* TRUE: the application may send a net update
    StartSlots,   \* slots of the first frame in which an application may start
    UpdateFrames, \* frames in which an application may send an update
    NetUpdateSlots, \* slots at whose end a net update may come
    Saturated     \* TRUE: a started application always has a packet queued

ASSUME MaxSlotNum % 20 = 0 /\ \A n \in Node : n >= 65 /\ n - 65 + 161 < MaxSlotNum
ASSUME WaitDraws \subseteq 1 .. 4 /\ AppType \in [Node -> 1 .. 3] /\ NewTypes \subseteq 1 .. 3

VARIABLES
    node,   \* node[n]: the MacDynamicTdma object of node n (a record)
    cs,     \* slot_count_ of the slot in progress (-1: FIRST_ROUND)
    frame,  \* frames started since the first (0 in the first frame)
    air,    \* frames sent at the current instant
    rcv     \* nodes that have not yet received the current instant's frames

vars == <<node, cs, frame, air, rcv>>

Slots == 0 .. MaxSlotNum - 1

\* Every slot a free data slot (-1), every 20th a control slot (-2).
ControlPlan == [k \in Slots |-> IF k % 20 = 0 THEN -2 ELSE -1]
VSlotIds == <<97, 98, 99, 100, 101>>   \* vslotIDs[i] = 0x61 + i
NoPkt == [kind |-> "none"]

\* vslots[i] = (assigned_Net_ * i + vslotIDs[i]) % 256, fixed by the constructor.
VSlotSeed(k, i) == (k * (i - 1) + VSlotIds[i]) % 256

\* Evaluate x once and pass the value to F.
AndThen(x, F(_)) == CHOOSE y \in {F(v) : v \in {x}} : TRUE

-----------------------------------------------------------------------------
(* Neighbour tables                                                        *)

Ids(tab) == {tab[i].id : i \in DOMAIN tab}

\* The table with F applied to every entry.
MapTab(tab, F(_)) == FoldLeft(LAMBDA acc, e : Append(acc, F(e)), <<>>, tab)

\* findNrHops: the hops of id's entry; 3 when there is none.
Hops(tab, id) == IF id \in Ids(tab) THEN tab[CHOOSE i \in DOMAIN tab : tab[i].id = id].hops ELSE 3

\* updateNeighbor: overwrite the entry of id or append one; a neighbour
\* with the seed this node has already announced makes it draw a new one.
UpdNb(st, id, mt, sd, h, draw) ==
    LET e == [id |-> id, msgT |-> mt, seed |-> sd, hops |-> h]
    IN  [st EXCEPT
           !.tab  = IF id \in Ids(@) THEN [@ EXCEPT ![CHOOSE i \in DOMAIN @ : @[i].id = id] = e]
                    ELSE Append(@, e),
           !.seed = IF st.seedSent /\ sd = st.seed THEN draw ELSE @]

\* recordOneHop, recordTwoHop: the per-frame records of who was heard
\* directly and who was heard of through a neighbour.
RecordOneHop(st, id) == [st EXCEPT !.one = @ \cup {id}]
RecordTwoHop(st, id) == [st EXCEPT !.two = @ \cup {id}]

\* checkOneHop, checkTwoHop
CheckOneHop(st, id) == id \in st.one
CheckTwoHop(st, id) == id \in st.two

\* Mutant: the receiver's own entry in the sender's list is not skipped.
RelayedWithSelf(n, st, nb) == SelectSeq(nb, LAMBDA e : ~CheckOneHop(st, e.id))

\* The entries of a header's list that updateNeighborTable records as
\* 2-hop neighbours: not the receiver, not heard directly in this frame.
Relayed(n, st, nb) == SelectSeq(nb, LAMBDA e : e.id # n /\ ~CheckOneHop(st, e.id))

\* updateNeighborTable: recordOneHop and a 1-hop entry for the sender, then
\* the relayed entries.
UpdTable(n, st, m, draw) ==
    LET s1   == UpdNb(RecordOneHop(st, m.src), m.src, m.msgT, m.seed, 1, draw)
        rest == Relayed(n, s1, m.nb)
    IN  FoldLeft(LAMBDA s, e : UpdNb(RecordTwoHop(s, e.id), e.id, e.msgT, e.seed, 2, draw),
                 s1, rest)

\* findLeavingNodes
LeaveMark(st) ==
    [st EXCEPT !.tab =
       MapTab(@, LAMBDA e : [e EXCEPT !.hops = IF CheckOneHop(st, e.id) THEN 1
                                               ELSE IF CheckTwoHop(st, e.id) THEN 2 ELSE 3])]

-----------------------------------------------------------------------------
(* allocateDataSlots and assignSlots                                       *)

\* memberMsgT[]: MSG_1..MSG_3 are classes 1..3, anything else 0.
Class(mt) == IF mt \in 1 .. 3 THEN mt ELSE 0
\* slotPeriod = (int) (memberReqRate / slot_time_): rate 10 or 2 over 50 ms.
Period(t) == IF t = 1 THEN 200 ELSE 40
\* slotsReq = ceil(max_msg_size / 516 + 0.5) for 10005, 2005 and 55 bytes.
SlotsReq(t) == CASE t = 1 -> 20 [] t = 2 -> 4 [] OTHER -> 1

\* The five slots assignSlots gives id before it looks at the schedule
\* ("guarantee 1 slot every 2 seconds").
PreAssign(s, id) ==
    LET b == id - 65 + 1
    IN  [s EXCEPT ![b] = id, ![b + 40] = id, ![b + 80] = id, ![b + 120] = id, ![b + 160] = id]

Free(s, lo, hi) == Cardinality({k \in lo .. hi : s[k] = -1})

\* The while loop of one period: the slot pointer starts at the member's
\* position in every block, steps by 16 modulo 19 past taken slots, and
\* moves on to the next block after a slot is taken or when the block is
\* full.
RECURSIVE Walk(_, _, _, _, _, _, _, _)
Walk(s, id, req, base, per, blk, ptr, got) ==
    LET pos  == base + 20 * blk + ptr + 1
        nxt  == IF blk < per \div 20 - 1 THEN blk + 1 ELSE 0
        home == (id - 65) % 16
    IN  IF got >= req \/ Free(s, base, base + per - 1) = 0 THEN s
        ELSE IF s[pos] > 0
        THEN IF Free(s, base + 20 * blk + 1, base + 20 * blk + 19) = 0
             THEN Walk(s, id, req, base, per, nxt, home, got)
             ELSE Walk(s, id, req, base, per, blk, (ptr + 16) % 19, got)
        ELSE Walk([s EXCEPT ![pos] = id], id, req, base, per, nxt, home, got + 1)

AssignSlots(s, id, t) ==
    LET per == Period(t)
        pre == PreAssign(s, id)
    IN  IF t = 0 THEN s
        ELSE FoldLeft(LAMBDA s1, i :
                        Walk(s1, id, SlotsReq(t), i * per, per, 0, (id - 65) % 16,
                             Cardinality({x \in 0 .. per - 1 : s1[i * per + x] = id})),
                      pre, [j \in 1 .. MaxSlotNum \div per |-> j - 1])

\* bubbleSort(memberMsgT, members): by class, then by id.
MemberBefore(a, b) == a.t < b.t \/ (a.t = b.t /\ a.id < b.id)

\* allocateDataSlots: self and the 1- and 2-hop neighbours, sorted by
\* (class, id), each given its slots in that order on a schedule whose
\* data slots were reset.
Alloc(n, st) ==
    LET nb  == SelectSeq(st.tab, LAMBDA e : e.hops \in {1, 2})
        mem == SortSeq(<<[id |-> n, t |-> Class(st.mtype)]>>
                         \o [j \in 1 .. Len(nb) |-> [id |-> nb[j].id, t |-> Class(nb[j].msgT)]],
                       MemberBefore)
        s0  == ControlPlan  \* the control slots hold -2 since the constructor
    IN  [st EXCEPT !.sched = FoldLeft(LAMBDA s, m : AssignSlots(s, m.id, m.t), s0, mem)]

-----------------------------------------------------------------------------
(* Frames                                                                  *)

\* Mutant: every frame unlocks the interface queue, as in the first variant.
AfterTxUnlockAlways(kind, st) == [st EXCEPT !.radio = (kind = "poll"), !.blocked = FALSE]

\* sendHandler: the radio is turned off except after a poll, and only a
\* data frame unlocks the interface queue.
AfterTx(kind, st) == [st EXCEPT !.radio = (kind = "poll"), !.blocked = @ /\ kind # "data"]

\* The header every send function writes: the 1-hop entries of the table,
\* after which those not heard in this frame are demoted to 2 hops.  Then
\* the frame goes out and sendHandler runs.
Send(kind, n, st, at, x) ==
    LET one1 == {st.tab[i].id : i \in {i \in DOMAIN st.tab : st.tab[i].hops = 1}}
        f    == [kind |-> kind, src |-> n, msgT |-> st.mtype, seed |-> st.seed,
                 nb |-> SelectSeq(st.tab, LAMBDA e : e.hops = 1),
                 chan |-> st.net, at |-> at, x |-> x]
    IN  [st |-> AfterTx(kind, [st EXCEPT
                   !.tab = MapTab(@, LAMBDA e : IF e.hops = 1 /\ ~CheckOneHop(st, e.id)
                                                THEN [e EXCEPT !.hops = 2] ELSE e),
                   !.two = @ \cup (one1 \ st.one)]),
         tx |-> {f}]

Quiet(st) == [st |-> st, tx |-> {}]

\* bubbleSort2(hashValue, hashID): highest hash first; it swaps only on a
\* strictly higher hash, so equal hashes keep their list position (the
\* second component, minus the position).
HashBefore(a, b) == a.h[1] > b.h[1] \/ (a.h[1] = b.h[1] /\ a.h[2] > b.h[2])

\* findHashAndSort(slot, NUM_VSLOTS): self when in the net (with the seed
\* already announced in this frame, else the last one), every entry with
\* hops < 3, the five vslots; bubbleSort2 orders them by hash, highest
\* first, keeping the list order among equal hashes.
Ranked(n, st, slot) ==
    LET nbs   == SelectSeq(st.tab, LAMBDA e : e.hops < 3)
        own   == IF st.seedSent THEN st.seed ELSE st.lastSeed
        cands == (IF st.inNet THEN <<[id |-> n, h |-> Hash[slot, own]]>> ELSE <<>>)
                 \o [j \in 1 .. Len(nbs) |-> [id |-> nbs[j].id, h |-> Hash[slot, nbs[j].seed]]]
                 \o [i \in 1 .. 5 |-> [id |-> VSlotIds[i], h |-> Hash[slot, VSlotSeed(st.net, i)]]]
        pos   == [j \in 1 .. Len(cands) |-> [cands[j] EXCEPT !.h = <<@, -j>>]]
    IN  SortSeq(pos, HashBefore)

\* hashID[i]; 0x00 past the end of the list.
HashAt(r, i) == IF i < Len(r) THEN r[i + 1].id ELSE 0

\* findRunnerUpNode(pos): hashID[pos] unless it is a vslot or already in
\* poll_list_ (whose empty cells hold 0x00); then the first such entry
\* from position 1 on; 0x00 when there is none.
RunnerUp(r, pl, pos) ==
    LET ok(i) == HashAt(r, i) \notin Range(VSlotIds) \cup Range(pl)
        cand  == {i \in 1 .. 20 : ok(i)}
    IN  IF ok(pos) THEN HashAt(r, pos)
        ELSE IF cand = {} THEN 0 ELSE HashAt(r, Min(cand))

\* sendPolling: the three runners-up, each chosen with the earlier ones
\* already in poll_list_.
PollList(r) ==
    LET r1 == RunnerUp(r, <<0, 0, 0>>, 1)
        r2 == RunnerUp(r, <<r1, 0, 0>>, 2)
    IN  <<r1, r2, RunnerUp(r, <<r1, r2, 0>>, 3)>>

\* The send functions: what each sets besides the header and frame.
SendNetEntry(n, st, at) == Send("netent", n, st, at, [entry |-> n])

SendNetEntryACK(n, st, entry, at) ==
    Send("ack", n, [st EXCEPT !.nePkt = NoPkt, !.seedSent = TRUE], at, [entry |-> entry])

SendControl(n, st, at) ==
    Send("ctl", n, [st EXCEPT !.cackWait = TRUE, !.seedSent = TRUE], at, [id |-> n])

SendControlACK(n, st) ==
    Send("cack", n, [st EXCEPT !.ctrlPkt = NoPkt, !.seedSent = TRUE], 0, [id |-> st.ctrlPkt.src])

SendPolling(n, st, r) == Send("poll", n, [st EXCEPT !.seedSent = TRUE], 0, [runners |-> PollList(r)])

-----------------------------------------------------------------------------
(* accessControlSlots and slotHandler                                      *)

\* Mutant: the net entry is acknowledged without entering the requester.
AckEntryUnrecorded(n, st, draw) ==
    AndThen(Alloc(n, st),
            LAMBDA s1 : SendNetEntryACK(n, s1, st.nePkt.x.entry, 0))

\* The winner with a net-entry request queued: the requester becomes a
\* 1-hop neighbour heard in this frame, the data slots are reallocated and
\* sendNetEntryACK answers and clears nePkt_.
AckEntry(n, st, draw) ==
    LET q == st.nePkt
    IN  AndThen(Alloc(n, UpdNb(RecordOneHop(st, q.src), q.src, q.msgT, q.seed, 1, draw)),
                LAMBDA s1 : SendNetEntryACK(n, s1, q.x.entry, 0))

AccessCT(n, st, slot, draw) ==
    LET r == Ranked(n, st, slot)
        w == HashAt(r, 0)
    IN  IF ~st.inNet
        THEN IF st.entry /\ ~st.ackWait /\ w \in Range(VSlotIds)
             THEN SendNetEntry(n, [st EXCEPT !.ackWait = TRUE, !.ackCnt = 0], 0)
             ELSE Quiet(st)
        ELSE IF w # n THEN Quiet([st EXCEPT !.radio = TRUE])
        ELSE IF st.nePkt # NoPkt THEN AckEntry(n, st, draw)
        ELSE IF st.ctrlPkt # NoPkt
        THEN AndThen(Alloc(n, st),
                     LAMBDA s1 : SendControlACK(n, s1))
        ELSE IF st.ctrlReq THEN SendControl(n, [st EXCEPT !.ctrlReq = FALSE], 0)
        ELSE SendPolling(n, st, r)

\* A control slot with the application started.  Outside the net: the ACK
\* wait counter and its timeout, the initial wait, then net entry or, when
\* nobody was heard, the node is the first of its net.  In the net: the
\* control ACK wait counter, whose timeout asks for the control message
\* again, then accessControlSlots.
ControlSlot(n, st, slot, draw) ==
    IF ~st.inNet
    THEN LET a == IF st.ackWait THEN st.ackCnt + 1 ELSE st.ackCnt
             s == IF a >= 5 THEN [st EXCEPT !.entry = FALSE, !.ackWait = FALSE, !.ackCnt = 0]
                  ELSE [st EXCEPT !.ackCnt = a]
         IN  IF s.entry /\ s.wCnt < s.wSlot THEN Quiet([s EXCEPT !.wCnt = @ + 1])
             ELSE IF ~s.entry THEN Quiet(s)
             ELSE IF s.found THEN AccessCT(n, s, slot, draw)
             ELSE Quiet(Alloc(n, [s EXCEPT !.inNet = TRUE, !.entry = FALSE]))
    ELSE LET c == IF st.cackWait THEN st.cackCnt + 1 ELSE st.cackCnt
             s == IF c >= 5 THEN [st EXCEPT !.ctrlReq = TRUE, !.cackWait = FALSE, !.cackCnt = 0]
                  ELSE [st EXCEPT !.cackCnt = c]
         IN  AccessCT(n, s, slot, draw)

\* send(): the buffered data packet goes out in the node's own slot.
SendData(n, st) ==
    IF st.pktTx = NoPkt THEN Quiet(st)
    ELSE Send("data", n, [st EXCEPT !.pktTx = NoPkt, !.seedSent = TRUE], 0, [pkt |-> st.pktTx.id])

\* Frame start: findLeavingNodes and allocateDataSlots in the net, the
\* seed of the frame that ends becomes node_last_seed_, a node not in net
\* entry draws a new seed (not in the first round), the per-frame hop
\* records are cleared.
FrameStart(n, st, first, draw) ==
    AndThen(IF st.inNet THEN Alloc(n, LeaveMark(st)) ELSE st,
            LAMBDA s1 : [s1 EXCEPT !.seedSent = FALSE, !.lastSeed = s1.seed,
                                   !.seed = IF ~s1.entry /\ ~first THEN draw ELSE @,
                                   !.one = {}, !.two = {}])

\* Mutant: the wait counter of an earlier net entry is not reset.
EntryStartKeepCount(st, wait) ==
    IF ~st.inNet /\ st.app /\ ~st.entry
    THEN [st EXCEPT !.entry = TRUE, !.wSlot = wait, !.found = FALSE]
    ELSE st

\* Net entry starts for a node outside the net whose application runs.
EntryStart(st, wait) ==
    IF ~st.inNet /\ st.app /\ ~st.entry
    THEN [st EXCEPT !.entry = TRUE, !.wCnt = 0, !.wSlot = wait, !.found = FALSE]
    ELSE st

\* Mutant: a node in the net sends its data in any node's data slot.
DispatchAnyOwner(n, st, slot, draw) ==
    LET k  == st.sched[slot]
        on == [st EXCEPT !.radio = TRUE]
    IN  CASE k = -1 -> Quiet(on)
          [] k = -2 -> IF st.app THEN ControlSlot(n, on, slot, draw) ELSE Quiet(st)
          [] k > 0  -> IF st.inNet THEN SendData(n, on) ELSE Quiet(on)
          [] OTHER  -> Quiet(st)

\* The slot kind in the node's own schedule decides what it does; the
\* radio is switched off first.
Dispatch(n, st, slot, draw) ==
    LET k  == st.sched[slot]
        on == [st EXCEPT !.radio = TRUE]
    IN  CASE k = -1 -> Quiet(on)
          [] k = -2 -> IF st.app THEN ControlSlot(n, on, slot, draw) ELSE Quiet(st)
          [] k = n  -> IF st.inNet THEN SendData(n, on) ELSE Quiet(st)
          [] k > 0  -> Quiet(on)
          [] OTHER  -> Quiet(st)

SlotHandler(n, st, slot, first, draw, wait) ==
    AndThen(IF slot = 0 THEN FrameStart(n, st, first, draw) ELSE st,
      LAMBDA s1 : Dispatch(n, [EntryStart(s1, wait) EXCEPT !.radio = FALSE], slot, draw))

-----------------------------------------------------------------------------
(* recvHandler, backoffHandler                                             *)

\* checkPollList
PollOrder(n, m) ==
    CASE m.x.runners[1] = n -> 1 [] m.x.runners[2] = n -> 2
      [] m.x.runners[3] = n -> 3 [] OTHER -> 0

\* A poll: in the net with a control message or a net-entry ACK to send,
\* the k-th runner-up backs off k - 1 times 10 ms when the runners-up
\* before it are 1-hop neighbours; a node waiting to send its net entry
\* backs off 30 ms when all three are.
PollBackoff(n, st, m) ==
    LET k   == PollOrder(n, m)
        run == m.x.runners
        one(i) == Hops(st.tab, run[i]) = 1
        bo  == IF st.inNet /\ (st.ctrlReq \/ st.nePkt # NoPkt)
               THEN CASE k = 1 -> 1
                      [] k = 2 /\ one(1) -> 2
                      [] k = 3 /\ one(1) /\ one(2) -> 3
                      [] OTHER -> 0
               ELSE IF ~st.inNet /\ st.entry /\ ~st.ackWait /\ one(1) /\ one(2) /\ one(3)
               THEN 4 ELSE 0
    IN  IF bo = 0 THEN st ELSE [st EXCEPT !.backOff = TRUE, !.bo = bo]

\* recvHandler for frame m received without error: the radio is turned
\* off, then the frame is handled by its type.
Receive(n, st0, m, draw) ==
    LET st == [st0 EXCEPT !.radio = FALSE]
    IN
    CASE m.kind = "netent" ->
           IF st.inNet /\ st.nePkt = NoPkt THEN [st EXCEPT !.nePkt = m] ELSE st
      [] m.kind = "ack" ->
           AndThen(UpdTable(n, st, m, draw),
             LAMBDA s1 : IF m.x.entry = n
                         THEN Alloc(n, [s1 EXCEPT !.entry = FALSE, !.ackWait = FALSE, !.inNet = TRUE])
                         ELSE IF s1.inNet
                         THEN Alloc(n, [s1 EXCEPT !.nePkt = IF @ # NoPkt /\ @.x.entry = m.x.entry
                                                            THEN NoPkt ELSE @])
                         ELSE s1)
      [] m.kind \in {"ctl", "cack"} ->
           AndThen(UpdTable(n, st, m, draw),
             LAMBDA s1 :
               IF ~s1.inNet THEN [s1 EXCEPT !.found = @ \/ s1.entry]
               ELSE LET s2 == [s1 EXCEPT !.recBackOff = @ \/ s1.backOff]
                    IN  IF m.kind = "ctl"
                        THEN IF s2.ctrlPkt = NoPkt THEN [s2 EXCEPT !.ctrlPkt = m] ELSE s2
                        ELSE AndThen(Alloc(n, s2),
                               LAMBDA s3 :
                                 [s3 EXCEPT
                                    !.ctrlPkt  = IF @ # NoPkt /\ @.x.id = m.x.id THEN NoPkt ELSE @,
                                    !.cackWait = @ /\ m.x.id # n,
                                    !.cackCnt  = IF m.x.id = n THEN 0 ELSE @,
                                    !.ctrlReq  = @ /\ m.x.id # n]))
      [] m.kind = "data" ->
           AndThen(UpdTable(n, st, m, draw),
             LAMBDA s1 : IF s1.inNet THEN s1 ELSE [s1 EXCEPT !.found = @ \/ s1.entry])
      [] m.kind = "poll" ->
           PollBackoff(n, [UpdTable(n, st, m, draw) EXCEPT !.radio = TRUE], m)

\* A frame that arrives while the node itself transmits is received in
\* error: sendUp ends the node's own net entry if it is a net-entry frame,
\* recvHandler turns the radio off and ignores it, except a data frame,
\* which is handled when the node's own transmission ended first
\* (recvHandler tests tx_state_, not the error flag, for data).
ReceiveInError(n, st, m, ownFirst, draw) ==
    LET s1 == IF m.kind \in {"netent", "ack"} /\ ~st.inNet
              THEN [st EXCEPT !.entry = FALSE, !.ackWait = FALSE, !.ackCnt = 0]
              ELSE st
    IN  IF m.kind = "data" /\ ownFirst THEN Receive(n, s1, m, draw)
        ELSE [s1 EXCEPT !.radio = FALSE]

\* backoffHandler: without a control frame heard during the backoff, send
\* the control message, the net-entry ACK or the net entry.
Backoff(n, st) ==
    LET r == IF st.recBackOff THEN Quiet(st)
             ELSE IF st.ctrlReq
             THEN AndThen(SendControl(n, st, st.bo),
                          LAMBDA t : [t EXCEPT !.st = Alloc(n, [@ EXCEPT !.ctrlReq = FALSE])])
             ELSE IF st.nePkt # NoPkt
             THEN AndThen(SendNetEntryACK(n, st, st.nePkt.x.entry, st.bo),
                          LAMBDA t : [t EXCEPT !.st = Alloc(n, @)])
             ELSE IF ~st.inNet /\ st.entry /\ ~st.ackWait
             THEN SendNetEntry(n, st, st.bo)
             ELSE Quiet(st)
    IN  [r EXCEPT !.st = [@ EXCEPT !.backOff = FALSE, !.recBackOff = FALSE, !.bo = 0]]

-----------------------------------------------------------------------------
(* The nodes and the slot clock                                            *)

\* The constructor: all data slots free, every 20th slot a control slot,
\* an empty neighbour table, not in the net.  The flags and counters it
\* leaves uninitialised take any value of GarbageFlags / GarbageCounts.
InitNode(n, g) ==
    [app |-> FALSE, mtype |-> 0, blocked |-> FALSE, pktTx |-> NoPkt, lastPkt |-> 0,
     inNet |-> FALSE, entry |-> FALSE, ackWait |-> FALSE, ackCnt |-> g.ackCnt,
     wSlot |-> 1, wCnt |-> 0, found |-> FALSE, ctrlReq |-> FALSE,
     cackWait |-> g.cackWait, cackCnt |-> g.cackCnt,
     seedSent |-> FALSE, seed |-> NodeSeed[n], lastSeed |-> NodeSeed[n],
     tab |-> <<>>, one |-> {}, two |-> {}, nePkt |-> NoPkt, ctrlPkt |-> NoPkt,
     backOff |-> g.backOff, recBackOff |-> g.recBackOff, bo |-> 0,
     sched |-> ControlPlan,
     radio |-> FALSE, net |-> AssignedNet[n], asrt |-> FALSE]

Garbage == [ackCnt : GarbageCounts, cackCnt : GarbageCounts, cackWait : GarbageFlags,
            backOff : GarbageFlags, recBackOff : GarbageFlags]

Linked(a, b) == <<a, b>> \in Link \/ <<b, a>> \in Link

\* The frames of the current instant that reach r on its channel.
Heard(r) == {f \in air : f.src # r /\ Linked(f.src, r) /\ f.chan = node[r].net}

Sender(r) == \E f \in air : f.src = r

\* A receive timer started while busy fails its assertion.
Halted == \E n \in Node : node[n].asrt

Init ==
    /\ \E g \in [Node -> Garbage] : node = [n \in Node |-> InitNode(n, g[n])]
    /\ cs = -1
    /\ frame = 0
    /\ air = {}
    /\ rcv = {}

\* Between slots: every handler, reception and backoff of the slot is over.
Between == rcv = {} /\ \A n \in Node : node[n].bo = 0

\* The next slot is the one an application may start or update in.
NextIn(S) == (cs + 1) % MaxSlotNum \in S

\* The slot timers of all nodes fire: slot_count_ moves on (FIRST_ROUND
\* and max_slot_num_ both lead to slot 0) and every slotHandler runs; they
\* touch only their own node, and the frames they send are on the air
\* once all have run.  A handler may draw a seed (assignSeed) and a wait
\* (rand() % 5); Outcomes(n, c, fr) is what it may do.  A seed is drawn
\* only in a control slot or at the frame start, a wait only when net
\* entry starts; elsewhere one value stands for all.
Outcomes(n, c, fr) ==
    LET st == node[n]
        ds == IF c % 20 = 0 THEN SeedDraws[n] ELSE {Min(SeedDraws[n])}
        ws == IF ~st.inNet /\ st.app /\ ~st.entry THEN WaitDraws ELSE {Min(WaitDraws)}
    IN  {SlotHandler(n, st, c, fr, draw, wait) : draw \in ds, wait \in ws}

Tick ==
    /\ ~Halted
    /\ Between
    /\ Saturated => \A n \in Node : node[n].app => node[n].blocked
    /\ LET c  == (cs + 1) % MaxSlotNum
           fr == cs = -1
       IN  /\ cs' = c
           /\ frame' = IF cs = MaxSlotNum - 1 THEN frame + 1 ELSE frame
           /\ LET out == [n \in Node |-> Outcomes(n, c, fr)]
              IN  \E r \in [Node -> UNION Range(out)] :
                 /\ \A n \in Node : r[n] \in out[n]
                 /\ node' = [n \in Node |-> r[n].st]
                 /\ air' = UNION {r[n].tx : n \in Node}
                 /\ rcv' = IF air' # {} THEN Node ELSE {}
\* The frames of the instant arrive at r (any of them may be lost when
\* Lossy).  With the radio off they are discarded; a second frame while
\* receiving restarts the busy receive timer; a frame arriving while r
\* transmits is received in error.  ownFirst: r's own transmission ends
\* before the reception does.
Deliver(r) ==
    /\ ~Halted
    /\ rcv # {} /\ r = Min(rcv)
    /\ rcv' = rcv \ {r}
    /\ \E got \in IF Lossy THEN SUBSET Heard(r) ELSE {Heard(r)},
          draw \in IF node[r].seedSent THEN SeedDraws[r] ELSE {Min(SeedDraws[r])},
          ownFirst \in IF Sender(r) THEN BOOLEAN ELSE {FALSE} :
         node' = IF got = {} \/ ~(node[r].radio \/ Sender(r)) THEN node
                 ELSE IF Cardinality(got) > 1 THEN [node EXCEPT ![r].asrt = TRUE]
                 ELSE LET m == CHOOSE f \in got : TRUE
                      IN  [node EXCEPT ![r] = IF Sender(r) THEN ReceiveInError(r, @, m, ownFirst, draw)
                                              ELSE Receive(r, @, m, draw)]
    /\ UNCHANGED <<cs, frame, air>>

\* The earliest backoff timer fires once the frames before it are received.
BackoffFire(n) ==
    /\ ~Halted
    /\ rcv = {}
    /\ node[n].bo # 0
    /\ node[n].bo = Min({node[m].bo : m \in Node} \ {0})
    /\ n = Min({m \in Node : node[m].bo = node[n].bo})
    /\ LET r    == Backoff(n, node[n])
           now  == {f \in air : f.at = node[n].bo} \cup r.tx
           last == \A m \in Node \ {n} : node[m].bo # node[n].bo
       IN  /\ node' = [node EXCEPT ![n] = r.st]
           /\ air' = now
           /\ rcv' = IF last /\ now # {} THEN Node ELSE {}
    /\ UNCHANGED <<cs, frame>>

-----------------------------------------------------------------------------
(* recv of packets from the interface queue                                *)

\* sendDown: the packet is buffered in pktTx_, over any packet there.
SendDown(st, pkt) == [st EXCEPT !.pktTx = pkt]

\* A data packet: the application has started, its message type becomes
\* the node's, the queue waits for the callback and sendDown overwrites
\* pktTx_.  The application keeps its type until a message update.
AppDown(n) ==
    /\ ~Halted /\ Between
    /\ ~node[n].blocked
    /\ node[n].app \/ (frame = 0 /\ NextIn(StartSlots))
    /\ node' = [node EXCEPT ![n] =
                 SendDown([@ EXCEPT !.app = TRUE, !.mtype = IF node[n].app THEN @ ELSE AppType[n],
                                    !.blocked = TRUE, !.lastPkt = 1 - @],
                          [kind |-> "data", id |-> 1 - node[n].lastPkt])]
    /\ UNCHANGED <<cs, frame, air, rcv>>

\* A message update: the new type; in the net a control message is
\* required.  The queue is unlocked at once.
MsgUpdate(n, t) ==
    /\ ~Halted /\ Between
    /\ ~node[n].blocked /\ node[n].app /\ t # node[n].mtype /\ frame \in UpdateFrames
    /\ node' = [node EXCEPT ![n] = [@ EXCEPT !.mtype = t, !.ctrlReq = @ \/ node[n].inNet]]
    /\ UNCHANGED <<cs, frame, air, rcv>>

\* A net update: assigned_Net_ changes, which nothing reads again, and the
\* node leaves the net; it enters its old net again.
NetUpdate(n) ==
    /\ ~Halted /\ Between /\ NetUpdates
    /\ ~node[n].blocked /\ node[n].inNet /\ frame \in UpdateFrames /\ cs \in NetUpdateSlots
    /\ node' = [node EXCEPT ![n].inNet = FALSE]
    /\ UNCHANGED <<cs, frame, air, rcv>>

Next ==
    \/ Tick
    \/ \E n \in Node : BackoffFire(n) \/ NetUpdate(n)
    \/ \E r \in Node : Deliver(r)
    \/ \E n \in Node : AppDown(n) \/ \E t \in NewTypes : MsgUpdate(n, t)

Spec == Init /\ [][Next]_vars

-----------------------------------------------------------------------------
(* Properties                                                              *)

Kinds == {"netent", "ack", "ctl", "cack", "poll", "data"}

TypeOK ==
    /\ cs \in -1 .. MaxSlotNum - 1 /\ rcv \subseteq Node
    /\ \A f \in air : f.kind \in Kinds /\ f.src \in Node /\ f.at \in 0 .. 4
    /\ \A n \in Node :
          /\ node[n].bo \in 0 .. 4
          /\ node[n].ackCnt \in 0 .. 4 /\ node[n].cackCnt \in 0 .. 4
          /\ node[n].wCnt \in 0 .. node[n].wSlot
          /\ node[n].sched \in [Slots -> {-2, -1} \cup Node]

\* Slot assignment and the control-slot election (findHashAndSort ranking
\* the same list at every node of a net) keep two nodes in range of each
\* other from transmitting at the same instant.
NoCollision ==
    \A f, g \in air : f.src # g.src /\ f.at = g.at => ~Linked(f.src, g.src)

\* updateNeighborTable never records the receiver as its own neighbour,
\* whatever 1-hop lists it hears relayed.
NotOwnNeighbour == \A n \in Node : n \notin Ids(node[n].tab)

\* A node that answers a net entry in its control slot has first entered
\* the requester in its neighbour table, so its own allocateDataSlots
\* already counts the node it admits.
AckedIsNeighbour ==
    \A f \in air : f.kind = "ack" => f.x.entry \in Ids(node[f.src].tab)

\* The data packet sendDown stores in pktTx_ is never replaced by the next
\* one before send() has transmitted it: only sendHandler after a data
\* frame lets the interface queue hand down another.
NoDataOverwrite ==
    [][\A n \in Node : node[n].pktTx # NoPkt /\ node'[n].pktTx # NoPkt
                       => node'[n].pktTx = node[n].pktTx]_vars

=============================================================================
