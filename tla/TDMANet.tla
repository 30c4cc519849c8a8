------------------------------- MODULE TDMANet -------------------------------
(***************************************************************************)
(* The self-organised TDMA MAC of src/tdl/tdl_dynamic_tdma.cc run by a     *)
(* set of nodes that share one slot clock.                                 *)
(*                                                                         *)
(* Every node's slot timer fires at the same instants (each constructor    *)
(* starts it at time 0), so a slot is: the slotHandler of every node (in   *)
(* node order: the handlers touch only their own node and commute), the    *)
(* receptions of what was sent at the slot start, one by one in any order, *)
(* then the backoff timers of polled nodes (3, 6, 9 ms into the 50 ms      *)
(* slot) with the receptions of what each of them sends.  Between slots    *)
(* the interface queue may hand the MAC a data packet.                     *)
(*                                                                         *)
(* Control slots are elected: each node ranks itself (when in the net),    *)
(* its 1- and 2-hop neighbours and the net's three virtual slots by        *)
(* hashSeed(slot, seed) and acts when it ranks first.  hashSeed is a       *)
(* 64-bit mix; it is modelled by the table Hash, one of the values it can  *)
(* have.  node_seed_ never changes after the constructor (the re-draw at   *)
(* line 2049 tests slot_count_ after it was set to 0), so node_last_seed_ *)
(* equals node_seed_ and is_seed_sent has no effect on the ranking.        *)
(*                                                                         *)
(* Channels: 0 is the control channel, k > 0 the channel of net k.  A node *)
(* hears a frame when it is linked to the sender and its radio is on and   *)
(* tuned to the frame's channel (ear); a sender's radio is off once its    *)
(* own frame has gone out (sendHandler).                                   *)
(***************************************************************************)
EXTENDS Integers, Sequences, SequencesExt, FiniteSets, TLC

CONSTANTS
    Node,         \* node ids (node_ID_ = 0x41, 0x42, ... in creation order)
    Nets,         \* net ids 1..MAX_NET_NO
    AssignedNet,  \* assigned_Net_ of each node (Tcl-bound)
    Link,         \* pairs <<a, b>> of nodes in radio range of each other
    MaxSlotNum,   \* max_slot_num_
    NodeSeed,     \* node_seed_ drawn by each constructor (assignSeed)
    VSlotDraws,   \* triples the first node of a net may draw for vslots[]
    Hash,         \* Hash[slot, seed]: a table of hashSeed values
    AppTypes,     \* message types each node's application hands down
    Founders,     \* nodes whose application may start before they heard their net
    GarbageId,    \* what the unwritten cells of members[] read as (fresh heap)
    GarbageType,  \* ... of memberMsgT[]
    GarbageFlags, \* values is_back_off / is_rec_in_back_off start with (never initialised)
    Lossy,        \* TRUE: any reception may be lost
    Saturated     \* TRUE: the queue hands the next packet down as soon as it is unblocked

ASSUME Nets \subseteq 1 .. 8 /\ \A n \in Node : AssignedNet[n] \in Nets
ASSUME MaxSlotNum % 20 = 0 /\ MaxSlotNum >= 100
ASSUME GarbageType \in 0 .. 3

AL == INSTANCE TDMAAlloc WITH
        SelfId <- 0, SelfTypes <- {}, NbTables <- {},
        GarbageIds <- {0}, GarbageTypes <- {0}, GarbageAdj <- {0},
        phase <- "idle", members <- <<>>, rate <- <<>>, adj <- <<>>,
        sched <- <<>>, idx <- 0, nrAlloc <- 0, adjust1 <- FALSE,
        ai <- 0, ab <- 0, aa <- 0

VARIABLES
    node,     \* node[n]: the MacDynamicTdma object of node n (a record)
    cs,       \* slot_count_ of the slot being handled (-1: FIRST_ROUND)
    todo,     \* nodes whose slotHandler has not run in this slot yet
    air,      \* frames sent in this slot
    pending   \* receptions <<receiver, frame>> not yet handled

vars == <<node, cs, todo, air, pending>>

VSlotIds == <<97, 98, 99>>    \* vslotIDs[0..NUM_VSLOTS-1] = 0x61, 0x62, 0x63
AckWaitSlots == 199           \* waiting_slot_count limit
NoPkt == [kind |-> "none"]
Off == -1                     \* ear of a node whose radio is off

\* Evaluate x once and pass the value to F.
AndThen(x, F(_)) == CHOOSE y \in {F(v) : v \in {x}} : TRUE

-----------------------------------------------------------------------------
(* Neighbour tables                                                        *)

\* updateNeighbor / updateNetNeighbor: overwrite the entry of id, or append.
UpdNb(tab, id, mt, sd, h) ==
    LET e == [id |-> id, msgT |-> mt, seed |-> sd, hops |-> h]
    IN  IF \E i \in DOMAIN tab : tab[i].id = id
        THEN [i \in DOMAIN tab |-> IF tab[i].id = id THEN e ELSE tab[i]]
        ELSE Append(tab, e)

\* The neighbour list every header carries: the 1-hop entries of the table.
Nb1(st) == SelectSeq(st.tab, LAMBDA e : e.hops = 1)

\* recordOneHop / recordTwoHop: the per-frame arrays onehop_nb_* and
\* twohop_nb_* as sets (an id is entered once, with found = 1);
\* RecordTwoHop enters each id of a set, one call per id in the code.
RecordOneHop(st, id) == [st EXCEPT !.one = @ \cup {id}]
RecordTwoHop(st, ids) == [st EXCEPT !.two = @ \cup ids]

\* checkOneHop / checkTwoHop
CheckOneHop(st, id) == id \in st.one
CheckTwoHop(st, id) == id \in st.two

\* updateNeighborTable: the sender is a 1-hop neighbour; the neighbours it
\* lists that were not heard directly in this frame become 2-hop entries.
\* Mutant: the receiver's own entry in the sender's list is not skipped.
RelayedWithSelf(n, one1, nb) == SelectSeq(nb, LAMBDA e : e.id \notin one1)

\* The entries of a header's neighbour list that updateNeighborTable turns
\* into 2-hop entries: not the receiver, not heard directly in this frame.
Relayed(n, one1, nb) == SelectSeq(nb, LAMBDA e : e.id # n /\ e.id \notin one1)

UpdTable(n, st, m) ==
    LET s1   == RecordOneHop(st, m.src)
        rest == Relayed(n, s1.one, m.nb)
    IN  [RecordTwoHop(s1, {rest[j].id : j \in DOMAIN rest}) EXCEPT
           !.tab = FoldLeft(LAMBDA t, e : UpdNb(t, e.id, e.msgT, e.seed, 2),
                            UpdNb(st.tab, m.src, m.msgT, m.seed, 1), rest)]

\* findLeavingNodes: hops from what was heard in the frame that ends.
LeaveMark(st) ==
    [st EXCEPT !.tab =
       [i \in DOMAIN st.tab |->
          [st.tab[i] EXCEPT !.hops = IF CheckOneHop(st, st.tab[i].id) THEN 1
                                     ELSE IF CheckTwoHop(st, st.tab[i].id) THEN 2
                                     ELSE 3]]]

-----------------------------------------------------------------------------
(* allocateDataSlots as a function: the steps of TDMAAlloc run to the end. *)
(* Phase "ub": the inner loop was about to read members[-1].               *)

\* Entry of allocateDataSlots: memberCnt counts every table entry, only
\* self and the 1- and 2-hop entries are written, the rest of the fresh
\* arrays is read uninitialized (GarbageId, GarbageType; memberRateAdj 0).
AllocInput(n, st) ==
    LET sel == SelectSeq(st.tab, AL!InNeighbourhood)
        w   == <<[id |-> n, t |-> AL!Class(st.mtype)]>>
                 \o [j \in 1 .. Len(sel) |-> [id |-> sel[j].id, t |-> AL!Class(sel[j].msgT)]]
        cnt == 1 + Len(st.tab)
        ms  == AL!SortMembers(w \o [j \in 1 .. cnt - Len(w) |-> [id |-> GarbageId, t |-> GarbageType]])
    IN  [ms |-> ms, rate |-> [j \in 1 .. cnt |-> AL!ReqRate(ms[j].t)],
         adj |-> [j \in 1 .. cnt |-> 0],
         s |-> [k \in AL!Slots |-> IF k % 20 # 0 THEN -1 ELSE st.sched[k]],
         idx |-> 0, nr |-> 0, adj1 |-> FALSE, ph |-> "loop", i |-> 0, b |-> 0, a |-> 0]

\* The outer loop after assignSlots returned ok.
AfterAssign(st, ok) ==
    IF ok
    THEN [st EXCEPT !.adj1 = FALSE, !.nr = @ + 1, !.idx = @ + 1,
                    !.ph = IF st.nr + 1 < Len(st.ms) THEN "loop" ELSE "idle"]
    ELSE IF ~st.adj1
    THEN [st EXCEPT !.rate[st.idx + 1] = 2 * @, !.adj[st.idx + 1] = @ + 1,
                    !.adj1 = TRUE, !.ph = "loop"]
    ELSE [st EXCEPT !.ph = "back", !.adj1 = FALSE]

\* One step: a call of assignSlots, a block visit, a period end, or one
\* iteration of while(!foundN).
AStep(st) ==
    LET c     == st.ms[st.idx + 1]
        per   == AL!Period(st.rate[st.idx + 1])
        base  == st.i * per + 20 * st.b
        Fr(p) == AL!Free(st.s, base + p)
        k     == st.idx
    IN  CASE st.ph = "loop" ->
               IF c.t = 0 \/ MaxSlotNum \div per = 0
               THEN AfterAssign(st, c.t # 0)
               ELSE [st EXCEPT !.ph = "assign", !.i = 0, !.b = 0, !.a = 0]
          [] st.ph = "assign" /\ st.a >= AL!SlotsReq(c.t) ->
               IF st.i + 1 < MaxSlotNum \div per
               THEN [st EXCEPT !.i = @ + 1, !.b = 0, !.a = 0]
               ELSE AfterAssign(st, TRUE)
          [] st.ph = "assign" /\ st.a < AL!SlotsReq(c.t) /\ \E p \in 1 .. 19 : Fr(p) ->
               LET p == CHOOSE p \in 1 .. 19 : Fr(p) /\ \A q \in 1 .. p - 1 : ~Fr(q)
               IN  [st EXCEPT !.s[base + p] = c.id, !.a = @ + 1, !.b = (@ + 1) % (per \div 20)]
          [] st.ph = "assign" ->
               IF st.b < per \div 20 - 1
               THEN [st EXCEPT !.b = @ + 1]
               ELSE AfterAssign([st EXCEPT !.s = AL!ClearId(st.s, c.id)], FALSE)
          [] st.ph = "back" /\ k = 0 -> [st EXCEPT !.ph = "ub"]
          [] st.ph = "back" ->
               [st EXCEPT !.idx = k - 1, !.nr = @ - 1, !.s = AL!ClearId(st.s, st.ms[k].id),
                          !.rate[k] = IF st.adj[k] = 0 THEN 2 * @ ELSE @,
                          !.adj[k] = IF st.adj[k] = 0 THEN 1 ELSE @,
                          !.ph = IF st.adj[k] = 0 THEN "loop" ELSE "back"]

RECURSIVE ARun(_)
ARun(st) == IF st.ph \in {"idle", "ub"} THEN st ELSE AndThen(AStep(st), ARun)

Alloc(n, st) ==
    AndThen(ARun(AllocInput(n, st)),
            LAMBDA r : [st EXCEPT !.sched = r.s, !.ub = @ \/ r.ph = "ub"])

-----------------------------------------------------------------------------
(* Frames and elections                                                    *)

\* The header every send function writes, with its frame-specific part x.
Frame(kind, n, st, chan, at, x) ==
    [kind |-> kind, src |-> n, msgT |-> st.mtype, seed |-> NodeSeed[n],
     nb |-> Nb1(st), chan |-> chan, at |-> at, x |-> x]

\* bubbleSort2 swaps while the next hash is higher: highest first, and
\* equal hashes keep their list order (h[2] is minus the position).
HashBefore(a, b) == a.h[1] > b.h[1] \/ (a.h[1] = b.h[1] /\ a.h[2] > b.h[2])

\* findHashAndSort(slot, NUM_VSLOTS): self when in the net, every entry
\* with hops < 3, the three vslots; bubbleSort2 orders them by hash,
\* highest first, keeping the list order among equal hashes.
Ranked(n, st, slot) ==
    LET nbs   == SelectSeq(st.tab, LAMBDA e : e.hops < 3)
        cands == (IF st.inNet THEN <<[id |-> n, h |-> Hash[slot, NodeSeed[n]]]>> ELSE <<>>)
                 \o [j \in 1 .. Len(nbs) |-> [id |-> nbs[j].id, h |-> Hash[slot, nbs[j].seed]]]
                 \o [i \in 1 .. 3 |-> [id |-> VSlotIds[i], h |-> Hash[slot, st.vs[i]]]]
        pos   == [j \in 1 .. Len(cands) |-> [cands[j] EXCEPT !.h = <<@, -j>>]]
    IN  SortSeq(pos, HashBefore)

\* findWinningNode(pos): hashID[pos], 0 past the end of the list.
WinnerAt(r, pos) == IF pos < Len(r) THEN r[pos + 1].id ELSE 0

\* The node transmits frame f: sendHandler then turns the radio off and
\* unlocks the interface queue.
Tx(st, f) == [st |-> [st EXCEPT !.ear = Off, !.blocked = FALSE], tx |-> {f}]

Quiet(st) == [st |-> st, tx |-> {}]

\* The send functions: the frame each builds from the node's state, and
\* what it changes besides.
SendNetControl(n, st) == Tx(st, Frame("nc", n, st, 0, 0, [net |-> st.netId, vs |-> st.vs]))

SendNetEntry(n, st) == Tx(st, Frame("netent", n, st, st.netId, 0, [entry |-> n]))

SendNetEntryACK(n, st, entry) ==
    Tx([st EXCEPT !.nePkt = NoPkt], Frame("ack", n, st, st.netId, 0, [entry |-> entry]))

SendControl(n, st, at) == Tx(st, Frame("ctl", n, st, st.netId, at, [none |-> 0]))

\* sendPolling: the runners-up are findWinningNode(1), (2) and (3).
SendPolling(n, st, r) ==
    Tx(st, Frame("poll", n, st, st.netId, 0,
                 [runners |-> <<WinnerAt(r, 1), WinnerAt(r, 2), WinnerAt(r, 3)>>]))

\* accessNCToTxRx: the winner sends a net-control frame; the others
\* listenForNC.
AccessNC(n, st, slot) ==
    IF WinnerAt(Ranked(n, st, slot), 0) = n THEN SendNetControl(n, st) ELSE Quiet(st)

\* switchToControlChannel: tune to channel 0; a node in the net takes
\* part in the election, one that is not listens.
SwitchToControlChannel(n, st, slot) ==
    LET s0 == [st EXCEPT !.ear = 0]
    IN  IF st.inNet THEN AccessNC(n, s0, slot) ELSE Quiet(s0)

\* switchToNetChannel: tune to the net's frequency, radio on.
SwitchToNetChannel(st) == [st EXCEPT !.ear = st.netId]

\* Mutant: the requester is acknowledged without being entered in the table.
AckEntryUnrecorded(n, st) ==
    AndThen(Alloc(n, st),
            LAMBDA s1 : SendNetEntryACK(n, s1, st.nePkt.x.entry))

\* The winner of a control slot with a net-entry request queued: the
\* requester becomes a 1-hop neighbour, the data slots are reallocated and
\* sendNetEntryACK answers (entry_ID from the request) and clears nePkt_.
AckEntry(n, st) ==
    LET q == st.nePkt
    IN  AndThen(Alloc(n, [st EXCEPT !.tab = UpdNb(@, q.src, q.msgT, q.seed, 1)]),
                LAMBDA s1 : SendNetEntryACK(n, s1, q.x.entry))

\* accessControlSlots.  pick is ne_vslot, drawn by getNet in this handler.
AccessCT(n, st, slot, pick) ==
    LET r == Ranked(n, st, slot)
        w == WinnerAt(r, 0)
    IN  IF ~st.inNet
        THEN IF st.entry /\ ~st.ackWait /\ pick = w
             THEN SendNetEntry(n, [st EXCEPT !.ackWait = TRUE, !.waitCnt = 0])
             ELSE Quiet(st)
        ELSE IF w # n THEN Quiet(st)
        ELSE IF st.nePkt # NoPkt THEN AckEntry(n, st)
        ELSE IF st.ctrlReq
        THEN AndThen(SendControl(n, st, 0),
                     LAMBDA t : [t EXCEPT !.st = Alloc(n, [@ EXCEPT !.ctrlReq = FALSE])])
        ELSE SendPolling(n, st, r)

\* send(): the buffered data packet goes out in the node's own slot.
SendData(st) ==
    IF st.pktTx = NoPkt
    THEN Quiet(st)
    ELSE Tx([st EXCEPT !.pktTx = NoPkt], [st.pktTx EXCEPT !.chan = st.netId])

-----------------------------------------------------------------------------
(* slotHandler                                                             *)

\* Frame start: findLeavingNodes and allocateDataSlots when in the net,
\* then the per-frame 1- and 2-hop records are cleared.
FrameStart(n, st) ==
    AndThen(IF st.inNet THEN Alloc(n, LeaveMark(st)) ELSE st,
            LAMBDA s1 : [s1 EXCEPT !.one = {}, !.two = {}])

\* Mutant: the timeout is tested one slot late.
AckTimerLate(st) ==
    LET c == IF st.ackWait THEN st.waitCnt + 1 ELSE st.waitCnt
    IN  IF c > AckWaitSlots
        THEN [st EXCEPT !.netId = 0, !.entry = FALSE, !.ackWait = FALSE, !.waitCnt = 0]
        ELSE [st EXCEPT !.waitCnt = c]

\* The ACK wait counter and its timeout.
AckTimer(st) ==
    LET c == IF st.ackWait THEN st.waitCnt + 1 ELSE st.waitCnt
    IN  IF c = AckWaitSlots
        THEN [st EXCEPT !.netId = 0, !.entry = FALSE, !.ackWait = FALSE, !.waitCnt = 0]
        ELSE [st EXCEPT !.waitCnt = c]

\* getNet: join the assigned net if its net control was heard, else found
\* it with freshly drawn vslot seeds.
GetNet(n, st, draw) ==
    LET k == AssignedNet[n]
    IN  IF k \in st.found
        THEN [st EXCEPT !.first = FALSE, !.netId = k, !.vs = st.netVs[k],
                        !.tab = st.netNb[k], !.entry = TRUE]
        ELSE [st EXCEPT !.netId = k, !.vs = draw, !.tab = <<>>]

\* Not in the net with the application started: getNet, and the first
\* node of a net is in it at once.
Join(n, st, draw) ==
    IF ~st.inNet /\ st.app
    THEN AndThen(GetNet(n, st, draw),
                 LAMBDA g : IF g.first THEN Alloc(n, [g EXCEPT !.inNet = TRUE]) ELSE g)
    ELSE st

\* The slot kind in the node's own schedule decides what it does.
Dispatch(n, st, slot, pick) ==
    LET k == st.sched[slot]
    IN  CASE k = -1 -> Quiet([st EXCEPT !.ear = Off])
          [] k = -2 -> IF st.app /\ st.netId # 0
                       THEN AccessCT(n, SwitchToNetChannel(st), slot, pick)
                       ELSE Quiet(st)
          [] k = -3 -> SwitchToControlChannel(n, st, slot)
          [] k = n  -> IF st.inNet /\ ~st.ctrlReq
                       THEN SendData(SwitchToNetChannel(st))
                       ELSE Quiet([st EXCEPT !.ear = Off])
          [] k > 0  -> Quiet(IF st.inNet THEN SwitchToNetChannel(st) ELSE [st EXCEPT !.ear = Off])
          [] OTHER  -> Quiet(st)

SlotHandler(n, st, slot, draw, pick) ==
    AndThen(IF slot = 0 THEN FrameStart(n, st) ELSE st,
      LAMBDA s1 : AndThen(Join(n, AckTimer(s1), draw),
        LAMBDA s2 : Dispatch(n, s2, slot, pick)))

-----------------------------------------------------------------------------
(* recv, direction UP                                                      *)

\* updateNetTable and updateNetNeighborTable for a net-control frame.
NoteNet(n, st, m) ==
    LET k == m.x.net
        rest == SelectSeq(m.nb, LAMBDA e : e.id # n)
    IN  [RecordOneHop(st, m.src) EXCEPT
           !.found = @ \cup {k},
           !.netVs[k] = m.x.vs,
           !.netNb[k] = FoldLeft(LAMBDA t, e : UpdNb(t, e.id, e.msgT, e.seed, 1),
                                 UpdNb(st.netNb[k], m.src, m.msgT, m.seed, 1), rest)]

\* isSwitchNet: a node with a lower id runs another net; enter that one.
SwitchNet(n, st, m) ==
    LET k == m.x.net
    IN  IF m.src < n
        THEN [st EXCEPT !.inNet = FALSE, !.netId = k, !.vs = st.netVs[k],
                        !.tab = st.netNb[k], !.entry = TRUE]
        ELSE st

\* checkPollList
PollOrder(n, m) ==
    CASE m.x.runners[1] = n -> 1 [] m.x.runners[2] = n -> 2
      [] m.x.runners[3] = n -> 3 [] OTHER -> 0

Receive(n, st, m) ==
    CASE m.kind = "nc" ->
           AndThen(NoteNet(n, st, m),
             LAMBDA s1 : IF ~(s1.inNet \/ s1.entry) THEN s1
                         ELSE IF s1.netId = m.x.net THEN UpdTable(n, s1, m)
                         ELSE SwitchNet(n, s1, m))
      [] m.kind = "netent" -> [st EXCEPT !.nePkt = m]
      [] m.kind = "ack" /\ m.x.entry = n ->
           Alloc(n, UpdTable(n, [st EXCEPT !.entry = FALSE, !.ackWait = FALSE, !.inNet = TRUE], m))
      [] m.kind \in {"ack", "ctl"} ->
           IF st.inNet
           THEN Alloc(n, UpdTable(n, [st EXCEPT !.recBackOff = @ \/ (m.kind = "ctl" /\ st.backOff)], m))
           ELSE st
      [] m.kind = "data" -> IF st.inNet THEN UpdTable(n, st, m) ELSE st
      [] m.kind = "poll" ->
           IF st.inNet /\ st.ctrlReq /\ PollOrder(n, m) > 0
           THEN [st EXCEPT !.backOff = TRUE, !.bo = PollOrder(n, m), !.asrt = @ \/ st.bo # 0]
           ELSE st

-----------------------------------------------------------------------------
(* The nodes and the medium                                                *)

\* The MacDynamicTdma constructor.  is_back_off and is_rec_in_back_off are
\* not initialised: any value of GarbageFlags.
InitNode(n, bo0, rb0) ==
    [app |-> FALSE, mtype |-> 0, blocked |-> FALSE, pktTx |-> NoPkt,
     inNet |-> FALSE, entry |-> FALSE, ackWait |-> FALSE, waitCnt |-> 0,
     first |-> TRUE, netId |-> 0, ctrlReq |-> FALSE,
     backOff |-> bo0, recBackOff |-> rb0, bo |-> 0,
     tab |-> <<>>, one |-> {}, two |-> {}, found |-> {},
     netVs |-> [k \in Nets |-> <<0, 0, 0>>], netNb |-> [k \in Nets |-> <<>>],
     vs |-> <<0, 0, 0>>, nePkt |-> NoPkt, sched |-> AL!InitialSchedule,
     ear |-> Off, ub |-> FALSE, asrt |-> FALSE]

Linked(a, b) == <<a, b>> \in Link \/ <<b, a>> \in Link

\* Who a frame reaches: every linked node but the sender.
Reach(fs) == {<<r, f>> \in Node \X fs : r # f.src /\ Linked(r, f.src)}

\* Undefined behaviour (a failed assertion or a negative index) ends the run.
Halted == \E n \in Node : node[n].ub \/ node[n].asrt

Init ==
    /\ \E bo0, rb0 \in [Node -> GarbageFlags] :
          node = [n \in Node |-> InitNode(n, bo0[n], rb0[n])]
    /\ cs = -1
    /\ todo = {}
    /\ air = {}
    /\ pending = {}

\* The slot timers fire: slot_count_ moves on (FIRST_ROUND and
\* max_slot_num_ both lead to slot 0).  Every reception and backoff timer
\* of the slot is over, and a saturated queue has handed its packet down.
Tick ==
    /\ ~Halted
    /\ todo = {} /\ pending = {}
    /\ \A n \in Node : node[n].bo = 0
    /\ Saturated => \A n \in Node : node[n].app => node[n].blocked
    /\ cs' = (cs + 1) % MaxSlotNum
    /\ todo' = Node
    /\ air' = {}
    /\ UNCHANGED <<node, pending>>

\* slotHandler of node n in slot cs.  draw: the vslot seeds getNet may
\* draw; pick: the ne_vslot it may draw.  The frames of the slot start are
\* on the air once the last handler has run.
SlotStart(n) ==
    /\ ~Halted
    /\ todo # {} /\ n = Min(todo)
    /\ \E draw \in VSlotDraws, pick \in {VSlotIds[1], VSlotIds[2], VSlotIds[3]} :
         \E r \in {SlotHandler(n, node[n], cs, draw, pick)} :
            /\ node' = [node EXCEPT ![n] = r.st]
            /\ air' = air \cup r.tx
            /\ pending' = IF todo = {n} THEN Reach(air \cup r.tx) ELSE pending
    /\ todo' = todo \ {n}
    /\ UNCHANGED cs

\* recvHandler: the radio is turned off when the reception completes; a
\* broadcast frame is never dropped, and recvDATA passes it up.
RecvHandler(st) == [st EXCEPT !.ear = Off]

\* recv of frame f by node r: heard only when its radio is on and tuned to
\* the frame's channel.  A data frame goes through sendUp and recvHandler.
Deliver(r, f) ==
    /\ ~Halted
    /\ <<r, f>> \in pending
    /\ pending' = pending \ {<<r, f>>}
    /\ node' = IF node[r].ear # f.chan THEN node
               ELSE [node EXCEPT ![r] =
                       LET s1 == Receive(r, @, f)
                       IN  IF f.kind = "data" THEN RecvHandler(s1) ELSE s1]
    /\ UNCHANGED <<cs, todo, air>>

\* A reception that is lost on the way.
Lose(r, f) ==
    /\ ~Halted
    /\ Lossy
    /\ <<r, f>> \in pending
    /\ pending' = pending \ {<<r, f>>}
    /\ UNCHANGED <<node, cs, todo, air>>

\* backoffHandler: the earliest backoff timer fires once the receptions of
\* the slot start are over; without a control message heard during the
\* backoff the node sends its control message.
BackoffFire(n) ==
    /\ ~Halted
    /\ todo = {} /\ pending = {}
    /\ node[n].bo # 0
    /\ \A m \in Node : node[m].bo # 0 => node[n].bo <= node[m].bo
    /\ LET st == node[n]
           r  == IF ~st.recBackOff
                 THEN AndThen(SendControl(n, st, st.bo),
                              LAMBDA t : [t EXCEPT !.st = Alloc(n, [@ EXCEPT !.ctrlReq = FALSE])])
                 ELSE Quiet(st)
       IN  /\ node' = [node EXCEPT ![n] = [r.st EXCEPT !.backOff = FALSE,
                                                         !.recBackOff = FALSE, !.bo = 0]]
           /\ air' = air \cup r.tx
           /\ pending' = Reach(r.tx)
    /\ UNCHANGED <<cs, todo>>

\* recv of a packet coming down from the interface queue: the application
\* is started, a change of message type while in the net asks for a
\* control message, and sendDown buffers the packet in pktTx_ with the
\* header of this moment.  The queue is locked until sendHandler runs.
\* A node that is not a founder starts its application only after it
\* heard its net.
AppDown(n, t) ==
    /\ ~Halted
    /\ todo = {} /\ pending = {}
    /\ ~node[n].blocked
    /\ node[n].app \/ n \in Founders \/ AssignedNet[n] \in node[n].found
    /\ LET st == node[n]
           s1 == [st EXCEPT !.app = TRUE, !.mtype = t, !.blocked = TRUE,
                            !.ctrlReq = @ \/ (t # st.mtype /\ st.inNet)]
       IN  node' = [node EXCEPT ![n] = [s1 EXCEPT !.pktTx = Frame("data", n, s1, 0, 0, [none |-> 0])]]
    /\ UNCHANGED <<cs, todo, air, pending>>

Next ==
    \/ Tick
    \/ \E n \in Node : SlotStart(n)
    \/ \E p \in pending : Deliver(p[1], p[2]) \/ Lose(p[1], p[2])
    \/ \E n \in Node : BackoffFire(n)
    \/ \E n \in Node, t \in AppTypes : AppDown(n, t)

Spec == Init /\ [][Next]_vars

-----------------------------------------------------------------------------
(* Properties                                                              *)

Kinds == {"nc", "netent", "ack", "ctl", "poll", "data"}

TypeOK ==
    /\ cs \in -1 .. MaxSlotNum - 1
    /\ todo \subseteq Node
    /\ \A f \in air : f.kind \in Kinds /\ f.src \in Node
    /\ pending \subseteq Node \X air
    /\ \A n \in Node :
          /\ node[n].ear \in {Off, 0} \cup Nets
          /\ node[n].bo \in 0 .. 3
          /\ node[n].waitCnt \in 0 .. AckWaitSlots - 1
          /\ node[n].sched \in [AL!Slots -> {-3, -2, -1} \cup Node \cup {0}]
          /\ node[n].pktTx.kind \in {"none", "data"}

Ids(tab) == {tab[i].id : i \in DOMAIN tab}

\* A node that joined through a net-entry ACK is known to a member of the
\* net: the node that acknowledged it entered it in its neighbour table
\* before answering, and entries are never removed (accessControlSlots,
\* recv of the ACK).
KnownByAcker ==
    \A n \in Node :
       node[n].inNet /\ ~node[n].first =>
          \E m \in Node \ {n} : node[m].inNet /\ n \in Ids(node[m].tab)

\* No node ever lists itself as its own neighbour, in its table or in the
\* per-net tables getNet copies from: a header lists the sender's 1-hop
\* neighbours, the receiver among them (updateNeighborTable,
\* updateNetNeighborTable).
NotOwnNeighbour ==
    \A n \in Node : n \notin Ids(node[n].tab) \cup UNION {Ids(node[n].netNb[k]) : k \in Nets}

\* The schedule is collision-free within two hops: no two frames go out
\* at the same instant on the same channel where one node could hear both
\* or the senders could hear each other ("collision should not happen",
\* send() and sendUp()).
NoCollision ==
    \A f, g \in air :
       (f.src # g.src /\ f.at = g.at /\ f.chan = g.chan) =>
          ~(Linked(f.src, g.src) \/ \E r \in Node : Linked(r, f.src) /\ Linked(r, g.src)
                                                    /\ r \notin {f.src, g.src})

\* A packet sendDown buffered in pktTx_ leaves only by send(): no packet
\* the interface queue handed down is overwritten by the next one.
NoDataOverwrite ==
    [][\A n \in Node : node[n].pktTx # NoPkt /\ node'[n].pktTx # node[n].pktTx
                          => node'[n].pktTx = NoPkt]_vars

=============================================================================
