------------------------------ MODULE FixedTDMA ------------------------------
(***************************************************************************)
(* The fixed-schedule TDL stack of src/tdl: the TDMA MAC of                *)
(* tdl_fixed_tdma.cc (MacFixTdma), the TDL transport agent of              *)
(* tdl_data_udp.cc (TdlDataUdpAgent: segmentation in sendmsg, reassembly   *)
(* in recv) and the TDL application of tdl_data_msg.cc (TdlDataApp), on a  *)
(* set of nodes that each run all three.                                   *)
(*                                                                         *)
(* Every MAC starts its slot timer at time 0 with the same slot time, so   *)
(* the nodes' slot boundaries coincide.  Within a slot the timers fire in  *)
(* the order their delays impose: every slotHandler at the boundary, the   *)
(* arrivals of the frames sent (after the propagation delay), the senders' *)
(* sendHandler (after the transmission time) and the receivers'            *)
(* recvHandler (transmission time plus propagation delay).  The           *)
(* application's timer and its Tcl commands may fire at any moment.       *)
(*                                                                         *)
(* Between agent and MAC sits the ns-2 interface queue (not in this        *)
(* repository): a drop-tail FIFO that passes a packet straight to the MAC  *)
(* when unblocked and is unblocked again by the MAC's callback.            *)
(***************************************************************************)
EXTENDS Integers, Sequences, SequencesExt, FiniteSets, FiniteSetsExt

CONSTANTS
  Node,        \* node_ID_ of each MAC ('A' = 65, 'B', ...)
  Link,        \* pairs of nodes within radio range of each other
  MaxSlot,     \* max_slot_num_: slots per frame
  TdmaTable,   \* the lines of file tdma_table: <<k, <<slot, slot, ...>>>>
  AppId,       \* appIdx_ of the application on each node
  PktSizes,    \* pktsize_ values the application is given (Tcl)
  SegSize,     \* the agent's packetSize_ (size_)
  IfqLen,      \* qlim_ of the interface queue
  IpHdrLen,    \* bytes the routing layer adds for the IP header
  MaxMsgs      \* bound: messages the application of each node generates

ASSUME MaxSlot \in Nat \ {0} /\ SegSize \in Nat \ {0} /\ IfqLen \in Nat \ {0}
ASSUME \A l \in Range(TdmaTable) : Range(l[2]) \subseteq 0..MaxSlot-1

FIRST_ROUND     == -1
TDL_APP_HDR_LEN == 5
TDL_UDP_HDR_LEN == 13
ETHER_HDR_LEN   == 9
NoPkt           == [kind |-> "none"]

Nbrs(n) == {m \in Node : <<n, m>> \in Link \/ <<m, n>> \in Link}

VARIABLES
  nd,        \* per node: MAC, interface queue, agent and application state
  pending,   \* <<receiver, frame>>: frames on the air not yet arrived
  fired,     \* nodes whose slotHandler has run at this slot boundary
  got,       \* history: segments each agent has been handed (agent recv)
  inbox      \* history: <<appID, seq>> of messages each app received

vars == <<nd, pending, fired, got, inbox>>

(***************************************************************************)
(* MacFixTdma::re_schedule: each line "k i i ..." of tdma_table gives slot *)
(* i to k when the slot is still free (<= 0) or k is this node.            *)
(***************************************************************************)
re_schedule(n) ==
  LET Claim(tab, line) ==
        FoldLeft(LAMBDA t, i : IF t[i] <= 0 \/ line[1] = n
                               THEN [t EXCEPT ![i] = line[1]] ELSE t,
                 tab, line[2])
  IN FoldLeft(Claim, [i \in 0..MaxSlot-1 |-> -1], TdmaTable)

\* Mutant: the loop runs once more (while (n-- >= 0)).
sendmsgExtra(nbytes, hdr) ==
  LET n      == nbytes \div SegSize + (IF nbytes % SegSize # 0 THEN 1 ELSE 0)
      remain == nbytes % SegSize
      Data(j) == IF j = n /\ remain > 0 THEN remain ELSE SegSize
  IN [j \in 1..n+1 |->
        [kind |-> "data", app |-> hdr.appID, seq |-> hdr.seq, part |-> j,
         messagesize |-> hdr.messagesize, datasize |-> Data(j),
         size |-> Data(j) + TDL_UDP_HDR_LEN + IpHdrLen, err |-> FALSE]]

(***************************************************************************)
(* TdlDataUdpAgent::sendmsg: nbytes in ceil(nbytes / size_) datagrams, the *)
(* last carrying the remainder; each is size + 13 bytes and carries a copy *)
(* of the application header.  The routing layer adds the IP header.       *)
(***************************************************************************)
sendmsg(nbytes, hdr) ==
  LET n      == nbytes \div SegSize + (IF nbytes % SegSize # 0 THEN 1 ELSE 0)
      remain == nbytes % SegSize
      Data(j) == IF j = n /\ remain > 0 THEN remain ELSE SegSize
  IN [j \in 1..n |->
        [kind |-> "data", app |-> hdr.appID, seq |-> hdr.seq, part |-> j,
         messagesize |-> hdr.messagesize, datasize |-> Data(j),
         size |-> Data(j) + TDL_UDP_HDR_LEN + IpHdrLen, err |-> FALSE]]

\* TdlDataUdpAgent::sendcontrol(1, ...): a message-update control packet.
sendcontrol == [kind |-> "ctl"]

\* MacFixTdma::sendDown: the MAC header is added and the packet buffered.
sendDown(st, p) == [st EXCEPT !.pktTx = [p EXCEPT !.size = @ + ETHER_HDR_LEN]]

(***************************************************************************)
(* MacFixTdma::recv of a packet coming down from the queue: the radio      *)
(* becomes active; a data packet is buffered for the node's next slot and  *)
(* the queue stays locked (callback_ = h); anything else is freed and the  *)
(* queue resumed at once.  Queue::resume hands down the next packet or,    *)
(* when empty, unblocks the queue.                                         *)
(***************************************************************************)
RECURSIVE MacRecvDown(_, _), Resume(_)
MacRecvDown(st, p) ==
  LET s0 == [st EXCEPT !.radio = TRUE,
                       !.overwrite = @ \/ (p.kind = "data" /\ st.pktTx # NoPkt)]
  IN IF p.kind = "data"
     THEN [sendDown(s0, p) EXCEPT !.callback = TRUE]
     ELSE Resume(s0)

Resume(st) ==
  IF st.q = <<>> THEN [st EXCEPT !.blocked = FALSE]
  ELSE MacRecvDown([st EXCEPT !.q = Tail(@)], Head(st.q))

\* Mutant: the drop test lets the queue reach qlim_.
QueueRecvFull(st, p) ==
  IF ~st.blocked THEN MacRecvDown([st EXCEPT !.blocked = TRUE], p)
  ELSE IF Len(st.q) < IfqLen THEN [st EXCEPT !.q = Append(@, p)]
  ELSE st

\* Queue::recv of a drop-tail queue: straight to the MAC when unblocked,
\* otherwise queued unless it would reach qlim_.
QueueRecv(st, p) ==
  IF ~st.blocked THEN MacRecvDown([st EXCEPT !.blocked = TRUE], p)
  ELSE IF Len(st.q) + 1 < IfqLen THEN [st EXCEPT !.q = Append(@, p)]
  ELSE st

\* TdlDataApp::send_tdldata_msg: header with seq_++ and appIdx_, handed to
\* the agent's sendmsg, whose datagrams enter the queue one by one.
send_tdldata_msg(n, st) ==
  LET hdr == [appID |-> AppId[n], seq |-> st.seq,
              messagesize |-> st.pktsize + TDL_APP_HDR_LEN]
  IN FoldLeft(QueueRecv, [st EXCEPT !.seq = @ + 1],
              sendmsg(st.pktsize + TDL_APP_HDR_LEN, hdr))

\* The schedule every node computes in its constructor.
tdma_schedule == [n \in Node |-> re_schedule(n)]

\* MacFixTdma::is_idle: neither receiving nor transmitting.
is_idle(st) == st.rx = "idle" /\ st.tx = "idle"

\* Mutant: the queue is unlocked when the transmission starts, not when it
\* ends.
sendUnlockEarly(n, st) ==
  IF st.pktTx = NoPkt \/ ~is_idle(st)
  THEN /\ nd' = [nd EXCEPT ![n] = st]
       /\ UNCHANGED pending
  ELSE /\ LET s1 == [st EXCEPT !.tx = "send", !.pktTx = NoPkt] IN
          nd' = [nd EXCEPT ![n] = IF s1.callback
                                  THEN Resume([s1 EXCEPT !.callback = FALSE])
                                  ELSE s1]
       /\ pending' = pending \cup {<<m, st.pktTx>> : m \in Nbrs(n)}

(***************************************************************************)
(* MacFixTdma::send in node n's own slot: nothing without a buffered       *)
(* packet or when not idle; otherwise the packet goes on the air to every  *)
(* node in range and the transmit timer runs.                              *)
(***************************************************************************)
send(n, st) ==
  IF st.pktTx = NoPkt \/ ~is_idle(st)
  THEN /\ nd' = [nd EXCEPT ![n] = st]
       /\ UNCHANGED pending
  ELSE /\ nd' = [nd EXCEPT ![n] = [st EXCEPT !.tx = "send", !.pktTx = NoPkt]]
       /\ pending' = pending \cup {<<m, st.pktTx>> : m \in Nbrs(n)}

\* Header and counter of a message the application was handed.
Msg(p) == [app |-> p.app, seq |-> p.seq, messagesize |-> p.messagesize]

\* Mutant: a new record keeps the old tbytes.
ReassembleKeepTotal(r, p) ==
  IF p.seq = r.seq THEN [r EXCEPT !.rbytes = @ + p.datasize]
  ELSE [r EXCEPT !.seq = p.seq, !.rbytes = p.size - TDL_UDP_HDR_LEN - 20]

(***************************************************************************)
(* TdlDataUdpAgent::recv, reassembly record asm_info[appID]: a datagram of *)
(* the message being assembled adds its datasize; any other starts a new   *)
(* record with the bytes the datagram delivers (its size less the UDP and  *)
(* the 20-byte IP header).                                                  *)
(***************************************************************************)
Reassemble(r, p) ==
  IF p.seq = r.seq THEN [r EXCEPT !.rbytes = @ + p.datasize]
  ELSE [seq |-> p.seq, tbytes |-> p.messagesize,
        rbytes |-> p.size - TDL_UDP_HDR_LEN - 20]

\* Mutant: completion needs more bytes than the message has.
CompleteStrict(r) == r.tbytes < r.rbytes

\* The message is complete when tbytes <= rbytes: recv_msg is called.
Complete(r) == r.tbytes <= r.rbytes

Init ==
  /\ nd = [n \in Node |->
            [radio |-> FALSE, pktTx |-> NoPkt, callback |-> FALSE,
             tx |-> "idle", rx |-> "idle", pktRx |-> NoPkt,
             q |-> <<>>, blocked |-> FALSE, overwrite |-> FALSE,
             cnt |-> FIRST_ROUND, running |-> FALSE, seq |-> 0,
             pktsize |-> Min(PktSizes),
             asm |-> [a \in Range(AppId) |-> [seq |-> -1, rbytes |-> 0, tbytes |-> 0]]]]
  /\ pending = {}
  /\ fired = {}
  /\ got = [n \in Node |-> {}]
  /\ inbox = [n \in Node |-> <<>>]

\* TdlDataApp::start (Tcl "start"): running, and the first message at once.
start(n) ==
  /\ ~nd[n].running /\ nd[n].seq < MaxMsgs[n]
  /\ nd' = [nd EXCEPT ![n] = send_tdldata_msg(n, [@ EXCEPT !.running = TRUE])]
  /\ UNCHANGED <<pending, fired, got, inbox>>

\* SendTimer::expire while running: the next message.
SendTimer(n) ==
  /\ nd[n].running /\ nd[n].seq < MaxMsgs[n]
  /\ nd' = [nd EXCEPT ![n] = send_tdldata_msg(n, @)]
  /\ UNCHANGED <<pending, fired, got, inbox>>

(***************************************************************************)
(* TdlDataApp::command "change-message": the new size, then                *)
(* send_msgupdate_msg: stop, a control packet through the agent's          *)
(* sendcontrol, and start, which sends a message at once.                  *)
(***************************************************************************)
ChangeMessage(n, sz) ==
  /\ nd[n].seq < MaxMsgs[n]
  /\ LET s1 == QueueRecv([nd[n] EXCEPT !.pktsize = sz, !.running = FALSE],
                         sendcontrol)
     IN nd' = [nd EXCEPT ![n] = send_tdldata_msg(n, [s1 EXCEPT !.running = TRUE])]
  /\ UNCHANGED <<pending, fired, got, inbox>>

(***************************************************************************)
(* MacFixTdma::slotHandler at a slot boundary, in node order (the          *)
(* scheduler runs same-time events in the order they were scheduled, and  *)
(* the slot timers were first started in constructor order): slot_count_  *)
(* wraps at max_slot_num_ (and leaves FIRST_ROUND); in its own slot an     *)
(* active node sends; slot_count_ then advances.                           *)
(***************************************************************************)
slotHandler(n) ==
  /\ n \notin fired /\ {m \in Node : m < n} \subseteq fired
  /\ fired' = fired \cup {n}
  /\ LET st == nd[n]
         c  == IF st.cnt \in {MaxSlot, FIRST_ROUND} THEN 0 ELSE st.cnt
         s1 == [st EXCEPT !.cnt = c + 1]
     IN IF tdma_schedule[n][c] = n /\ st.radio
        THEN send(n, s1)
        ELSE /\ nd' = [nd EXCEPT ![n] = s1]
             /\ UNCHANGED pending
  /\ UNCHANGED <<got, inbox>>

(***************************************************************************)
(* A frame reaches node m: MacFixTdma::recv (direction UP) discards it     *)
(* while the radio is inactive; sendUp marks it errored when m transmits   *)
(* and starts receiving it when idle, and loses it otherwise.              *)
(***************************************************************************)
sendUp(m, f) ==
  /\ fired = Node /\ <<m, f>> \in pending
  /\ pending' = pending \ {<<m, f>>}
  /\ LET st == nd[m]
         f1 == IF st.tx = "send" THEN [f EXCEPT !.err = TRUE] ELSE f
     IN nd' = IF st.radio /\ st.rx = "idle"
              THEN [nd EXCEPT ![m] = [st EXCEPT !.rx = "recv", !.pktRx = f1]]
              ELSE nd
  /\ UNCHANGED <<fired, got, inbox>>

\* Mutant: sendHandler forgets the callback.
sendHandlerNoUnlock(n) ==
  /\ fired = Node /\ pending = {} /\ nd[n].tx = "send"
  /\ nd' = [nd EXCEPT ![n].tx = "idle"]
  /\ UNCHANGED <<pending, fired, got, inbox>>

(***************************************************************************)
(* MacFixTdma::sendHandler at the end of the transmission: idle again, and *)
(* the callback unlocks the queue.                                         *)
(***************************************************************************)
sendHandler(n) ==
  /\ fired = Node /\ pending = {} /\ nd[n].tx = "send"
  /\ LET s1 == [nd[n] EXCEPT !.tx = "idle"]
     IN nd' = [nd EXCEPT ![n] = IF s1.callback
                                THEN Resume([s1 EXCEPT !.callback = FALSE])
                                ELSE s1]
  /\ UNCHANGED <<pending, fired, got, inbox>>

(***************************************************************************)
(* MacFixTdma::recvHandler at the end of a reception: idle again; the      *)
(* frame (broadcast) goes up through recvDATA, which strips the MAC        *)
(* header, to the agent's recv and its reassembly.                         *)
(***************************************************************************)
recvHandler(n) ==
  /\ fired = Node /\ pending = {} /\ nd[n].rx = "recv"
  /\ \A m \in Node : nd[m].tx = "idle"
  /\ LET st == nd[n]
         p  == [st.pktRx EXCEPT !.size = @ - ETHER_HDR_LEN]
         r  == Reassemble(st.asm[p.app], p)
     IN /\ nd' = [nd EXCEPT ![n] = [st EXCEPT !.rx = "idle", !.pktRx = NoPkt,
                                               !.asm[p.app] = r]]
        /\ got' = [got EXCEPT ![n] = @ \cup
                     {Msg(p) @@ [part |-> p.part, datasize |-> p.datasize]}]
        /\ inbox' = IF Complete(r) THEN [inbox EXCEPT ![n] = Append(@, Msg(p))]
                    ELSE inbox
  /\ UNCHANGED <<pending, fired>>

\* The next slot boundary: every transmission and reception has ended.
NextSlot ==
  /\ fired = Node /\ pending = {}
  /\ \A n \in Node : is_idle(nd[n])
  /\ fired' = {}
  /\ UNCHANGED <<nd, pending, got, inbox>>

Next ==
  \/ \E n \in Node :
       \/ start(n) \/ SendTimer(n) \/ slotHandler(n)
       \/ sendHandler(n) \/ recvHandler(n)
       \/ \E sz \in PktSizes : ChangeMessage(n, sz)
  \/ \E e \in pending : sendUp(e[1], e[2])
  \/ NextSlot

Fairness ==
  /\ \A n \in Node : WF_vars(slotHandler(n)) /\ WF_vars(sendHandler(n))
                     /\ WF_vars(recvHandler(n))
  /\ WF_vars(\E e \in pending : sendUp(e[1], e[2]))
  /\ WF_vars(NextSlot)

Spec == Init /\ [][Next]_vars /\ Fairness

-----------------------------------------------------------------------------
(* Properties                                                               *)

TypeOK ==
  /\ \A n \in Node :
       LET st == nd[n] IN
       /\ {st.radio, st.callback, st.blocked, st.overwrite, st.running} \subseteq BOOLEAN
       /\ st.tx \in {"idle", "send"} /\ st.rx \in {"idle", "recv"}
       /\ st.cnt \in FIRST_ROUND..MaxSlot /\ st.seq \in 0..MaxMsgs[n]
       /\ st.pktsize \in PktSizes
       /\ Len(st.q) < IfqLen /\ \A i \in 1..Len(st.q) : st.q[i].kind \in {"data", "ctl"}
       /\ st.pktTx.kind \in {"none", "data"} /\ st.pktRx.kind \in {"none", "data"}
  /\ fired \subseteq Node
  /\ \A e \in pending : e[1] \in Node /\ e[2].kind = "data"
  /\ \A n \in Node : inbox[n] \in Seq([app : Range(AppId), seq : Nat, messagesize : Nat])

\* Bytes of message d that node n's agent has been handed.
BytesGot(n, d) ==
  MapThenSumSet(LAMBDA g : g.datasize,
                {g \in got[n] : g.app = d.app /\ g.seq = d.seq})

\* Reassembly (TdlDataUdpAgent::recv) hands the application only messages
\* of which every byte reached this node, although datagrams are lost to a
\* receiver whose radio is not yet active, to full queues, and although the
\* datagrams of several senders interleave in the slots.
MessageIntegrity ==
  \A n \in Node : \A i \in 1..Len(inbox[n]) :
     BytesGot(n, inbox[n][i]) >= inbox[n][i].messagesize

\* Conversely, a message all of whose datagrams reached a node is handed
\* to its application: the byte count of the first datagram (its size less
\* the headers) and of the others (datasize) add up to messagesize.
CompleteDelivered ==
  \A n \in Node : \A g \in got[n] :
     BytesGot(n, g) >= g.messagesize =>
       \E i \in 1..Len(inbox[n]) : inbox[n][i].app = g.app /\ inbox[n][i].seq = g.seq

\* Each application receives the messages of each sender once and in the
\* order they were sent (recv_msg is called once per message, in seq order).
DeliveredInOrder ==
  \A n \in Node : \A i, j \in 1..Len(inbox[n]) :
     i < j /\ inbox[n][i].app = inbox[n][j].app => inbox[n][i].seq < inbox[n][j].seq

\* The queue hands the MAC a data packet only when the MAC's buffer pktTx_
\* is empty: the lock taken by recv and released by sendHandler's callback
\* (and by the control-packet path) keeps a buffered datagram from being
\* overwritten.
NoMacOverwrite == \A n \in Node : ~nd[n].overwrite

\* A datagram queued at a node, or buffered by its MAC, eventually goes on
\* the air: the node's own slot comes round and sendHandler's callback
\* hands down the next one.
QueueDrains ==
  \A n \in Node :
     (nd[n].q # <<>> \/ nd[n].pktTx # NoPkt) ~> (nd[n].q = <<>> /\ nd[n].pktTx = NoPkt)

====
