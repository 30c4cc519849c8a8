# TLA+ models of ns2-self-organized-tdma

This directory has TLA+ models of two parts of the repository:

- the pdns core, the code under `src/ns-allinone-2.27/ns-2.27/rti/` that runs
  several ns-2 processes (federates) as one conservative parallel
  discrete-event simulation;
- the self-organised dynamic TDMA MAC of `src/tdl/tdl_dynamic_tdma.cc`, and
  its second variant, `src/tdl/tdl_dynamic_tdma_2.cc`;
- the fixed TDMA MAC of `src/tdl/tdl_fixed_tdma.cc` with the TDL data stack
  above it: the application (`tdl_data_msg.cc`), the UDP agent that splits
  and reassembles messages (`tdl_data_udp.cc`) and the ns-2 interface queue.

Each module is translated from the C++ source. `PROJECT.json` maps every
modelled definition to the lines it stands for.

## 1. The system

| Part | Source | State | Operations |
|---|---|---|---|
| Time-Sync Coordinator | `rti/rtisched.cc` (`RTIScheduler::init`, `run`, `TimeAdvanceGrant`, `ReflectAttributeValues`) | `clock_`, `GrantedTime`, `Granted`, `halted_`, the event list | three join barriers, main loop (peek, `RTI_NextEventRequest`, busy wait on `Core_tick`, re-peek, dispatch), drain loop, exit barrier |
| Local scheduler | `src/scheduler-map.h` (`MapScheduler`) | map keyed on (time, uid) | `earliest`, `deque`, `insert` |
| Link Forwarder | `rti/rtilink.cc` (`RTILink::recv`, `CreateGroup`, `PublishGroup`, `JoinGroup`) | the send buffer | timestamp `clock + txtime + delay_`, publish with the node id as origin tag, schedule the link-free event |
| Message Buffer Pool | `rti/rtilink.cc` (`WhereMessage`, `FreeMessage`), `rti/rtisched.cc` (the same two for OOB) | two free vectors, size headers | acquire (pop, grow with realloc, or malloc), release (push) |
| Event Router | `rti/rtirouter.cc` (`recv`, `rrecv`, `Lookup`, `GetIPRoute`, `FindCache`/`AddCache`, `GetPTRoute`) | route table, default remote route, node cache, pass-through multimap | route a packet to a local agent, a remote link or a default route |
| Zero-Run Compressor | `rti/rticompress.cc` | none (pure) | `Compress`, `Uncompress` |
| Dynamic TDMA MAC, variant 2 | `src/tdl/tdl_dynamic_tdma_2.cc` (`MacDynamicTdma`) | the same fields without the NC and net tables; `vslots[]` derived from `assigned_Net_`; `ctrlPkt_`, `is_cack_waiting`, `waiting_cack_count`, `node_last_seed_` | slot timer and `slotHandler`, `recv` of data, message-update and net-update packets, `sendUp`/`recvHandler`, `accessControlSlots`, the six send functions, `sendHandler`, `backoffHandler`, `allocateDataSlots` |
| RTI substrate | RTIKIT/libSynk, **not in the repository** | LBTS, pending messages | NER grants, timestamp-ordered reflects, barriers |
| Fixed TDMA MAC and TDL data stack | `src/tdl/tdl_fixed_tdma.cc` (`MacFixTdma`), `tdl_data_msg.cc` (the TDL data application), `tdl_data_udp.cc` (`TdlDataUdpAgent`) | `tdma_schedule_`, `slot_count_`, `radio_active_`, `pktTx_`, `pktRx_`, `tx_state_`, `rx_state_`, the IFQ and its `blocked_` flag, the app's `seq_`, `pktsize_` and `running_`, the agent's reassembly record per sender | `re_schedule` at start-up, `slotHandler`, `recv` down (`sendDown`), `send`, `sendUp`, `sendHandler`, `recvHandler`; the app's `start`, send timer and `change-message`; the agent's `sendmsg`, `sendcontrol` and `recv` |
| Dynamic TDMA MAC | `src/tdl/tdl_dynamic_tdma.cc` (`MacDynamicTdma`) | `tdma_schedule_`, neighbour table, net tables, `is_in_net`, `is_net_entry`, `is_ack_waiting`, `pktTx_`, `nePkt_`, backoff flags | slot timer and `slotHandler`, `recv` (up and down), net-control / control / poll / net-entry / ACK / data frames, `allocateDataSlots`, `backoffHandler`, `sendHandler` |

How they interact (pdns). Every federate runs `RTIScheduler::run`. A packet that
leaves a federate goes through `RTILink::recv`, which publishes it on the
link's RTI group. The RTI asks the receiver's `WhereMessage` for a buffer.
Later, while the receiver spins in `Core_tick` waiting for a grant, the RTI
calls `ReflectAttributeValues`. That moves the clock to the message time and
hands the packet to `RTIRouter::rrecv`, which may schedule events earlier than
the event that the main loop peeked before it waited. Grants come through
`TimeAdvanceGrant`. Out-of-band (OOB) messages use a second RTI group, whose
buffers come from `RTIScheduler::WhereMessage`.

Hard behaviours, all reachable only across processes or by long call
sequences:

- the interleaving of federates, requests, grants and reflects;
- packets arriving with different link delays;
- reflected packets that create earlier events while a federate waits;
- the join barriers;
- the end-of-time drain and its termination;
- buffers recycled between message classes of different size and layout.

The TDMA MAC is independent of pdns. Every node runs a slot timer that fires
every 50 ms at the same instants. Each 20th slot of the frame is a control
slot: the lower ones carry net-control (NC) frames on the control channel,
the upper ones control, poll, net-entry and ACK frames on the net's channel.
Who may send in a control slot is decided by an election every node computes
locally: it ranks itself, its 1- and 2-hop neighbours and the net's three
virtual slots by `hashSeed(slot, seed)`. Data slots are assigned by
`allocateDataSlots`, which every node runs on its own neighbour table. Two
nodes with different tables can therefore own the same slot.

The fixed TDMA MAC takes its slots from a Tcl-given table (`tdma_table`),
which `re_schedule` turns into `tdma_schedule_`. Above it, the TDL data
application sends a message on every timer tick; the UDP agent cuts it into
datagrams of at most `packetSize_` bytes, which go through the interface
queue to the MAC. The MAC takes one packet, locks the queue, and sends the
packet in its own slot; `sendHandler` unlocks the queue afterwards. The
receiving agent adds up the bytes of a message's datagrams and passes the
message to its application when they reach the message size.

## 2. Modules

| Module | Models | State ↔ code |
|---|---|---|
| `RTISched` | Time-Sync Coordinator, send path of the Link Forwarder, the RTI's grant rule (from the spec) | `pc` = position in `run()`; `queue` = MapScheduler list; `clock`, `GrantedTime`, `Granted`, `halted` = the variables of the same names; `subscribed` = `RTILink::JoinGroup` done; `msgs`, `req`, `nerTime`, `rtiGrant` = RTI state |
| `MC_RTISched` | two federates with link delays 2 and 1; one halts at 3, one runs dry | — |
| `RTIRouter` | Event Router of one federate, with the process-wide pass-through map and `rmap_` of `rtisched.cc` | `rTable`, `defaultRemote` = `rTable_`, `pDefaultRemoteRoute`; `ptRoutes` = the `ptRoutes` multimap as a sequence in key order, equal keys in insertion order; `rmap` = `rmap_`; `nodeCache` = `nodeCache` with `(-1,-1)` for absent keys; `oobSent` = the SetDestPort messages `SendOOB` sent; `running` = configuration over; `exited` = `exit(0)` after "no route" |
| `MC_RTIRouter` | 8-bit addresses (two bits per octet); local ips 5 and 9, remote targets 65, 70, 130; the route sets of each run | — |
| `RTICompress` | Zero-Run Compressor: one `Compress` call followed by `Uncompress` of its result into a zeroed packet | `src` = `pSource`; `off`, `skipping`, `targ`, `cw`, `lth`, `i` = `offset`, `skipping`, `targoffset`, `pCW`, `lth` and the for-loop counter of the running call; `tgt` = the compressed buffer; `cnt` = the return value of `Compress`, passed as `Count`; `out` = the packet bits `Uncompress` fills; `pc` = which call runs |
| `RTIBuffers` | Message Buffer Pool of one federate, both classes, and the buffer side of `ReflectAttributeValues` | `cap`/`hdrv` = the block size and its header long; `ctx` = the router pointer after the message; `linkFree` = `RTILink::FreeVec`; `inflight` = buffers placed and not yet reflected |

| `TDMAAlloc` | `allocateDataSlots` with `assignSlots` and `bubbleSort`, one call as a sequence of steps | `phase` = position in the outer / inner while loop; `members`, `rate`, `adj`, `sched`, `idx`, `nrAlloc`, `adjust1` = the locals and arrays of the same names; `ai`, `ab`, `aa` = `i`, `current_block`, `slotsAssigned` of `assignSlots` |
| `MC_TDMAAlloc` | node 0x41, the 400-slot frame, neighbour tables of 0 to 7 members (and the 3-hop and 12-member tables of the reproductions) | — |
| `TDMANet` | the whole MAC of `tdl_dynamic_tdma.cc` for a set of nodes sharing one slot clock; it calls `TDMAAlloc`'s step relation as one operator (`Alloc`) | `node[n]` = the `MacDynamicTdma` object (`inNet` = `is_in_net`, `entry` = `is_net_entry`, `ackWait`/`waitCnt` = `is_ack_waiting`/`waiting_slot_count`, `tab` = `table_nb_*`, `one`/`two` = the per-frame hop records, `found`/`netVs`/`netNb` = the net tables, `pktTx`, `nePkt`, `backOff`, `recBackOff`, `bo` = the backoff timer, `ear` = radio on and tuned channel, `blocked` = IFQ locked); `cs` = `slot_count_`; `air`, `pending` = frames on the air and receptions to handle |
| `MC_TDMANet` | nodes 0x41 and 0x42, linked, net 1, a 120-slot frame, seeds and the `hashSeed` table | — |
| `TDMANet2` | the whole MAC of `tdl_dynamic_tdma_2.cc` for a set of nodes sharing one slot clock; `allocateDataSlots`/`assignSlots` are pure operators (`Alloc`, `AssignSlots`, `Walk`) | `node[n]` as in `TDMANet`, plus `ctrlReq` = `is_control_msg_required`, `cackWait`/`cackCnt` = `is_cack_waiting`/`waiting_cack_count`, `ctrlPkt`, `seed`/`lastSeed`/`seedSent` = `node_seed_`/`node_last_seed_`/`is_seed_sent`, `wSlot`/`wCnt` = `waiting_ct_slot`/`waiting_ct_slot_cnt`, `radio` = `radio_active_`, `asrt` = a failed timer assertion; `cs` = `slot_count_` (-1 = `FIRST_ROUND`); `frame`; `air` = frames of the current instant; `rcv` = nodes still to receive them |
| `FixedTDMA` | the fixed TDMA MAC of every node with its interface queue, its UDP agent and its application, on one shared channel | `nd[n]` = one node: `radio`, `pktTx`, `pktRx`, `tx`, `rx`, `callback`, `cnt` = the `MacFixTdma` fields `radio_active_`, `pktTx_`, `pktRx_`, `tx_state_`, `rx_state_`, `callback_`, `slot_count_`; `q`, `blocked` = the IFQ and its lock; `running`, `seq`, `pktsize` = the app; `asm[a]` = the agent's reassembly record (`seqno`, `rbytes`, `tbytes`) for sender app a; `overwrite` = `pktTx_` replaced while still waiting; `pending` = frames on the air; `fired` = nodes whose slot handler ran in this slot; `got`, `inbox` = datagrams received and messages passed to the application (histories) |
| `MC_FixedTDMA` | nodes 65, 66, 67 in mutual range, one slot each in a three-slot frame, messages of 4 or 5 bytes, 5-byte datagrams, a queue of `qlim` 3 | — |
| `MC_TDMANet2` | nodes 0x41 and 0x42, linked, net 1, the 200-slot frame, constructor seeds 103 and 198, the `hashSeed` table of its control slots | — |

Actions of `RTISched`, one per step of `run()` or per callback:

- `RTIInit`, `CreateGroups`, `PublishGroups`, `JoinGroups` and `EnterMainLoop`
  are the barrier phases.
- `RunLoopTop` is the peek and the request.
- `RunAfterGrant` and `ProcessEarliest` are the re-peek, the LARGE_TIME break
  and the dispatch.
- `ExitMainLoop`, `DrainAfterGrant` and `ExitBarrier` are the end of the run.
- `ReflectAttributeValues` and `TimeAdvanceGrant` are the two callbacks.
- An event handler is abstracted to `HandleEvent`: it does nothing, schedules
  a local event, or sends a packet through `RTILinkRecv`.

The RTI is not in the repository. Its grant rule is written from the spec's
NextEventRequest semantics and marked `spec_modelled` in the map:
`PendingTo`, `MinPending`, `LowerBound` and `LBTS`.

Actions of `RTIBuffers`:

- `LinkWhereMessage`: all four outcomes of a pop (header large enough, grow,
  a headerless buffer whose garbage header says "big enough", and one that
  says "too small"), plus malloc.
- `SchedWhereMessage`: always malloc. `RTIScheduler::FreeMessage` has no
  caller, so its free vector stays empty.
- `ReflectAttributeValues`: drop a self message or read the router context,
  then release the buffer to `RTILink::FreeVec` in both cases.

Actions of `RTIRouter`:

- `AddRoute`, `SetDefaultRemoteRoute`, `AddPTRoute` (including the "via is
  not a local ip, ignoring" branch) and `AddIPRoute` are the configuration
  commands. Their arguments come as text, as the Tcl `command()` handlers
  get them: `AddRouteCommand`, `AddRoutePassthroughCommand` and
  `AddIPRouteCommand` parse each argument written dotted, hex or decimal.
  `ParseAddr` is `inet_aton` or `strtol(.., 0)`. `Atol` is the `atol` that
  add-route applies to its masks, which reads only a decimal mask whole.
  `StartRun` ends configuration, as `$ns run` does.
- `RoutePacket(p)` hands one packet to `recv` or `rrecv`. Both are pure
  operators (`Recv`, `RRecv`) that return the outcome, the node cache after
  the call and the OOB message sent. That lets properties ask what any
  packet would get in the current state.
- `Exited` is the process after `exit(0)`: nothing happens any more.

`RRecv` keeps every branch of the code, in its order: drop own packet;
port-0 rewrite through `FindDest` with a SetDestPort OOB message; cache hit;
pass-through via `GetPTRoute` or the default agent, or drop; local bound
agent; droptarget (not cached). On a miss the packet is addressed from the
value `AddCache` returns, as at rtirouter.cc:418. One quirk of the parser is
in the run: add-route-passthrough reads a non-dotted rlink ip from argv[4],
the source address (rtirouter.cc:157), so `MC_RTIRouter` gives one route its
via in hex, and that route is ignored as "via not local". Addresses are scaled from
32 to 8 bits, so the masks /24, /16 and /8 are 252, 240 and 192.

Actions of `TDMANet`:

- `Tick`: the slot timers fire. It waits until every handler, reception and
  backoff timer of the slot has run.
- `SlotStart(n)`: the whole `slotHandler` of node n. It runs, in the code's
  order: the frame start (`findLeavingNodes`, `allocateDataSlots`, clearing
  the hop records); the ACK wait timer; `getNet` for a node outside its net;
  the dispatch on `tdma_schedule_[slot]`. The dispatch covers NC slot
  (`AccessNC`), control slot (`AccessCT`: net entry, ACK, control message or
  poll), own data slot (`SendData`), someone else's slot (listen) and idle
  slot (radio off). Handlers of different nodes touch only their own node,
  so they run in node order.
- `Deliver(r, f)`: `recv` of a frame, direction UP (`Receive`). A frame is
  heard only when the radio is on and tuned to its channel. A data frame
  turns the radio off afterwards, as `recvHandler` does.
- `Lose(r, f)`: a reception lost (only when `Lossy`).
- `BackoffFire(n)`: `backoffHandler`, the earliest pending backoff first.
- `AppDown(n, t)`: `recv` direction DOWN and `sendDown`: the packet from the
  interface queue is buffered in `pktTx_` and the queue is locked.

The send functions are operators named after the code's: `SendNetControl`,
`SendNetEntry`, `SendNetEntryACK`, `SendControl` and `SendPolling` build the
frame and change the state as the code does. `SwitchToControlChannel`,
`SwitchToNetChannel` and `RecvHandler` tune or switch off the radio. The hop
records go through `RecordOneHop`, `RecordTwoHop`, `CheckOneHop` and
`CheckTwoHop`, and `HashBefore` is the order `bubbleSort2` sorts by.
`TDMANet2` uses the same names.

Every transmission goes through `Tx`, which is `sendHandler`: radio off and
the interface queue unlocked. `hashSeed` works on 64-bit longs, which TLC
cannot represent, so `Hash` is a table of its values. `MC_TDMANet` gives the
values the C function computes for the control slots and seeds in play. The
seeds were chosen so that every branch of the elections happens.

`members[]` cells that `allocateDataSlots` counts but never writes are read
as `GarbageId`/`GarbageType`. The arrays are fresh `new[]` storage each call.
`tdma_alloc_left` shows the zero outcome. `tdma_net` takes type 3, another
value the heap can hold, so that the protocol run is not cut short by the
underflow already shown.

Actions of `FixedTDMA`:

- `start(n)`, `SendTimer(n)`: the application starts and, on each timer
  tick, calls `send_tdldata_msg`, which numbers the message and hands it to
  the agent's `sendmsg`. `sendmsg` cuts it into `ceil(size / packetSize_)`
  datagrams, and every datagram goes to the interface queue (`QueueRecv`).
- `ChangeMessage(n, sz)`: `change-message` stops the application, sends a
  control packet through the queue, sets the new size and restarts it with
  a message sent at once, as `command()` does.
- `slotHandler(n)`: the slot timer. Slot handlers of one instant run in
  node order, as ns-2 runs events of equal time in the order they were
  scheduled. The handler counts the slot (wrapping at `max_slot_num_`) and,
  in its own slot with the radio on, sends `pktTx_` (`send`).
- `sendUp(m, f)`: the channel delivers a frame to a neighbour. It is
  received in error when the receiver transmits, and ignored when its radio
  is off or it is already receiving.
- `sendHandler(n)`: the end of a transmission. When `callback_` is set the
  queue is resumed (`Resume`), which hands the next packet down.
- `recvHandler(n)`: the end of a reception. The agent strips the headers,
  updates its reassembly record (`Reassemble`) and, when the bytes reach the
  message size (`Complete`), passes the message up.
- `NextSlot`: time moves to the next slot once everything of this one ran.

`MacRecvDown` is `recv` direction DOWN: a data packet is buffered in
`pktTx_` through `sendDown`, which adds the MAC header, and the queue stays
locked; a control packet is dropped and the queue resumed. `Resume` and
`MacRecvDown` call each other (`RECURSIVE`), as `Queue::resume` hands
packets down until one locks the queue. The ns-2 `Queue`/`DropTail` is not
in the repository: `QueueRecv` and `Resume` are written from the ns-2
behaviour (drop-tail at `qlim`) and marked `spec_modelled`.

Actions of `RTICompress`, one per branch of a loop iteration:

- `CSkip`, `CStartRun`, `CEndRun`, `CCopy`: the body of `Compress`'s while
  loop. `CStartRun` is the skipping branch that finds a non-zero word
  together with the copy the third `if` then does in the same iteration.
  `CEndRun` is two zeros in a row, and `CCopy` every other word of a run,
  a single zero and a trailing zero included.
- `CFinish`: the loop ends, an open run gets its length, and the count is
  returned.
- `UControlWord`, `UCopy`, `UFinish`: `Uncompress` reads a control word
  (`& 0xffff`, `>> 16`), copies the run, and returns.

The fields are scaled from 16 bits to `FieldBits`, and `lth << 16` is
`Lsh`, which drops the bits shifted out of the word. The packet that
`Uncompress` fills comes zeroed from `Packet::alloc`. Its receive count is
the compressed length: the code takes it from `MsgSize`, whose layout (the
RTI's `MSGS_SIZE`) is not in the repository.

Actions of `TDMANet2`:

- `Tick`: the slot timers of all nodes fire and every `slotHandler` runs
  (`SlotHandler`: `FrameStart`, `EntryStart`, then `Dispatch` on
  `tdma_schedule_[slot]`: `ControlSlot` with its ACK and control-ACK wait
  timeouts and `AccessCT`, `SendData`, listen, or idle). The frames sent are
  on the air once all handlers have run.
- `Deliver(r)`: `sendUp` and `recvHandler` at r for the frames of the
  instant: discarded with the radio off; two at once restart the busy
  receive timer, whose assertion fails (`asrt`, after which nothing runs);
  one while r transmits is received in error (`ReceiveInError`); else
  `Receive`, by frame type.
- `BackoffFire(n)`: `backoffHandler`, the earliest backoff first; what it
  sends is received before a later one fires.
- `AppDown(n)`, `MsgUpdate(n, t)`, `NetUpdate(n)`: `recv` of a
  `PT_TDLDATA`, `PT_TDLMSGUPDATE` or `PT_TDLNETUPDATE` packet from the
  interface queue, only while it is unlocked.

Every send function writes the node's 1-hop entries into the header and
demotes those not heard this frame (`Send`); `sendHandler` (`AfterTx`)
turns the radio off except after a poll and unlocks the queue only after a
data frame. Seeds from `assignSeed` and waits from `rand() % 5` are drawn
from the sets `SeedDraws[n]` and `WaitDraws`.

## 3. Runs

| Run | Checks | Shows |
|---|---|---|
| `sched_core` (pass) | `TypeOK`, `NoStragglerMessage`, `LocalCausality`, `NoLostMessage`, `DrainAgreement`, `AllTerminate` | With the computed lookahead the assertions at rtisched.cc:565 and :680 cannot fire. The join barriers lose no packet. The drain ends only when all federates have stopped and nothing is in flight. Every federate gets past the exit barrier. |
| `buffers_link` (pass) | `TypeOK`, `HeapIntegrity`, `NoBufferAliasing` | With link traffic of two sizes, a recycled buffer is grown before a larger message uses it, and no buffer is used twice. |
| `compress_boundary` (violation) | `RoundTrip` | With control-word fields of 2 bits (16 in the code), a 4-word source whose zeros never come two in a row is one run. TLC's trace is `1 1 1 0`: the trailing zero stays in the run because the end-of-buffer check at rticompress.cc:45 never ends a run at the last word (`1 0 1 1` and `1 1 1 1` fail the same way). The length 4 shifted by 2 wraps to 0 in a 4-bit word, so `Uncompress` copies nothing and the packet stays zero. In the code this is a source of 65536 words, which spec §8.1 and the comment at rticompress.cc:10 both allow. |
| `router_routes` (pass) | `TypeOK`, `RouteDeterminism` | Ports {0, 1, 2} and every subset and order of four pass-through routes (68/24, a source-based 64/8, 130 under a non-octet mask, and one ignored as not local). However `recv` and `rrecv` warm the node cache, including port-0 `FindDest` rewrites with their OOB message and droptarget deliveries, a remote packet is routed as with a cold cache. About 16,000 states in about 1.5 minutes. Route cover and longest-prefix choice are not claimed here: with distinct keys per mask the pass run cannot reach their failures, which `router_pt_overrun` and `MC_RTIRouter_prefix.cfg` show. |
| `router_pt_overrun` (violation) | `PTRouteCovers` | The source-match loop of GetPTRoute runs to the end of the map: a source-based route under key 130 is returned for target 70. |
| `tdma_alloc` (pass) | `TypeOK`, `ReservationMatchesRate`, `AllocReturns` | For neighbourhoods of up to eight members that force rate doubling and stepping back, every call of `allocateDataSlots` returns. Each member then holds `slotsReq` slots per period of its final rate, with nothing left over from an abandoned attempt. The index underflow needs a 3-hop entry, which `tdma_alloc_left` shows. |
| `tdma_alloc_left` (violation) | `NoIndexUnderflow` | A 3-hop entry is counted in `memberCnt` but not copied into `members[]`. The unwritten member sorts first with class 0, and the inner loop steps below index 0. |
| `tdma_net` (pass) | `TypeOK`, `NotOwnNeighbour` | Two linked nodes, founder and joiner, with losses, type changes and a saturated queue. No node ever lists itself as a neighbour, whatever tables are relayed. 1.2 million states. |
| `tdma_net_collision` (violation) | `NoCollision` | The joiner changes its message type during net entry. It is ACKed with the old type, and both nodes allocate slot 81 and send in it. |
| `tdma_net_overwrite` (violation) | `NoDataOverwrite` | The founder sends its NC frame while a data packet waits in `pktTx_`. `sendHandler` unlocks the queue and the next packet overwrites the waiting one. |
| `fixed_stack` (pass) | `TypeOK`, `MessageIntegrity`, `CompleteDelivered`, `DeliveredInOrder`, `NoMacOverwrite`, `QueueDrains` | Three senders share the channel; node 65 sends two messages and changes its size, and the others join late. Every message passed to an application carries exactly the bytes its datagrams carried, every message whose datagrams all arrived is passed up, messages are passed up in sending order per sender, `pktTx_` is never replaced while waiting, and every queued packet is eventually handed to the MAC. |
| `tdma2_net` (pass) | `TypeOK`, `NotOwnNeighbour`, `NoDataOverwrite` | Variant 2, two linked nodes: the first to start is the first node of the net, the other waits, enters through a vslot-won control slot and is ACKed. Node 66 changes type (control message, answered by a control ACK); both are polled, leave the net by a net update after their data slot and start net entry again. No node lists itself, and `sendHandler` of variant 2 never lets a buffered data packet be overwritten. Each node draws one seed here, so the seed tie of `MC_TDMANet2_tie.cfg` cannot happen in this run. About 34,000 states. |

Six reproductions and one further check are kept as configurations
outside the run list:

- `RTIBuffers_oob_selfdrop.cfg`: at node 1, an OOB message is dropped as a
  self message and its headerless buffer enters `RTILink::FreeVec`. A
  later link message overruns it, or realloc is given a pointer malloc
  never returned (`HeapIntegrity` violated).
- `RTICompress_below.cfg`: with 3-bit fields, `RoundTrip` holds for every
  array of 0 to 7 words over {0, 1, 2} (about 52,000 states). The
  compressor is correct below the boundary that `compress_boundary` shows.

- `RTIBuffers_oob_context.cfg`: at a node whose id is not 1, an OOB
  message reaches the router through a context pointer nobody wrote
  (`ContextWritten` violated).

- `MC_RTISched_forced.cfg`: a `forced-lookahead-value` larger than a link's
  `delay_ + txtime` lets a receiver advance past a packet that is sent
  later (`NoStragglerMessage` violated).
- `MC_RTIRouter_short.cfg`: a node id of 40000 is truncated by `AddCache`'s
  `short` parameters, and the packet goes to node -25536
  (`DeliveredToIntended` violated).
- `MC_RTIRouter_prefix.cfg`: spec §8.4's own example (/24, /16 and /8 of
  one key); `find()` lands on the route inserted first, so 10.0.0.5 gets
  /8 when /8 was added before /24 (`LongestPrefixMatch` violated).
- `MC_TDMANet2_tie.cfg`: both nodes of variant 2 may draw seed 81 or 115.
  When they draw the same seed, `bubbleSort2` keeps list order among equal
  hashes and each node lists itself first, so both win control slot 20 and
  poll at once (`NoCollision` violated). `updateNeighbor` redraws the seed
  only at a node that hears the equal seed after it has sent; the other
  keeps the stale one. With 256 seed values this happens to a pair of
  nodes about once in 256 frames.

Each property of a passing run has a mutant in `PROJECT.json`: a plausible bug
in the mapped code that TLC must catch. Examples are the timestamp without
`delay_`, a barrier that does not wait, the missing LARGE_TIME break, a drain
that leaves after one grant, a reused buffer that is not grown, and a self
message freed twice.

### Bounds and why they suffice

- **`sched_core`:**
  - 2 federates.
  - Link delays 2 and 1, so lookahead differs between the senders.
  - txtime 1; local delays {1, 2}.
  - Nothing is scheduled after time 4 (`MaxTime`). `LargeTime` is 6, so the
    drain requests `LargeTime + 10`.

  These bounds reach every interesting case:
  - a reflect that lands between the peek and the grant;
  - a local event scheduled earlier than a message in flight;
  - a federate that halts while the other keeps sending;
  - the LARGE_TIME grant to a federate that ran dry;
  - the drain while packets are still in flight.

  About 38,000 distinct states, in about 20 s.
- **`RTIBuffers`:**
  - Link sizes 40 and 120 bytes: `LinkAlloc(40) = 104 < 120 + 16`, so growth
    is needed.
  - OOB size 48 bytes: its 64-byte block is smaller than a 120-byte link
    message.
  - Up to 3 (link run) or 2 messages in flight, and 3 blocks: enough for
    reuse, growth and LIFO reordering.

- **`RTIRouter`:**
  - Ports {0, 1, 2}: the port-0 rewrite, a bound port and an unbound one
    (droptarget). With two ports the cache keyed by address alone would
    never be caught.
  - `router_routes` uses ports {0, 1, 2} and every subset and order of
    four route candidates: 68/24 for target 70, a source-based 64/8, 130
    under a non-octet mask (reached only by the full scan), and one route
    ignored as not local. Port 0 makes
    `FindDest` rewrite the port and send the `SetDestPort` OOB message.
    About 16,000 states in about 1.5 minutes, every reachable set of cache
    entries per configuration.
- **`TDMAAlloc`:** the real 400-slot frame (20 blocks of 20 slots). Seven
  RAP members already force a rate doubling and a step back; eight members
  cover every branch of both loops.
- **`TDMANet`:**
  - 2 linked nodes, one net, a 120-slot frame: NC slots 0, 20, 40 and 60 and
    control slots 80 and 100. That is the smallest frame with both kinds
    and data slots of every period the two message types need.
  - Message types {2, 3}, so a type change alters the allocation.
  - One vslot draw. With it, 0x41 wins NC slot 0, a vslot wins a control
    slot while 0x42 enters, and in the net each node wins one control slot
    and polls the other as third runner-up.
  - `AckWaitSlots` is the code's 199 wait. The loss of any reception is
    allowed.
  - Three nodes (needed for a second poll during a backoff or two joiners
    at once) exceed the time bound.

- **`TDMANet2`:**
  - 2 linked nodes, one net, the code's 200-slot frame (ten control slots);
    ids 0x41 and 0x42, whose pre-assigned slots stay inside the frame.
  - Application types 2 and 3 (periods of 40 slots, 4 and 1 slots per
    period) and an update to type 2, so the node of type 3 sends a control
    message and the other answers with a control ACK.
  - Two frames: the first, in which both enter, and one in the net, in
    which the updates happen. Applications start at slot 1 of the first
    frame; net updates come only at the end of slots 1 and 2, the data
    slots of the two ids; otherwise every slot is open to them and the
    state space grows beyond the time bound.
  - Waits 1 and 2 (so either node may find the other first) and one seed
    draw per node, different between them; equal draws are the
    reproduction above.
  - `Saturated`: a started application always has its next packet queued.
  - Three nodes, needed for two frames at one receiver, a poll that makes
    an in-net node back off and a backoff ACK, exceed the time bound.

- **`FixedTDMA`:**
  - 3 nodes in mutual range, each owning one slot of a three-slot frame, so
    a node can receive from two senders in one frame and a frame can hit a
    node that is transmitting.
  - Messages of 4 or 5 bytes plus the 5-byte application header over
    5-byte datagrams: every message is two datagrams, the second of 4 or
    5 bytes, so reassembly and a lost second half both happen.
  - `qlim` 3: the queue fills and drops when a control packet and two
    messages meet.
  - Node 65 sends two messages and may change its size; the others send
    one. Nodes start at any time, so a node may join after others sent.
  - About 450,000 distinct states, in about 2 minutes.

- **`RTICompress`:** every array of up to `MaxLen` words over `Values`.
  `compress_boundary` takes 2-bit fields, arrays of up to 4 words and
  values {0, 1}. Four is the first length at which a run can fill the
  length field. With 3-bit fields the run exceeds 7 words only at length
  8, so `RTICompress_below.cfg` covers all inputs below that boundary.

### Fairness

A federate never sleeps. It either runs its loop or spins in `Core_tick`,
which polls the substrate. So each federate's steps (`Federate(f)`) and the
RTI's callbacks to it (`RTI(f)`) are weakly fair. `RTIBuffers` and
`RTIRouter` check only safety, so they assume no fairness.

`TDMAAlloc` assumes weak fairness of its steps: one call runs to its end
without waiting for anything. `TDMANet` assumes no fairness and checks no
liveness. Whether a node ever wins an NC or control slot depends on the
seeds, which come from an unseeded `rand()`, so the same for every run. No
fairness can stand in for that. `TDMANet2` is the same.

`FixedTDMA` assumes weak fairness of the timer-driven MAC events only:
the slot timer, the channel's delivery, the end of transmission and of
reception, and the slot clock. ns-2 fires every scheduled timer. The
application's start, timer and `change-message` get no fairness: they come
from Tcl and may never happen. `QueueDrains` needs no more than that.

## 4. Not modelled, and the plan

Modelled now: the coordinator, the send path, the buffer pool, the router,
the compressor, the fixed TDMA stack and both dynamic TDMA MACs (`tdl_dynamic_tdma.cc`, `tdl_dynamic_tdma_2.cc`). `RTIRouter` leaves out the USE_NIX nix-vector block and the IntID
fix-up, which writes `dst_addr_` of a Tcl agent. Routes are configured
before the run, so the never-invalidated cache (spec §9) is not exercised
by a route added mid-run. Planned modules, most important first:

1. **Refinement**: an abstract conservative-synchronisation spec (a federate
   processes an event only when no earlier one can still arrive), with
   `RTISched` shown to implement it via `INSTANCE ... WITH`.

`TDMANet` leaves out the following:

- the net-control frames' vslot bookkeeping across several nets (the
  instance has one net);
- `hashSeed` itself, which is a table of its values;
- the packet header contents that no receiver reads;
- the trace output.

`TDMANet2` leaves out `recordHandler` and the record timer, which only
write statistics, the Tcl trace calls, and `Lossy` losses in the run
(the model has them; with them the two-frame run exceeds the time bound).

`FixedTDMA` leaves out the following:

- `recordHandler` and `account_recv_pkt_info`, which only write
  statistics. The loss count mixes all senders in one record, so with
  several senders it is wrong; this touches no protocol state.
- `change-net` and the Tcl `stop` command.
- Checking of `tdma_table`: the instance gives each node one slot.
  Duplicate entries would give two nodes one slot.
- The IP header length, taken as 20 bytes from the comment at
  tdl_data_udp.cc:200. The routing agent between agent and queue is not in
  the repository.
- The sleep state of the phy, and trace and dump output.

`RTICompress` leaves out the following:

- `RTILink::recv` compresses `(hdrlen_ + 3) / 4` words, so when `hdrlen_`
  is not a multiple of 4 it reads up to 3 bytes past the header.
- The message layout around the compressed words. The sender's size
  counts the type word as an `int`, but the word is a `long`. With an
  8-byte `long`, the last compressed word is therefore not sent, and
  `Uncompress` reads it from just after the message, where a link buffer
  holds the router context pointer. The count the receiver derives is one
  word short too, but `Uncompress` still copies the last run to its end.
  `MSGS_SIZE` belongs to the RTI, which is not in the repository, so this
  layout is not modelled.
- The spec's "final all-zero control word". `Compress` writes a zero
  control word only at index 0 before the loop, and returns a length that
  excludes it. `Uncompress` stops by the count.
- `USE_COMPRESSION` is defined by no build file in the repository, so the
  default build does not compress at all.

Not planned:

- TCP agents (`tcp-listener`, `tcp-advw`, `tcp-sock`): ns-2 transport beside
  pdns.
- Antenna and propagation models: floating-point radio models with no
  control state.
- `liveapp`, `veil`, `delayfilter`: I/O bridges.
- The Tcl `command()` parsers, apart from the route commands: the rest is
  configuration surface or queries (get-local-ip, get-iproute,
  iproute-connect, rti-oob, the RTILink group commands).
- The HAVE_FILTER and USE_BACKPLANE branches, which are not compiled by
  default.
- The OOB command branch of `ReflectAttributeValues`, compiled out by
  `if (0)` at rtisched.cc:480.

The LP64 layout mismatch is not modelled. `RTILink::recv` writes
the type word as a `long`; `ReflectAttributeValues` reads it as an `int`. Byte
layout is below the level of these models.
