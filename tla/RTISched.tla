------------------------------ MODULE RTISched ------------------------------
(***************************************************************************)
(* The Time-Sync Coordinator of pdns: RTIScheduler::init and               *)
(* RTIScheduler::run (rti/rtisched.cc), the two callbacks the RTIKIT       *)
(* substrate invokes from Core_tick (TimeAdvanceGrant and                  *)
(* ReflectAttributeValues), and the send path of RTILink::recv             *)
(* (rti/rtilink.cc) that timestamps a packet with clock + txtime + delay_. *)
(*                                                                         *)
(* One process per federate.  The RTI itself (libSynk/BRTI) is not part of *)
(* this repository: its conservative grant rule is modelled from the spec  *)
(* (NextEventRequest semantics, lookahead-bounded LBTS) and marked so in   *)
(* PROJECT.json.  The handlers of simulation events (agents, queues,       *)
(* routers) are abstracted to a nondeterministic choice: do nothing,       *)
(* schedule a later local event, or send a packet over the RTILink.        *)
(***************************************************************************)
EXTENDS Integers, FiniteSets, Bags, BagsExt, FiniteSetsExt

CONSTANTS
  Fed,          \* the federates (model values)
  LinkDelay,    \* [Fed -> Nat]: delay_ of the federate's RTILink
  TxTimes,      \* possible txtime = size * 8 / bandwidth_ of one packet
  LocalDelays,  \* delays of the local events a handler schedules
  MaxTime,      \* bound: handlers create no event or message later than this
  HaltAt,       \* [Fed -> 0..MaxTime \cup {NoHalt}]: time of `$ns halt`
  NoHalt,       \* model value: the federate never halts, it runs dry
  ForcedLA,     \* forced-lookahead-value, or NoForce
  NoForce,      \* model value: lookahead is computed from the topology
  LargeTime,    \* LARGE_TIME (1000000.0 in the code)
  NoReq         \* model value: no NextEventRequest outstanding

ASSUME LinkDelay \in [Fed -> Nat]
ASSUME TxTimes \subseteq Nat \ {0} /\ LocalDelays \subseteq Nat \ {0}
ASSUME MaxTime \in Nat /\ LargeTime \in Nat /\ LargeTime > MaxTime
ASSUME \A f \in Fed : HaltAt[f] \in (0..MaxTime) \cup {NoHalt}

\* End of time requested by the drain loop: etime = LARGE_TIME + 10.
DrainTime == LargeTime + 10

Time == 0..DrainTime

\* The lookahead passed to RTI_SetLookAhead (rtisched.cc:602-614): the
\* forced value when one is set, otherwise `get-lookahead`, which computes
\* the smallest link delay of the federate's topology (Tcl, not in src/).
LookAhead(f) == IF ForcedLA = NoForce THEN LinkDelay[f] ELSE ForcedLA

Kinds == {"app", "halt"}
Event == [t : Time, k : Kinds]
Msg   == [src : Fed, dst : Fed, t : Time]

VARIABLES
  pc,          \* control point of each federate
  queue,       \* MapScheduler EventList: bag of pending events
  clock,       \* Scheduler::clock_
  GrantedTime, \* rtisched.cc:281, one per federate process
  Granted,     \* rtisched.cc:279
  halted,      \* Scheduler::halted_
  subscribed,  \* the federate has subscribed to the link group
  msgs,        \* RTI: bag of time-stamped messages in flight
  req,         \* RTI: time of the outstanding NextEventRequest, or NoReq
  nerTime,     \* RTI: timestamp delivered in the current request, or NoReq
  rtiGrant,    \* RTI: last time granted to the federate
  lost         \* history: a copy was published to an unsubscribed federate

vars == <<pc, queue, clock, GrantedTime, Granted, halted, subscribed,
          msgs, req, nerTime, rtiGrant, lost>>

PCs == {"start", "b_init", "b_create", "b_publish", "b_join",
        "loop", "wait", "drain", "exit", "done"}

\* Order in which a federate passes the RTIKIT_Barrier calls.
Rank(p) == CASE p = "start"     -> 0
             [] p = "b_init"    -> 1
             [] p = "b_create"  -> 2
             [] p = "b_publish" -> 3
             [] p = "b_join"    -> 4
             [] p \in {"loop", "wait", "drain"} -> 5
             [] p = "exit"      -> 6
             [] p = "done"      -> 7

\* Mutant: RTIKIT_Barrier() returns without waiting for the others.
BarrierSkipped(f) == TRUE

\* RTIKIT_Barrier(): every federate has reached the barrier f waits at.
BarrierReached(f) == \A g \in Fed : Rank(pc[g]) >= Rank(pc[f])

TypeOK ==
  /\ pc \in [Fed -> PCs]
  /\ \A f \in Fed : IsABag(queue[f]) /\ BagToSet(queue[f]) \subseteq Event
  /\ clock \in [Fed -> Time]
  /\ GrantedTime \in [Fed -> Time]
  /\ Granted \in [Fed -> BOOLEAN]
  /\ halted \in [Fed -> BOOLEAN]
  /\ subscribed \in [Fed -> BOOLEAN]
  /\ IsABag(msgs) /\ BagToSet(msgs) \subseteq Msg
  /\ req \in [Fed -> Time \cup {NoReq}]
  /\ nerTime \in [Fed -> Time \cup {NoReq}]
  /\ rtiGrant \in [Fed -> Time]
  /\ lost \in BOOLEAN

-----------------------------------------------------------------------------
(* Scheduler helpers                                                        *)

\* MapScheduler::earliest(): time of the head event, LARGE_TIME if empty.
EarliestTime(f) ==
  IF queue[f] = EmptyBag THEN LargeTime
  ELSE Min({e.t : e \in BagToSet(queue[f])})

\* Mutant: deque() hands out any queued event, not one at the head time.
EarliestAny(f) == BagToSet(queue[f])

\* Events MapScheduler::deque() may return: those at the earliest time
\* (ties are broken by uid in the code; the model lets any of them go).
Earliest(f) == {e \in BagToSet(queue[f]) : e.t = EarliestTime(f)}

-----------------------------------------------------------------------------
(* The RTI (libSynk/BRTI, not in src/): conservative NextEventRequest.      *)

PendingTo(f) == {m \in BagToSet(msgs) : m.dst = f}

MinPending(f) ==
  IF PendingTo(f) = {} THEN DrainTime ELSE Min({m.t : m \in PendingTo(f)})

\* Lower bound on the timestamp of anything federate h may still send:
\* while it waits in a request, the smaller of the requested time and its
\* pending messages; while it executes, the last time it was granted.
\* Either plus the lookahead it announced.
LowerBound(h) ==
  IF req[h] # NoReq
  THEN Min({req[h], MinPending(h)}) + LookAhead(h)
  ELSE rtiGrant[h] + LookAhead(h)

\* Time up to which the RTI may let f advance.
LBTS(f) ==
  IF Fed = {f} THEN DrainTime ELSE Min({LowerBound(h) : h \in Fed \ {f}})

-----------------------------------------------------------------------------
(* What an event handler may do: e->handler_->handle(e) (rtisched.cc:683)   *)
(* and the rrecv of a reflected packet (rtisched.cc:570).  Either nothing   *)
(* more, a later local event, or a packet sent over the RTILink.            *)

\* Mutant: the timestamp leaves out the link's delay_.
RTILinkRecvNoDelay(f, now, tx, q, ms) ==
  LET ts     == now + tx
      copies == {[src |-> f, dst |-> g, t |-> ts] : g \in {h \in Fed : subscribed[h]}}
  IN /\ ts <= MaxTime
     /\ msgs'  = ms (+) SetToBag(copies)
     /\ lost'  = (lost \/ \E g \in Fed : ~subscribed[g])
     /\ queue' = [queue EXCEPT ![f] = BagAdd(q, [t |-> now + tx, k |-> "app"])]

\* RTILink::recv (rtilink.cc:217-304): timestamp clock + txtime + delay_,
\* published to every federate subscribed to the link group (the sender's
\* own subscription included), and the link-free event at clock + txtime.
RTILinkRecv(f, now, tx, q, ms) ==
  LET ts     == now + tx + LinkDelay[f]
      copies == {[src |-> f, dst |-> g, t |-> ts] : g \in {h \in Fed : subscribed[h]}}
  IN /\ ts <= MaxTime
     /\ msgs'  = ms (+) SetToBag(copies)
     /\ lost'  = (lost \/ \E g \in Fed : ~subscribed[g])
     /\ queue' = [queue EXCEPT ![f] = BagAdd(q, [t |-> now + tx, k |-> "app"])]

\* q is f's queue and ms the messages in flight once the event (or the
\* reflected message) being handled has been taken out.
HandleEvent(f, now, q, ms) ==
  \/ /\ queue' = [queue EXCEPT ![f] = q]
     /\ msgs' = ms
     /\ UNCHANGED lost
  \/ \E d \in LocalDelays :
       /\ now + d <= MaxTime
       /\ queue' = [queue EXCEPT ![f] = BagAdd(q, [t |-> now + d, k |-> "app"])]
       /\ msgs' = ms
       /\ UNCHANGED lost
  \/ \E tx \in TxTimes : RTILinkRecv(f, now, tx, q, ms)

-----------------------------------------------------------------------------
(* Initialisation: RTIScheduler::init and the join phase of run().          *)

Init ==
  /\ pc = [f \in Fed |-> "start"]
  /\ queue = [f \in Fed |->
               IF HaltAt[f] = NoHalt
               THEN SetToBag({[t |-> 0, k |-> "app"]})
               ELSE SetToBag({[t |-> 0, k |-> "app"]}) (+)
                    SetToBag({[t |-> HaltAt[f], k |-> "halt"]})]
  /\ clock = [f \in Fed |-> 0]
  /\ GrantedTime = [f \in Fed |-> 0]
  /\ Granted = [f \in Fed |-> FALSE]
  /\ halted = [f \in Fed |-> FALSE]
  /\ subscribed = [f \in Fed |-> FALSE]
  /\ msgs = EmptyBag
  /\ req = [f \in Fed |-> NoReq]
  /\ nerTime = [f \in Fed |-> NoReq]
  /\ rtiGrant = [f \in Fed |-> 0]
  /\ lost = FALSE

\* A step that only moves f's control point.
Goto(f, from, to) ==
  /\ pc[f] = from
  /\ pc' = [pc EXCEPT ![f] = to]

\* init(): RTI_Init, then the first RTIKIT_Barrier.
RTIInit(f) ==
  /\ Goto(f, "start", "b_init")
  /\ UNCHANGED <<queue, clock, GrantedTime, Granted, halted, subscribed,
                 msgs, req, nerTime, rtiGrant, lost>>

\* run(): lookahead, create-groups and CreateOOBGroup, then a barrier.
CreateGroups(f) ==
  /\ BarrierReached(f)
  /\ Goto(f, "b_init", "b_create")
  /\ UNCHANGED <<queue, clock, GrantedTime, Granted, halted, subscribed,
                 msgs, req, nerTime, rtiGrant, lost>>

\* publish-groups and PublishOOBGroup, then a barrier.
PublishGroups(f) ==
  /\ BarrierReached(f)
  /\ Goto(f, "b_create", "b_publish")
  /\ UNCHANGED <<queue, clock, GrantedTime, Granted, halted, subscribed,
                 msgs, req, nerTime, rtiGrant, lost>>

\* join-groups (RTILink::JoinGroup subscribes) and JoinOOBGroup, barrier.
JoinGroups(f) ==
  /\ BarrierReached(f)
  /\ Goto(f, "b_publish", "b_join")
  /\ subscribed' = [subscribed EXCEPT ![f] = TRUE]
  /\ UNCHANGED <<queue, clock, GrantedTime, Granted, halted,
                 msgs, req, nerTime, rtiGrant, lost>>

\* After the join barrier: sim-start, FinalizeTopology, enter the loop.
EnterMainLoop(f) ==
  /\ BarrierReached(f)
  /\ Goto(f, "b_join", "loop")
  /\ UNCHANGED <<queue, clock, GrantedTime, Granted, halted, subscribed,
                 msgs, req, nerTime, rtiGrant, lost>>

-----------------------------------------------------------------------------
(* The main loop of RTIScheduler::run (rtisched.cc:656-687).                *)

\* Issue RTI_NextEventRequest(etime) with Granted = 0 and start ticking.
NextEventRequest(f, etime, to) ==
  /\ pc' = [pc EXCEPT ![f] = to]
  /\ Granted' = [Granted EXCEPT ![f] = FALSE]
  /\ req' = [req EXCEPT ![f] = etime]

\* Mutant: lines 671-685 without `if (GrantedTime >= LARGE_TIME) break;`.
ProcessEarliestNoBreak(f) ==
  \/ /\ GrantedTime[f] >= EarliestTime(f)
     /\ queue[f] # EmptyBag
     /\ pc' = [pc EXCEPT ![f] = "loop"]
     /\ \E e \in Earliest(f) :
          /\ clock' = [clock EXCEPT ![f] = e.t]
          /\ IF e.k = "halt"
             THEN /\ halted' = [halted EXCEPT ![f] = TRUE]
                  /\ queue' = [queue EXCEPT ![f] = BagRemove(@, e)]
                  /\ UNCHANGED <<msgs, lost>>
             ELSE /\ HandleEvent(f, e.t, BagRemove(queue[f], e), msgs)
                  /\ UNCHANGED halted
     /\ UNCHANGED <<GrantedTime, Granted, subscribed, req, nerTime, rtiGrant>>
  \/ /\ ~(GrantedTime[f] >= EarliestTime(f) /\ queue[f] # EmptyBag)
     /\ pc' = [pc EXCEPT ![f] = "loop"]
     /\ UNCHANGED <<queue, clock, GrantedTime, Granted, halted, subscribed,
                    msgs, req, nerTime, rtiGrant, lost>>

\* Lines 671-685, run after the grant or when no request was needed:
\* re-peek; leave the loop on a LARGE_TIME grant; otherwise dispatch the
\* earliest event if the grant covers it.
ProcessEarliest(f) ==
  \/ /\ GrantedTime[f] >= LargeTime
     /\ NextEventRequest(f, DrainTime, "drain")
     /\ UNCHANGED <<queue, clock, GrantedTime, halted, subscribed,
                    msgs, nerTime, rtiGrant, lost>>
  \/ /\ GrantedTime[f] < LargeTime
     /\ GrantedTime[f] >= EarliestTime(f)
     /\ queue[f] # EmptyBag
     /\ pc' = [pc EXCEPT ![f] = "loop"]
     /\ \E e \in Earliest(f) :
          /\ clock' = [clock EXCEPT ![f] = e.t]
          /\ IF e.k = "halt"
             THEN /\ halted' = [halted EXCEPT ![f] = TRUE]
                  /\ queue' = [queue EXCEPT ![f] = BagRemove(@, e)]
                  /\ UNCHANGED <<msgs, lost>>
             ELSE /\ HandleEvent(f, e.t, BagRemove(queue[f], e), msgs)
                  /\ UNCHANGED halted
     /\ UNCHANGED <<GrantedTime, Granted, subscribed, req, nerTime, rtiGrant>>
  \/ /\ GrantedTime[f] < LargeTime
     /\ ~(GrantedTime[f] >= EarliestTime(f) /\ queue[f] # EmptyBag)
     /\ pc' = [pc EXCEPT ![f] = "loop"]
     /\ UNCHANGED <<queue, clock, GrantedTime, Granted, halted, subscribed,
                    msgs, req, nerTime, rtiGrant, lost>>

\* Top of `while (!halted_)`: peek; request a time advance if the earliest
\* event is beyond the granted time, else go straight to lines 671-685.
RunLoopTop(f) ==
  /\ pc[f] = "loop"
  /\ ~halted[f]
  /\ IF EarliestTime(f) > GrantedTime[f]
     THEN /\ NextEventRequest(f, EarliestTime(f), "wait")
          /\ UNCHANGED <<queue, clock, GrantedTime, halted, subscribed,
                         msgs, nerTime, rtiGrant, lost>>
     ELSE ProcessEarliest(f)

\* `while (!Granted) Core_tick();` has returned: finish the iteration.
RunAfterGrant(f) ==
  /\ pc[f] = "wait"
  /\ Granted[f]
  /\ ProcessEarliest(f)

\* halted_ is set: leave the loop and ask for the end of time (701-705).
ExitMainLoop(f) ==
  /\ pc[f] = "loop"
  /\ halted[f]
  /\ NextEventRequest(f, DrainTime, "drain")
  /\ UNCHANGED <<queue, clock, GrantedTime, halted, subscribed,
                 msgs, nerTime, rtiGrant, lost>>

\* Mutant: the drain loop is left after the first grant, whatever its time.
DrainAfterGrantOnce(f) ==
  /\ pc[f] = "drain"
  /\ Granted[f]
  /\ pc' = [pc EXCEPT ![f] = "exit"]
  /\ UNCHANGED <<Granted, req>>
  /\ UNCHANGED <<queue, clock, GrantedTime, halted, subscribed,
                 msgs, nerTime, rtiGrant, lost>>

\* Drain loop (701-707): done when all agree on LARGE_TIME + 10, else ask again.
DrainAfterGrant(f) ==
  /\ pc[f] = "drain"
  /\ Granted[f]
  /\ IF GrantedTime[f] >= DrainTime
     THEN /\ pc' = [pc EXCEPT ![f] = "exit"]
          /\ UNCHANGED <<Granted, req>>
     ELSE NextEventRequest(f, DrainTime, "drain")
  /\ UNCHANGED <<queue, clock, GrantedTime, halted, subscribed,
                 msgs, nerTime, rtiGrant, lost>>

\* The exit RTIKIT_Barrier (line 710).
ExitBarrier(f) ==
  /\ BarrierReached(f)
  /\ Goto(f, "exit", "done")
  /\ UNCHANGED <<queue, clock, GrantedTime, Granted, halted, subscribed,
                 msgs, req, nerTime, rtiGrant, lost>>

-----------------------------------------------------------------------------
(* Callbacks from Core_tick while f waits for a grant.                      *)

Waiting(f) == req[f] # NoReq /\ ~Granted[f]

\* ReflectAttributeValues (rtisched.cc:377-572): the RTI delivers the
\* earliest message; GrantedTime = T; a message carrying f's own node id is
\* dropped; otherwise assert(T >= clock_), setclock(T) and rrecv the packet.
ReflectAttributeValues(f, m) ==
  /\ Waiting(f)
  /\ m \in PendingTo(f)
  /\ m.t = MinPending(f)
  /\ m.t <= req[f]
  /\ m.t <= LBTS(f)
  /\ nerTime[f] \in {NoReq, m.t}
  /\ nerTime' = [nerTime EXCEPT ![f] = m.t]
  /\ GrantedTime' = [GrantedTime EXCEPT ![f] = m.t]
  /\ IF m.src = f
     THEN /\ msgs' = BagRemove(msgs, m)
          /\ UNCHANGED <<queue, clock, lost>>
     ELSE /\ clock' = [clock EXCEPT ![f] = m.t]
          /\ HandleEvent(f, m.t, queue[f], BagRemove(msgs, m))
  /\ UNCHANGED <<pc, Granted, halted, subscribed, req, rtiGrant>>

\* Mutant: a grant callback with no request outstanding.
TimeAdvanceGrantUnsolicited(f) ==
  LET g == IF nerTime[f] # NoReq THEN nerTime[f] ELSE req[f] IN
  /\ ~Granted[f]
  /\ GrantedTime' = [GrantedTime EXCEPT ![f] = g]
  /\ Granted' = [Granted EXCEPT ![f] = TRUE]
  /\ req' = [req EXCEPT ![f] = NoReq]
  /\ nerTime' = [nerTime EXCEPT ![f] = NoReq]
  /\ rtiGrant' = [rtiGrant EXCEPT ![f] = g]
  /\ UNCHANGED <<pc, queue, clock, halted, subscribed, msgs, lost>>

\* TimeAdvanceGrant (rtisched.cc:582-587) issued by the RTI: to the time of
\* the messages delivered in this request, or to the requested time, once
\* nothing earlier is pending and no other federate can still send earlier.
TimeAdvanceGrant(f) ==
  LET g == IF nerTime[f] # NoReq THEN nerTime[f] ELSE req[f] IN
  /\ Waiting(f)
  /\ MinPending(f) > g \/ PendingTo(f) = {}
  /\ g <= LBTS(f)
  /\ GrantedTime' = [GrantedTime EXCEPT ![f] = g]
  /\ Granted' = [Granted EXCEPT ![f] = TRUE]
  /\ req' = [req EXCEPT ![f] = NoReq]
  /\ nerTime' = [nerTime EXCEPT ![f] = NoReq]
  /\ rtiGrant' = [rtiGrant EXCEPT ![f] = g]
  /\ UNCHANGED <<pc, queue, clock, halted, subscribed, msgs, lost>>

\* Every federate has left run(): the processes have exited.
Terminated ==
  /\ \A f \in Fed : pc[f] = "done"
  /\ UNCHANGED vars

Federate(f) ==
  \/ RTIInit(f) \/ CreateGroups(f) \/ PublishGroups(f) \/ JoinGroups(f)
  \/ EnterMainLoop(f) \/ RunLoopTop(f) \/ RunAfterGrant(f)
  \/ ExitMainLoop(f) \/ DrainAfterGrant(f) \/ ExitBarrier(f)

RTI(f) ==
  \/ \E m \in PendingTo(f) : ReflectAttributeValues(f, m)
  \/ TimeAdvanceGrant(f)

Next ==
  \/ \E f \in Fed : Federate(f) \/ RTI(f)
  \/ Terminated

\* Each federate is a process that never blocks except in the busy
\* `while (!Granted) Core_tick()` loops, and the substrate is polled there
\* continuously, so every federate step and every RTI callback is weakly fair.
Spec == Init /\ [][Next]_vars

FairSpec == Spec /\ \A f \in Fed : WF_vars(Federate(f)) /\ WF_vars(RTI(f))

-----------------------------------------------------------------------------
(* Properties                                                               *)

\* The assertion of ReflectAttributeValues (rtisched.cc:565) can never fire:
\* no message from another federate is ever in flight with a timestamp
\* below the receiver's clock, whatever the order in which federates run,
\* request, get grants and send.  This is what the lookahead announced to
\* RTI_SetLookAhead and the timestamp RTILink::recv puts on a packet must
\* guarantee together.
NoStragglerMessage ==
  \A m \in BagToSet(msgs) : m.src # m.dst => m.t >= clock[m.dst]

\* The assertion of the main loop (rtisched.cc:680) can never fire: while a
\* federate runs its main loop, no queued event lies before its clock, even
\* after reflected packets have moved the clock inside Core_tick.
LocalCausality ==
  \A f \in Fed : pc[f] \in {"loop", "wait"} =>
     \A e \in BagToSet(queue[f]) : e.t >= clock[f]

\* The three join barriers of run() (rtisched.cc:619-635) order every
\* subscription before any packet is published: no copy of a packet is
\* ever published to a federate that has not joined the link group yet.
NoLostMessage == ~lost

\* The drain protocol (rtisched.cc:701-707): a federate leaves the drain
\* loop only when every federate has left its main loop and no message is
\* in flight any more, so nobody tears down while a peer can still send.
DrainAgreement ==
  [][\A f \in Fed :
       (pc[f] = "drain" /\ pc'[f] = "exit") =>
         /\ \A g \in Fed : pc[g] \in {"drain", "exit", "done"}
         /\ msgs = EmptyBag]_vars

\* Distributed termination: every federate eventually gets past the exit
\* barrier, whether it halts or runs out of events.
AllTerminate == <>(\A f \in Fed : pc[f] = "done")

=============================================================================
