----------------------------- MODULE RTIBuffers -----------------------------
(***************************************************************************)
(* The receive buffers of one federate.  When a message of a subscribed   *)
(* class arrives, the RTI asks the class's WhereMessage procedure for a    *)
(* buffer and later hands that buffer to ReflectAttributeValues, which     *)
(* returns it to a free list.                                              *)
(*                                                                         *)
(*  - link groups (RTILink::JoinGroup) use RTILink::WhereMessage           *)
(*    (rti/rtilink.cc): a block carries its size in a long in front of the *)
(*    buffer, is grown with realloc when too small, and holds the router   *)
(*    context pointer right after the message;                             *)
(*  - the OOB group (JoinOOBGroup) uses RTIScheduler::WhereMessage         *)
(*    (rti/rtisched.cc): malloc(MsgSize + 16), no size header, no context; *)
(*  - ReflectAttributeValues returns every buffer, of either class, with   *)
(*    RTILink::FreeMessage, i.e. to RTILink::FreeVec.                      *)
(*                                                                         *)
(* RTIScheduler::FreeMessage has no caller, so RTIScheduler::FreeVec stays *)
(* empty and RTIScheduler::WhereMessage always mallocs.                    *)
(*                                                                         *)
(* A pointer handed out is a block and whether it points past a size       *)
(* header (hdr) or at the start of the block.  Sizes are in bytes.         *)
(***************************************************************************)
EXTENDS Integers, Sequences, SequencesExt

CONSTANTS
  NodeId,       \* RTIKIT_nodeid of this federate
  Senders,      \* node ids of the federates publishing on its link groups
  LinkSizes,    \* MsgSize of link messages (MSGS_SIZE of a packet)
  OOBSizes,     \* MsgSize of OOB messages (SendOOB); {} when none are sent
  MaxInFlight,  \* bound: messages placed and not yet reflected
  MaxBlocks     \* bound: blocks malloc'd

ASSUME NodeId \in Senders /\ Senders \subseteq Nat \ {0}
ASSUME LinkSizes \subseteq Nat \ {0} /\ OOBSizes \subseteq Nat \ {0}
ASSUME MaxInFlight \in Nat \ {0} /\ MaxBlocks \in Nat \ {0}

LongSize == 8                      \* sizeof(long)
OOBType  == 1                      \* SendOOB: *pMsgType = 1
Blocks   == 1..MaxBlocks
Ptr      == [blk : Blocks, hdr : BOOLEAN]
Class    == {"link", "oob"}
Placed   == [p : Ptr, size : Nat, type : Nat, cls : Class]

VARIABLES
  cap,         \* bytes allocated to each block (0: never malloc'd)
  hdrv,        \* the size stored in the block's header long
  ctx,         \* the router context after the message has been written
  linkFree,    \* RTILink::FreeVec, back = Last
  inflight,    \* messages placed by WhereMessage, awaiting the reflect
  badRealloc,  \* history: realloc given a pointer malloc did not return
  ctxGarbage   \* history: a router pointer read that nobody wrote

vars == <<cap, hdrv, ctx, linkFree, inflight, badRealloc, ctxGarbage>>

TypeOK ==
  /\ cap \in [Blocks -> Nat]
  /\ hdrv \in [Blocks -> Nat]
  /\ ctx \in [Blocks -> BOOLEAN]
  /\ linkFree \in Seq(Ptr)
  /\ inflight \in Seq(Placed)
  /\ badRealloc \in BOOLEAN /\ ctxGarbage \in BOOLEAN

\* Mutant: the header long subtracted instead of added.
LinkAllocShort(sz) == (sz \div LongSize - LongSize) * LongSize

\* x = (MsgSize / sizeof(long) + sizeof(long)) * sizeof(long), the bytes
\* RTILink::WhereMessage mallocs or reallocs for a message (rtilink.cc).
LinkAlloc(sz) == (sz \div LongSize + LongSize) * LongSize

\* Highest byte offset, within its block, that placing a message writes:
\* the header, the message and (link class) the context pointer after it.
Extent(m) ==
  (IF m.p.hdr THEN LongSize ELSE 0) + m.size
    + (IF m.cls = "link" THEN LongSize ELSE 0)

Unused == {b \in Blocks : cap[b] = 0}

Init ==
  /\ cap = [b \in Blocks |-> 0]
  /\ hdrv = [b \in Blocks |-> 0]
  /\ ctx = [b \in Blocks |-> FALSE]
  /\ linkFree = <<>>
  /\ inflight = <<>>
  /\ badRealloc = FALSE
  /\ ctxGarbage = FALSE

\* The message is stored at p; a link message gets *ppContext = pRouter.
Place(p, sz, ty, cls) ==
  /\ inflight' = Append(inflight, [p |-> p, size |-> sz, type |-> ty, cls |-> cls])
  /\ ctx' = IF cls = "link" THEN [ctx EXCEPT ![p.blk] = TRUE] ELSE ctx

\* Mutant: a reused block is never grown, whatever its header says.
LinkWhereMessageNoGrow(sz, ty) ==
  /\ Len(inflight) < MaxInFlight
  /\ \/ /\ linkFree # <<>>
        /\ linkFree' = Front(linkFree)
        /\ Place(Last(linkFree), sz, ty, "link")
        /\ UNCHANGED <<cap, hdrv, badRealloc>>
     \/ /\ linkFree = <<>>
        /\ \E b \in Unused :
             /\ cap' = [cap EXCEPT ![b] = LinkAlloc(sz)]
             /\ hdrv' = [hdrv EXCEPT ![b] = sz]
             /\ Place([blk |-> b, hdr |-> TRUE], sz, ty, "link")
        /\ UNCHANGED <<linkFree, badRealloc>>
  /\ UNCHANGED ctxGarbage

\* RTILink::WhereMessage: pop the back of FreeVec and step back one long to
\* its size header; realloc when the header is below MsgSize; malloc when
\* FreeVec is empty.  A pointer without a header (an OOB buffer) has heap
\* memory in front of it: the header read is any value, and realloc of the
\* address one long before the block is undefined (flagged).
LinkWhereMessage(sz, ty) ==
  /\ Len(inflight) < MaxInFlight
  /\ \/ /\ linkFree # <<>>
        /\ LET p == Last(linkFree) IN
             /\ linkFree' = Front(linkFree)
             /\ \/ /\ p.hdr /\ hdrv[p.blk] >= sz
                   /\ Place(p, sz, ty, "link")
                   /\ UNCHANGED <<cap, hdrv, badRealloc>>
                \/ /\ p.hdr /\ hdrv[p.blk] < sz
                   /\ cap' = [cap EXCEPT ![p.blk] = LinkAlloc(sz)]
                   /\ hdrv' = [hdrv EXCEPT ![p.blk] = sz]
                   /\ Place(p, sz, ty, "link")
                   /\ UNCHANGED badRealloc
                \/ /\ ~p.hdr       \* garbage header >= MsgSize: reused as is
                   /\ Place(p, sz, ty, "link")
                   /\ UNCHANGED <<cap, hdrv, badRealloc>>
                \/ /\ ~p.hdr       \* garbage header < MsgSize: realloc(p - 8)
                   /\ badRealloc' = TRUE
                   /\ cap' = [cap EXCEPT ![p.blk] = LinkAlloc(sz)]
                   /\ hdrv' = [hdrv EXCEPT ![p.blk] = sz]
                   /\ Place([blk |-> p.blk, hdr |-> TRUE], sz, ty, "link")
     \/ /\ linkFree = <<>>
        /\ \E b \in Unused :
             /\ cap' = [cap EXCEPT ![b] = LinkAlloc(sz)]
             /\ hdrv' = [hdrv EXCEPT ![b] = sz]
             /\ Place([blk |-> b, hdr |-> TRUE], sz, ty, "link")
        /\ UNCHANGED <<linkFree, badRealloc>>
  /\ UNCHANGED ctxGarbage

\* RTIScheduler::WhereMessage: FreeVec is always empty (see above), so
\* malloc(MsgSize + 16), returned as is, with no header and no context.
SchedWhereMessage(sz) ==
  /\ Len(inflight) < MaxInFlight
  /\ \E b \in Unused :
       /\ cap' = [cap EXCEPT ![b] = sz + 16]
       /\ Place([blk |-> b, hdr |-> FALSE], sz, OOBType, "oob")
  /\ UNCHANGED <<hdrv, linkFree, badRealloc, ctxGarbage>>

\* RTILink::FreeMessage: the buffer is pushed on RTILink::FreeVec.
FreeMessage(p) == Append(linkFree, p)

\* Mutant: the self-message branch frees the buffer but does not return,
\* so the packet branch runs too and frees it a second time.
ReflectNoReturn(i) ==
  LET m == inflight[i] IN
  /\ inflight' = RemoveAt(inflight, i)
  /\ linkFree' = IF m.type = NodeId
                 THEN Append(FreeMessage(m.p), m.p)
                 ELSE FreeMessage(m.p)
  /\ ctxGarbage' = (ctxGarbage \/ (m.type # NodeId /\ ~ctx[m.p.blk]))
  /\ UNCHANGED <<cap, hdrv, ctx, badRealloc>>

\* ReflectAttributeValues (rtisched.cc:532-571) on the i-th placed message:
\* a message whose type word is this node's id is freed and dropped;
\* otherwise the packet is copied out, the router pointer is read from
\* pbuf[MsgSize] and rrecv'd, and the buffer freed.  Both frees are
\* RTILink::FreeMessage, which pushes the pointer on RTILink::FreeVec.
ReflectAttributeValues(i) ==
  LET m == inflight[i] IN
  /\ inflight' = RemoveAt(inflight, i)
  /\ linkFree' = FreeMessage(m.p)
  /\ ctxGarbage' = (ctxGarbage \/ (m.type # NodeId /\ ~ctx[m.p.blk]))
  /\ UNCHANGED <<cap, hdrv, ctx, badRealloc>>

Next ==
  \/ \E sz \in LinkSizes, ty \in Senders : LinkWhereMessage(sz, ty)
  \/ \E sz \in OOBSizes : SchedWhereMessage(sz)
  \/ \E i \in 1..Len(inflight) : ReflectAttributeValues(i)

Spec == Init /\ [][Next]_vars

-----------------------------------------------------------------------------
(* Properties                                                               *)

\* The heap assumptions of RTILink::WhereMessage hold for every buffer the
\* RTI fills: the size header, the message and the context pointer all lie
\* inside the block, and realloc is only ever given a block malloc returned.
\* It takes a small buffer going back to FreeVec and a larger message
\* arriving later for the growth check to matter.
HeapIntegrity ==
  /\ \A i \in 1..Len(inflight) : Extent(inflight[i]) <= cap[inflight[i].p.blk]
  /\ ~badRealloc

\* A block is never handed out while it is in use or already free: it is
\* in at most one place among the free list and the placed messages, in
\* whatever order the RTI places and reflects them.
NoBufferAliasing ==
  \A b \in Blocks :
     Len(SelectSeq(linkFree, LAMBDA p : p.blk = b))
       + Len(SelectSeq(inflight, LAMBDA m : m.p.blk = b)) <= 1

\* Every packet handed to a router was found through a context pointer that
\* WhereMessage wrote: ReflectAttributeValues never reads pbuf[MsgSize]
\* (rtisched.cc:567-569) where nothing was stored.
ContextWritten == ~ctxGarbage

=============================================================================
