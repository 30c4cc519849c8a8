----------------------------- MODULE RTIRouter ------------------------------
(***************************************************************************)
(* The Event Router of one federate: RTIRouter (rti/rtirouter.cc) with its *)
(* route table, default remote route and node cache, the process-wide     *)
(* pass-through multimap ptRoutes, and the ip->rtirouter table rmap_ of    *)
(* rti/rtisched.cc (AddIPRoute / GetIPRoute).                              *)
(*                                                                         *)
(*  - recv: a packet from the local system; non-local destinations go to  *)
(*    the head chosen by Lookup, local ones to rrecv unless GetIPRoute     *)
(*    names a local->remote->local route;                                  *)
(*  - rrecv: a packet from another federate (or from recv); self packets  *)
(*    are dropped, port 0 is resolved by FindDest and announced by         *)
(*    SendOOB, then the node cache is consulted and, on a miss, the local  *)
(*    agent or the pass-through route is looked up and cached.             *)
(*                                                                         *)
(* ipaddr_t is scaled from 32 to 8 bits: each octet of the code is two     *)
(* bits here, so the masks 0xffffff00, 0xffff0000, 0xff000000 that         *)
(* GetPTRoute tries become 252, 240 and 192.  Tcl lookups (findport,       *)
(* find-srcport, default-route, rtirouter_) are constants of the model.   *)
(* The routes are configured before the run starts, as ns scripts do.      *)
(***************************************************************************)
EXTENDS Integers, Sequences, SequencesExt, FiniteSets, Bitwise

CONSTANTS
  Addr,          \* ip addresses packets carry
  Ports,         \* destination ports; 0 is "connect to any"
  NodeIds,       \* RTINodeId values a packet header can carry
  MyNodeId,      \* RTIKIT_nodeid
  MyIP,          \* my_ipaddr_ of this router
  NodeOf,        \* GetLocalIP: [local ip -> pNode->nodeid()]
  Bound,         \* findport: [local ip -> ports with an agent]
  SrcPortOf,     \* FindDest (find-srcport): [local ip -> port or -1]
  DropPort,      \* agent_port_ of a node's droptarget
  RouterOf,      \* rtirouter_ of the node of a local ip: [local ip -> [addr, port]]
  DefaultAgent,  \* Tcl default-route of the router's node, or NoAgent
  RouteCands,    \* argv of add-route: [srcip, smask, ipaddr, mask, head]
  PTRouteCands,  \* argv of add-route-passthrough: [targ, mask, srcip, smask, via]
  IPRouteCands,  \* argv of add-iproute: [ipaddr, mask, srcip, smask, agent]
  SrcAddrs,      \* source addresses packets carry
  Heads,         \* ns objects a route can forward to (link heads)
  NoHead, NoAgent, NoRoute

LocalIPs == DOMAIN NodeOf

M24 == 252   \* 0xffffff00
M16 == 240   \* 0xffff0000
M8  == 192   \* 0xff000000

\* The (short) conversion of RTIRouter::AddCache's parameters: two's
\* complement wrap to 16 bits.
Short(x) == ((x + 32768) % 65536) - 32768

Miss == [first |-> -1, second |-> -1]      \* NCVal_t(-1,-1) of FindCache

(* The Tcl commands pass numbers as text: an argument is [s, v], the     *)
(* value v written dotted ("0.0.1.1"), hex ("0x5") or decimal ("5").     *)

\* inet_aton for a dotted argument, strtol(.., 0) otherwise: both read
\* every form.
ParseAddr(a) == a.v

\* atol reads the leading decimal digits: all of a decimal argument, the
\* "0" of a hex one, the first octet of a dotted one.
Atol(a) == CASE a.s = "dec" -> a.v
             [] a.s = "hex" -> 0
             [] OTHER       -> a.v \div 64

\* add-route (RTIRouter::command): addresses dotted or numeric, the two
\* masks through atol.
AddRouteCommand(a) ==
  [ipaddr |-> ParseAddr(a.ipaddr), mask |-> Atol(a.mask), head |-> a.head,
   srcip |-> ParseAddr(a.srcip), smask |-> Atol(a.smask)]

\* add-route-passthrough: a numeric rlinkip is read from argv[4], the
\* source address, not from argv[6].
AddRoutePassthroughCommand(a) ==
  [targ |-> ParseAddr(a.targ), mask |-> ParseAddr(a.mask),
   via |-> IF a.via.s = "dotted" THEN ParseAddr(a.via) ELSE ParseAddr(a.srcip),
   srcip |-> ParseAddr(a.srcip), smask |-> ParseAddr(a.smask)]

\* add-iproute (RTIScheduler::command): every address dotted or numeric.
AddIPRouteCommand(a) ==
  [ipaddr |-> ParseAddr(a.ipaddr), mask |-> ParseAddr(a.mask), agent |-> a.agent,
   srcip |-> ParseAddr(a.srcip), smask |-> ParseAddr(a.smask)]

Routes   == {AddRouteCommand(a) : a \in RouteCands}
PTRoutes == {AddRoutePassthroughCommand(a) : a \in PTRouteCands}
IPRoutes == {AddIPRouteCommand(a) : a \in IPRouteCands}

VARIABLES
  rTable,        \* rTable_[0..rTableLength_-1]
  defaultRemote, \* pDefaultRemoteRoute
  ptRoutes,      \* ptRoutes multimap, in key order (equal keys by insertion)
  rmap,          \* rmap_[0..rmap_len_-1]
  nodeCache,     \* [<<ipaddr, port>> -> NCVal_t], Miss when absent
  running,       \* the simulation has started: configuration is over
  oobSent,       \* SetDestPort notifications sent by SendOOB
  exited         \* exit(0) after "FATAL: no route"

vars == <<rTable, defaultRemote, ptRoutes, rmap, nodeCache, running, oobSent, exited>>

Packet  == [in : {"recv", "rrecv"}, nid : NodeIds, src : SrcAddrs, dst : Addr, dport : Ports]
Outcome == [to : {"target"}, daddr : Int, dport : Int]
             \cup [to : {"link"}, head : Heads \cup {NoHead}]
             \cup [to : {"drop", "exit"}]

TypeOK ==
  /\ rTable \in Seq(Routes)
  /\ defaultRemote \in Heads \cup {NoHead}
  /\ ptRoutes \in Seq([key : Nat, mask : Nat, via : Addr, srcip : Nat, smask : Nat])
  /\ rmap \in Seq(IPRoutes)
  /\ nodeCache \in [Addr \X Ports -> [first : Int, second : Int]]
  /\ running \in BOOLEAN
  /\ oobSent \subseteq [da : Addr, dp : Ports, sa : SrcAddrs]
  /\ exited \in BOOLEAN

-----------------------------------------------------------------------------
(* Lookups                                                                  *)

\* The position of the first table entry among the indices I, 0 if none:
\* the code's tables are scanned from the front and the scan stops there.
FirstIn(I) == IF I = {} THEN 0 ELSE Min(I)

SrcMatch(e, src) == e.srcip # 0 /\ e.smask # 0 /\ (e.srcip & e.smask) = (src & e.smask)

\* RTIRouter::Lookup: a source-and-destination match, then a destination
\* match, in table order; an empty table gives the default remote route,
\* a table with no match its first entry.
Lookup(addr, src) ==
  LET DstMatch(e) == (e.ipaddr & e.mask) = (addr & e.mask)
      s == FirstIn({i \in DOMAIN rTable : SrcMatch(rTable[i], src) /\ DstMatch(rTable[i])})
      d == FirstIn({i \in DOMAIN rTable : DstMatch(rTable[i])})
  IN CASE s # 0          -> rTable[s].head
       [] d # 0          -> rTable[d].head
       [] rTable = <<>>  -> defaultRemote
       [] OTHER          -> rTable[1].head

\* GetIPRoute (rtisched.cc): the same two scans over rmap_, or NULL.
GetIPRoute(addr, src) ==
  LET DstMatch(e) == (e.ipaddr & e.mask) = (addr & e.mask)
      s == FirstIn({i \in DOMAIN rmap : SrcMatch(rmap[i], src) /\ DstMatch(rmap[i])})
      d == FirstIn({i \in DOMAIN rmap : DstMatch(rmap[i])})
  IN CASE s # 0 -> rmap[s].agent
       [] d # 0 -> rmap[d].agent
       [] OTHER -> NoAgent

\* A pass-through route covers targ when targ masked with its mask is its key.
Covers(r, targ) == (targ & r.mask) = r.key

\* Mutant: the /8 key is tried before the /16 and /24 keys.
GetPTRouteShortFirst(targ, src) ==
  LET First(m) == FirstIn({i \in DOMAIN ptRoutes : ptRoutes[i].key = (targ & m)})
      FromKey(i) ==
        LET j == FirstIn({k \in i..Len(ptRoutes) : SrcMatch(ptRoutes[k], src)})
        IN IF j # 0 THEN ptRoutes[j] ELSE ptRoutes[i]
      both == FirstIn({i \in DOMAIN ptRoutes : SrcMatch(ptRoutes[i], src) /\ Covers(ptRoutes[i], targ)})
      dst  == FirstIn({i \in DOMAIN ptRoutes : Covers(ptRoutes[i], targ)})
  IN CASE First(M8) # 0  -> FromKey(First(M8))
       [] First(M16) # 0 -> FromKey(First(M16))
       [] First(M24) # 0 -> FromKey(First(M24))
       [] both # 0       -> ptRoutes[both]
       [] dst # 0        -> ptRoutes[dst]
       [] OTHER          -> NoRoute

\* Mutant: the last scan returns the first route, whatever its key.
GetPTRouteAnyLast(targ, src) ==
  LET First(m) == FirstIn({i \in DOMAIN ptRoutes : ptRoutes[i].key = (targ & m)})
      FromKey(i) ==
        LET j == FirstIn({k \in i..Len(ptRoutes) : SrcMatch(ptRoutes[k], src)})
        IN IF j # 0 THEN ptRoutes[j] ELSE ptRoutes[i]
      both == FirstIn({i \in DOMAIN ptRoutes : SrcMatch(ptRoutes[i], src) /\ Covers(ptRoutes[i], targ)})
  IN CASE First(M24) # 0 -> FromKey(First(M24))
       [] First(M16) # 0 -> FromKey(First(M16))
       [] First(M8) # 0  -> FromKey(First(M8))
       [] both # 0       -> ptRoutes[both]
       [] ptRoutes # <<>> -> ptRoutes[1]
       [] OTHER          -> NoRoute

\* RTIRouter::GetPTRoute: find() the first entry keyed targ & /24, /16,
\* /8 in turn; from there scan to the END of the map for a source match,
\* else return that first entry.  Without any such key, scan all routes
\* for a source match that covers targ, then for any route covering it.
GetPTRoute(targ, src) ==
  LET First(m) == FirstIn({i \in DOMAIN ptRoutes : ptRoutes[i].key = (targ & m)})
      FromKey(i) ==
        LET j == FirstIn({k \in i..Len(ptRoutes) : SrcMatch(ptRoutes[k], src)})
        IN IF j # 0 THEN ptRoutes[j] ELSE ptRoutes[i]
      both == FirstIn({i \in DOMAIN ptRoutes : SrcMatch(ptRoutes[i], src) /\ Covers(ptRoutes[i], targ)})
      dst  == FirstIn({i \in DOMAIN ptRoutes : Covers(ptRoutes[i], targ)})
  IN CASE First(M24) # 0 -> FromKey(First(M24))
       [] First(M16) # 0 -> FromKey(First(M16))
       [] First(M8) # 0  -> FromKey(First(M8))
       [] both # 0       -> ptRoutes[both]
       [] dst # 0        -> ptRoutes[dst]
       [] OTHER          -> NoRoute

\* Mutant: the cache is keyed on the address alone.
FindCacheAnyPort(cache, ipaddr, port) ==
  LET hit == {q \in Ports : cache[<<ipaddr, q>>] # Miss}
  IN IF hit = {} THEN Miss ELSE cache[<<ipaddr, CHOOSE q \in hit : TRUE>>]

\* RTIRouter::FindCache: the entry for (ipaddr, port), or (-1,-1).
FindCache(cache, ipaddr, port) == cache[<<ipaddr, port>>]

\* Mutant: nodeid and portid passed in the wrong order.
AddCacheSwapped(ipaddr, port, nodeid, portid) ==
  [first |-> Short(portid), second |-> Short(nodeid)]

\* RTIRouter::AddCache: insert (a no-op when the key is present) and
\* return the value, both through the short parameters.
AddCache(ipaddr, port, nodeid, portid) ==
  [first |-> Short(nodeid), second |-> Short(portid)]

-----------------------------------------------------------------------------
(* Routing a packet.  Route(p, cache) is the effect of one call on a packet *)
(* given the node cache: the outcome, the cache afterwards and the OOB      *)
(* notification sent (or none).  It is a pure operator so that properties   *)
(* can ask what any packet would get in the current state.                  *)

NoOOB == [da |-> 0, dp |-> 0, sa |-> 0]
\* SendOOB(RTIM_SetDestPort, ...): the fields of the OOB message the model
\* keeps (type, source port and extra words are fixed by the call).
SendOOB(da, dp, sa) == [da |-> da, dp |-> dp, sa |-> sa]
Result(out, cache, oob) == [out |-> out, cache |-> cache, oob |-> oob]
Deliver(a, port) == [to |-> "target", daddr |-> a, dport |-> port]

\* FindDest: on a local node, the Tcl find-srcport answer; -1 elsewhere.
FindDest(ipaddr) == IF ipaddr \in LocalIPs THEN SrcPortOf[ipaddr] ELSE -1

\* RTIRouter::rrecv (rtirouter.cc:272-459).
RRecv(p, cache) ==
  LET newd  == FindDest(p.dst)
      dport == IF p.dport = 0 /\ newd >= 0 THEN newd ELSE p.dport
      oob   == IF p.dport = 0 /\ newd >= 0
               THEN SendOOB(p.dst, newd, p.src) ELSE NoOOB
      hit   == FindCache(cache, p.dst, dport)
      pt    == GetPTRoute(p.dst, MyIP)
      ag    == IF pt # NoRoute THEN RouterOf[pt.via] ELSE DefaultAgent
      Add(v) == [cache EXCEPT ![<<p.dst, dport>>] = v]
  IN CASE p.nid = MyNodeId ->                       \* own packet
            Result([to |-> "drop"], cache, NoOOB)
       [] hit # Miss ->
            Result(Deliver(hit.first, hit.second), cache, oob)
       [] p.dst \notin LocalIPs /\ ag = NoAgent ->     \* no pt and no default
            Result([to |-> "drop"], cache, oob)
       [] p.dst \notin LocalIPs ->                     \* pass-through
            LET v == AddCache(p.dst, dport, ag.addr, ag.port)
            IN Result(Deliver(v.first, v.second), Add(v), oob)
       [] dport \in Bound[p.dst] ->                    \* local agent
            LET v == AddCache(p.dst, dport, NodeOf[p.dst], dport)
            IN Result(Deliver(v.first, v.second), Add(v), oob)
       [] OTHER ->                                     \* droptarget, no_cache
            Result(Deliver(NodeOf[p.dst], DropPort), cache, oob)

\* RTIRouter::recv (rtirouter.cc:170-213): a packet from the local system.
Recv(p, cache) ==
  LET ToHead(h) == IF h = NoHead THEN Result([to |-> "exit"], cache, NoOOB)
                   ELSE Result([to |-> "link", head |-> h], cache, NoOOB)
  IN CASE p.dst = 0 -> RRecv(p, cache)
       [] p.dst \notin LocalIPs -> ToHead(Lookup(p.dst, p.src))
       [] GetIPRoute(p.dst, p.src) = NoAgent -> RRecv(p, cache)
       [] OTHER -> ToHead(Lookup(p.dst, p.src))

Route(p, cache) == IF p.in = "recv" THEN Recv(p, cache) ELSE RRecv(p, cache)

ColdCache == [k \in Addr \X Ports |-> Miss]

-----------------------------------------------------------------------------
(* Actions                                                                  *)

Init ==
  /\ rTable = <<>>
  /\ defaultRemote = NoHead
  /\ ptRoutes = <<>>
  /\ rmap = <<>>
  /\ nodeCache = ColdCache
  /\ running = FALSE
  /\ oobSent = {}
  /\ exited = FALSE

\* Mutant: the route entry itself, not its head, becomes the default.
AddRouteWholeEntry(e) ==
  /\ ~running
  /\ e \notin ToSet(rTable)
  /\ rTable' = Append(rTable, e)
  /\ defaultRemote' = IF defaultRemote = NoHead THEN e ELSE defaultRemote
  /\ UNCHANGED <<ptRoutes, rmap, nodeCache, running, oobSent, exited>>

\* RTIRouter::AddRoute, called by add-route: append;
\* the first route added also becomes the default remote route.
AddRoute(e) ==
  /\ ~running
  /\ e \notin ToSet(rTable)
  /\ rTable' = Append(rTable, e)
  /\ defaultRemote' = IF defaultRemote = NoHead THEN e.head ELSE defaultRemote
  /\ UNCHANGED <<ptRoutes, rmap, nodeCache, running, oobSent, exited>>

\* add-default-remote-route and RTIRouter::SetDefaultRemoteRoute.
SetDefaultRemoteRoute(h) ==
  /\ ~running
  /\ defaultRemote' = h
  /\ UNCHANGED <<rTable, ptRoutes, rmap, nodeCache, running, oobSent, exited>>

PTEntry(c) == [key |-> c.targ & c.mask, mask |-> c.mask, via |-> c.via,
               srcip |-> c.srcip, smask |-> c.smask]

\* add-route-passthrough and RTIRouter::AddPTRoute: ignored when via is not
\* a local ip; otherwise multimap::insert after the entries of equal key.
AddPTRoute(c) ==
  /\ ~running
  /\ PTEntry(c) \notin ToSet(ptRoutes)
  /\ \/ /\ c.via \notin LocalIPs
        /\ UNCHANGED ptRoutes
     \/ /\ c.via \in LocalIPs
        /\ LET e == PTEntry(c)
               pos == 1 + Cardinality({i \in 1..Len(ptRoutes) : ptRoutes[i].key <= e.key})
           IN ptRoutes' = InsertAt(ptRoutes, pos, e)
  /\ UNCHANGED <<rTable, defaultRemote, rmap, nodeCache, running, oobSent, exited>>

\* RTIScheduler::AddIPRoute (rtisched.cc:881-900): append to rmap_.
AddIPRoute(e) ==
  /\ ~running
  /\ e \notin ToSet(rmap)
  /\ rmap' = Append(rmap, e)
  /\ UNCHANGED <<rTable, defaultRemote, ptRoutes, nodeCache, running, oobSent, exited>>

\* $ns run: configuration is over, packets start to flow.
StartRun ==
  /\ ~running
  /\ running' = TRUE
  /\ UNCHANGED <<rTable, defaultRemote, ptRoutes, rmap, nodeCache, oobSent, exited>>

\* One packet handed to recv or rrecv.
RoutePacket(p) ==
  /\ running /\ ~exited
  /\ LET r == Route(p, nodeCache) IN
       /\ nodeCache' = r.cache
       /\ oobSent' = IF r.oob = NoOOB THEN oobSent ELSE oobSent \cup {r.oob}
       /\ exited' = (r.out.to = "exit")
  /\ UNCHANGED <<rTable, defaultRemote, ptRoutes, rmap, running>>

\* The process has exited: nothing happens any more.
Exited ==
  /\ exited
  /\ UNCHANGED vars

Next ==
  \/ \E a \in RouteCands : AddRoute(AddRouteCommand(a))
  \/ \E h \in Heads : SetDefaultRemoteRoute(h)
  \/ \E a \in PTRouteCands : AddPTRoute(AddRoutePassthroughCommand(a))
  \/ \E a \in IPRouteCands : AddIPRoute(AddIPRouteCommand(a))
  \/ StartRun
  \/ \E p \in Packet : RoutePacket(p)
  \/ Exited

Spec == Init /\ [][Next]_vars

-----------------------------------------------------------------------------
(* Properties                                                               *)

\* Route determinism and cache coherence (spec 8.3, 8.5): whatever packets
\* have warmed the node cache, every packet is routed exactly as it would
\* be with a cold cache, where rrecv takes the slow path (GetLocalIP,
\* findport or GetPTRoute) and fills the cache through AddCache.
Remote == {p \in Packet : p.in = "rrecv" /\ p.nid # MyNodeId}

RouteDeterminism ==
  running =>
  \A p \in Remote : Route(p, nodeCache).out = Route(p, ColdCache).out

\* A packet from another federate reaches the object the slow path of
\* rrecv chose for it: for a local address and a port with a bound agent,
\* that node and port; for a non-local address with a pass-through route,
\* the rtirouter of the route's via node.  This holds on a cache miss,
\* where ip->daddr() is set from AddCache's result, and on every hit.
Intended(p) ==
  IF p.dst \in LocalIPs THEN Deliver(NodeOf[p.dst], p.dport)
  ELSE LET pt == GetPTRoute(p.dst, MyIP)
       IN Deliver(RouterOf[pt.via].addr, RouterOf[pt.via].port)

DeliveredToIntended ==
  running =>
  \A p \in Remote :
     (/\ p.dport # 0
      /\ IF p.dst \in LocalIPs THEN p.dport \in Bound[p.dst]
         ELSE GetPTRoute(p.dst, MyIP) # NoRoute)
       => Route(p, nodeCache).out = Intended(p)

\* Every pass-through route GetPTRoute returns covers the target: the
\* target masked with the route's mask is the route's key, whatever the
\* order the routes were added in.
PTRouteCovers ==
  \A t \in Addr : GetPTRoute(t, MyIP) # NoRoute => Covers(GetPTRoute(t, MyIP), t)

\* Longest prefix (spec 8.4): of the pass-through routes that cover a
\* target, GetPTRoute returns one with the longest mask.
LongestPrefixMatch ==
  \A t \in Addr :
     LET r == GetPTRoute(t, MyIP) IN
       r # NoRoute =>
         \A i \in 1..Len(ptRoutes) :
            Covers(ptRoutes[i], t) => ptRoutes[i].mask <= r.mask

====
