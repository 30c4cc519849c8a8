---------------------------- MODULE MC_RTIRouter ----------------------------
(***************************************************************************)
(* One federate's router on 8-bit addresses (octets of two bits).  Local  *)
(* ips A = 5 (0.0.1.1, node 3, agent bound at port 1, the router's own ip) *)
(* and B = 9 (0.0.2.1, node 4, no agents).  Remote targets 70 (1.0.1.2)  *)
(* and 130 (2.0.0.2).  Pass-through routes to 68/24, 64/8 (one plain, one *)
(* source-based), 130 under a non-octet mask, and one via a non-local ip.  *)
(* The routes run (ports 0, 1 and 2) takes MC_PTRouteCands_routes, which *)
(* drops the plain 64/8; the other runs swap in the sets defined below.   *)
(***************************************************************************)
EXTENDS RTIRouter

CONSTANTS h1, h2, ra   \* link heads and the rtirouter agent of B

A == 5
B == 9

MC_NodeOf    == (A :> 3) @@ (B :> 4)
MC_Bound     == (A :> {1}) @@ (B :> {})
MC_SrcPortOf == (A :> 1) @@ (B :> -1)
MC_RouterOf  == (A :> [addr |-> 3, port |-> 5]) @@ (B :> [addr |-> 4, port |-> 5])

\* Command arguments as ns scripts write them: addresses dotted, the
\* add-route masks in decimal (atol reads nothing else).
Dot(v) == [s |-> "dotted", v |-> v]
Dec(v) == [s |-> "dec", v |-> v]
Hex(v) == [s |-> "hex", v |-> v]

RA(ip, m, h, src, sm) == [srcip |-> Dot(src), smask |-> Dec(sm), ipaddr |-> Dot(ip), mask |-> Dec(m), head |-> h]
PA(t, m, src, sm, via) == [targ |-> Dot(t), mask |-> Dot(m), srcip |-> Dot(src), smask |-> Dot(sm), via |-> via]

MC_RouteCands ==
  { RA(64, 192, h1, 0, 0), RA(128, 192, h2, A, 255) }

\* The last route names its rlink ip in hex, so the command takes argv[4]
\* (0.0.0.0) as the via, which is not local: the route is ignored.
MC_PTRouteCands ==
  { PA(70, 252, 0, 0, Dot(B)), PA(64, 192, 0, 0, Dot(A)), PA(64, 192, A, 255, Dot(B)),
    PA(130, 254, 0, 0, Dot(B)), PA(70, 252, 0, 0, Hex(B)) }

MC_IPRouteCands ==
  { [ipaddr |-> Dot(B), mask |-> Hex(255), srcip |-> Dot(0), smask |-> Dot(0), agent |-> ra] }

\* The routes run, with port 0 among the ports: a pass-through route per
\* remote target, a source-based one, and the one ignored as not local.
MC_PTRouteCands_routes ==
  { PA(70, 252, 0, 0, Dot(B)), PA(64, 192, A, 255, Dot(B)),
    PA(130, 254, 0, 0, Dot(A)), PA(70, 252, 0, 0, Hex(B)) }

\* The node cache run: one route and one pass-through route per remote target.
MC_RouteCands_cache == { RA(64, 192, h1, 0, 0) }

MC_PTRouteCands_cache == { PA(70, 252, 0, 0, Dot(B)), PA(130, 254, 0, 0, Dot(A)) }

\* A source-based pass-through route under a higher key than the routes
\* find() lands on.
MC_PTRouteCands_overrun == { PA(70, 252, 0, 0, Dot(B)), PA(130, 254, A, 255, Dot(A)) }

\* Spec 8.4's example scaled: 64/24, 64/16 and 64/8, one key, any order.
MC_PTRouteCands_prefix ==
  { PA(64, M24, 0, 0, Dot(A)), PA(64, M16, 0, 0, Dot(B)), PA(64, M8, 0, 0, Dot(B)) }

\* A federate whose node ids run past 32767.
MC_NodeOf_large == (A :> 40000) @@ (B :> 4)

====
