---------------------------- MODULE MC_FixedTDMA ----------------------------
(* Three nodes in mutual range, each with its application, agent and MAC;  *)
(* one slot each in a three-slot frame.  Payloads of 4 or 5 bytes make    *)
(* messages of 9 or 10 bytes (application header included) over 5-byte    *)
(* datagrams: two datagrams each, the second 4 or 5 bytes.  A queue of     *)
(* qlim 3 holds two packets.  Node 65 sends two messages, the others one.  *)
EXTENDS FixedTDMA

MCNode == {65, 66, 67}
MCLink == {<<65, 66>>, <<66, 67>>, <<65, 67>>}
MCTable == << <<65, <<0>>>>, <<66, <<1>>>>, <<67, <<2>>>> >>
MCAppId == [n \in MCNode |-> n - 65]
MCMaxMsgs == [n \in MCNode |-> IF n = 65 THEN 2 ELSE 1]
====
