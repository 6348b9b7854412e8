----------------------------- MODULE MCHostHooks -----------------------------
(***************************************************************************)
(* Tasks and configuration of the hooks for TLC.                           *)
(***************************************************************************)
EXTENDS HostHooks

Good == [port |-> 0, ips |-> <<"ip1", "ip2">>]
BadAddress == [port |-> 0, ips |-> <<"ip1", "malformed">>]
BadPort == [port |-> 1, ips |-> <<"ip1">>]

(* No label; two labels for one port; a label refused after one that is not. *)
MCLabels == {<<>>, <<Good, [Good EXCEPT !.ips = <<"ip1">>]>>, <<Good, BadAddress>>,
             <<BadPort, Good>>}

(* A range named twice is appended twice. *)
MCDefaults == <<"ip1", "ip1">>
=============================================================================
