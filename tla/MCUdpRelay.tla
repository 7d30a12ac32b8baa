------------------------------ MODULE MCUdpRelay ------------------------------
(***************************************************************************)
(* Three queries over both port pairs, two slots, two ephemeral ports: a   *)
(* full pool, a reused port and a late answer all happen.                  *)
(***************************************************************************)
EXTENDS UdpRelay

CONSTANTS q1, q2, q3

MCQueries  == {q1, q2, q3}
MCListener == [q \in MCQueries |-> IF q = q3 THEN "ads" ELSE "plain"]
===============================================================================
