----------------------------- MODULE MCHostTest -----------------------------
(***************************************************************************)
(* The logon for TLC: names and passwords at the lengths where the length  *)
(* field grows (128, 256) and where the request takes a second sentence,   *)
(* ports at the edges of one, two and three bytes.                         *)
(***************************************************************************)
EXTENDS HostTest

Text(n, c) == [i \in 1 .. n |-> c]

MCUsers ==
  {<<Text(n, 65), Text(255 - n, 42)>> : n \in {0, 127, 128}}
    \cup {<<Text(1, 65), Text(256, 42)>>}

MCReplies ==
  {[result |-> Int32(0), newhost |-> <<>>, port |-> <<0, 0, 0, 128>>],
   [result |-> Int32(3), newhost |-> <<>>, port |-> <<0, 0, 128, 0>>],
   [result |-> Int32(10), newhost |-> <<>>, port |-> <<0, 0, 0, 127>>],
   [result |-> Int32(0), newhost |-> Text(20, 104), port |-> Int32(0)]}
=============================================================================
