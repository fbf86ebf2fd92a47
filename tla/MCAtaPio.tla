------------------------------ MODULE MCAtaPio ------------------------------
(* A partition of two sectors in the middle of a disk of four, and calls   *)
(* for one or two sectors at, across and behind its end.                   *)
EXTENDS AtaPio

SmallRequests ==
  {r \in [op : {"read", "write"}, sector : 0 .. 2, num : 1 .. 3] : r.num < 3 \/ r.sector = 0}
=============================================================================
