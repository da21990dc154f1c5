-------------------------- MODULE MCClientSessions --------------------------
(* Small instances of ClientSessions. *)
EXTENDS ClientSessions

CONSTANTS n1, n2, s1, s2, list1, view1, kill1

\* Each session is on a node of its own.
TwoNodes == [s \in Sessions |-> IF s = s1 THEN n1 ELSE n2]

\* The worker alone over two nodes, and all requests over one.
WorkerAndRequests ==
  {[nodes |-> {n1, n2}, sessions |-> {s1, s2}, requests |-> {}, crashes |-> 1],
   [nodes |-> {n1}, sessions |-> {s1}, requests |-> {list1, view1, kill1},
    crashes |-> 0]}
=============================================================================
