--------------------------- MODULE MCCertificates ---------------------------
(* Small instances of Certificates. *)
EXTENDS Certificates

CONSTANTS r1, r2, r3, n1, c1, ca1, ca2, worker, sync

\* Every node uses the first root.
FirstRoot == [n \in Nodes |-> ca1]
=============================================================================
