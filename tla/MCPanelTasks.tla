---------------------------- MODULE MCPanelTasks ----------------------------
(* Small instances of PanelTasks. *)
EXTENDS PanelTasks

CONSTANTS worker, sync, n1, n2, r1, r2, q1

\* Two revocations.
CrlKind == [r \in Requests |-> "crl_deploy"]

\* One revocation and one change of the CA file.
CrlAndCaKind == [r \in Requests |-> IF r = r1 THEN "crl_deploy"
                                    ELSE "openvpn_ca_sync"]
=============================================================================
