------------------------------ MODULE MCUiLoads ------------------------------
(* Small instances of UiLoads. *)
EXTENDS UiLoads

CONSTANTS a, b

FirewallLoad == {serverFirewall}
=============================================================================
