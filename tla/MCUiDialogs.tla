----------------------------- MODULE MCUiDialogs -----------------------------
(* Small instances of UiDialogs. *)
EXTENDS UiDialogs

CONSTANTS A, B, a, b

\* Every dialog, and the session alone.
DialogsAndSession == AllDialogs \cup {NoDialog}
=============================================================================
