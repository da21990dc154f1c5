----------------------------- MODULE MCUiDrafts -----------------------------
(* Small instance of UiDrafts: a page with a form, another page that polls  *)
(* one list, and a page that polls nothing (settings of backups).           *)
EXTENDS UiDrafts

CONSTANTS a, b

PageRoutes == {"form", "home", "idle"}
PageKeys == [r \in PageRoutes |-> CASE r = "form" -> {"list", "more"}
                                   [] r = "home" -> {"more"}
                                   [] r = "idle" -> {}]
SaveKeys == [o \in {"save"} |-> {"list"}]
=============================================================================
