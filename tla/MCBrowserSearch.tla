--------------------------- MODULE MCBrowserSearch ---------------------------
(* The browser search on a small instance. *)
EXTENDS BrowserSearch
=============================================================================
