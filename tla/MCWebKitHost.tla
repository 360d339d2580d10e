---------------------------- MODULE MCWebKitHost ----------------------------
(* The instance of WebKitHost that TLC checks. *)
EXTENDS WebKitHost
=============================================================================
