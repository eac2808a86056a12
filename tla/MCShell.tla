------------------------------- MODULE MCShell -------------------------------
(***************************************************************************)
(* Bounds.  Three gateways: the first, one that the WebUI restarts, one    *)
(* that is relaunched.  A list of two notices, so that it overflows; the   *)
(* cooldown of toasts is two ticks.  Three checks for updates, of two      *)
(* tries each: one that knows, one that fails, one that crosses them.      *)
(***************************************************************************)
EXTENDS Shell
=============================================================================
