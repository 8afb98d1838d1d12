----------------------------- MODULE MCDurability -----------------------------
(***************************************************************************)
(* Requests to one destination under every mode, wherever the server runs. *)
(***************************************************************************)
EXTENDS Durability

EveryMode     == {"full", "barrier", "none"}
EveryPlatform == {"macos", "unix", "other"}

===============================================================================
