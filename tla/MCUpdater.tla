------------------------------ MODULE MCUpdater ------------------------------
(***************************************************************************)
(* One address of either family, and Cloudflare changing its ranges once.  *)
(***************************************************************************)
EXTENDS Updater
===============================================================================
