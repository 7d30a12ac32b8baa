----------------------------- MODULE MCListReload -----------------------------
(***************************************************************************)
(* Two lists, a tick counter that wraps onto two reload ticks in a row as  *)
(* the u8 does (255 and 0 are both multiples of five).                     *)
(***************************************************************************)
EXTENDS ListReload
===============================================================================
