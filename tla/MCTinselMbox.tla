---------------------------- MODULE MCTinselMbox ----------------------------
(* Small mailboxes for TLC. *)
EXTENDS TinselMbox

Slots4 == 0 .. 3
=============================================================================
