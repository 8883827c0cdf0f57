---------------------------- MODULE MCModelProxy ----------------------------
(* Small instances of ModelProxy for TLC. *)
EXTENDS ModelProxy

CONSTANTS c1, c2

MCConn == {c1, c2}
==============================================================================
