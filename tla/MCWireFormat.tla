---------------------------- MODULE MCWireFormat ------------------------------
(***************************************************************************)
(* Facts without a key to clean, with each kind of it, and with two keys   *)
(* that become one.                                                        *)
(***************************************************************************)
EXTENDS WireFormat

MCFactKeys == {{"plain"}, {".", "_dot_"}, {"$", "."}}

=============================================================================
