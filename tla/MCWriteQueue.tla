---------------------------- MODULE MCWriteQueue ----------------------------
(* Small instances of WriteQueue for TLC. *)
EXTENDS WriteQueue

=============================================================================
