----------------------------- MODULE MCTdmSlave -----------------------------
(* TdmSlave with frames of three words of three bits, with and without an  *)
(* offset, an fsync pulse of one bit and one of three, and two slips.      *)
EXTENDS TdmSlave

MCFsyncLens == {1, 3}
MCTxOffsets == {0, 2}
MCCommands == Commands

=============================================================================
