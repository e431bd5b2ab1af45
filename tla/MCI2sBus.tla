------------------------------ MODULE MCI2sBus ------------------------------
(* Both tasks with inputs, outputs or both, free to restart or shut down   *)
(* after any frame.                                                        *)
EXTENDS I2sBus

MCCommands == Commands
============================================================================
