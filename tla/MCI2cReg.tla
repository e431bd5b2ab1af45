------------------------------ MODULE MCI2cReg ------------------------------
(* Register functions against one device and one empty address. *)
EXTENDS I2cReg

MCDevices == {1}
MCAbsent == {2}
MCWritten == {1, 2}
MCSupplied == {3, 4}
============================================================================
