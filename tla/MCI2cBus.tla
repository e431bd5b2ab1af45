------------------------------ MODULE MCI2cBus ------------------------------
(* Two slave tasks and one empty address on a bus with bytes of three bits:  *)
(* two bits of address and the direction.                                    *)
EXTENDS I2cBus

MCDevices == {1, 2}
MCAbsent == {3}
MCWritten == {1, 6}
MCSupplied == {2, 5}
============================================================================
