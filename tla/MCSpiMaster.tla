---------------------------- MODULE MCSpiMaster ----------------------------
(* Two devices with different delays, one too short to be waited for;     *)
(* transfers of one to six bytes, with and without data_out and data_in.   *)
EXTENDS SpiMaster

MCDevices == {"a", "b"}
MCCsToClk == [d \in MCDevices |-> IF d = "a" THEN 2 ELSE 1]
MCClkToCs == [d \in MCDevices |-> IF d = "a" THEN 0 ELSE 2]
MCCsToCs == [d \in MCDevices |-> IF d = "a" THEN 3 ELSE 2]
MCDelays == {0, 1, 3}
MCLens == 1..6
============================================================================
