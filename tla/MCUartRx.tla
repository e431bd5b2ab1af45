------------------------------ MODULE MCUartRx ------------------------------
(* UartRx with two data bits, receiver bits of 12 ticks and senders 8% to  *)
(* either side: the last of five samples is still inside its bit.          *)
EXTENDS UartRx

MCModes == {"buffered", "blocking"}
MCParities == {"none", "even"}
MCData == 0 .. 3
MCSenderTicks == {11, 12, 13}
MCKinds == {"good", "parity", "framing", "glitch"}

ASSUME MCClocks == SamplesInside

=============================================================================
