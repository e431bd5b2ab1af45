------------------------------ MODULE MCUartTx ------------------------------
(* UartTx with two data bits (6 is masked to 2), bits of two ticks, calls  *)
(* of at most one, a FIFO of two bytes and four bytes accepted: enough for *)
(* a kick-off, a full FIFO and a byte dropped, with the clock wrapping.    *)
EXTENDS UartTx

MCModes == {"buffered", "timer", "poll"}
MCBuffered == {"buffered"}
MCFormats == {<<"none", 2>>, <<"odd", 1>>}
MCData == {1, 6}

=============================================================================
