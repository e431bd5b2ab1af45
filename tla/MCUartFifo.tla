----------------------------- MODULE MCUartFifo -----------------------------
(* UartFifo with storage for three: a FIFO of two bytes whose indices      *)
(* wrap in the course of a behaviour; all sequences of two byte values.    *)
EXTENDS UartFifo

MCBytes == 0 .. 1

=============================================================================
