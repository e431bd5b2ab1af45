----------------------------- MODULE MCSpiSlave -----------------------------
(* Bytes of two bits and words of two bytes; transactions of up to three     *)
(* words and a part, into and out of buffers of any length up to five bytes. *)
EXTENDS SpiSlave

MCLens == 0..5
============================================================================
