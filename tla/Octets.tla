------------------------------- MODULE Octets -------------------------------
(* What files are made of: unsigned char and uint8_t. *)
EXTENDS Integers, Sequences

Byte == 0 .. 255
Bytes == Seq(Byte)
=============================================================================
