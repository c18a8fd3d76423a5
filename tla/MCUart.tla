-------------------------------- MODULE MCUart -------------------------------
(* Instances of Uart for TLC, with the rings of msp430.c: a request is     *)
(* longer than the receiving ring, as greetings and messages are, and a    *)
(* reply overfills the other, the transmitter's buffer and the line        *)
(* together.                                                               *)
EXTENDS Uart
=============================================================================
