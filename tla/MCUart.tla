------------------------------- MODULE MCUart -------------------------------
(* One UART, each of its sides alone.                                      *)
EXTENDS Uart

EachSide == {{"transmit"}, {"receive"}}
=============================================================================
