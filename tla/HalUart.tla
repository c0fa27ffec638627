------------------------------ MODULE HalUart ------------------------------
(* What both sides of the UART driver of the STM32F4 share.                *)
EXTENDS BlockFifo

CONSTANTS Byte,   \* the bytes that are sent and received
          Zero,   \* the one static memory is filled with
          None    \* an empty register

ASSUME ByteAssumption == Zero \in Byte /\ None \notin Byte

VARIABLE isDMAEnabled   \* chosen by config before the UART is used

smaller(a, b) == IF a < b THEN a ELSE b

InRegister(r) == IF r = None THEN << >> ELSE <<r>>
=============================================================================
