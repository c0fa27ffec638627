-------------------------------- MODULE Uart --------------------------------
(***************************************************************************)
(* One UART with its two sides.  They share the interrupt and the mode;    *)
(* "uses" says which of them the program uses.                             *)
(***************************************************************************)
EXTENDS UartTransmit, UartReceive

CONSTANT Programs   \* the sets of sides that are looked at

VARIABLE uses

vars == <<isDMAEnabled, uses, txVars, rxVars>>

Init == isDMAEnabled \in BOOLEAN /\ uses \in Programs /\ TransmitInit /\ ReceiveInit

Transmits == "transmit" \in uses /\ UNCHANGED <<isDMAEnabled, uses, rxVars>>
Receives == "receive" \in uses /\ UNCHANGED <<isDMAEnabled, uses, txVars>>

(* UARTIRQHandler: the branches for receiving come first.                  *)
UARTIRQHandler ==
    \/ Receives /\ ReceiveIRQ
    \/ Transmits /\ ~ReceivePending /\ TransmitIRQ

Next ==
    \/ UARTIRQHandler
    \/ Transmits /\ Transmit
    \/ Receives /\ Receive

(* The interrupts are served, the hardware works, and a thread finishes    *)
(* the calls it began.  The stream stores a byte that waits for it before  *)
(* ReceiveTrigger, which runs every 10 milliseconds, stops it again and    *)
(* again.                                                                  *)
Spec ==
    /\ Init /\ [][Next]_vars
    /\ WF_vars(UARTIRQHandler)
    /\ WF_vars(Transmits /\ WriteStep) /\ WF_vars(Transmits /\ DMATransmitFinishedHandler)
    /\ WF_vars(Transmits /\ DMATransfer) /\ WF_vars(Transmits /\ Shift)
    /\ WF_vars(Receives /\ ReadStep) /\ WF_vars(Receives /\ DMAReceiveFinishedHandler)
    /\ WF_vars(Receives /\ ReceiveTrigger) /\ SF_vars(Receives /\ DMAStore)
=============================================================================
