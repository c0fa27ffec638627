------------------------------- MODULE CanLink -------------------------------
(***************************************************************************)
(* Messages over a CAN bus (src/independent/gateway/linkinterfacecan.cpp): *)
(* senders cut a message into frames with a sequence counter, the bus      *)
(* interleaves the frames of the senders, and the receiver puts one        *)
(* message together at a time, keeping the frames with other identifiers   *)
(* in a list of buffers for later.                                         *)
(*                                                                         *)
(* A sender stands for a CAN identifier, which its node and one topic      *)
(* have; networkOutProtector makes it send one message after the other.    *)
(* It is assumed that no two senders have the same identifier.  The code   *)
(* puts only 8 bits of the node into it, and a router forwards under the   *)
(* number of the node that published.                                      *)
(* A frame carries, in place of bytes, which message it was cut from.      *)
(* getNetworkMsg is called again whenever it returns; one step stands for  *)
(* one pass of one of its two loops.                                       *)
(***************************************************************************)
EXTENDS Naturals, Sequences

CONSTANTS Senders,
          Messages,   \* bound: how many messages each sender sends
          Frames,     \* the frames of each message of a sender
          CAN_MSG_BUFFER_SIZE,
          MaxFaults,  \* bound: frames lost on the bus, messages given up
          Bus         \* bound: the frames that wait to be read

NoId == "0"

ASSUME CanLinkAssumption ==
    /\ Frames \in [Senders -> Nat \ {0}] /\ {Messages, MaxFaults, Bus} \subseteq Nat
    /\ CAN_MSG_BUFFER_SIZE \in Nat /\ CAN_MSG_BUFFER_SIZE > 1
    /\ NoId \notin Senders

(* BufferedCANMessage_memory.                                              *)
Buffers == 0 .. CAN_MSG_BUFFER_SIZE - 1

VARIABLES sending,  \* message and frame each sender sends next
          bus,      \* the frames that can.read returns
          faults,   \* lost frames and given up messages
          mem,      \* the frame in each buffer
          empty,    \* the stack emptyBufferedCANMessages, its top at the end
          list,     \* bufferedCANMsgs_start ... bufferedCANMsgs_end
          pos,      \* the element the first loop looks at; 0: the second loop runs
          current,  \* currentReceiveCANId
          parts,    \* the frames in currentMsg
          whole,    \* history: what getNetworkMsg returned, and what was sent completely,
          sent,
          damaged   \* and the messages a frame of which was lost, not sent or overwritten

vars == <<sending, bus, faults, mem, empty, list, pos, current, parts, whole, sent, damaged>>
sendVars == <<sending, bus, sent>>

(* The stack and the list are sequences: their last element, the ones      *)
(* before it, and what is left when an element is unlinked.                *)
Last(s) == s[Len(s)]
Front(s) == SubSeq(s, 1, Len(s) - 1)
unlinked(s, i) == SubSeq(s, 1, i - 1) \o SubSeq(s, i + 1, Len(s))

NoFrame == [id |-> NoId, seq |-> 0, of |-> 0]

(* Where a call of getNetworkMsg begins: at the list when no message has   *)
(* been begun.                                                             *)
beginNoList(id) == 0
begin(id) == IF id = NoId THEN 1 ELSE 0

(* Constructor and init.                                                   *)
Init ==
    /\ sending = [s \in Senders |-> [of |-> 1, seq |-> 0]]
    /\ bus = << >> /\ faults = 0
    /\ mem = [b \in Buffers |-> NoFrame]
    /\ empty = [i \in 1 .. CAN_MSG_BUFFER_SIZE |-> i - 1] /\ list = << >>
    /\ pos = begin(NoId) /\ current = NoId /\ parts = << >>
    /\ whole = {} /\ sent = {} /\ damaged = {}

-----------------------------------------------------------------------------
(* One pass of the loop in sendNetworkMsg: the next frame goes to the bus, *)
(* or is lost there; or the hardware reports an error, and the rest of the *)
(* message is not sent.                                                    *)
nextMessage(s) == sending' = [sending EXCEPT ![s] = [of |-> @.of + 1, seq |-> 0]]

nextFrame(s) ==
    IF sending[s].seq + 1 < Frames[s]
    THEN sending' = [sending EXCEPT ![s].seq = @ + 1] /\ UNCHANGED sent
    ELSE nextMessage(s) /\ sent' = sent \cup {<<s, sending[s].of>>}

Fault(s) ==
    /\ faults < MaxFaults /\ faults' = faults + 1
    /\ damaged' = damaged \cup {<<s, sending[s].of>>}

sendNetworkMsg(s) ==
    /\ sending[s].of <= Messages
    /\ \/ /\ Len(bus) < Bus
          /\ bus' = Append(bus, [id |-> s, seq |-> sending[s].seq, of |-> sending[s].of])
          /\ nextFrame(s)
          /\ UNCHANGED <<faults, damaged>>
       \/ /\ Fault(s)
          /\ nextFrame(s)
          /\ UNCHANGED bus
       \/ /\ Fault(s)
          /\ nextMessage(s)
          /\ UNCHANGED <<bus, sent>>
    /\ UNCHANGED <<mem, empty, list, pos, current, parts, whole>>

-----------------------------------------------------------------------------
(* appendCANMsgToCurrentNetMsg: what becomes of the current message and    *)
(* of the stack of buffers.  A frame that is out of sequence is dropped.   *)
Continues(f) == f.id = current /\ f.seq = Len(parts)

AssembledNoRestart(f) ==
    IF f.seq = 0 /\ parts = << >> THEN <<f>> ELSE IF Continues(f) THEN Append(parts, f) ELSE parts

Assembled(f) ==
    IF f.seq = 0 THEN <<f>> ELSE IF Continues(f) THEN Append(parts, f) ELSE parts

Complete(f) == (f.seq = 0 \/ Continues(f)) /\ Len(Assembled(f)) = Frames[f.id]

pushInSequence(stack, b, f) == IF f.seq = 0 \/ Continues(f) THEN Append(stack, b) ELSE stack
push(stack, b, f) == Append(stack, b)

appendCANMsgToCurrentNetMsg(stack, b, f) ==
    /\ empty' = push(stack, b, f)
    /\ parts' = IF Complete(f) THEN << >> ELSE Assembled(f)
    /\ current' = IF Complete(f) THEN NoId ELSE IF f.seq = 0 THEN f.id ELSE current
    /\ whole' = IF Complete(f) THEN whole \cup {Assembled(f)} ELSE whole

belongs(f) == f.id = current \/ current = NoId

(* The first loop of getNetworkMsg looks through the list for the frames   *)
(* of the message that its first element begins.  With a complete message  *)
(* getNetworkMsg returns and is called again.                              *)
scan ==
    /\ pos > 0
    /\ \/ /\ pos > Len(list) /\ pos' = 0
          /\ UNCHANGED <<empty, list, current, parts, whole>>
       \/ /\ pos <= Len(list) /\ ~belongs(mem[list[pos]]) /\ pos' = pos + 1
          /\ UNCHANGED <<empty, list, current, parts, whole>>
       \/ /\ pos <= Len(list) /\ belongs(mem[list[pos]])
          /\ list' = unlinked(list, pos)
          /\ appendCANMsgToCurrentNetMsg(empty, list[pos], mem[list[pos]])
          /\ pos' = IF Complete(mem[list[pos]]) THEN begin(NoId) ELSE pos
    /\ UNCHANGED <<sendVars, faults, mem, damaged>>

(* receiveCANMessage takes an empty buffer, or else the last one of the    *)
(* list, whose frame is then lost.                                         *)
msg == IF empty # << >> THEN Last(empty) ELSE Last(list)
emptyWithout == IF empty # << >> THEN Front(empty) ELSE << >>
listWithout == IF empty # << >> THEN list ELSE Front(list)
steal ==
    damaged' = IF empty # << >> THEN damaged
                                ELSE damaged \cup {<<mem[msg].id, mem[msg].of>>}

(* The second loop, for a frame that can.read returns.                     *)
read ==
    /\ pos = 0 /\ bus # << >>
    /\ bus' = Tail(bus)
    /\ mem' = [mem EXCEPT ![msg] = Head(bus)]
    /\ steal
    /\ \/ /\ belongs(Head(bus))
          /\ list' = listWithout
          /\ appendCANMsgToCurrentNetMsg(emptyWithout, msg, Head(bus))
          /\ pos' = IF Complete(Head(bus)) THEN begin(NoId) ELSE 0
       \/ /\ ~belongs(Head(bus))
          /\ list' = Append(listWithout, msg)
          /\ empty' = emptyWithout
          /\ UNCHANGED <<pos, current, parts, whole>>
    /\ UNCHANGED <<sending, sent, faults>>

(* There is nothing to read: getNetworkMsg returns and is called again.    *)
readNothing ==
    /\ pos = 0 /\ bus = << >>
    /\ empty' = Append(emptyWithout, msg) /\ list' = listWithout
    /\ steal
    /\ pos' = begin(current)
    /\ UNCHANGED <<sendVars, faults, mem, current, parts, whole>>

getNetworkMsg == scan \/ read \/ readNothing

Next == getNetworkMsg \/ \E s \in Senders : sendNetworkMsg(s)

(* The thread of the gateway calls getNetworkMsg again and again, and the  *)
(* loop of sendNetworkMsg ends: it sends the whole message or gives up.    *)
Spec ==
    /\ Init /\ [][Next]_vars /\ WF_vars(getNetworkMsg)
    /\ \A s \in Senders : WF_vars(sending[s].seq > 0 /\ sendNetworkMsg(s))

-----------------------------------------------------------------------------
Elements(s) == {s[i] : i \in 1 .. Len(s)}

(* Every buffer is in the stack or in the list, and in one place only, so  *)
(* that the stack never overflows (linkinterfacecan.cpp:225, 240) and the  *)
(* list has two elements when one is stolen (linkinterfacecan.cpp:199).    *)
BuffersConserved ==
    /\ Len(empty) + Len(list) = CAN_MSG_BUFFER_SIZE
    /\ Elements(empty) \cup Elements(list) = Buffers

(* A message that getNetworkMsg returns consists of frames of one sender,  *)
(* and of one message, or else of messages each of which lost a frame: the *)
(* sequence counter notices everything that befalls one message, whatever  *)
(* happens to the others (linkinterfacecan.cpp:273).                       *)
OnlyDamagedMixed ==
    \A w \in whole : \A i, j \in DOMAIN w :
        w[i].id = w[j].id /\ (w[i].of # w[j].of => <<w[i].id, w[i].of>> \in damaged)

(* Without damage every message that was sent is received, however the     *)
(* frames of several senders are interleaved (linkinterfacecan.cpp:122,    *)
(* 165).                                                                   *)
AllReceived ==
    \A s \in Senders, k \in 1 .. Messages :
        <<s, k>> \in sent ~> damaged # {} \/ \E w \in whole : w[1].id = s /\ w[1].of = k
=============================================================================
