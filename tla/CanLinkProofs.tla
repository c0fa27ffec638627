---------------------------- MODULE CanLinkProofs ----------------------------
(***************************************************************************)
(* No buffer of the CAN link is ever lost or in use twice, for any number  *)
(* of buffers of at least two, of senders and of frames: whatever the bus  *)
(* delivers, loses or interleaves.  And what getNetworkMsg returns is one  *)
(* message of one sender, or pieces of messages each of which was damaged. *)
(***************************************************************************)
EXTENDS CanLink, TLAPS

USE SMTT(20)

N == CAN_MSG_BUFFER_SIZE

(* Stack and list hold buffers; together as many as there are.             *)
IInv ==
    /\ empty \in Seq(Buffers) /\ list \in Seq(Buffers) /\ pos \in Nat
    /\ BuffersConserved

-----------------------------------------------------------------------------
(* The frames of a sender in the order in which they were cut.             *)
Frame == [id : Senders, seq : Nat, of : Nat]
Before(f, g) == f.of < g.of \/ (f.of = g.of /\ f.seq < g.seq)
Sent(f) == f.seq < Frames[f.id] /\ Before(f, [id |-> f.id, seq |-> sending[f.id].seq, of |-> sending[f.id].of])

listed(k) == mem[list[k]]
Pending == {f \in Frame : \/ \E k \in 1 .. Len(list) : listed(k) = f
                          \/ \E k \in 1 .. Len(bus) : bus[k] = f}
Excused(f) == f \in Pending \/ <<f.id, f.of>> \in damaged

Types ==
    /\ sending \in [Senders -> [of : Nat, seq : Nat]]
    /\ \A s \in Senders : sending[s].seq < Frames[s]
    /\ bus \in Seq(Frame) /\ parts \in Seq(Frame)
    /\ mem \in [Buffers -> Frame \cup {NoFrame}]
    /\ current \in Senders \cup {NoId}
    /\ \A k \in 1 .. Len(list) : listed(k) \in Frame

(* No buffer is in two places.                                             *)
Separate(p, q) ==
    /\ \A k, l \in 1 .. Len(p) : p[k] = p[l] => k = l
    /\ \A k, l \in 1 .. Len(q) : q[k] = q[l] => k = l
    /\ \A k \in 1 .. Len(p), l \in 1 .. Len(q) : p[k] # q[l]

Apart == Separate(list, empty)

(* The frames of a sender wait in the order in which they were sent, those *)
(* in the list before those on the bus.                                    *)
Ordered ==
    /\ \A k, l \in 1 .. Len(list) : k < l /\ listed(k).id = listed(l).id => Before(listed(k), listed(l))
    /\ \A k \in 1 .. Len(list), l \in 1 .. Len(bus) : listed(k).id = bus[l].id => Before(listed(k), bus[l])
    /\ \A k, l \in 1 .. Len(bus) : k < l /\ bus[k].id = bus[l].id => Before(bus[k], bus[l])

(* What the receiver has passed in the list is not of the current message. *)
Passed ==
    /\ current = NoId => pos = 1 \/ (pos = 0 /\ list = << >>)
    /\ current # NoId => \A k \in 1 .. Len(list) : pos = 0 \/ k < pos => listed(k).id # current

(* A frame that is missing behind one that waits, or behind the last one   *)
(* of the message that is being put together, belongs to a damaged message.*)
NoHoles ==
    /\ \A f \in Pending : Sent(f)
    /\ \A f \in Pending, g \in Frame : g.id = f.id /\ Before(f, g) /\ Sent(g) => Excused(g)

lastPart == parts[Len(parts)]

(* Nothing of the same sender waits before this frame.                     *)
First(f) == \A g \in Pending : g.id = f.id => g = f \/ Before(f, g)

Begun ==
    /\ parts # << >> /\ Len(parts) < Frames[current] /\ Sent(lastPart)
    /\ \A k \in 1 .. Len(parts) : parts[k].id = current /\ parts[k].seq = k - 1
    /\ \A f \in Pending : f.id = current => Before(lastPart, f)
    /\ \A g \in Frame : g.id = current /\ Before(lastPart, g) /\ Sent(g) => Excused(g)
    /\ \A k, l \in 1 .. Len(parts) : parts[k].of # parts[l].of => <<parts[k].id, parts[k].of>> \in damaged

Assembly ==
    /\ NoHoles /\ OnlyDamagedMixed
    /\ current = NoId => parts = << >>
    /\ current # NoId => Begun

LinkInv == IInv /\ Types /\ Apart /\ Ordered /\ Passed /\ Assembly

-----------------------------------------------------------------------------
(* There are at least two buffers.                                         *)
LEMMA AtLeastTwo == N \in Nat /\ N > 1
BY CanLinkAssumption DEF N

(* init pushes every buffer on the stack once (lines 43-45).               *)
LEMMA AllPushed ==
    LET s == [i \in 1 .. N |-> i - 1]
    IN  /\ s \in Seq(Buffers) /\ Len(s) = N /\ Elements(s) = Buffers
        /\ \A k, l \in 1 .. N : s[k] = s[l] => k = l
<1> DEFINE s == [i \in 1 .. N |-> i - 1]
<1>1. s \in [1 .. N -> Buffers]
    BY AtLeastTwo DEF N, Buffers
<1>2. s \in Seq(Buffers) /\ Len(s) = N /\ DOMAIN s = 1 .. N
    BY <1>1, AtLeastTwo
<1>3. ASSUME NEW b \in Buffers PROVE b \in Elements(s)
    <2>1. b + 1 \in 1 .. N /\ s[b + 1] = b
        BY AtLeastTwo DEF N, Buffers
    <2> QED BY <2>1, <1>2, Zenon DEF Elements
<1>4. Elements(s) = Buffers
    BY <1>1, <1>2, <1>3, Zenon DEF Elements
<1>5. \A k, l \in 1 .. N : s[k] = s[l] => k = l
    BY AtLeastTwo
<1> QED BY <1>2, <1>4, <1>5, Zenon

(* A buffer that is pushed or appended is in the sequence.                 *)
LEMMA Appended ==
    ASSUME NEW s \in Seq(Buffers), NEW b \in Buffers
    PROVE  /\ Append(s, b) \in Seq(Buffers) /\ Len(Append(s, b)) = Len(s) + 1
           /\ Elements(Append(s, b)) = Elements(s) \cup {b}
<1>1. /\ Append(s, b) \in Seq(Buffers) /\ Len(Append(s, b)) = Len(s) + 1 /\ Len(s) \in Nat
      /\ \A i \in 1 .. Len(s) : Append(s, b)[i] = s[i]
      /\ Append(s, b)[Len(s) + 1] = b
    OBVIOUS
<1>2. DOMAIN s = 1 .. Len(s) /\ DOMAIN Append(s, b) = 1 .. Len(s) + 1
    BY <1>1
<1>3. \A i \in 1 .. Len(s) + 1 : i \in 1 .. Len(s) \/ i = Len(s) + 1
    BY <1>1
<1>4. 1 .. Len(s) \subseteq 1 .. Len(s) + 1 /\ Len(s) + 1 \in 1 .. Len(s) + 1
    BY <1>1
<1> HIDE DEF Elements
<1>5. Elements(Append(s, b)) \subseteq Elements(s) \cup {b} BY <1>1, <1>2, <1>3, Zenon DEF Elements
<1>6. Elements(s) \cup {b} \subseteq Elements(Append(s, b)) BY <1>1, <1>2, <1>4, Zenon DEF Elements
<1> QED BY <1>1, <1>5, <1>6, Zenon

(* Without the element at i the others move up.                            *)
LEMMA MovedUp ==
    ASSUME NEW s \in Seq(Buffers), NEW i \in 1 .. Len(s)
    PROVE  LET r == unlinked(s, i)
           IN  /\ r \in Seq(Buffers) /\ Len(r) = Len(s) - 1
               /\ \A k \in 1 .. i - 1 : r[k] = s[k]
               /\ \A k \in i .. Len(s) - 1 : r[k] = s[k + 1]
<1> DEFINE a == SubSeq(s, 1, i - 1)  c == SubSeq(s, i + 1, Len(s))  r == unlinked(s, i)
<1>0. Len(s) \in Nat /\ i \in Nat /\ s[i] \in Buffers OBVIOUS
<1>1. a \in Seq(Buffers) /\ Len(a) = i - 1 /\ \A k \in 1 .. i - 1 : a[k] = s[k]
    BY <1>0
<1>2. c \in Seq(Buffers) /\ Len(c) = Len(s) - i /\ \A k \in 1 .. Len(s) - i : c[k] = s[k + i]
    BY <1>0
<1>3. r = a \o c BY Zenon DEF unlinked
<1> HIDE DEF a, c, r
<1>4. /\ r \in Seq(Buffers) /\ Len(r) = Len(s) - 1
      /\ \A k \in 1 .. i - 1 : r[k] = s[k]
      /\ \A k \in i .. Len(s) - 1 : r[k] = s[k + 1]
    <2>1. r \in Seq(Buffers) /\ Len(r) = Len(s) - 1 BY <1>0, <1>1, <1>2, <1>3
    <2>2. ASSUME NEW k \in 1 .. i - 1 PROVE r[k] = s[k]
        <3>1. k \in 1 .. Len(a) BY <1>0, <1>1, Zenon
        <3>2. r[k] = a[k] BY <1>1, <1>2, <1>3, <3>1
        <3> QED BY <1>1, <3>2, Zenon
    <2>3. ASSUME NEW k \in i .. Len(s) - 1 PROVE r[k] = s[k + 1]
        <3>1. k - (i - 1) \in 1 .. Len(s) - i /\ k - (i - 1) + i = k + 1 BY <1>0
        <3>2. r[k] = c[k - Len(a)] BY <1>0, <1>1, <1>2, <1>3, <3>1
        <3> QED BY <1>1, <1>2, <3>1, <3>2, Zenon
    <2> QED BY <2>1, <2>2, <2>3, Zenon
<1> QED BY <1>4, Zenon DEF r

(* Without the element at i the sequence holds the others, and is one      *)
(* shorter.                                                                *)
LEMMA Removed ==
    ASSUME NEW s \in Seq(Buffers), NEW i \in 1 .. Len(s)
    PROVE  /\ unlinked(s, i) \in Seq(Buffers) /\ Len(unlinked(s, i)) = Len(s) - 1
           /\ s[i] \in Buffers
           /\ Elements(unlinked(s, i)) \cup {s[i]} = Elements(s)
<1> DEFINE r == unlinked(s, i)
<1>0. Len(s) \in Nat /\ i \in Nat /\ s[i] \in Buffers OBVIOUS
<1>4. /\ r \in Seq(Buffers) /\ Len(r) = Len(s) - 1
      /\ \A k \in 1 .. i - 1 : r[k] = s[k]
      /\ \A k \in i .. Len(s) - 1 : r[k] = s[k + 1]
    BY MovedUp, Zenon
<1> HIDE DEF r
<1>5. DOMAIN s = 1 .. Len(s) /\ DOMAIN r = 1 .. Len(s) - 1 BY <1>0, <1>4
<1>6. ASSUME NEW k \in 1 .. Len(s) - 1 PROVE r[k] \in Elements(s)
    <2>1. CASE k < i
        <3>1. k \in 1 .. i - 1 /\ k \in 1 .. Len(s) BY <1>0, <2>1
        <3>2. r[k] = s[k] BY ONLY <1>4, <3>1, Zenon
        <3> QED BY ONLY <1>5, <3>1, <3>2, Zenon DEF Elements
    <2>2. CASE k >= i
        <3>1. k \in i .. Len(s) - 1 /\ k + 1 \in 1 .. Len(s) BY <1>0, <2>2
        <3>2. r[k] = s[k + 1] BY ONLY <1>4, <3>1, Zenon
        <3> QED BY ONLY <1>5, <3>1, <3>2, Zenon DEF Elements
    <2> QED BY <1>0, <2>1, <2>2
<1>7. ASSUME NEW k \in 1 .. Len(s) PROVE s[k] \in Elements(r) \cup {s[i]}
    <2>1. CASE k < i
        <3>1. k \in 1 .. Len(s) - 1 /\ r[k] = s[k] BY <1>0, <1>4, <2>1
        <3> QED BY ONLY <1>4, <1>5, <3>1, Zenon DEF Elements
    <2>2. CASE k > i
        <3>1. k - 1 \in 1 .. Len(s) - 1 /\ r[k - 1] = s[k] BY <1>0, <1>4, <2>2
        <3> QED BY <1>5, <3>1 DEF Elements
    <2> QED BY <1>0, <2>1, <2>2
<1>8. s[i] \in Elements(s) BY <1>5, Zenon DEF Elements
<1>9. Elements(r) \subseteq Elements(s) BY <1>5, <1>6 DEF Elements
<1>10. Elements(s) \subseteq Elements(r) \cup {s[i]} BY <1>5, <1>7, Zenon DEF Elements
<1> QED BY <1>0, <1>4, <1>8, <1>9, <1>10, Zenon DEF r

(* The last element and those before it.                                   *)
LEMMA FrontAndLast ==
    ASSUME NEW s \in Seq(Buffers), s # << >>
    PROVE  /\ Front(s) \in Seq(Buffers) /\ Len(Front(s)) = Len(s) - 1
           /\ Last(s) \in Buffers
           /\ Elements(Front(s)) \cup {Last(s)} = Elements(s)
<1>1. Len(s) \in Nat /\ Len(s) \in 1 .. Len(s) OBVIOUS
<1>2. unlinked(s, Len(s)) = Front(s)
    BY <1>1 DEF unlinked, Front
<1> QED BY <1>1, <1>2, Removed, Zenon DEF Last

(* getEmptyBuffer takes one buffer, from the stack or from the list (lines *)
(* 187-209).                                                               *)
LEMMA Taken ==
    ASSUME IInv
    PROVE  /\ msg \in Buffers
           /\ emptyWithout \in Seq(Buffers) /\ listWithout \in Seq(Buffers)
           /\ Len(emptyWithout) + Len(listWithout) = N - 1
           /\ Elements(emptyWithout) \cup Elements(listWithout) \cup {msg} = Buffers
<1> USE DEF IInv, BuffersConserved, N
<1>1. CASE empty # << >>
    BY <1>1, FrontAndLast DEF msg, emptyWithout, listWithout
<1>2. CASE empty = << >>
    <2>1. list # << >> BY <1>2, AtLeastTwo
    <2>2. Elements(<< >>) = {} BY DEF Elements
    <2> QED BY <1>2, <2>1, <2>2, FrontAndLast DEF msg, emptyWithout, listWithout
<1> QED BY <1>1, <1>2, Zenon

(* Every step of the sender and of the receiver keeps the buffers.         *)
LEMMA Inductive ==
    ASSUME IInv, [Next]_vars
    PROVE  IInv'
<1> USE DEF IInv, N
<1>1. ASSUME NEW s \in Senders, sendNetworkMsg(s) PROVE IInv'
    BY <1>1, Zenon DEF sendNetworkMsg, BuffersConserved
<1>2. CASE scan
    <2>1. CASE pos > Len(list) /\ UNCHANGED <<empty, list>> /\ pos' = 0
        BY <2>1, Zenon DEF BuffersConserved
    <2>2. CASE UNCHANGED <<empty, list>> /\ pos' = pos + 1
        BY <2>2 DEF BuffersConserved
    <2>3. CASE /\ pos > 0 /\ pos <= Len(list) /\ list' = unlinked(list, pos)
               /\ empty' = Append(empty, list[pos]) /\ pos' \in {pos, 1}
        <3>1. pos \in 1 .. Len(list) /\ pos' \in Nat BY <2>3
        <3>2. /\ list' \in Seq(Buffers) /\ Len(list') = Len(list) - 1 /\ list[pos] \in Buffers
              /\ Elements(list') \cup {list[pos]} = Elements(list)
            BY <2>3, <3>1, Removed, Zenon
        <3>3. /\ empty' \in Seq(Buffers) /\ Len(empty') = Len(empty) + 1
              /\ Elements(empty') = Elements(empty) \cup {list[pos]}
            BY <2>3, <3>2, Appended, Zenon
        <3> QED BY <3>1, <3>2, <3>3 DEF BuffersConserved
    <2> QED BY <1>2, <2>1, <2>2, <2>3, Zenon DEF scan, appendCANMsgToCurrentNetMsg, push, begin
<1>3. CASE read \/ readNothing
    <2>1. pos' \in Nat BY <1>3 DEF read, readNothing, begin
    <2>2. CASE empty' = Append(emptyWithout, msg) /\ list' = listWithout
        BY <2>1, <2>2, Taken, Appended DEF BuffersConserved
    <2>3. CASE list' = Append(listWithout, msg) /\ empty' = emptyWithout
        BY <2>1, <2>3, Taken, Appended DEF BuffersConserved
    <2> QED BY <1>3, <2>2, <2>3, Zenon DEF read, readNothing, appendCANMsgToCurrentNetMsg, push
<1>4. CASE UNCHANGED vars
    BY <1>4, Zenon DEF vars, BuffersConserved
<1> QED BY <1>1, <1>2, <1>3, <1>4, Zenon DEF Next, getNetworkMsg

(* Every buffer is in the stack or in the list: the stack never overflows  *)
(* (linkinterfacecan.cpp:225, 240), and there is one to steal when it is   *)
(* empty (linkinterfacecan.cpp:194).                                       *)
THEOREM BuffersKept == Spec => []BuffersConserved
<1>1. Init => IInv
    <2> SUFFICES ASSUME Init PROVE IInv OBVIOUS
    <2>1. Elements(<< >>) = {} BY DEF Elements
    <2> QED BY <2>1, AllPushed, AtLeastTwo DEF Init, IInv, BuffersConserved, begin, N
<1>2. IInv => BuffersConserved
    BY Zenon DEF IInv
<1> QED BY <1>1, <1>2, Inductive, PTL DEF Spec
-----------------------------------------------------------------------------
(* The order of the frames of a sender.                                    *)
LEMMA BeforeOrder ==
    /\ \A f \in Frame : ~Before(f, f) /\ f.id \in Senders /\ f.seq \in Nat /\ f.of \in Nat
    /\ \A f, g \in Frame : Before(f, g) => ~Before(g, f)
    /\ \A f, g, h \in Frame : Before(f, g) /\ Before(g, h) => Before(f, h)
<1>1. \A f \in Frame : f.id \in Senders /\ f.seq \in Nat /\ f.of \in Nat
    BY Zenon DEF Frame
<1> QED BY <1>1 DEF Before

(* The frame a sender sends next.                                          *)
upcoming(s) == [id |-> s, seq |-> sending[s].seq, of |-> sending[s].of]

(* A frame was sent if it is before the one its sender sends next, so      *)
(* whatever was before a sent frame was sent too (sendNetworkMsg sends in  *)
(* order).                                                                 *)
LEMMA SentEarlier ==
    ASSUME Types
    PROVE  /\ \A s \in Senders : upcoming(s) \in Frame
           /\ \A f \in Frame : Sent(f) <=> f.seq < Frames[f.id] /\ Before(f, upcoming(f.id))
           /\ \A f, g \in Frame :
                f.id = g.id /\ Before(f, g) /\ Sent(g) /\ f.seq < Frames[f.id] => Sent(f)
<1>1. \A s \in Senders : upcoming(s) \in Frame
    BY Zenon DEF upcoming, Frame, Types
<1>2. \A f \in Frame : Sent(f) <=> f.seq < Frames[f.id] /\ Before(f, upcoming(f.id))
    BY Zenon DEF Sent, upcoming
<1> QED BY <1>1, <1>2, BeforeOrder, Zenon

(* A message has at least one frame.                                       *)
LEMMA FrameCount ==
    /\ \A s \in Senders : Frames[s] \in Nat /\ 0 < Frames[s]
    /\ NoId \notin Senders
BY CanLinkAssumption

(* Of a message of a later number the first frame is later, and before the *)
(* others.                                                                 *)
LEMMA Beginning ==
    ASSUME Types, NEW f \in Frame, Sent(f), f.seq # 0
    PROVE  LET g == [id |-> f.id, seq |-> 0, of |-> f.of]
           IN  /\ g \in Frame /\ Before(g, f) /\ Sent(g)
               /\ \A h \in Frame : h.of < f.of => Before(h, g)
<1> DEFINE g == [id |-> f.id, seq |-> 0, of |-> f.of]
<1>1. g \in Frame /\ g.id = f.id /\ g.seq = 0 /\ g.of = f.of /\ f.seq \in Nat
    BY BeforeOrder, Zenon DEF Frame
<1>2. Before(g, f) /\ g.seq < Frames[g.id]
    BY <1>1, FrameCount, BeforeOrder DEF Before
<1>3. \A h \in Frame : h.of < f.of => Before(h, g)
    BY <1>1, Zenon DEF Before
<1> HIDE DEF g
<1> QED BY <1>1, <1>2, <1>3, SentEarlier, Zenon DEF g

(* The frame that would continue the message that is being put together.   *)
LEMMA Continuation ==
    ASSUME Types, Begun, current \in Senders
    PROVE  LET g == [id |-> current, seq |-> Len(parts), of |-> lastPart.of]
           IN  /\ g \in Frame /\ g.seq < Frames[current] /\ Before(lastPart, g)
               /\ lastPart \in Frame /\ lastPart.id = current /\ lastPart.seq = Len(parts) - 1
               /\ Len(parts) \in Nat /\ Len(parts) > 0
<1>1. Len(parts) \in Nat /\ Len(parts) > 0 /\ Len(parts) \in 1 .. Len(parts)
    BY DEF Types, Begun
<1>2. lastPart \in Frame /\ lastPart.id = current /\ lastPart.seq = Len(parts) - 1
    BY <1>1 DEF Types, Begun, lastPart
<1>3. lastPart.of \in Nat
    BY <1>2, BeforeOrder, Zenon
<1> QED BY <1>1, <1>2, <1>3 DEF Frame, Before, Begun

(* A frame that is passed over in order while it is not pending is excused *)
(* by damage.                                                              *)
LEMMA MissingDamaged ==
    ASSUME Types, Begun, current \in Senders, NEW f \in Pending, First(f), f.id = current, Sent(f),
           NEW g \in Frame, g.id = current, Before(lastPart, g), Before(g, f), g.seq < Frames[current]
    PROVE  <<g.id, g.of>> \in damaged
<1>1. f \in Frame
    BY Zenon DEF Pending
<1>2. g \notin Pending
    BY <1>1, BeforeOrder, Zenon DEF First
<1>3. Sent(g)
    BY <1>1, SentEarlier, Zenon
<1> QED BY <1>2, <1>3, Zenon DEF Begun, Excused

(* A frame of the current message's sender that belongs to another message *)
(* than the last part, and does not begin it, shows that both are damaged. *)
LEMMA OtherDamaged ==
    ASSUME Types, Begun, current \in Senders, NEW f \in Pending, First(f), f.id = current, Sent(f),
           f.seq # 0, f.of # lastPart.of
    PROVE  <<current, f.of>> \in damaged /\ <<current, lastPart.of>> \in damaged
<1> DEFINE g == [id |-> current, seq |-> Len(parts), of |-> lastPart.of]
           h == [id |-> f.id, seq |-> 0, of |-> f.of]
<1>1. f \in Frame /\ Before(lastPart, f)
    BY Zenon DEF Pending, Begun
<1>2. /\ g \in Frame /\ g.seq < Frames[current] /\ Before(lastPart, g)
      /\ lastPart \in Frame /\ lastPart.id = current
    BY Continuation, Zenon
<1>3. lastPart.of < f.of
    BY <1>1, Zenon DEF Before
<1>4. h \in Frame /\ Before(h, f) /\ Sent(h) /\ Before(lastPart, h)
    BY <1>1, <1>2, <1>3, Beginning, Zenon
<1>5. Before(g, f) /\ g.id = current /\ g.of = lastPart.of
    BY <1>3, Zenon DEF Before
<1>6. h.id = current /\ h.of = f.of /\ h.seq < Frames[current]
    BY FrameCount, Zenon
<1> HIDE DEF g, h
<1>7. <<g.id, g.of>> \in damaged
    BY <1>2, <1>5, MissingDamaged, Zenon
<1>8. <<h.id, h.of>> \in damaged
    BY <1>4, <1>6, MissingDamaged, Zenon
<1> QED BY <1>5, <1>6, <1>7, <1>8, Zenon

(* A frame that is out of sequence belongs to a damaged message.           *)
LEMMA DroppedDamaged ==
    ASSUME Types, Begun, current \in Senders, NEW f \in Pending, First(f), f.id = current, Sent(f),
           f.seq # 0, f.seq # Len(parts)
    PROVE  <<f.id, f.of>> \in damaged
<1>1. CASE f.of # lastPart.of
    BY <1>1, OtherDamaged, Zenon
<1>2. CASE f.of = lastPart.of
    <2> DEFINE g == [id |-> current, seq |-> Len(parts), of |-> lastPart.of]
    <2>1. f \in Frame /\ Before(lastPart, f) /\ f.seq \in Nat
        BY BeforeOrder, Zenon DEF Pending, Begun
    <2>2. /\ g \in Frame /\ g.seq < Frames[current] /\ Before(lastPart, g)
          /\ lastPart.seq = Len(parts) - 1 /\ Len(parts) \in Nat
        BY Continuation, Zenon
    <2>3. g.id = current /\ g.seq = Len(parts) /\ g.of = f.of
        BY <1>2, Zenon
    <2>4. lastPart.seq < f.seq
        BY <1>2, <2>1, <2>2, BeforeOrder, Zenon DEF Before
    <2>5. Before(g, f)
        BY <2>1, <2>2, <2>3, <2>4 DEF Before
    <2> HIDE DEF g
    <2> QED BY <2>2, <2>3, <2>5, MissingDamaged, Zenon
<1> QED BY <1>1, <1>2, Zenon
(* What a message in the making, or a complete one, looks like.            *)
OfMessage(q, id) ==
    /\ \A k \in 1 .. Len(q) : q[k].id = id /\ q[k].seq = k - 1
    /\ \A k, l \in 1 .. Len(q) : q[k].of # q[l].of => <<q[k].id, q[k].of>> \in damaged

(* The frame that is appended ends a consistent message.                   *)
LEMMA Joined ==
    ASSUME Types, Assembly, NEW f \in Pending, First(f), belongs(f), f.seq = 0 \/ Continues(f)
    PROVE  LET q == Assembled(f)
           IN  /\ q \in Seq(Frame) /\ Len(q) = f.seq + 1 /\ q[Len(q)] = f /\ OfMessage(q, f.id)
<1>1. f \in Frame /\ Sent(f) /\ f.seq \in Nat
    BY BeforeOrder, Zenon DEF Pending, Assembly, NoHoles
<1>2. CASE f.seq = 0
    BY <1>1, <1>2 DEF Assembled, OfMessage
<1>3. CASE f.seq # 0
    <2> DEFINE n == Len(parts)  q == Append(parts, f)
    <2>1. f.id = current /\ f.seq = n /\ current \in Senders
        BY <1>1, <1>3, BeforeOrder, Zenon DEF Continues
    <2>2. Begun
        BY <2>1, FrameCount, Zenon DEF Assembly
    <2>3. Assembled(f) = q
        BY <1>3, Zenon DEF Assembled, Continues
    <2>4. /\ q \in Seq(Frame) /\ n \in Nat /\ Len(q) = n + 1 /\ q[n + 1] = f
          /\ \A k \in 1 .. n : q[k] = parts[k]
        BY <1>1 DEF Types
    <2>5. \A k \in 1 .. n : parts[k].id = current /\ parts[k].seq = k - 1
        BY <2>2, Zenon DEF Begun
    <2>6. n \in 1 .. n /\ lastPart = parts[n]
        BY <2>4, <2>2 DEF Begun, lastPart, Types
    <2>7. f.of # lastPart.of => <<current, f.of>> \in damaged /\ <<current, lastPart.of>> \in damaged
        BY <1>1, <1>3, <2>1, <2>2, OtherDamaged, Zenon
    <2>8. \A k \in 1 .. n, l \in 1 .. n :
                parts[k].of # parts[l].of => <<current, parts[k].of>> \in damaged
        BY <2>2, <2>5, Zenon DEF Begun
    <2>9. ASSUME NEW k \in 1 .. n
          PROVE  parts[k].of # f.of =>
                    <<current, parts[k].of>> \in damaged /\ <<current, f.of>> \in damaged
        <3>1. CASE f.of = lastPart.of
            BY <3>1, <2>6, <2>8, Zenon
        <3>2. CASE f.of # lastPart.of
            BY <3>2, <2>6, <2>7, <2>8, Zenon
        <3> QED BY <3>1, <3>2, Zenon
    <2>10. \A k \in 1 .. n + 1 : k \in 1 .. n \/ k = n + 1
        BY <2>4
    <2>11. \A k \in 1 .. n + 1 : q[k].id = f.id /\ q[k].seq = k - 1
        BY <2>1, <2>4, <2>5, <2>10
    <2>12. ASSUME NEW k \in 1 .. n + 1, NEW l \in 1 .. n + 1, q[k].of # q[l].of
           PROVE  <<q[k].id, q[k].of>> \in damaged
        <3>1. CASE k \in 1 .. n /\ l \in 1 .. n
            BY <3>1, <2>4, <2>5, <2>8, <2>12, Zenon
        <3>2. CASE k \in 1 .. n /\ l = n + 1
            BY <3>2, <2>4, <2>5, <2>9, <2>12, Zenon
        <3>3. CASE k = n + 1 /\ l \in 1 .. n
            BY <3>3, <2>1, <2>4, <2>9, <2>12, Zenon
        <3>4. CASE k = n + 1 /\ l = n + 1
            BY <3>4, <2>12, Zenon
        <3> QED BY <2>10, <3>1, <3>2, <3>3, <3>4, Zenon
    <2> HIDE DEF q
    <2> QED BY <2>1, <2>3, <2>4, <2>11, <2>12, Zenon DEF OfMessage
<1> QED BY <1>2, <1>3, Zenon

(* What an append does besides returning the buffer.                       *)
Take(f) ==
    /\ parts' = IF Complete(f) THEN << >> ELSE Assembled(f)
    /\ current' = IF Complete(f) THEN NoId ELSE IF f.seq = 0 THEN f.id ELSE current
    /\ whole' = IF Complete(f) THEN whole \cup {Assembled(f)} ELSE whole

(* Frames cease to wait only if they are taken, or their message damaged.  *)
Shrinks(f) ==
    /\ Pending' \subseteq Pending /\ damaged \subseteq damaged' /\ sending' = sending
    /\ \A g \in Pending : g # f => Excused(g)'

(* When the receiver takes a frame out of bus or list, what was sent is    *)
(* unchanged, and every other frame keeps its excuse for not waiting.      *)
LEMMA ShrinksKeeps ==
    ASSUME Types, NoHoles, NEW f \in Frame, Shrinks(f)
    PROVE  /\ \A g \in Frame : Sent(g)' <=> Sent(g)
           /\ \A g \in Frame : Excused(g) /\ g # f => Excused(g)'
           /\ Pending \subseteq Frame
<1>1. \A g \in Frame : Sent(g)' <=> Sent(g)
    BY Zenon DEF Shrinks, Sent
<1>2. \A g \in Frame : Excused(g) /\ g # f => Excused(g)'
    BY Zenon DEF Shrinks, Excused
<1> QED BY <1>1, <1>2, Zenon DEF Pending

(* Taking the first waiting frame of a sender leaves no hole among the     *)
(* frames that wait.                                                       *)
LEMMA HolesKept ==
    ASSUME Types, NoHoles, NEW f \in Frame, f \notin Pending', Shrinks(f),
           f \in Pending => First(f)
    PROVE  NoHoles'
<1>1. /\ \A g \in Frame : Sent(g)' <=> Sent(g)
      /\ \A g \in Frame : Excused(g) /\ g # f => Excused(g)'
      /\ Pending \subseteq Frame /\ Pending' \subseteq Pending
    BY ShrinksKeeps, Zenon DEF Shrinks
<1>2. \A g \in Pending' : Sent(g)'
    BY <1>1, Zenon DEF NoHoles
<1>3. ASSUME NEW g \in Pending', NEW h \in Frame, h.id = g.id, Before(g, h), Sent(h)'
      PROVE  Excused(h)'
    <2>1. Excused(h) /\ g \in Pending /\ g \in Frame
        BY <1>1, <1>3, Zenon DEF NoHoles
    <2>2. CASE h # f
        BY <2>1, <2>2, <1>1, Zenon
    <2>3. CASE h = f
        <3>1. f \notin Pending
            BY <2>1, <2>3, <1>3, BeforeOrder, Zenon DEF First
        <3> QED BY <3>1, <2>1, <2>3, Zenon DEF Excused, Shrinks
    <2> QED BY <2>2, <2>3, Zenon
<1> QED BY <1>2, <1>3, Zenon DEF NoHoles

(* The receiver takes the first frame of a sender.                         *)
LEMMA TakeKeeps ==
    ASSUME Types, Assembly, NEW f \in Pending, First(f), belongs(f), Take(f),
           f \notin Pending', Shrinks(f)
    PROVE  Assembly' /\ parts' \in Seq(Frame) /\ current' \in Senders \cup {NoId}
<1> DEFINE q == Assembled(f)
<1>1. f \in Frame /\ Sent(f) /\ f.seq \in Nat /\ f.id \in Senders /\ f.id # NoId
    BY BeforeOrder, FrameCount, Zenon DEF Pending, Assembly, NoHoles
<1>2. NoHoles'
    BY <1>1, HolesKept, Zenon DEF Assembly
<1>3. /\ \A g \in Frame : Sent(g)' <=> Sent(g)
      /\ \A g \in Frame : Excused(g) /\ g # f => Excused(g)'
      /\ Pending \subseteq Frame /\ Pending' \subseteq Pending /\ damaged \subseteq damaged'
    BY <1>1, ShrinksKeeps, Zenon DEF Shrinks, Assembly
<1>4. f.seq < Frames[f.id] /\ Frames[f.id] \in Nat
    BY <1>1, FrameCount, Zenon DEF Sent
<1>5. CASE f.seq = 0 \/ Continues(f)
    <2>1. q \in Seq(Frame) /\ Len(q) = f.seq + 1 /\ q[Len(q)] = f /\ OfMessage(q, f.id)
        BY <1>5, Joined, Zenon
    <2>2. Complete(f) <=> Len(q) = Frames[f.id]
        BY <1>5, Zenon DEF Complete
    <2> HIDE DEF q
    <2>3. CASE Complete(f)
        <3>1. current' = NoId /\ parts' = << >> /\ whole' = whole \cup {q}
            BY <2>3, Zenon DEF Take, q
        <3>2. DOMAIN q = 1 .. Len(q)
            BY <2>1
        <3>3. OnlyDamagedMixed'
            <4>1. \A i, j \in DOMAIN q :
                     q[i].id = q[j].id /\ (q[i].of # q[j].of => <<q[i].id, q[i].of>> \in damaged')
                BY <3>2, <2>1, <1>3, Zenon DEF OfMessage
            <4>2. \A w \in whole : \A i, j \in DOMAIN w :
                     w[i].id = w[j].id /\ (w[i].of # w[j].of => <<w[i].id, w[i].of>> \in damaged')
                BY <1>3, Zenon DEF Assembly, OnlyDamagedMixed
            <4>3. \A w \in whole' : w \in whole \/ w = q
                BY <3>1, Zenon
            <4>4. \A w \in whole' : \A i, j \in DOMAIN w :
                     w[i].id = w[j].id /\ (w[i].of # w[j].of => <<w[i].id, w[i].of>> \in damaged')
                BY ONLY <4>1, <4>2, <4>3, ZenonT(30)
            <4> QED BY ONLY <4>4, Zenon DEF OnlyDamagedMixed
        <3> QED BY <3>1, <3>3, <1>2 DEF Assembly
    <2>4. CASE ~Complete(f)
        <3>1. current' = f.id /\ parts' = q /\ whole' = whole
            BY <1>5, <2>4, Zenon DEF Take, q, Continues
        <3>2. Len(q) < Frames[f.id] /\ q # << >>
            BY <2>1, <2>2, <2>4, <1>1, <1>4
        <3>3. lastPart' = f
            BY <3>1, <2>1, Zenon DEF lastPart
        <3>4. \A g \in Pending' : g.id = f.id => Before(f, g)
            BY <1>3, Zenon DEF First
        <3>5. ASSUME NEW g \in Frame, g.id = f.id, Before(f, g), Sent(g)'
              PROVE  Excused(g)'
            <4>1. Excused(g)
                BY <3>5, <1>3, Zenon DEF Assembly, NoHoles
            <4>2. g # f
                BY <3>5, <1>1, BeforeOrder, Zenon
            <4> QED BY <4>1, <4>2, <1>3, Zenon
        <3>6. \A k, l \in 1 .. Len(q) : q[k].of # q[l].of => <<q[k].id, q[k].of>> \in damaged'
            BY <2>1, <1>3, Zenon DEF OfMessage
        <3>7. \A k \in 1 .. Len(q) : q[k].id = f.id /\ q[k].seq = k - 1
            BY <2>1, Zenon DEF OfMessage
        <3>8. Begun'
            BY <3>1, <3>2, <3>3, <3>4, <3>5, <3>6, <3>7, <1>1, <1>3, Zenon DEF Begun
        <3>9. OnlyDamagedMixed'
            BY <3>1, <1>3, ZenonT(30) DEF OnlyDamagedMixed, Assembly
        <3> QED BY <3>1, <3>8, <3>9, <1>1, <1>2, <2>1, Zenon DEF Assembly
    <2> QED BY <2>3, <2>4, Zenon
<1>6. CASE f.seq # 0 /\ ~Continues(f)
    <2>1. current' = current /\ parts' = parts /\ whole' = whole
        BY <1>6, Zenon DEF Take, Complete, Assembled
    <2>2. OnlyDamagedMixed'
        BY <2>1, <1>3, Zenon DEF OnlyDamagedMixed, Assembly
    <2>3. CASE current = NoId
        BY <2>1, <2>2, <2>3, <1>2, Zenon DEF Assembly, Types
    <2>4. CASE current # NoId
        <3>1. Begun /\ current \in Senders /\ f.id = current /\ f.seq # Len(parts)
            BY <2>4, <1>6, Zenon DEF Assembly, Types, belongs, Continues
        <3>2. <<f.id, f.of>> \in damaged
            BY <3>1, <1>1, <1>6, DroppedDamaged, Zenon
        <3>3. lastPart' = lastPart /\ lastPart \in Frame
            BY <2>1, <3>1, Continuation, Zenon DEF lastPart
        <3>4. \A g \in Frame : Excused(g) => Excused(g)'
            BY <1>3, <3>2, Zenon DEF Excused
        <3>5. Begun'
            BY <2>1, <3>1, <3>3, <3>4, <1>3, Zenon DEF Begun
        <3> QED BY <2>1, <2>2, <2>4, <3>1, <3>5, <1>2, Zenon DEF Assembly, Types
    <2> QED BY <2>3, <2>4, Zenon
<1> QED BY <1>5, <1>6, Zenon

(* The receiver takes no frame; at most one is overwritten.                *)
LEMMA KeepsWaiting ==
    ASSUME Types, Assembly, Shrinks(NoFrame), UNCHANGED <<parts, current, whole>>
    PROVE  Assembly'
<1>1. NoFrame \notin Frame
    BY FrameCount, Zenon DEF NoFrame, Frame
<1>2. /\ \A g \in Frame : Sent(g)' <=> Sent(g)
      /\ \A g \in Frame : Excused(g) => Excused(g)'
      /\ Pending \subseteq Frame /\ Pending' \subseteq Pending /\ damaged \subseteq damaged'
    BY <1>1, Zenon DEF Shrinks, Sent, Excused, Pending
<1>3. NoHoles'
    BY <1>2, Zenon DEF NoHoles, Assembly
<1>4. OnlyDamagedMixed'
    BY <1>2, ZenonT(30) DEF OnlyDamagedMixed, Assembly
<1>5. ASSUME current # NoId
      PROVE  Begun'
    <2>1. Begun /\ lastPart' = lastPart /\ lastPart \in Frame
        BY <1>5, Continuation, Zenon DEF Assembly, Types, lastPart
    <2> QED BY <2>1, <1>2, Zenon DEF Begun
<1> QED BY <1>3, <1>4, <1>5, Zenon DEF Assembly

(* A sender sends, loses or gives up.                                      *)
LEMMA SendKeeps ==
    ASSUME Types, Assembly, UNCHANGED <<parts, current, whole>>,
           Pending \subseteq Pending', damaged \subseteq damaged',
           \A g \in Frame : Sent(g) => Sent(g)',
           \A g \in Frame : Sent(g)' => Sent(g) \/ Excused(g)',
           \A g \in Pending' : g \in Pending \/ (Sent(g)' /\ ~Sent(g))
    PROVE  Assembly'
<1>1. Pending \subseteq Frame /\ Pending' \subseteq Frame
    BY Zenon DEF Pending
<1>2. \A g \in Frame : Excused(g) => Excused(g)'
    BY Zenon DEF Excused
<1>3. \A f, g \in Frame : f.id = g.id /\ Sent(g) /\ ~Sent(f) /\ Sent(f)' => Before(g, f)
    <2>1. SUFFICES ASSUME NEW f \in Frame, NEW g \in Frame, f.id = g.id, Sent(g), ~Sent(f), Sent(f)'
                   PROVE  Before(g, f)
        OBVIOUS
    <2>2. f.seq < Frames[f.id]
        BY <2>1, Zenon DEF Sent
    <2>3. Before(g, upcoming(g.id)) /\ ~Before(f, upcoming(g.id)) /\ upcoming(g.id) \in Frame
        BY <2>1, <2>2, SentEarlier, BeforeOrder, Zenon
    <2> QED BY <2>1, <2>3, BeforeOrder DEF Before
<1>4. NoHoles'
    <2>1. \A g \in Pending' : Sent(g)'
        BY <1>1, Zenon DEF Assembly, NoHoles
    <2>2. ASSUME NEW f \in Pending', NEW g \in Frame, g.id = f.id, Before(f, g), Sent(g)'
          PROVE  Excused(g)'
        <3>1. CASE ~Sent(g)
            BY <2>2, <3>1, Zenon
        <3>2. CASE Sent(g) /\ f \in Pending
            BY <2>2, <3>2, <1>2, Zenon DEF Assembly, NoHoles
        <3>3. CASE Sent(g) /\ Sent(f)' /\ ~Sent(f)
            BY <2>2, <3>3, <1>1, <1>3, BeforeOrder, Zenon
        <3> QED BY <3>1, <3>2, <3>3, Zenon
    <2> QED BY <2>1, <2>2, Zenon DEF NoHoles
<1>5. OnlyDamagedMixed'
    BY Zenon DEF OnlyDamagedMixed, Assembly
<1>6. ASSUME current # NoId
      PROVE  Begun'
    <2>1. Begun /\ lastPart' = lastPart /\ lastPart \in Frame /\ lastPart.id = current
        BY <1>6, Continuation, Zenon DEF Assembly, Types, lastPart
    <2>2. Sent(lastPart)'
        BY <2>1, Zenon DEF Begun
    <2>3. \A f \in Pending' : f.id = current => Before(lastPart, f)
        BY <2>1, <1>1, <1>3, Zenon DEF Begun
    <2>4. \A g \in Frame : g.id = current /\ Before(lastPart, g) /\ Sent(g)' => Excused(g)'
        BY <2>1, <1>2, Zenon DEF Begun
    <2> QED BY <2>1, <2>2, <2>3, <2>4, Zenon DEF Begun
<1> QED BY <1>4, <1>5, <1>6, Zenon DEF Assembly
-----------------------------------------------------------------------------
(* The next frame is the next one in the order; giving up skips only       *)
(* frames of the same message.                                             *)
LEMMA NextFrameSent ==
    ASSUME Types, NEW s \in Senders, nextFrame(s)
    PROVE  /\ sending' \in [Senders -> [of : Nat, seq : Nat]]
           /\ \A u \in Senders : sending'[u].seq < Frames[u]
           /\ \A g \in Frame : Sent(g)' <=> Sent(g) \/ g = upcoming(s)
<1>1. /\ sending[s].seq \in Nat /\ sending[s].of \in Nat /\ Frames[s] \in Nat /\ 0 < Frames[s]
      /\ sending[s].seq < Frames[s]
    BY FrameCount, Zenon DEF Types
<1>2. /\ sending' \in [Senders -> [of : Nat, seq : Nat]]
      /\ \A u \in Senders : u # s => sending'[u] = sending[u]
      /\ \/ /\ sending[s].seq + 1 < Frames[s]
            /\ sending'[s].of = sending[s].of /\ sending'[s].seq = sending[s].seq + 1
         \/ /\ sending[s].seq + 1 = Frames[s]
            /\ sending'[s].of = sending[s].of + 1 /\ sending'[s].seq = 0
    <2>1. CASE sending[s].seq + 1 < Frames[s]
        <3>1. sending[s] \in [of : Nat, seq : Nat] /\ sending \in [Senders -> [of : Nat, seq : Nat]]
            BY Zenon DEF Types
        <3>2. sending' = [sending EXCEPT ![s] = [sending[s] EXCEPT !.seq = sending[s].seq + 1]]
            BY <2>1, Zenon DEF nextFrame
        <3>3. [sending[s] EXCEPT !.seq = sending[s].seq + 1]
                = [of |-> sending[s].of, seq |-> sending[s].seq + 1]
            BY <3>1
        <3> QED BY <1>1, <2>1, <3>1, <3>2, <3>3
    <2>2. CASE ~(sending[s].seq + 1 < Frames[s])
        <3>1. sending' = [sending EXCEPT ![s] = [of |-> sending[s].of + 1, seq |-> 0]]
            BY <2>2, Zenon DEF nextFrame, nextMessage
        <3> QED BY <1>1, <2>2, <3>1 DEF Types
    <2> QED BY <2>1, <2>2, Zenon
<1>3. \A u \in Senders : sending'[u].seq < Frames[u]
    BY <1>1, <1>2, Zenon DEF Types
<1>4. ASSUME NEW g \in Frame
      PROVE  Sent(g)' <=> Sent(g) \/ g = upcoming(s)
    <2>1. g.id \in Senders /\ g.seq \in Nat /\ g.of \in Nat /\ g = [id |-> g.id, seq |-> g.seq, of |-> g.of]
        BY Zenon DEF Frame
    <2>2. CASE g.id # s
        BY <2>1, <2>2, <1>2 DEF Sent, upcoming, Before
    <2>3. CASE g.id = s
        <3>1. g = upcoming(s) <=> g.seq = sending[s].seq /\ g.of = sending[s].of
            BY <2>1, <2>3 DEF upcoming
        <3>2. Sent(g) <=> /\ g.seq < Frames[s]
                          /\ g.of < sending[s].of \/ (g.of = sending[s].of /\ g.seq < sending[s].seq)
            BY <2>3, Zenon DEF Sent, Before
        <3>3. Sent(g)' <=> /\ g.seq < Frames[s]
                           /\ g.of < sending'[s].of \/ (g.of = sending'[s].of /\ g.seq < sending'[s].seq)
            BY <2>3, Zenon DEF Sent, Before
        <3> QED BY <3>1, <3>2, <3>3, <2>1, <1>1, <1>2
    <2> QED BY <2>2, <2>3, Zenon
<1> QED BY <1>2, <1>3, <1>4, Zenon

(* When sendNetworkMsg gives a message up, only frames of that message     *)
(* become frames that count as sent.                                       *)
LEMMA NextMessageSent ==
    ASSUME Types, NEW s \in Senders, nextMessage(s)
    PROVE  /\ sending' \in [Senders -> [of : Nat, seq : Nat]]
           /\ \A u \in Senders : sending'[u].seq < Frames[u]
           /\ \A g \in Frame : Sent(g) => Sent(g)'
           /\ \A g \in Frame : Sent(g)' => Sent(g) \/ (g.id = s /\ g.of = sending[s].of)
<1>1. sending[s].seq \in Nat /\ sending[s].of \in Nat
    BY Zenon DEF Types
<1>2. /\ sending' \in [Senders -> [of : Nat, seq : Nat]]
      /\ \A u \in Senders : u # s => sending'[u] = sending[u]
      /\ sending'[s].of = sending[s].of + 1 /\ sending'[s].seq = 0
    <2>1. sending' = [sending EXCEPT ![s] = [of |-> sending[s].of + 1, seq |-> 0]]
        BY Zenon DEF nextMessage
    <2> QED BY <1>1, <2>1 DEF Types
<1>3. \A u \in Senders : sending'[u].seq < Frames[u]
    BY <1>2, FrameCount, Zenon DEF Types
<1>4. \A g \in Frame : g.id \in Senders /\ g.seq \in Nat /\ g.of \in Nat
    BY Zenon DEF Frame
<1> QED BY <1>1, <1>2, <1>3, <1>4 DEF Sent, Before

(* A step of a sender keeps the invariant.                                 *)
LEMMA SenderKeeps ==
    ASSUME LinkInv, NEW s \in Senders, sendNetworkMsg(s)
    PROVE  Types' /\ Apart' /\ Ordered' /\ Passed' /\ Assembly'
<1> DEFINE f == upcoming(s)
<1>1. Types /\ Apart /\ Ordered /\ Passed /\ Assembly
    BY Zenon DEF LinkInv
<1>2. UNCHANGED <<mem, empty, list, pos, current, parts, whole>> /\ \A k : listed(k)' = listed(k)
    BY Zenon DEF sendNetworkMsg, listed
<1>3. f \in Frame /\ f.id = s /\ f.of = sending[s].of /\ ~Sent(f)
    BY <1>1, SentEarlier, BeforeOrder, Zenon DEF upcoming
<1>4. CASE bus' = Append(bus, f) /\ nextFrame(s) /\ damaged' = damaged
    <2>1. /\ Len(bus) \in Nat /\ Len(bus') = Len(bus) + 1 /\ bus' \in Seq(Frame) /\ bus'[Len(bus) + 1] = f
          /\ \A k \in 1 .. Len(bus) : bus'[k] = bus[k] /\ bus[k] \in Frame
        BY <1>1, <1>3, <1>4 DEF Types
    <2>2. \A k \in 1 .. Len(bus') : k \in 1 .. Len(bus) \/ k = Len(bus) + 1
        BY <2>1
    <2>3. 1 .. Len(bus) \subseteq 1 .. Len(bus') /\ Len(bus) + 1 \in 1 .. Len(bus')
        BY <2>1
    <2> HIDE DEF f
    <2>4. Pending' = Pending \cup {f}
        <3>1. Pending' \subseteq Pending \cup {f}
            BY <1>2, <2>1, <2>2, Zenon DEF Pending
        <3>2. Pending \subseteq Pending'
            BY <1>2, <2>1, <2>3, Zenon DEF Pending
        <3>3. f \in Pending'
            BY <1>3, <2>1, <2>3, Zenon DEF Pending
        <3> QED BY <3>1, <3>2, <3>3, Zenon
    <2>5. \A g \in Frame : Sent(g)' <=> Sent(g) \/ g = f
        BY <1>1, <1>4, NextFrameSent, Zenon DEF f
    <2>6. Assembly'
        BY <1>1, <1>2, <1>3, <1>4, <2>4, <2>5, SendKeeps, Zenon DEF Excused
    <2>7. \A g \in Pending : g.id = s => Before(g, f)
        <3>1. \A g \in Pending : g \in Frame /\ Sent(g)
            BY <1>1, Zenon DEF Pending, Assembly, NoHoles
        <3> QED BY <3>1, <1>1, SentEarlier, Zenon DEF f
    <2>8. \A k \in 1 .. Len(bus) : bus[k].id = s => Before(bus[k], f)
        BY <2>1, <2>7, Zenon DEF Pending
    <2>9. \A k \in 1 .. Len(list) : listed(k).id = s => Before(listed(k), f)
        BY <1>1, <2>7, Zenon DEF Pending, Types
    <2>10. Ordered'
        <3>1. ASSUME NEW k \in 1 .. Len(bus'), NEW l \in 1 .. Len(bus'), k < l, bus'[k].id = bus'[l].id
              PROVE  Before(bus'[k], bus'[l])
            <4>1. k \in 1 .. Len(bus)
                BY <3>1, <2>1
            <4>2. CASE l \in 1 .. Len(bus)
                BY <3>1, <4>1, <4>2, <2>1, <1>1, Zenon DEF Ordered
            <4>3. CASE l = Len(bus) + 1
                BY <3>1, <4>1, <4>3, <2>1, <2>8, <1>3, Zenon
            <4> QED BY <4>2, <4>3, <2>2, Zenon
        <3>2. ASSUME NEW k \in 1 .. Len(list), NEW l \in 1 .. Len(bus'), listed(k).id = bus'[l].id
              PROVE  Before(listed(k), bus'[l])
            <4>1. CASE l \in 1 .. Len(bus)
                BY <3>2, <4>1, <2>1, <1>1, Zenon DEF Ordered
            <4>2. CASE l = Len(bus) + 1
                BY <3>2, <4>2, <2>1, <2>9, <1>3, Zenon
            <4> QED BY <4>1, <4>2, <2>2, Zenon
        <3> QED BY <3>1, <3>2, <1>1, <1>2, Zenon DEF Ordered
    <2>11. Types'
        BY <1>1, <1>2, <1>4, <2>1, NextFrameSent, Zenon DEF Types
    <2> QED BY <2>6, <2>10, <2>11, <1>1, <1>2, Zenon DEF Apart, Passed
<1>5. CASE bus' = bus /\ damaged' = damaged \cup {<<s, sending[s].of>>} /\ (nextFrame(s) \/ nextMessage(s))
    <2>1. /\ sending' \in [Senders -> [of : Nat, seq : Nat]]
          /\ \A u \in Senders : sending'[u].seq < Frames[u]
          /\ \A g \in Frame : Sent(g) => Sent(g)'
          /\ \A g \in Frame : Sent(g)' => Sent(g) \/ (g.id = s /\ g.of = sending[s].of)
        BY <1>1, <1>3, <1>5, NextFrameSent, NextMessageSent, Zenon
    <2>2. Pending' = Pending
        BY <1>2, <1>5, Zenon DEF Pending
    <2>3. \A g \in Frame : Sent(g)' => Sent(g) \/ Excused(g)'
        BY <2>1, <1>5, Zenon DEF Excused
    <2>4. Assembly'
        BY <1>1, <1>2, <1>5, <2>1, <2>2, <2>3, SendKeeps, Zenon
    <2>5. Types' /\ Ordered'
        BY <1>1, <1>2, <1>5, <2>1, Zenon DEF Types, Ordered
    <2> QED BY <2>4, <2>5, <1>1, <1>2, Zenon DEF Apart, Passed
<1> QED BY <1>4, <1>5, Zenon DEF sendNetworkMsg, Fault, upcoming

-----------------------------------------------------------------------------
(* The receiver takes frames out of the list and off the bus: those that   *)
(* stay keep their order.                                                  *)
LEMMA Thinned ==
    ASSUME Types, Ordered, Len(list') \in Nat, Len(bus') \in Nat,
           NEW a \in [1 .. Len(list') -> 1 .. Len(list)],
           NEW b \in [1 .. Len(bus') -> 1 .. Len(bus)],
           \A k, l \in 1 .. Len(list') : k < l => a[k] < a[l],
           \A k, l \in 1 .. Len(bus') : k < l => b[k] < b[l],
           \A k \in 1 .. Len(list') : listed(k)' = listed(a[k]),
           \A k \in 1 .. Len(bus') : bus'[k] = bus[b[k]]
    PROVE  /\ Ordered' /\ Pending' \subseteq Pending
           /\ \A k \in 1 .. Len(list') : listed(k)' \in Frame
<1>1. Ordered'
    <2>1. ASSUME NEW k \in 1 .. Len(list'), NEW l \in 1 .. Len(list'), k < l,
                 listed(k)'.id = listed(l)'.id
          PROVE  Before(listed(k)', listed(l)')
        <3>1. a[k] \in 1 .. Len(list) /\ a[l] \in 1 .. Len(list) /\ a[k] < a[l]
              /\ listed(k)' = listed(a[k]) /\ listed(l)' = listed(a[l])
            BY <2>1, Zenon
        <3> QED BY <3>1, <2>1, Zenon DEF Ordered
    <2>2. ASSUME NEW k \in 1 .. Len(list'), NEW l \in 1 .. Len(bus'), listed(k)'.id = bus'[l].id
          PROVE  Before(listed(k)', bus'[l])
        <3>1. a[k] \in 1 .. Len(list) /\ b[l] \in 1 .. Len(bus)
              /\ listed(k)' = listed(a[k]) /\ bus'[l] = bus[b[l]]
            BY <2>2, Zenon
        <3> QED BY <3>1, <2>2, Zenon DEF Ordered
    <2>3. ASSUME NEW k \in 1 .. Len(bus'), NEW l \in 1 .. Len(bus'), k < l, bus'[k].id = bus'[l].id
          PROVE  Before(bus'[k], bus'[l])
        <3>1. b[k] \in 1 .. Len(bus) /\ b[l] \in 1 .. Len(bus) /\ b[k] < b[l]
              /\ bus'[k] = bus[b[k]] /\ bus'[l] = bus[b[l]]
            BY <2>3, Zenon
        <3> QED BY <3>1, <2>3, Zenon DEF Ordered
    <2> QED BY <2>1, <2>2, <2>3, Zenon DEF Ordered, Before
<1>2. Pending' \subseteq Pending
    <2>1. ASSUME NEW f \in Frame, NEW k \in 1 .. Len(list'), listed(k)' = f
          PROVE  f \in Pending
        <3>1. a[k] \in 1 .. Len(list) /\ listed(a[k]) = f
            BY <2>1, Zenon
        <3> QED BY <3>1, Zenon DEF Pending
    <2>2. ASSUME NEW f \in Frame, NEW k \in 1 .. Len(bus'), bus'[k] = f
          PROVE  f \in Pending
        <3>1. b[k] \in 1 .. Len(bus) /\ bus[b[k]] = f
            BY <2>2, Zenon
        <3> QED BY <3>1, Zenon DEF Pending
    <2> QED BY <2>1, <2>2, Zenon DEF Pending
<1>3. \A k \in 1 .. Len(list') : listed(k)' \in Frame
    BY Zenon DEF Types
<1> QED BY <1>1, <1>2, <1>3, Zenon
(* A buffer that is in neither place is put into one.                      *)
LEMMA SeparateAppend ==
    ASSUME NEW p \in Seq(Buffers), NEW q \in Seq(Buffers), NEW b \in Buffers, Separate(p, q),
           \A k \in 1 .. Len(p) : p[k] # b, \A k \in 1 .. Len(q) : q[k] # b
    PROVE  Separate(Append(p, b), q) /\ Separate(p, Append(q, b))
<1>1. ASSUME NEW u \in Seq(Buffers), NEW v \in Seq(Buffers), Separate(u, v),
             \A k \in 1 .. Len(u) : u[k] # b, \A k \in 1 .. Len(v) : v[k] # b
      PROVE  Separate(Append(u, b), v)
    <2> DEFINE c == Append(u, b)
    <2>1. /\ Len(c) = Len(u) + 1 /\ c[Len(u) + 1] = b /\ \A k \in 1 .. Len(u) : c[k] = u[k]
          /\ \A k \in 1 .. Len(c) : k \in 1 .. Len(u) \/ k = Len(u) + 1
        OBVIOUS
    <2> HIDE DEF c
    <2>2. ASSUME NEW k \in 1 .. Len(c), NEW l \in 1 .. Len(c), c[k] = c[l]
          PROVE  k = l
        BY <1>1, <2>1, <2>2, Zenon DEF Separate
    <2>3. ASSUME NEW k \in 1 .. Len(c), NEW l \in 1 .. Len(v)
          PROVE  c[k] # v[l]
        BY <1>1, <2>1, <2>3 DEF Separate
    <2>4. Separate(c, v)
        BY <1>1, <2>2, <2>3, Zenon DEF Separate
    <2> QED BY <2>4, Zenon DEF c
<1>2. \A u, v : Separate(u, v) => Separate(v, u)
    BY Zenon DEF Separate
<1>3. Separate(Append(p, b), q) /\ Separate(Append(q, b), p)
    BY <1>1, <1>2, Zenon
<1> QED BY <1>2, <1>3, Zenon

(* getEmptyBuffer leaves stack and list as they are but for one buffer,    *)
(* the top of the stack or else the end of the list.                       *)
LEMMA TakenFrom ==
    ASSUME IInv, Apart
    PROVE  /\ Len(list) \in Nat /\ Len(listWithout) \in Nat /\ Len(listWithout) <= Len(list)
           /\ \A k \in 1 .. Len(listWithout) : listWithout[k] = list[k] /\ list[k] # msg
           /\ \A k \in 1 .. Len(emptyWithout) : emptyWithout[k] # msg
           /\ Separate(listWithout, emptyWithout)
           /\ empty # << >> => Len(listWithout) = Len(list)
           /\ empty = << >> => /\ Len(listWithout) = Len(list) - 1 /\ Len(list) > 0
                               /\ msg = list[Len(list)]
<1>0. empty \in Seq(Buffers) /\ list \in Seq(Buffers) /\ Len(list) \in Nat /\ Len(empty) \in Nat
    BY DEF IInv
<1>1. ASSUME NEW r \in Seq(Buffers), r # << >>
      PROVE  /\ Len(r) \in Nat /\ Len(r) > 0 /\ Len(Front(r)) = Len(r) - 1 /\ Last(r) = r[Len(r)]
             /\ \A k \in 1 .. Len(r) - 1 : Front(r)[k] = r[k] /\ k \in 1 .. Len(r) /\ k # Len(r)
             /\ Len(r) \in 1 .. Len(r)
    <2>1. Len(r) \in Nat /\ Len(r) > 0 /\ Len(r) - 1 \in Nat /\ Len(r) \in 1 .. Len(r)
        BY <1>1
    <2>2. unlinked(r, Len(r)) = Front(r) /\ Last(r) = r[Len(r)]
        BY <2>1 DEF unlinked, Front, Last
    <2>3. Len(Front(r)) = Len(r) - 1 /\ \A k \in 1 .. Len(r) - 1 : Front(r)[k] = r[k]
        BY <2>1, <2>2, MovedUp, Zenon
    <2>4. \A k \in 1 .. Len(r) - 1 : k \in 1 .. Len(r) /\ k # Len(r)
        BY <2>1
    <2> QED BY <2>1, <2>2, <2>3, <2>4, Zenon
<1>2. CASE empty # << >>
    <2>1. listWithout = list /\ emptyWithout = Front(empty) /\ msg = Last(empty)
        BY <1>2, Zenon DEF listWithout, emptyWithout, msg
    <2>2. /\ msg = empty[Len(empty)] /\ Len(empty) \in 1 .. Len(empty)
          /\ \A k \in 1 .. Len(emptyWithout) :
                emptyWithout[k] = empty[k] /\ k \in 1 .. Len(empty) /\ k # Len(empty)
        BY <2>1, <1>0, <1>1, <1>2, Zenon
    <2>3. \A k \in 1 .. Len(emptyWithout) : emptyWithout[k] # msg
        BY <2>2, Zenon DEF Apart, Separate
    <2>4. \A k \in 1 .. Len(list) : list[k] # msg
        BY <2>2, Zenon DEF Apart, Separate
    <2>5. Separate(listWithout, emptyWithout)
        <3>1. \A k, l \in 1 .. Len(emptyWithout) : emptyWithout[k] = emptyWithout[l] => k = l
            BY <2>2, Zenon DEF Apart, Separate
        <3>2. \A k \in 1 .. Len(list), l \in 1 .. Len(emptyWithout) : list[k] # emptyWithout[l]
            BY <2>2, Zenon DEF Apart, Separate
        <3> QED BY <2>1, <3>1, <3>2, ZenonT(30) DEF Apart, Separate
    <2> QED BY <1>0, <1>2, <2>1, <2>3, <2>4, <2>5
<1>3. CASE empty = << >>
    <2>1. list # << >>
        BY <1>3, AtLeastTwo DEF IInv, BuffersConserved, N
    <2>2. listWithout = Front(list) /\ emptyWithout = << >> /\ msg = Last(list)
        BY <1>3, Zenon DEF listWithout, emptyWithout, msg
    <2>3. /\ Len(list) > 0 /\ Len(listWithout) = Len(list) - 1 /\ msg = list[Len(list)]
          /\ \A k \in 1 .. Len(listWithout) :
                listWithout[k] = list[k] /\ k \in 1 .. Len(list) /\ k # Len(list)
          /\ Len(list) \in 1 .. Len(list)
        BY <2>1, <2>2, <1>0, <1>1, Zenon
    <2>4. \A k \in 1 .. Len(listWithout) : list[k] # msg
        BY <2>3, Zenon DEF Apart, Separate
    <2>5. \A k \in 1 .. Len(emptyWithout) : FALSE
        BY <2>2
    <2>6. Separate(listWithout, emptyWithout)
        BY <2>3, <2>5, Zenon DEF Apart, Separate
    <2> QED BY <1>0, <1>3, <2>3, <2>4, <2>5, <2>6
<1> QED BY <1>2, <1>3, Zenon
-----------------------------------------------------------------------------
(* A pass of the first loop that takes a frame out of the list.            *)
LEMMA ScanTakes ==
    ASSUME LinkInv, pos > 0, pos <= Len(list), belongs(listed(pos)), list' = unlinked(list, pos),
           empty' = Append(empty, list[pos]), Take(listed(pos)),
           pos' = IF Complete(listed(pos)) THEN 1 ELSE pos,
           UNCHANGED <<sending, bus, mem, damaged>>
    PROVE  Types' /\ Apart' /\ Ordered' /\ Passed' /\ Assembly'
<1> DEFINE n == Len(list)  f == listed(pos)
           a == [k \in 1 .. n - 1 |-> IF k < pos THEN k ELSE k + 1]
           b == [k \in 1 .. Len(bus) |-> k]
<1>1. Types /\ Apart /\ Ordered /\ Passed /\ Assembly /\ IInv
    BY Zenon DEF LinkInv
<1>2. list \in Seq(Buffers) /\ n \in Nat /\ pos \in 1 .. n /\ pos \in Nat /\ empty \in Seq(Buffers)
    BY <1>1 DEF IInv
<1>3. /\ list' \in Seq(Buffers) /\ Len(list') = n - 1 /\ n - 1 \in Nat /\ list[pos] \in Buffers
      /\ \A k \in 1 .. pos - 1 : list'[k] = list[k]
      /\ \A k \in pos .. n - 1 : list'[k] = list[k + 1]
    <2>1. LET r == unlinked(list, pos)
          IN  /\ r \in Seq(Buffers) /\ Len(r) = Len(list) - 1
              /\ \A k \in 1 .. pos - 1 : r[k] = list[k]
              /\ \A k \in pos .. Len(list) - 1 : r[k] = list[k + 1]
        BY <1>2, MovedUp, Zenon
    <2>2. n - 1 \in Nat /\ list[pos] \in Buffers
        BY <1>2
    <2> QED BY <2>1, <2>2, Zenon
<1>4. /\ a \in [1 .. n - 1 -> 1 .. n]
      /\ \A k \in 1 .. n - 1 : a[k] # pos /\ (k < pos => a[k] = k)
      /\ \A k, l \in 1 .. n - 1 : k < l => a[k] < a[l]
    BY <1>2
<1>5. ASSUME NEW k \in 1 .. n - 1
      PROVE  list'[k] = list[a[k]] /\ listed(k)' = listed(a[k])
    <2>1. CASE k < pos
        <3>1. k \in 1 .. pos - 1 /\ a[k] = k
            BY <1>2, <2>1
        <3> QED BY <3>1, <1>3, Zenon DEF listed
    <2>2. CASE ~(k < pos)
        <3>1. k \in pos .. n - 1 /\ a[k] = k + 1
            BY <1>2, <2>2
        <3> QED BY <3>1, <1>3, Zenon DEF listed
    <2> QED BY <2>1, <2>2, Zenon
<1>6. ASSUME NEW k \in 1 .. n, k # pos
      PROVE  \E l \in 1 .. n - 1 : a[l] = k
    <2>1. CASE k < pos
        <3>1. k \in 1 .. n - 1 /\ a[k] = k
            BY <1>2, <2>1
        <3> QED BY <3>1, Zenon
    <2>2. CASE k > pos
        <3>1. k - 1 \in 1 .. n - 1 /\ a[k - 1] = k
            BY <1>2, <2>2
        <3> QED BY <3>1, Zenon
    <2> QED BY <1>2, <1>6, <2>1, <2>2
<1>7. /\ b \in [1 .. Len(bus') -> 1 .. Len(bus)] /\ Len(bus') \in Nat
      /\ \A k, l \in 1 .. Len(bus') : k < l => b[k] < b[l]
      /\ \A k \in 1 .. Len(bus') : bus'[k] = bus[b[k]]
    BY <1>1 DEF Types
<1> HIDE DEF a, b
<1>8. Ordered' /\ Pending' \subseteq Pending /\ \A k \in 1 .. Len(list') : listed(k)' \in Frame
    <2>1. a \in [1 .. Len(list') -> 1 .. Len(list)]
        BY <1>3, <1>4, Zenon
    <2>2. \A k, l \in 1 .. Len(list') : k < l => a[k] < a[l]
        BY <1>3, <1>4, Zenon
    <2>3. \A k \in 1 .. Len(list') : listed(k)' = listed(a[k])
        BY <1>3, <1>5, Zenon
    <2>4. Len(list') \in Nat
        BY <1>3, Zenon
    <2> HIDE DEF n
    <2> QED BY ONLY <1>1, <1>7, <2>1, <2>2, <2>3, <2>4, Thinned, Zenon
<1>9. f \in Pending /\ f \in Frame
    BY <1>1, <1>2, Zenon DEF Pending, Types
<1> HIDE DEF f
<1>10. \A k \in 1 .. pos - 1 : listed(k).id # f.id
    BY <1>1, <1>2 DEF Passed, belongs, f
<1>11. \A k \in 1 .. n : k # pos /\ listed(k).id = f.id => Before(f, listed(k))
    <2>1. \A k \in 1 .. n : k # pos => k \in 1 .. pos - 1 \/ pos < k
        BY <1>2
    <2> QED BY <2>1, <1>1, <1>2, <1>10, Zenon DEF Ordered, f
<1>12. \A k \in 1 .. Len(bus) : bus[k].id = f.id => Before(f, bus[k])
    BY <1>1, <1>2, Zenon DEF Ordered, f
<1>13. First(f)
    BY <1>11, <1>12, Zenon DEF First, Pending, f
<1>14. f \notin Pending'
    <2>1. \A k \in 1 .. n - 1 : listed(k)' # f
        <3>1. ASSUME NEW k \in 1 .. n - 1
              PROVE  listed(k)' # f
            <4>1. a[k] \in 1 .. n /\ a[k] # pos /\ listed(k)' = listed(a[k])
                BY <1>4, <1>5, Zenon
            <4> QED BY <4>1, <1>9, <1>11, BeforeOrder, Zenon
        <3> QED BY <3>1, Zenon
    <2>2. \A k \in 1 .. Len(bus) : bus[k] # f
        BY <1>9, <1>12, BeforeOrder, Zenon
    <2> QED BY <2>1, <2>2, <1>3, Zenon DEF Pending
<1>15. Shrinks(f)
    <2>1. ASSUME NEW g \in Pending, g # f
          PROVE  g \in Pending'
        <3>1. CASE \E k \in 1 .. n : listed(k) = g
            <4>1. PICK k \in 1 .. n : listed(k) = g
                BY <3>1, Zenon
            <4>2. k # pos
                BY <2>1, <4>1, Zenon DEF f
            <4>3. PICK l \in 1 .. n - 1 : a[l] = k
                BY <4>2, <1>6, Zenon
            <4>4. listed(l)' = g /\ l \in 1 .. Len(list')
                BY <4>1, <4>3, <1>3, <1>5, Zenon
            <4> QED BY <4>4, <2>1, Zenon DEF Pending
        <3>2. CASE \E k \in 1 .. Len(bus) : bus[k] = g
            BY <3>2, <2>1, Zenon DEF Pending
        <3> QED BY <3>1, <3>2, Zenon DEF Pending
    <2> QED BY <2>1, <1>8, Zenon DEF Shrinks, Excused
<1>16. Assembly' /\ parts' \in Seq(Frame) /\ current' \in Senders \cup {NoId}
    BY <1>1, <1>9, <1>13, <1>14, <1>15, TakeKeeps, Zenon DEF f
<1>17. Types'
    BY <1>1, <1>8, <1>16, Zenon DEF Types
<1>18. Apart'
    <2>1. Separate(list', empty)
        <3>0. /\ \A k, l \in 1 .. Len(list) : list[k] = list[l] => k = l
              /\ \A k \in 1 .. Len(list), l \in 1 .. Len(empty) : list[k] # empty[l]
            BY <1>1, Zenon DEF Apart, Separate
        <3>1. ASSUME NEW k \in 1 .. n - 1
              PROVE  a[k] \in 1 .. Len(list) /\ list'[k] = list[a[k]] /\ a[k] \in Nat /\ k \in Nat
            <4>1. a[k] \in 1 .. n /\ k \in Nat
                <5>1. k \in Nat
                    BY ONLY <1>2, <1>3, k \in 1 .. n - 1
                <5>2. a \in [1 .. n - 1 -> 1 .. n]
                    BY <1>4, Zenon
                <5>3. a[k] \in 1 .. n
                    BY ONLY <5>2, k \in 1 .. n - 1, Zenon
                <5> QED BY <5>1, <5>3, Zenon
            <4>2. a[k] \in Nat
                BY ONLY <4>1, n \in Nat, <1>2
            <4> QED BY <4>1, <4>2, <1>5, Zenon
        <3>2. ASSUME NEW k \in 1 .. n - 1, NEW l \in 1 .. n - 1, list'[k] = list'[l]
              PROVE  k = l
            <4>1. a[k] = a[l]
                <5>1. list[a[k]] = list[a[l]] /\ a[k] \in 1 .. Len(list) /\ a[l] \in 1 .. Len(list)
                    BY <3>1, <3>2, Zenon
                <5> QED BY <5>1, <3>0, Zenon
            <4>2. ~(k < l) /\ ~(l < k)
                BY <4>1, <3>1, <1>4
            <4> QED BY <4>2, <3>1
        <3>3. ASSUME NEW k \in 1 .. n - 1, NEW l \in 1 .. Len(empty)
              PROVE  list'[k] # empty[l]
            <4>1. a[k] \in 1 .. Len(list) /\ list'[k] = list[a[k]]
                BY <3>1, Zenon
            <4> QED BY <4>1, <3>0, Zenon
        <3> QED BY <3>2, <3>3, <1>1, <1>3 DEF Apart, Separate
    <2>2. \A k \in 1 .. Len(list') : list'[k] # list[pos]
        BY <1>1, <1>2, <1>3, <1>4, <1>5 DEF Apart, Separate
    <2>3. \A k \in 1 .. Len(empty) : empty[k] # list[pos]
        BY <1>1, <1>2, Zenon DEF Apart, Separate
    <2> QED BY <2>1, <2>2, <2>3, <1>2, <1>3, SeparateAppend, Zenon DEF Apart
<1>19. Passed'
    <2>1. CASE Complete(f)
        BY <2>1, Zenon DEF Passed, Take, f
    <2>2. CASE ~Complete(f) /\ current' = NoId
        <3>1. current = NoId
            BY <2>2, <1>9, FrameCount, BeforeOrder, Zenon DEF Take, f
        <3>2. pos = 1
            BY <3>1, <1>1, <1>2 DEF Passed
        <3> QED BY <2>2, <3>2, Zenon DEF Passed, f
    <2>3. CASE ~Complete(f) /\ current' # NoId
        <3>1. current' = f.id
            BY <2>3, Zenon DEF Take, belongs, f
        <3>2. pos' = pos
            BY <2>3, Zenon DEF f
        <3>3. ASSUME NEW k \in 1 .. Len(list'), k < pos
              PROVE  listed(k)' = listed(k) /\ k \in 1 .. pos - 1
            <4>1. k \in 1 .. n - 1 /\ k \in 1 .. pos - 1
                BY <1>2, <1>3, <3>3
            <4>2. a[k] = k
                BY <1>4, <3>3, <4>1
            <4> QED BY <1>5, <4>1, <4>2
        <3>4. pos # 0
            BY <1>2
        <3> QED BY <2>3, <3>1, <3>2, <3>3, <3>4, <1>10, Zenon DEF Passed
    <2> QED BY <2>1, <2>2, <2>3, Zenon
<1> QED BY <1>8, <1>16, <1>17, <1>18, <1>19, Zenon

(* The first loop keeps the invariant.                                     *)
LEMMA ScanKeeps ==
    ASSUME LinkInv, scan
    PROVE  Types' /\ Apart' /\ Ordered' /\ Passed' /\ Assembly'
<1>1. Types /\ Apart /\ Ordered /\ Passed /\ Assembly /\ IInv
    BY Zenon DEF LinkInv
<1>2. ASSUME UNCHANGED <<sending, bus, mem, damaged, empty, list, current, parts, whole>>
      PROVE  Types' /\ Apart' /\ Ordered' /\ Assembly' /\ \A k : listed(k)' = listed(k)
    <2>1. \A k : listed(k)' = listed(k)
        BY <1>2, Zenon DEF listed
    <2>2. Types' /\ Apart' /\ Ordered'
        BY <1>1, <1>2, <2>1, Zenon DEF Types, Apart, Separate, Ordered
    <2>3. Shrinks(NoFrame)
        BY <1>2, <2>1, Zenon DEF Shrinks, Pending, Excused
    <2> QED BY <1>1, <1>2, <2>1, <2>2, <2>3, KeepsWaiting, Zenon
<1>3. CASE pos > Len(list) /\ pos' = 0 /\ UNCHANGED <<empty, list, current, parts, whole>>
    <2>1. UNCHANGED <<sending, bus, mem, damaged>>
        BY Zenon DEF scan, sendVars
    <2>2. Len(list) \in Nat /\ pos \in Nat /\ list \in Seq(Buffers)
        BY <1>1 DEF IInv
    <2>3. pos = 1 => list = << >>
        BY <1>3, <2>2
    <2>4. \A k \in 1 .. Len(list) : k < pos
        BY <1>3, <2>2
    <2> QED BY <1>1, <1>2, <1>3, <2>1, <2>3, <2>4, Zenon DEF Passed
<1>4. CASE /\ pos > 0 /\ pos <= Len(list) /\ ~belongs(mem[list[pos]]) /\ pos' = pos + 1
           /\ UNCHANGED <<empty, list, current, parts, whole>>
    <2>1. UNCHANGED <<sending, bus, mem, damaged>>
        BY Zenon DEF scan, sendVars
    <2>2. Len(list) \in Nat /\ pos \in Nat
        BY <1>1 DEF IInv
    <2>3. current # NoId /\ listed(pos).id # current
        BY <1>4, Zenon DEF belongs, listed
    <2>4. \A k \in 1 .. Len(list) : k < pos + 1 => k < pos \/ k = pos
        BY <2>2
    <2>5. pos + 1 # 0
        BY <2>2
    <2> QED BY <1>1, <1>2, <1>4, <2>1, <2>3, <2>4, <2>5, Zenon DEF Passed
<1>5. CASE /\ pos > 0 /\ pos <= Len(list) /\ belongs(mem[list[pos]]) /\ list' = unlinked(list, pos)
           /\ appendCANMsgToCurrentNetMsg(empty, list[pos], mem[list[pos]])
           /\ pos' = IF Complete(mem[list[pos]]) THEN begin(NoId) ELSE pos
    <2>1. UNCHANGED <<sending, bus, mem, damaged>>
        BY Zenon DEF scan, sendVars
    <2>2. Take(listed(pos)) /\ empty' = Append(empty, list[pos])
        BY <1>5, Zenon DEF Take, appendCANMsgToCurrentNetMsg, push, listed
    <2> QED BY <1>5, <2>1, <2>2, ScanTakes, Zenon DEF listed, begin
<1> QED BY <1>3, <1>4, <1>5, Zenon DEF scan
-----------------------------------------------------------------------------
(* receiveCANMessage leaves the frames in the list alone, but for the one  *)
(* whose buffer it takes; the message of that one is damaged.              *)
LEMMA LeftInList ==
    ASSUME LinkInv, steal, mem' = mem \/ mem' = [mem EXCEPT ![msg] = Head(bus)]
    PROVE  /\ Len(list) \in Nat /\ Len(listWithout) \in Nat
           /\ \A k \in 1 .. Len(listWithout) : k \in 1 .. Len(list) /\ mem'[listWithout[k]] = listed(k)
           /\ damaged \subseteq damaged'
           /\ \A k \in 1 .. Len(list) :
                  k \in 1 .. Len(listWithout) \/ <<listed(k).id, listed(k).of>> \in damaged'
           /\ pos = 0 /\ current = NoId => listWithout = << >>
<1>1. IInv /\ Apart /\ Types /\ Passed
    BY Zenon DEF LinkInv
<1>2. /\ list \in Seq(Buffers) /\ listWithout \in Seq(Buffers) /\ Len(list) \in Nat
      /\ Len(listWithout) \in Nat /\ Len(listWithout) <= Len(list)
      /\ \A k \in 1 .. Len(listWithout) : listWithout[k] = list[k] /\ list[k] # msg
    BY <1>1, Taken, TakenFrom, Zenon DEF IInv
<1>3. ASSUME NEW k \in 1 .. Len(listWithout)
      PROVE  k \in 1 .. Len(list) /\ mem'[listWithout[k]] = listed(k)
    <2>1. k \in 1 .. Len(list) /\ list[k] \in Buffers /\ listWithout[k] = list[k] /\ list[k] # msg
        BY <1>2
    <2>2. mem'[list[k]] = mem[list[k]]
        BY <2>1, <1>1, Zenon DEF Types
    <2> QED BY <2>1, <2>2, Zenon DEF listed
<1>4. damaged \subseteq damaged'
    BY Zenon DEF steal
<1>5. CASE empty # << >>
    <2>1. Len(listWithout) = Len(list) /\ listWithout = list
        BY <1>1, <1>5, TakenFrom, Zenon DEF listWithout
    <2>2. pos = 0 /\ current = NoId => listWithout = << >>
        BY <2>1, <1>1 DEF Passed
    <2>3. \A k \in 1 .. Len(list) : k \in 1 .. Len(listWithout)
        BY <2>1, Zenon
    <2> QED BY <1>2, <1>3, <1>4, <2>2, <2>3, Zenon
<1>6. CASE empty = << >>
    <2>1. Len(listWithout) = Len(list) - 1 /\ Len(list) > 0 /\ msg = list[Len(list)]
        BY <1>1, <1>6, TakenFrom, Zenon
    <2>2. \A k \in 1 .. Len(list) : k \in 1 .. Len(listWithout) \/ k = Len(list)
        BY <1>2, <2>1
    <2>3. <<listed(Len(list)).id, listed(Len(list)).of>> \in damaged'
        BY <1>6, <2>1, Zenon DEF steal, listed
    <2>4. pos = 0 => current # NoId
        <3>1. list # << >>
            BY <2>1
        <3> QED BY <3>1, <1>1 DEF Passed
    <2> QED BY <1>2, <1>3, <1>4, <2>2, <2>3, <2>4, Zenon
<1> QED BY <1>5, <1>6, Zenon

(* A call that reads nothing puts the buffer that it took on the stack.    *)
LEMMA ReadNothingKeeps ==
    ASSUME LinkInv, readNothing
    PROVE  Types' /\ Apart' /\ Ordered' /\ Passed' /\ Assembly'
<1> DEFINE a == [k \in 1 .. Len(listWithout) |-> k]
           b == [k \in 1 .. Len(bus) |-> k]
<1>1. IInv /\ Types /\ Apart /\ Ordered /\ Passed /\ Assembly
    BY Zenon DEF LinkInv
<1>2. /\ steal /\ mem' = mem /\ bus' = bus /\ sending' = sending /\ list' = listWithout /\ pos = 0
      /\ empty' = Append(emptyWithout, msg) /\ UNCHANGED <<current, parts, whole>>
      /\ pos' = begin(current)
    BY Zenon DEF readNothing, sendVars
<1>3. /\ Len(list) \in Nat /\ Len(list') \in Nat
      /\ \A k \in 1 .. Len(list') : k \in 1 .. Len(list) /\ listed(k)' = listed(k)
      /\ damaged \subseteq damaged'
      /\ \A k \in 1 .. Len(list) :
             k \in 1 .. Len(list') \/ <<listed(k).id, listed(k).of>> \in damaged'
      /\ current = NoId => list' = << >>
    BY <1>2, LeftInList, Zenon DEF listed
<1>4. /\ a \in [1 .. Len(list') -> 1 .. Len(list)]
      /\ \A k, l \in 1 .. Len(list') : k < l => a[k] < a[l]
      /\ \A k \in 1 .. Len(list') : listed(k)' = listed(a[k])
    BY <1>2, <1>3, Zenon
<1>5. /\ b \in [1 .. Len(bus') -> 1 .. Len(bus)] /\ Len(bus') \in Nat
      /\ \A k, l \in 1 .. Len(bus') : k < l => b[k] < b[l]
      /\ \A k \in 1 .. Len(bus') : bus'[k] = bus[b[k]]
    BY <1>1, <1>2 DEF Types
<1> HIDE DEF a, b
<1>6. Ordered' /\ Pending' \subseteq Pending /\ \A k \in 1 .. Len(list') : listed(k)' \in Frame
    BY ONLY <1>1, <1>3, <1>4, <1>5, Thinned, Zenon
<1>7. Types'
    BY <1>1, <1>2, <1>6, Zenon DEF Types
<1>8. Apart'
    BY <1>1, <1>2, Taken, TakenFrom, SeparateAppend, Zenon DEF Apart
<1>9. Passed'
    <2>1. current = NoId => pos' = 1
        BY <1>2, Zenon DEF begin
    <2>2. current # NoId => \A k \in 1 .. Len(list') : listed(k)'.id # current
        BY <1>1, <1>2, <1>3, Zenon DEF Passed
    <2> QED BY <1>2, <2>1, <2>2, Zenon DEF Passed
<1>10. Shrinks(NoFrame)
    <2>1. ASSUME NEW g \in Pending
          PROVE  Excused(g)'
        <3>1. CASE \E k \in 1 .. Len(list) : listed(k) = g
            BY <3>1, <2>1, <1>3, Zenon DEF Pending, Excused
        <3>2. CASE \E k \in 1 .. Len(bus) : bus[k] = g
            BY <3>2, <2>1, <1>2, Zenon DEF Pending, Excused
        <3> QED BY <3>1, <3>2, Zenon DEF Pending
    <2> QED BY <2>1, <1>2, <1>3, <1>6, Zenon DEF Shrinks
<1> QED BY <1>1, <1>2, <1>6, <1>7, <1>8, <1>9, <1>10, KeepsWaiting, Zenon

(* The second loop: the frame that is read is taken, or put into the list. *)
LEMMA ReadKeeps ==
    ASSUME LinkInv, read
    PROVE  Types' /\ Apart' /\ Ordered' /\ Passed' /\ Assembly'
<1> DEFINE f == Head(bus)  m == Len(listWithout)
           a == [k \in 1 .. m |-> k]
           b == [k \in 1 .. Len(bus) - 1 |-> k + 1]
<1>1. IInv /\ Types /\ Apart /\ Ordered /\ Passed /\ Assembly
    BY Zenon DEF LinkInv
<1>2. /\ steal /\ mem' = [mem EXCEPT ![msg] = f] /\ bus # << >> /\ bus' = Tail(bus)
      /\ sending' = sending /\ pos = 0
    BY Zenon DEF read
<1>3. /\ Len(list) \in Nat /\ m \in Nat
      /\ \A k \in 1 .. m : k \in 1 .. Len(list) /\ mem'[listWithout[k]] = listed(k)
      /\ damaged \subseteq damaged'
      /\ \A k \in 1 .. Len(list) : k \in 1 .. m \/ <<listed(k).id, listed(k).of>> \in damaged'
      /\ current = NoId => listWithout = << >>
    BY <1>2, LeftInList, Zenon
<1>4. /\ bus \in Seq(Frame) /\ Len(bus) \in Nat /\ Len(bus) > 0 /\ f = bus[1] /\ f \in Frame
      /\ 1 \in 1 .. Len(bus)
      /\ bus' \in Seq(Frame) /\ Len(bus') = Len(bus) - 1 /\ Len(bus') \in Nat
      /\ \A k \in 1 .. Len(bus') : bus'[k] = bus[k + 1] /\ k + 1 \in 1 .. Len(bus) /\ 1 < k + 1
      /\ \A k \in 1 .. Len(bus) : k = 1 \/ (k - 1 \in 1 .. Len(bus') /\ bus'[k - 1] = bus[k] /\ 1 < k)
    BY <1>1, <1>2 DEF Types
<1>5. /\ b \in [1 .. Len(bus') -> 1 .. Len(bus)]
      /\ \A k, l \in 1 .. Len(bus') : k < l => b[k] < b[l]
      /\ \A k \in 1 .. Len(bus') : bus'[k] = bus[b[k]]
    BY <1>4
<1>6. msg \in Buffers /\ mem' \in [Buffers -> Frame \cup {NoFrame}] /\ mem'[msg] = f
    BY <1>1, <1>2, <1>4, Taken, Zenon DEF Types
<1> HIDE DEF f, m, a, b
<1>7. f \in Pending /\ f \in Frame
    BY <1>4, Zenon DEF Pending
<1>8. /\ \A k \in 1 .. Len(list) : listed(k).id = f.id => Before(listed(k), f)
      /\ \A k \in 1 .. Len(bus') : bus'[k].id = f.id => Before(f, bus'[k])
      /\ \A k \in 1 .. Len(bus) : k = 1 \/ (bus[k].id = f.id => Before(f, bus[k]))
    BY <1>1, <1>4, Zenon DEF Ordered
<1>9. CASE /\ belongs(f) /\ list' = listWithout
           /\ appendCANMsgToCurrentNetMsg(emptyWithout, msg, f)
           /\ pos' = IF Complete(f) THEN begin(NoId) ELSE 0
    <2>1. /\ Take(f) /\ empty' = Append(emptyWithout, msg)
        BY <1>9, Zenon DEF Take, appendCANMsgToCurrentNetMsg, push
    <2>2. \A k \in 1 .. m : k \in 1 .. Len(list) /\ listed(k)' = listed(k)
        BY <1>3, <1>9, Zenon DEF listed
    <2>3. /\ a \in [1 .. Len(list') -> 1 .. Len(list)] /\ Len(list') = m /\ Len(list') \in Nat
          /\ \A k, l \in 1 .. Len(list') : k < l => a[k] < a[l]
          /\ \A k \in 1 .. Len(list') : listed(k)' = listed(a[k])
        BY <1>3, <1>9, <2>2, Zenon DEF a, m
    <2>4. Ordered' /\ Pending' \subseteq Pending /\ \A k \in 1 .. Len(list') : listed(k)' \in Frame
        BY ONLY <1>1, <1>4, <1>5, <2>3, Thinned, Zenon
    <2>5. \A k \in 1 .. Len(list) : listed(k).id # f.id
        <3>1. current = NoId => list = << >>
            BY <1>1, <1>2 DEF Passed
        <3>2. current = NoId => Len(list) = 0
            BY <3>1
        <3> QED BY <3>2, <1>1, <1>2, <1>9 DEF Passed, belongs
    <2>6. First(f)
        BY <2>5, <1>4, <1>8, Zenon DEF First, Pending
    <2>7. f \notin Pending'
        BY <2>2, <2>3, <2>5, <1>7, <1>8, BeforeOrder, Zenon DEF Pending
    <2>8. Shrinks(f)
        <3>1. ASSUME NEW g \in Pending, g # f
              PROVE  Excused(g)'
            <4>1. CASE \E k \in 1 .. Len(list) : listed(k) = g
                BY <4>1, <3>1, <1>3, <2>2, <2>3, Zenon DEF Pending, Excused
            <4>2. CASE \E k \in 1 .. Len(bus) : bus[k] = g
                BY <4>2, <3>1, <1>4, Zenon DEF Pending, Excused
            <4> QED BY <4>1, <4>2, <3>1, Zenon DEF Pending
        <3> QED BY <3>1, <1>2, <1>3, <2>4, Zenon DEF Shrinks
    <2>9. Assembly' /\ parts' \in Seq(Frame) /\ current' \in Senders \cup {NoId}
        BY <1>1, <1>7, <1>9, <2>1, <2>6, <2>7, <2>8, TakeKeeps, Zenon
    <2>10. Types'
        BY <1>1, <1>2, <1>4, <1>6, <2>4, <2>9, Zenon DEF Types
    <2>11. Apart'
        BY <1>1, <1>9, <2>1, Taken, TakenFrom, SeparateAppend, Zenon DEF Apart
    <2>12. Passed'
        <3>1. CASE Complete(f)
            BY <3>1, <1>9, <2>1, Zenon DEF Passed, Take, begin
        <3>2. CASE ~Complete(f) /\ current' = NoId
            <4>1. current = NoId
                BY <3>2, <2>1, <1>7, FrameCount, BeforeOrder, Zenon DEF Take
            <4> QED BY <3>2, <4>1, <1>3, <1>9, Zenon DEF Passed
        <3>3. CASE ~Complete(f) /\ current' # NoId
            <4>1. current' = f.id
                BY <3>3, <2>1, <1>9, Zenon DEF Take, belongs
            <4> QED BY <3>3, <4>1, <2>2, <2>3, <2>5, Zenon DEF Passed
        <3> QED BY <3>1, <3>2, <3>3, Zenon
    <2> QED BY <2>4, <2>9, <2>10, <2>11, <2>12, Zenon
<1>10. CASE /\ ~belongs(f) /\ list' = Append(listWithout, msg) /\ empty' = emptyWithout
            /\ UNCHANGED <<pos, current, parts, whole>>
    <2>1. listWithout \in Seq(Buffers)
        BY <1>1, Taken, Zenon
    <2>2. /\ Len(list') = m + 1 /\ list'[m + 1] = msg
          /\ \A k \in 1 .. m : list'[k] = listWithout[k]
          /\ \A k \in 1 .. Len(list') : (k \in 1 .. m /\ k # m + 1) \/ k = m + 1
          /\ \A k \in 1 .. m : k \in 1 .. Len(list') /\ ~(m + 1 < k) /\ m + 1 \in 1 .. Len(list')
          /\ ~(m + 1 < m + 1) /\ m + 1 \in 1 .. Len(list')
        BY <1>3, <1>6, <1>10, <2>1 DEF m
    <2>3. /\ \A k \in 1 .. m : k \in 1 .. Len(list) /\ listed(k)' = listed(k)
          /\ mem'[list'[m + 1]] = f
        BY <1>3, <1>6, <2>2, Zenon DEF listed
    <2>4. \A k \in 1 .. Len(list') : \/ k \in 1 .. m /\ k \in 1 .. Len(list) /\ listed(k)' = listed(k)
                                     \/ k = m + 1 /\ listed(k)' = f
        BY <2>2, <2>3, Zenon DEF listed
    <2>5. Ordered'
        <3>1. ASSUME NEW k \in 1 .. Len(list'), NEW l \in 1 .. Len(list'), k < l,
                     listed(k)'.id = listed(l)'.id
              PROVE  Before(listed(k)', listed(l)')
            <4>1. k \in 1 .. m
                BY <2>2, <3>1, Zenon
            <4> QED BY <3>1, <4>1, <2>3, <2>4, <1>1, <1>8, Zenon DEF Ordered
        <3>2. ASSUME NEW k \in 1 .. Len(list'), NEW l \in 1 .. Len(bus'), listed(k)'.id = bus'[l].id
              PROVE  Before(listed(k)', bus'[l])
            <4>1. CASE k = m + 1 /\ listed(k)' = f
                <5>1. bus'[l].id = f.id BY <3>2, <4>1, Zenon
                <5> QED BY ONLY <4>1, <5>1, <1>8, <3>2, Zenon
            <4>2. CASE k \in 1 .. Len(list) /\ listed(k)' = listed(k)
                <5>1. l + 1 \in 1 .. Len(bus) /\ bus'[l] = bus[l + 1] BY <1>4, <3>2, Zenon
                <5> QED BY ONLY <3>2, <4>2, <5>1, <1>1, Zenon DEF Ordered
            <4> QED BY <4>1, <4>2, <2>4, Zenon
        <3>3. ASSUME NEW k \in 1 .. Len(bus'), NEW l \in 1 .. Len(bus'), k < l, bus'[k].id = bus'[l].id
              PROVE  Before(bus'[k], bus'[l])
            <4>1. k + 1 < l + 1
                BY <3>3, <1>4
            <4>2. /\ k + 1 \in 1 .. Len(bus) /\ bus'[k] = bus[k + 1]
                  /\ l + 1 \in 1 .. Len(bus) /\ bus'[l] = bus[l + 1]
                BY <1>4, <3>3, Zenon
            <4> QED BY ONLY <3>3, <4>1, <4>2, <1>1, Zenon DEF Ordered
        <3> QED BY <3>1, <3>2, <3>3, Zenon DEF Ordered, Before
    <2>6. \A k \in 1 .. Len(list') : listed(k)' \in Frame
        BY <2>4, <1>1, <1>7, Zenon DEF Types
    <2>7. Pending' \subseteq Pending
        <3>1. ASSUME NEW g \in Frame, NEW k \in 1 .. Len(list'), listed(k)' = g
              PROVE  g \in Pending
            BY <3>1, <2>4, <1>7, Zenon DEF Pending
        <3>2. ASSUME NEW g \in Frame, NEW k \in 1 .. Len(bus'), bus'[k] = g
              PROVE  g \in Pending
            BY <3>2, <1>4, Zenon DEF Pending
        <3> QED BY <3>1, <3>2, Zenon DEF Pending
    <2>8. Shrinks(NoFrame)
        <3>1. ASSUME NEW g \in Pending
              PROVE  Excused(g)'
            <4>1. CASE \E k \in 1 .. Len(list) : listed(k) = g
                BY <4>1, <3>1, <1>3, <2>2, <2>3, Zenon DEF Pending, Excused
            <4>2. CASE \E k \in 1 .. Len(bus) : bus[k] = g
                <5>1. \E k \in 1 .. Len(list') : listed(k)' = f
                    BY <2>2, <2>3, Zenon DEF listed
                <5> QED BY <4>2, <3>1, <5>1, <1>4, Zenon DEF Pending, Excused
            <4> QED BY <4>1, <4>2, <3>1, Zenon DEF Pending
        <3> QED BY <3>1, <1>2, <1>3, <2>7, Zenon DEF Shrinks
    <2>9. Assembly'
        BY <1>1, <1>10, <2>8, KeepsWaiting, Zenon
    <2>10. Types'
        BY <1>1, <1>2, <1>4, <1>6, <1>10, <2>6, Zenon DEF Types
    <2>11. Apart'
        BY <1>1, <1>10, Taken, TakenFrom, SeparateAppend, Zenon DEF Apart
    <2>12. Passed'
        BY <1>1, <1>2, <1>10, <2>4, Zenon DEF Passed, belongs
    <2> QED BY <2>5, <2>9, <2>10, <2>11, <2>12, Zenon
<1> QED BY <1>9, <1>10, Zenon DEF read, f

-----------------------------------------------------------------------------
(* At first every buffer is empty, and nothing is on the bus.              *)
LEMMA LinkBegins == Init => LinkInv
<1> SUFFICES ASSUME Init PROVE LinkInv
    OBVIOUS
<1>1. empty \in Seq(Buffers) /\ Len(empty) = N /\ Elements(empty) = Buffers
    BY AllPushed, Zenon DEF Init, N
<1>2. \A k, l \in 1 .. Len(empty) : empty[k] = empty[l] => k = l
    BY <1>1, AllPushed, Zenon DEF Init, N
<1>3. Len(list) = 0 /\ Len(bus) = 0 /\ list \in Seq(Buffers) /\ bus \in Seq(Frame) /\ parts \in Seq(Frame)
    BY DEF Init
<1>4. IInv
    <2>1. N \in Nat /\ Elements(list) = {}
        BY AtLeastTwo DEF N, Init, Elements
    <2> QED BY <1>1, <1>3, <2>1 DEF Init, IInv, BuffersConserved, N, begin
<1>5. Types
    <2>1. sending \in [Senders -> [of : Nat, seq : Nat]] /\ \A t \in Senders : sending[t].seq < Frames[t]
        BY FrameCount, Zenon DEF Init
    <2>2. mem \in [Buffers -> Frame \cup {NoFrame}] /\ current \in Senders \cup {NoId}
        BY Zenon DEF Init
    <2> QED BY <1>3, <2>1, <2>2 DEF Types
<1>6. Apart /\ Ordered /\ Passed
    <2>1. (\A k \in 1 .. Len(list) : FALSE) /\ (\A k \in 1 .. Len(bus) : FALSE)
        BY <1>3
    <2>2. Apart /\ Ordered
        BY <1>2, <2>1, Zenon DEF Apart, Separate, Ordered
    <2>3. Passed
        BY DEF Passed, Init, begin
    <2> QED BY <2>2, <2>3
<1>7. Pending = {}
    BY <1>3 DEF Pending
<1>8. Assembly
    BY <1>7, Zenon DEF Assembly, NoHoles, OnlyDamagedMixed, Init
<1> QED BY <1>4, <1>5, <1>6, <1>8, Zenon DEF LinkInv

(* Every step keeps the invariant.                                         *)
LEMMA LinkInductive == LinkInv /\ [Next]_vars => LinkInv'
<1> SUFFICES ASSUME LinkInv, [Next]_vars PROVE LinkInv'
    OBVIOUS
<1>1. IInv'
    BY Inductive, Zenon DEF LinkInv
<1>2. CASE UNCHANGED vars
    <2>1. \A k : listed(k)' = listed(k)
        BY <1>2, Zenon DEF vars, listed
    <2>2. Types' /\ Apart' /\ Ordered' /\ Passed'
        BY <1>2, <2>1 DEF LinkInv, Types, Apart, Separate, Ordered, Passed, vars
    <2>3. Shrinks(NoFrame)
        BY <1>2, <2>1, Zenon DEF Shrinks, Pending, Excused, vars
    <2>4. Assembly'
        BY <1>2, <2>3, KeepsWaiting, Zenon DEF LinkInv, vars
    <2> QED BY <1>1, <2>2, <2>4, Zenon DEF LinkInv
<1>3. CASE Next
    <2>1. Types' /\ Apart' /\ Ordered' /\ Passed' /\ Assembly'
        BY <1>3, SenderKeeps, ScanKeeps, ReadKeeps, ReadNothingKeeps, Zenon DEF Next, getNetworkMsg
    <2> QED BY <1>1, <2>1, Zenon DEF LinkInv
<1> QED BY <1>2, <1>3, Zenon

(* Only messages that lost a frame are ever mixed (linkinterfacecan.cpp:   *)
(* 273): for any number of senders, messages, buffers and faults.          *)
THEOREM MixesOnlyDamaged == Spec => []OnlyDamagedMixed
<1>1. LinkInv => OnlyDamagedMixed
    BY Zenon DEF LinkInv, Assembly
<1> QED BY <1>1, LinkBegins, LinkInductive, PTL DEF Spec
=============================================================================
