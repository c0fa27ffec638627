-------------------------- MODULE MiddlewareProofs --------------------------
(***************************************************************************)
(* What gateways and topic registers know of the other nodes.  The filter  *)
(* of the gateways holds for every network: any links, routers and topics, *)
(* any losses, duplications, reorderings and restarts.  The topic register *)
(* forgets a live subscriber only after three missed reports, for any      *)
(* number of nodes and any times with 3 * Period + MaxDelay <= VeryOld; in *)
(* the code 3 * 3 s + MaxDelay <= 10 s, so for reports that take up to one *)
(* second.                                                                 *)
(***************************************************************************)
EXTENDS Network, TopicRegister, TLAPS

-----------------------------------------------------------------------------
(* The gateways (module Network).                                          *)

Message == [sender : Nodes, id : Nat, time : Nat, topic : Nat, steps : Nat]
Ident == [sender : Nodes, id : Nat, time : Nat]
Table == UNION {[S -> Nat] : S \in SUBSET Nodes}

TypeOK ==
    /\ clock \in [Nodes -> Nat] /\ count \in [Nodes -> Nat]
    /\ inTransit \subseteq Gateways \X Message
    /\ inHand \in [Gateways -> SUBSET Message]
    /\ seenNodes \in [Nodes -> Table]
    /\ holder \in [Nodes -> SUBSET Gateways]
    /\ accepted \in [Nodes -> SUBSET Ident]
    /\ dropped \in [Nodes -> SUBSET Ident]
    /\ twice \in [Nodes -> SUBSET Ident]

(* Of all messages of sender s that node n has accepted, two are more than *)
(* the window apart.                                                       *)
Apart(acc, s) ==
    \E a, b \in acc : a.sender = s /\ b.sender = s /\ a.time > b.time + Window

(* The table of a node, what it has accepted and what it has dropped: an   *)
(* entry is the time of an accepted message, and the newest of them as     *)
(* long as they are not apart; a sender that was heard and has no entry    *)
(* was refused because the table is full.                                  *)
Filter(table, acc, drop, tw) ==
    /\ \A s \in DOMAIN table : \E a \in acc : a.sender = s /\ a.time = table[s]
    /\ \A a \in acc : a.sender \in DOMAIN table =>
            a.time <= table[a.sender] \/ Apart(acc, a.sender)
    /\ \A a \in acc : a.sender \notin DOMAIN table => ~hasRoom(table)
    /\ tw \subseteq acc
    /\ \A m \in tw : Apart(acc, m.sender) \/ m.sender \notin DOMAIN table
    /\ \A m \in drop : \E a \in acc : a.sender = m.sender /\ a.time \in m.time .. m.time + Window

Inv ==
    /\ TypeOK
    /\ \A n \in Nodes : Filter(seenNodes[n], accepted[n], dropped[n], twice[n])
    /\ HeldOnlyWhenFull

-----------------------------------------------------------------------------
(* messageSeen refuses a message that is no newer than the entry, by no    *)
(* more than the window (gateway.cpp:103-110).                             *)
LEMMA DropKeepsFilter ==
    ASSUME NEW table \in Table, NEW acc \in SUBSET Ident, NEW drop \in SUBSET Ident,
           NEW tw \in SUBSET Ident, NEW m \in Ident,
           Filter(table, acc, drop, tw),
           m.sender \in DOMAIN table,
           table[m.sender] >= m.time, table[m.sender] - m.time <= Window
    PROVE  Filter(table, acc, drop \cup {m}, tw)
<1>1. table[m.sender] \in Nat /\ m.time \in Nat
  BY Zenon DEF Table, Ident
<1>2. PICK a \in acc : a.sender = m.sender /\ a.time = table[m.sender]
  BY Zenon DEF Filter
<1>3. a.time \in m.time .. m.time + Window
  BY <1>1, <1>2, NetworkAssumption
<1> QED
  BY <1>2, <1>3, Zenon DEF Filter

(* It accepts, without an entry, a message of a sender for whom there is   *)
(* no room (gateway.cpp:90).                                               *)
LEMMA FullKeepsFilter ==
    ASSUME NEW table \in Table, NEW acc \in SUBSET Ident, NEW drop \in SUBSET Ident,
           NEW tw \in SUBSET Ident, NEW m \in Ident,
           Filter(table, acc, drop, tw),
           m.sender \notin DOMAIN table, ~hasRoom(table)
    PROVE  Filter(table, acc \cup {m}, drop, tw \cup ({m} \cap acc))
<1> DEFINE acc2 == acc \cup {m}
<1>1. \A s : Apart(acc, s) => Apart(acc2, s)
  BY Zenon DEF Apart
<1> QED
  BY <1>1, Zenon DEF Filter

(* It accepts a message that is newer than the entry, or older by more     *)
(* than the window, and the first one of a sender (gateway.cpp:92-96, 105, *)
(* 112).                                                                   *)
LEMMA AcceptKeepsFilter ==
    ASSUME NEW table \in Table, NEW acc \in SUBSET Ident, NEW drop \in SUBSET Ident,
           NEW tw \in SUBSET Ident, NEW m \in Ident,
           Filter(table, acc, drop, tw),
           IF m.sender \in DOMAIN table
           THEN ~(table[m.sender] >= m.time /\ table[m.sender] - m.time <= Window)
           ELSE hasRoom(table)
    PROVE  Filter([s \in DOMAIN table \cup {m.sender} |-> IF s = m.sender THEN m.time ELSE table[s]],
                  acc \cup {m}, drop, tw \cup ({m} \cap acc))
<1> DEFINE acc2 == acc \cup {m}
           new == [s \in DOMAIN table \cup {m.sender} |-> IF s = m.sender THEN m.time ELSE table[s]]
<1>0. /\ m.time \in Nat /\ Window \in Nat /\ TableSize \in Nat
      /\ \A a \in acc2 : a.time \in Nat
      /\ \A s \in DOMAIN table : table[s] \in Nat
  BY NetworkAssumption DEF Table, Ident
<1>1. \A s : Apart(acc, s) => Apart(acc2, s)
  BY Zenon DEF Apart
<1>2. CASE m.sender \in DOMAIN table
  <2>1. PICK b \in acc : b.sender = m.sender /\ b.time = table[m.sender]
    BY <1>2, Zenon DEF Filter
  <2>2. table[m.sender] < m.time \/ Apart(acc2, m.sender)
    <3>1. CASE table[m.sender] >= m.time
      <4>1. b.time > m.time + Window
        BY <1>0, <1>2, <2>1, <3>1
      <4> QED
        BY <2>1, <4>1, Zenon DEF Apart
    <3> QED
      BY <3>1, <1>0, <1>2
  <2>3. DOMAIN new = DOMAIN table /\ new[m.sender] = m.time
    BY <1>2, Zenon
  <2>4. \A s \in DOMAIN table : s # m.sender => new[s] = table[s]
    OBVIOUS
  <2>5. \A a \in acc : a.sender = m.sender => a.time < m.time \/ Apart(acc2, m.sender)
    <3> SUFFICES ASSUME NEW a \in acc, a.sender = m.sender, ~Apart(acc2, m.sender)
                 PROVE  a.time < m.time
      OBVIOUS
    <3>1. a.time <= table[m.sender]
      BY <1>1, <1>2, Zenon DEF Filter
    <3> QED
      BY <3>1, <2>2, <1>0, <1>2
  <2>6. \A s \in DOMAIN new : \E a \in acc2 : a.sender = s /\ a.time = new[s]
    BY <2>3, <2>4, Zenon DEF Filter
  <2>7. \A a \in acc2 : a.sender \in DOMAIN new => a.time <= new[a.sender] \/ Apart(acc2, a.sender)
    <3> SUFFICES ASSUME NEW a \in acc2, a.sender \in DOMAIN new
                 PROVE  a.time <= new[a.sender] \/ Apart(acc2, a.sender)
      OBVIOUS
    <3>1. CASE a.sender = m.sender
      BY <3>1, <2>3, <2>5, <1>0
    <3>2. CASE a.sender # m.sender
      BY <3>2, <2>3, <2>4, <1>1, Zenon DEF Filter
    <3> QED
      BY <3>1, <3>2, Zenon
  <2>8. m \in acc => Apart(acc2, m.sender)
    <3>1. ~(m.time < m.time)
      BY <1>0
    <3> HIDE DEF acc2
    <3> QED
      BY <2>5, <3>1, Zenon
  <2>9. \A x \in tw \cup ({m} \cap acc) : Apart(acc2, x.sender) \/ x.sender \notin DOMAIN new
    BY <2>8, <2>3, <1>1, Zenon DEF Filter
  <2> HIDE DEF new, acc2
  <2>10. acc \subseteq acc2 /\ m \in acc2 /\ acc2 = acc \cup {m}
    BY Zenon DEF acc2
  <2>11. \A a \in acc2 : a.sender \notin DOMAIN new => ~hasRoom(new)
    BY <2>10, <2>3, <1>2, Zenon DEF Filter, hasRoom
  <2>12. tw \cup ({m} \cap acc) \subseteq acc2
    BY <2>10, Zenon DEF Filter
  <2>13. \A x \in drop : \E a \in acc2 : a.sender = x.sender /\ a.time \in x.time .. x.time + Window
    BY <2>10, Zenon DEF Filter
  <2>14. Filter(new, acc2, drop, tw \cup ({m} \cap acc))
    BY <2>6, <2>7, <2>9, <2>11, <2>12, <2>13, Zenon DEF Filter
  <2> QED
    BY <2>14, Zenon DEF new, acc2
<1>3. CASE m.sender \notin DOMAIN table
  <2>1. \A a \in acc : a.sender \in DOMAIN table
    <3> SUFFICES ASSUME NEW a \in acc, a.sender \notin DOMAIN table PROVE FALSE
      OBVIOUS
    <3>1. ~hasRoom(table)
      BY Zenon DEF Filter
    <3>2. hasRoom(table)
      BY <1>3, Zenon
    <3> QED
      BY <3>1, <3>2, Zenon
  <2>2. m \notin acc
    BY <2>1, <1>3, Zenon
  <2>3. DOMAIN new = DOMAIN table \cup {m.sender} /\ new[m.sender] = m.time
    OBVIOUS
  <2>4. \A s \in DOMAIN table : new[s] = table[s]
    BY <1>3, Zenon
  <2>5. \A s \in DOMAIN new : \E a \in acc2 : a.sender = s /\ a.time = new[s]
    BY <2>3, <2>4, Zenon DEF Filter
  <2>6. \A a \in acc2 : a.sender \in DOMAIN new /\ (a.time <= new[a.sender] \/ Apart(acc2, a.sender))
    <3>1. m.time <= new[m.sender]
      BY <2>3, <1>0
    <3>2. \A a \in acc : a.time <= new[a.sender] \/ Apart(acc2, a.sender)
      BY <2>1, <2>4, <1>1, Zenon DEF Filter
    <3> QED
      BY <2>1, <2>3, <3>1, <3>2, Zenon
  <2>7. \A x \in tw : Apart(acc2, x.sender)
    BY <2>1, <1>1, Zenon DEF Filter
  <2>8. tw \cup ({m} \cap acc) = tw
    BY <2>2, Zenon
  <2> HIDE DEF new, acc2
  <2>9. acc \subseteq acc2
    BY Zenon DEF acc2
  <2>10. Filter(new, acc2, drop, tw)
    BY <2>5, <2>6, <2>7, <2>9, Zenon DEF Filter
  <2> QED
    BY <2>8, <2>10, Zenon DEF new, acc2
<1> QED
  BY <1>2, <1>3, Zenon

-----------------------------------------------------------------------------
(* What sendNetworkMsg puts on the links are messages for their gateways.  *)
LEMMA SentType ==
    ASSUME NEW gs \in SUBSET Gateways, NEW m \in Message
    PROVE  Sent(gs, m) \subseteq Gateways \X Message
BY NetworkAssumption DEF Sent, Gateways, Links

(* The steps that do not ask messageSeen leave what it has said alone.     *)
LEMMA SeenUnchanged ==
    Inv /\ UNCHANGED seenVars =>
        /\ \A n \in Nodes : Filter(seenNodes'[n], accepted'[n], dropped'[n], twice'[n])
        /\ HeldOnlyWhenFull'
BY Zenon DEF Inv, seenVars, HeldOnlyWhenFull

(* publish puts a well-formed message on the links (topic.cpp:96-131).     *)
LEMMA PublishStep ==
    ASSUME Inv, NEW n \in Nodes, publish(n)
    PROVE  Inv'
<1>1. PICK now \in clock[n] .. MaxTime[n] :
        LET topic == Program[n][count[n] + 1]
            m == [sender |-> n, id |-> count[n] + 1, time |-> now, topic |-> topic, steps |-> MaxSteps]
        IN  /\ clock' = [clock EXCEPT ![n] = now]
            /\ inTransit' = inTransit \cup Sent(put(n, topic) \cup routeMsg(n, m, local), m)
  BY Zenon DEF publish
<1> DEFINE topic == Program[n][count[n] + 1]
           m == [sender |-> n, id |-> count[n] + 1, time |-> now, topic |-> topic, steps |-> MaxSteps]
           gs == put(n, topic) \cup routeMsg(n, m, local)
<1>2. /\ clock[n] \in Nat /\ count[n] \in Nat /\ count[n] + 1 \in Nat
      /\ count[n] + 1 \in 1 .. Len(Program[n])
  BY NetworkAssumption DEF Inv, TypeOK, publish
<1>3. now \in Nat
  BY <1>2, NetworkAssumption
<1>4. topic \in Nat
  BY <1>2, NetworkAssumption
<1>5. m \in Message
  BY <1>2, <1>3, <1>4, NetworkAssumption, Zenon DEF Message
<1>6. gs \in SUBSET Gateways
  BY Zenon DEF put, routeMsg, gatewaysOf
<1>7. inTransit' = inTransit \cup Sent(gs, m) /\ clock' = [clock EXCEPT ![n] = now]
  BY <1>1, Zenon
<1> HIDE DEF gs, m
<1>8. Sent(gs, m) \subseteq Gateways \X Message
  BY <1>5, <1>6, SentType, Zenon
<1>9. TypeOK'
  BY <1>2, <1>3, <1>7, <1>8, Zenon DEF Inv, TypeOK, publish, seenVars
<1> QED
  BY <1>9, SeenUnchanged, Zenon DEF Inv, publish

(* A gateway that distributes what it has accepted (gateway.cpp:203-237).  *)
LEMMA DistributeStep ==
    ASSUME Inv, NEW g \in Gateways, Distribute(g)
    PROVE  Inv'
<1>1. PICK taken \in inHand[g] :
        LET m == [taken EXCEPT !.steps = @ - 1]
        IN  inTransit' = inTransit \/ inTransit' = inTransit \cup Sent(routeMsg(g[1], m, g[2]), m)
  BY Zenon DEF Distribute
<1> DEFINE m == [taken EXCEPT !.steps = @ - 1]
           gs == routeMsg(g[1], m, g[2])
<1>2. taken \in Message
  BY Zenon DEF Inv, TypeOK
<1>3. gs \in SUBSET Gateways /\ (gs # {} => m.steps > 0)
  BY Zenon DEF routeMsg, gatewaysOf
<1>4. inTransit' \subseteq Gateways \X Message
  <2>1. CASE gs = {}
    BY <2>1, <1>1, Zenon DEF Sent, Inv, TypeOK
  <2>2. CASE gs # {}
    <3>1. m.steps = taken.steps - 1 /\ taken.steps \in Nat
      BY <1>2, Zenon DEF Message
    <3>2. m.steps \in Nat
      BY <3>1, <2>2, <1>3
    <3>3. m \in Message
      BY <3>1, <3>2, <1>2, Zenon DEF Message
    <3> HIDE DEF m
    <3>4. Sent(gs, m) \subseteq Gateways \X Message
      BY <3>3, <1>3, SentType, Zenon
    <3> QED
      BY <3>4, <1>1, Zenon DEF Inv, TypeOK, m
  <2> QED
    BY <2>1, <2>2, Zenon
<1>5. TypeOK'
  BY <1>4, Zenon DEF Inv, TypeOK, Distribute, linkVars, seenVars
<1> QED
  BY <1>5, SeenUnchanged, Zenon DEF Inv, Distribute

(* Losing a message.                                                       *)
LEMMA LoseStep ==
    ASSUME Inv, Lose
    PROVE  Inv'
<1>1. TypeOK'
  BY Zenon DEF Inv, TypeOK, Lose, seenVars
<1> QED
  BY <1>1, SeenUnchanged, Zenon DEF Inv, Lose

(* A restart empties the table together with what it stands for.           *)
LEMMA RestartStep ==
    ASSUME Inv, NEW n \in Nodes, Restart(n)
    PROVE  Inv'
<1>1. NoNodes \in Table /\ DOMAIN NoNodes = {}
  BY DEF NoNodes, Table
<1>2. TypeOK'
  BY <1>1, Zenon DEF Inv, TypeOK, Restart
<1>3. Filter(NoNodes, {}, {}, {})
  BY <1>1, Zenon DEF Filter
<1>4. ASSUME NEW p \in Nodes
      PROVE  Filter(seenNodes'[p], accepted'[p], dropped'[p], twice'[p])
  <2>1. CASE p = n
    BY <2>1, <1>3, Zenon DEF Inv, TypeOK, Restart
  <2>2. CASE p # n
    BY <2>2, Zenon DEF Inv, TypeOK, Restart
  <2> QED
    BY <2>1, <2>2, Zenon
<1>5. HeldOnlyWhenFull'
  BY DEF Inv, TypeOK, Restart, HeldOnlyWhenFull
<1> QED
  BY <1>2, <1>4, <1>5, Zenon DEF Inv

(* messageSeen in each of its three outcomes (gateway.cpp:55-117).         *)
LEMMA MessageSeenStep ==
    ASSUME Inv, NEW g \in Gateways, NEW m \in Message, messageSeen(g, m)
    PROVE  /\ seenNodes' \in [Nodes -> Table] /\ holder' \in [Nodes -> SUBSET Gateways]
           /\ accepted' \in [Nodes -> SUBSET Ident] /\ dropped' \in [Nodes -> SUBSET Ident]
           /\ twice' \in [Nodes -> SUBSET Ident] /\ inHand' \in [Gateways -> SUBSET Message]
           /\ \A p \in Nodes : Filter(seenNodes'[p], accepted'[p], dropped'[p], twice'[p])
           /\ HeldOnlyWhenFull'
<1> DEFINE n == g[1]
           i == ident(m)
           acc == accepted[n]
           new == [s \in DOMAIN seenNodes[n] \cup {m.sender} |->
                     IF s = m.sender THEN m.time ELSE seenNodes[n][s]]
<1>1. n \in Nodes
  BY Zenon DEF Gateways
<1>2. i \in Ident /\ i.sender = m.sender /\ i.time = m.time /\ m.sender \in Nodes /\ m.time \in Nat
  BY Zenon DEF ident, Ident, Message
<1>3. TypeOK /\ HeldOnlyWhenFull /\ \A p \in Nodes : Filter(seenNodes[p], accepted[p], dropped[p], twice[p])
  BY Zenon DEF Inv
<1>4. /\ seenNodes[n] \in Table /\ accepted[n] \in SUBSET Ident
      /\ dropped[n] \in SUBSET Ident /\ twice[n] \in SUBSET Ident
  BY <1>1, <1>3, Zenon DEF TypeOK
<1> HIDE DEF n, i
<1>5. CASE /\ m.sender \notin DOMAIN seenNodes[n] /\ ~hasRoom(seenNodes[n])
           /\ Accept(n, m)
           /\ holder' = [holder EXCEPT ![n] = {g}]
           /\ inHand' = [inHand EXCEPT ![g] = {m}]
           /\ UNCHANGED seenNodes
  <2>1. /\ accepted' = [accepted EXCEPT ![n] = acc \cup {i}]
        /\ twice' = [twice EXCEPT ![n] = twice[n] \cup ({i} \cap acc)]
        /\ dropped' = dropped
    BY <1>5, Zenon DEF Accept, i
  <2>2. Filter(seenNodes[n], acc \cup {i}, dropped[n], twice[n] \cup ({i} \cap acc))
    BY <1>1, <1>2, <1>3, <1>4, <1>5, FullKeepsFilter, Zenon
  <2>3. ASSUME NEW p \in Nodes
        PROVE  Filter(seenNodes'[p], accepted'[p], dropped'[p], twice'[p])
    <3>1. CASE p = n
      BY <3>1, <1>3, <1>5, <2>1, <2>2, Zenon DEF TypeOK
    <3>2. CASE p # n
      BY <3>2, <1>3, <1>5, <2>1, Zenon DEF TypeOK
    <3> QED
      BY <3>1, <3>2, Zenon
  <2>4. HeldOnlyWhenFull'
    <3> SUFFICES ASSUME NEW p \in Nodes, NEW h \in holder'[p]
                 PROVE  /\ h[1] = p /\ ~hasRoom(seenNodes[p])
                        /\ \E x \in accepted'[p] : x.sender \notin DOMAIN seenNodes[p]
      BY <1>5, Zenon DEF HeldOnlyWhenFull
    <3>1. CASE p = n
      <4>1. h = g
        BY <3>1, <1>3, <1>5, Zenon DEF TypeOK
      <4>2. i \in accepted'[p]
        BY <3>1, <2>1, <1>3, Zenon DEF TypeOK
      <4> QED
        BY <4>1, <4>2, <3>1, <1>2, <1>5, Zenon DEF n
    <3>2. CASE p # n
      BY <3>2, <1>3, <1>5, <2>1, Zenon DEF TypeOK, HeldOnlyWhenFull
    <3> QED
      BY <3>1, <3>2, Zenon
  <2> QED
    BY <2>1, <2>3, <2>4, <1>1, <1>2, <1>3, <1>4, <1>5, ZenonT(20) DEF TypeOK
<1>6. CASE /\ IF m.sender \in DOMAIN seenNodes[n] THEN ~isSeen(n, m) ELSE hasRoom(seenNodes[n])
           /\ Accept(n, m)
           /\ seenNodes' = [seenNodes EXCEPT ![n] = new]
           /\ inHand' = [inHand EXCEPT ![g] = {m}]
           /\ leave(g)
  <2>1. /\ accepted' = [accepted EXCEPT ![n] = acc \cup {i}]
        /\ twice' = [twice EXCEPT ![n] = twice[n] \cup ({i} \cap acc)]
        /\ dropped' = dropped /\ holder' = holder
    BY <1>6, Zenon DEF Accept, i, leave
  <2>2. Filter(new, acc \cup {i}, dropped[n], twice[n] \cup ({i} \cap acc))
    <3>1. IF i.sender \in DOMAIN seenNodes[n]
          THEN ~(seenNodes[n][i.sender] >= i.time /\ seenNodes[n][i.sender] - i.time <= Window)
          ELSE hasRoom(seenNodes[n])
      BY <1>2, <1>6, Zenon DEF isSeen
    <3>2. new = [s \in DOMAIN seenNodes[n] \cup {i.sender} |->
                    IF s = i.sender THEN i.time ELSE seenNodes[n][s]]
      BY <1>2, Zenon
    <3>3. Filter(seenNodes[n], acc, dropped[n], twice[n])
      BY <1>1, <1>3, Zenon
    <3> HIDE DEF new, acc
    <3> QED
      BY <3>1, <3>2, <3>3, <1>2, <1>4, AcceptKeepsFilter, Zenon DEF acc
  <2>3. new \in Table /\ DOMAIN new = DOMAIN seenNodes[n] \cup {m.sender}
    <3>1. PICK S \in SUBSET Nodes : seenNodes[n] \in [S -> Nat]
      BY <1>4, Zenon DEF Table
    <3>2. new \in [S \cup {m.sender} -> Nat]
      BY <3>1, <1>2, Zenon
    <3>3. S \cup {m.sender} \in SUBSET Nodes
      BY <1>2, Zenon
    <3> HIDE DEF new
    <3>4. new \in Table
      BY <3>2, <3>3, Zenon DEF Table
    <3> QED
      BY <3>4, Zenon DEF new
  <2> HIDE DEF new
  <2>4. ASSUME NEW p \in Nodes
        PROVE  Filter(seenNodes'[p], accepted'[p], dropped'[p], twice'[p])
    <3>1. CASE p = n
      BY <3>1, <1>3, <1>6, <2>1, <2>2, Zenon DEF TypeOK
    <3>2. CASE p # n
      BY <3>2, <1>3, <1>6, <2>1, Zenon DEF TypeOK
    <3> QED
      BY <3>1, <3>2, Zenon
  <2>5. HeldOnlyWhenFull'
    <3> SUFFICES ASSUME NEW p \in Nodes, NEW h \in holder[p]
                 PROVE  /\ h[1] = p /\ ~hasRoom(seenNodes'[p])
                        /\ \E x \in accepted'[p] : x.sender \notin DOMAIN seenNodes'[p]
      BY <2>1, Zenon DEF HeldOnlyWhenFull
    <3>0. h[1] = p /\ ~hasRoom(seenNodes[p])
      BY <1>3, Zenon DEF HeldOnlyWhenFull
    <3>1. PICK x \in accepted[p] : x.sender \notin DOMAIN seenNodes[p]
      BY <1>3, Zenon DEF HeldOnlyWhenFull
    <3>2. CASE p = n
      <4>1. m.sender \in DOMAIN seenNodes[n]
        BY <3>0, <3>2, <1>6, Zenon
      <4>2. DOMAIN new = DOMAIN seenNodes[n] /\ seenNodes'[p] = new
        BY <4>1, <2>3, <3>2, <1>3, <1>6 DEF TypeOK
      <4>3. ~hasRoom(seenNodes'[p])
        BY <4>2, <3>0, <3>2, Zenon DEF hasRoom
      <4>4. x \in accepted'[p]
        BY <2>1, <3>2, <1>3, Zenon DEF TypeOK
      <4> QED
        BY <4>2, <4>3, <4>4, <3>0, <3>1, <3>2, Zenon
    <3>3. CASE p # n
      BY <3>3, <3>0, <3>1, <1>3, <1>6, <2>1, Zenon DEF TypeOK
    <3> QED
      BY <3>2, <3>3, Zenon
  <2> QED
    BY <2>1, <2>3, <2>4, <2>5, <1>1, <1>2, <1>3, <1>4, <1>6, ZenonT(20) DEF TypeOK
<1>7. CASE /\ m.sender \in DOMAIN seenNodes[n] /\ isSeen(n, m)
           /\ Drop(n, m)
           /\ leave(g)
           /\ UNCHANGED <<seenNodes, inHand>>
  <2>1. /\ dropped' = [dropped EXCEPT ![n] = dropped[n] \cup {i}]
        /\ accepted' = accepted /\ twice' = twice
        /\ holder' = holder /\ seenNodes' = seenNodes /\ inHand' = inHand
    BY <1>7, Zenon DEF Drop, i, leave
  <2>2. Filter(seenNodes[n], accepted[n], dropped[n] \cup {i}, twice[n])
    BY <1>1, <1>2, <1>3, <1>4, <1>7, DropKeepsFilter, Zenon DEF isSeen
  <2>3. ASSUME NEW p \in Nodes
        PROVE  Filter(seenNodes'[p], accepted'[p], dropped'[p], twice'[p])
    <3>1. CASE p = n
      BY <3>1, <1>3, <2>1, <2>2, Zenon DEF TypeOK
    <3>2. CASE p # n
      BY <3>2, <1>3, <2>1, Zenon DEF TypeOK
    <3> QED
      BY <3>1, <3>2, Zenon
  <2>4. HeldOnlyWhenFull'
    BY <2>1, <1>3, Zenon DEF HeldOnlyWhenFull
  <2> QED
    BY <2>1, <2>3, <2>4, <1>1, <1>2, <1>3, <1>4, Zenon DEF TypeOK
<1>8. \/ /\ m.sender \notin DOMAIN seenNodes[n] /\ ~hasRoom(seenNodes[n])
         /\ Accept(n, m)
         /\ holder' = [holder EXCEPT ![n] = {g}]
         /\ inHand' = [inHand EXCEPT ![g] = {m}]
         /\ UNCHANGED seenNodes
      \/ /\ IF m.sender \in DOMAIN seenNodes[n] THEN ~isSeen(n, m) ELSE hasRoom(seenNodes[n])
         /\ Accept(n, m)
         /\ seenNodes' = [seenNodes EXCEPT ![n] = new]
         /\ inHand' = [inHand EXCEPT ![g] = {m}]
         /\ leave(g)
      \/ /\ m.sender \in DOMAIN seenNodes[n] /\ isSeen(n, m)
         /\ Drop(n, m)
         /\ leave(g)
         /\ UNCHANGED <<seenNodes, inHand>>
  BY Zenon DEF messageSeen, n
<1> QED
  BY <1>5, <1>6, <1>7, <1>8, Zenon

(* A gateway that takes a message from its link (gateway.cpp:191-201).     *)
LEMMA ReceiveStep ==
    ASSUME Inv, NEW g \in Gateways, Receive(g)
    PROVE  Inv'
<1>1. PICK m \in {p[2] : p \in {q \in inTransit : q[1] = g}} :
        /\ inTransit' \subseteq inTransit
        /\ \/ UNCHANGED <<inHand, seenVars>>
           \/ messageSeen(g, m)
        /\ UNCHANGED <<clock, count, external>>
  BY Zenon DEF Receive
<1>2. m \in Message /\ inTransit' \subseteq Gateways \X Message
  BY <1>1, Zenon DEF Inv, TypeOK
<1>3. CASE UNCHANGED <<inHand, seenVars>>
  <2>1. TypeOK'
    BY <1>1, <1>2, <1>3, Zenon DEF Inv, TypeOK, seenVars
  <2> QED
    BY <2>1, <1>3, SeenUnchanged, Zenon DEF Inv
<1>4. CASE messageSeen(g, m)
  <2>1. clock' = clock /\ count' = count
    BY <1>1, Zenon
  <2>2. clock \in [Nodes -> Nat] /\ count \in [Nodes -> Nat]
    BY Zenon DEF Inv, TypeOK
  <2> QED
    BY <2>1, <2>2, <1>2, <1>4, MessageSeenStep, Zenon DEF Inv, TypeOK
<1> QED
  BY <1>1, <1>3, <1>4, Zenon

-----------------------------------------------------------------------------
(* The invariant holds in every network that runs this code.               *)
THEOREM FilterInvariant == Spec => []Inv
<1>1. Init => Inv
  <2> SUFFICES ASSUME Init PROVE Inv
    OBVIOUS
  <2>1. NoNodes \in Table /\ DOMAIN NoNodes = {}
    BY DEF NoNodes, Table
  <2>2. TypeOK
    BY <2>1, Zenon DEF Init, TypeOK
  <2>3. Filter(NoNodes, {}, {}, {})
    BY <2>1, Zenon DEF Filter
  <2> QED
    BY <2>2, <2>3, Zenon DEF Init, Inv, HeldOnlyWhenFull
<1>2. Inv /\ [Next]_vars => Inv'
  <2> SUFFICES ASSUME Inv, [Next]_vars PROVE Inv'
    OBVIOUS
  <2>1. CASE UNCHANGED vars
    <3>1. TypeOK'
      BY <2>1, Zenon DEF Inv, TypeOK, vars, linkVars, seenVars
    <3> QED
      BY <2>1, <3>1, SeenUnchanged, Zenon DEF Inv, vars
  <2>2. ASSUME NEW n \in Nodes, publish(n) \/ Restart(n) PROVE Inv'
    BY <2>2, PublishStep, RestartStep, Zenon
  <2>3. ASSUME NEW g \in Gateways, Receive(g) \/ Distribute(g) PROVE Inv'
    BY <2>3, ReceiveStep, DistributeStep, Zenon
  <2> QED
    BY <2>1, <2>2, <2>3, LoseStep, Zenon DEF Next
<1> QED
  BY <1>1, <1>2, PTL DEF Spec

(* No node accepts a message twice unless the sender's messages are more   *)
(* than the window apart or the sender has no entry (gateway.cpp:103).     *)
THEOREM AcceptedAtMostOnce == Spec => []AtMostOnce
<1>1. Inv => AtMostOnce
  BY Zenon DEF Inv, Filter, Apart, AtMostOnce
<1> QED
  BY <1>1, FilterInvariant, PTL

(* A suppressed message is always covered by an accepted one of the same   *)
(* sender that is as new (gateway.cpp:103-104).                            *)
THEOREM SuppressedOnlyIfCovered == Spec => []DropsJustified
<1>1. Inv => DropsJustified
  BY Zenon DEF Inv, Filter, DropsJustified
<1> QED
  BY <1>1, FilterInvariant, PTL

(* The lock on the table stays taken only after a sender for whom there    *)
(* was no room (gateway.cpp:90).                                           *)
THEOREM LockedOnlyWhenFull == Spec => []HeldOnlyWhenFull
<1>1. Inv => HeldOnlyWhenFull
  BY Zenon DEF Inv
<1> QED
  BY <1>1, FilterInvariant, PTL

-----------------------------------------------------------------------------
(* The topic register (module TopicRegister).                              *)

USE SMTT(20)

RegisterTypeOK ==
    /\ up \in [Others -> BOOLEAN] /\ timer \in [Others -> 0 .. Period]
    /\ report \in [Others -> 0 .. NoReport] /\ silence \in [Others -> 0 .. Never]
    /\ receiverNodesBitMap \subseteq Others
    /\ pos \in 0 .. Len(NodeList)
    /\ dead \in BOOLEAN /\ (dead => pos > 0)
    /\ word = NotLoaded \/ (word \subseteq Others /\ dead)
    /\ lost \in [Others -> 0 .. 3]

Heard(m) == up[m] /\ silence[m] # Never /\ lost[m] < 3

Allowed(l) == (l + 1) * Period

(* How long a node has been silent follows from how many of its reports    *)
(* were lost, and from when the next one is sent or since when it is under *)
(* way.                                                                    *)
Punctual(m) ==
    Heard(m) => IF report[m] = NoReport
                THEN silence[m] + timer[m] <= Allowed(lost[m])
                ELSE silence[m] <= Allowed(lost[m]) + report[m]

(* A bitmap that clearBit will store has the bit of every node that is     *)
(* punctual and whose last report it does not undo; the bit it clears is   *)
(* that of a dead node, or of one whose report it undoes.                  *)
Known(m) ==
    Heard(m) /\ m \notin raced =>
        m \in receiverNodesBitMap /\ (word # NotLoaded => m \in word)

ClearsDead == dead => isDead(NodeList[pos]) \/ NodeList[pos] \in raced

RegisterInv ==
    /\ RegisterTypeOK /\ ClearsDead
    /\ \A m \in Others : Punctual(m)
    /\ \A m \in Subscribed : Known(m)

-----------------------------------------------------------------------------
(* The times of the register are natural numbers.                          *)
LEMMA Times ==
    /\ Period \in Nat /\ First \in Nat /\ First <= Period /\ VeryOld \in Nat /\ MaxDelay \in Nat
    /\ NoReport \in Nat /\ NoReport = MaxDelay + 1 /\ Never \in Nat /\ Never = VeryOld + 2
    /\ Subscribed \subseteq Others
BY TopicRegisterAssumption DEF NoReport, Never

(* Each lost report allows for one more period of silence.                 *)
LEMMA Allowance ==
    /\ Allowed(0) = Period /\ Allowed(1) = 2 * Period /\ Allowed(2) = 3 * Period
    /\ \A l \in 0 .. 3 : Allowed(l) \in Nat
    /\ \A l \in 0 .. 1 : Allowed(l + 1) = Allowed(l) + Period
BY Times DEF Allowed

(* A punctual node is never dead for isDead (line 74).                     *)
LEMMA PunctualNotDead ==
    ASSUME 3 * Period + MaxDelay <= VeryOld, RegisterTypeOK, NEW m \in Others, Punctual(m), Heard(m)
    PROVE  ~isDead(m)
<1> USE Times DEF RegisterTypeOK, Punctual, Heard, isDead
<1>1. lost[m] \in 0 .. 2
    OBVIOUS
<1>2. Allowed(lost[m]) \in Nat /\ Allowed(lost[m]) <= 3 * Period
    BY ONLY <1>1, Allowance, Period \in Nat
<1>3. silence[m] \in Nat /\ timer[m] \in Nat /\ report[m] \in 0 .. NoReport
    OBVIOUS
<1>4. silence[m] <= 3 * Period + MaxDelay
    <2>1. CASE report[m] = NoReport
        <3>1. silence[m] + timer[m] <= Allowed(lost[m]) BY <2>1, Zenon
        <3> QED BY ONLY <1>2, <1>3, <3>1, Times
    <2>2. CASE report[m] # NoReport
        <3>1. silence[m] <= Allowed(lost[m]) + report[m] BY <2>2, Zenon
        <3>2. report[m] \in 0 .. MaxDelay BY ONLY <1>3, <2>2, Times
        <3> QED BY ONLY <1>2, <1>3, <3>1, <3>2, Times
    <2> QED BY ONLY <2>1, <2>2, Zenon
<1>5. silence[m] <= VeryOld
    BY ONLY <1>3, <1>4, Times, 3 * Period + MaxDelay <= VeryOld
<1> QED BY ONLY <1>3, <1>5, Times DEF isDead

(* A report that is published, or lost, leaves its node punctual (line 68).*)
LEMMA ReportStep ==
    ASSUME RegisterInv, NEW n \in Others, publishReport(n)
    PROVE  RegisterInv'
<1> USE Times
<1>1. RegisterTypeOK BY Zenon DEF RegisterInv
<1>2. RegisterTypeOK'
    <2> USE <1>1 DEF RegisterTypeOK, publishReport
    <2>1. timer' \in [Others -> 0 .. Period] BY SMTT(30)
    <2>2. report' \in [Others -> 0 .. NoReport]
        <3>1. 0 \in 0 .. NoReport OBVIOUS
        <3> QED BY <3>1, Zenon
    <2>3. lost' \in [Others -> 0 .. 3]
        <3>1. lost[n] \in 0 .. 3 OBVIOUS
        <3>2. (IF lost[n] < 3 THEN lost[n] + 1 ELSE 3) \in 0 .. 3 BY ONLY <3>1
        <3> QED BY Zenon, <3>2
    <2> QED BY <2>1, <2>2, <2>3, Zenon DEF loopVars
<1>3. ClearsDead' BY Zenon DEF RegisterInv, publishReport, loopVars, ClearsDead, isDead
<1>4. ASSUME NEW m \in Others PROVE Punctual(m)'
    <2> USE DEF Punctual, Heard
    <2>1. Punctual(m) BY Zenon DEF RegisterInv
    <2>2. /\ silence[m] \in Nat /\ timer[m] \in Nat /\ report[m] \in Nat /\ lost[m] \in 0 .. 3
          /\ silence' = silence /\ up' = up
        BY <1>1 DEF RegisterTypeOK, publishReport
    <2>3. CASE m # n
        <3>1. timer'[m] = timer[m] /\ report'[m] = report[m] /\ lost'[m] = lost[m]
            BY <1>1, <2>3, Zenon DEF RegisterTypeOK, publishReport
        <3> QED BY <2>1, <2>2, <3>1, Zenon
    <2>4. CASE m = n
        <3>1. timer[m] = 0 /\ timer'[m] = Period /\ report[m] = NoReport
            BY <1>1, <2>4, Zenon DEF RegisterTypeOK, publishReport
        <3>2. \/ report'[m] = 0 /\ lost'[m] = lost[m]
              \/ report'[m] = NoReport /\ lost'[m] = IF lost[m] < 3 THEN lost[m] + 1 ELSE 3
            BY <1>1, <2>4, <3>1, Zenon DEF RegisterTypeOK, publishReport
        <3>3. CASE report'[m] = 0 /\ lost'[m] = lost[m]
            BY <2>1, <2>2, <3>1, <3>3, Allowance
        <3>4. CASE report'[m] = NoReport /\ lost'[m] = IF lost[m] < 3 THEN lost[m] + 1 ELSE 3
            <4>1. CASE lost[m] \in 0 .. 1
                <5>1. Allowed(lost'[m]) = Allowed(lost[m]) + Period /\ Allowed(lost[m]) \in Nat
                    BY <3>4, <4>1, Allowance
                <5> QED BY <2>1, <2>2, <3>1, <3>4, <4>1, <5>1
            <4>2. CASE lost[m] \in 2 .. 3 BY <2>2, <3>4, <4>2
            <4> QED BY <2>2, <4>1, <4>2
        <3> QED BY <3>2, <3>3, <3>4, Zenon
    <2> QED BY <2>3, <2>4, Zenon
<1>5. ASSUME NEW m \in Subscribed PROVE Known(m)'
    <2>1. lost[m] \in 0 .. 3 BY <1>1, Zenon DEF RegisterTypeOK
    <2>2. lost'[m] = lost[m] \/ lost'[m] = IF lost[m] < 3 THEN lost[m] + 1 ELSE 3
        BY <1>1, Zenon DEF RegisterTypeOK, publishReport
    <2>3. lost'[m] < 3 => lost[m] < 3 BY ONLY <2>1, <2>2
    <2>4. Heard(m)' => Heard(m)
        BY <2>3, Zenon DEF Heard, publishReport
    <2> QED BY <2>4, Zenon DEF RegisterInv, Known, publishReport, loopVars
<1> QED BY <1>2, <1>3, <1>4, <1>5, Zenon DEF RegisterInv

(* putReport makes a node punctual, and known unless the loop undoes it    *)
(* (line 102).                                                             *)
LEMMA PutStep ==
    ASSUME RegisterInv, NEW n \in Others, putReport(n)
    PROVE  RegisterInv'
<1> USE Times DEF RegisterInv, RegisterTypeOK, putReport, putBits, undone, loopVars
<1>1. RegisterTypeOK' OBVIOUS
<1>2. ClearsDead' BY DEF ClearsDead, isDead
<1>3. ASSUME NEW m \in Others PROVE Punctual(m)'
    <2>1. CASE m # n BY <2>1, Zenon DEF Punctual, Heard
    <2>2. CASE m = n
        <3>1. report'[m] = NoReport /\ silence'[m] = 0 /\ lost'[m] = 0 /\ timer'[m] = timer[m]
            BY <2>2, Zenon
        <3>2. timer[m] \in 0 .. Period OBVIOUS
        <3>3. silence'[m] + timer'[m] <= Allowed(lost'[m])
            BY ONLY <3>1, <3>2, Allowance, Period \in Nat
        <3> QED BY ONLY <3>1, <3>3, Zenon DEF Punctual
    <2> QED BY <2>1, <2>2, Zenon
<1>4. ASSUME NEW m \in Subscribed PROVE Known(m)'
    BY Zenon DEF Known, Heard
<1> QED BY <1>1, <1>2, <1>3, <1>4, Zenon

(* The loop over the nodes clears no bit of a punctual node (lines 72-77). *)
LEMMA RunStep ==
    ASSUME 3 * Period + MaxDelay <= VeryOld, RegisterInv, Run
    PROVE  RegisterInv'
<1> USE Times DEF RegisterInv, nodeVars, loopVars
<1>0. Len(NodeList) \in Nat \ {0} /\ \A i \in 1 .. Len(NodeList) : NodeList[i] \in Others
    BY TopicRegisterAssumption
<1>1. \A m \in Others : Punctual(m)'
    BY Zenon DEF Run, run, testNode, loadBits, clearBit, Punctual, Heard
<1>2. CASE run
    <2>1. RegisterTypeOK'
        <3>1. pos' \in 0 .. Len(NodeList) /\ pos' > 0
            BY <1>0, <1>2 DEF run
        <3>2. /\ up' = up /\ timer' = timer /\ report' = report /\ silence' = silence
              /\ receiverNodesBitMap' = receiverNodesBitMap /\ dead' = dead /\ word' = word /\ lost' = lost
            BY <1>2, Zenon DEF run
        <3>3. RegisterTypeOK OBVIOUS
        <3> QED BY ONLY <3>1, <3>2, <3>3, Zenon DEF RegisterTypeOK, NoReport, Never, NotLoaded
    <2>2. ClearsDead' BY <1>2 DEF RegisterTypeOK, ClearsDead, isDead, run
    <2>3. \A m \in Subscribed : Known(m)' BY <1>2, Zenon DEF Known, Heard, run
    <2> QED BY <1>1, <2>1, <2>2, <2>3, Zenon
<1>3. CASE testNode
    <2>0. pos \in 0 .. Len(NodeList) /\ pos > 0 /\ word = NotLoaded
        BY <1>3, Zenon DEF RegisterTypeOK, testNode
    <2>1. RegisterTypeOK'
        <3>1. after(pos) \in 0 .. Len(NodeList) BY ONLY <1>0, <2>0 DEF after
        <3>2. /\ dead' \in BOOLEAN /\ (dead' => pos' > 0)
              /\ pos' \in 0 .. Len(NodeList) /\ word' = NotLoaded
            <4>1. CASE pos' = after(pos) /\ UNCHANGED dead
                BY <1>3, <2>0, <3>1, <4>1, Zenon DEF RegisterTypeOK, testNode
            <4>2. CASE dead' = TRUE /\ UNCHANGED pos
                BY <1>3, <2>0, <4>2, Zenon DEF testNode
            <4> QED BY <1>3, <4>1, <4>2, Zenon DEF testNode
        <3> QED BY <1>3, <3>2, Zenon DEF RegisterTypeOK, testNode
    <2>2. ClearsDead' BY <1>3, Zenon DEF ClearsDead, isDead, testNode
    <2>3. \A m \in Subscribed : Known(m)' BY <1>3, Zenon DEF Known, Heard, testNode
    <2> QED BY <1>1, <2>1, <2>2, <2>3, Zenon
<1>4. CASE clearBit
    <2>0. pos \in 0 .. Len(NodeList) /\ pos > 0 /\ dead /\ word \subseteq Others
        BY <1>4, Zenon DEF RegisterTypeOK, clearBit
    <2>1. RegisterTypeOK'
        <3>1. after(pos) \in 0 .. Len(NodeList) BY ONLY <1>0, <2>0 DEF after
        <3>2. receiverNodesBitMap' \subseteq Others BY <1>4, <2>0, Zenon DEF clearBit, cleared
        <3> QED BY <1>4, <3>1, <3>2, Zenon DEF RegisterTypeOK, clearBit
    <2>2. ClearsDead' BY <1>4, Zenon DEF ClearsDead, clearBit
    <2>3. ASSUME NEW m \in Subscribed PROVE Known(m)'
        <3>1. NodeList[pos] \in Others BY ONLY <1>0, <2>0
        <3>2. Heard(m) /\ m \notin raced => m # NodeList[pos]
            BY <2>0, <3>1, PunctualNotDead, Zenon DEF ClearsDead
        <3> QED BY <1>4, <3>2, Zenon DEF Known, Heard, clearBit, cleared
    <2> QED BY <1>1, <2>1, <2>2, <2>3, Zenon
<1>5. CASE loadBits
    <2>1. RegisterTypeOK' BY <1>5 DEF RegisterTypeOK, loadBits
    <2>2. ClearsDead' BY <1>5, Zenon DEF ClearsDead, isDead, loadBits
    <2>3. \A m \in Subscribed : Known(m)' BY <1>5, Zenon DEF Known, Heard, loadBits
    <2> QED BY <1>1, <2>1, <2>2, <2>3, Zenon
<1> QED BY <1>2, <1>3, <1>4, <1>5, Zenon DEF Run

(* While time passes the next report comes as much nearer as the silence   *)
(* gets longer.                                                            *)
LEMMA TickStep ==
    ASSUME RegisterInv, Tick
    PROVE  RegisterInv'
<1> USE Times DEF RegisterInv, RegisterTypeOK, Tick
<1>0. \A m \in Others : /\ silence[m] \in Nat /\ timer[m] \in Nat /\ report[m] \in Nat
                        /\ lost[m] \in Nat /\ Allowed(lost[m]) \in Nat
    <2> TAKE m \in Others
    <2>1. lost[m] \in 0 .. 3 OBVIOUS
    <2>2. Allowed(lost[m]) \in Nat BY ONLY <2>1, Allowance, Zenon
    <2> QED BY <2>1, <2>2
<1>1. RegisterTypeOK'
    <2>1. timer' \in [Others -> 0 .. Period]
        <3>1. ASSUME NEW m \in Others
              PROVE  (IF up[m] THEN timer[m] - 1 ELSE timer[m]) \in 0 .. Period
            OBVIOUS
        <3>2. timer' = [m \in Others |-> IF up[m] THEN timer[m] - 1 ELSE timer[m]] OBVIOUS
        <3> QED BY ONLY <3>1, <3>2, Zenon
    <2>2. report' \in [Others -> 0 .. NoReport]
        <3>1. ASSUME NEW m \in Others
              PROVE  (IF report[m] = NoReport THEN NoReport ELSE report[m] + 1) \in 0 .. NoReport
            OBVIOUS
        <3>2. report' = [m \in Others |-> IF report[m] = NoReport THEN NoReport
                                                                 ELSE report[m] + 1] OBVIOUS
        <3> QED BY ONLY <3>1, <3>2, Zenon
    <2>3. silence' \in [Others -> 0 .. Never]
        <3>1. ASSUME NEW m \in Others
              PROVE  (IF silence[m] > VeryOld THEN silence[m] ELSE silence[m] + 1) \in 0 .. Never
            OBVIOUS
        <3>2. silence' = [m \in Others |-> IF silence[m] > VeryOld THEN silence[m]
                                                                  ELSE silence[m] + 1] OBVIOUS
        <3> QED BY ONLY <3>1, <3>2, Zenon
    <2> QED BY <2>1, <2>2, <2>3, Zenon
<1>2. ClearsDead' BY DEF ClearsDead
<1>3. ASSUME NEW m \in Others PROVE Punctual(m)'
    <2>1. Heard(m)' => Heard(m) BY <1>0 DEF Heard
    <2>2. lost' = lost /\ up' = up /\ silence'[m] <= silence[m] + 1 OBVIOUS
    <2>3. CASE report[m] = NoReport
        <3>1. report'[m] = NoReport BY <2>3, Zenon
        <3>2. Heard(m)' => timer'[m] = timer[m] - 1
            <4>1. Heard(m)' => up[m] BY ONLY <2>2, Zenon DEF Heard
            <4> QED BY <4>1, Zenon
        <3>3. /\ silence[m] \in Nat /\ timer[m] \in Nat /\ Allowed(lost[m]) \in Nat
              /\ silence'[m] \in Nat
            BY <1>0, <1>1
        <3>4. Heard(m) => silence[m] + timer[m] <= Allowed(lost[m])
            BY <2>3, Zenon DEF Punctual
        <3>5. Heard(m)' => silence'[m] + timer'[m] <= Allowed(lost'[m])
            BY ONLY <2>1, <2>2, <3>2, <3>3, <3>4
        <3> QED BY ONLY <3>1, <3>5, Zenon DEF Punctual, NoReport
    <2>4. CASE report[m] # NoReport
        <3>1. report'[m] = report[m] + 1 /\ report'[m] # NoReport
            BY <1>0, <2>4
        <3>2. /\ silence[m] \in Nat /\ report[m] \in Nat /\ Allowed(lost[m]) \in Nat
              /\ silence'[m] \in Nat
            BY <1>0, <1>1
        <3>3. Heard(m) => silence[m] <= Allowed(lost[m]) + report[m]
            BY <2>4, Zenon DEF Punctual
        <3>4. Heard(m)' => silence'[m] <= Allowed(lost'[m]) + report'[m]
            BY ONLY <2>1, <2>2, <3>1, <3>2, <3>3
        <3> QED BY ONLY <3>1, <3>4, Zenon DEF Punctual, NoReport
    <2> QED BY <2>3, <2>4, Zenon
<1>4. ASSUME NEW m \in Subscribed PROVE Known(m)'
    BY <1>0 DEF Known, Heard
<1> QED BY <1>1, <1>2, <1>3, <1>4, Zenon

(* Failures and restarts.                                                  *)
LEMMA FailureStep ==
    ASSUME RegisterInv, RestartSelf \/ \E n \in Others : Fail(n) \/ RestartNode(n)
    PROVE  RegisterInv'
<1> USE Times DEF RegisterInv, loopVars
<1>1. CASE RestartSelf
    <2>1. RegisterTypeOK'
        <3>1. 0 \in 0 .. Len(NodeList) /\ Never \in 0 .. Never BY TopicRegisterAssumption
        <3> QED BY <1>1, <3>1, Zenon DEF RegisterTypeOK, RestartSelf
    <2>2. ClearsDead' BY <1>1, Zenon DEF ClearsDead, RestartSelf
    <2> QED BY <1>1, <2>1, <2>2, Zenon DEF RestartSelf, Punctual, Known, Heard
<1>2. ASSUME NEW n \in Others, Fail(n) PROVE RegisterInv'
    <2>1. RegisterTypeOK' BY <1>2 DEF RegisterTypeOK, Fail
    <2>2. ClearsDead' BY <1>2, Zenon DEF ClearsDead, Fail, isDead
    <2>3. \A m \in Others : Punctual(m)' BY <1>2, Zenon DEF RegisterTypeOK, Fail, Punctual, Heard
    <2>4. \A m \in Subscribed : Known(m)' BY <1>2, Zenon DEF RegisterTypeOK, Fail, Known, Heard
    <2> QED BY <2>1, <2>2, <2>3, <2>4, Zenon
<1>3. ASSUME NEW n \in Others, RestartNode(n) PROVE RegisterInv'
    <2>1. RegisterTypeOK' BY <1>3 DEF RegisterTypeOK, RestartNode
    <2>2. ClearsDead' BY <1>3, Zenon DEF ClearsDead, RestartNode, isDead
    <2>3. \A m \in Others : Punctual(m)' BY <1>3 DEF RegisterTypeOK, RestartNode, Punctual, Heard
    <2>4. \A m \in Subscribed : Known(m)' BY <1>3 DEF RegisterTypeOK, RestartNode, Known, Heard
    <2> QED BY <2>1, <2>2, <2>3, <2>4, Zenon
<1> QED BY <1>1, <1>2, <1>3, Zenon

(* A live subscriber whose reports are not lost three times in a row stays *)
(* in receiverNodesBitMap unless the loop undoes its last report: the node *)
(* had been judged dead, or was not in the bitmap when this was loaded     *)
(* (lines 72-77).                                                          *)
THEOREM StaysKnown ==
    ASSUME 3 * Period + MaxDelay <= VeryOld
    PROVE  RegisterSpec => []KeptWhileReporting
<1>1. RegisterInit => RegisterInv
    <2> SUFFICES ASSUME RegisterInit PROVE RegisterInv OBVIOUS
    <2> USE Times DEF RegisterInit
    <2>1. RegisterTypeOK
        <3>1. /\ 0 \in 0 .. Len(NodeList) /\ Never \in 0 .. Never /\ First \in 0 .. Period
              /\ NoReport \in 0 .. NoReport /\ 0 \in 0 .. 3
            BY ONLY Times, TopicRegisterAssumption
        <3> QED BY <3>1, Zenon DEF RegisterTypeOK
    <2> QED BY <2>1, Zenon DEF RegisterInv, ClearsDead, Punctual, Known, Heard
<1>2. RegisterInv /\ [RegisterNext]_registerVars => RegisterInv'
    <2> SUFFICES ASSUME RegisterInv, [RegisterNext]_registerVars PROVE RegisterInv' OBVIOUS
    <2>1. CASE UNCHANGED registerVars
        BY <2>1, Zenon DEF registerVars, nodeVars, loopVars, RegisterInv, RegisterTypeOK, ClearsDead, isDead, Punctual, Known, Heard
    <2> QED BY <2>1, ReportStep, PutStep, RunStep, TickStep, FailureStep DEF RegisterNext
<1>3. RegisterInv => KeptWhileReporting
    <2>1. RegisterTypeOK => \A m \in Subscribed : lost[m] \in 0 .. 3
        BY Times, Zenon DEF RegisterTypeOK
    <2> QED BY <2>1 DEF RegisterInv, Known, Heard, KeptWhileReporting
<1> QED BY <1>1, <1>2, <1>3, PTL DEF RegisterSpec
=============================================================================
