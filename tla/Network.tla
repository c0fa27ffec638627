------------------------------- MODULE Network -------------------------------
(***************************************************************************)
(* Nodes that publish topics to each other: TopicInterface::publish, the   *)
(* gateways and routers (src/independent/gateway/{gateway,router}.cpp), on *)
(* links that lose, duplicate and reorder messages.                        *)
(*                                                                         *)
(* A gateway is a pair of a node and a link.  Its thread takes a message   *)
(* from the link and asks messageSeen (Receive), and then distributes it   *)
(* (Distribute); the gateways of a node work concurrently and share the    *)
(* table seenNodes.  A message with a wrong checksum is a lost message.    *)
(* Topic 0 is the report of the topics that are wanted at the other end of *)
(* a link (external: sent by intelligent networks); its content is Wanted. *)
(* Topics that are onlyLocal never get here.                               *)
(***************************************************************************)
EXTENDS Naturals, FiniteSets, Sequences

CONSTANTS Nodes,
          Attached,        \* the nodes at each link
          Broadcast,       \* the links whose isBroadcastLink is set
          ForwardAll,      \* the gateways constructed with forwardAll,
          Enabled,         \*   and those that send local topics themselves
          Routers,         \* the nodes that have a router for all their gateways
          ForwardReports,  \* its forwardTopicReports
          Wanted,
          Manual,          \* the gateways whose topics the application has set, to Wanted
          MaxSteps,        \* the initial maxStepsToForward (10)
          Window,          \* the 5 seconds of messageSeen
          TableSize,       \* MAX_NUMBER_OF_NODES
          MaxTime,         \* bound: the clock of each node,
          MaxFaults,       \*   the losses, duplications and restarts,
          Program          \*   the topics that each node publishes, in this order

Links == DOMAIN Attached
Gateways == {g \in Nodes \X Links : g[1] \in Attached[g[2]]}
local == "local"
NoNodes == [s \in {} |-> 0]

ASSUME NetworkAssumption ==
    /\ MaxSteps \in Nat /\ Window \in Nat /\ TableSize \in Nat
    /\ Program \in [Nodes -> Seq(Nat)]
    /\ Attached \in [Links -> SUBSET Nodes]

VARIABLES clock,      \* the time of each node, which begins at 0
          count,      \* how many messages each node has published
          inTransit,  \* pairs of a gateway and a message on its way there
          inHand,     \* the message (a set of at most one) a gateway has accepted and not yet distributed
          seenNodes,  \* of each node: the senders it knows, and their lastMsgTime
          holder,     \* the gateway (likewise) that holds the node's seenNodesProtector
          external,   \* the externalsubscribers of each gateway
          faults,     \* how many faults there were
          accepted, dropped, twice  \* history: what messageSeen has said

linkVars == <<clock, count, faults>>
seenVars == <<seenNodes, holder, accepted, dropped, twice>>
vars == <<linkVars, inTransit, inHand, external, seenVars>>

(* The list at the start: the application may set it, and then it ignores  *)
(* reports (getTopicsToForwardFromOutside).                                *)
setTopicsToForward(g) == IF g \in Manual THEN Wanted ELSE {}

Init ==
    /\ clock = [n \in Nodes |-> 0] /\ count = [n \in Nodes |-> 0]
    /\ inTransit = {} /\ inHand = [g \in Gateways |-> {}]
    /\ seenNodes = [n \in Nodes |-> NoNodes]
    /\ holder = [n \in Nodes |-> {}]
    /\ external = [g \in Gateways |-> setTopicsToForward(g)]
    /\ faults = 0
    /\ accepted = [n \in Nodes |-> {}]
    /\ dropped = [n \in Nodes |-> {}] /\ twice = [n \in Nodes |-> {}]

(* linkinterface->sendNetworkMsg.                                          *)
Sent(gs, m) ==
    UNION {{<<<<p, g[2]>>, m>> : p \in Attached[g[2]] \ {g[1]}} : g \in gs}

gatewaysOf(n) == {g \in Gateways : g[1] = n}
shouldTopicForwarded(g, topic) == g \in ForwardAll \/ topic \in external[g]

(* The gateways through which the router of node n sends a message that    *)
(* came from the given link.                                               *)
routeMsgEarly(n, m, link) ==
    IF n \in Routers /\ m.steps > 1 /\ (m.topic # 0 \/ ForwardReports)
    THEN {g \in gatewaysOf(n) : g[2] # link /\ shouldTopicForwarded(g, m.topic)}
    ELSE {}

routeMsg(n, m, link) ==
    IF n \in Routers /\ m.steps > 0 /\ (m.topic # 0 \/ ForwardReports)
    THEN {g \in gatewaysOf(n) : g[2] # link /\ shouldTopicForwarded(g, m.topic)}
    ELSE {}

(* Gateway::put: the gateways that send what the node publishes.           *)
put(n, topic) ==
    {g \in gatewaysOf(n) \cap Enabled : topic = 0 \/ shouldTopicForwarded(g, topic)}

(* publish: the message goes to the gateways and to the router.  A gateway *)
(* that is served by both sends it twice, which is a duplication.          *)
publish(n) ==
    /\ count[n] < Len(Program[n])
    /\ \E now \in clock[n] .. MaxTime[n] :
        LET topic == Program[n][count[n] + 1]
            m == [sender |-> n, id |-> count[n] + 1, time |-> now, topic |-> topic, steps |-> MaxSteps]
        IN  /\ clock' = [clock EXCEPT ![n] = now]
            /\ inTransit' = inTransit \cup Sent(put(n, topic) \cup routeMsg(n, m, local), m)
    /\ count' = [count EXCEPT ![n] = count[n] + 1]
    /\ UNCHANGED <<inHand, external, faults, seenVars>>

-----------------------------------------------------------------------------
(* What is the same message on its whole way.                              *)
ident(m) == [sender |-> m.sender, id |-> m.id, time |-> m.time]

hasRoom(table) == Cardinality(DOMAIN table) < TableSize

isSeenStrictly(n, m) == seenNodes[n][m.sender] > m.time /\ seenNodes[n][m.sender] - m.time <= Window
isSeenForEver(n, m) == seenNodes[n][m.sender] >= m.time

isSeen(n, m) ==
    seenNodes[n][m.sender] >= m.time /\ seenNodes[n][m.sender] - m.time <= Window

Accept(n, m) ==
    /\ accepted' = [accepted EXCEPT ![n] = @ \cup {ident(m)}]
    /\ twice' = [twice EXCEPT ![n] = @ \cup ({ident(m)} \cap accepted[n])]
    /\ UNCHANGED dropped

Drop(n, m) ==
    /\ dropped' = [dropped EXCEPT ![n] = @ \cup {ident(m)}]
    /\ UNCHANGED <<accepted, twice>>

(* seenNodesProtector.leave(), of a semaphore that was free, or that the   *)
(* gateway holds since an earlier call.                                    *)
leaveNot(g) == holder' = [holder EXCEPT ![g[1]] = {g}]
leave(g) == UNCHANGED holder

(* A node that is not in the table is entered with the time before that of *)
(* the message, so that the message passes.  When the table is full, the   *)
(* assertion returns "not seen" and leaves the semaphore entered.          *)
messageSeen(g, m) ==
    LET n == g[1] IN
    \/ /\ m.sender \notin DOMAIN seenNodes[n] /\ ~hasRoom(seenNodes[n])
       /\ Accept(n, m)
       /\ holder' = [holder EXCEPT ![n] = {g}]
       /\ inHand' = [inHand EXCEPT ![g] = {m}]
       /\ UNCHANGED seenNodes
    \/ /\ IF m.sender \in DOMAIN seenNodes[n] THEN ~isSeen(n, m)
                                             ELSE hasRoom(seenNodes[n])
       /\ Accept(n, m)
       /\ seenNodes' = [seenNodes EXCEPT ![n] = [s \in DOMAIN @ \cup {m.sender} |->
                                                  IF s = m.sender THEN m.time ELSE @[s]]]
       /\ inHand' = [inHand EXCEPT ![g] = {m}]
       /\ leave(g)
    \/ /\ m.sender \in DOMAIN seenNodes[n] /\ isSeen(n, m)
       /\ Drop(n, m)
       /\ leave(g)
       /\ UNCHANGED <<seenNodes, inHand>>

(* The first half of AnalyseAndDistributeMessagesFromNetwork.  The link    *)
(* may deliver the message again later.                                    *)
Receive(g) ==
    \E m \in {p[2] : p \in {q \in inTransit : q[1] = g}} :
        /\ inHand[g] = {}
        /\ \/ inTransit' = inTransit \ {<<g, m>>} /\ UNCHANGED faults
           \/ faults < MaxFaults /\ faults' = faults + 1 /\ UNCHANGED inTransit
        /\ IF m.sender = g[1] THEN UNCHANGED <<inHand, seenVars>>
                              ELSE holder[g[1]] \subseteq {g} /\ messageSeen(g, m)
        /\ UNCHANGED <<clock, count, external>>

(* The second half.                                                        *)
Distribute(g) ==
    /\ \E taken \in inHand[g] :
       LET m == [taken EXCEPT !.steps = @ - 1]
       IN  IF m.topic = 0
           THEN /\ external' = [external EXCEPT ![g] = IF g \in Manual THEN @ ELSE
                                    IF g[2] \in Broadcast THEN @ \cup Wanted ELSE Wanted]
                /\ UNCHANGED inTransit
           ELSE /\ inTransit' = inTransit \cup Sent(routeMsg(g[1], m, g[2]), m)
                /\ UNCHANGED external
    /\ inHand' = [inHand EXCEPT ![g] = {}]
    /\ UNCHANGED <<linkVars, seenVars>>

Lose ==
    /\ faults < MaxFaults /\ faults' = faults + 1
    /\ \E p \in inTransit : inTransit' = inTransit \ {p}
    /\ UNCHANGED <<clock, count, inHand, external, seenVars>>

(* The node loses its state; its clock begins again.                       *)
Restart(n) ==
    /\ faults < MaxFaults /\ faults' = faults + 1
    /\ clock' = [clock EXCEPT ![n] = 0]
    /\ inHand' = [g \in Gateways |-> IF g[1] = n THEN {} ELSE inHand[g]]
    /\ seenNodes' = [seenNodes EXCEPT ![n] = NoNodes]
    /\ holder' = [holder EXCEPT ![n] = {}]
    /\ external' = [g \in Gateways |-> IF g[1] = n THEN setTopicsToForward(g) ELSE external[g]]
    /\ accepted' = [accepted EXCEPT ![n] = {}]
    /\ dropped' = [dropped EXCEPT ![n] = {}] /\ twice' = [twice EXCEPT ![n] = {}]
    /\ UNCHANGED <<count, inTransit>>

Next ==
    \/ \E n \in Nodes : publish(n) \/ Restart(n)
    \/ \E g \in Gateways : Receive(g) \/ Distribute(g)
    \/ Lose

(* The threads of the gateways run: they are suspended for a second at     *)
(* most.                                                                   *)
Spec ==
    /\ Init /\ [][Next]_vars
    /\ \A g \in Gateways : WF_vars(Receive(g)) /\ WF_vars(Distribute(g))

-----------------------------------------------------------------------------
(* No message is accepted twice by a node, over whatever paths its copies  *)
(* come, unless the node has heard messages of that sender that are more   *)
(* than the window apart, or has no room for the sender in its table       *)
(* (gateway.cpp:103).                                                      *)
AtMostOnce ==
    \A n \in Nodes : \A m \in twice[n] :
        \/ \E a, b \in accepted[n] : a.sender = m.sender /\ b.sender = m.sender /\ a.time > b.time + Window
        \/ m.sender \notin DOMAIN seenNodes[n]

(* A message is suppressed only where one of the same sender that is as    *)
(* new, and newer by the window at most, has been accepted                 *)
(* (gateway.cpp:103-104).                                                  *)
DropsJustified ==
    \A n \in Nodes : \A m \in dropped[n] :
        \E a \in accepted[n] : a.sender = m.sender /\ a.time \in m.time .. m.time + Window

(* A gateway keeps the table locked when it has done with it only if it    *)
(* has met a sender for whom there is no room (gateway.cpp:90).            *)
HeldOnlyWhenFull ==
    \A n \in Nodes : \A g \in holder[n] :
        /\ g[1] = n /\ ~hasRoom(seenNodes[n])
        /\ \E m \in accepted[n] : m.sender \notin DOMAIN seenNodes[n]

(* No gateway has left the table of its node locked (gateway.cpp:61, 90).  *)
ProtectorFree == \A n \in Nodes : holder[n] = {}

(* Each message, or a newer one of its sender, reaches every other node,   *)
(* also one that is several links away, if there are no faults, no node    *)
(* has met too many senders, and the longest way has no more steps than    *)
(* are allowed: what messageSeen drops and what the routers do not forward *)
(* is never needed.  In particular the copy that comes first on a long way *)
(* and suppresses the others has enough steps left (gateway.cpp:103,       *)
(* router.cpp:65, 70).                                                     *)
NewestArrives ==
    \A s \in {n \in Nodes : Program[n] # << >> /\ \A i \in DOMAIN Program[n] : Program[n][i] # 0} :
        \A t \in 1 .. MaxTime[s] :
            clock[s] >= t ~> \/ faults > 0 \/ ~ProtectorFree
                             \/ \A n \in Nodes \ {s} : \E m \in accepted[n] : m.sender = s /\ m.time >= t
=============================================================================
