---------------------------- MODULE TopicRegister ----------------------------
(***************************************************************************)
(* The distributed topic register                                          *)
(* (support/support-libs/distributed-topic-register.cpp): every node       *)
(* reports periodically which topics it subscribes to, and keeps, for each *)
(* of its topics, the set of the nodes that want it, from which it removes *)
(* those it has not heard of for too long.                                 *)
(*                                                                         *)
(* This is the register of one node, for one topic, and what it sees of    *)
(* the others: reports that arrive late or not at all, nodes that fail and *)
(* come back.  The topic is an ordinary one: the bitmap of a broadcast     *)
(* topic begins with all bits set.  The thread of the register has a low   *)
(* priority, so that the thread of a gateway calls putReport in the middle *)
(* of "receiverNodesBitMap &= ...", or between this and the test before    *)
(* it.  A node stands for its nodeIndex.  Time is counted from the last    *)
(* event of each kind, in units in which the threads take no time.         *)
(***************************************************************************)
EXTENDS Naturals, Sequences, Functions

CONSTANTS NodeList,       \* the other nodes, in the order of their bits
          Subscribed,     \* those that subscribe to the topic
          Period, First,  \* of TIME_LOOP(1117 ms, 3 s)
          VeryOld,        \* 10 seconds
          MaxDelay,       \* bound: how long a report takes,
          MaxLost,        \*   how many are lost,
          MaxFailures     \*   how many nodes fail

Others == Range(NodeList)
Never == VeryOld + 2    \* lastReportTimeOfNode is END_OF_TIME
NoReport == MaxDelay + 1

ASSUME TopicRegisterAssumption ==
    /\ Period \in Nat /\ First \in Nat /\ VeryOld \in Nat
    /\ MaxDelay \in Nat /\ MaxLost \in Nat /\ MaxFailures \in Nat
    /\ NodeList \in Seq(Others) /\ Len(NodeList) > 0 /\ "none" \notin Others
    /\ Subscribed \subseteq Others /\ MaxDelay < Period /\ First <= Period

VARIABLES up, timer,            \* the other nodes, and when each reports next
          report,               \* the age of its report that is under way
          own,                  \* when the node's own thread runs its loop next
          silence,              \* how long ago each node was heard (lastReportTimeOfNode)
          receiverNodesBitMap,  \* the set of nodes
          pos, dead,            \* the loop over the nodes, and whether it has judged this one dead
          word,                 \* the bitmap it has loaded
          failures, losses,
          lost, raced           \* history: since a node was last heard, how many of its reports
                                \* were lost (3: or not sent); the loop will undo its last report

nodeVars == <<up, timer, report, failures, losses>>
loopVars == <<own, pos, dead, word>>
registerVars == <<nodeVars, loopVars, silence, receiverNodesBitMap, lost, raced>>

NotLoaded == {"none"}

RegisterInit ==
    /\ up = [m \in Others |-> TRUE] /\ timer = [m \in Others |-> First]
    /\ report = [m \in Others |-> NoReport]
    /\ own = First
    /\ silence = [m \in Others |-> Never]
    /\ receiverNodesBitMap = {}
    /\ pos = 0 /\ dead = FALSE /\ word = NotLoaded
    /\ failures = 0 /\ losses = 0
    /\ lost = [m \in Others |-> 0] /\ raced = {}

-----------------------------------------------------------------------------
(* The loop of another node publishes its report, which may be lost.       *)
publishReport(m) ==
    /\ up[m] /\ timer[m] = 0 /\ report[m] = NoReport
    /\ timer' = [timer EXCEPT ![m] = Period]
    /\ \/ report' = [report EXCEPT ![m] = 0] /\ UNCHANGED <<losses, lost>>
       \/ /\ losses < MaxLost /\ losses' = losses + 1
          /\ lost' = [lost EXCEPT ![m] = IF @ < 3 THEN @ + 1 ELSE 3]
          /\ UNCHANGED report
    /\ UNCHANGED <<up, failures, loopVars, silence, receiverNodesBitMap, raced>>

putTimeOnly(m) == receiverNodesBitMap
putBits(m) == IF m \in Subscribed THEN receiverNodesBitMap \cup {m} ELSE receiverNodesBitMap

(* The loop clears the bit of a node that is heard after it was judged     *)
(* dead, and stores a bitmap without the bit of one that is heard after    *)
(* this bitmap was loaded.                                                 *)
undone(m) ==
    \/ dead /\ m = NodeList[pos]
    \/ word # NotLoaded /\ m \notin word

(* put, called by the thread of a gateway.                                 *)
putReport(m) ==
    /\ report[m] < NoReport
    /\ report' = [report EXCEPT ![m] = NoReport]
    /\ silence' = [silence EXCEPT ![m] = 0]
    /\ receiverNodesBitMap' = putBits(m)
    /\ lost' = [lost EXCEPT ![m] = 0]
    /\ raced' = IF undone(m) THEN raced \cup {m} ELSE raced \ {m}
    /\ UNCHANGED <<up, timer, failures, losses, loopVars>>

-----------------------------------------------------------------------------
(* The node's own loop: after its report, which putReport ignores, it      *)
(* looks for dead nodes.                                                   *)
run ==
    /\ own = 0 /\ pos = 0
    /\ pos' = 1 /\ own' = Period
    /\ UNCHANGED <<nodeVars, dead, word, silence, receiverNodesBitMap, lost, raced>>

isDeadEarly(m) == silence[m] # Never /\ silence[m] >= VeryOld - 1
isDead(m) == silence[m] # Never /\ silence[m] > VeryOld

after(i) == IF i < Len(NodeList) THEN i + 1 ELSE 0

testNode ==
    /\ pos > 0 /\ ~dead
    /\ \/ ~isDead(NodeList[pos]) /\ pos' = after(pos) /\ UNCHANGED dead
       \/ isDead(NodeList[pos]) /\ dead' = TRUE /\ UNCHANGED pos
    /\ UNCHANGED <<nodeVars, own, word, silence, receiverNodesBitMap, lost, raced>>

loadBits ==
    /\ dead /\ word = NotLoaded
    /\ word' = receiverNodesBitMap
    /\ UNCHANGED <<nodeVars, own, pos, dead, silence, receiverNodesBitMap, lost, raced>>

clearedNot(m) == word
cleared(m) == word \ {m}

clearBit ==
    /\ word # NotLoaded
    /\ receiverNodesBitMap' = cleared(NodeList[pos])
    /\ word' = NotLoaded /\ dead' = FALSE /\ pos' = after(pos)
    /\ UNCHANGED <<nodeVars, own, silence, lost, raced>>

-----------------------------------------------------------------------------
(* Time passes when no thread has anything to do.                          *)
Tick ==
    /\ pos = 0 /\ own > 0
    /\ \A m \in Others : (up[m] => timer[m] > 0) /\ report[m] # MaxDelay
    /\ own' = own - 1
    /\ timer' = [m \in Others |-> IF up[m] THEN timer[m] - 1 ELSE timer[m]]
    /\ report' = [m \in Others |-> IF report[m] = NoReport THEN NoReport ELSE report[m] + 1]
    /\ silence' = [m \in Others |-> IF silence[m] > VeryOld THEN silence[m] ELSE silence[m] + 1]
    /\ UNCHANGED <<up, failures, losses, pos, dead, word, receiverNodesBitMap, lost, raced>>

Fail(m) ==
    /\ up[m] /\ failures < MaxFailures
    /\ up' = [up EXCEPT ![m] = FALSE] /\ failures' = failures + 1
    /\ timer' = [timer EXCEPT ![m] = First]
    /\ UNCHANGED <<report, losses, loopVars, silence, receiverNodesBitMap, lost, raced>>

RestartNode(m) ==
    /\ ~up[m]
    /\ up' = [up EXCEPT ![m] = TRUE]
    /\ lost' = [lost EXCEPT ![m] = 3]
    /\ UNCHANGED <<timer, report, failures, losses, loopVars, silence, receiverNodesBitMap, raced>>

(* The node itself restarts with an empty bitmap and no report times.      *)
RestartSelf ==
    /\ failures < MaxFailures /\ failures' = failures + 1
    /\ own' = First /\ pos' = 0 /\ dead' = FALSE /\ word' = NotLoaded
    /\ silence' = [m \in Others |-> Never]
    /\ receiverNodesBitMap' = {} /\ raced' = {}
    /\ UNCHANGED <<up, timer, report, losses, lost>>

Run == run \/ testNode \/ loadBits \/ clearBit

RegisterNext ==
    \/ Run \/ Tick \/ RestartSelf
    \/ \E m \in Others :
          publishReport(m) \/ putReport(m) \/ Fail(m) \/ RestartNode(m)

(* Time passes, the threads of all nodes run, and a report that is not     *)
(* lost arrives.                                                           *)
RegisterSpec ==
    /\ RegisterInit /\ [][RegisterNext]_registerVars
    /\ WF_registerVars(Tick) /\ WF_registerVars(Run)
    /\ \A m \in Others :
          WF_registerVars(publishReport(m)) /\ WF_registerVars(putReport(m))

-----------------------------------------------------------------------------
(* A node that subscribes, is up and has been heard is in the bitmap       *)
(* unless three of its reports in a row were lost, or not sent because it  *)
(* was down; or the loop has undone its last report, which came between    *)
(* the test that found it dead and the clearing of its bit, or, when it    *)
(* was not in the bitmap, in the middle of the clearing of any bit         *)
(* (distributed-topic-register.cpp:72-77, 102).                            *)
KeptWhileReporting ==
    \A m \in Subscribed :
        silence[m] # Never /\ up[m] /\ m \notin receiverNodesBitMap => lost[m] >= 3 \/ m \in raced

(* A node that fails for good is removed for good                          *)
(* (distributed-topic-register.cpp:70-80).                                 *)
ForgetsDead ==
    \A m \in Others : <>[]~up[m] => <>[](m \notin receiverNodesBitMap)

(* A node that stays up is in the bitmap for good from some time on,       *)
(* unless the loop undoes every one of its reports: one report that it     *)
(* does not undo is enough, since later races cost only a node that is not *)
(* in the bitmap when this is loaded                                       *)
(* (distributed-topic-register.cpp:77, 102).                               *)
KnowsLive ==
    \A m \in Subscribed :
        <>[]up[m] => <>[](m \in receiverNodesBitMap) \/ <>[](m \in raced)
=============================================================================
