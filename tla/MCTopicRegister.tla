-------------------------- MODULE MCTopicRegister --------------------------
(* Two other nodes that both subscribe.                                    *)
EXTENDS TopicRegister

CONSTANTS x, y
TwoNodes == <<x, y>>
=============================================================================
