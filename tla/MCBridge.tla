------------------------------ MODULE MCBridge ------------------------------
(***************************************************************************)
(* Conversations in which the model may ask for two tools and the user     *)
(* answers, in any order and with something to say or to show; streams of  *)
(* text and two calls.                                                     *)
(***************************************************************************)
EXTENDS Bridge

CONSTANTS r1, r2

Message(role, blocks) == [role |-> role, blocks |-> blocks]
Turns(uses) ==
    {s \in UNION {[1..n -> {TextBlock, Image} \cup {Result(i) : i \in uses}] : n \in 1..2 + Cardinality(uses \ {1})} :
        {i \in uses : \E j \in DOMAIN s : s[j] = Result(i)} = uses
        /\ \A j, k \in DOMAIN s : s[j] = s[k] => j = k}
MCConversations ==
    UNION {{<<Message("user", <<TextBlock>>), Message("assistant", asks), Message("user", turn)>> :
              asks \in {s \in {<<TextBlock>>, <<TextBlock, Use(1)>>, <<Use(1), Use(2)>>} :
                          ToSet(Ids(s, "tool_use")) = uses},
              turn \in Turns(uses)} :
           uses \in {{}, {1}, {1, 2}}}

ASSUME InTurn == ClientsAnswer

Chunk(text, calls, finish) == [text |-> text, calls |-> calls, finish |-> finish]
Call(index, arguments) == [index |-> index, arguments |-> arguments]
MCChunks ==
    {Chunk(TRUE, <<>>, ""), Chunk(FALSE, <<Call(0, TRUE)>>, ""),
     Chunk(FALSE, <<Call(1, FALSE)>>, ""), Chunk(TRUE, <<Call(1, TRUE)>>, ""),
     Chunk(FALSE, <<Call(1, TRUE), Call(0, FALSE)>>, "tool_calls")}
=============================================================================
