------------------------- MODULE BridgeTranslation -------------------------
(***************************************************************************)
(* The two wire formats of the protocol bridge (internal/bridge): the      *)
(* conversation an Anthropic client sends, as the chat messages upstream   *)
(* is asked with, and upstream's stream of chunks, as the events the       *)
(* client is sent.  Texts, names and arguments are data; the tool calls,   *)
(* who answers them and the content blocks they open are kept.             *)
(***************************************************************************)
EXTENDS Naturals, Sequences, FiniteSets, SequencesExt

TextBlock == [type |-> "text", id |-> 0]
Use(id) == [type |-> "tool_use", id |-> id]
Result(id) == [type |-> "tool_result", id |-> id]
Image == [type |-> "image", id |-> 0]

Messages == [role : STRING, blocks : Seq([type : STRING, id : Nat])]

Ids(blocks, type) ==
    LET ids[i \in 0..Len(blocks)] ==
          IF i = 0 THEN <<>>
          ELSE IF blocks[i].type = type THEN Append(ids[i - 1], blocks[i].id) ELSE ids[i - 1]
    IN ids[Len(blocks)]

(* toOpenAI, one message: its results are messages of their own, before    *)
(* what it says and asks for itself; a block of another type is left out,  *)
(* and so is a message with nothing else.                                  *)
Answers(m) ==
    LET ids == Ids(m.blocks, "tool_result")
    IN [i \in 1..Len(ids) |-> [role |-> "tool", call |-> ids[i], calls |-> <<>>]]
Said(m) ==
    IF \E i \in 1..Len(m.blocks) : m.blocks[i].type \in {"text", "tool_use"}
    THEN <<[role |-> m.role, call |-> 0, calls |-> Ids(m.blocks, "tool_use")]>>
    ELSE <<>>
TranslatedSaidFirst(m) == Said(m) \o Answers(m)
Translated(m) == Answers(m) \o Said(m)
ToOpenAI(messages) ==
    FlattenSeq([i \in 1..Len(messages) |-> Translated(messages[i])])

(* What upstream asks of a conversation: the calls of a message are        *)
(* answered by the messages right after it.                                *)
AnsweredInPlace(chat) ==
    \A i \in 1..Len(chat) :
        LET asked == ToSet(chat[i].calls)
            n == Cardinality(asked)
        IN asked # {} =>
              /\ Len(chat) >= i + n
              /\ {chat[j].call : j \in i + 1..i + n} = asked

(* A client that answers in turn: the calls of a message are answered, each *)
(* once, in the next message.                                              *)
AnsweredInTurn(messages) ==
    \A i \in 1..Len(messages) :
        LET asks == ToSet(Ids(messages[i].blocks, "tool_use"))
            answers == Ids(messages[i + 1].blocks, "tool_result")
        IN asks # {} => /\ i < Len(messages)
                        /\ ToSet(answers) = asks /\ IsInjective(answers)
-----------------------------------------------------------------------------
(* streamOpenAI.  Its state: whether the text block is open, the block of  *)
(* each upstream tool call and the calls in the order they came; and what  *)
(* it has sent.  A block has an index of its own among the client's.       *)
Event(type, index, kind) == [type |-> type, index |-> index, kind |-> kind]
Opened == [text |-> FALSE, block |-> <<>>, order |-> <<>>, stop |-> "end_turn",
           sent |-> <<Event("message_start", 0, "")>>]

Emit(st, events) == [st EXCEPT !.sent = @ \o events]

AddText(st) ==
    [Emit(st, (IF st.text THEN <<>> ELSE <<Event("start", 0, "text")>>)
              \o <<Event("delta", 0, "text")>>) EXCEPT !.text = TRUE]

NextBlockIgnoringText(st) == Len(st.order)
NextBlock(st) == IF st.text THEN Len(st.order) + 1 ELSE Len(st.order)

(* One tool call of a delta; its first mention opens a block. *)
AddCall(st, call) ==
    LET known == call.index \in ToSet(st.order)
        b == IF known THEN st.block[call.index] ELSE NextBlock(st)
        open == IF known THEN <<>> ELSE <<Event("start", b, "tool")>>
        said == IF call.arguments THEN <<Event("delta", b, "tool")>> ELSE <<>>
    IN [Emit(st, open \o said) EXCEPT
          !.order = IF known THEN @ ELSE Append(@, call.index),
          !.block = [i \in DOMAIN @ \cup {call.index} |->
                        IF i = call.index THEN b ELSE st.block[i]]]

(* A chunk: finish_reason, then text; its tool calls come one by one. *)
AddChunk(st, chunk) ==
    LET told == IF chunk.finish = "tool_calls" THEN [st EXCEPT !.stop = "tool_use"] ELSE st
    IN IF chunk.text THEN AddText(told) ELSE told

(* The end of the stream, "[DONE]" or whatever ended it. *)
Close(st) ==
    Emit(st, (IF st.text THEN <<Event("stop", 0, "text")>> ELSE <<>>)
             \o [i \in 1..Len(st.order) |-> Event("stop", st.block[st.order[i]], "tool")]
             \o <<Event("message_delta", 0, st.stop), Event("message_stop", 0, "")>>)
=============================================================================
