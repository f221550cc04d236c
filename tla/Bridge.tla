------------------------------- MODULE Bridge -------------------------------
(***************************************************************************)
(* The bridge of one launch (internal/bridge/messages.go): a server on the *)
(* loopback that holds the provider's key while the child runs, and is     *)
(* closed before the application's files are put back.                     *)
(*                                                                         *)
(* net/http is modelled from its use: a connection has a goroutine, whose  *)
(* handler may wait for the client's body and for upstream as long as they *)
(* please; a client that leaves cancels the request's context; Shutdown    *)
(* with context.Background takes no more connections, closes idle ones and *)
(* those still at their headers, and waits for the rest.                   *)
(***************************************************************************)
EXTENDS BridgeTranslation

CONSTANTS
    Requests,
    Conversations,  \* what clients ask
    Chunks,         \* what upstream streams
    MaxChunks       \* bound on the chunks of a run

VARIABLES
    host,           \* the launch: "running" its child, "closing" the bridge, "returned"
    at,             \* where each request's goroutine is
    left,           \* the clients that have gone
    asked,          \* the conversation upstream is asked with
    stream,         \* the translation of the answer
    pending,        \* the tool calls still to translate of the chunk at hand
    chunks          \* the chunks each stream has brought

bridgeVars == <<host, at, left, asked, stream, pending, chunks>>

Places == {"none", "header", "checked", "body", "upstream", "streaming", "draining",
           "idle", "closed"}
InHandler(r) == at[r] \in {"checked", "body", "upstream", "streaming", "draining"}

BridgeInit ==
    /\ host = "running"
    /\ at = [r \in Requests |-> "none"]
    /\ left = {}
    /\ asked = [r \in Requests |-> <<>>]
    /\ stream = [r \in Requests |-> Opened]
    /\ pending = [r \in Requests |-> <<>>]
    /\ chunks = [r \in Requests |-> 0]

Goto(r, place) == at' = [at EXCEPT ![r] = place]

(* The child, what it has started, or any process of the machine. *)
Connect(r) ==
    /\ at[r] = "none" /\ host = "running"
    /\ Goto(r, "header")
    /\ UNCHANGED <<host, left, asked, stream, pending, chunks>>

(* ReadHeaderTimeout, and Shutdown for a connection without a request. *)
DropHeader(r) ==
    /\ at[r] = "header"
    /\ Goto(r, "closed")
    /\ UNCHANGED <<host, left, asked, stream, pending, chunks>>

(* A first request, or another one on a connection that is still open: a   *)
(* handler of its own, and nothing of the answer before.                   *)
SendHeader(r) ==
    /\ at[r] \in {"header", "idle"} /\ r \notin left
    /\ Goto(r, "checked")
    /\ stream' = [stream EXCEPT ![r] = Opened]
    /\ UNCHANGED <<host, left, asked, pending, chunks>>

(* The connection is idle, or closed once the server is shutting down. *)
Rests(r) == Goto(r, IF host = "running" THEN "idle" ELSE "closed")

(* handleMessages answers.  What the client has still to send of its body  *)
(* is waited for first (Body.Close, which net/http calls if nobody does).  *)
Answer(r) == /\ Rests(r) \/ Goto(r, "draining")
             /\ asked' = [asked EXCEPT ![r] = <<>>]
Drained(r) ==
    /\ at[r] = "draining" /\ r \notin left
    /\ Rests(r)
    /\ UNCHANGED <<host, left, asked, stream, pending, chunks>>

(* Another method, or no token; otherwise the body is waited for. *)
Check(r) ==
    /\ at[r] = "checked"
    /\ \/ Answer(r)
       \/ Goto(r, "body") /\ UNCHANGED asked
    /\ UNCHANGED <<host, left, stream, pending, chunks>>

(* The body: no JSON, no model, no role, unknown content; or upstream is   *)
(* asked with its translation.                                             *)
ReceiveBody(r) ==
    /\ at[r] = "body" /\ r \notin left
    /\ \/ Answer(r)
       \/ \E c \in Conversations :
            /\ asked' = [asked EXCEPT ![r] = ToOpenAI(c)]
            /\ Goto(r, "upstream")
    /\ UNCHANGED <<host, left, stream, pending, chunks>>

(* An error, a refused redirect, another status or a whole answer are      *)
(* passed on at once; a stream is translated as it comes.                  *)
UpstreamAnswers(r) ==
    /\ at[r] = "upstream"
    /\ \/ Answer(r) /\ UNCHANGED stream
       \/ /\ Goto(r, "streaming")
          /\ stream' = [stream EXCEPT ![r] = Opened]
          /\ asked' = [asked EXCEPT ![r] = <<>>]
    /\ UNCHANGED <<host, left, pending, chunks>>

Received == FoldLeft(LAMBDA n, r : n + chunks[r], 0, SetToSeq(Requests))
StreamChunk(r) ==
    /\ at[r] = "streaming" /\ pending[r] = <<>> /\ Received < MaxChunks
    /\ chunks' = [chunks EXCEPT ![r] = @ + 1]
    /\ \E c \in Chunks : /\ stream' = [stream EXCEPT ![r] = AddChunk(@, c)]
                         /\ pending' = [pending EXCEPT ![r] = c.calls]
    /\ UNCHANGED <<host, at, left, asked>>

(* The loop over a chunk's calls, which looks at nothing else: that the    *)
(* client has gone is noticed at the next line of the stream.              *)
StreamCall(r) ==
    /\ at[r] = "streaming" /\ pending[r] # <<>>
    /\ stream' = [stream EXCEPT ![r] = AddCall(@, Head(pending[r]))]
    /\ pending' = [pending EXCEPT ![r] = Tail(@)]
    /\ UNCHANGED <<host, at, left, asked, chunks>>

(* "[DONE]", the end of the body, a line that is too long or a connection  *)
(* that broke: the scanner stops, and nobody looks at why.                 *)
StreamEnds(r) ==
    /\ at[r] = "streaming" /\ pending[r] = <<>>
    /\ stream' = [stream EXCEPT ![r] = Close(@)]
    /\ Answer(r)
    /\ UNCHANGED <<host, left, pending, chunks>>

(* The client goes.  Its handler notices: a body that is not complete, the *)
(* context of the request upstream (http.NewRequestWithContext).           *)
Leave(r) ==
    /\ at[r] \notin {"none", "closed"}
    /\ left' = left \cup {r}
    /\ UNCHANGED <<host, at, asked, stream, pending, chunks>>

CancelsBodyOnly(r) == at[r] = "body"
Cancels(r) == at[r] \in {"body", "upstream", "streaming", "draining"}
Cancelled(r) ==
    /\ r \in left /\ Cancels(r) /\ pending[r] = <<>>
    /\ Goto(r, "closed")
    /\ asked' = [asked EXCEPT ![r] = <<>>]
    /\ stream' = IF at[r] = "streaming" THEN [stream EXCEPT ![r] = Close(@)] ELSE stream
    /\ UNCHANGED <<host, left, pending, chunks>>

DropIdle(r) ==
    /\ at[r] = "idle"
    /\ host = "closing" \/ r \in left
    /\ Goto(r, "closed")
    /\ UNCHANGED <<host, left, asked, stream, pending, chunks>>

(* The child has ended (its own children may have not), or did not start:  *)
(* the clean-up closes the bridge and goes on when that returns.           *)
ChildEnds ==
    /\ host = "running"
    /\ host' = "closing"
    /\ UNCHANGED <<at, left, asked, stream, pending, chunks>>

Quiet == \A r \in Requests : at[r] \in {"none", "closed"}
ShutdownReturnsEarly ==
    /\ host = "closing"
    /\ host' = "returned"
    /\ UNCHANGED <<at, left, asked, stream, pending, chunks>>
ShutdownReturns ==
    /\ host = "closing" /\ Quiet
    /\ host' = "returned"
    /\ UNCHANGED <<at, left, asked, stream, pending, chunks>>

Serve(r) == Check(r) \/ StreamCall(r) \/ Cancelled(r) \/ DropHeader(r) \/ DropIdle(r)
Others(r) == \/ Connect(r) \/ SendHeader(r) \/ ReceiveBody(r) \/ Drained(r) \/ Leave(r)
             \/ UpstreamAnswers(r) \/ StreamChunk(r) \/ StreamEnds(r)
BridgeNext == ChildEnds \/ ShutdownReturns \/ \E r \in Requests : Serve(r) \/ Others(r)

(* The goroutines run.  Nothing is asked of clients or of upstream. *)
BridgeSpec ==
    /\ BridgeInit /\ [][BridgeNext]_bridgeVars
    /\ WF_bridgeVars(ShutdownReturns) /\ \A r \in Requests : WF_bridgeVars(Serve(r))
-----------------------------------------------------------------------------
BridgeTypeOK ==
    /\ host \in {"running", "closing", "returned"}
    /\ at \in [Requests -> Places]
    /\ left \subseteq Requests
    /\ chunks \in [Requests -> 0..MaxChunks]

(* When the clean-up goes on, the key is out of use: no handler of the     *)
(* bridge runs any more, and none will (Server.Close).                     *)
SilentAfterClose ==
    host = "returned" => \A r \in Requests : ~InHandler(r) /\ at[r] # "header"

(* Where a client leaves, its request lets go of the bridge: if whoever is *)
(* still served leaves in the end, wherever that finds the request, Close  *)
(* returns, with nothing asked of upstream or of a body that does not come *)
(* (and without that it may wait forever: nothing bounds it).              *)
CloseReturns ==
    <>[](\A r \in Requests : InHandler(r) => r \in left)
        => (host = "closing" ~> host = "returned")

(* Clients that keep to Anthropic's protocol. *)
ClientsAnswer == \A c \in Conversations : c \in Seq(Messages) /\ AnsweredInTurn(c)

(* A conversation whose calls are answered in the next message asks        *)
(* upstream with each call answered in its place (toOpenAI).               *)
CallsAnswered == \A r \in Requests : AnsweredInPlace(asked[r])

(* What a client is sent of a stream, however it ends: of the blocks, the  *)
(* text and each call, each is opened once, before its deltas, and closed  *)
(* once, after them, at the latest when the message is over.  A block has  *)
(* an index of its own, but that a text after the first call has 0 like    *)
(* that call; where the text came first, or not at all, the indices are    *)
(* the first ones, in order (streamOpenAI).                                *)
Positions(st, type) == {i \in 1..Len(st.sent) : st.sent[i].type = type}
TextFirst(st) ==
    \A i, j \in Positions(st, "start") :
        st.sent[i].kind = "text" /\ j < i => st.sent[j].kind = "text"
BlockAt(st, i) == [index |-> st.sent[i].index, kind |-> st.sent[i].kind]
WellFormed(st) ==
    LET opened == Positions(st, "start")
        deltas == Positions(st, "delta")
        closed == Positions(st, "stop")
        Index(i) == st.sent[i].index
    IN /\ \A i, j \in opened : i < j /\ Index(i) = Index(j) =>
             Index(i) = 0 /\ st.sent[i].kind = "tool" /\ st.sent[j].kind = "text"
       /\ TextFirst(st) => \A i \in opened : \A b \in 0..Index(i) - 1 :
                              \E j \in opened : j < i /\ Index(j) = b
       /\ \A d \in deltas : \E i \in opened : i < d /\ BlockAt(st, i) = BlockAt(st, d)
       /\ \A c \in closed : \A d \in deltas : BlockAt(st, d) = BlockAt(st, c) => d < c
       /\ \A c, d \in closed : BlockAt(st, c) = BlockAt(st, d) => c = d
       /\ Positions(st, "message_stop") # {} =>
            {BlockAt(st, i) : i \in opened} = {BlockAt(st, c) : c \in closed}
BlocksWellFormed == \A r \in Requests : WellFormed(stream[r])
=============================================================================
