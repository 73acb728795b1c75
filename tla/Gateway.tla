------------------------------- MODULE Gateway -------------------------------
(***************************************************************************)
(* The proxy to the AI agent: services/ai/ai.service.js and                *)
(* controllers/ai/ai.controller.js.  A turn is authorised against          *)
(* ai_conversations, forwarded, and streamed back while the client may     *)
(* leave and the agent may end, break or stall behind a slow reader.       *)
(***************************************************************************)
EXTENDS Integers

CONSTANTS
    Turn,           \* requests to the gateway
    Account,        \* their callers
    Conversation,   \* conversation ids
    Ownerless,      \* a conversation the agent has not stored yet
    MaxChunks       \* MAX_STREAM_BYTES, in chunks

ASSUME GatewayAssumption == MaxChunks \in Nat \ {0}

VARIABLES
    owner,     \* ai_conversations: whose each conversation is
    turns,     \* the handlers: where they are, chunks so far, the frame that closed the body
    upstream,  \* the agent's side of each: not called, at work, or released
    client,    \* whether each client is still there
    listening  \* turns whose handler aborts its call when the client leaves

gatewayVars == <<owner, turns, upstream, client, listening>>

Waiting == {"resolving", "called", "piping", "draining", "calling"}

GatewayInit ==
    /\ owner = [c \in Conversation |-> Ownerless]
    /\ turns = [t \in Turn |-> [at |-> "idle", chunks |-> 0, last |-> "none"]]
    /\ upstream = [t \in Turn |-> "none"]
    /\ client = [t \in Turn |-> "there"]
    /\ listening = {}

Goes(t, where) == turns' = [turns EXCEPT ![t].at = where]
Ends(t, frame) == turns' = [turns EXCEPT ![t].at = "ended", ![t].last = frame]
Release(t) == upstream' = [upstream EXCEPT ![t] = IF @ = "none" THEN "none" ELSE "released"]
StopListening(t) == listening' = listening \ {t}

-----------------------------------------------------------------------------
(* Authorising and calling. *)

Arrive(t) ==
    /\ turns[t].at = "idle" /\ client[t] = "there"
    /\ Goes(t, "resolving")
    /\ UNCHANGED <<owner, upstream, client, listening>>

\* A known conversation must be the caller's; an unknown one passes, and the agent
\* stores it for him or does not.
AssertConversationOwnership(a, c) == owner[c] \in {a, Ownerless}

Calls(t, a, c, where) ==
    /\ turns[t].at = "resolving"
    /\ AssertConversationOwnership(a, c)
    /\ Goes(t, where)
    /\ upstream' = [upstream EXCEPT ![t] = "running"]
    /\ \E o \in {owner[c], a} : owner' = [owner EXCEPT ![c] = o]

\* chat, resume, history and waitApproval: one bounded call.
CallAgent(t, a, c) == Calls(t, a, c, "calling") /\ UNCHANGED <<client, listening>>

\* It answers, fails or runs into its time limit: chat and resume turn an answer of
\* 400 or more into a fixed error, the others forward it.
CallReturns(t) ==
    /\ turns[t].at = "calling"
    /\ \E frame \in {"whole", "error"} : Ends(t, frame)
    /\ Release(t)
    /\ UNCHANGED <<owner, client, listening>>

\* stream begins to listen for the client's leaving only now: a client that left
\* while the ownership was read has closed unheard.
CallStream(t, a, c) ==
    /\ Calls(t, a, c, "called")
    /\ listening' = listening \cup {t}
    /\ UNCHANGED client

\* Someone else's conversation, or a turn buildTurnBody refuses: an error response.
Refuse(t) ==
    /\ turns[t].at = "resolving"
    /\ Ends(t, "error")
    /\ UNCHANGED <<owner, upstream, client, listening>>

-----------------------------------------------------------------------------
(* Streaming. *)

\* The agent answers; anything but a body that can be piped is an error response.
AgentAnswers(t, ok) ==
    /\ turns[t].at = "called" /\ upstream[t] = "running"
    /\ IF ok THEN Goes(t, "piping") /\ UNCHANGED <<upstream, listening>>
       ELSE Ends(t, "error") /\ Release(t) /\ StopListening(t)
    /\ UNCHANGED <<owner, client>>

\* A chunk: dropped with the call when the client is gone, cut at the cap with an
\* error frame, else written, and a full buffer makes the loop wait for its drain.
Chunk(t) ==
    /\ turns[t].at = "piping" /\ upstream[t] = "running"
    /\ \/ client[t] = "gone" /\ Ends(t, "none") /\ Release(t) /\ StopListening(t)
       \/ client[t] = "there" /\ turns[t].chunks = MaxChunks
          /\ Ends(t, "error") /\ Release(t) /\ StopListening(t)
       \/ /\ client[t] = "there" /\ turns[t].chunks < MaxChunks
          /\ \E where \in {"piping", "draining"} :
                turns' = [turns EXCEPT ![t].at = where, ![t].chunks = @ + 1]
          /\ UNCHANGED <<upstream, listening>>
    /\ UNCHANGED <<owner, client>>

\* The reader catches up.
Drain(t) ==
    /\ turns[t].at = "draining" /\ client[t] = "there"
    /\ Goes(t, "piping")
    /\ UNCHANGED <<owner, upstream, client, listening>>

\* The body ends, or breaks off: the client is told which, if it is there.
BodyEnds(t) ==
    /\ turns[t].at = "piping" /\ upstream[t] = "running"
    /\ \E frame \in {"whole", "error"} : Ends(t, IF client[t] = "there" THEN frame ELSE "none")
    /\ Release(t) /\ StopListening(t)
    /\ UNCHANGED <<owner, client>>

\* The handler meets its own abort, in the fetch or in the loop.
MeetsAbort(t) ==
    /\ turns[t].at \in {"called", "piping"} /\ upstream[t] = "released"
    /\ Ends(t, "none") /\ StopListening(t)
    /\ UNCHANGED <<owner, upstream, client>>

\* Mutant: nobody aborts the call when the client leaves.
Leave_NoAbort(t) ==
    /\ client[t] = "there" /\ turns[t].at \in Waiting
    /\ client' = [client EXCEPT ![t] = "gone"]
    /\ UNCHANGED <<owner, turns, listening, upstream>>

\* The client disconnects: a handler that listens aborts its call.
Leave(t) ==
    /\ client[t] = "there" /\ turns[t].at \in Waiting
    /\ client' = [client EXCEPT ![t] = "gone"]
    /\ IF t \in listening THEN Release(t) ELSE UNCHANGED upstream
    /\ UNCHANGED <<owner, turns, listening>>

Serve(t) ==
    \/ Arrive(t) \/ Refuse(t) \/ CallReturns(t) \/ MeetsAbort(t) \/ Drain(t)
    \/ Chunk(t) \/ BodyEnds(t)
    \/ \E a \in Account, c \in Conversation : CallAgent(t, a, c) \/ CallStream(t, a, c)
    \/ \E ok \in BOOLEAN : AgentAnswers(t, ok)

GatewayNext == \E t \in Turn : Serve(t) \/ Leave(t)

\* A handler that can go on does, and the agent, whose model calls are bounded, goes
\* on with a body somebody reads.  No client has to leave or to read.
GatewayFairness ==
    \A t \in Turn : WF_gatewayVars(
        \/ Refuse(t) \/ CallReturns(t) \/ MeetsAbort(t) \/ Chunk(t) \/ BodyEnds(t)
        \/ \E ok \in BOOLEAN : AgentAnswers(t, ok))

GatewaySpec == GatewayInit /\ [][GatewayNext]_gatewayVars /\ GatewayFairness

-----------------------------------------------------------------------------
\* A client that stays is told how its turn ended: a response, the whole body, or
\* an error frame behind a body that broke.
ToldHow == \A t \in Turn : turns[t].at = "ended" /\ client[t] = "there" => turns[t].last # "none"

\* When a client has left, the agent's run is released, even for a client that left
\* unheard or behind a full buffer whose drain never comes.
UpstreamReleased == \A t \in Turn : client[t] = "gone" ~> upstream[t] # "running"

\* Both ways a turn can be cut short (ai.controller.js:90-164).
TurnsSettle == []ToldHow /\ UpstreamReleased
=============================================================================
