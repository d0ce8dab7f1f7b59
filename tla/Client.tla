------------------------------- MODULE Client -------------------------------
(***************************************************************************)
(* The WebSocket client of the editor plugin: Net/AetherForgeClient.cpp.   *)
(*                                                                         *)
(* Socket events arrive on the game thread.  A text frame goes through two *)
(* queues: the game thread enqueues it raw, a background parse worker       *)
(* moves it, parsed, to the second queue, and a game-thread ticker fires    *)
(* the delegate.  The flag bParseWorkerActive decides who may drain.  The   *)
(* connected, error and closed events fire their delegates at once.         *)
(*                                                                         *)
(* The engine's TQueue and AsyncTask and IWebSocket are external: a queue   *)
(* operation of its owner is atomic, a scheduled task runs eventually.      *)
(***************************************************************************)
EXTENDS Integers, Sequences, SequencesExt, FiniteSets

CONSTANTS MaxSockets,  \* bound: sockets Connect creates
          MaxFrames,   \* bound: text frames that arrive on one socket
          Workers      \* bound: ParseWorker tasks alive at once

ASSUME ClientAssumption ==
    /\ MaxSockets \in Nat
    /\ MaxFrames \in Nat
    /\ IsFiniteSet(Workers) /\ Workers # {}

Sockets == 1..MaxSockets
NoSocket == 0
Frames == [sock : Sockets, n : 1..MaxFrames]

VARIABLES
    Socket,    \* the current socket, or NoSocket
    net,       \* the network's view of each socket
    received,  \* frames each socket has delivered
    RawInbound, ParsedInbound,   \* the two queues
    bParseWorkerActive,
    worker,    \* where each ParseWorker is
    hand,      \* the frame it has dequeued and not yet enqueued
    game,      \* the game thread: "free", "kick" or "tick"
    ticking,   \* the dispatch ticker is registered
    arrived,   \* frames that reached the game thread from the current socket
    fired      \* frames given to the delegates, both in order

queueVars  == <<RawInbound, ParsedInbound>>
workerVars == <<bParseWorkerActive, worker, hand>>
vars == <<Socket, net, received, queueVars, workerVars, game, ticking, arrived, fired>>

NoFrame == << >>
Frame(s, n) == [sock |-> s, n |-> n]

Init ==
    /\ Socket = NoSocket
    /\ net = [s \in Sockets |-> "new"]
    /\ received = [s \in Sockets |-> 0]
    /\ RawInbound = << >> /\ ParsedInbound = << >>
    /\ bParseWorkerActive = FALSE
    /\ worker = [w \in Workers |-> "none"]
    /\ hand = [w \in Workers |-> NoFrame]
    /\ game = "free"
    /\ ticking = TRUE              \* Initialize has run
    /\ arrived = << >> /\ fired = << >>

IsConnected == Socket # NoSocket /\ net[Socket] = "connected"

-----------------------------------------------------------------------------
(* Calls of the module, on the game thread.                                *)

\* Connect replaces the socket unless it is connected.  The old one, still
\* connecting, keeps its handlers; the queues are left alone.
Connect ==
    /\ game = "free" /\ ticking /\ ~IsConnected
    /\ \E s \in Sockets :
        /\ \A t \in Sockets : net[t] = "new" <=> t >= s
        /\ Socket' = s
        /\ net' = [net EXCEPT ![s] = "connecting"]
    /\ UNCHANGED <<received, queueVars, workerVars, game, ticking, arrived, fired>>

\* Disconnect unbinds the handlers, closes the socket and forgets it.
DropSocket ==
    /\ net' = IF Socket = NoSocket THEN net ELSE [net EXCEPT ![Socket] = "unbound"]
    /\ Socket' = NoSocket

Disconnect ==
    /\ game = "free" /\ Socket # NoSocket
    /\ DropSocket
    /\ UNCHANGED <<received, queueVars, workerVars, game, ticking, arrived, fired>>

\* Shutdown also removes the dispatch ticker.
Shutdown ==
    /\ game = "free" /\ ticking
    /\ DropSocket
    /\ ticking' = FALSE
    /\ UNCHANGED <<received, queueVars, workerVars, game, arrived, fired>>

-----------------------------------------------------------------------------
(* Socket events, on the game thread.  Every handler ignores a socket that *)
(* is not the current one.  The delegates of connected, error and closed   *)
(* fire at once, whatever the queues still hold.                           *)

HandleSocketConnected(s) ==
    /\ game = "free" /\ net[s] = "connecting"
    /\ net' = [net EXCEPT ![s] = "connected"]
    /\ UNCHANGED <<Socket, received, queueVars, workerVars, game, ticking, arrived, fired>>

HandleSocketConnectionError(s) ==
    /\ game = "free" /\ net[s] = "connecting"
    /\ net' = [net EXCEPT ![s] = "closed"]
    /\ Socket' = IF s = Socket THEN NoSocket ELSE Socket
    /\ UNCHANGED <<received, queueVars, workerVars, game, ticking, arrived, fired>>

HandleSocketClosed(s) ==
    /\ game = "free" /\ net[s] = "connected"
    /\ net' = [net EXCEPT ![s] = "closed"]
    /\ Socket' = IF s = Socket THEN NoSocket ELSE Socket
    /\ UNCHANGED <<received, queueVars, workerVars, game, ticking, arrived, fired>>

\* HandleRawMessage: enqueue the frame ...
HandleRawMessage(s) ==
    /\ game = "free" /\ net[s] = "connected" /\ received[s] < MaxFrames
    /\ received' = [received EXCEPT ![s] = @ + 1]
    /\ IF s = Socket
       THEN LET f == Frame(s, received[s] + 1) IN
            /\ RawInbound' = Append(RawInbound, f)
            /\ arrived' = Append(arrived, f)
            /\ game' = "kick"
       ELSE UNCHANGED <<RawInbound, arrived, game>>
    /\ UNCHANGED <<Socket, net, ParsedInbound, workerVars, ticking, fired>>

\* Mutant: every frame starts a worker.
KickWorker_Always ==
    /\ game = "kick" /\ game' = "free"
    /\ bParseWorkerActive' = TRUE
    /\ \E w \in Workers : worker[w] = "none" /\ worker' = [worker EXCEPT ![w] = "drain"]
    /\ UNCHANGED <<Socket, net, received, queueVars, hand, ticking, arrived, fired>>

\* ... then start a worker if the flag could be taken.
KickWorker ==
    /\ game = "kick"
    /\ \/ /\ bParseWorkerActive
          /\ UNCHANGED workerVars
       \/ /\ ~bParseWorkerActive
          /\ bParseWorkerActive' = TRUE
          /\ \E w \in Workers :
                worker[w] = "none" /\ worker' = [worker EXCEPT ![w] = "drain"]
          /\ UNCHANGED hand
    /\ game' = "free"
    /\ UNCHANGED <<Socket, net, received, queueVars, ticking, arrived, fired>>

-----------------------------------------------------------------------------
(* ParseWorker, on a background thread.                                    *)

workerRest == <<Socket, net, received, game, ticking, arrived, fired>>
At(w, p) == worker[w] = p
Goto(w, p) == worker' = [worker EXCEPT ![w] = p]

\* while (RawInbound.Dequeue(Raw))
Dequeue(w) ==
    /\ At(w, "drain")
    /\ \/ /\ RawInbound # << >>
          /\ hand' = [hand EXCEPT ![w] = <<Head(RawInbound)>>]
          /\ RawInbound' = Tail(RawInbound)
          /\ Goto(w, "parse")
       \/ /\ RawInbound = << >>
          /\ Goto(w, "clear")
          /\ UNCHANGED <<hand, RawInbound>>
    /\ UNCHANGED <<ParsedInbound, bParseWorkerActive, workerRest>>

\* Mutant: the parsed message is enqueued and kept.
Parse_Keeps(w) ==
    /\ At(w, "parse") /\ Goto(w, "drain")
    /\ ParsedInbound' = ParsedInbound \o hand[w]
    /\ UNCHANGED <<hand, RawInbound, bParseWorkerActive, workerRest>>

\* ParseServerMessage, ParsedInbound.Enqueue: an invalid frame is kept too,
\* as an Invalid message.
Parse(w) ==
    /\ At(w, "parse")
    /\ ParsedInbound' = ParsedInbound \o hand[w]
    /\ hand' = [hand EXCEPT ![w] = NoFrame]
    /\ Goto(w, "drain")
    /\ UNCHANGED <<RawInbound, bParseWorkerActive, workerRest>>

\* bParseWorkerActive.store(false)
ClearFlag(w) ==
    /\ At(w, "clear")
    /\ bParseWorkerActive' = FALSE
    /\ Goto(w, "recheck")
    /\ UNCHANGED <<queueVars, hand, workerRest>>

\* Mutant: the worker leaves without looking at the queue again.
Recheck_Leaves(w) ==
    /\ At(w, "recheck") /\ Goto(w, "none")
    /\ UNCHANGED <<queueVars, bParseWorkerActive, hand, workerRest>>

\* RawInbound.IsEmpty().  The worker no longer holds the flag: if another one
\* is dequeuing meanwhile, the read races with it and may return anything.
Recheck(w) ==
    /\ At(w, "recheck")
    /\ LET racing == \E v \in Workers \ {w} : At(v, "drain") IN
        \/ (RawInbound = << >> \/ racing) /\ Goto(w, "none")
        \/ (RawInbound # << >> \/ racing) /\ Goto(w, "reacquire")
    /\ UNCHANGED <<queueVars, bParseWorkerActive, hand, workerRest>>

\* Mutant: the flag is stored, not compared and exchanged.
Reacquire_Stores(w) ==
    /\ At(w, "reacquire") /\ Goto(w, "drain") /\ bParseWorkerActive' = TRUE
    /\ UNCHANGED <<queueVars, hand, workerRest>>

\* compare_exchange_strong(false, true): drain again, or leave.
Reacquire(w) ==
    /\ At(w, "reacquire")
    /\ IF bParseWorkerActive
       THEN Goto(w, "none") /\ UNCHANGED bParseWorkerActive
       ELSE Goto(w, "drain") /\ bParseWorkerActive' = TRUE
    /\ UNCHANGED <<queueVars, hand, workerRest>>

WorkerStep(w) == Dequeue(w) \/ Parse(w) \/ ClearFlag(w) \/ Recheck(w) \/ Reacquire(w)

-----------------------------------------------------------------------------
(* DispatchTick: the game thread fires delegates until the queue is empty. *)

TickBegin ==
    /\ game = "free" /\ ticking /\ ParsedInbound # << >>
    /\ game' = "tick"
    /\ UNCHANGED <<Socket, net, received, queueVars, workerVars, ticking, arrived, fired>>

Dispatch ==
    /\ game = "tick" /\ ParsedInbound # << >>
    /\ fired' = Append(fired, Head(ParsedInbound))
    /\ ParsedInbound' = Tail(ParsedInbound)
    /\ UNCHANGED <<Socket, net, received, RawInbound, workerVars, game, ticking, arrived>>

TickEnd ==
    /\ game = "tick" /\ ParsedInbound = << >>
    /\ game' = "free"
    /\ UNCHANGED <<Socket, net, received, queueVars, workerVars, ticking, arrived, fired>>

GameStep == KickWorker \/ TickBegin \/ Dispatch \/ TickEnd

SocketEvent(s) ==
    \/ HandleSocketConnected(s) \/ HandleSocketConnectionError(s)
    \/ HandleSocketClosed(s) \/ HandleRawMessage(s)

\* The client has been shut down and its workers have left.
Finished ==
    /\ ~ticking /\ game = "free" /\ \A w \in Workers : At(w, "none")
    /\ UNCHANGED vars

Next ==
    \/ Connect \/ Disconnect \/ Shutdown
    \/ \E s \in Sockets : SocketEvent(s)
    \/ GameStep
    \/ \E w \in Workers : WorkerStep(w)
    \/ Finished

Spec == Init /\ [][Next]_vars

\* The task graph runs every worker; the editor ticks.  Strong fairness of
\* KickWorker undoes the bound: in the code it never waits for a free worker.
Fairness ==
    /\ WF_vars(GameStep) /\ SF_vars(KickWorker)
    /\ \A w \in Workers : WF_vars(WorkerStep(w))
FairSpec == Spec /\ Fairness

-----------------------------------------------------------------------------
(* Properties.                                                             *)

\* The type invariant.
TypeOK ==
    /\ Socket \in Sockets \cup {NoSocket}
    /\ net \in [Sockets -> {"new", "connecting", "connected", "closed", "unbound"}]
    /\ received \in [Sockets -> 0..MaxFrames]
    /\ RawInbound \in Seq(Frames) /\ ParsedInbound \in Seq(Frames)
    /\ bParseWorkerActive \in BOOLEAN
    /\ worker \in [Workers -> {"none", "drain", "parse", "clear", "recheck", "reacquire"}]
    /\ hand \in [Workers -> {NoFrame} \cup {<<f>> : f \in Frames}]
    /\ \A w \in Workers : hand[w] # NoFrame <=> worker[w] = "parse"
    /\ game \in {"free", "kick", "tick"}
    /\ ticking \in BOOLEAN
    /\ arrived \in Seq(Frames) /\ fired \in Seq(Frames)

Owns(w) == worker[w] \in {"drain", "parse", "clear"}

\* The flag's comment: whoever drains holds the flag, and only one does.
OneDrains ==
    /\ \A v, w \in Workers : Owns(v) /\ Owns(w) => v = w
    /\ bParseWorkerActive <=> \E w \in Workers : Owns(w)

InHand == IF \E w \in Workers : hand[w] # NoFrame
          THEN hand[CHOOSE w \in Workers : hand[w] # NoFrame] ELSE NoFrame

\* No frame is lost, duplicated or reordered between the socket and the
\* delegates, however the workers hand over to each other.
FramesKeepOrder ==
    fired \o ParsedInbound \o InHand \o RawInbound = arrived

\* No lost wake-up: a frame in the raw queue has a worker that will look at it,
\* or the game thread is about to start one.
RawIsWatched ==
    RawInbound # << >> =>
        game = "kick" \/ \E w \in Workers : worker[w] # "none"

\* Every frame that arrived is dispatched, unless the client is shut down.
EveryFrameDispatched ==
    \A s \in Sockets, n \in 1..MaxFrames :
        received[s] = n /\ Socket = s
            ~> ~ticking \/ Contains(fired, Frame(s, n))

\* AetherForgeClient.h: bParseWorkerActive "guards the single-active-parse-
\* worker invariant".  The queue has one consumer: two workers at its consuming
\* end, one dequeuing and one asking IsEmpty, break it.
AtConsumerEnd(w) == worker[w] \in {"drain", "recheck"}
SingleActiveWorker ==
    \A v, w \in Workers : AtConsumerEnd(v) /\ AtConsumerEnd(w) => v = w
=============================================================================
