---------------------------- MODULE ClientProofs ----------------------------
(***************************************************************************)
(* Proofs about Client, for any number of sockets, frames and parse        *)
(* workers.                                                                *)
(***************************************************************************)
EXTENDS Client, SequenceTheorems, TLAPS

\* The inductive invariant: OneDrains is what lets the other two be kept.
IndInv == TypeOK /\ OneDrains /\ RawIsWatched /\ FramesKeepOrder

\* A frame that moves from the head of one sequence to the end of the one
\* before it leaves their concatenation as it was.
LEMMA HeadMoves ==
  ASSUME NEW S, NEW f \in Seq(S), NEW q \in Seq(S), q # << >>
  PROVE  Append(f, Head(q)) \o Tail(q) = f \o q
<1>1. Head(q) \in S /\ Tail(q) \in Seq(S) /\ <<Head(q)>> \in Seq(S)
  OBVIOUS
<1>2. Append(f, Head(q)) = f \o <<Head(q)>>
  BY <1>1
<1>3. <<Head(q)>> \o Tail(q) = q
  OBVIOUS
<1>4. (f \o <<Head(q)>>) \o Tail(q) = f \o (<<Head(q)>> \o Tail(q))
  BY <1>1, ConcatAssociative
<1> QED BY <1>2, <1>3, <1>4, Zenon

\* What is on its way to the delegates, and with what they have had.
OnTheWay(p, h, r) == p \o h \o r
InOrder(f, p, h, r) == f \o p \o h \o r

\* The first of four sequences can be taken apart from the others.
LEMMA ConcatFour ==
  ASSUME NEW S, NEW f \in Seq(S), NEW p \in Seq(S), NEW h \in Seq(S), NEW r \in Seq(S)
  PROVE  InOrder(f, p, h, r) = f \o OnTheWay(p, h, r)
<1>1. ((f \o p) \o h) \o r = (f \o p) \o (h \o r)
  OBVIOUS
<1>2. (f \o p) \o (h \o r) = f \o (p \o (h \o r))
  OBVIOUS
<1>3. (p \o h) \o r = p \o (h \o r)
  OBVIOUS
<1> QED BY <1>1, <1>2, <1>3, Zenon DEF InOrder, OnTheWay

\* Every step keeps every variable in its type.
LEMMA StepTypeOK == TypeOK /\ [Next]_vars => TypeOK'
<1> SUFFICES ASSUME TypeOK, [Next]_vars PROVE TypeOK'
  OBVIOUS
<1> USE ClientAssumption
<1> USE DEF TypeOK, queueVars, workerVars, workerRest, NoSocket, NoFrame
<1>1. CASE Connect
  BY <1>1 DEF Connect
<1>2. CASE Disconnect
  BY <1>2 DEF Disconnect, DropSocket
<1>3. CASE Shutdown
  BY <1>3 DEF Shutdown, DropSocket
<1>4. ASSUME NEW s \in Sockets, SocketEvent(s) PROVE TypeOK'
  <2>1. CASE HandleSocketConnected(s)
    BY <2>1 DEF HandleSocketConnected
  <2>2. CASE HandleSocketConnectionError(s)
    BY <2>2 DEF HandleSocketConnectionError
  <2>3. CASE HandleSocketClosed(s)
    BY <2>3 DEF HandleSocketClosed
  <2>4. CASE HandleRawMessage(s)
    <3>1. /\ received[s] + 1 \in 1..MaxFrames
          /\ Frame(s, received[s] + 1) \in Frames
      BY <2>4 DEF HandleRawMessage, Frame, Frames
    <3>2. /\ Append(RawInbound, Frame(s, received[s] + 1)) \in Seq(Frames)
          /\ Append(arrived, Frame(s, received[s] + 1)) \in Seq(Frames)
      BY <3>1
    <3>3. received' \in [Sockets -> 0..MaxFrames]
      BY <2>4, <3>1 DEF HandleRawMessage
    <3> QED BY <2>4, <3>2, <3>3 DEF HandleRawMessage
  <2> QED BY <1>4, <2>1, <2>2, <2>3, <2>4 DEF SocketEvent
<1>5. CASE GameStep
  <2>1. CASE KickWorker
    BY <2>1 DEF KickWorker
  <2>2. CASE TickBegin
    BY <2>2 DEF TickBegin
  <2>3. CASE Dispatch
    BY <2>3 DEF Dispatch
  <2>4. CASE TickEnd
    BY <2>4 DEF TickEnd
  <2> QED BY <1>5, <2>1, <2>2, <2>3, <2>4 DEF GameStep
<1>6. ASSUME NEW w \in Workers, WorkerStep(w) PROVE TypeOK'
  <2> USE DEF At, Goto
  <2>1. CASE Dequeue(w)
    <3>1. CASE RawInbound # << >>
      <4>1. <<Head(RawInbound)>> \in {<<f>> : f \in Frames} /\ Tail(RawInbound) \in Seq(Frames)
        BY <3>1
      <4>2. <<Head(RawInbound)>> # << >>
        OBVIOUS
      <4> QED BY <2>1, <3>1, <4>1, <4>2 DEF Dequeue
    <3>2. CASE RawInbound = << >>
      BY <2>1, <3>2 DEF Dequeue
    <3> QED BY <3>1, <3>2
  <2>2. CASE Parse(w)
    <3>1. hand[w] \in Seq(Frames)
      <4>1. CASE hand[w] = << >>
        BY <4>1
      <4>2. ASSUME NEW f \in Frames, hand[w] = <<f>> PROVE hand[w] \in Seq(Frames)
        BY <4>2
      <4> QED BY <4>1, <4>2
    <3>2. ParsedInbound \o hand[w] \in Seq(Frames)
      BY <3>1
    <3> QED BY <2>2, <3>2 DEF Parse
  <2>3. CASE ClearFlag(w)
    BY <2>3 DEF ClearFlag
  <2>4. CASE Recheck(w)
    BY <2>4 DEF Recheck
  <2>5. CASE Reacquire(w)
    BY <2>5 DEF Reacquire
  <2> QED BY <1>6, <2>1, <2>2, <2>3, <2>4, <2>5 DEF WorkerStep
<1>7. CASE Finished
  BY <1>7 DEF Finished, vars
<1>8. CASE UNCHANGED vars
  BY <1>8 DEF vars
<1> QED BY <1>1, <1>2, <1>3, <1>4, <1>5, <1>6, <1>7, <1>8 DEF Next

\* Every step leaves at most one worker between taking the flag and giving it
\* back, and the flag says whether there is one.
LEMMA StepOneDrains == TypeOK /\ OneDrains /\ [Next]_vars => OneDrains'
<1> SUFFICES ASSUME TypeOK, OneDrains, [Next]_vars PROVE OneDrains'
  OBVIOUS
<1> USE DEF OneDrains, Owns
<1>1. ASSUME UNCHANGED <<bParseWorkerActive, worker>> PROVE OneDrains'
  BY <1>1
<1>2. CASE KickWorker
  BY <1>2 DEF KickWorker, TypeOK, workerVars
<1>3. ASSUME NEW w \in Workers, WorkerStep(w) PROVE OneDrains'
  <2> USE DEF At, Goto, TypeOK
  <2>1. CASE Dequeue(w)
    BY <2>1 DEF Dequeue
  <2>2. CASE Parse(w)
    BY <2>2 DEF Parse
  <2>3. CASE ClearFlag(w)
    BY <2>3 DEF ClearFlag
  <2>4. CASE Recheck(w)
    BY <2>4 DEF Recheck
  <2>5. CASE Reacquire(w)
    <3>1. CASE bParseWorkerActive
      BY <2>5, <3>1 DEF Reacquire
    <3>2. CASE ~bParseWorkerActive
      <4>1. /\ bParseWorkerActive' = TRUE
            /\ worker' = [worker EXCEPT ![w] = "drain"]
            /\ ~\E v \in Workers : worker[v] \in {"drain", "parse", "clear"}
        BY <2>5, <3>2 DEF Reacquire
      <4> QED BY <4>1
    <3> QED BY <3>1, <3>2
  <2> QED BY <1>3, <2>1, <2>2, <2>3, <2>4, <2>5 DEF WorkerStep
<1> QED
  BY <1>1, <1>2, <1>3
  DEF Next, GameStep, SocketEvent, Connect, Disconnect, Shutdown, HandleSocketConnected,
      HandleSocketConnectionError, HandleSocketClosed, HandleRawMessage, TickBegin,
      Dispatch, TickEnd, Finished, vars, workerVars

\* Every step that leaves a frame in the raw queue leaves someone to look at it.
LEMMA StepRawIsWatched ==
  TypeOK /\ OneDrains /\ RawIsWatched /\ [Next]_vars => RawIsWatched'
<1> SUFFICES ASSUME TypeOK, OneDrains, RawIsWatched, [Next]_vars PROVE RawIsWatched'
  OBVIOUS
<1> USE DEF RawIsWatched, TypeOK
<1>1. ASSUME UNCHANGED <<RawInbound, game, worker>> PROVE RawIsWatched'
  BY <1>1
<1>2. ASSUME game \in {"free", "tick"}, UNCHANGED <<RawInbound, worker>> PROVE RawIsWatched'
  BY <1>2
<1>3. ASSUME NEW s \in Sockets, HandleRawMessage(s) PROVE RawIsWatched'
  BY <1>3 DEF HandleRawMessage, workerVars
<1>4. CASE KickWorker
  BY <1>4 DEF KickWorker, OneDrains, Owns, queueVars, workerVars
<1>5. ASSUME NEW w \in Workers, WorkerStep(w) PROVE RawIsWatched'
  <2> USE DEF At, Goto, workerRest, queueVars
  <2>1. CASE Dequeue(w)
    BY <2>1 DEF Dequeue
  <2>2. CASE Parse(w)
    BY <2>2 DEF Parse
  <2>3. CASE ClearFlag(w)
    BY <2>3 DEF ClearFlag
  <2>4. CASE Recheck(w)
    BY <2>4 DEF Recheck
  <2>5. CASE Reacquire(w)
    BY <2>5 DEF Reacquire, OneDrains, Owns
  <2> QED BY <1>5, <2>1, <2>2, <2>3, <2>4, <2>5 DEF WorkerStep
<1> QED
  BY <1>1, <1>2, <1>3, <1>4, <1>5
  DEF Next, GameStep, SocketEvent, Connect, Disconnect, Shutdown, HandleSocketConnected,
      HandleSocketConnectionError, HandleSocketClosed, TickBegin,
      Dispatch, TickEnd, Finished, vars, queueVars, workerVars

\* With one worker draining, what is in hand is what that worker holds.
LEMMA InHandOf ==
  TypeOK /\ OneDrains => \A w \in Workers : Owns(w) => InHand = hand[w]
<1> SUFFICES ASSUME TypeOK, OneDrains, NEW w \in Workers, Owns(w)
             PROVE  InHand = hand[w]
  OBVIOUS
<1>1. \A v \in Workers : hand[v] # NoFrame => v = w
  BY DEF TypeOK, OneDrains, Owns
<1>2. CASE hand[w] = NoFrame
  BY <1>1, <1>2 DEF InHand
<1>3. CASE hand[w] # NoFrame
  <2>1. (CHOOSE v \in Workers : hand[v] # NoFrame) = w
    BY <1>1, <1>3
  <2> QED BY <1>3, <2>1 DEF InHand
<1> QED BY <1>2, <1>3

\* The same of the state after a step.
LEMMA InHandOfNext ==
  (TypeOK /\ OneDrains => \A w \in Workers : Owns(w) => InHand = hand[w])'
  BY InHandOf, PTL

\* What is in hand is a sequence of frames.
LEMMA InHandType == TypeOK => InHand \in Seq(Frames)
<1> SUFFICES ASSUME TypeOK PROVE InHand \in Seq(Frames)
  OBVIOUS
<1>1. ASSUME NEW w \in Workers PROVE hand[w] \in Seq(Frames)
  <2>1. CASE hand[w] = << >>
    BY <2>1
  <2>2. ASSUME NEW f \in Frames, hand[w] = <<f>> PROVE hand[w] \in Seq(Frames)
    BY <2>2
  <2> QED BY <2>1, <2>2 DEF TypeOK, NoFrame
<1>2. CASE \E w \in Workers : hand[w] # NoFrame
  <2>1. (CHOOSE w \in Workers : hand[w] # NoFrame) \in Workers
    BY <1>2
  <2> QED BY <1>1, <1>2, <2>1 DEF InHand
<1>3. CASE ~\E w \in Workers : hand[w] # NoFrame
  BY <1>3 DEF InHand, NoFrame
<1> QED BY <1>2, <1>3

\* What was dispatched comes before what is on its way.
LEMMA FiredComesFirst ==
  TypeOK => InOrder(fired, ParsedInbound, InHand, RawInbound)
              = fired \o OnTheWay(ParsedInbound, InHand, RawInbound)
<1>1. ASSUME fired \in Seq(Frames), ParsedInbound \in Seq(Frames),
             InHand \in Seq(Frames), RawInbound \in Seq(Frames)
      PROVE  InOrder(fired, ParsedInbound, InHand, RawInbound)
               = fired \o OnTheWay(ParsedInbound, InHand, RawInbound)
  BY <1>1, ConcatFour
<1> QED BY <1>1, InHandType DEF TypeOK

\* The same of the state after a step.
LEMMA FiredComesFirstNext ==
  (TypeOK => InOrder(fired, ParsedInbound, InHand, RawInbound)
               = fired \o OnTheWay(ParsedInbound, InHand, RawInbound))'
  BY FiredComesFirst, PTL

\* A step of a worker moves a frame along, or leaves the four queues alone.
LEMMA WorkerMovesFrames ==
  ASSUME TypeOK, OneDrains, NEW w \in Workers, WorkerStep(w), TypeOK', OneDrains'
  PROVE  ParsedInbound' \o InHand' \o RawInbound' = ParsedInbound \o InHand \o RawInbound
<1> USE DEF At, Goto, workerRest, queueVars
<1>0. InHand \in Seq(Frames) /\ RawInbound \in Seq(Frames) /\ ParsedInbound \in Seq(Frames)
  BY InHandType DEF TypeOK
<1>1. ASSUME UNCHANGED <<hand, RawInbound, ParsedInbound>>
      PROVE  ParsedInbound' \o InHand' \o RawInbound' = ParsedInbound \o InHand \o RawInbound
  BY <1>1 DEF InHand
<1>2. CASE Dequeue(w) /\ RawInbound # << >>
  <2>1. worker[w] = "drain" /\ worker' = [worker EXCEPT ![w] = "parse"]
    BY <1>2 DEF Dequeue
  <2>2. InHand = << >>
    BY <2>1, InHandOf DEF Owns, TypeOK, NoFrame
  <2>3. worker'[w] = "parse"
    BY <2>1 DEF TypeOK
  <2>4. InHand' = hand'[w]
    <3>1. Owns(w)'
      BY <2>3 DEF Owns
    <3> QED BY <3>1, InHandOfNext
  <2>5. hand'[w] = <<Head(RawInbound)>>
    BY <1>2 DEF Dequeue, TypeOK
  <2>6. RawInbound' = Tail(RawInbound) /\ ParsedInbound' = ParsedInbound
    BY <1>2 DEF Dequeue
  <2>7. <<Head(RawInbound)>> \o Tail(RawInbound) = RawInbound
    BY <1>0, <1>2
  <2> QED BY <1>0, <1>2, <2>2, <2>4, <2>5, <2>6, <2>7
<1>3. CASE Parse(w)
  <2>1. worker[w] = "parse" /\ InHand = hand[w]
    BY <1>3, InHandOf DEF Parse, Owns
  <2>2. worker'[w] = "drain" /\ hand'[w] = << >>
    BY <1>3 DEF Parse, TypeOK, NoFrame
  <2>3. InHand' = << >>
    <3>1. Owns(w)'
      BY <2>2 DEF Owns
    <3>2. InHand' = hand'[w]
      BY <3>1, InHandOfNext
    <3> QED BY <2>2, <3>2
  <2>4. ParsedInbound' = ParsedInbound \o InHand /\ RawInbound' = RawInbound
    BY <1>3, <2>1 DEF Parse
  <2> QED BY <1>0, <2>3, <2>4
<1> QED
  BY <1>1, <1>2, <1>3 DEF WorkerStep, Dequeue, ClearFlag, Recheck, Reacquire

\* Every step keeps the order of the frames: what was dispatched, then the
\* parsed queue, then the frame in hand, then the raw queue.
LEMMA StepFramesKeepOrder == IndInv /\ [Next]_vars => FramesKeepOrder'
<1> SUFFICES ASSUME IndInv, [Next]_vars PROVE FramesKeepOrder'
  OBVIOUS
<1>0. TypeOK /\ OneDrains /\ FramesKeepOrder /\ TypeOK' /\ OneDrains'
  BY StepTypeOK, StepOneDrains DEF IndInv
<1>a. fired \in Seq(Frames)
  BY <1>0 DEF TypeOK
<1>b. InHand \in Seq(Frames) /\ RawInbound \in Seq(Frames) /\ ParsedInbound \in Seq(Frames)
  BY <1>0, InHandType DEF TypeOK
<1>1. ASSUME UNCHANGED <<fired, ParsedInbound, hand, RawInbound, arrived>>
      PROVE  FramesKeepOrder'
  BY <1>0, <1>1 DEF FramesKeepOrder, InHand
<1>2. ASSUME NEW s \in Sockets, HandleRawMessage(s) PROVE FramesKeepOrder'
  <2>1. InHand' = InHand /\ UNCHANGED <<fired, ParsedInbound>>
    BY <1>2 DEF HandleRawMessage, InHand, workerVars
  <2>2. CASE s = Socket
    <3> DEFINE f == Frame(s, received[s] + 1)
    <3>1. f \in Frames
      BY <1>0, <1>2 DEF HandleRawMessage, Frame, Frames, TypeOK
    <3>2. RawInbound' = Append(RawInbound, f) /\ arrived' = Append(arrived, f)
      BY <1>2, <2>2 DEF HandleRawMessage
    <3> HIDE DEF f
    <3> DEFINE before == fired \o ParsedInbound \o InHand
    <3>3. before \in Seq(Frames) /\ arrived = before \o RawInbound
      BY <1>0, <1>a, <1>b DEF FramesKeepOrder
    <3>4. before \o Append(RawInbound, f) = Append(before \o RawInbound, f)
      <4> HIDE DEF before
      <4>1. /\ Append(RawInbound, f) = RawInbound \o <<f>>
            /\ Append(before \o RawInbound, f) = (before \o RawInbound) \o <<f>>
        BY <1>b, <3>1, <3>3
      <4> QED BY <4>1, <1>b, <3>1, <3>3
    <3> QED BY <2>1, <3>2, <3>3, <3>4 DEF FramesKeepOrder
  <2>3. CASE s # Socket
    BY <1>0, <1>2, <2>1, <2>3 DEF HandleRawMessage, FramesKeepOrder
  <2> QED BY <2>2, <2>3
<1>3. CASE Dispatch
  <2>1. InHand' = InHand /\ UNCHANGED <<RawInbound, arrived>>
    BY <1>3 DEF Dispatch, InHand, workerVars
  <2>2. /\ ParsedInbound # << >>
        /\ fired' = Append(fired, Head(ParsedInbound)) /\ ParsedInbound' = Tail(ParsedInbound)
    BY <1>3 DEF Dispatch
  <2>3. fired' \o ParsedInbound' = fired \o ParsedInbound
    BY <1>a, <1>b, <2>2, HeadMoves
  <2> QED BY <1>0, <2>1, <2>3 DEF FramesKeepOrder
<1>4. ASSUME NEW w \in Workers, WorkerStep(w) PROVE FramesKeepOrder'
  <2>1. UNCHANGED <<fired, arrived>>
    BY <1>4 DEF WorkerStep, Dequeue, Parse, ClearFlag, Recheck, Reacquire, workerRest
  <2>2. OnTheWay(ParsedInbound', InHand', RawInbound') = OnTheWay(ParsedInbound, InHand, RawInbound)
    BY <1>0, <1>4, WorkerMovesFrames DEF OnTheWay
  <2>4. InOrder(fired', ParsedInbound', InHand', RawInbound')
          = fired' \o OnTheWay(ParsedInbound', InHand', RawInbound')
    BY <1>0, FiredComesFirstNext
  <2>5. InOrder(fired, ParsedInbound, InHand, RawInbound)
          = fired \o OnTheWay(ParsedInbound, InHand, RawInbound)
    BY <1>0, FiredComesFirst
  <2>6. InOrder(fired, ParsedInbound, InHand, RawInbound) = arrived
    BY <1>0 DEF InOrder, FramesKeepOrder
  <2>7. InOrder(fired', ParsedInbound', InHand', RawInbound') = arrived'
    BY <2>1, <2>2, <2>4, <2>5, <2>6
  <2> QED BY <2>7 DEF InOrder, FramesKeepOrder
<1> QED
  BY <1>1, <1>2, <1>3, <1>4
  DEF Next, GameStep, SocketEvent, Connect, Disconnect, Shutdown, HandleSocketConnected,
      HandleSocketConnectionError, HandleSocketClosed, KickWorker, TickBegin, TickEnd,
      Finished, vars, queueVars, workerVars

\* The initial states satisfy the inductive invariant.
LEMMA InitIndInv == Init => IndInv
<1> SUFFICES ASSUME Init PROVE IndInv
  OBVIOUS
<1> USE ClientAssumption DEF Init
<1>1. TypeOK
  <2>1. 0 \in 0..MaxFrames /\ << >> \in Seq(Frames)
    OBVIOUS
  <2> QED BY <2>1 DEF TypeOK, NoSocket, NoFrame
<1>2. OneDrains /\ RawIsWatched
  BY DEF OneDrains, Owns, RawIsWatched
<1>3. FramesKeepOrder
  <2>1. InHand = << >>
    BY DEF InHand, NoFrame
  <2> QED BY <2>1 DEF FramesKeepOrder
<1> QED BY <1>1, <1>2, <1>3 DEF IndInv

\* Every reachable state satisfies the inductive invariant.
THEOREM SpecIndInv == Spec => []IndInv
<1>1. IndInv /\ [Next]_vars => IndInv'
  BY StepTypeOK, StepOneDrains, StepRawIsWatched, StepFramesKeepOrder DEF IndInv
<1> QED BY InitIndInv, <1>1, PTL DEF Spec

\* The state always has its type: no frame number passes the bound, and only a
\* worker that parses holds a frame.
THEOREM SpecTypeOK == Spec => []TypeOK
<1>1. IndInv => TypeOK
  BY DEF IndInv
<1> QED BY SpecIndInv, <1>1, PTL

\* ParseWorker drains alone: whatever the order in which the game thread and
\* the workers take and give back bParseWorkerActive.
THEOREM SpecOneDrains == Spec => []OneDrains
<1>1. IndInv => OneDrains
  BY DEF IndInv
<1> QED BY SpecIndInv, <1>1, PTL

\* No wake-up is lost between HandleRawMessage and a worker that leaves.
THEOREM SpecRawIsWatched == Spec => []RawIsWatched
<1>1. IndInv => RawIsWatched
  BY DEF IndInv
<1> QED BY SpecIndInv, <1>1, PTL

\* No frame is lost, duplicated or reordered on its way from the socket through
\* both queues and the worker's hands to DispatchTick.
THEOREM SpecFramesKeepOrder == Spec => []FramesKeepOrder
<1>1. IndInv => FramesKeepOrder
  BY DEF IndInv
<1> QED BY SpecIndInv, <1>1, PTL
=============================================================================
