---------------------------- MODULE SessionProofs ----------------------------
(***************************************************************************)
(* Proofs about Session, for any number of connection attempts, launches,  *)
(* generations and frames between the socket and the delegates.            *)
(***************************************************************************)
EXTENDS Session, FiniteSetTheorems, TLAPS

(***************************************************************************)
(* The inductive invariant.                                                *)
(***************************************************************************)

\* A retry is only scheduled while attempts remain.
TickerHasAttempts == ReconnectTicker => ConnectAttemptsRemaining > 0

\* The children are launched in order: the first n have been.
LaunchOrder == \E n \in 0..MaxLaunches : \A q \in Pids : proc[q] = "none" <=> q > n

\* Of an editor that is gone nothing is left but its children; one that shut
\* down keeps what ShutdownModule leaves alone.
EditorGone ==
    /\ editor # "up" => conn = "none" /\ inbox = << >> /\ ~ReconnectTicker
    /\ editor = "killed" => ~panel.open /\ ActiveGenerationId = NoGen /\ ProcessHandle = NoProcess

\* Without a socket no generation is active: HandleClosed cuts it off.
ActiveNeedsSocket == editor = "up" /\ ~Connected => ActiveGenerationId = NoGen

\* No frame and no end knows a generation that has not been started.
OnlyStarted ==
    /\ server.gen <= started /\ ActiveGenerationId <= started
    /\ \A i \in 1..Len(inbox) : inbox[i].gen <= started

\* The last frame of the generation the server runs has not been sent.
RunningIsUnfinished ==
    server.gen # NoGen =>
        \A i \in 1..Len(inbox) :
            inbox[i].gen = server.gen => inbox[i].kind \notin {"complete", "error"}

IndInv ==
    /\ TypeOK /\ TickerHasAttempts /\ LaunchOrder /\ EditorGone
    /\ ActiveNeedsSocket /\ OnlyStarted /\ RunningIsUnfinished
    /\ NoLeakedChild /\ GeneratingHasGeneration /\ NeverWaitingForNothing /\ EndsAgree

-----------------------------------------------------------------------------
(* What the operators that the handlers share do.                          *)

\* The panel's handlers show one of its states, if it is open.
LEMMA ShowsFacts ==
  ASSUME NEW p \in Panels, NEW s \in PanelStates
  PROVE  /\ Shows(p, s) \in Panels
         /\ Shows(p, s).open = p.open
         /\ p.open => Shows(p, s).State = s
         /\ ~p.open => Shows(p, s) = p
  BY DEF Shows, Panels

\* What each handler makes of the panel.
LEMMA PanelFacts ==
  ASSUME NEW p \in Panels
  PROVE  /\ \A q \in {PanelClosed(p), PanelConnected(p), PanelConnectionError(p)} :
              q \in Panels /\ q.open = p.open
         /\ PanelClosed(p).open => PanelClosed(p).State \in {"Error", "Disconnected"}
         /\ PanelConnected(p).State = "Generating" => p.State = "Generating"
         /\ \/ PanelConnectionError(p) = p /\ IsConnectRetryPending
            \/ p.open => PanelConnectionError(p).State = "Error"
         /\ PanelConnectionError(p).State = "Generating" => p.State = "Generating"
<1> USE ShowsFacts DEF PanelStates
<1>1. PanelClosed(p) \in Panels /\ PanelClosed(p).open = p.open
  BY DEF PanelClosed
<1>2. PanelClosed(p).open => PanelClosed(p).State \in {"Error", "Disconnected"}
  BY DEF PanelClosed
<1>3. PanelConnected(p) \in Panels /\ PanelConnected(p).open = p.open
  BY DEF PanelConnected
<1>4. PanelConnected(p).State = "Generating" => p.State = "Generating"
  BY DEF PanelConnected
<1>5. PanelConnectionError(p) \in Panels /\ PanelConnectionError(p).open = p.open
  BY DEF PanelConnectionError
<1>6. /\ \/ PanelConnectionError(p) = p /\ IsConnectRetryPending
         \/ p.open => PanelConnectionError(p).State = "Error"
      /\ PanelConnectionError(p).State = "Generating" => p.State = "Generating"
  BY DEF PanelConnectionError
<1> QED BY <1>1, <1>2, <1>3, <1>4, <1>5, <1>6

\* What the sidecar manager's broadcasts make of the panel.
LEMMA PanelSidecarFacts ==
  ASSUME NEW p \in Panels, NEW s \in SidecarStates \cup {"Starting"}
  PROVE  /\ PanelSidecar(p, s) \in Panels /\ PanelSidecar(p, s).open = p.open
         /\ ~p.open => PanelSidecar(p, s) = p
         /\ s \in {"Dead", "BinaryMissing"} /\ p.open => PanelSidecar(p, s).State = "Error"
         /\ s = "Stopped" /\ p.open => PanelSidecar(p, s).State = "Disconnected"
         /\ s = "Starting" /\ p.open => PanelSidecar(p, s).State = "StartingSidecar"
         /\ s \in {"Running", "NotStarted"} => PanelSidecar(p, s) = p
  BY ShowsFacts DEF PanelSidecar, PanelStates, SidecarStates

\* What a frame makes of the panel.
LEMMA PanelFrameFacts ==
  ASSUME NEW p \in Panels, NEW f \in Frames
  PROVE  /\ PanelFrame(p, f) \in Panels /\ PanelFrame(p, f).open = p.open
         /\ \/ PanelFrame(p, f) = p
            \/ PanelFrame(p, f).State \in {"ConnectedIdle", "Error"}
         /\ p.open /\ f.kind \in {"complete", "error"}
              => PanelFrame(p, f).State \in {"ConnectedIdle", "Error"}
  BY ShowsFacts DEF PanelFrame, PanelStates, Frames

\* Launch ends with a child, perhaps dead already, or with the panel showing an
\* error.
LEMMA LaunchFacts ==
  ASSUME NEW p \in Panels, ProcessHandle \in Pids \cup {NoProcess},
         proc \in [Pids -> ProcessStates], Launch(p)
  PROVE  /\ State' \in SidecarStates
         /\ panel' \in Panels /\ panel'.open = p.open
         /\ p.open => panel'.State \in {"StartingSidecar", "Error"}
         /\ State' # "Running" /\ p.open => panel'.State = "Error"
         /\ \/ ProcessHandle' = NoProcess /\ UNCHANGED proc
            \/ \E pid \in Pids :
                 /\ \A q \in Pids : proc[q] = "none" <=> q >= pid
                 /\ ProcessHandle' = pid
                 /\ \E s \in {"started", "exited"} : proc' = [proc EXCEPT ![pid] = s]
<1> DEFINE st == PanelSidecar(p, "Starting")
<1>1. st \in Panels /\ st.open = p.open /\ (p.open => st.State = "StartingSidecar")
  BY PanelSidecarFacts
<1> HIDE DEF st
<1>2. ASSUME NEW s \in {"BinaryMissing", "Dead"}, State' = s, panel' = PanelSidecar(st, s)
      PROVE  /\ State' \in SidecarStates /\ State' # "Running"
             /\ panel' \in Panels /\ panel'.open = p.open
             /\ p.open => panel'.State = "Error"
  BY <1>1, <1>2, PanelSidecarFacts DEF SidecarStates
<1>3. ASSUME State' = "Running", panel' = PanelSidecar(st, "Running")
      PROVE  /\ State' \in SidecarStates
             /\ panel' \in Panels /\ panel'.open = p.open
             /\ p.open => panel'.State = "StartingSidecar"
  BY <1>1, <1>3, PanelSidecarFacts DEF SidecarStates
<1> QED BY <1>2, <1>3 DEF Launch, st

\* Retry sets the ticker only if an attempt remains; it leaves the panel as it
\* is, or launches.
LEMMA RetryFacts ==
  ASSUME NEW p \in Panels, TypeOK, Retry(p)
  PROVE  /\ State' \in SidecarStates /\ panel' \in Panels /\ panel'.open = p.open
         /\ ReconnectTicker' \in BOOLEAN
         /\ ReconnectTicker' => ReconnectTicker \/ ConnectAttemptsRemaining > 0
         /\ panel'.State = "Generating" /\ p.open => p.State = "Generating"
         /\ \/ /\ panel' = p /\ UNCHANGED <<State, ProcessHandle, proc>>
               /\ ConnectAttemptsRemaining = 0 \/ ReconnectTicker'
            \/ ReconnectTicker'
            \/ p.open => panel'.State = "Error"
            \/ DeathUnnoticed' /\ (p.open => panel'.State = "StartingSidecar")
         /\ \/ UNCHANGED <<ProcessHandle, proc>>
            \/ ProcessHandle' = NoProcess /\ UNCHANGED proc /\ ~IsRunning
            \/ /\ ~IsRunning
               /\ \E pid \in Pids :
                    /\ \A q \in Pids : proc[q] = "none" <=> q >= pid
                    /\ ProcessHandle' = pid
                    /\ \E s \in {"started", "exited"} : proc' = [proc EXCEPT ![pid] = s]
<1>0. /\ State \in SidecarStates /\ ReconnectTicker \in BOOLEAN
      /\ ConnectAttemptsRemaining \in 0..MaxConnectAttempts
      /\ ProcessHandle \in Pids \cup {NoProcess}
      /\ proc \in [Pids -> ProcessStates]
  BY DEF TypeOK
<1>1. CASE ConnectAttemptsRemaining = 0
  <2>1. UNCHANGED <<State, ProcessHandle, proc, ReconnectTicker>> /\ panel' = p
    BY <1>1 DEF Retry
  <2> QED BY <1>0, <1>1, <2>1
<1>2. CASE ConnectAttemptsRemaining > 0 /\ IsRunning
  <2>1. ReconnectTicker' = TRUE /\ panel' = p /\ UNCHANGED <<State, ProcessHandle, proc>>
    BY <1>2 DEF Retry
  <2> QED BY <1>0, <1>2, <2>1
<1>3. CASE ConnectAttemptsRemaining > 0 /\ ~IsRunning
  <2>1. Launch(p) /\ ReconnectTicker' = (ReconnectTicker \/ IsRunning')
    BY <1>3, SessionAssumption DEF Retry
  <2>2. CASE State' = "Running" /\ ~IsRunning'
    <3>1. DeathUnnoticed'
      BY <2>2 DEF DeathUnnoticed
    <3>2. ReconnectTicker' = ReconnectTicker
      BY <1>0, <2>1, <2>2
    <3> HIDE DEF DeathUnnoticed, IsRunning
    <3> QED BY <1>0, <1>3, <2>1, <3>1, <3>2, LaunchFacts
  <2>3. CASE State' = "Running" /\ IsRunning'
    <3>1. ReconnectTicker' = TRUE
      BY <2>1, <2>3
    <3> QED BY <1>0, <1>3, <2>1, <3>1, LaunchFacts
  <2>4. CASE State' # "Running"
    <3>1. ReconnectTicker' \in BOOLEAN
      BY <1>0, <2>1
    <3> QED BY <1>0, <1>3, <2>1, <2>4, <3>1, LaunchFacts
  <2> QED BY <2>2, <2>3, <2>4
<1> QED BY <1>0, <1>1, <1>2, <1>3, SessionAssumption

\* Launched counts the children, which are the first ones.
LEMMA LaunchedCounts ==
  ASSUME NEW n \in 0..MaxLaunches, \A q \in Pids : proc[q] = "none" <=> q > n
  PROVE  Launched = n
<1>1. {p \in Pids : proc[p] # "none"} = 1..n
  BY SessionAssumption DEF Pids
<1>2. Cardinality(1..n) = n
  BY FS_Interval, SessionAssumption
<1> QED BY <1>1, <1>2 DEF Launched

\* What the server's end may send is a frame of its generation, and what
\* follows it is a state of the server.
LEMMA NextFramesFacts ==
  ASSUME TypeOK, NEW k \in NextFrames
  PROVE  /\ Frame(k, server.gen) \in Frames
         /\ After(k) \in {"idle", "chunk", "complete"}
         /\ After(k) = "idle" <=> k \in {"complete", "error"}
  BY DEF TypeOK, NextFrames, Frame, Frames, After, ServerEnds

\* A request leaves the server and the frames in their types: it appends at
\* most one frame of the generation that ran, and then the server runs g.
LEMMA RequestFacts ==
  ASSUME TypeOK, NEW g \in Gens \cup {NoGen}, Request(g)
  PROVE  /\ server' \in ServerEnds
         /\ inbox' \in Seq(Frames) /\ Len(inbox') <= MaxInbox
         /\ \/ server.next = "gone" /\ server' = server
            \/ server.next # "gone" /\ server'.gen = g
         /\ \/ inbox' = inbox
            \/ \E f \in Frames : f.gen = server.gen /\ inbox' = Append(inbox, f)
<1>0. inbox \in Seq(Frames) /\ Len(inbox) <= MaxInbox /\ MaxInbox \in Nat
  BY SessionAssumption DEF TypeOK
<1>1. /\ server' \in ServerEnds
      /\ \/ server.next = "gone" /\ server' = server
         \/ server.next # "gone" /\ server'.gen = g
  BY DEF TypeOK, Request, Idle, NoGen, ServerEnds
<1>2. CASE inbox' = inbox
  BY <1>0, <1>1, <1>2
<1>3. ASSUME NEW k \in NextFrames, Len(inbox) < MaxInbox,
             inbox' = Append(inbox, Frame(k, server.gen))
      PROVE  /\ inbox' \in Seq(Frames) /\ Len(inbox') <= MaxInbox
             /\ \E f \in Frames : f.gen = server.gen /\ inbox' = Append(inbox, f)
  <2>1. Frame(k, server.gen) \in Frames /\ Frame(k, server.gen).gen = server.gen
    BY NextFramesFacts DEF Frame
  <2> QED BY <1>0, <1>3, <2>1
<1> QED BY <1>1, <1>2, <1>3 DEF Request

-----------------------------------------------------------------------------
(* Type correctness.                                                       *)

\* The values that the handlers assign have their types.
LEMMA ValueTypes ==
  /\ Idle \in ServerEnds
  /\ \A e \in ServerEnds, n \in {"gone", "idle", "plan"} : [e EXCEPT !.next = n] \in ServerEnds
  /\ ClosedPanel \in Panels
  /\ \A s \in {"NotStarted", "Dead", "Stopped"} : s \in SidecarStates
  /\ \A s \in {"started", "orphan", "watching", "exited"} : s \in ProcessStates
  BY DEF Idle, ServerEnds, ClosedPanel, Panels, PanelStates, SidecarStates, ProcessStates

\* Every step keeps every variable in its type, the attempts included.
LEMMA StepTypeOK == IndInv /\ [Next]_vars => TypeOK' /\ TickerHasAttempts'
<1> SUFFICES ASSUME IndInv, [Next]_vars PROVE TypeOK' /\ TickerHasAttempts'
  OBVIOUS
<1>0. TypeOK /\ TickerHasAttempts /\ LaunchOrder
  BY DEF IndInv
<1>a. panel \in Panels /\ State \in SidecarStates
  BY <1>0 DEF TypeOK
<1> USE SessionAssumption
<1> USE ValueTypes DEF procVars, moduleVars, netVars, TickerHasAttempts
\* Connecting leaves the attempts in their range; one remains after the first.
<1>c. ASSUME EnsureBackend, UNCHANGED ReconnectTicker
      PROVE  /\ conn' \in {"none", "connecting", "connected"}
             /\ server' \in ServerEnds
             /\ ConnectAttemptsRemaining' \in 0..MaxConnectAttempts
             /\ TickerHasAttempts'
  <2>1. CASE Connected
    BY <1>0, <1>c, <2>1 DEF EnsureBackend, TypeOK
  <2>2. CASE ~Connected
    BY <1>0, <1>c, <2>2 DEF EnsureBackend, TryConnect, TypeOK
  <2> QED BY <2>1, <2>2
<1>1. CASE OpenPanel
  <2>1. panel' \in Panels
    BY <1>1 DEF OpenPanel, ClosedPanel, Panels, PanelStates
  <2> QED BY <1>0, <1>1, <1>c, <2>1 DEF OpenPanel, TypeOK
<1>2. CASE ClosePanel
  BY <1>0, <1>2 DEF ClosePanel, TypeOK
<1>3. CASE ClickGenerate
  <2>1. panel' \in Panels
    BY <1>3, <1>a, ShowsFacts DEF ClickGenerate, PanelStates
  <2>2. CASE Connected
    <3>1. started + 1 \in Gens \cup {NoGen} /\ started + 1 \in 0..MaxGens
      BY <1>0, <1>3 DEF ClickGenerate, TypeOK, Gens
    <3>2. Request(started + 1)
      BY <1>3, <2>2 DEF ClickGenerate, StartGeneration
    <3> QED BY <1>0, <1>3, <2>1, <2>2, <3>1, <3>2, RequestFacts
            DEF ClickGenerate, StartGeneration, TypeOK
  <2>3. CASE ~Connected
    BY <1>0, <1>3, <2>1, <2>3 DEF ClickGenerate, StartGeneration, TypeOK
  <2> QED BY <2>2, <2>3
<1>4. CASE ClickCancel
  <2>1. panel' \in Panels
    BY <1>4, <1>a, ShowsFacts DEF ClickCancel, PanelStates
  <2>2. /\ server' \in ServerEnds
        /\ inbox' \in Seq(Frames) /\ Len(inbox') <= MaxInbox
    <3>1. CASE Request(NoGen)
      BY <1>0, <3>1, RequestFacts
    <3>2. CASE UNCHANGED <<inbox, server>>
      BY <1>0, <3>2 DEF TypeOK
    <3> QED BY <1>4, <3>1, <3>2 DEF ClickCancel, CancelActiveGeneration
  <2> QED BY <1>0, <1>4, <2>1, <2>2 DEF ClickCancel, CancelActiveGeneration, TypeOK
<1>5. CASE ClickReconnect
  <2>1. panel' \in Panels
    BY <1>5, <1>a, ShowsFacts DEF ClickReconnect, PanelStates
  <2> QED BY <1>0, <1>5, <1>c, <2>1 DEF ClickReconnect, TypeOK
<1>6. CASE ShutdownModule
  <2>1. panel' \in Panels /\ State' \in SidecarStates
    BY <1>6, <1>a, PanelSidecarFacts DEF ShutdownModule, Terminate, SidecarStates
  <2>2. /\ proc' \in [Pids -> ProcessStates]
        /\ port' \in {Free, External} \cup Pids /\ ProcessHandle' \in Pids \cup {NoProcess}
        /\ UNCHANGED <<manifestEmpty, old>>
    BY <1>0, <1>6 DEF ShutdownModule, Terminate, TypeOK
  <2>3. inbox' \in Seq(Frames) /\ Len(inbox') <= MaxInbox
    BY <1>6 DEF ShutdownModule
  <2> QED BY <1>0, <1>6, <2>1, <2>2, <2>3 DEF ShutdownModule, TypeOK
<1>7. CASE EditorKilled
  <2>1. old' \in 0..MaxLaunches
    BY <1>0, <1>7, LaunchedCounts DEF EditorKilled, LaunchOrder
  <2>2. inbox' \in Seq(Frames) /\ Len(inbox') <= MaxInbox
    BY <1>7 DEF EditorKilled
  <2>3. State' \in SidecarStates /\ panel' \in Panels /\ server' \in ServerEnds
    BY <1>7 DEF EditorKilled
  <2>4. /\ UNCHANGED <<manifestEmpty, proc, port, started>>
        /\ editor' = "killed" /\ ProcessHandle' = NoProcess /\ conn' = "none"
        /\ ConnectAttemptsRemaining' = 0 /\ ReconnectTicker' = FALSE /\ ActiveGenerationId' = NoGen
    BY <1>7 DEF EditorKilled
  <2>5. ConnectAttemptsRemaining' \in 0..MaxConnectAttempts /\ TickerHasAttempts'
    BY <2>4
  <2> QED BY <1>0, <2>1, <2>2, <2>3, <2>4, <2>5, Zenon DEF TypeOK
<1>8. CASE StartEditor
  BY <1>0, <1>8 DEF StartEditor, TypeOK
<1>9. CASE TickReconnect
  <2>1. CASE Connected
    BY <1>0, <1>9, <2>1 DEF TickReconnect, TryConnect, TypeOK
  <2>2. CASE ~Connected
    <3>1. ConnectAttemptsRemaining' \in 0..MaxConnectAttempts
      BY <1>0, <1>9, <2>2 DEF TickReconnect, TryConnect, TypeOK
    <3> QED BY <1>0, <1>9, <2>2, <3>1 DEF TickReconnect, TryConnect, TypeOK
  <2> QED BY <2>1, <2>2
<1>10. CASE WatchdogTick
  <2>1. panel' \in Panels
    BY <1>10, <1>a, PanelSidecarFacts DEF WatchdogTick, SidecarStates
  <2> QED BY <1>0, <1>10, <2>1 DEF WatchdogTick, TypeOK
<1>11. CASE DispatchFrame
  <2>1. Head(inbox) \in Frames /\ Tail(inbox) \in Seq(Frames) /\ Len(Tail(inbox)) <= MaxInbox
    BY <1>0, <1>11 DEF DispatchFrame, TypeOK
  <2>2. panel' \in Panels
    BY <1>11, <1>a, <2>1, PanelFrameFacts DEF DispatchFrame
  <2> QED BY <1>0, <1>11, <2>1, <2>2 DEF DispatchFrame, ModuleFrame, TypeOK
<1>12. CASE HandleConnected
  <2>1. panel' \in Panels
    BY <1>12, <1>a, PanelFacts DEF HandleConnected
  <2>2. server' \in ServerEnds
    BY <1>12 DEF HandleConnected, ServerEnds
  <2> QED BY <1>0, <1>12, <2>1, <2>2 DEF HandleConnected, TypeOK
<1>13. CASE HandleConnectionError
  <2>1. PanelConnectionError(panel) \in Panels
    BY <1>a, PanelFacts
  <2>2. Retry(PanelConnectionError(panel))
    BY <1>13 DEF HandleConnectionError
  <2>3. /\ State' \in SidecarStates /\ panel' \in Panels /\ ReconnectTicker' \in BOOLEAN
        /\ ReconnectTicker' => ReconnectTicker \/ ConnectAttemptsRemaining > 0
    BY <1>0, <2>1, <2>2, RetryFacts
  <2>4. /\ proc' \in [Pids -> ProcessStates]
        /\ ProcessHandle' \in Pids \cup {NoProcess}
    BY <1>0, <2>1, <2>2, RetryFacts DEF TypeOK
  <2> QED BY <1>0, <1>13, <2>3, <2>4 DEF HandleConnectionError, TypeOK
<1>14. CASE HandleClosed
  <2>1. panel' \in Panels
    BY <1>14, <1>a, PanelFacts DEF HandleClosed
  <2> QED BY <1>0, <1>14, <2>1 DEF HandleClosed, TypeOK
<1>15. CASE Handshake
  <2>1. /\ inbox' \in Seq(Frames) /\ Len(inbox') <= MaxInbox
        /\ server' \in ServerEnds
    <3>1. CASE manifestEmpty
      <4>1. Frame("error", NoGen) \in Frames
        BY DEF Frame, Frames
      <4>2. Len(inbox) < MaxInbox /\ inbox' = Append(inbox, Frame("error", NoGen))
        BY <1>15, <3>1 DEF Handshake
      <4>3. inbox' \in Seq(Frames) /\ Len(inbox') <= MaxInbox
        BY <1>0, <4>1, <4>2 DEF TypeOK
      <4> QED BY <1>0, <1>15, <3>1, <4>3 DEF Handshake, TypeOK
    <3>2. CASE ~manifestEmpty
      BY <1>0, <1>15, <3>2 DEF Handshake, TypeOK
    <3> QED BY <3>1, <3>2
  <2> QED BY <1>0, <1>15, <2>1 DEF Handshake, TypeOK
<1>16. CASE ServerSends
  <2>1. PICK k \in NextFrames :
          /\ inbox' = Append(inbox, Frame(k, server.gen))
          /\ server' = [gen |-> IF After(k) = "idle" THEN NoGen ELSE server.gen, next |-> After(k)]
    BY <1>16 DEF ServerSends
  <2>2. /\ Frame(k, server.gen) \in Frames
        /\ After(k) \in {"idle", "chunk", "complete"}
    BY <1>0, NextFramesFacts
  <2>3. inbox' \in Seq(Frames) /\ Len(inbox') <= MaxInbox
    BY <1>0, <1>16, <2>1, <2>2 DEF ServerSends, TypeOK
  <2>4. server' \in ServerEnds
    BY <1>0, <2>1, <2>2 DEF TypeOK, ServerEnds
  <2> QED BY <1>0, <1>16, <2>3, <2>4 DEF ServerSends, TypeOK
<1>17. ASSUME NEW p \in Pids, ProcessStep(p) \/ Crash(p) PROVE TypeOK' /\ TickerHasAttempts'
  <2>1. CASE ReadParent(p)
    BY <1>0, <2>1 DEF ReadParent, TypeOK
  <2>2. CASE ParentWatchdog(p)
    BY <1>0, <2>2 DEF ParentWatchdog, Exited, TypeOK
  <2>3. CASE Listen(p)
    BY <1>0, <2>3 DEF Listen, Exited, TypeOK
  <2>4. CASE Crash(p)
    BY <1>0, <2>4 DEF Crash, Exited, TypeOK
  <2> QED BY <1>17, <2>1, <2>2, <2>3, <2>4 DEF ProcessStep
<1>18. CASE ExternalServer
  BY <1>0, <1>18 DEF ExternalServer, TypeOK
<1>19. CASE UNCHANGED vars
  BY <1>0, <1>19 DEF vars, TypeOK
<1> QED
  BY <1>1, <1>2, <1>3, <1>4, <1>5, <1>6, <1>7, <1>8, <1>9, <1>10, <1>11, <1>12, <1>13,
     <1>14, <1>15, <1>16, <1>17, <1>18, <1>19 DEF Next, User

-----------------------------------------------------------------------------
(* The child processes.                                                    *)

\* A step of a process leaves alone which children there are and who holds
\* them; it revives none.
LEMMA ProcessFacts ==
  ASSUME TypeOK, NEW p \in Pids, ProcessStep(p) \/ Crash(p)
  PROVE  /\ UNCHANGED <<editor, old, ProcessHandle>>
         /\ \A q \in Pids : proc'[q] = "none" <=> proc[q] = "none"
         /\ Alive' \subseteq Alive
<1> USE DEF TypeOK, Alive
<1>1. CASE ReadParent(p)
  BY <1>1 DEF ReadParent
<1>2. CASE ParentWatchdog(p)
  BY <1>2 DEF ParentWatchdog, Exited
<1>3. CASE Listen(p)
  BY <1>3 DEF Listen, Exited
<1>4. CASE Crash(p)
  BY <1>4 DEF Crash, Exited
<1> QED BY <1>1, <1>2, <1>3, <1>4 DEF ProcessStep

\* Every step keeps the order of the launches.
LEMMA StepLaunchOrder == TypeOK /\ LaunchOrder /\ [Next]_vars => LaunchOrder'
<1> SUFFICES ASSUME TypeOK, LaunchOrder, [Next]_vars PROVE LaunchOrder'
  OBVIOUS
<1>0. PICK n \in 0..MaxLaunches : \A q \in Pids : proc[q] = "none" <=> q > n
  BY DEF LaunchOrder
<1>1. ASSUME \A q \in Pids : proc'[q] = "none" <=> proc[q] = "none" PROVE LaunchOrder'
  BY <1>0, <1>1 DEF LaunchOrder
<1>2. CASE UNCHANGED proc
  BY <1>1, <1>2
<1>3. ASSUME NEW p \in Pids, ProcessStep(p) \/ Crash(p) PROVE LaunchOrder'
  BY <1>1, <1>3, ProcessFacts
<1>4. CASE ShutdownModule
  <2>1. \A q \in Pids : proc'[q] = "none" <=> proc[q] = "none"
    BY <1>4 DEF ShutdownModule, Terminate, procVars, TypeOK, IsRunning, Alive
  <2> QED BY <1>1, <2>1
<1>5. CASE HandleConnectionError
  <2>1. PanelConnectionError(panel) \in Panels /\ Retry(PanelConnectionError(panel))
    BY <1>5, PanelFacts DEF HandleConnectionError, TypeOK
  <2>2. ASSUME NEW pid \in Pids, \A q \in Pids : proc[q] = "none" <=> q >= pid,
               NEW s \in {"started", "exited"}, proc' = [proc EXCEPT ![pid] = s]
        PROVE  LaunchOrder'
    <3>1. \A q \in Pids : proc'[q] = "none" <=> q > pid
      BY <2>2, SessionAssumption DEF TypeOK, Pids
    <3>2. pid \in 0..MaxLaunches
      BY SessionAssumption DEF Pids
    <3> QED BY <3>1, <3>2 DEF LaunchOrder
  <2> QED BY <1>2, <2>1, <2>2, RetryFacts
<1> QED
  BY <1>2, <1>3, <1>4, <1>5
  DEF Next, User, OpenPanel, ClosePanel, ClickGenerate, ClickCancel, ClickReconnect,
      EditorKilled, StartEditor, TickReconnect, WatchdogTick, DispatchFrame, HandleConnected,
      HandleClosed, Handshake, ServerSends, ExternalServer, vars, procVars

\* Every step leaves the manager holding the only live child of its editor.
LEMMA StepNoLeakedChild ==
  TypeOK /\ LaunchOrder /\ NoLeakedChild /\ [Next]_vars => NoLeakedChild'
<1> SUFFICES ASSUME TypeOK, LaunchOrder, NoLeakedChild, [Next]_vars PROVE NoLeakedChild'
  OBVIOUS
<1> USE DEF NoLeakedChild
<1>0. /\ Alive \subseteq Pids /\ NoProcess \notin Pids
      /\ proc \in [Pids -> ProcessStates] /\ ProcessHandle \in Pids \cup {NoProcess}
  BY DEF Alive, Pids, NoProcess, TypeOK
<1>1. ASSUME UNCHANGED <<proc, ProcessHandle, old>>, editor' # "shutdown" \/ UNCHANGED editor
      PROVE  NoLeakedChild'
  BY <1>1 DEF Alive
<1>2. ASSUME NEW p \in Pids, ProcessStep(p) \/ Crash(p) PROVE NoLeakedChild'
  BY <1>2, ProcessFacts
<1>3. CASE ShutdownModule
  <2>1. Alive' = Alive \ {ProcessHandle} /\ UNCHANGED old
    BY <1>0, <1>3 DEF ShutdownModule, Terminate, procVars, IsRunning, Alive
  <2>2. \A p \in Alive' : ~(p > old)
    BY <2>1
  <2>3. \A p \in Alive' : p \in Int /\ old \in Int
    BY <1>0, <2>1, SessionAssumption DEF Pids, TypeOK
  <2> QED BY <2>1, <2>2, <2>3
<1>4. CASE EditorKilled
  <2>1. PICK n \in 0..MaxLaunches : \A q \in Pids : proc[q] = "none" <=> q > n
    BY DEF LaunchOrder
  <2>2. old' = n /\ Alive' = Alive /\ editor' = "killed"
    BY <1>4, <2>1, LaunchedCounts DEF EditorKilled, Alive
  <2>3. \A p \in Alive : ~(p > n)
    BY <2>1 DEF Alive
  <2> QED BY <2>2, <2>3
<1>5. CASE HandleConnectionError
  <2>1. PanelConnectionError(panel) \in Panels /\ Retry(PanelConnectionError(panel))
    BY <1>5, PanelFacts DEF HandleConnectionError, TypeOK
  <2>2. UNCHANGED <<editor, old>> /\ editor = "up"
    BY <1>5 DEF HandleConnectionError
  <2>3. CASE UNCHANGED <<ProcessHandle, proc>>
    BY <1>1, <2>2, <2>3
  <2>4. CASE ProcessHandle' = NoProcess /\ UNCHANGED proc /\ ~IsRunning
    BY <2>2, <2>4 DEF Alive, IsRunning
  <2>5. ASSUME NEW pid \in Pids, ~IsRunning, ProcessHandle' = pid,
               NEW s \in {"started", "exited"}, proc' = [proc EXCEPT ![pid] = s]
        PROVE  NoLeakedChild'
    <3>1. Alive' \subseteq Alive \cup {pid}
      BY <1>0, <2>5 DEF Alive
    <3> QED BY <2>2, <2>5, <3>1 DEF IsRunning
  <2> QED BY <2>1, <2>3, <2>4, <2>5, RetryFacts
<1> QED
  BY <1>1, <1>2, <1>3, <1>4, <1>5
  DEF Next, User, OpenPanel, ClosePanel, ClickGenerate, ClickCancel, ClickReconnect,
      StartEditor, TickReconnect, WatchdogTick, DispatchFrame, HandleConnected,
      HandleClosed, Handshake, ServerSends, ExternalServer, vars, procVars

-----------------------------------------------------------------------------
(* The panel.                                                              *)

\* Every step keeps what an editor that is gone leaves, and that only a
\* connected editor has an active generation.
LEMMA StepEditorGone ==
  TypeOK /\ EditorGone /\ ActiveNeedsSocket /\ [Next]_vars => EditorGone' /\ ActiveNeedsSocket'
<1> SUFFICES ASSUME TypeOK, EditorGone, ActiveNeedsSocket, [Next]_vars
             PROVE  EditorGone' /\ ActiveNeedsSocket'
  OBVIOUS
<1> USE DEF EditorGone, ActiveNeedsSocket, Connected, netVars, moduleVars, procVars
<1>1. CASE OpenPanel
  BY <1>1 DEF OpenPanel, EnsureBackend, TryConnect
<1>2. CASE ClosePanel
  BY <1>2 DEF ClosePanel
<1>3. CASE ClickGenerate
  BY <1>3 DEF ClickGenerate, StartGeneration
<1>4. CASE ClickCancel
  BY <1>4 DEF ClickCancel, CancelActiveGeneration
<1>5. CASE ClickReconnect
  BY <1>5 DEF ClickReconnect, EnsureBackend, TryConnect
<1>6. CASE ShutdownModule
  BY <1>6 DEF ShutdownModule
<1>7. CASE EditorKilled
  BY <1>7 DEF EditorKilled, ClosedPanel
<1>8. CASE StartEditor
  BY <1>8 DEF StartEditor
<1>9. CASE TickReconnect
  BY <1>9 DEF TickReconnect, TryConnect
<1>10. CASE WatchdogTick
  BY <1>10 DEF WatchdogTick
<1>11. CASE DispatchFrame
  BY <1>11 DEF DispatchFrame, ModuleFrame
<1>12. CASE HandleConnected
  BY <1>12 DEF HandleConnected
<1>13. CASE HandleConnectionError
  BY <1>13 DEF HandleConnectionError
<1>14. CASE HandleClosed
  BY <1>14 DEF HandleClosed
<1>15. CASE Handshake
  BY <1>15 DEF Handshake
<1>16. CASE ServerSends
  BY <1>16 DEF ServerSends
<1>17. ASSUME NEW p \in Pids, ProcessStep(p) \/ Crash(p) PROVE EditorGone' /\ ActiveNeedsSocket'
  BY <1>17 DEF ProcessStep, ReadParent, ParentWatchdog, Listen, Crash
<1>18. CASE ExternalServer
  BY <1>18 DEF ExternalServer
<1>19. CASE UNCHANGED vars
  BY <1>19 DEF vars
<1> QED
  BY <1>1, <1>2, <1>3, <1>4, <1>5, <1>6, <1>7, <1>8, <1>9, <1>10, <1>11, <1>12, <1>13,
     <1>14, <1>15, <1>16, <1>17, <1>18, <1>19 DEF Next, User

\* Every step keeps the panel from waiting for nothing: a failed attempt is
\* retried, shown or left to the watchdog, a closed socket is shown.
LEMMA StepNeverWaitingForNothing == IndInv /\ [Next]_vars => NeverWaitingForNothing'
<1> SUFFICES ASSUME IndInv, [Next]_vars PROVE NeverWaitingForNothing'
  OBVIOUS
<1>0. TypeOK /\ TickerHasAttempts /\ EditorGone /\ NeverWaitingForNothing /\ panel \in Panels
  BY DEF IndInv, TypeOK
<1> USE DEF NeverWaitingForNothing, Connected, netVars, moduleVars, procVars
<1>a. ASSUME UNCHANGED <<State, ProcessHandle, proc>> PROVE DeathUnnoticed => DeathUnnoticed'
  BY <1>a DEF DeathUnnoticed, IsRunning, Alive
<1>1. CASE OpenPanel
  BY <1>1 DEF OpenPanel, EnsureBackend, TryConnect
<1>2. CASE ClosePanel
  BY <1>2 DEF ClosePanel, ClosedPanel
<1>3. CASE ClickGenerate
  BY <1>0, <1>3, ShowsFacts DEF ClickGenerate, PanelStates
<1>4. CASE ClickCancel
  BY <1>0, <1>4, ShowsFacts DEF ClickCancel, PanelStates
<1>5. CASE ClickReconnect
  BY <1>5 DEF ClickReconnect, EnsureBackend, TryConnect
<1>6. CASE ShutdownModule
  BY <1>6 DEF ShutdownModule
<1>7. CASE EditorKilled
  BY <1>7 DEF EditorKilled
<1>8. CASE StartEditor
  BY <1>0, <1>8 DEF StartEditor, EditorGone
<1>9. CASE TickReconnect
  BY <1>9 DEF TickReconnect, TryConnect
<1>10. CASE WatchdogTick
  BY <1>0, <1>10, PanelSidecarFacts DEF WatchdogTick, SidecarStates
<1>11. CASE DispatchFrame
  <2>1. Head(inbox) \in Frames
    BY <1>0, <1>11 DEF DispatchFrame, TypeOK
  <2>2. DeathUnnoticed => DeathUnnoticed'
    BY <1>11, <1>a DEF DispatchFrame
  <2> QED BY <1>0, <1>11, <2>1, <2>2, PanelFrameFacts DEF DispatchFrame
<1>12. CASE HandleConnected
  BY <1>12 DEF HandleConnected
<1>13. CASE HandleConnectionError
  <2> DEFINE q == PanelConnectionError(panel)
  <2>1. /\ q \in Panels /\ q.open = panel.open
        /\ \/ q = panel /\ IsConnectRetryPending
           \/ q.open => q.State = "Error"
    BY <1>0, PanelFacts
  <2>2. Retry(q)
    BY <1>13 DEF HandleConnectionError
  <2> HIDE DEF q
  <2>3. IsConnectRetryPending => ConnectAttemptsRemaining # 0
    BY <1>0 DEF IsConnectRetryPending, TickerHasAttempts, TypeOK
  <2>4. CASE panel' = q /\ (ConnectAttemptsRemaining = 0 \/ ReconnectTicker')
    BY <2>1, <2>3, <2>4
  <2>5. CASE ReconnectTicker'
    BY <2>5
  <2>6. CASE q.open => panel'.State = "Error"
    <3>1. panel'.open = q.open
      BY <1>0, <2>1, <2>2, RetryFacts
    <3> QED BY <2>6, <3>1
  <2> QED BY <1>0, <2>1, <2>2, <2>4, <2>5, <2>6, RetryFacts
<1>14. CASE HandleClosed
  BY <1>0, <1>14, PanelFacts DEF HandleClosed
<1>15. CASE Handshake
  BY <1>0, <1>15, <1>a DEF Handshake
<1>16. CASE ServerSends
  BY <1>0, <1>16, <1>a DEF ServerSends
<1>17. ASSUME NEW p \in Pids, ProcessStep(p) \/ Crash(p) PROVE NeverWaitingForNothing'
  <2>1. UNCHANGED <<editor, State, conn, ReconnectTicker, panel>>
    BY <1>17 DEF ProcessStep, ReadParent, ParentWatchdog, Listen, Crash
  <2>2. DeathUnnoticed => DeathUnnoticed'
    BY <1>0, <1>17, <2>1, ProcessFacts DEF DeathUnnoticed, IsRunning
  <2> QED BY <1>0, <2>1, <2>2
<1>18. CASE ExternalServer
  BY <1>0, <1>18, <1>a DEF ExternalServer
<1>19. CASE UNCHANGED vars
  BY <1>0, <1>19, <1>a DEF vars
<1> QED
  BY <1>1, <1>2, <1>3, <1>4, <1>5, <1>6, <1>7, <1>8, <1>9, <1>10, <1>11, <1>12, <1>13,
     <1>14, <1>15, <1>16, <1>17, <1>18, <1>19 DEF Next, User

\* Every step that ends the active generation also takes the panel out of
\* Generating, and the panel only enters it with a generation.
LEMMA StepGeneratingHasGeneration ==
  TypeOK /\ GeneratingHasGeneration /\ [Next]_vars => GeneratingHasGeneration'
<1> SUFFICES ASSUME TypeOK, GeneratingHasGeneration, [Next]_vars PROVE GeneratingHasGeneration'
  OBVIOUS
<1>0. panel \in Panels
  BY DEF TypeOK
<1> USE DEF GeneratingHasGeneration, netVars, moduleVars, procVars
<1>1. CASE OpenPanel
  BY <1>1 DEF OpenPanel, ClosedPanel
<1>2. CASE ClosePanel
  BY <1>2 DEF ClosePanel, ClosedPanel
<1>3. CASE ClickGenerate
  <2>1. CASE Connected
    <3>1. ActiveGenerationId' = started + 1 /\ started \in Nat
      BY <1>3, <2>1 DEF ClickGenerate, StartGeneration, TypeOK
    <3> QED BY <3>1 DEF NoGen
  <2>2. CASE ~Connected
    BY <1>0, <1>3, <2>2, ShowsFacts DEF ClickGenerate, PanelStates
  <2> QED BY <2>1, <2>2
<1>4. CASE ClickCancel
  BY <1>0, <1>4, ShowsFacts DEF ClickCancel, PanelStates
<1>5. CASE ClickReconnect
  BY <1>0, <1>5, ShowsFacts DEF ClickReconnect, PanelStates
<1>6. CASE ShutdownModule
  BY <1>0, <1>6, PanelSidecarFacts DEF ShutdownModule, Terminate, SidecarStates
<1>7. CASE EditorKilled
  BY <1>7 DEF EditorKilled, ClosedPanel
<1>8. CASE StartEditor
  BY <1>8 DEF StartEditor
<1>9. CASE TickReconnect
  BY <1>9 DEF TickReconnect
<1>10. CASE WatchdogTick
  BY <1>0, <1>10, PanelSidecarFacts DEF WatchdogTick, SidecarStates
<1>11. CASE DispatchFrame
  <2>1. Head(inbox) \in Frames
    BY <1>11 DEF DispatchFrame, TypeOK
  <2>2. CASE Head(inbox).kind \in {"complete", "error"}
    BY <1>0, <1>11, <2>1, <2>2, PanelFrameFacts DEF DispatchFrame
  <2>3. CASE Head(inbox).kind \notin {"complete", "error"}
    <3>1. UNCHANGED ActiveGenerationId
      BY <1>11, <2>3 DEF DispatchFrame, ModuleFrame
    <3> QED BY <1>0, <1>11, <2>1, <3>1, PanelFrameFacts DEF DispatchFrame
  <2> QED BY <2>2, <2>3
<1>12. CASE HandleConnected
  BY <1>0, <1>12, PanelFacts DEF HandleConnected
<1>13. CASE HandleConnectionError
  <2>1. /\ PanelConnectionError(panel) \in Panels
        /\ PanelConnectionError(panel).open = panel.open
        /\ PanelConnectionError(panel).State = "Generating" => panel.State = "Generating"
    BY <1>0, PanelFacts
  <2>2. Retry(PanelConnectionError(panel)) /\ UNCHANGED ActiveGenerationId
    BY <1>13 DEF HandleConnectionError
  <2> QED BY <2>1, <2>2, RetryFacts
<1>14. CASE HandleClosed
  BY <1>0, <1>14, PanelFacts DEF HandleClosed
<1>15. CASE Handshake
  BY <1>15 DEF Handshake
<1>16. CASE ServerSends
  BY <1>16 DEF ServerSends
<1>17. ASSUME NEW p \in Pids, ProcessStep(p) \/ Crash(p) PROVE GeneratingHasGeneration'
  BY <1>17 DEF ProcessStep, ReadParent, ParentWatchdog, Listen, Crash
<1>18. CASE ExternalServer
  BY <1>18 DEF ExternalServer
<1>19. CASE UNCHANGED vars
  BY <1>19 DEF vars
<1> QED
  BY <1>1, <1>2, <1>3, <1>4, <1>5, <1>6, <1>7, <1>8, <1>9, <1>10, <1>11, <1>12, <1>13,
     <1>14, <1>15, <1>16, <1>17, <1>18, <1>19 DEF Next, User

-----------------------------------------------------------------------------
(* The two ends of the connection.                                         *)

Streams == OnlyStarted /\ RunningIsUnfinished /\ EndsAgree

\* What appending and taking a frame does to the positions of the others.
LEMMA AppendFacts ==
  ASSUME NEW q \in Seq(Frames), NEW f \in Frames
  PROVE  /\ Len(Append(q, f)) = Len(q) + 1 /\ Len(q) \in Nat
         /\ Append(q, f)[Len(q) + 1] = f
         /\ \A i \in 1..Len(q) : Append(q, f)[i] = q[i]
  OBVIOUS

\* What the tail of a sequence of frames holds.
LEMMA TailFacts ==
  ASSUME NEW q \in Seq(Frames), q # << >>
  PROVE  /\ Head(q) = q[1] /\ Len(Tail(q)) = Len(q) - 1 /\ Len(q) \in Nat /\ Len(q) > 0
         /\ \A i \in 1..(Len(q) - 1) : Tail(q)[i] = q[i + 1]
  OBVIOUS

\* The request for a new generation ends what the server ran: the new one is
\* later than every frame, and is the active one.
LEMMA GenerateKeepsStreams ==
  ASSUME TypeOK, Streams, Connected, Request(started + 1), started + 1 \in Gens,
         started' = started + 1, ActiveGenerationId' = started + 1, conn' = conn
  PROVE  Streams'
<1>0. /\ inbox \in Seq(Frames) /\ started \in Nat /\ server \in ServerEnds
      /\ \A i \in 1..Len(inbox) : inbox[i] \in Frames
  BY DEF TypeOK
<1>1. /\ \/ server.next = "gone" /\ server' = server
         \/ server.next # "gone" /\ server'.gen = started + 1
      /\ \/ inbox' = inbox
         \/ \E f \in Frames : f.gen = server.gen /\ inbox' = Append(inbox, f)
  BY RequestFacts
<1>2. server.gen \in Int /\ \A i \in 1..Len(inbox) : inbox[i].gen \in Int
  BY <1>0, SessionAssumption DEF Frames, ServerEnds, Gens, NoGen
<1>3. \A i \in 1..Len(inbox') : inbox'[i].gen <= started /\ inbox'[i].gen \in Int
  <2>1. CASE inbox' = inbox
    BY <1>2, <2>1 DEF Streams, OnlyStarted
  <2>2. ASSUME NEW f \in Frames, f.gen = server.gen, inbox' = Append(inbox, f)
        PROVE  \A i \in 1..Len(inbox') : inbox'[i].gen <= started /\ inbox'[i].gen \in Int
    BY <1>0, <1>2, <2>2, AppendFacts DEF Streams, OnlyStarted
  <2> QED BY <1>1, <2>1, <2>2
<1>4. CASE server.next = "gone" /\ server' = server /\ inbox' = inbox
  <2>1. OnlyStarted' /\ EndsAgree'
    BY <1>0, <1>2, <1>3, <1>4 DEF Streams, OnlyStarted, EndsAgree
  <2>2. RunningIsUnfinished'
    BY <1>4 DEF Streams, RunningIsUnfinished
  <2> QED BY <2>1, <2>2 DEF Streams
<1>5. CASE server.next # "gone" /\ server'.gen = started + 1
  <2>1. OnlyStarted'
    BY <1>0, <1>3, <1>5 DEF OnlyStarted
  <2>2. RunningIsUnfinished'
    BY <1>0, <1>3, <1>5 DEF RunningIsUnfinished
  <2>3. EndsAgree'
    BY <1>5 DEF EndsAgree
  <2> QED BY <2>1, <2>2, <2>3 DEF Streams
<1>6. server.next = "gone" => inbox' = inbox
  BY DEF Request, NextFrames
<1> QED BY <1>1, <1>4, <1>5, <1>6

\* The cancel of the running generation leaves neither end with one.
LEMMA CancelKeepsStreams ==
  ASSUME TypeOK, Streams, Request(NoGen), ActiveGenerationId' = NoGen,
         started' = started, conn' = conn
  PROVE  Streams'
<1>0. /\ inbox \in Seq(Frames) /\ started \in Nat /\ server \in ServerEnds
      /\ NoGen \in Gens \cup {NoGen}
  BY DEF TypeOK
<1>1. /\ \/ server.next = "gone" /\ server' = server
         \/ server.next # "gone" /\ server'.gen = NoGen
      /\ \/ inbox' = inbox
         \/ \E f \in Frames : f.gen = server.gen /\ inbox' = Append(inbox, f)
  BY <1>0, RequestFacts
<1>2. server.next = "gone" => inbox' = inbox
  BY DEF Request, NextFrames
<1>3. OnlyStarted'
  <2>1. CASE inbox' = inbox
    BY <1>0, <1>1, <2>1 DEF Streams, OnlyStarted, NoGen
  <2>2. ASSUME NEW f \in Frames, f.gen = server.gen, inbox' = Append(inbox, f)
        PROVE  OnlyStarted'
    BY <1>0, <1>1, <2>2, AppendFacts DEF Streams, OnlyStarted, NoGen
  <2> QED BY <1>1, <2>1, <2>2
<1>4. RunningIsUnfinished'
  BY <1>1, <1>2 DEF Streams, RunningIsUnfinished
<1>5. EndsAgree'
  BY <1>1 DEF EndsAgree
<1> QED BY <1>3, <1>4, <1>5 DEF Streams

\* A frame that the server sends is of the active generation; after its last
\* one the server runs none.
LEMMA SendKeepsStreams == ASSUME TypeOK, Streams, ServerSends PROVE Streams'
<1>0. /\ inbox \in Seq(Frames) /\ server \in ServerEnds /\ started \in Nat
      /\ UNCHANGED <<conn, started, ActiveGenerationId>> /\ Connected
  BY DEF TypeOK, ServerSends, moduleVars
<1>1. PICK k \in NextFrames :
        /\ inbox' = Append(inbox, Frame(k, server.gen))
        /\ server' = [gen |-> IF After(k) = "idle" THEN NoGen ELSE server.gen, next |-> After(k)]
  BY DEF ServerSends
<1> DEFINE f == Frame(k, server.gen)
<1>2. f \in Frames /\ f.gen = server.gen /\ f.kind = k
  BY NextFramesFacts DEF Frame
<1>3. server.next # "gone"
  BY DEF NextFrames
<1>4. /\ After(k) = "idle" <=> k \in {"complete", "error"}
      /\ server'.gen = IF After(k) = "idle" THEN NoGen ELSE server.gen
  BY <1>1, NextFramesFacts
<1>5. inbox' = Append(inbox, f)
  BY <1>1
<1> HIDE DEF f
<1>6. OnlyStarted'
  BY <1>0, <1>2, <1>4, <1>5, AppendFacts DEF Streams, OnlyStarted, NoGen
<1>7. RunningIsUnfinished'
  BY <1>0, <1>2, <1>4, <1>5, AppendFacts DEF Streams, RunningIsUnfinished
<1>8. EndsAgree'
  <2>1. server'.gen # NoGen => server'.gen = ActiveGenerationId'
    BY <1>0, <1>3, <1>4 DEF Streams, EndsAgree
  <2>2. ASSUME ActiveGenerationId' \notin {NoGen, server'.gen}
        PROVE  \E i \in 1..Len(inbox') :
                 inbox'[i].gen = ActiveGenerationId' /\ inbox'[i].kind \in {"complete", "error"}
    <3>1. CASE server.gen = ActiveGenerationId
      <4>1. Len(inbox) + 1 \in 1..Len(inbox') /\ inbox'[Len(inbox) + 1] = f
        BY <1>0, <1>2, <1>5, AppendFacts
      <4>2. f.gen = ActiveGenerationId' /\ f.kind \in {"complete", "error"}
        BY <1>0, <1>2, <1>4, <2>2, <3>1
      <4> QED BY <4>1, <4>2
    <3>2. CASE server.gen # ActiveGenerationId
      <4>1. PICK i \in 1..Len(inbox) :
              inbox[i].gen = ActiveGenerationId /\ inbox[i].kind \in {"complete", "error"}
        BY <1>0, <1>3, <2>2, <3>2 DEF Streams, EndsAgree
      <4>2. i \in 1..Len(inbox') /\ inbox'[i] = inbox[i]
        BY <1>0, <1>2, <1>5, AppendFacts
      <4> QED BY <1>0, <4>1, <4>2
    <3> QED BY <3>1, <3>2
  <2> QED BY <2>1, <2>2 DEF EndsAgree
<1> QED BY <1>6, <1>7, <1>8 DEF Streams

\* Dispatching a frame ends the active generation only with its own last one.
LEMMA DispatchKeepsStreams == ASSUME TypeOK, Streams, DispatchFrame PROVE Streams'
<1>0. /\ inbox \in Seq(Frames) /\ inbox # << >> /\ started \in Nat /\ server \in ServerEnds
      /\ UNCHANGED <<conn, started, server>> /\ inbox' = Tail(inbox)
  BY DEF TypeOK, DispatchFrame
<1>1. /\ \A i \in 1..Len(inbox') : i + 1 \in 1..Len(inbox) /\ inbox'[i] = inbox[i + 1]
      /\ 1 \in 1..Len(inbox) /\ Head(inbox) = inbox[1]
  BY <1>0, TailFacts
<1>2. \/ ActiveGenerationId' = NoGen
         /\ inbox[1].gen = ActiveGenerationId /\ inbox[1].kind \in {"complete", "error"}
      \/ ActiveGenerationId' = ActiveGenerationId
         /\ ~(inbox[1].gen = ActiveGenerationId /\ inbox[1].kind \in {"complete", "error"})
  BY <1>1 DEF DispatchFrame, ModuleFrame
<1>3. OnlyStarted'
  BY <1>0, <1>1, <1>2 DEF Streams, OnlyStarted, NoGen
<1>4. RunningIsUnfinished'
  BY <1>0, <1>1 DEF Streams, RunningIsUnfinished
<1>5. EndsAgree'
  <2> SUFFICES ASSUME Connected, server.next # "gone"
               PROVE  /\ server.gen # NoGen => server.gen = ActiveGenerationId'
                      /\ ActiveGenerationId' \notin {NoGen, server.gen} =>
                           \E i \in 1..Len(inbox') :
                             inbox'[i].gen = ActiveGenerationId' /\ inbox'[i].kind \in {"complete", "error"}
    BY <1>0 DEF EndsAgree, Connected
  <2>1. server.gen # NoGen => server.gen = ActiveGenerationId'
    BY <1>1, <1>2 DEF Streams, EndsAgree, RunningIsUnfinished
  <2>2. ASSUME ActiveGenerationId' \notin {NoGen, server.gen}
        PROVE  \E i \in 1..Len(inbox') :
                 inbox'[i].gen = ActiveGenerationId' /\ inbox'[i].kind \in {"complete", "error"}
    <3>1. ActiveGenerationId' = ActiveGenerationId
          /\ ~(inbox[1].gen = ActiveGenerationId /\ inbox[1].kind \in {"complete", "error"})
      BY <1>2, <2>2
    <3>2. PICK i \in 1..Len(inbox) :
            inbox[i].gen = ActiveGenerationId /\ inbox[i].kind \in {"complete", "error"}
      BY <2>2, <3>1 DEF Streams, EndsAgree
    <3>3. i # 1
      BY <3>1, <3>2
    <3>4. i - 1 \in 1..Len(inbox') /\ inbox'[i - 1] = inbox[i]
      <4>1. Len(inbox) \in Nat /\ Len(inbox') = Len(inbox) - 1
        BY <1>0, TailFacts
      <4>2. i - 1 \in 1..Len(inbox') /\ (i - 1) + 1 = i
        BY <3>3, <4>1
      <4> QED BY <1>1, <4>2
    <3> QED BY <3>1, <3>2, <3>4
  <2> QED BY <2>1, <2>2
<1> QED BY <1>3, <1>4, <1>5 DEF Streams

\* A handshake leaves the generations as they are; a refused one ends the
\* connection.
LEMMA HandshakeKeepsStreams == ASSUME TypeOK, Streams, Handshake PROVE Streams'
<1>0. /\ inbox \in Seq(Frames) /\ started \in Nat /\ server \in ServerEnds
      /\ UNCHANGED <<conn, started, ActiveGenerationId>> /\ server.next = "hello"
  BY DEF TypeOK, Handshake, moduleVars
<1>1. CASE manifestEmpty
  <2> DEFINE f == Frame("error", NoGen)
  <2>1. f \in Frames /\ f.gen = NoGen
    BY DEF Frame, Frames
  <2>2. inbox' = Append(inbox, f) /\ server' = [server EXCEPT !.next = "gone"]
    BY <1>1 DEF Handshake
  <2> HIDE DEF f
  <2>3. server'.gen = server.gen /\ server'.next = "gone"
    BY <1>0, <2>2 DEF ServerEnds
  <2>4. OnlyStarted'
    BY <1>0, <2>1, <2>2, <2>3, AppendFacts DEF Streams, OnlyStarted, NoGen
  <2>5. RunningIsUnfinished'
    BY <1>0, <2>1, <2>2, <2>3, AppendFacts DEF Streams, RunningIsUnfinished
  <2>6. EndsAgree'
    BY <2>3 DEF EndsAgree
  <2> QED BY <2>4, <2>5, <2>6 DEF Streams
<1>2. CASE ~manifestEmpty
  <2>1. server'.gen = server.gen /\ inbox' = inbox
    BY <1>0, <1>2 DEF Handshake, ServerEnds
  <2> QED BY <1>0, <2>1 DEF Streams, OnlyStarted, RunningIsUnfinished, EndsAgree, Connected
<1> QED BY <1>1, <1>2

\* Every step keeps the streams in agreement.
LEMMA StepStreams ==
  TypeOK /\ ActiveNeedsSocket /\ Streams /\ [Next]_vars => Streams'
<1> SUFFICES ASSUME TypeOK, ActiveNeedsSocket, Streams, [Next]_vars PROVE Streams'
  OBVIOUS
<1>0. /\ started \in Nat /\ server \in ServerEnds /\ inbox \in Seq(Frames)
      /\ ActiveGenerationId \in Gens \cup {NoGen}
  BY DEF TypeOK
<1> USE DEF netVars, moduleVars, procVars
\* The server's end stays, or loses its connection.
<1>a. ASSUME UNCHANGED <<conn, inbox, started, ActiveGenerationId>>,
             server' = server \/ server' = [server EXCEPT !.next = "gone"]
      PROVE  Streams'
  <2>1. server'.gen = server.gen /\ (server'.next # "gone" => server' = server)
    BY <1>0, <1>a DEF ServerEnds
  <2> QED BY <1>a, <2>1 DEF Streams, OnlyStarted, RunningIsUnfinished, EndsAgree, Connected
\* There is no connection, and the server's end is none or a new one.
<1>b. ASSUME server'.gen = NoGen, ~Connected', UNCHANGED started,
             inbox' = inbox \/ inbox' = << >>,
             ActiveGenerationId' = ActiveGenerationId \/ ActiveGenerationId' = NoGen
      PROVE  Streams'
  <2>1. OnlyStarted'
    BY <1>0, <1>b DEF Streams, OnlyStarted, NoGen
  <2>2. RunningIsUnfinished'
    BY <1>b DEF RunningIsUnfinished
  <2>3. EndsAgree'
    BY <1>b DEF EndsAgree
  <2> QED BY <2>1, <2>2, <2>3 DEF Streams
<1>c. ASSUME EnsureBackend, UNCHANGED <<inbox, started, ActiveGenerationId>> PROVE Streams'
  <2>1. CASE Connected
    BY <1>a, <1>c, <2>1 DEF EnsureBackend
  <2>2. CASE ~Connected
    BY <1>b, <1>c, <2>2 DEF EnsureBackend, TryConnect, Idle, Connected
  <2> QED BY <2>1, <2>2
<1>1. CASE OpenPanel
  BY <1>1, <1>c DEF OpenPanel
<1>2. CASE ClosePanel
  BY <1>2, <1>a DEF ClosePanel
<1>3. CASE ClickGenerate
  <2>1. CASE Connected
    <3>1. started + 1 \in Gens
      BY <1>0, <1>3, SessionAssumption DEF ClickGenerate, Gens
    <3> QED BY <1>3, <2>1, <3>1, GenerateKeepsStreams DEF ClickGenerate, StartGeneration
  <2>2. CASE ~Connected
    BY <1>3, <1>a, <2>2 DEF ClickGenerate, StartGeneration
  <2> QED BY <2>1, <2>2
<1>4. CASE ClickCancel
  <2>1. UNCHANGED <<conn, started>> /\ ActiveGenerationId' = NoGen
    BY <1>4 DEF ClickCancel, CancelActiveGeneration
  <2>2. CASE Connected /\ ActiveGenerationId # NoGen /\ server.gen = ActiveGenerationId
    BY <1>4, <2>1, <2>2, CancelKeepsStreams DEF ClickCancel, CancelActiveGeneration
  <2>3. CASE ~(Connected /\ ActiveGenerationId # NoGen /\ server.gen = ActiveGenerationId)
    <3>1. UNCHANGED <<inbox, server>>
      BY <1>4, <2>3 DEF ClickCancel, CancelActiveGeneration
    <3>2. OnlyStarted' /\ RunningIsUnfinished'
      BY <1>0, <2>1, <3>1 DEF Streams, OnlyStarted, RunningIsUnfinished, NoGen
    <3>3. EndsAgree'
      BY <2>1, <2>3, <3>1 DEF Streams, EndsAgree, Connected
    <3> QED BY <3>2, <3>3 DEF Streams
  <2> QED BY <2>2, <2>3
<1>5. CASE ClickReconnect
  BY <1>5, <1>c DEF ClickReconnect
<1>6. CASE ShutdownModule
  BY <1>6, <1>b DEF ShutdownModule, Idle, Connected
<1>7. CASE EditorKilled
  BY <1>7, <1>b DEF EditorKilled, Idle, Connected
<1>8. CASE StartEditor
  BY <1>8, <1>a DEF StartEditor
<1>9. CASE TickReconnect
  <2>1. CASE Connected
    BY <1>9, <1>a, <2>1 DEF TickReconnect, TryConnect
  <2>2. CASE ~Connected
    BY <1>9, <1>b, <2>2 DEF TickReconnect, TryConnect, Idle, Connected
  <2> QED BY <2>1, <2>2
<1>10. CASE WatchdogTick
  BY <1>10, <1>a DEF WatchdogTick
<1>11. CASE DispatchFrame
  BY <1>11, DispatchKeepsStreams
<1>12. CASE HandleConnected
  <2>1. /\ UNCHANGED <<inbox, started, ActiveGenerationId>> /\ server'.gen = NoGen
        /\ editor = "up" /\ ~Connected
    BY <1>12 DEF HandleConnected, Connected
  <2>2. ActiveGenerationId = NoGen
    BY <2>1 DEF ActiveNeedsSocket
  <2>3. OnlyStarted' /\ RunningIsUnfinished' /\ EndsAgree'
    BY <1>0, <2>1, <2>2 DEF Streams, OnlyStarted, RunningIsUnfinished, EndsAgree, NoGen
  <2> QED BY <2>3 DEF Streams
<1>13. CASE HandleConnectionError
  <2>1. ~Connected' /\ UNCHANGED <<inbox, server, started, ActiveGenerationId>>
    BY <1>13 DEF HandleConnectionError, Connected
  <2>2. OnlyStarted' /\ RunningIsUnfinished' /\ EndsAgree'
    BY <2>1 DEF Streams, OnlyStarted, RunningIsUnfinished, EndsAgree
  <2> QED BY <2>2 DEF Streams
<1>14. CASE HandleClosed
  BY <1>14, <1>b DEF HandleClosed, Idle, Connected
<1>15. CASE Handshake
  BY <1>15, HandshakeKeepsStreams
<1>16. CASE ServerSends
  BY <1>16, SendKeepsStreams
<1>17. ASSUME NEW p \in Pids, ProcessStep(p) \/ Crash(p) PROVE Streams'
  BY <1>17, <1>a DEF ProcessStep, ReadParent, ParentWatchdog, Listen, Crash, Exited
<1>18. CASE ExternalServer
  BY <1>18, <1>a DEF ExternalServer
<1>19. CASE UNCHANGED vars
  BY <1>19, <1>a DEF vars
<1> QED
  BY <1>1, <1>2, <1>3, <1>4, <1>5, <1>6, <1>7, <1>8, <1>9, <1>10, <1>11, <1>12, <1>13,
     <1>14, <1>15, <1>16, <1>17, <1>18, <1>19 DEF Next, User

-----------------------------------------------------------------------------
(* The theorems.                                                           *)

\* The initial states satisfy the inductive invariant.
LEMMA InitIndInv == Init => IndInv
<1> SUFFICES ASSUME Init PROVE IndInv
  OBVIOUS
<1> USE SessionAssumption DEF Init
<1>1. TypeOK
  <2>1. << >> \in Seq(Frames) /\ Len(<< >>) <= MaxInbox
    OBVIOUS
  <2>2. "NotStarted" \in SidecarStates /\ proc \in [Pids -> ProcessStates]
    BY DEF SidecarStates, ProcessStates
  <2>3. /\ 0 \in 0..MaxLaunches /\ 0 \in 0..MaxConnectAttempts /\ 0 \in 0..MaxGens
        /\ server \in ServerEnds /\ panel \in Panels
    BY ValueTypes
  <2> QED BY <2>1, <2>2, <2>3 DEF TypeOK
<1>2. TickerHasAttempts /\ EditorGone /\ ActiveNeedsSocket
  BY DEF TickerHasAttempts, EditorGone, ActiveNeedsSocket
<1>3. LaunchOrder
  BY DEF LaunchOrder, Pids
<1>4. OnlyStarted /\ RunningIsUnfinished /\ EndsAgree
  BY DEF OnlyStarted, RunningIsUnfinished, EndsAgree, Connected, Idle, NoGen
<1>5. NoLeakedChild
  BY DEF NoLeakedChild, Alive
<1>6. GeneratingHasGeneration /\ NeverWaitingForNothing
  BY DEF GeneratingHasGeneration, NeverWaitingForNothing, ClosedPanel
<1> QED BY <1>1, <1>2, <1>3, <1>4, <1>5, <1>6 DEF IndInv

\* Every reachable state satisfies the inductive invariant.
THEOREM SpecIndInv == Spec => []IndInv
<1>1. IndInv /\ [Next]_vars => IndInv'
  BY StepTypeOK, StepLaunchOrder, StepNoLeakedChild, StepEditorGone,
     StepNeverWaitingForNothing, StepGeneratingHasGeneration, StepStreams DEF IndInv, Streams
<1> QED BY InitIndInv, <1>1, PTL DEF Spec

\* The state always has its type; in particular the counter of connection
\* attempts never goes below zero, however retries and EnsureBackend interleave.
THEOREM SpecTypeOK == Spec => []TypeOK
<1>1. IndInv => TypeOK
  BY DEF IndInv
<1> QED BY SpecIndInv, <1>1, PTL

\* The panel shows Generating, and its Cancel button, only while the module has
\* a generation to cancel.
THEOREM SpecGeneratingHasGeneration == Spec => []GeneratingHasGeneration
<1>1. IndInv => GeneratingHasGeneration
  BY DEF IndInv
<1> QED BY SpecIndInv, <1>1, PTL

\* HandleConnectionError and HandleClosed never leave a panel waiting that
\* neither a socket, a retry nor the watchdog will wake.
THEOREM SpecNeverWaitingForNothing == Spec => []NeverWaitingForNothing
<1>1. IndInv => NeverWaitingForNothing
  BY DEF IndInv
<1> QED BY SpecIndInv, <1>1, PTL

\* The module and the server agree on the generation that runs, whatever
\* frames of earlier ones are still on their way.
THEOREM SpecEndsAgree == Spec => []EndsAgree
<1>1. IndInv => EndsAgree
  BY DEF IndInv
<1> QED BY SpecIndInv, <1>1, PTL

\* However launches, crashes and restarts of the editor interleave, the sidecar
\* manager holds the only live child of its editor, and a shutdown leaves none.
THEOREM SpecNoLeakedChild == Spec => []NoLeakedChild
<1>1. IndInv => NoLeakedChild
  BY DEF IndInv
<1> QED BY SpecIndInv, <1>1, PTL
=============================================================================
