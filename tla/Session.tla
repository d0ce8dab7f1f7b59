------------------------------ MODULE Session ------------------------------
(***************************************************************************)
(* The editor side of a session: the sidecar process manager               *)
(* (Sidecar/AetherForgeSidecarManager.cpp), the module that connects,      *)
(* retries and routes (AetherForgeEditorModule.cpp) and the panel          *)
(* (UI/SAetherForgePanel.cpp), with the process they launch               *)
(* (cmd/aetherforge-server/main.go) and the server they talk to.          *)
(*                                                                         *)
(* Everything in the editor runs on the game thread, so a handler is one   *)
(* step, with the delegates it broadcasts.  A broadcast calls the panel's  *)
(* handler before the module's, the reverse of the order they were bound.  *)
(* The client is module Client reduced to what it promises: frames reach   *)
(* the delegates in order through `inbox', which a new socket inherits;    *)
(* connected, error and closed overtake them.  The server is module        *)
(* Orchestrator reduced the same way: streams follow one another, and one  *)
(* frame may follow a cancel.                                              *)
(***************************************************************************)
EXTENDS Integers, Sequences, FiniteSets

CONSTANTS MaxConnectAttempts,  \* 10 in the code
          MaxGens,             \* bound: generations the user starts
          MaxLaunches,         \* bound: CreateProc fails afterwards
          MaxInbox             \* bound: frames not yet dispatched

ASSUME SessionAssumption ==
    /\ MaxConnectAttempts \in Nat /\ MaxConnectAttempts >= 2
    /\ MaxGens \in Nat /\ MaxLaunches \in Nat /\ MaxInbox \in Nat

NoGen == 0
Gens == 1..MaxGens
NoProcess == 0
Pids == 1..MaxLaunches
Free == 0
External == MaxLaunches + 1

VARIABLES
    editor,          \* "up", "shutdown" or "killed"
    State,           \* the sidecar manager's state
    ProcessHandle,   \* the child it holds, or NoProcess
    old,             \* children 1..old were launched by an editor that is gone
    proc,            \* each child: "none", "started", "watching", "orphan", "exited"
    manifestEmpty,   \* no manifest asset was authored
    port,            \* who listens on the port: Free, External or a child
    conn,            \* the client's socket
    ConnectAttemptsRemaining,
    ReconnectTicker, \* ReconnectTickerHandle.IsValid()
    ActiveGenerationId,
    inbox,           \* frames between the socket and the delegates
    server,          \* the connection's server end: generation and next frame
    started,         \* generations minted so far
    panel            \* the panel: open, State

procVars   == <<manifestEmpty, State, ProcessHandle, proc, old, port>>
moduleVars == <<ConnectAttemptsRemaining, ReconnectTicker, ActiveGenerationId, started>>
netVars    == <<conn, inbox, server>>
vars == <<editor, procVars, netVars, moduleVars, panel>>

Connected == conn = "connected"
Alive == {p \in Pids : proc[p] \in {"started", "watching", "orphan"}}
IsRunning == ProcessHandle \in Alive

\* The child has exited and the manager does not know yet.
DeathUnnoticed == State = "Running" /\ ~IsRunning

Launched == Cardinality({p \in Pids : proc[p] # "none"})

\* Mutant: the panel takes any connection error for one that is retried.
IsConnectRetryPending_Always == TRUE

IsConnectRetryPending == ReconnectTicker \/ ConnectAttemptsRemaining > 0

Frame(k, g) == [kind |-> k, gen |-> g]
Frames == [kind : {"plan", "chunk", "complete", "error"}, gen : Gens \cup {NoGen}]
Idle == [gen |-> NoGen, next |-> "idle"]
ServerEnds == [gen : Gens \cup {NoGen},
               next : {"hello", "idle", "plan", "chunk", "complete", "gone"}]

ProcessStates == {"none", "started", "watching", "orphan", "exited"}
SidecarStates == {"NotStarted", "Running", "Dead", "BinaryMissing", "Stopped"}
PanelStates == {"Disconnected", "StartingSidecar", "ConnectedIdle", "Generating", "Error"}
Panels == [open : BOOLEAN, State : PanelStates]

ClosedPanel == [open |-> FALSE, State |-> "Disconnected"]

Init ==
    /\ editor = "up"
    /\ State = "NotStarted" /\ ProcessHandle = NoProcess
    /\ proc = [p \in Pids |-> "none"]
    /\ old = 0
    /\ manifestEmpty \in BOOLEAN
    /\ port \in {Free, External}
    /\ conn = "none"
    /\ ConnectAttemptsRemaining = 0 /\ ReconnectTicker = FALSE
    /\ ActiveGenerationId = NoGen
    /\ inbox = << >> /\ server = Idle
    /\ started = 0
    /\ panel = ClosedPanel

-----------------------------------------------------------------------------
(* The panel's handlers, as what they make of the panel.                   *)

\* SetState and EnterErrorState; a panel that is not open is not bound.
Shows(p, s) == IF p.open THEN [p EXCEPT !.State = s] ELSE p

PanelClosed(p) == IF p.State = "Error" THEN p ELSE Shows(p, "Disconnected")
PanelConnected(p) == IF p.State = "Generating" THEN p ELSE Shows(p, "ConnectedIdle")
PanelConnectionError(p) ==
    IF IsRunning /\ IsConnectRetryPending THEN p ELSE Shows(p, "Error")

PanelSidecar(p, s) ==
    CASE s = "Starting"                -> Shows(p, "StartingSidecar")
      [] s \in {"Dead", "BinaryMissing"} -> Shows(p, "Error")
      [] s = "Stopped"                 -> Shows(p, "Disconnected")
      [] OTHER                         -> p

\* HandlePlan, HandleChunk, HandleComplete, HandleServerError.  None looks at
\* the generation; only the error of a refused hello is not recoverable.
PanelFrame(p, f) ==
    CASE ~p.open             -> p
      [] f.kind = "complete" -> Shows(p, "ConnectedIdle")
      [] f.kind = "error"    -> Shows(p, IF f.gen = NoGen THEN "Error" ELSE "ConnectedIdle")
      [] OTHER               -> p    \* progress, the seed field and the log

-----------------------------------------------------------------------------
(* The sidecar manager.                                                    *)

\* Launch.  Starting is broadcast, then what CreateProc made of it: the
\* binary may be missing, or the process may not start, or be dead by the time
\* Launch returns.  Its caller has asked IsRunning, so its own early return
\* does not occur.
Launch(p) ==
    \/ \E s \in {"BinaryMissing", "Dead"} :
        /\ State' = s
        /\ panel' = PanelSidecar(PanelSidecar(p, "Starting"), s)
        /\ ProcessHandle' = NoProcess
        /\ UNCHANGED proc
    \/ \E pid \in Pids :
        /\ \A q \in Pids : proc[q] = "none" <=> q >= pid
        /\ State' = "Running"
        /\ panel' = PanelSidecar(PanelSidecar(p, "Starting"), "Running")
        /\ ProcessHandle' = pid
        /\ \E s \in {"started", "exited"} : proc' = [proc EXCEPT ![pid] = s]

\* Once a second: a child that exited behind the plugin's back.
WatchdogTick ==
    /\ editor = "up" /\ DeathUnnoticed
    /\ State' = "Dead"
    /\ panel' = PanelSidecar(panel, "Dead")
    /\ UNCHANGED <<editor, manifestEmpty, old, ProcessHandle, proc, port, netVars, moduleVars>>

Exited(p) ==
    /\ proc' = [proc EXCEPT ![p] = "exited"]
    /\ port' = IF port = p THEN Free ELSE port
    /\ server' = IF Connected /\ port = p THEN [server EXCEPT !.next = "gone"] ELSE server

\* Mutant: the handle is closed, the process is left running.
Terminate_KeepsProcess ==
    /\ ProcessHandle' = NoProcess /\ State' = "Stopped"
    /\ panel' = PanelSidecar(panel, "Stopped")
    /\ UNCHANGED <<manifestEmpty, old, proc, port>>

Terminate ==
    IF ProcessHandle = NoProcess
    THEN UNCHANGED <<procVars, panel>>
    ELSE /\ proc' = IF IsRunning THEN [proc EXCEPT ![ProcessHandle] = "exited"] ELSE proc
         /\ port' = IF port = ProcessHandle THEN Free ELSE port
         /\ ProcessHandle' = NoProcess
         /\ State' = "Stopped"
         /\ panel' = PanelSidecar(panel, "Stopped")
         /\ UNCHANGED <<manifestEmpty, old>>

-----------------------------------------------------------------------------
(* The server's end of the connection.                                     *)

\* The frames the running generation may send next, and what follows each.
NextFrames ==
    CASE server.next = "plan"     -> {"plan", "error"}
      [] server.next = "chunk"    -> {"chunk"}
      [] server.next = "complete" -> {"complete"}
      [] OTHER                    -> {}
After(k) == CASE k = "plan" -> "chunk" [] k = "chunk" -> "complete" [] OTHER -> "idle"

\* The server reads a request: generate(g), or a cancel when g is NoGen.  It
\* cancels the generation that runs, after which one frame of it may follow.
\* Before it has read hello the request waits.
Request(g) ==
    /\ server' = CASE server.next = "gone"  -> server
                   [] server.next = "hello" -> [server EXCEPT !.gen = g]
                   [] OTHER -> IF g = NoGen THEN Idle ELSE [gen |-> g, next |-> "plan"]
    /\ \/ UNCHANGED inbox
       \/ \E k \in NextFrames :
            Len(inbox) < MaxInbox /\ inbox' = Append(inbox, Frame(k, server.gen))

ServerSends ==
    /\ Connected /\ Len(inbox) < MaxInbox
    /\ \E k \in NextFrames :
        /\ inbox' = Append(inbox, Frame(k, server.gen))
        /\ server' = [gen |-> IF After(k) = "idle" THEN NoGen ELSE server.gen, next |-> After(k)]
    /\ UNCHANGED <<editor, procVars, conn, moduleVars, panel>>

\* handshake: an empty manifest is refused and the connection given up.
Handshake ==
    /\ Connected /\ server.next = "hello"
    /\ IF manifestEmpty
       THEN /\ Len(inbox) < MaxInbox
            /\ inbox' = Append(inbox, Frame("error", NoGen))
            /\ server' = [server EXCEPT !.next = "gone"]
       ELSE /\ server' = [server EXCEPT !.next = IF server.gen = NoGen THEN "idle" ELSE "plan"]
            /\ UNCHANGED inbox
    /\ UNCHANGED <<editor, procVars, conn, moduleVars, panel>>

-----------------------------------------------------------------------------
(* The module.                                                             *)

TryConnect(attempts) ==
    IF Connected
    THEN UNCHANGED <<conn, server>> /\ ConnectAttemptsRemaining' = attempts
    ELSE conn' = "connecting" /\ server' = Idle /\ ConnectAttemptsRemaining' = attempts - 1

EnsureBackend ==
    IF Connected
    THEN UNCHANGED <<conn, server, ConnectAttemptsRemaining>>
    ELSE TryConnect(MaxConnectAttempts)

\* The ticker's lambda, half a second after an error.
TickReconnect ==
    /\ editor = "up" /\ ReconnectTicker
    /\ ReconnectTicker' = FALSE
    /\ TryConnect(ConnectAttemptsRemaining)
    /\ UNCHANGED <<editor, procVars, inbox, ActiveGenerationId, started, panel>>

\* The socket opens onto whoever owns the port, and hello is sent.
HandleConnected ==
    /\ editor = "up" /\ conn = "connecting" /\ port # Free
    /\ conn' = "connected"
    /\ server' = [gen |-> NoGen, next |-> "hello"]
    /\ panel' = PanelConnected(panel)
    /\ UNCHANGED <<editor, procVars, inbox, moduleVars>>

\* Mutant: the ticker is set whatever attempts remain.
Retry_Unbounded(p) ==
    /\ ReconnectTicker' = TRUE /\ panel' = p
    /\ UNCHANGED <<State, ProcessHandle, proc>>

\* Mutant: the launch is not followed by a retry.
Retry_OnlyIfRunning(p) ==
    CASE ConnectAttemptsRemaining = 0 ->
            UNCHANGED <<State, ProcessHandle, proc, ReconnectTicker>> /\ panel' = p
      [] ConnectAttemptsRemaining > 0 /\ IsRunning ->
            ReconnectTicker' = TRUE /\ panel' = p /\ UNCHANGED <<State, ProcessHandle, proc>>
      [] OTHER -> Launch(p) /\ UNCHANGED ReconnectTicker

\* Launch the sidecar unless it runs, and retry unless no attempt remains or it
\* does not run even then: a child that died at once is left to the watchdog.
Retry(p) ==
    CASE ConnectAttemptsRemaining = 0 ->
            UNCHANGED <<State, ProcessHandle, proc, ReconnectTicker>> /\ panel' = p
      [] ConnectAttemptsRemaining > 0 /\ IsRunning ->
            ReconnectTicker' = TRUE /\ panel' = p /\ UNCHANGED <<State, ProcessHandle, proc>>
      [] OTHER ->
            /\ Launch(p)
            /\ ReconnectTicker' = (ReconnectTicker \/ IsRunning')

\* An attempt fails: it may have been refused before the port was bound.
HandleConnectionError ==
    /\ editor = "up" /\ conn = "connecting"
    /\ conn' = "none"
    /\ Retry(PanelConnectionError(panel))
    /\ UNCHANGED <<editor, manifestEmpty, old, port, inbox, server, ConnectAttemptsRemaining, ActiveGenerationId, started>>

\* Mutant: the closed socket leaves the generation active.
HandleClosed_KeepsGeneration ==
    /\ editor = "up" /\ Connected /\ conn' = "none" /\ server' = Idle
    /\ panel' = PanelClosed(panel)
    /\ UNCHANGED <<editor, procVars, inbox, moduleVars>>

\* The socket closes, at the server's end or on the way.
HandleClosed ==
    /\ editor = "up" /\ Connected
    /\ conn' = "none" /\ server' = Idle
    /\ panel' = PanelClosed(panel)
    /\ ActiveGenerationId' = NoGen
    /\ UNCHANGED <<editor, procVars, inbox, ConnectAttemptsRemaining, ReconnectTicker, started>>

\* Mutant: any terminal frame ends the active generation.
ModuleFrame_AnyTerminal(f) ==
    ActiveGenerationId' = IF f.kind \in {"complete", "error"} THEN NoGen ELSE ActiveGenerationId

\* HandleComplete, HandleServerError: frames of another generation are dropped.
\* HandleChunk, which drops them too, hands the others to the spawner.
ModuleFrame(f) ==
    ActiveGenerationId' = IF f.gen = ActiveGenerationId /\ f.kind \in {"complete", "error"}
                          THEN NoGen ELSE ActiveGenerationId

\* The client's ticker dispatches the next frame.
DispatchFrame ==
    /\ editor = "up" /\ inbox # << >>
    /\ inbox' = Tail(inbox)
    /\ panel' = PanelFrame(panel, Head(inbox))
    /\ ModuleFrame(Head(inbox))
    /\ UNCHANGED <<editor, procVars, conn, server, ConnectAttemptsRemaining, ReconnectTicker, started>>

\* Mint an id, begin its spawning, send generate; nothing if disconnected.
StartGeneration ==
    IF Connected
    THEN /\ started' = started + 1
         /\ ActiveGenerationId' = started + 1
         /\ Request(started + 1)
    ELSE UNCHANGED <<started, ActiveGenerationId, inbox, server>>

\* Send cancel, if connected, and end the spawning.  The server heeds the
\* cancel of the generation it runs.
CancelActiveGeneration ==
    /\ IF Connected /\ ActiveGenerationId # NoGen /\ server.gen = ActiveGenerationId
       THEN Request(NoGen)
       ELSE UNCHANGED <<inbox, server>>
    /\ ActiveGenerationId' = NoGen

-----------------------------------------------------------------------------
(* The user.                                                               *)

\* Construct: binds, then shows the client's state or makes it connect.
OpenPanel ==
    /\ editor = "up" /\ ~panel.open
    /\ panel' = [ClosedPanel EXCEPT
                    !.open = TRUE,
                    !.State = IF Connected THEN "ConnectedIdle" ELSE "StartingSidecar"]
    /\ EnsureBackend
    /\ UNCHANGED <<editor, procVars, inbox, ReconnectTicker, ActiveGenerationId, started>>

\* The tab is closed; the client and a generation outlive it.
ClosePanel ==
    /\ editor = "up" /\ panel.open
    /\ panel' = ClosedPanel
    /\ UNCHANGED <<editor, procVars, netVars, moduleVars>>

\* Mutant: the panel does not look at the generation it got.
ClickGenerate_Unchecked ==
    /\ editor = "up" /\ panel.open /\ panel.State = "ConnectedIdle" /\ started < MaxGens
    /\ panel' = Shows(panel, "Generating")
    /\ StartGeneration
    /\ UNCHANGED <<editor, procVars, conn, ConnectAttemptsRemaining, ReconnectTicker>>

\* OnGenerateClicked and OnNewVariationClicked, with a prompt.
ClickGenerate ==
    /\ editor = "up" /\ panel.open /\ panel.State = "ConnectedIdle" /\ started < MaxGens
    /\ StartGeneration
    /\ panel' = Shows(panel, IF Connected THEN "Generating" ELSE "Error")
    /\ UNCHANGED <<editor, procVars, conn, ConnectAttemptsRemaining, ReconnectTicker>>

ClickCancel ==
    /\ editor = "up" /\ panel.open /\ panel.State = "Generating"
    /\ CancelActiveGeneration
    /\ panel' = Shows(panel, "ConnectedIdle")
    /\ UNCHANGED <<editor, procVars, conn, ConnectAttemptsRemaining, ReconnectTicker, started>>

ClickReconnect ==
    /\ editor = "up" /\ panel.open /\ panel.State \in {"Error", "Disconnected"}
    /\ panel' = Shows(panel, "StartingSidecar")
    /\ EnsureBackend
    /\ UNCHANGED <<editor, procVars, inbox, ReconnectTicker, ActiveGenerationId, started>>

\* ShutdownModule: the ticker, the client with its queues, the spawner, then
\* the child.
ShutdownModule ==
    /\ editor = "up"
    /\ editor' = "shutdown"
    /\ ReconnectTicker' = FALSE
    /\ conn' = "none" /\ server' = Idle /\ inbox' = << >>
    /\ Terminate
    /\ UNCHANGED <<ConnectAttemptsRemaining, ActiveGenerationId, started>>

-----------------------------------------------------------------------------
(* The processes.                                                          *)

\* The editor dies without a module shutdown: its state is gone, and its
\* children are reparented.
EditorKilled ==
    /\ editor = "up"
    /\ editor' = "killed" /\ old' = Launched
    /\ State' = "NotStarted" /\ ProcessHandle' = NoProcess
    /\ conn' = "none" /\ server' = Idle /\ inbox' = << >>
    /\ ConnectAttemptsRemaining' = 0 /\ ReconnectTicker' = FALSE
    /\ ActiveGenerationId' = NoGen
    /\ panel' = ClosedPanel
    /\ UNCHANGED <<manifestEmpty, proc, port, started>>

\* It is started again: StartupModule, with whatever processes the last one
\* has left behind.
StartEditor ==
    /\ editor = "killed"
    /\ editor' = "up"
    /\ UNCHANGED <<procVars, netVars, moduleVars, panel>>

\* main reads its parent once, when it starts.
ReadParent(p) ==
    /\ proc[p] = "started"
    /\ proc' = [proc EXCEPT ![p] = IF p <= old THEN "orphan" ELSE "watching"]
    /\ UNCHANGED <<editor, manifestEmpty, old, State, ProcessHandle, port, netVars, moduleVars, panel>>

\* Mutant: the watchdog compares the parent with itself.
ParentWatchdog_Never(p) == FALSE /\ UNCHANGED vars

\* Every two seconds: exit if the parent is another one.
ParentWatchdog(p) ==
    /\ proc[p] = "watching" /\ p <= old
    /\ Exited(p)
    /\ UNCHANGED <<editor, manifestEmpty, old, State, ProcessHandle, conn, inbox, moduleVars, panel>>

\* Listen, or exit when the port is taken.
Listen(p) ==
    /\ proc[p] \in {"watching", "orphan"} /\ port # p
    /\ IF port = Free
       THEN port' = p /\ UNCHANGED <<proc, server>>
       ELSE Exited(p)
    /\ UNCHANGED <<editor, manifestEmpty, old, State, ProcessHandle, conn, inbox, moduleVars, panel>>

Crash(p) ==
    /\ p \in Alive
    /\ Exited(p)
    /\ UNCHANGED <<editor, manifestEmpty, old, State, ProcessHandle, conn, inbox, moduleVars, panel>>

\* A server the plugin did not launch starts, or stops.
ExternalServer ==
    /\ \/ port = Free /\ port' = External /\ UNCHANGED server
       \/ /\ port = External /\ port' = Free
          /\ server' = IF Connected THEN [server EXCEPT !.next = "gone"] ELSE server
    /\ UNCHANGED <<editor, manifestEmpty, old, State, ProcessHandle, proc, conn, inbox, moduleVars, panel>>

-----------------------------------------------------------------------------
User == OpenPanel \/ ClosePanel \/ ClickGenerate \/ ClickCancel \/ ClickReconnect

ProcessStep(p) == ReadParent(p) \/ ParentWatchdog(p) \/ Listen(p)

Next ==
    \/ User \/ ShutdownModule \/ EditorKilled \/ StartEditor
    \/ TickReconnect \/ WatchdogTick \/ DispatchFrame
    \/ HandleConnected \/ HandleConnectionError \/ HandleClosed
    \/ Handshake \/ ServerSends
    \/ \E p \in Pids : ProcessStep(p) \/ Crash(p)
    \/ ExternalServer

Spec == Init /\ [][Next]_vars

\* The editor ticks, a connection attempt ends one way or the other, a peer
\* that is gone is noticed, the server answers, a process runs.
Fairness ==
    /\ WF_vars(TickReconnect) /\ WF_vars(WatchdogTick) /\ WF_vars(DispatchFrame)
    /\ WF_vars(HandleConnected \/ HandleConnectionError)
    /\ WF_vars(server.next = "gone" /\ HandleClosed)
    /\ WF_vars(Handshake) /\ WF_vars(ServerSends)
    /\ \A p \in Pids : WF_vars(ProcessStep(p))
FairSpec == Spec /\ Fairness

-----------------------------------------------------------------------------
(* Properties.                                                             *)

\* The type invariant; the attempt counter never goes below zero.
TypeOK ==
    /\ editor \in {"up", "shutdown", "killed"}
    /\ State \in SidecarStates
    /\ ProcessHandle \in Pids \cup {NoProcess}
    /\ proc \in [Pids -> ProcessStates]
    /\ old \in 0..MaxLaunches
    /\ manifestEmpty \in BOOLEAN
    /\ port \in {Free, External} \cup Pids
    /\ conn \in {"none", "connecting", "connected"}
    /\ ConnectAttemptsRemaining \in 0..MaxConnectAttempts
    /\ ReconnectTicker \in BOOLEAN
    /\ ActiveGenerationId \in Gens \cup {NoGen}
    /\ inbox \in Seq(Frames) /\ Len(inbox) <= MaxInbox
    /\ server \in ServerEnds
    /\ started \in 0..MaxGens
    /\ panel \in Panels

\* The panel's Cancel button always has a generation to cancel.
GeneratingHasGeneration ==
    panel.open /\ panel.State = "Generating" => ActiveGenerationId # NoGen

\* With no socket and no retry, the panel is not waiting, except for the
\* watchdog to notice that the child has died: else it offers Reconnect, or a
\* late frame has made it look idle.
NeverWaitingForNothing ==
    editor = "up" /\ panel.open /\ conn = "none" /\ ~ReconnectTicker =>
        /\ panel.State # "Generating"
        /\ panel.State = "StartingSidecar" => DeathUnnoticed

\* The two ends agree: the generation the server runs is the active one, and
\* an active one runs or its last frame is on its way to the module.
EndsAgree ==
    Connected /\ server.next # "gone" =>
        /\ server.gen # NoGen => server.gen = ActiveGenerationId
        /\ ActiveGenerationId \notin {NoGen, server.gen} =>
              \E i \in 1..Len(inbox) :
                  inbox[i].gen = ActiveGenerationId /\ inbox[i].kind \in {"complete", "error"}

\* The manager holds the editor's only live child, and a shutdown leaves none.
NoLeakedChild ==
    /\ {p \in Alive : p > old} \subseteq {ProcessHandle}
    /\ editor = "shutdown" => \A p \in Alive : p <= old

\* The children of an editor that died exit, whether or not another editor has
\* been started since and talks to them; only one that looked for its parent
\* too late watches the wrong process and stays.
OldChildExits ==
    []<>(\A p \in Alive : p > old \/ proc[p] = "orphan")

\* A panel that waits for a connection gets one, or says that it failed.
ConnectSettles ==
    editor = "up" /\ panel.open /\ panel.State = "StartingSidecar" /\ ~Connected
        ~> Connected \/ editor # "up" \/ panel.State # "StartingSidecar"

\* Every generation ends in the module: completed, failed, cancelled or cut off.
GenerationResolves ==
    \A g \in Gens : ActiveGenerationId = g ~> editor # "up" \/ ActiveGenerationId # g

\* AetherForgeEditorModule.h, of EnsureBackend: "Make the backend usable: launch
\* the sidecar if it is not running and connect".  So the panel that asked for
\* it does not say that the sidecar is starting forever.
StartingEnds ==
    editor = "up" /\ panel.open /\ panel.State = "StartingSidecar"
        ~> editor # "up" \/ panel.State # "StartingSidecar"
=============================================================================
