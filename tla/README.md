# AetherForge: specifications, model checking and proofs

AetherForge turns a prompt into an environment in the Unreal editor. A Go
process, the *sidecar* (`src/backend`), asks a language model for a recipe (how
many of which asset), places the assets and streams them over a WebSocket. An
editor plugin (`src/unreal/AetherForge`) launches the process, connects, shows a
panel and spawns what it receives a few milliseconds per tick. The protocol
between them is `src/contract/README.md`.

This directory models that system in TLA+, checks small instances with TLC and
proves, with TLAPS and for every instance, all safety properties that the
passing runs check.

    tlc -config MCOrchestrator.cfg MCOrchestrator.tla
    tlapm ConnectionProofs.tla

## The system

| Component | State it keeps | Operations | Talks to |
| --- | --- | --- | --- |
| Orchestrator (`orchestrator.go`) | `cur`, one goroutine per generation, its context | `Generate`, `Cancel`, `Shutdown`, `run` | LLM client, placement, the connection's sender |
| Recipe stage (`orchestrator.go`) | the prior error of a retry | `recipeWithRetry`, `validateRecipe`, `clampCounts` | called by `run`; LLM client |
| Placement engine (`placement.go`) | spatial hash, placed entries, attempts | `Place` | called by `run` |
| WebSocket server (`server.go`) | per connection a read loop, a read deadline, a mutex around the socket, an orchestrator | handshake, routing, errors, close | orchestrator, manifest store, the plugin |
| Manifest store (`store.go`) | a map under a lock | `Set`, `Ready`, `Snapshot` | set by the handshake, read by `run` |
| LLM clients (`llm/`), record and replay | recordings on disk | `GenerateRecipe`, record, replay | called by the recipe stage |
| Server process (`main.go`) | the parent's pid | parent watchdog, listen | the editor process |
| Client (`AetherForgeClient.cpp`) | socket, raw and parsed queue, worker flag | connect, disconnect, shutdown, socket events, parse worker, dispatch ticker | the server; module and panel by delegates |
| Editor module (`AetherForgeEditorModule.cpp`) | attempts left, retry ticker, active generation | ensure backend, retry, start, cancel, route, shutdown | client, spawner, sidecar manager, panel |
| Sidecar manager (`AetherForgeSidecarManager.cpp`) | process handle, state | launch, watchdog, terminate | the child process; panel by a delegate |
| Panel (`SAetherForgePanel.cpp`) | its state | buttons and handlers of every event | module, and every delegate |
| Spawner (`AetherForgeSpawner.cpp`) | open transaction, per-category load state, ready queue, statistics | begin, enqueue, end, tick, load callback, finalize | module, the engine's asset loader |
| Protocol (Go and C++), manifest asset | none | encode, decode, validate | everyone |

What makes each part correct, and hard:

- **Orchestrator.** One generation at a time on a connection, while cancels, new
  requests and disconnects arrive at any point of the running pipeline and its
  writes can block. Frames of two generations must not mix, a running generation
  must stay reachable, a cancelled one must fall silent, every one must be
  answered, and waiting for the old goroutine must not block for good.
- **Server.** Its own errors and a generation's frames share a socket that takes
  one writer, its read deadline must go when hello came, and a bad frame may
  arrive while a generation streams. A refusal is final, junk never harms a
  generation, and the handler always comes back to its read or closes.
- **Client.** Three kinds of thread and two lock-free queues: no frame lost,
  doubled or reordered, and no lost wake-up between "the queue is empty" and
  "the flag is cleared".
- **Spawner.** Asset loads end in any order, fail, or call back into a later
  generation, while chunks, discards and completes keep coming. Every entry is
  accounted for and every generation is one finalized transaction.
- **Session** (module, panel, sidecar manager, processes). Reconnects by ticker
  and by hand, children that crash, an editor that dies and is started again,
  late frames of cancelled generations, a port that someone else may own. No
  leaked child, no stuck panel, the two ends agree on the active generation.
- **Placement and recipes.** Arithmetic at boundaries: neighbour cells, zero
  radii, footprints as large as the bounds, rounding at the caps. A retry, a
  failed write or an older recording must not change what a replay answers.
- **Protocol.** Two decoders written apart must refuse the same fields at every
  depth, and a 64-bit seed passes through a double on its way back.

`PROJECT.json` lists the hazards with the line where each bites and the property
that covers it, or why none does yet.

## The modules

| Module | Models | Run with |
| --- | --- | --- |
| `GenerationStream` | what a connection promises about its generations, without goroutines or sockets | refined by `Orchestrator` and `Server` |
| `Orchestrator` | `Generate`, `Cancel`, `Shutdown`, `run` and everything it calls | `MCOrchestrator` |
| `Server` | a connection, over the actions of `Orchestrator` | `MCServer` |
| `Client` | the plugin's WebSocket client | `MCClient` |
| `Spawner` | the spawn queue | `MCSpawner` |
| `Session` | module, panel, sidecar manager and processes, with client and server reduced to what the modules above establish | `Session` |
| `Recipe` | `recipeWithRetry` with its clients, recordings and their replay, `validateRecipe`, `clampCounts` | `MCRecipe` |
| `Placement` | `Place` and its spatial hash | `MCPlacement` |
| `Protocol` | the message types of both ends, what each builds and how each decodes | `Protocol` |
| `ConnectionProofs` | the theorems about `Orchestrator` and about `Server` | TLAPS |
| `ClientProofs`, `SpawnerProofs`, `SessionProofs`, `PlacementProofs`, `RecipeProofs`, `ProtocolProofs` | the theorems about the module of that name | TLAPS |
| `DataLemmas` | facts about finite sets, sums and sequences that these use | TLAPS |

Every definition that stands for code is listed in `PROJECT.json` under `map`
with its lines. Definitions named `X_Something` with a comment "Mutant" are
deliberate mistakes. Put in the place of `X` one makes a property fail, which
shows that the property depends on that line; no specification uses them.

### Orchestrator

The *handler* is the connection's read loop; it calls `Generate`, `Cancel` and
finally `Shutdown`, one at a time. `Generate` is not one step: it takes `cur`
(`GenerateTake`), cancels the old context (`CancelOld`), waits for `old.done`
and launches (`Launch`). `Shutdown` takes the same first steps. `id`, `cancelAt`
and `pc` belong to the `*generation` structs, numbered in launch order. The
goroutine goes through `Start`, the LLM call and its one retry (`LLMValid`,
`LLMInvalid`, `LLMFails`), `Report`, `Place`, `PlaceFailed`, and then for plan,
chunks and complete alike `SendCheck` (the look at `ctx.Done()`) and `SendWrite`
(the write). They are two steps, since a cancel may be handled in between.
`Exit` clears `cur` if it is still this generation, and `CloseDone` closes the
channel.

`out` is everything written on the socket and `taken` how much the client has
read: a write blocks while `SocketCap` frames are unread, as the code sets no
write deadline. After `PeerClose` writes fail. `cancelAt[g]` is the length of
`out` when `g` was cancelled; it records history and guards nothing but
`Cancelled(g)`. The LLM call's outcome is open, with two rules from Go's
contexts: the call ends as cancelled only if the generation is, and as timed out
only if the deadline came first. Placement returns any number of entries or
fails; `Placement` says which.

`GenerationStream` has one `phase` per generation and the same `out`. Its `Emit`
allows a frame only if it may follow the generation's earlier ones: plan, then
chunks of `ChunkSize` (a short last one) that add up to the plan, then complete,
or an error in place of all of it, and one frame at most after a cancel. `Speak`
leaves the connection its own frames, of no generation, in between. The
refinement maps the goroutine's `pc` and its context to a phase.

### Server

`Server` extends `Orchestrator` and uses its actions as they are. What it adds
is who takes them and when. `conn` is where `handleWS` stands, `reply` the error
it is about to send, `writing` who is inside `WriteJSON`. A goroutine's write of
`Orchestrator` becomes two steps: `LockForFrame` takes the sender's mutex,
`WriteFrame` writes and gives it back; `LockForReply` and `ReplyWrite` do the
same for the read loop's errors. `CallStep` are the handler's steps inside
`Generate` and `Cancel`, during which it reads nothing. `deadline` says that the
socket has a read deadline: `DeadlineFires` is the timer, before hello only if
`ReadHello` clears it.

The client is any program: it sends hellos with and without categories,
generates, cancels, frames of another version and junk (malformed, or of a type
that only servers send, which the read loop answers alike), reads at its own
pace and leaves at any point. `MaxSent` frames bound a connection. Frames of the
handler have the generation `None`, which makes them `Speak` in
`ServedImplementsStream`. Text of errors is left out.

### Client

The game thread, the network and up to three parse workers. `HandleRawMessage`
enqueues, then `KickWorker` tries the flag. A worker is in `Dequeue`, `Parse`,
`ClearFlag`, `Recheck` (is the queue empty?) or `Reacquire`, one step each, as
other threads run in between. `TickBegin`, `Dispatch` and `TickEnd` drain the
parsed queue. `arrived` and `fired` record the frames that came in and those
that were dispatched; connected and closed events do not pass through the
queues. A queue operation of the engine's `TQueue` is atomic, and a scheduled
task runs eventually. A delegate's handlers run inside `Dispatch`. Their calls
back into the client are calls of the module and come between ticks.

### Spawner

The spawner lives on the game thread, so calls, ticks and load callbacks are
atomic, and their order is open. Entries are counted per category, not
described. How many fit in a 2 ms tick, and which of them find no ground or no
usable asset, is open. `loads` holds the engine's requests, whose callbacks may
arrive when their generation is over.

### Session

Everything of the plugin runs on the game thread: a handler with the delegates
it broadcasts is one step. An event's handler of the panel runs before the
module's. The engine calls multicast delegates in the reverse of the order they
were bound, and the module binds first. `inbox` stands for the client's two
queues: in order, and kept across sockets, as the code does. Connected, error
and closed events overtake it, as they do in the code. `server` is the
connection's other end, reduced to what `Orchestrator` establishes: streams one
after another and at most one frame after a cancel. It reads requests at once.
`proc` is each child process: started, watching its parent, orphaned (it read
its parent's pid after the editor had died) or exited. `EditorKilled` loses the
editor's state and leaves the children, which `old` counts; `StartEditor` starts
another editor next to them. `port` says who listens, and a server that the
plugin did not launch may come and go. A child may be dead by the time `Launch`
returns, in which case no further attempt is scheduled and the manager notices
at the watchdog's next tick (`DeathUnnoticed`). The parent watchdog is that of
Unix, where orphans get another parent. A socket's state and the event that
tells of it change together.

### Recipe and Placement

`Recipe` follows one prompt from the first call of the model to the recipe that
is placed, twice: with a live client that a `RecordingClient` wraps, and then
with a `ReplayClient` over the same directory. `LiveAnswer`, `LiveInvalid` and
`LiveFails` are what the live client may return (`OllamaClient` leaves out the
categories of count zero and reports output that is no JSON, `FakeLLM` does
neither), `Validate` and `Retry` are `recipeWithRetry`, `Clamp` is
`clampCounts`. `dir` maps the key of a call to its file, which may be stale,
torn or missing. With one prompt, a key is the error fed back. The key does not
hold the manifest either, which is constant in the model: a recording made with
another manifest is a stale one. `Wanted` is the loop of `ollama.go` that drops
the zero counts. `float64(count) * scale` is exact up to its last bits, so a
quotient that is a whole number may come out one lower (`Products`).

`Placement` throws one dart per step. Any order that the sort may produce is one
of `Sortings`; a recipe that reaches it was validated and names no category
twice. Coordinates and radii are integers, the random stream is a choice, and
clustering is covered since a clustered dart is clamped into the same rectangle
any dart may land in. Yaw, scale and tags are left out. What holds for integers
says nothing of rounding in the overlap test.

### Protocol

A frame is a JSON value: a function from the positions in it to what stands
there, where a position is the sequence of names (an index is a name too) that
leads to it. So the decoders, which in the code call themselves for what is
inside, are statements about positions: `GoFits` and `Imports` ask of each
position whether the type there (`TypeAt`) takes what stands there, and
`Compared` says which positions `FindUnknownField` comes to. `ServerFrames` and
`ClientFrames` are what the two ends build, `Change` is what another version or
another program makes of a frame: a field added, removed or null, an object
where a scalar was, another number, at any depth. `Receive` decodes it: `Decode`
is the Go decoder with its strictness, `ParseServerMessage` the plugin's, with
the comparison of the frame and the re-exported struct (`HasUnknownField`). The
engine's converter (`Imports`, `Imported`) is external: it skips null, ignores
unknown keys and turns a scalar of another kind into an empty one. Numbers are
integers of `SeedBits` bits and a double keeps `MantissaBits` of them (63 and 53
in the code), so `ServerSeeds`, the shift by 11 bits, scales with them.

## What the runs check

| Run | Checks | Bounds |
| --- | --- | --- |
| `orchestrator` | `TypeOK`, `StreamsNeverInterleave`, `OneRunning`, `RunningIsReachable`, `AtMostOneLateFrame`, `QuietAfterShutdown`, `ImplementsStream` | 2 generations, 0 to 3 entries in chunks of 2, a socket that holds 1 frame, 2 ids |
| `server` | `ServerTypeOK`, `RefusalIsFinal`, `EndsForCause`, `ServedImplementsStream`, `AlwaysBackToReading`, `EveryGenerationAnswered` | 3 frames of the client, 2 generations of 0 or 1 entry, 1 frame unread in each direction |
| `client` | `TypeOK`, `OneDrains`, `FramesKeepOrder`, `RawIsWatched`, `EveryFrameDispatched` | 2 sockets with 2 frames each, 3 workers |
| `spawner` | `TypeOK`, `EntriesAccounted`, `OneTransactionEach`, `WaitingIsLoading`, `CompleteIsFinalized` | 2 generations of 3 entries, 3 categories and an unknown one |
| `session` | `TypeOK`, `GeneratingHasGeneration`, `NeverWaitingForNothing`, `EndsAgree`, `NoLeakedChild`, `ConnectSettles`, `GenerationResolves`, `OldChildExits` | 2 attempts, 2 generations, 2 launches, 2 undispatched frames, any number of editors |
| `placement` | `TypeOK`, `FootprintsFit`, `CountsMatch`, `HashIsExact` | a grid of 7 x 5 positions, radii 0, 1, 2 and 3, 2 attempts, 6 recipes |
| `recipe` | `TypeOK`, `CapsAreKept`, `ReplayRepeats` | up to 4 items, caps 4 and 5, counts -1 to 5, 5 directories to begin with |
| `protocol` | `StructsAreStrict`, `SentIsUnderstood` | every kind of message, 2 changes, seeds of 3 bits and a sign, doubles of 2 bits |

Why the bounds are enough: a generation only ever meets its predecessor (the
proof shows that at most one is active), so two of them reach every encounter,
and three entries in chunks of two give the plan, a full chunk, a short chunk,
and with fewer entries no chunk at all. A socket that holds one frame makes
every write block that can. A third worker is needed for the client, since one
may still be leaving while a second drains and a third is started. Three frames
of a client are a hello and two requests, so that junk, a second hello, another
version or a cancel meets a running generation, and a generate meets another.
Two generations let a load callback arrive in the wrong one. Two attempts give a
first and a last, retried one. Two launches give a crash and a relaunch, or a
child of a dead editor next to one of the living. The recipes of `placement`
include two radii, radius 0, one that leaves a single row of positions, one that
fits along one axis and not the other, and an unknown category. Two changes to a
frame let one hide the other, for instance an unknown field in an element whose
own field is missing; seeds are one bit wider than a double, so that some are a
tie of rounding and one rounds up to the next power.

Deadlock is checked in every run but `placement`, a function that returns. The
modules whose components end have a step (`Finished`, `Received`) for the state
in which nothing is left to run.

### Fairness

- Server, with the orchestrator in it: the handler and the goroutines are
  scheduled (weak fairness), the LLM call returns within `LLMTimeout`, a read
  deadline that is set fires, and a client that is connected keeps reading,
  which the plugin's game thread does every frame. What it sends, and when it
  leaves, is free. Without the assumption that the client reads,
  `AlwaysBackToReading` fails: `Generate` waits for a goroutine that is blocked
  in a write without a deadline.
- Client: the engine ticks and its task graph runs every task. Strong fairness
  of `KickWorker` undoes the bound on workers only. In the code it never waits
  for one.
- Spawner: the editor ticks; a load that was requested and not cancelled ends.
- Session: tickers fire, an attempt to connect succeeds or fails, a peer that is
  gone is noticed, the server answers, processes run. Users, crashes and foreign
  servers are free.

### Where the program disagrees with its documents

Four runs expect a violation, each of one property that quotes a document or
comment:

| Run | Property | What happens |
| --- | --- | --- |
| `client_two_workers` | `SingleActiveWorker` | a worker that cleared the flag asks `RawInbound.IsEmpty()` (`AetherForgeClient.cpp:227`) while the next one dequeues, though the queue has one consumer |
| `session_starting` | `StartingEnds` | Reconnect while the client is connected leaves the panel in StartingSidecar (`SAetherForgePanel.cpp:294`) |
| `replay_retry` | `RecordedRunReplays` | output that is no recipe JSON is not recorded, but its retry is (`recordreplay.go:46`), so the replay of a generation that succeeded fails; `ReplayRepeats` is what holds |
| `protocol_scale` | `PerAxisScaleIsRejected` | the plugin accepts an object as `scale` and reads it as 0, since the comparison looks into an object only if the exported value is one too (`AetherForgeProtocol.cpp:59`); `StructsAreStrict` is what holds |

Others were noticed while modelling and have no run of their own:

- The contract says that no `complete` follows a cancellation
  (`contract/README.md:58`, and the comment at `orchestrator.go:135`). A cancel
  handled between the check and the write of `send` (`orchestrator.go:348`) is
  followed by one more frame, which may be the complete. `AtMostOneLateFrame` is
  what holds.
- A comment says of a sidecar that is dead by the time `Launch` returns that
  "the sidecar error state has the detail" (`AetherForgeEditorModule.cpp:215`).
  The manager's state is still Running then, so the panel shows StartingSidecar,
  with no retry coming, until the watchdog's next tick. This is the exception
  `DeathUnnoticed` in `NeverWaitingForNothing`.
- `reportRecipeError` says a cancellation produces no message at all, but a
  cancelled generation whose LLM call timed out first sends `llm_timeout`
  (`orchestrator.go:329`). It is counted by `AtMostOneLateFrame`.
- Categories raised to one asset after scaling exceed the global cap
  (`orchestrator.go:319`): three categories of 2000 and a hundred of 1 come out
  as 5017. `CapsAreKept` bounds by how much.
- `HandleComplete` shows ConnectedIdle whatever the state was, so a complete
  still queued when the sidecar died hides the error state and its Reconnect
  button (`SAetherForgePanel.cpp:503`, against
  `unreal/AetherForge/README.md:48`).
- The contract says that validators reject a category that is not in the
  manifest; `ValidateChunkCategories` and `ValidateCategories` are called by
  tests only. The spawner skips such entries.
- Missing required fields are accepted by both decoders, as zero values, save
  for those that `Checks` names.
- A seed of the user's beyond 53 bits is used exactly but comes back rounded in
  the plan, and the panel puts that value into its seed field "so the result is
  reproducible" (`SAetherForgePanel.cpp:465`); `AetherForgeProtocolTypes.h:334`
  states the limit.
- The plugin connects with an empty manifest "so the handshake still works"
  (`unreal/AetherForge/README.md:78`); the server refuses it (`server.go:158`).
- A closed event, which does not pass through the queues, is dispatched before
  frames that arrived earlier (`AetherForgeClient.cpp:171`, against
  `AetherForgeClient.h:24`), and frames queued before a reconnect are dispatched
  after it.
- After a failed load `PendingCount` still counts entries that were skipped
  (`AetherForgeSpawner.cpp:194`). `EntriesAccounted` says it never counts too
  few.
- The panel counts late chunks of a cancelled generation in the progress of the
  next (`SAetherForgePanel.cpp:479`).
- A child that reads its parent's pid after the editor died watches the wrong
  process and stays (`main.go:37`); it is the state `orphan` of `Session`.
- The contract says that a cancel stops the placement loop; `Place` takes no
  context.

## What is proved

Every safety property that the passing runs check is a theorem, for every value
of the constants. No theorem uses fairness. Those listed in `PROJECT.json` are
these:

| Module | Theorem | States |
| --- | --- | --- |
| `ConnectionProofs` | `SpecIndInv`, `TypeCorrect`, `NeverInterleave`, `AtMostOneRuns`, `NoGenerationIsLost`, `LateFramesBounded` | the inductive invariant, `TypeOK`, `StreamsNeverInterleave`, `OneRunning`, `RunningIsReachable`, `AtMostOneLateFrame` |
| | `LaunchFindsNoneRunning`, `NothingAfterShutdown` | a step that launches finds every generation stopped; `QuietAfterShutdown` |
| | `RefinesStream` | `ImplementsStream` |
| | `ServerSpecIndInv`, `OneWriterAtATime`, `RefusedStaysRefused`, `ServedEndsForCause` | the inductive invariant, `ServerTypeOK`, `RefusalIsFinal`, `EndsForCause` |
| | `OrchestratorGuaranteesHold` | `OneRunning`, `RunningIsReachable` and `AtMostOneLateFrame` with the real handler around them |
| | `ServedRefinesStream` | `ServedImplementsStream` |
| `ClientProofs` | `SpecTypeOK`, `SpecOneDrains`, `SpecRawIsWatched`, `SpecFramesKeepOrder` | `TypeOK`, `OneDrains`, `RawIsWatched`, `FramesKeepOrder` |
| `SpawnerProofs` | `SpecIndInv`, `SpecTypeOK`, `SpecEntriesAccounted`, `SpecOneTransactionEach`, `SpecWaitingIsLoading` | the inductive invariant, `TypeOK`, `EntriesAccounted`, `OneTransactionEach`, `WaitingIsLoading` |
| `SessionProofs` | `SpecIndInv`, `SpecTypeOK`, `SpecGeneratingHasGeneration`, `SpecNeverWaitingForNothing`, `SpecEndsAgree`, `SpecNoLeakedChild` | the inductive invariant, `TypeOK`, `GeneratingHasGeneration`, `NeverWaitingForNothing`, `EndsAgree`, `NoLeakedChild` |
| `PlacementProofs` | `SpecTypeOK`, `SpecFootprintsFit`, `SpecCountsMatch`, `SpecHashIsExact` | `TypeOK`, `FootprintsFit`, `CountsMatch`, `HashIsExact` |
| `RecipeProofs` | `SpecTypeOK`, `SpecCapsAreKept`, `SpecReplayRepeats` | `TypeOK`, `CapsAreKept`, `ReplayRepeats` |
| | `ClampedIsPlaceable` | a clamped recipe is one that `Placement` may assume |
| `ProtocolProofs` | `SpecIndInv`, `SpecStructsAreStrict`, `SpecSentIsUnderstood` | the inductive invariant, `StructsAreStrict`, `SentIsUnderstood` |

### What is assumed of the constants

- Bounds are natural numbers, and where zero of something makes no sense,
  positive: chunk size, socket and queue capacity, attempts at a dart. `Workers`
  and `Cats` are finite.
- `MaxConnectAttempts >= 2`; it is 10 in the code.
- `boundsMin` and `boundsMax` are corners with any integer coordinates: bounds
  the wrong way round make `Place` fail. Radii are natural numbers.
- `RecipesAssumption`: a recipe to place has natural counts and no category
  twice. `ClampedIsPlaceable` proves that of what `Recipe` lets through.
- `RecipeAssumption`, `StaleDirsAssumption`: the manifest's categories are
  categories, what a model may answer is a list of categories with integer
  counts, of any sign, and so is what a readable file in the directory holds.
  The cap of a category is at least one.
- `ProtocolAssumption`: a double keeps at least two bits and at most those of a
  seed, 53 of 63 in the code. Two bits hold the small whole numbers in the
  frames that the ends build.

### The arguments

None of the invariants is inductive alone. In each module `IndInv` puts together
what is needed. It was checked by TLC before it was proved.

**Orchestrator.** That frames do not interleave needs to know that only the
latest generation can write. That needs to know that `Launch` finds the old one
finished, which needs to know who holds the struct of the generation that is
active.

- `ActiveIsHeld`: an active generation is the one launched last, and `cur` or
  the handler's `old` holds it; both are empty or that one, and each only in the
  handler states where the code sets it. `OneRunning` and `RunningIsReachable`
  follow.
- `LaunchOrder`: generations are launched in order, and one that was not
  launched is not cancelled.
- `FramesInOrder`: no frame is of a generation not yet launched, and frames are
  in order.
- `OffsetInRange`: the chunk offset stays within the placed entries.
- `LateFrameStops`: once a frame has followed a cancellation, the goroutine is
  at a check or past its writes, so `SendCheck` ends it.

`GenStepFacts` and `GenStepWrites` say once what every step of a goroutine
changes and when it writes, `OthersDoNotWrite` covers the rest, and there is one
lemma per conjunct. All but `FramesInOrder` is `Core(F)`, whose lemmas hold for
a socket that carries any frames F besides those of the generations, so that the
lemmas about `Server` can use them on a socket with replies.

**The refinement.** `StreamInv` says which frames of a running generation are on
the wire: none while its stage is `plan`; after that its plan, of the size
`total`, and chunks that add up to `off`, and the stage is `chunk` exactly while
something is left. So the frame that `SendWrite` or `ErrorWrite` sends is one
that may follow (`FrameMayFollow`), and one may still be sent after a cancel
because of `LateFrameStops`. `GenStepRefines`, `CancelRefines` and
`LaunchRefines` map the steps to `Emit` or `Stop`, to `Cancel` and to `Open`;
the last is where `ActiveIsHeld` is needed once more, since a stream opens only
when all earlier ones are over.

**Server.** Every step is one of the orchestrator, the reading of the hello or
the writing of a reply (`StepOfOrchestrator`). `CallOrder` says which call the
handler may be in at each stage of the connection, `ReplyOrder` what it may be
about to say; a reply is only pending outside `Generate` and `Shutdown`. That
the mutex is held by who is about to write needs `OnlyTheWriterLeaves`.

**Client.** `OneDrains` comes first: with one worker draining, the frame in hand
is well defined, and each step moves one frame from the head of a sequence to
the end of the one before it, which leaves their concatenation as it was.

**Spawner.** `NumPendingEntries` is a sum over categories; a step changes one of
its parts (`SumExcept`) or moves it all (`Enqueue`, a callback, a discard).
`OpenIsLast` says that the open generation is the last begun, which makes the
transactions come in order, and `RequestedIsLoading` that a load asked for and
neither failed nor loaded is under way for the open generation, so that a
callback of an earlier one is told apart.

**Session.** `TickerHasAttempts` keeps the counter from passing zero,
`LaunchOrder` says which children there have been, `EditorGone` what an editor
leaves behind, `ActiveNeedsSocket` that a closed socket cuts a generation off.
`EndsAgree` needs that no frame in the queue is of a generation not yet started
(`OnlyStarted`) and that the last frame of the one that runs has not been sent
(`RunningIsUnfinished`). The handlers' shared operators (`Launch`, `Retry`,
`Shows`) have lemmas of their own.

**Placement.** No footprint of the recipe is larger than the radius the hash was
built for (`HashReaches`), so two that overlap are in cells whose distance a
query covers. This is an argument about integer division (`Floor`,
`TimesMonotonic`) and gives `HashIsExact` for every coordinate, also negative
ones; `FootprintsFit` follows. `ItemsInTurn` counts: items before the current
one are complete, those after it untouched, as no category comes twice.

**Recipe.** The clamp's bound on the total holds because each scaled count is at
most its share, except for the categories raised to one (`SharesBound`), however
the products were rounded. For the replay, `Recorded` says that while every
answer was recorded each is on disk under the error of the one before, and how a
generation that goes by the disk ends (`EndsOnDisk`). A live retry writes under
another key than the first call, since its error is not empty.

**Protocol.** The invariant itself says little: a frame is a JSON value, and the
one its end built until something changes it, and a result is the decoder's.
That a change leaves a value (`ChangedValue`) is all that its steps need; the
content is in what the decoders make of a value. For `StructsAreStrict`, take a
position in an accepted frame that a struct lacks. The Go decoder refuses it by
itself. The plugin's converter ignores it, so the comparison must find it: on
the way there is a first position that the struct lacks (`StrictImport`),
everything before it has the kind of its type on both sides, hence is compared,
so the comparison comes to it. That both ends have the same types below a
message of the server is `SameTypes`, from the tables field by field. For
`SentIsUnderstood`, the operator `Meant` says that at every position of a value
stands what its type wants, that no struct lacks a field and no whole number is
more than a double holds. It is true of an object or an array when it is true of
its members (`MeantTree`), so each frame is put together from its parts;
`FramedMessage` adds the header. A seed that was requested may be larger and has
steps of its own (`PlanRead`, `GenerateRead`). The seeds need arithmetic: a
number of at most `MantissaBits` bits comes back as it was (`RoundExact`), the
server's seeds have no more (`PowerOfSum`), and the small numbers in the frames
fit.

**Data.** Sums, `Max` and `Sortings` need induction over finite sets. The
library's induction theorems take a predicate as a parameter, which the provers
cannot instantiate, so `DataLemmas` states induction over the set of what has
the property: `NatSetInduction` from the well-foundedness of `<`, and
`SubsetInduction`. From these come `MaxFacts`, that the fold of the community
modules exists and follows its equations (`SumExists`, `SumStep`), and how a sum
changes.

## What is only checked

- Liveness, which is outside the prover's reach: `AlwaysBackToReading`,
  `EveryGenerationAnswered`, `EveryFrameDispatched`, `CompleteIsFinalized`,
  `ConnectSettles`, `GenerationResolves`, `OldChildExits`.

## What is not modelled

- The text of prompts and schemas and the HTTP exchange with Ollama: the
  outcomes of a call are modelled, not how they come about.
- JSON as text, case-insensitive keys, numbers with fractions or exponents.
- The chunk validators of both ends, which only tests call, and `ReplayClient`
  with more than one prompt.
- Flags, logging and the listener's set-up in `main.go`.
- Widgets, logs, progress, the seed and area fields of the panel; terrain
  traces, instanced meshes and transforms of the spawner.
- Floating point in the placement; the identity of random streams, and with it
  "identical inputs give identical output", which is determinism of a pure
  function.
- Eight-digit generation ids are unique in the models.

## Plan

Done: `Orchestrator` with its abstract stream and its proofs first, as every
other part relies on the order of the frames; the client and the spawner, the
two ends of the plugin's pipeline; the session that ties them to the processes,
with their crashes and restarts; the connection around the orchestrator; then
the functions: placement, recipes with their recordings, and the wire.

Then the proofs, in the same order as far as one rests on another: the
orchestrator, the connection around it and their refinement of
`GenerationStream`; the client, the spawner, the session; the functions, the
wire last.

Left: `Session` reduces the server's end of the connection to what
`Orchestrator` establishes. A refinement that says so needs a stream spec that
both have in common.
