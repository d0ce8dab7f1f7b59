---------------------------- MODULE Orchestrator ----------------------------
(***************************************************************************)
(* The generation lifecycle of one WebSocket connection:                   *)
(* src/backend/internal/orchestrator/orchestrator.go.                      *)
(*                                                                         *)
(* Two kinds of goroutine share the Orchestrator: the connection's handler *)
(* goroutine, the only caller of Generate, Cancel and Shutdown, and one    *)
(* goroutine per generation, which runs the pipeline                       *)
(*   LLM (at most two calls) -> placement -> plan -> chunk... -> complete. *)
(* They share the field `cur' (under a mutex), the generation's context    *)
(* and its done channel.  Every lock region, channel wait, context check   *)
(* and socket write is a step of its own.                                  *)
(***************************************************************************)
EXTENDS Integers, Sequences

CONSTANTS GenIds,      \* generation ids a client may send
          MaxGens,     \* bound: Generate calls on the connection
          MaxAssets,   \* bound: entries one placement returns
          ChunkSize,   \* Orchestrator.chunkSize
          SocketCap    \* frames the socket holds before a write blocks

ASSUME OrchestratorAssumption ==
    /\ MaxGens \in Nat
    /\ MaxAssets \in Nat
    /\ ChunkSize \in Nat \ {0}
    /\ SocketCap \in Nat \ {0}

Handles == 1..MaxGens          \* the *generation structs, in launch order
None == 0                      \* a nil *generation
AnyId == "any"                 \* the empty id of a cancel
NotCancelled == -1

LLMErrors  == {"timeout", "invalid", "other", "cancelled"}
ErrorCodes == {"internal", "llm_timeout", "llm_invalid_output"}
Stages     == {"plan", "chunk", "complete"}
Frames     == [gen : Handles, kind : Stages \cup ErrorCodes, size : 0..MaxAssets]

HandlerPcs == {"idle", "cancelOld", "awaitOld", "returned"}
GenPcs     == {"none", "start", "llm", "report", "place", "placeFailed",
               "check", "write", "writeError", "exit", "closing", "done"}

VARIABLES
    handler,   \* where the handler goroutine is
    op,        \* the call it is in: "none", "generate" or "shutdown"
    old,       \* the generation that call took out of cur
    cur,       \* Orchestrator.cur
    ready,     \* store.Ready(): the handshake has stored a manifest
    launched,  \* generations launched so far
    pc,        \* where each generation goroutine is
    id,        \* generation.id
    cancelAt,  \* the generation's context: NotCancelled, or the number of
               \* frames on the wire when it was cancelled
    attempt,   \* LLM calls begun by recipeWithRetry
    failure,   \* the error the recipe stage ended with, then the code to send
    stage,     \* the message about to be checked or written
    total,     \* len(entries)
    off,       \* entries already streamed
    out,       \* every frame written to the socket, in order
    taken,     \* how many of them the client's side has read
    peerGone   \* the socket is closed: reads and writes fail

handlerVars == <<handler, op, old>>
localVars   == <<id, attempt, failure, stage, total, off>>
socketVars  == <<out, taken, peerGone>>
vars == <<handlerVars, cur, ready, launched, pc, localVars, cancelAt, socketVars>>

Cancelled(g) == cancelAt[g] # NotCancelled

\* The generation may still write: its run() has not returned.
Running(g) == pc[g] \notin {"none", "exit", "closing", "done"}

Init ==
    /\ handler = "idle" /\ op = "none" /\ old = None
    /\ cur = None
    /\ ready \in BOOLEAN
    /\ launched = 0
    /\ pc = [g \in Handles |-> "none"]
    /\ id = [g \in Handles |-> AnyId]
    /\ cancelAt = [g \in Handles |-> NotCancelled]
    /\ attempt = [g \in Handles |-> 0]
    /\ failure = [g \in Handles |-> "none"]
    /\ stage = [g \in Handles |-> "plan"]
    /\ total = [g \in Handles |-> 0]
    /\ off = [g \in Handles |-> 0]
    /\ out = << >>
    /\ taken = 0
    /\ peerGone = FALSE

-----------------------------------------------------------------------------
(* The handler goroutine.                                                  *)

\* Generate: the first lock region takes the in-flight generation.
GenerateTake(i) ==
    /\ handler = "idle" /\ launched < MaxGens
    /\ op' = "generate"
    /\ id' = [id EXCEPT ![launched + 1] = i]     \* the request, kept for Launch
    /\ old' = cur /\ cur' = None
    /\ handler' = IF cur = None THEN "awaitOld" ELSE "cancelOld"
    /\ UNCHANGED <<ready, launched, pc, attempt, failure, stage, total, off,
                   cancelAt, socketVars>>

\* Shutdown: the same lock region, run when the handler returns.
ShutdownTake ==
    /\ handler = "idle"
    /\ op' = "shutdown"
    /\ old' = cur /\ cur' = None
    /\ handler' = IF cur = None THEN "awaitOld" ELSE "cancelOld"
    /\ UNCHANGED <<ready, launched, pc, localVars, cancelAt, socketVars>>

\* A context is cancelled once: later cancel() calls do nothing.
CancelContext(g) ==
    cancelAt' = [cancelAt EXCEPT ![g] = IF Cancelled(g) THEN @ ELSE Len(out)]

\* old.cancel()
CancelOld ==
    /\ handler = "cancelOld"
    /\ CancelContext(old)
    /\ handler' = "awaitOld"
    /\ UNCHANGED <<op, old, cur, ready, launched, pc, localVars, socketVars>>

\* Mutant: Generate and Shutdown do not wait for the old goroutine.
OldIsDone_NoWait == TRUE

\* <-old.done
OldIsDone == old # None => pc[old] = "done"

\* Mutant: the new generation is not recorded in cur.
Launch_Unrecorded ==
    /\ handler = "awaitOld" /\ op = "generate" /\ OldIsDone
    /\ launched' = launched + 1 /\ pc' = [pc EXCEPT ![launched + 1] = "start"]
    /\ handler' = "idle" /\ old' = None /\ op' = "none"
    /\ UNCHANGED <<cur, ready, localVars, cancelAt, socketVars>>

\* Generate's second half: a new context, cur = g, go func().
Launch ==
    /\ handler = "awaitOld" /\ op = "generate" /\ OldIsDone
    /\ LET g == launched + 1 IN
        /\ launched' = g
        /\ cur' = g
        /\ pc' = [pc EXCEPT ![g] = "start"]
    /\ handler' = "idle" /\ old' = None /\ op' = "none"
    /\ UNCHANGED <<ready, localVars, cancelAt, socketVars>>

\* Mutant: Shutdown cancels but returns at once.
ShutdownReturn_NoWait ==
    /\ handler = "awaitOld" /\ op = "shutdown"
    /\ handler' = "returned" /\ old' = None /\ op' = "none"
    /\ UNCHANGED <<cur, ready, launched, pc, localVars, cancelAt, socketVars>>

\* Shutdown returns, and with it the handler.
ShutdownReturn ==
    /\ handler = "awaitOld" /\ op = "shutdown" /\ OldIsDone
    /\ handler' = "returned" /\ old' = None /\ op' = "none"
    /\ UNCHANGED <<cur, ready, launched, pc, localVars, cancelAt, socketVars>>

\* Cancel: under the lock, and without waiting for the goroutine.
Cancel(i) ==
    /\ handler = "idle"
    /\ cur # None /\ (i = AnyId \/ id[cur] = i)
    /\ CancelContext(cur)
    /\ UNCHANGED <<handlerVars, cur, ready, launched, pc, localVars, socketVars>>

-----------------------------------------------------------------------------
(* The goroutine of generation g.                                          *)

Goto(g, p) == pc' = [pc EXCEPT ![g] = p]

FailWith(g, c) ==
    /\ failure' = [failure EXCEPT ![g] = c]
    /\ Goto(g, "writeError")

\* run: no manifest, no generation.
Start(g) ==
    /\ pc[g] = "start"
    /\ \/ /\ ready
          /\ attempt' = [attempt EXCEPT ![g] = 1]
          /\ Goto(g, "llm")
          /\ UNCHANGED failure
       \/ /\ ~ready
          /\ FailWith(g, "internal")
          /\ UNCHANGED attempt
    /\ UNCHANGED <<handlerVars, cur, ready, launched, id, stage, total, off,
                   cancelAt, socketVars>>

\* recipeWithRetry: the call returns a recipe that validateRecipe accepts.
\* A client may win the race against a cancellation, so no guard on it.
LLMValid(g) ==
    /\ pc[g] = "llm"
    /\ Goto(g, "place")
    /\ UNCHANGED <<handlerVars, cur, ready, launched, localVars, cancelAt, socketVars>>

\* Mutant: the retry bound is off by one.
LLMInvalid_ThirdCall(g) ==
    /\ pc[g] = "llm" /\ attempt[g] < 3
    /\ attempt' = [attempt EXCEPT ![g] = @ + 1]
    /\ UNCHANGED <<handlerVars, cur, ready, launched, pc, id, failure, stage,
                   total, off, cancelAt, socketVars>>

\* Schema-invalid output, from the client or from validateRecipe: one retry.
LLMInvalid(g) ==
    /\ pc[g] = "llm"
    /\ \/ /\ attempt[g] < 2
          /\ attempt' = [attempt EXCEPT ![g] = @ + 1]
          /\ UNCHANGED <<pc, failure>>
       \/ /\ attempt[g] = 2
          /\ failure' = [failure EXCEPT ![g] = "invalid"]
          /\ Goto(g, "report")
          /\ UNCHANGED attempt
    /\ UNCHANGED <<handlerVars, cur, ready, launched, id, stage, total, off,
                   cancelAt, socketVars>>

\* Any other error is not retried.  The call's context ends by whichever came
\* first, the generation's cancellation or the call's own deadline.
LLMFails(g) ==
    /\ pc[g] = "llm"
    /\ \E e \in LLMErrors \ {"invalid"} :
        /\ e = "cancelled" => Cancelled(g)
        /\ e = "timeout" => ~Cancelled(g)
        /\ failure' = [failure EXCEPT ![g] = e]
    /\ Goto(g, "report")
    /\ UNCHANGED <<handlerVars, cur, ready, launched, id, attempt, stage,
                   total, off, cancelAt, socketVars>>

\* Mutant: invalid output after the retry is not reported.
Report_SilentInvalid(g) ==
    /\ pc[g] = "report"
    /\ IF Cancelled(g) \/ failure[g] = "invalid"
       THEN Goto(g, "exit") /\ UNCHANGED failure
       ELSE FailWith(g, "internal")
    /\ UNCHANGED <<handlerVars, cur, ready, launched, id, attempt, stage,
                   total, off, cancelAt, socketVars>>

\* reportRecipeError: silent once cancelled, unless the error is a deadline.
Report(g) ==
    /\ pc[g] = "report"
    /\ IF Cancelled(g) /\ failure[g] # "timeout"
       THEN Goto(g, "exit") /\ UNCHANGED failure
       ELSE FailWith(g, CASE failure[g] = "timeout" -> "llm_timeout"
                          [] failure[g] = "invalid" -> "llm_invalid_output"
                          [] OTHER -> "internal")
    /\ UNCHANGED <<handlerVars, cur, ready, launched, id, attempt, stage,
                   total, off, cancelAt, socketVars>>

\* clampCounts, the seed and placement.Place, which takes no context: it
\* returns n entries, or fails (bounds too small, overcrowded).
Place(g) ==
    /\ pc[g] = "place"
    /\ \/ /\ \E n \in 0..MaxAssets : total' = [total EXCEPT ![g] = n]
          /\ Goto(g, "check")
       \/ Goto(g, "placeFailed") /\ UNCHANGED total
    /\ UNCHANGED <<handlerVars, cur, ready, launched, id, attempt, failure, stage, off, cancelAt, socketVars>>

\* Mutant: a placement error is logged and not sent.
PlaceFailed_Silent(g) ==
    /\ pc[g] = "placeFailed" /\ Goto(g, "exit")
    /\ UNCHANGED <<handlerVars, cur, ready, launched, localVars, cancelAt, socketVars>>

PlaceFailed(g) ==
    /\ pc[g] = "placeFailed"
    /\ IF Cancelled(g) THEN Goto(g, "exit") /\ UNCHANGED failure
                       ELSE FailWith(g, "internal")
    /\ UNCHANGED <<handlerVars, cur, ready, launched, id, attempt, stage,
                   total, off, cancelAt, socketVars>>

\* Mutant: the context is not looked at between frames.
SendCheck_Unchecked(g) ==
    /\ pc[g] = "check" /\ Goto(g, "write")
    /\ UNCHANGED <<handlerVars, cur, ready, launched, localVars, cancelAt, socketVars>>

\* send, first half: look at ctx.Done().
SendCheck(g) ==
    /\ pc[g] = "check"
    /\ Goto(g, IF Cancelled(g) THEN "exit" ELSE "write")
    /\ UNCHANGED <<handlerVars, cur, ready, launched, localVars, cancelAt, socketVars>>

CanWrite == ~peerGone /\ Len(out) - taken < SocketCap

Smaller(a, b) == IF a < b THEN a ELSE b
ChunkEnd(g)   == Smaller(off[g] + ChunkSize, total[g])

FrameOf(g) ==
    [gen |-> g, kind |-> stage[g],
     size |-> IF stage[g] = "chunk" THEN ChunkEnd(g) - off[g] ELSE total[g]]

\* send, second half: the write, which blocks while the socket is full.  A
\* cancellation that came after the check does not stop it.
SendWrite(g) ==
    /\ pc[g] = "write" /\ CanWrite
    /\ out' = Append(out, FrameOf(g))
    /\ off' = IF stage[g] = "chunk" THEN [off EXCEPT ![g] = ChunkEnd(g)] ELSE off
    /\ IF stage[g] = "complete"
       THEN Goto(g, "exit") /\ UNCHANGED stage
       ELSE /\ stage' = [stage EXCEPT ![g] =
                            IF off'[g] < total[g] THEN "chunk" ELSE "complete"]
            /\ Goto(g, "check")
    /\ UNCHANGED <<handlerVars, cur, ready, launched, id, attempt, failure, total, cancelAt, taken, peerGone>>

\* sendError: no look at the context at all.
ErrorWrite(g) ==
    /\ pc[g] = "writeError" /\ CanWrite
    /\ out' = Append(out, [gen |-> g, kind |-> failure[g], size |-> 0])
    /\ Goto(g, "exit")
    /\ UNCHANGED <<handlerVars, cur, ready, launched, localVars, cancelAt, taken, peerGone>>

\* A write on a closed socket fails, and the run ends.
WriteFails(g) ==
    /\ pc[g] \in {"write", "writeError"} /\ peerGone
    /\ Goto(g, "exit")
    /\ UNCHANGED <<handlerVars, cur, ready, launched, localVars, cancelAt, socketVars>>

\* The goroutine after run: clear cur unless a later call already took it.
Exit(g) ==
    /\ pc[g] = "exit"
    /\ cur' = IF cur = g THEN None ELSE cur
    /\ Goto(g, "closing")
    /\ UNCHANGED <<handlerVars, ready, launched, localVars, cancelAt, socketVars>>

\* The deferred cancel() and close(g.done); the goroutine's locals go with it,
\* and so does the struct, which nobody refers to by id any more.
CloseDone(g) ==
    /\ pc[g] = "closing"
    /\ Goto(g, "done")
    /\ attempt' = [attempt EXCEPT ![g] = 0]
    /\ failure' = [failure EXCEPT ![g] = "none"]
    /\ stage' = [stage EXCEPT ![g] = "plan"]
    /\ total' = [total EXCEPT ![g] = 0]
    /\ off' = [off EXCEPT ![g] = 0]
    /\ id' = [id EXCEPT ![g] = AnyId]
    /\ UNCHANGED <<handlerVars, cur, ready, launched, cancelAt, socketVars>>

GenStep(g) ==
    \/ Start(g) \/ LLMValid(g) \/ LLMInvalid(g) \/ LLMFails(g) \/ Report(g)
    \/ Place(g) \/ PlaceFailed(g) \/ SendCheck(g) \/ SendWrite(g)
    \/ ErrorWrite(g) \/ WriteFails(g) \/ Exit(g) \/ CloseDone(g)

-----------------------------------------------------------------------------
(* The other end of the socket.                                            *)

ClientRead ==
    /\ taken < Len(out) /\ ~peerGone
    /\ taken' = taken + 1
    /\ UNCHANGED <<handlerVars, cur, ready, launched, pc, localVars, cancelAt, out, peerGone>>

PeerClose ==
    /\ ~peerGone /\ peerGone' = TRUE
    /\ UNCHANGED <<handlerVars, cur, ready, launched, pc, localVars, cancelAt, out, taken>>

\* The connection is over: nothing is left to run.
Finished ==
    /\ handler = "returned" /\ \A g \in Handles : pc[g] \in {"none", "done"}
    /\ UNCHANGED vars

HandlerStep == CancelOld \/ Launch \/ ShutdownReturn

Next ==
    \/ \E i \in GenIds : GenerateTake(i)
    \/ \E i \in GenIds \cup {AnyId} : Cancel(i)
    \/ ShutdownTake
    \/ HandlerStep
    \/ \E g \in Handles : GenStep(g)
    \/ ClientRead \/ PeerClose \/ Finished

Spec == Init /\ [][Next]_vars

-----------------------------------------------------------------------------
(* Properties.                                                             *)

\* The types of the state, on a socket that carries frames of F.
TypeOver(F) ==
    /\ handler \in HandlerPcs /\ op \in {"none", "generate", "shutdown"}
    /\ old \in Handles \cup {None}
    /\ cur \in Handles \cup {None}
    /\ ready \in BOOLEAN
    /\ launched \in 0..MaxGens
    /\ pc \in [Handles -> GenPcs]
    /\ id \in [Handles -> GenIds \cup {AnyId}]
    /\ cancelAt \in [Handles -> Nat \cup {NotCancelled}]
    /\ attempt \in [Handles -> 0..2]
    /\ failure \in [Handles -> {"none"} \cup LLMErrors \cup ErrorCodes]
    /\ \A g \in Handles : pc[g] = "writeError" => failure[g] \in ErrorCodes
    /\ stage \in [Handles -> Stages]
    /\ total \in [Handles -> 0..MaxAssets]
    /\ off \in [Handles -> 0..MaxAssets]
    /\ out \in Seq(F)
    /\ taken \in Nat
    /\ peerGone \in BOOLEAN

\* The type invariant.
TypeOK == TypeOver(Frames)

\* Generate's comment "so streams never interleave": the frames of an earlier
\* generation all precede those of a later one.
StreamsNeverInterleave ==
    \A i, j \in 1..Len(out) : i < j => out[i].gen <= out[j].gen

\* Waiting out the old generation works: two pipelines never run at once,
\* also when Generate finds cur already cleared by the exiting goroutine.
OneRunning ==
    \A g, h \in Handles : Running(g) /\ Running(h) => g = h

\* No generation is lost: one that may still write and is not cancelled can be
\* reached by the next cancel, generate or disconnect.
RunningIsReachable ==
    \A g \in Handles : Running(g) /\ ~Cancelled(g) =>
        cur = g \/ (handler = "cancelOld" /\ old = g)

\* What the contract's "no complete follows a cancellation" comes down to in
\* this code: at most the one frame whose check was already passed.
LateFrames(g) == {i \in 1..Len(out) : out[i].gen = g /\ i > cancelAt[g]}
AtMostOneLateFrame ==
    \A g \in Handles : Cancelled(g) =>
        \A i, j \in LateFrames(g) : i = j

\* The strengthening that makes the four invariants above inductive: who holds
\* the struct of the one active generation, and where a cancelled one may be.
Active(g) == Running(g) \/ pc[g] = "exit"

LaunchOrder ==
    /\ \A g \in Handles : pc[g] = "none" <=> g > launched
    /\ \A g \in Handles : pc[g] = "none" => ~Cancelled(g)
    /\ handler \in {"cancelOld", "awaitOld"} /\ op = "generate" => launched < MaxGens

ActiveIsHeld ==
    /\ \A g \in Handles : Active(g) => g = launched /\ (cur = g \/ old = g)
    /\ cur \in {None, launched} /\ old \in {None, launched}
    /\ cur # None => handler = "idle"
    /\ old # None => handler \in {"cancelOld", "awaitOld"}
    /\ handler = "cancelOld" => old # None
    /\ handler = "awaitOld" /\ old # None => Cancelled(old)

FramesInOrder ==
    /\ \A i \in 1..Len(out) : out[i].gen <= launched
    /\ StreamsNeverInterleave

OffsetInRange ==
    \A g \in Handles :
        /\ off[g] <= total[g]
        /\ pc[g] \in {"none", "start", "llm", "report", "place", "placeFailed"} =>
             off[g] = 0

LateFrameStops ==
    /\ \A g \in Handles : cancelAt[g] <= Len(out)
    /\ \A g \in Handles : Cancelled(g) /\ LateFrames(g) # {} =>
         pc[g] \in {"check", "exit", "closing", "done"}
    /\ AtMostOneLateFrame

\* What holds whoever else writes frames of F to the socket.
Core(F) ==
    /\ TypeOver(F) /\ LaunchOrder /\ ActiveIsHeld
    /\ OffsetInRange /\ LateFrameStops

IndInv == Core(Frames) /\ FramesInOrder

\* The connection implements GenerationStream: the order and sizes of the
\* frames of each generation, one generation at a time, a last word unless
\* cancelled, at most one frame after a cancellation.
StreamPhase == [g \in Handles |->
    IF pc[g] = "none" THEN "unopened"
    ELSE IF Running(g) /\ ~Cancelled(g) THEN "open"
    ELSE IF Running(g) /\ LateFrames(g) = {} THEN "cancelled"
    ELSE "over"]

Stream == INSTANCE GenerationStream WITH
    Streams <- Handles, Sizes <- 0..MaxAssets, ErrorKinds <- ErrorCodes,
    phase <- StreamPhase, gone <- peerGone

ImplementsStream == Stream!Spec

\* The strengthening that makes every step one of GenerationStream: where a
\* goroutine is tells which of its frames are on the wire.
OnTheWire(g) ==
    IF stage[g] = "plan"
    THEN Stream!FramesOf(out, g) = {} /\ off[g] = 0
    ELSE /\ \E p \in Stream!FramesOf(out, g) :
                out[p].kind = "plan" /\ out[p].size = total[g]
         /\ Stream!Streamed(out, g) = off[g]
         /\ stage[g] = "chunk" <=> off[g] < total[g]

StreamInv == \A g \in Handles :
    /\ pc[g] \in {"none", "start", "llm", "report", "place", "placeFailed", "writeError"} =>
         stage[g] = "plan"
    /\ Running(g) \/ pc[g] = "none" => OnTheWire(g)

\* Once the handler has returned nothing more is written on the connection.
QuietAfterShutdown == [][handler = "returned" => UNCHANGED out]_vars

\* Every generation gets an answer: a complete or an error, unless it is
\* cancelled or the socket is gone.
Terminal(g) == \E i \in 1..Len(out) :
    out[i].gen = g /\ out[i].kind \in {"complete"} \cup ErrorCodes
EveryGenerationAnswered ==
    \A g \in Handles : pc[g] = "start" ~> Terminal(g) \/ Cancelled(g) \/ peerGone
=============================================================================
