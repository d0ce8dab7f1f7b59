-------------------------- MODULE ConnectionProofs --------------------------
(***************************************************************************)
(* Proofs about Orchestrator and about Server, which drives it, for any    *)
(* number of generations and client frames, any chunk size, any recipe     *)
(* size and any socket capacity.  First the generations of a connection on *)
(* their own, then the connection: its steps are steps of the Orchestrator *)
(* in it, the reading of the hello or the writing of one of the handler's  *)
(* own frames, so what is proved of Orchestrator carries over.             *)
(***************************************************************************)
EXTENDS Server, DataLemmas, TLAPS, FiniteSetTheorems

-----------------------------------------------------------------------------
\* The generations of one connection: Orchestrator.

\* The initial states satisfy the inductive invariant.
LEMMA InitIndInv == Init => IndInv
<1> SUFFICES ASSUME Init PROVE IndInv
  OBVIOUS
<1> USE OrchestratorAssumption
<1>1. TypeOver(Frames)
  <2>1. pc \in [Handles -> GenPcs] /\ id \in [Handles -> GenIds \cup {AnyId}]
    BY DEF Init, GenPcs
  <2>2. cancelAt \in [Handles -> Nat \cup {NotCancelled}]
    BY DEF Init
  <2>3. /\ attempt \in [Handles -> 0..2]
        /\ failure \in [Handles -> {"none"} \cup LLMErrors \cup ErrorCodes]
        /\ \A g \in Handles : pc[g] = "writeError" => failure[g] \in ErrorCodes
    BY DEF Init
  <2>4. /\ stage \in [Handles -> Stages]
        /\ total \in [Handles -> 0..MaxAssets] /\ off \in [Handles -> 0..MaxAssets]
    BY DEF Init, Stages
  <2>5. out \in Seq(Frames)
    BY DEF Init
  <2>6. launched \in 0..MaxGens /\ taken \in Nat
    BY DEF Init
  <2>7. /\ handler \in HandlerPcs /\ op \in {"none", "generate", "shutdown"}
        /\ old \in Handles \cup {None} /\ cur \in Handles \cup {None}
        /\ ready \in BOOLEAN /\ peerGone \in BOOLEAN
    BY DEF Init, HandlerPcs
  <2> QED BY <2>1, <2>2, <2>3, <2>4, <2>5, <2>6, <2>7 DEF TypeOver
<1>2. LaunchOrder
  BY DEF Init, LaunchOrder, Handles, Cancelled, NotCancelled
<1>3. ActiveIsHeld
  BY DEF Init, ActiveIsHeld, Active, Running, None, Handles
<1>4. FramesInOrder
  BY DEF Init, FramesInOrder, StreamsNeverInterleave
<1>5. OffsetInRange
  BY DEF Init, OffsetInRange
<1>6. LateFrameStops
  BY DEF Init, LateFrameStops, AtMostOneLateFrame, Cancelled, NotCancelled
<1> QED  BY <1>1, <1>2, <1>3, <1>4, <1>5, <1>6 DEF IndInv, Core

\* Every step keeps every variable in its type.
LEMMA StepTypeOver ==
  ASSUME NEW F, Frames \subseteq F, Core(F), [Next]_vars
  PROVE  TypeOver(F)'
<1> USE OrchestratorAssumption
<1>0. TypeOver(F) /\ LaunchOrder /\ ActiveIsHeld /\ OffsetInRange
  BY DEF Core
<1> USE DEF vars, handlerVars, localVars, socketVars
<1>1. ASSUME NEW i \in GenIds, GenerateTake(i) PROVE TypeOver(F)'
  BY <1>0, <1>1 DEF GenerateTake, TypeOver, HandlerPcs, None, AnyId, Handles
<1>2. CASE ShutdownTake
  BY <1>0, <1>2 DEF ShutdownTake, TypeOver, HandlerPcs, None
<1>3. ASSUME NEW i \in GenIds \cup {AnyId}, Cancel(i) PROVE TypeOver(F)'
  BY <1>0, <1>3 DEF Cancel, CancelContext, TypeOver, Cancelled, NotCancelled
<1>4. CASE CancelOld
  <2>1. cancelAt' \in [Handles -> Nat \cup {NotCancelled}]
    <3>1. old \in Handles /\ Len(out) \in Nat
      BY <1>0, <1>4 DEF CancelOld, ActiveIsHeld, TypeOver
    <3> QED BY <1>0, <1>4, <3>1 DEF CancelOld, CancelContext, TypeOver
  <2> QED BY <1>0, <1>4, <2>1 DEF CancelOld, TypeOver, HandlerPcs
<1>5. CASE Launch
  <2>1. launched + 1 \in Handles
    BY <1>0, <1>5 DEF Launch, LaunchOrder, TypeOver, Handles
  <2> QED BY <1>0, <1>5, <2>1 DEF Launch, TypeOver, HandlerPcs, GenPcs, None, Handles
<1>6. CASE ShutdownReturn
  BY <1>0, <1>6 DEF ShutdownReturn, TypeOver, HandlerPcs, None
<1>7. ASSUME NEW g \in Handles, GenStep(g) PROVE TypeOver(F)'
  <2> USE DEF Goto, FailWith
  <2>1. CASE Start(g)
    <3>1. attempt' \in [Handles -> 0..2]
      <4>1. 1 \in 0..2
        OBVIOUS
      <4> QED BY <1>0, <2>1, <4>1, Zenon DEF Start, TypeOver
    <3>3. failure' \in [Handles -> {"none"} \cup LLMErrors \cup ErrorCodes]
      BY <1>0, <2>1 DEF Start, TypeOver, ErrorCodes
    <3>2. /\ pc' \in [Handles -> GenPcs]
          /\ \A h \in Handles : pc'[h] = "writeError" => failure'[h] \in ErrorCodes
      BY <1>0, <2>1 DEF Start, TypeOver, GenPcs, ErrorCodes
    <3> QED BY <1>0, <2>1, <3>1, <3>2, <3>3 DEF Start, TypeOver
  <2>2. CASE LLMValid(g)
    BY <1>0, <2>2 DEF LLMValid, TypeOver, GenPcs
  <2>3. CASE LLMInvalid(g)
    <3>1. attempt' \in [Handles -> 0..2]
      <4>1. attempt[g] \in 0..2 /\ (attempt[g] < 2 => attempt[g] + 1 \in 0..2)
        BY <1>0 DEF TypeOver
      <4>2. \/ attempt' = attempt
            \/ attempt[g] < 2 /\ attempt' = [attempt EXCEPT ![g] = attempt[g] + 1]
        BY <2>3 DEF LLMInvalid
      <4> QED BY <1>0, <4>1, <4>2 DEF TypeOver
    <3>2. /\ pc' \in [Handles -> GenPcs]
          /\ failure' \in [Handles -> {"none"} \cup LLMErrors \cup ErrorCodes]
          /\ \A h \in Handles : pc'[h] = "writeError" => failure'[h] \in ErrorCodes
      BY <1>0, <2>3 DEF LLMInvalid, TypeOver, GenPcs, LLMErrors
    <3> QED BY <1>0, <2>3, <3>1, <3>2 DEF LLMInvalid, TypeOver
  <2>4. CASE LLMFails(g)
    BY <1>0, <2>4 DEF LLMFails, TypeOver, GenPcs, LLMErrors
  <2>5. CASE Report(g)
    BY <1>0, <2>5 DEF Report, TypeOver, GenPcs, ErrorCodes
  <2>6. CASE Place(g)
    BY <1>0, <2>6 DEF Place, TypeOver, GenPcs
  <2>7. CASE PlaceFailed(g)
    BY <1>0, <2>7 DEF PlaceFailed, TypeOver, GenPcs, ErrorCodes
  <2>8. CASE SendCheck(g)
    BY <1>0, <2>8 DEF SendCheck, TypeOver, GenPcs
  <2>9. CASE SendWrite(g)
    <3>1. ChunkEnd(g) \in 0..MaxAssets /\ ChunkEnd(g) - off[g] \in 0..MaxAssets
      BY <1>0 DEF ChunkEnd, Smaller, TypeOver, OffsetInRange
    <3>2. FrameOf(g) \in Frames
      BY <1>0, <3>1 DEF FrameOf, Frames, TypeOver
    <3>3. out' \in Seq(F)
      BY <1>0, <2>9, <3>2 DEF SendWrite, TypeOver
    <3>4. off' \in [Handles -> 0..MaxAssets]
      BY <1>0, <2>9, <3>1 DEF SendWrite, TypeOver
    <3>5. stage' \in [Handles -> Stages]
      BY <1>0, <2>9 DEF SendWrite, TypeOver, Stages
    <3>6. /\ pc' \in [Handles -> GenPcs]
          /\ \A h \in Handles : pc'[h] = "writeError" => failure'[h] \in ErrorCodes
      BY <1>0, <2>9 DEF SendWrite, TypeOver, GenPcs
    <3> QED BY <1>0, <2>9, <3>3, <3>4, <3>5, <3>6 DEF SendWrite, TypeOver
  <2>10. CASE ErrorWrite(g)
    <3>1. [gen |-> g, kind |-> failure[g], size |-> 0] \in Frames
      BY <1>0, <2>10 DEF ErrorWrite, Frames, TypeOver
    <3> QED BY <1>0, <2>10, <3>1 DEF ErrorWrite, TypeOver, GenPcs
  <2>11. CASE WriteFails(g)
    BY <1>0, <2>11 DEF WriteFails, TypeOver, GenPcs
  <2>12. CASE Exit(g)
    BY <1>0, <2>12 DEF Exit, TypeOver, GenPcs, None
  <2>13. CASE CloseDone(g)
    BY <1>0, <2>13 DEF CloseDone, TypeOver, GenPcs, Stages, AnyId
  <2> QED BY <1>7, <2>1, <2>2, <2>3, <2>4, <2>5, <2>6, <2>7, <2>8, <2>9, <2>10,
             <2>11, <2>12, <2>13 DEF GenStep
<1>8. CASE ClientRead
  BY <1>0, <1>8 DEF ClientRead, TypeOver
<1>9. CASE PeerClose
  BY <1>0, <1>9 DEF PeerClose, TypeOver
<1>10. CASE UNCHANGED vars
  BY <1>0, <1>10 DEF TypeOver
<1> QED BY <1>1, <1>2, <1>3, <1>4, <1>5, <1>6, <1>7, <1>8, <1>9, <1>10
        DEF Next, HandlerStep, Finished

\* What any step of a generation goroutine does to the shared state, and where
\* the goroutine goes.
LEMMA GenStepFacts ==
  ASSUME NEW F, TypeOver(F), NEW g \in Handles, GenStep(g)
  PROVE  /\ pc[g] \notin {"none", "done"} /\ pc'[g] # "none"
         /\ \A h \in Handles \ {g} : pc'[h] = pc[h]
         /\ UNCHANGED <<handler, op, old, launched, cancelAt>>
         /\ Active(g)' => Active(g)
         /\ \/ cur' = cur
            \/ pc'[g] = "closing" /\ cur' = IF cur = g THEN None ELSE cur
         /\ cur = g => cur' = g \/ pc'[g] = "closing" \/ pc[g] = "closing"
         /\ pc[g] = "exit" => cur' # g
  <1> USE DEF Goto, FailWith, Active, Running, handlerVars, TypeOver, None, Handles
  <1>1. CASE Start(g)
    BY <1>1 DEF Start
  <1>2. CASE LLMValid(g)
    BY <1>2 DEF LLMValid
  <1>3. CASE LLMInvalid(g)
    BY <1>3 DEF LLMInvalid
  <1>4. CASE LLMFails(g)
    BY <1>4 DEF LLMFails
  <1>5. CASE Report(g)
    BY <1>5 DEF Report
  <1>6. CASE Place(g)
    BY <1>6 DEF Place
  <1>7. CASE PlaceFailed(g)
    BY <1>7 DEF PlaceFailed
  <1>8. CASE SendCheck(g)
    BY <1>8 DEF SendCheck
  <1>9. CASE SendWrite(g)
    BY <1>9 DEF SendWrite
  <1>10. CASE ErrorWrite(g)
    BY <1>10 DEF ErrorWrite
  <1>11. CASE WriteFails(g)
    BY <1>11 DEF WriteFails
  <1>12. CASE Exit(g)
    BY <1>12 DEF Exit
  <1>13. CASE CloseDone(g)
    BY <1>13 DEF CloseDone
  <1> QED BY <1>1, <1>2, <1>3, <1>4, <1>5, <1>6, <1>7, <1>8, <1>9, <1>10, <1>11,
             <1>12, <1>13 DEF GenStep

\* What a step of a generation goroutine may write, and how a cancelled one
\* goes on: through "check", "exit" and "closing" only, writing nothing.
LEMMA GenStepWrites ==
  ASSUME NEW F, TypeOver(F), NEW g \in Handles, GenStep(g)
  PROVE  /\ \/ out' = out
            \/ /\ pc[g] \in {"write", "writeError"} /\ pc'[g] \in {"check", "exit"}
               /\ \E f : f.gen = g /\ out' = Append(out, f)
         /\ pc[g] = "check" /\ Cancelled(g) => pc'[g] = "exit"
         /\ pc[g] = "exit" => pc'[g] = "closing"
         /\ pc[g] = "closing" => pc'[g] = "done"
  <1> USE DEF Goto, FailWith, TypeOver, socketVars
  <1>1. CASE Start(g)
    BY <1>1 DEF Start
  <1>2. CASE LLMValid(g)
    BY <1>2 DEF LLMValid
  <1>3. CASE LLMInvalid(g)
    BY <1>3 DEF LLMInvalid
  <1>4. CASE LLMFails(g)
    BY <1>4 DEF LLMFails
  <1>5. CASE Report(g)
    BY <1>5 DEF Report
  <1>6. CASE Place(g)
    BY <1>6 DEF Place
  <1>7. CASE PlaceFailed(g)
    BY <1>7 DEF PlaceFailed
  <1>8. CASE SendCheck(g)
    BY <1>8 DEF SendCheck
  <1>9. CASE SendWrite(g)
    <2>1. FrameOf(g).gen = g
      BY DEF FrameOf
    <2> QED BY <1>9, <2>1 DEF SendWrite
  <1>10. CASE ErrorWrite(g)
    <2>1. [gen |-> g, kind |-> failure[g], size |-> 0].gen = g
      OBVIOUS
    <2> QED BY <1>10, <2>1 DEF ErrorWrite
  <1>11. CASE WriteFails(g)
    BY <1>11 DEF WriteFails
  <1>12. CASE Exit(g)
    BY <1>12 DEF Exit
  <1>13. CASE CloseDone(g)
    BY <1>13 DEF CloseDone
  <1> QED BY <1>1, <1>2, <1>3, <1>4, <1>5, <1>6, <1>7, <1>8, <1>9, <1>10,
             <1>11, <1>12, <1>13 DEF GenStep

-----------------------------------------------------------------------------

\* The launch order: handles are used in order and a pending Generate has one.
LEMMA StepLaunchOrder ==
  ASSUME NEW F, Core(F), [Next]_vars
  PROVE  LaunchOrder'
<1>0. TypeOver(F) /\ LaunchOrder /\ ActiveIsHeld
  BY DEF Core
<1> USE OrchestratorAssumption DEF vars, handlerVars, localVars, socketVars
<1>1. ASSUME NEW i \in GenIds, GenerateTake(i) PROVE LaunchOrder'
  BY <1>0, <1>1 DEF GenerateTake, LaunchOrder, Cancelled
<1>2. CASE ShutdownTake
  BY <1>0, <1>2 DEF ShutdownTake, LaunchOrder, Cancelled
<1>3. ASSUME NEW i \in GenIds \cup {AnyId}, Cancel(i) PROVE LaunchOrder'
  <2>1. cur \in Handles /\ cur = launched
    BY <1>0, <1>3 DEF Cancel, ActiveIsHeld, TypeOver
  <2>2. \A h \in Handles : pc[h] = "none" => cancelAt'[h] = cancelAt[h]
    BY <1>0, <1>3, <2>1 DEF Cancel, CancelContext, LaunchOrder, TypeOver, Handles
  <2> QED BY <1>0, <1>3, <2>2 DEF Cancel, LaunchOrder, Cancelled
<1>4. CASE CancelOld
  <2>1. old \in Handles /\ old = launched
    BY <1>0, <1>4 DEF CancelOld, ActiveIsHeld, TypeOver
  <2>2. \A h \in Handles : pc[h] = "none" => cancelAt'[h] = cancelAt[h]
    BY <1>0, <1>4, <2>1 DEF CancelOld, CancelContext, LaunchOrder, TypeOver, Handles
  <2> QED BY <1>0, <1>4, <2>2 DEF CancelOld, LaunchOrder, Cancelled
<1>5. CASE Launch
  BY <1>0, <1>5 DEF Launch, LaunchOrder, TypeOver, Handles, Cancelled
<1>6. CASE ShutdownReturn
  BY <1>0, <1>6 DEF ShutdownReturn, LaunchOrder, Cancelled
<1>7. ASSUME NEW g \in Handles, GenStep(g) PROVE LaunchOrder'
  BY <1>0, <1>7, GenStepFacts DEF LaunchOrder, Cancelled
<1>8. CASE ClientRead
  BY <1>0, <1>8 DEF ClientRead, LaunchOrder, Cancelled
<1>9. CASE PeerClose
  BY <1>0, <1>9 DEF PeerClose, LaunchOrder, Cancelled
<1>10. CASE UNCHANGED vars
  BY <1>0, <1>10 DEF LaunchOrder, Cancelled
<1> QED BY <1>1, <1>2, <1>3, <1>4, <1>5, <1>6, <1>7, <1>8, <1>9, <1>10
        DEF Next, HandlerStep, Finished

\* The one active generation is the last one launched, and the handler or cur
\* holds it until it is done.
LEMMA StepActiveIsHeld ==
  ASSUME NEW F, Core(F), [Next]_vars
  PROVE  ActiveIsHeld'
<1>0. TypeOver(F) /\ LaunchOrder /\ ActiveIsHeld
  BY DEF Core
<1> USE OrchestratorAssumption
    DEF vars, handlerVars, localVars, socketVars, ActiveIsHeld, Active, Running, None
<1>1. ASSUME NEW i \in GenIds, GenerateTake(i) PROVE ActiveIsHeld'
  BY <1>0, <1>1 DEF GenerateTake, Cancelled
<1>2. CASE ShutdownTake
  BY <1>0, <1>2 DEF ShutdownTake, Cancelled
<1>3. ASSUME NEW i \in GenIds \cup {AnyId}, Cancel(i) PROVE ActiveIsHeld'
  BY <1>0, <1>3 DEF Cancel
<1>4. CASE CancelOld
  <2>1. old \in Handles /\ Len(out) \in Nat
    BY <1>0, <1>4 DEF CancelOld, TypeOver
  <2>2. Cancelled(old)'
    BY <1>0, <1>4, <2>1 DEF CancelOld, CancelContext, Cancelled, TypeOver, NotCancelled
  <2> QED BY <1>0, <1>4, <2>2 DEF CancelOld
<1>5. CASE Launch
  <2>1. \A h \in Handles : ~Active(h)
    BY <1>0, <1>5 DEF Launch, OldIsDone, Handles
  <2> QED BY <1>0, <1>5, <2>1 DEF Launch, LaunchOrder, TypeOver, Handles
<1>6. CASE ShutdownReturn
  <2>1. \A h \in Handles : ~Active(h)
    BY <1>0, <1>6 DEF ShutdownReturn, OldIsDone, Handles
  <2> QED BY <1>0, <1>6, <2>1 DEF ShutdownReturn
<1>7. ASSUME NEW g \in Handles, GenStep(g) PROVE ActiveIsHeld'
  <2>1. \A h \in Handles : Active(h)' => Active(h)
    BY <1>0, <1>7, GenStepFacts
  <2>2. \A h \in Handles : Active(h)' => cur' = h \/ old' = h
    BY <1>0, <1>7, <2>1, GenStepFacts DEF Handles
  <2> QED BY <1>0, <1>7, <2>1, <2>2, GenStepFacts DEF Cancelled
<1>8. CASE ClientRead
  BY <1>0, <1>8 DEF ClientRead, Cancelled
<1>9. CASE PeerClose
  BY <1>0, <1>9 DEF PeerClose, Cancelled
<1>10. CASE UNCHANGED vars
  BY <1>0, <1>10 DEF Cancelled
<1> QED BY <1>1, <1>2, <1>3, <1>4, <1>5, <1>6, <1>7, <1>8, <1>9, <1>10
        DEF Next, HandlerStep, Finished

\* Only a generation goroutine writes to the socket.
LEMMA OthersDoNotWrite ==
  ASSUME [Next]_vars, \A g \in Handles : ~GenStep(g)
  PROVE  UNCHANGED out
BY DEF Next, HandlerStep, GenerateTake, ShutdownTake, Cancel, CancelOld, Launch,
       ShutdownReturn, ClientRead, PeerClose, Finished, vars, socketVars

\* The frames on the wire are in launch order.
LEMMA StepFramesInOrder == IndInv /\ [Next]_vars => FramesInOrder'
<1> SUFFICES ASSUME IndInv, [Next]_vars PROVE FramesInOrder'
  OBVIOUS
<1>0. TypeOver(Frames) /\ LaunchOrder /\ ActiveIsHeld /\ FramesInOrder
  BY DEF IndInv, Core
<1> USE OrchestratorAssumption DEF FramesInOrder, StreamsNeverInterleave
<1>1. launched' \in Nat /\ launched \in Nat /\ launched' >= launched
  <2>1. CASE Launch
    BY <1>0, <2>1 DEF Launch, TypeOver
  <2>2. CASE ~Launch
    <3>1. UNCHANGED launched
      BY <1>0, <2>2, GenStepFacts
         DEF Next, HandlerStep, GenerateTake, ShutdownTake, Cancel, CancelOld,
             ShutdownReturn, ClientRead, PeerClose, Finished, vars
    <3> QED BY <1>0, <3>1 DEF TypeOver
  <2> QED BY <2>1, <2>2
<1>2. \A i \in 1..Len(out) : out[i].gen \in Handles
  <2>1. \A i \in 1..Len(out) : out[i] \in Frames
    BY <1>0 DEF TypeOver
  <2> QED BY <2>1 DEF Frames
<1>3. ASSUME NEW g \in Handles, GenStep(g) PROVE FramesInOrder'
  <2>1. CASE out' = out
    BY <1>0, <1>1, <1>2, <2>1 DEF Handles
  <2>2. ASSUME out' # out PROVE FramesInOrder'
    <3>1. g = launched
      BY <1>0, <1>3, <2>2, GenStepWrites DEF ActiveIsHeld, Active, Running
    <3>2. PICK f : f.gen = g /\ out' = Append(out, f)
      BY <1>0, <1>3, <2>2, GenStepWrites
    <3>3. /\ Len(out') = Len(out) + 1 /\ out'[Len(out) + 1] = f
          /\ \A i \in 1..Len(out) : out'[i] = out[i]
      BY <1>0, <3>2 DEF TypeOver
    <3>4. Len(out) \in Nat
      BY <1>0 DEF TypeOver
    <3>5. \A i \in 1..Len(out') : i \in 1..Len(out) \/ i = Len(out) + 1
      BY <3>3, <3>4
    <3>6. \A i \in 1..Len(out') : out'[i].gen \in Nat /\ out'[i].gen <= launched
      BY <1>0, <1>1, <1>2, <3>1, <3>2, <3>3, <3>5 DEF Handles
    <3>7. \A i, j \in 1..Len(out') : i < j => i \in 1..Len(out)
      BY <3>3, <3>4
    <3>8. \A i, j \in 1..Len(out') : i < j => out'[i].gen <= out'[j].gen
      BY <1>0, <3>1, <3>2, <3>3, <3>5, <3>6, <3>7
    <3> QED BY <1>1, <3>6, <3>8
  <2> QED BY <2>1, <2>2
<1>4. CASE \A g \in Handles : ~GenStep(g)
  BY <1>0, <1>1, <1>2, <1>4, OthersDoNotWrite DEF Handles
<1> QED BY <1>3, <1>4

\* A generation never streams past its total.
LEMMA StepOffsetInRange ==
  ASSUME NEW F, Core(F), [Next]_vars
  PROVE  OffsetInRange'
<1>0. TypeOver(F) /\ OffsetInRange /\ LaunchOrder
  BY DEF Core
<1> USE OrchestratorAssumption DEF OffsetInRange
<1>1. ASSUME NEW g \in Handles, GenStep(g) PROVE OffsetInRange'
  <2> USE DEF Goto, FailWith, TypeOver
  <2>1. CASE Start(g)
    BY <1>0, <2>1 DEF Start
  <2>2. CASE LLMValid(g)
    BY <1>0, <2>2 DEF LLMValid, localVars
  <2>3. CASE LLMInvalid(g)
    BY <1>0, <2>3 DEF LLMInvalid
  <2>4. CASE LLMFails(g)
    BY <1>0, <2>4 DEF LLMFails
  <2>5. CASE Report(g)
    BY <1>0, <2>5 DEF Report
  <2>6. CASE Place(g)
    BY <1>0, <2>6 DEF Place
  <2>7. CASE PlaceFailed(g)
    BY <1>0, <2>7 DEF PlaceFailed
  <2>8. CASE SendCheck(g)
    BY <1>0, <2>8 DEF SendCheck, localVars
  <2>9. CASE SendWrite(g)
    <3>1. ChunkEnd(g) <= total[g] /\ ChunkEnd(g) \in Int
      BY <1>0 DEF ChunkEnd, Smaller
    <3>2. \A h \in Handles : off'[h] <= total[h]
      BY <1>0, <2>9, <3>1 DEF SendWrite
    <3>3. \A h \in Handles :
            pc'[h] \in {"none", "start", "llm", "report", "place", "placeFailed"} =>
              h # g /\ pc'[h] = pc[h]
      BY <1>0, <2>9 DEF SendWrite
    <3>4. \A h \in Handles : h # g => off'[h] = off[h]
      BY <1>0, <2>9 DEF SendWrite
    <3> QED BY <1>0, <2>9, <3>2, <3>3, <3>4 DEF SendWrite
  <2>10. CASE ErrorWrite(g)
    BY <1>0, <2>10 DEF ErrorWrite, localVars
  <2>11. CASE WriteFails(g)
    BY <1>0, <2>11 DEF WriteFails, localVars
  <2>12. CASE Exit(g)
    BY <1>0, <2>12 DEF Exit, localVars
  <2>13. CASE CloseDone(g)
    BY <1>0, <2>13 DEF CloseDone
  <2> QED BY <1>1, <2>1, <2>2, <2>3, <2>4, <2>5, <2>6, <2>7, <2>8, <2>9, <2>10,
             <2>11, <2>12, <2>13 DEF GenStep
<1>2. CASE Launch
  <2>1. \A h \in Handles : pc'[h] # pc[h] => h = launched + 1 /\ pc[h] = "none"
    BY <1>0, <1>2 DEF Launch, TypeOver, LaunchOrder, Handles
  <2> QED BY <1>0, <1>2, <2>1 DEF Launch, localVars
<1>3. CASE ~Launch /\ \A g \in Handles : ~GenStep(g)
  BY <1>0, <1>3
     DEF Next, HandlerStep, GenerateTake, ShutdownTake, Cancel, CancelOld,
         ShutdownReturn, ClientRead, PeerClose, Finished, vars, localVars
<1> QED BY <1>1, <1>2, <1>3

\* Cancelling h's context leaves it without late frames.
LEMMA CancelledAtTheEnd ==
  ASSUME NEW F, TypeOver(F), LateFrameStops, NEW h \in Handles, CancelContext(h), UNCHANGED <<out, pc>>
  PROVE  LateFrameStops'
<1>1. Len(out) \in Nat /\ cancelAt \in [Handles -> Nat \cup {NotCancelled}]
  BY DEF TypeOver
<1>2. CASE Cancelled(h)
  <2>1. cancelAt' = cancelAt
    BY <1>1, <1>2 DEF CancelContext
  <2> QED BY <2>1 DEF LateFrameStops, AtMostOneLateFrame, LateFrames, Cancelled
<1>3. CASE ~Cancelled(h)
  <2>1. cancelAt'[h] = Len(out) /\ \A g \in Handles \ {h} : cancelAt'[g] = cancelAt[g]
    BY <1>1, <1>3 DEF CancelContext
  <2>2. LateFrames(h)' = {}
    BY <1>1, <2>1 DEF LateFrames
  <2>3. \A g \in Handles \ {h} : LateFrames(g)' = LateFrames(g) /\ Cancelled(g)' = Cancelled(g)
    BY <2>1 DEF LateFrames, Cancelled
  <2> QED BY <1>1, <2>1, <2>2, <2>3 DEF LateFrameStops, AtMostOneLateFrame
<1> QED BY <1>2, <1>3

\* After its cancellation a generation writes at most one more frame, and then
\* only leaves.
LEMMA StepLateFrameStops ==
  ASSUME NEW F, Core(F), [Next]_vars
  PROVE  LateFrameStops'
<1>0. TypeOver(F) /\ LaunchOrder /\ ActiveIsHeld /\ LateFrameStops
  BY DEF Core
<1> USE OrchestratorAssumption
<1>1. ASSUME NEW g \in Handles, GenStep(g) PROVE LateFrameStops'
  <2>0. /\ cancelAt' = cancelAt /\ Len(out) \in Nat
        /\ cancelAt \in [Handles -> Nat \cup {NotCancelled}]
    <3>1. UNCHANGED cancelAt
      BY <1>0, <1>1, GenStepFacts
    <3> QED BY <1>0, <3>1 DEF TypeOver
  <2>1. CASE out' = out
    <3>1. \A h \in Handles : LateFrames(h)' = LateFrames(h) /\ Cancelled(h)' = Cancelled(h)
      BY <2>0, <2>1 DEF LateFrames, Cancelled
    <3>2. \A h \in Handles : Cancelled(h) /\ LateFrames(h) # {} =>
            pc'[h] \in {"check", "exit", "closing", "done"}
      BY <1>0, <1>1, GenStepFacts, GenStepWrites DEF LateFrameStops
    <3> QED BY <1>0, <2>0, <2>1, <3>1, <3>2 DEF LateFrameStops, AtMostOneLateFrame
  <2>2. ASSUME out' # out PROVE LateFrameStops'
    <3>1. /\ pc[g] \in {"write", "writeError"} /\ pc'[g] \in {"check", "exit"}
          /\ \E f : f.gen = g /\ out' = Append(out, f)
      BY <1>0, <1>1, <2>2, GenStepWrites
    <3>2. /\ Len(out') = Len(out) + 1 /\ out'[Len(out) + 1].gen = g
          /\ \A i \in 1..Len(out) : out'[i] = out[i]
      BY <1>0, <3>1 DEF TypeOver
    <3>3. \A h \in Handles \ {g} : LateFrames(h)' = LateFrames(h)
      BY <2>0, <3>2 DEF LateFrames
    <3>4. Cancelled(g) => LateFrames(g)' \subseteq {Len(out) + 1}
      <4>1. Cancelled(g) => LateFrames(g) = {}
        BY <1>0, <3>1 DEF LateFrameStops
      <4> QED BY <2>0, <3>2, <4>1 DEF LateFrames
    <3>5. \A h \in Handles \ {g} : pc'[h] = pc[h]
      BY <1>0, <1>1, GenStepFacts
    <3>6. \A h \in Handles : Cancelled(h)' = Cancelled(h)
      BY <2>0 DEF Cancelled
    <3>7. \A h \in Handles : cancelAt'[h] <= Len(out')
      BY <1>0, <2>0, <3>2 DEF LateFrameStops, NotCancelled
    <3> QED BY <1>0, <3>1, <3>3, <3>4, <3>5, <3>6, <3>7
            DEF LateFrameStops, AtMostOneLateFrame
  <2> QED BY <2>1, <2>2
<1>2. ASSUME NEW i \in GenIds \cup {AnyId}, Cancel(i) PROVE LateFrameStops'
  <2>1. cur \in Handles
    BY <1>0, <1>2 DEF Cancel, TypeOver
  <2> QED BY <1>0, <1>2, <2>1, CancelledAtTheEnd DEF Cancel, socketVars
<1>3. CASE CancelOld
  <2>1. old \in Handles
    BY <1>0, <1>3 DEF CancelOld, ActiveIsHeld, TypeOver
  <2> QED BY <1>0, <1>3, <2>1, CancelledAtTheEnd DEF CancelOld, socketVars
<1>4. CASE Launch
  <2>1. \A h \in Handles : pc'[h] # pc[h] => pc[h] = "none"
    BY <1>0, <1>4 DEF Launch, TypeOver, LaunchOrder, Handles
  <2>2. \A h \in Handles : Cancelled(h) => pc'[h] = pc[h]
    BY <1>0, <2>1 DEF LaunchOrder
  <2> QED BY <1>0, <1>4, <2>2
          DEF Launch, LateFrameStops, AtMostOneLateFrame, LateFrames, Cancelled, socketVars
<1>5. CASE UNCHANGED <<pc, cancelAt, out>>
  BY <1>0, <1>5 DEF LateFrameStops, AtMostOneLateFrame, LateFrames, Cancelled
<1> QED BY <1>1, <1>2, <1>3, <1>4, <1>5
        DEF Next, HandlerStep, GenerateTake, ShutdownTake, ShutdownReturn,
            ClientRead, PeerClose, Finished, vars, socketVars

-----------------------------------------------------------------------------

\* The inductive invariant holds of every behaviour.
THEOREM SpecIndInv == Spec => []IndInv
<1>1. IndInv /\ [Next]_vars => IndInv'
  BY StepTypeOver, StepLaunchOrder, StepActiveIsHeld, StepFramesInOrder,
     StepOffsetInRange, StepLateFrameStops DEF IndInv, Core
<1> QED BY InitIndInv, <1>1, PTL DEF Spec

\* The type invariant.
THEOREM TypeCorrect == Spec => []TypeOK
<1>1. IndInv => TypeOK
  BY DEF IndInv, Core, TypeOK
<1> QED BY SpecIndInv, <1>1, PTL

\* Streams never interleave, whatever the client and the LLM do.
THEOREM NeverInterleave == Spec => []StreamsNeverInterleave
<1>1. IndInv => StreamsNeverInterleave
  BY DEF IndInv, Core, FramesInOrder
<1> QED BY SpecIndInv, <1>1, PTL

\* Two pipelines never run at once.
THEOREM AtMostOneRuns == Spec => []OneRunning
<1>1. IndInv => OneRunning
  BY DEF IndInv, Core, ActiveIsHeld, Active, OneRunning
<1> QED BY SpecIndInv, <1>1, PTL

\* A generation that is held and runs uncancelled is not yet waited for.
LEMMA HeldIsReachable == ActiveIsHeld => RunningIsReachable
<1> SUFFICES ASSUME ActiveIsHeld, NEW g \in Handles, Running(g), ~Cancelled(g)
             PROVE  cur = g \/ (handler = "cancelOld" /\ old = g)
  BY DEF RunningIsReachable
<1>1. cur = g \/ old = g
  BY DEF ActiveIsHeld, Active
<1>2. CASE old = g
  BY <1>2 DEF ActiveIsHeld, Handles, None
<1> QED BY <1>1, <1>2

\* The next cancel, generate or disconnect reaches the running generation.
THEOREM NoGenerationIsLost == Spec => []RunningIsReachable
<1>1. IndInv => RunningIsReachable
  BY HeldIsReachable DEF IndInv, Core
<1> QED BY SpecIndInv, <1>1, PTL

\* At most one frame of a generation follows its cancellation.
THEOREM LateFramesBounded == Spec => []AtMostOneLateFrame
<1>1. IndInv => AtMostOneLateFrame
  BY DEF IndInv, Core, LateFrameStops
<1> QED BY SpecIndInv, <1>1, PTL

\* Generate launches a goroutine only when every earlier one has stopped.
THEOREM LaunchFindsNoneRunning ==
    Spec => [][launched' # launched => \A g \in Handles : ~Running(g)]_vars
<1>1. IndInv /\ [Next]_vars =>
        [launched' # launched => \A g \in Handles : ~Running(g)]_vars
  <2> SUFFICES ASSUME IndInv, Next, launched' # launched
               PROVE  \A g \in Handles : ~Running(g)
    OBVIOUS
  <2>1. CASE Launch
    BY <2>1 DEF IndInv, Core, Launch, OldIsDone, ActiveIsHeld, Active, Running, None, Handles
  <2>2. CASE ~Launch
    BY <2>2, GenStepFacts
       DEF IndInv, Core, Next, HandlerStep, GenerateTake, ShutdownTake, Cancel, CancelOld,
           ShutdownReturn, ClientRead, PeerClose, Finished, vars
  <2> QED BY <2>1, <2>2
<1> QED BY SpecIndInv, <1>1, PTL DEF Spec

\* Nothing is written on the connection once its handler has returned.
THEOREM NothingAfterShutdown == Spec => QuietAfterShutdown
<1>1. IndInv /\ [Next]_vars => [handler = "returned" => UNCHANGED out]_vars
  <2> SUFFICES ASSUME IndInv, Next, handler = "returned" PROVE UNCHANGED out
    OBVIOUS
  <2>1. \A g \in Handles : ~Active(g)
    BY DEF IndInv, Core, ActiveIsHeld, None, Handles
  <2>2. ASSUME NEW g \in Handles, GenStep(g) PROVE UNCHANGED out
    BY <2>1, <2>2, GenStepWrites DEF IndInv, Core, Active, Running
  <2> QED BY <2>2, OthersDoNotWrite
<1> QED BY SpecIndInv, <1>1, PTL DEF Spec, QuietAfterShutdown

-----------------------------------------------------------------------------
(* The refinement of GenerationStream.                                     *)

\* The frames on a socket have sizes.
Sized(F) == \A f \in F : f.size \in Nat

\* What the chunks of g add up to, as a sum of DataLemmas.
LEMMA StreamedIsSum ==
  ASSUME NEW s, NEW g
  PROVE  Stream!Streamed(s, g) =
           Sum([i \in Stream!ChunksOf(s, g) |-> s[i].size], Stream!ChunksOf(s, g))
BY DEF Stream!Streamed, Stream!SumFunction, Stream!SumFunctionOnSet,
       Stream!FoldFunctionOnSet, Stream!MapThenFoldSet, Sum, MapThenSumSet, MapThenFoldSet

\* An appended frame joins those of its own generation, and its size their
\* sum if it is a chunk.
LEMMA AppendedFrame ==
  ASSUME NEW F, Sized(F), NEW s \in Seq(F), NEW f \in F, NEW g
  PROVE  /\ Stream!FramesOf(Append(s, f), g) =
              Stream!FramesOf(s, g) \cup (IF f.gen = g THEN {Len(s) + 1} ELSE {})
         /\ Stream!Streamed(Append(s, f), g) = Stream!Streamed(s, g)
              + (IF f.gen = g /\ f.kind = "chunk" THEN f.size ELSE 0)
         /\ Stream!Streamed(s, g) \in Int
<1> DEFINE t == Append(s, f)
           S == Stream!ChunksOf(s, g)
           w == [i \in S |-> s[i].size]
           v == [i \in Stream!ChunksOf(t, g) |-> t[i].size]
<1>1. /\ Len(s) \in Nat /\ Len(t) = Len(s) + 1 /\ t[Len(s) + 1] = f
      /\ \A i \in 1..Len(s) : t[i] = s[i]
  OBVIOUS
<1>2. \A i \in 1..Len(s) : s[i].size \in Nat
  BY DEF Sized
<1> HIDE DEF t
<1>3. 1..Len(t) = 1..Len(s) \cup {Len(s) + 1} /\ Len(s) + 1 \notin 1..Len(s)
  BY <1>1
<1>4. Stream!FramesOf(t, g) =
        Stream!FramesOf(s, g) \cup (IF f.gen = g THEN {Len(s) + 1} ELSE {})
  BY <1>1, <1>3 DEF Stream!FramesOf
<1>5. Stream!ChunksOf(t, g) =
        S \cup (IF f.gen = g /\ f.kind = "chunk" THEN {Len(s) + 1} ELSE {})
  BY <1>1, <1>3, <1>4 DEF Stream!FramesOf, Stream!ChunksOf
<1>6. S \subseteq 1..Len(s) /\ IsFiniteSet(S)
  <2>1. S \subseteq 1..Len(s)
    BY DEF Stream!ChunksOf, Stream!FramesOf
  <2>2. IsFiniteSet(1..Len(s))
    BY <1>1, FS_Interval
  <2> QED BY <2>1, <2>2, FS_Subset
<1>7. \A i \in S : w[i] \in Int /\ v[i] = w[i]
  BY <1>1, <1>2, <1>5, <1>6
<1> HIDE DEF S
<1>8. Stream!Streamed(s, g) = Sum(w, S) /\ Stream!Streamed(t, g) = Sum(v, Stream!ChunksOf(t, g))
  BY StreamedIsSum DEF S
<1>9. Sum(v, S) = Sum(w, S) /\ Sum(w, S) \in Int
  <2> HIDE DEF w, v
  <2> QED BY <1>6, <1>7, SumSame
<1>10. CASE f.gen = g /\ f.kind = "chunk"
  <2> DEFINE n == Len(s) + 1
  <2>1. v[n] = f.size /\ f.size \in Int
    BY <1>1, <1>5, <1>10 DEF Sized
  <2>2. n \notin S
    BY <1>3, <1>6
  <2>3. Stream!ChunksOf(t, g) = S \cup {n}
    BY <1>5, <1>10
  <2> HIDE DEF w, v, n
  <2>4. v[n] \in Int
    BY <2>1
  <2>5. Sum(v, S \cup {n}) = Sum(w, S) + v[n]
    <3>1. IsFiniteSet(S) /\ n \notin S /\ v[n] \in Int
      BY <1>6, <2>2, <2>4
    <3>2. \A x \in S : w[x] \in Int /\ v[x] = w[x]
      BY <1>7
    <3> QED BY <3>1, <3>2, SumAdd
  <2> QED BY <1>4, <1>8, <1>9, <1>10, <2>1, <2>3, <2>5 DEF t
<1>11. CASE ~(f.gen = g /\ f.kind = "chunk")
  <2>1. Stream!ChunksOf(t, g) = S
    BY <1>5, <1>11
  <2> HIDE DEF w, v
  <2> QED BY <1>4, <1>8, <1>9, <1>11, <2>1 DEF t
<1> QED BY <1>10, <1>11

\* How a goroutine goes on when it writes nothing: a run that has returned
\* stays so, and one returns only if it was cancelled or its write failed.
LEMMA SilentStep ==
  ASSUME NEW F, TypeOver(F), NEW g \in Handles, GenStep(g), out' = out
  PROVE  /\ UNCHANGED <<peerGone, cancelAt>>
         /\ \A h \in Handles : pc'[h] = "none" <=> pc[h] = "none"
         /\ \A h \in Handles \ {g} : Running(h)' <=> Running(h)
         /\ Running(g)' => Running(g)
         /\ Running(g) /\ ~Running(g)' => Cancelled(g) \/ peerGone
  <1> USE DEF Goto, FailWith, Running, TypeOver, socketVars
  <1>0. out # Append(out, FrameOf(g)) /\ out # Append(out, [gen |-> g, kind |-> failure[g], size |-> 0])
    <2>1. \A f : Len(Append(out, f)) = Len(out) + 1 /\ Len(out) \in Nat
      OBVIOUS
    <2> QED BY <2>1
  <1>1. CASE Start(g)
    BY <1>1 DEF Start
  <1>2. CASE LLMValid(g)
    BY <1>2 DEF LLMValid
  <1>3. CASE LLMInvalid(g)
    BY <1>3 DEF LLMInvalid
  <1>4. CASE LLMFails(g)
    BY <1>4 DEF LLMFails
  <1>5. CASE Report(g)
    BY <1>5 DEF Report
  <1>6. CASE Place(g)
    BY <1>6 DEF Place
  <1>7. CASE PlaceFailed(g)
    BY <1>7 DEF PlaceFailed
  <1>8. CASE SendCheck(g)
    BY <1>8 DEF SendCheck
  <1>9. CASE SendWrite(g)
    BY <1>0, <1>9 DEF SendWrite
  <1>10. CASE ErrorWrite(g)
    BY <1>0, <1>10 DEF ErrorWrite
  <1>11. CASE WriteFails(g)
    BY <1>11 DEF WriteFails
  <1>12. CASE Exit(g)
    BY <1>12 DEF Exit
  <1>13. CASE CloseDone(g)
    BY <1>13 DEF CloseDone
  <1> QED BY <1>1, <1>2, <1>3, <1>4, <1>5, <1>6, <1>7, <1>8, <1>9, <1>10, <1>11,
             <1>12, <1>13 DEF GenStep

\* A generation's phase while the frames and the contexts stay as they are.
LEMMA PhaseKept ==
  ASSUME UNCHANGED <<out, cancelAt>>,
         \A h \in Handles : pc'[h] = "none" <=> pc[h] = "none",
         \A h \in Handles : Running(h)' <=> Running(h)
  PROVE  UNCHANGED StreamPhase
<1>1. \A h \in Handles : Cancelled(h)' = Cancelled(h) /\ LateFrames(h)' = LateFrames(h)
  BY DEF Cancelled, LateFrames
<1> QED BY <1>1 DEF StreamPhase

\* Cancelling h's context is the stream's Cancel, or changes nothing.
LEMMA CancelRefines ==
  ASSUME NEW F, TypeOver(F), NEW h \in Handles, pc[h] # "none", CancelContext(h),
         UNCHANGED <<out, peerGone, pc>>
  PROVE  Stream!Cancel(h) \/ UNCHANGED Stream!streamVars
<1>1. Len(out) \in Nat /\ cancelAt \in [Handles -> Nat \cup {NotCancelled}]
  BY DEF TypeOver
<1>2. \A g \in Handles \ {h} : cancelAt'[g] = cancelAt[g]
  BY <1>1 DEF CancelContext
<1>3. \A g \in Handles : Running(g)' = Running(g)
  BY DEF Running
<1>4. \A g \in Handles \ {h} : Cancelled(g)' = Cancelled(g) /\ LateFrames(g)' = LateFrames(g)
  BY <1>2 DEF Cancelled, LateFrames
<1>5. CASE Cancelled(h)
  <2>1. cancelAt' = cancelAt
    BY <1>1, <1>5 DEF CancelContext
  <2>2. UNCHANGED StreamPhase
    BY <1>3, <2>1, PhaseKept
  <2> QED BY <2>2 DEF Stream!streamVars
<1>6. CASE ~Cancelled(h) /\ ~Running(h)
  <2>1. StreamPhase' = StreamPhase
    BY <1>3, <1>4, <1>6 DEF StreamPhase
  <2> QED BY <2>1 DEF Stream!streamVars
<1>7. CASE ~Cancelled(h) /\ Running(h)
  <2>1. cancelAt'[h] = Len(out)
    BY <1>1, <1>7 DEF CancelContext
  <2>2. Cancelled(h)' /\ LateFrames(h)' = {}
    BY <1>1, <2>1 DEF Cancelled, LateFrames, NotCancelled
  <2>3. StreamPhase[h] = "open"
    BY <1>7 DEF StreamPhase
  <2>4. StreamPhase' = [StreamPhase EXCEPT ![h] = "cancelled"]
    BY <1>3, <1>4, <1>7, <2>2 DEF StreamPhase
  <2> QED BY <2>3, <2>4 DEF Stream!Cancel
<1> QED BY <1>5, <1>6, <1>7

\* A launch opens the stream's next generation, all earlier ones being over.
LEMMA LaunchRefines ==
  ASSUME NEW F, Core(F), Launch
  PROVE  Stream!Open(launched + 1)
<1>0. TypeOver(F) /\ LaunchOrder /\ ActiveIsHeld
  BY DEF Core
<1>1. PICK g \in Handles : g = launched + 1 /\ launched \in Nat
  BY <1>0, OrchestratorAssumption DEF Launch, LaunchOrder, TypeOver, Handles
<1>2. \A h \in Handles : ~Running(h)
  BY <1>0 DEF Launch, OldIsDone, ActiveIsHeld, Active, Running, None, Handles
<1>3. /\ UNCHANGED <<out, peerGone, cancelAt>>
      /\ pc' = [pc EXCEPT ![g] = "start"] /\ pc[g] = "none" /\ ~Cancelled(g)
  BY <1>0, <1>1 DEF Launch, LaunchOrder, socketVars, Handles
<1>4. \A h \in Handles : StreamPhase[h] = IF h < g THEN "over" ELSE "unopened"
  BY <1>0, <1>1, <1>2 DEF StreamPhase, LaunchOrder, Handles
<1>5. StreamPhase[g] = "unopened"
  BY <1>1, <1>3 DEF StreamPhase
<1>6. \A h \in Handles \ {g} :
        /\ pc'[h] = pc[h] /\ Running(h)' = Running(h)
        /\ Cancelled(h)' = Cancelled(h) /\ LateFrames(h)' = LateFrames(h)
  BY <1>0, <1>3 DEF TypeOver, Running, Cancelled, LateFrames
<1>7. pc'[g] = "start" /\ Running(g)' /\ ~Cancelled(g)'
  BY <1>0, <1>1, <1>3 DEF TypeOver, Running, Cancelled
<1>8. StreamPhase' = [StreamPhase EXCEPT ![g] = "open"]
  BY <1>6, <1>7 DEF StreamPhase
<1> QED BY <1>3, <1>1, <1>4, <1>5, <1>8 DEF Stream!Open

\* The frame that a step of a goroutine writes.
FrameSent(g) ==
    IF pc[g] = "write" THEN FrameOf(g) ELSE [gen |-> g, kind |-> failure[g], size |-> 0]

\* A step that writes.
LEMMA WritingStep ==
  ASSUME NEW F, TypeOver(F), NEW g \in Handles, GenStep(g), out' # out
  PROVE  /\ SendWrite(g) \/ ErrorWrite(g)
         /\ out' = Append(out, FrameSent(g)) /\ ~peerGone
         /\ UNCHANGED <<peerGone, cancelAt>>
         /\ \A h \in Handles \ {g} : pc'[h] = pc[h]
         /\ pc'[g] = IF pc[g] = "write" /\ stage[g] # "complete" THEN "check" ELSE "exit"
<1>1. SendWrite(g) \/ ErrorWrite(g)
  BY DEF GenStep, Start, LLMValid, LLMInvalid, LLMFails, Report, Place, PlaceFailed,
         SendCheck, WriteFails, Exit, CloseDone, socketVars
<1>2. out' = Append(out, FrameSent(g)) /\ ~peerGone /\ UNCHANGED <<peerGone, cancelAt>>
  BY <1>1 DEF SendWrite, ErrorWrite, FrameSent, CanWrite
<1>3. /\ \A h \in Handles \ {g} : pc'[h] = pc[h]
      /\ pc'[g] = IF pc[g] = "write" /\ stage[g] # "complete" THEN "check" ELSE "exit"
  BY <1>1 DEF SendWrite, ErrorWrite, Goto, TypeOver
<1> QED BY <1>1, <1>2, <1>3

\* The frame is one that may follow those before it.
LEMMA FrameMayFollow ==
  ASSUME NEW F, Core(F), StreamInv, NEW g \in Handles, SendWrite(g) \/ ErrorWrite(g)
  PROVE  /\ Stream!MayFollow(out, g, FrameSent(g))
         /\ FrameSent(g) \in Frames /\ FrameSent(g).gen = g
         /\ FrameSent(g).kind \in {"complete"} \cup ErrorCodes
              <=> ~(pc[g] = "write" /\ stage[g] # "complete")
<1> USE OrchestratorAssumption
<1>0. TypeOver(F) /\ OffsetInRange /\ Running(g) /\ OnTheWire(g)
  BY DEF Core, StreamInv, SendWrite, ErrorWrite, Running
<1> DEFINE f == FrameSent(g)
<1>1. CASE ErrorWrite(g)
  <2>1. /\ f = [gen |-> g, kind |-> failure[g], size |-> 0] /\ failure[g] \in ErrorCodes
        /\ pc[g] = "writeError" /\ stage[g] = "plan"
    BY <1>0, <1>1 DEF ErrorWrite, FrameSent, TypeOver, StreamInv
  <2>2. f \in Frames
    BY <2>1 DEF Frames
  <2>3. Stream!MayFollow(out, g, f)
    BY <1>0, <2>1 DEF Stream!MayFollow, OnTheWire
  <2> QED BY <2>1, <2>2, <2>3
<1>2. CASE SendWrite(g)
  <2>1. /\ f = FrameOf(g) /\ pc[g] = "write"
        /\ stage[g] \in Stages /\ total[g] \in 0..MaxAssets /\ off[g] \in 0..MaxAssets
        /\ off[g] <= total[g]
    BY <1>0, <1>2 DEF SendWrite, FrameSent, TypeOver, OffsetInRange
  <2>2. ChunkEnd(g) - off[g] \in 0..MaxAssets
    BY <2>1 DEF ChunkEnd, Smaller
  <2>3. f \in Frames /\ f.gen = g /\ f.kind = stage[g]
    BY <2>1, <2>2 DEF FrameOf, Frames
  <2>4. stage[g] \in {"complete"} \cup ErrorCodes <=> stage[g] = "complete"
    BY <2>1 DEF Stages, ErrorCodes
  <2>5. ASSUME stage[g] = "plan" PROVE Stream!MayFollow(out, g, f)
    <3>1. f.kind = "plan" /\ f.size \in 0..MaxAssets
      BY <2>1, <2>5 DEF FrameOf
    <3>2. Stream!FramesOf(out, g) = {}
      BY <1>0, <2>5 DEF OnTheWire
    <3> HIDE DEF f
    <3> QED BY <3>1, <3>2 DEF Stream!MayFollow
  <2>6. ASSUME stage[g] # "plan" PROVE Stream!MayFollow(out, g, f)
    <3>1. PICK p \in Stream!FramesOf(out, g) : out[p].kind = "plan" /\ out[p].size = total[g]
      BY <1>0, <2>6 DEF OnTheWire
    <3>2. Stream!Streamed(out, g) = off[g] /\ (stage[g] = "chunk" <=> off[g] < total[g])
      BY <1>0, <2>6 DEF OnTheWire
    <3>3. CASE stage[g] = "chunk"
      <4>1. f.size = IF total[g] - off[g] < ChunkSize THEN total[g] - off[g] ELSE ChunkSize
        BY <2>1, <3>3 DEF FrameOf, ChunkEnd, Smaller
      <4>2. total[g] - off[g] > 0
        BY <2>1, <3>2, <3>3
      <4>3. f.kind = "chunk" /\ out[p].size - Stream!Streamed(out, g) = total[g] - off[g]
        BY <2>3, <3>1, <3>2, <3>3
      <4> HIDE DEF f
      <4> QED BY <3>1, <4>1, <4>2, <4>3 DEF Stream!MayFollow
    <3>4. CASE stage[g] = "complete"
      <4>1. total[g] - off[g] = 0 /\ f.size = total[g]
        BY <2>1, <3>2, <3>4 DEF FrameOf
      <4> QED BY <2>3, <3>1, <3>2, <3>4, <4>1 DEF Stream!MayFollow
    <3> QED BY <2>1, <2>6, <3>3, <3>4 DEF Stages
  <2>7. Stream!MayFollow(out, g, f)
    BY <2>5, <2>6
  <2> QED BY <2>1, <2>3, <2>4, <2>7
<1> QED BY <1>1, <1>2

\* A step of a goroutine emits a frame, stops, or is not seen.
LEMMA GenStepRefines ==
  ASSUME NEW F, Frames \subseteq F, Core(F), StreamInv, NEW g \in Handles, GenStep(g)
  PROVE  Stream!Emit(g) \/ Stream!Stop(g) \/ UNCHANGED Stream!streamVars
<1>0. TypeOver(F) /\ LateFrameStops
  BY DEF Core
<1>1. CASE out' = out
  <2>1. /\ UNCHANGED <<peerGone, cancelAt>>
        /\ \A h \in Handles : pc'[h] = "none" <=> pc[h] = "none"
        /\ \A h \in Handles \ {g} : Running(h)' <=> Running(h)
        /\ Running(g)' => Running(g)
        /\ Running(g) /\ ~Running(g)' => Cancelled(g) \/ peerGone
    BY <1>0, <1>1, SilentStep
  <2>2. CASE Running(g)' <=> Running(g)
    <3>1. UNCHANGED StreamPhase
      BY <1>1, <2>1, <2>2, PhaseKept
    <3> QED BY <1>1, <2>1, <3>1 DEF Stream!streamVars
  <2>3. CASE Running(g) /\ ~Running(g)'
    <3>1. \A h \in Handles : Cancelled(h)' = Cancelled(h) /\ LateFrames(h)' = LateFrames(h)
      BY <1>1, <2>1 DEF Cancelled, LateFrames
    <3>2. pc[g] # "none"
      BY <2>3 DEF Running
    <3>3. StreamPhase' = [StreamPhase EXCEPT ![g] = "over"]
      BY <2>1, <2>3, <3>1, <3>2 DEF StreamPhase
    <3>4. StreamPhase[g] = IF ~Cancelled(g) THEN "open"
                           ELSE IF LateFrames(g) = {} THEN "cancelled" ELSE "over"
      BY <2>3, <3>2 DEF StreamPhase
    <3>5. CASE StreamPhase[g] = "over"
      <4>1. StreamPhase' = StreamPhase
        BY <3>3, <3>5 DEF StreamPhase
      <4> QED BY <1>1, <2>1, <4>1 DEF Stream!streamVars
    <3>6. CASE StreamPhase[g] # "over"
      BY <1>1, <2>1, <2>3, <3>3, <3>4, <3>6 DEF Stream!Stop
    <3> QED BY <3>5, <3>6
  <2> QED BY <2>1, <2>2, <2>3
<1>2. ASSUME out' # out PROVE Stream!Emit(g)
  <2> DEFINE f == FrameSent(g)
  <2>1. /\ SendWrite(g) \/ ErrorWrite(g)
        /\ out' = Append(out, f) /\ ~peerGone
        /\ UNCHANGED <<peerGone, cancelAt>>
        /\ \A h \in Handles \ {g} : pc'[h] = pc[h]
        /\ pc'[g] = IF pc[g] = "write" /\ stage[g] # "complete" THEN "check" ELSE "exit"
    BY <1>0, <1>2, WritingStep
  <2>2. /\ Stream!MayFollow(out, g, f) /\ f \in F /\ f.gen = g
        /\ f.kind \in {"complete"} \cup ErrorCodes
             <=> ~(pc[g] = "write" /\ stage[g] # "complete")
    BY <2>1, FrameMayFollow
  <2> HIDE DEF f
  <2>3. /\ Len(out) \in Nat /\ Len(out') = Len(out) + 1 /\ out'[Len(out) + 1] = f
        /\ \A i \in 1..Len(out) : out'[i] = out[i]
    BY <1>0, <2>1, <2>2 DEF TypeOver
  <2>4. Stream!Sent = f /\ Stream!Sends
    BY <2>1, <2>3 DEF Stream!Sent, Stream!Sends
  <2>5. pc[g] \in {"write", "writeError"} /\ Running(g) /\ pc[g] # "none"
    BY <2>1 DEF SendWrite, ErrorWrite, Running
  <2>6. Cancelled(g) => LateFrames(g) = {}
    BY <1>0, <2>5 DEF LateFrameStops
  <2>7. StreamPhase[g] = IF Cancelled(g) THEN "cancelled" ELSE "open"
    BY <2>5, <2>6 DEF StreamPhase
  <2>8. \A h \in Handles : Cancelled(h)' = Cancelled(h)
    BY <2>1 DEF Cancelled
  <2>9. \A h \in Handles \ {g} : LateFrames(h)' = LateFrames(h) /\ Running(h)' = Running(h)
    BY <2>1, <2>2, <2>3 DEF LateFrames, Running
  <2>10. Cancelled(g) => LateFrames(g)' # {}
    <3>1. cancelAt'[g] <= Len(out) /\ cancelAt'[g] \in Int
      BY <1>0, <2>1 DEF LateFrameStops, TypeOver, NotCancelled
    <3>2. Len(out) + 1 \in LateFrames(g)'
      BY <2>2, <2>3, <3>1 DEF LateFrames
    <3> QED BY <3>2
  <2>11. /\ Running(g)' <=> pc[g] = "write" /\ stage[g] # "complete"
         /\ pc'[g] # "none"
    BY <2>1 DEF Running
  <2>12. StreamPhase'[g] = IF StreamPhase[g] = "cancelled"
                               \/ f.kind \in {"complete"} \cup ErrorCodes
                           THEN "over" ELSE "open"
    <3>1. StreamPhase'[g] = IF ~Running(g)' \/ Cancelled(g) THEN "over" ELSE "open"
      BY <2>8, <2>10, <2>11 DEF StreamPhase
    <3> QED BY <2>2, <2>7, <2>11, <3>1
  <2>13. \A h \in Handles \ {g} : StreamPhase'[h] = StreamPhase[h]
    BY <2>1, <2>8, <2>9 DEF StreamPhase
  <2>14. StreamPhase' = [StreamPhase EXCEPT ![g] = StreamPhase'[g]]
    BY <2>13 DEF StreamPhase
  <2> QED BY <2>1, <2>2, <2>4, <2>7, <2>12, <2>14 DEF Stream!Emit
<1> QED BY <1>1, <1>2

\* Frames of others change nothing about those of h.
LEMMA OthersFrame ==
  ASSUME NEW F, Sized(F), out \in Seq(F), NEW f \in F, out' = Append(out, f),
         NEW h, f.gen # h
  PROVE  /\ Stream!FramesOf(out', h) = Stream!FramesOf(out, h)
         /\ Stream!Streamed(out', h) = Stream!Streamed(out, h)
         /\ \A p \in Stream!FramesOf(out, h) : out'[p] = out[p]
<1>1. \A p \in Stream!FramesOf(out, h) : out'[p] = out[p]
  BY DEF Stream!FramesOf
<1>2. /\ Stream!FramesOf(out', h) =
           Stream!FramesOf(out, h) \cup (IF f.gen = h THEN {Len(out) + 1} ELSE {})
      /\ Stream!Streamed(out', h) = Stream!Streamed(out, h)
           + (IF f.gen = h /\ f.kind = "chunk" THEN f.size ELSE 0)
      /\ Stream!Streamed(out, h) \in Int
  BY AppendedFrame
<1>3. Stream!FramesOf(out', h) = Stream!FramesOf(out, h)
  BY <1>2
<1>4. Stream!Streamed(out', h) = Stream!Streamed(out, h)
  BY <1>2
<1> QED BY <1>1, <1>3, <1>4

\* A generation whose frames, stage and offset stay is told of as before.
LEMMA WireKept ==
  ASSUME NEW h \in Handles, OnTheWire(h), stage'[h] = stage[h], off'[h] = off[h],
         stage[h] = "plan" \/ total'[h] = total[h],
         Stream!FramesOf(out', h) = Stream!FramesOf(out, h),
         Stream!Streamed(out', h) = Stream!Streamed(out, h),
         \A p \in Stream!FramesOf(out, h) : out'[p] = out[p]
  PROVE  OnTheWire(h)'
BY DEF OnTheWire

\* Without frames there are no entries streamed.
LEMMA NothingStreamed ==
  ASSUME NEW s, NEW g, Stream!FramesOf(s, g) = {}
  PROVE  Stream!Streamed(s, g) = 0
<1>1. Stream!ChunksOf(s, g) = {}
  BY DEF Stream!ChunksOf
<1>2. \A w : Sum(w, {}) = 0
  BY SumIs, SumStep, FS_EmptySet
<1> QED BY <1>1, <1>2, StreamedIsSum

\* A goroutine does not touch what belongs to the others.
LEMMA GenStepOthers ==
  ASSUME NEW F, TypeOver(F), NEW g \in Handles, GenStep(g), NEW h \in Handles \ {g}
  PROVE  pc'[h] = pc[h] /\ stage'[h] = stage[h] /\ off'[h] = off[h] /\ total'[h] = total[h]
BY DEF TypeOver, GenStep, Start, LLMValid, LLMInvalid, LLMFails, Report, Place, PlaceFailed,
       SendCheck, SendWrite, ErrorWrite, WriteFails, Exit, CloseDone, Goto, FailWith, localVars

\* What a goroutine does to its own stage and offset when it sends nothing.
LEMMA SilentStage ==
  ASSUME NEW F, TypeOver(F), NEW g \in Handles, GenStep(g), ~SendWrite(g),
         pc[g] \in {"start", "llm", "report", "place", "placeFailed", "writeError"} => stage[g] = "plan"
  PROVE  /\ pc'[g] # "done" =>
              /\ stage'[g] = stage[g] /\ off'[g] = off[g]
              /\ stage[g] = "plan" \/ total'[g] = total[g]
         /\ pc'[g] \in {"none", "start", "llm", "report", "place", "placeFailed", "writeError"}
              => stage'[g] = "plan"
         /\ pc'[g] # "none" /\ (Running(g)' => Running(g))
<1> USE DEF Goto, FailWith, TypeOver, localVars, Running
<1>1. CASE Start(g)
  BY <1>1 DEF Start
<1>2. CASE LLMValid(g)
  BY <1>2 DEF LLMValid
<1>3. CASE LLMInvalid(g)
  BY <1>3 DEF LLMInvalid
<1>4. CASE LLMFails(g)
  BY <1>4 DEF LLMFails
<1>5. CASE Report(g)
  BY <1>5 DEF Report
<1>6. CASE Place(g)
  BY <1>6 DEF Place
<1>7. CASE PlaceFailed(g)
  BY <1>7 DEF PlaceFailed
<1>8. CASE SendCheck(g)
  BY <1>8 DEF SendCheck
<1>9. CASE ErrorWrite(g)
  BY <1>9 DEF ErrorWrite
<1>10. CASE WriteFails(g)
  BY <1>10 DEF WriteFails
<1>11. CASE Exit(g)
  BY <1>11 DEF Exit
<1>12. CASE CloseDone(g)
  BY <1>12 DEF CloseDone
<1> QED BY <1>1, <1>2, <1>3, <1>4, <1>5, <1>6, <1>7, <1>8, <1>9, <1>10, <1>11,
           <1>12 DEF GenStep

\* The plan and the chunks are accounted for as they are sent.
LEMMA SendTells ==
  ASSUME NEW F, Frames \subseteq F, Sized(F), Core(F), StreamInv,
         NEW g \in Handles, SendWrite(g), stage[g] # "complete"
  PROVE  OnTheWire(g)'
<1> USE OrchestratorAssumption
<1> DEFINE f == FrameOf(g)
           n == Len(out) + 1
<1>1. /\ TypeOver(F) /\ OffsetInRange /\ Running(g) /\ OnTheWire(g)
      /\ FrameSent(g) = f /\ f \in F /\ f.gen = g /\ f.kind = stage[g]
  <2>1. TypeOver(F) /\ OffsetInRange /\ Running(g) /\ OnTheWire(g) /\ FrameSent(g) = f
    BY DEF Core, StreamInv, SendWrite, Running, FrameSent
  <2>2. f \in Frames /\ f.gen = g
    BY <2>1, FrameMayFollow
  <2> QED BY <2>1, <2>2 DEF FrameOf
<1>2. /\ out' = Append(out, f) /\ out \in Seq(F)
      /\ total' = total /\ total[g] \in Nat /\ off[g] \in Nat /\ off[g] <= total[g]
      /\ off'[g] = IF stage[g] = "chunk" THEN ChunkEnd(g) ELSE off[g]
      /\ stage'[g] = IF off'[g] < total[g] THEN "chunk" ELSE "complete"
  <2>1. /\ stage \in [Handles -> Stages] /\ off \in [Handles -> 0..MaxAssets]
        /\ total \in [Handles -> 0..MaxAssets] /\ out \in Seq(F) /\ off[g] <= total[g]
    BY <1>1 DEF TypeOver, OffsetInRange
  <2> QED BY <2>1 DEF SendWrite
<1>3. f.size = IF stage[g] = "chunk" THEN ChunkEnd(g) - off[g] ELSE total[g]
  BY DEF FrameOf
<1>4. ChunkEnd(g) \in Int
  BY <1>2 DEF ChunkEnd, Smaller
<1> HIDE DEF f
<1>5. /\ Stream!FramesOf(out', g) = Stream!FramesOf(out, g) \cup {n}
      /\ Stream!Streamed(out', g) =
           Stream!Streamed(out, g) + (IF f.kind = "chunk" THEN f.size ELSE 0)
      /\ Stream!Streamed(out, g) \in Int
  BY <1>1, <1>2, AppendedFrame
<1>6. out'[n] = f /\ \A p \in Stream!FramesOf(out, g) : out'[p] = out[p]
  BY <1>1, <1>2 DEF Stream!FramesOf
<1>7. stage'[g] # "plan" /\ (stage'[g] = "chunk" <=> off'[g] < total[g])
  BY <1>2
<1>8. CASE stage[g] = "plan"
  <2>1. Stream!FramesOf(out, g) = {} /\ off[g] = 0
    BY <1>1, <1>8 DEF OnTheWire
  <2>2. Stream!Streamed(out', g) = 0 /\ off'[g] = 0
    BY <1>1, <1>2, <1>5, <1>8, <2>1, NothingStreamed
  <2>3. n \in Stream!FramesOf(out', g) /\ out'[n].kind = "plan" /\ out'[n].size = total[g]
    BY <1>1, <1>3, <1>5, <1>6, <1>8
  <2> QED BY <1>2, <1>7, <2>2, <2>3 DEF OnTheWire
<1>9. CASE stage[g] = "chunk"
  <2>1. PICK p \in Stream!FramesOf(out, g) : out[p].kind = "plan" /\ out[p].size = total[g]
    BY <1>1, <1>9 DEF OnTheWire
  <2>2. Stream!Streamed(out, g) = off[g]
    BY <1>1, <1>9 DEF OnTheWire
  <2>3. Stream!Streamed(out', g) = off'[g]
    BY <1>1, <1>2, <1>3, <1>4, <1>5, <1>9, <2>2
  <2>4. p \in Stream!FramesOf(out', g) /\ out'[p] = out[p]
    BY <1>5, <1>6
  <2> QED BY <1>2, <1>7, <2>1, <2>3, <2>4 DEF OnTheWire
<1> QED BY <1>1, <1>8, <1>9 DEF TypeOver, Stages

\* Where a goroutine is keeps telling which of its frames are on the wire.
LEMMA StepStreamInv ==
  ASSUME NEW F, Frames \subseteq F, Sized(F), Core(F), StreamInv, [Next]_vars
  PROVE  StreamInv'
<1>0. TypeOver(F) /\ LaunchOrder
  BY DEF Core
<1>1. ASSUME NEW g \in Handles, GenStep(g), NEW h \in Handles
      PROVE  /\ pc'[h] \in {"none", "start", "llm", "report", "place", "placeFailed", "writeError"}
                  => stage'[h] = "plan"
             /\ Running(h)' \/ pc'[h] = "none" => OnTheWire(h)'
  <2>1. CASE h # g
    <3>1. /\ pc'[h] = pc[h] /\ stage'[h] = stage[h] /\ off'[h] = off[h]
          /\ total'[h] = total[h]
      BY <1>0, <1>1, <2>1, GenStepOthers
    <3>2. CASE out' = out
      BY <1>1, <3>1, <3>2, WireKept DEF StreamInv, Running
    <3>3. CASE out' # out
      <4>1. out' = Append(out, FrameSent(g)) /\ FrameSent(g) \in F /\ FrameSent(g).gen # h
        BY <1>0, <1>1, <2>1, <3>3, WritingStep, FrameMayFollow
      <4>2. /\ Stream!FramesOf(out', h) = Stream!FramesOf(out, h)
            /\ Stream!Streamed(out', h) = Stream!Streamed(out, h)
            /\ \A p \in Stream!FramesOf(out, h) : out'[p] = out[p]
        BY <1>0, <4>1, OthersFrame DEF TypeOver
      <4> QED BY <3>1, <4>2, WireKept DEF StreamInv, Running
    <3> QED BY <3>2, <3>3
  <2>2. CASE h = g /\ SendWrite(g)
    <3>1. pc'[g] = IF stage[g] = "complete" THEN "exit" ELSE "check"
      BY <1>0, <2>2 DEF SendWrite, Goto, TypeOver
    <3>2. stage[g] # "complete" => OnTheWire(g)'
      BY <2>2, SendTells
    <3> QED BY <2>2, <3>1, <3>2 DEF Running
  <2>3. CASE h = g /\ ~SendWrite(g)
    <3>1. /\ pc'[g] # "done" =>
              /\ stage'[g] = stage[g] /\ off'[g] = off[g]
              /\ stage[g] = "plan" \/ total'[g] = total[g]
          /\ pc'[g] \in {"none", "start", "llm", "report", "place", "placeFailed", "writeError"}
              => stage'[g] = "plan"
          /\ pc'[g] # "none" /\ (Running(g)' => Running(g))
      BY <1>0, <1>1, <2>3, SilentStage DEF StreamInv
    <3>2. ASSUME Running(g)' PROVE OnTheWire(g)'
      <4>1. OnTheWire(g) /\ pc'[g] \notin {"exit", "done"}
        BY <3>1, <3>2 DEF StreamInv, Running
      <4>2. out' = out
        BY <1>0, <1>1, <2>3, <4>1, WritingStep DEF ErrorWrite
      <4> QED BY <3>1, <4>1, <4>2, WireKept
    <3> QED BY <2>3, <3>1, <3>2
  <2> QED BY <2>1, <2>2, <2>3
<1>2. CASE Launch
  <2>1. UNCHANGED <<stage, total, off, out>>
    BY <1>2 DEF Launch, localVars, socketVars
  <2>2. \A h \in Handles : pc'[h] = pc[h] \/ (pc[h] = "none" /\ pc'[h] = "start")
    BY <1>0, <1>2 DEF Launch, TypeOver, LaunchOrder, Handles
  <2>3. \A h \in Handles : OnTheWire(h)' = OnTheWire(h)
    BY <2>1 DEF OnTheWire
  <2> QED BY <2>1, <2>2, <2>3 DEF StreamInv, Running
<1>3. CASE UNCHANGED <<pc, stage, total, off, out>>
  BY <1>3 DEF StreamInv, OnTheWire, Running
<1>4. CASE \E g \in Handles : GenStep(g)
  BY <1>1, <1>4 DEF StreamInv
<1> QED BY <1>2, <1>3, <1>4
    DEF Next, HandlerStep, GenerateTake, ShutdownTake, Cancel, CancelOld, ShutdownReturn,
        ClientRead, PeerClose, Finished, vars, localVars, socketVars

\* Every step is one of the stream, or is not seen.
LEMMA StepOfStream ==
  ASSUME NEW F, Frames \subseteq F, Core(F), StreamInv, [Next]_vars
  PROVE  [Stream!Next]_(Stream!streamVars)
<1>0. TypeOver(F) /\ LaunchOrder /\ ActiveIsHeld
  BY DEF Core
<1>1. ASSUME NEW g \in Handles, GenStep(g) PROVE [Stream!Next]_(Stream!streamVars)
  BY <1>1, GenStepRefines DEF Stream!Next
<1>2. CASE Launch
  <2>1. launched + 1 \in Handles
    BY <1>0, <1>2, OrchestratorAssumption DEF Launch, LaunchOrder, TypeOver, Handles
  <2> QED BY <1>2, <2>1, LaunchRefines DEF Stream!Next
<1>3. ASSUME NEW i \in GenIds \cup {AnyId}, Cancel(i) PROVE [Stream!Next]_(Stream!streamVars)
  <2>1. cur \in Handles /\ pc[cur] # "none"
    BY <1>0, <1>3 DEF Cancel, TypeOver, ActiveIsHeld, LaunchOrder, Handles, None
  <2>2. Stream!Cancel(cur) \/ UNCHANGED Stream!streamVars
    BY <1>0, <1>3, <2>1, CancelRefines DEF Cancel, socketVars
  <2> QED BY <2>1, <2>2 DEF Stream!Next
<1>4. CASE CancelOld
  <2>1. old \in Handles /\ pc[old] # "none"
    BY <1>0, <1>4 DEF CancelOld, TypeOver, ActiveIsHeld, LaunchOrder, Handles, None
  <2>2. Stream!Cancel(old) \/ UNCHANGED Stream!streamVars
    BY <1>0, <1>4, <2>1, CancelRefines DEF CancelOld, socketVars
  <2> QED BY <2>1, <2>2 DEF Stream!Next
<1>5. ASSUME UNCHANGED <<pc, cancelAt, out>> PROVE UNCHANGED StreamPhase
  BY <1>5, PhaseKept DEF Running
<1>6. CASE PeerClose
  <2>1. UNCHANGED StreamPhase
    BY <1>5, <1>6 DEF PeerClose
  <2> QED BY <1>6, <2>1 DEF PeerClose, Stream!Leave, Stream!Next
<1>7. CASE UNCHANGED <<pc, cancelAt, out, peerGone>>
  BY <1>5, <1>7 DEF Stream!streamVars
<1> QED BY <1>1, <1>2, <1>3, <1>4, <1>6, <1>7
    DEF Next, HandlerStep, GenerateTake, ShutdownTake, ShutdownReturn, ClientRead,
        Finished, vars, socketVars

\* The initial states are those of the stream.
LEMMA InitStream == Init => StreamInv /\ Stream!Init
<1> SUFFICES ASSUME Init PROVE StreamInv /\ Stream!Init
  OBVIOUS
<1>1. \A g \in Handles : Stream!FramesOf(out, g) = {}
  BY DEF Init, Stream!FramesOf
<1>2. StreamInv
  BY <1>1 DEF Init, StreamInv, OnTheWire, Running
<1>3. Stream!Init
  BY DEF Init, Stream!Init, StreamPhase
<1> QED BY <1>2, <1>3

\* The frames of Orchestrator have sizes.
LEMMA FramesSized == Sized(Frames)
BY OrchestratorAssumption DEF Sized, Frames

\* The connection implements GenerationStream, for any number of generations,
\* any sizes of chunks and recipes, whatever the client and the LLM do.
THEOREM RefinesStream == Spec => ImplementsStream
<1>1. Init => StreamInv /\ Stream!Init
  BY InitStream
<1>2. IndInv /\ StreamInv /\ [Next]_vars => StreamInv'
  BY StepStreamInv, FramesSized DEF IndInv
<1>3. IndInv /\ StreamInv /\ [Next]_vars => [Stream!Next]_(Stream!streamVars)
  BY StepOfStream DEF IndInv
<1> QED BY SpecIndInv, <1>1, <1>2, <1>3, PTL DEF Spec, ImplementsStream, Stream!Spec

-----------------------------------------------------------------------------
\* The connection: Server.

\* The frames of both kinds tell their writers apart, and a fatal code is one
\* of the handler's.
LEMMA FrameKinds ==
  /\ Frames \subseteq ServerFrames
  /\ None \notin Handles
  /\ \A f \in ServerFrames : f.kind \in FatalCodes => f.gen = None
  /\ \A f \in Frames : f.gen # None /\ f.kind \notin FatalCodes
BY DEF ServerFrames, Frames, None, Handles, Stages, ErrorCodes, FatalCodes, ReplyCodes

\* Every step is one of the Orchestrator, but for the two that read the hello
\* and write a frame of the handler.
LEMMA StepOfOrchestrator ==
  ASSUME ServerTypeOK, [ServerNext]_allVars
  PROVE  [Next]_vars \/ ReadHello \/ ReplyWrite
<1>1. ASSUME ReadGenerate PROVE Next
  <2>1. Head(inbound) \in ClientFrames
    BY <1>1 DEF ReadGenerate, ServerTypeOK
  <2>2. Head(inbound).id \in GenIds
    BY <1>1, <2>1 DEF ReadGenerate, ClientFrames
  <2> QED BY <1>1, <2>2 DEF ReadGenerate, Next
<1>2. ASSUME ReadCancel PROVE [Next]_vars
  <2>1. Head(inbound) \in ClientFrames
    BY <1>2 DEF ReadCancel, ServerTypeOK
  <2>2. Head(inbound).id \in GenIds \cup {AnyId}
    BY <1>2, <2>1 DEF ReadCancel, ClientFrames
  <2> QED BY <1>2, <2>2 DEF ReadCancel, Next
<1>3. ASSUME NEW g \in Handles, Goroutine(g) PROVE [Next]_vars
  <2>1. CASE Compute(g)
    BY <2>1 DEF Compute, Next, GenStep
  <2>2. CASE LockForFrame(g)
    BY <2>2 DEF LockForFrame
  <2>3. CASE WriteFrame(g)
    BY <2>3 DEF WriteFrame, Next, GenStep
  <2> QED BY <1>3, <2>1, <2>2, <2>3 DEF Goroutine
<1>4. CASE ReadUnexpected \/ ReadFails \/ DeadlineFires \/ Close \/ LockForReply
             \/ ReplyFails \/ PeerSend \/ ConnectionOver \/ UNCHANGED allVars
  BY <1>4 DEF ReadUnexpected, ReadFails, DeadlineFires, ReadError, Close, LockForReply,
              ReplyFails, PeerSend, ConnectionOver, allVars
<1>5. CASE CallStep \/ Return \/ PeerReads \/ PeerGoes
  BY <1>5 DEF CallStep, Return, PeerReads, PeerGoes, Next
<1> QED BY <1>1, <1>2, <1>3, <1>4, <1>5 DEF ServerNext, ReadStep, ReplyStep

-----------------------------------------------------------------------------
(* The invariants of Orchestrator.                                         *)

\* A fresh connection satisfies the orchestrator's invariant over its own socket.
LEMMA InitCore == ServerInit => Core(ServerFrames)
<1> SUFFICES ASSUME ServerInit PROVE Core(ServerFrames)
  OBVIOUS
<1>1. Core(Frames)
  BY InitIndInv DEF ServerInit, IndInv
<1>2. out \in Seq(ServerFrames)
  BY DEF ServerInit, Init
<1>3. TypeOver(ServerFrames)
  BY <1>1, <1>2 DEF Core, TypeOver
<1> QED BY <1>1, <1>3 DEF Core

\* A step keeps them, the handler's own reads and writes included.
LEMMA StepCore ==
  ASSUME ServerIndInv, [ServerNext]_allVars
  PROVE  Core(ServerFrames)'
<1>0. Core(ServerFrames) /\ ServerTypeOK
  BY DEF ServerIndInv
<1>1. CASE [Next]_vars
  <2>1. TypeOver(ServerFrames)'
    BY <1>0, <1>1, FrameKinds, StepTypeOver
  <2>2. LaunchOrder' /\ ActiveIsHeld'
    BY <1>0, <1>1, StepLaunchOrder, StepActiveIsHeld
  <2>3. OffsetInRange' /\ LateFrameStops'
    BY <1>0, <1>1, StepOffsetInRange, StepLateFrameStops
  <2> QED BY <2>1, <2>2, <2>3 DEF Core
<1> USE DEF handlerVars, localVars, socketVars
<1>2. CASE ReadHello
  <2>1. /\ ready' \in BOOLEAN
        /\ UNCHANGED <<handlerVars, cur, launched, pc, localVars, cancelAt, socketVars>>
    BY <1>0, <1>2 DEF ReadHello, ReadyAfter, Core, TypeOver
  <2>2. TypeOver(ServerFrames)'
    BY <1>0, <2>1 DEF Core, TypeOver
  <2>3. (LaunchOrder /\ ActiveIsHeld /\ OffsetInRange)'
    BY <1>0, <2>1
       DEF Core, LaunchOrder, ActiveIsHeld, OffsetInRange, Active, Running, Cancelled
  <2>4. LateFrameStops'
    BY <1>0, <2>1
       DEF Core, LateFrameStops, AtMostOneLateFrame, LateFrames, Cancelled
  <2> QED BY <2>2, <2>3, <2>4 DEF Core
<1>3. CASE ReplyWrite
  <2> DEFINE f == [gen |-> None, kind |-> reply, size |-> 0]
  <2>1. /\ out' = Append(out, f)
        /\ UNCHANGED <<handlerVars, cur, ready, launched, pc, localVars, cancelAt, taken,
                       peerGone>>
    BY <1>3 DEF ReplyWrite
  <2>2. f \in ServerFrames
    BY <1>0, <1>3 DEF ReplyWrite, ServerTypeOK, ServerFrames
  <2>3. out \in Seq(ServerFrames) /\ cancelAt \in [Handles -> Nat \cup {NotCancelled}]
    BY <1>0 DEF Core, TypeOver
  <2>4. out' \in Seq(ServerFrames)
    BY <2>1, <2>2, <2>3
  <2>5. TypeOver(ServerFrames)'
    BY <1>0, <2>1, <2>4 DEF Core, TypeOver
  <2>6. (LaunchOrder /\ ActiveIsHeld /\ OffsetInRange)'
    BY <1>0, <2>1
       DEF Core, LaunchOrder, ActiveIsHeld, OffsetInRange, Active, Running, Cancelled
  <2>7. /\ Len(out) \in Nat /\ Len(out') = Len(out) + 1 /\ out'[Len(out) + 1].gen = None
        /\ \A i \in 1..Len(out) : out'[i] = out[i]
    BY <2>1, <2>2, <2>3
  <2>8. \A h \in Handles : LateFrames(h)' = LateFrames(h) /\ Cancelled(h)' = Cancelled(h)
    BY <2>1, <2>7, FrameKinds DEF LateFrames, Cancelled
  <2>9. \A h \in Handles : cancelAt'[h] <= Len(out')
    BY <1>0, <2>1, <2>3, <2>7 DEF Core, LateFrameStops, NotCancelled
  <2>10. LateFrameStops'
    BY <1>0, <2>1, <2>8, <2>9 DEF Core, LateFrameStops, AtMostOneLateFrame
  <2> QED BY <2>5, <2>6, <2>10 DEF Core
<1> QED BY <1>0, <1>1, <1>2, <1>3, StepOfOrchestrator

-----------------------------------------------------------------------------
(* The type invariant and the writers of the socket.                       *)

\* Whoever is inside a write, there is no other.
LEMMA OneWriter ==
  /\ Cardinality({}) <= 1
  /\ \A x : Cardinality({x}) <= 1
  /\ \A S \in SUBSET (Handles \cup {None}) : \A x :
        Cardinality(S) <= 1 => Cardinality(S \ {x}) <= 1
<1>1. Cardinality({}) <= 1 /\ \A x : Cardinality({x}) <= 1
  BY FS_EmptySet, FS_Singleton
<1>2. ASSUME NEW S \in SUBSET (Handles \cup {None}), NEW x, Cardinality(S) <= 1
      PROVE  Cardinality(S \ {x}) <= 1
  <2>1. IsFiniteSet(1..MaxGens)
    BY FS_Interval, OrchestratorAssumption
  <2>2. IsFiniteSet(Handles \cup {None})
    BY <2>1, FS_AddElement DEF Handles
  <2>3. IsFiniteSet(S)
    BY <2>2, FS_Subset
  <2>4. Cardinality(S) \in Nat
    BY <2>3, FS_CardinalityType
  <2>5. Cardinality(S \ {x}) \in Nat
    BY <2>3, FS_RemoveElement, FS_CardinalityType
  <2>6. Cardinality(S \ {x}) <= Cardinality(S)
    BY <2>3, <2>4, FS_RemoveElement
  <2> QED BY <1>2, <2>4, <2>5, <2>6
<1> QED BY <1>1, <1>2

\* A goroutine leaves the two places where it writes only by its own write.
LEMMA OnlyTheWriterLeaves ==
  ASSUME ServerIndInv, [ServerNext]_allVars,
         NEW g \in Handles, pc[g] \in {"write", "writeError"}
  PROVE  pc'[g] = pc[g] \/ WriteFrame(g)
<1>0. TypeOver(ServerFrames) /\ LaunchOrder /\ ServerTypeOK
  BY DEF ServerIndInv, Core
<1>1. CASE UNCHANGED pc
  BY <1>1
<1>2. CASE Launch
  BY <1>0, <1>2, OrchestratorAssumption DEF Launch, LaunchOrder, TypeOver, Handles
<1>3. ASSUME NEW h \in Handles, Compute(h) PROVE pc'[g] = pc[g]
  <2>1. h # g
    BY <1>3 DEF Compute, Start, LLMValid, LLMInvalid, LLMFails, Report, Place,
                PlaceFailed, SendCheck, Exit, CloseDone
  <2> QED BY <1>0, <1>3, <2>1, GenStepFacts DEF Compute, GenStep
<1>4. ASSUME NEW h \in Handles, WriteFrame(h) PROVE pc'[g] = pc[g] \/ WriteFrame(g)
  BY <1>0, <1>4, GenStepFacts DEF WriteFrame, GenStep
<1> QED BY <1>1, <1>2, <1>3, <1>4
  DEF ServerNext, ReadStep, ReadHello, ReadGenerate, GenerateTake, ReadCancel, Cancel,
      ReadUnexpected, ReadFails, DeadlineFires, ReadError, CallStep, HandlerStep, CancelOld,
      ShutdownReturn, Return, ShutdownTake, Close, ReplyStep, LockForReply, ReplyWrite,
      ReplyFails, Goroutine, LockForFrame, PeerSend, PeerReads, ClientRead, PeerGoes,
      PeerClose, ConnectionOver, allVars, vars

\* Only one goroutine is inside a write, and it is one that is about to.
LEMMA StepServerTypeOK ==
  ASSUME ServerIndInv, [ServerNext]_allVars
  PROVE  ServerTypeOK'
<1>0. TypeOver(ServerFrames) /\ LaunchOrder /\ ServerTypeOK
  BY DEF ServerIndInv, Core
<1> DEFINE writers == {g \in Handles : pc[g] \in {"write", "writeError"}}
<1>1. out' \in Seq(ServerFrames)
  BY StepCore DEF Core, TypeOver
<1>2. /\ conn' \in {"hello", "serving", "returning", "closed"}
      /\ reply' \in ReplyCodes \cup {"none"}
      /\ deadline' \in BOOLEAN
  <2>1. {"expected_hello", "protocol_version_mismatch", "internal"} \subseteq ReplyCodes
    BY DEF ReplyCodes, FatalCodes
  <2> QED BY <1>0, <2>1
    DEF ServerTypeOK, ServerNext, ReadStep, ReadHello, ReadGenerate, ReadCancel,
        ReadUnexpected, ReadFails, DeadlineFires, ReadError, CallStep, Return, Close,
        ReplyStep, LockForReply, ReplyWrite, ReplyFails, Replied, Goroutine, Compute,
        LockForFrame, WriteFrame, PeerSend, PeerReads, PeerGoes, ConnectionOver,
        serverVars, allVars
<1>3. inbound' \in Seq(ClientFrames) /\ Len(inbound') <= InboundCap /\ sent' \in 0..MaxSent
  <2>1. CASE UNCHANGED <<inbound, sent>>
    BY <1>0, <2>1 DEF ServerTypeOK
  <2>2. CASE inbound # << >> /\ inbound' = Tail(inbound) /\ UNCHANGED sent
    BY <1>0, <2>2, ServerAssumption DEF ServerTypeOK
  <2>3. CASE PeerSend
    BY <1>0, <2>3, ServerAssumption DEF ServerTypeOK, PeerSend
  <2> QED BY <2>1, <2>2, <2>3
    DEF ServerNext, ReadStep, ReadHello, ReadGenerate, ReadCancel,
        ReadUnexpected, ReadFails, DeadlineFires, ReadError, CallStep, Return, Close,
        ReplyStep, LockForReply, ReplyWrite, ReplyFails, Goroutine, Compute,
        LockForFrame, WriteFrame, PeerReads, PeerGoes, ConnectionOver,
        serverVars, allVars
<1>4. Cardinality(writing') <= 1
  <2>1. \/ writing' = writing
        \/ \E x : writing' = {x} \/ writing' = writing \ {x}
    BY DEF ServerNext, ReadStep, ReadHello, ReadGenerate, ReadCancel,
        ReadUnexpected, ReadFails, DeadlineFires, ReadError, CallStep, Return, Close,
        ReplyStep, LockForReply, ReplyWrite, ReplyFails, Goroutine, Compute,
        LockForFrame, WriteFrame, PeerSend, PeerReads, PeerGoes, ConnectionOver,
        serverVars, allVars
  <2>2. writing \in SUBSET (Handles \cup {None})
    BY <1>0 DEF ServerTypeOK
  <2> QED BY <1>0, <2>1, <2>2, OneWriter DEF ServerTypeOK
<1>5. writing' \subseteq writers' \cup {None}
  <2>1. ASSUME NEW g \in Handles, g \in writing', g \in writers, ~WriteFrame(g)
        PROVE  g \in writers'
    BY <2>1, OnlyTheWriterLeaves
  <2>2. ASSUME NEW g \in Handles, WriteFrame(g) PROVE g \notin writing'
    BY <2>2 DEF WriteFrame
  <2>3. ASSUME NEW g \in writing' PROVE g \in writers \cup {None}
    BY <1>0, <2>3
      DEF ServerTypeOK, ServerNext, ReadStep, ReadHello, ReadGenerate, ReadCancel,
          ReadUnexpected, ReadFails, DeadlineFires, ReadError, CallStep, Return, Close,
          ReplyStep, LockForReply, ReplyWrite, ReplyFails, Goroutine, Compute,
          LockForFrame, WriteFrame, PeerSend, PeerReads, PeerGoes, ConnectionOver,
          serverVars, allVars
  <2> QED BY <2>1, <2>2, <2>3
<1>6. None \in writing' => reply' # "none"
  BY <1>0, FrameKinds
    DEF ServerTypeOK, ServerNext, ReadStep, ReadHello, ReadGenerate, ReadCancel,
        ReadUnexpected, ReadFails, DeadlineFires, ReadError, CallStep, Return, Close,
        ReplyStep, LockForReply, ReplyWrite, ReplyFails, Goroutine, Compute,
        LockForFrame, WriteFrame, PeerSend, PeerReads, PeerGoes, ConnectionOver,
        serverVars, allVars
<1> QED BY <1>1, <1>2, <1>3, <1>4, <1>5, <1>6 DEF ServerTypeOK

-----------------------------------------------------------------------------
(* The stages of the connection.                                           *)

\* What a generation goroutine leaves alone, and that it exists at all only
\* after the hello was accepted.
LEMMA GoroutineFacts ==
  ASSUME ServerIndInv, NEW g \in Handles, Goroutine(g)
  PROVE  /\ UNCHANGED <<handler, op, launched, ready, conn, reply, deadline, peerGone>>
         /\ GenStep(g) \/ UNCHANGED vars
         /\ ready
<1>0. TypeOver(ServerFrames) /\ LaunchOrder /\ CallOrder
  BY DEF ServerIndInv, Core
<1>1. GenStep(g) \/ LockForFrame(g)
  BY DEF Goroutine, Compute, WriteFrame, GenStep
<1>2. pc[g] # "none"
  BY <1>0, <1>1, GenStepFacts DEF LockForFrame
<1>3. ready
  BY <1>0, <1>2 DEF LaunchOrder, CallOrder, Handles
<1>4. UNCHANGED <<ready, peerGone>>
  BY DEF Goroutine, Compute, WriteFrame, LockForFrame, vars, socketVars, Start, LLMValid,
         LLMInvalid, LLMFails, Report, Place, PlaceFailed, SendCheck, Exit, CloseDone,
         SendWrite, ErrorWrite, WriteFails
<1>5. UNCHANGED <<conn, reply, deadline>>
  BY DEF Goroutine, Compute, WriteFrame, LockForFrame, serverVars
<1>6. UNCHANGED <<handler, op, launched>>
  BY <1>0, <1>1, GenStepFacts DEF LockForFrame, vars, handlerVars
<1>7. GenStep(g) \/ UNCHANGED vars
  BY <1>1 DEF LockForFrame
<1> QED BY <1>3, <1>4, <1>5, <1>6, <1>7

\* Generate runs on a served connection, Shutdown on one that is returning,
\* and nothing at all before the hello.
LEMMA StepCallOrder ==
  ASSUME ServerIndInv, [ServerNext]_allVars
  PROVE  CallOrder'
<1>0. TypeOver(ServerFrames) /\ ActiveIsHeld /\ CallOrder /\ ReplyOrder /\ ServerTypeOK
  BY DEF ServerIndInv, Core
<1> USE DEF CallOrder, vars, handlerVars, serverVars
<1>1. CASE ReadHello
  <2>1. /\ conn = "hello" /\ deadline' = FALSE
        /\ UNCHANGED <<handler, op, launched>>
    BY <1>1 DEF ReadHello
  <2>2. \/ ready' = TRUE /\ conn' = "serving"
        \/ UNCHANGED <<ready, conn>>
    BY <1>1 DEF ReadHello, ReadyAfter, Accepts
  <2> QED BY <1>0, <2>1, <2>2
<1>2. CASE ReadGenerate
  BY <1>0, <1>2 DEF ReadGenerate, GenerateTake, Reading, AtRead
<1>3. CASE ReadCancel
  BY <1>0, <1>3 DEF ReadCancel, Cancel, Reading, AtRead
<1>4. CASE ReadUnexpected
  BY <1>0, <1>4 DEF ReadUnexpected
<1>5. CASE ReadError
  BY <1>0, <1>5 DEF ReadError, AtRead
<1>6. CASE CallStep
  BY <1>0, <1>6 DEF CallStep, HandlerStep, CancelOld, Launch, ShutdownReturn
<1>7. CASE Return
  BY <1>0, <1>7 DEF Return, ShutdownTake
<1>8. CASE Close
  BY <1>0, <1>8 DEF Close
<1>9. CASE LockForReply
  BY <1>0, <1>9 DEF LockForReply
<1>10. ASSUME Replied, reply # "none",
              UNCHANGED <<handler, op, ready, launched, deadline>>
       PROVE  CallOrder'
  <2>1. handler = "idle" /\ conn \in {"hello", "serving"} /\ op = "none"
    BY <1>0, <1>10 DEF ReplyOrder
  <2>2. conn = "hello" => reply \in FatalCodes
    BY <1>0, <1>10 DEF ReplyOrder, ServerTypeOK, ReplyCodes
  <2> QED BY <1>0, <1>10, <2>1, <2>2 DEF Replied
<1>11. CASE ReplyWrite
  BY <1>0, <1>10, <1>11 DEF ReplyWrite, ServerTypeOK
<1>12. CASE ReplyFails
  BY <1>0, <1>10, <1>12 DEF ReplyFails, ServerTypeOK
<1>13. ASSUME NEW g \in Handles, Goroutine(g) PROVE CallOrder'
  BY <1>0, <1>13, GoroutineFacts
<1>14. CASE PeerSend \/ ConnectionOver \/ UNCHANGED allVars
  <2>1. UNCHANGED <<handler, op, ready, launched, conn, deadline>>
    BY <1>14 DEF PeerSend, ConnectionOver, allVars
  <2> QED BY <1>0, <2>1
<1>15. CASE PeerReads \/ PeerGoes
  BY <1>0, <1>15 DEF PeerReads, PeerGoes, ClientRead, PeerClose
<1> QED BY <1>1, <1>2, <1>3, <1>4, <1>5, <1>6, <1>7, <1>8, <1>9, <1>11, <1>12, <1>13,
           <1>14, <1>15
        DEF ServerNext, ReadStep, ReadFails, DeadlineFires, ReplyStep

\* The handler is about to answer only between two calls, and before the hello
\* it has said nothing.
LEMMA StepReplyOrder ==
  ASSUME ServerIndInv, [ServerNext]_allVars
  PROVE  ReplyOrder'
<1>0. TypeOver(ServerFrames) /\ CallOrder /\ ReplyOrder /\ ServerTypeOK
  BY DEF ServerIndInv, Core
<1> USE DEF ReplyOrder, vars, handlerVars, socketVars, serverVars
<1>1. CASE ReadHello
  BY <1>0, <1>1 DEF ReadHello, CallOrder
<1>2. CASE ReadGenerate
  BY <1>0, <1>2 DEF ReadGenerate, GenerateTake, Reading, AtRead
<1>3. CASE ReadCancel
  BY <1>0, <1>3 DEF ReadCancel, Cancel, Reading, AtRead
<1>4. CASE ReadUnexpected
  BY <1>0, <1>4 DEF ReadUnexpected, Reading, AtRead
<1>5. CASE ReadError
  BY <1>0, <1>5 DEF ReadError, AtRead
<1>6. CASE CallStep
  BY <1>0, <1>6 DEF CallStep, HandlerStep, CancelOld, Launch, ShutdownReturn
<1>7. CASE Return
  BY <1>0, <1>7 DEF Return, ShutdownTake
<1>8. CASE Close
  BY <1>0, <1>8 DEF Close
<1>9. CASE LockForReply
  BY <1>0, <1>9 DEF LockForReply
<1>10. ASSUME Replied, reply # "none" PROVE ReplyOrder'
  <2>1. conn = "hello" => reply \in FatalCodes
    BY <1>0, <1>10 DEF ServerTypeOK, ReplyCodes
  <2>2. reply' = "none" /\ conn' # "hello"
    BY <1>0, <1>10, <2>1 DEF Replied
  <2> QED BY <2>2
<1>11. CASE ReplyWrite
  BY <1>0, <1>10, <1>11 DEF ReplyWrite, ServerTypeOK
<1>12. CASE ReplyFails
  BY <1>0, <1>10, <1>12 DEF ReplyFails, ServerTypeOK
<1>13. ASSUME NEW g \in Handles, Goroutine(g) PROVE ReplyOrder'
  BY <1>0, <1>13, GoroutineFacts DEF CallOrder
<1>14. CASE PeerSend \/ ConnectionOver \/ UNCHANGED allVars
  BY <1>0, <1>14 DEF PeerSend, ConnectionOver, allVars
<1>15. CASE PeerReads \/ PeerGoes
  BY <1>0, <1>15 DEF PeerReads, PeerGoes, ClientRead, PeerClose
<1> QED BY <1>1, <1>2, <1>3, <1>4, <1>5, <1>6, <1>7, <1>8, <1>9, <1>11, <1>12, <1>13,
           <1>14, <1>15
        DEF ServerNext, ReadStep, ReadFails, DeadlineFires, ReplyStep

-----------------------------------------------------------------------------
(* What is on the wire.                                                    *)

\* A frame is added by the handler's reply or by a generation goroutine, at
\* the end, and tells which of the two wrote it.
LEMMA WhoWrites ==
  ASSUME ServerIndInv, [ServerNext]_allVars, out' # out
  PROVE  \E f \in ServerFrames :
           /\ out' = Append(out, f)
           /\ \/ ReplyWrite /\ f.gen = None /\ f.kind = reply
              \/ ready /\ ~ReplyWrite /\ f.gen # None /\ f.kind \notin FatalCodes
                       /\ UNCHANGED <<conn, op, ready, peerGone>>
<1>0. TypeOver(ServerFrames) /\ ServerTypeOK
  BY DEF ServerIndInv, Core
<1>1. CASE ReplyWrite
  <2> DEFINE f == [gen |-> None, kind |-> reply, size |-> 0]
  <2>1. f \in ServerFrames
    BY <1>0, <1>1 DEF ReplyWrite, ServerTypeOK, ServerFrames
  <2> QED BY <1>1, <2>1 DEF ReplyWrite
<1>2. ASSUME ~ReplyWrite, NEW g \in Handles, Goroutine(g)
      PROVE  \E f \in ServerFrames :
               /\ out' = Append(out, f) /\ f.gen # None /\ f.kind \notin FatalCodes
               /\ ready /\ UNCHANGED <<conn, op, ready, peerGone>>
  <2>1. GenStep(g)
    BY <1>2, GoroutineFacts DEF vars, socketVars
  <2>2. PICK f : f.gen = g /\ out' = Append(out, f)
    BY <1>0, <2>1, GenStepWrites
  <2>3. out' \in Seq(ServerFrames) /\ out \in Seq(ServerFrames)
    BY <1>0, StepCore DEF Core, TypeOver
  <2>4. Len(out) + 1 \in 1..Len(out') /\ out'[Len(out) + 1] = f
    BY <2>2, <2>3
  <2>5. f \in ServerFrames
    BY <2>3, <2>4
  <2>6. f.gen # None
    BY <2>2, FrameKinds
  <2> QED BY <1>2, <2>2, <2>5, <2>6, FrameKinds, GoroutineFacts
<1>3. ASSUME ~ReplyWrite, \A g \in Handles : ~Goroutine(g) PROVE FALSE
  BY <1>3
    DEF ServerNext, ReadStep, ReadHello, ReadGenerate, GenerateTake, ReadCancel, Cancel,
        ReadUnexpected, ReadFails, DeadlineFires, ReadError, CallStep, HandlerStep,
        CancelOld, Launch, ShutdownReturn, Return, ShutdownTake, Close, ReplyStep,
        LockForReply, ReplyFails, PeerSend, PeerReads, ClientRead, PeerGoes, PeerClose,
        ConnectionOver, allVars, vars, socketVars
<1> QED BY <1>1, <1>2, <1>3

\* A connection that is ending goes on ending, and no call of Generate begins
\* or is going on there.
LEMMA EndingGoesOn ==
  ASSUME ServerIndInv, [ServerNext]_allVars
  PROVE  /\ conn \in {"returning", "closed"} =>
              conn' \in {"returning", "closed"} /\ op' # "generate"
         /\ peerGone => peerGone'
         /\ ready => ready'
<1>0. CallOrder /\ ReplyOrder /\ ServerTypeOK /\ ReplyOrder' /\ CallOrder' /\ ServerTypeOK'
  BY StepCallOrder, StepReplyOrder, StepServerTypeOK DEF ServerIndInv
<1>1. conn \in {"returning", "closed"} => conn' \in {"returning", "closed"}
  BY <1>0 DEF ReplyOrder, ServerTypeOK, ServerNext, ReadStep, ReadHello, ReadGenerate,
      ReadCancel, ReadUnexpected, ReadFails, DeadlineFires, ReadError, AtRead, CallStep,
      Return, Close, ReplyStep, LockForReply, ReplyWrite, ReplyFails, Goroutine, Compute,
      LockForFrame, WriteFrame, PeerSend, PeerReads, PeerGoes, ConnectionOver,
      serverVars, allVars
<1>2. op' = "generate" => conn' = "serving"
  BY <1>0 DEF CallOrder
<1>3. (peerGone => peerGone') /\ (ready => ready')
  <2>1. ASSUME NEW g \in Handles, Goroutine(g) PROVE UNCHANGED <<peerGone, ready>>
    BY <2>1, GoroutineFacts
  <2>2. CASE ReadHello
    BY <1>0, <2>2 DEF ReadHello, CallOrder, socketVars
  <2>3. CASE PeerGoes
    BY <2>3 DEF PeerGoes, PeerClose
  <2>4. ASSUME ~ReadHello, ~PeerGoes, \A g \in Handles : ~Goroutine(g)
        PROVE  UNCHANGED <<peerGone, ready>>
    BY <2>4
      DEF ServerNext, ReadStep, ReadGenerate, GenerateTake, ReadCancel, Cancel,
          ReadUnexpected, ReadFails, DeadlineFires, ReadError, CallStep, HandlerStep,
          CancelOld, Launch, ShutdownReturn, Return, ShutdownTake, Close, ReplyStep,
          LockForReply, ReplyWrite, ReplyFails, PeerSend, PeerReads, ClientRead,
          ConnectionOver, allVars, vars, socketVars
  <2> QED BY <2>1, <2>2, <2>3, <2>4
<1> QED BY <1>1, <1>2, <1>3

\* A refused client hears one error at most; after a fatal one the handler is
\* silent.
LEMMA StepRefusalIsFinal ==
  ASSUME ServerIndInv, [ServerNext]_allVars
  PROVE  RefusalIsFinal'
<1>0. /\ TypeOver(ServerFrames) /\ LaunchOrder /\ ServerTypeOK /\ CallOrder /\ ReplyOrder
      /\ RefusalIsFinal
  BY DEF ServerIndInv, Core
<1>1. LaunchOrder' /\ CallOrder' /\ TypeOver(ServerFrames)'
  BY StepCore, StepCallOrder DEF Core
<1>2. ~ready' => ~ready /\ \A g \in Handles : pc'[g] = "none"
  BY <1>1, EndingGoesOn DEF LaunchOrder, CallOrder, Handles
<1>3. CASE out' = out
  BY <1>0, <1>2, <1>3, EndingGoesOn DEF RefusalIsFinal
<1>4. ASSUME out' # out PROVE RefusalIsFinal'
  <2>1. PICK f \in ServerFrames :
           /\ out' = Append(out, f)
           /\ \/ ReplyWrite /\ f.gen = None /\ f.kind = reply
              \/ ready /\ ~ReplyWrite /\ f.gen # None /\ f.kind \notin FatalCodes
                       /\ UNCHANGED <<conn, op, ready, peerGone>>
    BY <1>4, WhoWrites
  <2>2. out \in Seq(ServerFrames)
    BY <1>0 DEF TypeOver
  <2>3. /\ Len(out) \in Nat /\ Len(out') = Len(out) + 1 /\ out'[Len(out) + 1] = f
        /\ \A i \in 1..Len(out) : out'[i] = out[i]
    BY <2>1, <2>2
  <2>4. \A i \in 1..Len(out') : i \in 1..Len(out) \/ i = Len(out) + 1
    BY <2>3
  <2>5. CASE ReplyWrite
    <3>1. reply # "none" /\ conn \in {"hello", "serving"} /\ op # "generate"
      BY <1>0, <2>5 DEF ReplyWrite, ServerTypeOK, ReplyOrder, CallOrder
    <3>2. \A i \in 1..Len(out) : out[i].kind \notin FatalCodes
      BY <1>0, <3>1 DEF RefusalIsFinal
    <3>3. f.kind \in FatalCodes => conn' \in {"returning", "closed"} /\ op' # "generate"
      BY <2>1, <2>5, <3>1, FrameKinds DEF ReplyWrite, Replied, handlerVars
    <3>4. ~ready' => Len(out') <= 1
      <4>1. ~ready' => conn = "hello"
        BY <1>0, <1>2, <3>1 DEF CallOrder
      <4> QED BY <1>0, <2>3, <4>1 DEF ReplyOrder
    <3>5. \A i \in 1..Len(out') : out'[i].kind \in FatalCodes => i = Len(out') /\ out'[i] = f
      BY <2>3, <2>4, <3>2
    <3> QED BY <1>2, <2>3, <3>3, <3>4, <3>5 DEF RefusalIsFinal
  <2>6. CASE ~ReplyWrite
    <3>1. ready /\ f.gen # None /\ f.kind \notin FatalCodes /\ UNCHANGED <<conn, op, ready>>
      BY <2>1, <2>6
    <3>2. \A i \in 1..Len(out') : out'[i].kind \in FatalCodes =>
            i \in 1..Len(out) /\ out[i].kind \in FatalCodes
      BY <2>3, <2>4, <3>1
    <3>3. \A i \in 1..Len(out), j \in 1..Len(out') :
            j \in i + 1..Len(out') => j \in i + 1..Len(out) \/ j = Len(out) + 1
      BY <2>3
    <3>4. \A i \in 1..Len(out') : out'[i].kind \in FatalCodes =>
            \A j \in i + 1..Len(out') : out'[j].gen # None
      BY <1>0, <2>3, <3>1, <3>2, <3>3 DEF RefusalIsFinal
    <3> QED BY <1>0, <3>1, <3>2, <3>4 DEF RefusalIsFinal
  <2> QED BY <2>5, <2>6
<1> QED BY <1>3, <1>4

\* A served connection begins to end only where its client has left or is told
\* that its protocol version is another one.
LEMMA StepEndsForCause ==
  ASSUME ServerIndInv, [ServerNext]_allVars
  PROVE  EndsForCause'
<1>0. /\ TypeOver(ServerFrames) /\ ServerTypeOK /\ CallOrder /\ ReplyOrder
      /\ EndsForCause
  BY DEF ServerIndInv, Core
<1> DEFINE Told == \E i \in 1..Len(out) : out[i].kind = "protocol_version_mismatch"
<1>1. Told => Told'
  <2>1. CASE out' = out
    BY <2>1
  <2>2. ASSUME out' # out PROVE Told => Told'
    <3>1. PICK f \in ServerFrames : out' = Append(out, f)
      BY <2>2, WhoWrites
    <3>2. out \in Seq(ServerFrames)
      BY <1>0 DEF TypeOver
    <3>3. \A i \in 1..Len(out) : i \in 1..Len(out') /\ out'[i] = out[i]
      BY <3>1, <3>2
    <3> QED BY <3>3
  <2> QED BY <2>1, <2>2
<1>2. CASE conn \in {"returning", "closed"} /\ ready
  BY <1>0, <1>1, <1>2, EndingGoesOn DEF EndsForCause
<1>3. ASSUME conn' \in {"returning", "closed"}, ready',
             ~(conn \in {"returning", "closed"} /\ ready)
      PROVE  peerGone' \/ Told'
  <2>1. ~ReadHello
    BY <1>0, <1>3 DEF ReadHello, CallOrder, ServerTypeOK
  <2>2. ready' = ready
    <3>1. ASSUME NEW g \in Handles, Goroutine(g) PROVE ready' = ready
      BY <3>1, GoroutineFacts
    <3> QED BY <2>1, <3>1
      DEF ServerNext, ReadStep, ReadGenerate, GenerateTake, ReadCancel, Cancel,
          ReadUnexpected, ReadFails, DeadlineFires, ReadError, CallStep, HandlerStep,
          CancelOld, Launch, ShutdownReturn, Return, ShutdownTake, Close, ReplyStep,
          LockForReply, ReplyWrite, ReplyFails, PeerSend, PeerReads, ClientRead, PeerGoes,
          PeerClose, ConnectionOver, allVars, vars
  <2>3. ready /\ conn = "serving" /\ ~deadline
    BY <1>0, <1>3, <2>2 DEF CallOrder, ServerTypeOK
  <2>4. ReadFails \/ ReplyWrite \/ ReplyFails
    BY <1>3, <2>1, <2>3
      DEF ServerNext, ReadStep, ReadGenerate, ReadCancel, ReadUnexpected, DeadlineFires,
          CallStep, Return, Close, ReplyStep, LockForReply, Goroutine, Compute,
          LockForFrame, WriteFrame, PeerSend, PeerReads, PeerGoes, ConnectionOver,
          serverVars, allVars
  <2>5. CASE ReadFails \/ ReplyFails
    BY <2>5, EndingGoesOn DEF ReadFails, ReplyFails
  <2>6. CASE ReplyWrite
    <3>1. reply = "protocol_version_mismatch"
      BY <1>0, <1>3, <2>3, <2>6 DEF ReplyWrite, Replied, ReplyOrder, FatalCodes
    <3>2. out \in Seq(ServerFrames)
      BY <1>0 DEF TypeOver
    <3>3. /\ Len(out) + 1 \in 1..Len(out')
          /\ out'[Len(out) + 1].kind = "protocol_version_mismatch"
      BY <2>6, <3>1, <3>2 DEF ReplyWrite
    <3> QED BY <3>3
  <2> QED BY <2>4, <2>5, <2>6
<1> QED BY <1>2, <1>3 DEF EndsForCause

-----------------------------------------------------------------------------

\* A fresh connection satisfies the inductive invariant.
LEMMA InitServerIndInv == ServerInit => ServerIndInv
<1> SUFFICES ASSUME ServerInit PROVE ServerIndInv
  OBVIOUS
<1>1. ServerTypeOK
  <2>1. sent \in 0..MaxSent /\ Len(inbound) <= InboundCap
    BY ServerAssumption DEF ServerInit
  <2>2. out \in Seq(ServerFrames) /\ inbound \in Seq(ClientFrames)
    BY DEF ServerInit, Init
  <2> QED BY <2>1, <2>2, OneWriter DEF ServerInit, ServerTypeOK
<1>2. CallOrder /\ ReplyOrder
  BY DEF ServerInit, Init, CallOrder, ReplyOrder
<1>3. RefusalIsFinal
  BY DEF ServerInit, Init, RefusalIsFinal
<1>4. EndsForCause
  BY DEF ServerInit, EndsForCause
<1> QED BY <1>1, <1>2, <1>3, <1>4, InitCore DEF ServerIndInv

\* The inductive invariant holds of every behaviour of a connection.
THEOREM ServerSpecIndInv == ServerSpec => []ServerIndInv
<1>1. ServerIndInv /\ [ServerNext]_allVars => ServerIndInv'
  BY StepCore, StepServerTypeOK, StepCallOrder, StepReplyOrder, StepRefusalIsFinal,
     StepEndsForCause DEF ServerIndInv
<1> QED BY InitServerIndInv, <1>1, PTL DEF ServerSpec

\* gorilla/websocket never sees two writers: the read loop's errors and the
\* generation's frames exclude each other.
THEOREM OneWriterAtATime == ServerSpec => []ServerTypeOK
<1>1. ServerIndInv => ServerTypeOK
  BY DEF ServerIndInv
<1> QED BY ServerSpecIndInv, <1>1, PTL

\* A refusal is the handler's last word, and no generation follows it.
THEOREM RefusedStaysRefused == ServerSpec => []RefusalIsFinal
<1>1. ServerIndInv => RefusalIsFinal
  BY DEF ServerIndInv
<1> QED BY ServerSpecIndInv, <1>1, PTL

\* No served connection is ended by the deadline of its handshake or by junk.
THEOREM ServedEndsForCause == ServerSpec => []EndsForCause
<1>1. ServerIndInv => EndsForCause
  BY DEF ServerIndInv
<1> QED BY ServerSpecIndInv, <1>1, PTL

\* What Orchestrator guarantees holds on a real connection too, where the
\* handler decides when to call it and writes between the frames: one pipeline
\* at a time, reachable for a cancel, and one late frame at most.
THEOREM OrchestratorGuaranteesHold ==
    ServerSpec => [](OneRunning /\ RunningIsReachable /\ AtMostOneLateFrame)
<1>1. Core(ServerFrames) => OneRunning
  BY DEF Core, ActiveIsHeld, Active, OneRunning
<1>2. Core(ServerFrames) => RunningIsReachable
  BY HeldIsReachable DEF Core
<1>3. Core(ServerFrames) => AtMostOneLateFrame
  BY DEF Core, LateFrameStops
<1>4. ServerIndInv => OneRunning /\ RunningIsReachable /\ AtMostOneLateFrame
  BY <1>1, <1>2, <1>3 DEF ServerIndInv
<1> QED BY ServerSpecIndInv, <1>4, PTL

-----------------------------------------------------------------------------
(* The refinement of GenerationStream.                                     *)

\* The frames of a connection have sizes.
LEMMA ServerFramesSized == Sized(ServerFrames)
BY FramesSized DEF Sized, ServerFrames

\* A frame of the handler is the connection's own: the phases and the frames
\* of the generations stay.
LEMMA ReplySpeaks ==
  ASSUME Core(ServerFrames), ServerTypeOK, StreamInv, ReplyWrite
  PROVE  StreamInv' /\ Stream!Speak
<1> DEFINE f == [gen |-> None, kind |-> reply, size |-> 0]
<1>1. /\ out' = Append(out, f) /\ ~peerGone
      /\ UNCHANGED <<pc, stage, total, off, cancelAt, peerGone>>
  BY DEF ReplyWrite, localVars, CanWrite
<1>2. /\ f \in ServerFrames /\ f.gen \notin Handles
      /\ out \in Seq(ServerFrames) /\ cancelAt \in [Handles -> Nat \cup {NotCancelled}]
  BY FrameKinds DEF ReplyWrite, ServerTypeOK, ServerFrames, Core, TypeOver
<1> HIDE DEF f
<1>3. /\ Len(out) \in Nat /\ Len(out') = Len(out) + 1 /\ out'[Len(out) + 1] = f
      /\ \A i \in 1..Len(out) : out'[i] = out[i]
  BY <1>1, <1>2
<1>4. Stream!Sends /\ Stream!Sent = f
  BY <1>1, <1>3 DEF Stream!Sends, Stream!Sent
<1>5. \A h \in Handles : Cancelled(h)' = Cancelled(h) /\ LateFrames(h)' = LateFrames(h)
  BY <1>1, <1>2, <1>3 DEF Cancelled, LateFrames
<1>6. UNCHANGED StreamPhase
  BY <1>1, <1>5 DEF StreamPhase, Running
<1>7. ASSUME NEW h \in Handles, OnTheWire(h) PROVE OnTheWire(h)'
  <2>1. f.gen # h
    BY <1>2
  <2>2. /\ Stream!FramesOf(out', h) = Stream!FramesOf(out, h)
        /\ Stream!Streamed(out', h) = Stream!Streamed(out, h)
        /\ \A p \in Stream!FramesOf(out, h) : out'[p] = out[p]
    BY <1>1, <1>2, <2>1, OthersFrame, ServerFramesSized
  <2> QED BY <1>1, <1>7, <2>2, WireKept
<1>8. StreamInv'
  BY <1>1, <1>7 DEF StreamInv, Running
<1> QED BY <1>1, <1>2, <1>4, <1>6, <1>8 DEF Stream!Speak

\* Every step of a connection is one of the stream, or is not seen.
LEMMA ServerStepOfStream ==
  ASSUME ServerIndInv, StreamInv, [ServerNext]_allVars
  PROVE  StreamInv' /\ [Stream!Next]_(Stream!streamVars)
<1>0. Core(ServerFrames) /\ ServerTypeOK
  BY DEF ServerIndInv
<1>1. CASE [Next]_vars
  BY <1>0, <1>1, FrameKinds, ServerFramesSized, StepStreamInv, StepOfStream
<1>2. CASE ReadHello
  <2>1. UNCHANGED <<pc, stage, total, off, out, cancelAt, peerGone>>
    BY <1>2 DEF ReadHello, localVars, socketVars
  <2>2. UNCHANGED StreamPhase
    BY <2>1, PhaseKept DEF Running
  <2>3. StreamInv'
    BY <2>1 DEF StreamInv, OnTheWire, Running
  <2> QED BY <2>1, <2>2, <2>3 DEF Stream!streamVars
<1>3. CASE ReplyWrite
  BY <1>0, <1>3, ReplySpeaks DEF Stream!Next
<1> QED BY <1>0, <1>1, <1>2, <1>3, StepOfOrchestrator

\* Whatever the client sends and the handler answers, the connection
\* implements GenerationStream.
THEOREM ServedRefinesStream == ServerSpec => ServedImplementsStream
<1>1. ServerInit => StreamInv /\ Stream!Init
  BY InitStream DEF ServerInit
<1>2. ServerIndInv /\ StreamInv /\ [ServerNext]_allVars => StreamInv'
  BY ServerStepOfStream
<1>3. ServerIndInv /\ StreamInv /\ [ServerNext]_allVars => [Stream!Next]_(Stream!streamVars)
  BY ServerStepOfStream
<1> QED BY ServerSpecIndInv, <1>1, <1>2, <1>3, PTL
        DEF ServerSpec, ServedImplementsStream, ImplementsStream, Stream!Spec

=============================================================================
