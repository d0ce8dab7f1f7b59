--------------------------- MODULE SpawnerProofs ---------------------------
(***************************************************************************)
(* Proofs about Spawner, for any manifest, any number of generations and   *)
(* entries and any order of ticks, loads and callbacks.                    *)
(***************************************************************************)
EXTENDS Spawner, DataLemmas

\* What waits is a sum over the categories.
Waiting == Sum(waiting, Cats)

\* The statistic is what is ready and what waits.
LEMMA PendingIsSum == NumPendingEntries = ready + Waiting
BY DEF NumPendingEntries, Waiting, Sum, MapThenSumSet, MapThenFoldSet

\* The same after a step.
LEMMA PendingIsSumNext == (NumPendingEntries = ready + Waiting)'
BY PendingIsSum, PTL

\* Counts of entries: their sum is a number, nothing waits after a reset, and
\* one category's count changes the sum by as much.
LEMMA WaitingFacts ==
  ASSUME TypeOK
  PROVE  /\ Waiting \in Nat /\ NumPendingEntries \in Nat /\ NumPendingEntries >= ready
         /\ \A c \in Cats : waiting[c] <= Waiting
<1>1. IsFiniteSet(Cats) /\ \A c \in Cats : waiting[c] \in Nat
  BY SpawnerAssumption DEF TypeOK
<1>2. Waiting \in Nat /\ \A c \in Cats : waiting[c] <= Waiting
  BY <1>1, SumType DEF Waiting
<1> QED BY <1>2, PendingIsSum DEF TypeOK

\* The sum when no category has an entry waiting.
LEMMA NothingWaits ==
  ASSUME waiting' = Zero
  PROVE  Waiting' = 0
<1>1. IsFiniteSet(Cats) /\ \A c \in Cats : Zero[c] \in Nat /\ Zero[c] = 0
  BY SpawnerAssumption DEF Zero
<1>2. Sum(Zero, Cats) = 0
  BY <1>1, SumType
<1> QED BY <1>2 DEF Waiting

\* How the sum changes with the queue of one category.
LEMMA WaitingChanges ==
  ASSUME TypeOK, NEW c \in Cats, NEW n \in Nat, waiting' = [waiting EXCEPT ![c] = n]
  PROVE  Waiting' = Waiting + n - waiting[c]
<1>1. IsFiniteSet(Cats) /\ waiting \in [Cats -> Nat]
  BY SpawnerAssumption DEF TypeOK
<1>2. Sum([waiting EXCEPT ![c] = n], Cats) = Sum(waiting, Cats) + n - waiting[c]
  BY <1>1, SumExcept
<1> QED BY <1>2 DEF Waiting

-----------------------------------------------------------------------------
(* The books: what was received is spawned, skipped or pending.            *)

Balanced ==
    /\ SpawnedCount \in Nat /\ SkippedCount \in Nat /\ ready \in Nat /\ Waiting \in Nat
    /\ received \in 0..MaxEntries
    /\ SpawnedCount + SkippedCount + ready + Waiting = received

\* Every number of balanced books is within the bound.
InBounds ==
    /\ SpawnedCount \in 0..MaxEntries /\ SkippedCount \in 0..MaxEntries
    /\ ready \in 0..MaxEntries /\ Waiting \in 0..MaxEntries
    /\ SkippedCount + ready + Waiting \in 0..MaxEntries

\* Balanced accounts bound every counter.
LEMMA BalancedIsBounded == Balanced => InBounds
BY SpawnerAssumption DEF Balanced, InBounds

\* The same after a step.
LEMMA BalancedIsBoundedNext == (Balanced => InBounds)'
BY BalancedIsBounded, PTL

\* The books of an open generation are balanced.
LEMMA OpenIsBalanced == TypeOK /\ EntriesAccounted /\ IsGenerationActive => Balanced
BY WaitingFacts, PendingIsSum DEF TypeOK, EntriesAccounted, Balanced

\* A category with a count in range keeps the type of waiting.
LEMMA WaitingKeepsType ==
  ASSUME TypeOK, NEW c \in Cats, NEW n \in 0..MaxEntries, waiting' = [waiting EXCEPT ![c] = n]
  PROVE  waiting' \in [Cats -> 0..MaxEntries]
BY DEF TypeOK

\* A step that leaves the generation open keeps its books balanced.
LEMMA StepBalanced ==
  ASSUME TypeOK, EntriesAccounted, OpenIsLast, [Next]_vars, gen' = gen, IsGenerationActive
  PROVE  Balanced' /\ PendingCount' \in 0..MaxEntries /\ PendingCount' >= NumPendingEntries'
<1>0. /\ Balanced /\ PendingCount \in 0..MaxEntries /\ PendingCount >= ready + Waiting
      /\ ready \in Nat /\ Waiting \in Nat
  <2>1. Balanced /\ Waiting \in Nat /\ PendingCount >= ready + Waiting
    BY OpenIsBalanced, PendingIsSum, WaitingFacts DEF EntriesAccounted
  <2> QED BY <2>1 DEF TypeOK
<1>1. SUFFICES Balanced' /\ PendingCount' \in 0..MaxEntries /\ PendingCount' >= ready' + Waiting'
  BY PendingIsSumNext
<1>2. CASE UNCHANGED <<waiting, ready, SpawnedCount, SkippedCount, PendingCount, received>>
  <2>1. Waiting' = Waiting
    BY <1>2 DEF Waiting
  <2> QED BY <1>0, <1>2, <2>1 DEF Balanced
<1>3. ASSUME NEW c \in Cats \cup {Unknown}, NEW n \in 1..MaxEntries, Enqueue(c, n)
      PROVE  Balanced' /\ PendingCount' \in 0..MaxEntries /\ PendingCount' >= ready' + Waiting'
  <2>1. /\ received' = received + n /\ received' <= MaxEntries /\ n \in Nat
        /\ SpawnedCount' = SpawnedCount /\ PendingCount' = ready' + Waiting'
    BY <1>3, PendingIsSumNext DEF Enqueue
  <2>2. CASE SkippedCount' = SkippedCount + n /\ UNCHANGED <<waiting, ready>>
    <3>1. Waiting' = Waiting
      BY <2>2 DEF Waiting
    <3> QED BY <1>0, <2>1, <2>2, <3>1, SpawnerAssumption DEF Balanced
  <2>3. CASE ready' = ready + n /\ UNCHANGED <<SkippedCount, waiting>>
    <3>1. Waiting' = Waiting
      BY <2>3 DEF Waiting
    <3> QED BY <1>0, <2>1, <2>3, <3>1, SpawnerAssumption DEF Balanced
  <2>4. CASE /\ c \in Cats /\ waiting' = [waiting EXCEPT ![c] = @ + n]
             /\ UNCHANGED <<SkippedCount, ready>>
    <3>1. waiting[c] \in Nat /\ waiting[c] + n \in Nat
      BY <2>1, <2>4 DEF TypeOK
    <3>2. Waiting' = Waiting + (waiting[c] + n) - waiting[c]
      BY <2>4, <3>1, WaitingChanges
    <3> QED BY <1>0, <2>1, <2>4, <3>1, <3>2, SpawnerAssumption DEF Balanced
  <2> QED BY <1>3, <2>2, <2>3, <2>4 DEF Enqueue
<1>4. ASSUME NEW n, NEW k, TickSpawn(n, k)
      PROVE  Balanced' /\ PendingCount' \in 0..MaxEntries /\ PendingCount' >= ready' + Waiting'
  <2>1. /\ n \in 1..ready /\ k \in 0..n
        /\ ready' = ready - n /\ SpawnedCount' = SpawnedCount + n - k
        /\ SkippedCount' = SkippedCount + k /\ PendingCount' = NumPendingEntries - n
        /\ UNCHANGED <<waiting, received>>
    BY <1>4 DEF TickSpawn, Finalize, IsGenerationActive, categoryVars
  <2>2. Waiting' = Waiting
    BY <2>1 DEF Waiting
  <2>3. n \in Nat /\ k \in Nat /\ n <= ready /\ k <= n /\ PendingCount' = ready + Waiting - n
    BY <1>0, <2>1, PendingIsSum
  <2> QED BY <1>0, <2>1, <2>2, <2>3, SpawnerAssumption DEF Balanced
<1>5. ASSUME NEW l \in loads, OnCategoryAssetLoaded(l)
      PROVE  Balanced' /\ PendingCount' \in 0..MaxEntries /\ PendingCount' >= ready' + Waiting'
  <2> DEFINE c == l.cat
  <2>1. c \in Cats /\ waiting[c] \in Nat /\ waiting[c] <= Waiting
    BY WaitingFacts DEF TypeOK, Loads
  <2>2. waiting' = [waiting EXCEPT ![c] = 0] /\ UNCHANGED <<SpawnedCount, PendingCount, received>>
    BY <1>5 DEF OnCategoryAssetLoaded
  <2>3. Waiting' = Waiting - waiting[c]
    <3>1. Waiting' = Waiting + 0 - waiting[c]
      BY <2>1, <2>2, WaitingChanges
    <3> QED BY <1>0, <2>1, <3>1
  <2>4. \/ SkippedCount' = SkippedCount + waiting[c] /\ ready' = ready
        \/ SkippedCount' = SkippedCount /\ ready' = ready + waiting[c]
    BY <1>5 DEF OnCategoryAssetLoaded
  <2> HIDE DEF c
  <2> QED BY <1>0, <2>1, <2>2, <2>3, <2>4 DEF Balanced
<1>6. CASE EndComplete \/ Shutdown \/ EndDiscard \/ TickIdle \/ BeginGeneration
  <2>1. ~BeginGeneration
    BY SpawnerAssumption DEF BeginGeneration, IsGenerationActive, OpenIsLast, TypeOK
  <2>2. ~Discard /\ \A i, j : ~Finalize(i, j)
    BY DEF Discard, Finalize, IsGenerationActive
  <2>3. UNCHANGED <<waiting, ready, SpawnedCount, SkippedCount, PendingCount, received>>
    BY <1>6, <2>1, <2>2
       DEF EndComplete, Shutdown, EndDiscard, TickIdle, statVars, categoryVars
  <2> QED BY <1>2, <2>3
<1>7. CASE Finished \/ UNCHANGED vars
  BY <1>2, <1>7 DEF Finished, vars, statVars, categoryVars
<1>8. ASSUME NEW l \in loads, LoadCompletes(l)
      PROVE  UNCHANGED <<waiting, ready, SpawnedCount, SkippedCount, PendingCount, received>>
  BY <1>8 DEF LoadCompletes, statVars, categoryVars
<1> QED BY <1>2, <1>3, <1>4, <1>5, <1>6, <1>7, <1>8 DEF Next, Tick

\* While no generation is opened or closed, none is finalized, and with none
\* open nothing is counted.
LEMMA StepKeepsOpen ==
  ASSUME TypeOK, OpenIsLast, [Next]_vars, gen' = gen
  PROVE  /\ UNCHANGED <<begun, finalized>>
         /\ ~IsGenerationActive =>
              UNCHANGED <<categoryVars, ready, statVars>>
<1>1. ~BeginGeneration
  BY SpawnerAssumption DEF BeginGeneration, NoGen, OpenIsLast, TypeOK
<1>2. CASE ~IsGenerationActive
  BY <1>1, <1>2
     DEF Next, Tick, Enqueue, EndDiscard, EndComplete, Shutdown, TickIdle, TickSpawn,
         LoadCompletes, OnCategoryAssetLoaded, Finished, vars, categoryVars, statVars
<1>3. CASE IsGenerationActive
  <2>1. ~Discard /\ \A i, j : ~Finalize(i, j)
    BY <1>3 DEF Discard, Finalize, IsGenerationActive
  <2> QED BY <1>1, <1>3, <2>1
     DEF Next, Tick, Enqueue, EndDiscard, EndComplete, Shutdown, TickIdle, TickSpawn,
         LoadCompletes, OnCategoryAssetLoaded, Finished, vars
<1> QED BY <1>2, <1>3

\* Finalizing with nothing pending, and closing with everything skipped: the
\* record that is broadcast is balanced.
LEMMA FinalizeBalances ==
  ASSUME TypeOK, EntriesAccounted, IsGenerationActive,
         NEW i \in Nat, NEW j \in Nat, Finalize(i, j), i + j = received
  PROVE  /\ FinalRecord(i, j) \in Finals /\ finalized' = Append(finalized, FinalRecord(i, j))
         /\ gen' = NoGen /\ begun' = begun /\ received' = received
         /\ SpawnedCount' = i /\ SkippedCount' = j /\ PendingCount' = 0
         /\ i \in 0..MaxEntries /\ j \in 0..MaxEntries
         /\ ResetCategories
<1>1. i \in 0..MaxEntries /\ j \in 0..MaxEntries /\ received \in 0..MaxEntries
  BY SpawnerAssumption DEF TypeOK
<1>2. gen \in Gens
  BY DEF TypeOK, IsGenerationActive
<1>3. FinalRecord(i, j) \in Finals
  BY <1>1, <1>2 DEF FinalRecord, Finals
<1> QED BY <1>1, <1>3 DEF Finalize

Closes(i, j) ==
    /\ i \in 0..MaxEntries /\ j \in 0..MaxEntries /\ i + j = received
    /\ FinalRecord(i, j) \in Finals /\ finalized' = Append(finalized, FinalRecord(i, j))

\* A step that opens or closes a generation finalizes the open one with what
\* it received, and resets the categories.
LEMMA StepCloses ==
  ASSUME TypeOK, EntriesAccounted, OpenIsLast, [Next]_vars, gen' # gen
  PROVE  /\ ResetCategories
         /\ IsGenerationActive => \E i, j : Closes(i, j)
         /\ ~IsGenerationActive => finalized' = finalized
         /\ \/ /\ gen' = NoGen /\ begun' = begun /\ IsGenerationActive
               /\ SpawnedCount' \in 0..MaxEntries /\ SkippedCount' \in 0..MaxEntries
               /\ PendingCount' = 0 /\ received' = received
            \/ /\ begun' = begun + 1 /\ gen' = begun' /\ begun < MaxGens
               /\ SpawnedCount' = 0 /\ SkippedCount' = 0 /\ PendingCount' = 0
               /\ received' = 0
<1>1. ASSUME IsGenerationActive
      PROVE  /\ SpawnedCount \in 0..MaxEntries /\ SkippedOnDiscard \in 0..MaxEntries
             /\ SpawnedCount + SkippedOnDiscard = received
             /\ FinalRecord(SpawnedCount, SkippedOnDiscard) \in Finals
  <2>1. Balanced /\ received \in 0..MaxEntries /\ gen \in Gens
    BY <1>1, OpenIsBalanced DEF Balanced, TypeOK, IsGenerationActive
  <2>2. SkippedOnDiscard = SkippedCount + ready + Waiting
    BY <2>1, PendingIsSum DEF SkippedOnDiscard, Balanced
  <2>3. /\ SpawnedCount \in 0..MaxEntries /\ SkippedOnDiscard \in 0..MaxEntries
        /\ SpawnedCount + SkippedOnDiscard = received
    BY <2>1, <2>2, BalancedIsBounded DEF Balanced, InBounds
  <2>4. FinalRecord(SpawnedCount, SkippedOnDiscard) \in Finals
    BY <2>1, <2>3 DEF FinalRecord, Finals
  <2> QED BY <2>3, <2>4
<1>2. CASE BeginGeneration
  BY <1>1, <1>2 DEF BeginGeneration, Closes
<1>3. CASE EndDiscard \/ Shutdown
  <2>1. IsGenerationActive /\ Discard
    BY <1>3 DEF EndDiscard, Shutdown
  <2> QED BY <1>1, <2>1 DEF Discard, Closes
<1>4. ASSUME NEW i \in Nat, NEW j \in Nat, IsGenerationActive, Finalize(i, j),
             i + j = received
      PROVE  /\ ResetCategories /\ Closes(i, j)
             /\ gen' = NoGen /\ begun' = begun /\ IsGenerationActive
             /\ SpawnedCount' \in 0..MaxEntries /\ SkippedCount' \in 0..MaxEntries
             /\ PendingCount' = 0 /\ received' = received
  BY <1>4, FinalizeBalances DEF Closes
<1>5. CASE EndComplete \/ TickIdle
  <2>1. /\ IsGenerationActive /\ NumPendingEntries = 0
        /\ Finalize(SpawnedCount, SkippedCount)
    BY <1>5 DEF EndComplete, TickIdle
  <2>2. SpawnedCount \in Nat /\ SkippedCount \in Nat /\ SpawnedCount + SkippedCount = received
    BY <2>1 DEF TypeOK, EntriesAccounted
  <2> QED BY <1>4, <2>1, <2>2
<1>6. ASSUME NEW n, NEW k, TickSpawn(n, k)
      PROVE  \E i, j : /\ IsGenerationActive /\ i \in Nat /\ j \in Nat
                       /\ Finalize(i, j) /\ i + j = received
  <2>1. /\ IsGenerationActive /\ NumPendingEntries = n
        /\ Finalize(SpawnedCount + n - k, SkippedCount + k)
        /\ n \in 1..ready /\ k \in 0..n
    BY <1>6 DEF TickSpawn
  <2>2. ready \in Nat /\ n \in Nat /\ k \in Nat /\ k <= n
    BY <2>1 DEF TypeOK
  <2>3. /\ SpawnedCount \in Nat /\ SkippedCount \in Nat
        /\ SpawnedCount + SkippedCount + n = received
    BY <2>1 DEF TypeOK, EntriesAccounted
  <2>4. /\ SpawnedCount + n - k \in Nat /\ SkippedCount + k \in Nat
        /\ (SpawnedCount + n - k) + (SkippedCount + k) = received
    BY <2>2, <2>3
  <2> QED BY <2>1, <2>4
<1>7. CASE Tick
  BY <1>4, <1>5, <1>6, <1>7 DEF Tick
<1> QED BY <1>2, <1>3, <1>5, <1>7
  DEF Next, Enqueue, LoadCompletes, OnCategoryAssetLoaded, Finished, vars

-----------------------------------------------------------------------------
(* The invariants, step by step.                                           *)

\* After a reset nothing is pending.
LEMMA NothingPending ==
  ASSUME ResetCategories PROVE NumPendingEntries' = 0
BY PendingIsSumNext, NothingWaits DEF ResetCategories

\* The numbers of the type invariant, from the books.
LEMMA StepNumbers ==
  ASSUME TypeOK, EntriesAccounted, OpenIsLast, [Next]_vars
  PROVE  /\ gen' \in Gens \cup {NoGen} /\ begun' \in 0..MaxGens /\ OpenIsLast'
         /\ ready' \in 0..MaxEntries
         /\ SpawnedCount' \in 0..MaxEntries /\ SkippedCount' \in 0..MaxEntries
         /\ PendingCount' \in 0..MaxEntries /\ received' \in 0..MaxEntries
<1>1. CASE gen' = gen
  <2>1. gen' \in Gens \cup {NoGen} /\ begun' \in 0..MaxGens /\ OpenIsLast'
    BY <1>1, StepKeepsOpen DEF TypeOK, OpenIsLast
  <2>2. CASE IsGenerationActive
    <3>1. Balanced' /\ PendingCount' \in 0..MaxEntries
      BY <1>1, <2>2, StepBalanced
    <3>2. InBounds' /\ received' \in 0..MaxEntries
      BY <3>1, BalancedIsBoundedNext DEF Balanced
    <3> QED BY <2>1, <3>1, <3>2 DEF InBounds
  <2>3. CASE ~IsGenerationActive
    <3>1. UNCHANGED <<ready, SpawnedCount, SkippedCount, PendingCount, received>>
      BY <1>1, <2>3, StepKeepsOpen DEF statVars
    <3> QED BY <2>1, <3>1 DEF TypeOK
  <2> QED BY <2>2, <2>3
<1>2. CASE gen' # gen
  <2>1. ready' = 0
    BY <1>2, StepCloses DEF ResetCategories
  <2>2. /\ SpawnedCount' \in 0..MaxEntries /\ SkippedCount' \in 0..MaxEntries
        /\ PendingCount' = 0 /\ received' \in 0..MaxEntries
    BY <1>2, StepCloses, SpawnerAssumption DEF TypeOK
  <2>3. begun' \in 0..MaxGens /\ gen' \in {NoGen, begun'} /\ gen' \in Gens \cup {NoGen}
    BY <1>2, StepCloses, SpawnerAssumption DEF TypeOK, Gens
  <2>4. finalized' \in Seq(Finals)
    <3>1. CASE IsGenerationActive
      <4>1. PICK i, j : Closes(i, j)
        BY <1>2, <3>1, StepCloses
      <4> QED BY <4>1 DEF Closes, OpenIsLast
    <3>2. CASE ~IsGenerationActive
      BY <1>2, <3>2, StepCloses DEF OpenIsLast
    <3> QED BY <3>1, <3>2
  <2> QED BY <2>1, <2>2, <2>3, <2>4, SpawnerAssumption DEF OpenIsLast
<1> QED BY <1>1, <1>2

\* What waits for each category stays a number within the bound.
LEMMA StepWaitingType ==
  ASSUME TypeOK, EntriesAccounted, OpenIsLast, [Next]_vars
  PROVE  waiting' \in [Cats -> 0..MaxEntries]
<1>1. CASE waiting' = waiting
  BY <1>1 DEF TypeOK
<1>2. CASE ResetCategories
  BY <1>2, SpawnerAssumption DEF ResetCategories, Zero
<1>3. ASSUME NEW c \in Cats, NEW n \in 1..MaxEntries, IsGenerationActive,
             received + n <= MaxEntries, waiting' = [waiting EXCEPT ![c] = @ + n]
      PROVE  waiting' \in [Cats -> 0..MaxEntries]
  <2>1. Balanced /\ waiting[c] \in Nat /\ waiting[c] <= Waiting
    BY <1>3, OpenIsBalanced, WaitingFacts DEF TypeOK
  <2>2. waiting[c] + n \in 0..MaxEntries
    BY <1>3, <2>1, SpawnerAssumption DEF Balanced
  <2> QED BY <1>3, <2>2, WaitingKeepsType
<1>4. ASSUME NEW l \in loads, waiting' = [waiting EXCEPT ![l.cat] = 0]
      PROVE  waiting' \in [Cats -> 0..MaxEntries]
  <2>1. 0 \in 0..MaxEntries
    BY SpawnerAssumption
  <2> QED BY <1>4, <2>1 DEF TypeOK
<1>5. ASSUME NEW c \in Cats \cup {Unknown}, NEW n \in 1..MaxEntries, Enqueue(c, n)
      PROVE  waiting' \in [Cats -> 0..MaxEntries]
  BY <1>1, <1>3, <1>5 DEF Enqueue
<1>6. ASSUME NEW l \in loads, OnCategoryAssetLoaded(l) PROVE waiting' \in [Cats -> 0..MaxEntries]
  BY <1>1, <1>4, <1>6 DEF OnCategoryAssetLoaded, categoryVars
<1>7. ASSUME NEW l \in loads, LoadCompletes(l) PROVE waiting' = waiting
  BY <1>7 DEF LoadCompletes, categoryVars
<1> QED BY <1>1, <1>2, <1>5, <1>6, <1>7
  DEF Next, BeginGeneration, EndDiscard, Discard, EndComplete, Finalize, Shutdown, Tick,
      TickIdle, TickSpawn, Finished, vars, categoryVars

\* The load flags stay flags, and a load is one of the generation that asked.
LEMMA StepLoadsType ==
  ASSUME TypeOK, [Next]_vars
  PROVE  /\ requested' \in [Cats -> BOOLEAN] /\ failed' \in [Cats -> BOOLEAN]
         /\ loaded' \in [Cats -> BOOLEAN]
         /\ loads' \subseteq Loads
<1> DEFINE Goal == /\ requested' \in [Cats -> BOOLEAN] /\ failed' \in [Cats -> BOOLEAN]
                   /\ loaded' \in [Cats -> BOOLEAN] /\ loads' \subseteq Loads
<1>1. CASE UNCHANGED <<requested, failed, loaded, loads>>
  BY <1>1 DEF TypeOK
<1>2. CASE ResetCategories /\ loads' \subseteq loads
  BY <1>2 DEF TypeOK, ResetCategories, NoneOf
<1>3. ASSUME NEW c \in Cats \cup {Unknown}, NEW n \in 1..MaxEntries, Enqueue(c, n)
      PROVE  Goal
  <2>1. CASE c \in Cats /\ requested' = [requested EXCEPT ![c] = TRUE]
    <3>1. gen \in Gens
      BY <1>3 DEF Enqueue, IsGenerationActive, TypeOK
    <3>2. [gen |-> gen, cat |-> c, state |-> "loading"] \in Loads
      BY <2>1, <3>1 DEF Loads
    <3>3. loads' \subseteq loads \cup {[gen |-> gen, cat |-> c, state |-> "loading"]}
      BY <1>3, <2>1 DEF Enqueue
    <3>4. requested' \in [Cats -> BOOLEAN] /\ loaded' \in [Cats -> BOOLEAN]
      BY <1>3, <2>1 DEF Enqueue, TypeOK
    <3>5. failed' \in [Cats -> BOOLEAN]
      <4>1. (c \in NoPath) \in BOOLEAN
        OBVIOUS
      <4>2. failed' = failed \/ failed' = [failed EXCEPT ![c] = c \in NoPath]
        BY <1>3, <2>1 DEF Enqueue
      <4> QED BY <4>1, <4>2, Zenon DEF TypeOK
    <3> QED BY <3>2, <3>3, <3>4, <3>5 DEF TypeOK
  <2>2. CASE UNCHANGED <<requested, failed, loads>>
    BY <1>3, <2>2 DEF Enqueue, TypeOK
  <2> QED BY <1>3, <2>1, <2>2 DEF Enqueue
<1>4. ASSUME NEW l \in loads, OnCategoryAssetLoaded(l) PROVE Goal
  BY <1>4 DEF OnCategoryAssetLoaded, TypeOK, categoryVars
<1>5. ASSUME NEW l \in loads, LoadCompletes(l) PROVE Goal
  <2>1. \A t \in {"loaded", "failed"} : [l EXCEPT !.state = t] \in Loads
    BY DEF TypeOK, Loads
  <2>2. loads' \subseteq Loads
    BY <1>5, <2>1 DEF LoadCompletes, TypeOK
  <2> QED BY <1>5, <2>2 DEF LoadCompletes, TypeOK, categoryVars
<1>6. CASE BeginGeneration \/ EndDiscard \/ Shutdown
  BY <1>1, <1>2, <1>6
     DEF BeginGeneration, EndDiscard, Shutdown, Discard, CancelLoads, categoryVars
<1>7. CASE EndComplete \/ Tick
  BY <1>1, <1>2, <1>7 DEF EndComplete, Tick, TickIdle, TickSpawn, Finalize, categoryVars
<1>8. CASE Finished \/ UNCHANGED vars
  BY <1>1, <1>8 DEF Finished, vars, categoryVars
<1> QED BY <1>3, <1>4, <1>5, <1>6, <1>7, <1>8 DEF Next

\* No step leaves the types.
LEMMA StepTypeOK ==
  ASSUME IndInv, [Next]_vars
  PROVE  TypeOK'
<1>0. TypeOK /\ EntriesAccounted /\ OpenIsLast
  BY DEF IndInv
<1>1. ticking' \in BOOLEAN /\ bFinalizeWhenDrained' \in BOOLEAN
  BY <1>0 DEF TypeOK, Next, BeginGeneration, Enqueue, EndDiscard, Discard, EndComplete,
     Finalize, Shutdown, Tick, TickIdle, TickSpawn, LoadCompletes, OnCategoryAssetLoaded,
     Finished, vars
<1> QED BY <1>0, <1>1, StepNumbers, StepWaitingType, StepLoadsType DEF TypeOK

\* The books stay balanced, and so is every record that was broadcast.
LEMMA StepEntriesAccounted ==
  ASSUME IndInv, [Next]_vars
  PROVE  EntriesAccounted'
<1>0. TypeOK /\ EntriesAccounted /\ OpenIsLast
  BY DEF IndInv
<1>1. CASE gen' = gen
  <2>1. UNCHANGED finalized
    BY <1>0, <1>1, StepKeepsOpen
  <2>2. ASSUME IsGenerationActive'
        PROVE  /\ SpawnedCount' + SkippedCount' + NumPendingEntries' = received'
               /\ PendingCount' >= NumPendingEntries'
    <3>1. Balanced' /\ PendingCount' >= NumPendingEntries'
      BY <1>0, <1>1, <2>2, StepBalanced DEF IsGenerationActive
    <3>2. NumPendingEntries' = ready' + Waiting'
      BY PendingIsSumNext
    <3>3. /\ SpawnedCount' \in Nat /\ SkippedCount' \in Nat /\ ready' \in Nat /\ Waiting' \in Nat
          /\ SpawnedCount' + SkippedCount' + ready' + Waiting' = received'
      BY <3>1 DEF Balanced
    <3> QED BY <3>1, <3>2, <3>3
  <2> QED BY <1>0, <2>1, <2>2 DEF EntriesAccounted
<1>2. CASE gen' # gen
  <2>1. NumPendingEntries' = 0
    BY <1>0, <1>2, StepCloses, NothingPending
  <2>2. ASSUME IsGenerationActive'
        PROVE  SpawnedCount' = 0 /\ SkippedCount' = 0 /\ PendingCount' = 0 /\ received' = 0
    BY <1>0, <1>2, <2>2, StepCloses DEF IsGenerationActive
  <2>3. \A i \in 1..Len(finalized') :
          finalized'[i].spawned + finalized'[i].skipped = finalized'[i].received
    <3>1. CASE ~IsGenerationActive
      BY <1>0, <1>2, <3>1, StepCloses DEF EntriesAccounted
    <3>2. CASE IsGenerationActive
      <4>1. PICK i, j : Closes(i, j)
        BY <1>0, <1>2, <3>2, StepCloses
      <4>2. /\ Len(finalized) \in Nat /\ Len(finalized') = Len(finalized) + 1
            /\ finalized'[Len(finalized) + 1] = FinalRecord(i, j)
            /\ \A k \in 1..Len(finalized) : finalized'[k] = finalized[k]
        BY <1>0, <4>1 DEF Closes, OpenIsLast
      <4>3. \A k \in 1..Len(finalized') : k \in 1..Len(finalized) \/ k = Len(finalized) + 1
        BY <4>2
      <4>4. FinalRecord(i, j).spawned + FinalRecord(i, j).skipped = FinalRecord(i, j).received
        BY <4>1 DEF Closes, FinalRecord
      <4> QED BY <1>0, <4>2, <4>3, <4>4 DEF EntriesAccounted
    <3> QED BY <3>1, <3>2
  <2> QED BY <2>1, <2>2, <2>3 DEF EntriesAccounted
<1> QED BY <1>1, <1>2

\* Generations are finalized one by one, each before the next one opens.
LEMMA StepOneTransactionEach ==
  ASSUME IndInv, [Next]_vars
  PROVE  OneTransactionEach'
<1>0. TypeOK /\ EntriesAccounted /\ OpenIsLast /\ OneTransactionEach
  BY DEF IndInv
<1>1. CASE gen' = gen
  <2>1. UNCHANGED <<begun, finalized>>
    BY <1>0, <1>1, StepKeepsOpen
  <2> QED BY <1>0, <1>1, <2>1 DEF OneTransactionEach, IsGenerationActive
<1>2. ASSUME gen' # gen, ~IsGenerationActive PROVE OneTransactionEach'
  <2>1. finalized' = finalized /\ begun' = begun + 1 /\ gen' = begun'
    BY <1>0, <1>2, StepCloses
  <2>2. IsGenerationActive' /\ begun \in Nat
    BY <1>0, <2>1 DEF TypeOK, IsGenerationActive, NoGen
  <2> QED BY <1>0, <1>2, <2>1, <2>2 DEF OneTransactionEach
<1>3. ASSUME gen' # gen, IsGenerationActive PROVE OneTransactionEach'
  <2>1. PICK i, j : Closes(i, j)
    BY <1>0, <1>3, StepCloses
  <2>2. /\ Len(finalized) \in Nat /\ Len(finalized') = Len(finalized) + 1
        /\ finalized'[Len(finalized) + 1] = FinalRecord(i, j)
        /\ \A k \in 1..Len(finalized) : finalized'[k] = finalized[k]
    BY <1>0, <2>1 DEF Closes, OpenIsLast
  <2>3. \A k \in 1..Len(finalized') : k \in 1..Len(finalized) \/ k = Len(finalized) + 1
    BY <2>2
  <2>4. begun \in Nat /\ gen = begun /\ Len(finalized) = begun - 1
    BY <1>0, <1>3 DEF OneTransactionEach, OpenIsLast, IsGenerationActive, TypeOK
  <2>5. FinalRecord(i, j).gen = gen
    BY DEF FinalRecord
  <2>6. \A k \in 1..Len(finalized') : finalized'[k].gen = k
    BY <1>0, <2>2, <2>3, <2>4, <2>5 DEF OneTransactionEach
  <2>7. \/ ~IsGenerationActive' /\ begun' = begun
        \/ IsGenerationActive' /\ begun' = begun + 1
    BY <1>0, <1>3, <2>4, StepCloses DEF IsGenerationActive, NoGen
  <2> QED BY <2>2, <2>4, <2>6, <2>7 DEF OneTransactionEach
<1> QED BY <1>1, <1>2, <1>3

\* A load on its way for a category of the open generation.
LoadOnItsWay(c) == \E l \in loads : l.gen = gen /\ l.cat = c

\* It stays so until its own callback runs.
LEMMA LoadStaysOnItsWay ==
  ASSUME TypeOK, OpenIsLast, [Next]_vars, gen' = gen, NEW c \in Cats, LoadOnItsWay(c),
         \A l \in loads : OnCategoryAssetLoaded(l) => l.cat # c
  PROVE  LoadOnItsWay(c)'
<1>0. PICK m \in loads : m.gen = gen /\ m.cat = c
  BY DEF LoadOnItsWay
<1>1. gen \in Gens /\ IsGenerationActive
  BY <1>0 DEF TypeOK, Loads, Gens, NoGen, IsGenerationActive
<1>2. ~BeginGeneration /\ ~Discard /\ \A i, j : ~Finalize(i, j)
  BY <1>1, SpawnerAssumption
     DEF BeginGeneration, Discard, Finalize, NoGen, Gens, OpenIsLast, TypeOK
<1>3. ASSUME NEW l \in loads, LoadCompletes(l) PROVE LoadOnItsWay(c)'
  <2>1. PICK t \in {"loaded", "failed"} : loads' = (loads \ {l}) \cup {[l EXCEPT !.state = t]}
    BY <1>3 DEF LoadCompletes
  <2>2. [l EXCEPT !.state = t].gen = l.gen /\ [l EXCEPT !.state = t].cat = l.cat
    BY DEF TypeOK, Loads
  <2> QED BY <1>0, <2>1, <2>2 DEF LoadOnItsWay
<1>4. ASSUME NEW l \in loads, OnCategoryAssetLoaded(l) PROVE LoadOnItsWay(c)'
  <2>1. l # m /\ loads' = loads \ {l}
    BY <1>0, <1>4 DEF OnCategoryAssetLoaded
  <2> QED BY <1>0, <2>1 DEF LoadOnItsWay
<1>5. CASE loads \subseteq loads'
  BY <1>0, <1>5 DEF LoadOnItsWay
<1> QED BY <1>2, <1>3, <1>4, <1>5
  DEF Next, Enqueue, EndDiscard, EndComplete, Shutdown, Tick, TickIdle, TickSpawn, Finished,
      vars

\* The callback of a category's load ends the waiting and the asking for it.
LEMMA CallbackEndsWaiting ==
  ASSUME TypeOK, NEW l \in loads, OnCategoryAssetLoaded(l), IsGenerationActive
  PROVE  waiting'[l.cat] = 0 /\ (failed'[l.cat] \/ loaded'[l.cat])
<1>1. l.cat \in Cats
  BY DEF TypeOK, Loads
<1> QED BY <1>1 DEF OnCategoryAssetLoaded, TypeOK

\* A load that was asked for is on its way until loaded or failed.
LEMMA StepRequestedIsLoading ==
  ASSUME IndInv, [Next]_vars
  PROVE  RequestedIsLoading'
<1>0. TypeOK /\ EntriesAccounted /\ OpenIsLast /\ RequestedIsLoading
  BY DEF IndInv
<1>1. CASE gen' # gen
  BY <1>0, <1>1, StepCloses DEF ResetCategories, NoneOf, RequestedIsLoading
<1>2. ASSUME gen' = gen, NEW c \in Cats, requested'[c], ~failed'[c], ~loaded'[c]
      PROVE  LoadOnItsWay(c)'
  <2>1. CASE requested[c] /\ ~failed[c] /\ ~loaded[c]
    <3>1. LoadOnItsWay(c)
      BY <1>0, <2>1 DEF RequestedIsLoading, LoadOnItsWay
    <3>2. IsGenerationActive
      BY <1>0, <3>1 DEF LoadOnItsWay, IsGenerationActive, TypeOK, Loads, Gens, NoGen
    <3>3. \A l \in loads : OnCategoryAssetLoaded(l) => l.cat # c
      BY <1>0, <1>2, <3>2, CallbackEndsWaiting
    <3> QED BY <1>0, <1>2, <3>1, <3>3, LoadStaysOnItsWay
  <2>2. ASSUME ~(requested[c] /\ ~failed[c] /\ ~loaded[c]) PROVE LoadOnItsWay(c)'
    <3>1. ~ResetCategories
      BY <1>2 DEF ResetCategories, NoneOf
    <3>2. PICK d \in Cats \cup {Unknown}, n \in 1..MaxEntries : Enqueue(d, n)
      BY <1>0, <1>2, <2>2, <3>1
         DEF Next, BeginGeneration, EndDiscard, Discard, EndComplete, Finalize, Shutdown,
             Tick, TickIdle, TickSpawn, LoadCompletes, OnCategoryAssetLoaded, Finished,
             TypeOK, vars, categoryVars
    <3>3. ~failed[c] /\ ~requested[c] /\ d = c /\ c \notin NoPath
      BY <1>0, <1>2, <2>2, <3>2 DEF Enqueue, TypeOK
    <3>4. [gen |-> gen, cat |-> c, state |-> "loading"] \in loads'
      BY <3>2, <3>3 DEF Enqueue
    <3> QED BY <1>2, <3>4 DEF LoadOnItsWay
  <2> QED BY <2>1, <2>2
<1> QED BY <1>1, <1>2 DEF RequestedIsLoading, LoadOnItsWay

\* No entry waits for a load that nobody will complete.
LEMMA StepWaitingIsLoading ==
  ASSUME IndInv, [Next]_vars
  PROVE  WaitingIsLoading'
<1>0. TypeOK /\ EntriesAccounted /\ OpenIsLast /\ RequestedIsLoading /\ WaitingIsLoading
  BY DEF IndInv
<1>1. CASE gen' # gen
  BY <1>0, <1>1, StepCloses DEF ResetCategories, Zero, WaitingIsLoading
<1>2. ASSUME gen' = gen, NEW c \in Cats, waiting'[c] > 0
      PROVE  LoadOnItsWay(c)'
  <2>1. ASSUME LoadOnItsWay(c) PROVE LoadOnItsWay(c)'
    <3>1. IsGenerationActive
      BY <1>0, <2>1 DEF LoadOnItsWay, IsGenerationActive, TypeOK, Loads, Gens, NoGen
    <3>2. \A l \in loads : OnCategoryAssetLoaded(l) => l.cat # c
      BY <1>0, <1>2, <3>1, CallbackEndsWaiting
    <3> QED BY <1>0, <1>2, <2>1, <3>2, LoadStaysOnItsWay
  <2>2. CASE waiting[c] > 0
    BY <1>0, <2>1, <2>2 DEF WaitingIsLoading, LoadOnItsWay
  <2>3. ASSUME ~(waiting[c] > 0) PROVE LoadOnItsWay(c)'
    <3>1. ~ResetCategories
      BY <1>2 DEF ResetCategories, Zero
    <3>2. waiting'[c] # waiting[c]
      BY <1>0, <1>2, <2>3 DEF TypeOK
    <3>3. ASSUME NEW l \in loads PROVE ~OnCategoryAssetLoaded(l)
      <4>1. CASE IsGenerationActive /\ l.cat = c
        BY <1>0, <1>2, <4>1, CallbackEndsWaiting
      <4>2. CASE ~IsGenerationActive \/ l.cat # c
        BY <1>0, <3>2, <4>2 DEF OnCategoryAssetLoaded, TypeOK, categoryVars
      <4> QED BY <4>1, <4>2
    <3>4. PICK d \in Cats \cup {Unknown}, n \in 1..MaxEntries : Enqueue(d, n)
      BY <3>1, <3>2, <3>3
         DEF Next, BeginGeneration, EndDiscard, Discard, EndComplete, Finalize, Shutdown,
             Tick, TickIdle, TickSpawn, LoadCompletes, Finished, vars, categoryVars
    <3>5. d = c /\ ~failed[c] /\ ~loaded[c] /\ (~requested[c] => c \notin NoPath)
      BY <1>0, <3>2, <3>4 DEF Enqueue, TypeOK
    <3>6. CASE requested[c]
      BY <1>0, <2>1, <3>5, <3>6 DEF RequestedIsLoading, LoadOnItsWay
    <3>7. CASE ~requested[c]
      <4>1. [gen |-> gen, cat |-> c, state |-> "loading"] \in loads'
        BY <3>4, <3>5, <3>7 DEF Enqueue
      <4> QED BY <1>2, <4>1 DEF LoadOnItsWay
    <3> QED BY <3>6, <3>7
  <2> QED BY <2>2, <2>3
<1> QED BY <1>1, <1>2 DEF WaitingIsLoading, LoadOnItsWay

-----------------------------------------------------------------------------

\* The inductive invariant holds at the start.
LEMMA InitIndInv == Init => IndInv
<1> SUFFICES ASSUME Init PROVE IndInv
  OBVIOUS
<1>1. TypeOK
  <2>1. 0 \in 0..MaxEntries /\ 0 \in 0..MaxGens
    BY SpawnerAssumption
  <2>2. waiting \in [Cats -> 0..MaxEntries]
    BY <2>1 DEF Init, Zero
  <2>3. /\ requested \in [Cats -> BOOLEAN] /\ failed \in [Cats -> BOOLEAN]
        /\ loaded \in [Cats -> BOOLEAN]
    BY DEF Init, NoneOf
  <2> QED BY <2>1, <2>2, <2>3 DEF Init, TypeOK
<1>2. EntriesAccounted
  BY DEF Init, EntriesAccounted, IsGenerationActive
<1>3. OneTransactionEach
  BY DEF Init, OneTransactionEach, IsGenerationActive
<1>4. WaitingIsLoading /\ RequestedIsLoading
  BY DEF Init, WaitingIsLoading, RequestedIsLoading, Zero, NoneOf
<1>5. OpenIsLast
  BY DEF Init, OpenIsLast
<1> QED BY <1>1, <1>2, <1>3, <1>4, <1>5 DEF IndInv

\* The inductive invariant holds of every behaviour.
THEOREM SpecIndInv == Spec => []IndInv
<1>1. IndInv /\ [Next]_vars => IndInv'
  <2> SUFFICES ASSUME IndInv, [Next]_vars PROVE IndInv'
    OBVIOUS
  <2>1. OpenIsLast'
    BY StepNumbers DEF IndInv
  <2> QED BY <2>1, StepTypeOK, StepEntriesAccounted, StepOneTransactionEach,
             StepWaitingIsLoading, StepRequestedIsLoading DEF IndInv
<1> QED BY InitIndInv, <1>1, PTL DEF Spec

\* Type correctness, with no counter above what the generation received.
THEOREM SpecTypeOK == Spec => []TypeOK
<1>1. IndInv => TypeOK
  BY DEF IndInv
<1> QED BY SpecIndInv, <1>1, PTL

\* No entry of a generation is lost or counted twice.
THEOREM SpecEntriesAccounted == Spec => []EntriesAccounted
<1>1. IndInv => EntriesAccounted
  BY DEF IndInv
<1> QED BY SpecIndInv, <1>1, PTL

\* Each generation is finalized exactly once, in order.
THEOREM SpecOneTransactionEach == Spec => []OneTransactionEach
<1>1. IndInv => OneTransactionEach
  BY DEF IndInv
<1> QED BY SpecIndInv, <1>1, PTL

\* What waits has its load on the way, stale callbacks or not.
THEOREM SpecWaitingIsLoading == Spec => []WaitingIsLoading
<1>1. IndInv => WaitingIsLoading
  BY DEF IndInv
<1> QED BY SpecIndInv, <1>1, PTL
=============================================================================
