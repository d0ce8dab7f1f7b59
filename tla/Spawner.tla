------------------------------ MODULE Spawner ------------------------------
(***************************************************************************)
(* The time-budgeted spawn queue of the plugin:                            *)
(* Spawn/AetherForgeSpawner.cpp.  Everything runs on the game thread, so   *)
(* each call, ticker callback and asset-load callback is one action; what  *)
(* interleaves is the order of those.                                      *)
(*                                                                         *)
(* An entry is counted, not described: it waits for its category's asset,  *)
(* is ready, or has been spawned or skipped.  Where a ready entry ends     *)
(* (no terrain below, wrong asset class, SpawnActor fails) and how many    *)
(* fit in a 2 ms tick is open.  The engine's FStreamableManager is         *)
(* external: a load that was requested and not cancelled completes, and    *)
(* its callback is queued for a later tick.                                *)
(***************************************************************************)
EXTENDS Integers, Sequences, FiniteSets, FiniteSetsExt

CONSTANTS Cats,        \* the manifest's categories
          NoPath,      \* those whose AssetPath is not valid
          Unknown,     \* a category the manifest does not have
          MaxGens,     \* bound: BeginGeneration calls
          MaxEntries   \* bound: entries enqueued per generation

ASSUME SpawnerAssumption ==
    /\ IsFiniteSet(Cats) /\ NoPath \subseteq Cats /\ Unknown \notin Cats
    /\ MaxGens \in Nat /\ MaxEntries \in Nat

NoGen == 0
Gens  == 1..MaxGens
Loads == [gen : Gens, cat : Cats, state : {"loading", "loaded", "failed"}]
Finals == [gen : Gens, spawned : 0..MaxEntries, skipped : 0..MaxEntries,
           received : 0..MaxEntries]

VARIABLES
    gen,         \* ActiveGenerationId: the open transaction, or NoGen
    begun,       \* BeginGeneration calls so far
    requested, failed, loaded,   \* bLoadRequested, bLoadFailed, LoadedAsset set
    waiting,     \* WaitingEntries.Num() of each category
    ready,       \* ReadyQueue.Num() - ReadyQueueHead
    bFinalizeWhenDrained,
    SpawnedCount, SkippedCount, PendingCount,    \* Stats
    received,    \* entries enqueued in the open generation
    loads,       \* load requests whose callback has not run
    ticking,     \* the spawn ticker is registered
    finalized    \* the statistics each finalized generation was broadcast with

categoryVars == <<requested, failed, loaded, waiting>>
statVars     == <<SpawnedCount, SkippedCount, PendingCount, received>>
vars == <<gen, begun, categoryVars, ready, bFinalizeWhenDrained, statVars, loads,
          ticking, finalized>>

IsGenerationActive == gen # NoGen
NumPendingEntries == ready + MapThenSumSet(LAMBDA c : waiting[c], Cats)

NoneOf == [c \in Cats |-> FALSE]
Zero   == [c \in Cats |-> 0]

Init ==
    /\ gen = NoGen /\ begun = 0
    /\ requested = NoneOf /\ failed = NoneOf /\ loaded = NoneOf /\ waiting = Zero
    /\ ready = 0
    /\ bFinalizeWhenDrained = FALSE
    /\ SpawnedCount = 0 /\ SkippedCount = 0 /\ PendingCount = 0 /\ received = 0
    /\ loads = {}
    /\ ticking = TRUE              \* Initialize has run
    /\ finalized = << >>

-----------------------------------------------------------------------------

\* FinalizeGeneration: close the transaction, broadcast the statistics, reset
\* the categories and the queue.  The statistics stay until the next Begin.
FinalRecord(spawned, skipped) ==
    [gen |-> gen, spawned |-> spawned, skipped |-> skipped, received |-> received]

\* Mutant: the load flags survive the generation.
ResetCategories_KeepsRequested ==
    /\ failed' = NoneOf /\ loaded' = NoneOf /\ waiting' = Zero /\ ready' = 0
    /\ UNCHANGED requested

ResetCategories ==
    /\ requested' = NoneOf /\ failed' = NoneOf /\ loaded' = NoneOf
    /\ waiting' = Zero /\ ready' = 0

\* A discarding EndGeneration cancels the loads that have not completed; the
\* callback of a completed one stays queued.
CancelLoads == loads' = {l \in loads : l.gen # gen \/ l.state # "loading"}
SkippedOnDiscard == SkippedCount + NumPendingEntries

\* Mutant: the open generation is overwritten, not finalized.
BeginGeneration_Overwrites ==
    /\ ticking /\ begun < MaxGens
    /\ begun' = begun + 1 /\ gen' = begun + 1
    /\ ResetCategories
    /\ bFinalizeWhenDrained' = FALSE
    /\ SpawnedCount' = 0 /\ SkippedCount' = 0 /\ PendingCount' = 0 /\ received' = 0
    /\ UNCHANGED <<ticking, finalized, loads>>

BeginGeneration ==
    /\ ticking /\ begun < MaxGens
    /\ IF IsGenerationActive
       THEN /\ finalized' = Append(finalized, FinalRecord(SpawnedCount, SkippedOnDiscard))
            /\ CancelLoads
       ELSE UNCHANGED <<finalized, loads>>
    /\ begun' = begun + 1 /\ gen' = begun + 1
    /\ ResetCategories
    /\ bFinalizeWhenDrained' = FALSE
    /\ SpawnedCount' = 0 /\ SkippedCount' = 0 /\ PendingCount' = 0 /\ received' = 0
    /\ UNCHANGED ticking

\* EnqueueEntries for n entries of one category; a chunk of several categories
\* is several of these, which do not affect each other.
Enqueue(c, n) ==
    /\ IsGenerationActive /\ received + n <= MaxEntries
    /\ received' = received + n
    /\ LET known   == c \in Cats
           skip    == ~known \/ (known /\ (failed[c] \/ (~requested[c] /\ c \in NoPath)))
       IN /\ \/ /\ skip
                /\ SkippedCount' = SkippedCount + n
                /\ UNCHANGED <<waiting, ready>>
             \/ /\ ~skip /\ loaded[c]
                /\ ready' = ready + n
                /\ UNCHANGED <<SkippedCount, waiting>>
             \/ /\ ~skip /\ ~loaded[c]
                /\ waiting' = [waiting EXCEPT ![c] = @ + n]
                /\ UNCHANGED <<SkippedCount, ready>>
          /\ IF known /\ ~failed[c] /\ ~requested[c]
             THEN /\ requested' = [requested EXCEPT ![c] = TRUE]
                  /\ failed' = [failed EXCEPT ![c] = c \in NoPath]
                  /\ loads' = IF c \in NoPath THEN loads
                              ELSE loads \cup {[gen |-> gen, cat |-> c, state |-> "loading"]}
             ELSE UNCHANGED <<requested, failed, loads>>
    /\ PendingCount' = NumPendingEntries'
    /\ UNCHANGED <<gen, begun, loaded, bFinalizeWhenDrained, SpawnedCount, ticking, finalized>>

\* EndGeneration(bDiscardPending = true): cancel, error, disconnect, shutdown.
Discard ==
    /\ finalized' = Append(finalized, FinalRecord(SpawnedCount, SkippedOnDiscard))
    /\ SkippedCount' = SkippedOnDiscard /\ PendingCount' = 0
    /\ CancelLoads
    /\ gen' = NoGen /\ bFinalizeWhenDrained' = FALSE
    /\ ResetCategories
    /\ UNCHANGED <<begun, SpawnedCount, received>>

EndDiscard ==
    /\ IsGenerationActive /\ Discard
    /\ UNCHANGED ticking

\* Finalize with nothing pending.
Finalize(spawned, skipped) ==
    /\ finalized' = Append(finalized, FinalRecord(spawned, skipped))
    /\ SpawnedCount' = spawned /\ SkippedCount' = skipped /\ PendingCount' = 0
    /\ gen' = NoGen /\ bFinalizeWhenDrained' = FALSE
    /\ ResetCategories
    /\ UNCHANGED <<begun, received, loads, ticking>>

\* EndGeneration(bDiscardPending = false): the complete has arrived.
EndComplete ==
    /\ IsGenerationActive
    /\ \/ NumPendingEntries = 0 /\ Finalize(SpawnedCount, SkippedCount)
       \/ /\ NumPendingEntries # 0 /\ bFinalizeWhenDrained' = TRUE
          /\ UNCHANGED <<gen, begun, categoryVars, ready, statVars, loads, ticking, finalized>>

Shutdown ==
    /\ ticking /\ ticking' = FALSE
    /\ \/ IsGenerationActive /\ Discard
       \/ /\ ~IsGenerationActive
          /\ UNCHANGED <<gen, begun, categoryVars, ready, bFinalizeWhenDrained,
                         statVars, loads, finalized>>

-----------------------------------------------------------------------------

\* Mutant: a tick with nothing ready does nothing.
TickIdle_Never == FALSE

\* SpawnTick with nothing ready.
TickIdle ==
    /\ ticking /\ IsGenerationActive /\ ready = 0
    /\ bFinalizeWhenDrained /\ NumPendingEntries = 0
    /\ Finalize(SpawnedCount, SkippedCount)

\* Mutant: the queue head is not advanced past a skipped entry.
TickSpawn_KeepsSkipped(n, s) ==
    /\ ticking /\ IsGenerationActive /\ n \in 1..ready /\ s \in 0..n
    /\ ready' = ready - (n - s)
    /\ SpawnedCount' = SpawnedCount + n - s
    /\ SkippedCount' = SkippedCount + s
    /\ PendingCount' = NumPendingEntries - n
    /\ UNCHANGED <<gen, begun, categoryVars, bFinalizeWhenDrained, received, loads,
                   ticking, finalized>>

\* SpawnTick with a world: n entries fit in the budget, s of them are skipped.
TickSpawn(n, s) ==
    /\ ticking /\ IsGenerationActive /\ n \in 1..ready /\ s \in 0..n
    /\ IF bFinalizeWhenDrained /\ NumPendingEntries = n
       THEN Finalize(SpawnedCount + n - s, SkippedCount + s)
       ELSE /\ ready' = ready - n
            /\ SpawnedCount' = SpawnedCount + n - s
            /\ SkippedCount' = SkippedCount + s
            /\ PendingCount' = NumPendingEntries - n
            /\ UNCHANGED <<gen, begun, categoryVars, bFinalizeWhenDrained, received,
                           loads, ticking, finalized>>

\* The streamable manager finishes a load and queues its callback.
LoadCompletes(l) ==
    /\ l \in loads /\ l.state = "loading"
    /\ \E s \in {"loaded", "failed"} :
        loads' = (loads \ {l}) \cup {[l EXCEPT !.state = s]}
    /\ UNCHANGED <<gen, begun, categoryVars, ready, bFinalizeWhenDrained, statVars,
                   ticking, finalized>>

\* Mutant: the entries waiting for a failed load are not counted as skipped.
OnCategoryAssetLoaded_Uncounted(l) ==
    /\ l \in loads /\ l.state # "loading"
    /\ loads' = loads \ {l}
    /\ waiting' = [waiting EXCEPT ![l.cat] = 0]
    /\ IF l.state = "loaded"
       THEN loaded' = [loaded EXCEPT ![l.cat] = TRUE] /\ ready' = ready + waiting[l.cat]
       ELSE UNCHANGED <<loaded, ready>>
    /\ UNCHANGED <<gen, begun, requested, failed, bFinalizeWhenDrained, statVars,
                   ticking, finalized>>

\* OnCategoryAssetLoaded.  It looks the category up in whatever generation is
\* open now, which need not be the one that asked for the load; the asset is
\* the same, and stays resident until its callback has run.
OnCategoryAssetLoaded(l) ==
    /\ l \in loads /\ l.state # "loading"
    /\ loads' = loads \ {l}
    /\ LET c == l.cat IN
        \/ /\ ~IsGenerationActive
           /\ UNCHANGED <<categoryVars, ready, SkippedCount>>
        \/ /\ IsGenerationActive /\ l.state = "failed"
           /\ failed' = [failed EXCEPT ![c] = TRUE]
           /\ SkippedCount' = SkippedCount + waiting[c]
           /\ waiting' = [waiting EXCEPT ![c] = 0]
           /\ UNCHANGED <<requested, loaded, ready>>
        \/ /\ IsGenerationActive /\ l.state = "loaded"
           /\ loaded' = [loaded EXCEPT ![c] = TRUE]
           /\ ready' = ready + waiting[c]
           /\ waiting' = [waiting EXCEPT ![c] = 0]
           /\ UNCHANGED <<requested, failed, SkippedCount>>
    /\ UNCHANGED <<gen, begun, bFinalizeWhenDrained, SpawnedCount, PendingCount,
                   received, ticking, finalized>>

Tick == TickIdle \/ \E n, s \in 0..MaxEntries : TickSpawn(n, s)

\* The module is gone and no callback is left.
Finished == ~ticking /\ loads = {} /\ UNCHANGED vars

Next ==
    \/ BeginGeneration
    \/ \E c \in Cats \cup {Unknown}, n \in 1..MaxEntries : Enqueue(c, n)
    \/ EndDiscard \/ EndComplete \/ Shutdown
    \/ Tick
    \/ \E l \in loads : LoadCompletes(l) \/ OnCategoryAssetLoaded(l)
    \/ Finished

Spec == Init /\ [][Next]_vars

\* The editor ticks and has a world; loads complete and call back.
Fairness ==
    /\ WF_vars(Tick)
    /\ \A l \in Loads : WF_vars(LoadCompletes(l)) /\ WF_vars(OnCategoryAssetLoaded(l))
FairSpec == Spec /\ Fairness

-----------------------------------------------------------------------------
(* Properties.                                                             *)

\* The type invariant.
TypeOK ==
    /\ gen \in Gens \cup {NoGen} /\ begun \in 0..MaxGens
    /\ requested \in [Cats -> BOOLEAN] /\ failed \in [Cats -> BOOLEAN]
    /\ loaded \in [Cats -> BOOLEAN]
    /\ waiting \in [Cats -> 0..MaxEntries] /\ ready \in 0..MaxEntries
    /\ bFinalizeWhenDrained \in BOOLEAN
    /\ SpawnedCount \in 0..MaxEntries /\ SkippedCount \in 0..MaxEntries
    /\ PendingCount \in 0..MaxEntries /\ received \in 0..MaxEntries
    /\ loads \subseteq Loads
    /\ ticking \in BOOLEAN

\* No entry is lost or counted twice on its way through the loads, the queue
\* and the discards, the statistic hides none that is pending, and what a
\* generation is finalized with accounts for all it received.
EntriesAccounted ==
    /\ IsGenerationActive =>
        /\ SpawnedCount + SkippedCount + NumPendingEntries = received
        /\ PendingCount >= NumPendingEntries
    /\ \A i \in 1..Len(finalized) :
        finalized[i].spawned + finalized[i].skipped = finalized[i].received

\* Every generation begun is finalized exactly once, in order, before the next
\* one opens: one transaction, one undo step.
OneTransactionEach ==
    /\ Len(finalized) = IF IsGenerationActive THEN begun - 1 ELSE begun
    /\ \A i \in 1..Len(finalized) : finalized[i].gen = i

\* No entry waits for a load that nobody will complete, also when a stale
\* callback of an earlier generation has touched its category.
WaitingIsLoading ==
    \A c \in Cats : waiting[c] > 0 => \E l \in loads : l.gen = gen /\ l.cat = c

\* The strengthening that makes these inductive: the open generation is the
\* last one begun, and a load that was asked for is on its way until its
\* category is loaded or has failed, by whichever callback.
OpenIsLast == gen \in {NoGen, begun} /\ finalized \in Seq(Finals)

RequestedIsLoading ==
    \A c \in Cats : requested[c] /\ ~failed[c] /\ ~loaded[c] =>
        \E l \in loads : l.gen = gen /\ l.cat = c

IndInv ==
    /\ TypeOK /\ EntriesAccounted /\ OneTransactionEach /\ WaitingIsLoading
    /\ OpenIsLast /\ RequestedIsLoading

\* A generation that is complete keeps draining until it is finalized (or
\* replaced or discarded): it never stays open for good.
CompleteIsFinalized ==
    \A g \in Gens : gen = g /\ bFinalizeWhenDrained ~> gen # g
=============================================================================
