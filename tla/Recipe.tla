------------------------------- MODULE Recipe -------------------------------
(***************************************************************************)
(* From a prompt to the recipe that is placed: recipeWithRetry,            *)
(* validateRecipe and clampCounts of orchestrator.go over the LLM clients  *)
(* of llm/, and the recordings on disk.                                    *)
(*                                                                         *)
(* One prompt is generated twice: by a live client that a RecordingClient  *)
(* wraps, then by a ReplayClient over the same directory.                  *)
(*                                                                         *)
(* A recipe is a sequence of [Category, Count].  clampCounts multiplies by *)
(* a float64: the product is exact up to its last bits, so a quotient that *)
(* is a whole number may come out one lower.                               *)
(***************************************************************************)
EXTENDS Integers, Sequences, FiniteSets, FiniteSetsExt

CONSTANTS Categories,            \* what a category may be called
          manifest,              \* the categories advertised at hello
          Answers,               \* recipes the live model may answer with
          StaleDirs,             \* what earlier sessions left in the directory
          MaxAssetsPerCategory,  \* 2000 in the code
          MaxAssetsTotal         \* 5000 in the code

CategoryRecipe == [Category : Categories, Count : Int]

ASSUME RecipeAssumption ==
    /\ manifest \subseteq Categories
    /\ Answers \subseteq Seq(CategoryRecipe)
    /\ MaxAssetsPerCategory \in Nat \ {0} /\ MaxAssetsTotal \in Nat

\* The detail of an InvalidOutputError; the empty one is also the prior error
\* of a first call.
NoDetail == << >>
NotJSON  == <<"model output is not valid recipe JSON">>

VARIABLES live,        \* the client that is recorded: "ollama" or "fake"
          replaying,   \* the second generation, by the ReplayClient
          attempt,     \* recipeWithRetry: 0 or 1
          priorError,  \* the detail fed back to the model
          answer,      \* the last recipe a client returned
          Items,       \* the recipe as it stands
          phase,       \* "call", "answered", "valid", "clamped" or "failed"
          dir,         \* the recordings: from keys to files
          written,     \* history: every answer of the first generation is on disk
          answered,    \* history: every call of it returned a recipe
          outcome      \* history: how it ended

callVars   == <<live, replaying, attempt, priorError>>
recordVars == <<dir, written, answered, outcome>>
vars == <<callVars, answer, Items, phase, recordVars>>

\* A file, or the result of a generation.
Files == [ok : BOOLEAN, items : Seq(CategoryRecipe)]

Readable(s) == [ok |-> TRUE, items |-> s]
Unreadable  == [ok |-> FALSE, items |-> << >>]

ASSUME StaleDirsAssumption == \A d \in StaleDirs : \A k \in DOMAIN d : d[k] \in Files

Init ==
    /\ live \in {"ollama", "fake"} /\ replaying = FALSE
    /\ attempt = 0 /\ priorError = NoDetail
    /\ answer = << >> /\ Items = << >>
    /\ phase = "call"
    /\ dir \in StaleDirs
    /\ written = TRUE /\ answered = TRUE /\ outcome = Unreadable

-----------------------------------------------------------------------------
(* The clients.                                                            *)

\* OllamaClient leaves out the categories the model wants none of.
Wanted(s) ==
    LET first[n \in 0..Len(s)] ==
            IF n = 0 THEN << >>
            ELSE IF s[n].Count > 0 THEN Append(first[n - 1], s[n]) ELSE first[n - 1]
    IN  first[Len(s)]

\* FakeLLM returns its recipe verbatim.
FromModel(s) == IF live = "ollama" THEN Wanted(s) ELSE s

\* requestKey, for one prompt.
Key == priorError

Save(file) ==
    dir' = [k \in DOMAIN dir \cup {Key} |-> IF k = Key THEN file ELSE dir[k]]

\* Mutant: only first calls are recorded.
Record_FirstOnly(s) ==
    IF attempt = 0 THEN Save(Readable(s)) /\ UNCHANGED written
                   ELSE UNCHANGED <<dir, written>>

\* RecordingClient: the write succeeds, or fails before or after the file was
\* truncated, which is only logged.
Record(s) ==
    \/ Save(Readable(s)) /\ UNCHANGED written
    \/ Save(Unreadable) /\ written' = FALSE
    \/ written' = FALSE /\ UNCHANGED dir

\* A live call returns a recipe, recorded before anyone validates it.
LiveAnswer ==
    /\ phase = "call" /\ ~replaying
    /\ \E s \in Answers :
        /\ answer' = FromModel(s) /\ Items' = FromModel(s)
        /\ Record(FromModel(s))
    /\ phase' = "answered"
    /\ UNCHANGED <<callVars, answered, outcome>>

\* recipeWithRetry: an invalid output is fed back once.
Retry(detail) ==
    \/ /\ attempt = 0
       /\ attempt' = 1 /\ priorError' = detail
       /\ phase' = "call"
    \/ /\ attempt = 1
       /\ phase' = "failed"
       /\ UNCHANGED <<attempt, priorError>>

\* The model's text is no recipe: the client itself reports invalid output,
\* and a RecordingClient records no error.
LiveInvalid ==
    /\ phase = "call" /\ ~replaying
    /\ Retry(NotJSON)
    /\ answered' = FALSE
    /\ UNCHANGED <<live, replaying, answer, Items, dir, written, outcome>>

\* A timeout, a cancellation, an HTTP error: surfaced at once.
LiveFails ==
    /\ phase = "call" /\ ~replaying
    /\ phase' = "failed" /\ answered' = FALSE
    /\ UNCHANGED <<callVars, answer, Items, dir, written, outcome>>

\* ReplayClient: a missing or corrupt recording is not an InvalidOutputError.
Replay ==
    /\ phase = "call" /\ replaying
    /\ IF Key \in DOMAIN dir /\ dir[Key].ok
       THEN /\ answer' = dir[Key].items /\ Items' = dir[Key].items
            /\ phase' = "answered"
       ELSE phase' = "failed" /\ UNCHANGED <<answer, Items>>
    /\ UNCHANGED <<callVars, recordVars>>

-----------------------------------------------------------------------------
(* validateRecipe                                                          *)

\* Mutant: a negative count passes.
Problem_NotNegative(s, i) ==
    IF s[i].Category \notin manifest THEN <<"not in manifest", s[i].Category>>
    ELSE IF \E j \in 1..i - 1 : s[j].Category = s[i].Category THEN <<"twice", s[i].Category>>
    ELSE NoDetail

Problem(s, i) ==
    IF s[i].Category \notin manifest THEN <<"not in manifest", s[i].Category>>
    ELSE IF \E j \in 1..i - 1 : s[j].Category = s[i].Category THEN <<"twice", s[i].Category>>
    ELSE IF s[i].Count < 0 THEN <<"negative", s[i].Category, s[i].Count>>
    ELSE NoDetail

\* The detail is that of the first item with a problem.
Detail(s) ==
    LET bad == {i \in 1..Len(s) : Problem(s, i) # NoDetail} IN
    IF s = << >> THEN <<"empty">>
    ELSE IF bad # {} THEN Problem(s, Min(bad)) ELSE NoDetail

Validate ==
    /\ phase = "answered"
    /\ \/ /\ Detail(Items) = NoDetail
          /\ phase' = "valid"
          /\ UNCHANGED <<attempt, priorError>>
       \/ /\ Detail(Items) # NoDetail
          /\ Retry(Detail(Items))
    /\ UNCHANGED <<live, replaying, answer, Items, recordVars>>

-----------------------------------------------------------------------------
(* clampCounts                                                             *)

Least(m, n) == IF m < n THEN m ELSE n
Indices(s) == 1..Len(s)
Total(s) == MapThenSumSet(LAMBDA i : s[i].Count, Indices(s))

\* The per-category cap.
Capped(s) == [i \in Indices(s) |-> [s[i] EXCEPT !.Count = Least(@, MaxAssetsPerCategory)]]

\* int(float64(count) * scale), where scale is MaxAssetsTotal / total.
Products(count, total) ==
    LET q == (count * MaxAssetsTotal) \div total IN
    IF q > 0 /\ q * total = count * MaxAssetsTotal THEN {q - 1, q} ELSE {q}

\* Mutant: the scaled count is rounded up.
AtLeastOne_RoundsUp(count, c) == IF count > 0 THEN c + 1 ELSE c

AtLeastOne(count, c) == IF count > 0 /\ c < 1 THEN 1 ELSE c

WithinCaps(total) == total <= MaxAssetsTotal \/ total = 0

\* Cap, then scale down in proportion if the total is too high.  Equal counts
\* are rounded alike.
Clamp ==
    /\ phase = "valid"
    /\ phase' = "clamped"
    /\ LET s == Capped(Items)
           total == Total(s)
           values == {s[i].Count : i \in Indices(s)}
       IN  IF WithinCaps(total)
           THEN Items' = s
           ELSE \E scaled \in [values -> 0..MaxAssetsTotal] :
                  /\ \A v \in values : scaled[v] \in Products(v, total)
                  /\ Items' = [i \in Indices(s) |->
                        [s[i] EXCEPT !.Count = AtLeastOne(@, scaled[@])]]
    /\ UNCHANGED <<callVars, answer, recordVars>>

-----------------------------------------------------------------------------
Ended == phase \in {"clamped", "failed"}

\* The recipe a generation got from its client, before the clamp.
Result == IF phase = "failed" THEN Unreadable ELSE Readable(answer)

\* A server started with -replay serves the same prompt again.
StartReplay ==
    /\ Ended /\ ~replaying
    /\ replaying' = TRUE
    /\ outcome' = Result
    /\ attempt' = 0 /\ priorError' = NoDetail /\ phase' = "call"
    /\ answer' = << >> /\ Items' = << >>
    /\ UNCHANGED <<live, dir, written, answered>>

Finished == Ended /\ replaying /\ UNCHANGED vars

Next ==
    \/ LiveAnswer \/ LiveInvalid \/ LiveFails \/ Replay
    \/ Validate \/ Clamp \/ StartReplay \/ Finished

Spec == Init /\ [][Next]_vars

-----------------------------------------------------------------------------
(* Properties.                                                             *)

\* The type invariant: what is to be clamped or placed names categories of
\* the manifest, each once, and no count is negative, wherever it came from.
TypeOK ==
    /\ phase \in {"call", "answered", "valid", "clamped", "failed"}
    /\ attempt \in {0, 1} /\ (attempt = 0 <=> priorError = NoDetail)
    /\ Len(Items) = Len(answer)
    /\ phase \in {"valid", "clamped"} =>
        /\ \A i \in Indices(Items) :
             /\ Items[i].Category = answer[i].Category
             /\ Items[i].Category \in manifest /\ Items[i].Count >= 0
        /\ Cardinality({it.Category : it \in {Items[i] : i \in Indices(Items)}}) = Len(Items)

Clamped == phase = "clamped"

\* No category that was asked for vanishes, none grows, and each is within its
\* cap; the total passes the global cap by at most the categories that end at
\* one asset, among them all that were raised to it, however the scaled counts
\* were rounded.
CapsAreKept ==
    Clamped =>
        /\ \A i \in Indices(Items) :
            /\ answer[i].Count > 0 => Items[i].Count >= 1
            /\ Items[i].Count <= Least(answer[i].Count, MaxAssetsPerCategory)
        /\ Total(Items) <= MaxAssetsTotal
                             + Cardinality({i \in Indices(Items) : Items[i].Count = 1})

\* What was recorded is replayed: if every call of the recorded generation
\* returned a recipe and every recording was written, the replay ends as it
\* did, with the same recipe or as invalid after its retry, whatever was in
\* the directory before.
ReplayRepeats ==
    replaying /\ Ended /\ answered /\ written => Result = outcome

\* README.md: "-record ./rec: capture real recipes to disk...", "-replay ./rec:
\* ...and replay them deterministically".  A generation that succeeded and was
\* recorded is replayed.
RecordedRunReplays ==
    replaying /\ Ended /\ written /\ outcome.ok => Result = outcome

\* The strengthening that makes these inductive.  What the clients and the
\* directory hold are recipes, and validation has let pass what is valid.
RecipesTyped ==
    /\ answer \in Seq(CategoryRecipe) /\ Items \in Seq(CategoryRecipe)
    /\ \A k \in DOMAIN dir : dir[k] \in Files
    /\ phase \in {"answered", "valid"} => Items = answer
    /\ phase \in {"valid", "clamped"} => Detail(answer) = NoDetail

OnDisk(k) == k \in DOMAIN dir /\ dir[k].ok
IsRecorded(k, s) == k \in DOMAIN dir /\ dir[k] = Readable(s)

\* A generation that went by the recordings: every answer is on disk under the
\* detail of the one before, and it fails only by a second invalid answer.
ByTheRecordings ==
    /\ phase # "call" => IsRecorded(priorError, answer)
    /\ attempt = 1 => OnDisk(NoDetail) /\ priorError = Detail(dir[NoDetail].items)
    /\ phase = "failed" => attempt = 1 /\ Detail(answer) # NoDetail

\* How a generation that goes by the recordings ends.
EndsOnDisk(o) ==
    LET s == dir[NoDetail].items
        t == dir[Detail(s)].items
    IN  /\ OnDisk(NoDetail)
        /\ IF Detail(s) = NoDetail THEN o = Readable(s)
           ELSE /\ OnDisk(Detail(s))
                /\ o = IF Detail(t) = NoDetail THEN Readable(t) ELSE Unreadable

Recorded ==
    answered /\ written =>
        /\ ByTheRecordings
        /\ replaying => EndsOnDisk(outcome)

IndInv == TypeOK /\ CapsAreKept /\ RecipesTyped /\ Recorded
=============================================================================
