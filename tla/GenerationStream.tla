-------------------------- MODULE GenerationStream --------------------------
(***************************************************************************)
(* What a connection promises about its generations, with no goroutines,   *)
(* locks or sockets: contract/README.md's "plan, then chunk..., then       *)
(* complete", one generation at a time, and what may still follow a        *)
(* cancellation.  Orchestrator implements it (Orchestrator!Stream), alone  *)
(* and inside Server.                                                      *)
(***************************************************************************)
EXTENDS Integers, Sequences, Functions

CONSTANTS Streams,     \* generation numbers, in the order they are opened
          ChunkSize,   \* a chunk carries this many entries, the last may be short
          Sizes,       \* entry counts a plan may announce
          ErrorKinds   \* kinds of an error frame

VARIABLES phase,   \* phase[g]: "unopened", "open", "cancelled" or "over"
          out,     \* every frame sent, in order
          gone     \* the receiver has gone away

streamVars == <<phase, out, gone>>

\* The positions in s of the frames of g, and the entries its chunks add up to.
FramesOf(s, g) == {i \in 1..Len(s) : s[i].gen = g}
ChunksOf(s, g) == {i \in FramesOf(s, g) : s[i].kind = "chunk"}
Streamed(s, g) == SumFunction([i \in ChunksOf(s, g) |-> s[i].size])

Init ==
    /\ phase = [g \in Streams |-> "unopened"]
    /\ out = << >>
    /\ gone = FALSE

\* Generations open in order, one when all the earlier ones are over.
Open(g) ==
    /\ phase[g] = "unopened"
    /\ \A h \in Streams : phase[h] = IF h < g THEN "over" ELSE "unopened"
    /\ phase' = [phase EXCEPT ![g] = "open"]
    /\ UNCHANGED <<out, gone>>

\* The frames f that may follow the frames of g in s.
MayFollow(s, g, f) ==
    \/ /\ FramesOf(s, g) = {}
       /\ f.kind \in ErrorKinds \/ (f.kind = "plan" /\ f.size \in Sizes)
    \/ \E p \in FramesOf(s, g) :
        /\ s[p].kind = "plan"
        /\ LET left == s[p].size - Streamed(s, g) IN
            \/ /\ f.kind = "chunk" /\ left > 0
               /\ f.size = IF left < ChunkSize THEN left ELSE ChunkSize
            \/ f.kind = "complete" /\ left = 0 /\ f.size = s[p].size

\* The frame that a step sends, if it sends one.
Sent  == out'[Len(out) + 1]
Sends == ~gone /\ Len(out') = Len(out) + 1 /\ out' = Append(out, Sent)

\* A frame is sent; after a cancellation there is at most one.
Emit(g) ==
    /\ phase[g] \in {"open", "cancelled"}
    /\ Sends /\ Sent.gen = g /\ MayFollow(out, g, Sent)
    /\ phase' = [phase EXCEPT ![g] =
                    IF @ = "cancelled" \/ Sent.kind \in {"complete"} \cup ErrorKinds
                    THEN "over" ELSE "open"]
    /\ UNCHANGED gone

\* The connection speaks for itself, between the frames of any generation.
Speak ==
    /\ Sends /\ Sent.gen \notin Streams
    /\ UNCHANGED <<phase, gone>>

Cancel(g) ==
    /\ phase[g] = "open"
    /\ phase' = [phase EXCEPT ![g] = "cancelled"]
    /\ UNCHANGED <<out, gone>>

\* A generation ends without a last word only if it was cancelled or nobody
\* is there to hear it.
Stop(g) ==
    /\ phase[g] = "cancelled" \/ (phase[g] = "open" /\ gone)
    /\ phase' = [phase EXCEPT ![g] = "over"]
    /\ UNCHANGED <<out, gone>>

Leave ==
    /\ gone' = TRUE
    /\ UNCHANGED <<phase, out>>

Next ==
    \/ Leave \/ Speak
    \/ \E g \in Streams : Open(g) \/ Emit(g) \/ Cancel(g) \/ Stop(g)

Spec == Init /\ [][Next]_streamVars
=============================================================================
