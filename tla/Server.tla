------------------------------- MODULE Server -------------------------------
(***************************************************************************)
(* One connection of the sidecar, from its upgrade to its close:           *)
(* src/backend/internal/server/server.go over the manifest store and       *)
(* Orchestrator.  The handler goroutine waits for hello, then reads frame  *)
(* after frame and routes it; its own errors and the frames of the         *)
(* generation goroutines share one socket, which takes one writer.         *)
(*                                                                         *)
(* The actions of Orchestrator are used as they are: this module says when *)
(* the handler takes them and which goroutine may be inside a write.       *)
(***************************************************************************)
EXTENDS Orchestrator, FiniteSets

CONSTANTS InboundCap,  \* bound: client frames on their way to the server
          MaxSent      \* bound: client frames on the connection

ASSUME ServerAssumption == InboundCap \in Nat \ {0} /\ MaxSent \in Nat

\* What protocol.Decode can make of a client's frame: a message, with or
\* without an empty manifest or id, a frame of another protocol version, or
\* junk: malformed, or of a type that only the server sends.
ClientKinds == {"hello", "emptyHello", "generate", "cancel", "mismatch", "junk"}
ClientFrames ==
    [kind : ClientKinds \ {"generate", "cancel"}, id : {AnyId}]
    \cup [kind : {"generate"}, id : GenIds]
    \cup [kind : {"cancel"}, id : GenIds \cup {AnyId}]

FatalCodes == {"expected_hello", "protocol_version_mismatch"}
ReplyCodes == FatalCodes \cup {"internal"}

VARIABLES
    conn,      \* handleWS: "hello", "serving", "returning" or "closed"
    reply,     \* the code the handler is about to send, or "none"
    deadline,  \* a read deadline is set on the socket
    inbound,   \* frames the client sent and the handler has not read
    sent,      \* how many the client has sent
    writing    \* who is inside WriteJSON: generations, None for the handler

serverVars == <<conn, reply, deadline, inbound, sent, writing>>
allVars == <<vars, serverVars>>

ServerInit ==
    /\ Init /\ ~ready
    /\ conn = "hello" /\ reply = "none"
    /\ deadline = TRUE
    /\ inbound = << >> /\ sent = 0
    /\ writing = {}

\* The handler is in ReadMessage.
AtRead == reply = "none" /\ (conn = "hello" \/ (conn = "serving" /\ handler = "idle"))
Reading == AtRead /\ conn = "serving"

-----------------------------------------------------------------------------
(* handshake                                                               *)

\* store.Ready() after store.Set(hello.Manifest): some category is stored.
ReadyAfter(f) == f.kind = "hello"

Accepts(f) == f.kind = "hello"

\* Mutant: the deadline of the handshake stays on the socket.
ReadHello_KeepsDeadline ==
    /\ conn = "hello" /\ reply = "none" /\ inbound # << >>
    /\ inbound' = Tail(inbound)
    /\ IF Accepts(Head(inbound))
       THEN ready' = ReadyAfter(Head(inbound)) /\ conn' = "serving" /\ UNCHANGED reply
       ELSE reply' = "expected_hello" /\ UNCHANGED <<ready, conn>>
    /\ UNCHANGED <<handlerVars, cur, launched, pc, localVars, cancelAt, socketVars, deadline, sent, writing>>

\* The first frame: the deadline is cleared, and the frame is a hello with a
\* manifest, which store.Set keeps, or it is refused with a fatal error.
ReadHello ==
    /\ conn = "hello" /\ reply = "none" /\ inbound # << >>
    /\ inbound' = Tail(inbound)
    /\ deadline' = FALSE
    /\ LET f == Head(inbound) IN
        \/ /\ Accepts(f)
           /\ ready' = ReadyAfter(f) /\ conn' = "serving"
           /\ UNCHANGED reply
        \/ /\ ~Accepts(f)
           /\ reply' = IF f.kind = "mismatch" THEN "protocol_version_mismatch"
                                              ELSE "expected_hello"
           /\ UNCHANGED <<ready, conn>>
    /\ UNCHANGED <<handlerVars, cur, launched, pc, localVars, cancelAt,
                   socketVars, sent, writing>>

\* ReadMessage returns an error: the handshake fails, or the loop returns.
ReadError ==
    /\ AtRead
    /\ conn' = IF conn = "hello" THEN "closed" ELSE "returning"
    /\ UNCHANGED <<vars, reply, deadline, inbound, sent, writing>>

\* A socket that is gone may still yield what it had received, or fail.
ReadFails == peerGone /\ ReadError

\* Mutant: the handshake sets no read deadline.
DeadlineFires_Never == FALSE

DeadlineFires == deadline /\ ReadError

-----------------------------------------------------------------------------
(* The read loop of handleWS.                                              *)

ReadGenerate ==
    /\ Reading /\ inbound # << >>
    /\ Head(inbound).kind = "generate"
    /\ GenerateTake(Head(inbound).id)
    /\ inbound' = Tail(inbound)
    /\ UNCHANGED <<conn, reply, deadline, sent, writing>>

\* A cancel that names no generation in flight does nothing.
ReadCancel ==
    /\ Reading /\ inbound # << >>
    /\ LET f == Head(inbound) IN
        /\ f.kind = "cancel"
        /\ IF cur # None /\ f.id \in {AnyId, id[cur]}
           THEN Cancel(f.id)
           ELSE UNCHANGED vars
    /\ inbound' = Tail(inbound)
    /\ UNCHANGED <<conn, reply, deadline, sent, writing>>

\* A second hello, a server's message or a frame that does not decode is
\* answered and the loop goes on; another protocol version ends it.
ReadUnexpected ==
    /\ Reading /\ inbound # << >>
    /\ Head(inbound).kind \notin {"generate", "cancel"}
    /\ reply' = IF Head(inbound).kind = "mismatch" THEN "protocol_version_mismatch"
                                                   ELSE "internal"
    /\ inbound' = Tail(inbound)
    /\ UNCHANGED <<vars, conn, deadline, sent, writing>>

ReadStep == ReadHello \/ ReadGenerate \/ ReadCancel \/ ReadUnexpected

\* The deferred Shutdown, then the deferred Close.
Return ==
    /\ conn = "returning" /\ reply = "none"
    /\ ShutdownTake
    /\ UNCHANGED serverVars

Close ==
    /\ conn = "returning" /\ handler = "returned"
    /\ conn' = "closed"
    /\ UNCHANGED <<vars, reply, deadline, inbound, sent, writing>>

\* The handler inside Generate or Shutdown.
CallStep == HandlerStep /\ UNCHANGED serverVars

-----------------------------------------------------------------------------
(* wsSender: one mutex around each write, whoever writes.                  *)

\* Mutant: the read loop writes without the mutex.
LockForReply_NoLock ==
    /\ reply # "none" /\ None \notin writing
    /\ writing' = writing \cup {None}
    /\ UNCHANGED <<vars, conn, reply, deadline, inbound, sent>>

LockForReply ==
    /\ reply # "none" /\ writing = {}
    /\ writing' = {None}
    /\ UNCHANGED <<vars, conn, reply, deadline, inbound, sent>>

\* Mutant: after a fatal error the handler goes on.
Replied_GoesOn == reply' = "none" /\ UNCHANGED conn

\* sendError is back: after a fatal error the handshake fails, or the loop
\* returns.
Replied ==
    /\ reply' = "none"
    /\ conn' = CASE reply \notin FatalCodes -> conn
                 [] conn = "hello" -> "closed"
                 [] OTHER -> "returning"

ReplyWrite ==
    /\ None \in writing /\ CanWrite
    /\ out' = Append(out, [gen |-> None, kind |-> reply, size |-> 0])
    /\ Replied
    /\ writing' = writing \ {None}
    /\ UNCHANGED <<handlerVars, cur, ready, launched, pc, localVars, cancelAt,
                   taken, peerGone, deadline, inbound, sent>>

\* The write fails, which sendError only logs.
ReplyFails ==
    /\ None \in writing /\ peerGone
    /\ Replied
    /\ writing' = writing \ {None}
    /\ UNCHANGED <<vars, deadline, inbound, sent>>

ReplyStep == LockForReply \/ ReplyWrite \/ ReplyFails

\* Mutant: a busy socket fails the write instead of waiting for the mutex.
LockForFrame_TryLock(g) ==
    /\ pc[g] \in {"write", "writeError"}
    /\ IF writing = {} THEN writing' = {g} /\ UNCHANGED pc
                       ELSE Goto(g, "exit") /\ UNCHANGED writing
    /\ UNCHANGED <<handlerVars, cur, ready, launched, localVars, cancelAt, socketVars, conn, reply, deadline, inbound, sent>>

LockForFrame(g) ==
    /\ pc[g] \in {"write", "writeError"} /\ writing = {}
    /\ writing' = {g}
    /\ UNCHANGED <<vars, conn, reply, deadline, inbound, sent>>

WriteFrame(g) ==
    /\ g \in writing
    /\ SendWrite(g) \/ ErrorWrite(g) \/ WriteFails(g)
    /\ writing' = writing \ {g}
    /\ UNCHANGED <<conn, reply, deadline, inbound, sent>>

\* What a generation goroutine does outside the sender.
Compute(g) ==
    /\ \/ Start(g) \/ LLMValid(g) \/ LLMInvalid(g) \/ LLMFails(g) \/ Report(g)
       \/ Place(g) \/ PlaceFailed(g) \/ SendCheck(g) \/ Exit(g) \/ CloseDone(g)
    /\ UNCHANGED serverVars

Goroutine(g) == Compute(g) \/ LockForFrame(g) \/ WriteFrame(g)

-----------------------------------------------------------------------------
(* The client.                                                             *)

\* Any client may connect, and send anything at any time.  The bound on
\* generates is that of Orchestrator.
PeerSend ==
    /\ ~peerGone /\ conn # "closed"
    /\ sent < MaxSent /\ Len(inbound) < InboundCap
    /\ \E f \in ClientFrames :
        /\ f.kind = "generate" =>
             launched + (IF op = "generate" THEN 1 ELSE 0)
               + Len(SelectSeq(inbound, LAMBDA x : x.kind = "generate")) < MaxGens
        /\ inbound' = Append(inbound, f)
    /\ sent' = sent + 1
    /\ UNCHANGED <<vars, conn, reply, deadline, writing>>

PeerReads == ClientRead /\ UNCHANGED serverVars
PeerGoes  == PeerClose /\ UNCHANGED serverVars

ConnectionOver ==
    /\ conn = "closed" /\ \A g \in Handles : pc[g] \in {"none", "done"}
    /\ UNCHANGED allVars

ServerNext ==
    \/ ReadStep \/ ReadFails \/ DeadlineFires
    \/ CallStep \/ Return \/ Close
    \/ ReplyStep
    \/ \E g \in Handles : Goroutine(g)
    \/ PeerSend \/ PeerReads \/ PeerGoes \/ ConnectionOver

\* The handler and the goroutines are scheduled, deadlines fire, an LLM call
\* ends, and a connected client keeps reading.  What it sends, and whether it
\* leaves, is free.
ServerFairness ==
    /\ WF_allVars(ReadStep \/ ReadFails) /\ WF_allVars(DeadlineFires)
    /\ WF_allVars(CallStep \/ Return \/ Close)
    /\ WF_allVars(ReplyStep)
    /\ \A g \in Handles : WF_allVars(Goroutine(g))
    /\ WF_allVars(PeerReads)

ServerSpec == ServerInit /\ [][ServerNext]_allVars /\ ServerFairness

-----------------------------------------------------------------------------
(* Properties.                                                             *)

ServerFrames == Frames \cup [gen : {None}, kind : ReplyCodes, size : {0}]

\* The type invariant.  gorilla/websocket allows one writer at a time and
\* panics on two: the read loop's errors and the stream never write at once,
\* and the mutex is held only by who is about to write.
ServerTypeOK ==
    /\ conn \in {"hello", "serving", "returning", "closed"}
    /\ reply \in ReplyCodes \cup {"none"}
    /\ deadline \in BOOLEAN
    /\ inbound \in Seq(ClientFrames) /\ Len(inbound) <= InboundCap
    /\ sent \in 0..MaxSent
    /\ writing \subseteq {g \in Handles : pc[g] \in {"write", "writeError"}} \cup {None}
    /\ None \in writing => reply # "none"
    /\ Cardinality(writing) <= 1
    /\ out \in Seq(ServerFrames)

\* A connection whose hello was not accepted hears at most one error, and
\* nothing of it reaches the orchestrator (run's "no manifest" branch cannot be
\* reached through the server).  A fatal error is the handler's last word, and
\* no generation is launched after it.
RefusalIsFinal ==
    /\ ~ready => Len(out) <= 1 /\ \A g \in Handles : pc[g] = "none"
    /\ \A i \in 1..Len(out) : out[i].kind \in FatalCodes =>
        /\ conn \in {"returning", "closed"} /\ op # "generate"
        /\ \A j \in i + 1..Len(out) : out[j].gen # None

\* A served connection ends only for a reason its client can know: it left,
\* or it was told that its protocol version is another one.  In particular
\* the handshake's deadline does not end it.
EndsForCause ==
    conn \in {"returning", "closed"} /\ ready =>
        peerGone \/ \E i \in 1..Len(out) : out[i].kind = "protocol_version_mismatch"

\* The strengthening that makes these three inductive: which call the handler
\* may be in on a connection of each stage, and what it may be about to say.
CallOrder ==
    /\ op = "none" <=> handler \in {"idle", "returned"}
    /\ op = "generate" => conn = "serving"
    /\ op = "shutdown" => conn = "returning"
    /\ handler = "returned" => conn \in {"returning", "closed"}
    /\ ready => conn # "hello" /\ ~deadline
    /\ ~ready => conn \in {"hello", "closed"} /\ handler = "idle" /\ launched = 0

ReplyOrder ==
    /\ reply # "none" => conn \in {"hello", "serving"} /\ handler = "idle"
    /\ reply = "expected_hello" => conn = "hello"
    /\ conn = "hello" => out = << >> /\ reply # "internal"

ServerIndInv ==
    /\ Core(ServerFrames) /\ ServerTypeOK /\ CallOrder /\ ReplyOrder
    /\ RefusalIsFinal /\ EndsForCause

\* Whatever the handler says in between, the connection still implements
\* GenerationStream: junk, second hellos and refused versions never end,
\* reorder or cut a generation.
ServedImplementsStream == ImplementsStream

\* The handler always comes back to the read of a served connection or closes
\* it: a client that never says hello is given up, a call of Generate or
\* Shutdown returns, and an error of the read loop waits for the mutex no
\* longer than the goroutine that holds it writes.
AlwaysBackToReading == ~Reading ~> Reading \/ conn = "closed"
=============================================================================
