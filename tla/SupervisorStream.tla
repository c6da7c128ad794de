-------------------------- MODULE SupervisorStream --------------------------
(***************************************************************************)
(* A turn in the agent supervisor (agent-supervisor/app/routers/agents.py, *)
(* services/stream_service.py, redis_client.py): POST /message announces a *)
(* stream, drives it in a task of its own that relays the runtime's SSE to *)
(* Redis, and answers the API with the assembled message.  An abort, local *)
(* or broadcast to the other replicas, and a caller that hangs up both     *)
(* cancel the task.                                                        *)
(*                                                                         *)
(* All streams belong to one session.  A value of at is an await of the    *)
(* task, where a cancellation is delivered.  Chunks are counted, not told  *)
(* apart.                                                                  *)
(***************************************************************************)
EXTENDS Integers, Sequences, FiniteSets

CONSTANTS Streams,    \* stream ids
          MaxChunks,  \* bound: chunks the runtime emits for one stream
          MaxAborts   \* bound: abort requests for one stream

ASSUME StreamsAssumption == IsFiniteSet(Streams)
ASSUME BoundsAssumption == MaxChunks \in Nat /\ MaxAborts \in Nat

VARIABLES at,        \* where drive_stream's task is
          handler,   \* where post_message is
          active,    \* _active: the streams an abort can find
          aborted, failed, reached,   \* drive_stream's aborted, error_message, reached_runtime
          assembled, \* chunks in assembled_text and assembled_blocks
          answer,    \* what post_message returned
          buffer,    \* stream:{id}:chunks, as a count
          shown,     \* chunks published to the session's channel
          status,    \* stream:{id}:status
          sessionStatus,   \* session:{id}:status
          gauge,     \* metrics.active_streams
          query,     \* the runtime's side: "none", "preparing", "querying" or "ended"
          started,   \* the streams whose turn has entered the SDK's history
          emitted,   \* chunks the runtime has written
          wire,      \* SSE events written and not read yet
          broken,    \* the streams whose runtime connection was lost
          requests,  \* abort requests made for each stream
          broadcast, \* streams named on supervisor:abort, not handled yet
          gone       \* the streams whose caller has hung up

outcome == <<aborted, failed, reached, assembled>>
post == <<handler, active, answer>>
redis == <<buffer, shown, status, sessionStatus>>
runtime == <<query, started, emitted, wire, broken>>
control == <<requests, broadcast, gone>>
streamVars == <<at, outcome, post, redis, gauge, runtime, control>>

InBegin == {"beginning", "opening"}
InTry == {"reading", "appending", "publishing", "closing"}
AfterTry == {"ending", "assembling", "marking"}
Over == {"finished", "cancelled", "killed"}

Events == {"query_started", "chunk", "error", "eof"}

Answers == [status : {"complete", "aborted", "error", "disconnected"},
            reached : BOOLEAN, chunks : Nat]
NoAnswer == [status |-> "none", reached |-> FALSE, chunks |-> 0]

StreamTypeOK == /\ at \in [Streams -> {"new", "announced"} \cup InBegin \cup InTry \cup AfterTry \cup Over]
                /\ handler \in [Streams -> {"none", "waiting", "leaving", "left", "answered"}]
                /\ active \in SUBSET Streams
                /\ aborted \in [Streams -> BOOLEAN]
                /\ failed \in [Streams -> BOOLEAN]
                /\ reached \in [Streams -> BOOLEAN]
                /\ assembled \in [Streams -> Nat]
                /\ answer \in [Streams -> Answers \cup {NoAnswer}]
                /\ buffer \in [Streams -> Nat]
                /\ shown \in [Streams -> Nat]
                /\ status \in [Streams -> {"none", "streaming", "complete", "aborted", "error"}]
                /\ sessionStatus \in {"idle", "streaming"}
                /\ gauge \in Int
                /\ query \in [Streams -> {"none", "preparing", "querying", "ended"}]
                /\ started \in SUBSET Streams
                /\ emitted \in [Streams -> Nat]
                /\ wire \in [Streams -> Seq(Events)]
                /\ broken \in SUBSET Streams
                /\ requests \in [Streams -> Nat]
                /\ broadcast \in SUBSET Streams
                /\ gone \in SUBSET Streams

StreamInit == /\ at = [s \in Streams |-> "new"]
              /\ handler = [s \in Streams |-> "none"]
              /\ active = {}
              /\ aborted = [s \in Streams |-> FALSE]
              /\ failed = [s \in Streams |-> FALSE]
              /\ reached = [s \in Streams |-> FALSE]
              /\ assembled = [s \in Streams |-> 0]
              /\ answer = [s \in Streams |-> NoAnswer]
              /\ buffer = [s \in Streams |-> 0]
              /\ shown = [s \in Streams |-> 0]
              /\ status = [s \in Streams |-> "none"]
              /\ sessionStatus = "idle"
              /\ gauge = 0
              /\ query = [s \in Streams |-> "none"]
              /\ started = {}
              /\ emitted = [s \in Streams |-> 0]
              /\ wire = [s \in Streams |-> <<>>]
              /\ broken = {}
              /\ requests = [s \in Streams |-> 0]
              /\ broadcast = {}
              /\ gone = {}

Goto(s, label) == at' = [at EXCEPT ![s] = label]

---------------------------------------------------------------------------
(* The runtime, as drive_stream sees it: refuses the turn or starts the    *)
(* SDK's query, writes chunks, then ends the response or reports an error; *)
(* the connection may be lost with what was in flight.                     *)
RuntimeStarts(s) ==
  /\ query[s] = "preparing"
  /\ query' = [query EXCEPT ![s] = "querying"]
  /\ started' = started \cup {s}
  /\ wire' = [wire EXCEPT ![s] = Append(@, "query_started")]
  /\ UNCHANGED <<at, outcome, post, redis, gauge, emitted, broken, control>>

RuntimeRefuses(s) ==
  /\ query[s] = "preparing"
  /\ query' = [query EXCEPT ![s] = "ended"]
  /\ wire' = [wire EXCEPT ![s] = Append(@, "error")]
  /\ UNCHANGED <<at, outcome, post, redis, gauge, started, emitted, broken, control>>

RuntimeWrites(s) ==
  /\ query[s] = "querying"
  /\ emitted[s] < MaxChunks
  /\ emitted' = [emitted EXCEPT ![s] = @ + 1]
  /\ wire' = [wire EXCEPT ![s] = Append(@, "chunk")]
  /\ UNCHANGED <<at, outcome, post, redis, gauge, query, started, broken, control>>

RuntimeEnds(s, event) ==
  /\ query[s] = "querying"
  /\ query' = [query EXCEPT ![s] = "ended"]
  /\ wire' = [wire EXCEPT ![s] = Append(@, event)]
  /\ UNCHANGED <<at, outcome, post, redis, gauge, started, emitted, broken, control>>

ConnectionLost(s) ==
  /\ at[s] \in InTry
  /\ s \notin broken
  /\ broken' = broken \cup {s}
  /\ wire' = [wire EXCEPT ![s] = <<>>]
  /\ query' = [query EXCEPT ![s] = "ended"]
  /\ UNCHANGED <<at, outcome, post, redis, gauge, started, emitted, control>>

---------------------------------------------------------------------------
(* post_message up to the creation of the task: stream_started is          *)
(* published before the stream is in _active.                              *)
Announce(s) ==
  /\ at[s] = "new"
  /\ Goto(s, "announced")
  /\ UNCHANGED <<outcome, post, redis, gauge, runtime, control>>

Register(s) ==
  /\ at[s] = "announced"
  /\ Goto(s, "beginning")
  /\ handler' = [handler EXCEPT ![s] = "waiting"]
  /\ active' = active \cup {s}
  /\ UNCHANGED <<outcome, answer, redis, gauge, runtime, control>>

(* _StreamLifecycle.begin, outside drive_stream's try: the status keys,    *)
(* then the gauge; after it the POST to the runtime.                       *)
Begin(s) ==
  /\ at[s] = "beginning"
  /\ Goto(s, "opening")
  /\ status' = [status EXCEPT ![s] = "streaming"]
  /\ sessionStatus' = "streaming"
  /\ UNCHANGED <<outcome, post, buffer, shown, gauge,
                 runtime, control>>

Open(s) ==
  /\ at[s] = "opening"
  /\ Goto(s, "reading")
  /\ gauge' = gauge + 1
  /\ query' = [query EXCEPT ![s] = "preparing"]
  /\ UNCHANGED <<outcome, post, redis, started, emitted, wire,
                 broken, control>>

\* What the task does with the next event.
NotBuffered(event) == IF event = "chunk" THEN "publishing"   \* a plausible bug: the append is lost
                      ELSE IF event = "query_started" THEN "reading" ELSE "closing"
Reaction(event) == CASE event = "query_started" -> "reading"
                     [] event = "chunk" -> "appending"
                     [] OTHER -> "closing"

\* The event that sets reached_runtime.
Reaches(event) == event = "query_started"

Read(s) ==
  /\ at[s] = "reading"
  /\ wire[s] # <<>>
  /\ LET event == Head(wire[s]) IN
       /\ Goto(s, Reaction(event))
       /\ reached' = [reached EXCEPT ![s] = @ \/ Reaches(event)]
       /\ failed' = [failed EXCEPT ![s] = (event = "error")]
  /\ wire' = [wire EXCEPT ![s] = Tail(@)]
  /\ UNCHANGED <<aborted, assembled, post, redis, gauge, query, started, emitted, broken, control>>

ReadFails(s) ==
  /\ at[s] = "reading"
  /\ s \in broken
  /\ Goto(s, "closing")
  /\ failed' = [failed EXCEPT ![s] = TRUE]
  /\ UNCHANGED <<aborted, reached, assembled, post, redis, gauge, runtime, control>>

\* append_stream_chunk, then publish_event.
AppendChunk(s) ==
  /\ at[s] = "appending"
  /\ Goto(s, "publishing")
  /\ buffer' = [buffer EXCEPT ![s] = @ + 1]
  /\ UNCHANGED <<outcome, post, shown, status,
                 sessionStatus, gauge, runtime, control>>

PublishChunk(s) ==
  /\ at[s] = "publishing"
  /\ Goto(s, "reading")
  /\ shown' = [shown EXCEPT ![s] = @ + 1]
  /\ UNCHANGED <<outcome, post, buffer, status,
                 sessionStatus, gauge, runtime, control>>

(* The connection is closed, which stops the turn in the runtime; then the *)
(* finally block: the gauge at once, the session's status after an await.  *)
Close(s) ==
  /\ at[s] = "closing"
  /\ Goto(s, "ending")
  /\ gauge' = gauge - 1
  /\ query' = [query EXCEPT ![s] = "ended"]
  /\ wire' = [wire EXCEPT ![s] = <<>>]
  /\ UNCHANGED <<outcome, post, redis, started, emitted, broken,
                 control>>

End(s) ==
  /\ at[s] = "ending"
  /\ Goto(s, "assembling")
  /\ sessionStatus' = "idle"
  /\ UNCHANGED <<outcome, post, buffer, shown, status,
                 gauge, runtime, control>>

\* The chunks are read back from Redis and assembled.
Assemble(s) ==
  /\ at[s] = "assembling"
  /\ Goto(s, "marking")
  /\ assembled' = [assembled EXCEPT ![s] = buffer[s]]
  /\ UNCHANGED <<aborted, failed, reached, post, redis, gauge, runtime, control>>

Outcome(s) == IF failed[s] THEN "error" ELSE IF aborted[s] THEN "aborted" ELSE "complete"

Mark(s) ==
  /\ at[s] = "marking"
  /\ Goto(s, "finished")
  /\ status' = [status EXCEPT ![s] = Outcome(s)]
  /\ UNCHANGED <<outcome, post, buffer, shown,
                 sessionStatus, gauge, runtime, control>>

---------------------------------------------------------------------------
(* task.cancel(): CancelledError is raised at the task's await.  Inside    *)
(* the try it is caught, and the connection is closed; in begin() and      *)
(* after the try it ends the task without a result.                        *)
Swallowed(label) ==             \* a plausible bug: caught inside the loop, which goes on
  IF label \in InTry THEN label ELSE "cancelled"
Cancelled(label) == IF label \in InTry THEN "closing" ELSE "cancelled"

Cancel(s) ==
  /\ Goto(s, Cancelled(at[s]))
  /\ aborted' = [aborted EXCEPT ![s] = @ \/ at[s] \in InTry]

Running(s) == at[s] \in InBegin \cup InTry \cup AfterTry

(* POST /streams/{id}/abort at the replica that holds the task.            *)
AbortLocal(s) ==
  /\ requests[s] < MaxAborts
  /\ s \in active
  /\ Running(s)
  /\ Cancel(s)
  /\ requests' = [requests EXCEPT ![s] = @ + 1]
  /\ UNCHANGED <<failed, reached, assembled, post, redis, gauge, runtime,
                 broadcast, gone>>

(* The same at another replica, or before or after the task is registered: *)
(* the id goes to every replica's listener.  Clients know the ids that     *)
(* stream_started has announced.                                           *)
AbortBroadcast(s) ==
  /\ at[s] # "new"
  /\ requests[s] < MaxAborts
  /\ requests' = [requests EXCEPT ![s] = @ + 1]
  /\ broadcast' = broadcast \cup {s}
  /\ UNCHANGED <<at, outcome, post, redis, gauge, runtime, gone>>

HeardByHolder(s) ==
  /\ s \in broadcast
  /\ s \in active
  /\ Running(s)
  /\ Cancel(s)
  /\ broadcast' = broadcast \ {s}
  /\ UNCHANGED <<failed, reached, assembled, post, redis, gauge, runtime,
                 requests, gone>>

HeardByNobody(s) ==
  /\ s \in broadcast
  /\ ~(s \in active /\ Running(s))
  /\ broadcast' = broadcast \ {s}
  /\ UNCHANGED <<at, outcome, post, redis, gauge, runtime, requests, gone>>

---------------------------------------------------------------------------
(* The rest of post_message.  The task has a result: return it.            *)
Answer(s) ==
  /\ handler[s] = "waiting"
  /\ at[s] = "finished"
  /\ handler' = [handler EXCEPT ![s] = "answered"]
  /\ answer' = [answer EXCEPT ![s] = [status |-> Outcome(s), reached |-> reached[s],
                                     chunks |-> assembled[s]]]
  /\ active' = active \ {s}
  /\ UNCHANGED <<at, outcome, redis, gauge, runtime, control>>

StatusKept(s) == status         \* a plausible bug: the status key is not written
StatusAborted(s) == [status EXCEPT ![s] = "aborted"]

\* It was cancelled: write the status keys, answer "aborted" without a text.
AnswerCancelled(s) ==
  /\ handler[s] = "waiting"
  /\ at[s] = "cancelled"
  /\ handler' = [handler EXCEPT ![s] = "answered"]
  /\ answer' = [answer EXCEPT ![s] = [status |-> "aborted", reached |-> FALSE, chunks |-> 0]]
  /\ status' = StatusAborted(s)
  /\ sessionStatus' = "idle"
  /\ active' = active \ {s}
  /\ UNCHANGED <<at, outcome, buffer, shown, gauge, runtime, control>>

\* The API closes the request: its stream task was cancelled, or it died.
HangUp(s) ==
  /\ handler[s] = "waiting"
  /\ s \notin gone
  /\ gone' = gone \cup {s}
  /\ UNCHANGED <<at, outcome, post, redis, gauge, runtime, requests, broadcast>>

\* The poll for disconnection ends first: the task is cancelled.
Notice(s) ==
  /\ handler[s] = "waiting"
  /\ s \in gone
  /\ Running(s)
  /\ Cancel(s)
  /\ handler' = [handler EXCEPT ![s] = "leaving"]
  /\ UNCHANGED <<failed, reached, assembled, active, answer, redis, gauge, runtime, control>>

\* set_stream_status(.., "error"), while the cancelled task goes on.
MarkLeft(s) ==
  /\ handler[s] = "leaving"
  /\ handler' = [handler EXCEPT ![s] = "left"]
  /\ status' = [status EXCEPT ![s] = "error"]
  /\ UNCHANGED <<at, outcome, active, answer, buffer, shown, sessionStatus, gauge, runtime,
                 control>>

\* The session's status, then the finally block: a task still there is
\* cancelled again, and the stream leaves _active.
Leave(s) ==
  /\ handler[s] = "left"
  /\ handler' = [handler EXCEPT ![s] = "answered"]
  /\ answer' = [answer EXCEPT ![s] = [status |-> "disconnected", reached |-> FALSE, chunks |-> 0]]
  /\ sessionStatus' = "idle"
  /\ active' = active \ {s}
  /\ IF Running(s) THEN Cancel(s) ELSE UNCHANGED <<at, aborted>>
  /\ UNCHANGED <<failed, reached, assembled, buffer, shown, status, gauge, runtime, control>>

(* The replica dies: its tasks and its handlers with it.  The runtime sees *)
(* the connection close; the API's call fails.                             *)
Kill(s) ==
  /\ at[s] \notin {"new", "killed"}
  /\ answer[s] = NoAnswer
  /\ Goto(s, "killed")
  /\ handler' = [handler EXCEPT ![s] = "none"]
  /\ active' = active \ {s}
  /\ gauge' = IF at[s] \in InTry THEN gauge - 1 ELSE gauge
  /\ query' = [query EXCEPT ![s] = IF @ = "none" THEN @ ELSE "ended"]
  /\ wire' = [wire EXCEPT ![s] = <<>>]
  /\ UNCHANGED <<outcome, answer, redis, started, emitted, broken, control>>

---------------------------------------------------------------------------
RuntimeStep(s) == \/ RuntimeStarts(s)
                  \/ RuntimeRefuses(s)
                  \/ RuntimeWrites(s)
                  \/ RuntimeEnds(s, "eof")
                  \/ RuntimeEnds(s, "error")

TaskStep(s) == \/ Register(s)
               \/ Begin(s)
               \/ Open(s)
               \/ Read(s)
               \/ ReadFails(s)
               \/ AppendChunk(s)
               \/ PublishChunk(s)
               \/ Close(s)
               \/ End(s)
               \/ Assemble(s)
               \/ Mark(s)

HandlerStep(s) == \/ Answer(s)
                  \/ AnswerCancelled(s)
                  \/ Notice(s)
                  \/ MarkLeft(s)
                  \/ Leave(s)

AbortStep(s) == \/ AbortLocal(s)
                \/ AbortBroadcast(s)
                \/ HeardByHolder(s)
                \/ HeardByNobody(s)

Step(s) == \/ Announce(s)
           \/ RuntimeStep(s)
           \/ TaskStep(s)
           \/ HandlerStep(s)
           \/ AbortStep(s)
           \/ HangUp(s)

StreamNext == \E s \in Streams : Step(s) \/ ConnectionLost(s) \/ Kill(s)

StreamSpec == StreamInit /\ [][StreamNext]_streamVars

(* The event loop runs what is ready, and the abort listener hears what    *)
(* was published.  Nothing is asked of the runtime, whose turn may never   *)
(* end, nor of clients.                                                    *)
StreamFairSpec == StreamSpec /\ \A s \in Streams : WF_streamVars(TaskStep(s)) /\ WF_streamVars(HandlerStep(s))
                                                   /\ WF_streamVars(HeardByHolder(s) \/ HeardByNobody(s))

---------------------------------------------------------------------------
(* Safety.                                                                 *)

Returned(s) == answer[s] # NoAnswer
Answered(s) == Returned(s) /\ answer[s].status # "disconnected"

(* "Always assemble": when drive_stream returns a result, every chunk a    *)
(* watching client was shown is in the message the API will store, and a   *)
(* complete message is all the runtime wrote (append before publish, and   *)
(* one exit path for success, error and abort).                            *)
AnswerHoldsShown ==
  \A s \in Streams : Answered(s) /\ at[s] = "finished" =>
    /\ answer[s].chunks >= shown[s]
    /\ answer[s].status = "complete" => answer[s].chunks = emitted[s]

(* A stream that is over is not left "streaming": a client that reconnects *)
(* would replay it as if in flight.  The death of the replica is excepted. *)
(* And the gauge of active streams counts those being relayed: begin() and *)
(* end() pair up whatever ended the stream.                                *)
NotLeftStreaming ==
  /\ \A s \in Streams : Returned(s) /\ at[s] # "killed" => status[s] # "streaming"
  /\ gauge = Cardinality({s \in Streams : at[s] \in InTry})

(* An abort or a hang-up ends the stream even if the runtime never says    *)
(* another word: the caller is answered, or the replica dies.              *)
AbortEnds ==
  \A s \in Streams : (s \in active /\ s \in broadcast \cup gone) \/ aborted[s]
                       ~> Returned(s) \/ at[s] = "killed"
=============================================================================
