------------------------------ MODULE AgentTurn ------------------------------
(***************************************************************************)
(* One agent of the runtime, turn after turn: processMessage (agent.ts)    *)
(* over the messages of the Claude SDK, the accumulator that turns them    *)
(* into events, the sub-agent calls (a2a-tools.ts) and the artifact tool.  *)
(*                                                                         *)
(* The SDK and the backend are outside the repository: a message is any    *)
(* the driver handles, in the order its comments give (a streaming backend *)
(* sends deltas, then the finished block; the others send the block again  *)
(* and again while it grows).  A unit of text is a pair <<block, position>>*)
(* and `shown` is the turn's units in the order the reader got them.       *)
(* The handlers of the tools run in this process and outlive an aborted    *)
(* turn.  At most one artifact is being saved at a time (a bound).         *)
(***************************************************************************)
EXTENDS Naturals, Sequences, FiniteSets

CONSTANTS Calls,       \* identifiers the SDK gives to tool calls, never reused
          MaxBlocks, MaxLen, MaxTurns, MaxEdits,   \* bounds
          Nothing

ASSUME CallsAssumption == Nothing \notin Calls /\ "a2a_uuid" \notin Calls
ASSUME BoundsAssumption == MaxLen \in Nat

Kinds == {"text", "thinking"}

VARIABLES phase,      \* of the turn: idle, running, and how the last one closed
          turn,       \* how many turns began
          backend,    \* "deltas" or "snapshots"
          aborted,    \* the signal of the turn's controller
          blocks,     \* the text and thinking blocks the backend produced
          open,       \* the last block may still grow
          round,      \* how many user messages (tool results) came
          shown,      \* the units emitted
          acc,        \* the StreamingAccumulator
          call,       \* per tool call: its step, and what its handler holds
          queue,      \* the queue of identifiers of the agent's a2a tool
          edits,      \* the version of the file in the workspace
          artifact,   \* the saved artifact: Nothing, a version, or "part"
          input,      \* what the downstream sandbox has at /workspace/{name}
          reported    \* the version the last finished save reported
turnVars == <<phase, turn, backend, aborted>>
textVars == <<blocks, open, round, shown, acc>>
fileVars == <<edits, artifact, input, reported>>
agentVars == <<turnVars, textVars, call, queue, fileVars>>

NewAccumulator ==
  [emitted |-> [k \in Kinds |-> 0], hasStreamDeltas |-> FALSE, toolIds |-> {}, full |-> FALSE]
NoCall == [at |-> "none", tool |-> Nothing, parent |-> Nothing, got |-> 0, result |-> Nothing]

AgentInit == /\ phase = "idle" /\ turn = 0 /\ backend \in {"deltas", "snapshots"} /\ aborted = FALSE
             /\ blocks = <<>> /\ open = FALSE /\ round = 0 /\ shown = <<>> /\ acc = NewAccumulator
             /\ call = [c \in Calls |-> NoCall] /\ queue = <<>>
             /\ edits = 0 /\ artifact = Nothing /\ input = Nothing /\ reported = Nothing

Running == phase = "running"
At(c, step) == call[c].at = step
Saving == {c \in Calls : call[c].at \in {"removed", "copying"}}

---------------------------------------------------------------------------
(* Set-up.  A step of a workflow copies what its upstream saved into its   *)
(* workspace before the SDK starts, and keeps what is there when nothing   *)
(* was saved; the copy may fail after the old file was removed, and a      *)
(* missing gateway, key or supervisor URL throws before or after it.       *)
CopyInputArtifacts ==
  \/ artifact = Nothing /\ UNCHANGED input
  \/ artifact # Nothing /\ input' = artifact

SetupThrows == CopyInputArtifacts \/ UNCHANGED input \/ (artifact # Nothing /\ input' = Nothing)

Begin ==
  /\ phase \notin {"running"} /\ turn < MaxTurns
  /\ turn' = turn + 1 /\ aborted' = FALSE
  /\ blocks' = <<>> /\ open' = FALSE /\ round' = 0 /\ shown' = <<>> /\ acc' = NewAccumulator
  /\ \/ phase' = "running" /\ queue' = <<>> /\ (CopyInputArtifacts \/ UNCHANGED input)
     \/ phase' = "thrown" /\ UNCHANGED queue /\ SetupThrows
  /\ UNCHANGED <<backend, call, edits, artifact, reported>>

Abort == /\ Running /\ ~aborted /\ aborted' = TRUE
         /\ UNCHANGED <<phase, turn, backend, textVars, call, queue, fileVars>>

---------------------------------------------------------------------------
(* The accumulator. *)
Units(b, from, to) == [i \in 1 .. (to - from) |-> <<b, from + i>>]

ConsumeDelta(b, kind, len) ==
  /\ acc' = [acc EXCEPT !.hasStreamDeltas = TRUE, !.emitted[kind] = @ + 1,
                        !.full = @ \/ kind = "text"]
  /\ shown' = Append(shown, <<b, len>>)

\* A block that is shorter than what was emitted begins a new one.
WholeBlock(kind, len) == 0                           \* a plausible bug
Baseline(kind, len) == IF len < acc.emitted[kind] THEN 0 ELSE acc.emitted[kind]
ConsumeBlock(b, kind, len) ==
  IF acc.hasStreamDeltas \/ len = Baseline(kind, len)
  THEN UNCHANGED <<acc, shown>>
  ELSE /\ acc' = [acc EXCEPT !.emitted[kind] = len, !.full = @ \/ kind = "text"]
       /\ shown' = shown \o Units(b, Baseline(kind, len), len)

NoReset(a) == a                                      \* a plausible bug
ResetForNewTurn(a) == [a EXCEPT !.emitted = [k \in Kinds |-> 0]]

---------------------------------------------------------------------------
(* The messages of the SDK. *)
Last == Len(blocks)
\* The block being written grows by some units, or the next one begins.
Grown(kind) ==
  {bs \in {[blocks EXCEPT ![Last].len = n] : n \in IF open THEN 1 .. MaxLen ELSE {}}
          \cup {Append(blocks, [kind |-> kind, len |-> n, round |-> round]) :
                n \in IF Last < MaxBlocks THEN 1 .. MaxLen ELSE {}} :
     /\ bs[Len(bs)].kind = kind
     /\ Len(bs) = Last => bs[Last].len > blocks[Last].len}

StreamEvent ==
  /\ Running /\ backend = "deltas"
  /\ \E kind \in Kinds : \E bs \in Grown(kind) :
       /\ Len(bs) = Last => bs[Last].len = blocks[Last].len + 1
       /\ Len(bs) > Last => bs[Len(bs)].len = 1
       /\ blocks' = bs /\ open' = TRUE /\ ConsumeDelta(Len(bs), kind, bs[Len(bs)].len)
  /\ UNCHANGED <<turnVars, round, call, queue, fileVars>>

Snapshot ==
  /\ Running /\ backend = "snapshots"
  /\ \E kind \in Kinds : \E bs \in Grown(kind) :
       /\ blocks' = bs /\ open' = TRUE /\ ConsumeBlock(Len(bs), kind, bs[Len(bs)].len)
  /\ UNCHANGED <<turnVars, round, call, queue, fileVars>>

\* The finished block, whole; and, from a cumulative backend, the last one again.
AssistantAgain ==
  /\ Running /\ open
  /\ ConsumeBlock(Last, blocks[Last].kind, blocks[Last].len)
  /\ open' = FALSE /\ UNCHANGED <<turnVars, blocks, round, call, queue, fileVars>>

AnnouncedOnce(c) == c \notin acc.toolIds
ToolUse(c) ==
  /\ Running /\ (At(c, "none") \/ At(c, "used"))
  /\ acc' = [acc EXCEPT !.toolIds = @ \cup {c}]
  /\ IF AnnouncedOnce(c)
     THEN \E t \in {"a2a", "save"} : call' = [call EXCEPT ![c].at = "used", ![c].tool = t]
     ELSE UNCHANGED call
  /\ open' = FALSE /\ UNCHANGED <<turnVars, blocks, round, shown, queue, fileVars>>

ToolResults ==
  /\ Running
  /\ \E S \in SUBSET {c \in Calls : At(c, "returned") /\ c \in acc.toolIds} :
       /\ S # {} /\ call' = [c \in Calls |-> IF c \in S THEN [call[c] EXCEPT !.at = "shown"]
                                                        ELSE call[c]]
  /\ acc' = ResetForNewTurn(acc) /\ open' = FALSE /\ round' = round + 1
  /\ UNCHANGED <<turnVars, blocks, shown, queue, fileVars>>

\* The final text is shown when nothing was streamed as text.
Result ==
  /\ Running /\ phase' = "result" /\ open' = FALSE
  /\ \/ /\ ~acc.full /\ Last < MaxBlocks
        /\ blocks' = Append(blocks, [kind |-> "text", len |-> 1, round |-> round])
        /\ acc' = [acc EXCEPT !.full = TRUE]
        /\ shown' = Append(shown, <<Last + 1, 1>>)
     \/ UNCHANGED <<blocks, acc, shown>>
  /\ UNCHANGED <<turn, backend, aborted, round, call, queue, fileVars>>

\* The stream throws: after an abort that is the user's, otherwise an error.
Fail == /\ Running /\ phase' = (IF aborted THEN "cancelled" ELSE "error")
        /\ open' = FALSE
        /\ UNCHANGED <<turn, backend, aborted, blocks, round, shown, acc, call, queue, fileVars>>

---------------------------------------------------------------------------
(* Sub-agent calls: a hook queues the identifier the SDK gave the call     *)
(* (when it gave one) and the handler takes the oldest that is queued.     *)
A2A(c) == call[c].tool = "a2a"
PreToolUse(c) ==
  /\ Running /\ At(c, "used") /\ A2A(c)
  /\ call' = [call EXCEPT ![c].at = "hooked"]
  /\ queue' = Append(queue, c) \/ UNCHANGED queue
  /\ UNCHANGED <<turnVars, textVars, fileVars>>

Peeks == queue                                       \* a plausible bug
Remaining == IF queue = <<>> THEN <<>> ELSE Tail(queue)
ParentToolUseId == IF queue = <<>> THEN "a2a_uuid" ELSE Head(queue)
CallSubAgent(c) ==
  /\ Running /\ At(c, "hooked") /\ A2A(c)
  /\ call' = [call EXCEPT ![c].at = "calling", ![c].parent = ParentToolUseId]
  /\ queue' = Remaining
  /\ UNCHANGED <<turnVars, textVars, fileVars>>

Chunk(c) == /\ At(c, "calling") /\ A2A(c) /\ call[c].got = 0
            /\ call' = [call EXCEPT ![c].got = 1]
            /\ UNCHANGED <<turnVars, textVars, queue, fileVars>>

\* The end of the answer, a refusal, no body, the timeout or a broken stream.
AnswerEnds(c, failed) ==
  /\ At(c, "calling") /\ A2A(c)
  /\ call' = [call EXCEPT ![c].at = "returned",
                          ![c].result = IF failed THEN "error"
                                        ELSE IF call[c].got = 1 THEN "answer" ELSE "no response"]
  /\ UNCHANGED <<turnVars, textVars, queue, fileVars>>

---------------------------------------------------------------------------
(* save_as_artifact: the old artifact is removed, then the file copied.    *)
Edit == /\ Running /\ edits < MaxEdits /\ edits' = edits + 1
        /\ UNCHANGED <<turnVars, textVars, call, queue, artifact, input, reported>>

\* A source outside the workspace, or that is not there, is refused.
Refused(c) == call' = [call EXCEPT ![c].at = "returned", ![c].result = "error"]
SaveArtifact(c) ==
  /\ Running /\ At(c, "used") /\ call[c].tool = "save" /\ Saving = {}
  /\ \/ call' = [call EXCEPT ![c].at = "removed"] /\ artifact' = Nothing
     \/ Refused(c) /\ UNCHANGED artifact
  /\ UNCHANGED <<turnVars, textVars, queue, edits, input, reported>>

Copy(c) == /\ At(c, "removed") /\ artifact' = "part"
           /\ call' = [call EXCEPT ![c].at = "copying", ![c].got = edits]
           /\ UNCHANGED <<turnVars, textVars, queue, edits, input, reported>>

Copied(c) == /\ At(c, "copying") /\ artifact' = call[c].got /\ reported' = call[c].got
             /\ call' = [call EXCEPT ![c].at = "returned", ![c].result = "saved"]
             /\ UNCHANGED <<turnVars, textVars, queue, edits, input>>

KeepsReport(c) == /\ c \in Saving                     \* a plausible bug
                  /\ call' = [call EXCEPT ![c].at = "returned", ![c].result = "saved"]
                  /\ UNCHANGED <<turnVars, textVars, queue, fileVars>>
CopyFails(c) == /\ c \in Saving /\ reported' = Nothing
                /\ call' = [call EXCEPT ![c].at = "returned", ![c].result = "error"]
                /\ UNCHANGED <<turnVars, textVars, queue, edits, artifact, input>>

AgentNext == \/ Begin \/ Abort \/ StreamEvent \/ Snapshot \/ AssistantAgain \/ ToolResults
             \/ Result \/ Fail \/ Edit
             \/ \E c \in Calls : \/ ToolUse(c) \/ PreToolUse(c) \/ CallSubAgent(c) \/ Chunk(c)
                                 \/ AnswerEnds(c, TRUE) \/ AnswerEnds(c, FALSE)
                                 \/ SaveArtifact(c) \/ Copy(c) \/ Copied(c) \/ CopyFails(c)
AgentSpec == AgentInit /\ [][AgentNext]_agentVars

---------------------------------------------------------------------------
(* Properties. *)

\* The text is shown in the order it was written and nothing is shown twice,
\* although deltas and whole blocks carry the same text (consumeStreamEvent and
\* consumeAssistantBlock).
Before(u, v) == u[1] < v[1] \/ (u[1] = v[1] /\ u[2] < v[2])
ShownOnceInOrder == \A i, j \in DOMAIN shown : i < j => Before(shown[i], shown[j])

\* Nothing a backend wrote is left out, as long as it writes one block of a kind
\* between two user messages or streams deltas (resetForNewTurn).
FirstOfRound(b) == \A a \in 1 .. (b - 1) :
                     blocks[a].kind = blocks[b].kind => blocks[a].round # blocks[b].round
ShownWhole(b) == \A i \in 1 .. blocks[b].len : \E k \in DOMAIN shown : shown[k] = <<b, i>>
NothingWithheld == \A b \in DOMAIN blocks :
                     (backend = "deltas" \/ FirstOfRound(b)) => ShownWhole(b)

\* Two sub-agent calls never carry the same parent, however their hooks and handlers
\* interleave, and a parent the SDK gave was announced in this turn or an earlier one.
ParentsDiffer ==
  \A c, d \in Calls : /\ c # d /\ call[c].parent \in Calls => call[c].parent # call[d].parent
                      /\ call[c].parent \in Calls => ~At(call[c].parent, "none")

\* While no save is under way and the last one reported success, the stored artifact is
\* exactly the version it reported, across failed saves and aborted turns, so that the
\* next step copies that version or fails (save_as_artifact and copyInputArtifacts).
ReportedIsStored == Saving = {} /\ reported # Nothing => artifact = reported

=============================================================================
