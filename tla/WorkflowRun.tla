---------------------------- MODULE WorkflowRun ----------------------------
(***************************************************************************)
(* One run of a workflow graph: the Temporal workflow that walks the graph *)
(* (workflow-worker/worker/workflows/workflow_run.py, dag.py), the         *)
(* activities that write the run's and the nodes' rows                     *)
(* (activities/persistence.py), and the API's cancel request               *)
(* (api/app/services/workflow_run_service.py, temporal_client.py).         *)
(*                                                                         *)
(* A value of `pc` is the activity a node's task awaits.  Cancelling an    *)
(* activity (TRY_CANCEL) fails the await at once, while a worker that has  *)
(* started the activity still carries it out: such writes, and those in    *)
(* flight when the workflow is terminated, are the late writes.            *)
(***************************************************************************)
EXTENDS Naturals, FiniteSets

CONSTANTS Nodes,     \* node ids
          Graphs,    \* the edge sets of the definitions considered
          MaxSignals \* bound: cancel signals sent

ASSUME GraphsAssumption == Graphs \subseteq SUBSET (Nodes \X Nodes)
ASSUME SignalsAssumption == MaxSignals \in Nat

VARIABLES edges,      \* definition_snapshot's edges
          conditions, \* the nodes of type "condition"
          resume,     \* resume_context: the carried nodes
          untaken,    \* the conditions whose result is false
          main,       \* where run() is
          pc,         \* where each node's task is
          batch,      \* the frontier being awaited
          remaining, completed, skipped,   \* run()'s sets
          failure,    \* failure_error is set
          cancelled,  \* self._cancelled
          runRow,     \* workflow_runs.status
          nodeRow,    \* workflow_node_runs.status, "none" before the first write
          lateNodes,  \* node writes still carried out by a worker
          lateRun,    \* the same of the run's status
          temporal,   \* the workflow in Temporal
          api,        \* the cancel request
          signals     \* cancel signals sent so far

graph == <<edges, conditions, resume>>
sets == <<remaining, completed, skipped, failure>>
late == <<lateNodes, lateRun>>
rows == <<runRow, nodeRow>>
vars == <<graph, untaken, main, pc, batch, sets, cancelled, rows, late, temporal, api, signals>>

Upstream(n) == {m \in Nodes : <<m, n>> \in edges}
Downstream(n) == {m \in Nodes : <<n, m>> \in edges}

\* No set of nodes has all its members waiting for one another.
Acyclic == \A S \in SUBSET Nodes : S # {} => \E n \in S : Upstream(n) \cap S = {}

RunTerminal == {"completed", "failed", "cancelled"}
NodeStatuses == {"running", "completed", "skipped", "failed"}

\* The row each kind of await writes.
Writing == {"preparing", "skipping", "storing", "failing"}
RowOf(label) == CASE label = "preparing" -> "running"
                  [] label = "skipping" -> "skipped"
                  [] label = "storing" -> "completed"
                  [] label = "failing" -> "failed"

Ended == {"ok", "passed", "failed"}

TypeOK == /\ edges \in Graphs
          /\ conditions \in SUBSET Nodes
          /\ resume \in SUBSET Nodes
          /\ untaken \in SUBSET conditions
          /\ main \in {"starting", "carrying", "looping", "batch", "clearing", "finishing",
                       "reporting", "rejecting", "closed"}
          /\ pc \in [Nodes -> {"idle", "running", "raised"} \cup Writing \cup Ended]
          /\ batch \in SUBSET Nodes
          /\ remaining \in SUBSET Nodes
          /\ completed \in SUBSET Nodes
          /\ skipped \in SUBSET Nodes
          /\ failure \in BOOLEAN
          /\ cancelled \in BOOLEAN
          /\ runRow \in {"pending", "running"} \cup RunTerminal
          /\ nodeRow \in [Nodes -> NodeStatuses \cup {"none"}]
          /\ lateNodes \in SUBSET (Nodes \X NodeStatuses)
          /\ lateRun \in SUBSET ({"running"} \cup RunTerminal)
          /\ temporal \in {"none", "open", "closed", "terminated"}
          /\ api \in {"idle", "polling", "marking", "returned"}
          /\ signals \in 0 .. MaxSignals

\* The row is committed; Temporal does not know the run yet.
Init == /\ edges \in Graphs
        /\ conditions \in SUBSET Nodes
        /\ resume \in SUBSET Nodes \ {Nodes}       \* else there is nothing to resume
        /\ untaken \in SUBSET (conditions \cap resume)
        /\ main = "starting"
        /\ pc = [n \in Nodes |-> "idle"]
        /\ batch = {}
        /\ remaining = Nodes
        /\ completed = {}
        /\ skipped = {}
        /\ failure = FALSE
        /\ cancelled = FALSE
        /\ runRow = "pending"
        /\ nodeRow = [n \in Nodes |-> "none"]
        /\ lateNodes = {}
        /\ lateRun = {}
        /\ temporal = "none"
        /\ api = "idle"
        /\ signals = 0

Open == temporal = "open"

---------------------------------------------------------------------------
\* start_workflow_run, after create_run or resume_run committed the row.
StartTemporal ==
  /\ temporal = "none"
  /\ temporal' = "open"
  /\ UNCHANGED <<graph, untaken, main, pc, batch, sets, cancelled, rows, late, api, signals>>

(* run() sets the status "running", then builds the plan; a cycle has none. *)
Begin ==
  /\ Open
  /\ main = "starting"
  /\ runRow' = "running"
  /\ main' = IF Acyclic THEN "carrying" ELSE "rejecting"
  /\ UNCHANGED <<graph, untaken, pc, batch, sets, cancelled, nodeRow, late, temporal, api, signals>>

\* ValueError: the run has failed.
Reject ==
  /\ Open
  /\ main = "rejecting"
  /\ runRow' = "failed"
  /\ main' = "closed"
  /\ temporal' = "closed"
  /\ UNCHANGED <<graph, untaken, pc, batch, sets, cancelled, nodeRow, late, api, signals>>

\* What a false condition leaves out: its direct successors.
LeftOutBy(n) == IF n \in untaken THEN Downstream(n) ELSE {}

(* A carried node is written "completed" in the plan's order, and releases *)
(* its dependents.                                                         *)
NextCarried(n) == n \in resume \ completed /\ Upstream(n) \cap resume \subseteq completed

Carry(n) ==
  /\ Open
  /\ main = "carrying"
  /\ NextCarried(n)
  /\ nodeRow' = [nodeRow EXCEPT ![n] = "completed"]
  /\ completed' = completed \cup {n}
  /\ skipped' = skipped \cup LeftOutBy(n)
  /\ remaining' = remaining \ {n}
  /\ UNCHANGED <<graph, untaken, main, pc, batch, failure, cancelled, runRow, late, temporal, api,
                 signals>>

Carried ==
  /\ Open
  /\ main = "carrying"
  /\ resume \subseteq completed
  /\ main' = "looping"
  /\ UNCHANGED <<graph, untaken, pc, batch, sets, cancelled, rows, late, temporal, api, signals>>

\* The write of a carried node failed, before or after its commit.
CarryFails(n) ==
  /\ Open
  /\ main = "carrying"
  /\ NextCarried(n)
  /\ nodeRow' \in {nodeRow, [nodeRow EXCEPT ![n] = "completed"]}
  /\ main' = "closed"
  /\ temporal' = "closed"
  /\ UNCHANGED <<graph, untaken, pc, batch, sets, cancelled, runRow, late, api, signals>>

---------------------------------------------------------------------------
\* The nodes whose upstreams have all completed or been skipped.
AnyUpstream(n) == Upstream(n) = {} \/ Upstream(n) \cap (completed \cup skipped) # {}   \* a plausible bug
OnlyCompleted(n) == Upstream(n) \subseteq completed                                  \* a plausible bug
Ready(n) == Upstream(n) \subseteq completed \cup skipped

Frontier == {n \in remaining : Ready(n)}

\* A task starts with the skip check, else with its preparation.
AlwaysPrepares(n) == "preparing"         \* a plausible bug: the skip check is missing
FirstStep(n) == IF n \in skipped THEN "skipping" ELSE "preparing"

StartBatch ==
  /\ Open
  /\ main = "looping"
  /\ ~cancelled /\ Frontier # {}
  /\ batch' = Frontier
  /\ main' = "batch"
  /\ pc' = [n \in Nodes |-> IF n \in Frontier THEN FirstStep(n) ELSE pc[n]]
  /\ UNCHANGED <<graph, untaken, sets, cancelled, rows, late, temporal, api, signals>>

Goto(n, label) == pc' = [pc EXCEPT ![n] = label]
Active(n) == Open /\ main = "batch" /\ n \in batch

\* A status write of a node's task has been carried out.
AfterWrite(label) == CASE label = "preparing" -> "running"
                       [] label = "skipping" -> "passed"
                       [] label = "storing" -> "ok"
                       [] label = "failing" -> "failed"

WriteNode(n) ==
  /\ Active(n)
  /\ pc[n] \in Writing
  /\ nodeRow' = [nodeRow EXCEPT ![n] = RowOf(pc[n])]
  /\ Goto(n, AfterWrite(pc[n]))
  /\ UNCHANGED <<graph, untaken, main, batch, sets, cancelled, runRow, late, temporal, api, signals>>

(* It failed, before or after its commit, with one attempt only: the       *)
(* exception leaves run_node.                                              *)
WriteFails(n) ==
  /\ Active(n)
  /\ pc[n] \in Writing
  /\ nodeRow' \in {nodeRow, [nodeRow EXCEPT ![n] = RowOf(pc[n])]}
  /\ Goto(n, "raised")
  /\ UNCHANGED <<graph, untaken, main, batch, sets, cancelled, runRow, late, temporal, api, signals>>

\* _dispatch_node returns an output, for a condition true or false, or fails.
Dispatched(n) ==
  /\ Active(n)
  /\ pc[n] = "running"
  /\ \/ Goto(n, "storing") /\ UNCHANGED untaken
     \/ Goto(n, "storing") /\ n \in conditions /\ untaken' = untaken \cup {n}
     \/ Goto(n, "failing") /\ UNCHANGED untaken
  /\ UNCHANGED <<graph, main, batch, sets, cancelled, rows, late, temporal, api, signals>>

\* The tasks are awaited in turn, the ones after a failure too.
FirstFailureEnds == \A n \in batch : pc[n] \in Ended \/ \E m \in batch : pc[m] = "failed"  \* a plausible bug
BatchDone == \A n \in batch : pc[n] \in Ended

WithOutput == {n \in batch : pc[n] = "ok"}    \* as Discarded, a plausible bug: the skipped ones stay
Discarded == batch

(* Every task of the batch has ended: their results are taken.             *)
EndBatch ==
  LET good == WithOutput IN
    /\ Open
    /\ main = "batch"
    /\ BatchDone
    /\ remaining' = remaining \ Discarded
    /\ completed' = completed \cup good
    /\ skipped' = skipped \cup UNION {LeftOutBy(n) : n \in good}
    /\ failure' = (\E n \in batch : pc[n] = "failed")
    /\ batch' = {}
    /\ main' = IF failure' THEN "clearing" ELSE "looping"
    /\ UNCHANGED <<graph, untaken, pc, cancelled, rows, late, temporal, api, signals>>

\* The status writes under way when the workflow is cut short.
InFlight == {<<n, RowOf(pc[n])>> : n \in {m \in batch : pc[m] \in Writing}}

\* A task raised: the workflow fails, what the others were writing may land.
Crash ==
  /\ Open
  /\ main = "batch"
  /\ \E n \in batch : pc[n] = "raised"
  /\ main' = "closed"
  /\ temporal' = "closed"
  /\ lateNodes' = lateNodes \cup InFlight
  /\ UNCHANGED <<graph, untaken, pc, batch, sets, cancelled, rows, lateRun, api, signals>>

---------------------------------------------------------------------------
\* The loop ends: nothing is left, nothing is ready, or it was cancelled.
EndLoop ==
  /\ Open
  /\ main = "looping"
  /\ cancelled \/ Frontier = {}
  /\ main' = IF cancelled THEN "clearing" ELSE "finishing"
  /\ UNCHANGED <<graph, untaken, pc, batch, sets, cancelled, rows, late, temporal, api, signals>>

\* _skip suppresses the failure of its write.
SkipRest(n) ==
  /\ Open
  /\ main = "clearing"
  /\ n \in remaining
  /\ remaining' = remaining \ {n}
  /\ nodeRow' \in {nodeRow, [nodeRow EXCEPT ![n] = "skipped"]}
  /\ UNCHANGED <<graph, untaken, main, pc, batch, completed, skipped, failure, cancelled, runRow,
                 late, temporal, api, signals>>

Cleared ==
  /\ Open
  /\ main = "clearing"
  /\ remaining = {}
  /\ main' = "reporting"
  /\ UNCHANGED <<graph, untaken, pc, batch, sets, cancelled, rows, late, temporal, api, signals>>

\* The final status, decided when the loop ended; a failure comes first.
Outcome == CASE main = "finishing" -> "completed"
             [] main = "reporting" -> IF failure THEN "failed" ELSE "cancelled"
             [] main = "rejecting" -> "failed"
             [] main = "starting" -> "running"

Finish ==
  /\ Open
  /\ main \in {"finishing", "reporting"}
  /\ runRow' = Outcome
  /\ main' = "closed"
  /\ temporal' = "closed"
  /\ UNCHANGED <<graph, untaken, pc, batch, sets, cancelled, nodeRow, late, api, signals>>

\* Any write of the run's status may fail, before or after its commit.
RunWriteFails ==
  /\ Open
  /\ main \in {"starting", "rejecting", "finishing", "reporting"}
  /\ runRow' \in {runRow, Outcome}
  /\ main' = "closed"
  /\ temporal' = "closed"
  /\ UNCHANGED <<graph, untaken, pc, batch, sets, cancelled, nodeRow, late, api, signals>>

---------------------------------------------------------------------------
(* The cancel signal: the flag, then every task that is not done.  An      *)
(* activity in dispatch is cancelled and the node will be skipped; a       *)
(* cancelled write raises, and may still be carried out.                   *)
Interrupted(n) == CASE pc[n] = "running" -> "skipping"
                    [] pc[n] \in Writing -> "raised"
                    [] OTHER -> pc[n]

Signal ==
  /\ cancelled' = TRUE
  /\ signals' = signals + 1
  /\ pc' = [n \in Nodes |-> IF n \in batch THEN Interrupted(n) ELSE pc[n]]
  /\ lateNodes' = lateNodes \cup InFlight

(* cancel_run: a workflow Temporal does not run is reconciled; another is  *)
(* signalled, then polled.                                                 *)
CancelGone ==
  /\ api \in {"idle", "returned"}
  /\ signals < MaxSignals
  /\ ~Open
  /\ api' = "marking"
  /\ signals' = signals + 1
  /\ UNCHANGED <<graph, untaken, main, pc, batch, sets, cancelled, rows, late, temporal>>

CancelRunning ==
  /\ api \in {"idle", "returned"}
  /\ signals < MaxSignals
  /\ Open
  /\ api' = "polling"
  /\ Signal
  /\ UNCHANGED <<graph, untaken, main, batch, sets, rows, lateRun, temporal>>

PollClosed ==
  /\ api = "polling"
  /\ ~Open
  /\ api' = "marking"
  /\ UNCHANGED <<graph, untaken, main, pc, batch, sets, cancelled, rows, late, temporal, signals>>

(* The grace period is over: terminate.  It returns False if the workflow  *)
(* has closed since the last poll, and nothing is reconciled then.         *)
Terminate ==
  /\ api = "polling"
  /\ Open
  /\ api' = "marking"
  /\ temporal' = "terminated"
  /\ lateNodes' = lateNodes \cup InFlight
  /\ lateRun' = IF main \in {"starting", "rejecting", "finishing", "reporting"}
                  THEN {Outcome} ELSE {}
  /\ UNCHANGED <<graph, untaken, main, pc, batch, sets, cancelled, rows, signals>>

TerminateMissed ==
  /\ api = "polling"
  /\ ~Open
  /\ api' = "returned"
  /\ UNCHANGED <<graph, untaken, main, pc, batch, sets, cancelled, rows, late, temporal, signals>>

(* _mark_run_cancelled, committed when the request ends: only a run not    *)
(* yet terminal is cancelled; its running nodes are swept to "skipped".    *)
Unfinished(status) == status \in {"pending", "running"}

MarkCancelled ==
  /\ api = "marking"
  /\ api' = "returned"
  /\ runRow' = IF Unfinished(runRow) THEN "cancelled" ELSE runRow
  /\ nodeRow' = [n \in Nodes |-> IF Unfinished(nodeRow[n]) THEN "skipped" ELSE nodeRow[n]]
  /\ UNCHANGED <<graph, untaken, main, pc, batch, sets, cancelled, late, temporal, signals>>

---------------------------------------------------------------------------
\* A worker carries out, or gives up, a write its workflow no longer awaits.
LateNode(n, status) ==
  /\ <<n, status>> \in lateNodes
  /\ lateNodes' = lateNodes \ {<<n, status>>}
  /\ nodeRow' \in {nodeRow, [nodeRow EXCEPT ![n] = status]}
  /\ UNCHANGED <<graph, untaken, main, pc, batch, sets, cancelled, runRow, lateRun, temporal,
                 api, signals>>

LateRun(status) ==
  /\ status \in lateRun
  /\ lateRun' = lateRun \ {status}
  /\ runRow' \in {runRow, status}
  /\ UNCHANGED <<graph, untaken, main, pc, batch, sets, cancelled, nodeRow, lateNodes, temporal,
                 api, signals>>

---------------------------------------------------------------------------
NodeStep(n) == \/ Carry(n)
               \/ CarryFails(n)
               \/ WriteNode(n)
               \/ WriteFails(n)
               \/ Dispatched(n)
               \/ SkipRest(n)

MainStep == \/ Begin
            \/ Reject
            \/ Carried
            \/ StartBatch
            \/ EndBatch
            \/ Crash
            \/ EndLoop
            \/ Cleared
            \/ Finish
            \/ RunWriteFails

Worker == MainStep \/ \E n \in Nodes : NodeStep(n)

Cancel == \/ CancelGone
          \/ CancelRunning
          \/ PollClosed
          \/ Terminate
          \/ TerminateMissed
          \/ MarkCancelled

Late == \/ \E n \in Nodes, status \in NodeStatuses : LateNode(n, status)
        \/ \E status \in {"running"} \cup RunTerminal : LateRun(status)

Next == StartTemporal \/ Worker \/ Cancel \/ Late

Spec == Init /\ [][Next]_vars

\* Temporal schedules the workflow and its activities, each with a timeout.
FairSpec == Spec /\ WF_vars(Worker)

---------------------------------------------------------------------------
(* Safety.                                                                 *)

(* A node is started only when each node it depends on has its completed   *)
(* row committed, or is left out by a condition: concurrent batches, late  *)
(* conditions and carried nodes included.                                  *)
StartsAfterUpstream ==
  [][\A n \in Nodes : pc[n] = "idle" /\ pc'[n] = "preparing" =>
       \A m \in Upstream(n) : nodeRow[m] = "completed" \/ m \in skipped]_vars

(* The branch a condition does not take is not executed: no direct         *)
(* successor of a false condition is ever started, except for nodes that   *)
(* were carried into the run.                                              *)
BranchNotTaken ==
  \A c \in untaken \cap completed, n \in Nodes :
    n \in Downstream(c) \ resume => nodeRow[n] \in {"none", "skipped"}

(* The loop's `if not frontier: break` never stops a run early: when the   *)
(* worker reports "completed", every node has completed or been skipped.   *)
CompletedMeansSettled ==
  runRow = "completed" => \A n \in Nodes : nodeRow[n] \in {"completed", "skipped"}

(* A run that ended by itself leaves no node "running", and one it calls   *)
(* failed for a node has that node's row to show for it.                   *)
ClosedLeavesNothingRunning ==
  main = "closed" /\ runRow \in RunTerminal /\ signals = 0 =>
    /\ \A n \in Nodes : nodeRow[n] # "running"
    /\ runRow = "failed" /\ Acyclic => \E n \in Nodes : nodeRow[n] = "failed"

(* Every run that Temporal has started is closed: the graph is walked to   *)
(* its end, and no batch waits for ever.                                   *)
RunCloses == temporal = "open" ~> temporal # "open"

=============================================================================
