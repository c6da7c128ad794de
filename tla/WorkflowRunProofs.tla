--------------------------- MODULE WorkflowRunProofs ---------------------------
(***************************************************************************)
(* Proofs about one run of a workflow graph: for every set of nodes, every *)
(* edge set, whatever conditions, carried nodes, failed writes, cancels    *)
(* and late writes.  Then, of RunViewer, about those who watch runs, for   *)
(* any runs, sockets and requests: a connection that listens has been sent *)
(* all that was published, and a page that shows a live run holds one.     *)
(***************************************************************************)
EXTENDS WorkflowRun, RunViewer, TLAPS

---------------------------------------------------------------------------
(* The inductive invariant.                                                *)

Stuck == \E n \in batch : pc[n] = "raised"
Over(n) == nodeRow[n] \in {"completed", "skipped"}

\* Until something has failed or the run was cut short.
Walking == main \in {"starting", "rejecting", "carrying", "looping", "batch", "finishing"}

\* run()'s sets, and what Temporal knows: a batch is taken from what remains.
Shape == /\ batch \subseteq remaining
         /\ completed \cap remaining = {}
         /\ main \notin {"batch", "closed"} => batch = {}
         /\ temporal = "none" => main = "starting"
         /\ main = "closed" => temporal = "closed"

\* A write no task awaits is of the last batch, which never ends.
LateInBatch == /\ \A n \in Nodes, s \in NodeStatuses : <<n, s>> \in lateNodes => n \in batch
               /\ lateNodes # {} => main = "closed" \/ (main = "batch" /\ (Stuck \/ ~Open))

\* What run() has taken for settled is committed.
Settled == Walking => /\ \A n \in completed : nodeRow[n] = "completed"
                      /\ \A n \in Nodes \ remaining : Over(n)

\* The row of a task that has ended, unless a cancelled write may still land.
EndedRows == main = "batch" /\ Open /\ ~Stuck =>
  \A n \in batch : /\ pc[n] = "ok" => nodeRow[n] = "completed"
                   /\ pc[n] = "passed" => nodeRow[n] = "skipped"
                   /\ pc[n] = "failed" => nodeRow[n] = "failed"

\* Only a node that was left out, or a cancelled one, passes without an output.
Skips == \A n \in batch : /\ n \in skipped => pc[n] \in {"skipping", "passed", "raised"}
                          /\ pc[n] \in {"skipping", "passed"} => n \in skipped \/ cancelled

\* What is off run()'s list may release its dependents, unless it was cancelled.
Accounted == main \in {"starting", "carrying", "looping", "batch"} =>
               cancelled \/ Nodes \ remaining \subseteq completed \cup skipped

Planned == /\ main \in {"carrying", "looping", "batch", "finishing"} => Acyclic
           /\ main = "rejecting" => ~Acyclic
           /\ main = "finishing" => remaining = {}

\* "completed" is in the row, or may still be written to it.
Reported == runRow = "completed" \/ "completed" \in lateRun =>
              /\ temporal \in {"closed", "terminated"}
              /\ lateNodes = {}
              /\ \A n \in Nodes : Over(n)

Core == /\ TypeOK
        /\ Shape
        /\ LateInBatch
        /\ Settled
        /\ EndedRows
        /\ Skips
        /\ Accounted
        /\ Planned
        /\ Reported

\* What was started, or may be by a late write.
Started == {"running", "completed", "failed"}
Touched(n) == \/ nodeRow[n] \in Started
              \/ n \in batch /\ pc[n] \in {"preparing", "running", "storing", "failing"}
              \/ \E s \in Started : <<n, s>> \in lateNodes

LeftOut == \A c \in untaken \cap completed : Downstream(c) \subseteq skipped
Unstarted == main \in {"starting", "rejecting", "carrying"} =>
               \A n \in Nodes \ resume : nodeRow[n] = "none"

\* A node that was started had its upstreams completed, with their branch
\* taken, or left out for good.
Justified == \A n \in Nodes \ resume : Touched(n) =>
               \A c \in Upstream(n) : c \in (completed \ untaken) \cup (skipped \ completed)

Branches == LeftOut /\ Unstarted /\ Justified

\* A run nobody has cancelled.
Undisturbed == signals = 0 =>
  /\ api = "idle" /\ ~cancelled /\ lateRun = {} /\ temporal # "terminated"
  /\ lateNodes # {} => main = "closed"
  /\ \A n \in Nodes : nodeRow[n] = "running" => n \in batch /\ (main = "batch" => pc[n] \notin Ended)
  /\ runRow \in RunTerminal => main = "closed" /\ batch = {}
  /\ runRow = "failed" /\ Acyclic => \E n \in Nodes : nodeRow[n] = "failed"
  /\ main \in {"clearing", "reporting"} =>
       failure /\ \E n \in Nodes \ remaining : nodeRow[n] = "failed"

---------------------------------------------------------------------------
(* What the writes write.                                                  *)

LEMMA RowFacts ==
  /\ \A l \in Writing : RowOf(l) \in NodeStatuses
                        /\ (RowOf(l) = "running" <=> l = "preparing")
                        /\ (RowOf(l) = "skipped" <=> l = "skipping")
                        /\ (RowOf(l) = "completed" <=> l = "storing")
                        /\ (RowOf(l) = "failed" <=> l = "failing")
  /\ \A l \in Writing : AfterWrite(l) \in {"running", "passed", "ok", "failed"}
                        /\ (AfterWrite(l) = "running" <=> l = "preparing")
                        /\ (AfterWrite(l) = "passed" <=> l = "skipping")
                        /\ (AfterWrite(l) = "ok" <=> l = "storing")
                        /\ (AfterWrite(l) = "failed" <=> l = "failing")
  BY DEF Writing, RowOf, AfterWrite, NodeStatuses

LEMMA OutcomeFacts ==
  ASSUME main \in {"starting", "rejecting", "finishing", "reporting"}
  PROVE  /\ Outcome \in {"running", "completed", "failed", "cancelled"}
         /\ Outcome = "completed" <=> main = "finishing"
         /\ Outcome = "running" <=> main = "starting"
         /\ Outcome = "failed" => main \in {"rejecting", "reporting"}
         /\ main = "reporting" /\ failure => Outcome = "failed"
  BY DEF Outcome

LEMMA FlightFacts ==
  ASSUME TypeOK, NEW n, NEW s
  PROVE  <<n, s>> \in InFlight <=> n \in batch /\ pc[n] \in Writing /\ s = RowOf(pc[n])
  BY DEF InFlight

LEMMA FlightType == TypeOK => InFlight \subseteq Nodes \X NodeStatuses
  BY RowFacts DEF InFlight, TypeOK

LEMMA InterruptedFacts ==
  ASSUME TypeOK, NEW n \in Nodes
  PROVE  /\ Interrupted(n) \in {"idle", "raised", "skipping"} \cup Ended
         /\ Interrupted(n) = "raised" <=> pc[n] \in Writing \cup {"raised"}
         /\ Interrupted(n) = "skipping" <=> pc[n] = "running"
         /\ Interrupted(n) \in Ended \cup {"idle"} => Interrupted(n) = pc[n]
  BY DEF Interrupted, TypeOK, Writing, Ended

---------------------------------------------------------------------------
(* Types.                                                                  *)

LEMMA TypeStep == TypeOK /\ [Next]_vars => TypeOK'
  <1> SUFFICES ASSUME TypeOK, [Next]_vars PROVE TypeOK'
    OBVIOUS
  <1> USE DEF graph, sets, late, rows
  <1>1. CASE UNCHANGED vars
    BY <1>1 DEF TypeOK, vars
  <1>2. ASSUME NEW n \in Nodes, NodeStep(n) PROVE TypeOK'
    <2>1. CASE Carry(n)
      BY <2>1 DEF Carry, TypeOK, NodeStatuses, LeftOutBy, Downstream
    <2>2. CASE CarryFails(n)
      BY <2>2 DEF CarryFails, TypeOK, NodeStatuses
    <2>3. CASE WriteNode(n)
      <3>1. pc[n] \in Writing
        BY <2>3 DEF WriteNode
      <3>2. RowOf(pc[n]) \in NodeStatuses /\ AfterWrite(pc[n]) \in {"running"} \cup Ended
        BY <3>1, RowFacts DEF Ended
      <3> QED
        BY <2>3, <3>2 DEF WriteNode, Goto, TypeOK
    <2>4. CASE WriteFails(n)
      <3>1. RowOf(pc[n]) \in NodeStatuses
        BY <2>4, RowFacts DEF WriteFails
      <3> QED
        BY <2>4, <3>1 DEF WriteFails, Goto, TypeOK
    <2>5. CASE Dispatched(n)
      <3>1. pc' \in [Nodes -> {"idle", "running", "raised"} \cup Writing \cup Ended]
        BY <2>5 DEF Dispatched, Goto, TypeOK, Writing
      <3> QED
        BY <2>5, <3>1 DEF Dispatched, TypeOK
    <2>6. CASE SkipRest(n)
      BY <2>6 DEF SkipRest, TypeOK, NodeStatuses
    <2> QED
      BY <1>2, <2>1, <2>2, <2>3, <2>4, <2>5, <2>6 DEF NodeStep
  <1>3. CASE MainStep
    <2>1. CASE Begin \/ Reject \/ Carried \/ EndLoop \/ Cleared
      BY <2>1 DEF Begin, Reject, Carried, EndLoop, Cleared, TypeOK, RunTerminal
    <2>2. CASE StartBatch
      <3>1. \A n \in Nodes : FirstStep(n) \in Writing
        BY DEF FirstStep, Writing
      <3> QED
        BY <2>2, <3>1 DEF StartBatch, Frontier, TypeOK
    <2>3. CASE EndBatch
      <3>1. WithOutput \subseteq Nodes /\ UNION {LeftOutBy(n) : n \in WithOutput} \subseteq Nodes
        BY DEF WithOutput, LeftOutBy, Downstream, TypeOK
      <3>2. failure' \in BOOLEAN /\ main' \in {"clearing", "looping"}
        BY <2>3 DEF EndBatch
      <3> QED
        BY <2>3, <3>1, <3>2 DEF EndBatch, TypeOK
    <2>4. CASE Crash
      BY <2>4, FlightType DEF Crash, TypeOK
    <2>5. CASE Finish
      BY <2>5, OutcomeFacts DEF Finish, TypeOK, RunTerminal
    <2>6. CASE RunWriteFails
      BY <2>6, OutcomeFacts DEF RunWriteFails, TypeOK, RunTerminal
    <2> QED
      BY <1>3, <2>1, <2>2, <2>3, <2>4, <2>5, <2>6 DEF MainStep
  <1>4. CASE StartTemporal
    BY <1>4 DEF StartTemporal, TypeOK
  <1>5. CASE Cancel
    <2>0. CASE CancelGone
      <3>1. signals' \in 0 .. MaxSignals
        BY <2>0, SignalsAssumption DEF CancelGone, TypeOK
      <3> QED
        BY <2>0, <3>1 DEF CancelGone, TypeOK
    <2>1. CASE PollClosed \/ TerminateMissed
      BY <2>1 DEF PollClosed, TerminateMissed, TypeOK
    <2>2. CASE CancelRunning
      <3>1. pc' \in [Nodes -> {"idle", "running", "raised"} \cup Writing \cup Ended]
        BY <2>2, InterruptedFacts DEF CancelRunning, Signal, TypeOK, Writing
      <3> QED
        BY <2>2, <3>1, FlightType, SignalsAssumption DEF CancelRunning, Signal, TypeOK
    <2>3. CASE Terminate
      BY <2>3, FlightType, OutcomeFacts DEF Terminate, TypeOK, RunTerminal
    <2>4. CASE MarkCancelled
      BY <2>4 DEF MarkCancelled, TypeOK, RunTerminal, NodeStatuses
    <2> QED
      BY <1>5, <2>0, <2>1, <2>2, <2>3, <2>4 DEF Cancel
  <1>6. CASE Late
    <2>1. ASSUME NEW n \in Nodes, NEW status \in NodeStatuses, LateNode(n, status) PROVE TypeOK'
      BY <2>1 DEF LateNode, TypeOK
    <2>2. ASSUME NEW status \in {"running"} \cup RunTerminal, LateRun(status) PROVE TypeOK'
      BY <2>2 DEF LateRun, TypeOK, RunTerminal
    <2> QED
      BY <1>6, <2>1, <2>2 DEF Late
  <1> QED
    BY <1>1, <1>2, <1>3, <1>4, <1>5, <1>6 DEF Next, Worker

---------------------------------------------------------------------------
(* The sets, the batch and the late writes.                                *)

LEMMA ShapeStep ==
  ASSUME TypeOK, Shape, Next
  PROVE  Shape'
  <1> USE DEF graph, sets, late, rows, Shape, Open
  <1>1. CASE StartTemporal \/ Cancel \/ Late
    BY <1>1 DEF StartTemporal, Cancel, Late, CancelGone, CancelRunning, Signal, PollClosed, Terminate,
                TerminateMissed, MarkCancelled, LateNode, LateRun
  <1>2. CASE Begin \/ Reject \/ Carried \/ EndLoop \/ Cleared \/ Finish \/ RunWriteFails \/ Crash
    BY <1>2 DEF Begin, Reject, Carried, EndLoop, Cleared, Finish, RunWriteFails, Crash
  <1>3. CASE StartBatch
    BY <1>3 DEF StartBatch, Frontier
  <1>4. CASE EndBatch
    BY <1>4 DEF EndBatch, WithOutput, Discarded
  <1>5. ASSUME NEW n \in Nodes, NodeStep(n) PROVE Shape'
    BY <1>5 DEF NodeStep, Carry, CarryFails, WriteNode, WriteFails, Dispatched, SkipRest
  <1> QED
    BY <1>1, <1>2, <1>3, <1>4, <1>5 DEF Next, Worker, MainStep

\* A task that raised stays so until the run is closed.
LEMMA StuckStays ==
  ASSUME TypeOK, Stuck, main = "batch", Next
  PROVE  Stuck' /\ batch' = batch /\ main' \in {"batch", "closed"}
  <1> USE DEF graph, sets, late, rows, Stuck
  <1>1. CASE StartTemporal \/ CancelGone \/ PollClosed \/ Terminate \/ TerminateMissed \/ MarkCancelled \/ Late
    BY <1>1 DEF StartTemporal, Late, CancelGone, PollClosed, Terminate, TerminateMissed, MarkCancelled,
                LateNode, LateRun
  <1>2. CASE CancelRunning
    BY <1>2, InterruptedFacts DEF CancelRunning, Signal, TypeOK
  <1>3. CASE MainStep
    BY <1>3 DEF MainStep, Begin, Reject, Carried, StartBatch, EndBatch, BatchDone, Ended, Crash, EndLoop,
                Cleared, Finish, RunWriteFails
  <1>4. ASSUME NEW n \in Nodes, NodeStep(n)
        PROVE  Stuck' /\ batch' = batch /\ main' = "batch"
    <2>1. \/ pc' = pc
          \/ \E l : pc' = [pc EXCEPT ![n] = l] /\ pc[n] # "raised"
      BY <1>4 DEF NodeStep, Carry, CarryFails, WriteNode, WriteFails, Dispatched, SkipRest, Goto, Writing
    <2>2. batch' = batch /\ main' = "batch"
      BY <1>4 DEF NodeStep, Carry, CarryFails, WriteNode, WriteFails, Dispatched, SkipRest
    <2> QED
      BY <2>1, <2>2 DEF TypeOK
  <1> QED
    BY <1>1, <1>2, <1>3, <1>4 DEF Next, Worker, Cancel

\* Once Temporal runs the workflow no more, only writes that were under way
\* and the API change anything.
Halted == temporal \notin {"none", "open"}

LEMMA HaltedStays ==
  ASSUME Shape, Halted, Next
  PROVE  /\ UNCHANGED <<main, batch, pc, remaining, completed, skipped, failure, untaken, cancelled,
                        temporal, edges, conditions, resume>>
         /\ \/ UNCHANGED <<rows, late>>
            \/ Late /\ UNCHANGED <<api, signals>>
            \/ MarkCancelled
  <1> USE DEF graph, sets, late, rows
  <1>1. ~StartTemporal /\ ~Worker /\ ~CancelRunning /\ ~Terminate
    BY DEF Halted, Open, Shape, StartTemporal, Worker, CancelRunning, Terminate, MainStep, NodeStep, Begin, Reject,
           Carried, StartBatch, EndBatch, Crash, EndLoop, Cleared, Finish, RunWriteFails,
           Carry, CarryFails, WriteNode, Active, WriteFails, Dispatched, SkipRest
  <1>2. CASE Late
    BY <1>2 DEF Late, LateNode, LateRun
  <1>3. CASE CancelGone \/ PollClosed \/ TerminateMissed \/ MarkCancelled
    BY <1>3 DEF CancelGone, PollClosed, TerminateMissed, MarkCancelled
  <1> QED
    BY <1>1, <1>2, <1>3 DEF Next, Cancel

\* A late write is carried out, or given up.
LEMMA LateFacts ==
  ASSUME Late
  PROVE  /\ UNCHANGED <<main, batch, pc, remaining, completed, skipped, failure, untaken, cancelled,
                        temporal, edges, conditions, resume, api, signals>>
         /\ lateNodes' \subseteq lateNodes /\ lateRun' \subseteq lateRun
         /\ runRow' = runRow \/ runRow' \in lateRun
         /\ \/ nodeRow' = nodeRow
            \/ \E n \in Nodes, s \in NodeStatuses : <<n, s>> \in lateNodes /\ nodeRow' = [nodeRow EXCEPT ![n] = s]
  <1> USE DEF graph, sets, late, rows
  <1>1. ASSUME NEW n \in Nodes, NEW s \in NodeStatuses, LateNode(n, s)
        PROVE  nodeRow' = nodeRow \/ (<<n, s>> \in lateNodes /\ nodeRow' = [nodeRow EXCEPT ![n] = s])
    BY <1>1 DEF LateNode
  <1>2. ASSUME NEW s, LateRun(s) PROVE nodeRow' = nodeRow /\ (runRow' = runRow \/ runRow' \in lateRun)
    BY <1>2 DEF LateRun
  <1>3. nodeRow' = nodeRow \/ \E n \in Nodes, s \in NodeStatuses :
                                <<n, s>> \in lateNodes /\ nodeRow' = [nodeRow EXCEPT ![n] = s]
    BY <1>1, <1>2 DEF Late
  <1>4. /\ UNCHANGED <<main, batch, pc, remaining, completed, skipped, failure, untaken, cancelled,
                       temporal, edges, conditions, resume, api, signals>>
        /\ lateNodes' \subseteq lateNodes /\ lateRun' \subseteq lateRun
        /\ runRow' = runRow \/ runRow' \in lateRun
    BY DEF Late, LateNode, LateRun
  <1> QED
    BY <1>3, <1>4

LEMMA LateStep ==
  ASSUME TypeOK, Shape, LateInBatch, Next
  PROVE  LateInBatch'
  <1> USE DEF graph, sets, late, rows
  <1>1. CASE lateNodes # {} /\ ~(main = "batch" /\ Stuck /\ Open)
    <2>1. Halted
      BY <1>1 DEF LateInBatch, Shape, Halted, Open
    <2>2. lateNodes' \subseteq lateNodes
      BY <2>1, HaltedStays, LateFacts DEF MarkCancelled
    <2> QED
      BY <1>1, <2>1, <2>2, HaltedStays DEF LateInBatch, Stuck, Open
  <1>2. CASE lateNodes # {} /\ main = "batch" /\ Stuck /\ Open
    <2>1. Stuck' /\ batch' = batch /\ main' \in {"batch", "closed"}
      BY <1>2, StuckStays
    <2>2. lateNodes' \subseteq lateNodes \cup InFlight
      <3>1. ASSUME NEW n \in Nodes, NodeStep(n) PROVE lateNodes' = lateNodes
        BY <3>1 DEF NodeStep, Carry, CarryFails, WriteNode, WriteFails, Dispatched, SkipRest
      <3>2. CASE MainStep \/ StartTemporal \/ Cancel
        BY <3>2 DEF MainStep, StartTemporal, Cancel, CancelGone, CancelRunning, Signal, PollClosed,
                    Terminate, TerminateMissed, MarkCancelled, Begin, Reject, Carried, StartBatch, EndBatch,
                    Crash, EndLoop, Cleared, Finish, RunWriteFails
      <3> QED
        BY <3>1, <3>2, LateFacts DEF Next, Worker
    <2>3. \A n \in Nodes, s \in NodeStatuses : <<n, s>> \in InFlight => n \in batch
      BY FlightFacts
    <2> QED
      BY <2>1, <2>2, <2>3 DEF LateInBatch
  <1>3. CASE lateNodes = {}
    <2>1. CASE lateNodes' = {}
      BY <2>1 DEF LateInBatch
    <2>2. CASE CancelRunning
      <3>1. batch' = batch /\ main' = main /\ lateNodes' = InFlight
        BY <1>3, <2>2 DEF CancelRunning, Signal
      <3>2. ASSUME NEW n \in batch, pc[n] \in Writing PROVE Stuck' /\ main = "batch"
        <4>1. n \in Nodes
          BY DEF TypeOK
        <4>2. pc'[n] = "raised"
          BY <2>2, <3>2, <4>1, InterruptedFacts DEF CancelRunning, Signal
        <4>3. Open /\ main = "batch"
          BY <2>2 DEF CancelRunning, Shape, Open
        <4> QED
          BY <3>1, <4>2, <4>3 DEF Stuck
      <3>3. lateNodes' # {} => Stuck' /\ main = "batch"
        BY <3>1, <3>2 DEF InFlight
      <3> QED
        BY <3>1, <3>3, FlightFacts DEF LateInBatch
    <2>3. CASE Terminate \/ Crash
      <3>1. batch' = batch /\ lateNodes' = InFlight
        BY <1>3, <2>3 DEF Terminate, Crash
      <3>2. InFlight # {} => main = "batch"
        BY <2>3 DEF InFlight, Shape, Terminate, Open, Crash
      <3>3. main' = "closed" \/ (main' = main /\ ~Open')
        BY <2>3 DEF Terminate, Crash, Open
      <3> QED
        BY <3>1, <3>2, <3>3, FlightFacts DEF LateInBatch
    <2>4. lateNodes' = {} \/ CancelRunning \/ Terminate \/ Crash
      <3>1. ASSUME NEW n \in Nodes, NodeStep(n) PROVE lateNodes' = lateNodes
        BY <3>1 DEF NodeStep, Carry, CarryFails, WriteNode, WriteFails, Dispatched, SkipRest
      <3>2. CASE MainStep \/ StartTemporal \/ Cancel
        BY <1>3, <3>2 DEF MainStep, StartTemporal, Cancel, CancelGone, PollClosed, TerminateMissed,
                    MarkCancelled, Begin, Reject, Carried, StartBatch, EndBatch, EndLoop, Cleared, Finish,
                    RunWriteFails
      <3> QED
        BY <1>3, <3>1, <3>2, LateFacts DEF Next, Worker
    <2> QED
      BY <2>1, <2>2, <2>3, <2>4
  <1> QED
    BY <1>1, <1>2, <1>3

---------------------------------------------------------------------------
(* What is settled is committed.                                           *)

\* The API sweeps what is unfinished, and leaves what is over.
LEMMA MarkFacts ==
  ASSUME TypeOK, MarkCancelled
  PROVE  /\ UNCHANGED <<main, batch, pc, remaining, completed, skipped, failure, untaken, cancelled,
                        temporal, edges, conditions, resume, lateNodes, lateRun>>
         /\ runRow' = runRow \/ runRow' = "cancelled"
         /\ \A n \in Nodes : nodeRow'[n] = nodeRow[n] \/ (nodeRow[n] = "running" /\ nodeRow'[n] = "skipped")
  <1>1. \A n \in Nodes : Unfinished(nodeRow[n]) => nodeRow[n] = "running"
    BY DEF TypeOK, Unfinished, NodeStatuses
  <1> QED
    BY <1>1 DEF MarkCancelled, graph, sets, late

\* A node's task writes its own row, while its batch is awaited.
LEMMA WriteFacts ==
  ASSUME TypeOK, NEW n \in Nodes, WriteNode(n) \/ WriteFails(n)
  PROVE  /\ UNCHANGED <<main, batch, remaining, completed, skipped, failure, untaken, cancelled, runRow,
                        temporal, edges, conditions, resume, lateNodes, lateRun, api, signals>>
         /\ Open /\ main = "batch" /\ n \in batch /\ pc[n] \in Writing
         /\ \A m \in Nodes : m # n => nodeRow'[m] = nodeRow[m] /\ pc'[m] = pc[m]
         /\ nodeRow'[n] = nodeRow[n] \/ nodeRow'[n] = RowOf(pc[n])
         /\ pc'[n] = "raised" \/ (pc'[n] = AfterWrite(pc[n]) /\ nodeRow'[n] = RowOf(pc[n]))
  BY DEF WriteNode, WriteFails, Active, Goto, TypeOK, graph, sets, late

LEMMA BatchDoneFacts ==
  ASSUME Core, EndBatch
  PROVE  /\ ~Stuck /\ Open /\ main = "batch" /\ lateNodes = {}
         /\ \A n \in batch : \/ pc[n] = "ok" /\ nodeRow[n] = "completed"
                             \/ pc[n] = "passed" /\ nodeRow[n] = "skipped"
                             \/ pc[n] = "failed" /\ nodeRow[n] = "failed"
  <1>1. /\ Open /\ main = "batch"
        /\ \A n \in batch : pc[n] \in {"ok", "passed", "failed"}
    BY DEF EndBatch, BatchDone, Ended
  <1>2. ~Stuck
    BY <1>1 DEF Stuck
  <1>3. lateNodes = {}
    BY <1>1, <1>2 DEF Core, LateInBatch
  <1>4. \A n \in batch : /\ pc[n] = "ok" => nodeRow[n] = "completed"
                         /\ pc[n] = "passed" => nodeRow[n] = "skipped"
                         /\ pc[n] = "failed" => nodeRow[n] = "failed"
    BY <1>1, <1>2 DEF Core, EndedRows
  <1> QED
    BY <1>1, <1>2, <1>3, <1>4

LEMMA SettledStep ==
  ASSUME Core, Next
  PROVE  Settled'
  <1>0. TypeOK /\ Shape /\ Settled /\ LateInBatch
    BY DEF Core
  <1> USE DEF graph, sets, late, rows
  <1>1. CASE UNCHANGED <<completed, remaining, nodeRow>> /\ (Walking' => Walking)
    BY <1>0, <1>1 DEF Settled, Over
  <1>2. CASE StartTemporal \/ CancelGone \/ PollClosed \/ TerminateMissed \/ CancelRunning \/ Terminate
    BY <1>1, <1>2 DEF StartTemporal, CancelGone, PollClosed, TerminateMissed, CancelRunning, Signal,
                      Terminate, Walking
  <1>3. CASE MarkCancelled
    <2>1. /\ UNCHANGED <<main, completed, remaining>>
          /\ \A n \in Nodes : nodeRow'[n] = nodeRow[n] \/ (nodeRow[n] = "running" /\ nodeRow'[n] = "skipped")
      BY <1>0, <1>3, MarkFacts
    <2>2. completed \subseteq Nodes
      BY <1>0 DEF TypeOK
    <2> QED
      BY <1>0, <2>1, <2>2 DEF Settled, Over, Walking
  <1>4. CASE Late
    <2>1. UNCHANGED <<main, completed, remaining>>
      BY <1>4, LateFacts
    <2>2. CASE nodeRow' = nodeRow
      BY <1>1, <2>1, <2>2 DEF Walking
    <2>3. ASSUME NEW n \in Nodes, NEW s \in NodeStatuses, <<n, s>> \in lateNodes,
                 nodeRow' = [nodeRow EXCEPT ![n] = s]
          PROVE  Settled'
      <3>1. n \in remaining /\ n \notin completed
        BY <1>0, <2>3 DEF LateInBatch, Shape
      <3>2. \A m \in Nodes : m # n => nodeRow'[m] = nodeRow[m]
        BY <1>0, <2>3 DEF TypeOK
      <3>3. completed \subseteq Nodes
        BY <1>0 DEF TypeOK
      <3> QED
        BY <1>0, <2>1, <3>1, <3>2, <3>3 DEF Settled, Over, Walking
    <2> QED
      BY <1>4, <2>2, <2>3, LateFacts
  <1>5. CASE Begin \/ Reject \/ Carried \/ StartBatch \/ Crash \/ EndLoop \/ Cleared \/ Finish \/ RunWriteFails
    BY <1>1, <1>5 DEF Begin, Reject, Carried, StartBatch, Crash, EndLoop, Cleared, Finish, RunWriteFails, Walking
  <1>6. CASE EndBatch
    <2>1. /\ Open /\ main = "batch"
          /\ \A n \in batch : \/ pc[n] = "ok" /\ nodeRow[n] = "completed"
                              \/ pc[n] = "passed" /\ nodeRow[n] = "skipped"
                              \/ pc[n] = "failed" /\ nodeRow[n] = "failed"
      BY <1>6, BatchDoneFacts
    <2>2. /\ remaining' = remaining \ batch /\ nodeRow' = nodeRow
          /\ completed' = completed \cup {n \in batch : pc[n] = "ok"}
          /\ (\E n \in batch : pc[n] = "failed") => main' = "clearing"
      BY <1>6 DEF EndBatch, WithOutput, Discarded
    <2>3. Walking' => \A n \in batch : pc[n] # "failed"
      BY <2>2 DEF Walking
    <2>4. Walking
      BY <2>1 DEF Walking
    <2> QED
      BY <1>0, <2>1, <2>2, <2>3, <2>4 DEF Settled, Over
  <1>7. ASSUME NEW n \in Nodes, Carry(n) PROVE Settled'
    <2>1. /\ completed' = completed \cup {n} /\ remaining' = remaining \ {n} /\ Walking
          /\ nodeRow' = [m \in Nodes |-> IF m = n THEN "completed" ELSE nodeRow[m]]
      BY <1>0, <1>7 DEF Carry, Walking, TypeOK
    <2>2. completed \subseteq Nodes
      BY <1>0 DEF TypeOK
    <2> QED
      BY <1>0, <2>1, <2>2 DEF Settled, Over
  <1>8. ASSUME NEW n \in Nodes, WriteNode(n) \/ WriteFails(n) PROVE Settled'
    <2>1. /\ UNCHANGED <<main, completed, remaining>> /\ n \in batch
          /\ \A m \in Nodes : m # n => nodeRow'[m] = nodeRow[m]
      BY <1>0, <1>8, WriteFacts
    <2>2. n \in remaining /\ n \notin completed /\ completed \subseteq Nodes
      BY <1>0, <2>1 DEF Shape, TypeOK
    <2> QED
      BY <1>0, <2>1, <2>2 DEF Settled, Over, Walking
  <1>9. ASSUME NEW n \in Nodes, CarryFails(n) \/ Dispatched(n) \/ SkipRest(n) PROVE Settled'
    BY <1>1, <1>9 DEF CarryFails, Dispatched, SkipRest, Walking, Settled
  <1> QED
    BY <1>2, <1>3, <1>4, <1>5, <1>6, <1>7, <1>8, <1>9 DEF Next, Worker, Cancel, MainStep, NodeStep

\* The steps outside a batch, and those of the API, leave the tasks alone.
LEMMA EndedStep ==
  ASSUME Core, Next
  PROVE  EndedRows'
  <1>0. TypeOK /\ Shape /\ EndedRows /\ LateInBatch /\ batch \subseteq Nodes
    BY DEF Core, TypeOK
  <1> USE DEF graph, sets, late, rows
  <1> SUFFICES ASSUME main' = "batch", Open', ~Stuck' PROVE EndedRows'
    BY DEF EndedRows
  <1>1. CASE main # "batch"
    <2>1. StartBatch
      BY <1>1 DEF Next, Worker, StartTemporal, Late, LateNode, LateRun, Cancel, CancelGone, CancelRunning,
             Signal, PollClosed, Terminate, TerminateMissed, MarkCancelled, MainStep, NodeStep,
             Begin, Reject, Carried, EndBatch, Crash, EndLoop, Cleared, Finish, RunWriteFails,
             Carry, CarryFails, WriteNode, Active, WriteFails, Dispatched, SkipRest
    <2>2. \A n \in batch' : pc'[n] \in {"skipping", "preparing"}
      BY <1>0, <2>1 DEF StartBatch, FirstStep, Frontier, TypeOK
    <2> QED
      BY <2>2 DEF EndedRows
  <1>2. CASE main = "batch"
    <2>0. ~Stuck
      BY <1>0, <1>2, StuckStays
    <2>00. Open
      <3>1. temporal # "none"
        BY <1>0, <1>2 DEF Shape
      <3> QED
        BY <1>0, <1>2, <3>1, HaltedStays DEF Halted, Open
    <2>1. lateNodes = {}
      BY <1>0, <1>2, <2>0, <2>00 DEF LateInBatch
    <2>2. CASE UNCHANGED <<pc, batch, nodeRow>>
      BY <1>0, <1>2, <2>0, <2>00, <2>2 DEF EndedRows
    <2>3. ASSUME NEW n \in Nodes, WriteNode(n) \/ WriteFails(n) PROVE EndedRows'
      <3>1. /\ batch' = batch /\ pc[n] \in Writing
            /\ \A m \in Nodes : m # n => nodeRow'[m] = nodeRow[m] /\ pc'[m] = pc[m]
            /\ pc'[n] = "raised" \/ (pc'[n] = AfterWrite(pc[n]) /\ nodeRow'[n] = RowOf(pc[n]))
        BY <1>0, <2>3, WriteFacts
      <3>2. /\ pc'[n] = "ok" => nodeRow'[n] = "completed"
            /\ pc'[n] = "passed" => nodeRow'[n] = "skipped"
            /\ pc'[n] = "failed" => nodeRow'[n] = "failed"
        BY <3>1, RowFacts
      <3> QED
        BY <1>0, <1>2, <2>0, <2>00, <3>1, <3>2 DEF EndedRows
    <2>4. ASSUME NEW n \in Nodes, Dispatched(n) PROVE EndedRows'
      <3>1. /\ UNCHANGED <<batch, nodeRow>> /\ pc'[n] \notin Ended
            /\ \A m \in Nodes : m # n => pc'[m] = pc[m]
        BY <1>0, <2>4 DEF Dispatched, Goto, TypeOK, Ended
      <3> QED
        BY <1>0, <1>2, <2>0, <2>00, <3>1 DEF EndedRows, Ended
    <2>5. CASE CancelRunning
      <3>1. UNCHANGED <<batch, nodeRow>> /\ \A n \in batch : pc'[n] \in Ended => pc'[n] = pc[n]
        BY <1>0, <2>5, InterruptedFacts DEF CancelRunning, Signal, TypeOK
      <3> QED
        BY <1>0, <1>2, <2>0, <2>00, <3>1 DEF EndedRows, Ended
    <2>6. CASE MarkCancelled
      <3>1. /\ UNCHANGED <<batch, pc>>
            /\ \A n \in Nodes : nodeRow'[n] = nodeRow[n] \/ (nodeRow[n] = "running" /\ nodeRow'[n] = "skipped")
        BY <1>0, <2>6, MarkFacts
      <3> QED
        BY <1>0, <1>2, <2>0, <2>00, <3>1 DEF EndedRows
    <2>7. CASE Late
      <3>1. nodeRow' = nodeRow
        BY <2>1, <2>7, LateFacts
      <3> QED
        BY <2>2, <2>7, <3>1, LateFacts
    <2>8. CASE StartTemporal \/ CancelGone \/ PollClosed \/ TerminateMissed \/ Terminate \/ MainStep
      <3>1. CASE MainStep
        <4>1. ~MainStep
          BY <1>2 DEF MainStep, Begin, Reject, Carried, StartBatch, EndBatch, Crash, EndLoop, Cleared, Finish,
                      RunWriteFails
        <4> QED
          BY <3>1, <4>1
      <3>2. CASE StartTemporal \/ CancelGone \/ PollClosed \/ TerminateMissed \/ Terminate
        BY <2>2, <3>2 DEF StartTemporal, CancelGone, PollClosed, TerminateMissed, Terminate
      <3> QED
        BY <2>8, <3>1, <3>2
    <2>9. ASSUME NEW n \in Nodes, Carry(n) \/ CarryFails(n) \/ SkipRest(n) PROVE FALSE
      BY <1>2, <2>9 DEF Carry, CarryFails, SkipRest
    <2> QED
      BY <2>3, <2>4, <2>5, <2>6, <2>7, <2>8, <2>9 DEF Next, Worker, Cancel, NodeStep
  <1> QED
    BY <1>1, <1>2

LEMMA SkipsStep ==
  ASSUME Core, Next
  PROVE  Skips'
  <1>0. TypeOK /\ Shape /\ Skips /\ batch \subseteq Nodes
    BY DEF Core, TypeOK
  <1> USE DEF graph, sets, late, rows
  <1>1. CASE UNCHANGED <<pc, batch, skipped, cancelled>>
    BY <1>0, <1>1 DEF Skips
  <1>2. CASE batch' = {}
    BY <1>2 DEF Skips
  <1>3. CASE StartTemporal \/ CancelGone \/ PollClosed \/ TerminateMissed \/ Terminate
    BY <1>1, <1>3 DEF StartTemporal, CancelGone, PollClosed, TerminateMissed, Terminate
  <1>4. CASE MarkCancelled \/ Late
    BY <1>0, <1>1, <1>4, MarkFacts, LateFacts
  <1>5. CASE CancelRunning
    <2>1. cancelled' = TRUE /\ UNCHANGED <<batch, skipped>> /\ \A n \in batch : pc'[n] = Interrupted(n)
      BY <1>0, <1>5 DEF CancelRunning, Signal, TypeOK
    <2>2. \A n \in batch : pc[n] \in {"skipping", "passed", "raised"}
                             => Interrupted(n) \in {"skipping", "passed", "raised"}
      BY <1>0, InterruptedFacts DEF Writing, Ended, Interrupted
    <2> QED
      BY <1>0, <2>1, <2>2 DEF Skips
  <1>6. CASE Begin \/ Reject \/ Carried \/ Crash \/ EndLoop \/ Cleared \/ Finish \/ RunWriteFails
    BY <1>1, <1>6 DEF Begin, Reject, Carried, Crash, EndLoop, Cleared, Finish, RunWriteFails
  <1>7. CASE StartBatch
    BY <1>0, <1>7 DEF StartBatch, FirstStep, Frontier, TypeOK, Skips
  <1>8. CASE EndBatch
    BY <1>2, <1>8 DEF EndBatch
  <1>9. ASSUME NEW n \in Nodes, WriteNode(n) \/ WriteFails(n) PROVE Skips'
    <2>1. /\ UNCHANGED <<batch, skipped, cancelled>> /\ pc[n] \in Writing
          /\ \A m \in Nodes : m # n => pc'[m] = pc[m]
          /\ pc'[n] = "raised" \/ pc'[n] = AfterWrite(pc[n])
      BY <1>0, <1>9, WriteFacts
    <2>2. /\ pc'[n] # "skipping"
          /\ pc'[n] = "passed" => pc[n] = "skipping"
          /\ pc[n] = "skipping" => pc'[n] \in {"passed", "raised"}
      BY <2>1, RowFacts
    <2>3. pc[n] \in {"skipping", "passed", "raised"} => pc[n] = "skipping"
      BY <2>1 DEF Writing
    <2> QED
      BY <1>0, <2>1, <2>2, <2>3 DEF Skips
  <1>10. ASSUME NEW n \in Nodes, Dispatched(n) PROVE Skips'
    <2>1. /\ UNCHANGED <<batch, skipped, cancelled>> /\ pc[n] = "running" /\ pc'[n] \in {"storing", "failing"}
          /\ \A m \in Nodes : m # n => pc'[m] = pc[m]
      BY <1>0, <1>10 DEF Dispatched, Goto, TypeOK
    <2> QED
      BY <1>0, <2>1 DEF Skips
  <1>11. ASSUME NEW n \in Nodes, Carry(n) PROVE Skips'
    <2>1. batch' = {}
      BY <1>0, <1>11 DEF Carry, Shape
    <2> QED
      BY <1>2, <2>1
  <1>12. ASSUME NEW n \in Nodes, CarryFails(n) \/ SkipRest(n) PROVE Skips'
    BY <1>1, <1>12 DEF CarryFails, SkipRest
  <1> QED
    BY <1>3, <1>4, <1>5, <1>6, <1>7, <1>8, <1>9, <1>10, <1>11, <1>12
       DEF Next, Worker, Cancel, MainStep, NodeStep

LEMMA AccountedStep ==
  ASSUME Core, Next
  PROVE  Accounted'
  <1>0. TypeOK /\ Shape /\ Skips /\ Accounted /\ batch \subseteq Nodes
    BY DEF Core, TypeOK
  <1> USE DEF graph, sets, late, rows
  <1>1. CASE UNCHANGED <<remaining, completed, skipped>> /\ (cancelled => cancelled')
             /\ (main' \in {"starting", "carrying", "looping", "batch"}
                   => main \in {"starting", "carrying", "looping", "batch"})
    BY <1>0, <1>1 DEF Accounted
  <1>2. CASE StartTemporal \/ Cancel
    BY <1>1, <1>2 DEF StartTemporal, Cancel, CancelGone, CancelRunning, Signal, PollClosed, TerminateMissed,
                      Terminate, MarkCancelled
  <1>3. CASE Late
    BY <1>1, <1>3, LateFacts
  <1>4. CASE Begin \/ Reject \/ Carried \/ StartBatch \/ Crash \/ EndLoop \/ Cleared \/ Finish \/ RunWriteFails
    BY <1>1, <1>4 DEF Begin, Reject, Carried, StartBatch, Crash, EndLoop, Cleared, Finish, RunWriteFails
  <1>5. CASE EndBatch
    <2>1. /\ main = "batch"
          /\ \A n \in batch : pc[n] \in {"ok", "passed", "failed"}
      BY <1>5 DEF EndBatch, BatchDone, Ended
    <2>2. /\ remaining' = remaining \ batch /\ skipped \subseteq skipped' /\ cancelled' = cancelled
          /\ completed' = completed \cup {n \in batch : pc[n] = "ok"}
          /\ (\E n \in batch : pc[n] = "failed") => main' = "clearing"
      BY <1>5 DEF EndBatch, WithOutput, Discarded
    <2>3. \A n \in batch : pc[n] = "passed" => n \in skipped \/ cancelled
      BY <1>0 DEF Skips
    <2> QED
      BY <1>0, <2>1, <2>2, <2>3 DEF Accounted
  <1>6. ASSUME NEW n \in Nodes, Carry(n) PROVE Accounted'
    BY <1>0, <1>6 DEF Carry, Accounted
  <1>7. ASSUME NEW n \in Nodes, NodeStep(n), ~Carry(n) PROVE Accounted'
    <2>1. CASE SkipRest(n)
      BY <2>1 DEF SkipRest, Accounted
    <2>2. CASE ~SkipRest(n)
      BY <1>1, <1>7, <2>2 DEF NodeStep, CarryFails, WriteNode, WriteFails, Dispatched
    <2> QED
      BY <2>1, <2>2
  <1> QED
    BY <1>2, <1>3, <1>4, <1>5, <1>6, <1>7 DEF Next, Worker, MainStep

\* run() stops for an empty frontier only when nothing remains: of the nodes
\* that remain one has no upstream among them, and it is ready.
LEMMA EmptyFrontier ==
  ASSUME TypeOK, Acyclic, Nodes \ remaining \subseteq completed \cup skipped, Frontier = {}
  PROVE  remaining = {}
  <1> SUFFICES ASSUME remaining # {} PROVE FALSE
    OBVIOUS
  <1>1. PICK n \in remaining : Upstream(n) \cap remaining = {}
    BY DEF Acyclic, TypeOK
  <1>2. Upstream(n) \subseteq completed \cup skipped
    BY <1>1 DEF Upstream
  <1> QED
    BY <1>1, <1>2 DEF Frontier, Ready

LEMMA PlannedStep ==
  ASSUME Core, Next
  PROVE  Planned'
  <1>0. TypeOK /\ Shape /\ Planned /\ Accounted
    BY DEF Core
  <1> USE DEF graph, sets, late, rows
  <1>1. edges' = edges
    BY LateFacts DEF Next, Worker, StartTemporal, Cancel, CancelGone, CancelRunning,
             Signal, PollClosed, Terminate, TerminateMissed, MarkCancelled, MainStep, NodeStep,
             Begin, Reject, Carried, StartBatch, EndBatch, Crash, EndLoop, Cleared, Finish, RunWriteFails,
             Carry, CarryFails, WriteNode, WriteFails, Dispatched, SkipRest
  <1>2. Acyclic' = Acyclic
    BY <1>1 DEF Acyclic, Upstream
  <1>3. CASE main' = main /\ remaining' \subseteq remaining
    BY <1>0, <1>2, <1>3 DEF Planned
  <1>4. CASE main' = "closed"
    BY <1>4 DEF Planned
  <1>5. CASE StartTemporal \/ Cancel
    BY <1>3, <1>5 DEF StartTemporal, Cancel, CancelGone, CancelRunning, Signal, PollClosed, TerminateMissed,
                      Terminate, MarkCancelled
  <1>6. CASE Late
    BY <1>3, <1>6, LateFacts
  <1>7. CASE Reject \/ Crash \/ Finish \/ RunWriteFails
    BY <1>4, <1>7 DEF Reject, Crash, Finish, RunWriteFails
  <1>8. CASE Begin
    <2>1. main' = (IF Acyclic THEN "carrying" ELSE "rejecting")
      BY <1>8 DEF Begin
    <2> QED
      BY <1>2, <2>1 DEF Planned
  <1>9. CASE Carried \/ StartBatch \/ EndBatch \/ Cleared
    <2>1. main \in {"carrying", "looping", "batch", "clearing"}
          /\ main' \in {"looping", "batch", "clearing", "reporting"}
          /\ (main = "clearing" => main' = "reporting")
      BY <1>9 DEF Carried, StartBatch, EndBatch, Cleared
    <2> QED
      BY <1>0, <1>2, <2>1 DEF Planned
  <1>10. CASE EndLoop
    <2>1. main = "looping" /\ remaining' = remaining /\ main' = (IF cancelled THEN "clearing" ELSE "finishing")
          /\ (cancelled \/ Frontier = {})
      BY <1>10 DEF EndLoop
    <2>2. CASE cancelled
      BY <2>1, <2>2 DEF Planned
    <2>3. CASE ~cancelled
      <3>1. remaining = {}
        BY <1>0, <2>1, <2>3, EmptyFrontier DEF Planned, Accounted
      <3> QED
        BY <1>0, <1>2, <2>1, <3>1 DEF Planned
    <2> QED
      BY <2>2, <2>3
  <1>11. ASSUME NEW n \in Nodes, NodeStep(n) PROVE Planned'
    BY <1>3, <1>4, <1>11 DEF NodeStep, Carry, CarryFails, WriteNode, WriteFails, Dispatched, SkipRest
  <1> QED
    BY <1>5, <1>6, <1>7, <1>8, <1>9, <1>10, <1>11 DEF Next, Worker, MainStep

LEMMA ReportedStep ==
  ASSUME Core, Next
  PROVE  Reported'
  <1>0. TypeOK /\ Shape /\ Planned /\ Settled /\ LateInBatch /\ Reported
    BY DEF Core
  <1> USE DEF graph, sets, late, rows
  <1>1. CASE runRow = "completed" \/ "completed" \in lateRun
    <2>1. temporal \in {"closed", "terminated"} /\ lateNodes = {} /\ \A n \in Nodes : Over(n)
      BY <1>0, <1>1 DEF Reported
    <2>2. Halted
      BY <1>0, <1>1 DEF Reported, Halted
    <2>3. temporal' = temporal
      BY <1>0, <2>2, HaltedStays
    <2>4. lateNodes' = {} /\ \A n \in Nodes : nodeRow'[n] = nodeRow[n] \/ nodeRow[n] = "running"
      BY <1>0, <2>1, <2>2, HaltedStays, LateFacts, MarkFacts
    <2> QED
      BY <2>1, <2>3, <2>4 DEF Reported, Over
  <1>2. CASE runRow # "completed" /\ "completed" \notin lateRun
    <2>1. CASE runRow' # "completed" /\ "completed" \notin lateRun'
      BY <2>1 DEF Reported
    <2>2. CASE (Finish \/ RunWriteFails \/ Terminate) /\ main = "finishing"
      <3>1. lateNodes = {} /\ batch = {}
        BY <1>0, <2>2 DEF LateInBatch, Shape
      <3>2. \A n \in Nodes : Over(n)
        BY <1>0, <2>2 DEF Planned, Settled, Walking
      <3>3. lateNodes' = {} /\ nodeRow' = nodeRow /\ temporal' \in {"closed", "terminated"}
        BY <2>2, <3>1 DEF Finish, RunWriteFails, Terminate, InFlight
      <3> QED
        BY <3>2, <3>3 DEF Reported, Over
    <2>3. CASE (Finish \/ RunWriteFails \/ Terminate) /\ main # "finishing"
      BY <1>2, <2>1, <2>3, OutcomeFacts DEF Finish, RunWriteFails, Terminate
    <2>4. CASE StartTemporal \/ CancelGone \/ CancelRunning \/ PollClosed \/ TerminateMissed \/ MarkCancelled
      BY <1>2, <2>1, <2>4 DEF StartTemporal, CancelGone, CancelRunning, Signal, PollClosed, TerminateMissed,
                              MarkCancelled
    <2>5. CASE Late
      BY <1>2, <2>1, <2>5, LateFacts
    <2>6. CASE Begin \/ Reject \/ Carried \/ StartBatch \/ EndBatch \/ Crash \/ EndLoop \/ Cleared
      BY <1>2, <2>1, <2>6 DEF Begin, Reject, Carried, StartBatch, EndBatch, Crash, EndLoop, Cleared
    <2>7. ASSUME NEW n \in Nodes, NodeStep(n) PROVE Reported'
      BY <1>2, <2>1, <2>7 DEF NodeStep, Carry, CarryFails, WriteNode, WriteFails, Dispatched, SkipRest
    <2> QED
      BY <2>2, <2>3, <2>4, <2>5, <2>6, <2>7 DEF Next, Worker, Cancel, MainStep
  <1> QED
    BY <1>1, <1>2

LEMMA CoreStep == Core /\ [Next]_vars => Core'
  <1> SUFFICES ASSUME Core, [Next]_vars PROVE Core'
    OBVIOUS
  <1>1. CASE Next
    BY <1>1, TypeStep, ShapeStep, LateStep, SettledStep, EndedStep, SkipsStep, AccountedStep, PlannedStep,
       ReportedStep DEF Core
  <1>2. CASE UNCHANGED vars
    BY <1>2 DEF Core, vars, graph, sets, late, rows, TypeOK, Shape, LateInBatch, Stuck, Open, Settled, Walking,
                Over, EndedRows, Skips, Accounted, Planned, Acyclic, Upstream, Reported
  <1> QED
    BY <1>1, <1>2

LEMMA CoreInit == Init => Core
  <1> SUFFICES ASSUME Init PROVE Core
    OBVIOUS
  <1>1. TypeOK
    <2>1. signals \in 0 .. MaxSignals
      BY SignalsAssumption DEF Init
    <2> QED
      BY <2>1 DEF Init, TypeOK
  <1>2. Shape /\ LateInBatch /\ Settled /\ EndedRows /\ Skips /\ Accounted /\ Planned /\ Reported
    BY DEF Init, Shape, LateInBatch, Settled, EndedRows, Skips, Accounted, Planned, Reported
  <1> QED
    BY <1>1, <1>2 DEF Core

(* The rows hold the statuses the code knows, and run()'s sets are nodes.  *)
THEOREM TypeCorrect == Spec => []TypeOK
  <1>1. Core => TypeOK
    BY DEF Core
  <1> QED
    BY <1>1, CoreInit, CoreStep, PTL DEF Spec

(* The loop of run() settles every node before it reports "completed":     *)
(* for every graph an empty frontier is the end of the graph, and no       *)
(* cancel, late write or sweep undoes it.                                  *)
THEOREM CompletedSettles == Spec => []CompletedMeansSettled
  <1>1. Core => CompletedMeansSettled
    BY DEF Core, Reported, CompletedMeansSettled, Over
  <1> QED
    BY <1>1, CoreInit, CoreStep, PTL DEF Spec

LEMMA StartsStep ==
  ASSUME Core, Next, NEW n \in Nodes, pc[n] = "idle", pc'[n] = "preparing", NEW m \in Upstream(n)
  PROVE  nodeRow[m] = "completed" \/ m \in skipped
  <1>0. TypeOK /\ Settled
    BY DEF Core
  <1> USE DEF graph, sets, late, rows
  <1>1. StartBatch
    <2>1. CASE MarkCancelled \/ Late
      BY <1>0, <2>1, MarkFacts, LateFacts
    <2>2. CASE CancelRunning
      BY <1>0, <2>2, InterruptedFacts DEF CancelRunning, Signal, TypeOK, Ended
    <2>3. CASE StartTemporal \/ CancelGone \/ PollClosed \/ TerminateMissed \/ Terminate \/ (MainStep /\ ~StartBatch)
      BY <2>3 DEF StartTemporal, CancelGone, PollClosed, TerminateMissed, Terminate, MainStep,
                  Begin, Reject, Carried, EndBatch, Crash, EndLoop, Cleared, Finish, RunWriteFails
    <2>4. ASSUME NEW k \in Nodes, WriteNode(k) \/ WriteFails(k) PROVE FALSE
      BY <1>0, <2>4, WriteFacts, RowFacts DEF Writing
    <2>5. ASSUME NEW k \in Nodes, NodeStep(k), ~WriteNode(k), ~WriteFails(k) PROVE FALSE
      BY <1>0, <2>5 DEF NodeStep, Carry, CarryFails, Dispatched, SkipRest, Goto, TypeOK
    <2> QED
      BY <2>1, <2>2, <2>3, <2>4, <2>5 DEF Next, Worker, Cancel
  <1>2. Ready(n) /\ Walking
    BY <1>0, <1>1 DEF StartBatch, Frontier, Walking, TypeOK
  <1> QED
    BY <1>0, <1>2 DEF Ready, Settled

(* ready(): a node is started only when each node it depends on has its    *)
(* completed row committed or was left out, whatever failed, was carried   *)
(* or cancelled before.                                                    *)
THEOREM StartsInOrder == Spec => StartsAfterUpstream
  <1>1. Core /\ [Next]_vars => [\A n \in Nodes : pc[n] = "idle" /\ pc'[n] = "preparing" =>
                                  \A m \in Upstream(n) : nodeRow[m] = "completed" \/ m \in skipped]_vars
    BY StartsStep
  <1> QED
    BY <1>1, CoreInit, CoreStep, PTL DEF Spec, StartsAfterUpstream

---------------------------------------------------------------------------
(* The branch a condition does not take.                                   *)

LEMMA LeftOutStep ==
  ASSUME Core, LeftOut, Next
  PROVE  LeftOut' /\ edges' = edges /\ resume' = resume
  <1>0. TypeOK /\ Shape /\ batch \subseteq Nodes
    BY DEF Core, TypeOK
  <1> USE DEF graph, sets, late, rows
  <1>1. CASE UNCHANGED <<edges, resume, untaken, completed, skipped>>
    BY <1>1 DEF LeftOut, Downstream
  <1>2. CASE MarkCancelled \/ Late
    BY <1>0, <1>1, <1>2, MarkFacts, LateFacts
  <1>3. CASE StartTemporal \/ (Cancel /\ ~MarkCancelled) \/ (MainStep /\ ~EndBatch)
    BY <1>1, <1>3 DEF StartTemporal, Cancel, CancelGone, CancelRunning, Signal, PollClosed, TerminateMissed,
         Terminate, MainStep, Begin, Reject, Carried, StartBatch, Crash, EndLoop, Cleared, Finish, RunWriteFails
  <1>4. CASE EndBatch
    <2>1. /\ UNCHANGED <<edges, resume, untaken>>
          /\ completed' = completed \cup WithOutput
          /\ skipped' = skipped \cup UNION {LeftOutBy(n) : n \in WithOutput}
      BY <1>4 DEF EndBatch
    <2>2. \A c \in WithOutput \cap untaken : Downstream(c) \subseteq skipped'
      BY <2>1 DEF LeftOutBy
    <2> QED
      BY <2>1, <2>2 DEF LeftOut, Downstream
  <1>5. ASSUME NEW n \in Nodes, Carry(n) PROVE LeftOut' /\ edges' = edges /\ resume' = resume
    BY <1>5 DEF Carry, LeftOut, LeftOutBy, Downstream
  <1>6. ASSUME NEW n \in Nodes, Dispatched(n) PROVE LeftOut' /\ edges' = edges /\ resume' = resume
    <2>1. n \notin completed
      BY <1>0, <1>6 DEF Dispatched, Active, Shape
    <2>2. UNCHANGED <<edges, resume, completed, skipped>> /\ untaken' \subseteq untaken \cup {n}
      BY <1>6 DEF Dispatched
    <2> QED
      BY <2>1, <2>2 DEF LeftOut, Downstream
  <1>7. ASSUME NEW n \in Nodes, CarryFails(n) \/ WriteNode(n) \/ WriteFails(n) \/ SkipRest(n)
        PROVE  LeftOut' /\ edges' = edges /\ resume' = resume
    BY <1>1, <1>7 DEF CarryFails, WriteNode, WriteFails, SkipRest
  <1> QED
    BY <1>2, <1>3, <1>4, <1>5, <1>6, <1>7 DEF Next, Worker, NodeStep

LEMMA UnstartedStep ==
  ASSUME Core, Unstarted, Next
  PROVE  Unstarted'
  <1>0. TypeOK /\ Shape /\ LateInBatch /\ resume' = resume
    BY LateFacts DEF Core, graph, Next, Worker, StartTemporal, Cancel, CancelGone, CancelRunning,
             Signal, PollClosed, Terminate, TerminateMissed, MarkCancelled, MainStep, NodeStep,
             Begin, Reject, Carried, StartBatch, EndBatch, Crash, EndLoop, Cleared, Finish, RunWriteFails,
             Carry, CarryFails, WriteNode, WriteFails, Dispatched, SkipRest
  <1> USE DEF graph, sets, late, rows
  <1> SUFFICES ASSUME main' \in {"starting", "rejecting", "carrying"}, NEW n \in Nodes \ resume
               PROVE  nodeRow'[n] = "none"
    BY <1>0 DEF Unstarted
  <1>1. main \in {"starting", "rejecting", "carrying"}
    BY LateFacts DEF Next, Worker, StartTemporal, Cancel, CancelGone, CancelRunning,
             Signal, PollClosed, Terminate, TerminateMissed, MarkCancelled, MainStep, NodeStep,
             Begin, Reject, Carried, StartBatch, EndBatch, Crash, EndLoop, Cleared, Finish, RunWriteFails,
             Carry, CarryFails, WriteNode, Active, WriteFails, Dispatched, SkipRest
  <1>2. nodeRow[n] = "none"
    BY <1>0, <1>1 DEF Unstarted
  <1>3. lateNodes = {}
    BY <1>0, <1>1 DEF LateInBatch
  <1>4. CASE nodeRow' = nodeRow
    BY <1>2, <1>4
  <1>5. CASE MarkCancelled \/ Late
    BY <1>0, <1>2, <1>3, <1>4, <1>5, MarkFacts, LateFacts
  <1>6. CASE StartTemporal \/ (Cancel /\ ~MarkCancelled) \/ MainStep
    BY <1>4, <1>6 DEF StartTemporal, Cancel, CancelGone, CancelRunning, Signal, PollClosed, TerminateMissed,
         Terminate, MainStep, Begin, Reject, Carried, StartBatch, EndBatch, Crash, EndLoop, Cleared, Finish,
         RunWriteFails
  <1>7. ASSUME NEW k \in Nodes, NodeStep(k) PROVE nodeRow'[n] = "none"
    <2>1. Carry(k) \/ CarryFails(k)
      BY <1>1, <1>7 DEF NodeStep, WriteNode, WriteFails, Active, Dispatched, SkipRest
    <2>2. k # n
      BY <2>1 DEF Carry, CarryFails, NextCarried
    <2> QED
      BY <1>0, <1>2, <2>1, <2>2 DEF Carry, CarryFails, TypeOK
  <1> QED
    BY <1>5, <1>6, <1>7 DEF Next, Worker

\* Only StartBatch starts a node that was not carried.
LEMMA TouchedBefore ==
  ASSUME Core, Next, NEW n \in Nodes \ resume, Touched(n)', ~StartBatch
  PROVE  Touched(n)
  <1>0. TypeOK /\ Shape /\ batch \subseteq Nodes
    BY DEF Core, TypeOK
  <1> USE DEF graph, sets, late, rows
  <1>1. CASE UNCHANGED <<pc, nodeRow, lateNodes>> /\ batch' \subseteq batch
    BY <1>1 DEF Touched
  <1>2. CASE StartTemporal \/ CancelGone \/ PollClosed \/ TerminateMissed \/ (MainStep /\ ~Crash)
    BY <1>1, <1>2 DEF StartTemporal, CancelGone, PollClosed, TerminateMissed, MainStep,
                      Begin, Reject, Carried, EndBatch, EndLoop, Cleared, Finish, RunWriteFails
  <1>3. CASE MarkCancelled
    BY <1>0, <1>3, MarkFacts DEF Touched, Started
  <1>4. CASE Late
    <2>1. UNCHANGED <<pc, batch>> /\ lateNodes' \subseteq lateNodes
      BY <1>4, LateFacts
    <2>2. nodeRow'[n] = nodeRow[n] \/ <<n, nodeRow'[n]>> \in lateNodes
      BY <1>0, <1>4, LateFacts DEF TypeOK
    <2> QED
      BY <2>1, <2>2 DEF Touched
  <1>5. CASE Crash \/ Terminate \/ CancelRunning
    <2>1. /\ UNCHANGED <<batch, nodeRow>> /\ lateNodes' = lateNodes \cup InFlight
          /\ pc'[n] = pc[n] \/ (n \in batch /\ pc'[n] = Interrupted(n))
      BY <1>0, <1>5 DEF Crash, Terminate, CancelRunning, Signal, TypeOK
    <2>2. Interrupted(n) \notin {"preparing", "running", "storing", "failing"}
      BY <1>0, InterruptedFacts DEF Ended
    <2>3. \A s \in Started : <<n, s>> \in InFlight => Touched(n)
      BY <1>0, FlightFacts, RowFacts DEF Touched, Started, Writing
    <2> QED
      BY <2>1, <2>2, <2>3 DEF Touched
  <1>6. ASSUME NEW k \in Nodes, Carry(k) \/ CarryFails(k) PROVE Touched(n)
    <2>1. k # n /\ UNCHANGED <<pc, batch, lateNodes>> /\ nodeRow'[n] = nodeRow[n]
      BY <1>0, <1>6 DEF Carry, CarryFails, NextCarried, TypeOK
    <2> QED
      BY <2>1 DEF Touched
  <1>7. ASSUME NEW k \in Nodes, WriteNode(k) \/ WriteFails(k) PROVE Touched(n)
    <2>1. /\ UNCHANGED <<batch, lateNodes>> /\ k \in batch /\ pc[k] \in Writing
          /\ \A m \in Nodes : m # k => nodeRow'[m] = nodeRow[m] /\ pc'[m] = pc[m]
          /\ nodeRow'[k] = nodeRow[k] \/ nodeRow'[k] = RowOf(pc[k])
          /\ pc'[k] = "raised" \/ pc'[k] = AfterWrite(pc[k])
      BY <1>0, <1>7, WriteFacts
    <2>2. CASE k # n
      BY <2>1, <2>2 DEF Touched
    <2>3. CASE k = n
      <3>1. pc[n] \in {"preparing", "storing", "failing"} => Touched(n)
        BY <2>1, <2>3 DEF Touched
      <3>2. pc[n] = "skipping" => nodeRow'[n] \in {nodeRow[n], "skipped"} /\ pc'[n] \in {"raised", "passed"}
        BY <2>1, <2>3, RowFacts DEF Writing
      <3> QED
        BY <2>1, <2>3, <3>1, <3>2 DEF Touched, Writing, Started
    <2> QED
      BY <2>2, <2>3
  <1>8. ASSUME NEW k \in Nodes, Dispatched(k) \/ SkipRest(k) PROVE Touched(n)
    <2>1. CASE Dispatched(k)
      <3>1. UNCHANGED <<batch, nodeRow, lateNodes>> /\ k \in batch /\ pc[k] = "running" /\ (k # n => pc'[n] = pc[n])
        BY <1>0, <2>1 DEF Dispatched, Active, Goto, TypeOK
      <3> QED
        BY <3>1 DEF Touched
    <2>2. CASE SkipRest(k)
      <3>1. UNCHANGED <<pc, batch, lateNodes>> /\ nodeRow'[n] \in {nodeRow[n], "skipped"}
        BY <1>0, <2>2 DEF SkipRest, TypeOK
      <3> QED
        BY <3>1 DEF Touched, Started
    <2> QED
      BY <1>8, <2>1, <2>2
  <1> QED
    BY <1>2, <1>3, <1>4, <1>5, <1>6, <1>7, <1>8 DEF Next, Worker, Cancel, NodeStep

\* Of a node that was started, the upstreams.
Sound(c) == c \in (completed \ untaken) \cup (skipped \ completed)

LEMMA SoundStays ==
  ASSUME Core, Next, NEW c \in Nodes, Sound(c), ~\E n \in Nodes : Carry(n)
  PROVE  Sound(c)'
  <1>0. TypeOK /\ Shape /\ Skips /\ batch \subseteq Nodes
    BY DEF Core, TypeOK
  <1> USE DEF graph, sets, late, rows
  <1>1. CASE UNCHANGED <<untaken, completed, skipped>>
    BY <1>1 DEF Sound
  <1>2. CASE MarkCancelled \/ Late
    BY <1>0, <1>1, <1>2, MarkFacts, LateFacts
  <1>3. CASE StartTemporal \/ (Cancel /\ ~MarkCancelled) \/ (MainStep /\ ~EndBatch)
    BY <1>1, <1>3 DEF StartTemporal, Cancel, CancelGone, CancelRunning, Signal, PollClosed, TerminateMissed,
         Terminate, MainStep, Begin, Reject, Carried, StartBatch, Crash, EndLoop, Cleared, Finish, RunWriteFails
  <1>4. CASE EndBatch
    <2>1. /\ untaken' = untaken /\ completed' = completed \cup WithOutput /\ skipped \subseteq skipped'
      BY <1>4 DEF EndBatch
    <2>2. c \in skipped => c \notin WithOutput
      BY <1>0 DEF Skips, WithOutput
    <2> QED
      BY <2>1, <2>2 DEF Sound
  <1>5. ASSUME NEW n \in Nodes, Dispatched(n) PROVE Sound(c)'
    <2>1. n \notin completed
      BY <1>0, <1>5 DEF Dispatched, Active, Shape
    <2>2. UNCHANGED <<completed, skipped>> /\ untaken' \subseteq untaken \cup {n}
      BY <1>5 DEF Dispatched
    <2> QED
      BY <2>1, <2>2 DEF Sound
  <1>6. ASSUME NEW n \in Nodes, CarryFails(n) \/ WriteNode(n) \/ WriteFails(n) \/ SkipRest(n) PROVE Sound(c)'
    BY <1>1, <1>6 DEF CarryFails, WriteNode, WriteFails, SkipRest
  <1> QED
    BY <1>2, <1>3, <1>4, <1>5, <1>6 DEF Next, Worker, NodeStep

LEMMA JustifiedStep ==
  ASSUME Core, Branches, Next
  PROVE  Justified'
  <1>0. TypeOK /\ Shape /\ LateInBatch /\ Justified /\ LeftOut /\ Unstarted
    BY DEF Core, Branches
  <1>1. edges' = edges /\ resume' = resume
    BY <1>0, LeftOutStep
  <1>2. \A n \in Nodes : Upstream(n)' = Upstream(n) /\ Upstream(n) \subseteq Nodes
    BY <1>1 DEF Upstream
  <1> SUFFICES ASSUME NEW n \in Nodes \ resume, Touched(n)', NEW c \in Upstream(n) PROVE Sound(c)'
    BY <1>1, <1>2 DEF Justified, Sound
  <1>3. CASE Touched(n)
    <2>1. Sound(c)
      BY <1>0, <1>3 DEF Justified, Sound
    <2>2. ASSUME NEW k \in Nodes, Carry(k) PROVE FALSE
      <3>1. main = "carrying"
        BY <2>2 DEF Carry
      <3>2. batch = {} /\ lateNodes = {} /\ nodeRow[n] = "none"
        BY <1>0, <3>1 DEF Shape, LateInBatch, Unstarted
      <3> QED
        BY <1>3, <3>2 DEF Touched, Started
    <2> QED
      BY <1>2, <2>1, <2>2, SoundStays
  <1>4. CASE ~Touched(n)
    <2>1. StartBatch
      BY <1>4, TouchedBefore
    <2>2. /\ UNCHANGED <<untaken, completed, skipped, nodeRow, lateNodes>> /\ batch' = Frontier
          /\ n \in Frontier => pc'[n] = FirstStep(n)
      BY <1>0, <2>1 DEF StartBatch, sets, rows, late, TypeOK
    <2>3. n \in Frontier /\ n \notin skipped
      BY <1>4, <2>2 DEF Touched, FirstStep
    <2>4. c \in completed \cup skipped
      BY <2>3 DEF Frontier, Ready
    <2>5. ~(c \in completed /\ c \in untaken)
      BY <1>0, <2>3 DEF LeftOut, Upstream, Downstream
    <2> QED
      BY <2>2, <2>4, <2>5 DEF Sound
  <1> QED
    BY <1>3, <1>4

LEMMA BranchesStep == Core /\ Branches /\ [Next]_vars => Branches'
  <1> SUFFICES ASSUME Core, Branches, [Next]_vars PROVE Branches'
    OBVIOUS
  <1>1. CASE Next
    BY <1>1, LeftOutStep, UnstartedStep, JustifiedStep DEF Branches
  <1>2. CASE UNCHANGED vars
    BY <1>2 DEF vars, graph, sets, late, rows, Branches, LeftOut, Downstream, Unstarted, Justified, Touched, Upstream
  <1> QED
    BY <1>1, <1>2

LEMMA BranchesInit == Init => Branches
  BY DEF Init, Branches, LeftOut, Unstarted, Justified, Touched, Started

(* The branch a condition does not take is never executed: for any graph,  *)
(* with nodes that are reached from several sides, conditions that are     *)
(* themselves left out, carried nodes and late writes.                     *)
THEOREM BranchStaysOut == Spec => []BranchNotTaken
  <1>1. Core /\ Branches => BranchNotTaken
    <2> SUFFICES ASSUME Core, Branches, NEW c \in untaken \cap completed, NEW n \in Nodes,
                        n \in Downstream(c) \ resume
                 PROVE  nodeRow[n] \in {"none", "skipped"}
      BY DEF BranchNotTaken
    <2>1. c \in Upstream(n)
      BY DEF Core, TypeOK, Upstream, Downstream
    <2>2. ~Touched(n)
      BY <2>1 DEF Branches, Justified
    <2> QED
      BY <2>2 DEF Touched, Started, Core, TypeOK, NodeStatuses
  <1> QED
    BY <1>1, CoreInit, CoreStep, BranchesInit, BranchesStep, PTL DEF Spec

---------------------------------------------------------------------------
(* A run nobody cancels.                                                   *)

\* What can happen while no cancel was sent.
LEMMA Alone ==
  ASSUME TypeOK, Undisturbed, Next, signals' = 0
  PROVE  /\ signals = 0 /\ api' = "idle" /\ ~cancelled' /\ lateRun' = {} /\ temporal' # "terminated"
         /\ edges' = edges
         /\ StartTemporal \/ Worker \/ (Late /\ main = "closed")
  <1> USE DEF graph, sets, late, rows
  <1>1. signals = 0 /\ ~Cancel
    <2>1. ~CancelGone /\ ~CancelRunning
      BY DEF CancelGone, CancelRunning, Signal, TypeOK
    <2>2. signals' = signals
      BY <2>1, LateFacts DEF Next, Worker, StartTemporal, Cancel, PollClosed, Terminate, TerminateMissed, MarkCancelled,
             MainStep, NodeStep, Begin, Reject, Carried, StartBatch, EndBatch, Crash, EndLoop, Cleared, Finish,
             RunWriteFails, Carry, CarryFails, WriteNode, WriteFails, Dispatched, SkipRest
    <2> QED
      BY <2>1, <2>2 DEF Undisturbed, Cancel, PollClosed, Terminate, TerminateMissed, MarkCancelled
  <1>2. CASE StartTemporal \/ Worker
    <2>1. /\ UNCHANGED <<api, cancelled, lateRun, edges>>
          /\ temporal' \in {temporal, "open", "closed"}
      BY <1>2 DEF StartTemporal, Worker, MainStep, NodeStep, Begin, Reject, Carried, StartBatch,
          EndBatch, Crash, EndLoop, Cleared, Finish, RunWriteFails, Carry, CarryFails, WriteNode, WriteFails,
          Dispatched, SkipRest
    <2> QED
      BY <1>1, <1>2, <2>1 DEF Undisturbed
  <1>3. CASE Late
    <2>1. main = "closed"
      BY <1>1, <1>3 DEF Undisturbed, Late, LateNode, LateRun
    <2> QED
      BY <1>1, <1>3, <2>1, LateFacts DEF Undisturbed
  <1> QED
    BY <1>1, <1>2, <1>3 DEF Next

LEMMA UndisturbedStep ==
  ASSUME Core, Undisturbed, Next
  PROVE  Undisturbed'
  <1>0. TypeOK /\ Shape /\ Planned /\ Settled /\ Skips /\ LateInBatch /\ batch \subseteq Nodes
    BY DEF Core, TypeOK
  <1> USE DEF graph, sets, late, rows
  <1> SUFFICES ASSUME signals' = 0 PROVE Undisturbed'
    BY DEF Undisturbed
  <1>1. /\ signals = 0 /\ api' = "idle" /\ ~cancelled' /\ lateRun' = {} /\ temporal' # "terminated"
        /\ Acyclic' = Acyclic
    BY <1>0, Alone DEF Acyclic, Upstream
  <1>2. /\ ~cancelled /\ lateRun = {}
        /\ lateNodes # {} => main = "closed"
        /\ \A n \in Nodes : nodeRow[n] = "running" => n \in batch /\ (main = "batch" => pc[n] \notin Ended)
        /\ runRow \in RunTerminal => main = "closed" /\ batch = {}
        /\ runRow = "failed" /\ Acyclic => \E n \in Nodes : nodeRow[n] = "failed"
        /\ main \in {"clearing", "reporting"} => failure /\ \E n \in Nodes \ remaining : nodeRow[n] = "failed"
    BY <1>1 DEF Undisturbed
  <1>3. CASE StartTemporal
    BY <1>1, <1>2, <1>3 DEF StartTemporal, Undisturbed
  <1>4. CASE Late /\ main = "closed"
    <2>1. /\ UNCHANGED <<main, batch, pc, remaining>> /\ runRow' = runRow
          /\ \/ nodeRow' = nodeRow
             \/ \E n \in Nodes, s \in NodeStatuses : <<n, s>> \in lateNodes /\ nodeRow' = [nodeRow EXCEPT ![n] = s]
      BY <1>2, <1>4, LateFacts
    <2>2. \A n \in Nodes : nodeRow'[n] # nodeRow[n] => n \in batch
      BY <1>0, <2>1 DEF TypeOK, LateInBatch
    <2> QED
      BY <1>1, <1>2, <1>4, <2>1, <2>2 DEF Undisturbed, RunTerminal
  <1>5. CASE Carried \/ StartBatch \/ Begin
    <2>1. /\ UNCHANGED <<nodeRow, lateNodes>> /\ runRow' \notin RunTerminal /\ batch = {} /\ main # "closed"
          /\ main' \in {"looping", "batch", "carrying", "rejecting"}
      BY <1>0, <1>2, <1>5 DEF Carried, StartBatch, Begin, Shape, RunTerminal
    <2> QED
      BY <1>1, <1>2, <2>1 DEF Undisturbed, RunTerminal
  <1>6. CASE EndBatch
    <2>1. /\ main = "batch" /\ lateNodes = {}
          /\ \A n \in batch : \/ pc[n] = "ok" /\ nodeRow[n] = "completed"
                              \/ pc[n] = "passed" /\ nodeRow[n] = "skipped"
                              \/ pc[n] = "failed" /\ nodeRow[n] = "failed"
      BY <1>6, BatchDoneFacts
    <2>2. /\ UNCHANGED <<nodeRow, lateNodes, runRow>> /\ remaining' = remaining \ batch /\ batch' = {}
          /\ failure' = (\E n \in batch : pc[n] = "failed")
          /\ main' = IF failure' THEN "clearing" ELSE "looping"
      BY <1>6 DEF EndBatch, Discarded
    <2>3. failure' => \E n \in Nodes \ remaining' : nodeRow'[n] = "failed"
      BY <1>0, <2>1, <2>2
    <2>4. \A n \in Nodes : nodeRow[n] # "running"
      BY <1>2, <2>1
    <2> QED
      BY <1>1, <1>2, <2>1, <2>2, <2>3, <2>4 DEF Undisturbed, RunTerminal
  <1>7. CASE Crash
    <2>1. UNCHANGED <<nodeRow, runRow, batch>> /\ main' = "closed" /\ main = "batch"
      BY <1>7 DEF Crash
    <2> QED
      BY <1>1, <1>2, <2>1 DEF Undisturbed, RunTerminal
  <1>8. CASE EndLoop \/ Cleared
    <2>1. /\ UNCHANGED <<nodeRow, runRow, batch, lateNodes, failure, remaining>> /\ batch = {} /\ main # "closed"
          /\ main' \in {"finishing", "reporting"}
          /\ main' = "reporting" => main = "clearing"
      BY <1>0, <1>2, <1>8 DEF EndLoop, Cleared, Shape
    <2> QED
      BY <1>1, <1>2, <2>1 DEF Undisturbed, RunTerminal
  <1>9. CASE Reject \/ Finish \/ RunWriteFails
    <2>1. /\ UNCHANGED <<nodeRow, batch, lateNodes, remaining>> /\ batch = {} /\ main' = "closed"
          /\ main \in {"starting", "rejecting", "finishing", "reporting"}
          /\ runRow' \in {runRow, Outcome}
      BY <1>0, <1>9 DEF Reject, Finish, RunWriteFails, Shape, Outcome
    <2>2. runRow' = "failed" => runRow = "failed" \/ ~Acyclic \/ \E n \in Nodes : nodeRow[n] = "failed"
      BY <1>0, <1>2, <2>1, OutcomeFacts DEF Planned
    <2> QED
      BY <1>1, <1>2, <2>1, <2>2 DEF Undisturbed
  <1>10. ASSUME NEW n \in Nodes, Carry(n) \/ CarryFails(n) PROVE Undisturbed'
    <2>1. /\ UNCHANGED <<batch, lateNodes, runRow>> /\ batch = {} /\ main = "carrying"
          /\ main' \in {"carrying", "closed"}
          /\ nodeRow'[n] \in {nodeRow[n], "completed"} /\ \A m \in Nodes : m # n => nodeRow'[m] = nodeRow[m]
      BY <1>0, <1>10 DEF Carry, CarryFails, Shape, TypeOK
    <2> QED
      BY <1>1, <1>2, <2>1 DEF Undisturbed, RunTerminal
  <1>11. ASSUME NEW n \in Nodes, WriteNode(n) \/ WriteFails(n) PROVE Undisturbed'
    <2>1. /\ UNCHANGED <<main, batch, remaining, runRow, lateNodes>>
          /\ main = "batch" /\ n \in batch /\ pc[n] \in Writing
          /\ \A m \in Nodes : m # n => nodeRow'[m] = nodeRow[m] /\ pc'[m] = pc[m]
          /\ nodeRow'[n] = nodeRow[n] \/ nodeRow'[n] = RowOf(pc[n])
          /\ pc'[n] = "raised" \/ (pc'[n] = AfterWrite(pc[n]) /\ nodeRow'[n] = RowOf(pc[n]))
      BY <1>0, <1>11, WriteFacts
    <2>2. nodeRow'[n] = "running" => pc'[n] \notin Ended
      BY <2>1, RowFacts DEF Ended, Writing
    <2> QED
      BY <1>1, <1>2, <2>1, <2>2 DEF Undisturbed, RunTerminal
  <1>12. ASSUME NEW n \in Nodes, Dispatched(n) PROVE Undisturbed'
    <2>1. /\ UNCHANGED <<main, batch, remaining, runRow, lateNodes, nodeRow>> /\ main = "batch"
          /\ pc'[n] \notin Ended /\ \A m \in Nodes : m # n => pc'[m] = pc[m]
      BY <1>0, <1>12 DEF Dispatched, Active, Goto, TypeOK, Ended
    <2> QED
      BY <1>1, <1>2, <2>1 DEF Undisturbed, RunTerminal
  <1>13. ASSUME NEW n \in Nodes, SkipRest(n) PROVE Undisturbed'
    <2>1. /\ UNCHANGED <<main, batch, failure, runRow, lateNodes>> /\ main = "clearing" /\ batch = {}
          /\ n \in remaining /\ remaining' = remaining \ {n}
          /\ nodeRow'[n] \in {nodeRow[n], "skipped"} /\ \A m \in Nodes : m # n => nodeRow'[m] = nodeRow[m]
      BY <1>0, <1>13 DEF SkipRest, Shape, TypeOK
    <2> QED
      BY <1>1, <1>2, <2>1 DEF Undisturbed, RunTerminal
  <1> QED
    BY <1>0, <1>3, <1>4, <1>5, <1>6, <1>7, <1>8, <1>9, <1>10, <1>11, <1>12, <1>13, Alone
       DEF Worker, MainStep, NodeStep

LEMMA UndisturbedInit == Init => Undisturbed
  BY DEF Init, Undisturbed, RunTerminal

(* A run that ends by itself leaves no row "running", and a node's failure *)
(* stands behind every "failed", whichever writes of a status failed.      *)
THEOREM ClosedIsSettled == Spec => []ClosedLeavesNothingRunning
  <1>1. Undisturbed => ClosedLeavesNothingRunning
    BY DEF Undisturbed, ClosedLeavesNothingRunning
  <1>2. Core /\ Undisturbed /\ [Next]_vars => Undisturbed'
    <2> SUFFICES ASSUME Core, Undisturbed, [Next]_vars PROVE Undisturbed'
      OBVIOUS
    <2>1. CASE UNCHANGED vars
      BY <2>1 DEF vars, graph, sets, late, rows, Undisturbed, Acyclic, Upstream
    <2> QED
      BY <2>1, UndisturbedStep
  <1> QED
    BY <1>1, <1>2, CoreInit, CoreStep, UndisturbedInit, PTL DEF Spec

---------------------------------------------------------------------------
(* The viewers of runs. *)


Statuses == {"none"} \cup Live \cup Terminal
ServerSteps == {"off", "asked", "checked", "subscribed", "listening", "over"}
SocketType == [run : Runs \cup {Nothing}, server : ServerSteps,
               client : {"off", "open", "closing"}, wire : Seq(Nat), sent : SUBSET Nat]

Types ==
  /\ row \in [Runs -> Statuses]
  /\ told \in [Runs -> [rows : Nat, channel : Nat, list : Nat]]
  /\ expired \subseteq Runs
  /\ socket \in [Sockets -> SocketType]
  /\ error \in BOOLEAN
  /\ request \in [Requests -> Calls \cup {Nothing}]

\* A connection is for a run; a call that is about a run, or was answered, names it.
Named ==
  /\ \A s \in Sockets : socket[s].server # "off" => socket[s].run \in Runs
  /\ \A q \in Requests : request[q] # Nothing /\ (request[q].op = "view" \/ request[q].seen # Nothing)
                           => request[q].run \in Runs

\* The list holds what the channel carried.
Listed == \A r \in Runs : told[r].list = told[r].channel

\* A list expires after its run, when no connection needs it any more.
ExpiredLate ==
  \A r \in expired : /\ row[r] \in Terminal
                     /\ \A s \in Sockets : socket[s].run = r => socket[s].server \in {"off", "asked", "over"}

IInv == /\ Types
        /\ Named
        /\ Listed
        /\ ExpiredLate
        /\ NoEventSlips

LEMMA InitInv == ViewerInit => IInv
  <1> SUFFICES ASSUME ViewerInit PROVE IInv
    OBVIOUS
  <1>1. NoSocket \in SocketType
    BY DEF NoSocket, SocketType, ServerSteps
  <1>2. Types
    BY <1>1 DEF ViewerInit, Types, Statuses, Live, Terminal
  <1>3. Named /\ Listed /\ ExpiredLate /\ NoEventSlips
    BY DEF ViewerInit, Named, Listed, ExpiredLate, NoEventSlips, NoSocket
  <1> QED
    BY <1>2, <1>3 DEF IInv

---------------------------------------------------------------------------
LEMMA SentFacts ==
  ASSUME NEW e \in Nat, NEW k \in SocketType
  PROVE  /\ Sent(k, e) \in SocketType /\ Held(k, e) \in SocketType
         /\ Sent(k, e).run = k.run /\ Sent(k, e).client = k.client
  <1>1. Append(k.wire, e) \in Seq(Nat)
    BY DEF SocketType
  <1> QED
    BY <1>1 DEF Sent, Held, SocketType, ServerSteps

\* What is published changes no connection but those that hear its run.
LEMMA PublishedFacts ==
  ASSUME IInv, NEW r \in Runs, NEW e \in Nat, NEW s \in Sockets
  PROVE  LET t == Published(r, e)[s] IN
         /\ t \in SocketType
         /\ t.run = socket[s].run /\ t.client = socket[s].client
         /\ t.server = socket[s].server \/ (t.server = "over" /\ Hears(s))
         /\ socket[s].sent \subseteq t.sent
         /\ t.server = "listening" /\ t.run = r => e \in t.sent
  <1> USE DEF IInv, Types
  <1>1. socket[s] \in SocketType
    OBVIOUS
  <1>2. Sent(socket[s], e) \in SocketType /\ Held(socket[s], e) \in SocketType
    BY <1>1, SentFacts
  <1> QED
    BY <1>1, <1>2 DEF Published, Sent, Held, Hears, SocketType

LEMMA WorkerInv ==
  ASSUME IInv, NEW r \in Runs, WorkerStep(r) \/ CancelStep(r) \/ Expire(r)
  PROVE  IInv'
  <1> USE DEF IInv
  <1>1. CASE Commit(r)
    BY <1>1 DEF Commit, Types, Named, Listed, ExpiredLate, NoEventSlips, StatusAfter, Statuses,
                Live, Terminal, pageVars
  <1>2. CASE Publish(r)
    <2> DEFINE e == told[r].channel + 1
    <2>1. /\ e \in Nat
          /\ told' = [told EXCEPT ![r].channel = e, ![r].list = e]
          /\ socket' = Published(r, e)
          /\ UNCHANGED <<row, expired, error, request>>
      BY <1>2 DEF Publish, Types, pageVars
    <2>2. \A s \in Sockets : socket'[s] = Published(r, e)[s]
      BY <2>1
    <2>3. Types'
      <3>1. socket' \in [Sockets -> SocketType]
        BY <2>1, PublishedFacts DEF Published
      <3> QED
        BY <2>1, <3>1 DEF Types
    <2>4. Named' /\ Listed'
      BY <2>1, <2>2, PublishedFacts DEF Named, Listed, Types, Hears
    <2>5. ExpiredLate'
      BY <2>1, <2>2, PublishedFacts DEF ExpiredLate
    <2>6. NoEventSlips'
      <3> SUFFICES ASSUME NEW s \in Sockets, socket'[s].server = "listening"
                   PROVE  1 .. told'[socket'[s].run].channel \subseteq socket'[s].sent
        BY DEF NoEventSlips
      <3>1. socket[s].server = "listening" /\ socket'[s].run = socket[s].run
        BY <2>1, <2>2, PublishedFacts
      <3>2. socket[s].run \in Runs /\ 1 .. told[socket[s].run].channel \subseteq socket'[s].sent
        BY <2>1, <2>2, <3>1, PublishedFacts DEF NoEventSlips, Named
      <3>3. socket[s].run = r => e \in socket'[s].sent
        BY <2>1, <2>2, <3>1, PublishedFacts
      <3>4. told[r].channel \in Nat
        BY DEF Types
      <3>5. \A x \in Runs : told'[x].channel = IF x = r THEN e ELSE told[x].channel
        BY <2>1 DEF Types
      <3>6. 1 .. e = (1 .. told[r].channel) \cup {e}
        BY <3>4
      <3> HIDE DEF e
      <3> QED
        BY <3>1, <3>2, <3>3, <3>5, <3>6
    <2> QED
      BY <2>3, <2>4, <2>5, <2>6
  <1>3. CASE ForceCancel(r)
    <2>1. /\ socket' = Published(r, Swept)
          /\ UNCHANGED <<row, told, expired, error, request>>
      BY <1>3 DEF ForceCancel, pageVars
    <2>2. Swept \in Nat /\ \A s \in Sockets : socket'[s] = Published(r, Swept)[s]
      BY <2>1 DEF Swept
    <2>3. socket' \in [Sockets -> SocketType]
      BY <2>1, <2>2, PublishedFacts DEF Published
    <2>4. Types' /\ Listed'
      BY <2>1, <2>3 DEF Types, Listed
    <2>5. Named'
      BY <2>1, <2>2, PublishedFacts DEF Named, Hears
    <2>6. ExpiredLate'
      BY <2>1, <2>2, PublishedFacts DEF ExpiredLate
    <2>7. NoEventSlips'
      BY <2>1, <2>2, PublishedFacts DEF NoEventSlips
    <2> QED
      BY <2>4, <2>5, <2>6, <2>7
  <1>4. CASE CommitCancel(r)
    BY <1>4 DEF CommitCancel, Types, Named, Listed, ExpiredLate, NoEventSlips, Statuses, Terminal, pageVars
  <1>5. CASE Expire(r)
    BY <1>5 DEF Expire, Types, Named, Listed, ExpiredLate, NoEventSlips, pageVars
  <1> QED
    BY <1>1, <1>2, <1>3, <1>4, <1>5 DEF WorkerStep, CancelStep

---------------------------------------------------------------------------
\* The handler's steps: the socket that listens was sent the list, which is
\* all the channel carried, unless the list expired and its run is over.
LEMMA ServerInv ==
  ASSUME IInv, NEW s \in Sockets, ServerStep(s)
  PROVE  IInv'
  <1> DEFINE t == socket'[s]
  <1> USE DEF IInv
  <1>1. socket[s] \in SocketType /\ UNCHANGED <<row, told, expired, error, request>>
    BY DEF ServerStep, CheckRow, Subscribe, Replay, Types, runVars, pageVars
  <1>2. /\ socket' = [socket EXCEPT ![s] = t] /\ t \in SocketType
        /\ t.run = socket[s].run /\ t.client = socket[s].client /\ socket[s].server # "off"
    <2>1. CASE CheckRow(s)
      <3>1. 2 \in Nat
        OBVIOUS
      <3>2. Sent(socket[s], 2) \in SocketType /\ Sent(socket[s], 2).run = socket[s].run
            /\ Sent(socket[s], 2).client = socket[s].client
        BY <1>1, <3>1, SentFacts
      <3> QED
        BY <2>1, <1>1, <3>2 DEF CheckRow, Types, SocketType, ServerSteps
    <2>2. CASE Subscribe(s)
      BY <2>2, <1>1 DEF Subscribe, Types, SocketType, ServerSteps
    <2>3. CASE Replay(s)
      <3> DEFINE list == ReplayList(socket[s].run)
      <3>1. socket[s].run \in Runs
        BY <2>3 DEF Named, Replay
      <3>2. told[socket[s].run].list \in Nat
        BY <3>1 DEF Types
      <3>3. list \in Seq(Nat) /\ {list[i] : i \in DOMAIN list} \subseteq Nat
        BY <3>2 DEF ReplayList
      <3>4. list \o socket[s].wire \in Seq(Nat)
        BY <1>1, <3>3 DEF SocketType
      <3> HIDE DEF list
      <3>5. PICK at \in {"over", "listening"} : socket' = WithReplay(s, at)
        BY <2>3 DEF Replay
      <3>6. socket' = [socket EXCEPT ![s].wire = list \o @, ![s].server = at,
                                     ![s].sent = @ \cup {list[i] : i \in DOMAIN list}]
        BY <3>5 DEF WithReplay, list
      <3>7. socket[s].server = "subscribed"
        BY <2>3 DEF Replay
      <3> QED
        BY <1>1, <3>3, <3>4, <3>6, <3>7 DEF Types, SocketType, ServerSteps
    <2> QED
      BY <2>1, <2>2, <2>3 DEF ServerStep
  <1>3. Types' /\ Listed'
    BY <1>1, <1>2 DEF Types, Listed
  <1>4. Named'
    BY <1>1, <1>2 DEF Named, Types
  <1>5. ExpiredLate'
    <2>1. socket[s].run \in expired => t.server \in {"off", "asked", "over"}
      <3> HAVE socket[s].run \in expired
      <3>1. row[socket[s].run] \in Terminal /\ socket[s].server \in {"asked", "over"}
        BY <1>2 DEF ExpiredLate
      <3>2. CheckRow(s)
        BY <3>1 DEF ServerStep, Subscribe, Replay
      <3> QED
        BY <1>1, <3>1, <3>2 DEF CheckRow, AlreadyOver, Sent, Types, SocketType, ExpiredLate
    <2> QED
      BY <1>1, <1>2, <2>1 DEF ExpiredLate, Types
  <1>6. NoEventSlips'
    <2>1. t.server = "listening" => 1 .. told[t.run].channel \subseteq t.sent
      <3> HAVE t.server = "listening"
      <3>1. CASE CheckRow(s)
        BY <1>1, <3>1 DEF CheckRow, Sent, Types, SocketType
      <3>2. CASE Subscribe(s)
        BY <1>1, <3>2 DEF Subscribe, Types
      <3>3. CASE Replay(s)
        <4> DEFINE list == ReplayList(socket[s].run)
        <4>1. socket[s].run \in Runs /\ socket[s].run \notin expired
          BY <3>3 DEF Named, Replay, ExpiredLate
        <4>2. told[socket[s].run].channel \in Nat /\ list = [e \in 1 .. told[socket[s].run].channel |-> e]
          BY <4>1 DEF Types, Listed, ReplayList
        <4>3. {list[i] : i \in DOMAIN list} = 1 .. told[socket[s].run].channel
          BY <4>2
        <4> HIDE DEF list
        <4>4. {list[i] : i \in DOMAIN list} \subseteq t.sent
          BY <3>3, <1>1 DEF Replay, WithReplay, list, Types, SocketType
        <4> QED
          BY <1>2, <4>3, <4>4
      <3> QED
        BY <3>1, <3>2, <3>3 DEF ServerStep
    <2> QED
      BY <1>1, <1>2, <2>1 DEF NoEventSlips, Types
  <1> QED
    BY <1>3, <1>4, <1>5, <1>6

---------------------------------------------------------------------------
\* The page's steps open a connection only for a run, and leave what the
\* server sent alone.
LEMMA SocketInv ==
  ASSUME IInv, NEW s \in Sockets, Receive(s) \/ OnClose(s) \/ LoseSocket(s)
  PROVE  IInv'
  <1> USE DEF IInv
  <1>1. socket[s] \in SocketType /\ UNCHANGED <<row, told, expired, request>> /\ error' \in BOOLEAN
    BY DEF Receive, OnClose, LoseSocket, Types, runVars
  <1>2. CASE Receive(s)
    <2>1. Tail(socket[s].wire) \in Seq(Nat)
      BY <1>1, <1>2 DEF Receive, SocketType
    <2> QED
      BY <1>1, <1>2, <2>1 DEF Receive, Types, Named, Listed, ExpiredLate, NoEventSlips, SocketType
  <1>3. CASE OnClose(s) \/ LoseSocket(s)
    <2>1. socket' = [socket EXCEPT ![s] = NoSocket]
      BY <1>3 DEF OnClose, LoseSocket
    <2>2. NoSocket \in SocketType /\ NoSocket.server = "off"
      BY DEF NoSocket, SocketType, ServerSteps
    <2> QED
      BY <1>1, <2>1, <2>2 DEF Types, Named, Listed, ExpiredLate, NoEventSlips
  <1> QED
    BY <1>2, <1>3

LEMMA RequestInv ==
  ASSUME IInv, NEW q \in Requests, PageStep(q) \/ RequestStep(q)
  PROVE  IInv'
  <1> USE DEF IInv
  <1>1. CASE PageStep(q)
    <2>1. PICK op \in {"view", "start"}, r \in Runs \cup {Nothing} :
            /\ op = "view" => r \in Runs
            /\ request' = [request EXCEPT ![q] = [op |-> op, run |-> r, seen |-> Nothing]]
            /\ error' = FALSE /\ UNCHANGED <<row, told, expired>>
      BY <1>1 DEF PageStep, ViewRun, TriggerRun, ResumeRun, Ask, runVars
    <2>2. socket' = socket \/ socket' = [socket EXCEPT ![wsRef].client = "closing"]
      BY <1>1 DEF PageStep, ViewRun, TriggerRun, ResumeRun, CloseCurrent
    <2>3. [op |-> op, run |-> r, seen |-> Nothing] \in Calls
      BY DEF Calls
    <2>4. Types'
      BY <2>1, <2>2, <2>3 DEF Types, SocketType
    <2>5. \A s \in Sockets : /\ socket'[s].server = socket[s].server
                              /\ socket'[s].run = socket[s].run /\ socket'[s].sent = socket[s].sent
      <3> TAKE s \in Sockets
      <3>1. socket'[s] = socket[s] \/ socket'[s] = [socket[s] EXCEPT !.client = "closing"]
        BY <2>2 DEF Types
      <3>2. socket[s] \in SocketType
        BY DEF Types
      <3> QED
        BY <3>1, <3>2 DEF SocketType
    <2>6. Named' /\ Listed' /\ ExpiredLate' /\ NoEventSlips'
      BY <2>1, <2>5 DEF Types, Named, Listed, ExpiredLate, NoEventSlips
    <2> QED
      BY <2>4, <2>6
  <1>2. CASE Serve(q)
    <2>1. request[q] \in Calls /\ UNCHANGED <<told, expired, socket, error>>
      BY <1>2 DEF Serve, Types, pageVars
    <2>2. CASE ServeView(q)
      BY <1>2, <2>1, <2>2 DEF Serve, ServeView, Types, Named, Listed, ExpiredLate, NoEventSlips, Calls, Statuses
    <2>3. CASE ServeStart(q)
      <3>1. PICK r \in Runs : /\ row[r] = "none" /\ row' = [row EXCEPT ![r] = "pending"]
                              /\ request' = [request EXCEPT ![q].run = r, ![q].seen = "pending"]
        BY <2>3 DEF ServeStart
      <3> QED
        BY <2>1, <3>1 DEF Types, Named, Listed, ExpiredLate, NoEventSlips, Calls,
                          Statuses, Live, Terminal
    <2> QED
      BY <1>2, <2>2, <2>3 DEF Serve
  <1>3. CASE Answer(q)
    <2>1. /\ request[q] \in Calls /\ request[q].run \in Runs
          /\ request' = [request EXCEPT ![q] = Nothing]
          /\ UNCHANGED <<row, told, expired>> /\ error' \in BOOLEAN
      BY <1>3 DEF Answer, Types, Named, runVars
    <2>2. socket' = socket \/ \E s : socket' = [socket EXCEPT ![s] = Opened(request[q].run)]
      BY <1>3 DEF Answer, Connect
    <2>3. LET k == Opened(request[q].run) IN
            k \in SocketType /\ k.server = "asked" /\ k.run \in Runs
      <3>1. NoSocket \in SocketType
        BY DEF NoSocket, SocketType, ServerSteps
      <3> QED
        BY <2>1, <3>1 DEF Opened, SocketType, ServerSteps
    <2> QED
      BY <2>1, <2>2, <2>3 DEF Types, Named, Listed, ExpiredLate, NoEventSlips
  <1>4. CASE RequestFails(q)
    BY <1>4 DEF RequestFails, Types, Named, Listed, ExpiredLate, NoEventSlips, runVars
  <1> QED
    BY <1>1, <1>2, <1>3, <1>4 DEF RequestStep

LEMMA NextInv == IInv /\ [ViewerNext]_viewerVars => IInv'
  <1> SUFFICES ASSUME IInv, [ViewerNext]_viewerVars PROVE IInv'
    OBVIOUS
  <1>1. CASE UNCHANGED viewerVars
    BY <1>1 DEF IInv, Types, Named, Listed, ExpiredLate, NoEventSlips, viewerVars, runVars, pageVars
  <1>2. CASE ViewerNext
    BY <1>2, WorkerInv, ServerInv, SocketInv, RequestInv DEF ViewerNext
  <1> QED
    BY <1>1, <1>2

(* The facts about the connections and calls hold in every behaviour.      *)
THEOREM Invariance == ViewerSpec => []IInv
  BY InitInv, NextInv, PTL DEF ViewerSpec

(* workflow_run_ws subscribes before it replays: a connection that listens *)
(* has been sent all its run had published, the list's expiry included.    *)
THEOREM NothingSlips == ViewerSpec => []NoEventSlips
  <1>1. IInv => NoEventSlips
    BY DEF IInv
  <1> QED
    BY <1>1, Invariance, PTL

---------------------------------------------------------------------------
\* The steps of the worker, the API and the handler keep the page's connections.
LEMMA PublishedClients ==
  ASSUME Types, NEW r, NEW e, NEW u \in Sockets
  PROVE  /\ Sent(socket[u], e).client = socket[u].client
         /\ Published(r, e)[u].client = socket[u].client
  <1>1. socket[u] \in SocketType
    BY DEF Types
  <1>2. Sent(socket[u], e).client = socket[u].client /\ Held(socket[u], e).client = socket[u].client
    BY <1>1 DEF Sent, Held, SocketType
  <1> QED
    BY <1>1, <1>2 DEF Published

LEMMA WorkerWatch ==
  ASSUME Types, LiveIsWatched, NEW r \in Runs, WorkerStep(r) \/ CancelStep(r) \/ Expire(r)
  PROVE  LiveIsWatched'
  <1>1. UNCHANGED <<runStatus, error, request>>
    BY DEF WorkerStep, CancelStep, Commit, Publish, ForceCancel, CommitCancel, Expire, pageVars
  <1>2. socket' = socket \/ \E e : socket' = Published(r, e)
    BY DEF WorkerStep, CancelStep, Commit, Publish, ForceCancel, CommitCancel, Expire
  <1>3. \A u \in Sockets : socket'[u].client = socket[u].client
    BY <1>2, PublishedClients
  <1> QED
    BY <1>1, <1>3 DEF LiveIsWatched, Idle

LEMMA ServerWatch ==
  ASSUME Types, LiveIsWatched, NEW s \in Sockets, ServerStep(s)
  PROVE  LiveIsWatched'
  <1>1. UNCHANGED <<runStatus, error, request>>
    BY DEF ServerStep, CheckRow, Subscribe, Replay, pageVars
  <1>2. socket[s] \in SocketType /\ Sent(socket[s], 2).client = socket[s].client
    BY PublishedClients DEF Types
  <1>3. \A u \in Sockets : socket'[u].client = socket[u].client
    <2> SUFFICES ASSUME NEW u \in Sockets PROVE socket'[u].client = socket[u].client
      OBVIOUS
    <2>1. CASE CheckRow(s)
      BY <1>2, <2>1 DEF CheckRow, Types, SocketType
    <2>2. CASE Subscribe(s)
      BY <1>2, <2>2 DEF Subscribe, Types, SocketType
    <2>3. CASE Replay(s)
      BY <1>2, <2>3 DEF Replay, WithReplay, Types, SocketType
    <2> QED
      BY <2>1, <2>2, <2>3 DEF ServerStep
  <1> QED
    BY <1>1, <1>3 DEF LiveIsWatched, Idle

\* A socket is only given up by a step that ends the run on show, tells of an
\* error, or closes a connection that was already closing.
LEMMA SocketsWatch ==
  ASSUME Types, LiveIsWatched, NEW s \in Sockets, Receive(s) \/ OnClose(s) \/ LoseSocket(s)
  PROVE  LiveIsWatched'
  <1>1. socket[s] \in SocketType /\ Live \cap Terminal = {}
    BY DEF Types, Live, Terminal
  <1>2. CASE Receive(s)
    BY <1>1, <1>2 DEF Receive, LiveIsWatched, Idle, Types, SocketType
  <1>3. CASE OnClose(s)
    BY <1>1, <1>3 DEF OnClose, LiveIsWatched, Idle, Types
  <1>4. CASE LoseSocket(s)
    BY <1>4 DEF LoseSocket, LiveIsWatched
  <1> QED
    BY <1>2, <1>3, <1>4

\* A call that is made or under way is awaited; an answer with a live status
\* connects; a failure is shown, or leaves what was shown and connected.
LEMMA RequestsWatch ==
  ASSUME IInv, LiveIsWatched, NEW q \in Requests, PageStep(q) \/ RequestStep(q)
  PROVE  LiveIsWatched'
  <1> USE DEF IInv
  <1>1. CASE PageStep(q)
    <2>1. PICK op \in {"view", "start"}, r \in Runs \cup {Nothing} :
            request' = [request EXCEPT ![q] = [op |-> op, run |-> r, seen |-> Nothing]]
      BY <1>1 DEF PageStep, ViewRun, TriggerRun, ResumeRun, Ask
    <2>2. [op |-> op, run |-> r, seen |-> Nothing] \in Calls
      BY DEF Calls
    <2> QED
      BY <2>1, <2>2, NothingAssumption DEF LiveIsWatched, Idle, Types
  <1>2. CASE Serve(q)
    <2>1. request[q] \in Calls
      BY <1>2 DEF Serve, Types
    <2>2. request'[q] \in Calls
      <3>1. CASE ServeView(q)
        <4>1. request[q].run \in Runs /\ row[request[q].run] \in Statuses
          BY <1>2, <3>1 DEF Serve, ServeView, Named, Types
        <4>2. request'[q] = [request[q] EXCEPT !.seen = row[request[q].run]]
          BY <3>1 DEF ServeView, Types
        <4> QED
          BY <2>1, <4>1, <4>2 DEF Calls, Statuses
      <3>2. CASE ServeStart(q)
        <4>1. PICK r \in Runs : request'[q] = [request[q] EXCEPT !.run = r, !.seen = "pending"]
          BY <3>2 DEF ServeStart, Types
        <4> QED
          BY <2>1, <4>1 DEF Calls, Live
      <3> QED
        BY <1>2, <3>1, <3>2 DEF Serve
    <2> QED
      BY <1>2, <2>2, NothingAssumption DEF Serve, LiveIsWatched, Idle, Types
  <1>3. CASE Answer(q)
    <2> SUFFICES ASSUME runStatus' \in Live
                 PROVE  \E s \in Sockets : socket'[s].client = "open"
      BY DEF LiveIsWatched
    <2>1. Connect(request[q].run)
      BY <1>3 DEF Answer, Followed, Live, Terminal
    <2>2. PICK s \in Sockets : socket' = [socket EXCEPT ![s] = Opened(request[q].run)]
      BY <2>1 DEF Connect, Unused
    <2>3. Opened(request[q].run).client = "open"
      BY DEF Opened, NoSocket
    <2> QED
      BY <2>2, <2>3 DEF Types
  <1>4. CASE RequestFails(q)
    BY <1>4 DEF RequestFails, LiveIsWatched
  <1> QED
    BY <1>1, <1>2, <1>3, <1>4 DEF RequestStep

(* use-workflow-run: while the page shows a run as pending or running,     *)
(* awaits nothing and shows no error, one of its connections is open.      *)
THEOREM LiveWatched == ViewerSpec => []LiveIsWatched
  <1>1. ViewerInit => LiveIsWatched
    BY DEF ViewerInit, LiveIsWatched, Live
  <1>2. IInv /\ LiveIsWatched /\ [ViewerNext]_viewerVars => LiveIsWatched'
    <2> SUFFICES ASSUME IInv, LiveIsWatched, [ViewerNext]_viewerVars PROVE LiveIsWatched'
      OBVIOUS
    <2>1. Types
      BY DEF IInv
    <2>2. CASE UNCHANGED viewerVars
      BY <2>2 DEF LiveIsWatched, Idle, viewerVars, pageVars
    <2>3. CASE \E s \in Sockets : ServerStep(s) \/ Receive(s) \/ OnClose(s) \/ LoseSocket(s)
      BY <2>1, <2>3, ServerWatch, SocketsWatch
    <2>4. CASE \E q \in Requests : PageStep(q) \/ RequestStep(q)
      BY <2>4, RequestsWatch
    <2>5. CASE \E r \in Runs : WorkerStep(r) \/ CancelStep(r) \/ Expire(r)
      BY <2>1, <2>5, WorkerWatch
    <2> QED
      BY <2>2, <2>3, <2>4, <2>5 DEF ViewerNext
  <1> QED
    BY <1>1, <1>2, Invariance, PTL DEF ViewerSpec

=============================================================================
