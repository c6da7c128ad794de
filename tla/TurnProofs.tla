----------------------------- MODULE TurnProofs -----------------------------
(***************************************************************************)
(* Proofs about the two ends of a turn. ChatStream, for any set of tabs    *)
(* and of turns: an event a tab was sent is never counted unread, every    *)
(* terminal event is about the row the database holds, and a turn has one  *)
(* outcome. AgentTurn, for any set of tool calls and any bounds: two sub-  *)
(* agent calls never carry the same parent, the artifact that a save       *)
(* reported is the one the next step finds, and a turn's text is shown     *)
(* once, in order and whole.                                               *)
(***************************************************************************)
EXTENDS ChatStream, AgentTurn, SequenceTheorems, TLAPS

---------------------------------------------------------------------------
(* PART 1.  The API: ChatStream.                                           *)

---------------------------------------------------------------------------
(* The inductive invariant.                                                *)

Unanswered == {"new", "saved", "starting", "calling"}
Stored == {"counting", "publishing", "notifying"}
Untouched(t) == ~reached[t] /\ agentMsg[t] = "none"

\* Where a turn is tells what the database and the channel know of it.
Row(t) ==
  /\ t \in published => pc[t] \in {"notifying", "done", "unwinding", "stopped"}
  /\ exists =>
       /\ pc[t] \in Unanswered => Untouched(t)
       /\ pc[t] = "saving" => agentMsg[t] = "none"
       /\ pc[t] \in Stored => agentMsg[t] = terminal[t]
       /\ pc[t] \in {"rolling", "erring"} => terminal[t] = "error" /\ Untouched(t)
       /\ t \in published => agentMsg[t] = terminal[t] \/ (terminal[t] = "error" /\ Untouched(t))
       /\ pc[t] # "new" /\ t \notin userMsg =>
            pc[t] \in {"erring", "done", "unwinding", "stopped"} /\ Untouched(t)

\* What a tab has got was published, and what it was sent is not counted unread.
Channel == \A w \in Tabs : /\ relayed[w] \subseteq published
                           /\ \A i \in 1 .. Len(inbox[w]) : inbox[w][i] \in published
                           /\ relayed[w] \cap unread = {}

IInv == TypeOK /\ Channel /\ \A t \in Turns : Row(t)

\* What a step of one turn leaves alone of another.
LEMMA StopFacts ==
  ASSUME NEW ts, NEW u \in Turns
  PROVE  /\ Stopped(ts)[u] \in {pc[u], "unwinding"}
         /\ pc[u] \notin InTask => Stopped(ts)[u] = pc[u]
  BY DEF Stopped, InFlight

\* The answers that keep no message are errors of a turn that never reached the SDK.
LEMMA AnswerFacts ==
  ASSUME NEW a \in Answers
  PROVE  /\ TerminalOf(a[1]) \in Terminals /\ a[2] \in BOOLEAN
         /\ ~Kept(a[1], a[2]) => TerminalOf(a[1]) = "error" /\ ~a[2]
  <1>1. CASE a = <<"complete", TRUE>>
    <2>1. a[1] = "complete" /\ a[2] = TRUE
      BY <1>1
    <2> QED
      BY <2>1 DEF TerminalOf, Terminals, Kept
  <1>2. CASE a = <<"aborted", TRUE>>
    <2>1. a[1] = "aborted" /\ a[2] = TRUE
      BY <1>2
    <2> QED
      BY <2>1 DEF TerminalOf, Terminals, Kept
  <1>3. CASE a = <<"aborted", FALSE>>
    <2>1. a[1] = "aborted" /\ a[2] = FALSE
      BY <1>3
    <2> QED
      BY <2>1 DEF TerminalOf, Terminals, Kept
  <1>4. CASE a = <<"error", TRUE>>
    <2>1. a[1] = "error" /\ a[2] = TRUE
      BY <1>4
    <2> QED
      BY <2>1 DEF TerminalOf, Terminals, Kept
  <1>5. CASE a = <<"error", FALSE>>
    <2>1. a[1] = "error" /\ a[2] = FALSE
      BY <1>5
    <2> QED
      BY <2>1 DEF TerminalOf, Terminals, Kept
  <1>6. CASE a = <<"failed", FALSE>>
    <2>1. a[1] = "failed" /\ a[2] = FALSE
      BY <1>6
    <2> QED
      BY <2>1 DEF TerminalOf, Terminals, Kept
  <1> QED
    BY <1>1, <1>2, <1>3, <1>4, <1>5, <1>6 DEF Answers

---------------------------------------------------------------------------
LEMMA RowOfTurn ==
  ASSUME TypeOK, NEW u \in Turns, Row(u), NEW t \in Turns, TurnStep(t)
  PROVE  Row(u)'
  <1> USE DEF TypeOK, registry, database, tab, task, Goto, Row, Untouched, Unanswered, Stored
  <1>1. CASE \E w \in Tabs : Send(w, t)
    BY <1>1 DEF Send
  <1>2. CASE StartStream(t)
    <2>1. pc'[u] = IF u = t THEN "starting" ELSE Stopped({active})[u]
      BY <1>2 DEF StartStream, Stopped
    <2>2. UNCHANGED <<reached, terminal, published, exists, agentMsg, userMsg>> /\ pc[t] = "saved"
      BY <1>2 DEF StartStream
    <2>3. CASE u = t
      BY <2>1, <2>2, <2>3
    <2>4. CASE u # t
      BY <2>1, <2>2, <2>4, StopFacts
    <2> QED
      BY <2>3, <2>4
  <1>3. CASE Register(t)
    BY <1>3 DEF Register
  <1>4. ASSUME NEW a \in Answers, Answer(t, a[1], a[2]) PROVE Row(u)'
    <2>1. pc'[t] = (IF Kept(a[1], a[2]) THEN "saving" ELSE "rolling")
      BY <1>4 DEF Answer, After
    <2>2. /\ reached'[t] = a[2] /\ terminal'[t] = TerminalOf(a[1]) /\ pc[t] = "calling"
          /\ UNCHANGED <<published, exists, agentMsg, userMsg>>
      BY <1>4 DEF Answer
    <2>3. CASE u = t
      BY <2>1, <2>2, <2>3, AnswerFacts
    <2>4. CASE u # t
      BY <1>4, <2>4 DEF Answer
    <2> QED
      BY <2>3, <2>4
  <1>5. CASE PrepareFails(t)
    BY <1>5 DEF PrepareFails
  <1>6. CASE Save(t)
    BY <1>6 DEF Save, After
  <1>7. CASE SaveFails(t)
    BY <1>7 DEF SaveFails
  <1>8. CASE Count(t)
    BY <1>8 DEF Count, After
  <1>9. CASE PublishTerminal(t)
    BY <1>9 DEF PublishTerminal, After, Deliver
  <1>10. CASE Notify(t)
    BY <1>10 DEF Notify
  <1>11. CASE RollBack(t)
    BY <1>11 DEF RollBack
  <1>12. CASE PublishError(t)
    BY <1>12 DEF PublishError, Deliver
  <1>13. CASE Unwind(t)
    BY <1>13 DEF Unwind
  <1>14. CASE Cleanup(t)
    BY <1>14 DEF Cleanup
  <1> QED
    BY <1>1, <1>2, <1>3, <1>4, <1>5, <1>6, <1>7, <1>8, <1>9, <1>10, <1>11, <1>12, <1>13, <1>14
       DEF TurnStep, TaskStep

LEMMA RowElsewhere ==
  ASSUME TypeOK, NEW u \in Turns, Row(u), Delete \/ DropRow \/ \E w \in Tabs : TabStep(w)
  PROVE  Row(u)'
  <1> USE DEF TypeOK, registry, database, tab, task, Goto, Row, Untouched, Unanswered, Stored
  <1>1. CASE Delete
    <2>1. pc'[u] = Stopped({active})[u] /\ UNCHANGED <<reached, terminal, published, exists, agentMsg, userMsg>>
      BY <1>1 DEF Delete
    <2> QED
      BY <2>1, StopFacts
  <1>2. CASE DropRow
    BY <1>2 DEF DropRow
  <1>3. CASE \E w \in Tabs : TabStep(w)
    <2>1. UNCHANGED <<pc, reached, terminal, published, exists, agentMsg, userMsg>>
      BY <1>3 DEF TabStep, Connect, Replay, Subscribe, Relay, Disconnect
    <2> QED
      BY <2>1
  <1> QED
    BY <1>1, <1>2, <1>3

---------------------------------------------------------------------------
(* The channel.                                                            *)

\* A published event goes to the end of the inboxes of the subscribed tabs.
LEMMA Delivered ==
  ASSUME TypeOK, NEW t \in Turns, Deliver(t), NEW w \in Tabs
  PROVE  /\ inbox'[w] \in Seq(Turns) /\ published' = published \cup {t}
         /\ \/ inbox'[w] = inbox[w]
            \/ /\ Len(inbox'[w]) = Len(inbox[w]) + 1 /\ Len(inbox[w]) \in Nat
               /\ \A i \in 1 .. Len(inbox[w]) : inbox'[w][i] = inbox[w][i]
               /\ inbox'[w][Len(inbox[w]) + 1] = t
  <1>1. inbox[w] \in Seq(Turns)
    BY DEF TypeOK
  <1>2. inbox'[w] = inbox[w] \/ inbox'[w] = Append(inbox[w], t)
    BY DEF Deliver
  <1> QED
    BY <1>1, <1>2, AppendProperties DEF Deliver

LEMMA ChannelStep ==
  ASSUME TypeOK, Channel, \A t \in Turns : Row(t), Next
  PROVE  Channel'
  <1> USE DEF task, registry, database, tab
  <1>1. ASSUME UNCHANGED <<relayed, inbox, published, unread>> PROVE Channel'
    BY <1>1 DEF Channel
  <1>2. ASSUME UNCHANGED <<relayed, inbox, published>>, unread' = {} PROVE Channel'
    BY <1>2 DEF Channel
  <1>3. ASSUME NEW t \in Turns, Deliver(t), UNCHANGED <<relayed, unread>> PROVE Channel'
    <2>1. ASSUME NEW w \in Tabs
          PROVE  \A i \in 1 .. Len(inbox'[w]) : inbox'[w][i] \in published'
      <3>1. \A i \in 1 .. Len(inbox[w]) : inbox[w][i] \in published
        BY DEF Channel
      <3> QED
        BY <1>3, <3>1, Delivered
    <2>2. published \subseteq published'
      BY <1>3 DEF Deliver
    <2> QED
      BY <1>3, <2>1, <2>2 DEF Channel
  <1>4. ASSUME NEW t \in Turns, TurnStep(t) PROVE Channel'
    <2>1. CASE Count(t)
      <3>1. pc[t] = "counting" /\ unread' = unread \cup {t} /\ UNCHANGED <<relayed, inbox, published>>
        BY <2>1 DEF Count
      <3>2. t \notin published
        BY <3>1 DEF Row
      <3> QED
        BY <3>1, <3>2 DEF Channel
    <2>2. CASE PublishTerminal(t)
      BY <1>3, <2>2 DEF PublishTerminal
    <2>3. CASE PublishError(t)
      BY <1>3, <2>3 DEF PublishError
    <2>4. CASE (\E w \in Tabs : Send(w, t)) \/ StartStream(t) \/ Register(t) \/ PrepareFails(t)
      BY <1>1, <2>4 DEF Send, StartStream, Register, PrepareFails
    <2>5. CASE \E a \in Answers : Answer(t, a[1], a[2])
      BY <1>1, <2>5 DEF Answer
    <2>6. CASE Save(t) \/ SaveFails(t) \/ Notify(t) \/ RollBack(t) \/ Unwind(t) \/ Cleanup(t)
      BY <1>1, <2>6 DEF Save, SaveFails, Notify, RollBack, Unwind, Cleanup
    <2> QED
      BY <1>4, <2>1, <2>2, <2>3, <2>4, <2>5, <2>6 DEF TurnStep, TaskStep
  <1>5. ASSUME NEW w \in Tabs, TabStep(w) PROVE Channel'
    <2>1. CASE Connect(w)
      BY <1>2, <2>1 DEF Connect
    <2>2. CASE Replay(w) \/ Subscribe(w)
      BY <1>1, <2>2 DEF Replay, Subscribe
    <2>3. CASE Relay(w)
      <3>1. /\ inbox[w] \in Seq(Turns) /\ inbox[w] # <<>> /\ unread' = {} /\ published' = published
            /\ \A v \in Tabs : /\ inbox'[v] = IF v = w THEN Tail(inbox[w]) ELSE inbox[v]
                               /\ relayed'[v] = IF v = w THEN relayed[w] \cup {Head(inbox[w])}
                                                ELSE relayed[v]
        BY <2>3 DEF Relay, TypeOK
      <3>2. /\ Head(inbox[w]) = inbox[w][1] /\ 1 \in 1 .. Len(inbox[w])
            /\ \A i \in 1 .. Len(Tail(inbox[w])) : /\ Tail(inbox[w])[i] = inbox[w][i + 1]
                                                   /\ i + 1 \in 1 .. Len(inbox[w])
        BY <3>1, HeadTailProperties
      <3>3. inbox[w][1] \in published
        BY <3>2 DEF Channel
      <3>4. ASSUME NEW v \in Tabs
            PROVE  /\ relayed'[v] \subseteq published
                   /\ \A i \in 1 .. Len(inbox'[v]) : inbox'[v][i] \in published
        <4>1. CASE v = w
          <5>1. relayed'[v] \subseteq published
            BY <3>1, <3>2, <3>3, <4>1 DEF Channel
          <5>2. inbox'[v] = Tail(inbox[w]) /\ \A i \in 1 .. Len(inbox[w]) : inbox[w][i] \in published
            BY <3>1, <4>1 DEF Channel
          <5> QED
            BY <3>2, <5>1, <5>2
        <4>2. CASE v # w
          BY <3>1, <4>2 DEF Channel
        <4> QED
          BY <4>1, <4>2
      <3> QED
        BY <3>1, <3>4 DEF Channel
    <2>4. CASE Disconnect(w)
      <3>1. /\ UNCHANGED <<published, unread>>
            /\ \A v \in Tabs : /\ inbox'[v] = IF v = w THEN <<>> ELSE inbox[v]
                               /\ relayed'[v] = IF v = w THEN {} ELSE relayed[v]
        BY <2>4 DEF Disconnect, TypeOK
      <3> QED
        BY <3>1 DEF Channel
    <2> QED
      BY <1>5, <2>1, <2>2, <2>3, <2>4 DEF TabStep
  <1>6. CASE Delete
    BY <1>1, <1>6 DEF Delete
  <1>7. CASE DropRow
    BY <1>2, <1>7 DEF DropRow
  <1> QED
    BY <1>4, <1>5, <1>6, <1>7 DEF Next

---------------------------------------------------------------------------
LEMMA TypeStep ==
  ASSUME TypeOK, Next
  PROVE  TypeOK'
  <1> USE DEF TypeOK, task, registry, database, tab, Goto, InTask, Over
  <1>0. \A ts : Stopped(ts) \in [Turns -> {"new", "saved", "starting", "unwinding"} \cup InTask \cup Over]
    BY DEF Stopped
  <1>1. ASSUME NEW t \in Turns, TurnStep(t) PROVE TypeOK'
    <2>1. CASE \E w \in Tabs : Send(w, t)
      BY <2>1 DEF Send
    <2>2. CASE StartStream(t)
      BY <1>0, <2>2 DEF StartStream
    <2>3. CASE Register(t)
      BY <2>3 DEF Register
    <2>4. CASE \E a \in Answers : Answer(t, a[1], a[2])
      BY <2>4, AnswerFacts DEF Answer, After
    <2>5. CASE PrepareFails(t)
      BY <2>5 DEF PrepareFails
    <2>6. CASE Save(t)
      BY <2>6 DEF Save, After
    <2>7. CASE SaveFails(t)
      <3>1. CASE t \in handling
        BY <2>7, <3>1 DEF SaveFails
      <3>2. CASE t \notin handling
        <4>1. pc' = [pc EXCEPT ![t] = "saving"] \/ pc' = [pc EXCEPT ![t] = "rolling"]
          BY <2>7, <3>2 DEF SaveFails
        <4>2. "error" \in Terminals
          BY DEF Terminals
        <4> QED
          <5>1. terminal' = [terminal EXCEPT ![t] = "error"] /\ handling' = handling \cup {t}
            BY <2>7, <3>2 DEF SaveFails
          <5>2. /\ UNCHANGED <<reached, active, cleanup, userMsg, agentMsg, exists, deleting>>
                /\ UNCHANGED <<unread, published, ws, sending, inbox, relayed, replayed, latest>>
            BY <2>7, <3>2 DEF SaveFails
          <5>3. /\ terminal' \in [Turns -> Terminals \cup {"none"}] /\ handling' \in SUBSET Turns
                /\ pc' \in [Turns -> {"new", "saved", "starting", "unwinding"} \cup InTask \cup Over]
            <6>1. pc' \in [Turns -> {"new", "saved", "starting", "unwinding"} \cup InTask \cup Over]
              <7>1. pc \in [Turns -> {"new", "saved", "starting", "unwinding"} \cup InTask \cup Over]
                BY DEF TypeOK
              <7>2. {"saving", "rolling"} \subseteq InTask
                BY DEF InTask
              <7> QED
                BY <4>1, <7>1, <7>2
            <6>2. terminal' \in [Turns -> Terminals \cup {"none"}]
              <7>1. terminal \in [Turns -> Terminals \cup {"none"}]
                BY DEF TypeOK
              <7> QED
                BY <4>2, <5>1, <7>1
            <6>3. handling' \in SUBSET Turns
              BY <5>1
            <6> QED
              BY <6>1, <6>2, <6>3
          <5> QED
            BY <5>2, <5>3
      <3> QED
        BY <3>1, <3>2
    <2>8. CASE Count(t)
      BY <2>8 DEF Count, After
    <2>9. ASSUME Deliver(t)
          PROVE  inbox' \in [Tabs -> Seq(Turns)] /\ published' \in SUBSET Turns
      <3>1. \A w \in Tabs : inbox'[w] \in Seq(Turns)
        BY <2>9, Delivered
      <3>2. inbox' = [w \in Tabs |-> inbox'[w]]
        BY <2>9 DEF Deliver
      <3> QED
        BY <2>9, <3>1, <3>2 DEF Deliver
    <2>10. CASE PublishTerminal(t)
      BY <2>9, <2>10 DEF PublishTerminal, After
    <2>11. CASE Notify(t)
      BY <2>11 DEF Notify
    <2>12. CASE RollBack(t)
      BY <2>12 DEF RollBack
    <2>13. CASE PublishError(t)
      BY <2>9, <2>13 DEF PublishError
    <2>14. CASE Unwind(t)
      BY <2>14 DEF Unwind
    <2>15. CASE Cleanup(t)
      BY <2>15 DEF Cleanup
    <2> QED
      BY <1>1, <2>1, <2>2, <2>3, <2>4, <2>5, <2>6, <2>7, <2>8, <2>10, <2>11, <2>12, <2>13, <2>14,
         <2>15 DEF TurnStep, TaskStep
  <1>2. ASSUME NEW w \in Tabs, TabStep(w) PROVE TypeOK'
    <2>1. CASE Connect(w)
      BY <2>1 DEF Connect
    <2>2. CASE Replay(w)
      BY <2>2 DEF Replay
    <2>3. CASE Subscribe(w)
      BY <2>3 DEF Subscribe
    <2>4. CASE Relay(w)
      <3>1. Tail(inbox[w]) \in Seq(Turns) /\ Head(inbox[w]) \in Turns
        BY <2>4, HeadTailProperties DEF Relay
      <3> QED
        BY <2>4, <3>1 DEF Relay
    <2>5. CASE Disconnect(w)
      <3>1. <<>> \in Seq(Turns)
        OBVIOUS
      <3> QED
        BY <2>5, <3>1 DEF Disconnect
    <2> QED
      BY <1>2, <2>1, <2>2, <2>3, <2>4, <2>5 DEF TabStep
  <1>3. CASE Delete
    BY <1>0, <1>3 DEF Delete
  <1>4. CASE DropRow
    BY <1>4 DEF DropRow
  <1> QED
    BY <1>1, <1>2, <1>3, <1>4 DEF Next

---------------------------------------------------------------------------
(* The invariant holds, and with it the properties.                        *)

LEMMA InitInv == Init => IInv
  <1> SUFFICES ASSUME Init PROVE IInv
    OBVIOUS
  <1>1. TypeOK
    <2>1. /\ pc \in [Turns -> {"new"}] /\ inbox \in [Tabs -> {<<>>}] /\ relayed \in [Tabs -> {{}}]
          /\ <<>> \in Seq(Turns)
      BY DEF Init
    <2>2. inbox \in [Tabs -> Seq(Turns)] /\ relayed \in [Tabs -> SUBSET Turns]
      BY <2>1
    <2>3. /\ handling \in SUBSET Turns /\ cleanup \in SUBSET Turns /\ userMsg \in SUBSET Turns
          /\ unread \in SUBSET Turns /\ published \in SUBSET Turns
      BY DEF Init
    <2>4. exists \in BOOLEAN /\ deleting \in BOOLEAN /\ reached \in [Turns -> BOOLEAN]
      BY DEF Init
    <2> QED
      BY <2>1, <2>2, <2>3, <2>4 DEF Init, TypeOK
  <1>2. Channel
    BY DEF Init, Channel
  <1>3. ASSUME NEW t \in Turns PROVE Row(t)
    BY DEF Init, Row, Untouched, Unanswered, Stored
  <1> QED
    BY <1>1, <1>2, <1>3 DEF IInv

LEMMA NextInv == IInv /\ [Next]_vars => IInv'
  <1> SUFFICES ASSUME IInv, [Next]_vars PROVE IInv'
    OBVIOUS
  <1>1. CASE UNCHANGED vars
    BY <1>1 DEF IInv, vars, task, registry, database, tab, TypeOK, Channel, Row, Untouched
  <1>2. CASE Next
    <2>1. TypeOK' /\ Channel'
      BY <1>2, TypeStep, ChannelStep DEF IInv
    <2>2. ASSUME NEW u \in Turns PROVE Row(u)'
      BY <1>2, RowOfTurn, RowElsewhere DEF IInv, Next
    <2> QED
      BY <2>1, <2>2 DEF IInv
  <1> QED
    BY <1>1, <1>2

\* Where a turn is decides what the database, the channel and the counter hold.
THEOREM StagesAgree == Spec => []IInv
  BY InitInv, NextInv, PTL DEF Spec

\* Every variable keeps its type, with no bound on the counters.
THEOREM TypeCorrect == Spec => []TypeOK
  <1>1. IInv => TypeOK
    BY DEF IInv
  <1> QED
    BY <1>1, StagesAgree, PTL

\* No tab is sent an event that is counted unread: INCR comes before PUBLISH.
THEOREM NoStaleUnread == Spec => []WatchedIsRead
  <1>1. IInv => WatchedIsRead
    BY DEF IInv, Channel, WatchedIsRead
  <1> QED
    BY <1>1, StagesAgree, PTL

\* A terminal event is about the message stored, and only a turn that never
\* reached the SDK loses its user message.
THEOREM EventsAreStored == Spec => []EventHasRow
  <1>1. IInv => EventHasRow
    <2> SUFFICES ASSUME IInv, exists
                 PROVE  /\ \A t \in published : \/ agentMsg[t] = terminal[t]
                                                \/ terminal[t] = "error" /\ ~reached[t] /\ agentMsg[t] = "none"
                        /\ \A t \in Turns : pc[t] # "new" /\ t \notin userMsg =>
                                             ~reached[t] /\ agentMsg[t] = "none"
      BY DEF EventHasRow
    <2>1. published \subseteq Turns
      BY DEF IInv, TypeOK
    <2> QED
      BY <2>1 DEF IInv, Row, Untouched
  <1> QED
    BY <1>1, StagesAgree, PTL

\* A turn is concluded once, on the channel and in the database.
THEOREM OneOutcome == Spec => OutcomeOnce
  <1> DEFINE Once(t) ==
        /\ t \in published =>
             \A w \in Tabs : Len(inbox'[w]) > Len(inbox[w]) => inbox'[w][Len(inbox'[w])] # t
        /\ exists' /\ agentMsg[t] # "none" => agentMsg'[t] = agentMsg[t]
  <1>1. ASSUME IInv, [Next]_vars, NEW t \in Turns PROVE Once(t)
    <2> USE DEF task, registry, database, tab
    <2>1. ASSUME NEW w \in Tabs, t \in published, Len(inbox'[w]) > Len(inbox[w])
          PROVE  inbox'[w][Len(inbox'[w])] # t
      <3>1. inbox[w] \in Seq(Turns) /\ Len(inbox[w]) \in Nat
        BY <1>1 DEF IInv, TypeOK
      <3>2. ASSUME NEW u \in Turns, Deliver(u), pc[u] \in {"publishing", "erring"}
            PROVE  inbox'[w][Len(inbox'[w])] # t
        <4>1. u # t
          BY <1>1, <2>1, <3>2 DEF IInv, Row
        <4>2. Len(inbox'[w]) = Len(inbox[w]) + 1 /\ inbox'[w][Len(inbox[w]) + 1] = u
          BY <1>1, <2>1, <3>1, <3>2, Delivered DEF IInv
        <4> QED
          BY <4>1, <4>2
      <3>3. inbox' # inbox
        BY <2>1, <3>1
      <3>4. ASSUME NEW u \in Turns, TurnStep(u) PROVE PublishTerminal(u) \/ PublishError(u)
        BY <3>3, <3>4 DEF TurnStep, TaskStep, Send, StartStream, Register, Answer, PrepareFails, Save,
           SaveFails, Count, Notify, RollBack, Unwind, Cleanup
      <3>5. ASSUME NEW v \in Tabs, TabStep(v) PROVE FALSE
        <4>1. CASE Connect(v) \/ Replay(v) \/ Subscribe(v)
          BY <3>3, <4>1 DEF Connect, Replay, Subscribe
        <4>2. CASE Relay(v)
          <5>1. inbox'[w] = inbox[w] \/ (inbox[w] # <<>> /\ inbox'[w] = Tail(inbox[w]))
            BY <1>1, <4>2 DEF Relay, IInv, TypeOK
          <5>2. inbox[w] # <<>> => Len(Tail(inbox[w])) = Len(inbox[w]) - 1
            BY <3>1, HeadTailProperties
          <5>3. ~(Len(inbox'[w]) > Len(inbox[w]))
            <6>1. CASE inbox'[w] = inbox[w]
              BY <3>1, <6>1
            <6>2. CASE inbox[w] # <<>> /\ inbox'[w] = Tail(inbox[w])
              BY <3>1, <5>2, <6>2
            <6> QED
              BY <5>1, <6>1, <6>2
          <5> QED
            BY <2>1, <5>3
        <4>3. CASE Disconnect(v)
          <5>1. inbox'[w] = inbox[w] \/ inbox'[w] = <<>>
            BY <1>1, <4>3 DEF Disconnect, IInv, TypeOK
          <5> QED
            BY <2>1, <3>1, <5>1
        <4> QED
          BY <3>5, <4>1, <4>2, <4>3 DEF TabStep
      <3>6. ~Delete /\ ~DropRow /\ ~UNCHANGED vars
        BY <3>3 DEF Delete, DropRow, vars
      <3> QED
        BY <1>1, <3>2, <3>4, <3>5, <3>6 DEF Next, PublishTerminal, PublishError
    <2>2. ASSUME exists', agentMsg[t] # "none" PROVE agentMsg'[t] = agentMsg[t]
      <3>1. ASSUME NEW u \in Turns, TurnStep(u) PROVE agentMsg'[t] = agentMsg[t]
        <4>1. CASE Save(u)
          <5>1. exists /\ pc[u] = "saving" /\ agentMsg' = [agentMsg EXCEPT ![u] = terminal[u]]
            BY <4>1 DEF Save
          <5>2. u # t
            BY <1>1, <2>2, <5>1 DEF IInv, Row
          <5> QED
            BY <1>1, <5>1, <5>2 DEF IInv, TypeOK
        <4>2. CASE ~Save(u)
          BY <3>1, <4>2 DEF TurnStep, TaskStep, Send, StartStream, Register, Answer, PrepareFails,
             SaveFails, Count, PublishTerminal, Notify, RollBack, PublishError, Unwind, Cleanup
        <4> QED
          BY <4>1, <4>2
      <3>2. ASSUME NEW v \in Tabs, TabStep(v) PROVE agentMsg' = agentMsg
        BY <3>2 DEF TabStep, Connect, Replay, Subscribe, Relay, Disconnect
      <3>3. (Delete \/ UNCHANGED vars) => agentMsg' = agentMsg
        BY DEF Delete, vars
      <3>4. ~DropRow
        BY <2>2 DEF DropRow
      <3> QED
        BY <1>1, <3>1, <3>2, <3>3, <3>4 DEF Next
    <2> QED
      BY <2>1, <2>2
  <1>2. IInv /\ [Next]_vars => [\A t \in Turns : Once(t)]_vars
    BY <1>1
  <1> QED
    BY <1>2, StagesAgree, PTL DEF OutcomeOnce, Spec

---------------------------------------------------------------------------
(* PART 2.  The runtime and its SDK: AgentTurn.                            *)

---------------------------------------------------------------------------
(* The tool calls and the queue of the a2a tool.                           *)

Steps == {"none", "used", "hooked", "calling", "returned", "shown", "removed", "copying"}
Parents == Calls \cup {Nothing, "a2a_uuid"}
CallRecords == [at : Steps, tool : {"a2a", "save", Nothing}, parent : Parents, got : Nat,
                result : {"error", "answer", "no response", "saved", Nothing}]

Typed == call \in [Calls -> CallRecords] /\ queue \in Seq(Calls) /\ edits \in Nat

Hooked(c) == ~At(c, "none") /\ ~At(c, "used")

\* An identifier is queued once, when its hook runs, and is then one call's parent.
Queued == /\ \A i \in 1 .. Len(queue) : Hooked(queue[i])
          /\ \A i, j \in 1 .. Len(queue) : i # j => queue[i] # queue[j]
Taken(c) == call[c].parent \in Calls =>
              /\ Hooked(call[c].parent)
              /\ \A i \in 1 .. Len(queue) : queue[i] # call[c].parent
Apart(c, d) == c # d /\ call[c].parent \in Calls => call[c].parent # call[d].parent

AgentInv == /\ Typed /\ Queued
            /\ \A c \in Calls : Taken(c)
            /\ \A c, d \in Calls : Apart(c, d)

\* A step leaves the queue and the parents as they are, and unhooks no call.
Settles == /\ Typed' /\ queue' = queue
           /\ \A c \in Calls : call'[c].parent = call[c].parent /\ (Hooked(c) => Hooked(c)')

LEMMA SettledStays ==
  ASSUME AgentInv, Settles
  PROVE  AgentInv'
  <1>1. \A c \in Calls : Hooked(c) => Hooked(c)'
    BY DEF Settles
  <1>2. \A i \in 1 .. Len(queue) : queue[i] \in Calls
    BY DEF AgentInv, Typed
  <1>3. Queued'
    BY <1>1, <1>2 DEF AgentInv, Queued, Settles
  <1>4. ASSUME NEW c \in Calls PROVE Taken(c)'
    BY <1>1 DEF AgentInv, Taken, Settles
  <1>5. ASSUME NEW c \in Calls, NEW d \in Calls PROVE Apart(c, d)'
    BY DEF AgentInv, Apart, Settles
  <1> QED
    BY <1>3, <1>4, <1>5 DEF AgentInv, Settles

\* A record of a call, with what a step changes of it.
LEMMA CallWritten ==
  ASSUME Typed, NEW c \in Calls, NEW r \in CallRecords, call' = [call EXCEPT ![c] = r]
  PROVE  /\ call' \in [Calls -> CallRecords]
         /\ \A d \in Calls : call'[d] = IF d = c THEN r ELSE call[d]
  BY DEF Typed

\* What the handlers of the tools write of a call that has been hooked or begun.
LEMMA CallMoves ==
  ASSUME Typed, UNCHANGED <<queue, edits>>, NEW c \in Calls, NEW r \in CallRecords,
         call' = [call EXCEPT ![c] = r], r.parent = call[c].parent,
         r.at \in {"none", "used"} => call[c].at \in {"none", "used"}
  PROVE  Settles
  <1>1. /\ call' \in [Calls -> CallRecords]
        /\ \A d \in Calls : call'[d] = IF d = c THEN r ELSE call[d]
    BY CallWritten
  <1> QED
    BY <1>1 DEF Settles, Typed, Hooked, At

LEMMA QuietStep ==
  ASSUME Typed, UNCHANGED <<call, queue>>, edits' \in Nat
  PROVE  Settles
  BY DEF Settles, Typed, Hooked, At

LEMMA ToolStep ==
  ASSUME Typed, NEW c \in Calls,
         ToolUse(c) \/ Chunk(c) \/ AnswerEnds(c, TRUE) \/ AnswerEnds(c, FALSE)
           \/ SaveArtifact(c) \/ Copy(c) \/ Copied(c) \/ CopyFails(c)
  PROVE  Settles
  <1> USE DEF turnVars, textVars, fileVars, At
  <1>0. call[c] \in CallRecords /\ edits \in Nat
    BY DEF Typed
  <1>1. CASE ToolUse(c)
    <2>1. UNCHANGED <<queue, edits>> /\ call[c].at \in {"none", "used"}
      BY <1>1 DEF ToolUse
    <2>2. CASE UNCHANGED call
      BY <1>0, <2>1, <2>2, QuietStep
    <2>3. ASSUME NEW t \in {"a2a", "save"}, call' = [call EXCEPT ![c].at = "used", ![c].tool = t]
          PROVE  Settles
      <3> DEFINE r == [call[c] EXCEPT !.at = "used", !.tool = t]
      <3>1. r \in CallRecords /\ r.parent = call[c].parent
        BY <1>0 DEF CallRecords, Steps
      <3>2. call' = [call EXCEPT ![c] = r]
        BY <2>3 DEF Typed
      <3> QED
        BY <2>1, <3>1, <3>2, CallMoves
    <2> QED
      BY <1>1, <2>2, <2>3 DEF ToolUse
  <1>2. CASE Chunk(c)
    <2> DEFINE r == [call[c] EXCEPT !.got = 1]
    <2>1. r \in CallRecords /\ r.parent = call[c].parent /\ r.at = call[c].at
      BY <1>0 DEF CallRecords
    <2>2. call' = [call EXCEPT ![c] = r] /\ UNCHANGED <<queue, edits>>
      BY <1>2 DEF Chunk, Typed
    <2> QED
      BY <2>1, <2>2, CallMoves
  <1>3. ASSUME NEW res \in {"error", "answer", "no response", "saved"}, UNCHANGED <<queue, edits>>,
               call' = [call EXCEPT ![c].at = "returned", ![c].result = res]
        PROVE  Settles
    <2> DEFINE r == [call[c] EXCEPT !.at = "returned", !.result = res]
    <2>1. r \in CallRecords /\ r.parent = call[c].parent /\ r.at = "returned"
      BY <1>0 DEF CallRecords, Steps
    <2>2. call' = [call EXCEPT ![c] = r]
      BY <1>3 DEF Typed
    <2> QED
      BY <1>3, <2>1, <2>2, CallMoves
  <1>4. CASE AnswerEnds(c, TRUE) \/ AnswerEnds(c, FALSE)
    BY <1>3, <1>4 DEF AnswerEnds
  <1>5. CASE SaveArtifact(c)
    <2>1. CASE Refused(c)
      BY <1>3, <1>5, <2>1 DEF SaveArtifact, Refused
    <2>2. CASE call' = [call EXCEPT ![c].at = "removed"]
      <3> DEFINE r == [call[c] EXCEPT !.at = "removed"]
      <3>1. r \in CallRecords /\ r.parent = call[c].parent /\ r.at = "removed"
        BY <1>0 DEF CallRecords, Steps
      <3>2. call' = [call EXCEPT ![c] = r] /\ UNCHANGED <<queue, edits>>
        BY <1>5, <2>2 DEF SaveArtifact, Typed
      <3> QED
        BY <3>1, <3>2, CallMoves
    <2> QED
      BY <1>5, <2>1, <2>2 DEF SaveArtifact
  <1>6. CASE Copy(c)
    <2> DEFINE r == [call[c] EXCEPT !.at = "copying", !.got = edits]
    <2>1. r \in CallRecords /\ r.parent = call[c].parent /\ r.at = "copying"
      BY <1>0 DEF CallRecords, Steps
    <2>2. call' = [call EXCEPT ![c] = r] /\ UNCHANGED <<queue, edits>>
      BY <1>6 DEF Copy, Typed
    <2> QED
      BY <2>1, <2>2, CallMoves
  <1>7. CASE Copied(c) \/ CopyFails(c)
    BY <1>3, <1>7 DEF Copied, CopyFails
  <1> QED
    BY <1>1, <1>2, <1>4, <1>5, <1>6, <1>7

\* The user message that brings results marks the calls it answers.
LEMMA ResultsStep ==
  ASSUME Typed, ToolResults
  PROVE  Settles
  <1> USE DEF turnVars, textVars, fileVars
  <1>1. PICK S \in SUBSET {c \in Calls : At(c, "returned") /\ c \in acc.toolIds} :
          call' = [c \in Calls |-> IF c \in S THEN [call[c] EXCEPT !.at = "shown"] ELSE call[c]]
    BY DEF ToolResults
  <1>2. UNCHANGED <<queue, edits>>
    BY DEF ToolResults
  <1>3. ASSUME NEW c \in Calls
        PROVE  /\ [call[c] EXCEPT !.at = "shown"] \in CallRecords
               /\ [call[c] EXCEPT !.at = "shown"].parent = call[c].parent
               /\ [call[c] EXCEPT !.at = "shown"].at = "shown"
    <2>1. call[c] \in CallRecords
      BY DEF Typed
    <2> QED
      BY <2>1 DEF CallRecords, Steps
  <1>4. call' \in [Calls -> CallRecords]
    BY <1>1, <1>3 DEF Typed
  <1> QED
    BY <1>1, <1>2, <1>3, <1>4 DEF Settles, Typed, Hooked, At

\* The hook queues the identifier of a call that was not hooked before.
LEMMA HookStep ==
  ASSUME AgentInv, NEW c \in Calls, PreToolUse(c)
  PROVE  AgentInv'
  <1> USE DEF turnVars, textVars, fileVars, At
  <1> DEFINE r == [call[c] EXCEPT !.at = "hooked"]
  <1>1. call[c] \in CallRecords /\ queue \in Seq(Calls) /\ call[c].at = "used" /\ edits' = edits
    BY DEF AgentInv, Typed, PreToolUse
  <1>2. r \in CallRecords /\ r.parent = call[c].parent /\ r.at = "hooked"
    BY <1>1 DEF CallRecords, Steps
  <1>3. call' = [call EXCEPT ![c] = r]
    BY DEF PreToolUse, AgentInv, Typed
  <1>4. /\ call' \in [Calls -> CallRecords]
        /\ \A d \in Calls : call'[d] = IF d = c THEN r ELSE call[d]
    BY <1>2, <1>3, CallWritten DEF AgentInv
  <1> DEFINE HookedAfter(d) == call'[d].at # "none" /\ call'[d].at # "used"
  <1> HIDE DEF r
  <1>5. \A d \in Calls : /\ call'[d].parent = call[d].parent
                         /\ Hooked(d) => HookedAfter(d)
    BY <1>2, <1>4 DEF Hooked
  <1>6. ~Hooked(c) /\ HookedAfter(c)
    BY <1>1, <1>2, <1>4 DEF Hooked
  <1>7. CASE queue' = queue
    <2>1. Settles
      BY <1>1, <1>4, <1>5, <1>7 DEF Settles, AgentInv, Typed, Hooked
    <2> QED
      BY <2>1, SettledStays
  <1>8. CASE queue' = Append(queue, c)
    <2>1. /\ queue' \in Seq(Calls) /\ Len(queue') = Len(queue) + 1 /\ Len(queue) \in Nat
          /\ \A i \in 1 .. Len(queue) : queue'[i] = queue[i] /\ queue[i] \in Calls
          /\ queue'[Len(queue) + 1] = c
      BY <1>1, <1>8, AppendProperties
    <2>2. \A i \in 1 .. Len(queue) : Hooked(queue[i]) /\ queue[i] # c
      BY <1>6 DEF AgentInv, Queued
    <2>3. \A i \in 1 .. Len(queue') : HookedAfter(queue'[i])
      <3> SUFFICES ASSUME NEW i \in 1 .. Len(queue') PROVE HookedAfter(queue'[i])
        OBVIOUS
      <3>1. CASE i = Len(queue) + 1
        BY <1>6, <2>1, <3>1
      <3>2. CASE i \in 1 .. Len(queue)
        BY <1>5, <2>1, <2>2, <3>2
      <3> QED
        BY <2>1, <3>1, <3>2
    <2>4. \A i, j \in 1 .. Len(queue') : i # j => queue'[i] # queue'[j]
      <3> SUFFICES ASSUME NEW i \in 1 .. Len(queue'), NEW j \in 1 .. Len(queue'), i # j
                   PROVE  queue'[i] # queue'[j]
        OBVIOUS
      <3>1. i \in 1 .. Len(queue) \/ i = Len(queue) + 1
        BY <2>1
      <3>2. j \in 1 .. Len(queue) \/ j = Len(queue) + 1
        BY <2>1
      <3>3. \A k, l \in 1 .. Len(queue) : k # l => queue[k] # queue[l]
        BY DEF AgentInv, Queued
      <3> QED
        BY <2>1, <2>2, <3>1, <3>2, <3>3
    <2>5. Queued'
      BY <2>3, <2>4 DEF Queued, Hooked
    <2>6. ASSUME NEW d \in Calls PROVE Taken(d)'
      <3> SUFFICES ASSUME call[d].parent \in Calls
                   PROVE  /\ HookedAfter(call[d].parent)
                          /\ \A i \in 1 .. Len(queue') : queue'[i] # call[d].parent
        BY <1>5 DEF Taken, Hooked
      <3>1. Hooked(call[d].parent) /\ \A i \in 1 .. Len(queue) : queue[i] # call[d].parent
        BY DEF AgentInv, Taken
      <3>2. call[d].parent # c
        BY <1>6, <3>1
      <3>3. \A i \in 1 .. Len(queue') : i \in 1 .. Len(queue) \/ i = Len(queue) + 1
        BY <2>1
      <3> QED
        BY <1>5, <2>1, <3>1, <3>2, <3>3
    <2>7. ASSUME NEW d \in Calls, NEW e \in Calls PROVE Apart(d, e)'
      BY <1>5 DEF AgentInv, Apart
    <2>8. Typed'
      BY <1>1, <1>4, <2>1 DEF AgentInv, Typed
    <2> QED
      BY <2>5, <2>6, <2>7, <2>8 DEF AgentInv
  <1> QED
    BY <1>7, <1>8 DEF PreToolUse

\* The handler takes the oldest identifier, which no other call has taken.
LEMMA TakeStep ==
  ASSUME AgentInv, NEW c \in Calls, CallSubAgent(c)
  PROVE  AgentInv'
  <1> USE DEF turnVars, textVars, fileVars, At
  <1> DEFINE r == [call[c] EXCEPT !.at = "calling", !.parent = ParentToolUseId]
  <1>1. call[c] \in CallRecords /\ queue \in Seq(Calls) /\ call[c].at = "hooked" /\ edits' = edits
    BY DEF AgentInv, Typed, CallSubAgent
  <1>2. /\ queue = <<>> => ParentToolUseId = "a2a_uuid" /\ Remaining = <<>>
        /\ queue # <<>> => /\ ParentToolUseId = queue[1] /\ queue[1] \in Calls
                           /\ Remaining \in Seq(Calls) /\ Len(Remaining) = Len(queue) - 1
                           /\ Len(queue) \in Nat \ {0}
                           /\ \A i \in 1 .. Len(Remaining) : /\ Remaining[i] = queue[i + 1]
                                                             /\ i + 1 \in 1 .. Len(queue)
    BY <1>1, HeadTailProperties DEF ParentToolUseId, Remaining
  <1>3. ParentToolUseId \in Parents /\ Remaining \in Seq(Calls)
    BY <1>1, <1>2 DEF Parents
  <1>4. r \in CallRecords /\ r.parent = ParentToolUseId /\ r.at = "calling"
    BY <1>1, <1>3 DEF CallRecords, Steps
  <1>5. call' = [call EXCEPT ![c] = r] /\ queue' = Remaining
    BY DEF CallSubAgent, AgentInv, Typed
  <1>6. /\ call' \in [Calls -> CallRecords]
        /\ \A d \in Calls : call'[d] = IF d = c THEN r ELSE call[d]
    BY <1>4, <1>5, CallWritten DEF AgentInv
  <1> DEFINE HookedAfter(d) == call'[d].at # "none" /\ call'[d].at # "used"
  <1> HIDE DEF r
  <1>7. \A d \in Calls : /\ call'[d].parent = IF d = c THEN ParentToolUseId ELSE call[d].parent
                         /\ Hooked(d) => HookedAfter(d)
    BY <1>4, <1>6 DEF Hooked
  \* The identifier taken is nobody's parent, and does not stay in the queue.
  <1>8. ParentToolUseId \in Calls =>
          /\ queue # <<>> /\ Hooked(ParentToolUseId)
          /\ \A d \in Calls : call[d].parent # ParentToolUseId
          /\ \A i \in 1 .. Len(Remaining) : Remaining[i] # ParentToolUseId
    <2> SUFFICES ASSUME ParentToolUseId \in Calls
                 PROVE  /\ queue # <<>> /\ Hooked(ParentToolUseId)
                        /\ \A d \in Calls : call[d].parent # ParentToolUseId
                        /\ \A i \in 1 .. Len(Remaining) : Remaining[i] # ParentToolUseId
      OBVIOUS
    <2>1. queue # <<>> /\ 1 \in 1 .. Len(queue) /\ ParentToolUseId = queue[1]
      BY <1>2, CallsAssumption
    <2>2. Hooked(queue[1]) /\ \A i \in 1 .. Len(queue) : i # 1 => queue[i] # queue[1]
      BY <2>1 DEF AgentInv, Queued
    <2>3. \A d \in Calls : call[d].parent # queue[1]
      BY <1>2, <2>1 DEF AgentInv, Taken
    <2>4. \A i \in 1 .. Len(Remaining) : i + 1 # 1 /\ i + 1 \in 1 .. Len(queue) /\ Remaining[i] = queue[i + 1]
      BY <1>2, <2>1
    <2> QED
      BY <2>1, <2>2, <2>3, <2>4
  <1>9. \A i \in 1 .. Len(Remaining) : \E k \in 1 .. Len(queue) : k = i + 1 /\ Remaining[i] = queue[k]
    BY <1>2
  <1>10. Queued'
    <2>1. \A i \in 1 .. Len(queue) : queue[i] \in Calls /\ Hooked(queue[i])
      BY <1>1 DEF AgentInv, Queued
    <2>2. \A i \in 1 .. Len(Remaining) : HookedAfter(Remaining[i])
      BY <1>7, <1>9, <2>1
    <2>3. \A i, j \in 1 .. Len(Remaining) : i # j => Remaining[i] # Remaining[j]
      <3> SUFFICES ASSUME NEW i \in 1 .. Len(Remaining), NEW j \in 1 .. Len(Remaining), i # j
                   PROVE  Remaining[i] # Remaining[j]
        OBVIOUS
      <3>1. i + 1 # j + 1 /\ i + 1 \in 1 .. Len(queue) /\ j + 1 \in 1 .. Len(queue)
        BY <1>9
      <3> QED
        BY <1>9, <3>1 DEF AgentInv, Queued
    <2> QED
      BY <1>5, <2>2, <2>3 DEF Queued, Hooked
  <1>11. ASSUME NEW d \in Calls PROVE Taken(d)'
    <2>1. CASE d = c
      BY <1>5, <1>7, <1>8, <2>1 DEF Taken, Hooked
    <2>2. CASE d # c
      BY <1>5, <1>7, <1>9, <2>2 DEF Taken, AgentInv, Hooked
    <2> QED
      BY <2>1, <2>2
  <1>12. ASSUME NEW d \in Calls, NEW e \in Calls PROVE Apart(d, e)'
    BY <1>7, <1>8 DEF Apart, AgentInv
  <1>13. Typed'
    BY <1>1, <1>3, <1>5, <1>6 DEF AgentInv, Typed
  <1> QED
    BY <1>10, <1>11, <1>12, <1>13 DEF AgentInv

---------------------------------------------------------------------------
LEMMA AgentInitInv == AgentInit => AgentInv
  <1> SUFFICES ASSUME AgentInit PROVE AgentInv
    OBVIOUS
  <1>1. NoCall \in CallRecords /\ NoCall.parent = Nothing
    BY DEF NoCall, CallRecords, Steps, Parents
  <1>2. Typed
    BY <1>1 DEF AgentInit, Typed
  <1>3. \A c \in Calls : call[c].parent = Nothing
    BY <1>1 DEF AgentInit
  <1> QED
    BY <1>2, <1>3, CallsAssumption DEF AgentInv, Queued, Taken, Apart, AgentInit

LEMMA AgentNextInv == AgentInv /\ [AgentNext]_agentVars => AgentInv'
  <1> SUFFICES ASSUME AgentInv, [AgentNext]_agentVars PROVE AgentInv'
    OBVIOUS
  <1> USE DEF turnVars, textVars, fileVars
  <1>0. Typed /\ edits \in Nat /\ edits + 1 \in Nat
    BY DEF AgentInv, Typed
  <1>1. CASE Begin
    <2>1. CASE queue' = queue
      <3>1. Settles
        BY <1>0, <1>1, <2>1, QuietStep DEF Begin
      <3> QED
        BY <3>1, SettledStays
    <2>2. CASE queue' = <<>>
      <3>1. UNCHANGED <<call, edits>>
        BY <1>1 DEF Begin
      <3>2. Typed' /\ Queued'
        BY <1>0, <2>2, <3>1 DEF Typed, Queued
      <3> QED
        BY <2>2, <3>1, <3>2 DEF AgentInv, Taken, Apart, Hooked, At
    <2> QED
      BY <1>1, <2>1, <2>2 DEF Begin
  <1>2. CASE UNCHANGED agentVars \/ Abort \/ StreamEvent \/ Snapshot \/ AssistantAgain \/ Result \/ Fail \/ Edit
    <2>1. UNCHANGED <<call, queue>> /\ edits' \in {edits, edits + 1}
      BY <1>2 DEF agentVars, Abort, StreamEvent, Snapshot, AssistantAgain, Result, Fail, Edit
    <2>2. Settles
      BY <1>0, <2>1, QuietStep
    <2> QED
      BY <2>2, SettledStays
  <1>3. CASE ToolResults
    BY <1>0, <1>3, ResultsStep, SettledStays
  <1>4. ASSUME NEW c \in Calls, PreToolUse(c) PROVE AgentInv'
    BY <1>4, HookStep
  <1>5. ASSUME NEW c \in Calls, CallSubAgent(c) PROVE AgentInv'
    BY <1>5, TakeStep
  <1>6. ASSUME NEW c \in Calls,
               ToolUse(c) \/ Chunk(c) \/ AnswerEnds(c, TRUE) \/ AnswerEnds(c, FALSE)
                 \/ SaveArtifact(c) \/ Copy(c) \/ Copied(c) \/ CopyFails(c)
        PROVE  AgentInv'
    BY <1>0, <1>6, ToolStep, SettledStays
  <1> QED
    BY <1>1, <1>2, <1>3, <1>4, <1>5, <1>6 DEF AgentNext

\* An identifier is queued once and taken once.
THEOREM QueueIsSound == AgentSpec => []AgentInv
  BY AgentInitInv, AgentNextInv, PTL DEF AgentSpec

\* Two sub-agent calls never carry the same parent (the a2a tool's queue).
THEOREM ParentsApart == AgentSpec => []ParentsDiffer
  <1>1. AgentInv => ParentsDiffer
    BY DEF AgentInv, ParentsDiffer, Apart, Taken, Hooked
  <1> QED
    BY <1>1, QueueIsSound, PTL

---------------------------------------------------------------------------
(* The artifact: the save that is under way is the only one.               *)

LEMMA ArtifactStep ==
  ASSUME Typed, ReportedIsStored, [AgentNext]_agentVars
  PROVE  ReportedIsStored'
  <1> USE DEF turnVars, textVars, fileVars, At
  <1>1. ASSUME UNCHANGED <<call, artifact, reported>> PROVE ReportedIsStored'
    BY <1>1 DEF ReportedIsStored, Saving
  \* A step of a call that is not saving leaves the calls that are.
  <1>2. ASSUME NEW c \in Calls, c \notin Saving, UNCHANGED <<artifact, reported>>,
               \A d \in Calls : d # c => call'[d] = call[d]
        PROVE  ReportedIsStored'
    BY <1>2 DEF ReportedIsStored, Saving
  <1>3. ASSUME NEW c \in Calls
        PROVE  /\ SaveArtifact(c) => ReportedIsStored'
               /\ Copy(c) => ReportedIsStored'
               /\ Copied(c) => ReportedIsStored'
               /\ CopyFails(c) => ReportedIsStored'
    <2>1. CASE SaveArtifact(c)
      <3>1. CASE Refused(c)
        <4>1. c \notin Saving /\ \A d \in Calls : d # c => call'[d] = call[d]
          BY <2>1, <3>1 DEF SaveArtifact, Refused, Typed
        <4>2. CASE UNCHANGED artifact
          BY <1>2, <2>1, <4>1, <4>2 DEF SaveArtifact
        <4>3. CASE call' = [call EXCEPT ![c].at = "removed"]
          <5>1. c \in Saving'
            BY <4>3 DEF Saving, Typed, CallRecords
          <5> QED
            BY <5>1 DEF ReportedIsStored
        <4> QED
          BY <2>1, <4>2, <4>3 DEF SaveArtifact
      <3>2. CASE call' = [call EXCEPT ![c].at = "removed"]
        <4>1. c \in Saving'
          BY <3>2 DEF Saving, Typed, CallRecords
        <4> QED
          BY <4>1 DEF ReportedIsStored
      <3> QED
        BY <2>1, <3>1, <3>2 DEF SaveArtifact
    <2>2. CASE Copy(c)
      <3>1. c \in Saving'
        BY <2>2 DEF Copy, Saving, Typed, CallRecords
      <3> QED
        BY <3>1 DEF ReportedIsStored
    <2>3. CASE Copied(c)
      BY <2>3 DEF Copied, ReportedIsStored
    <2>4. CASE CopyFails(c)
      BY <2>4 DEF CopyFails, ReportedIsStored
    <2> QED
      BY <2>1, <2>2, <2>3, <2>4
  <1>4. ASSUME NEW c \in Calls,
               ToolUse(c) \/ PreToolUse(c) \/ CallSubAgent(c) \/ Chunk(c)
                 \/ AnswerEnds(c, TRUE) \/ AnswerEnds(c, FALSE)
        PROVE  ReportedIsStored'
    <2>1. UNCHANGED <<artifact, reported>> /\ \A d \in Calls : d # c => call'[d] = call[d]
      BY <1>4 DEF ToolUse, PreToolUse, CallSubAgent, Chunk, AnswerEnds, Typed
    <2>2. c \notin Saving
      BY <1>4 DEF ToolUse, PreToolUse, CallSubAgent, Chunk, AnswerEnds, Saving
    <2> QED
      BY <1>2, <2>1, <2>2
  <1>5. CASE ToolResults
    <2>1. UNCHANGED <<artifact, reported>>
      BY <1>5 DEF ToolResults
    <2>2. \A c \in Calls : c \in Saving => call'[c] = call[c]
      BY <1>5 DEF ToolResults, Saving
    <2> QED
      BY <2>1, <2>2 DEF ReportedIsStored, Saving
  <1>6. CASE UNCHANGED agentVars \/ Begin \/ Abort \/ StreamEvent \/ Snapshot \/ AssistantAgain \/ Result \/ Fail \/ Edit
    <2>1. UNCHANGED <<call, artifact, reported>>
      BY <1>6 DEF agentVars, Begin, Abort, StreamEvent, Snapshot, AssistantAgain, Result, Fail, Edit
    <2> QED
      BY <1>1, <2>1
  <1> QED
    BY <1>3, <1>4, <1>5, <1>6 DEF AgentNext

\* What the last successful save reported is what the next step of the workflow copies.
THEOREM ReportIsKept == AgentSpec => []ReportedIsStored
  <1>1. AgentInit => ReportedIsStored
    BY DEF AgentInit, ReportedIsStored
  <1>2. AgentInv /\ ReportedIsStored /\ [AgentNext]_agentVars => ReportedIsStored'
    BY ArtifactStep DEF AgentInv
  <1> QED
    BY <1>1, <1>2, QueueIsSound, PTL DEF AgentSpec

---------------------------------------------------------------------------
(* The text: every unit shown is one of a block, in order, and what the    *)
(* accumulator has counted is the length of the block that still grows.    *)

Blocks == [kind : Kinds, len : Nat \ {0}, round : Nat]
TextTyped == /\ blocks \in Seq(Blocks) /\ shown \in Seq(Nat \X Nat)
             /\ round \in Nat /\ backend \in {"deltas", "snapshots"}
             /\ acc \in [emitted : [Kinds -> Nat], hasStreamDeltas : BOOLEAN,
                         toolIds : SUBSET Calls, full : BOOLEAN]

Within == \A k \in 1 .. Len(shown) : /\ shown[k][1] \in 1 .. Len(blocks)
                                     /\ shown[k][2] \in 1 .. blocks[shown[k][1]].len

\* A block that grows was counted whole; deltas switch the whole blocks off.
Growing == open => /\ Len(blocks) > 0 /\ blocks[Len(blocks)].round = round
                   /\ backend = "deltas" => acc.hasStreamDeltas
                   /\ backend = "snapshots" =>
                        acc.emitted[blocks[Len(blocks)].kind] = blocks[Len(blocks)].len
Counting == /\ backend = "snapshots" => ~acc.hasStreamDeltas
            /\ \A b \in 1 .. Len(blocks) : blocks[b].round <= round
            /\ \A kind \in Kinds :
                 (\A b \in 1 .. Len(blocks) : blocks[b].kind = kind => blocks[b].round # round)
                   => acc.emitted[kind] = 0

TextInv == TextTyped /\ Within /\ Growing /\ Counting /\ ShownOnceInOrder /\ NothingWithheld

\* The two ways a block is written: the last one grows, or a new one begins.
Written(bs, b, n) == /\ bs \in Seq(Blocks) /\ Len(bs) = b /\ b \in {Last, Last + 1} /\ b > 0
                     /\ bs[b].len = n
                     /\ \A c \in 1 .. Last : /\ bs[c].kind = blocks[c].kind
                                             /\ bs[c].round = blocks[c].round
                                             /\ c # b => bs[c] = blocks[c]

LEMMA GrownFacts ==
  ASSUME TextTyped, Growing, NEW kind \in Kinds, NEW bs \in Grown(kind)
  PROVE  /\ Written(bs, Len(bs), bs[Len(bs)].len)
         /\ bs[Len(bs)].kind = kind /\ bs[Len(bs)].len \in Nat \ {0}
         /\ Len(bs) = Last => open /\ bs[Len(bs)].len > blocks[Last].len
         /\ bs[Len(bs)].round = round
  <1> USE DEF Last
  <1>1. /\ blocks \in Seq(Blocks) /\ Last \in Nat /\ round \in Nat
        /\ \A c \in 1 .. Last : blocks[c] \in Blocks
    BY DEF TextTyped
  <1>2. bs[Len(bs)].kind = kind /\ (Len(bs) = Last => bs[Last].len > blocks[Last].len)
    BY DEF Grown
  <1>3. ASSUME open, NEW n \in 1 .. MaxLen, bs = [blocks EXCEPT ![Last].len = n]
        PROVE  /\ Written(bs, Len(bs), bs[Len(bs)].len) /\ bs[Len(bs)].len \in Nat \ {0}
               /\ Len(bs) = Last /\ bs[Len(bs)].round = round
    <2> DEFINE r == [blocks[Last] EXCEPT !.len = n]
    <2>1. Last \in 1 .. Last /\ blocks[Last].round = round /\ n \in Nat \ {0}
      BY <1>1, <1>3, BoundsAssumption DEF Growing
    <2>2. /\ r \in Blocks /\ r.len = n /\ r.kind = blocks[Last].kind /\ r.round = blocks[Last].round
      BY <1>1, <2>1 DEF Blocks
    <2>3. bs = [blocks EXCEPT ![Last] = r]
      BY <1>1, <1>3, <2>1
    <2>4. bs \in Seq(Blocks) /\ Len(bs) = Last
      BY <1>1, <2>1, <2>2, <2>3, ExceptSeq
    <2>5. \A c \in 1 .. Last : bs[c] = IF c = Last THEN r ELSE blocks[c]
      BY <1>1, <2>1, <2>3
    <2> HIDE DEF r
    <2> QED
      BY <1>1, <2>1, <2>2, <2>4, <2>5 DEF Written
  <1>4. ASSUME NEW n \in 1 .. MaxLen, bs = Append(blocks, [kind |-> kind, len |-> n, round |-> round])
        PROVE  /\ Written(bs, Len(bs), bs[Len(bs)].len) /\ bs[Len(bs)].len \in Nat \ {0}
               /\ Len(bs) = Last + 1 /\ bs[Len(bs)].round = round
    <2> DEFINE r == [kind |-> kind, len |-> n, round |-> round]
    <2>1. n \in Nat \ {0}
      BY BoundsAssumption
    <2>2. r \in Blocks /\ r.len = n /\ r.round = round
      BY <1>1, <2>1 DEF Blocks
    <2>3. bs = Append(blocks, r)
      BY <1>4
    <2> HIDE DEF r
    <2>4. /\ bs \in Seq(Blocks) /\ Len(bs) = Last + 1 /\ bs[Last + 1] = r
          /\ \A c \in 1 .. Last : bs[c] = blocks[c]
      BY <1>1, <2>2, <2>3, AppendProperties
    <2> QED
      BY <1>1, <2>1, <2>2, <2>4 DEF Written
  <1>5. \/ open /\ \E n \in 1 .. MaxLen : bs = [blocks EXCEPT ![Last].len = n]
        \/ \E n \in 1 .. MaxLen : bs = Append(blocks, [kind |-> kind, len |-> n, round |-> round])
    BY DEF Grown
  <1>6. CASE open /\ \E n \in 1 .. MaxLen : bs = [blocks EXCEPT ![Last].len = n]
    BY <1>2, <1>3, <1>6
  <1>7. CASE \E n \in 1 .. MaxLen : bs = Append(blocks, [kind |-> kind, len |-> n, round |-> round])
    <2>1. PICK n \in 1 .. MaxLen : bs = Append(blocks, [kind |-> kind, len |-> n, round |-> round])
      BY <1>7
    <2>2. /\ Written(bs, Len(bs), bs[Len(bs)].len) /\ bs[Len(bs)].len \in Nat \ {0}
          /\ Len(bs) = Last + 1 /\ bs[Len(bs)].round = round
      BY <1>4, <2>1
    <2> QED
      BY <1>1, <1>2, <2>2
  <1> QED
    BY <1>5, <1>6, <1>7

\* The units of a block after `from` are added to what is shown.
Shows(b, from, n) ==
  /\ shown' \in Seq(Nat \X Nat) /\ Len(shown') = Len(shown) + (n - from)
  /\ \A k \in 1 .. Len(shown) : shown'[k] = shown[k]
  /\ \A i \in 1 .. (n - from) : shown'[Len(shown) + i] = <<b, from + i>>

LEMMA ShownGrows ==
  ASSUME TextTyped, Within, ShownOnceInOrder,
         NEW b, NEW n \in Nat \ {0}, NEW from \in 0 .. n,
         Written(blocks', b, n), Shows(b, from, n),
         b = Last => from = blocks[Last].len
  PROVE  /\ Within' /\ ShownOnceInOrder'
         /\ \A c \in 1 .. Last : c # b /\ ShownWhole(c) => ShownWhole(c)'
         /\ b = Last /\ ShownWhole(b) => ShownWhole(b)'
         /\ from = 0 => ShownWhole(b)'
  <1> DEFINE N == Len(shown)
             M == Len(shown')
             L == Len(blocks)
  <1>1. /\ N \in Nat /\ M = N + (n - from) /\ n - from \in Nat
        /\ L \in Nat /\ b \in {L, L + 1} /\ b > 0 /\ Len(blocks') = b /\ blocks'[b].len = n
        /\ \A c \in 1 .. L : blocks[c].len \in Nat \ {0}
        /\ \A c \in 1 .. L : c # b => blocks'[c] = blocks[c]
    <2>1. /\ N \in Nat /\ L \in Nat /\ n - from \in Nat
          /\ \A c \in 1 .. L : blocks[c] \in Blocks
      BY DEF TextTyped
    <2>2. M = N + (n - from)
      BY DEF Shows
    <2>3. /\ b \in {L, L + 1} /\ b > 0 /\ Len(blocks') = b /\ blocks'[b].len = n
          /\ \A c \in 1 .. L : c # b => blocks'[c] = blocks[c]
      BY DEF Written, Last
    <2>4. \A c \in 1 .. L : blocks[c].len \in Nat \ {0}
      BY <2>1 DEF Blocks
    <2> QED
      BY <2>1, <2>2, <2>3, <2>4
  <1>2. /\ \A k \in 1 .. N : shown'[k] = shown[k]
        /\ \A i \in 1 .. (n - from) : shown'[N + i] = <<b, from + i>>
    BY DEF Shows
  <1>3. \A k \in 1 .. N : shown[k][1] \in 1 .. L /\ shown[k][2] \in 1 .. blocks[shown[k][1]].len
    BY DEF Within
  <1>4. b = L => from = blocks[L].len
    BY DEF Last
  <1>5. \A i, j \in 1 .. N : i < j => Before(shown[i], shown[j])
    <2>1. DOMAIN shown = 1 .. N
      BY DEF TextTyped
    <2> QED
      BY <2>1 DEF ShownOnceInOrder
  <1>6. DOMAIN shown' = 1 .. M /\ DOMAIN shown = 1 .. N
    BY DEF TextTyped, Shows
  <1> HIDE DEF N, M, L
  <1>7. \A k \in 1 .. M : k \in 1 .. N \/ \E i \in 1 .. (n - from) : k = N + i
    <2> SUFFICES ASSUME NEW k \in 1 .. M, k \notin 1 .. N PROVE \E i \in 1 .. (n - from) : k = N + i
      OBVIOUS
    <2>1. k - N \in 1 .. (n - from) /\ k = N + (k - N)
      BY <1>1
    <2> QED
      BY <2>1
  \* The blocks that held a unit hold it still.
  <1>8. \A c \in 1 .. L : c \in 1 .. b /\ blocks[c].len <= blocks'[c].len
    BY <1>1, <1>4
  <1>9. Within'
    <2> SUFFICES ASSUME NEW k \in 1 .. M
                 PROVE  shown'[k][1] \in 1 .. b /\ shown'[k][2] \in 1 .. blocks'[shown'[k][1]].len
      BY <1>1 DEF Within, M
    <2>1. CASE k \in 1 .. N
      <3> DEFINE c == shown[k][1]
      <3>1. c \in 1 .. L /\ shown[k][2] \in 1 .. blocks[c].len
        BY <1>3, <2>1
      <3>2. c \in 1 .. b /\ blocks[c].len <= blocks'[c].len /\ blocks[c].len \in Nat
        BY <1>1, <1>8, <3>1
      <3>3. blocks'[c].len \in Int
        <4>1. CASE c = b
          BY <1>1, <4>1
        <4>2. CASE c # b
          BY <1>1, <3>1, <4>2
        <4> QED
          BY <4>1, <4>2
      <3>4. shown'[k] = shown[k]
        BY <1>2, <2>1
      <3> HIDE DEF c
      <3>5. shown[k][2] \in 1 .. blocks'[c].len
        BY <3>1, <3>2, <3>3
      <3> QED
        BY <3>2, <3>4, <3>5 DEF c
    <2>2. CASE \E i \in 1 .. (n - from) : k = N + i
      <3>1. PICK i \in 1 .. (n - from) : k = N + i
        BY <2>2
      <3>2. shown'[k] = <<b, from + i>>
        BY <1>2, <3>1
      <3>3. b \in 1 .. b /\ from + i \in 1 .. n
        BY <1>1
      <3>4. shown'[k][1] = b /\ shown'[k][2] = from + i
        BY <3>2
      <3> QED
        BY <1>1, <3>3, <3>4
    <2> QED
      BY <1>7, <2>1, <2>2
  <1>10. ShownOnceInOrder'
    <2> SUFFICES ASSUME NEW i \in 1 .. M, NEW j \in 1 .. M, i < j
                 PROVE  Before(shown'[i], shown'[j])
      BY <1>6 DEF ShownOnceInOrder
    <2>1. CASE j \in 1 .. N
      <3>1. i \in 1 .. N
        BY <1>1, <2>1
      <3> QED
        BY <1>2, <1>5, <2>1, <3>1
    <2>2. CASE i \in 1 .. N /\ \E q \in 1 .. (n - from) : j = N + q
      <3>1. PICK q \in 1 .. (n - from) : j = N + q
        BY <2>2
      <3>2. shown'[i] = shown[i] /\ shown'[j] = <<b, from + q>>
        BY <1>2, <2>2, <3>1
      <3>3. shown[i][1] \in 1 .. L /\ shown[i][2] \in 1 .. blocks[shown[i][1]].len
        BY <1>3, <2>2
      <3>4. shown[i][1] < b \/ (shown[i][1] = b /\ shown[i][2] < from + q)
        <4>1. CASE shown[i][1] = L /\ b = L
          <5>1. shown[i][2] \in 1 .. from
            BY <1>4, <3>3, <4>1
          <5> QED
            BY <1>1, <4>1, <5>1
        <4>2. CASE ~(shown[i][1] = L /\ b = L)
          BY <1>1, <3>3, <4>2
        <4> QED
          BY <4>1, <4>2
      <3>5. shown'[j][1] = b /\ shown'[j][2] = from + q
        BY <3>2
      <3> QED
        BY <3>2, <3>4, <3>5 DEF Before
    <2>3. CASE (\E p \in 1 .. (n - from) : i = N + p) /\ \E q \in 1 .. (n - from) : j = N + q
      <3>1. PICK p \in 1 .. (n - from) : i = N + p
        BY <2>3
      <3>2. PICK q \in 1 .. (n - from) : j = N + q
        BY <2>3
      <3>3. shown'[i] = <<b, from + p>> /\ shown'[j] = <<b, from + q>>
        BY <1>2, <3>1, <3>2
      <3>4. from + p < from + q
        BY <1>1, <3>1, <3>2
      <3>5. shown'[i][1] = b /\ shown'[i][2] = from + p /\ shown'[j][1] = b /\ shown'[j][2] = from + q
        BY <3>3
      <3> QED
        BY <3>4, <3>5 DEF Before
    <2> QED
      BY <1>7, <2>1, <2>2, <2>3
  <1>11. 1 .. N \subseteq 1 .. M
    BY <1>1
  <1>12. ASSUME NEW c \in 1 .. L, c # b, ShownWhole(c) PROVE ShownWhole(c)'
    BY <1>1, <1>2, <1>6, <1>11, <1>12 DEF ShownWhole
  <1>13. ASSUME from = 0 \/ (b = L /\ ShownWhole(b)) PROVE ShownWhole(b)'
    <2> SUFFICES ASSUME NEW i \in 1 .. n PROVE \E k \in 1 .. M : shown'[k] = <<b, i>>
      BY <1>1, <1>6 DEF ShownWhole
    <2>1. CASE i > from
      <3>1. i - from \in 1 .. (n - from) /\ from + (i - from) = i /\ N + (i - from) \in 1 .. M
        BY <1>1, <2>1
      <3>2. shown'[N + (i - from)] = <<b, i>>
        BY <1>2, <3>1
      <3> QED
        BY <3>1, <3>2
    <2>2. CASE i <= from
      <3>1. b = L /\ ShownWhole(b) /\ i \in 1 .. blocks[b].len
        BY <1>4, <1>13, <2>2
      <3>2. PICK k \in 1 .. N : shown[k] = <<b, i>>
        BY <1>6, <3>1 DEF ShownWhole
      <3> QED
        BY <1>2, <1>11, <3>2
    <2> QED
      BY <1>1, <2>1, <2>2
  <1> QED
    BY <1>9, <1>10, <1>12, <1>13 DEF L, Last

\* Only the new block, or the one that grew, can be short of what is shown.
LEMMA WrittenWhole ==
  ASSUME TextInv, backend' = backend,
         NEW b, NEW n \in Nat \ {0}, NEW from \in 0 .. n,
         Written(blocks', b, n), Shows(b, from, n),
         b = Last => from = blocks[Last].len,
         b = Last + 1 /\ (backend = "deltas" \/ FirstOfRound(b)') => from = 0
  PROVE  Within' /\ ShownOnceInOrder' /\ NothingWithheld'
  <1>1. /\ Within' /\ ShownOnceInOrder'
        /\ \A c \in 1 .. Last : c # b /\ ShownWhole(c) => ShownWhole(c)'
        /\ b = Last /\ ShownWhole(b) => ShownWhole(b)'
        /\ from = 0 => ShownWhole(b)'
    BY ShownGrows DEF TextInv
  <1>2. /\ blocks \in Seq(Blocks) /\ Last \in Nat /\ DOMAIN blocks = 1 .. Last
        /\ blocks' \in Seq(Blocks) /\ b \in {Last, Last + 1} /\ DOMAIN blocks' = 1 .. b
        /\ \A c \in 1 .. Last : blocks'[c].kind = blocks[c].kind /\ blocks'[c].round = blocks[c].round
    BY DEF TextInv, TextTyped, Written, Last
  <1>3. ASSUME NEW c \in 1 .. Last, FirstOfRound(c)' PROVE FirstOfRound(c)
    <2>1. \A a \in 1 .. (c - 1) : a \in 1 .. Last
      BY <1>2
    <2> QED
      BY <1>2, <1>3, <2>1 DEF FirstOfRound
  <1>4. ASSUME NEW c \in 1 .. b, backend = "deltas" \/ FirstOfRound(c)' PROVE ShownWhole(c)'
    <2>1. CASE c \in 1 .. Last
      <3>1. ShownWhole(c)
        BY <1>2, <1>3, <1>4, <2>1 DEF TextInv, NothingWithheld
      <3> QED
        BY <1>1, <1>2, <2>1, <3>1
    <2>2. CASE c \notin 1 .. Last
      <3>1. c = b /\ b = Last + 1
        BY <1>2, <2>2
      <3> QED
        BY <1>1, <1>4, <3>1
    <2> QED
      BY <2>1, <2>2
  <1>5. NothingWithheld'
    BY <1>2, <1>4 DEF NothingWithheld
  <1> QED
    BY <1>1, <1>5

---------------------------------------------------------------------------
(* The messages that write text.                                           *)

\* The rounds and the lengths the accumulator keeps, after a block was written.
LEMMA WrittenCounts ==
  ASSUME TextInv, UNCHANGED <<backend, round>>, TextTyped',
         NEW b, NEW n \in Nat \ {0}, Written(blocks', b, n), blocks'[b].round = round,
         acc'.hasStreamDeltas => acc.hasStreamDeltas \/ backend = "deltas",
         \A kind \in Kinds : kind # blocks'[b].kind => acc'.emitted[kind] = acc.emitted[kind]
  PROVE  Counting'
  <1>1. /\ Len(blocks') = b /\ Len(blocks) \in Nat /\ b \in {Len(blocks), Len(blocks) + 1} /\ b > 0
        /\ \A c \in 1 .. Len(blocks) : /\ blocks'[c].kind = blocks[c].kind
                                       /\ blocks'[c].round = blocks[c].round
    BY DEF Written, Last, TextInv, TextTyped
  <1>2. \A c \in 1 .. b : c \in 1 .. Len(blocks) \/ c = b
    BY <1>1
  <1>3. \A c \in 1 .. b : blocks'[c].round <= round
    <2>1. round \in Nat
      BY DEF TextInv, TextTyped
    <2> QED
      BY <1>1, <1>2, <2>1 DEF TextInv, Counting
  <1>4. ASSUME NEW kind \in Kinds,
               \A c \in 1 .. b : blocks'[c].kind = kind => blocks'[c].round # round
        PROVE  acc'.emitted[kind] = 0
    <2>1. b \in 1 .. b /\ \A c \in 1 .. Len(blocks) : c \in 1 .. b
      BY <1>1
    <2>2. kind # blocks'[b].kind
      BY <1>4, <2>1
    <2>3. \A c \in 1 .. Len(blocks) : blocks[c].kind = kind => blocks[c].round # round
      BY <1>1, <1>4, <2>1
    <2>4. acc.emitted[kind] = 0
      BY <2>3 DEF TextInv, Counting
    <2> QED
      BY <2>2, <2>4
  <1>5. backend = "snapshots" => ~acc'.hasStreamDeltas
    BY DEF TextInv, Counting
  <1> QED
    BY <1>1, <1>3, <1>4, <1>5 DEF Counting

LEMMA DeltaStep ==
  ASSUME TextInv, StreamEvent
  PROVE  TextInv'
  <1>1. PICK kind \in Kinds : \E bs \in Grown(kind) :
          /\ Len(bs) = Last => bs[Last].len = blocks[Last].len + 1
          /\ Len(bs) > Last => bs[Len(bs)].len = 1
          /\ blocks' = bs /\ open' = TRUE /\ ConsumeDelta(Len(bs), kind, bs[Len(bs)].len)
    BY DEF StreamEvent
  <1>2. /\ blocks' \in Grown(kind)
        /\ Len(blocks') = Last => blocks'[Last].len = blocks[Last].len + 1
        /\ Len(blocks') > Last => blocks'[Len(blocks')].len = 1
        /\ open' = TRUE /\ ConsumeDelta(Len(blocks'), kind, blocks'[Len(blocks')].len)
        /\ UNCHANGED <<backend, round>> /\ backend = "deltas"
    BY <1>1 DEF StreamEvent, turnVars
  <1>2a. /\ Written(blocks', Len(blocks'), blocks'[Len(blocks')].len)
         /\ blocks'[Len(blocks')].kind = kind /\ blocks'[Len(blocks')].len \in Nat \ {0}
         /\ blocks'[Len(blocks')].round = round
    BY <1>2, GrownFacts DEF TextInv
  <1>2b. PICK b \in Nat \ {0} : b = Len(blocks')
    BY <1>2a DEF Written
  <1>2c. PICK n \in Nat \ {0} : n = blocks'[b].len
    BY <1>2a, <1>2b
  <1>3. /\ Written(blocks', b, n) /\ blocks'[b].kind = kind /\ n \in Nat \ {0}
        /\ blocks'[b].round = round
    BY <1>2a, <1>2b, <1>2c
  <1>4. /\ Last \in Nat /\ b \in {Last, Last + 1} /\ b \in Nat \ {0} /\ blocks' \in Seq(Blocks)
        /\ b = Last => n = blocks[Last].len + 1
        /\ b = Last + 1 => n = 1
        /\ \A c \in 1 .. Last : blocks[c].len \in Nat \ {0}
    <2>1. \A c \in 1 .. Last : blocks[c] \in Blocks
      BY DEF TextInv, TextTyped, Last
    <2>2. Last \in Nat /\ b \in {Last, Last + 1} /\ blocks' \in Seq(Blocks)
      BY <1>3 DEF Written, TextInv, TextTyped, Last
    <2>3. (b = Last => n = blocks[Last].len + 1) /\ (b = Last + 1 => n = 1)
      BY <1>2, <1>2b, <1>2c, <2>2
    <2> QED
      BY <2>1, <2>2, <2>3 DEF Blocks
  <1>5. /\ acc' = [acc EXCEPT !.hasStreamDeltas = TRUE, !.emitted[kind] = @ + 1,
                              !.full = @ \/ kind = "text"]
        /\ shown' = Append(shown, <<b, n>>)
    BY <1>2, <1>2b, <1>2c DEF ConsumeDelta
  <1>6. /\ shown \in Seq(Nat \X Nat) /\ <<b, n>> \in Nat \X Nat
        /\ acc \in [emitted : [Kinds -> Nat], hasStreamDeltas : BOOLEAN, toolIds : SUBSET Calls,
                    full : BOOLEAN]
    BY <1>3, <1>4 DEF TextInv, TextTyped
  <1>7. Shows(b, n - 1, n)
    <2>1. /\ shown' \in Seq(Nat \X Nat) /\ Len(shown') = Len(shown) + 1 /\ Len(shown) \in Nat
          /\ shown'[Len(shown) + 1] = <<b, n>>
          /\ \A k \in 1 .. Len(shown) : shown'[k] = shown[k]
      BY <1>5, <1>6, AppendProperties
    <2>2. n - (n - 1) = 1 /\ (n - 1) + 1 = n
      BY <1>3
    <2> QED
      BY <2>1, <2>2 DEF Shows
  <1>8. n - 1 \in 0 .. n /\ (b = Last => n - 1 = blocks[Last].len) /\ (b = Last + 1 => n - 1 = 0)
    <2>1. b = Last => Last \in 1 .. Last
      BY <1>4
    <2> QED
      BY <1>3, <1>4, <2>1
  <1>9. Within' /\ ShownOnceInOrder' /\ NothingWithheld'
    BY <1>2, <1>3, <1>7, <1>8, WrittenWhole
  <1>10. /\ acc' \in [emitted : [Kinds -> Nat], hasStreamDeltas : BOOLEAN, toolIds : SUBSET Calls,
                      full : BOOLEAN]
         /\ acc'.hasStreamDeltas
         /\ \A k \in Kinds : k # kind => acc'.emitted[k] = acc.emitted[k]
    <2>1. acc.emitted[kind] + 1 \in Nat /\ (acc.full \/ kind = "text") \in BOOLEAN
      BY <1>6
    <2>2. acc' = [acc EXCEPT !.hasStreamDeltas = TRUE,
                            !.emitted = [acc.emitted EXCEPT ![kind] = @ + 1],
                            !.full = acc.full \/ kind = "text"]
      BY <1>5
    <2>3. [acc.emitted EXCEPT ![kind] = @ + 1] \in [Kinds -> Nat]
      BY <1>6, <2>1
    <2>4. acc'.emitted = [acc.emitted EXCEPT ![kind] = @ + 1] /\ acc'.hasStreamDeltas = TRUE
      BY <1>6, <2>2
    <2>5. acc' \in [emitted : [Kinds -> Nat], hasStreamDeltas : BOOLEAN, toolIds : SUBSET Calls,
                    full : BOOLEAN]
      BY <1>6, <2>1, <2>2, <2>3
    <2> QED
      BY <1>6, <2>4, <2>5
  <1>11. TextTyped'
    BY <1>2, <1>4, <1>7, <1>10 DEF TextInv, TextTyped, Shows
  <1>12. Counting'
    BY <1>2, <1>3, <1>10, <1>11, WrittenCounts
  <1>13. Growing'
    BY <1>2, <1>2b, <1>3, <1>4, <1>10 DEF Growing
  <1> QED
    BY <1>9, <1>11, <1>12, <1>13 DEF TextInv

\* What a whole block shows of itself, when it is not one the deltas have carried.
LEMMA BlockShown ==
  ASSUME TextInv, NEW kind \in Kinds, NEW b \in Nat \ {0}, NEW n \in Nat \ {0},
         ConsumeBlock(b, kind, n), backend = "snapshots"
  PROVE  /\ Baseline(kind, n) \in 0 .. n /\ Shows(b, Baseline(kind, n), n)
         /\ acc' \in [emitted : [Kinds -> Nat], hasStreamDeltas : BOOLEAN, toolIds : SUBSET Calls,
                      full : BOOLEAN]
         /\ acc'.emitted[kind] = n /\ ~acc'.hasStreamDeltas
         /\ \A k \in Kinds : k # kind => acc'.emitted[k] = acc.emitted[k]
         /\ n = acc.emitted[kind] => UNCHANGED <<acc, shown>>
  <1> DEFINE from == Baseline(kind, n)
  <1>1. /\ shown \in Seq(Nat \X Nat) /\ ~acc.hasStreamDeltas
        /\ acc \in [emitted : [Kinds -> Nat], hasStreamDeltas : BOOLEAN, toolIds : SUBSET Calls,
                    full : BOOLEAN]
    BY DEF TextInv, TextTyped, Counting
  <1>2. acc.emitted[kind] \in Nat
    BY <1>1
  <1>3. from \in 0 .. n /\ (n = from => n = acc.emitted[kind]) /\ (n = acc.emitted[kind] => n = from)
    BY <1>2 DEF Baseline
  <1>4. /\ n = from => UNCHANGED <<acc, shown>>
        /\ n # from => /\ acc' = [acc EXCEPT !.emitted[kind] = n, !.full = @ \/ kind = "text"]
                       /\ shown' = shown \o Units(b, from, n)
    BY <1>1 DEF ConsumeBlock
  <1> HIDE DEF from
  <1>5. Shows(b, from, n)
    <2>1. CASE n = from
      <3>1. n - from = 0 /\ Len(shown) \in Nat
        BY <1>1, <2>1
      <3> QED
        BY <1>1, <1>4, <2>1, <3>1 DEF Shows
    <2>2. CASE n # from
      <3> DEFINE u == Units(b, from, n)
      <3>1. n - from \in Nat
        BY <1>3
      <3>2. u \in Seq(Nat \X Nat) /\ Len(u) = n - from
            /\ \A i \in 1 .. (n - from) : u[i] = <<b, from + i>>
        <4>1. u = [i \in 1 .. (n - from) |-> <<b, from + i>>]
          BY DEF Units
        <4>2. \A i \in 1 .. (n - from) : <<b, from + i>> \in Nat \X Nat
          BY <1>3
        <4>3. u \in [1 .. (n - from) -> Nat \X Nat]
          BY <4>1, <4>2
        <4>4. u \in Seq(Nat \X Nat) /\ Len(u) = n - from
          BY <3>1, <4>3
        <4> QED
          BY <4>1, <4>4
      <3> HIDE DEF u
      <3>3. shown' = shown \o u
        BY <1>4, <2>2 DEF u
      <3>4. /\ shown' \in Seq(Nat \X Nat) /\ Len(shown') = Len(shown) + Len(u) /\ Len(shown) \in Nat
            /\ \A k \in 1 .. Len(shown') : shown'[k] = IF k <= Len(shown) THEN shown[k] ELSE u[k - Len(shown)]
        BY <1>1, <3>2, <3>3, ConcatProperties
      <3>5. \A k \in 1 .. Len(shown) : shown'[k] = shown[k]
        <4>1. \A k \in 1 .. Len(shown) : k \in 1 .. Len(shown') /\ k <= Len(shown)
          BY <3>1, <3>2, <3>4
        <4> QED
          BY <3>4, <4>1
      <3>6. \A i \in 1 .. (n - from) : /\ Len(shown) + i \in 1 .. Len(shown')
                                       /\ ~(Len(shown) + i <= Len(shown))
                                       /\ (Len(shown) + i) - Len(shown) = i
        <4>1. Len(shown') = Len(shown) + (n - from) /\ Len(shown) \in Nat
          BY <3>2, <3>4
        <4> QED
          BY <3>1, <4>1
      <3>7. \A i \in 1 .. (n - from) : shown'[Len(shown) + i] = <<b, from + i>>
        BY <3>2, <3>4, <3>6
      <3> QED
        BY <3>2, <3>4, <3>5, <3>7 DEF Shows
    <2> QED
      BY <2>1, <2>2
  <1>6. /\ acc' \in [emitted : [Kinds -> Nat], hasStreamDeltas : BOOLEAN, toolIds : SUBSET Calls,
                     full : BOOLEAN]
        /\ acc'.emitted[kind] = n /\ ~acc'.hasStreamDeltas
        /\ \A k \in Kinds : k # kind => acc'.emitted[k] = acc.emitted[k]
    <2>1. CASE n = from
      BY <1>1, <1>3, <1>4, <2>1
    <2>2. CASE n # from
      <3> DEFINE e == [acc.emitted EXCEPT ![kind] = n]
      <3>1. e \in [Kinds -> Nat] /\ e[kind] = n /\ \A k \in Kinds : k # kind => e[k] = acc.emitted[k]
        BY <1>1
      <3>2. acc' = [acc EXCEPT !.emitted = e, !.full = acc.full \/ kind = "text"]
        BY <1>1, <1>4, <2>2
      <3>3. (acc.full \/ kind = "text") \in BOOLEAN
        BY <1>1
      <3> HIDE DEF e
      <3>4. acc'.emitted = e /\ acc'.hasStreamDeltas = acc.hasStreamDeltas
        BY <1>1, <3>2
      <3>5. acc' \in [emitted : [Kinds -> Nat], hasStreamDeltas : BOOLEAN, toolIds : SUBSET Calls,
                      full : BOOLEAN]
        BY <1>1, <3>1, <3>2, <3>3
      <3> QED
        BY <1>1, <3>1, <3>4, <3>5
    <2> QED
      BY <2>1, <2>2
  <1> QED
    BY <1>3, <1>4, <1>5, <1>6 DEF from

LEMMA SnapshotStep ==
  ASSUME TextInv, Snapshot
  PROVE  TextInv'
  <1>1. PICK kind \in Kinds : \E bs \in Grown(kind) :
          blocks' = bs /\ open' = TRUE /\ ConsumeBlock(Len(bs), kind, bs[Len(bs)].len)
    BY DEF Snapshot
  <1>2. /\ blocks' \in Grown(kind) /\ open' = TRUE
        /\ ConsumeBlock(Len(blocks'), kind, blocks'[Len(blocks')].len)
        /\ UNCHANGED <<backend, round>> /\ backend = "snapshots"
    BY <1>1 DEF Snapshot, turnVars
  <1>2a. /\ Written(blocks', Len(blocks'), blocks'[Len(blocks')].len)
         /\ blocks'[Len(blocks')].kind = kind /\ blocks'[Len(blocks')].len \in Nat \ {0}
         /\ blocks'[Len(blocks')].round = round
         /\ Len(blocks') = Last => open /\ blocks'[Len(blocks')].len > blocks[Last].len
    BY <1>2, GrownFacts DEF TextInv
  <1>2b. PICK b \in Nat \ {0} : b = Len(blocks')
    BY <1>2a DEF Written
  <1>2c. PICK n \in Nat \ {0} : n = blocks'[b].len
    BY <1>2a, <1>2b
  <1>3. /\ Written(blocks', b, n) /\ blocks'[b].kind = kind /\ n \in Nat \ {0}
        /\ blocks'[b].round = round
        /\ b = Last => open /\ n > blocks[Last].len
    BY <1>2a, <1>2b, <1>2c
  <1>4. /\ Last \in Nat /\ b \in {Last, Last + 1} /\ b \in Nat \ {0} /\ blocks' \in Seq(Blocks)
        /\ \A c \in 1 .. Last : /\ blocks'[c].kind = blocks[c].kind
                                /\ blocks'[c].round = blocks[c].round
    BY <1>2, <1>3 DEF Written, TextInv, TextTyped, Last
  <1>5. ConsumeBlock(b, kind, n)
    BY <1>2, <1>2b, <1>2c
  <1>5a. PICK from \in 0 .. n : from = Baseline(kind, n)
    BY <1>2, <1>3, <1>5, BlockShown
  <1>6. /\ from \in 0 .. n /\ Shows(b, from, n)
        /\ acc' \in [emitted : [Kinds -> Nat], hasStreamDeltas : BOOLEAN, toolIds : SUBSET Calls,
                     full : BOOLEAN]
        /\ acc'.emitted[kind] = n /\ ~acc'.hasStreamDeltas
        /\ \A k \in Kinds : k # kind => acc'.emitted[k] = acc.emitted[k]
    BY <1>2, <1>3, <1>5, <1>5a, BlockShown
  <1>7. acc.emitted[kind] \in Nat
    BY DEF TextInv, TextTyped
  <1>8. b = Last => from = blocks[Last].len
    <2> SUFFICES ASSUME b = Last PROVE from = blocks[Last].len
      OBVIOUS
    <2>1. Last \in 1 .. Last /\ blocks[Last].kind = kind
      BY <1>3, <1>4
    <2>2. acc.emitted[kind] = blocks[Last].len /\ n > blocks[Last].len
      BY <1>2, <1>3, <2>1 DEF TextInv, Growing, Last
    <2> QED
      BY <1>3, <1>5a, <1>7, <2>2 DEF Baseline
  <1>9. b = Last + 1 /\ (backend = "deltas" \/ FirstOfRound(b)') => from = 0
    <2> SUFFICES ASSUME b = Last + 1, FirstOfRound(b)' PROVE from = 0
      BY <1>2
    <2>1. \A c \in 1 .. Last : c \in 1 .. (b - 1)
      BY <1>4
    <2>2. \A c \in 1 .. Len(blocks) : blocks[c].kind = kind => blocks[c].round # round
      BY <1>3, <1>4, <2>1 DEF FirstOfRound, Last
    <2>3. acc.emitted[kind] = 0
      BY <2>2 DEF TextInv, Counting
    <2> QED
      BY <1>5a, <2>3 DEF Baseline
  <1>10. Within' /\ ShownOnceInOrder' /\ NothingWithheld'
    BY <1>2, <1>3, <1>6, <1>8, <1>9, WrittenWhole
  <1>11. TextTyped'
    BY <1>2, <1>4, <1>6 DEF TextInv, TextTyped, Shows
  <1>12. Counting'
    BY <1>2, <1>3, <1>6, <1>11, WrittenCounts
  <1>13. Growing'
    BY <1>2, <1>2b, <1>2c, <1>3, <1>4, <1>6 DEF Growing
  <1> QED
    BY <1>10, <1>11, <1>12, <1>13 DEF TextInv

\* The final text is shown as a block of its own when no text was.
LEMMA ResultStep ==
  ASSUME TextInv, Result
  PROVE  TextInv'
  <1>1. open' = FALSE /\ UNCHANGED <<backend, round>>
    BY DEF Result
  <1>2. CASE UNCHANGED <<blocks, acc, shown>>
    BY <1>1, <1>2 DEF TextInv, TextTyped, Within, Growing, Counting, ShownOnceInOrder,
                      NothingWithheld, FirstOfRound, ShownWhole
  <1>3. CASE /\ blocks' = Append(blocks, [kind |-> "text", len |-> 1, round |-> round])
             /\ acc' = [acc EXCEPT !.full = TRUE]
             /\ shown' = Append(shown, <<Last + 1, 1>>)
    <2> DEFINE r == [kind |-> "text", len |-> 1, round |-> round]
    <2>1. /\ blocks \in Seq(Blocks) /\ shown \in Seq(Nat \X Nat) /\ round \in Nat /\ Last \in Nat
          /\ acc \in [emitted : [Kinds -> Nat], hasStreamDeltas : BOOLEAN, toolIds : SUBSET Calls,
                      full : BOOLEAN]
      BY DEF TextInv, TextTyped, Last
    <2>2. r \in Blocks /\ r.len = 1 /\ r.kind = "text" /\ r.round = round
      BY <2>1 DEF Blocks, Kinds
    <2>2a. PICK b \in Nat \ {0} : b = Last + 1
      BY <2>1
    <2>3. blocks' = Append(blocks, r)
      BY <1>3
    <2> HIDE DEF r
    <2>4. /\ blocks' \in Seq(Blocks) /\ Len(blocks') = Last + 1 /\ blocks'[Last + 1] = r
          /\ \A c \in 1 .. Last : blocks'[c] = blocks[c]
      BY <2>1, <2>2, <2>3, AppendProperties DEF Last
    <2>5. Written(blocks', b, 1)
      BY <2>1, <2>2, <2>2a, <2>4 DEF Written
    <2>6. Shows(b, 0, 1)
      <3>1. <<b, 1>> \in Nat \X Nat
        BY <2>2a
      <3>2. /\ shown' \in Seq(Nat \X Nat) /\ Len(shown') = Len(shown) + 1 /\ Len(shown) \in Nat
            /\ shown'[Len(shown) + 1] = <<b, 1>>
            /\ \A k \in 1 .. Len(shown) : shown'[k] = shown[k]
        BY <1>3, <2>1, <2>2a, <3>1, AppendProperties
      <3>3. 1 - 0 = 1 /\ 0 + 1 = 1
        OBVIOUS
      <3> QED
        BY <3>2, <3>3 DEF Shows
    <2>7. /\ acc' \in [emitted : [Kinds -> Nat], hasStreamDeltas : BOOLEAN, toolIds : SUBSET Calls,
                       full : BOOLEAN]
          /\ acc'.hasStreamDeltas = acc.hasStreamDeltas /\ acc'.emitted = acc.emitted
      BY <1>3, <2>1
    <2>8. b # Last /\ 0 \in 0 .. 1 /\ 1 \in Nat \ {0}
      BY <2>1, <2>2a
    <2>9. Within' /\ ShownOnceInOrder' /\ NothingWithheld'
      BY <1>1, <2>5, <2>6, <2>8, WrittenWhole
    <2>10. TextTyped'
      BY <1>1, <2>1, <2>4, <2>6, <2>7 DEF TextInv, TextTyped, Shows
    <2>11. Counting'
      <3>1. blocks'[b].round = round
        BY <2>2, <2>2a, <2>4
      <3> QED
        BY <1>1, <2>5, <2>7, <2>8, <2>10, <3>1, WrittenCounts
    <2> QED
      BY <1>1, <2>9, <2>10, <2>11 DEF TextInv, Growing
  <1> QED
    BY <1>2, <1>3 DEF Result

\* The same block once more, a tool call, tool results and a new turn show nothing.
LEMMA SilentStep ==
  ASSUME TextInv, AssistantAgain \/ ToolResults \/ Begin \/ \E c \in Calls : ToolUse(c)
  PROVE  TextInv'
  <1>0. /\ blocks \in Seq(Blocks) /\ round \in Nat /\ Last = Len(blocks) /\ Last \in Nat
        /\ acc \in [emitted : [Kinds -> Nat], hasStreamDeltas : BOOLEAN, toolIds : SUBSET Calls,
                    full : BOOLEAN]
        /\ \A c \in 1 .. Len(blocks) : blocks[c] \in Blocks
    BY DEF TextInv, TextTyped, Last
  <1>1. ASSUME open' = FALSE, UNCHANGED <<blocks, shown, backend>>, TextTyped', Counting'
        PROVE  TextInv'
    BY <1>1 DEF TextInv, Within, Growing, ShownOnceInOrder, NothingWithheld, FirstOfRound, ShownWhole
  <1>2. CASE AssistantAgain
    <2>1. /\ open /\ open' = FALSE /\ UNCHANGED <<blocks, backend, round>>
          /\ ConsumeBlock(Last, blocks[Last].kind, blocks[Last].len)
      BY <1>2 DEF AssistantAgain, turnVars
    <2>2. Last \in 1 .. Last /\ blocks[Last].kind \in Kinds /\ blocks[Last].len \in Nat \ {0}
      BY <1>0, <2>1 DEF TextInv, Growing, Blocks
    <2>3. UNCHANGED <<acc, shown>>
      <3>1. CASE backend = "deltas"
        BY <2>1, <3>1 DEF TextInv, Growing, ConsumeBlock
      <3>2. CASE backend = "snapshots"
        <4>1. blocks[Last].len = acc.emitted[blocks[Last].kind]
          BY <1>0, <2>1, <3>2 DEF TextInv, Growing
        <4> QED
          BY <1>0, <2>1, <2>2, <3>2, <4>1, BlockShown
      <3> QED
        BY <3>1, <3>2 DEF TextInv, TextTyped
    <2>4. TextTyped' /\ Counting'
      BY <2>1, <2>3 DEF TextInv, TextTyped, Counting
    <2> QED
      BY <1>1, <2>1, <2>3, <2>4
  <1>3. CASE \E c \in Calls : ToolUse(c)
    <2>1. PICK c \in Calls : ToolUse(c)
      BY <1>3
    <2>2. /\ open' = FALSE /\ UNCHANGED <<blocks, shown, backend, round>>
          /\ acc' = [acc EXCEPT !.toolIds = @ \cup {c}]
      BY <2>1 DEF ToolUse, turnVars
    <2>3. /\ acc' \in [emitted : [Kinds -> Nat], hasStreamDeltas : BOOLEAN, toolIds : SUBSET Calls,
                       full : BOOLEAN]
          /\ acc'.hasStreamDeltas = acc.hasStreamDeltas /\ acc'.emitted = acc.emitted
      BY <1>0, <2>2
    <2>4. TextTyped' /\ Counting'
      BY <2>2, <2>3 DEF TextInv, TextTyped, Counting
    <2> QED
      BY <1>1, <2>2, <2>4
  <1>4. CASE ToolResults
    <2>1. /\ open' = FALSE /\ UNCHANGED <<blocks, shown, backend>> /\ round' = round + 1
          /\ acc' = [acc EXCEPT !.emitted = [k \in Kinds |-> 0]]
      BY <1>4 DEF ToolResults, turnVars, ResetForNewTurn
    <2>2. /\ acc' \in [emitted : [Kinds -> Nat], hasStreamDeltas : BOOLEAN, toolIds : SUBSET Calls,
                       full : BOOLEAN]
          /\ acc'.hasStreamDeltas = acc.hasStreamDeltas /\ \A k \in Kinds : acc'.emitted[k] = 0
      BY <1>0, <2>1
    <2>3. TextTyped'
      <3>1. round' \in Nat
        BY <1>0, <2>1
      <3> QED
        BY <2>1, <2>2, <3>1 DEF TextInv, TextTyped
    <2>4. \A b \in 1 .. Len(blocks) : blocks[b].round <= round + 1
      <3>1. \A b \in 1 .. Len(blocks) : blocks[b].round \in Nat /\ blocks[b].round <= round
        BY <1>0 DEF TextInv, Counting, Blocks
      <3> QED
        BY <1>0, <3>1
    <2>5. Counting'
      BY <2>1, <2>2, <2>4 DEF TextInv, Counting
    <2> QED
      BY <1>1, <2>1, <2>3, <2>5
  <1>5. CASE Begin
    <2>1. /\ open' = FALSE /\ blocks' = <<>> /\ shown' = <<>> /\ round' = 0 /\ backend' = backend
          /\ acc' = NewAccumulator
      BY <1>5 DEF Begin
    <2>2. /\ acc' \in [emitted : [Kinds -> Nat], hasStreamDeltas : BOOLEAN, toolIds : SUBSET Calls,
                       full : BOOLEAN]
          /\ ~acc'.hasStreamDeltas /\ \A k \in Kinds : acc'.emitted[k] = 0
      BY <2>1 DEF NewAccumulator
    <2>3. TextTyped'
      BY <2>1, <2>2 DEF TextInv, TextTyped
    <2> QED
      BY <2>1, <2>2, <2>3 DEF TextInv, Within, Growing, Counting, ShownOnceInOrder, NothingWithheld
  <1> QED
    BY <1>2, <1>3, <1>4, <1>5

LEMMA TextInit == AgentInit => TextInv
  <1> SUFFICES ASSUME AgentInit PROVE TextInv
    OBVIOUS
  <1>1. acc \in [emitted : [Kinds -> Nat], hasStreamDeltas : BOOLEAN, toolIds : SUBSET Calls,
                 full : BOOLEAN]
        /\ ~acc.hasStreamDeltas /\ \A k \in Kinds : acc.emitted[k] = 0
    BY DEF AgentInit, NewAccumulator
  <1>2. TextTyped
    BY <1>1 DEF AgentInit, TextTyped
  <1> QED
    BY <1>1, <1>2 DEF AgentInit, TextInv, Within, Growing, Counting, ShownOnceInOrder, NothingWithheld

LEMMA TextNext == TextInv /\ [AgentNext]_agentVars => TextInv'
  <1> SUFFICES ASSUME TextInv, [AgentNext]_agentVars PROVE TextInv'
    OBVIOUS
  <1>1. ASSUME UNCHANGED <<blocks, open, round, shown, acc, backend>> PROVE TextInv'
    BY <1>1 DEF TextInv, TextTyped, Within, Growing, Counting, ShownOnceInOrder, NothingWithheld,
                FirstOfRound, ShownWhole
  <1>2. CASE StreamEvent
    BY <1>2, DeltaStep
  <1>3. CASE Snapshot
    BY <1>3, SnapshotStep
  <1>4. CASE Result
    BY <1>4, ResultStep
  <1>5. CASE AssistantAgain \/ ToolResults \/ Begin \/ \E c \in Calls : ToolUse(c)
    BY <1>5, SilentStep
  <1>6. CASE UNCHANGED agentVars \/ Abort \/ Edit
    BY <1>1, <1>6 DEF agentVars, turnVars, textVars, Abort, Edit
  <1>7. CASE Fail
    <2>1. open' = FALSE /\ UNCHANGED <<blocks, round, shown, acc, backend>>
      BY <1>7 DEF Fail
    <2> QED
      BY <2>1 DEF TextInv, TextTyped, Within, Growing, Counting, ShownOnceInOrder, NothingWithheld,
                  FirstOfRound, ShownWhole
  <1>8. ASSUME NEW c \in Calls,
               \/ PreToolUse(c) \/ CallSubAgent(c) \/ Chunk(c) \/ AnswerEnds(c, TRUE) \/ AnswerEnds(c, FALSE)
               \/ SaveArtifact(c) \/ Copy(c) \/ Copied(c) \/ CopyFails(c)
        PROVE  TextInv'
    <2>1. UNCHANGED <<blocks, open, round, shown, acc, backend>>
      BY <1>8 DEF turnVars, textVars, PreToolUse, CallSubAgent, Chunk, AnswerEnds, SaveArtifact, Copy, Copied, CopyFails
    <2> QED
      BY <1>1, <2>1
  <1> QED
    BY <1>2, <1>3, <1>4, <1>5, <1>6, <1>7, <1>8 DEF AgentNext

\* The lengths the accumulator counts are those of the blocks the turn has shown.
THEOREM CountsAreTrue == AgentSpec => []TextInv
  BY TextInit, TextNext, PTL DEF AgentSpec

\* The text is shown once and in order, whatever mix of deltas, whole blocks and
\* repeated blocks the SDK sends (consumeStreamEvent, consumeAssistantBlock).
THEOREM OnceInOrder == AgentSpec => []ShownOnceInOrder
  <1>1. TextInv => ShownOnceInOrder
    BY DEF TextInv
  <1> QED
    BY <1>1, CountsAreTrue, PTL

\* No unit of a block is held back, but for a second block of a kind in a round
\* of a backend that sends no deltas (resetForNewTurn).
THEOREM AllIsShown == AgentSpec => []NothingWithheld
  <1>1. TextInv => NothingWithheld
    BY DEF TextInv
  <1> QED
    BY <1>1, CountsAreTrue, PTL

=============================================================================
