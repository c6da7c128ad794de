----------------------------- MODULE ChatStream -----------------------------
(***************************************************************************)
(* A chat session in the API: the stream manager that drives one turn      *)
(* (api/app/services/stream/manager.py), the WebSocket of each open tab    *)
(* (routers/sessions.py), the unread counter in Redis (redis_service.py)   *)
(* and the deletion of the session (session_service.py).                   *)
(*                                                                         *)
(* One session with one participant, its owner.  The tasks run in one      *)
(* event loop, so an action is what happens between two awaits; a task     *)
(* that is cancelled stops at its await.  The supervisor is the set of the *)
(* answers it may give (SupervisorStream).  The unread counter is kept as  *)
(* the set of the turns it counts, and only terminal events are told apart *)
(* on the session's channel.                                               *)
(***************************************************************************)
EXTENDS Naturals, Sequences, FiniteSets

CONSTANTS Tabs,    \* WebSocket connections of the owner
          Turns,   \* user messages
          NoTurn   \* the absent value

ASSUME NoTurnAssumption == NoTurn \notin Turns

VARIABLES pc,         \* where each turn is
          reached,    \* _run_stream's reached_runtime
          terminal,   \* the terminal event of each turn
          handling,   \* the turns whose task is in its `except Exception`
          active,     \* _active_streams[session_id]
          cleanup,    \* the tasks whose done-callback has not run yet
          userMsg,    \* the turns whose user message is in the database
          agentMsg,   \* the agent message stored for each turn
          exists,     \* the session's row
          deleting,   \* delete_session has been called
          unread,     \* session:{id}:unread:{user}, as the turns it counts
          published,  \* the turns whose terminal event was published
          ws,         \* each tab's WebSocket handler
          sending,    \* the turn a tab's handler is starting
          inbox,      \* terminal events a tab's relay has not handled
          relayed,    \* terminal events a tab's relay has handled on this connection
          replayed,   \* the turn a tab was replayed as in flight
          latest      \* session:{id}:latest_stream

task == <<pc, reached, terminal, handling>>
registry == <<active, cleanup>>
database == <<userMsg, agentMsg, exists, deleting>>
tab == <<ws, sending, inbox, relayed, replayed>>
vars == <<task, registry, database, unread, published, tab, latest>>

Terminals == {"done", "cancelled", "error"}

\* The awaits of a stream task; before it, the WebSocket's handler runs.
InTask == {"calling", "saving", "counting", "publishing", "notifying", "rolling", "erring"}
Over == {"done", "stopped", "dead"}

TypeOK == /\ pc \in [Turns -> {"new", "saved", "starting", "unwinding"} \cup InTask \cup Over]
          /\ reached \in [Turns -> BOOLEAN]
          /\ terminal \in [Turns -> Terminals \cup {"none"}]
          /\ handling \in SUBSET Turns
          /\ active \in Turns \cup {NoTurn}
          /\ cleanup \in SUBSET Turns
          /\ userMsg \in SUBSET Turns
          /\ agentMsg \in [Turns -> Terminals \cup {"none"}]
          /\ exists \in BOOLEAN
          /\ deleting \in BOOLEAN
          /\ unread \in SUBSET Turns
          /\ published \in SUBSET Turns
          /\ ws \in [Tabs -> {"off", "cleared", "replayed", "on"}]
          /\ sending \in [Tabs -> Turns \cup {NoTurn}]
          /\ inbox \in [Tabs -> Seq(Turns)]
          /\ relayed \in [Tabs -> SUBSET Turns]
          /\ replayed \in [Tabs -> Turns \cup {NoTurn}]
          /\ latest \in Turns \cup {NoTurn}

Init == /\ pc = [t \in Turns |-> "new"]
        /\ reached = [t \in Turns |-> FALSE]
        /\ terminal = [t \in Turns |-> "none"]
        /\ handling = {}
        /\ active = NoTurn
        /\ cleanup = {}
        /\ userMsg = {}
        /\ agentMsg = [t \in Turns |-> "none"]
        /\ exists = TRUE
        /\ deleting = FALSE
        /\ unread = {}
        /\ published = {}
        /\ ws = [w \in Tabs |-> "off"]
        /\ sending = [w \in Tabs |-> NoTurn]
        /\ inbox = [w \in Tabs |-> <<>>]
        /\ relayed = [w \in Tabs |-> {}]
        /\ replayed = [w \in Tabs |-> NoTurn]
        /\ latest = NoTurn

Goto(t, label) == pc' = [pc EXCEPT ![t] = label]

Subscribed(w) == ws[w] = "on"
InFlight(t) == pc[t] \in InTask

---------------------------------------------------------------------------
(* A message on a tab's WebSocket: the user's message is saved and         *)
(* published.  The handler starts the stream before it reads the next.     *)
Send(w, t) ==
  /\ exists
  /\ Subscribed(w)
  /\ sending[w] = NoTurn
  /\ pc[t] = "new"
  /\ Goto(t, "saved")
  /\ sending' = [sending EXCEPT ![w] = t]
  /\ userMsg' = userMsg \cup {t}
  /\ UNCHANGED <<reached, terminal, handling, registry, agentMsg, exists, deleting, unread,
                 published, ws, inbox, relayed, replayed, latest>>

\* task.cancel() on a task that is not done: it stops at its await.
Stopped(ts) == [t \in Turns |-> IF t \in ts /\ InFlight(t) THEN "unwinding" ELSE pc[t]]

\* start_stream up to its first await: a stream in flight is cancelled.
StartStream(t) ==
  /\ pc[t] = "saved"
  /\ pc' = [Stopped({active}) EXCEPT ![t] = "starting"]
  /\ UNCHANGED <<reached, terminal, handling, registry, database, unread, published, tab, latest>>

\* After its awaits: the task is created and registered; it calls the supervisor.
Register(t) ==
  /\ pc[t] = "starting"
  /\ Goto(t, "calling")
  /\ active' = t
  /\ latest' = t
  /\ sending' = [w \in Tabs |-> IF sending[w] = t THEN NoTurn ELSE sending[w]]
  /\ UNCHANGED <<reached, terminal, handling, cleanup, database, unread, published, ws, inbox,
                 relayed, replayed>>

\* The done-callback of a task, whichever task the registry holds by then.
Cleanup(t) ==
  /\ t \in cleanup
  /\ cleanup' = cleanup \ {t}
  /\ active' = NoTurn
  /\ UNCHANGED <<task, database, unread, published, tab, latest>>

\* Plausible bug: the cancelled task stores "[Cancelled]" before it returns.
UnwindPersists(t) ==
  /\ pc[t] = "unwinding"
  /\ Goto(t, "saving")
  /\ terminal' = [terminal EXCEPT ![t] = "cancelled"]
  /\ UNCHANGED <<reached, handling, registry, database, unread, published, tab, latest>>

\* A cancelled task has closed its connections and returns.
Unwind(t) ==
  /\ pc[t] = "unwinding"
  /\ Goto(t, "stopped")
  /\ cleanup' = cleanup \cup {t}
  /\ UNCHANGED <<reached, terminal, handling, active, database, unread, published, tab, latest>>

---------------------------------------------------------------------------
(* The supervisor answers: whether the turn reached the SDK, and how it    *)
(* ended.  "failed" is an exception: unreachable, or another status.       *)
Answers == {<<"complete", TRUE>>, <<"aborted", TRUE>>, <<"aborted", FALSE>>,
            <<"error", TRUE>>, <<"error", FALSE>>, <<"failed", FALSE>>}

\* An error is kept when the turn entered the SDK's history.
Kept(status, isReached) == status \in {"complete", "aborted"} \/ isReached

TerminalOf(status) == CASE status = "complete" -> "done"
                        [] status = "aborted" -> "cancelled"
                        [] OTHER -> "error"

(* _persist_and_broadcast's stages: save the agent message, INCR unread,   *)
(* publish the terminal event, notify the owner.                           *)
PublishThenCount(stage) ==         \* a plausible bug: publish before INCR
  CASE stage = "answered" -> "saving"     [] stage = "saving" -> "publishing"
    [] stage = "publishing" -> "counting" [] stage = "counting" -> "notifying"
PublishThenSave(stage) ==          \* a plausible bug: publish before the commit
  CASE stage = "answered" -> "publishing" [] stage = "publishing" -> "saving"
    [] stage = "saving" -> "counting"     [] stage = "counting" -> "notifying"
After(stage) ==
  CASE stage = "answered" -> "saving"     [] stage = "saving" -> "counting"
    [] stage = "counting" -> "publishing" [] stage = "publishing" -> "notifying"

Answer(t, status, isReached) ==
  /\ pc[t] = "calling"
  /\ reached' = [reached EXCEPT ![t] = isReached]
  /\ terminal' = [terminal EXCEPT ![t] = TerminalOf(status)]
  /\ Goto(t, IF Kept(status, isReached) THEN After("answered") ELSE "rolling")
  /\ handling' = IF status = "failed" THEN handling \cup {t} ELSE handling
  /\ UNCHANGED <<registry, database, unread, published, tab, latest>>

\* The agent message is committed.
Save(t) ==
  /\ pc[t] = "saving"
  /\ exists
  /\ Goto(t, After("saving"))
  /\ agentMsg' = [agentMsg EXCEPT ![t] = terminal[t]]
  /\ UNCHANGED <<reached, terminal, handling, registry, userMsg, exists, deleting, unread,
                 published, tab, latest>>

(* The database fails, or the session is gone: the `except Exception`      *)
(* stores an error message or rolls back.  There, a failure ends the task. *)
SaveFails(t) ==
  /\ pc[t] = "saving"
  /\ IF t \in handling
       THEN /\ Goto(t, "dead")
            /\ cleanup' = cleanup \cup {t}
            /\ UNCHANGED <<terminal, handling>>
       ELSE /\ Goto(t, IF reached[t] THEN "saving" ELSE "rolling")
            /\ handling' = handling \cup {t}
            /\ terminal' = [terminal EXCEPT ![t] = "error"]
            /\ UNCHANGED cleanup
  /\ UNCHANGED <<reached, active, database, unread, published, tab, latest>>

\* increment_unread for the owner.
Count(t) ==
  /\ pc[t] = "counting"
  /\ Goto(t, After("counting"))
  /\ unread' = unread \cup {t}
  /\ UNCHANGED <<reached, terminal, handling, registry, database, published, tab, latest>>

\* An event on the session's channel reaches the tabs subscribed to it.
Deliver(t) == /\ published' = published \cup {t}
              /\ inbox' = [w \in Tabs |-> IF Subscribed(w) THEN Append(inbox[w], t)
                                          ELSE inbox[w]]

PublishTerminal(t) ==
  /\ pc[t] = "publishing"
  /\ Goto(t, After("publishing"))
  /\ Deliver(t)
  /\ UNCHANGED <<reached, terminal, handling, registry, database, unread, ws, sending, relayed,
                 replayed, latest>>

\* The session_changed event, with the unread count as it is read then.
Notify(t) ==
  /\ pc[t] = "notifying"
  /\ Goto(t, "done")
  /\ cleanup' = cleanup \cup {t}
  /\ UNCHANGED <<reached, terminal, handling, active, database, unread, published, tab, latest>>

\* Plausible bug: the message is deleted, and nobody is told.
RollBackSilently(t) ==
  /\ pc[t] = "rolling"
  /\ Goto(t, "done")
  /\ userMsg' = userMsg \ {t}
  /\ cleanup' = cleanup \cup {t}
  /\ UNCHANGED <<reached, terminal, handling, active, agentMsg, exists, deleting, unread,
                 published, tab, latest>>

\* _rollback_and_publish_error: its own failure is swallowed.
RollBack(t) ==
  /\ pc[t] = "rolling"
  /\ Goto(t, "erring")
  /\ userMsg' \in {userMsg, userMsg \ {t}}
  /\ UNCHANGED <<reached, terminal, handling, registry, agentMsg, exists, deleting, unread,
                 published, tab, latest>>

PublishError(t) ==
  /\ pc[t] = "erring"
  /\ Goto(t, "done")
  /\ Deliver(t)
  /\ cleanup' = cleanup \cup {t}
  /\ UNCHANGED <<reached, terminal, handling, active, database, unread, ws, sending, relayed,
                 replayed, latest>>

\* _build_content_parts stands before the try: its failure ends the task.
PrepareFails(t) ==
  /\ pc[t] = "calling"
  /\ Goto(t, "dead")
  /\ cleanup' = cleanup \cup {t}
  /\ UNCHANGED <<reached, terminal, handling, active, database, unread, published, tab, latest>>

---------------------------------------------------------------------------
(* A tab connects: its owner has read the session.                         *)
Connect(w) ==
  /\ exists
  /\ ws[w] = "off"
  /\ ws' = [ws EXCEPT ![w] = "cleared"]
  /\ unread' = {}
  /\ UNCHANGED <<task, registry, database, published, sending, inbox, relayed, replayed,
                 latest>>

(* The latest stream is replayed if its status is "streaming", which the   *)
(* supervisor may have ended without its answer having arrived.            *)
Replay(w) ==
  /\ ws[w] = "cleared"
  /\ ws' = [ws EXCEPT ![w] = "replayed"]
  /\ \/ replayed' = [replayed EXCEPT ![w] = NoTurn]
     \/ /\ latest # NoTurn
        /\ pc[latest] \in {"calling", "unwinding"}
        /\ replayed' = [replayed EXCEPT ![w] = latest]
  /\ UNCHANGED <<task, registry, database, unread, published, sending, inbox, relayed, latest>>

\* Only then does it subscribe to the session's channel.
Subscribe(w) ==
  /\ ws[w] = "replayed"
  /\ ws' = [ws EXCEPT ![w] = "on"]
  /\ UNCHANGED <<task, registry, database, unread, published, sending, inbox, relayed, replayed,
                 latest>>

(* _relay_redis_events: the event is sent on, and the unread counter is    *)
(* deleted because an open WebSocket means the owner is watching.          *)
Relay(w) ==
  /\ ws[w] = "on"
  /\ inbox[w] # <<>>
  /\ inbox' = [inbox EXCEPT ![w] = Tail(@)]
  /\ relayed' = [relayed EXCEPT ![w] = @ \cup {Head(inbox[w])}]
  /\ replayed' = [replayed EXCEPT ![w] = NoTurn]
  /\ unread' = {}
  /\ UNCHANGED <<task, registry, database, published, ws, sending, latest>>

Disconnect(w) ==
  /\ ws[w] # "off"
  /\ ws' = [ws EXCEPT ![w] = "off"]
  /\ sending' = [sending EXCEPT ![w] = NoTurn]
  /\ inbox' = [inbox EXCEPT ![w] = <<>>]
  /\ relayed' = [relayed EXCEPT ![w] = {}]
  /\ replayed' = [replayed EXCEPT ![w] = NoTurn]
  /\ UNCHANGED <<task, registry, database, unread, published, latest>>

---------------------------------------------------------------------------
(* delete_session: the registered stream is cancelled; after several       *)
(* awaits the keys are deleted and the row goes, with its messages.        *)
Delete ==
  /\ ~deleting
  /\ deleting' = TRUE
  /\ pc' = Stopped({active})
  /\ UNCHANGED <<reached, terminal, handling, registry, userMsg, agentMsg, exists, unread,
                 published, tab, latest>>

DropRow ==
  /\ deleting
  /\ exists
  /\ exists' = FALSE
  /\ userMsg' = {}
  /\ agentMsg' = [t \in Turns |-> "none"]
  /\ unread' = {}
  /\ latest' = NoTurn
  /\ UNCHANGED <<task, registry, deleting, published, tab>>

---------------------------------------------------------------------------
TaskStep(t) == \/ Save(t)
               \/ SaveFails(t)
               \/ Count(t)
               \/ PublishTerminal(t)
               \/ Notify(t)
               \/ RollBack(t)
               \/ PublishError(t)
               \/ Unwind(t)
               \/ Cleanup(t)

TurnStep(t) == \/ \E w \in Tabs : Send(w, t)
               \/ StartStream(t)
               \/ Register(t)
               \/ \E a \in Answers : Answer(t, a[1], a[2])
               \/ PrepareFails(t)
               \/ TaskStep(t)

TabStep(w) == \/ Connect(w)
              \/ Replay(w)
              \/ Subscribe(w)
              \/ Relay(w)
              \/ Disconnect(w)

Next == \/ \E t \in Turns : TurnStep(t)
        \/ \E w \in Tabs : TabStep(w)
        \/ Delete
        \/ DropRow

Spec == Init /\ [][Next]_vars

\* The event loop runs every task that is ready.
FairSpec == Spec /\ \A t \in Turns : WF_vars(TaskStep(t))

---------------------------------------------------------------------------
(* Safety.                                                                 *)

(* "INCR before publish": a turn whose terminal event an open tab has been *)
(* sent is not counted unread, however the tasks and the relays interleave *)
(* and however many tabs are open.                                         *)
WatchedIsRead == \A w \in Tabs : relayed[w] \cap unread = {}

(* The API's terminal events are DB-consistent: a done or cancelled event, *)
(* or an error of a turn the SDK kept, is about a message that is stored   *)
(* with that outcome, as long as the session exists.  And "only roll back  *)
(* when it didn't" reach the runtime: a live session loses a user message  *)
(* only if its turn never entered the SDK's history and has no answer.     *)
EventHasRow ==
  exists =>
    /\ \A t \in published : \/ agentMsg[t] = terminal[t]
                            \/ terminal[t] = "error" /\ ~reached[t] /\ agentMsg[t] = "none"
    /\ \A t \in Turns : pc[t] # "new" /\ t \notin userMsg => ~reached[t] /\ agentMsg[t] = "none"

(* The outcome of a turn is decided once: a step never publishes a second  *)
(* terminal event for it, nor replaces its stored message.                 *)
OutcomeOnce ==
  [][\A t \in Turns :
       /\ t \in published => \A w \in Tabs : Len(inbox'[w]) > Len(inbox[w]) => inbox'[w][Len(inbox'[w])] # t
       /\ exists' /\ agentMsg[t] # "none" => agentMsg'[t] = agentMsg[t]]_vars

(* A turn that was answered concludes: its terminal event is published,    *)
(* unless its task was cancelled or the database failed it.                *)
Concludes ==
  \A t \in Turns : pc[t] \in {"saving", "rolling"} ~> t \in published \/ pc[t] \in {"stopped", "dead"}

(* Deleting a session cancels the in-flight stream task (cancel_session).  *)
DeleteStopsStreams ==
  [][deleting' /\ ~deleting => \A t \in Turns : ~(pc'[t] \in InTask)]_vars

=============================================================================
