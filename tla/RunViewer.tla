------------------------------ MODULE RunViewer ------------------------------
(***************************************************************************)
(* A page that watches workflow runs (use-workflow-run, the test panel and *)
(* the run history), the run WebSocket of the API that feeds it, and the   *)
(* three places a run is recorded at: its row, the channel and the replay  *)
(* list.                                                                   *)
(*                                                                         *)
(* A run tells its story in two events: 1, it is running, with what it     *)
(* reports of its nodes on the way; 2, its end.  (WorkflowRun has the      *)
(* graph.)  Event 3 is the "cancelled" of a forced cancel, which the API   *)
(* publishes by itself.  A page may ask for more (view, trigger, resume)   *)
(* while it waits for an answer.                                           *)
(***************************************************************************)
EXTENDS Naturals, Sequences, FiniteSets

CONSTANTS Runs,
          Sockets,       \* bound: connections a page holds at one time
          Requests,      \* bound: calls a page waits for at one time
          MaxViews,      \* bound: calls a page makes
          MaxLosses,     \* bound: connections and requests that are lost
          Nothing

Swept == 3
Live == {"pending", "running"}
Terminal == {"completed", "failed", "cancelled"}

Calls == [op : {"view", "start"}, run : Runs \cup {Nothing},
          seen : {"none", Nothing} \cup Live \cup Terminal]
ASSUME NothingAssumption == Nothing \notin Calls

VARIABLES
  row,      \* the status in the run's row
  told,     \* [rows, channel, list]: how many events each holds by now
  expired,  \* the runs whose replay list has expired
  ended,    \* the runs a forced cancel has stopped
  socket,   \* [run, server, client, wire, sent]
  runId, runStatus, error, wsRef,
  request,  \* Nothing or [op, run, seen]
  views, losses
runVars == <<row, told, expired, ended>>
pageVars == <<runId, runStatus, error, wsRef>>
boundVars == <<views, losses>>
viewerVars == <<runVars, socket, pageVars, request, boundVars>>

NoSocket == [run |-> Nothing, server |-> "off", client |-> "off", wire |-> <<>>, sent |-> {}]
Opened(r) == [NoSocket EXCEPT !.run = r, !.server = "asked", !.client = "open"]

\* Some of the runs were started elsewhere before the page is opened.
ViewerInit ==
  /\ row \in [Runs -> {"none", "pending"}]
  /\ told = [r \in Runs |-> [rows |-> 0, channel |-> 0, list |-> 0]]
  /\ expired = {} /\ ended = {}
  /\ socket = [s \in Sockets |-> NoSocket]
  /\ runId = Nothing /\ runStatus = "idle" /\ error = FALSE /\ wsRef = Nothing
  /\ request = [q \in Requests |-> Nothing]
  /\ views = 0 /\ losses = 0

(***************************************************************************)
(* The worker writes the row, publishes, and appends to the replay list.   *)
(***************************************************************************)
StatusAfter(e) ==
  IF e = 1 THEN {"running"} ELSE Terminal

Commit(r) ==
  /\ row[r] \in Live /\ r \notin ended
  /\ told[r].rows = told[r].list
  /\ told' = [told EXCEPT ![r].rows = @ + 1]
  /\ \E status \in StatusAfter(told[r].rows + 1) : row' = [row EXCEPT ![r] = status]
  /\ UNCHANGED <<expired, ended, socket, pageVars, request, boundVars>>

Hears(s) == socket[s].server \in {"subscribed", "listening"}

Sent(s, e) == [s EXCEPT !.wire = Append(@, e), !.sent = @ \cup {e},
                        !.server = IF e >= 2 THEN "over" ELSE @]
Held(s, e) == [s EXCEPT !.wire = Append(@, e), !.sent = @ \cup {e}]
\* A socket that has not listened yet keeps what is published for after the replay.
Published(r, e) ==
  [s \in Sockets |->
     IF socket[s].run # r \/ ~Hears(s) THEN socket[s]
     ELSE IF socket[s].server = "listening" THEN Sent(socket[s], e) ELSE Held(socket[s], e)]

\* PUBLISH and RPUSH travel as one pipeline, which Redis is taken to run in one go.
Publish(r) ==
  LET e == told[r].channel + 1 IN
  /\ told[r].channel < told[r].rows
  /\ told' = [told EXCEPT ![r].channel = e, ![r].list = e]
  /\ socket' = Published(r, e)
  /\ UNCHANGED <<row, expired, ended, pageVars, request, boundVars>>

\* The list outlives the run by its TTL, which is far longer than a connection takes.
Expire(r) ==
  /\ row[r] \in Terminal /\ told[r].rows = told[r].list
  /\ \A s \in Sockets : socket[s].run = r => socket[s].server \in {"off", "asked", "over"}
  /\ expired' = expired \cup {r}
  /\ UNCHANGED <<row, told, ended, socket, pageVars, request, boundVars>>

\* A forced cancel, this page's or another's: published at once, committed later.
ForceCancel(r) ==
  /\ row[r] \in Live /\ r \notin ended /\ told[r].rows = told[r].list
  /\ ended' = ended \cup {r}
  /\ socket' = Published(r, Swept)
  /\ UNCHANGED <<row, told, expired, pageVars, request, boundVars>>

CommitCancel(r) ==
  /\ r \in ended /\ row[r] \in Live
  /\ row' = [row EXCEPT ![r] = "cancelled"]
  /\ UNCHANGED <<told, expired, ended, socket, pageVars, request, boundVars>>

(***************************************************************************)
(* The WebSocket handler: look at the row, subscribe, replay, listen.      *)
(***************************************************************************)
\* Plausible bug: the handler leaves the terminal run to the replay.
NeverOver(r) == FALSE
AlreadyOver(r) == row[r] \in Terminal

CheckRow(s) ==
  /\ socket[s].server = "asked"
  /\ socket' = [socket EXCEPT ![s] =
       IF AlreadyOver(@.run) THEN Sent(@, 2) ELSE [@ EXCEPT !.server = "checked"]]
  /\ UNCHANGED <<runVars, pageVars, request, boundVars>>

Subscribe(s) ==
  /\ socket[s].server = "checked"
  /\ socket' = [socket EXCEPT ![s].server = "subscribed"]
  /\ UNCHANGED <<runVars, pageVars, request, boundVars>>

ReplayList(r) == IF r \in expired THEN <<>> ELSE [e \in 1 .. told[r].list |-> e]

WithReplay(s, at) ==
  LET list == ReplayList(socket[s].run) IN
  [socket EXCEPT ![s].wire = list \o @, ![s].server = at,
                 ![s].sent = @ \cup {list[i] : i \in DOMAIN list}]

\* The end, when it waits behind the replay, is forwarded and ends the handler.
Replay(s) ==
  LET held == {socket[s].wire[i] : i \in DOMAIN socket[s].wire} IN
  /\ socket[s].server = "subscribed"
  /\ socket' = WithReplay(s, IF \E e \in held : e >= 2 THEN "over" ELSE "listening")
  /\ UNCHANGED <<runVars, pageVars, request, boundVars>>

\* Plausible bug: the handler replays first and subscribes then, as the chat's does.
ReplaysFirst(s) ==
  \/ CheckRow(s)
  \/ /\ \/ socket[s].server = "checked" /\ socket' = WithReplay(s, "replayed")
        \/ socket[s].server = "replayed" /\ socket' = [socket EXCEPT ![s].server = "listening"]
     /\ UNCHANGED <<runVars, pageVars, request, boundVars>>
ServerStep(s) == CheckRow(s) \/ Subscribe(s) \/ Replay(s)

(***************************************************************************)
(* The page's sockets.                                                     *)
(***************************************************************************)
EventStatus(r, e) == IF e = 1 THEN "running" ELSE IF e = Swept THEN "cancelled" ELSE row[r]

Receive(s) ==
  LET e == Head(socket[s].wire)
      status == EventStatus(socket[s].run, e) IN
  /\ socket[s].client = "open" /\ socket[s].server # "subscribed" /\ socket[s].wire # <<>>
  /\ runStatus' = status
  /\ error' = (error \/ status = "failed")
  /\ socket' = [socket EXCEPT ![s].wire = Tail(@),
                              ![s].client = IF status \in Terminal THEN "closing" ELSE @]
  /\ UNCHANGED <<runVars, runId, wsRef, request, boundVars>>

\* Whichever socket it was, its onclose forgets the current one.
OnClose(s) ==
  /\ socket[s].client = "closing"
  /\ socket' = [socket EXCEPT ![s] = NoSocket]
  /\ wsRef' = Nothing
  /\ UNCHANGED <<runVars, runId, runStatus, error, request, boundVars>>

\* A connection breaks: onerror and onclose; nothing connects again.
LoseSocket(s) ==
  /\ losses < MaxLosses /\ socket[s].client = "open"
  /\ losses' = losses + 1
  /\ socket' = [socket EXCEPT ![s] = NoSocket]
  /\ wsRef' = Nothing /\ error' = TRUE
  /\ UNCHANGED <<runVars, runId, runStatus, request, views>>

Unused == {s \in Sockets : socket[s].client = "off"}
Connect(r) ==
  LET s == CHOOSE u \in Unused : TRUE IN
  /\ Unused # {}
  /\ socket' = [socket EXCEPT ![s] = Opened(r)]
  /\ wsRef' = s

CloseCurrent ==
  /\ socket' = IF wsRef = Nothing THEN socket ELSE [socket EXCEPT ![wsRef].client = "closing"]
  /\ wsRef' = Nothing
Idle == {q \in Requests : request[q] = Nothing}
Ask(q, op, r) ==
  /\ views < MaxViews /\ views' = views + 1
  /\ Idle # {} /\ q = CHOOSE p \in Idle : TRUE
  /\ request' = [request EXCEPT ![q] = [op |-> op, run |-> r, seen |-> Nothing]]
  /\ error' = FALSE
  /\ UNCHANGED <<runVars, runId, losses>>

\* A run of the history is opened.
ViewRun(q, r) ==
  /\ row[r] # "none"
  /\ CloseCurrent /\ Ask(q, "view", r)
  /\ UNCHANGED runStatus
\* "Start run" of the trigger's input bar; the panel offers it while nothing runs.
TriggerRun(q) ==
  /\ runStatus \notin Live
  /\ Ask(q, "start", Nothing) /\ runStatus' = "pending"
  /\ UNCHANGED <<socket, wsRef>>
\* "Resume" of the footer, once the run on show is over.
ResumeRun(q) ==
  /\ runId # Nothing /\ runStatus \in Terminal
  /\ CloseCurrent /\ Ask(q, "start", Nothing) /\ runStatus' = "pending"

\* The API reads the row, or inserts and commits a new one before Temporal starts.
ServeView(q) ==
  /\ request[q].op = "view"
  /\ request' = [request EXCEPT ![q].seen = row[request[q].run]]
  /\ UNCHANGED row
ServeStart(q) == \E r \in Runs :
  /\ request[q].op = "start" /\ row[r] = "none"
  /\ row' = [row EXCEPT ![r] = "pending"]
  /\ request' = [request EXCEPT ![q].run = r, ![q].seen = "pending"]
Serve(q) ==
  /\ request[q] # Nothing /\ request[q].seen = Nothing
  /\ ServeView(q) \/ ServeStart(q)
  /\ UNCHANGED <<told, expired, ended, socket, pageVars, boundVars>>

\* Plausible bug: only a run that is "running" is followed.
OnlyRunning(status) == status = "running"
Followed(status) == status \notin Terminal

Answer(q) ==
  LET run == request[q].run
      status == request[q].seen IN
  /\ request[q] # Nothing /\ status # Nothing
  /\ request' = [request EXCEPT ![q] = Nothing]
  /\ runId' = run /\ runStatus' = status
  /\ error' = IF request[q].op = "view" THEN status = "failed" ELSE error
  /\ IF Followed(status) THEN Connect(run) ELSE UNCHANGED <<socket, wsRef>>
  /\ UNCHANGED <<runVars, boundVars>>

RequestFails(q) ==
  /\ losses < MaxLosses /\ request[q] # Nothing
  /\ losses' = losses + 1
  /\ request' = [request EXCEPT ![q] = Nothing]
  /\ error' = TRUE
  /\ runStatus' = IF request[q].op = "start" THEN "failed" ELSE runStatus
  /\ UNCHANGED <<runVars, socket, runId, wsRef, views>>

WorkerStep(r) == Commit(r) \/ Publish(r)
CancelStep(r) == ForceCancel(r) \/ CommitCancel(r)
PageStep(q) == (\E r \in Runs : ViewRun(q, r)) \/ TriggerRun(q) \/ ResumeRun(q)
RequestStep(q) == Serve(q) \/ Answer(q) \/ RequestFails(q)
ViewerNext ==
  \/ \E r \in Runs : WorkerStep(r) \/ CancelStep(r) \/ Expire(r)
  \/ \E s \in Sockets : ServerStep(s) \/ Receive(s) \/ OnClose(s) \/ LoseSocket(s)
  \/ \E q \in Requests : PageStep(q) \/ RequestStep(q)

ViewerSpec == ViewerInit /\ [][ViewerNext]_viewerVars
\* Handlers and the worker go on; the event loop delivers; nobody has to ask for anything.
FairViewer ==
  /\ ViewerSpec
  /\ \A r \in Runs : WF_viewerVars(Publish(r))
  /\ \A s \in Sockets : WF_viewerVars(ServerStep(s)) /\ WF_viewerVars(Receive(s))

(***************************************************************************)
(* Properties.                                                             *)
(***************************************************************************)
\* A connection that listens has been sent every event its run had published
\* so far, from the list or from the channel: workflow_run_ws subscribes first
\* and replays then, so that nothing slips in between.
NoEventSlips == \A s \in Sockets :
  socket[s].server = "listening" => 1 .. told[socket[s].run].channel \subseteq socket[s].sent

\* While the page shows a run as pending or running, waits for no answer and
\* shows no error, it holds an open connection: connectWs is called on every
\* way into a live status, and only a terminal event or another view closes it.
LiveIsWatched ==
  runStatus \in Live /\ Idle = Requests /\ ~error
    => \E s \in Sockets : socket[s].client = "open"

\* A connection to a run that the worker has ended tells the page so and is
\* closed by it, whenever it was opened: before, while or after the end was
\* written, published and listed, even once the list has expired.
EndIsShown == \A s \in Sockets :
  /\ socket[s].client = "open"
  /\ row[socket[s].run] \in Terminal
  /\ socket[s].run \notin ended
  ~> socket[s].client # "open"
=============================================================================
