----------------------------- MODULE ChatClient -----------------------------
(***************************************************************************)
(* One chat view of the web client: its history (use-chat-history), the    *)
(* blocks of the running turn (use-streaming-blocks), the socket with its  *)
(* backoff (use-session-websocket), the switch over the socket's events    *)
(* (use-chat-messages) and the composer (chat-input).                      *)
(*                                                                         *)
(* The API is kept to what the view can tell apart: rows of the session,   *)
(* a turn that publishes its events, the replay of a running stream, and   *)
(* relays that forward what is published once they subscribed.  Turn t has *)
(* the rows 2t-1 (the user's) and 2t (the agent's); turns come one after   *)
(* another (ChatStream has those that overlap), from this view or another. *)
(* A chunk stands for any event that adds to the blocks.                   *)
(***************************************************************************)
EXTENDS Lists, SequencesExt

CONSTANTS Turns,        \* 1 .. N; those up to OldTurns are over at the start
          OldTurns,
          PageSize,     \* rows of a history page
          MaxChunks, MaxBreaks,   \* bounds, with the sockets and requests in use
          Sockets, Requests,
          Impatient,    \* whether "Retry now" is pressed while a socket opens
          Nothing
ASSUME ChatConstants == OldTurns \in Nat /\ PageSize \in Nat \ {0}

UserRow(t) == 2 * t - 1
AgentRow(t) == 2 * t
IsAgent(row) == row > 0 /\ row % 2 = 0

VARIABLES
  db,         \* the rows of the session
  turn,       \* the last turn and how far it is: [id, at, chunks, ending]
  socket,     \* per socket: [at, reconnect, cancelled, inbox, wire]
  current,    \* wsRef
  status, timer, connectedOnce, streaming, streamId,
  messages, hasMore, blocks,
  request,    \* per request of history: Nothing or [kind, reply]
  loadingEarlier,
  breaks,     \* how many connections broke
  input       \* whether the composer holds something that can be sent
serverVars == <<db, turn, breaks>>
connVars == <<current, status, timer, connectedOnce>>
viewVars == <<streaming, streamId, blocks>>
historyVars == <<messages, hasMore, loadingEarlier, request>>
vars == <<serverVars, socket, connVars, viewVars, historyVars, input>>

LastRows(S) == {r \in S : Cardinality({q \in S : q > r}) < PageSize}
Page(S) == [rows |-> Sorted(LastRows(S)), more |-> Cardinality(S) > PageSize]
NoSocket == [at |-> "unused", reconnect |-> FALSE, cancelled |-> FALSE, inbox |-> <<>>,
             wire |-> FALSE]
Opening(isReconnect) == [NoSocket EXCEPT !.at = "opening", !.reconnect = isReconnect]

\* The view as its first history request came back and its first socket opens.
FirstSocket == CHOOSE s \in Sockets : TRUE
Init ==
  /\ db = UNION {{UserRow(t), AgentRow(t)} : t \in 1 .. OldTurns}
  /\ turn = [id |-> OldTurns, at |-> "over", chunks |-> 0, ending |-> Nothing]
  /\ socket = [s \in Sockets |-> IF s = FirstSocket THEN Opening(FALSE) ELSE NoSocket]
  /\ current = FirstSocket /\ status = "connecting" /\ timer = FALSE /\ connectedOnce = FALSE
  /\ streaming = FALSE /\ streamId = Nothing /\ blocks = <<>>
  /\ messages = Page(db).rows /\ hasMore = Page(db).more
  /\ request = [q \in Requests |-> Nothing] /\ loadingEarlier = FALSE
  /\ input = FALSE /\ breaks = 0

Event(e, t) == [e |-> e, turn |-> t, n |-> 0]
Chunk(t, n) == [e |-> "chunk", turn |-> t, n |-> n]
Replay == << Event("replay_start", turn.id) >>
          \o [n \in 1 .. turn.chunks |-> Chunk(turn.id, n)] \o << Event("replay_end", turn.id) >>

---------------------------------------------------------------------------
(* The API.  What is published reaches the sockets whose relay listens.    *)
Publish(event) ==
  socket' = [s \in Sockets |-> IF socket[s].at = "subscribed"
                               THEN [socket[s] EXCEPT !.inbox = Append(@, event)]
                               ELSE socket[s]]
client == <<connVars, viewVars, historyVars, input, breaks>>

\* A message, of this view or of another tab, is saved, then published.
SaveUser(t) ==
  /\ turn.at = "over" /\ t = turn.id + 1 /\ t \in Turns
  /\ \/ \E s \in Sockets : /\ socket[s].wire /\ socket[s].at = "subscribed"
                           /\ socket' = [socket EXCEPT ![s].wire = FALSE]
     \/ UNCHANGED socket
  /\ turn' = [id |-> t, at |-> "saved", chunks |-> 0, ending |-> Nothing]
  /\ db' = db \cup {UserRow(t)} /\ UNCHANGED client

PublishUser == /\ turn.at = "saved" /\ turn' = [turn EXCEPT !.at = "posted"]
               /\ Publish(Event("user_message", turn.id)) /\ UNCHANGED <<db, client>>

StreamStarted == /\ turn.at = "posted" /\ turn' = [turn EXCEPT !.at = "streaming"]
                 /\ Publish(Event("stream_started", turn.id)) /\ UNCHANGED <<db, client>>

PublishChunk == /\ turn.at = "streaming" /\ turn.chunks < MaxChunks
                /\ turn' = [turn EXCEPT !.chunks = @ + 1]
                /\ Publish(Chunk(turn.id, turn.chunks + 1)) /\ UNCHANGED <<db, client>>

\* The answer came: its row is saved, or the user's is rolled back.
EndTurn ==
  /\ turn.at \in {"posted", "streaming"}
  /\ \/ /\ turn.at = "streaming"
        /\ \E e \in {"done", "kept"} : turn' = [turn EXCEPT !.at = "ended", !.ending = e]
        /\ db' = db \cup {AgentRow(turn.id)}
     \/ /\ turn.chunks = 0 /\ turn' = [turn EXCEPT !.at = "ended", !.ending = "rollback"]
        /\ db' = db \ {UserRow(turn.id)}
  /\ UNCHANGED <<socket, client>>

PublishEnd == /\ turn.at = "ended"
              /\ turn' = [turn EXCEPT !.at = "over", !.chunks = 0, !.ending = Nothing]
              /\ Publish(Event(turn.ending, turn.id)) /\ UNCHANGED <<db, client>>

Serves(s, from, to, events) ==
  /\ socket[s].at = from
  /\ socket' = [socket EXCEPT ![s].at = to, ![s].inbox = @ \o events]
  /\ UNCHANGED <<serverVars, client>>
Accept(s) == Serves(s, "opening", "accepted", << Event("ready", 0) >>)
ReplayIfNeeded(s) ==
  Serves(s, "accepted", "replayed", IF turn.at = "streaming" THEN Replay ELSE <<>>)
Subscribe(s) == Serves(s, "replayed", "subscribed", <<>>)
\* The connection breaks, or was refused; what was on its way arrives or is lost.
Break(s) ==
  /\ socket[s].at \in {"opening", "accepted", "replayed", "subscribed"}
  /\ breaks < MaxBreaks /\ breaks' = breaks + 1
  /\ \E k \in {0, Len(socket[s].inbox)} :
       socket' = [socket EXCEPT ![s].at = "closed", ![s].wire = FALSE,
                    ![s].inbox = Append(SubSeq(@, 1, k), Event("close", 0))]
  /\ UNCHANGED <<db, turn, connVars, viewVars, historyVars, input>>

---------------------------------------------------------------------------
(* History requests: the API answers with the page as it is then, and the  *)
(* view applies the reply when it arrives.                                 *)
Ask(rq, kind, before) ==
  IF \E q \in Requests : rq[q] = Nothing
  THEN LET q == CHOOSE q \in Requests : rq[q] = Nothing IN
       [rq EXCEPT ![q] = [kind |-> kind, before |-> before, reply |-> Nothing]]
  ELSE rq

ServeHistory(q) ==
  /\ request[q] # Nothing /\ request[q].reply = Nothing
  /\ request' = [request EXCEPT ![q].reply =
                   IF request[q].kind = "reload" THEN Page(db)
                   ELSE Page({r \in db : r < request[q].before \/ request[q].before = 0})]
  /\ UNCHANGED <<serverVars, socket, connVars, viewVars, messages, hasMore, loadingEarlier, input>>

ReloadHistory(q) ==
  /\ request[q] # Nothing /\ request[q].kind = "reload" /\ request[q].reply # Nothing
  /\ messages' = request[q].reply.rows /\ hasMore' = request[q].reply.more
  /\ request' = [request EXCEPT ![q] = Nothing]
  /\ UNCHANGED <<serverVars, socket, connVars, viewVars, loadingEarlier, input>>

\* Scrolled near the top, or at a click.
MayLoadEarlier == hasMore /\ ~loadingEarlier
LoadEarlier ==
  /\ MayLoadEarlier /\ messages # <<>>
  /\ \E q \in Requests : request[q] = Nothing
  /\ request' = Ask(request, "earlier", messages[1]) /\ loadingEarlier' = TRUE
  /\ UNCHANGED <<serverVars, socket, connVars, viewVars, messages, hasMore, input>>

Prepended(page, ms) == Without(page, ToSet(ms)) \o ms
EarlierLoaded(q) ==
  /\ request[q] # Nothing /\ request[q].kind = "earlier" /\ request[q].reply # Nothing
  /\ messages' = Prepended(request[q].reply.rows, messages) /\ hasMore' = request[q].reply.more
  /\ request' = [request EXCEPT ![q] = Nothing] /\ loadingEarlier' = FALSE
  /\ UNCHANGED <<serverVars, socket, connVars, viewVars, input>>

\* A request fails: the list stays, and the next scroll may ask again.
HistoryFails(q) ==
  /\ request[q] # Nothing /\ request' = [request EXCEPT ![q] = Nothing]
  /\ loadingEarlier' = (loadingEarlier /\ request[q].kind # "earlier")
  /\ UNCHANGED <<serverVars, socket, connVars, viewVars, messages, hasMore, input>>

---------------------------------------------------------------------------
(* The socket's life. *)
Unused == {s \in Sockets : socket[s].at \in {"unused", "closed"} /\ socket[s].inbox = <<>>}
\* connect(): a socket whose handlers know whether this is a reconnection.
Connect(sk) ==
  \E s \in Unused :
    /\ socket' = [sk EXCEPT ![s] = Opening(connectedOnce)] /\ current' = s
    /\ status' = (IF connectedOnce THEN "reconnecting" ELSE "connecting") /\ timer' = FALSE

TimerFires == /\ timer /\ Connect(socket)
              /\ UNCHANGED <<serverVars, connectedOnce, viewVars, historyVars, input>>

\* The banner offers it while the status is "reconnecting".
RetryNow == /\ status = "reconnecting" /\ (Impatient \/ timer) /\ Connect(socket)
            /\ UNCHANGED <<serverVars, connectedOnce, viewVars, historyVars, input>>

\* The effect runs again (it is enabled anew): the old socket's handlers are cancelled.
CancelledBy(s) == TRUE
Rerun ==
  /\ status = "ready" /\ breaks < MaxBreaks /\ breaks' = breaks + 1
  /\ \E s \in Unused :
       /\ socket' = [x \in Sockets |-> IF x = s THEN Opening(FALSE)
                                       ELSE IF socket[x].inbox = <<>> THEN NoSocket
                                       ELSE [socket[x] EXCEPT !.cancelled = CancelledBy(x), !.wire = FALSE,
                                                              !.at = "closed"]]
       /\ current' = s
  /\ status' = "connecting" /\ timer' = FALSE /\ connectedOnce' = FALSE
  /\ UNCHANGED <<db, turn, viewVars, historyVars, input>>

---------------------------------------------------------------------------
(* One event of a socket: what the view does with it.                      *)
Hears(s, e) == socket[s].inbox # <<>> /\ ~socket[s].cancelled /\ Head(socket[s].inbox).e = e
Drops(s) == socket[s].inbox # <<>> /\ socket[s].cancelled
Taken(s) == IF socket[s].at = "closed" /\ Len(socket[s].inbox) = 1
            THEN [socket EXCEPT ![s] = NoSocket] ELSE [socket EXCEPT ![s].inbox = Tail(@)]
Took(s) == socket' = Taken(s)
The(s) == Head(socket[s].inbox).turn

OnReady(s) ==
  /\ Hears(s, "ready") /\ Took(s)
  /\ status' = "ready" /\ connectedOnce' = TRUE
  /\ request' = IF socket[s].reconnect THEN Ask(request, "reload", 0) ELSE request
  /\ UNCHANGED <<serverVars, current, timer, viewVars, messages, hasMore, loadingEarlier, input>>

\* The view forgets the turn and reloads; a reconnection is scheduled.
ForgetsTimer == timer                                      \* a plausible bug: nothing is scheduled
Scheduled == TRUE
OnClose(s) ==
  /\ Hears(s, "close") /\ Took(s)
  /\ blocks' = <<>> /\ streaming' = FALSE /\ streamId' = Nothing
  /\ request' = Ask(request, "reload", 0)
  /\ status' = "reconnecting" /\ timer' = Scheduled
  /\ UNCHANGED <<serverVars, current, connectedOnce, messages, hasMore, loadingEarlier, input>>

StaysConnected == UNCHANGED <<serverVars, connVars, hasMore, loadingEarlier, request>>
OnUserMessage(s) ==
  /\ Hears(s, "user_message") /\ Took(s) /\ streaming' = TRUE
  /\ messages' = Append(messages, UserRow(The(s)))
  /\ StaysConnected /\ UNCHANGED <<blocks, streamId, input>>

OnStreamStarted(s) ==
  /\ Hears(s, "stream_started") /\ Took(s) /\ streaming' = TRUE /\ streamId' = The(s)
  /\ StaysConnected /\ UNCHANGED <<blocks, messages, input>>

OnChunk(s) ==
  /\ Hears(s, "chunk") /\ Took(s)
  /\ blocks' = Append(blocks, <<The(s), Head(socket[s].inbox).n>>)
  /\ StaysConnected /\ UNCHANGED <<streaming, streamId, messages, input>>

KeepsBlocks == blocks                                      \* a plausible bug: no reset
ReplayBlocks == <<>>
OnReplay(s) ==
  /\ \/ Hears(s, "replay_start") /\ streaming' = TRUE /\ blocks' = ReplayBlocks
     \/ Hears(s, "replay_end") /\ UNCHANGED <<streaming, blocks>>
  /\ Took(s) /\ StaysConnected /\ UNCHANGED <<streamId, messages, input>>

\* done, cancelled, and an error the API kept: the answer becomes a message,
\* unless it has nothing in it or is there already.
AppendAlways(row) == Append(messages, row)                 \* a plausible bug
AppendUnique(row) == IF Contains(messages, row) THEN messages ELSE Append(messages, row)
HasBlocks == blocks # <<>>
OnEnd(s) ==
  /\ \E e \in {"done", "cancelled", "kept"} :
       /\ Hears(s, e)
       /\ messages' = IF ~HasBlocks /\ e # "kept" THEN messages
                      ELSE AppendUnique(AgentRow(The(s)))
  /\ Took(s) /\ blocks' = <<>> /\ streaming' = FALSE /\ streamId' = Nothing
  /\ StaysConnected /\ UNCHANGED input

\* The last user message gives way to a transient one, its text to the composer.
LastUser == {i \in DOMAIN messages : ~IsAgent(messages[i])
               /\ \A j \in DOMAIN messages : j > i => IsAgent(messages[j])}
OnRollback(s) ==
  /\ Hears(s, "rollback") /\ Took(s)
  /\ blocks' = <<>> /\ streaming' = FALSE /\ streamId' = Nothing
  /\ IF LastUser = {} THEN UNCHANGED <<messages, input>>
     ELSE \E i \in LastUser : /\ messages' = Append(RemoveAt(messages, i), 0)
                              /\ input' = TRUE
  /\ StaysConnected

Discard(s) == /\ Drops(s) /\ Took(s) /\ UNCHANGED <<serverVars, client>>

---------------------------------------------------------------------------
(* The composer: it can be sent once it has a text or an image whose       *)
(* upload is over, and none is being uploaded; it is cleared whether or    *)
(* not the socket took the message.  Nothing is begun that no turn is left *)
(* for (a bound).                                                          *)
HasTurnLeft == turn.id + 1 \in Turns
Type == /\ HasTurnLeft /\ ~input /\ input' = TRUE
        /\ UNCHANGED <<serverVars, socket, connVars, viewVars, historyVars>>

Usable == socket[current].at \in {"accepted", "replayed", "subscribed"}
CanSubmit == input /\ status = "ready" /\ ~streaming
Submit ==
  /\ CanSubmit
  /\ messages' = Without(messages, {0}) /\ input' = FALSE
  /\ IF Usable
     THEN /\ HasTurnLeft /\ ~socket[current].wire
          /\ socket' = [socket EXCEPT ![current].wire = TRUE] /\ streaming' = TRUE
     ELSE UNCHANGED <<socket, streaming>>
  /\ UNCHANGED <<serverVars, connVars, streamId, blocks, hasMore, loadingEarlier, request>>

\* Stop: the supervisor is asked to abort the stream the view knows of.
CanCancel == streaming /\ streamId # Nothing
Cancel == /\ CanCancel /\ Usable /\ turn.id = streamId /\ turn.at = "streaming"
          /\ turn' = [turn EXCEPT !.at = "ended", !.ending = "cancelled"]
          /\ db' = db \cup {AgentRow(turn.id)}
          /\ UNCHANGED <<socket, client>>

Compose == Type \/ Submit \/ Cancel
Heard(s) == \/ OnReady(s) \/ OnClose(s) \/ OnUserMessage(s) \/ OnStreamStarted(s) \/ OnChunk(s)
            \/ OnReplay(s) \/ OnEnd(s) \/ OnRollback(s) \/ Discard(s)
Served(s) == Accept(s) \/ ReplayIfNeeded(s) \/ Subscribe(s)
Next ==
  \/ \E t \in Turns : SaveUser(t)
  \/ PublishUser \/ StreamStarted \/ PublishChunk \/ EndTurn \/ PublishEnd
  \/ \E s \in Sockets : Served(s) \/ Break(s) \/ Heard(s)
  \/ \E q \in Requests : ServeHistory(q) \/ ReloadHistory(q) \/ EarlierLoaded(q) \/ HistoryFails(q)
  \/ LoadEarlier \/ TimerFires \/ RetryNow \/ Rerun \/ Compose
Spec == Init /\ [][Next]_vars

\* Timers fire, a socket's events are handled and the API goes on with what it began;
\* only what users do and failures may never happen.
FairSpec == Spec /\ WF_vars(TimerFires)
                 /\ \A s \in Sockets : WF_vars(Served(s)) /\ WF_vars(Heard(s))

---------------------------------------------------------------------------
(* Properties. *)

\* No agent message is listed twice, whichever of the terminal event, a reload and an
\* earlier page brings it, in any order (appendUniqueMessage and loadEarlier).
AgentMessagesOnce ==
  \A i, j \in DOMAIN messages : i # j /\ IsAgent(messages[i]) => messages[i] # messages[j]

\* The blocks on screen never repeat an event or show one before an earlier one, across
\* replays, reconnections and effects that ran again (replay_start resets).
Earlier(u, v) == u[1] < v[1] \/ (u[1] = v[1] /\ u[2] < v[2])
BlocksInOrder == \A i, j \in DOMAIN blocks : i < j => Earlier(blocks[i], blocks[j])

\* A view that lost its connection gets it back once connections stop breaking:
\* the backoff is never left without a timer (scheduleReconnect).
Reconnects == status # "ready" ~> status = "ready"
=============================================================================
