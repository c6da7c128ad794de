--------------------------- MODULE RuntimeSession ---------------------------
(***************************************************************************)
(* The agent runtime's session registry, per-entry mutex, abort registry   *)
(* and shutdown (runtime/src/session-manager.ts, runtime/src/server.ts).   *)
(*                                                                         *)
(* The runtime is one Node process.  A callback runs to its end, with the  *)
(* promise continuations it releases, before the next event is handled, so *)
(* an action is one such run: the accepting half of POST /message up to    *)
(* `await acquire()`, the end of a turn with the hand-over of the lock to  *)
(* the next waiter, the close of a client's connection, POST /abort,       *)
(* DELETE /sessions, a signal, a poll of the shutdown loop.                *)
(*                                                                         *)
(* A request is used once.  An entry of the session map is named after the *)
(* request whose getOrCreate made it, so two entries of one key have two   *)
(* names, as the code has two mutexes.                                     *)
(***************************************************************************)
EXTENDS Naturals, Sequences

CONSTANTS Sessions,   \* session ids
          Agents,     \* agent ids
          Requests,   \* POST /message requests
          Nobody      \* the absent value of a Map lookup

ASSUME NobodyAssumption == Nobody \notin Requests

VARIABLES sessions,     \* SessionManager._sessions: key -> entry or Nobody
          locked,       \* the entries whose mutex has _locked set
          queue,        \* _queue of each entry's mutex
          controllers,  \* activeAbortControllers: key -> request or Nobody
          pc,           \* where each request's handler is
          key,          \* the key of each accepted request
          entry,        \* the entry whose mutex the request acquires
          signals,      \* the requests whose abortController.signal is aborted
          closed,       \* the requests whose client has closed the connection
          workspace,    \* the keys whose directories exist on the volume
          dropped,      \* the keys whose DELETE was answered after their last message
          arrived,      \* observation: the requests in the order they were accepted
          mode          \* the process: serving, draining (after a signal) or down

Keys == Sessions \X Agents

PcValues == {"new", "queued", "running", "done", "killed"}

request == <<pc, key, entry, signals, closed>>
process == <<sessions, locked, queue, controllers>>
vars == <<process, request, workspace, dropped, arrived, mode>>

TypeOK == /\ sessions \in [Keys -> Requests \cup {Nobody}]
          /\ locked \in SUBSET Requests
          /\ queue \in [Requests -> Seq(Requests)]
          /\ controllers \in [Keys -> Requests \cup {Nobody}]
          /\ pc \in [Requests -> PcValues]
          /\ key \in [Requests -> Keys \cup {Nobody}]
          /\ entry \in [Requests -> Requests \cup {Nobody}]
          /\ signals \in SUBSET Requests
          /\ closed \in SUBSET Requests
          /\ workspace \in SUBSET Keys
          /\ dropped \in SUBSET Keys
          /\ arrived \in Seq(Requests)
          /\ mode \in {"serving", "draining", "down"}

\* The memory of a process that has just started.
NoSessions == [k \in Keys |-> Nobody]
NoWaiters == [e \in Requests |-> <<>>]

Init == /\ sessions = NoSessions
        /\ controllers = NoSessions
        /\ locked = {}
        /\ queue = NoWaiters
        /\ pc = [r \in Requests |-> "new"]
        /\ key = [r \in Requests |-> Nobody]
        /\ entry = [r \in Requests |-> Nobody]
        /\ signals = {}
        /\ closed = {}
        /\ workspace = {}
        /\ dropped = {}
        /\ arrived = <<>>
        /\ mode = "serving"

---------------------------------------------------------------------------
\* The entry getOrCreate returns to r: the registered one, else a new one.
EntryFor(r, k) == IF sessions[k] = Nobody THEN r ELSE sessions[k]

\* tryAcquire sees the mutex taken.
NeverTaken(e) == FALSE                  \* a plausible bug: _locked is not consulted
TakenIfWaited(e) == queue[e] # <<>>     \* a plausible bug: consults the queue instead
Taken(e) == e \in locked

\* release() finds a waiter, its head, and shifts it out of the queue.
NoWakeUp(e) == FALSE                    \* a plausible bug: release() wakes nobody
WakesFromTwo(e) == Len(queue[e]) > 1    \* a plausible bug: off by one
HasWaiter(e) == queue[e] # <<>>
LastWaiter(e) == queue[e][Len(queue[e])]   \* a plausible bug: pop() for shift()
NextWaiter(e) == Head(queue[e])
WaitersLeft(e) == Tail(queue[e])

\* The finally block: the key's controller is dropped and its entry removed.
KeepController(k) == controllers        \* a plausible bug: the delete is missing
DropController(k) == [controllers EXCEPT ![k] = Nobody]
KeepEntry(k) == sessions                \* a plausible bug: remove() is not called
RemoveEntry(k) == [sessions EXCEPT ![k] = Nobody]

(* POST /message up to the await: look the entry up or create it with its  *)
(* directories, then acquire its mutex.  A free mutex is taken and the     *)
(* turn starts: its abort controller is registered, the close listener is  *)
(* attached and processMessage makes the directories.  A held mutex queues *)
(* the request.                                                            *)
Accept(r, k) ==
  LET e == EntryFor(r, k) IN
    /\ mode = "serving"
    /\ pc[r] = "new"
    /\ sessions' = [sessions EXCEPT ![k] = e]
    /\ key' = [key EXCEPT ![r] = k]
    /\ entry' = [entry EXCEPT ![r] = e]
    /\ arrived' = Append(arrived, r)
    /\ dropped' = dropped \ {k}
    /\ \/ /\ ~Taken(e)
          /\ locked' = locked \cup {e}
          /\ controllers' = [controllers EXCEPT ![k] = r]
          /\ pc' = [pc EXCEPT ![r] = "running"]
          /\ workspace' = workspace \cup {k}
          /\ UNCHANGED queue
       \/ /\ Taken(e)
          /\ queue' = [queue EXCEPT ![e] = Append(@, r)]
          /\ pc' = [pc EXCEPT ![r] = "queued"]
          /\ workspace' = IF e = r THEN workspace \cup {k} ELSE workspace
          /\ UNCHANGED <<locked, controllers>>
    /\ UNCHANGED <<signals, closed, mode>>

(* The end of a turn, normal or not: the finally block drops the key's     *)
(* abort controller, releases the mutex and removes the key's entry from   *)
(* the map.  Nobody waits: the mutex is left free.                         *)
FinishLast(r) ==
  /\ pc[r] = "running"
  /\ ~HasWaiter(entry[r])
  /\ pc' = [pc EXCEPT ![r] = "done"]
  /\ locked' = locked \ {entry[r]}
  /\ controllers' = DropController(key[r])
  /\ sessions' = RemoveEntry(key[r])
  /\ UNCHANGED <<queue, key, entry, signals, closed, workspace, dropped, arrived, mode>>

(* The same with a waiter: release() frees the mutex and calls the head of *)
(* the queue, which takes it again; after the finally block its            *)
(* continuation registers its controller and starts its turn.              *)
FinishHandOver(r) ==
  LET e == entry[r]
      next == NextWaiter(e) IN
    /\ pc[r] = "running"
    /\ HasWaiter(e)
    /\ pc' = [pc EXCEPT ![r] = "done", ![next] = "running"]
    /\ queue' = [queue EXCEPT ![e] = WaitersLeft(e)]
    /\ controllers' = [DropController(key[r]) EXCEPT ![key[next]] = next]
    /\ sessions' = RemoveEntry(key[r])
    /\ workspace' = workspace \cup {key[next]}
    /\ UNCHANGED <<locked, key, entry, signals, closed, dropped, arrived, mode>>

Finish(r) == FinishLast(r) \/ FinishHandOver(r)

(* The client closes its connection.  The listener that aborts the turn is *)
(* attached only once the mutex is held.                                   *)
Disconnect(r) ==
  /\ pc[r] \in {"queued", "running"}
  /\ r \notin closed
  /\ closed' = closed \cup {r}
  /\ signals' = IF pc[r] = "running" THEN signals \cup {r} ELSE signals
  /\ UNCHANGED <<process, pc, key, entry, workspace, dropped, arrived, mode>>

(* POST /abort/:sessionId for the keys ks: one agent's key, or every key   *)
(* of the session.  Without a registered controller it is a 404.           *)
AbortKeys(ks) ==
  LET hit == {controllers[k] : k \in ks} \ {Nobody} IN
    /\ mode = "serving"
    /\ hit # {}
    /\ signals' = signals \cup hit
    /\ controllers' = [k \in Keys |-> IF k \in ks THEN Nobody ELSE controllers[k]]
    /\ UNCHANGED <<sessions, locked, queue, pc, key, entry, closed, workspace, dropped,
                   arrived, mode>>

Abort(k) == AbortKeys({k})
AbortSession(s) == AbortKeys({s} \X Agents)

(* DELETE /sessions/:sessionId: remove(.., cleanupFiles = true) deletes    *)
(* the directories only when the key has an entry; otherwise it is a 404,  *)
(* which the supervisor reports as success.                                *)
Delete(k) ==
  /\ mode = "serving"
  /\ k \notin dropped
  /\ dropped' = dropped \cup {k}
  /\ sessions' = [sessions EXCEPT ![k] = Nobody]
  /\ workspace' = IF sessions[k] = Nobody THEN workspace ELSE workspace \ {k}
  /\ UNCHANGED <<locked, queue, controllers, request, arrived, mode>>

---------------------------------------------------------------------------
\* SIGTERM or SIGINT: not ready, no new connection, then wait for the map.
Signal == /\ mode = "serving"
          /\ mode' = "draining"
          /\ UNCHANGED <<process, request, workspace, dropped, arrived>>

\* The process is gone: its memory is lost and its requests die with it.
Down == /\ mode' = "down"
        /\ sessions' = NoSessions
        /\ controllers' = NoSessions
        /\ locked' = {}
        /\ queue' = NoWaiters
        /\ pc' = [r \in Requests |-> IF pc[r] \in {"queued", "running"}
                                     THEN "killed" ELSE pc[r]]
        /\ UNCHANGED <<key, entry, signals, closed, workspace, dropped, arrived>>

\* gracefulShutdown: a poll finds no registered session.
ExitDrained == mode = "draining" /\ (\A k \in Keys : sessions[k] = Nobody) /\ Down

\* gracefulShutdown: the deadline passes; or a kill or a crash at any time.
Die == mode # "down" /\ Down

\* The pod comes back with the volume it had.
Restart == /\ mode = "down"
           /\ mode' = "serving"
           /\ UNCHANGED <<process, request, workspace, dropped, arrived>>

Next == \/ \E r \in Requests, k \in Keys : Accept(r, k)
        \/ \E r \in Requests : FinishLast(r)
        \/ \E r \in Requests : FinishHandOver(r)
        \/ \E r \in Requests : Disconnect(r)
        \/ \E k \in Keys : Abort(k)
        \/ \E s \in Sessions : AbortSession(s)
        \/ \E k \in Keys : Delete(k)
        \/ Signal
        \/ ExitDrained
        \/ Die
        \/ Restart

Spec == Init /\ [][Next]_vars

\* Every turn ends: the SDK's query returns, fails, or stops on its abort.
FairSpec == Spec /\ \A r \in Requests : WF_vars(Finish(r))

---------------------------------------------------------------------------
(* Safety.                                                                 *)

(* A mutex has one holder: two turns that were given the same entry never  *)
(* run together, whatever was queued, finished, deleted or aborted between *)
(* (createMutex).                                                          *)
EntryExclusive ==
  \A r, s \in Requests :
    pc[r] = "running" /\ pc[s] = "running" /\ entry[r] = entry[s] => r = s

(* No wake-up is lost: a queued request stands in the queue of its own     *)
(* entry and another request holds that entry, so someone will release it  *)
(* (the queue.push / shift pair of createMutex).                           *)
NoLostWaiter ==
  \A r \in Requests : pc[r] = "queued" =>
    /\ \E i \in 1 .. Len(queue[entry[r]]) : queue[entry[r]][i] = r
    /\ \E s \in Requests : pc[s] = "running" /\ entry[s] = entry[r]

(* The abort registry only names turns in flight, of the key they are      *)
(* filed under: POST /abort never answers "aborted" for a finished turn,   *)
(* although a turn deletes whatever its key holds.                         *)
ControllerLive ==
  \A k \in Keys : controllers[k] # Nobody =>
    pc[controllers[k]] = "running" /\ key[controllers[k]] = k

(* A session that GET /sessions lists, and that the shutdown loop counts,  *)
(* has a turn in flight on its registered entry, and that very turn is the *)
(* one POST /abort reaches unless it has been aborted already.             *)
RegisteredIsAbortable ==
  \A k \in Keys : sessions[k] # Nobody =>
    \E r \in Requests : /\ pc[r] = "running"
                        /\ entry[r] = sessions[k]
                        /\ key[r] = k
                        /\ controllers[k] = r \/ r \in signals

(* Action properties and liveness.                                         *)

\* r was accepted before s.
Before(r, s) == \E i, j \in 1 .. Len(arrived) : i < j /\ arrived[i] = r /\ arrived[j] = s

(* Requests that wait for the same entry start in the order they arrived:  *)
(* a step never starts one and leaves an earlier one in the queue.         *)
FifoPerEntry ==
  [][\A r, s \in Requests :
       pc[s] = "queued" /\ pc'[s] = "running" /\ pc'[r] = "queued" /\ entry[r] = entry[s]
         => ~Before(r, s)]_vars

(* The mutex of an entry is a lock in the sense of TurnLock: held by one   *)
(* request, handed straight to a waiter when it is given up.               *)
Phase(p) == CASE p = "new" -> "idle"
              [] p = "queued" -> "waiting"
              [] p = "running" -> "holding"
              [] OTHER -> "gone"

TL == INSTANCE TurnLock WITH Locks <- Requests, NoLock <- Nobody, lockOf <- entry,
                             phase <- [r \in Requests |-> Phase(pc[r])]
TurnLockSpec == TL!Spec

(* Nobody starves: an accepted request gets its turn, though its entry may *)
(* have left the map, unless the process goes down.                        *)
Served == \A r \in Requests : pc[r] = "queued" ~> pc[r] # "queued"
=============================================================================
