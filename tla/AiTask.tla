------------------------------- MODULE AiTask -------------------------------
(***************************************************************************)
(* The life of an AI task in the FastAPI backend                           *)
(* (src/apps/api-fastapi/app/ai_runtime.py): the background coroutine      *)
(* _process_task, the HTTP handlers cancel and stream_task, and what they  *)
(* share - the status key, the cancel flag and the event stream in Redis,  *)
(* the ai_interactions row in Postgres and the table _LOCAL_TASKS.         *)
(*                                                                         *)
(* Every `await` of the code is a step: another handler, or the coroutine, *)
(* may run before it returns.  A command that is abandoned because its     *)
(* coroutine was cancelled, or that raises, may or may not have been       *)
(* executed by Redis or Postgres.                                          *)
(***************************************************************************)
EXTENDS Naturals, Sequences

CONSTANTS
  Task,          \* task ids
  Canceller,     \* POST .../cancel requests
  Viewer,        \* clients of GET .../stream
  NoTask,        \* the task of a request that has not been made
  MaxChunks,     \* bound: pieces the provider yields for one task
  BufferLimit,   \* EVENT_BUFFER_LIMIT (512 in the code)
  MaxCrashes,    \* bound: crashes of the API process
  RedisFaults    \* whether Redis commands may raise

ASSUME AiTaskAssumption ==
  /\ NoTask \notin Task
  /\ MaxChunks \in Nat
  /\ BufferLimit \in Nat \ {0}
  /\ MaxCrashes \in Nat
  /\ RedisFaults \in BOOLEAN

VARIABLES
  ppc,        \* where the coroutine of a task is
  known,      \* the task's meta key exists
  status,     \* the task's status key
  cancelFlag, \* the task's cancel key
  log,        \* every event ever added to the task's stream
  trimmed,    \* how many of them XADD ... MAXLEN has dropped
  row,        \* status of the task's ai_interactions row
  chunks,     \* pieces taken from the provider
  cpc,        \* where a cancel request is, or its answer
  ctask,      \* the task it is about
  cread,      \* the status it read
  vpc,        \* "idle", "streaming" or the terminal event it was closed by
  vtask,      \* the task it watches
  cursor,     \* the last stream entry it was sent
  crashes     \* crashes so far

procVars == <<ppc, chunks>>
redisVars == <<status, cancelFlag, log, trimmed>>
cancelVars == <<cpc, ctask, cread>>
viewVars == <<vpc, vtask, cursor>>
vars == <<procVars, known, redisVars, row, cancelVars, viewVars, crashes>>

-----------------------------------------------------------------------------
(* The awaits of _process_task, named for the call that is awaited.        *)

\* Up to the command that stores "completed".
Producing == {"storeProcessing", "publishStarted", "nextChunk", "checkCancel",
              "publishChunk", "storeChunk", "finalCheck", "storeCompleted"}
\* From there to the end of the try body.
Finishing == {"publishComplete", "clearDone", "insertPending"}
\* _handle_cancelled called from the try body, after the flag was seen.
Stopping == {"stopStore", "stopPublish", "stopClear"}
\* _handle_cancelled called from `except asyncio.CancelledError`.
Aborting == {"abortStore", "abortPublish", "abortClear"}
\* The `except Exception` block.
Failing == {"failStore", "failPublish", "failClear", "failInsert"}

\* The INSERT that local_task.cancel() interrupts: psycopg waits for its end
\* before it raises CancelledError.
Settling == {"settleInsert"}

InTry == Producing \union Finishing \union Stopping \union Settling
Running == InTry \union Aborting \union Failing

StatusCommands == {"storeProcessing", "storeChunk", "storeCompleted",
                   "stopStore", "abortStore", "failStore"}
EventCommands == {"publishStarted", "publishChunk", "publishComplete",
                  "stopPublish", "abortPublish", "failPublish"}
ClearCommands == {"clearDone", "stopClear", "abortClear", "failClear"}
InsertCommands == {"insertPending", "settleInsert", "failInsert"}
Commands == StatusCommands \union EventCommands \union ClearCommands
              \union InsertCommands

\* Mutant: the event's name "complete" stored as the status.
StatusWrittenMisnamed(pc) ==
  CASE pc \in {"storeProcessing", "storeChunk"} -> "processing"
    [] pc = "storeCompleted"                    -> "complete"
    [] pc \in {"stopStore", "abortStore"}       -> "cancelled"
    [] pc = "failStore"                         -> "failed"

StatusWritten(pc) ==
  CASE pc \in {"storeProcessing", "storeChunk"} -> "processing"
    [] pc = "storeCompleted"                    -> "completed"
    [] pc \in {"stopStore", "abortStore"}       -> "cancelled"
    [] pc = "failStore"                         -> "failed"

EventWritten(pc) ==
  CASE pc = "publishStarted"                  -> "started"
    [] pc = "publishChunk"                    -> "chunk"
    [] pc = "publishComplete"                 -> "complete"
    [] pc \in {"stopPublish", "abortPublish"} -> "cancelled"
    [] pc = "failPublish"                     -> "failed"

\* The await that follows a command that returned.
Successor(pc) ==
  CASE pc = "storeProcessing" -> "publishStarted"
    [] pc = "publishStarted"  -> "nextChunk"
    [] pc = "publishChunk"    -> "storeChunk"
    [] pc = "storeChunk"      -> "nextChunk"
    [] pc = "storeCompleted"  -> "publishComplete"
    [] pc = "publishComplete" -> "clearDone"
    [] pc = "clearDone"       -> "insertPending"
    [] pc = "settleInsert"    -> "abortStore"
    [] pc = "stopStore"       -> "stopPublish"
    [] pc = "stopPublish"     -> "stopClear"
    [] pc = "abortStore"      -> "abortPublish"
    [] pc = "abortPublish"    -> "abortClear"
    [] pc = "failStore"       -> "failPublish"
    [] pc = "failPublish"     -> "failClear"
    [] pc = "failClear"       -> "failInsert"
    [] pc \in {"insertPending", "stopClear", "abortClear", "failInsert"} -> "done"

\* Mutants: no return after _handle_cancelled in the loop; the except block for
\* CancelledError falls through to the INSERT; a failed generation is resumed;
\* _handle_cancelled does not publish.
AfterWithoutReturn(pc) == IF pc = "stopClear" THEN "nextChunk" ELSE Successor(pc)
AfterFallThrough(pc) == IF pc = "abortClear" THEN "insertPending" ELSE Successor(pc)
AfterResumed(pc) == IF pc = "failPublish" THEN "nextChunk" ELSE Successor(pc)
AfterUnpublished(pc) == IF pc = "stopStore" THEN "stopClear" ELSE Successor(pc)

After(pc) == Successor(pc)

TerminalEvent == {"complete", "failed", "cancelled"}
TerminalStatus == {"completed", "failed", "cancelled"}
Answer == {"conflict", "cancelled", "cancelling", "notfound", "error"}

Init ==
  /\ ppc = [t \in Task |-> "absent"]
  /\ known = [t \in Task |-> FALSE]
  /\ status = [t \in Task |-> "none"]
  /\ cancelFlag = [t \in Task |-> FALSE]
  /\ log = [t \in Task |-> <<>>]
  /\ trimmed = [t \in Task |-> 0]
  /\ row = [t \in Task |-> "none"]
  /\ chunks = [t \in Task |-> 0]
  /\ cpc = [c \in Canceller |-> "idle"]
  /\ ctask = [c \in Canceller |-> NoTask]
  /\ cread = [c \in Canceller |-> "none"]
  /\ vpc = [v \in Viewer |-> "idle"]
  /\ vtask = [v \in Viewer |-> NoTask]
  /\ cursor = [v \in Viewer |-> 0]
  /\ crashes = 0

-----------------------------------------------------------------------------
(* Commands on the shared state.                                           *)

\* store_task_status: SET of the status key.
StoreTaskStatus(t, s) ==
  /\ status' = [status EXCEPT ![t] = s]
  /\ UNCHANGED <<cancelFlag, log, trimmed>>

\* publish_event: XADD with an approximate MAXLEN, so that any number of
\* entries beyond the limit is dropped from the head.
PublishEvent(t, e) ==
  /\ log' = [log EXCEPT ![t] = Append(@, e)]
  /\ \E k \in trimmed[t] .. Len(log[t]) + 1 :
       /\ k = trimmed[t] \/ k + BufferLimit <= Len(log[t]) + 1
       /\ trimmed' = [trimmed EXCEPT ![t] = k]
  /\ UNCHANGED <<status, cancelFlag>>

\* request_cancel and clear_cancel_request: SET and DEL of the cancel key.
WriteCancelFlag(t, b) ==
  /\ cancelFlag' = [cancelFlag EXCEPT ![t] = b]
  /\ UNCHANGED <<status, log, trimmed>>

\* Mutant: ON CONFLICT DO UPDATE.
InsertInteractionOverwriting(t, pc) ==
  row' = [row EXCEPT ![t] = IF pc = "failInsert" THEN "failed" ELSE "pending"]

\* The final INSERT; the one of the except block is ON CONFLICT DO NOTHING.
InsertInteraction(t, pc) ==
  row' = [row EXCEPT ![t] = IF pc # "failInsert" THEN "pending"
                            ELSE IF @ = "none" THEN "failed" ELSE @]

\* What the command the coroutine is waiting for does.
Execute(t) ==
  LET pc == ppc[t] IN
  \/ pc \in StatusCommands /\ StoreTaskStatus(t, StatusWritten(pc)) /\ UNCHANGED row
  \/ pc \in EventCommands /\ PublishEvent(t, EventWritten(pc)) /\ UNCHANGED row
  \/ pc \in ClearCommands /\ WriteCancelFlag(t, FALSE) /\ UNCHANGED row
  \/ pc \in InsertCommands /\ InsertInteraction(t, pc) /\ UNCHANGED redisVars

\* A command whose reply is never used was executed, or was not.
MaybeExecute(t) ==
  Execute(t) \/ UNCHANGED <<redisVars, row>>

-----------------------------------------------------------------------------
(* invoke.  The id is unknown to everyone but invoke until it returns, so  *)
(* its three writes and the creation of the coroutine are one step; the    *)
(* coroutine reaches its first await before any request can name the task. *)

Invoke(t) ==
  /\ ppc[t] = "absent"
  /\ known' = [known EXCEPT ![t] = TRUE]
  /\ status' = [status EXCEPT ![t] = "queued"]
  /\ log' = [log EXCEPT ![t] = Append(@, "queued")]
  /\ ppc' = [ppc EXCEPT ![t] = "storeProcessing"]
  /\ UNCHANGED <<cancelFlag, trimmed, row, chunks, cancelVars, viewVars, crashes>>

-----------------------------------------------------------------------------
(* _process_task.                                                          *)

GoTo(t, pc) == ppc' = [ppc EXCEPT ![t] = pc]

\* A Redis or Postgres command returns.
CommandReturns(t) ==
  /\ ppc[t] \in Commands
  /\ Execute(t)
  /\ GoTo(t, After(ppc[t]))
  /\ UNCHANGED <<known, chunks, cancelVars, viewVars, crashes>>

\* `async for chunk in chunks`: the provider yields a piece ...
ProviderYields(t) ==
  /\ ppc[t] = "nextChunk"
  /\ chunks[t] < MaxChunks
  /\ chunks' = [chunks EXCEPT ![t] = @ + 1]
  /\ GoTo(t, "checkCancel")
  /\ UNCHANGED <<known, redisVars, row, cancelVars, viewVars, crashes>>

\* ... or its stream ends.
ProviderEnds(t) ==
  /\ ppc[t] = "nextChunk"
  /\ GoTo(t, "finalCheck")
  /\ UNCHANGED <<known, redisVars, row, chunks, cancelVars, viewVars, crashes>>

\* `if await is_cancel_requested(task_id)`, for each piece and once at the end.
CheckCancel(t) ==
  /\ ppc[t] \in {"checkCancel", "finalCheck"}
  /\ GoTo(t, IF cancelFlag[t] THEN "stopStore"
             ELSE IF ppc[t] = "checkCancel" THEN "publishChunk" ELSE "storeCompleted")
  /\ UNCHANGED <<known, redisVars, row, chunks, cancelVars, viewVars, crashes>>

\* Mutant: exceptions are swallowed.
HandlerSwallowing(pc, block) == "done"

\* Where an exception leaves the coroutine: one raised in an except block is
\* not caught by the other except blocks.
Handler(pc, block) == IF pc \in InTry THEN block ELSE "done"

\* An await raises: the provider and Postgres may, Redis if RedisFaults.
AwaitRaises(t) ==
  /\ \/ ppc[t] = "nextChunk" \/ ppc[t] \in InsertCommands
     \/ RedisFaults /\ ppc[t] \in Running
  /\ MaybeExecute(t)
  /\ GoTo(t, Handler(ppc[t], "failStore"))
  /\ UNCHANGED <<known, chunks, cancelVars, viewVars, crashes>>

\* The interrupted INSERT is given up by Postgres (one that is committed all the
\* same returns).
InsertGivenUp(t) ==
  /\ ppc[t] = "settleInsert"
  /\ GoTo(t, "abortStore")
  /\ UNCHANGED <<known, redisVars, row, chunks, cancelVars, viewVars, crashes>>

ProcessTask(t) ==
  \/ CommandReturns(t)
  \/ InsertGivenUp(t)
  \/ ProviderYields(t)
  \/ ProviderEnds(t)
  \/ CheckCancel(t)
  \/ AwaitRaises(t)

-----------------------------------------------------------------------------
(* cancel.                                                                 *)

\* What the handler does after its two reads: answer, or request the cancel.
FirstAnswer(t) ==
  IF ~known[t] THEN "notfound"
  ELSE IF status[t] \in {"completed", "failed"} THEN "conflict"
  ELSE IF status[t] = "cancelled" THEN "cancelled" ELSE "request"

\* _authorize_task and get_task_status, with the early answers.
CancelRead(c, t) ==
  /\ cpc[c] = "idle"
  /\ ppc[t] # "absent"
  /\ ctask' = [ctask EXCEPT ![c] = t]
  /\ cread' = [cread EXCEPT ![c] = status[t]]
  /\ cpc' = [cpc EXCEPT ![c] = FirstAnswer(t)]
  /\ UNCHANGED <<procVars, known, redisVars, row, viewVars, crashes>>

\* `await request_cancel(task_id)`.
CancelRequest(c) ==
  /\ cpc[c] = "request"
  /\ WriteCancelFlag(ctask[c], TRUE)
  /\ cpc' = [cpc EXCEPT ![c] = "inject"]
  /\ UNCHANGED <<procVars, known, row, ctask, cread, viewVars, crashes>>

\* Mutant: the handler forgets local_task.cancel().
CancelInjectNothing(c) ==
  /\ cpc[c] = "inject"
  /\ ppc[ctask[c]] \in Running /\ cread[c] = "queued"
  /\ cpc' = [cpc EXCEPT ![c] = "store"]
  /\ UNCHANGED <<procVars, known, redisVars, row, ctask, cread, viewVars, crashes>>

\* Where local_task.cancel() leaves a coroutine.
Interrupted(pc) ==
  IF pc = "insertPending" THEN "settleInsert" ELSE Handler(pc, "abortStore")

\* The task was queued when its status was read and its coroutine is not
\* done: local_task.cancel() raises CancelledError at the coroutine's await.
\* What it waited for at Redis is executed now or never.
CancelInject(c) ==
  LET t == ctask[c] IN
  /\ cpc[c] = "inject"
  /\ ppc[t] \in Running /\ cread[c] = "queued"
  /\ MaybeExecute(t)
  /\ GoTo(t, Interrupted(ppc[t]))
  /\ cpc' = [cpc EXCEPT ![c] = "store"]
  /\ UNCHANGED <<known, chunks, ctask, cread, viewVars, crashes>>

\* Mutant: a cooperative cancel is reported as done.
CancelCooperativeOptimistic(c) ==
  /\ cpc[c] = "inject"
  /\ ~(ppc[ctask[c]] \in Running /\ cread[c] = "queued")
  /\ cpc' = [cpc EXCEPT ![c] = "cancelled"]
  /\ UNCHANGED <<procVars, known, redisVars, row, ctask, cread, viewVars, crashes>>

\* Otherwise the flag is all there is.
CancelCooperative(c) ==
  /\ cpc[c] = "inject"
  /\ ~(ppc[ctask[c]] \in Running /\ cread[c] = "queued")
  /\ cpc' = [cpc EXCEPT ![c] = "cancelling"]
  /\ UNCHANGED <<procVars, known, redisVars, row, ctask, cread, viewVars, crashes>>

\* The three commands after local_task.cancel().
CancelFinish(c) ==
  LET t == ctask[c] IN
  /\ \/ /\ cpc[c] = "store"
        /\ StoreTaskStatus(t, "cancelled")
        /\ cpc' = [cpc EXCEPT ![c] = "publish"]
     \/ /\ cpc[c] = "publish"
        /\ PublishEvent(t, "cancelled")
        /\ cpc' = [cpc EXCEPT ![c] = "clear"]
     \/ /\ cpc[c] = "clear"
        /\ WriteCancelFlag(t, FALSE)
        /\ cpc' = [cpc EXCEPT ![c] = "cancelled"]
  /\ UNCHANGED <<procVars, known, row, ctask, cread, viewVars, crashes>>

\* A Redis command of the handler raises: the client gets a 500.
CancelRaises(c) ==
  LET t == ctask[c] IN
  /\ RedisFaults
  /\ \/ cpc[c] = "request" /\ WriteCancelFlag(t, TRUE)
     \/ cpc[c] = "store" /\ StoreTaskStatus(t, "cancelled")
     \/ cpc[c] = "publish" /\ PublishEvent(t, "cancelled")
     \/ cpc[c] = "clear" /\ WriteCancelFlag(t, FALSE)
     \/ cpc[c] \in {"request", "store", "publish", "clear"} /\ UNCHANGED redisVars
  /\ cpc' = [cpc EXCEPT ![c] = "error"]
  /\ UNCHANGED <<procVars, known, row, ctask, cread, viewVars, crashes>>

CancelStep(c) ==
  CancelRequest(c) \/ CancelInject(c) \/ CancelCooperative(c) \/ CancelFinish(c)

-----------------------------------------------------------------------------
(* stream_task and iter_event_stream.                                      *)

\* Mutant: the stream is read from its end ("$") instead of its start.
AttachAtEnd(v, t) ==
  /\ vpc[v] = "idle"
  /\ known[t]
  /\ vpc' = [vpc EXCEPT ![v] = "streaming"]
  /\ vtask' = [vtask EXCEPT ![v] = t]
  /\ cursor' = [cursor EXCEPT ![v] = Len(log[t])]
  /\ UNCHANGED <<procVars, known, redisVars, row, cancelVars, crashes>>

\* A client opens the stream; it will be read from the entry "0-0".
Attach(v, t) ==
  /\ vpc[v] = "idle"
  /\ known[t]
  /\ vpc' = [vpc EXCEPT ![v] = "streaming"]
  /\ vtask' = [vtask EXCEPT ![v] = t]
  /\ cursor' = [cursor EXCEPT ![v] = 0]
  /\ UNCHANGED <<procVars, known, redisVars, row, cancelVars, crashes>>

\* The entries XRANGE or XREAD returns for a viewer: those after its last id
\* that the stream still holds.
Unread(v) ==
  {i \in 1 .. Len(log[vtask[v]]) : i > cursor[v] /\ i > trimmed[vtask[v]]}

\* One XRANGE or XREAD and the events it yields: all of them, or up to the
\* first terminal one, which closes the stream.
ReadEvents(v) ==
  LET events == log[vtask[v]]
      final == {i \in Unread(v) : events[i] \in TerminalEvent}
  IN
  /\ vpc[v] = "streaming"
  /\ Unread(v) # {}
  /\ \/ /\ final = {}
        /\ cursor' = [cursor EXCEPT ![v] = Len(events)]
        /\ UNCHANGED vpc
     \/ \E i \in final :
        /\ \A j \in final : i <= j
        /\ cursor' = [cursor EXCEPT ![v] = i]
        /\ vpc' = [vpc EXCEPT ![v] = events[i]]
  /\ UNCHANGED <<procVars, known, redisVars, row, cancelVars, vtask, crashes>>

\* The client goes away before the end and may come back.
Detach(v) ==
  /\ vpc[v] = "streaming"
  /\ vpc' = [vpc EXCEPT ![v] = "idle"]
  /\ UNCHANGED <<procVars, known, redisVars, row, cancelVars, vtask, cursor, crashes>>

-----------------------------------------------------------------------------
(* The environment.                                                        *)

\* The API process dies: its coroutines, handlers and streams with it.
Crash ==
  /\ crashes < MaxCrashes
  /\ crashes' = crashes + 1
  /\ ppc' = [t \in Task |-> IF ppc[t] \in Running THEN "lost" ELSE ppc[t]]
  /\ cpc' = [c \in Canceller |->
               IF cpc[c] \in Answer \union {"idle"} THEN cpc[c] ELSE "error"]
  /\ vpc' = [v \in Viewer |-> IF vpc[v] = "streaming" THEN "idle" ELSE vpc[v]]
  /\ UNCHANGED <<known, redisVars, row, chunks, ctask, cread, vtask, cursor>>

\* The meta key expires an hour after invoke wrote it, running task or not.
\* The other keys are refreshed, expire later, and no new request reaches
\* them once the meta key is gone.
ExpireMeta(t) ==
  /\ known[t]
  /\ known' = [known EXCEPT ![t] = FALSE]
  /\ UNCHANGED <<procVars, redisVars, row, cancelVars, viewVars, crashes>>

Next ==
  \/ \E t \in Task : Invoke(t) \/ ProcessTask(t) \/ ExpireMeta(t)
  \/ \E c \in Canceller : (\E t \in Task : CancelRead(c, t)) \/ CancelStep(c) \/ CancelRaises(c)
  \/ \E v \in Viewer : (\E t \in Task : Attach(v, t)) \/ ReadEvents(v) \/ Detach(v)
  \/ Crash

Spec == Init /\ [][Next]_vars

\* The event loop runs what is ready, and Redis, Postgres and the provider
\* answer; a client that has attached keeps reading.
Fairness ==
  /\ \A t \in Task : WF_vars(ProcessTask(t))
  /\ \A c \in Canceller : WF_vars(CancelStep(c))
  /\ \A v \in Viewer : WF_vars(ReadEvents(v))

FairSpec == Spec /\ Fairness

-----------------------------------------------------------------------------
(* Properties.                                                             *)

PpcValue == Running \union {"absent", "done", "lost"}
Status == TerminalStatus \union {"none", "queued", "processing"}
Event == TerminalEvent \union {"queued", "started", "chunk"}
CpcValue == Answer \union {"idle", "request", "inject", "store", "publish", "clear"}

ProcOK ==
  /\ ppc \in [Task -> PpcValue]
  /\ known \in [Task -> BOOLEAN]
  /\ chunks \in [Task -> Nat]
  /\ crashes \in Nat

StoreOK ==
  /\ status \in [Task -> Status]
  /\ cancelFlag \in [Task -> BOOLEAN]
  /\ log \in [Task -> Seq(Event)]
  /\ trimmed \in [Task -> Nat]
  /\ \A t \in Task : trimmed[t] <= Len(log[t])
  /\ row \in [Task -> {"none", "pending", "failed"}]

RequestOK ==
  /\ cpc \in [Canceller -> CpcValue]
  /\ ctask \in [Canceller -> Task \union {NoTask}]
  /\ \A c \in Canceller : cpc[c] # "idle" => ctask[c] \in Task
  /\ cread \in [Canceller -> Status]

ViewOK ==
  /\ vpc \in [Viewer -> TerminalEvent \union {"idle", "streaming"}]
  /\ vtask \in [Viewer -> Task \union {NoTask}]
  /\ \A v \in Viewer : vpc[v] # "idle" => vtask[v] \in Task
  /\ cursor \in [Viewer -> Nat]

TypeOK == ProcOK /\ StoreOK /\ RequestOK /\ ViewOK

\* Nothing is generated for a task that has ended: after a terminal event the
\* stream holds no "started", "chunk" or "complete", however the cancel
\* handlers and the coroutine that publish to it were interleaved.
GenerationStopsAtTerminal ==
  \A t \in Task : \A i, j \in 1 .. Len(log[t]) :
    i < j /\ log[t][i] \in TerminalEvent => log[t][j] \in {"cancelled", "failed"}

\* The status key never goes back to "queued" or "processing": a handler that
\* stores "cancelled" has stopped the coroutine that could store "processing".
StatusNeverResurrected ==
  [][\A t \in Task : status[t] \in TerminalStatus => status'[t] \in TerminalStatus]_vars

\* A cancel request answered "cancelled" tells the truth: the task is never
\* reported as completed, or as running, by the status route afterwards.
CancelledAnswerHolds ==
  \A c \in Canceller : cpc[c] = "cancelled" => status[ctask[c]] \in {"cancelled", "failed"}

\* ... and no proposal is put up for review after that answer, but by an INSERT
\* that was under way when it was interrupted and whose commit comes late.
NoProposalAfterCancelled ==
  [][\A c \in Canceller :
       cpc[c] = "cancelled" /\ row[ctask[c]] # "pending" /\ ppc[ctask[c]] # "settleInsert"
         => row'[ctask[c]] # "pending"]_vars

\* A proposal that was recorded stays reviewable whatever fails afterwards:
\* an INSERT that raised although it was committed does not make the except
\* block replace the row by a failed one.
ProposalNeverLost ==
  [][\A t \in Task : row[t] = "pending" => row'[t] = "pending"]_vars

\* The positions of the terminal events of a task's stream.
TerminalAt(t) == {i \in 1 .. Len(log[t]) : log[t][i] \in TerminalEvent}

\* Its outcome: the first of them, where every viewer stops.
FirstTerminal(t) ==
  IF TerminalAt(t) = {} THEN "none"
  ELSE log[t][CHOOSE i \in TerminalAt(t) : \A j \in TerminalAt(t) : i <= j]

\* All viewers of a task are told the same outcome, whenever they attached and
\* although the stream is trimmed and further terminal events are added to it.
ViewersAgree ==
  \A v \in Viewer : vpc[v] \in TerminalEvent => vpc[v] = FirstTerminal(vtask[v])

\* The stream keeps the promise of AiOutcome.
Promise == INSTANCE AiOutcome WITH
  Outcome <- TerminalEvent,
  Undecided <- "none",
  accepted <- {t \in Task : log[t] # <<>>},
  pieces <- [t \in Task |-> {i \in 1 .. Len(log[t]) : log[t][i] = "chunk"}],
  outcome <- [t \in Task |-> FirstTerminal(t)]

ImplementsPromise == Promise!Spec

\* A viewer is not kept waiting for ever: as long as the API process lives and
\* Redis does not fail, its stream is closed by a terminal event (or it leaves).
ViewerReleased == \A v \in Viewer : vpc[v] = "streaming" ~> vpc[v] # "streaming"

\* A cancel request that was answered "cancelling" left the flag to a coroutine
\* that is still there to see it, or that has already ended the task.
CancellingAnswered ==
  \A c \in Canceller :
    cpc[c] = "cancelling" ~> \E t \in Task : t = ctask[c] /\ TerminalAt(t) # {}
=============================================================================
