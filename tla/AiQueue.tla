------------------------------- MODULE AiQueue -------------------------------
(***************************************************************************)
(* AI tasks in the legacy NestJS backend (src/apps/api/src/ai): invoke     *)
(* adds a BullMQ job, a worker of the same process generates the proposal, *)
(* cancelTask removes the job or raises a flag the worker polls, and       *)
(* createAiTaskEventStream replays the events to viewers.                  *)
(*                                                                         *)
(* Every await is a step.  BullMQ is external: a job whose worker died is  *)
(* put back in the queue once (maxStalledCount = 1) and failed the second  *)
(* time; a job can be removed unless a worker holds its lock.              *)
(***************************************************************************)
EXTENDS Naturals, Sequences

CONSTANTS
  Task,       \* task ids
  Canceller,  \* POST .../cancel requests
  Viewer,     \* GET .../stream connections
  NoTask,     \* the task of a request that has not been made
  MaxChunks,  \* bound: pieces the provider yields in one run of a job
  MaxCrashes, \* bound: crashes of the process
  MaxFaults   \* bound: awaits that raise

ASSUME AiQueueAssumption ==
  NoTask \notin Task /\ {MaxChunks, MaxCrashes, MaxFaults} \subseteq Nat

VARIABLES
  job,     \* the BullMQ job of a task
  stalls,  \* how often it was put back
  wpc,     \* the await the worker is in
  chunks,  \* pieces taken from the provider in this run
  status,  \* the status key
  flag,    \* the cancellation key
  log,     \* the event stream (never as long as EVENT_BUFFER_LIMIT here)
  row,     \* status of the ai_interactions row
  cpc,     \* where a cancel request is, or its answer
  ctask,   \* the task it is about
  vpc,     \* "idle", "streaming", "gone" or the terminal event that closed it
  vtask,   \* the task it streams
  cursor,  \* lastEventId
  crashes, \* crashes so far
  faults   \* awaits that raised so far

jobVars == <<job, stalls, wpc, chunks>>
storeVars == <<status, flag, log, row>>
cancelVars == <<cpc, ctask>>
viewVars == <<vpc, vtask, cursor>>
vars == <<jobVars, storeVars, cancelVars, viewVars, crashes, faults>>

-----------------------------------------------------------------------------
(* The commands of the processor and of cancelTask: what each writes, the  *)
(* value, and the await that follows.                                      *)

Command(writes, value, next) == [writes |-> writes, value |-> value, next |-> next]

\* The processor function.
Processing ==
  [storeProcessing |-> Command("status", "processing", "openStream"),
   publishStarted  |-> Command("log", "started", "storeStarted"),
   storeStarted    |-> Command("status", "processing", "nextChunk"),
   publishChunk    |-> Command("log", "chunk", "storeChunk"),
   storeChunk      |-> Command("status", "processing", "nextChunk"),
   storeCompleted  |-> Command("status", "completed", "publishComplete"),
   publishComplete |-> Command("log", "complete", "clearDone"),
   clearDone       |-> Command("flag", FALSE, "insertPending"),
   insertPending   |-> Command("row", "pending", "completed"),
   failStore       |-> Command("status", "failed", "failPublish"),
   failPublish     |-> Command("log", "failed", "failClear"),
   failClear       |-> Command("flag", FALSE, "failInsert"),
   failInsert      |-> Command("row", "failed", "failed"),
   stopStore       |-> Command("status", "cancelled", "stopPublish"),
   stopPublish     |-> Command("log", "cancelled", "stopClear"),
   stopClear       |-> Command("flag", FALSE, "completed")]

\* Mutant: cancelTask removes the job without having raised the flag.
CancellingUnflagged ==
  [request |-> Command("flag", FALSE, "lookup"),
   clear   |-> Command("flag", FALSE, "store"),
   store   |-> Command("status", "cancelled", "publish"),
   publish |-> Command("log", "cancelled", "cancelled")]

\* Mutant: the request stores its answer as the status of the task.
CancellingStored ==
  [request |-> Command("status", "cancelling", "lookup"),
   clear   |-> Command("flag", FALSE, "store"),
   store   |-> Command("status", "cancelled", "publish"),
   publish |-> Command("log", "cancelled", "cancelled")]

\* cancelTask, apart from its reads and from job.remove().
Cancelling ==
  [request |-> Command("flag", TRUE, "lookup"),
   clear   |-> Command("flag", FALSE, "store"),
   store   |-> Command("status", "cancelled", "publish"),
   publish |-> Command("log", "cancelled", "cancelled")]

\* Inside the try block of the processor.
InTry == {"openStream", "nextChunk", "checkCancel", "finalCheck", "publishStarted",
          "storeStarted", "publishChunk", "storeChunk", "storeCompleted",
          "publishComplete", "clearDone", "insertPending",
          "stopStore", "stopPublish", "stopClear"}
\* The status of the row buildPendingInteractionLog and
\* buildFailedInteractionLog build; its key is the task's id.
LoggedStatus == {"pending", "failed"}
\* The statuses of the results task-status.ts builds.
TaskStatus == {"queued", "processing", "completed", "failed", "cancelled"}

Ends == {"completed", "failed"}
Working == DOMAIN Processing \union InTry \union Ends
TerminalEvent == {"complete", "failed", "cancelled"}
Answer == {"cancelled", "cancelling", "conflict", "refused", "error"}

Init ==
  /\ job = [t \in Task |-> "absent"]
  /\ stalls = [t \in Task |-> 0]
  /\ wpc = [t \in Task |-> "idle"]
  /\ chunks = [t \in Task |-> 0]
  /\ status = [t \in Task |-> "none"]
  /\ flag = [t \in Task |-> FALSE]
  /\ log = [t \in Task |-> <<>>]
  /\ row = [t \in Task |-> "none"]
  /\ cpc = [c \in Canceller |-> "idle"]
  /\ ctask = [c \in Canceller |-> NoTask]
  /\ vpc = [v \in Viewer |-> "idle"]
  /\ vtask = [v \in Viewer |-> NoTask]
  /\ cursor = [v \in Viewer |-> 0]
  /\ crashes = 0
  /\ faults = 0

-----------------------------------------------------------------------------
(* Redis and Postgres.                                                     *)

\* storeAiTaskStatus, SET or DEL of the cancellation key, publishAiTaskEvent,
\* and the INSERT, whose primary key is the task's id.
Execute(t, c) ==
  \/ /\ c.writes = "status"
     /\ status' = [status EXCEPT ![t] = c.value]
     /\ UNCHANGED <<flag, log, row>>
  \/ /\ c.writes = "flag"
     /\ flag' = [flag EXCEPT ![t] = c.value]
     /\ UNCHANGED <<status, log, row>>
  \/ /\ c.writes = "log"
     /\ log' = [log EXCEPT ![t] = Append(@, c.value)]
     /\ UNCHANGED <<status, flag, row>>
  \/ /\ c.writes = "row"
     /\ row[t] = "none"
     /\ row' = [row EXCEPT ![t] = c.value]
     /\ UNCHANGED <<status, flag, log>>

-----------------------------------------------------------------------------
(* invoke.  Nobody knows the id before it returns and no worker has the    *)
(* job before its last command, so its four writes are one step.           *)

Invoke(t) ==
  /\ job[t] = "absent"
  /\ job' = [job EXCEPT ![t] = "waiting"]
  /\ status' = [status EXCEPT ![t] = "queued"]
  /\ log' = [log EXCEPT ![t] = Append(@, "queued")]
  /\ UNCHANGED <<stalls, wpc, chunks, flag, row, cancelVars, viewVars, crashes, faults>>

-----------------------------------------------------------------------------
(* The worker.                                                             *)

GoTo(t, pc) == wpc' = [wpc EXCEPT ![t] = pc]

\* The worker takes the job and calls the processor.
Take(t) ==
  /\ job[t] = "waiting"
  /\ job' = [job EXCEPT ![t] = "active"]
  /\ chunks' = [chunks EXCEPT ![t] = 0]
  /\ GoTo(t, "storeProcessing")
  /\ UNCHANGED <<stalls, storeVars, cancelVars, viewVars, crashes, faults>>

\* An awaited command of the processor or of handleCancelledTask returns.
CommandReturns(t) ==
  /\ wpc[t] \in DOMAIN Processing
  /\ Execute(t, Processing[wpc[t]])
  /\ GoTo(t, Processing[wpc[t]].next)
  /\ UNCHANGED <<job, stalls, chunks, cancelVars, viewVars, crashes, faults>>

\* provider.stream(): the mock stream, or the request to Groq.
OpenStream(t) ==
  /\ wpc[t] = "openStream"
  /\ GoTo(t, "publishStarted")
  /\ UNCHANGED <<job, stalls, chunks, storeVars, cancelVars, viewVars, crashes, faults>>

\* `for await (const chunk of stream.chunks)`: a piece, or the end.
NextChunk(t) ==
  /\ wpc[t] = "nextChunk"
  /\ \/ /\ chunks[t] < MaxChunks
        /\ chunks' = [chunks EXCEPT ![t] = @ + 1]
        /\ GoTo(t, "checkCancel")
     \/ GoTo(t, "finalCheck") /\ UNCHANGED chunks
  /\ UNCHANGED <<job, stalls, storeVars, cancelVars, viewVars, crashes, faults>>

\* isAiTaskCancellationRequested, for each piece and after the last.
CheckCancel(t) ==
  /\ wpc[t] \in {"checkCancel", "finalCheck"}
  /\ GoTo(t, IF flag[t] THEN "stopStore"
             ELSE IF wpc[t] = "checkCancel" THEN "publishChunk" ELSE "storeCompleted")
  /\ UNCHANGED <<job, stalls, chunks, storeVars, cancelVars, viewVars, crashes, faults>>

\* The catch block runs for what the try block throws.  What it throws itself,
\* and what the first storeAiTaskStatus throws, fails the job with no event.
Handler(pc) == IF pc \in InTry THEN "failStore" ELSE "failed"

\* An INSERT of a row that exists always raises; any other await may, having
\* had its effect or not.
AwaitRaises(t) ==
  /\ wpc[t] \in Working \ Ends
  /\ \/ /\ wpc[t] \in {"insertPending", "failInsert"} /\ row[t] # "none"
        /\ UNCHANGED <<storeVars, faults>>
     \/ /\ faults < MaxFaults
        /\ faults' = faults + 1
        /\ \/ UNCHANGED storeVars
           \/ wpc[t] \in DOMAIN Processing /\ Execute(t, Processing[wpc[t]])
  /\ GoTo(t, Handler(wpc[t]))
  /\ UNCHANGED <<job, stalls, chunks, cancelVars, viewVars, crashes>>

\* BullMQ records how the processor ended.
Finish(t) ==
  /\ wpc[t] \in Ends
  /\ job' = [job EXCEPT ![t] = wpc[t]]
  /\ GoTo(t, "idle")
  /\ UNCHANGED <<stalls, chunks, storeVars, cancelVars, viewVars, crashes, faults>>

\* Mutant: the job of a dead worker is dropped.
RequeueNever(t) ==
  /\ wpc[t] = "lost"
  /\ job' = [job EXCEPT ![t] = "failed"]
  /\ stalls' = [stalls EXCEPT ![t] = @ + 1]
  /\ GoTo(t, "idle")
  /\ UNCHANGED <<chunks, storeVars, cancelVars, viewVars, crashes, faults>>

\* BullMQ finds the job of a dead worker: once it is put back.
Requeue(t) ==
  /\ wpc[t] = "lost"
  /\ job' = [job EXCEPT ![t] = IF stalls[t] = 0 THEN "waiting" ELSE "failed"]
  /\ stalls' = [stalls EXCEPT ![t] = @ + 1]
  /\ GoTo(t, "idle")
  /\ UNCHANGED <<chunks, storeVars, cancelVars, viewVars, crashes, faults>>

Work(t) ==
  \/ Take(t) \/ CommandReturns(t) \/ OpenStream(t) \/ NextChunk(t)
  \/ CheckCancel(t) \/ Finish(t) \/ Requeue(t)

-----------------------------------------------------------------------------
(* cancelTask.                                                             *)

\* withAuthorizedTask: the user has a role on the document, and the task's
\* metadata, which invoke wrote and which expires, names the document.
Authorized(role, metadata) == role /\ metadata

\* The reads of cancelTask, with the early answers.
CancelRead(c, t) ==
  /\ cpc[c] = "idle"
  /\ job[t] # "absent"
  /\ ctask' = [ctask EXCEPT ![c] = t]
  /\ \E role, metadata \in BOOLEAN :
       cpc' = [cpc EXCEPT ![c] =
         IF ~Authorized(role, metadata) THEN "refused"
         ELSE IF status[t] \in {"completed", "failed"} THEN "conflict"
         ELSE IF status[t] = "cancelled" THEN "cancelled" ELSE "request"]
  /\ UNCHANGED <<jobVars, storeVars, viewVars, crashes, faults>>

\* queue.getJob and job.getState: only a job that waits will be removed.
CancelLookup(c) ==
  /\ cpc[c] = "lookup"
  /\ cpc' = [cpc EXCEPT ![c] = IF job[ctask[c]] = "waiting" THEN "remove" ELSE "cancelling"]
  /\ UNCHANGED <<jobVars, storeVars, ctask, viewVars, crashes, faults>>

\* Mutant: a job a worker has locked counts as removed.
CancelRemoveLocked(c) ==
  LET t == ctask[c] IN
  /\ cpc[c] = "remove"
  /\ job' = [job EXCEPT ![t] = IF @ = "active" THEN @ ELSE "removed"]
  /\ cpc' = [cpc EXCEPT ![c] = "clear"]
  /\ UNCHANGED <<stalls, wpc, chunks, storeVars, ctask, viewVars, crashes, faults>>

\* job.remove(): throws when a worker has locked the job meanwhile.
CancelRemove(c) ==
  LET t == ctask[c] IN
  /\ cpc[c] = "remove"
  /\ \/ job[t] = "active" /\ cpc' = [cpc EXCEPT ![c] = "error"] /\ UNCHANGED job
     \/ /\ job[t] # "active"
        /\ job' = [job EXCEPT ![t] = "removed"]
        /\ cpc' = [cpc EXCEPT ![c] = "clear"]
  /\ UNCHANGED <<stalls, wpc, chunks, storeVars, ctask, viewVars, crashes, faults>>

\* The writes before the lookup and after the removal.
CancelWrite(c) ==
  /\ cpc[c] \in DOMAIN Cancelling
  /\ Execute(ctask[c], Cancelling[cpc[c]])
  /\ cpc' = [cpc EXCEPT ![c] = Cancelling[cpc[c]].next]
  /\ UNCHANGED <<jobVars, ctask, viewVars, crashes, faults>>

\* One of the writes raises: the client gets a 500.
WriteRaises(c) ==
  /\ cpc[c] \in DOMAIN Cancelling
  /\ faults < MaxFaults
  /\ faults' = faults + 1
  /\ Execute(ctask[c], Cancelling[cpc[c]]) \/ UNCHANGED storeVars
  /\ cpc' = [cpc EXCEPT ![c] = "error"]
  /\ UNCHANGED <<jobVars, ctask, viewVars, crashes>>

\* getJob, getState or remove raises; remove may have had its effect.
JobCallRaises(c) ==
  /\ cpc[c] \in {"lookup", "remove"}
  /\ faults < MaxFaults
  /\ faults' = faults + 1
  /\ \/ UNCHANGED job
     \/ /\ cpc[c] = "remove" /\ job[ctask[c]] # "active"
        /\ job' = [job EXCEPT ![ctask[c]] = "removed"]
  /\ cpc' = [cpc EXCEPT ![c] = "error"]
  /\ UNCHANGED <<stalls, wpc, chunks, storeVars, ctask, viewVars, crashes>>

CancelRaises(c) == WriteRaises(c) \/ JobCallRaises(c)

Cancel(c) == CancelLookup(c) \/ CancelRemove(c) \/ CancelWrite(c)

-----------------------------------------------------------------------------
(* createAiTaskEventStream.                                                *)

\* streamTask: an authorized client subscribes; its lastEventId is "0-0".
Attach(v, t) ==
  /\ vpc[v] = "idle"
  /\ job[t] # "absent"
  /\ \E role, metadata \in BOOLEAN : Authorized(role, metadata)
  /\ vpc' = [vpc EXCEPT ![v] = "streaming"]
  /\ vtask' = [vtask EXCEPT ![v] = t]
  /\ UNCHANGED <<jobVars, storeVars, cancelVars, cursor, crashes, faults>>

\* What XRANGE, and then XREAD after lastEventId, return.
Unread(v) == SubSeq(log[vtask[v]], cursor[v] + 1, Len(log[vtask[v]]))

\* emitEvent for the next entry; a terminal one completes the observable.
Emit(v) ==
  /\ vpc[v] = "streaming"
  /\ Unread(v) # <<>>
  /\ cursor' = [cursor EXCEPT ![v] = @ + 1]
  /\ vpc' = [vpc EXCEPT ![v] = IF Head(Unread(v)) \in TerminalEvent
                               THEN Head(Unread(v)) ELSE @]
  /\ UNCHANGED <<jobVars, storeVars, cancelVars, vtask, crashes, faults>>

\* The client goes away, or a read raises: subscriber.error and cleanup.
Detach(v) ==
  /\ vpc[v] = "streaming"
  /\ vpc' = [vpc EXCEPT ![v] = "gone"]
  /\ UNCHANGED <<jobVars, storeVars, cancelVars, vtask, cursor, crashes, faults>>

-----------------------------------------------------------------------------
(* The environment.                                                        *)

\* The process dies: worker, requests and streams with it.
Crash ==
  /\ crashes < MaxCrashes
  /\ crashes' = crashes + 1
  /\ wpc' = [t \in Task |-> IF wpc[t] \in Working THEN "lost" ELSE wpc[t]]
  /\ cpc' = [c \in Canceller |->
               IF cpc[c] \in Answer \union {"idle"} THEN cpc[c] ELSE "error"]
  /\ vpc' = [v \in Viewer |-> IF vpc[v] = "streaming" THEN "gone" ELSE vpc[v]]
  /\ UNCHANGED <<job, stalls, chunks, storeVars, ctask, vtask, cursor, faults>>

Next ==
  \/ \E t \in Task : Invoke(t) \/ Work(t) \/ AwaitRaises(t)
  \/ \E c \in Canceller :
       Cancel(c) \/ CancelRaises(c) \/ \E t \in Task : CancelRead(c, t)
  \/ \E v \in Viewer : Emit(v) \/ Detach(v) \/ \E t \in Task : Attach(v, t)
  \/ Crash

\* The worker serves the queue, BullMQ checks for stalled jobs, and the API
\* process is restarted; a request runs to its end; a stream loops on XREAD.
Fairness ==
  /\ \A t \in Task : WF_vars(Work(t))
  /\ \A c \in Canceller : WF_vars(Cancel(c))
  /\ \A v \in Viewer : WF_vars(Emit(v))

Spec == Init /\ [][Next]_vars /\ Fairness

-----------------------------------------------------------------------------
TypeOK ==
  /\ job \in [Task -> {"absent", "waiting", "active", "removed"} \union Ends]
  /\ stalls \in [Task -> Nat]
  /\ wpc \in [Task -> Working \union {"idle", "lost"}]
  /\ chunks \in [Task -> 0 .. MaxChunks]
  /\ status \in [Task -> {"none"} \union TaskStatus]
  /\ flag \in [Task -> BOOLEAN]
  /\ log \in [Task -> Seq({"queued", "started", "chunk"} \union TerminalEvent)]
  /\ row \in [Task -> {"none"} \union LoggedStatus]
  /\ cpc \in [Canceller -> {"idle", "lookup", "remove"} \union DOMAIN Cancelling \union Answer]
  /\ ctask \in [Canceller -> Task \union {NoTask}]
  /\ vpc \in [Viewer -> {"idle", "streaming", "gone"} \union TerminalEvent]
  /\ vtask \in [Viewer -> Task \union {NoTask}]
  /\ cursor \in [Viewer -> Nat]
  /\ crashes \in 0 .. MaxCrashes
  /\ faults \in 0 .. MaxFaults

(* A request that was answered "cancelled" is kept: unless BullMQ ran the  *)
(* job again, no proposal of the task is ever stored for review and its    *)
(* status never says "completed".  cancelTask races the worker for the     *)
(* job, and deletes the flag the worker polls.                             *)
CancelledHolds ==
  \A c \in Canceller :
    cpc[c] = "cancelled" /\ stalls[ctask[c]] = 0 =>
      row[ctask[c]] # "pending" /\ status[ctask[c]] # "completed"

Has(t, e) == \E i \in 1 .. Len(log[t]) : log[t][i] = e

(* A task someone was given the id of is settled in its event stream, even *)
(* when the process dies in the middle of it, unless an await raised,      *)
(* BullMQ gave the job up, or the process died between cancelTask's        *)
(* removal of the job and its event: nobody waits on a task no one runs.   *)
EveryTaskSettles ==
  \A t \in Task :
    job[t] # "absent" ~>
      \/ \E e \in TerminalEvent : Has(t, e)
      \/ faults > 0 \/ stalls[t] > 1
      \/ job[t] = "removed" /\ crashes > 0

(* What a connection was told agrees with what is stored: unless BullMQ ran *)
(* the job again, a client told "failed" or "cancelled" has no proposal to *)
(* review, and the status it may poll does not say "completed"; one told   *)
(* "complete" is not told otherwise by a later cancel request, and finds   *)
(* its proposal once the worker is done, if no await raised.  'complete'   *)
(* is published before the row is inserted, both may raise after their     *)
(* effect and cancelTask adds an end of its own.                           *)
OutcomeKept ==
  \A v \in Viewer :
    LET t == vtask[v] IN
    vpc[v] \in TerminalEvent /\ stalls[t] = 0 =>
      IF vpc[v] = "complete"
      THEN /\ status[t] \in {"completed", "failed"}
           /\ faults = 0 /\ wpc[t] = "idle" => row[t] = "pending"
      ELSE row[t] # "pending" /\ status[t] # "completed"
=============================================================================
