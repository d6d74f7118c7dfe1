---------------------------- MODULE AiQueueProofs ----------------------------
(***************************************************************************)
(* Proofs about AiQueue, for every set of tasks, cancel requests and       *)
(* streams and for every value of the bounds.                              *)
(***************************************************************************)
EXTENDS AiQueue, SequenceTheorems, TLAPS

\* The awaits before the last look at the cancellation flag, those after it
\* that store the result, and those of handleCancelledTask.
Polling == {"storeProcessing", "openStream", "publishStarted", "storeStarted",
            "nextChunk", "checkCancel", "publishChunk", "storeChunk", "finalCheck"}
Storing == {"storeCompleted", "publishComplete", "clearDone", "insertPending"}
Stopping == {"stopStore", "stopPublish", "stopClear"}

\* Nothing of the task can be reviewed, and nobody was told it could.
NoResult(t) == row[t] # "pending" /\ status[t] # "completed" /\ ~Has(t, "complete")

\* There is no result, and no worker has the job that could still produce one
\* or could take it.
Closed(t) ==
  /\ NoResult(t)
  /\ job[t] \notin {"absent", "waiting"}
  /\ wpc[t] \notin Polling \union Storing

\* There is no result, and the flag is raised before the worker last looks.
Doomed(t) ==
  /\ NoResult(t)
  /\ flag[t]
  /\ job[t] = "waiting" \/ wpc[t] \in Polling

\* A task in its first run: what is known at each place of the worker.
FirstRun(t) ==
  /\ job[t] \in {"absent", "waiting"} => NoResult(t)
  /\ wpc[t] \in Polling \union Stopping => NoResult(t)
  /\ status[t] = "cancelled" => Closed(t)

\* A worker that runs, or died, has the job; a job nobody has can be removed.
TaskOK(t) ==
  /\ wpc[t] # "idle" => job[t] = "active"
  /\ stalls[t] = 0 => FirstRun(t)
TaskInv == \A t \in Task : TaskOK(t)

\* What a cancel request knows of the first run of its task.
CancelOK(c) ==
  /\ cpc[c] = "lookup" /\ job[ctask[c]] = "waiting" => Doomed(ctask[c])
  /\ cpc[c] = "remove" => Doomed(ctask[c]) \/ Closed(ctask[c])
  /\ cpc[c] \in {"clear", "store", "publish", "cancelled"} => Closed(ctask[c])
Known(c) ==
  cpc[c] # "idle" =>
    /\ ctask[c] \in Task
    /\ job[ctask[c]] # "absent"
    /\ stalls[ctask[c]] = 0 => CancelOK(c)
CancelInv == \A c \in Canceller : Known(c)

\* Every failure that was published was published after a completion: by a
\* catch block that ran because an await behind publishComplete raised.
FailsLate(t) ==
  \A j \in 1 .. Len(log[t]) :
    log[t][j] = "failed" => \E i \in 1 .. j - 1 : log[t][i] = "complete"

\* A task in its first run: what its stream, its status and its row have to do
\* with each other.  A proposal is stored after the status and after the event
\* that says so; what a catch block or a cancel request adds then comes late.
Tells(t) ==
  /\ job[t] \in {"absent", "waiting"} \/ wpc[t] \in Polling \union Storing => row[t] = "none"
  /\ wpc[t] \in {"publishComplete", "clearDone", "insertPending"} => status[t] = "completed"
  /\ wpc[t] \in {"clearDone", "insertPending"} \/ row[t] = "pending" => Has(t, "complete")
  /\ Has(t, "complete") => status[t] \in {"completed", "failed"}
  /\ Has(t, "cancelled") => Closed(t)
  /\ Closed(t) \/ FailsLate(t)
  /\ wpc[t] = "failPublish" => status[t] # "completed"
  /\ Has(t, "complete") /\ faults = 0 =>
       wpc[t] \in {"clearDone", "insertPending", "lost"} \/ row[t] = "pending"
TellInv == \A t \in Task : stalls[t] = 0 => Tells(t)

\* A stream has delivered a prefix of what was published, up to the first
\* terminal event.
ViewOK(v) ==
  IF vpc[v] = "idle" THEN cursor[v] = 0
  ELSE /\ vtask[v] \in Task /\ cursor[v] <= Len(log[vtask[v]])
       /\ vpc[v] = "streaming" =>
            \A i \in 1 .. cursor[v] : log[vtask[v]][i] \notin TerminalEvent
       /\ vpc[v] \in TerminalEvent =>
            /\ cursor[v] > 0 /\ log[vtask[v]][cursor[v]] = vpc[v]
            /\ \A i \in 1 .. cursor[v] - 1 : log[vtask[v]][i] \notin TerminalEvent
ViewInv == \A v \in Viewer : ViewOK(v)

IInv == TypeOK /\ TaskInv /\ CancelInv /\ TellInv /\ ViewInv

-----------------------------------------------------------------------------
(* The commands, one by one.                                               *)

EventName == {"queued", "started", "chunk"} \union TerminalEvent

\* A command writes values its store takes.
ValueOK(c) ==
  /\ c.writes = "status" => c.value \in TaskStatus
  /\ c.writes = "flag" => c.value \in BOOLEAN
  /\ c.writes = "log" => c.value \in EventName
  /\ c.writes = "row" => c.value \in LoggedStatus

\* What the processor may write at each of its awaits, and what follows it.
CommandOK(pc, c) ==
  /\ ValueOK(c)
  /\ c.writes = "status" /\ c.value = "completed" => pc \in Storing
  /\ c.writes = "status" /\ c.value = "cancelled" => pc = "stopStore"
  /\ c.writes = "row" /\ c.value = "pending" => pc \in Storing
  /\ c.writes = "log" /\ c.value = "complete" => pc \in Storing
  /\ c.writes = "flag" => pc \notin Polling
  /\ c.next \in Working
  /\ pc \in Polling => c.next \in Polling
  /\ pc \notin Polling \union Storing => c.next \notin Polling \union Storing
  /\ c.next \in Stopping => pc \in Stopping
  /\ c.next \in Polling => pc \in Polling

\* The commands of the processor are as CommandOK says: only a worker past its
\* last look at the flag stores a result, only handleCancelledTask stores
\* "cancelled", and nothing leads back into the loop.
LEMMA ProcessingTable ==
  ASSUME NEW pc \in DOMAIN Processing
  PROVE  CommandOK(pc, Processing[pc])
<1>1. pc \in {"storeProcessing", "publishStarted", "storeStarted", "publishChunk", "storeChunk",
              "storeCompleted", "publishComplete", "clearDone", "insertPending",
              "failStore", "failPublish", "failClear", "failInsert",
              "stopStore", "stopPublish", "stopClear"}
  BY DEF Processing
<1>. USE DEF Command, CommandOK, ValueOK, TaskStatus, EventName, TerminalEvent, LoggedStatus,
             Storing, Polling, Stopping, Working, InTry, Ends
<1>2. CASE pc = "storeProcessing"
  BY <1>2 DEF Processing
<1>3. CASE pc = "publishStarted"
  BY <1>3 DEF Processing
<1>4. CASE pc = "storeStarted"
  BY <1>4 DEF Processing
<1>5. CASE pc = "publishChunk"
  BY <1>5 DEF Processing
<1>6. CASE pc = "storeChunk"
  BY <1>6 DEF Processing
<1>7. CASE pc = "storeCompleted"
  BY <1>7 DEF Processing
<1>8. CASE pc = "publishComplete"
  BY <1>8 DEF Processing
<1>9. CASE pc = "clearDone"
  BY <1>9 DEF Processing
<1>10. CASE pc = "insertPending"
  BY <1>10 DEF Processing
<1>11. CASE pc = "failStore"
  BY <1>11 DEF Processing
<1>12. CASE pc = "failPublish"
  BY <1>12 DEF Processing
<1>13. CASE pc = "failClear"
  BY <1>13 DEF Processing
<1>14. CASE pc = "failInsert"
  BY <1>14 DEF Processing
<1>15. CASE pc = "stopStore"
  BY <1>15 DEF Processing
<1>16. CASE pc = "stopPublish"
  BY <1>16 DEF Processing
<1>17. CASE pc = "stopClear"
  BY <1>17 DEF Processing
<1>. QED  BY <1>1, <1>2, <1>3, <1>4, <1>5, <1>6, <1>7, <1>8, <1>9,
             <1>10, <1>11, <1>12, <1>13, <1>14, <1>15, <1>16, <1>17

\* What cancelTask writes: it raises the flag before its lookup and clears it
\* after the removal; it stores and publishes nothing but "cancelled".
CancelCommandOK(pc, c) ==
  /\ ValueOK(c)
  /\ c.writes # "row"
  /\ c.writes = "status" => pc = "store" /\ c.value = "cancelled"
  /\ c.writes = "flag" => (pc = "request" /\ c.value) \/ pc = "clear"
  /\ c.writes = "log" => pc = "publish" /\ c.value = "cancelled"
  /\ c.next = CASE pc = "request" -> "lookup" [] pc = "clear" -> "store"
                [] pc = "store" -> "publish" [] pc = "publish" -> "cancelled"

\* The commands of cancelTask are as CancelCommandOK says.
LEMMA CancellingTable ==
  ASSUME NEW pc \in DOMAIN Cancelling
  PROVE  CancelCommandOK(pc, Cancelling[pc])
<1>1. pc \in {"request", "clear", "store", "publish"}
  BY DEF Cancelling
<1>. USE DEF Command, CancelCommandOK, ValueOK, TaskStatus, EventName, TerminalEvent, LoggedStatus
<1>2. CASE pc = "request"
  BY <1>2 DEF Cancelling
<1>3. CASE pc = "clear"
  BY <1>3 DEF Cancelling
<1>4. CASE pc = "store"
  BY <1>4 DEF Cancelling
<1>5. CASE pc = "publish"
  BY <1>5 DEF Cancelling
<1>. QED  BY <1>1, <1>2, <1>3, <1>4, <1>5

\* A stream that is as it was has the events it had.
LEMMA HasSame ==
  ASSUME NEW t \in Task, log'[t] = log[t]
  PROVE  \A e : Has(t, e)' <=> Has(t, e)
BY DEF Has

\* An event that is published is in the stream, with those that were there.
LEMMA HasAppended ==
  ASSUME NEW t \in Task, NEW x \in EventName, log[t] \in Seq(EventName),
         log'[t] = Append(log[t], x)
  PROVE  \A e : Has(t, e)' <=> Has(t, e) \/ e = x
<1>1. /\ Len(log[t]) \in Nat /\ Len(log'[t]) = Len(log[t]) + 1
      /\ \A i \in 1 .. Len(log[t]) : log'[t][i] = log[t][i]
      /\ log'[t][Len(log[t]) + 1] = x
  OBVIOUS
<1>2. ASSUME NEW e, Has(t, e)'
      PROVE  Has(t, e) \/ e = x
  <2>1. PICK i \in 1 .. Len(log'[t]) : log'[t][i] = e
    BY <1>2 DEF Has
  <2>2. i \in 1 .. Len(log[t]) \/ i = Len(log[t]) + 1
    BY <1>1, <2>1
  <2>. QED  BY <1>1, <2>1, <2>2 DEF Has
<1>3. ASSUME NEW e, Has(t, e) \/ e = x
      PROVE  Has(t, e)'
  <2>1. CASE Has(t, e)
    <3>1. PICK i \in 1 .. Len(log[t]) : log[t][i] = e
      BY <2>1 DEF Has
    <3>2. i \in 1 .. Len(log'[t]) /\ log'[t][i] = e
      BY <1>1, <3>1
    <3>. QED  BY <3>2 DEF Has
  <2>2. CASE e = x
    <3>1. Len(log[t]) + 1 \in 1 .. Len(log'[t])
      BY <1>1
    <3>. QED  BY <1>1, <2>2, <3>1 DEF Has
  <2>. QED  BY <1>3, <2>1, <2>2
<1>. QED  BY <1>2, <1>3

StoreTyped ==
  /\ status \in [Task -> {"none"} \union TaskStatus]
  /\ flag \in [Task -> BOOLEAN]
  /\ log \in [Task -> Seq(EventName)]
  /\ row \in [Task -> {"none"} \union LoggedStatus]

\* One task's keys, stream and row change by the command c, or not at all.
Written(t, c) ==
  /\ status'[t] = status[t] \/ (c.writes = "status" /\ status'[t] = c.value)
  /\ flag'[t] = flag[t] \/ (c.writes = "flag" /\ flag'[t] = c.value)
  /\ log'[t] = log[t] \/ (c.writes = "log" /\ log'[t] = Append(log[t], c.value))
  /\ row'[t] = row[t] \/ (c.writes = "row" /\ row'[t] = c.value)
\* What is in the stream then.
WrittenHas(t, c) ==
  /\ \A e : Has(t, e)' => Has(t, e) \/ (c.writes = "log" /\ c.value = e)
  /\ \A e : Has(t, e) => Has(t, e)'
UnchangedAt(t) ==
  status'[t] = status[t] /\ flag'[t] = flag[t] /\ log'[t] = log[t] /\ row'[t] = row[t]

\* A command, executed or lost, keeps the types, and touches one task.
LEMMA ExecuteEffect ==
  ASSUME StoreTyped, NEW t \in Task, NEW c, ValueOK(c),
         Execute(t, c) \/ UNCHANGED storeVars
  PROVE  /\ StoreTyped'
         /\ Written(t, c)
         /\ \A u \in Task : u # t => UnchangedAt(u)
<1>. USE DEF StoreTyped, Written, UnchangedAt
<1>1. CASE UNCHANGED storeVars
  <2>1. StoreTyped'
    BY <1>1 DEF storeVars
  <2>2. \A u \in Task : UnchangedAt(u)
    BY <1>1 DEF storeVars
  <2>3. Written(t, c)
    BY <2>2
  <2>. QED  BY <2>1, <2>2, <2>3
<1>2. CASE c.writes = "status" /\ status' = [status EXCEPT ![t] = c.value]
           /\ UNCHANGED <<flag, log, row>>
  BY <1>2 DEF ValueOK
<1>3. CASE c.writes = "flag" /\ flag' = [flag EXCEPT ![t] = c.value]
           /\ UNCHANGED <<status, log, row>>
  BY <1>3 DEF ValueOK
<1>4. CASE c.writes = "log" /\ log' = [log EXCEPT ![t] = Append(@, c.value)]
           /\ UNCHANGED <<status, flag, row>>
  BY <1>4 DEF ValueOK
<1>5. CASE c.writes = "row" /\ row' = [row EXCEPT ![t] = c.value]
           /\ UNCHANGED <<status, flag, log>>
  BY <1>5 DEF ValueOK
<1>. QED  BY <1>1, <1>2, <1>3, <1>4, <1>5 DEF Execute

\* A command that touches a stream adds its event to it.
LEMMA WrittenTells ==
  ASSUME StoreTyped, NEW t \in Task, NEW c, ValueOK(c), Written(t, c)
  PROVE  WrittenHas(t, c)
<1>1. CASE log'[t] = log[t]
  BY <1>1, HasSame DEF WrittenHas
<1>2. CASE c.writes = "log" /\ log'[t] = Append(log[t], c.value)
  <2>1. c.value \in EventName /\ log[t] \in Seq(EventName)
    BY <1>2 DEF ValueOK, StoreTyped
  <2>2. \A e : Has(t, e)' <=> Has(t, e) \/ e = c.value
    BY <1>2, <2>1, HasAppended
  <2>. QED  BY <1>2, <2>2 DEF WrittenHas
<1>. QED  BY <1>1, <1>2 DEF Written

-----------------------------------------------------------------------------
(* Type correctness.                                                       *)

WpcValue == Working \union {"idle", "lost"}
CpcValue == {"idle", "lookup", "remove"} \union DOMAIN Cancelling \union Answer

WorkerTyped ==
  /\ job \in [Task -> {"absent", "waiting", "active", "removed"} \union Ends]
  /\ stalls \in [Task -> Nat]
  /\ wpc \in [Task -> WpcValue]
  /\ chunks \in [Task -> 0 .. MaxChunks]
RequestTyped ==
  /\ cpc \in [Canceller -> CpcValue]
  /\ ctask \in [Canceller -> Task \union {NoTask}]
ViewTyped ==
  /\ vpc \in [Viewer -> {"idle", "streaming", "gone"} \union TerminalEvent]
  /\ vtask \in [Viewer -> Task \union {NoTask}]
  /\ cursor \in [Viewer -> Nat]

\* TypeOK, part by part.
LEMMA TypeParts ==
  LET Parts == /\ WorkerTyped /\ StoreTyped /\ RequestTyped /\ ViewTyped
               /\ crashes \in 0 .. MaxCrashes /\ faults \in 0 .. MaxFaults
  IN  (TypeOK <=> Parts) /\ (TypeOK' <=> Parts')
BY DEF TypeOK, WorkerTyped, StoreTyped, RequestTyped, ViewTyped, EventName, WpcValue, CpcValue

\* The awaits the steps of the worker lead to.
LEMMA Places ==
  /\ {"storeProcessing", "publishStarted", "nextChunk", "checkCancel", "finalCheck",
      "stopStore", "publishChunk", "storeCompleted", "failStore", "failed"} \subseteq Working
  /\ {"cancelled", "clear", "store", "publish", "request", "cancelling", "conflict",
      "refused", "error", "lookup", "remove", "idle"} \subseteq CpcValue
BY DEF Working, InTry, Ends, Processing, CpcValue, Answer, Cancelling

\* An awaited command of the processor: what it does to the store.
LEMMA WorkerWrites ==
  ASSUME StoreTyped, NEW t \in Task, wpc[t] \in DOMAIN Processing,
         Execute(t, Processing[wpc[t]]) \/ UNCHANGED storeVars
  PROVE  /\ StoreTyped'
         /\ CommandOK(wpc[t], Processing[wpc[t]])
         /\ Written(t, Processing[wpc[t]])
         /\ WrittenHas(t, Processing[wpc[t]])
         /\ \A u \in Task : u # t => UnchangedAt(u)
<1>1. CommandOK(wpc[t], Processing[wpc[t]])
  BY ProcessingTable
<1>2. ValueOK(Processing[wpc[t]])
  BY <1>1 DEF CommandOK
<1>. QED  BY <1>1, <1>2, ExecuteEffect, WrittenTells

\* A write of cancelTask: what it does to the store.
LEMMA CancelWrites ==
  ASSUME StoreTyped, NEW c \in Canceller, NEW t \in Task, ctask[c] = t,
         cpc[c] \in DOMAIN Cancelling,
         Execute(t, Cancelling[cpc[c]]) \/ UNCHANGED storeVars
  PROVE  /\ StoreTyped'
         /\ CancelCommandOK(cpc[c], Cancelling[cpc[c]])
         /\ Written(t, Cancelling[cpc[c]])
         /\ WrittenHas(t, Cancelling[cpc[c]])
         /\ \A u \in Task : u # t => UnchangedAt(u)
<1>1. CancelCommandOK(cpc[c], Cancelling[cpc[c]])
  BY CancellingTable
<1>2. ValueOK(Cancelling[cpc[c]])
  BY <1>1 DEF CancelCommandOK
<1>. QED  BY <1>1, <1>2, ExecuteEffect, WrittenTells

\* Where the worker goes, it is at an await of the processor or has ended.
LEMMA WorkerType ==
  ASSUME TypeOK, NEW t \in Task, Invoke(t) \/ Work(t) \/ AwaitRaises(t)
  PROVE  TypeOK'
<1>. USE TypeParts DEF WorkerTyped, WpcValue, GoTo, cancelVars, viewVars, RequestTyped, ViewTyped
<1>1. CASE Invoke(t)
  <2>1. StoreTyped'
    BY <1>1 DEF Invoke, StoreTyped, TaskStatus, EventName
  <2>. QED  BY <1>1, <2>1 DEF Invoke
<1>2. CASE Take(t)
  <2>1. StoreTyped'
    BY <1>2 DEF Take, StoreTyped, storeVars
  <2>2. chunks' \in [Task -> 0 .. MaxChunks]
    BY <1>2, AiQueueAssumption DEF Take
  <2>. QED  BY <1>2, <2>1, <2>2, Places DEF Take
<1>3. CASE CommandReturns(t)
  <2>1. StoreTyped' /\ CommandOK(wpc[t], Processing[wpc[t]])
    BY <1>3, WorkerWrites DEF CommandReturns
  <2>2. Processing[wpc[t]].next \in Working
    BY <2>1 DEF CommandOK
  <2>. QED  BY <1>3, <2>1, <2>2 DEF CommandReturns
<1>4. CASE OpenStream(t)
  <2>1. StoreTyped'
    BY <1>4 DEF OpenStream, StoreTyped, storeVars
  <2>. QED  BY <1>4, <2>1, Places DEF OpenStream
<1>5. CASE NextChunk(t)
  <2>1. StoreTyped'
    BY <1>5 DEF NextChunk, StoreTyped, storeVars
  <2>2. chunks' \in [Task -> 0 .. MaxChunks]
    BY <1>5, AiQueueAssumption DEF NextChunk
  <2>3. wpc' \in [Task -> WpcValue]
    BY <1>5, Places DEF NextChunk
  <2>. QED  BY <1>5, <2>1, <2>2, <2>3 DEF NextChunk
<1>6. CASE CheckCancel(t)
  <2>1. StoreTyped'
    BY <1>6 DEF CheckCancel, StoreTyped, storeVars
  <2>2. wpc' \in [Task -> WpcValue]
    BY <1>6, Places DEF CheckCancel
  <2>. QED  BY <1>6, <2>1, <2>2 DEF CheckCancel
<1>7. CASE Finish(t)
  <2>1. StoreTyped'
    BY <1>7 DEF Finish, StoreTyped, storeVars
  <2>. QED  BY <1>7, <2>1 DEF Finish
<1>8. CASE Requeue(t)
  <2>1. StoreTyped'
    BY <1>8 DEF Requeue, StoreTyped, storeVars
  <2>. QED  BY <1>8, <2>1 DEF Requeue, Ends
<1>9. CASE AwaitRaises(t)
  <2>1. StoreTyped'
    BY <1>9, WorkerWrites DEF AwaitRaises, StoreTyped, storeVars
  <2>2. wpc' \in [Task -> WpcValue]
    BY <1>9, Places DEF AwaitRaises, Handler
  <2>3. faults' \in 0 .. MaxFaults
    BY <1>9, AiQueueAssumption DEF AwaitRaises
  <2>. QED  BY <1>9, <2>1, <2>2, <2>3 DEF AwaitRaises
<1>. QED  BY <1>1, <1>2, <1>3, <1>4, <1>5, <1>6, <1>7, <1>8, <1>9 DEF Work

\* A cancel request keeps the types.
LEMMA CancelType ==
  ASSUME TypeOK, CancelInv, NEW c \in Canceller,
         Cancel(c) \/ CancelRaises(c) \/ \E t \in Task : CancelRead(c, t)
  PROVE  TypeOK'
<1>. USE TypeParts DEF RequestTyped, WorkerTyped, ViewTyped, jobVars, viewVars
<1>1. CASE \E t \in Task : CancelRead(c, t)
  <2>1. PICK t \in Task : CancelRead(c, t)
    BY <1>1
  <2>2. StoreTyped'
    BY <2>1 DEF CancelRead, StoreTyped, storeVars
  <2>3. RequestTyped'
    BY <2>1, Places DEF CancelRead
  <2>. QED  BY <2>1, <2>2, <2>3 DEF CancelRead
<1>2. CASE CancelLookup(c)
  <2>1. StoreTyped'
    BY <1>2 DEF CancelLookup, StoreTyped, storeVars
  <2>2. RequestTyped'
    BY <1>2, Places DEF CancelLookup
  <2>. QED  BY <1>2, <2>1, <2>2 DEF CancelLookup
<1>3. CASE CancelRemove(c)
  <2>1. StoreTyped'
    BY <1>3 DEF CancelRemove, StoreTyped, storeVars
  <2>2. RequestTyped'
    BY <1>3, Places DEF CancelRemove
  <2>3. WorkerTyped'
    BY <1>3 DEF CancelRemove
  <2>. QED  BY <1>3, <2>1, <2>2, <2>3 DEF CancelRemove
<1>5. CASE JobCallRaises(c)
  <2>1. StoreTyped'
    BY <1>5 DEF JobCallRaises, StoreTyped, storeVars
  <2>2. RequestTyped'
    BY <1>5, Places DEF JobCallRaises
  <2>3. WorkerTyped'
    BY <1>5 DEF JobCallRaises
  <2>4. faults' \in 0 .. MaxFaults
    BY <1>5, AiQueueAssumption DEF JobCallRaises
  <2>. QED  BY <1>5, <2>1, <2>2, <2>3, <2>4 DEF JobCallRaises
<1>4. CASE CancelWrite(c) \/ WriteRaises(c)
  <2>1. cpc[c] \in DOMAIN Cancelling /\ cpc[c] # "idle"
    BY <1>4 DEF CancelWrite, WriteRaises, Cancelling
  <2>2. PICK t \in Task : t = ctask[c]
    BY <2>1 DEF CancelInv, Known
  <2>3. StoreTyped' /\ CancelCommandOK(cpc[c], Cancelling[cpc[c]])
    BY <1>4, <2>1, <2>2, CancelWrites DEF CancelWrite, WriteRaises
  <2>4. Cancelling[cpc[c]].next \in CpcValue
    BY <2>1, <2>3, Places DEF CancelCommandOK, Cancelling
  <2>5. RequestTyped'
    BY <1>4, <2>4, Places DEF CancelWrite, WriteRaises
  <2>6. faults' \in 0 .. MaxFaults
    BY <1>4, AiQueueAssumption DEF CancelWrite, WriteRaises
  <2>. QED  BY <1>4, <2>3, <2>5, <2>6 DEF CancelWrite, WriteRaises
<1>. QED  BY <1>1, <1>2, <1>3, <1>4, <1>5 DEF Cancel, CancelRaises

\* A stream keeps the types: what it emits is an event of the log.
LEMMA ViewType ==
  ASSUME TypeOK, ViewInv, NEW v \in Viewer,
         Emit(v) \/ Detach(v) \/ \E t \in Task : Attach(v, t)
  PROVE  TypeOK'
<1>. USE TypeParts DEF RequestTyped, WorkerTyped, ViewTyped, jobVars, cancelVars
<1>1. UNCHANGED <<jobVars, storeVars, cancelVars, crashes, faults>>
  BY DEF Emit, Detach, Attach
<1>2. StoreTyped'
  BY <1>1 DEF StoreTyped, storeVars
<1>3. CASE Emit(v)
  <2>1. cursor' \in [Viewer -> Nat] /\ vtask' = vtask
    BY <1>3 DEF Emit
  <2>2. vpc' \in [Viewer -> {"idle", "streaming", "gone"} \union TerminalEvent]
    BY <1>3 DEF Emit
  <2>. QED  BY <1>1, <1>2, <2>1, <2>2
<1>4. CASE Detach(v)
  BY <1>1, <1>2, <1>4 DEF Detach
<1>5. CASE \E t \in Task : Attach(v, t)
  BY <1>1, <1>2, <1>5 DEF Attach
<1>. QED  BY <1>3, <1>4, <1>5

\* A crash keeps the types.
LEMMA CrashType ==
  ASSUME TypeOK, Crash
  PROVE  TypeOK'
<1>. USE TypeParts DEF Crash
<1>1. StoreTyped'
  BY DEF StoreTyped, storeVars
<1>2. WorkerTyped'
  BY DEF WorkerTyped, WpcValue
<1>3. RequestTyped'
  BY Places DEF RequestTyped
<1>4. ViewTyped'
  BY DEF ViewTyped
<1>5. crashes' \in 0 .. MaxCrashes
  BY AiQueueAssumption
<1>. QED  BY <1>1, <1>2, <1>3, <1>4, <1>5

\* Every step keeps the types.
LEMMA TypeStep ==
  ASSUME TypeOK, CancelInv, ViewInv, [Next]_vars
  PROVE  TypeOK'
<1>1. CASE UNCHANGED vars
  BY <1>1 DEF TypeOK, vars, jobVars, storeVars, cancelVars, viewVars
<1>2. CASE \E t \in Task : Invoke(t) \/ Work(t) \/ AwaitRaises(t)
  BY <1>2, WorkerType
<1>3. CASE \E c \in Canceller :
             Cancel(c) \/ CancelRaises(c) \/ \E t \in Task : CancelRead(c, t)
  BY <1>3, CancelType
<1>4. CASE \E v \in Viewer : Emit(v) \/ Detach(v) \/ \E t \in Task : Attach(v, t)
  BY <1>4, ViewType
<1>5. CASE Crash
  BY <1>5, CrashType
<1>. QED  BY <1>1, <1>2, <1>3, <1>4, <1>5 DEF Next

-----------------------------------------------------------------------------
(* One task: whatever step is taken, what is closed stays closed, and what *)
(* is doomed is closed in the end.                                         *)

Moves(t) ==
  /\ TaskOK(t)'
  /\ stalls'[t] = 0 => stalls[t] = 0
  /\ job[t] # "absent" => job'[t] # "absent"
  /\ stalls'[t] = 0 /\ job'[t] = "waiting" => job[t] \in {"absent", "waiting"}
  /\ stalls'[t] = 0 /\ Closed(t) => Closed(t)'
  /\ stalls'[t] = 0 /\ Doomed(t) => Doomed(t)' \/ Closed(t)'

Still(t) ==
  UnchangedAt(t) /\ job'[t] = job[t] /\ stalls'[t] = stalls[t] /\ wpc'[t] = wpc[t]

\* A task no step touches is as it was.
LEMMA StillMoves ==
  ASSUME NEW t \in Task, TaskOK(t), Still(t)
  PROVE  Moves(t)
BY HasSame DEF Still, UnchangedAt, Moves, TaskOK, FirstRun, Closed, Doomed, NoResult

WorkerEffect(t) ==
  /\ NoResult(t) /\ wpc[t] \notin Storing => NoResult(t)'
  /\ wpc[t] \in Polling => flag'[t] = flag[t]
  /\ status'[t] = "cancelled" => status[t] = "cancelled" \/ wpc[t] = "stopStore"

\* A command of the processor makes a result only past the last look at the
\* flag, and stores "cancelled" only in handleCancelledTask.
LEMMA WrittenEffect ==
  ASSUME NEW t \in Task, CommandOK(wpc[t], Processing[wpc[t]]),
         Written(t, Processing[wpc[t]]), WrittenHas(t, Processing[wpc[t]])
  PROVE  WorkerEffect(t)
BY DEF CommandOK, Written, WrittenHas, WorkerEffect, NoResult

\* The steps of the worker move their own task like that, and no other.
LEMMA WorkerMoves ==
  ASSUME TypeOK, TaskInv, NEW t \in Task, Invoke(t) \/ Work(t) \/ AwaitRaises(t),
         NEW u \in Task
  PROVE  Moves(u)
<1>. USE TypeParts DEF WorkerTyped
<1>0. TaskOK(u) /\ TaskOK(t)
  BY DEF TaskInv
<1>1. CASE u # t
  <2>1. job'[u] = job[u] /\ stalls'[u] = stalls[u] /\ wpc'[u] = wpc[u]
    BY <1>1 DEF Invoke, Work, Take, CommandReturns, OpenStream, NextChunk, CheckCancel,
                Finish, Requeue, AwaitRaises, GoTo
  <2>2. CASE CommandReturns(t) \/ AwaitRaises(t)
    <3>1. UnchangedAt(u)
      BY <1>1, <2>2, WorkerWrites DEF CommandReturns, AwaitRaises, storeVars, UnchangedAt
    <3>. QED  BY <1>0, <2>1, <3>1, StillMoves DEF Still
  <2>3. CASE ~(CommandReturns(t) \/ AwaitRaises(t))
    <3>1. UnchangedAt(u)
      BY <1>1, <2>3 DEF Invoke, Work, Take, OpenStream, NextChunk, CheckCancel,
                Finish, Requeue, storeVars, UnchangedAt, StoreTyped
    <3>. QED  BY <1>0, <2>1, <3>1, StillMoves DEF Still
  <2>. QED  BY <2>2, <2>3
<1>2. CASE u = t
  <2>. USE <1>0, <1>2 DEF Moves, TaskOK, FirstRun, Closed, Doomed, NoResult, GoTo
  <2>1. CASE Invoke(t)
    <3>1. \A e : Has(t, e)' <=> Has(t, e) \/ e = "queued"
      <4>1. log[t] \in Seq(EventName) /\ log'[t] = Append(log[t], "queued")
        BY <2>1 DEF Invoke, StoreTyped
      <4>. QED  BY <4>1, HasAppended DEF EventName
    <3>. QED  BY <2>1, <3>1 DEF Invoke, StoreTyped
  <2>2. CASE Take(t)
    BY <2>2, HasSame DEF Take, storeVars, Polling, Stopping, Storing
  <2>3. CASE CommandReturns(t)
    <3>1. /\ CommandOK(wpc[t], Processing[wpc[t]])
          /\ Written(t, Processing[wpc[t]])
          /\ WrittenHas(t, Processing[wpc[t]])
      BY <2>3, WorkerWrites DEF CommandReturns
    <3>2. wpc'[t] = Processing[wpc[t]].next /\ job' = job /\ stalls' = stalls
      BY <2>3 DEF CommandReturns, WpcValue
    <3>3. job[t] = "active"
      BY <2>3 DEF CommandReturns, Processing
    <3>4. WorkerEffect(t)
      BY <3>1, WrittenEffect
    <3>5. /\ wpc[t] \in Polling <=> wpc'[t] \in Polling
          /\ wpc'[t] \in Stopping => wpc[t] \in Stopping
          /\ wpc'[t] \in Polling \union Storing => wpc[t] \in Polling \union Storing
          /\ wpc[t] = "stopStore" => wpc'[t] \notin Polling \union Storing
      BY <3>1, <3>2 DEF CommandOK, Polling, Storing
    <3>. QED  BY <3>2, <3>3, <3>4, <3>5 DEF WorkerEffect, Stopping, Polling, Storing
  <2>4. CASE OpenStream(t)
    BY <2>4, HasSame DEF OpenStream, storeVars, Polling, Stopping, Storing
  <2>5. CASE NextChunk(t)
    BY <2>5, HasSame DEF NextChunk, storeVars, Polling, Stopping, Storing
  <2>6. CASE CheckCancel(t)
    BY <2>6, HasSame DEF CheckCancel, storeVars, Polling, Stopping, Storing
  <2>7. CASE Finish(t)
    BY <2>7, HasSame DEF Finish, storeVars, Polling, Stopping, Storing, Ends
  <2>8. CASE Requeue(t)
    BY <2>8, HasSame DEF Requeue, storeVars, Polling, Stopping, Storing
  <2>9. CASE AwaitRaises(t)
    <3>1. wpc[t] # "idle" /\ wpc[t] # "lost" /\ job[t] = "active"
      BY <2>9 DEF AwaitRaises, Working, Ends, InTry, Processing
    <3>2. job' = job /\ stalls' = stalls /\ wpc'[t] \in {"failStore", "failed"}
      BY <2>9 DEF AwaitRaises, Handler, WpcValue
    <3>3. WorkerEffect(t)
      <4>1. CASE UNCHANGED storeVars
        BY <4>1, HasSame DEF WorkerEffect, storeVars, NoResult
      <4>2. CASE ~UNCHANGED storeVars
        BY <2>9, <4>2, WorkerWrites, WrittenEffect DEF AwaitRaises
      <4>. QED  BY <4>1, <4>2
    <3>. QED  BY <3>1, <3>2, <3>3 DEF WorkerEffect, Stopping, Polling, Storing
  <2>. QED  BY <2>1, <2>2, <2>3, <2>4, <2>5, <2>6, <2>7, <2>8, <2>9 DEF Work
<1>. QED  BY <1>1, <1>2

\* A cancel request moves its own task like that too, and no other: it only
\* clears the flag and stores "cancelled" when the task is closed.
LEMMA CancelMoves ==
  ASSUME TypeOK, TaskInv, CancelInv, NEW c \in Canceller,
         Cancel(c) \/ CancelRaises(c) \/ \E t \in Task : CancelRead(c, t),
         NEW u \in Task
  PROVE  Moves(u)
<1>. USE TypeParts DEF WorkerTyped, jobVars
<1>. DEFINE t == ctask[c]
<1>0. TaskOK(u)
  BY DEF TaskInv
<1>1. CASE CancelLookup(c) \/ \E s \in Task : CancelRead(c, s)
  BY <1>0, <1>1, StillMoves DEF CancelLookup, CancelRead, storeVars, Still, UnchangedAt
<1>2. CASE CancelRemove(c)
  <2>1. t \in Task /\ TaskOK(t) /\ (stalls[t] = 0 => Doomed(t) \/ Closed(t)) /\ job[t] # "absent"
    BY <1>2 DEF CancelRemove, CancelInv, Known, CancelOK, TaskInv
  <2>2. /\ UnchangedAt(u) /\ stalls'[u] = stalls[u] /\ wpc'[u] = wpc[u]
        /\ u # t \/ job[t] = "active" => job'[u] = job[u]
    BY <1>2, <2>1 DEF CancelRemove, storeVars, UnchangedAt
  <2>3. CASE u # t \/ job[t] = "active"
    BY <1>0, <2>2, <2>3, StillMoves DEF Still
  <2>4. CASE u = t /\ job[t] # "active"
    <3>1. job'[t] = "removed" /\ wpc[t] = "idle"
      BY <1>2, <2>1, <2>4 DEF CancelRemove, TaskOK
    <3>. QED  BY <1>0, <2>1, <2>2, <2>4, <3>1, HasSame
              DEF Moves, TaskOK, FirstRun, Doomed, Closed, NoResult, UnchangedAt,
                  Polling, Storing, Stopping
  <2>. QED  BY <2>3, <2>4
<1>4. CASE JobCallRaises(c)
  <2>1. t \in Task /\ TaskOK(t) /\ job[t] # "absent" /\ (stalls[t] = 0 => CancelOK(c))
    BY <1>4 DEF JobCallRaises, CancelInv, Known, TaskInv
  <2>2. UnchangedAt(u) /\ stalls'[u] = stalls[u] /\ wpc'[u] = wpc[u]
    BY <1>4 DEF JobCallRaises, storeVars, UnchangedAt
  <2>3. CASE job'[u] = job[u]
    BY <1>0, <2>2, <2>3, StillMoves DEF Still
  <2>4. CASE job'[u] # job[u]
    <3>1. /\ u = t /\ cpc[c] = "remove" /\ job[t] # "active" /\ job'[t] = "removed"
      BY <1>4, <2>1, <2>4 DEF JobCallRaises
    <3>2. wpc[t] = "idle" /\ (stalls[t] = 0 => Doomed(t) \/ Closed(t))
      BY <2>1, <3>1 DEF TaskOK, CancelOK
    <3>. QED  BY <1>0, <2>1, <2>2, <3>1, <3>2, HasSame
              DEF Moves, TaskOK, FirstRun, Doomed, Closed, NoResult, UnchangedAt,
                  Polling, Storing, Stopping
  <2>. QED  BY <2>3, <2>4
<1>3. CASE CancelWrite(c) \/ WriteRaises(c)
  <2>1. cpc[c] \in DOMAIN Cancelling
    BY <1>3 DEF CancelWrite, WriteRaises
  <2>2. PICK s \in Task : s = ctask[c] /\ TaskOK(s) /\ (stalls[s] = 0 => CancelOK(c))
    BY <2>1 DEF CancelInv, Known, TaskInv, Cancelling
  <2>3. job' = job /\ stalls' = stalls /\ wpc' = wpc
    BY <1>3 DEF CancelWrite, WriteRaises
  <2>4. /\ CancelCommandOK(cpc[c], Cancelling[cpc[c]])
        /\ Written(s, Cancelling[cpc[c]])
        /\ WrittenHas(s, Cancelling[cpc[c]])
        /\ \A w \in Task : w # s => UnchangedAt(w)
    BY <1>3, <2>1, <2>2, CancelWrites DEF CancelWrite, WriteRaises
  <2>5. CASE u # s
    BY <1>0, <2>3, <2>4, <2>5, StillMoves DEF Still
  <2>6. CASE u = s
    <3>1. /\ row'[s] = row[s]
          /\ status'[s] = status[s] \/ (cpc[c] = "store" /\ status'[s] = "cancelled")
          /\ flag'[s] = flag[s] \/ flag'[s] \/ cpc[c] = "clear"
          /\ Has(s, "complete")' <=> Has(s, "complete")
      BY <2>4 DEF CancelCommandOK, Written, WrittenHas
    <3>2. cpc[c] \in {"store", "clear"} /\ stalls[s] = 0 => Closed(s)
      BY <2>2 DEF CancelOK
    <3>. QED  BY <2>2, <2>3, <2>6, <3>1, <3>2
              DEF Moves, TaskOK, FirstRun, Doomed, Closed, NoResult, Polling, Storing
  <2>. QED  BY <2>5, <2>6
<1>. QED  BY <1>1, <1>2, <1>3, <1>4 DEF Cancel, CancelRaises

\* A crash takes the worker away, and nothing else of a task.
LEMMA CrashMoves ==
  ASSUME TypeOK, TaskInv, Crash, NEW u \in Task
  PROVE  Moves(u)
<1>1. TaskOK(u)
  BY DEF TaskInv
<1>2. wpc'[u] = wpc[u] \/ (wpc'[u] = "lost" /\ wpc[u] # "idle")
  BY DEF Crash, Working, Ends, InTry, Processing
<1>3. UnchangedAt(u) /\ job'[u] = job[u] /\ stalls'[u] = stalls[u]
  BY DEF Crash, storeVars, UnchangedAt
<1>. QED  BY <1>1, <1>2, <1>3, HasSame DEF Moves, TaskOK, FirstRun, Doomed, Closed, NoResult,
          UnchangedAt, Polling, Storing, Stopping

\* Every step moves every task like that.
LEMMA NextMoves ==
  ASSUME TypeOK, TaskInv, CancelInv, [Next]_vars, NEW u \in Task
  PROVE  Moves(u)
<1>0. TaskOK(u)
  BY DEF TaskInv
<1>1. CASE UNCHANGED vars
  BY <1>0, <1>1, StillMoves DEF vars, jobVars, storeVars, Still, UnchangedAt
<1>2. CASE \E t \in Task : Invoke(t) \/ Work(t) \/ AwaitRaises(t)
  BY <1>2, WorkerMoves
<1>3. CASE \E c \in Canceller :
             Cancel(c) \/ CancelRaises(c) \/ \E t \in Task : CancelRead(c, t)
  BY <1>3, CancelMoves
<1>4. CASE \E v \in Viewer : Emit(v) \/ Detach(v) \/ \E t \in Task : Attach(v, t)
  BY <1>0, <1>4, StillMoves DEF Emit, Detach, Attach, jobVars, storeVars, Still, UnchangedAt
<1>5. CASE Crash
  BY <1>5, CrashMoves
<1>. QED  BY <1>1, <1>2, <1>3, <1>4, <1>5 DEF Next

-----------------------------------------------------------------------------
(* The cancel requests.                                                    *)

\* A request that takes no step keeps what it knows.
LEMMA WaitingKeeps ==
  ASSUME CancelInv, NEW c \in Canceller, cpc'[c] = cpc[c], ctask'[c] = ctask[c],
         \A u \in Task : Moves(u), cpc[c] # "idle"
  PROVE  /\ ctask'[c] \in Task
         /\ job'[ctask'[c]] # "absent"
         /\ stalls'[ctask'[c]] = 0 => CancelOK(c)'
<1>. DEFINE t == ctask[c]
<1>1. t \in Task /\ job[t] # "absent" /\ (stalls[t] = 0 => CancelOK(c)) /\ Moves(t)
  BY DEF CancelInv, Known
<1>2. job'[t] = "waiting" => ~Closed(t)'
  BY DEF Closed
<1>. QED  BY <1>1, <1>2 DEF Moves, CancelOK, Doomed, Closed, NoResult

\* A step of the request keeps what it knows.
LEMMA RequestKeeps ==
  ASSUME TypeOK, TaskInv, CancelInv, NEW c \in Canceller,
         Cancel(c) \/ CancelRaises(c) \/ \E t \in Task : CancelRead(c, t),
         \A u \in Task : Moves(u)
  PROVE  Known(c)'
<1>. USE TypeParts DEF RequestTyped, Known
<1>1. CASE \E t \in Task : CancelRead(c, t)
  <2>1. PICK t \in Task : CancelRead(c, t)
    BY <1>1
  <2>2. /\ ctask'[c] = t /\ job' = job /\ stalls' = stalls /\ wpc' = wpc
        /\ status' = status /\ row' = row /\ log' = log /\ job[t] # "absent"
    BY <2>1 DEF CancelRead, jobVars, storeVars
  <2>3. cpc'[c] \in {"refused", "conflict", "request"} \/ (cpc'[c] = "cancelled" /\ status[t] = "cancelled")
    BY <2>1 DEF CancelRead
  <2>4. stalls[t] = 0 /\ status[t] = "cancelled" => Closed(t)
    BY DEF TaskInv, TaskOK, FirstRun
  <2>. QED  BY <2>2, <2>3, <2>4, HasSame DEF CancelOK, Closed, NoResult
<1>2. CASE ~\E t \in Task : CancelRead(c, t)
  <2>. DEFINE t == ctask[c]
  <2>1. cpc[c] # "idle"
    BY <1>2 DEF Cancel, CancelLookup, CancelRemove, CancelWrite, CancelRaises, WriteRaises, JobCallRaises, Cancelling
  <2>2. /\ ctask'[c] = t /\ t \in Task /\ job[t] # "absent" /\ Moves(t) /\ TaskOK(t)
        /\ stalls[t] = 0 => CancelOK(c)
    BY <1>2, <2>1 DEF Cancel, CancelLookup, CancelRemove, CancelWrite, CancelRaises,
          WriteRaises, JobCallRaises,
          CancelInv, Known, TaskInv
  <2>3. CASE CancelLookup(c)
    <3>1. /\ cpc'[c] = IF job[t] = "waiting" THEN "remove" ELSE "cancelling"
          /\ cpc[c] = "lookup" /\ job' = job
      BY <2>3 DEF CancelLookup, jobVars
    <3>. QED  BY <2>2, <3>1 DEF CancelOK, Moves, Doomed, Closed, NoResult
  <2>4. CASE CancelRemove(c)
    <3>1. cpc'[c] = "error" \/ (cpc'[c] = "clear" /\ job'[t] = "removed")
      BY <2>2, <2>4 DEF CancelRemove, WorkerTyped
    <3>2. cpc[c] = "remove" /\ wpc' = wpc
      BY <2>4 DEF CancelRemove
    <3>3. job'[t] = "removed" => ~Doomed(t)'
      BY <2>2, <3>2 DEF Doomed, Moves, TaskOK, Polling
    <3>. QED  BY <2>2, <3>1, <3>2, <3>3 DEF CancelOK, Moves
  <2>5. CASE CancelWrite(c)
    <3>1. cpc[c] \in DOMAIN Cancelling
      BY <2>5 DEF CancelWrite
    <3>2. /\ CancelCommandOK(cpc[c], Cancelling[cpc[c]])
          /\ cpc'[c] = Cancelling[cpc[c]].next /\ job' = job /\ wpc' = wpc
      BY <2>5, <3>1, CancellingTable DEF CancelWrite, jobVars
    <3>3. cpc[c] \in {"request", "clear", "store", "publish"}
      BY <3>1 DEF Cancelling
    <3>4. CASE cpc[c] = "request"
      <4>1. flag'[t]
        BY <2>2, <2>5, <3>4 DEF CancelWrite, Execute, Cancelling, Command, StoreTyped
      <4>2. row' = row /\ status' = status /\ log' = log
        BY <2>2, <2>5, <3>4 DEF CancelWrite, Execute, Cancelling, Command
      <4>. QED  BY <2>2, <3>2, <3>4, <4>1, <4>2, HasSame
                DEF CancelOK, Moves, TaskOK, FirstRun, Doomed, NoResult, CancelCommandOK
    <3>5. CASE cpc[c] \in {"clear", "store", "publish"}
      <4>1. cpc'[c] \in {"store", "publish", "cancelled"}
        BY <3>2, <3>5 DEF CancelCommandOK
      <4>. QED  BY <2>2, <3>5, <4>1 DEF CancelOK, Moves
    <3>. QED  BY <3>3, <3>4, <3>5
  <2>6. CASE CancelRaises(c)
    <3>1. cpc'[c] = "error"
      BY <2>6 DEF CancelRaises, WriteRaises, JobCallRaises
    <3>. QED  BY <2>2, <3>1 DEF CancelOK, Moves
  <2>. QED  BY <1>2, <2>3, <2>4, <2>5, <2>6 DEF Cancel
<1>. QED  BY <1>1, <1>2

\* Every step keeps what every request knows of its task.
LEMMA CancelStep ==
  ASSUME TypeOK, TaskInv, CancelInv, [Next]_vars
  PROVE  CancelInv'
<1>. USE TypeParts DEF RequestTyped
<1>. SUFFICES ASSUME NEW d \in Canceller
              PROVE  Known(d)'
  BY DEF CancelInv, Known
<1>0. \A u \in Task : Moves(u)
  BY NextMoves
<1>1. CASE cpc'[d] = cpc[d] /\ ctask'[d] = ctask[d]
  BY <1>0, <1>1, WaitingKeeps DEF Known
<1>2. CASE ~(cpc'[d] = cpc[d] /\ ctask'[d] = ctask[d])
  <2>1. ~UNCHANGED vars
    BY <1>2 DEF vars, cancelVars
  <2>2. CASE \E c \in Canceller :
               Cancel(c) \/ CancelRaises(c) \/ \E t \in Task : CancelRead(c, t)
    <3>1. PICK c \in Canceller :
               Cancel(c) \/ CancelRaises(c) \/ \E t \in Task : CancelRead(c, t)
      BY <2>2
    <3>2. c = d
      BY <1>2, <3>1 DEF Cancel, CancelLookup, CancelRemove, CancelWrite, CancelRaises,
                   WriteRaises, JobCallRaises, CancelRead
    <3>. QED  BY <1>0, <3>1, <3>2, RequestKeeps
  <2>3. CASE Crash
    <3>1. cpc'[d] = "error" /\ cpc[d] # "idle" /\ ctask' = ctask /\ job' = job
      BY <1>2, <2>3 DEF Crash
    <3>. QED  BY <3>1 DEF Known, CancelOK, CancelInv
  <2>4. cancelVars' = cancelVars => FALSE
    BY <1>2 DEF cancelVars
  <2>5. ~\E t \in Task : Invoke(t) \/ Work(t) \/ AwaitRaises(t)
    BY <2>4 DEF Invoke, Work, Take, CommandReturns, OpenStream, NextChunk, CheckCancel,
                Finish, Requeue, AwaitRaises, cancelVars
  <2>6. ~\E v \in Viewer : Emit(v) \/ Detach(v) \/ \E t \in Task : Attach(v, t)
    BY <2>4 DEF Emit, Detach, Attach, cancelVars
  <2>. QED  BY <2>1, <2>2, <2>3, <2>5, <2>6 DEF Next
<1>. QED  BY <1>1, <1>2

-----------------------------------------------------------------------------
(* The event streams and their viewers.                                    *)

Grows(t) ==
  /\ Len(log'[t]) >= Len(log[t])
  /\ \A i \in 1 .. Len(log[t]) : log'[t][i] = log[t][i]

\* Publishing keeps what was published.
LEMMA WrittenGrows ==
  ASSUME StoreTyped, NEW t \in Task, NEW e,
         log'[t] = log[t] \/ log'[t] = Append(log[t], e)
  PROVE  Grows(t)
<1>1. log[t] \in Seq(EventName \union {e})
  <2>1. log[t] \in Seq(EventName)
    BY DEF StoreTyped
  <2>. QED  BY <2>1
<1>. QED  BY <1>1 DEF Grows

\* Nothing takes an event out of a stream.
LEMMA LogGrows ==
  ASSUME TypeOK, CancelInv, [Next]_vars, NEW u \in Task
  PROVE  Grows(u)
<1>. USE TypeParts
<1>0. CASE log' = log
  BY <1>0, WrittenGrows
<1>1. CASE \E t \in Task : Invoke(t)
  <2>1. log'[u] = log[u] \/ log'[u] = Append(log[u], "queued")
    BY <1>1 DEF Invoke, StoreTyped
  <2>. QED  BY <2>1, WrittenGrows
<1>2. CASE \E t \in Task : CommandReturns(t) \/ AwaitRaises(t)
  <2>1. PICK t \in Task : CommandReturns(t) \/ AwaitRaises(t)
    BY <1>2
  <2>2. CASE log' # log
    <3>1. Written(t, Processing[wpc[t]]) /\ (u # t => UnchangedAt(u))
      BY <2>1, <2>2, WorkerWrites DEF CommandReturns, AwaitRaises, storeVars
    <3>2. log'[u] = log[u] \/ log'[u] = Append(log[u], Processing[wpc[t]].value)
      BY <3>1 DEF Written, UnchangedAt
    <3>. QED  BY <3>2, WrittenGrows
  <2>. QED  BY <1>0, <2>2
<1>3. CASE \E c \in Canceller : CancelWrite(c) \/ WriteRaises(c)
  <2>1. PICK c \in Canceller : CancelWrite(c) \/ WriteRaises(c)
    BY <1>3
  <2>2. PICK t \in Task : cpc[c] \in DOMAIN Cancelling /\ ctask[c] = t
    BY <2>1 DEF CancelWrite, WriteRaises, CancelInv, Known, Cancelling
  <2>3. Written(t, Cancelling[cpc[c]]) /\ (u # t => UnchangedAt(u))
    BY <2>1, <2>2, CancelWrites DEF CancelWrite, WriteRaises
  <2>4. log'[u] = log[u] \/ log'[u] = Append(log[u], Cancelling[cpc[c]].value)
    BY <2>3 DEF Written, UnchangedAt
  <2>. QED  BY <2>4, WrittenGrows
<1>4. CASE UNCHANGED vars
  BY <1>0, <1>4 DEF vars, storeVars
<1>5. CASE \E t \in Task : Work(t) /\ ~CommandReturns(t)
  BY <1>0, <1>5 DEF Work, Take, OpenStream, NextChunk, CheckCancel, Finish, Requeue, storeVars
<1>6. CASE \E c \in Canceller : \/ CancelLookup(c) \/ CancelRemove(c) \/ JobCallRaises(c)
                                \/ \E t \in Task : CancelRead(c, t)
  BY <1>0, <1>6 DEF CancelLookup, CancelRemove, JobCallRaises, CancelRead, storeVars
<1>7. CASE \E v \in Viewer : Emit(v) \/ Detach(v) \/ \E t \in Task : Attach(v, t)
  BY <1>0, <1>7 DEF Emit, Detach, Attach, storeVars
<1>8. CASE Crash
  BY <1>0, <1>8 DEF Crash, storeVars
<1>. QED  BY <1>1, <1>2, <1>3, <1>4, <1>5, <1>6, <1>7, <1>8 DEF Next, Cancel, CancelRaises

\* A viewer either takes a step of its own, or only hears of the log growing
\* and of the process dying.
Waits(v) ==
  /\ vtask'[v] = vtask[v] /\ cursor'[v] = cursor[v]
  /\ vpc'[v] = vpc[v] \/ (vpc[v] = "streaming" /\ vpc'[v] = "gone")

\* Each step is a step of the viewer or one it waits through.
LEMMA ViewCases ==
  ASSUME TypeOK, [Next]_vars, NEW v \in Viewer
  PROVE  Emit(v) \/ (\E t \in Task : Attach(v, t)) \/ Waits(v)
<1>. USE TypeParts DEF ViewTyped, Waits
<1>1. CASE viewVars' = viewVars
  BY <1>1 DEF viewVars
<1>2. CASE \E w \in Viewer : Emit(w) \/ Detach(w) \/ \E t \in Task : Attach(w, t)
  <2>1. PICK w \in Viewer : Emit(w) \/ Detach(w) \/ \E t \in Task : Attach(w, t)
    BY <1>2
  <2>2. CASE w = v
    BY <2>1, <2>2 DEF Detach
  <2>3. CASE w # v
    BY <2>1, <2>3 DEF Emit, Detach, Attach
  <2>. QED  BY <2>2, <2>3
<1>3. CASE Crash
  BY <1>3 DEF Crash
<1>4. CASE UNCHANGED vars
  BY <1>1, <1>4 DEF vars
<1>5. CASE \E t \in Task : Invoke(t) \/ Work(t) \/ AwaitRaises(t)
  BY <1>1, <1>5 DEF Invoke, Work, Take, CommandReturns, OpenStream, NextChunk, CheckCancel,
                Finish, Requeue, AwaitRaises, viewVars
<1>6. CASE \E c \in Canceller :
             Cancel(c) \/ CancelRaises(c) \/ \E t \in Task : CancelRead(c, t)
  BY <1>1, <1>6 DEF Cancel, CancelLookup, CancelRemove, CancelWrite, CancelRaises,
                   WriteRaises, JobCallRaises, CancelRead, viewVars
<1>. QED  BY <1>2, <1>3, <1>4, <1>5, <1>6 DEF Next

\* The entry a stream emits is the one after its cursor.
LEMMA UnreadHead ==
  ASSUME TypeOK, NEW v \in Viewer, vtask[v] \in Task, Unread(v) # <<>>
  PROVE  /\ cursor[v] + 1 \in 1 .. Len(log[vtask[v]])
         /\ Head(Unread(v)) = log[vtask[v]][cursor[v] + 1]
<1>1. log[vtask[v]] \in Seq(EventName) /\ cursor[v] \in Nat
  BY TypeParts DEF StoreTyped, ViewTyped
<1>2. Len(log[vtask[v]]) \in Nat
  BY <1>1, LenProperties
<1>3. cursor[v] + 1 <= Len(log[vtask[v]])
  BY <1>1, <1>2, SubSeqEmpty DEF Unread
<1>. QED  BY <1>1, <1>2, <1>3, HeadTailOfSubSeq DEF Unread

\* Every step keeps the viewers within their logs.
LEMMA ViewStep ==
  ASSUME TypeOK, CancelInv, ViewInv, [Next]_vars
  PROVE  ViewInv'
<1>. USE TypeParts DEF ViewTyped
<1>. SUFFICES ASSUME NEW v \in Viewer
              PROVE  ViewOK(v)'
  BY DEF ViewInv, ViewOK
<1>0. ViewOK(v) /\ \A t \in Task : Grows(t) /\ Len(log[t]) \in Nat /\ Len(log'[t]) \in Nat
  BY LogGrows, TypeStep DEF ViewInv, ViewOK, StoreTyped
<1>1. CASE Waits(v)
  <2>1. CASE vpc[v] = "idle"
    BY <1>0, <1>1, <2>1 DEF Waits, ViewOK
  <2>2. CASE vpc[v] # "idle"
    <3>1. /\ vtask'[v] = vtask[v] /\ cursor'[v] = cursor[v] /\ cursor[v] \in Nat
          /\ vpc'[v] = vpc[v] \/ vpc'[v] = "gone"
      BY <1>1 DEF Waits
    <3>2. PICK t \in Task : t = vtask[v] /\ cursor[v] <= Len(log[t])
      BY <1>0, <2>2 DEF ViewOK
    <3>3. Len(log'[t]) >= Len(log[t]) /\ \A i \in 1 .. cursor[v] : log'[t][i] = log[t][i]
      BY <1>0, <3>1, <3>2 DEF Grows
    <3>4. vpc'[v] # "idle"
      BY <2>2, <3>1
    <3>. QED  BY <1>0, <2>2, <3>1, <3>2, <3>3, <3>4 DEF ViewOK, TerminalEvent
  <2>. QED  BY <2>1, <2>2
<1>2. CASE Emit(v)
  <2>1. vtask[v] \in Task /\ vpc[v] = "streaming" /\ log' = log /\ vtask' = vtask
    BY <1>0, <1>2 DEF Emit, ViewOK, storeVars
  <2>. DEFINE e == log[vtask[v]][cursor[v] + 1]
  <2>2. /\ cursor'[v] = cursor[v] + 1 /\ cursor[v] + 1 <= Len(log[vtask[v]])
        /\ vpc'[v] = IF e \in TerminalEvent THEN e ELSE "streaming"
    BY <1>2, <2>1, UnreadHead DEF Emit
  <2>3. vpc'[v] # "idle"
    BY <1>2 DEF Emit, TerminalEvent
  <2>4. \A i \in 1 .. cursor[v] : log[vtask[v]][i] \notin TerminalEvent
    BY <1>0, <2>1 DEF ViewOK
  <2>5. CASE e \in TerminalEvent
    <3>1. vpc'[v] = e /\ vpc'[v] # "streaming"
      BY <2>2, <2>5 DEF TerminalEvent
    <3>. QED  BY <2>1, <2>2, <2>3, <2>4, <2>5, <3>1 DEF ViewOK
  <2>6. CASE e \notin TerminalEvent
    <3>1. vpc'[v] = "streaming" /\ vpc'[v] \notin TerminalEvent
      BY <2>2, <2>6 DEF TerminalEvent
    <3>2. \A i \in 1 .. cursor[v] + 1 : log[vtask[v]][i] \notin TerminalEvent
      BY <2>4, <2>6
    <3>. QED  BY <2>1, <2>2, <2>3, <3>1, <3>2 DEF ViewOK
  <2>. QED  BY <2>5, <2>6
<1>3. CASE \E t \in Task : Attach(v, t)
  BY <1>0, <1>3 DEF Attach, ViewOK, storeVars, TerminalEvent
<1>. QED  BY <1>1, <1>2, <1>3, ViewCases

-----------------------------------------------------------------------------
(* One task: what its stream tells.                                        *)

\* What each await of the processor writes, the ones of its loop apart.
ToldBy(pc, c) ==
  /\ c.writes = "status" =>
       \/ pc \in Polling /\ c.value = "processing"
       \/ pc = "storeCompleted" /\ c.value = "completed"
       \/ pc = "failStore" /\ c.value = "failed"
       \/ pc = "stopStore" /\ c.value = "cancelled"
  /\ c.writes = "log" =>
       \/ pc \in Polling /\ c.value \in {"started", "chunk"}
       \/ pc = "publishComplete" /\ c.value = "complete"
       \/ pc = "failPublish" /\ c.value = "failed"
       \/ pc = "stopPublish" /\ c.value = "cancelled"
  /\ c.writes = "row" =>
       (pc = "insertPending" /\ c.value = "pending") \/ (pc = "failInsert" /\ c.value = "failed")
  /\ pc = "storeCompleted" => c = Command("status", "completed", "publishComplete")
  /\ pc = "publishComplete" => c = Command("log", "complete", "clearDone")
  /\ pc = "clearDone" => c = Command("flag", FALSE, "insertPending")
  /\ pc = "insertPending" => c = Command("row", "pending", "completed")
  /\ pc = "failStore" => c = Command("status", "failed", "failPublish")
  /\ c.next = "publishComplete" => pc = "storeCompleted"
  /\ c.next = "clearDone" => pc = "publishComplete"
  /\ c.next = "insertPending" => pc = "clearDone"
  /\ c.next = "failPublish" => pc = "failStore"
  /\ c.next \in Polling => pc \in Polling
  /\ c.next = "storeCompleted" => FALSE

\* The commands of the processor are as ToldBy says.
LEMMA ToldTable ==
  ASSUME NEW pc \in DOMAIN Processing
  PROVE  ToldBy(pc, Processing[pc])
<1>1. pc \in {"storeProcessing", "publishStarted", "storeStarted", "publishChunk", "storeChunk",
              "storeCompleted", "publishComplete", "clearDone", "insertPending",
              "failStore", "failPublish", "failClear", "failInsert",
              "stopStore", "stopPublish", "stopClear"}
  BY DEF Processing
<1>. USE DEF Command, ToldBy, Polling
<1>2. CASE pc \in {"storeProcessing", "publishStarted", "storeStarted", "publishChunk", "storeChunk"}
  BY <1>2 DEF Processing
<1>3. CASE pc = "storeCompleted"
  BY <1>3 DEF Processing
<1>4. CASE pc = "publishComplete"
  BY <1>4 DEF Processing
<1>5. CASE pc = "clearDone"
  BY <1>5 DEF Processing
<1>6. CASE pc = "insertPending"
  BY <1>6 DEF Processing
<1>7. CASE pc = "failStore"
  BY <1>7 DEF Processing
<1>8. CASE pc \in {"failPublish", "failClear", "failInsert"}
  BY <1>8 DEF Processing
<1>9. CASE pc \in {"stopStore", "stopPublish", "stopClear"}
  BY <1>9 DEF Processing
<1>. QED  BY <1>1, <1>2, <1>3, <1>4, <1>5, <1>6, <1>7, <1>8, <1>9

\* Failures stay late when the stream is as it was, when another event is
\* added, and when a failure is added behind a completion.
LEMMA FailsStayLate ==
  ASSUME NEW t \in Task, log[t] \in Seq(EventName), FailsLate(t),
         \/ log'[t] = log[t]
         \/ \E x \in EventName : /\ log'[t] = Append(log[t], x)
                                 /\ x = "failed" => Has(t, "complete")
  PROVE  FailsLate(t)'
<1>1. CASE log'[t] = log[t]
  BY <1>1 DEF FailsLate
<1>2. CASE \E x \in EventName : /\ log'[t] = Append(log[t], x)
                                /\ x = "failed" => Has(t, "complete")
  <2>0. PICK x \in EventName : log'[t] = Append(log[t], x) /\ (x = "failed" => Has(t, "complete"))
    BY <1>2
  <2>1. /\ Len(log[t]) \in Nat /\ Len(log'[t]) = Len(log[t]) + 1
        /\ \A i \in 1 .. Len(log[t]) : log'[t][i] = log[t][i]
        /\ log'[t][Len(log[t]) + 1] = x
    BY <2>0
  <2>2. SUFFICES ASSUME NEW j \in 1 .. Len(log'[t]), log'[t][j] = "failed"
                 PROVE  \E i \in 1 .. j - 1 : log'[t][i] = "complete"
    BY DEF FailsLate
  <2>3. CASE j \in 1 .. Len(log[t])
    <3>1. PICK i \in 1 .. j - 1 : log[t][i] = "complete"
      BY <2>1, <2>2, <2>3 DEF FailsLate
    <3>2. log'[t][i] = "complete"
      BY <2>1, <2>3, <3>1
    <3>. QED  BY <3>1, <3>2
  <2>4. CASE j = Len(log[t]) + 1
    <3>1. Has(t, "complete")
      BY <2>0, <2>1, <2>2, <2>4
    <3>2. PICK i \in 1 .. Len(log[t]) : log[t][i] = "complete"
      BY <3>1 DEF Has
    <3>3. log'[t][i] = "complete" /\ i \in 1 .. j - 1
      BY <2>1, <2>4, <3>2
    <3>. QED  BY <3>3
  <2>. QED  BY <2>1, <2>2, <2>3, <2>4
<1>. QED  BY <1>1, <1>2

\* A task none of whose keys a step touches, and whose worker stays, dies or
\* goes back to rest, tells what it told.
LEMMA StillTells ==
  ASSUME NEW t \in Task, Tells(t), UnchangedAt(t), Closed(t) => Closed(t)',
         faults' = 0 => faults = 0,
         job'[t] \in {"absent", "waiting"} => job[t] \in {"absent", "waiting"},
         \/ wpc'[t] = wpc[t]
         \/ wpc'[t] \in {"lost", "idle"} /\ wpc[t] \notin {"clearDone", "insertPending", "lost"}
         \/ wpc'[t] = "lost"
  PROVE  Tells(t)'
<1>1. \A e : Has(t, e)' <=> Has(t, e)
  BY HasSame DEF UnchangedAt
<1>2. FailsLate(t) => FailsLate(t)'
  BY DEF UnchangedAt, FailsLate
<1>3. Closed(t)' \/ FailsLate(t)'
  BY <1>2 DEF Tells
<1>. QED  BY <1>1, <1>3 DEF Tells, UnchangedAt, Polling, Storing

\* What the worker's command, executed or lost, leaves of the failures.
LEMMA CommandFails ==
  ASSUME TypeOK, NEW t \in Task, Tells(t), FirstRun(t), job[t] = "active",
         wpc[t] \in DOMAIN Processing, Written(t, Processing[wpc[t]]),
         Closed(t) => Closed(t)'
  PROVE  Closed(t)' \/ FailsLate(t)'
<1>. DEFINE c == Processing[wpc[t]]
<1>1. ToldBy(wpc[t], c) /\ ValueOK(c)
  BY ToldTable, ProcessingTable DEF CommandOK
<1>2. log[t] \in Seq(EventName)
  BY TypeParts DEF StoreTyped
<1>3. SUFFICES ASSUME ~Closed(t)
               PROVE  FailsLate(t)'
  OBVIOUS
<1>4. FailsLate(t)
  BY <1>3 DEF Tells
<1>5. CASE log'[t] = log[t]
  BY <1>2, <1>4, <1>5, FailsStayLate
<1>6. CASE c.writes = "log" /\ log'[t] = Append(log[t], c.value)
  <2>1. c.value \in EventName
    BY <1>1, <1>6 DEF ValueOK
  <2>2. c.value = "failed" => Has(t, "complete")
    <3>1. SUFFICES ASSUME c.value = "failed", ~Has(t, "complete")
                   PROVE  FALSE
      OBVIOUS
    <3>2. wpc[t] = "failPublish"
      BY <1>1, <1>6, <3>1 DEF ToldBy
    <3>3. row[t] # "pending" /\ status[t] # "completed"
      BY <3>1, <3>2 DEF Tells
    <3>4. Closed(t)
      BY <3>1, <3>2, <3>3 DEF Closed, NoResult, Polling, Storing
    <3>. QED  BY <1>3, <3>4
  <2>. QED  BY <1>2, <1>4, <1>6, <2>1, <2>2, FailsStayLate
<1>. QED  BY <1>5, <1>6 DEF Written

\* An awaited command of the processor that returns.
LEMMA ReturnTells ==
  ASSUME TypeOK, NEW t \in Task, Tells(t), TaskOK(t), stalls[t] = 0, CommandReturns(t),
         Closed(t) => Closed(t)'
  PROVE  Tells(t)'
<1>. USE TypeParts DEF WorkerTyped
<1>. DEFINE pc == wpc[t]
            c == Processing[pc]
<1>1. /\ pc \in DOMAIN Processing /\ Execute(t, c) /\ wpc'[t] = c.next
      /\ job' = job /\ faults' = faults
  BY DEF CommandReturns, GoTo, WpcValue
<1>2. CommandOK(pc, c) /\ Written(t, c) /\ WrittenHas(t, c) /\ ToldBy(pc, c)
  BY <1>1, WorkerWrites, ToldTable
<1>3. job[t] = "active" /\ FirstRun(t)
  BY <1>1 DEF TaskOK, Processing
<1>4. Closed(t)' \/ FailsLate(t)'
  BY <1>1, <1>2, <1>3, CommandFails
<1>5. pc = "publishComplete" => Has(t, "complete")'
  <2>1. pc = "publishComplete" => c.writes = "log" /\ c.value = "complete"
    BY <1>2 DEF ToldBy, Command
  <2>2. log[t] \in Seq(EventName)
    BY DEF StoreTyped
  <2>3. pc = "publishComplete" => log'[t] = Append(log[t], "complete")
    BY <1>1, <2>1 DEF Execute, StoreTyped
  <2>. QED  BY <2>2, <2>3, HasAppended DEF EventName, TerminalEvent
<1>6. pc = "storeCompleted" => status'[t] = "completed"
  BY <1>1, <1>2 DEF ToldBy, Command, Execute, StoreTyped
<1>7. pc = "failStore" => status'[t] = "failed"
  BY <1>1, <1>2 DEF ToldBy, Command, Execute, StoreTyped
<1>8. pc = "insertPending" => row'[t] = "pending" /\ row[t] = "none"
  BY <1>1, <1>2 DEF ToldBy, Command, Execute, StoreTyped
<1>9. /\ status'[t] = status[t] \/ pc \in Polling \union {"storeCompleted", "failStore", "stopStore"}
      /\ row'[t] = row[t] \/ pc \in {"insertPending", "failInsert"}
      /\ row'[t] = row[t] \/ row'[t] = "failed" \/ pc = "insertPending"
      /\ Has(t, "complete") => Has(t, "complete")'
      /\ Has(t, "complete")' => Has(t, "complete") \/ pc = "publishComplete"
      /\ Has(t, "cancelled")' => Has(t, "cancelled") \/ pc = "stopPublish"
  BY <1>2 DEF ToldBy, Written, WrittenHas
<1>10. pc \in Polling \union Stopping => ~Has(t, "complete")
  BY <1>3 DEF FirstRun, NoResult
<1>11. pc = "stopPublish" => Closed(t)
  BY <1>3 DEF FirstRun, Closed, Stopping, Polling, Storing
<1>12. /\ c.next \in Polling \union Storing => pc \in Polling \union (Storing \ {"insertPending"})
       /\ c.next \in {"publishComplete", "clearDone", "insertPending"} =>
            pc \in {"storeCompleted", "publishComplete", "clearDone"}
       /\ c.next = "clearDone" => pc = "publishComplete"
       /\ c.next = "insertPending" => pc = "clearDone"
       /\ c.next = "publishComplete" => pc = "storeCompleted"
       /\ c.next = "failPublish" => pc = "failStore"
       /\ pc = "publishComplete" => c.next = "clearDone"
       /\ pc = "clearDone" => c.next = "insertPending"
  BY <1>2 DEF ToldBy, Command, Polling, Storing
<1>. QED
  <2>1. job'[t] \in {"absent", "waiting"} \/ wpc'[t] \in Polling \union Storing => row'[t] = "none"
    BY <1>1, <1>3, <1>9, <1>12 DEF Tells, Polling, Storing
  <2>2. wpc'[t] \in {"publishComplete", "clearDone", "insertPending"} => status'[t] = "completed"
    BY <1>1, <1>6, <1>9, <1>12 DEF Tells, Polling
  <2>3. wpc'[t] \in {"clearDone", "insertPending"} \/ row'[t] = "pending" => Has(t, "complete")'
    BY <1>1, <1>5, <1>8, <1>9, <1>12 DEF Tells
  <2>4. Has(t, "complete")' => status'[t] \in {"completed", "failed"}
    BY <1>6, <1>7, <1>9, <1>10 DEF Tells, Stopping, Polling
  <2>5. Has(t, "cancelled")' => Closed(t)'
    BY <1>9, <1>11 DEF Tells
  <2>6. wpc'[t] = "failPublish" => status'[t] # "completed"
    BY <1>1, <1>7, <1>12
  <2>7. Has(t, "complete")' /\ faults' = 0 =>
          wpc'[t] \in {"clearDone", "insertPending", "lost"} \/ row'[t] = "pending"
    <3>1. pc # "lost" /\ (row'[t] = row[t] \/ row[t] = "none")
      BY <1>1 DEF Execute, Processing, StoreTyped
    <3>2. CASE pc \in {"publishComplete", "clearDone", "insertPending"}
      BY <1>1, <1>8, <1>12, <3>2
    <3>3. CASE pc \notin {"publishComplete", "clearDone", "insertPending"}
      BY <1>1, <1>9, <3>1, <3>3 DEF Tells
    <3>. QED  BY <3>2, <3>3
  <2>. QED  BY <1>4, <2>1, <2>2, <2>3, <2>4, <2>5, <2>6, <2>7 DEF Tells

\* An await of the processor that raises, its command executed or lost.
LEMMA RaiseTells ==
  ASSUME TypeOK, NEW t \in Task, Tells(t), TaskOK(t), stalls[t] = 0, AwaitRaises(t),
         Closed(t) => Closed(t)'
  PROVE  Tells(t)'
<1>. USE TypeParts DEF WorkerTyped
<1>. DEFINE pc == wpc[t]
            c == Processing[pc]
<1>1. /\ pc \in Working \ Ends /\ wpc'[t] \in {"failStore", "failed"} /\ job' = job
      /\ job[t] = "active" /\ FirstRun(t)
  BY DEF AwaitRaises, GoTo, WpcValue, Handler, TaskOK, Working, InTry, Ends, Processing
<1>2. CASE UNCHANGED storeVars
  <2>1. UnchangedAt(t) /\ \A e : Has(t, e)' <=> Has(t, e)
    BY <1>2, HasSame DEF storeVars, UnchangedAt
  <2>2. Closed(t)' \/ FailsLate(t)'
    BY <2>1 DEF Tells, FailsLate, UnchangedAt
  <2>3. Has(t, "complete") /\ faults' = 0 => row[t] = "pending"
    <3>1. faults \in Nat
      BY AiQueueAssumption
    <3>2. faults' = 0 => faults = 0 /\ pc \in {"insertPending", "failInsert"} /\ row[t] # "none"
      BY <3>1 DEF AwaitRaises
    <3>3. pc = "insertPending" => row[t] = "none"
      BY DEF Tells, Storing
    <3>. QED  BY <3>2, <3>3 DEF Tells
  <2>. QED  BY <1>1, <2>1, <2>2, <2>3 DEF Tells, UnchangedAt, Polling, Storing
<1>3. CASE ~UNCHANGED storeVars
  <2>1. pc \in DOMAIN Processing /\ Execute(t, c) /\ faults' # 0
    <3>1. faults \in Nat
      BY AiQueueAssumption
    <3>. QED  BY <1>3, <3>1 DEF AwaitRaises
  <2>2. CommandOK(pc, c) /\ Written(t, c) /\ WrittenHas(t, c) /\ ToldBy(pc, c)
    BY <2>1, WorkerWrites, ToldTable
  <2>3. Closed(t)' \/ FailsLate(t)'
    BY <1>1, <2>1, <2>2, CommandFails
  <2>4. /\ \/ status'[t] = status[t] \/ pc \in Polling \union {"stopStore"}
           \/ status'[t] \in {"completed", "failed"}
        /\ row'[t] = row[t] \/ row'[t] = "failed" \/ pc = "insertPending"
        /\ Has(t, "complete") => Has(t, "complete")'
        /\ Has(t, "complete")' => Has(t, "complete") \/ pc = "publishComplete"
        /\ Has(t, "cancelled")' => Has(t, "cancelled") \/ pc = "stopPublish"
    BY <2>2 DEF ToldBy, Written, WrittenHas
  <2>5. pc \in Polling \union Stopping => ~Has(t, "complete")
    BY <1>1 DEF FirstRun, NoResult
  <2>6. pc = "stopPublish" => Closed(t)
    BY <1>1 DEF FirstRun, Closed, Stopping, Polling, Storing
  <2>7. Has(t, "complete")' => status'[t] \in {"completed", "failed"}
    BY <2>2, <2>4, <2>5 DEF Tells, Stopping, Polling, ToldBy, Written, Command
  <2>8. row'[t] = "pending" => Has(t, "complete")'
    BY <2>4 DEF Tells
  <2>9. Has(t, "cancelled")' => Closed(t)'
    BY <2>4, <2>6 DEF Tells
  <2>. QED  BY <1>1, <2>1, <2>3, <2>7, <2>8, <2>9 DEF Tells, Polling, Storing
<1>. QED  BY <1>2, <1>3

\* The other steps of the worker.
LEMMA WorkTells ==
  ASSUME TypeOK, NEW t \in Task, Tells(t), TaskOK(t), stalls[t] = 0, stalls'[t] = 0,
         Invoke(t) \/ (Work(t) /\ ~CommandReturns(t)), Closed(t) => Closed(t)'
  PROVE  Tells(t)'
<1>. USE TypeParts DEF WorkerTyped, GoTo
<1>1. CASE Invoke(t)
  <2>1. log[t] \in Seq(EventName) /\ log'[t] = Append(log[t], "queued")
    BY <1>1 DEF Invoke, StoreTyped
  <2>2. \A e : Has(t, e)' <=> Has(t, e) \/ e = "queued"
    BY <2>1, HasAppended DEF EventName
  <2>3. NoResult(t) /\ ~Closed(t) /\ wpc[t] = "idle" /\ wpc'[t] = "idle" /\ row'[t] = row[t]
    BY <1>1 DEF Invoke, TaskOK, FirstRun, Closed
  <2>4. FailsLate(t)'
    <3>1. FailsLate(t)
      BY <2>3 DEF Tells
    <3>. QED  BY <2>1, <3>1, FailsStayLate DEF EventName
  <2>. QED  BY <1>1, <2>2, <2>3, <2>4 DEF Tells, NoResult, Polling, Storing, Invoke
<1>2. CASE ~Invoke(t)
  <2>1. UnchangedAt(t) /\ \A e : Has(t, e)' <=> Has(t, e)
    BY <1>2, HasSame DEF Work, Take, OpenStream, NextChunk, CheckCancel, Finish, Requeue,
       storeVars, UnchangedAt
  <2>2. Closed(t)' \/ FailsLate(t)'
    BY <2>1 DEF Tells, FailsLate, UnchangedAt
  <2>3. faults' = faults
    BY <1>2 DEF Work, Take, OpenStream, NextChunk, CheckCancel, Finish, Requeue
  <2>4. CASE Take(t)
    <3>1. ~Has(t, "complete") /\ wpc'[t] = "storeProcessing" /\ job[t] = "waiting" /\ job'[t] = "active"
      BY <2>4 DEF Take, TaskOK, FirstRun, NoResult
    <3>. QED  BY <2>1, <2>2, <2>3, <3>1 DEF Tells, UnchangedAt, Polling, Storing
  <2>5. CASE OpenStream(t) \/ NextChunk(t) \/ CheckCancel(t)
    <3>1. /\ wpc[t] \in Polling /\ job' = job
          /\ wpc'[t] \in Polling \union {"stopStore", "storeCompleted"}
      BY <2>5 DEF OpenStream, NextChunk, CheckCancel, Polling
    <3>2. ~Has(t, "complete")
      BY <3>1 DEF TaskOK, FirstRun, NoResult
    <3>. QED  BY <2>1, <2>2, <2>3, <3>1, <3>2 DEF Tells, UnchangedAt, Polling, Storing
  <2>6. CASE Finish(t)
    <3>1. wpc[t] \in Ends /\ wpc'[t] = "idle" /\ job'[t] \in Ends
      BY <2>6 DEF Finish
    <3>. QED  BY <2>1, <2>2, <2>3, <3>1 DEF Tells, UnchangedAt, Polling, Storing, Ends
  <2>7. CASE Requeue(t)
    BY <2>7 DEF Requeue
  <2>. QED  BY <1>2, <2>4, <2>5, <2>6, <2>7 DEF Work
<1>. QED  BY <1>1, <1>2

\* What a cancel request writes is told by a task that is closed.
LEMMA CancelTells ==
  ASSUME TypeOK, CancelInv, NEW c \in Canceller, CancelWrite(c) \/ WriteRaises(c),
         NEW t \in Task, stalls[t] = 0, Tells(t), Closed(t) => Closed(t)'
  PROVE  Tells(t)'
<1>. USE TypeParts DEF StoreTyped
<1>1. cpc[c] \in DOMAIN Cancelling /\ job' = job /\ wpc' = wpc
  BY DEF CancelWrite, WriteRaises, jobVars
<1>2. PICK s \in Task : s = ctask[c] /\ (stalls[s] = 0 => CancelOK(c))
  BY <1>1 DEF CancelInv, Known, Cancelling
<1>3. /\ CancelCommandOK(cpc[c], Cancelling[cpc[c]])
      /\ Written(s, Cancelling[cpc[c]])
      /\ WrittenHas(s, Cancelling[cpc[c]])
      /\ \A u \in Task : u # s => UnchangedAt(u)
  BY <1>1, <1>2, CancelWrites DEF CancelWrite, WriteRaises
<1>4. faults' = 0 => faults = 0
  BY AiQueueAssumption DEF CancelWrite, WriteRaises
<1>5. CASE s # t
  <2>1. UnchangedAt(t)
    BY <1>3, <1>5
  <2>. QED  BY <1>1, <1>4, <2>1, StillTells
<1>6. CASE s = t
  <2>1. /\ row'[t] = row[t]
        /\ status'[t] = status[t] \/ (cpc[c] = "store" /\ status'[t] = "cancelled")
        /\ log'[t] = log[t] \/ (cpc[c] = "publish" /\ log'[t] = Append(log[t], "cancelled"))
        /\ Has(t, "complete")' <=> Has(t, "complete")
        /\ Has(t, "cancelled")' => Has(t, "cancelled") \/ cpc[c] = "publish"
    BY <1>3, <1>6 DEF CancelCommandOK, Written, WrittenHas
  <2>2. cpc[c] \in {"store", "publish"} => Closed(t)
    BY <1>2, <1>6 DEF CancelOK
  <2>3. Closed(t)' \/ FailsLate(t)'
    <3>1. FailsLate(t) => FailsLate(t)'
      BY <2>1, FailsStayLate DEF EventName, TerminalEvent
    <3>. QED  BY <3>1 DEF Tells
  <2>. QED  BY <1>1, <1>4, <2>1, <2>2, <2>3 DEF Tells, Closed, NoResult, Storing
<1>. QED  BY <1>5, <1>6

\* Every step keeps what the tasks tell.
LEMMA TellStep ==
  ASSUME TypeOK, TaskInv, CancelInv, TellInv, [Next]_vars
  PROVE  TellInv'
<1>. USE TypeParts DEF WorkerTyped
<1>. SUFFICES ASSUME NEW t \in Task, stalls'[t] = 0
              PROVE  Tells(t)'
  BY DEF TellInv
<1>1. Moves(t) /\ TaskOK(t)
  BY NextMoves DEF TaskInv
<1>2. stalls[t] = 0 /\ (Closed(t) => Closed(t)')
  BY <1>1 DEF Moves
<1>3. Tells(t)
  BY <1>2 DEF TellInv
<1>. DEFINE Same == UnchangedAt(t) /\ job'[t] = job[t] /\ wpc'[t] = wpc[t] /\ (faults' = 0 => faults = 0)
<1>4. CASE Same
  BY <1>2, <1>3, <1>4, StillTells
<1>5. CASE \E u \in Task : Invoke(u) \/ Work(u) \/ AwaitRaises(u)
  <2>1. PICK u \in Task : Invoke(u) \/ Work(u) \/ AwaitRaises(u)
    BY <1>5
  <2>2. CASE u = t
    BY <1>1, <1>2, <1>3, <2>1, <2>2, ReturnTells, RaiseTells, WorkTells
  <2>3. CASE u # t
    <3>1. job'[t] = job[t] /\ wpc'[t] = wpc[t]
      BY <2>1, <2>3 DEF Invoke, Work, Take, CommandReturns, OpenStream, NextChunk, CheckCancel,
                  Finish, Requeue, AwaitRaises, GoTo
    <3>2. UnchangedAt(t)
      <4>1. CASE CommandReturns(u) \/ AwaitRaises(u)
        BY <2>3, <4>1, WorkerWrites DEF CommandReturns, AwaitRaises, storeVars, UnchangedAt
      <4>2. CASE ~(CommandReturns(u) \/ AwaitRaises(u))
        BY <2>1, <2>3, <4>2 DEF Invoke, Work, Take, OpenStream, NextChunk, CheckCancel,
                  Finish, Requeue, storeVars, UnchangedAt, StoreTyped
      <4>. QED  BY <4>1, <4>2
    <3>3. faults' = 0 => faults = 0
      BY <2>1, AiQueueAssumption DEF Invoke, Work, Take, CommandReturns, OpenStream, NextChunk, CheckCancel,
                  Finish, Requeue, AwaitRaises
    <3>. QED  BY <1>4, <3>1, <3>2, <3>3
  <2>. QED  BY <2>2, <2>3
<1>6. CASE \E c \in Canceller : CancelWrite(c) \/ WriteRaises(c)
  BY <1>2, <1>3, <1>6, CancelTells
<1>7. CASE \E c \in Canceller : \/ CancelLookup(c) \/ CancelRemove(c) \/ JobCallRaises(c)
                                \/ \E u \in Task : CancelRead(c, u)
  <2>1. /\ UnchangedAt(t) /\ wpc' = wpc /\ (faults' = 0 => faults = 0)
        /\ job'[t] = job[t] \/ job'[t] = "removed"
    BY <1>7, AiQueueAssumption DEF CancelLookup, CancelRemove, JobCallRaises, CancelRead, storeVars,
       jobVars, UnchangedAt
  <2>. QED  BY <1>2, <1>3, <2>1, StillTells
<1>8. CASE \E v \in Viewer : Emit(v) \/ Detach(v) \/ \E u \in Task : Attach(v, u)
  <2>1. Same
    BY <1>8 DEF Emit, Detach, Attach, jobVars, storeVars, UnchangedAt
  <2>. QED  BY <1>4, <2>1
<1>9. CASE Crash
  <2>1. UnchangedAt(t) /\ job' = job /\ faults' = faults /\ (wpc'[t] = wpc[t] \/ wpc'[t] = "lost")
    BY <1>9 DEF Crash, storeVars, UnchangedAt
  <2>. QED  BY <1>2, <1>3, <2>1, StillTells
<1>10. CASE UNCHANGED vars
  <2>1. Same
    BY <1>10 DEF vars, jobVars, storeVars, UnchangedAt
  <2>. QED  BY <1>4, <2>1
<1>. QED  BY <1>5, <1>6, <1>7, <1>8, <1>9, <1>10 DEF Next, Cancel, CancelRaises

-----------------------------------------------------------------------------
(* The theorems.                                                           *)

\* At the start the streams are empty.
LEMMA InitEmpty ==
  ASSUME Init, NEW t \in Task
  PROVE  Len(log[t]) = 0 /\ \A e : ~Has(t, e)
<1>1. log[t] = <<>>
  BY DEF Init
<1>2. Len(log[t]) = 0
  BY <1>1
<1>. QED  BY <1>2 DEF Has

\* The invariant holds at the start.
LEMMA InitIInv ==
  ASSUME Init
  PROVE  IInv
<1>. USE DEF Init
<1>1. TypeOK
  <2>1. StoreTyped
    BY DEF StoreTyped, TaskStatus, EventName
  <2>2. WorkerTyped
    BY AiQueueAssumption DEF WorkerTyped, WpcValue
  <2>3. crashes \in 0 .. MaxCrashes /\ faults \in 0 .. MaxFaults
    BY AiQueueAssumption
  <2>. QED  BY <2>1, <2>2, <2>3, TypeParts, Places DEF RequestTyped, ViewTyped
<1>2. TaskInv
  <2>1. \A t \in Task : ~Has(t, "complete")
    BY InitEmpty
  <2>. QED  BY <2>1 DEF TaskInv, TaskOK, FirstRun, NoResult, Closed, Polling, Stopping
<1>3. CancelInv /\ ViewInv
  BY DEF CancelInv, Known, ViewInv, ViewOK
<1>4. TellInv
  BY InitEmpty DEF TellInv, Tells, FailsLate, Polling, Storing
<1>. QED  BY <1>1, <1>2, <1>3, <1>4 DEF IInv

\* Every step keeps the invariant.
LEMMA NextIInv ==
  ASSUME IInv, [Next]_vars
  PROVE  IInv'
<1>1. TypeOK'
  BY TypeStep DEF IInv
<1>2. TaskInv'
  BY NextMoves DEF IInv, Moves, TaskInv
<1>. QED  BY <1>1, <1>2, CancelStep, TellStep, ViewStep DEF IInv

\* The invariant of the queue, of its cancel requests and of its viewers.
THEOREM Invariance == Spec => []IInv
<1>. QED  BY InitIInv, NextIInv, PTL DEF Spec

\* Every variable keeps the values the code gives it.
THEOREM TypeCorrect == Spec => []TypeOK
<1>1. IInv => TypeOK
  BY DEF IInv
<1>. QED  BY <1>1, Invariance, PTL

\* A request that was answered "cancelled" is kept: until BullMQ runs the job
\* a second time, the worker neither stores a proposal of that task nor says
\* that it completed, in whatever order cancelTask removes the job, the worker
\* takes it, polls the flag and clears it, and other requests cancel it too.
THEOREM CancelledIsKept == Spec => []CancelledHolds
<1>1. IInv => CancelledHolds
  BY DEF IInv, CancelInv, Known, CancelOK, Closed, NoResult, CancelledHolds
<1>. QED  BY <1>1, Invariance, PTL

\* What a connection was told agrees with what is stored, in the first run of a
\* job, however many requests cancel it, wherever an await raises and whenever
\* the process dies: a client told of a failure or a cancellation has no
\* proposal to review, one told "complete" finds its proposal unless an await
\* raised, and no later cancel request denies what it was told.
THEOREM OutcomeIsKept == Spec => []OutcomeKept
<1>1. ASSUME IInv, NEW v \in Viewer, NEW t \in Task,
             vtask[v] = t, vpc[v] \in TerminalEvent, stalls[t] = 0
      PROVE  IF vpc[v] = "complete"
             THEN /\ status[t] \in {"completed", "failed"}
                  /\ faults = 0 /\ wpc[t] = "idle" => row[t] = "pending"
             ELSE row[t] # "pending" /\ status[t] # "completed"
  <2>1. Tells(t) /\ ViewOK(v) /\ vpc[v] # "idle"
    BY <1>1 DEF IInv, TellInv, ViewInv, ViewOK, TerminalEvent
  <2>2. /\ cursor[v] \in 1 .. Len(log[t]) /\ log[t][cursor[v]] = vpc[v]
        /\ \A i \in 1 .. cursor[v] - 1 : log[t][i] \notin TerminalEvent
    <3>1. cursor[v] \in Nat /\ Len(log[t]) \in Nat
      BY <1>1, TypeParts DEF IInv, ViewTyped, StoreTyped
    <3>. QED  BY <1>1, <2>1, <3>1 DEF ViewOK
  <2>3. Has(t, vpc[v])
    BY <2>2 DEF Has
  <2>4. CASE vpc[v] = "complete"
    BY <2>1, <2>3, <2>4 DEF Tells
  <2>5. CASE vpc[v] = "cancelled"
    BY <2>1, <2>3, <2>5 DEF Tells, Closed, NoResult
  <2>6. CASE vpc[v] = "failed"
    <3>1. ~FailsLate(t)
      BY <2>2, <2>6 DEF FailsLate, TerminalEvent
    <3>. QED  BY <2>1, <2>6, <3>1 DEF Tells, Closed, NoResult
  <2>. QED  BY <1>1, <2>4, <2>5, <2>6 DEF TerminalEvent
<1>2. IInv => OutcomeKept
  <2>1. IInv => \A v \in Viewer : vpc[v] \in TerminalEvent => vtask[v] \in Task
    BY DEF IInv, ViewInv, ViewOK, TerminalEvent
  <2>. QED  BY <1>1, <2>1 DEF OutcomeKept
<1>. QED  BY <1>2, Invariance, PTL
=============================================================================
