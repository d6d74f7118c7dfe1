---------------------------- MODULE AiTaskProofs ----------------------------
(***************************************************************************)
(* Proofs about AiTask, for every set of tasks, cancel requests and        *)
(* viewers and for every value of the bounds.                              *)
(***************************************************************************)
EXTENDS AiTask, FiniteSetTheorems, TLAPS

Generating == Producing \union {"absent"}
Unfinished == Generating \union Finishing

\* A status that says the task has ended was stored by a coroutine that has
\* left the loop, or by a handler that has cancelled it; after "cancelled" or
\* "failed" not even the row of a completed task is still to be inserted.
StatusInv ==
  \A t \in Task :
    /\ status[t] \in TerminalStatus => ppc[t] \notin Generating
    /\ status[t] \in {"cancelled", "failed"} => ppc[t] \notin Unfinished

\* The same of a terminal event; "complete" is the last event to be generated.
LogInv ==
  \A t \in Task :
    TerminalAt(t) # {} => ppc[t] \notin Generating \union {"publishComplete"}

\* A handler that stores "cancelled" has called local_task.cancel() before,
\* and what it stored is not overwritten but by another end without a result.
Settled(t) == ppc[t] \notin Unfinished
Ended(t) == status[t] \in {"cancelled", "failed"}
CancelOK(c) ==
  /\ cpc[c] \in {"store", "publish", "clear"} => Settled(ctask[c])
  /\ cpc[c] \in {"publish", "clear", "cancelled"} => Ended(ctask[c])
CancelInv == \A c \in Canceller : CancelOK(c)

AbsentInv ==
  \A t \in Task : ppc[t] = "absent" => status[t] = "none" /\ log[t] = <<>>

IInv == TypeOK /\ StatusInv /\ LogInv /\ CancelInv /\ AbsentInv /\ GenerationStopsAtTerminal

-----------------------------------------------------------------------------
(* Type correctness.                                                       *)

\* Publishing an event keeps stream and viewers typed.
LEMMA PublishType ==
  ASSUME StoreOK, NEW t \in Task, NEW e \in Event, PublishEvent(t, e), row' = row
  PROVE  StoreOK'
<1>1. log' \in [Task -> Seq(Event)]
  BY DEF StoreOK, PublishEvent
<1>2. \A u \in Task : Len(log'[u]) = IF u = t THEN Len(log[t]) + 1 ELSE Len(log[u])
  BY DEF StoreOK, PublishEvent
<1>3. PICK k \in trimmed[t] .. Len(log[t]) + 1 : trimmed' = [trimmed EXCEPT ![t] = k]
  BY DEF PublishEvent
<1>4. k \in Nat /\ k <= Len(log[t]) + 1
  BY DEF StoreOK
<1>5. trimmed' \in [Task -> Nat]
  BY <1>3, <1>4 DEF StoreOK
<1>6. \A u \in Task : trimmed'[u] <= Len(log'[u])
  BY <1>2, <1>3, <1>4 DEF StoreOK
<1>. QED  BY <1>1, <1>5, <1>6 DEF StoreOK, PublishEvent

\* A Redis or SQL command of the coroutine keeps the types, executed or not.
LEMMA ExecuteType ==
  ASSUME StoreOK, NEW t \in Task, MaybeExecute(t)
  PROVE  StoreOK'
<1>1. CASE UNCHANGED <<redisVars, row>>
  BY <1>1 DEF StoreOK, redisVars
<1>2. CASE ppc[t] \in StatusCommands /\ StoreTaskStatus(t, StatusWritten(ppc[t])) /\ UNCHANGED row
  <2>1. StatusWritten(ppc[t]) \in Status
    BY <1>2 DEF StatusWritten, StatusCommands, Status, TerminalStatus
  <2>. QED  BY <1>2, <2>1 DEF StoreOK, StoreTaskStatus
<1>3. CASE ppc[t] \in EventCommands /\ PublishEvent(t, EventWritten(ppc[t])) /\ UNCHANGED row
  <2>1. EventWritten(ppc[t]) \in Event
    BY <1>3 DEF EventWritten, EventCommands, Event, TerminalEvent
  <2>. QED  BY <1>3, <2>1, PublishType
<1>4. CASE ppc[t] \in ClearCommands /\ WriteCancelFlag(t, FALSE) /\ UNCHANGED row
  BY <1>4 DEF StoreOK, WriteCancelFlag
<1>5. CASE ppc[t] \in InsertCommands /\ InsertInteraction(t, ppc[t]) /\ UNCHANGED redisVars
  BY <1>5 DEF StoreOK, InsertInteraction, redisVars
<1>. QED  BY <1>1, <1>2, <1>3, <1>4, <1>5 DEF MaybeExecute, Execute

\* After a statement comes another one, or the end of the coroutine.
LEMMA AfterType ==
  ASSUME NEW pc \in Commands
  PROVE  After(pc) \in Running \union {"done"}
BY DEF After, Successor, Commands, StatusCommands, EventCommands, ClearCommands,
       InsertCommands, Running, InTry, Producing, Finishing, Stopping, Settling, Aborting, Failing

\* A raising statement leads to an except block or the end.
LEMMA HandlerType ==
  ASSUME NEW pc, NEW block \in {"failStore", "abortStore"}
  PROVE  Handler(pc, block) \in {"failStore", "abortStore", "done"}
BY DEF Handler

\* The statements of _process_task keep the types.
LEMMA ProcessType ==
  ASSUME TypeOK, NEW t \in Task, ProcessTask(t)
  PROVE  TypeOK'
<1>. USE DEF TypeOK
<1>1. CASE CommandReturns(t)
  <2>1. After(ppc[t]) \in PpcValue
    BY <1>1, AfterType DEF CommandReturns, PpcValue
  <2>2. StoreOK'
    BY <1>1, ExecuteType DEF CommandReturns, MaybeExecute
  <2>. QED  BY <1>1, <2>1, <2>2 DEF CommandReturns, GoTo, ProcOK, RequestOK, ViewOK,
              cancelVars, viewVars
<1>2. CASE ProviderYields(t)
  <2>1. "checkCancel" \in PpcValue
    BY DEF PpcValue, Running, InTry, Producing
  <2>. QED  BY <1>2, <2>1 DEF ProviderYields, GoTo, ProcOK, StoreOK, RequestOK, ViewOK,
              cancelVars, viewVars, redisVars
<1>3. CASE ProviderEnds(t)
  <2>1. "finalCheck" \in PpcValue
    BY DEF PpcValue, Running, InTry, Producing
  <2>. QED  BY <1>3, <2>1 DEF ProviderEnds, GoTo, ProcOK, StoreOK, RequestOK, ViewOK,
              cancelVars, viewVars, redisVars
<1>4. CASE CheckCancel(t)
  <2>1. {"stopStore", "publishChunk", "storeCompleted"} \subseteq PpcValue
    BY DEF PpcValue, Running, InTry, Producing, Stopping
  <2>. QED  BY <1>4, <2>1 DEF CheckCancel, GoTo, ProcOK, StoreOK, RequestOK, ViewOK,
              cancelVars, viewVars, redisVars
<1>5. CASE AwaitRaises(t)
  <2>1. Handler(ppc[t], "failStore") \in PpcValue
    BY HandlerType DEF PpcValue, Running, Failing, Aborting
  <2>2. StoreOK'
    BY <1>5, ExecuteType DEF AwaitRaises
  <2>. QED  BY <1>5, <2>1, <2>2 DEF AwaitRaises, GoTo, ProcOK, RequestOK, ViewOK,
              cancelVars, viewVars
<1>6. CASE InsertGivenUp(t)
  <2>1. "abortStore" \in PpcValue
    BY DEF PpcValue, Running, Aborting
  <2>. QED  BY <1>6, <2>1 DEF InsertGivenUp, GoTo, ProcOK, StoreOK, RequestOK, ViewOK,
              cancelVars, viewVars, redisVars
<1>. QED  BY <1>1, <1>2, <1>3, <1>4, <1>5, <1>6 DEF ProcessTask

\* The statements of the cancel route keep the types.
LEMMA CancelType ==
  ASSUME TypeOK, NEW c \in Canceller,
         (\E t \in Task : CancelRead(c, t)) \/ CancelStep(c) \/ CancelRaises(c)
  PROVE  TypeOK'
<1>. USE DEF TypeOK
<1>1. CASE \E t \in Task : CancelRead(c, t)
  <2>1. PICK t \in Task : CancelRead(c, t)
    BY <1>1
  <2>2. status[t] \in Status
    BY DEF StoreOK
  <2>3. RequestOK'
    <3>1. cpc' \in [Canceller -> CpcValue]
      BY <2>1 DEF CancelRead, FirstAnswer, RequestOK, CpcValue, Answer
    <3>2. ctask' \in [Canceller -> Task \union {NoTask}] /\ cread' \in [Canceller -> Status]
      BY <2>1, <2>2 DEF CancelRead, RequestOK
    <3>3. \A d \in Canceller : d # c => cpc'[d] = cpc[d] /\ ctask'[d] = ctask[d]
      BY <2>1 DEF CancelRead, RequestOK
    <3>4. ctask'[c] = t
      BY <2>1 DEF CancelRead, RequestOK
    <3>. QED  BY <3>1, <3>2, <3>3, <3>4 DEF RequestOK
  <2>. QED  BY <2>1, <2>3 DEF CancelRead, ProcOK, StoreOK, ViewOK, procVars, viewVars, redisVars
<1>2. CASE CancelRequest(c)
  <2>1. ctask[c] \in Task
    BY <1>2 DEF CancelRequest, RequestOK
  <2>. QED  BY <1>2, <2>1 DEF CancelRequest, WriteCancelFlag, ProcOK, StoreOK, RequestOK, ViewOK,
              CpcValue, procVars, viewVars
<1>3. CASE CancelInject(c)
  <2>1. ctask[c] \in Task
    BY <1>3 DEF CancelInject, RequestOK
  <2>2. Interrupted(ppc[ctask[c]]) \in PpcValue
    BY HandlerType DEF Interrupted, PpcValue, Running, InTry, Settling, Failing, Aborting
  <2>3. StoreOK'
    BY <1>3, <2>1, ExecuteType DEF CancelInject
  <2>. QED  BY <1>3, <2>1, <2>2, <2>3 DEF CancelInject, GoTo, ProcOK, RequestOK, ViewOK,
              CpcValue, viewVars
<1>4. CASE CancelCooperative(c)
  BY <1>4 DEF CancelCooperative, ProcOK, StoreOK, RequestOK, ViewOK, CpcValue, Answer,
              procVars, viewVars, redisVars
<1>5. CASE CancelFinish(c)
  <2>1. ctask[c] \in Task
    BY <1>5 DEF CancelFinish, RequestOK
  <2>2. StoreOK'
    BY <1>5, <2>1, PublishType
       DEF CancelFinish, StoreOK, StoreTaskStatus, WriteCancelFlag, Status, TerminalStatus,
           Event, TerminalEvent
  <2>. QED  BY <1>5, <2>1, <2>2 DEF CancelFinish, ProcOK, RequestOK, ViewOK, CpcValue, Answer,
              procVars, viewVars
<1>6. CASE CancelRaises(c)
  <2>1. ctask[c] \in Task
    BY <1>6 DEF CancelRaises, RequestOK
  <2>2. StoreOK'
    BY <1>6, <2>1, PublishType
       DEF CancelRaises, StoreOK, StoreTaskStatus, WriteCancelFlag, Status, TerminalStatus,
           Event, TerminalEvent, redisVars
  <2>. QED  BY <1>6, <2>1, <2>2 DEF CancelRaises, ProcOK, RequestOK, ViewOK, CpcValue, Answer,
              procVars, viewVars
<1>. QED  BY <1>1, <1>2, <1>3, <1>4, <1>5, <1>6 DEF CancelStep

\* The statements of stream_task keep the types.
LEMMA ViewerType ==
  ASSUME TypeOK, NEW v \in Viewer,
         (\E t \in Task : Attach(v, t)) \/ ReadEvents(v) \/ Detach(v)
  PROVE  TypeOK'
<1>. USE DEF TypeOK
<1>1. CASE \E t \in Task : Attach(v, t)
  BY <1>1 DEF Attach, ProcOK, StoreOK, RequestOK, ViewOK, procVars, redisVars, cancelVars
<1>2. CASE ReadEvents(v)
  <2>1. vtask[v] \in Task
    BY <1>2 DEF ReadEvents, ViewOK
  <2>2. log[vtask[v]] \in Seq(Event)
    BY <2>1 DEF StoreOK
  <2>3. ViewOK'
    <3>. DEFINE events == log[vtask[v]]
    <3>1. CASE cursor' = [cursor EXCEPT ![v] = Len(events)] /\ UNCHANGED <<vpc, vtask>>
      BY <3>1, <2>2 DEF ViewOK
    <3>2. ASSUME NEW i \in 1 .. Len(events), events[i] \in TerminalEvent,
                 cursor' = [cursor EXCEPT ![v] = i], vpc' = [vpc EXCEPT ![v] = events[i]],
                 vtask' = vtask
          PROVE  ViewOK'
      BY <3>2, <2>1, <2>2 DEF ViewOK
    <3>. QED  BY <1>2, <3>1, <3>2 DEF ReadEvents, Unread
  <2>. QED  BY <1>2, <2>3 DEF ReadEvents, ProcOK, StoreOK, RequestOK, procVars, redisVars,
              cancelVars
<1>3. CASE Detach(v)
  BY <1>3 DEF Detach, ProcOK, StoreOK, RequestOK, ViewOK, procVars, redisVars, cancelVars
<1>. QED  BY <1>1, <1>2, <1>3

\* Expiring keys, trimming, crashes and failures keep the types.
LEMMA EnvironmentType ==
  ASSUME TypeOK, Crash \/ \E t \in Task : Invoke(t) \/ ExpireMeta(t)
  PROVE  TypeOK'
<1>. USE DEF TypeOK
<1>1. CASE Crash
  BY <1>1 DEF Crash, ProcOK, StoreOK, RequestOK, ViewOK, PpcValue, CpcValue, Answer, redisVars
<1>2. ASSUME NEW t \in Task, Invoke(t)
      PROVE  TypeOK'
  <2>1. "storeProcessing" \in PpcValue
    BY DEF PpcValue, Running, InTry, Producing
  <2>2. "queued" \in Status /\ "queued" \in Event
    BY DEF Status, Event
  <2>. QED  BY <1>2, <2>1, <2>2
            DEF Invoke, ProcOK, StoreOK, RequestOK, ViewOK, cancelVars, viewVars
<1>3. ASSUME NEW t \in Task, ExpireMeta(t)
      PROVE  TypeOK'
  BY <1>3 DEF ExpireMeta, ProcOK, StoreOK, RequestOK, ViewOK, procVars, redisVars,
              cancelVars, viewVars
<1>. QED  BY <1>1, <1>2, <1>3

\* The types hold when the system starts.
LEMMA TypeInit == Init => TypeOK
<1>. SUFFICES ASSUME Init PROVE TypeOK
  OBVIOUS
<1>1. StoreOK
  BY DEF Init, StoreOK, Status
<1>. QED  BY <1>1 DEF Init, TypeOK, ProcOK, RequestOK, ViewOK, PpcValue, CpcValue, Status

\* Every step keeps the types.
LEMMA TypeStep == TypeOK /\ [Next]_vars => TypeOK'
<1>. SUFFICES ASSUME TypeOK, [Next]_vars PROVE TypeOK'
  OBVIOUS
<1>1. CASE UNCHANGED vars
  BY <1>1 DEF TypeOK, ProcOK, StoreOK, RequestOK, ViewOK, vars, procVars, redisVars,
              cancelVars, viewVars
<1>2. CASE Next
  BY <1>2, ProcessType, CancelType, ViewerType, EnvironmentType DEF Next
<1>. QED  BY <1>1, <1>2

\* TypeOK holds of every behaviour: every status, event, row and answer is one
\* of those the code names, and a stream is never trimmed beyond its length.
THEOREM TypeCorrect == Spec => []TypeOK
BY TypeInit, TypeStep, PTL DEF Spec

-----------------------------------------------------------------------------
(* The inductive invariant.                                                *)

\* A stream has a terminal event if it had one or gets one.
LEMMA AppendTerminal ==
  ASSUME TypeOK, NEW t \in Task, NEW e \in Event, log'[t] = Append(log[t], e)
  PROVE  /\ TerminalAt(t)' # {} => TerminalAt(t) # {} \/ e \in TerminalEvent
         /\ TerminalAt(t) # {} => TerminalAt(t)' # {}
<1>1. log[t] \in Seq(Event)
  BY DEF TypeOK, StoreOK
<1>. QED  BY <1>1 DEF TerminalAt

\* The part of GenerationStopsAtTerminal about one task.
Stops(t) ==
  \A i, j \in 1 .. Len(log[t]) :
    i < j /\ log[t][i] \in TerminalEvent => log[t][j] \in {"cancelled", "failed"}

\* After a terminal event only another one of cancel and failure keeps Stops.
LEMMA AppendStops ==
  ASSUME TypeOK, NEW t \in Task, NEW e \in Event, log'[t] = Append(log[t], e), Stops(t),
         TerminalAt(t) # {} => e \in {"cancelled", "failed"}
  PROVE  Stops(t)'
<1>1. log[t] \in Seq(Event)
  BY DEF TypeOK, StoreOK
<1>2. \A i \in 1 .. Len(log[t]) : log'[t][i] = log[t][i]
  BY <1>1
<1>3. Len(log'[t]) = Len(log[t]) + 1 /\ log'[t][Len(log[t]) + 1] = e
  BY <1>1
<1>4. SUFFICES ASSUME NEW i \in 1 .. Len(log'[t]), NEW j \in 1 .. Len(log'[t]),
                      i < j, log'[t][i] \in TerminalEvent
               PROVE  log'[t][j] \in {"cancelled", "failed"}
  BY DEF Stops
<1>5. i \in 1 .. Len(log[t]) /\ log[t][i] \in TerminalEvent
  BY <1>1, <1>2, <1>3, <1>4
<1>6. CASE j \in 1 .. Len(log[t])
  BY <1>2, <1>5, <1>6, <1>4 DEF Stops
<1>7. CASE j = Len(log[t]) + 1
  BY <1>3, <1>5, <1>7 DEF TerminalAt
<1>. QED  BY <1>1, <1>3, <1>6, <1>7

\* What a command of the coroutine can have done to its task, and only to it.
LEMMA ExecuteEffect ==
  ASSUME TypeOK, NEW t \in Task, MaybeExecute(t)
  PROVE  /\ \A u \in Task \ {t} : status'[u] = status[u] /\ log'[u] = log[u] /\ row'[u] = row[u]
         /\ \/ status'[t] = status[t]
            \/ ppc[t] \in StatusCommands /\ status'[t] = StatusWritten(ppc[t])
         /\ \/ log'[t] = log[t]
            \/ ppc[t] \in EventCommands /\ log'[t] = Append(log[t], EventWritten(ppc[t]))
         /\ \/ row'[t] = row[t]
            \/ ppc[t] \in {"insertPending", "settleInsert"}
            \/ ppc[t] = "failInsert" /\ row[t] = "none"
BY DEF MaybeExecute, Execute, StoreTaskStatus, PublishEvent, WriteCancelFlag, InsertInteraction,
       redisVars, TypeOK, StoreOK, InsertCommands

\* The coroutine moved, or its end was forced, at an await of task t: the
\* command it was waiting for was executed or not, and it went on to pc.
Moves(t, pc) ==
  /\ MaybeExecute(t)
  /\ ppc' = [ppc EXCEPT ![t] = pc]

\* The moves of the code: to the await after a command that was executed, to
\* the next await after one that is not a command, and to a handler.
LegalMove(t, pc) ==
  \/ ppc[t] \in Commands /\ Execute(t) /\ pc = After(ppc[t])
  \/ ppc[t] = "nextChunk" /\ pc \in {"checkCancel", "finalCheck"}
  \/ ppc[t] = "checkCancel" /\ pc \in {"stopStore", "publishChunk"}
  \/ ppc[t] = "finalCheck" /\ pc \in {"stopStore", "storeCompleted"}
  \/ ppc[t] \in Running /\ pc \in {"failStore", "abortStore", "settleInsert", "done"}

\* The next statement of the coroutine fits the status it has left.
LEMMA MoveStatus ==
  ASSUME TypeOK, StatusInv, NEW t \in Task, NEW pc, Moves(t, pc), LegalMove(t, pc)
  PROVE  StatusInv'
<1>1. \A u \in Task \ {t} : status'[u] = status[u] /\ ppc'[u] = ppc[u]
  BY ExecuteEffect DEF Moves, TypeOK, ProcOK
<1>2. ppc'[t] = pc
  BY DEF Moves, TypeOK, ProcOK
<1>3. /\ status'[t] \in TerminalStatus => pc \notin Generating
      /\ status'[t] \in {"cancelled", "failed"} => pc \notin Unfinished
  <2>. USE DEF TerminalStatus, Generating, Unfinished, Producing, Finishing
  <2>1. CASE ppc[t] \in StatusCommands /\ Execute(t) /\ pc = After(ppc[t])
    <3>1. status'[t] = StatusWritten(ppc[t])
      BY <2>1 DEF Execute, StatusCommands, EventCommands, ClearCommands, InsertCommands,
                  StoreTaskStatus, TypeOK, StoreOK
    <3>. QED  BY <2>1, <3>1 DEF StatusCommands, StatusWritten, After, Successor
  <2>2. CASE status'[t] = status[t]
    <3>1. CASE ppc[t] \in Commands /\ pc = After(ppc[t])
      BY <2>2, <3>1 DEF StatusInv, Commands, StatusCommands, EventCommands, ClearCommands,
                        InsertCommands, After, Successor
    <3>2. CASE ppc[t] \in {"nextChunk", "checkCancel", "finalCheck"}
      BY <2>2, <3>2 DEF StatusInv
    <3>3. CASE pc \in {"failStore", "abortStore", "settleInsert", "done"}
      BY <3>3
    <3>. QED  BY <3>1, <3>2, <3>3 DEF LegalMove
  <2>3. CASE pc \in {"failStore", "abortStore", "settleInsert", "done"}
    BY <2>3
  <2>4. status'[t] = status[t] \/ ppc[t] \in StatusCommands
    BY ExecuteEffect DEF Moves
  <2>. QED  BY <2>1, <2>2, <2>3, <2>4 DEF LegalMove, StatusCommands
<1>. QED  BY <1>1, <1>2, <1>3 DEF StatusInv

\* The next statement of the coroutine fits the stream it has left.
LEMMA MoveLog ==
  ASSUME TypeOK, LogInv, GenerationStopsAtTerminal, NEW t \in Task, NEW pc,
         Moves(t, pc), LegalMove(t, pc)
  PROVE  LogInv' /\ GenerationStopsAtTerminal'
<1>1. \A u \in Task \ {t} : log'[u] = log[u] /\ ppc'[u] = ppc[u]
  BY ExecuteEffect DEF Moves, TypeOK, ProcOK
<1>2. ppc'[t] = pc
  BY DEF Moves, TypeOK, ProcOK
<1>. DEFINE Early == Generating \union {"publishComplete"}
            e == EventWritten(ppc[t])
<1>3. CASE log'[t] = log[t]
  <2>1. TerminalAt(t) # {} => pc \notin Early
    <3>1. CASE ppc[t] \in Commands /\ Execute(t) /\ pc = After(ppc[t])
      <4>1. ppc[t] # "storeCompleted" \/ TerminalAt(t) = {}
        BY DEF LogInv, Generating, Producing
      <4>. QED  BY <3>1, <4>1 DEF LogInv, Generating, Producing, Commands, StatusCommands,
                  EventCommands, ClearCommands, InsertCommands, After, Successor
    <3>2. CASE ppc[t] \in {"nextChunk", "checkCancel", "finalCheck"}
      BY <3>2 DEF LogInv, Generating, Producing
    <3>3. CASE pc \in {"failStore", "abortStore", "settleInsert", "done"}
      BY <3>3 DEF Generating, Producing
    <3>. QED  BY <3>1, <3>2, <3>3 DEF LegalMove
  <2>2. TerminalAt(t)' = TerminalAt(t)
    BY <1>3 DEF TerminalAt
  <2>3. LogInv'
    BY <1>1, <1>2, <2>1, <2>2 DEF LogInv, TerminalAt
  <2>. QED  BY <1>1, <1>3, <2>3 DEF GenerationStopsAtTerminal
<1>4. CASE ppc[t] \in EventCommands /\ log'[t] = Append(log[t], e)
  <2>1. e \in Event /\ (e \in TerminalEvent <=>
          ppc[t] \in {"publishComplete", "stopPublish", "abortPublish", "failPublish"})
    BY <1>4 DEF EventCommands, EventWritten, Event, TerminalEvent
  <2>2. TerminalAt(t) # {} => e \in {"cancelled", "failed"}
    BY <1>4 DEF LogInv, Generating, Producing, EventCommands, EventWritten
  <2>3. TerminalAt(t) # {} \/ e \in TerminalEvent => pc \notin Early
    <3>. SUFFICES ASSUME TerminalAt(t) # {} \/ e \in TerminalEvent PROVE pc \notin Early
      OBVIOUS
    <3>1. ppc[t] \in {"publishComplete", "stopPublish", "abortPublish", "failPublish"}
      BY <1>4, <2>1 DEF LogInv, Generating, Producing, EventCommands
    <3>. QED  BY <3>1 DEF LegalMove, After, Successor, Generating, Producing
  <2>4. Stops(t)'
    BY <1>4, <2>1, <2>2, AppendStops DEF GenerationStopsAtTerminal, Stops
  <2>5. TerminalAt(t)' # {} => pc \notin Early
    BY <1>4, <2>1, <2>3, AppendTerminal
  <2>6. LogInv'
    BY <1>1, <1>2, <2>5 DEF LogInv, TerminalAt
  <2>. QED  BY <1>1, <2>4, <2>6 DEF GenerationStopsAtTerminal, Stops
<1>. QED  BY <1>3, <1>4, ExecuteEffect DEF Moves

\* A coroutine that moves on leaves settled tasks settled.
LEMMA MoveSettled ==
  ASSUME TypeOK, StatusInv, NEW t \in Task, NEW pc, Moves(t, pc), LegalMove(t, pc)
  PROVE  /\ ppc[t] \notin Unfinished => ppc'[t] \notin Unfinished
         /\ status[t] \in {"cancelled", "failed"} => status'[t] \in {"cancelled", "failed"}
         /\ ppc[t] # "absent" /\ ppc'[t] # "absent"
<1>. USE DEF Unfinished, Generating, Producing, Finishing
<1>1. ppc'[t] = pc
  BY DEF Moves, TypeOK, ProcOK
<1>2. ppc[t] \in Running
  BY DEF LegalMove, Commands, StatusCommands, EventCommands, ClearCommands, InsertCommands,
         Running, InTry, Stopping, Settling, Aborting, Failing
<1>3. ppc[t] \notin Unfinished => pc \notin Unfinished
  BY DEF LegalMove, Commands, StatusCommands, EventCommands, ClearCommands, InsertCommands,
         After, Successor
<1>4. status[t] \in {"cancelled", "failed"} => status'[t] \in {"cancelled", "failed"}
  BY ExecuteEffect DEF Moves, StatusInv, StatusCommands, StatusWritten
<1>5. pc # "absent"
  BY DEF LegalMove, Commands, StatusCommands, EventCommands, ClearCommands, InsertCommands,
         After, Successor
<1>. QED  BY <1>1, <1>2, <1>3, <1>4, <1>5 DEF Running, InTry, Stopping, Settling, Aborting, Failing

\* Every step of the coroutine is a legal move.
LEMMA ProcessMoves ==
  ASSUME TypeOK, NEW t \in Task, ProcessTask(t)
  PROVE  /\ \E pc : Moves(t, pc) /\ LegalMove(t, pc)
         /\ UNCHANGED cancelVars
<1>1. CASE CommandReturns(t)
  BY <1>1 DEF CommandReturns, GoTo, Moves, LegalMove, MaybeExecute
<1>2. CASE ProviderYields(t)
  BY <1>2 DEF ProviderYields, GoTo, Moves, LegalMove, MaybeExecute
<1>3. CASE ProviderEnds(t)
  BY <1>3 DEF ProviderEnds, GoTo, Moves, LegalMove, MaybeExecute
<1>4. CASE CheckCancel(t)
  BY <1>4 DEF CheckCancel, GoTo, Moves, LegalMove, MaybeExecute
<1>5. CASE AwaitRaises(t)
  <2>1. ppc[t] \in Running
    BY <1>5 DEF AwaitRaises, InsertCommands, Running, InTry, Producing, Finishing, Settling, Failing
  <2>. QED  BY <1>5, <2>1, HandlerType DEF AwaitRaises, GoTo, Moves, LegalMove
<1>6. CASE InsertGivenUp(t)
  <2>1. ppc[t] \in Running
    BY <1>6 DEF InsertGivenUp, Running, InTry, Settling
  <2>. QED  BY <1>6, <2>1 DEF InsertGivenUp, GoTo, Moves, LegalMove, MaybeExecute
<1>. QED  BY <1>1, <1>2, <1>3, <1>4, <1>5, <1>6 DEF ProcessTask

\* The invariant, but for its type part, is kept by a legal move that leaves
\* the cancel requests alone, or that is part of local_task.cancel().
LEMMA MoveInv ==
  ASSUME IInv, NEW t \in Task, NEW pc, Moves(t, pc), LegalMove(t, pc)
  PROVE  StatusInv' /\ LogInv' /\ GenerationStopsAtTerminal' /\ AbsentInv'
<1>1. StatusInv' /\ LogInv' /\ GenerationStopsAtTerminal'
  BY MoveStatus, MoveLog DEF IInv
<1>2. AbsentInv'
  BY MoveSettled, ExecuteEffect DEF IInv, AbsentInv, Moves, TypeOK, ProcOK
<1>. QED  BY <1>1, <1>2

\* A request that did not move keeps its part of the invariant when tasks stay
\* settled and ended.
LEMMA CancelStays ==
  ASSUME TypeOK, CancelInv, NEW c \in Canceller, cpc'[c] = cpc[c], ctask'[c] = ctask[c],
         \A t \in Task : (Settled(t) => Settled(t)') /\ (Ended(t) => Ended(t)')
  PROVE  CancelOK(c)'
<1>1. CASE cpc[c] = "idle"
  BY <1>1 DEF CancelOK
<1>2. CASE cpc[c] # "idle"
  <2>1. ctask[c] \in Task
    BY <1>2 DEF TypeOK, RequestOK
  <2>2. Settled(ctask[c]) => ppc'[ctask[c]] \notin Unfinished
    BY <2>1 DEF Settled
  <2>3. Ended(ctask[c]) => status'[ctask[c]] \in {"cancelled", "failed"}
    BY <2>1 DEF Ended
  <2>4. CancelOK(c)
    BY DEF CancelInv
  <2>. QED  BY <2>2, <2>3, <2>4 DEF CancelOK, Settled, Ended
<1>. QED  BY <1>1, <1>2

\* A legal move of a task leaves settled tasks settled and ended ones ended.
LEMMA MoveKeeps ==
  ASSUME TypeOK, StatusInv, NEW t \in Task, NEW pc, Moves(t, pc), LegalMove(t, pc), NEW u \in Task
  PROVE  (Settled(u) => Settled(u)') /\ (Ended(u) => Ended(u)')
<1>1. CASE u = t
  BY <1>1, MoveSettled DEF Settled, Ended
<1>2. CASE u # t
  <2>1. ppc'[u] = ppc[u]
    BY <1>2 DEF Moves, TypeOK, ProcOK
  <2>2. status'[u] = status[u]
    BY <1>2, ExecuteEffect DEF Moves, TypeOK, ProcOK
  <2>. QED  BY <2>1, <2>2 DEF Settled, Ended
<1>. QED  BY <1>1, <1>2

\* The statements of _process_task keep the inductive invariant.
LEMMA ProcessInv ==
  ASSUME IInv, NEW t \in Task, ProcessTask(t)
  PROVE  IInv'
<1>1. PICK pc : Moves(t, pc) /\ LegalMove(t, pc)
  BY ProcessMoves DEF IInv
<1>2. cpc' = cpc /\ ctask' = ctask
  BY ProcessMoves DEF IInv, cancelVars
<1>3. ASSUME NEW c \in Canceller PROVE CancelOK(c)'
  BY <1>1, <1>2, MoveKeeps, CancelStays DEF IInv
<1>4. CancelInv'
  BY <1>3 DEF CancelInv
<1>. QED  BY <1>1, <1>4, MoveInv, ProcessType DEF IInv

\* The other requests keep their part of the invariant while request c moves.
LEMMA OthersStay ==
  ASSUME TypeOK, CancelInv, NEW c \in Canceller, NEW next, cpc' = [cpc EXCEPT ![c] = next],
         \A d \in Canceller \ {c} : ctask'[d] = ctask[d],
         \A t \in Task : (Settled(t) => Settled(t)') /\ (Ended(t) => Ended(t)'),
         CancelOK(c)'
  PROVE  CancelInv'
<1>1. ASSUME NEW d \in Canceller, d # c PROVE CancelOK(d)'
  <2>1. cpc'[d] = cpc[d]
    BY <1>1 DEF TypeOK, RequestOK
  <2>. QED  BY <1>1, <2>1, CancelStays
<1>. QED  BY <1>1 DEF CancelInv

\* The reads of a cancel request and its answers that follow no command.
LEMMA AnswerInv ==
  ASSUME IInv, NEW c \in Canceller,
         \/ \E t \in Task : CancelRead(c, t)
         \/ CancelCooperative(c)
         \/ CancelRequest(c)
  PROVE  StatusInv' /\ LogInv' /\ CancelInv' /\ AbsentInv' /\ GenerationStopsAtTerminal'
<1>1. ppc' = ppc /\ status' = status /\ log' = log
  BY DEF CancelRead, CancelCooperative, CancelRequest, WriteCancelFlag, redisVars, procVars
<1>2. StatusInv' /\ LogInv' /\ AbsentInv' /\ GenerationStopsAtTerminal'
  BY <1>1 DEF IInv, StatusInv, LogInv, AbsentInv, GenerationStopsAtTerminal, TerminalAt
<1>3. \A t \in Task : (Settled(t) => Settled(t)') /\ (Ended(t) => Ended(t)')
  BY <1>1 DEF Settled, Ended
<1>4. CASE \E t \in Task : CancelRead(c, t)
  <2>1. PICK t \in Task : CancelRead(c, t)
    BY <1>4
  <2>2. FirstAnswer(t) = "cancelled" => Ended(t)
    BY DEF FirstAnswer, Ended
  <2>3. FirstAnswer(t) \in {"notfound", "conflict", "cancelled", "request"}
    BY DEF FirstAnswer
  <2>4. cpc'[c] = FirstAnswer(t) /\ ctask'[c] = t
    BY <2>1 DEF CancelRead, IInv, TypeOK, RequestOK
  <2>5. CancelOK(c)'
    BY <1>1, <2>2, <2>3, <2>4 DEF CancelOK, Ended
  <2>6. \A d \in Canceller \ {c} : ctask'[d] = ctask[d]
    BY <2>1 DEF CancelRead, IInv, TypeOK, RequestOK
  <2>. QED  BY <1>2, <1>3, <2>1, <2>5, <2>6, OthersStay DEF CancelRead, IInv
<1>5. CASE CancelCooperative(c) \/ CancelRequest(c)
  <2>1. PICK next \in {"inject", "cancelling"} : cpc' = [cpc EXCEPT ![c] = next]
    BY <1>5 DEF CancelCooperative, CancelRequest
  <2>2. ctask' = ctask
    BY <1>5 DEF CancelCooperative, CancelRequest
  <2>3. cpc'[c] = next
    BY <2>1 DEF IInv, TypeOK, RequestOK
  <2>4. CancelOK(c)'
    BY <2>3 DEF CancelOK
  <2>. QED  BY <1>2, <1>3, <2>1, <2>2, <2>4, OthersStay DEF IInv
<1>. QED  BY <1>4, <1>5

\* local_task.cancel() is a legal move of the coroutine, to a place where it
\* has left the generation behind.
LEMMA InjectInv ==
  ASSUME IInv, NEW c \in Canceller, CancelInject(c)
  PROVE  StatusInv' /\ LogInv' /\ CancelInv' /\ AbsentInv' /\ GenerationStopsAtTerminal'
<1>. DEFINE t == ctask[c]
            pc == Interrupted(ppc[t])
<1>1. t \in Task
  BY DEF CancelInject, IInv, TypeOK, RequestOK
<1>2. pc \in {"settleInsert", "abortStore", "done"}
  BY DEF Interrupted, Handler
<1>3. Moves(t, pc) /\ LegalMove(t, pc)
  BY <1>2 DEF CancelInject, GoTo, Moves, LegalMove
<1>4. StatusInv' /\ LogInv' /\ GenerationStopsAtTerminal' /\ AbsentInv'
  BY <1>1, <1>3, MoveInv
<1>5. \A u \in Task : (Settled(u) => Settled(u)') /\ (Ended(u) => Ended(u)')
  BY <1>1, <1>3, MoveKeeps DEF IInv
<1>6. ppc'[t] \notin Unfinished
  BY <1>1, <1>2, <1>3 DEF Moves, IInv, TypeOK, ProcOK, Unfinished, Generating, Producing, Finishing
<1>7. cpc' = [cpc EXCEPT ![c] = "store"] /\ ctask' = ctask
  BY DEF CancelInject
<1>8. cpc'[c] = "store"
  BY <1>7 DEF IInv, TypeOK, RequestOK
<1>9. CancelOK(c)'
  BY <1>6, <1>7, <1>8 DEF CancelOK, Settled
<1>. QED  BY <1>4, <1>5, <1>7, <1>9, OthersStay DEF IInv

\* A cancel handler's own commands write an end to a task that has left the
\* generation behind, or only the flag.
LEMMA HandlerInv ==
  ASSUME IInv, NEW c \in Canceller, NEW next \in {"publish", "clear", "cancelled", "error"},
         cpc[c] \in {"store", "publish", "clear"},
         \/ cpc[c] = "store" /\ StoreTaskStatus(ctask[c], "cancelled")
         \/ cpc[c] = "publish" /\ PublishEvent(ctask[c], "cancelled")
         \/ cpc[c] = "clear" /\ WriteCancelFlag(ctask[c], FALSE)
         \/ next = "error" /\ UNCHANGED redisVars,
         cpc' = [cpc EXCEPT ![c] = next],
         UNCHANGED <<ppc, ctask>>
  PROVE  StatusInv' /\ LogInv' /\ CancelInv' /\ AbsentInv' /\ GenerationStopsAtTerminal'
<1>. DEFINE t == ctask[c]
<1>1. t \in Task /\ ppc[t] \notin Unfinished
  BY DEF IInv, TypeOK, RequestOK, CancelInv, CancelOK, Settled
<1>2. ppc[t] \notin Generating \union {"publishComplete"} /\ ppc[t] # "absent"
  BY <1>1 DEF Unfinished, Generating, Finishing
<1>3. \A u \in Task : /\ status'[u] = status[u] \/ (u = t /\ status'[u] = "cancelled")
                      /\ log'[u] = log[u] \/ (u = t /\ log'[u] = Append(log[u], "cancelled"))
  BY <1>1 DEF IInv, TypeOK, StoreOK, StoreTaskStatus, PublishEvent, WriteCancelFlag, redisVars
<1>4. StatusInv'
  BY <1>1, <1>2, <1>3 DEF IInv, StatusInv
<1>5. "cancelled" \in Event /\ "cancelled" \in TerminalEvent
  BY DEF Event, TerminalEvent
<1>6. LogInv'
  BY <1>2, <1>3 DEF IInv, LogInv, TerminalAt
<1>7. GenerationStopsAtTerminal'
  <2>1. ASSUME NEW u \in Task PROVE Stops(u)'
    <3>1. CASE log'[u] = log[u]
      BY <3>1 DEF IInv, GenerationStopsAtTerminal, Stops
    <3>2. CASE log'[u] = Append(log[u], "cancelled")
      BY <3>2, <1>5, AppendStops DEF IInv, GenerationStopsAtTerminal, Stops
    <3>. QED  BY <1>3, <3>1, <3>2
  <2>. QED  BY <2>1 DEF GenerationStopsAtTerminal, Stops
<1>8. AbsentInv'
  BY <1>2, <1>3 DEF IInv, AbsentInv
<1>9. CancelInv'
  <2>1. ASSUME NEW u \in Task PROVE (Settled(u) => Settled(u)') /\ (Ended(u) => Ended(u)')
    <3>1. Settled(u) => Settled(u)'
      BY DEF Settled
    <3>2. status'[u] = status[u] \/ status'[u] = "cancelled"
      BY <1>1 DEF IInv, TypeOK, StoreOK, StoreTaskStatus, PublishEvent, WriteCancelFlag, redisVars
    <3>3. Ended(u) => Ended(u)'
      BY <3>2 DEF Ended
    <3>. QED  BY <3>1, <3>3
  <2>2. cpc'[c] = next
    BY DEF IInv, TypeOK, RequestOK
  <2>3. cpc[c] = "store" /\ next # "error" => status'[t] = "cancelled"
    BY <1>1 DEF IInv, TypeOK, StoreOK, StoreTaskStatus
  <2>4. cpc[c] # "store" => Ended(t)
    BY DEF IInv, CancelInv, CancelOK
  <2>5. next # "error" => Ended(t)'
    BY <1>1, <2>1, <2>3, <2>4 DEF Ended
  <2>6. CancelOK(c)'
    <3>1. Settled(t)'
      BY <1>1 DEF Settled
    <3>. QED  BY <2>2, <2>5, <3>1 DEF CancelOK
  <2>. QED  BY <2>1, <2>6, OthersStay DEF IInv
<1>. QED  BY <1>4, <1>6, <1>7, <1>8, <1>9

\* Every step of a cancel request keeps the invariant.
LEMMA CancelKeeps ==
  ASSUME IInv, NEW c \in Canceller,
         \/ \E t \in Task : CancelRead(c, t)
         \/ CancelStep(c)
         \/ CancelRaises(c)
  PROVE  IInv'
<1>1. TypeOK'
  BY CancelType DEF IInv
<1>2. CASE (\E t \in Task : CancelRead(c, t)) \/ CancelCooperative(c) \/ CancelRequest(c)
  BY <1>1, <1>2, AnswerInv DEF IInv
<1>3. CASE CancelInject(c)
  BY <1>1, <1>3, InjectInv DEF IInv
<1>4. CASE CancelFinish(c)
  <2>1. ppc' = ppc /\ ctask' = ctask
    BY <1>4 DEF CancelFinish, procVars
  <2>2. CASE cpc[c] = "store" /\ StoreTaskStatus(ctask[c], "cancelled")
             /\ cpc' = [cpc EXCEPT ![c] = "publish"]
    BY <1>1, <2>1, <2>2, HandlerInv DEF IInv
  <2>3. CASE cpc[c] = "publish" /\ PublishEvent(ctask[c], "cancelled")
             /\ cpc' = [cpc EXCEPT ![c] = "clear"]
    BY <1>1, <2>1, <2>3, HandlerInv DEF IInv
  <2>4. CASE cpc[c] = "clear" /\ WriteCancelFlag(ctask[c], FALSE)
             /\ cpc' = [cpc EXCEPT ![c] = "cancelled"]
    BY <1>1, <2>1, <2>4, HandlerInv DEF IInv
  <2>. QED  BY <1>4, <2>2, <2>3, <2>4 DEF CancelFinish
<1>5. CASE CancelRaises(c)
  <2>1. ppc' = ppc /\ ctask' = ctask /\ cpc' = [cpc EXCEPT ![c] = "error"]
    BY <1>5 DEF CancelRaises, procVars
  <2>2. CASE cpc[c] = "request"
    <3>1. status' = status /\ log' = log
      BY <1>5, <2>2 DEF CancelRaises, WriteCancelFlag, redisVars
    <3>2. StatusInv' /\ LogInv' /\ AbsentInv' /\ GenerationStopsAtTerminal'
      BY <2>1, <3>1 DEF IInv, StatusInv, LogInv, AbsentInv, GenerationStopsAtTerminal, TerminalAt
    <3>3. \A t \in Task : (Settled(t) => Settled(t)') /\ (Ended(t) => Ended(t)')
      BY <2>1, <3>1 DEF Settled, Ended
    <3>4. cpc'[c] = "error"
      BY <2>1 DEF IInv, TypeOK, RequestOK
    <3>5. CancelOK(c)'
      BY <3>4 DEF CancelOK
    <3>. QED  BY <1>1, <2>1, <3>2, <3>3, <3>5, OthersStay DEF IInv
  <2>3. CASE cpc[c] # "request"
    <3>1. /\ cpc[c] \in {"store", "publish", "clear"}
          /\ \/ cpc[c] = "store" /\ StoreTaskStatus(ctask[c], "cancelled")
             \/ cpc[c] = "publish" /\ PublishEvent(ctask[c], "cancelled")
             \/ cpc[c] = "clear" /\ WriteCancelFlag(ctask[c], FALSE)
             \/ UNCHANGED redisVars
      BY <1>5, <2>3 DEF CancelRaises
    <3>. QED  BY <1>1, <2>1, <3>1, HandlerInv DEF IInv
  <2>. QED  BY <2>2, <2>3
<1>. QED  BY <1>2, <1>3, <1>4, <1>5 DEF CancelStep

\* Steps that touch neither the requests nor a status or a stream: viewers,
\* the expiry of the meta key, and stuttering.
LEMMA BystanderKeeps ==
  ASSUME IInv, TypeOK', UNCHANGED <<ppc, status, log, cancelVars>>
  PROVE  IInv'
<1>1. cpc' = cpc /\ ctask' = ctask
  BY DEF cancelVars
<1>2. StatusInv' /\ LogInv' /\ AbsentInv' /\ GenerationStopsAtTerminal'
  BY DEF IInv, StatusInv, LogInv, AbsentInv, GenerationStopsAtTerminal, TerminalAt
<1>3. CancelInv'
  BY <1>1 DEF IInv, CancelInv, CancelOK, Settled, Ended
<1>. QED  BY <1>2, <1>3 DEF IInv

\* invoke creates a task that has neither ended nor been asked to.
LEMMA InvokeKeeps ==
  ASSUME IInv, TypeOK', NEW t \in Task, Invoke(t)
  PROVE  IInv'
<1>1. /\ ppc[t] = "absent" /\ ppc' = [ppc EXCEPT ![t] = "storeProcessing"]
      /\ status' = [status EXCEPT ![t] = "queued"]
      /\ log' = [log EXCEPT ![t] = Append(@, "queued")]
      /\ cpc' = cpc /\ ctask' = ctask
  BY DEF Invoke, cancelVars
<1>2. log[t] = <<>> /\ status[t] = "none"
  BY <1>1 DEF IInv, AbsentInv
<1>3. ppc'[t] = "storeProcessing" /\ status'[t] = "queued" /\ log'[t] = <<"queued">>
  BY <1>1, <1>2 DEF IInv, TypeOK, ProcOK, StoreOK
<1>4. \A u \in Task \ {t} : ppc'[u] = ppc[u] /\ status'[u] = status[u] /\ log'[u] = log[u]
  BY <1>1 DEF IInv, TypeOK, ProcOK, StoreOK
<1>5. StatusInv' /\ AbsentInv'
  BY <1>3, <1>4 DEF IInv, StatusInv, AbsentInv, TerminalStatus
<1>6. TerminalAt(t)' = {}
  BY <1>3 DEF TerminalAt, TerminalEvent
<1>7. \A u \in Task \ {t} : TerminalAt(u)' = TerminalAt(u)
  BY <1>4 DEF TerminalAt
<1>8. LogInv'
  BY <1>4, <1>6, <1>7 DEF IInv, LogInv
<1>9. Stops(t)'
  BY <1>3 DEF Stops
<1>10. GenerationStopsAtTerminal'
  BY <1>4, <1>9 DEF IInv, GenerationStopsAtTerminal, Stops
<1>11. \A u \in Task : (Settled(u) => Settled(u)') /\ (Ended(u) => Ended(u)')
  BY <1>1, <1>2, <1>4 DEF Settled, Ended, Unfinished, Generating
<1>12. ASSUME NEW c \in Canceller PROVE CancelOK(c)'
  BY <1>1, <1>11, CancelStays DEF IInv
<1>13. CancelInv'
  BY <1>12 DEF CancelInv
<1>. QED  BY <1>5, <1>8, <1>10, <1>13 DEF IInv

\* A crash only stops coroutines and requests.
LEMMA CrashKeeps ==
  ASSUME IInv, TypeOK', Crash
  PROVE  IInv'
<1>. USE DEF Generating, Unfinished, Producing, Finishing
<1>1. \A t \in Task : ppc'[t] \in {ppc[t], "lost"}
  BY DEF Crash
<1>2. \A c \in Canceller : cpc'[c] \in {cpc[c], "error"}
  BY DEF Crash
<1>3. status' = status /\ log' = log /\ ctask' = ctask
  BY DEF Crash, redisVars
<1>4. StatusInv' /\ LogInv' /\ AbsentInv' /\ GenerationStopsAtTerminal'
  BY <1>1, <1>3 DEF IInv, StatusInv, LogInv, AbsentInv, GenerationStopsAtTerminal, TerminalAt
<1>5. \A t \in Task : (Settled(t) => Settled(t)') /\ (Ended(t) => Ended(t)')
  BY <1>1, <1>3 DEF Settled, Ended
<1>6. ASSUME NEW c \in Canceller PROVE CancelOK(c)'
  <2>1. CASE cpc'[c] = cpc[c]
    BY <1>3, <1>5, <2>1, CancelStays DEF IInv
  <2>2. CASE cpc'[c] = "error"
    BY <2>2 DEF CancelOK
  <2>. QED  BY <1>2, <2>1, <2>2
<1>7. CancelInv'
  BY <1>6 DEF CancelInv
<1>. QED  BY <1>4, <1>7 DEF IInv

\* The inductive invariant holds when the system starts.
LEMMA InvInit == Init => IInv
<1>. SUFFICES ASSUME Init PROVE IInv
  OBVIOUS
<1>1. \A t \in Task : status[t] = "none" /\ log[t] = <<>> /\ ppc[t] = "absent"
  BY DEF Init
<1>2. StatusInv /\ AbsentInv
  BY <1>1 DEF StatusInv, AbsentInv, TerminalStatus
<1>3. ASSUME NEW t \in Task PROVE TerminalAt(t) = {}
  <2>1. Len(log[t]) = 0
    BY <1>1
  <2>. QED  BY <2>1 DEF TerminalAt
<1>4. LogInv
  BY <1>3 DEF LogInv
<1>5. GenerationStopsAtTerminal
  BY <1>1 DEF GenerationStopsAtTerminal
<1>6. CancelInv
  BY DEF Init, CancelInv, CancelOK
<1>. QED  BY <1>2, <1>4, <1>5, <1>6, TypeInit DEF IInv

\* Every step keeps the inductive invariant.
LEMMA InvStep == IInv /\ [Next]_vars => IInv'
<1>. SUFFICES ASSUME IInv, [Next]_vars PROVE IInv'
  OBVIOUS
<1>1. TypeOK'
  BY TypeStep DEF IInv
<1>2. ASSUME NEW t \in Task, Invoke(t) PROVE IInv'
  BY <1>1, <1>2, InvokeKeeps
<1>3. ASSUME NEW t \in Task, ProcessTask(t) PROVE IInv'
  BY <1>3, ProcessInv
<1>4. ASSUME NEW t \in Task, ExpireMeta(t) PROVE IInv'
  BY <1>1, <1>4, BystanderKeeps DEF ExpireMeta, procVars, redisVars
<1>5. ASSUME NEW c \in Canceller,
             (\E t \in Task : CancelRead(c, t)) \/ CancelStep(c) \/ CancelRaises(c)
      PROVE  IInv'
  BY <1>5, CancelKeeps
<1>6. ASSUME NEW v \in Viewer, (\E t \in Task : Attach(v, t)) \/ ReadEvents(v) \/ Detach(v)
      PROVE  IInv'
  BY <1>1, <1>6, BystanderKeeps DEF Attach, ReadEvents, Detach, procVars, redisVars
<1>7. CASE Crash
  BY <1>1, <1>7, CrashKeeps
<1>8. CASE UNCHANGED vars
  BY <1>1, <1>8, BystanderKeeps DEF vars, procVars, redisVars
<1>. QED  BY <1>2, <1>3, <1>4, <1>5, <1>6, <1>7, <1>8 DEF Next

\* The inductive invariant, which says for each statement of the coroutine and of
\* a request what the keys, the stream and the row may hold there.
THEOREM Inductive == Spec => []IInv
BY InvInit, InvStep, PTL DEF Spec

-----------------------------------------------------------------------------
(* The theorems.                                                           *)

\* After a terminal event of a task its stream gets no "started", "chunk" or
\* "complete", for any number of tasks, cancel requests and crashes.
THEOREM StreamStops == Spec => []GenerationStopsAtTerminal
<1>1. IInv => GenerationStopsAtTerminal
  BY DEF IInv
<1>. QED  BY <1>1, Inductive, PTL

\* The answer "cancelled" of the cancel route stays true for ever.
THEOREM CancelHolds == Spec => []CancelledAnswerHolds
<1>1. IInv => CancelledAnswerHolds
  BY DEF IInv, CancelInv, CancelOK, Ended, CancelledAnswerHolds
<1>. QED  BY <1>1, Inductive, PTL

\* What a step can have done to the status of a task: nothing, or a command of
\* its coroutine, or of invoke, or of a cancel handler.
LEMMA StatusEffect ==
  ASSUME TypeOK, Next, NEW t \in Task
  PROVE  \/ status'[t] = status[t]
         \/ ppc[t] \in StatusCommands /\ status'[t] = StatusWritten(ppc[t])
         \/ ppc[t] = "absent"
         \/ status'[t] = "cancelled"
<1>1. ASSUME NEW u \in Task, Invoke(u) PROVE status'[t] = status[t] \/ ppc[t] = "absent"
  BY <1>1 DEF Invoke, TypeOK, StoreOK
<1>2. ASSUME NEW u \in Task, MaybeExecute(u)
      PROVE  \/ status'[t] = status[t]
             \/ ppc[t] \in StatusCommands /\ status'[t] = StatusWritten(ppc[t])
  BY <1>2, ExecuteEffect
<1>3. ASSUME NEW u \in Task, ProcessTask(u) PROVE MaybeExecute(u)
  BY <1>3 DEF ProcessTask, CommandReturns, ProviderYields, ProviderEnds, CheckCancel, AwaitRaises,
              InsertGivenUp, MaybeExecute
<1>4. ASSUME NEW c \in Canceller,
             (\E u \in Task : CancelRead(c, u)) \/ CancelStep(c) \/ CancelRaises(c)
      PROVE  \/ status'[t] = status[t]
             \/ ppc[t] \in StatusCommands /\ status'[t] = StatusWritten(ppc[t])
             \/ status'[t] = "cancelled"
  <2>1. CASE CancelInject(c)
    <3>1. ctask[c] \in Task
      BY <2>1 DEF CancelInject, TypeOK, RequestOK
    <3>. QED  BY <1>2, <2>1, <3>1 DEF CancelInject
  <2>2. CASE ~CancelInject(c)
    BY <1>4, <2>2 DEF CancelStep, CancelRead, CancelRequest, CancelCooperative, CancelFinish,
                      CancelRaises, StoreTaskStatus, PublishEvent, WriteCancelFlag, redisVars,
                      TypeOK, StoreOK
  <2>. QED  BY <2>1, <2>2
<1>5. ASSUME \/ \E u \in Task : ExpireMeta(u)
             \/ \E v \in Viewer : (\E u \in Task : Attach(v, u)) \/ ReadEvents(v) \/ Detach(v)
             \/ Crash
      PROVE  status'[t] = status[t]
  BY <1>5 DEF ExpireMeta, Attach, ReadEvents, Detach, Crash, redisVars
<1>. QED  BY <1>1, <1>2, <1>3, <1>4, <1>5 DEF Next

\* No step takes a task that has ended back to "queued" or "processing".
THEOREM StatusStays == Spec => StatusNeverResurrected
<1>1. ASSUME IInv, [Next]_vars, NEW t \in Task, status[t] \in TerminalStatus
      PROVE  status'[t] \in TerminalStatus
  <2>1. CASE Next
    <3>1. ppc[t] \notin Generating
      BY <1>1 DEF IInv, StatusInv
    <3>2. CASE ppc[t] \in StatusCommands /\ status'[t] = StatusWritten(ppc[t])
      BY <3>1, <3>2 DEF StatusCommands, StatusWritten, Generating, Producing, TerminalStatus
    <3>3. CASE ppc[t] = "absent"
      BY <3>1, <3>3 DEF Generating
    <3>4. CASE status'[t] = status[t] \/ status'[t] = "cancelled"
      BY <1>1, <3>4 DEF TerminalStatus
    <3>. QED  BY <1>1, <2>1, <3>2, <3>3, <3>4, StatusEffect DEF IInv
  <2>2. CASE UNCHANGED vars
    BY <1>1, <2>2 DEF vars, redisVars
  <2>. QED  BY <1>1, <2>1, <2>2
<1>2. IInv /\ [Next]_vars =>
        [\A t \in Task : status[t] \in TerminalStatus => status'[t] \in TerminalStatus]_vars
  BY <1>1
<1>. QED  BY <1>2, Inductive, PTL DEF Spec, StatusNeverResurrected

\* What a step can have done to the row of a task.
LEMMA RowEffect ==
  ASSUME TypeOK, Next, NEW t \in Task
  PROVE  \/ row'[t] = row[t]
         \/ row'[t] = "pending" /\ ppc[t] \in {"insertPending", "settleInsert"}
         \/ row'[t] = "failed" /\ row[t] = "none"
<1>1. ASSUME NEW u \in Task, MaybeExecute(u)
      PROVE  \/ row'[t] = row[t]
             \/ row'[t] = "pending" /\ ppc[t] \in {"insertPending", "settleInsert"}
             \/ row'[t] = "failed" /\ row[t] = "none"
  <2>1. CASE UNCHANGED row
    BY <2>1
  <2>2. CASE ppc[u] \in InsertCommands /\ InsertInteraction(u, ppc[u])
    BY <2>2 DEF InsertCommands, InsertInteraction, TypeOK, StoreOK
  <2>. QED  BY <1>1, <2>1, <2>2 DEF MaybeExecute, Execute
<1>2. ASSUME NEW u \in Task, ProcessTask(u) PROVE MaybeExecute(u)
  BY <1>2 DEF ProcessTask, CommandReturns, ProviderYields, ProviderEnds, CheckCancel, AwaitRaises,
              InsertGivenUp, MaybeExecute
<1>3. ASSUME NEW c \in Canceller, CancelInject(c) PROVE ctask[c] \in Task /\ MaybeExecute(ctask[c])
  BY <1>3 DEF CancelInject, TypeOK, RequestOK
<1>4. CASE \/ \E u \in Task : Invoke(u) \/ ExpireMeta(u)
           \/ \E c \in Canceller : \/ \E u \in Task : CancelRead(c, u)
                                   \/ CancelRequest(c) \/ CancelCooperative(c)
                                   \/ CancelFinish(c) \/ CancelRaises(c)
           \/ \E v \in Viewer : (\E u \in Task : Attach(v, u)) \/ ReadEvents(v) \/ Detach(v)
           \/ Crash
  BY <1>4 DEF Invoke, ExpireMeta, CancelRead, CancelRequest, CancelCooperative, CancelFinish,
              CancelRaises, Attach, ReadEvents, Detach, Crash
<1>. QED  BY <1>1, <1>2, <1>3, <1>4 DEF Next, CancelStep

\* No step puts up a proposal of a task whose cancel was answered "cancelled",
\* but the end of an INSERT that was interrupted.
THEOREM NoLateProposal == Spec => NoProposalAfterCancelled
<1>1. ASSUME IInv, [Next]_vars, NEW c \in Canceller, cpc[c] = "cancelled",
             row[ctask[c]] # "pending", ppc[ctask[c]] # "settleInsert"
      PROVE  row'[ctask[c]] # "pending"
  <2>1. ctask[c] \in Task /\ Ended(ctask[c])
    BY <1>1 DEF IInv, TypeOK, RequestOK, CancelInv, CancelOK
  <2>2. ppc[ctask[c]] # "insertPending"
    BY <1>1, <2>1 DEF IInv, StatusInv, Ended, Unfinished, Finishing
  <2>3. CASE Next
    BY <1>1, <2>1, <2>2, <2>3, RowEffect DEF IInv
  <2>4. CASE UNCHANGED vars
    BY <1>1, <2>4 DEF vars
  <2>. QED  BY <1>1, <2>3, <2>4
<1>2. IInv /\ [Next]_vars =>
        [\A c \in Canceller :
           cpc[c] = "cancelled" /\ row[ctask[c]] # "pending" /\ ppc[ctask[c]] # "settleInsert"
             => row'[ctask[c]] # "pending"]_vars
  BY <1>1
<1>. QED  BY <1>2, Inductive, PTL DEF Spec, NoProposalAfterCancelled

\* A proposal put up for review is not taken back.
THEOREM ProposalStays == Spec => ProposalNeverLost
<1>1. ASSUME TypeOK, [Next]_vars, NEW t \in Task, row[t] = "pending"
      PROVE  row'[t] = "pending"
  <2>1. CASE Next
    BY <1>1, <2>1, RowEffect
  <2>2. CASE UNCHANGED vars
    BY <1>1, <2>2 DEF vars
  <2>. QED  BY <1>1, <2>1, <2>2
<1>2. TypeOK /\ [Next]_vars => [\A t \in Task : row[t] = "pending" => row'[t] = "pending"]_vars
  BY <1>1
<1>. QED  BY <1>2, TypeCorrect, PTL DEF Spec, ProposalNeverLost

-----------------------------------------------------------------------------
(* The event stream.                                                       *)

\* A task that has been accepted has a stream, and a terminal event in a
\* stream has a first one.
StreamInv ==
  \A t \in Task :
    /\ ppc[t] # "absent" => log[t] # <<>>
    /\ TerminalAt(t) # {} => \E i \in TerminalAt(t) : \A j \in TerminalAt(t) : i <= j

\* The cancel requests of a task that may still publish its end.
Publishers(t) == {c \in Canceller : ctask[c] = t /\ cpc[c] \in {"store", "publish"}}

\* How many terminal events the coroutine, and the requests that can still
\* interrupt it, may add from where it is.
Budget(pc) ==
  IF pc \in {"failStore", "failPublish", "abortStore", "abortPublish"} THEN 2
  ELSE IF pc \in {"failClear", "failInsert", "abortClear"} THEN 1
  ELSE IF pc \in {"done", "lost"} THEN 0
  ELSE IF pc \in {"settleInsert", "stopClear"} THEN 3
  ELSE IF pc \in {"clearDone", "insertPending"} THEN 4
  ELSE 5

\* At most five terminal events are ever published for a task.
BudgetOK(t) ==
  /\ IsFiniteSet(Publishers(t))
  /\ Budget(ppc[t]) + Cardinality(Publishers(t)) <= 5
  /\ \A i \in TerminalAt(t) :
       Len(log[t]) - i + Budget(ppc[t]) + Cardinality(Publishers(t)) <= 4

\* The first terminal event of a stream is not trimmed, and an open stream
\* has not passed it.
FirstKept(t) ==
  \A i \in TerminalAt(t) : (\A j \in TerminalAt(t) : i <= j) => trimmed[t] < i
ReadingOK(v) ==
  vpc[v] = "streaming" =>
    /\ cursor[v] <= Len(log[vtask[v]])
    /\ \A i \in TerminalAt(vtask[v]) : cursor[v] < i

BudgetInv == \A t \in Task : BudgetOK(t)
KeptInv == \A t \in Task : FirstKept(t)
ReadingInv == \A v \in Viewer : ReadingOK(v)
AgreeInv == BudgetInv /\ KeptInv /\ ReadingInv /\ ViewersAgree

\* What a step can have done to a stream: invoke starts it, publish_event adds
\* to the stream of a task that was accepted.
LEMMA LogCases ==
  ASSUME IInv, [Next]_vars
  PROVE  \/ UNCHANGED <<log, trimmed>>
         \/ \E t \in Task : Invoke(t)
         \/ \E t \in Task : /\ ppc[t] # "absent"
                            /\ \E e \in Event \ {"queued"} : PublishEvent(t, e)
<1>. DEFINE Published == \E t \in Task : /\ ppc[t] # "absent"
                                         /\ \E e \in Event \ {"queued"} : PublishEvent(t, e)
<1>1. ASSUME NEW t \in Task, ppc[t] # "absent", MaybeExecute(t)
      PROVE  UNCHANGED <<log, trimmed>> \/ Published
  <2>1. CASE ppc[t] \in EventCommands /\ PublishEvent(t, EventWritten(ppc[t]))
    <3>1. EventWritten(ppc[t]) \in Event \ {"queued"}
      BY <2>1 DEF EventCommands, EventWritten, Event, TerminalEvent
    <3>. QED  BY <1>1, <2>1, <3>1
  <2>2. CASE UNCHANGED <<log, trimmed>>
    BY <2>2
  <2>. QED  BY <1>1, <2>1, <2>2
            DEF MaybeExecute, Execute, StoreTaskStatus, WriteCancelFlag, redisVars
<1>2. ASSUME NEW t \in Task, ProcessTask(t) PROVE MaybeExecute(t) /\ ppc[t] # "absent"
  BY <1>2, ProcessMoves, MoveSettled DEF IInv, Moves
<1>3. ASSUME NEW c \in Canceller, CancelInject(c)
      PROVE  ctask[c] \in Task /\ MaybeExecute(ctask[c]) /\ ppc[ctask[c]] # "absent"
  BY <1>3 DEF CancelInject, IInv, TypeOK, RequestOK, Running, InTry, Producing, Finishing,
              Stopping, Settling, Aborting, Failing
<1>4. ASSUME NEW c \in Canceller, CancelFinish(c) \/ CancelRaises(c)
      PROVE  UNCHANGED <<log, trimmed>> \/ Published
  <2>1. CASE cpc[c] = "publish" /\ PublishEvent(ctask[c], "cancelled")
    <3>1. ctask[c] \in Task /\ ppc[ctask[c]] # "absent"
      BY <2>1 DEF IInv, TypeOK, RequestOK, CancelInv, CancelOK, Settled, Unfinished, Generating
    <3>2. "cancelled" \in Event \ {"queued"}
      BY DEF Event, TerminalEvent
    <3>. QED  BY <2>1, <3>1, <3>2
  <2>2. CASE UNCHANGED <<log, trimmed>>
    BY <2>2
  <2>. QED  BY <1>4, <2>1, <2>2
            DEF CancelFinish, CancelRaises, StoreTaskStatus, WriteCancelFlag, redisVars
<1>5. CASE \/ UNCHANGED vars
           \/ \E t \in Task : ExpireMeta(t)
           \/ \E c \in Canceller : \/ \E t \in Task : CancelRead(c, t)
                                   \/ CancelRequest(c) \/ CancelCooperative(c)
           \/ \E v \in Viewer : (\E t \in Task : Attach(v, t)) \/ ReadEvents(v) \/ Detach(v)
           \/ Crash
  BY <1>5 DEF vars, ExpireMeta, CancelRead, CancelRequest, CancelCooperative, WriteCancelFlag,
              Attach, ReadEvents, Detach, Crash, redisVars
<1>. QED  BY <1>1, <1>2, <1>3, <1>4, <1>5 DEF Next, CancelStep

\* The stream of t grows by the event e, and the others stay.
Grows(t, e) ==
  /\ log[t] \in Seq(Event) /\ e \in Event
  /\ log'[t] = Append(log[t], e)
  /\ \A u \in Task \ {t} : log'[u] = log[u]

\* What a step can do to the streams, by the task's state before it.
LEMMA LogGrows ==
  ASSUME IInv, [Next]_vars
  PROVE  \/ log' = log
         \/ \E t \in Task : /\ ppc[t] = "absent" /\ log[t] = <<>> /\ Grows(t, "queued")
         \/ \E t \in Task, e \in Event \ {"queued"} : ppc[t] # "absent" /\ Grows(t, e)
<1>. USE DEF IInv, TypeOK, StoreOK, Grows
<1>1. ASSUME NEW t \in Task, Invoke(t)
      PROVE  ppc[t] = "absent" /\ log[t] = <<>> /\ Grows(t, "queued")
  BY <1>1 DEF Invoke, AbsentInv, Event
<1>2. ASSUME NEW t \in Task, NEW e \in Event, PublishEvent(t, e)
      PROVE  Grows(t, e)
  BY <1>2 DEF PublishEvent
<1>. QED  BY <1>1, <1>2, LogCases

\* A step of the terminal events of a stream: none before stays none or becomes
\* the new one; those there were stay in their places.
LEMMA TerminalGrows ==
  ASSUME NEW t \in Task, NEW e, Grows(t, e)
  PROVE  /\ TerminalAt(t)' = TerminalAt(t) \union (IF e \in TerminalEvent THEN {Len(log[t]) + 1} ELSE {})
         /\ TerminalAt(t) \subseteq 1 .. Len(log[t])
         /\ \A i \in 1 .. Len(log[t]) : log'[t][i] = log[t][i]
         /\ Len(log[t]) \in Nat /\ Len(log'[t]) = Len(log[t]) + 1
         /\ log'[t][Len(log[t]) + 1] = e
<1>1. log[t] \in Seq(Event) /\ e \in Event /\ log'[t] = Append(log[t], e)
  BY DEF Grows
<1>2. /\ \A i \in 1 .. Len(log[t]) : log'[t][i] = log[t][i]
      /\ Len(log[t]) \in Nat /\ Len(log'[t]) = Len(log[t]) + 1
      /\ log'[t][Len(log[t]) + 1] = e
  BY <1>1
<1>. QED  BY <1>2 DEF TerminalAt

\* The outcome of a stream that is given as a sequence of events.
TermOf(l) == {i \in 1 .. Len(l) : l[i] \in TerminalEvent}
FirstOf(l) ==
  IF TermOf(l) = {} THEN "none"
  ELSE l[CHOOSE i \in TermOf(l) : \A j \in TermOf(l) : i <= j]
HasFirst(l) == TermOf(l) # {} => \E i \in TermOf(l) : \A j \in TermOf(l) : i <= j

\* The first terminal event is the one FirstTerminal names.
LEMMA FirstIs ==
  ASSUME NEW l, Len(l) \in Nat, NEW i \in TermOf(l), \A j \in TermOf(l) : i <= j
  PROVE  FirstOf(l) = l[i]
<1>. DEFINE k == CHOOSE m \in TermOf(l) : \A j \in TermOf(l) : m <= j
<1>1. k \in TermOf(l) /\ \A j \in TermOf(l) : k <= j
  OBVIOUS
<1>2. k \in Nat /\ i \in Nat
  BY <1>1 DEF TermOf
<1>3. k = i
  BY <1>1, <1>2
<1>. QED  BY <1>3 DEF FirstOf

\* The outcome of a stream that grows is decided by its first terminal event,
\* and is then never decided again.
LEMMA FirstGrows ==
  ASSUME NEW l \in Seq(Event), NEW e \in Event, HasFirst(l)
  PROVE  FirstOf(Append(l, e)) =
           IF TermOf(l) # {} THEN FirstOf(l)
           ELSE IF e \in TerminalEvent THEN e ELSE "none"
<1>. DEFINE m == Append(l, e)
            n == Len(l)
<1>1. n \in Nat /\ Len(m) = n + 1 /\ m[n + 1] = e /\ \A i \in 1 .. n : m[i] = l[i]
  OBVIOUS
<1>2. TermOf(m) = TermOf(l) \union (IF e \in TerminalEvent THEN {n + 1} ELSE {})
  BY <1>1 DEF TermOf
<1>3. TermOf(l) \subseteq 1 .. n
  BY DEF TermOf
<1>. HIDE DEF m, n
<1>4. CASE TermOf(l) # {}
  <2>1. PICK i \in TermOf(l) : \A j \in TermOf(l) : i <= j
    BY <1>4 DEF HasFirst
  <2>2. i \in TermOf(m) /\ \A j \in TermOf(m) : i <= j
    BY <1>1, <1>2, <1>3, <2>1
  <2>3. FirstOf(m) = m[i]
    BY <1>1, <2>2, FirstIs
  <2>4. FirstOf(l) = l[i]
    BY <1>1, <2>1, FirstIs DEF n
  <2>. QED  BY <1>1, <1>3, <1>4, <2>1, <2>3, <2>4 DEF m
<1>5. CASE TermOf(l) = {} /\ e \in TerminalEvent
  <2>1. n + 1 \in TermOf(m) /\ \A j \in TermOf(m) : n + 1 <= j
    BY <1>1, <1>2, <1>5
  <2>2. FirstOf(m) = m[n + 1]
    BY <1>1, <2>1, FirstIs
  <2>. QED  BY <1>1, <1>5, <2>2 DEF m
<1>6. CASE TermOf(l) = {} /\ e \notin TerminalEvent
  BY <1>2, <1>6 DEF FirstOf, m
<1>. QED  BY <1>4, <1>5, <1>6

\* StreamInv holds of every behaviour.
LEMMA StreamStep ==
  ASSUME IInv, StreamInv, [Next]_vars
  PROVE  StreamInv'
<1>. SUFFICES ASSUME NEW t \in Task
              PROVE  /\ ppc'[t] # "absent" => log'[t] # <<>>
                     /\ TerminalAt(t)' # {} =>
                          \E i \in TerminalAt(t)' : \A j \in TerminalAt(t)' : i <= j
  BY DEF StreamInv
<1>0. log[t] \in Seq(Event) /\ Len(log[t]) \in Nat
  BY DEF IInv, TypeOK, StoreOK
<1>1. ASSUME NEW e, Grows(t, e)
      PROVE  /\ log'[t] # <<>>
             /\ TerminalAt(t)' # {} =>
                  \E i \in TerminalAt(t)' : \A j \in TerminalAt(t)' : i <= j
  <2>1. log'[t] # <<>>
    BY <1>1 DEF Grows
  <2>2. CASE TerminalAt(t) = {}
    BY <1>1, <2>1, <2>2, TerminalGrows
  <2>3. CASE TerminalAt(t) # {}
    BY <1>1, <2>1, <2>3, TerminalGrows DEF StreamInv
  <2>. QED  BY <2>2, <2>3
<1>2. CASE log'[t] = log[t]
  <2>1. TerminalAt(t)' = TerminalAt(t)
    BY <1>2 DEF TerminalAt
  <2>2. ppc'[t] # "absent" /\ ~(\E u \in Task : Invoke(u)) => ppc[t] # "absent"
    <3>1. ASSUME NEW u \in Task, ProcessTask(u) PROVE ppc[u] # "absent" /\ \A w \in Task \ {u} : ppc'[w] = ppc[w]
      BY <3>1, ProcessMoves, MoveSettled DEF IInv, Moves, TypeOK, ProcOK
    <3>2. ASSUME NEW c \in Canceller, CancelInject(c), t = ctask[c]
          PROVE  ppc[t] # "absent"
      BY <3>2 DEF CancelInject, Running, InTry, Producing, Finishing, Stopping,
                  Settling, Aborting, Failing
    <3>3. ASSUME NEW c \in Canceller, CancelInject(c), t # ctask[c]
          PROVE  ppc'[t] = ppc[t]
      BY <3>3 DEF CancelInject, GoTo, IInv, TypeOK, ProcOK
    <3>4. CASE \/ UNCHANGED vars
               \/ \E u \in Task : ExpireMeta(u)
               \/ \E c \in Canceller : \/ \E u \in Task : CancelRead(c, u)
                                       \/ CancelRequest(c) \/ CancelCooperative(c)
                                       \/ CancelFinish(c) \/ CancelRaises(c)
               \/ \E v \in Viewer : (\E u \in Task : Attach(v, u)) \/ ReadEvents(v) \/ Detach(v)
      BY <3>4 DEF vars, procVars, ExpireMeta, CancelRead, CancelRequest, CancelCooperative,
                  CancelFinish, CancelRaises, Attach, ReadEvents, Detach
    <3>5. CASE Crash
      BY <3>5 DEF Crash, Running, InTry, Producing, Finishing, Stopping, Settling, Aborting,
                  Failing
    <3>. QED  BY <3>1, <3>2, <3>3, <3>4, <3>5 DEF Next, CancelStep
  <2>3. ASSUME NEW u \in Task, Invoke(u)
        PROVE  ppc'[t] # "absent" => ppc[t] # "absent"
    <3>1. u # t
      <4>1. u = t => log'[t] = Append(log[t], "queued")
        BY <2>3 DEF Invoke, IInv, TypeOK, StoreOK
      <4>2. "queued" \in Event
        BY DEF Event
      <4>. QED  BY <1>0, <1>2, <4>1, <4>2
    <3>. QED  BY <2>3, <3>1 DEF Invoke, IInv, TypeOK, ProcOK
  <2>. QED  BY <1>2, <2>1, <2>2, <2>3 DEF StreamInv
<1>. QED  BY <1>1, <1>2, LogGrows DEF Grows

-----------------------------------------------------------------------------
(* The stream implements AiOutcome.                                        *)

Pieces(t) == {i \in 1 .. Len(log[t]) : log[t][i] = "chunk"}

\* How a stream that grows looks to AiOutcome: only a task whose outcome is
\* open gets a piece of text, and only such a task gets an outcome.
LEMMA GrowsSeen ==
  ASSUME IInv, StreamInv, IInv', NEW t \in Task, NEW e, Grows(t, e)
  PROVE  /\ log'[t] # <<>>
         /\ Pieces(t)' = Pieces(t) \union (IF e = "chunk" THEN {Len(log[t]) + 1} ELSE {})
         /\ \A j \in Pieces(t) : j < Len(log[t]) + 1
         /\ e = "chunk" => FirstTerminal(t) = "none"
         /\ FirstTerminal(t)' = IF FirstTerminal(t) # "none" THEN FirstTerminal(t)
                                ELSE IF e \in TerminalEvent THEN e ELSE "none"
         /\ \A u \in Task \ {t} : /\ log'[u] = log[u]
                                  /\ Pieces(u)' = Pieces(u)
                                  /\ FirstTerminal(u)' = FirstTerminal(u)
<1>1. log[t] \in Seq(Event) /\ e \in Event /\ log'[t] = Append(log[t], e)
  BY DEF Grows
<1>2. HasFirst(log[t])
  BY DEF StreamInv, HasFirst, TermOf, TerminalAt
<1>3. FirstOf(log'[t]) = IF TermOf(log[t]) # {} THEN FirstOf(log[t])
                         ELSE IF e \in TerminalEvent THEN e ELSE "none"
  BY <1>1, <1>2, FirstGrows
<1>4. /\ FirstTerminal(t) = FirstOf(log[t]) /\ FirstTerminal(t)' = FirstOf(log'[t])
      /\ TerminalAt(t) = TermOf(log[t])
  BY DEF FirstTerminal, FirstOf, TermOf, TerminalAt
<1>5. FirstTerminal(t) # "none" <=> TermOf(log[t]) # {}
  <2>1. CASE TermOf(log[t]) # {}
    <3>1. PICK i \in TermOf(log[t]) : \A j \in TermOf(log[t]) : i <= j
      BY <1>2, <2>1 DEF HasFirst
    <3>2. Len(log[t]) \in Nat
      BY <1>1
    <3>3. FirstOf(log[t]) = log[t][i]
      BY <3>1, <3>2, FirstIs
    <3>. QED  BY <1>4, <2>1, <3>1, <3>3 DEF TermOf, TerminalEvent
  <2>2. CASE TermOf(log[t]) = {}
    BY <1>4, <2>2 DEF FirstOf
  <2>. QED  BY <2>1, <2>2
<1>6. e = "chunk" => TermOf(log[t]) = {}
  <2>1. SUFFICES ASSUME e = "chunk", NEW i \in TermOf(log[t])
                 PROVE  FALSE
    OBVIOUS
  <2>2. /\ i \in 1 .. Len(log'[t]) /\ Len(log[t]) + 1 \in 1 .. Len(log'[t])
        /\ i < Len(log[t]) + 1 /\ log'[t][i] \in TerminalEvent
        /\ log'[t][Len(log[t]) + 1] = "chunk"
    BY <1>1, <2>1 DEF TermOf
  <2>. QED  BY <2>2 DEF IInv, GenerationStopsAtTerminal
<1>7. \A u \in Task \ {t} : /\ log'[u] = log[u]
                            /\ Pieces(u)' = Pieces(u)
                            /\ FirstTerminal(u)' = FirstTerminal(u)
  <2>. SUFFICES ASSUME NEW u \in Task \ {t}
                PROVE  /\ log'[u] = log[u]
                       /\ Pieces(u)' = Pieces(u)
                       /\ FirstTerminal(u)' = FirstTerminal(u)
    OBVIOUS
  <2>1. log'[u] = log[u]
    BY DEF Grows
  <2>2. FirstTerminal(u) = FirstOf(log[u]) /\ FirstTerminal(u)' = FirstOf(log'[u])
    BY DEF FirstTerminal, FirstOf, TermOf, TerminalAt
  <2>. QED  BY <2>1, <2>2 DEF Pieces
<1>8. /\ log'[t] # <<>>
      /\ Pieces(t)' = Pieces(t) \union (IF e = "chunk" THEN {Len(log[t]) + 1} ELSE {})
      /\ \A j \in Pieces(t) : j < Len(log[t]) + 1
  <2>1. /\ Len(log[t]) \in Nat /\ Len(log'[t]) = Len(log[t]) + 1
        /\ log'[t][Len(log[t]) + 1] = e
        /\ \A i \in 1 .. Len(log[t]) : log'[t][i] = log[t][i]
    BY <1>1
  <2>2. log'[t] # <<>>
    BY <1>1
  <2>. QED  BY <2>1, <2>2 DEF Pieces
<1>. QED  BY <1>3, <1>4, <1>5, <1>6, <1>7, <1>8

\* The stream starts as AiOutcome does.
LEMMA PromiseInit == Init => Promise!Init
<1>. SUFFICES ASSUME Init PROVE Promise!Init
  OBVIOUS
<1>1. ASSUME NEW t \in Task
      PROVE  log[t] = <<>> /\ Pieces(t) = {} /\ TerminalAt(t) = {}
  <2>1. log[t] = <<>> /\ Len(log[t]) = 0
    BY DEF Init
  <2>2. 1 .. Len(log[t]) = {}
    BY <2>1
  <2>. QED  BY <2>1, <2>2 DEF Pieces, TerminalAt
<1>. QED  BY <1>1 DEF Promise!Init, Pieces, FirstTerminal

\* Every step is a step of AiOutcome for one task, or for none.
LEMMA PromiseStep ==
  ASSUME IInv, StreamInv, IInv', [Next]_vars
  PROVE  [Promise!Next]_(Promise!vars)
<1>1. CASE log' = log
  BY <1>1 DEF Promise!vars, FirstTerminal, TerminalAt
<1>2. ASSUME NEW t \in Task, ppc[t] = "absent", log[t] = <<>>, Grows(t, "queued")
      PROVE  [Promise!Next]_(Promise!vars)
  <2>1. /\ log'[t] # <<>> /\ Pieces(t)' = Pieces(t)
        /\ \A u \in Task \ {t} : /\ log'[u] = log[u]
                                 /\ Pieces(u)' = Pieces(u)
                                 /\ FirstTerminal(u)' = FirstTerminal(u)
    <3>. DEFINE e == "queued"
    <3>1. Grows(t, e) /\ e # "chunk"
      BY <1>2
    <3>. HIDE DEF e
    <3>. QED  BY <3>1, GrowsSeen
  <2>2. FirstTerminal(t) = "none" /\ FirstTerminal(t)' = "none"
    <3>1. TerminalAt(t) = {}
      BY <1>2 DEF TerminalAt
    <3>2. FirstTerminal(t) = "none"
      BY <3>1 DEF FirstTerminal
    <3>. QED  BY <1>2, <3>2, GrowsSeen DEF TerminalEvent
  <2>3. {u \in Task : log'[u] # <<>>} = {u \in Task : log[u] # <<>>} \union {t}
    BY <1>2, <2>1
  <2>4. [u \in Task |-> Pieces(u)'] = [u \in Task |-> Pieces(u)]
    BY <2>1
  <2>5. [u \in Task |-> FirstTerminal(u)'] = [u \in Task |-> FirstTerminal(u)]
    BY <2>1, <2>2
  <2>6. Promise!Accept(t)
    BY <1>2, <2>3, <2>4, <2>5 DEF Promise!Accept, Pieces
  <2>. QED  BY <2>6 DEF Promise!Next
<1>3. ASSUME NEW t \in Task, NEW e \in Event \ {"queued"}, ppc[t] # "absent", Grows(t, e)
      PROVE  [Promise!Next]_(Promise!vars)
  <2>1. /\ log'[t] # <<>>
        /\ Pieces(t)' = Pieces(t) \union (IF e = "chunk" THEN {Len(log[t]) + 1} ELSE {})
        /\ \A j \in Pieces(t) : j < Len(log[t]) + 1
        /\ e = "chunk" => FirstTerminal(t) = "none"
        /\ FirstTerminal(t)' = IF FirstTerminal(t) # "none" THEN FirstTerminal(t)
                               ELSE IF e \in TerminalEvent THEN e ELSE "none"
        /\ \A u \in Task \ {t} : /\ log'[u] = log[u]
                                 /\ Pieces(u)' = Pieces(u)
                                 /\ FirstTerminal(u)' = FirstTerminal(u)
    BY <1>3, GrowsSeen
  <2>2. log[t] # <<>>
    BY <1>3 DEF StreamInv
  <2>3. {u \in Task : log'[u] # <<>>} = {u \in Task : log[u] # <<>>}
    BY <2>1, <2>2
  <2>4. CASE e = "chunk"
    <3>1. [u \in Task |-> Pieces(u)'] =
            [[u \in Task |-> Pieces(u)] EXCEPT ![t] = Pieces(t) \union {Len(log[t]) + 1}]
      BY <2>1, <2>4
    <3>2. [u \in Task |-> FirstTerminal(u)'] = [u \in Task |-> FirstTerminal(u)]
      BY <2>1, <2>4 DEF TerminalEvent
    <3>3. PICK i : i = Len(log[t]) + 1
      OBVIOUS
    <3>4. i \in Pieces(t)'
      BY <2>1, <2>4, <3>3
    <3>5. Promise!Produce(t)
      BY <2>1, <2>2, <2>3, <2>4, <3>1, <3>2, <3>3, <3>4 DEF Promise!Produce, Pieces
    <3>. QED  BY <3>5 DEF Promise!Next
  <2>5. CASE e # "chunk"
    <3>1. [u \in Task |-> Pieces(u)'] = [u \in Task |-> Pieces(u)]
      BY <2>1, <2>5
    <3>2. CASE e \in TerminalEvent /\ FirstTerminal(t) = "none"
      <4>1. [u \in Task |-> FirstTerminal(u)'] = [[u \in Task |-> FirstTerminal(u)] EXCEPT ![t] = e]
        BY <2>1, <3>2
      <4>2. Promise!Settle(t, e)
        BY <2>2, <2>3, <3>1, <3>2, <4>1 DEF Promise!Settle, Pieces
      <4>. QED  BY <3>2, <4>2 DEF Promise!Next
    <3>3. CASE ~(e \in TerminalEvent /\ FirstTerminal(t) = "none")
      <4>1. [u \in Task |-> FirstTerminal(u)'] = [u \in Task |-> FirstTerminal(u)]
        BY <2>1, <3>3
      <4>. QED  BY <2>3, <3>1, <4>1 DEF Promise!vars, Pieces
    <3>. QED  BY <3>2, <3>3
  <2>. QED  BY <2>4, <2>5
<1>. QED  BY <1>1, <1>2, <1>3, LogGrows

\* StreamInv holds at the start.
LEMMA StreamInit == Init => StreamInv
<1>. SUFFICES ASSUME Init, NEW t \in Task PROVE ppc[t] = "absent" /\ TerminalAt(t) = {}
  BY DEF StreamInv
<1>. QED  BY DEF Init, TerminalAt

\* The event stream of a task keeps the promise of AiOutcome: an accepted task
\* yields pieces of text until it is settled, it is settled once, and neither
\* its text nor its outcome changes afterwards, in whatever order the
\* coroutine, the except blocks and the cancel handlers publish to it.
THEOREM StreamKeepsPromise == Spec => ImplementsPromise
<1>1. IInv /\ StreamInv /\ [Next]_vars => StreamInv'
  BY StreamStep
<1>2. IInv /\ StreamInv /\ IInv' /\ [Next]_vars => [Promise!Next]_(Promise!vars)
  BY PromiseStep
<1>. QED  BY <1>1, <1>2, StreamInit, PromiseInit, Inductive, PTL
          DEF Spec, ImplementsPromise, Promise!Spec

-----------------------------------------------------------------------------
(* All viewers are told the same outcome, if the buffer is long enough.    *)

\* The budget of every place is a number, and what is published there is known.
LEMMA BudgetType ==
  ASSUME NEW pc
  PROVE  Budget(pc) \in 0 .. 5
BY DEF Budget

\* The command a coroutine was interrupted at, or that returned, has at most
\* published the event of its place.
LEMMA CommandPublishes ==
  ASSUME TypeOK, NEW t \in Task, MaybeExecute(t)
  PROVE  \/ log'[t] = log[t]
         \/ \E e \in Event :
              /\ log'[t] = Append(log[t], e)
              /\ e \in TerminalEvent =>
                   ppc[t] \in {"publishComplete", "stopPublish", "abortPublish", "failPublish"}
<1>1. CASE ppc[t] \in EventCommands /\ log'[t] = Append(log[t], EventWritten(ppc[t]))
  <2>1. /\ EventWritten(ppc[t]) \in Event
        /\ EventWritten(ppc[t]) \in TerminalEvent =>
             ppc[t] \in {"publishComplete", "stopPublish", "abortPublish", "failPublish"}
    BY <1>1 DEF EventCommands, EventWritten, Event, TerminalEvent
  <2>. QED  BY <1>1, <2>1
<1>. QED  BY <1>1, ExecuteEffect

\* A stream stays or grows, and pays one of the budget for a terminal event.
Pays(t, before, after) ==
  \/ log'[t] = log[t] /\ after <= before
  \/ \E e \in Event : /\ log'[t] = Append(log[t], e)
                      /\ after <= before
                      /\ e \in TerminalEvent => after + 1 <= before

\* The coroutine pays for its events from its own budget.
LEMMA CoroutinePays ==
  ASSUME IInv, NEW t \in Task, ProcessTask(t)
  PROVE  Pays(t, Budget(ppc[t]), Budget(ppc'[t]))
<1>1. MaybeExecute(t)
  BY ProcessMoves DEF IInv, Moves
<1>2. \/ log'[t] = log[t]
      \/ \E e \in Event :
           /\ log'[t] = Append(log[t], e)
           /\ e \in TerminalEvent =>
                ppc[t] \in {"publishComplete", "stopPublish", "abortPublish", "failPublish"}
  BY <1>1, CommandPublishes DEF IInv
<1>3. /\ Budget(ppc'[t]) <= Budget(ppc[t])
      /\ ppc[t] \in {"publishComplete", "stopPublish", "abortPublish", "failPublish"} =>
           Budget(ppc'[t]) + 1 <= Budget(ppc[t])
  <2>1. CASE CommandReturns(t)
    <3>1. ppc'[t] = After(ppc[t]) /\ ppc[t] \in Commands
      BY <2>1 DEF CommandReturns, GoTo, IInv, TypeOK, ProcOK
    <3>. QED  BY <3>1 DEF Budget, After, Successor, Commands, StatusCommands, EventCommands,
                  ClearCommands, InsertCommands
  <2>2. CASE ProviderYields(t) \/ ProviderEnds(t) \/ CheckCancel(t) \/ InsertGivenUp(t)
    BY <2>2 DEF ProviderYields, InsertGivenUp, ProviderEnds, CheckCancel, GoTo, Budget, IInv,
                TypeOK, ProcOK
  <2>3. CASE AwaitRaises(t)
    <3>1. ppc'[t] = Handler(ppc[t], "failStore") /\ ppc[t] \in Running
      BY <2>3 DEF AwaitRaises, GoTo, IInv, TypeOK, ProcOK, InsertCommands, Running, InTry,
                  Producing, Finishing, Settling, Failing
    <3>. QED  BY <3>1 DEF Budget, Handler, Running, InTry, Producing, Finishing, Stopping, Settling,
                  Aborting, Failing
  <2>. QED  BY <2>1, <2>2, <2>3 DEF ProcessTask
<1>. QED  BY <1>2, <1>3 DEF Pays

\* local_task.cancel() pays for the event its request will publish, too.
LEMMA InjectPays ==
  ASSUME IInv, NEW c \in Canceller, CancelInject(c)
  PROVE  /\ ctask[c] \in Task
         /\ Pays(ctask[c], Budget(ppc[ctask[c]]), Budget(ppc'[ctask[c]]) + 1)
<1>. DEFINE t == ctask[c]
<1>0. t \in Task
  BY DEF CancelInject, IInv, TypeOK, RequestOK
<1>2. \/ log'[t] = log[t]
      \/ \E e \in Event :
           /\ log'[t] = Append(log[t], e)
           /\ e \in TerminalEvent =>
                ppc[t] \in {"publishComplete", "stopPublish", "abortPublish", "failPublish"}
  BY <1>0, CommandPublishes DEF IInv, CancelInject
<1>3. ppc'[t] = Interrupted(ppc[t]) /\ ppc[t] \in Running
  BY <1>0 DEF CancelInject, GoTo, IInv, TypeOK, ProcOK
<1>4. /\ Budget(ppc'[t]) + 1 <= Budget(ppc[t])
      /\ ppc[t] \in {"publishComplete", "stopPublish", "abortPublish", "failPublish"} =>
           Budget(ppc'[t]) + 2 <= Budget(ppc[t])
  BY <1>3 DEF Budget, Interrupted, Handler, Running, InTry, Producing, Finishing, Stopping,
              Settling, Aborting, Failing
<1>. QED  BY <1>0, <1>2, <1>4, BudgetType DEF Pays

Left(t) == Budget(ppc[t]) + Cardinality(Publishers(t))
\* Every step pays for what it publishes.
StepPays(t) ==
  /\ IsFiniteSet(Publishers(t)')
  /\ Pays(t, Left(t), Left(t)')

\* Nothing published and nothing promised: nothing is paid.
LEMMA IdlePays ==
  ASSUME NEW t \in Task, IsFiniteSet(Publishers(t)), Publishers(t)' \subseteq Publishers(t),
         log'[t] = log[t], Budget(ppc'[t]) <= Budget(ppc[t])
  PROVE  StepPays(t)
<1>1. IsFiniteSet(Publishers(t)') /\ Cardinality(Publishers(t)') <= Cardinality(Publishers(t))
  BY FS_Subset
<1>2. Cardinality(Publishers(t)) \in Nat /\ Cardinality(Publishers(t)') \in Nat
  BY <1>1, FS_CardinalityType
<1>. QED  BY <1>1, <1>2, BudgetType DEF StepPays, Pays, Left

\* Only a cancel request that takes a step, or dies, changes who will publish.
LEMMA NextPays ==
  ASSUME IInv, [Next]_vars, NEW t \in Task, IsFiniteSet(Publishers(t))
  PROVE  StepPays(t)
<1>0. Cardinality(Publishers(t)) \in Nat
  BY FS_CardinalityType
<1>. DEFINE Same == Publishers(t)' = Publishers(t)
<1>1. Pays(t, Budget(ppc[t]), Budget(ppc'[t])) /\ Same => StepPays(t)
  BY <1>0, BudgetType DEF StepPays, Pays, Left
<1>2. log'[t] = log[t] /\ ppc'[t] = ppc[t] /\ Publishers(t)' \subseteq Publishers(t) => StepPays(t)
  BY IdlePays, BudgetType
<1>3. ASSUME UNCHANGED cancelVars PROVE Same
  BY <1>3 DEF cancelVars, Publishers
<1>4. ASSUME NEW u \in Task, Invoke(u) PROVE StepPays(t)
  <2>1. CASE u = t
    <3>1. /\ log'[t] = Append(log[t], "queued") /\ "queued" \in Event \ TerminalEvent
          /\ ppc[t] = "absent" /\ ppc'[t] = "storeProcessing"
      BY <1>4, <2>1 DEF Invoke, IInv, TypeOK, StoreOK, ProcOK, Event, TerminalEvent
    <3>2. Pays(t, Budget(ppc[t]), Budget(ppc'[t]))
      BY <3>1 DEF Pays, Budget
    <3>. QED  BY <1>1, <1>3, <1>4, <3>2 DEF Invoke
  <2>2. CASE u # t
    <3>1. log'[t] = log[t] /\ ppc'[t] = ppc[t] /\ Same
      BY <1>3, <1>4, <2>2 DEF Invoke, IInv, TypeOK, StoreOK, ProcOK
    <3>. QED  BY <1>2, <3>1
  <2>. QED  BY <2>1, <2>2
<1>5. ASSUME NEW u \in Task, ProcessTask(u) PROVE StepPays(t)
  <2>1. Same
    BY <1>3, <1>5, ProcessMoves DEF IInv
  <2>2. CASE u = t
    BY <1>1, <1>5, <2>1, <2>2, CoroutinePays
  <2>3. CASE u # t
    <3>1. log'[t] = log[t] /\ ppc'[t] = ppc[t]
      BY <1>5, <2>3, ProcessMoves, ExecuteEffect DEF IInv, Moves, TypeOK, ProcOK
    <3>. QED  BY <1>2, <2>1, <3>1
  <2>. QED  BY <2>2, <2>3
<1>6. ASSUME NEW c \in Canceller, CancelInject(c) PROVE StepPays(t)
  <2>1. cpc[c] = "inject" /\ cpc' = [cpc EXCEPT ![c] = "store"] /\ ctask' = ctask
    BY <1>6 DEF CancelInject
  <2>2. CASE ctask[c] = t
    <3>1. Publishers(t)' = Publishers(t) \union {c} /\ c \notin Publishers(t)
      BY <2>1, <2>2 DEF Publishers, IInv, TypeOK, RequestOK
    <3>2. /\ IsFiniteSet(Publishers(t)')
          /\ Cardinality(Publishers(t)') = Cardinality(Publishers(t)) + 1
      BY <3>1, FS_AddElement
    <3>3. Pays(t, Budget(ppc[t]), Budget(ppc'[t]) + 1)
      BY <1>6, <2>2, InjectPays
    <3>. QED  BY <1>0, <3>2, <3>3, BudgetType DEF StepPays, Pays, Left
  <2>3. CASE ctask[c] # t
    <3>1. Same
      BY <2>1, <2>3 DEF Publishers, IInv, TypeOK, RequestOK
    <3>2. log'[t] = log[t] /\ ppc'[t] = ppc[t]
      BY <1>6, <2>3, InjectPays, ExecuteEffect DEF CancelInject, GoTo, IInv, TypeOK, ProcOK
    <3>. QED  BY <1>2, <3>1, <3>2
  <2>. QED  BY <2>2, <2>3
<1>7. ASSUME NEW c \in Canceller, CancelFinish(c) \/ CancelRaises(c) PROVE StepPays(t)
  <2>1. ppc' = ppc /\ ctask' = ctask
    BY <1>7 DEF CancelFinish, CancelRaises, procVars
  <2>2. PICK next \in {"publish", "clear", "cancelled", "error"} : cpc' = [cpc EXCEPT ![c] = next]
    BY <1>7 DEF CancelFinish, CancelRaises
  <2>3. next = "publish" => cpc[c] = "store"
    BY <1>7, <2>2 DEF CancelFinish, CancelRaises, IInv, TypeOK, RequestOK
  <2>4. Publishers(t)' \subseteq Publishers(t)
    BY <2>1, <2>2, <2>3 DEF Publishers, IInv, TypeOK, RequestOK
  <2>5. CASE log'[t] = log[t]
    BY <1>2, <2>1, <2>4, <2>5
  <2>6. CASE log'[t] # log[t]
    <3>1. /\ cpc[c] = "publish" /\ ctask[c] = t /\ log'[t] = Append(log[t], "cancelled")
          /\ next # "publish"
      BY <1>7, <2>2, <2>6 DEF CancelFinish, CancelRaises, PublishEvent, StoreTaskStatus,
            WriteCancelFlag, redisVars, IInv, TypeOK, StoreOK, RequestOK
    <3>2. Publishers(t)' = Publishers(t) \ {c} /\ c \in Publishers(t)
      BY <2>1, <2>2, <3>1 DEF Publishers, IInv, TypeOK, RequestOK
    <3>3. /\ IsFiniteSet(Publishers(t)')
          /\ Cardinality(Publishers(t)') = Cardinality(Publishers(t)) - 1
      BY <3>2, FS_RemoveElement
    <3>4. "cancelled" \in Event
      BY DEF Event, TerminalEvent
    <3>. QED  BY <1>0, <2>1, <3>1, <3>3, <3>4, BudgetType DEF StepPays, Pays, Left
  <2>. QED  BY <2>5, <2>6
<1>8. ASSUME NEW c \in Canceller,
             (\E u \in Task : CancelRead(c, u)) \/ CancelRequest(c) \/ CancelCooperative(c)
      PROVE  StepPays(t)
  <2>1. log' = log /\ ppc' = ppc
    BY <1>8 DEF CancelRead, CancelRequest, CancelCooperative, WriteCancelFlag, redisVars, procVars
  <2>2. /\ cpc[c] \notin {"store", "publish"} /\ cpc'[c] \notin {"store", "publish"}
        /\ \A d \in Canceller \ {c} : cpc'[d] = cpc[d] /\ ctask'[d] = ctask[d]
    BY <1>8 DEF CancelRead, FirstAnswer, CancelRequest, CancelCooperative, IInv, TypeOK, RequestOK
  <2>3. Same
    BY <2>2 DEF Publishers
  <2>. QED  BY <1>2, <2>1, <2>3
<1>9. CASE Crash
  <2>1. log' = log /\ ctask' = ctask /\ ppc'[t] \in {ppc[t], "lost"}
    BY <1>9 DEF Crash, redisVars
  <2>2. Publishers(t)' \subseteq Publishers(t)
    BY <1>9, <2>1 DEF Crash, Publishers
  <2>3. Budget(ppc'[t]) <= Budget(ppc[t])
    BY <2>1, BudgetType DEF Budget
  <2>. QED  BY <2>1, <2>2, <2>3, IdlePays
<1>10. CASE \/ UNCHANGED vars
            \/ \E u \in Task : ExpireMeta(u)
            \/ \E v \in Viewer : (\E u \in Task : Attach(v, u)) \/ ReadEvents(v) \/ Detach(v)
  <2>1. log' = log /\ ppc' = ppc /\ UNCHANGED cancelVars
    BY <1>10 DEF vars, ExpireMeta, Attach, ReadEvents, Detach, redisVars, procVars
  <2>. QED  BY <1>2, <1>3, <2>1
<1>. QED  BY <1>4, <1>5, <1>6, <1>7, <1>8, <1>9, <1>10 DEF Next, CancelStep

\* What is left of a task's budget bounds how far its stream grows past its
\* first terminal event.
LEMMA BudgetStep ==
  ASSUME IInv, IInv', BudgetInv, [Next]_vars
  PROVE  BudgetInv'
<1>. SUFFICES ASSUME NEW t \in Task PROVE BudgetOK(t)'
  BY DEF BudgetInv
<1>1. BudgetOK(t)
  BY DEF BudgetInv
<1>2. StepPays(t)
  BY <1>1, NextPays DEF BudgetOK
<1>3. /\ IsFiniteSet(Publishers(t)') /\ Left(t) \in Nat /\ Left(t)' \in Nat
      /\ Left(t) <= 5 /\ \A i \in TerminalAt(t) : Len(log[t]) - i + Left(t) <= 4
      /\ log[t] \in Seq(Event)
  <2>1. Cardinality(Publishers(t)) \in Nat /\ Cardinality(Publishers(t)') \in Nat
    BY <1>1, <1>2, FS_CardinalityType DEF BudgetOK, StepPays
  <2>2. /\ Budget(ppc[t]) \in 0 .. 5 /\ Budget(ppc'[t]) \in 0 .. 5
        /\ Len(log[t]) \in Nat /\ log[t] \in Seq(Event)
    BY BudgetType DEF IInv, TypeOK, StoreOK
  <2>3. \A i \in TerminalAt(t) : i \in Nat
    BY DEF TerminalAt
  <2>4. Left(t) \in Nat /\ Left(t)' \in Nat
    BY <2>1, <2>2 DEF Left
  <2>5. Left(t) <= 5 /\ \A i \in TerminalAt(t) : Len(log[t]) - i + Left(t) <= 4
    <3>1. Left(t) <= 5
      BY <1>1 DEF BudgetOK, Left
    <3>2. ASSUME NEW i \in TerminalAt(t) PROVE Len(log[t]) - i + Left(t) <= 4
      <4>1. Len(log[t]) - i + Budget(ppc[t]) + Cardinality(Publishers(t)) <= 4
        BY <1>1, <3>2 DEF BudgetOK
      <4>. QED  BY <2>1, <2>2, <2>3, <3>2, <4>1 DEF Left
    <3>. QED  BY <3>1, <3>2
  <2>6. IsFiniteSet(Publishers(t)')
    BY <1>2 DEF StepPays
  <2>. QED  BY <2>2, <2>4, <2>5, <2>6
<1>4. SUFFICES /\ Left(t)' <= 5
               /\ \A i \in TerminalAt(t)' : Len(log'[t]) - i + Left(t)' <= 4
  <2>1. Cardinality(Publishers(t)') \in Nat
    BY <1>3, FS_CardinalityType
  <2>2. Budget(ppc'[t]) \in 0 .. 5 /\ Len(log'[t]) \in Nat
    BY BudgetType DEF IInv, TypeOK, StoreOK
  <2>3. \A i \in TerminalAt(t)' : i \in Nat
    BY DEF TerminalAt
  <2>4. ASSUME NEW i \in TerminalAt(t)', Len(log'[t]) - i + Left(t)' <= 4
        PROVE  Len(log'[t]) - i + Budget(ppc'[t]) + Cardinality(Publishers(t)') <= 4
    BY <2>1, <2>2, <2>3, <2>4 DEF Left
  <2>. QED  BY <1>3, <2>4 DEF BudgetOK, Left
<1>5. CASE log'[t] = log[t] /\ Left(t)' <= Left(t)
  <2>1. TerminalAt(t)' = TerminalAt(t) /\ TerminalAt(t) \subseteq Nat /\ Len(log[t]) \in Nat
    BY <1>3, <1>5 DEF TerminalAt
  <2>. QED  BY <1>3, <1>5, <2>1
<1>6. ASSUME NEW e \in Event, log'[t] = Append(log[t], e), Left(t)' <= Left(t),
             e \in TerminalEvent => Left(t)' + 1 <= Left(t)
      PROVE  /\ Left(t)' <= 5
             /\ \A i \in TerminalAt(t)' : Len(log'[t]) - i + Left(t)' <= 4
  <2>. DEFINE n == Len(log[t])
  <2>1. /\ n \in Nat /\ Len(log'[t]) = n + 1 /\ log'[t][n + 1] = e
        /\ \A i \in 1 .. n : log'[t][i] = log[t][i]
    BY <1>3, <1>6
  <2>2. Left(t)' <= 5
    BY <1>3, <1>6
  <2>3. ASSUME NEW i \in TerminalAt(t)'
        PROVE  Len(log'[t]) - i + Left(t)' <= 4
    <3>1. i \in 1 .. n + 1 /\ log'[t][i] \in TerminalEvent
      BY <2>1, <2>3 DEF TerminalAt
    <3>2. CASE i = n + 1
      <4>1. e \in TerminalEvent
        BY <2>1, <3>1, <3>2
      <4>. QED  BY <1>3, <1>6, <2>1, <3>2, <4>1
    <3>3. CASE i \in 1 .. n
      <4>1. i \in TerminalAt(t)
        BY <2>1, <3>1, <3>3 DEF TerminalAt
      <4>2. e \in {"cancelled", "failed"}
        BY <2>1, <3>1, <3>3 DEF IInv, GenerationStopsAtTerminal
      <4>3. Left(t)' + 1 <= Left(t)
        BY <1>6, <4>2 DEF TerminalEvent
      <4>4. n - i + Left(t) <= 4
        BY <1>3, <4>1
      <4>. QED  BY <1>3, <2>1, <3>3, <4>3, <4>4
    <3>. QED  BY <2>1, <3>1, <3>2, <3>3
  <2>. QED  BY <2>2, <2>3
<1>. QED  BY <1>2, <1>5, <1>6 DEF StepPays, Pays

\* A buffer of five events or more does not lose the first terminal one.
LEMMA KeptStep ==
  ASSUME IInv, IInv', BudgetInv', KeptInv, BufferLimit >= 5, [Next]_vars
  PROVE  KeptInv'
<1>. SUFFICES ASSUME NEW t \in Task, NEW i \in TerminalAt(t)',
                     \A j \in TerminalAt(t)' : i <= j
              PROVE  trimmed'[t] < i
  BY DEF KeptInv, FirstKept
<1>. USE AiTaskAssumption
<1>0. /\ log[t] \in Seq(Event) /\ Len(log[t]) \in Nat /\ trimmed[t] \in Nat
      /\ trimmed[t] <= Len(log[t]) /\ Len(log'[t]) \in Nat /\ trimmed'[t] \in Nat
  BY DEF IInv, TypeOK, StoreOK
<1>1. i \in 1 .. Len(log'[t]) /\ Len(log'[t]) - i <= 4
  <2>1. i \in 1 .. Len(log'[t])
    BY DEF TerminalAt
  <2>2. IsFiniteSet(Publishers(t)') /\ Len(log'[t]) - i + Left(t)' <= 4
    <3>1. Cardinality(Publishers(t)') \in Nat
      BY FS_CardinalityType DEF BudgetInv, BudgetOK
    <3>. QED  BY <1>0, <2>1, <3>1, BudgetType DEF BudgetInv, BudgetOK, Left
  <2>3. Left(t)' \in Nat
    BY <2>2, FS_CardinalityType, BudgetType DEF Left
  <2>. QED  BY <1>0, <2>1, <2>2, <2>3
<1>2. CASE trimmed'[t] + BufferLimit <= Len(log'[t])
  BY <1>0, <1>1, <1>2
<1>3. CASE trimmed'[t] = trimmed[t] /\ log'[t] = log[t]
  <2>1. TerminalAt(t)' = TerminalAt(t)
    BY <1>3 DEF TerminalAt
  <2>. QED  BY <1>3, <2>1 DEF KeptInv, FirstKept
<1>4. CASE trimmed'[t] = trimmed[t] /\ \E e \in Event : log'[t] = Append(log[t], e)
  <2>1. PICK e \in Event : log'[t] = Append(log[t], e)
    BY <1>4
  <2>2. Len(log'[t]) = Len(log[t]) + 1 /\ \A j \in 1 .. Len(log[t]) : log'[t][j] = log[t][j]
    BY <1>0, <2>1
  <2>3. CASE i = Len(log[t]) + 1
    BY <1>0, <1>4, <2>3
  <2>4. CASE i \in 1 .. Len(log[t])
    <3>1. i \in TerminalAt(t) /\ TerminalAt(t) \subseteq TerminalAt(t)'
      BY <1>0, <2>2, <2>4 DEF TerminalAt
    <3>. QED  BY <1>4, <3>1 DEF KeptInv, FirstKept
  <2>. QED  BY <1>0, <1>1, <2>2, <2>3, <2>4
<1>5. \/ trimmed'[t] = trimmed[t] /\ log'[t] = log[t]
      \/ trimmed'[t] = trimmed[t] /\ \E e \in Event : log'[t] = Append(log[t], e)
      \/ trimmed'[t] + BufferLimit <= Len(log'[t])
  <2>1. CASE \E u \in Task : Invoke(u)
    BY <2>1 DEF Invoke, IInv, TypeOK, StoreOK, Event
  <2>2. ASSUME NEW u \in Task, NEW e \in Event, PublishEvent(u, e)
        PROVE  <1>5!1 \/ <1>5!2 \/ <1>5!3
    <3>1. PICK k \in trimmed[u] .. Len(log[u]) + 1 :
             /\ k = trimmed[u] \/ k + BufferLimit <= Len(log[u]) + 1
             /\ trimmed' = [trimmed EXCEPT ![u] = k]
      BY <2>2 DEF PublishEvent
    <3>2. log' = [log EXCEPT ![u] = Append(log[u], e)]
      BY <2>2 DEF PublishEvent
    <3>3. CASE u = t
      <4>1. log'[t] = Append(log[t], e) /\ trimmed'[t] = k
        BY <3>1, <3>2, <3>3 DEF IInv, TypeOK, StoreOK
      <4>2. Len(log'[t]) = Len(log[t]) + 1
        BY <1>0, <4>1
      <4>. QED  BY <3>1, <3>3, <4>1, <4>2
    <3>4. CASE u # t
      BY <3>1, <3>2, <3>4 DEF IInv, TypeOK, StoreOK
    <3>. QED  BY <3>3, <3>4
  <2>. QED  BY <2>1, <2>2, LogCases
<1>. QED  BY <1>2, <1>3, <1>4, <1>5

\* An open stream is at most at its end, and before its first terminal event.
LEMMA ReadingStep ==
  ASSUME IInv, IInv', StreamInv, KeptInv, ReadingInv, [Next]_vars
  PROVE  ReadingInv'
<1>. SUFFICES ASSUME NEW v \in Viewer, vpc'[v] = "streaming"
              PROVE  /\ cursor'[v] <= Len(log'[vtask'[v]])
                     /\ \A i \in TerminalAt(vtask[v])' : cursor'[v] < i
  BY DEF ReadingInv, ReadingOK
<1>0. vtask'[v] \in Task /\ \A t \in Task : log[t] \in Seq(Event) /\ log'[t] \in Seq(Event)
  BY DEF IInv, TypeOK, ViewOK, StoreOK
<1>1. CASE \E t \in Task : Attach(v, t)
  <2>1. cursor'[v] = 0
    BY <1>1 DEF Attach, IInv, TypeOK, ViewOK
  <2>2. Len(log'[vtask'[v]]) \in Nat
    BY <1>0
  <2>. QED  BY <2>1, <2>2 DEF TerminalAt
<1>2. CASE ReadEvents(v)
  <2>. DEFINE t == vtask[v]
  <2>1. t \in Task /\ log' = log /\ vtask' = vtask /\ vpc[v] = "streaming"
    BY <1>2 DEF ReadEvents, IInv, TypeOK, ViewOK, redisVars
  <2>2. /\ {i \in Unread(v) : log[t][i] \in TerminalEvent} = {}
        /\ cursor'[v] = Len(log[t])
    BY <1>2 DEF ReadEvents, IInv, TypeOK, ViewOK, Unread, TerminalEvent
  <2>3. TerminalAt(t) = {}
    <3>1. SUFFICES ASSUME TerminalAt(t) # {} PROVE FALSE
      OBVIOUS
    <3>2. PICK i \in TerminalAt(t) : \A j \in TerminalAt(t) : i <= j
      BY <2>1, <3>1 DEF StreamInv
    <3>3. trimmed[t] < i /\ cursor[v] < i
      BY <2>1, <3>2 DEF KeptInv, FirstKept, ReadingInv, ReadingOK
    <3>4. trimmed[t] \in Nat /\ cursor[v] \in Nat
      BY <2>1 DEF IInv, TypeOK, StoreOK, ViewOK
    <3>. QED  BY <2>2, <3>2, <3>3, <3>4 DEF Unread, TerminalAt
  <2>4. TerminalAt(vtask[v])' = TerminalAt(t) /\ Len(log[t]) \in Nat
    BY <1>0, <2>1 DEF TerminalAt
  <2>. QED  BY <2>1, <2>2, <2>3, <2>4
<1>3. CASE vpc[v] = "streaming" /\ vtask'[v] = vtask[v] /\ cursor'[v] = cursor[v]
  <2>. DEFINE t == vtask[v]
              n == Len(log[t])
  <2>1. t \in Task /\ cursor[v] <= n /\ (\A i \in TerminalAt(t) : cursor[v] < i) /\ n \in Nat
    BY <1>0, <1>3 DEF ReadingInv, ReadingOK, IInv, TypeOK, ViewOK
  <2>2. cursor[v] \in Nat
    BY DEF IInv, TypeOK, ViewOK
  <2>3. \/ log'[t] = log[t]
        \/ \E e \in Event : log'[t] = Append(log[t], e)
    BY <2>1, LogGrows DEF Grows
  <2>4. /\ Len(log'[t]) \in Nat /\ n <= Len(log'[t])
        /\ \A i \in 1 .. n : log'[t][i] = log[t][i]
    BY <1>0, <2>1, <2>3
  <2>5. ASSUME NEW i \in 1 .. Len(log'[t]), log'[t][i] \in TerminalEvent
        PROVE  cursor[v] < i
    <3>1. CASE i \in 1 .. n
      BY <2>1, <2>4, <2>5, <3>1 DEF TerminalAt
    <3>2. CASE n < i
      BY <2>1, <2>2, <3>2
    <3>. QED  BY <2>1, <2>4, <3>1, <3>2
  <2>. QED  BY <1>3, <2>1, <2>2, <2>4, <2>5 DEF TerminalAt
<1>4. ReadEvents(v) \/ (\E t \in Task : Attach(v, t)) \/ <1>3!1
  <2>. USE DEF IInv, TypeOK, ViewOK
  <2>1. CASE viewVars' = viewVars
    BY <2>1 DEF viewVars
  <2>2. CASE \E w \in Viewer : (\E t \in Task : Attach(w, t)) \/ ReadEvents(w) \/ Detach(w)
    <3>1. PICK w \in Viewer : (\E t \in Task : Attach(w, t)) \/ ReadEvents(w) \/ Detach(w)
      BY <2>2
    <3>2. CASE w = v
      BY <3>1, <3>2 DEF Detach
    <3>3. CASE w # v
      BY <3>1, <3>3 DEF Attach, ReadEvents, Detach
    <3>. QED  BY <3>2, <3>3
  <2>3. CASE Crash
    BY <2>3 DEF Crash
  <2>. QED  BY <2>1, <2>2, <2>3 DEF Next, vars, Invoke, ProcessTask, CommandReturns, ProviderYields,
        ProviderEnds, CheckCancel, AwaitRaises, InsertGivenUp, ExpireMeta, CancelStep, CancelRead,
        CancelRequest, CancelInject, CancelCooperative, CancelFinish, CancelRaises
<1>. QED  BY <1>1, <1>2, <1>3, <1>4

\* The outcome of a task that has one is kept.
LEMMA OutcomeKept ==
  ASSUME IInv, IInv', StreamInv, [Next]_vars, NEW t \in Task, FirstTerminal(t) # "none"
  PROVE  FirstTerminal(t)' = FirstTerminal(t)
<1>1. CASE log'[t] = log[t]
  <2>1. FirstTerminal(t) = FirstOf(log[t]) /\ FirstTerminal(t)' = FirstOf(log'[t])
    BY DEF FirstTerminal, FirstOf, TermOf, TerminalAt
  <2>. QED  BY <1>1, <2>1
<1>2. ASSUME NEW e, Grows(t, e) PROVE FirstTerminal(t)' = FirstTerminal(t)
  BY <1>2, GrowsSeen
<1>. QED  BY <1>1, <1>2, LogGrows DEF Grows

\* A viewer that is told an outcome is told the first one.
LEMMA AgreeStep ==
  ASSUME IInv, IInv', StreamInv, KeptInv, ReadingInv, ViewersAgree, [Next]_vars
  PROVE  ViewersAgree'
<1>. SUFFICES ASSUME NEW v \in Viewer, vpc'[v] \in TerminalEvent
              PROVE  vpc'[v] = FirstTerminal(vtask[v])'
  BY DEF ViewersAgree
<1>1. CASE ReadEvents(v)
  <2>. DEFINE t == vtask[v]
              final == {i \in Unread(v) : log[t][i] \in TerminalEvent}
  <2>1. t \in Task /\ log' = log /\ vtask' = vtask /\ vpc[v] = "streaming"
    BY <1>1 DEF ReadEvents, IInv, TypeOK, ViewOK, redisVars
  <2>2. PICK i \in final : (\A j \in final : i <= j) /\ vpc'[v] = log[t][i]
    BY <1>1 DEF ReadEvents, IInv, TypeOK, ViewOK, TerminalEvent
  <2>3. i \in TerminalAt(t) /\ TerminalAt(t) \subseteq Nat
    BY DEF Unread, TerminalAt
  <2>4. PICK k \in TerminalAt(t) : \A j \in TerminalAt(t) : k <= j
    BY <2>1, <2>3 DEF StreamInv
  <2>5. trimmed[t] < k /\ cursor[v] < k
    BY <2>1, <2>4 DEF KeptInv, FirstKept, ReadingInv, ReadingOK
  <2>6. trimmed[t] \in Nat /\ cursor[v] \in Nat /\ Len(log[t]) \in Nat
    BY <2>1 DEF IInv, TypeOK, StoreOK, ViewOK
  <2>7. k \in final
    BY <2>4, <2>5, <2>6 DEF Unread, TerminalAt
  <2>8. k = i
    BY <2>2, <2>3, <2>4, <2>7
  <2>9. k \in TermOf(log[t]) /\ \A j \in TermOf(log[t]) : k <= j
    BY <2>4 DEF TermOf, TerminalAt
  <2>10. FirstOf(log[t]) = log[t][i]
    BY <2>6, <2>8, <2>9, FirstIs
  <2>11. FirstTerminal(vtask[v])' = FirstOf(log'[vtask'[v]])
    BY DEF FirstTerminal, FirstOf, TermOf, TerminalAt
  <2>. QED  BY <2>1, <2>2, <2>10, <2>11
<1>2. CASE vpc'[v] = vpc[v] /\ vtask'[v] = vtask[v]
  <2>1. vtask[v] \in Task /\ vpc[v] = FirstTerminal(vtask[v])
    BY <1>2 DEF ViewersAgree, IInv, TypeOK, ViewOK, TerminalEvent
  <2>2. FirstTerminal(vtask[v]) # "none"
    BY <1>2, <2>1 DEF TerminalEvent
  <2>3. FirstTerminal(vtask[v])' = FirstOf(log'[vtask'[v]])
    BY DEF FirstTerminal, FirstOf, TermOf, TerminalAt
  <2>4. PICK t \in Task : t = vtask[v]
    BY <2>1
  <2>5. FirstTerminal(t)' = FirstOf(log'[t])
    BY DEF FirstTerminal, FirstOf, TermOf, TerminalAt
  <2>6. FirstTerminal(t)' = FirstTerminal(t)
    BY <2>2, <2>4, OutcomeKept
  <2>. QED  BY <1>2, <2>1, <2>3, <2>4, <2>5, <2>6
<1>3. ReadEvents(v) \/ <1>2!1
  <2>. USE DEF IInv, TypeOK, ViewOK
  <2>1. CASE viewVars' = viewVars
    BY <2>1 DEF viewVars
  <2>2. CASE \E w \in Viewer : (\E t \in Task : Attach(w, t)) \/ ReadEvents(w) \/ Detach(w)
    <3>1. PICK w \in Viewer : (\E t \in Task : Attach(w, t)) \/ ReadEvents(w) \/ Detach(w)
      BY <2>2
    <3>2. CASE w = v
      BY <3>1, <3>2 DEF Attach, Detach, TerminalEvent
    <3>3. CASE w # v
      BY <3>1, <3>3 DEF Attach, ReadEvents, Detach
    <3>. QED  BY <3>2, <3>3
  <2>3. CASE Crash
    BY <2>3 DEF Crash, TerminalEvent
  <2>. QED  BY <2>1, <2>2, <2>3 DEF Next, vars, Invoke, ProcessTask, CommandReturns, ProviderYields,
        ProviderEnds, CheckCancel, AwaitRaises, InsertGivenUp, ExpireMeta, CancelStep, CancelRead,
        CancelRequest, CancelInject, CancelCooperative, CancelFinish, CancelRaises
<1>. QED  BY <1>1, <1>2, <1>3

\* Nothing is spent, read or told at the start.
LEMMA AgreeInit == Init => AgreeInv
<1>. SUFFICES ASSUME Init PROVE AgreeInv
  OBVIOUS
<1>1. ASSUME NEW t \in Task
      PROVE  TerminalAt(t) = {} /\ Publishers(t) = {} /\ ppc[t] = "absent" /\ Len(log[t]) = 0
  <2>1. log[t] = <<>> /\ Len(log[t]) = 0 /\ ppc[t] = "absent"
    BY DEF Init
  <2>2. 1 .. Len(log[t]) = {}
    BY <2>1
  <2>3. TerminalAt(t) = {}
    BY <2>2 DEF TerminalAt
  <2>4. Publishers(t) = {}
    BY DEF Init, Publishers
  <2>. QED  BY <2>1, <2>3, <2>4
<1>2. BudgetInv
  <2>. SUFFICES ASSUME NEW t \in Task PROVE BudgetOK(t)
    BY DEF BudgetInv
  <2>1. Budget(ppc[t]) = 5
    BY <1>1 DEF Budget
  <2>2. IsFiniteSet(Publishers(t)) /\ Cardinality(Publishers(t)) = 0
    BY <1>1, FS_EmptySet
  <2>. QED  BY <1>1, <2>1, <2>2 DEF BudgetOK
<1>3. KeptInv
  BY <1>1 DEF KeptInv, FirstKept
<1>. QED  BY <1>2, <1>3 DEF Init, AgreeInv, ReadingInv, ReadingOK, ViewersAgree, TerminalEvent

\* All viewers of a task are told the same outcome, whenever they attach and
\* whatever is published after it, if the buffer holds five events or more (it
\* holds 512): a coroutine publishes at most two ends, and at most two requests
\* can interrupt it.
THEOREM ViewersAgreeOnOutcome ==
  ASSUME BufferLimit >= 5
  PROVE  Spec => []ViewersAgree
<1>1. IInv /\ IInv' /\ StreamInv /\ StreamInv' /\ AgreeInv /\ [Next]_vars => AgreeInv'
  BY BudgetStep, KeptStep, ReadingStep, AgreeStep DEF AgreeInv
<1>2. IInv /\ StreamInv /\ [Next]_vars => StreamInv'
  BY StreamStep
<1>3. AgreeInv => ViewersAgree
  BY DEF AgreeInv
<1>. QED  BY <1>1, <1>2, <1>3, StreamInit, AgreeInit, Inductive, PTL DEF Spec
=============================================================================
