------------------------------ MODULE AiEditor ------------------------------
(***************************************************************************)
(* The AI toolbar of the editor (src/apps/web/src/editor/AiToolbar.tsx)    *)
(* composed with the review of its proposals (AiReview).  A call of        *)
(* runAction invokes a task, follows its event stream and sets the         *)
(* proposal of the page; handleCancel asks the server to stop the task and *)
(* leaves the call of runAction running, so that the answers of one call   *)
(* may reach the state of another.                                         *)
(*                                                                         *)
(* The server side of a task is what AiOutcome promises: pieces, then one  *)
(* outcome, and behind it the task's row, if it is written.                *)
(***************************************************************************)
EXTENDS AiReview

CONSTANTS
  PieceLength, \* sentences per piece the model yields
  Pieces,      \* pieces of its answer
  Cancel,      \* clicks on Cancel
  Kinds,       \* bound: the kinds of action users choose
  Ranges       \* bound: the ranges <<from, to>> users select

ASSUME AiEditorAssumption ==
  /\ PieceLength \in Nat /\ Pieces \in Nat
  /\ \A n \in 0 .. Pieces : n * PieceLength <= Len(Proposed)
  /\ Ranges \subseteq (Nat \ {0}) \X Nat
  /\ Kinds \subseteq {"read", "write"}

VARIABLES
  visible, \* the toolbar is shown
  sel,     \* selectedRangeRef
  loading, \* the call the `loading` state stands for, or None
  active,  \* activeTaskId
  last,    \* activeTaskRef and activeSelectionRef
  pc,      \* where each call of runAction is
  call,    \* its selection, its kind of task and the state vector it took
  task,    \* each task on the server
  sent,    \* pieces its stream holds
  got,     \* pieces the call has read
  flagged, \* tasks the server was asked to cancel
  cpc,     \* where each call of handleCancel is
  ctask    \* the task it cancels

toolVars == <<visible, sel, loading, active, last, pc, call, got>>
serverVars == <<task, sent, flagged>>
cancelVars == <<cpc, ctask>>
vars == <<reviewVars, toolVars, serverVars, cancelVars>>

Outcome == {"complete", "failed", "cancelled"}

Init ==
  /\ ReviewInit
  /\ visible = FALSE
  /\ sel = None /\ loading = None /\ active = None /\ last = None
  /\ pc = [r \in Run |-> "idle"]
  /\ call = [r \in Run |-> None]
  /\ task = [r \in Run |-> "none"]
  /\ sent = [r \in Run |-> 0]
  /\ got = [r \in Run |-> 0]
  /\ flagged = {}
  /\ cpc = [k \in Cancel |-> "idle"] /\ ctask = [k \in Cancel |-> None]

-----------------------------------------------------------------------------
(* The toolbar.                                                            *)

\* onSelectionUpdate: while a call is loading the ref keeps the old range.  A
\* new selection starts with an empty one, which hides the toolbar.
Select ==
  /\ loading = None /\ ~visible
  /\ \E range \in Ranges :
       LET text == SerializeRange(range[1], range[2]) IN
       /\ text # None
       /\ sel' = [from |-> range[1], to |-> range[2], text |-> text]
  /\ visible' = TRUE
  /\ UNCHANGED <<reviewVars, loading, active, last, pc, call, got, serverVars, cancelVars>>

\* An empty selection or a blur hides the toolbar, unless a call is loading.
Hide ==
  /\ loading = None /\ visible
  /\ visible' = FALSE
  /\ UNCHANGED <<reviewVars, sel, loading, active, last, pc, call, got, serverVars, cancelVars>>

\* isActionAvailable.
Available(kind, role, aiEnabled) ==
  aiEnabled /\ role \in (IF kind = "read" THEN {"owner", "editor", "commenter"}
                         ELSE {"owner", "editor"})

\* The task buttons, and the Cancel button beside them.
ButtonsEnabled == visible /\ loading = None
CancelShown == visible /\ loading # None /\ active # None

\* runAction up to its first await.
Begin(r, action) ==
  /\ pc[r] = "idle"
  /\ sel' = action.selection
  /\ last' = action
  /\ loading' = r
  /\ call' = [call EXCEPT ![r] = [action |-> action, state |-> inserts]]
  /\ pc' = [pc EXCEPT ![r] = "invoking"]
  /\ notice' = None
  /\ UNCHANGED <<docVars, source, row, clickVars, visible, active, got, serverVars, cancelVars>>

\* handleAction.
StartAction(r) ==
  /\ ButtonsEnabled
  /\ \E kind \in Kinds, role \in {"editor", "commenter", "viewer"} :
       /\ Available(kind, role, TRUE)
       /\ Begin(r, [kind |-> kind, selection |-> sel])
  /\ UNCHANGED proposal

\* handleRetryAiNotice: the proposal on screen is dropped with the notice.
TakeNotice == notice # None /\ proposal' = None

\* The effect on retryRequest: it does not look at `loading`.
Retry(r) == TakeNotice /\ Begin(r, notice)

\* The proposal runAction and streamTask hand to the page.
ProposalOf(r, text, streaming) ==
  [run |-> r, kind |-> call[r].action.kind, original |-> call[r].action.selection.text,
   from |-> call[r].action.selection.from, to |-> call[r].action.selection.to,
   proposed |-> text, streaming |-> streaming, stale |-> FALSE]

\* Mutant: a call clears only the loading state it set itself and forgets it
\* when another call has replaced it.
FinallyForgotten(r) ==
  /\ loading' = IF active = r THEN None ELSE loading
  /\ active' = active
  /\ pc' = [pc EXCEPT ![r] = "done"]

\* The finally block: it clears the state whichever call set it.
Finally(r) ==
  /\ loading' = None
  /\ active' = None
  /\ pc' = [pc EXCEPT ![r] = "done"]

\* buildAiNotice: the notice offers to retry the same action.
BuildAiNotice(r) == call[r].action

\* The catch block.
Catch(r) ==
  /\ proposal' = None
  /\ notice' = BuildAiNotice(r)
  /\ Finally(r)

InvokeAnswers(r) ==
  /\ pc[r] = "invoking"
  /\ active' = r
  /\ proposal' = ProposalOf(r, <<>>, TRUE)
  /\ notice' = None
  /\ pc' = [pc EXCEPT ![r] = "streaming"]
  /\ task' = [task EXCEPT ![r] = "running"]
  /\ source' = [source EXCEPT ![r] = [text |-> call[r].action.selection.text, state |-> call[r].state]]
  /\ UNCHANGED <<docVars, row, clickVars, visible, sel, loading, last, call, got, sent,
                 flagged, cancelVars>>

InvokeFails(r) ==
  /\ pc[r] = "invoking"
  /\ Catch(r)
  /\ UNCHANGED <<docVars, source, row, clickVars, visible, sel, last, call, got, serverVars, cancelVars>>

\* The text of the first n pieces.
Preview(n) == SubSeq(Proposed, 1, n * PieceLength)

\* The reader of the stream: the next event is there to be read.
Reading(r) == pc[r] = "streaming" /\ got[r] < sent[r]

\* A chunk event: the proposal is put on screen again, whatever is there.
ChunkArrives(r) ==
  /\ Reading(r)
  /\ got' = [got EXCEPT ![r] = @ + 1]
  /\ proposal' = ProposalOf(r, Preview(got'[r]), TRUE)
  /\ notice' = None
  /\ UNCHANGED <<docVars, source, row, clickVars, visible, sel, loading, active, last, pc,
                 call, serverVars, cancelVars>>

\* A complete event, or a stream that ends with no terminal event: what was
\* read is shown for review.
StreamEnds(r) ==
  /\ pc[r] = "streaming"
  /\ \/ /\ task[r] = "complete" /\ got[r] = sent[r]
        /\ proposal' = ProposalOf(r, Proposed, FALSE)
     \/ proposal' = ProposalOf(r, Preview(got[r]), FALSE)
  /\ notice' = None
  /\ visible' = FALSE
  /\ Finally(r)
  /\ UNCHANGED <<docVars, source, row, clickVars, sel, last, call, got, serverVars, cancelVars>>

\* A failed or cancelled event, a stream that cannot be opened, or a read that
\* raises.
StreamFails(r) ==
  /\ pc[r] = "streaming"
  /\ Catch(r)
  /\ UNCHANGED <<docVars, source, row, clickVars, visible, sel, last, call, got, serverVars, cancelVars>>

-----------------------------------------------------------------------------
(* The server.                                                             *)

\* The worker up to the terminal event it publishes.
Generate(r) ==
  /\ task[r] = "running"
  /\ \/ /\ sent[r] < Pieces
        /\ sent' = [sent EXCEPT ![r] = @ + 1]
        /\ UNCHANGED task
     \/ /\ sent[r] = Pieces
        /\ task' = [task EXCEPT ![r] = "complete"]
        /\ UNCHANGED sent
     \/ /\ task' = [task EXCEPT ![r] = "failed"]
        /\ UNCHANGED sent
     \/ /\ r \in flagged
        /\ task' = [task EXCEPT ![r] = "cancelled"]
        /\ UNCHANGED sent
  /\ UNCHANGED <<reviewVars, toolVars, flagged, cancelVars>>

\* The INSERT behind the event: the pending row or, when the task failed or that
\* INSERT did, the failed row, which keeps no state vector.
LogInteraction(r) ==
  /\ task[r] \in {"complete", "failed"} /\ row[r] = "none"
  /\ \/ /\ task[r] = "complete"
        /\ row' = [row EXCEPT ![r] = "pending"]
        /\ UNCHANGED source
     \/ /\ row' = [row EXCEPT ![r] = "failed"]
        /\ source' = [source EXCEPT ![r].state = None]
  /\ UNCHANGED <<docVars, proposal, notice, clickVars, toolVars, serverVars, cancelVars>>

-----------------------------------------------------------------------------
(* handleCancel: the button stays enabled while a call of it awaits.       *)

\* handleCancel up to its await.
CancelClick(k) ==
  /\ CancelShown
  /\ cpc[k] = "idle"
  /\ cpc' = [cpc EXCEPT ![k] = "sent"]
  /\ ctask' = [ctask EXCEPT ![k] = active]
  /\ UNCHANGED <<reviewVars, toolVars, serverVars>>

\* The server's answer: a task that ended cannot be cancelled.
CancelServed(k) ==
  /\ cpc[k] = "sent"
  /\ \/ /\ task[ctask[k]] \in {"complete", "failed"}
        /\ cpc' = [cpc EXCEPT ![k] = "conflict"]
        /\ UNCHANGED flagged
     \/ /\ task[ctask[k]] \notin {"complete", "failed"}
        /\ cpc' = [cpc EXCEPT ![k] = "ok"]
        /\ flagged' = flagged \union {ctask[k]}
  /\ UNCHANGED <<reviewVars, toolVars, task, sent, ctask>>

\* The rest of handleCancel; an error only clears the loading state.
CancelAnswered(k) ==
  /\ cpc[k] \in {"ok", "conflict"}
  /\ IF cpc[k] = "ok"
     THEN /\ proposal' = None /\ notice' = last /\ visible' = FALSE
     ELSE UNCHANGED <<proposal, notice, visible>>
  /\ loading' = None
  /\ active' = None
  /\ cpc' = [cpc EXCEPT ![k] = "done"]
  /\ UNCHANGED <<docVars, source, row, clickVars, sel, last, pc, call, got, serverVars, ctask>>

Next ==
  \/ ReviewNext /\ UNCHANGED <<toolVars, serverVars, cancelVars>>
  \/ Select \/ Hide
  \/ \E k \in Cancel : CancelClick(k) \/ CancelServed(k) \/ CancelAnswered(k)
  \/ \E r \in Run :
       \/ StartAction(r) \/ Retry(r) \/ InvokeAnswers(r) \/ InvokeFails(r)
       \/ ChunkArrives(r) \/ StreamEnds(r) \/ StreamFails(r)
       \/ Generate(r) \/ LogInteraction(r)

\* The server answers every request and ends every task and stream.
Fairness ==
  \A r \in Run :
    /\ WF_vars(InvokeAnswers(r) \/ InvokeFails(r))
    /\ WF_vars(Generate(r))
    /\ WF_vars(ChunkArrives(r) \/ StreamEnds(r) \/ StreamFails(r))

Spec == Init /\ [][Next]_vars /\ Fairness

-----------------------------------------------------------------------------
Text == Seq(Sentence)

TypeOK ==
  /\ doc \in Text
  /\ inserts \in Nat /\ edits \in 0 .. MaxEdits
  /\ \A r \in Run : source[r] # None => source[r].text \in Text
  /\ row \in [Run -> {"none", "pending", "failed", "expired", "accepted", "partial", "rejected"}]
  /\ proposal # None =>
       proposal.run \in Run /\ proposal.original \in Text /\ proposal.proposed \in Text
  /\ rpc \in [Click -> {"idle", "sent", "expire", "update", "reviewed", "stale", "refused",
                        "failed", "done", "applied"}]
  /\ loading \in Run \union {None} /\ active \in Run \union {None}
  /\ pc \in [Run -> {"idle", "invoking", "streaming", "done"}]
  /\ task \in [Run -> {"none", "running"} \union Outcome]
  /\ \A r \in Run : got[r] <= sent[r] /\ sent[r] <= Pieces
  /\ cpc \in [Cancel -> {"idle", "sent", "ok", "conflict", "done"}]
  /\ ctask \in [Cancel -> Run \union {None}]
  /\ flagged \subseteq Run /\ visible \in BOOLEAN

(* A proposal changes the document only if, when the user clicked Accept,  *)
(* the text at its anchors was the text the task was invoked with and      *)
(* nothing had been inserted anywhere since (unless the task failed after  *)
(* its stream broke: that row keeps no state vector): across retries with  *)
(* an old selection, proposals of several tasks on screen, two clicks in   *)
(* flight, and edits before, during and after the generation.              *)
FreshWhenAccepted ==
  \A c \in Click :
    rpc[c] = "applied" =>
      /\ click[c].selection = source[click[c].run].text
      /\ source[click[c].run].state \in {click[c].state, None}

(* The panel lets the user keep exactly what is chosen: with no toggle the *)
(* text sent is the whole proposal, and "accept" says so; with every       *)
(* changed sentence toggled it is the original.                            *)
PanelKeepsBoth ==
  CanAccept(proposal) /\ proposal.kind = "write" =>
    LET all == DOMAIN ComputeDiffSegments(proposal.original, proposal.proposed) IN
    /\ ChosenByToggles(proposal, {}) = [text |-> proposal.proposed, action |-> "accept"]
    /\ ChosenByToggles(proposal, all).text = proposal.original

(* Whatever calls overlap, the toolbar is usable again, and no proposal    *)
(* stays "streaming" on screen, where it can be neither accepted nor       *)
(* rejected.                                                               *)
ToolbarSettles ==
  /\ loading # None ~> loading = None
  /\ proposal # None /\ proposal.streaming ~> proposal = None \/ ~proposal.streaming

(* AiProposal.tsx:250 says of a source text that changed: "Regenerate it   *)
(* instead of applying it."                                                *)
(* The code does not meet it: README, "What the documents say".            *)
AppliedToItsSource ==
  \A c \in Click : rpc[c] = "applied" => click[c].replaced = source[click[c].run].text
=============================================================================
