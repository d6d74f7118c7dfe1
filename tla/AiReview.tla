------------------------------ MODULE AiReview ------------------------------
(***************************************************************************)
(* A proposal under review: the document of the user's browser and the     *)
(* edits it receives, the panel that shows the proposal                    *)
(* (src/apps/web/src/editor/AiProposal.tsx), the editor page that applies  *)
(* it (pages/Editor.tsx), and the handler of POST .../review               *)
(* (src/apps/api/src/ai/ai.service.ts).                                    *)
(*                                                                         *)
(* A text is a sequence of sentences and a position counts sentences.      *)
(* Deletions leave the state vector of a Yjs document alone, so what the   *)
(* code compares is the number of insertions.  AiEditor adds the toolbar   *)
(* that produces the proposals.                                            *)
(***************************************************************************)
EXTENDS Naturals, Sequences, SequencesExt

CONSTANTS
  Run,       \* calls of runAction; each makes one AI task
  Click,     \* clicks on Accept or Reject
  Sentence,  \* sentences
  Typed,     \* the sentence users type
  FirstDoc,  \* the document at the start
  Proposed,  \* what the model answers
  None,      \* null
  MaxEdits   \* bound: edits of the document

ASSUME AiReviewAssumption ==
  /\ MaxEdits \in Nat
  /\ Typed \in Sentence
  /\ {FirstDoc, Proposed} \subseteq Seq(Sentence) \ {<<>>}

VARIABLES
  doc,      \* the document
  inserts,  \* its state vector: insertions so far
  edits,    \* edits so far
  source,   \* the selection and state vector its row keeps of a task's invocation
  row,      \* status of each task's ai_interactions row
  proposal, \* aiProposal of the editor page, or None
  notice,   \* aiNotice: the action its retry repeats, or None
  rpc,      \* where a click is
  click     \* what it sent

docVars == <<doc, inserts, edits>>
clickVars == <<rpc, click>>
reviewVars == <<docVars, source, row, proposal, notice, clickVars>>

NoClick == [run |-> None, action |-> "accept", text |-> <<>>, selection |-> None,
            state |-> 0, from |-> 0, to |-> 0, kind |-> "write", replaced |-> None]

ReviewInit ==
  /\ doc = FirstDoc
  /\ inserts = 0
  /\ edits = 0
  /\ source = [r \in Run |-> None]
  /\ row = [r \in Run |-> "none"]
  /\ proposal = None
  /\ notice = None
  /\ rpc = [c \in Click |-> "idle"]
  /\ click = [c \in Click |-> NoClick]

-----------------------------------------------------------------------------
(* The document.                                                           *)

\* insertContentAt: the sentences from..to are replaced.
Replaced(from, to, text) ==
  SubSeq(doc, 1, from - 1) \o text \o SubSeq(doc, to + 1, Len(doc))

\* The user or a collaborator types a sentence, or deletes one.
Edit ==
  /\ edits < MaxEdits
  /\ edits' = edits + 1
  /\ \/ /\ \E i \in 1 .. Len(doc) + 1 : doc' = Replaced(i, i - 1, <<Typed>>)
        /\ inserts' = inserts + 1
     \/ /\ \E i \in 1 .. Len(doc) : doc' = Replaced(i, i, <<>>)
        /\ UNCHANGED inserts
  /\ UNCHANGED <<source, row, proposal, notice, clickVars>>

\* handleVersionRestore: the document of an earlier version is put in place and
\* the proposal and the notice go.
Restore ==
  /\ edits < MaxEdits
  /\ edits' = edits + 1
  /\ doc' = FirstDoc
  /\ inserts' = inserts + 1
  /\ proposal' = None /\ notice' = None
  /\ UNCHANGED <<source, row, clickVars>>

\* serializeRange: null when the range is outside the document.
SerializeRange(from, to) ==
  IF from > to \/ to > Len(doc) THEN None ELSE SubSeq(doc, from, to)

-----------------------------------------------------------------------------
(* The panel.                                                              *)

Segment(type, text, index) ==
  [type |-> type, text |-> text, index |-> index, accepted |-> type # "removed"]

\* Mutant: an added sentence is forgotten where one is removed.
ComputeDiffSegmentsElse(original, proposed) ==
  LET longer == IF Len(original) > Len(proposed) THEN Len(original) ELSE Len(proposed)
      At(i) ==
        IF i <= Len(original) /\ i <= Len(proposed) /\ original[i] = proposed[i]
        THEN <<Segment("unchanged", proposed[i], i)>>
        ELSE IF i <= Len(original) THEN <<Segment("removed", original[i], i)>>
             ELSE <<Segment("added", proposed[i], i)>>
  IN FlattenSeq([i \in 1 .. longer |-> At(i)])

\* computeDiffSegments: the sentences are compared index by index.
ComputeDiffSegments(original, proposed) ==
  LET longer == IF Len(original) > Len(proposed) THEN Len(original) ELSE Len(proposed)
      At(i) ==
        IF i <= Len(original) /\ i <= Len(proposed) /\ original[i] = proposed[i]
        THEN <<Segment("unchanged", proposed[i], i)>>
        ELSE (IF i <= Len(original) THEN <<Segment("removed", original[i], i)>> ELSE <<>>)
             \o (IF i <= Len(proposed) THEN <<Segment("added", proposed[i], i)>> ELSE <<>>)
  IN FlattenSeq([i \in 1 .. longer |-> At(i)])

\* toggleSegment, for the changed segments the user clicked on.
Toggled(segments, toggles) ==
  [i \in DOMAIN segments |->
     IF i \in toggles /\ segments[i].type # "unchanged"
     THEN [segments[i] EXCEPT !.accepted = ~@] ELSE segments[i]]

AcceptedText(segments) ==
  FlattenSeq([i \in DOMAIN segments |->
                IF segments[i].accepted THEN <<segments[i].text>> ELSE <<>>])

\* What the Accept button sends: handleAcceptAll with the toggles the user made.
ChosenByToggles(p, toggles) ==
  LET initial == ComputeDiffSegments(p.original, p.proposed)
      segments == Toggled(initial, toggles)
  IN [text |-> AcceptedText(segments),
      action |-> IF segments = initial THEN "accept" ELSE "partial"]

\* The same in edit mode: the draft is the proposal or something else.
ChosenByDraft(p, draft) ==
  [text |-> draft, action |-> IF draft = p.proposed THEN "accept" ELSE "partial"]

\* The buttons are disabled while the proposal streams; Accept when it is stale.
CanAccept(p) == p # None /\ ~p.streaming /\ ~p.stale
CanReject(p) == p # None /\ ~p.streaming

-----------------------------------------------------------------------------
(* handleAcceptProposal and handleRejectProposal up to the request.        *)

Send(c, p, choice) ==
  /\ rpc[c] = "idle"
  /\ click' = [click EXCEPT ![c] =
       [run |-> p.run, action |-> choice.action, text |-> choice.text,
        selection |-> SerializeRange(p.from, p.to), state |-> inserts,
        from |-> p.from, to |-> p.to, kind |-> p.kind, replaced |-> None]]
  /\ rpc' = [rpc EXCEPT ![c] = "sent"]
  /\ UNCHANGED <<docVars, source, row, proposal, notice>>

Accept(c) ==
  /\ CanAccept(proposal)
  /\ \/ /\ proposal.kind = "read"
        /\ Send(c, proposal, [text |-> proposal.proposed, action |-> "accept"])
     \/ /\ proposal.kind = "write"
        /\ \/ \E toggles \in SUBSET
                (1 .. Len(ComputeDiffSegments(proposal.original, proposal.proposed))) :
                Send(c, proposal, ChosenByToggles(proposal, toggles))
           \/ \E draft \in {proposal.proposed, <<Typed>>} :
                Send(c, proposal, ChosenByDraft(proposal, draft))

Reject(c) ==
  /\ CanReject(proposal)
  /\ Send(c, proposal, [text |-> <<>>, action |-> "reject"])

\* onDismiss: the panel is closed, the row stays pending.
Dismiss ==
  /\ proposal # None
  /\ proposal' = None
  /\ UNCHANGED <<docVars, source, row, notice, clickVars>>

-----------------------------------------------------------------------------
(* reviewTask.                                                             *)

\* Mutant: staleness is told from the state vector alone.
StaleByVector(c, s) == s.state # None /\ click[c].state # s.state

\* detectProposalStaleness: a selection that could not be serialized is not
\* sent and not compared, nor is the state vector the row of a failed task lacks.
Stale(c, s) ==
  \/ click[c].selection # None /\ click[c].selection # s.text
  \/ s.state # None /\ click[c].state # s.state

\* The SELECT, the role check (which may refuse) and the early returns.
ReviewRead(c) ==
  LET r == click[c].run IN
  /\ rpc[c] = "sent"
  /\ \/ rpc' = [rpc EXCEPT ![c] = "refused"]
     \/ /\ row[r] \notin {"none", "accepted", "rejected", "partial"}
        /\ ~(click[c].action = "partial" /\ click[c].text = <<>>)
        /\ rpc' = [rpc EXCEPT ![c] =
             IF Stale(c, source[r]) /\ click[c].action # "reject" THEN "expire" ELSE "update"]
  /\ UNCHANGED <<docVars, source, row, proposal, notice, click>>

\* Mutant: the action is stored for the status.
NextStatusAction(action) == action

\* resolveProposalReview.
NextStatus(action) ==
  CASE action = "reject" -> "rejected"
    [] action = "partial" -> "partial"
    [] action = "accept" -> "accepted"

\* The UPDATE: its WHERE clause names the id and not the status that was read.
ReviewWrite(c) ==
  /\ rpc[c] \in {"expire", "update"}
  /\ row' = [row EXCEPT ![click[c].run] =
       IF rpc[c] = "expire" THEN "expired" ELSE NextStatus(click[c].action)]
  /\ rpc' = [rpc EXCEPT ![c] = IF rpc[c] = "expire" THEN "stale" ELSE "reviewed"]
  /\ UNCHANGED <<docVars, source, proposal, notice, click>>

-----------------------------------------------------------------------------
(* The page gets the answer.                                               *)

\* Any error but "stale" is ignored; that one marks the proposal on screen.
ReviewFails(c) ==
  /\ rpc[c] \in {"refused", "stale"}
  /\ proposal' = IF rpc[c] = "stale" /\ proposal # None
                 THEN [proposal EXCEPT !.stale = TRUE, !.streaming = FALSE] ELSE proposal
  /\ rpc' = [rpc EXCEPT ![c] = "failed"]
  /\ UNCHANGED <<docVars, source, row, notice, click>>

\* A read task, a rejection and a range that was not there change no text.
Applies(c) ==
  click[c].action # "reject" /\ click[c].kind = "write" /\ click[c].selection # None

\* The text goes where the anchors are now; outside the document it throws,
\* which the page ignores.
ReviewSucceeds(c) ==
  LET k == click[c] IN
  /\ rpc[c] = "reviewed"
  /\ \/ /\ ~Applies(c)
        /\ rpc' = [rpc EXCEPT ![c] = "done"]
        /\ proposal' = None /\ notice' = None
        /\ UNCHANGED <<docVars, click>>
     \/ /\ Applies(c)
        /\ k.to <= Len(doc)
        /\ doc' = Replaced(k.from, k.to, k.text)
        /\ inserts' = inserts + 1
        /\ click' = [click EXCEPT ![c].replaced = SubSeq(doc, k.from, k.to)]
        /\ rpc' = [rpc EXCEPT ![c] = "applied"]
        /\ proposal' = None /\ notice' = None
        /\ UNCHANGED edits
     \/ /\ Applies(c)
        /\ k.to > Len(doc)
        /\ rpc' = [rpc EXCEPT ![c] = "failed"]
        /\ UNCHANGED <<docVars, proposal, notice, click>>
  /\ UNCHANGED <<source, row>>

ServeReview(c) ==
  ReviewRead(c) \/ ReviewWrite(c) \/ ReviewFails(c) \/ ReviewSucceeds(c)

ReviewNext ==
  \/ Edit \/ Restore \/ Dismiss
  \/ \E c \in Click : Accept(c) \/ Reject(c) \/ ServeReview(c)
=============================================================================
