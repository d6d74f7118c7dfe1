# A TLA+ model of lidox

lidox is a collaborative text editor with an AI assistant.  This directory
holds TLA+ specifications of its core protocols, the TLC configurations that
check them on small instances, and proofs of their main properties that TLAPS
checks for every value of the constants.

Contents: [the system](#the-system) (inventory), [the modules](#the-modules)
(how each corresponds to the code), [the runs](#the-runs),
[the proofs](#the-proofs), [what the documents say](#what-the-documents-say) and
the code does not do, [what is not modelled](#what-is-not-modelled).

## The system

Web client (`apps/web`), a backend, a sync server (`apps/sync-server`,
Hocuspocus/Yjs), Postgres and Redis.  There are two backends with the same
routes: FastAPI (`apps/api-fastapi`), which `run.sh` starts by default, and
NestJS (`apps/api`), which adds a BullMQ queue for AI tasks.  Each server is one
process with one event loop.  So nothing inside a process is preempted, but
every `await` lets other handlers run, every SQL statement of a backend is a
transaction of its own (`db.py:65`; drizzle's pool in `apps/api`), and the
servers see each other only through the stores.

| Component | State it keeps | Operations | What is hard | What makes it correct | Module |
|---|---|---|---|---|---|
| AI task runtime (`ai_runtime.py`) | Redis: status, meta, cancel flag, event stream of a task; Postgres: `ai_interactions`; memory: `_LOCAL_TASKS` | `invoke`, `_process_task`, `cancel`, `stream_task` | a background coroutine and any number of handlers interleave at every await; `Task.cancel()` hits any await; commands fail half way; the stream is trimmed; the process dies | one outcome per task, the same for all viewers; nothing generated after it; a true answer to `cancel`; every stream closed | `AiTask` |
| AI queue (`apps/api/src/ai`) | the same keys, the BullMQ job | `invoke`, the worker, `cancelTask`, the event stream | job removed or taken, flag raised or deleted, jobs run again after a crash, a failed row after `complete` | a cancelled task stays so; every task settles; what a connection was told is what is stored | `AiQueue` |
| AI review (`proposal-review.ts`, `ai.service.ts`) | `ai_interactions.status`, `stale_at_review` | `reviewTask` | read, decide, unguarded UPDATE; the client applies what it read before the request | only a proposal whose source was there is applied | `AiReview` |
| AI toolbar, proposal panel (`AiToolbar.tsx`, `AiProposal.tsx`) | `loading`, `activeTaskId`, notice, proposal | run, cancel, retry, accept, reject, dismiss | calls of `runAction` overlap and set the state of each other; the text changes while they wait | the toolbar does not stay busy, a proposal not "streaming"; the panel keeps both texts | `AiEditor`, `AiReview` |
| Documents and permissions (`documents`, `permissions`, dashboard, share dialog, title) | `documents`, `permissions`; lists and the title on pages; the title's timer | create, open, rename, delete, list, share, revoke | checks and writes are separate statements with no unique key; pages send several requests and take answers in any order | one owner, for good; what was typed last is stored; pages show what is stored | `Workspace` |
| Live access (`auth.ts`, `permissions.ts`) | live sessions by socket, their role; channel `permissions:changed` | `onAuthenticate`, `connected`, `onDisconnect`, permission messages | the role is read before the session is registered; Pub/Sub delivers at most once and only to whoever listens | a revoked user does not keep editing | `LiveAccess` |
| Storage (`database.ts`, `restore.ts`) | the live Yjs document, `lastStored` times; `document_versions` | `onLoadDocument`, `onStoreDocument`, restore | a store within five seconds of the last is dropped; restart; restore runs in the server and in the client | what was typed is stored in the end; a restore replaces the text | `VersionStore` |
| Presence (`redis.ts`, `PresenceCursors.tsx`, `websocket.ts`) | awareness, Redis hash of users in a document, providers | join, leave, heartbeats, retries | two Redis clients with one `ready`; entries outlive their pages; timers of providers | no ghost users, in the end | `Presence` |
| Authentication (`AuthService` in both backends, `api.ts`) | `refresh_tokens`, cookies; Redis: denied access tokens | `register`, `login`, `refresh`, `logout`, password, Google | refresh is four transactions, and every call of `api()` that meets a 401 refreshes on its own | a token is used once; a replay ends the session; a closed session stays closed | `RefreshTokens` |
| Pure algorithms (`aiSelection.ts`, `buildVersionPreview`) | none | sentences, HTML slices, replacement, preview | borders of sentences and nodes | nothing lost, repeated or reordered | `PlainText`, `TextAlgorithms` |

How they interact: `invoke` starts a coroutine (or adds a job) and returns;
`cancel` reaches it through Redis (the flag) and memory (`Task.cancel`) or the
queue; viewers read the Redis stream.  `share` and `revoke` write Postgres, then
publish on Redis; the sync server subscribes.  The sync server checks access
tokens with the secret it shares with the backend, reads roles from Postgres,
stores documents there, and is told of restores by the backend on the Redis
channel `doc:restore`.  The client that asked for a restore also rewinds its own
replica when the answer comes.  An accepted proposal is reviewed by the backend
first and then replaces the selection in the page's replica, which the sync
server merges.

## The modules

All of them follow the same rule of time: a step is what runs between two
awaits.  A statement of a backend is one step (its transaction commits before
the next await returns), a Redis command is one step, and so is a callback of
the sync server or of a page.

### AiTask and AiOutcome

`AiTask` is `ai_runtime.py`: `invoke`, `_process_task` with its two `except`
blocks, `cancel` and `stream_task`, on the state they share.  `status`, `log`,
`cancelFlag`, `known` (the meta key) are the Redis keys of a task, `row` its line of `ai_interactions`,
`ppc` the await at which the coroutine stands, `cpc` and `vpc` those of the
cancel requests and viewers.  `After` and `Handler` give the control flow of the
coroutine: the statement after each one, and where an exception or a
`Task.cancel()` leads from it.

- `invoke`'s writes and `create_task` are one action: nobody knows the task's
  id before it returns, and the coroutine reaches its first await before anyone
  can name it.
- A command that raises, or whose coroutine is cancelled while it waits, may have
  been executed or not: both are steps.  An INSERT that `local_task.cancel()`
  interrupts goes on in Postgres, and psycopg waits for its end before it raises
  (`settleInsert`): it may still commit after the cancel was answered
  (`db.py:69`), be given up (`InsertGivenUp`), raise, or be interrupted again.  A Redis
  command in flight is executed at the interruption or never: nothing answers for it
  later, and the order of what it wrote against the handler's next command is the
  connection's.
- `XADD` and its `EXPIRE` are one command.  Trimming (`MAXLEN ~`) may happen or
  not, since it is approximate.  It matters: a proposal may have 2048 tokens and
  a stream keeps 512 entries.
- The stream from the provider is opened within the step of `started`'s publication.
- The meta key expires a fixed time after `invoke` and gates every later request
  (`ExpireMeta`).
- A viewer starts at `0-0`, as the browser's request does.

`AiOutcome` is the promise of a stream to who reads it: an accepted task yields
pieces of text until it is settled, it is settled once, and then neither its text
nor its outcome changes.  `Promise` in `AiTask` maps the stream to it: a task is
accepted when its stream has an entry, its pieces are the positions of the `chunk`
events, its outcome is the first terminal event.

### AiQueue

The NestJS side of the same routes.  `Processing` and `Cancelling` are tables: the
command each place of the worker and of `cancelTask` waits for, and the place
after it.  `job` is the BullMQ job; a job whose worker died is put back once
(`maxStalledCount`) and runs from the start, with its old events still in the
stream.  Any await may raise (`AwaitRaises`, and `CancelRaises` and `JobCallRaises` in
`cancelTask`), with or without its effect; the
catch block runs only for what the `try` block throws.  Unlike in `AiTask`, the
stream does not promise one outcome: `complete` may be followed by `failed` when
the row cannot be inserted, and a connection ends at the first.  What is promised is
that the end it saw agrees with the status and the row (`OutcomeKept`), in the
first run of the job.

### AiReview and AiEditor

`AiEditor` extends `AiReview` and is the page: calls of `runAction` (`Run`) with
their stream, `handleCancel` (Cancel stays enabled while one is unanswered, so they
overlap) and its answer, the notice and its retry.  The `complete` event is
published before the row exists (`LogInteraction`), so a review may find none.  `AiReview` is
what happens to a proposal that is on screen: the panel's segments and choices,
`handleAcceptProposal`, the review's SELECT and UPDATE, and the replacement.  A
document is a sequence of letters; a selection is a range of it, and anchors are
positions, as in the code, which nothing moves when the text changes.

Facts the model has because the code has them: a deletion can leave the anchors
past the end, then no selection is sent and the review accepts what is never
applied; the stream of a cancelled task may put its proposal back; the `finally`
of an old call clears `loading` and `activeTaskId` of the new one; a second click
on Accept before the first is answered applies twice; the UPDATE of a review has
no guard on the status; a failed task's row keeps no state vector.

### Workspace

One document (`doc`, `owner`, `title`), its `permissions` rows with their ids, the
requests under way (`req`, one per `Slot`, at the statement `pc` that is next),
and the pages of each person: the dashboard's list, the share dialog, the editor
page and the timer of its title.

- A request's statements are those of the services, in order: find the document,
  read the caller's role (LIMIT 1 of duplicate rows: any of them), look the row up,
  write by its id.  Looking users up by address is merged with the read that
  follows.
- `saveTitle` trims (`Trim`, a constant: titles are plain, padded or blank), sends
  nothing for a blank title, and leaves the field as it was typed.
- Leaving the editor page clears no timer: what it will save goes to `late`, and is
  sent later (`LateTimerFires`), also while the page is open again.
- A document is opened when its creation is answered.
- `raced` is history: what two requests that overlapped, one that was refused, or
  a timer of a page left and open again were about.  Nothing orders such requests, in
  the pages or in the services.

### LiveAccess

The table of permissions (`holder`, `role` by row), the share and revoke requests
of `services.py`, the Redis channel, and the sync server's sessions: `loading`
between `onAuthenticate`, which reads the role, and `connected`, which enters the
session where the permission messages look for it; then `live`, then closed.

- The checks at the head of a request are in its SELECT step.  `LIMIT 1` picks
  any of duplicate rows, as Postgres may.
- Pub/Sub delivers to whoever is subscribed.  `MaxLosses` bounds losses; a
  server that starts unsubscribed counts as one.  No fairness is assumed of
  `Subscribe`: `retryStrategy` gives up after five attempts.
- `excused` is history: sessions overtaken by a message while they loaded, and
  sessions whose message was lost.  The properties say what holds of all others.
- Soft delete publishes nothing: sessions of a deleted document stay.

### VersionStore

`replica`, `doc` and `rows` are the three places a text lives in.  A Yjs document
is two sets, of items inserted and deleted; merging is union; a restore deletes
all items and inserts clones (`Rewind`), and clones know the restores they were
made for, so that clones of the two places that carry out a restore differ.  The
store hook is its three statements with `lastStored` set before them; the
backend's INSERT and COMMIT are separate, since `created_at` is the start of the
transaction.

- Hocuspocus and Yjs are external: a change makes Hocuspocus owe a call of
  `onStoreDocument` (the restore transaction's origin is truthy, so it counts),
  `saveMutex` serialises the calls, and a document is unloaded after the last.
- A load is two steps: the SELECT (`LoadSelect`) and, when its answer is applied,
  the registration of the document (`LoadApply`).  A restore that is handled in
  between finds no document (`restore.ts:143`, whose log says that the snapshot will
  be loaded on the next connect): the older snapshot is served under a newer row.
- Position of text, formatting and read-only clients are left out.
- Two snapshots are duplicates when they are the same two sets, as the code
  compares encoded states.
- `gap` is history: the newest row may be behind because a call was dropped (the
  pool is not ready, or five seconds are not over), a statement failed, a load
  failed, or a restore message was lost or found an older snapshot being loaded.

### Presence

`ws` is the provider of a page, `aware` the server's awareness, `hash` and `ttl`
the Redis hash and whether it has an expiry, `ready` with its two clients `pub`
and `sub`, and each `onAwarenessUpdate` a handler that writes HSET and EXPIRE for
one state after another.  As in the code, an error of `sub` clears `ready` for
ever; the cursor extension replaces the page's user by one without id; the field
that `onDisconnect` deletes is never the one that was written; EXPIRE covers the
whole hash.  The retry timer that `onAuthenticationFailed` sets is cleared by nobody
(`timer`): when it runs out after `destroyProvider` (`websocket.ts:56`) the destroyed
provider's socket opens again (`stray`), sends no authentication, and is closed by the
server (`StrayCloses`).

### RefreshTokens

The rows of `refresh_tokens` of one user, the cookies of browsers, and calls
that meet a 401 and refresh: SELECT, UPDATE, INSERT, or SELECT and DELETE of the
family, each a step.  Calls, not tabs: several calls of one page refresh at once.
The two backends run the same statements (`map` names the NestJS ones); only
FastAPI's sign-out also denies the access token, which is left out.

- The access token is left out: a 401 may come at any time.
- A failed refresh leaves the cookies.
- `Mishaps` bounds lost answers, failed statements and expired tokens.
- `replayed` (families one of whose tokens was sent when it was used, or by two calls
  at once), `cut` (families of which a call failed between marking its token and
  bringing the next), `revoked` and `overlapped` are history.  The code ends the
  session of a family of either of the first two at its next refresh.

### PlainText and TextAlgorithms

Functions, and actions that enumerate inputs: a text that arrives character by
character, as the pieces of a stream do, and an answer in HTML.  `PlainText` has what
is about sequences: a text, the text nodes of a fragment one after another, the lines
of a preview.  `TextAlgorithms` extends it by the trees of HTML they are collected
from, with recursive operators.  A character is a letter, "." (for `.`, `!`, `?`) or
" "; a node is a text or an element with a block tag, `br` or another tag.  The
regular expressions are positions (`First`, `Match`); a loop is a recursive function
of its rounds (`Scan` of `NextMatch`, `TakeLines` of `TakeLine`); a cloned range is
the text it holds.

A plain answer takes its sentences from `getSentenceSlices` (matches, `trim`,
`filter`), an HTML answer from `splitTextIntoSentenceRanges` and `normalizeText`: they
differ in inner white space, and in a text of nothing but blank matches.
`node.toString()` of a Yjs text puts the tags of a mark around a formatted run
(`XmlTextString`, `Marked`), and a preview shows and counts these tags: its letters are
those of the document, its text is not.

What the properties leave out, because the code does it: text beside a lone block
is dropped when the block is unwrapped; in a plain answer "3.5" is two sentences and is
put back as "3. 5", "..." alone is kept, and the second dot of "a.." is lost; TipTap's `paragraph` and `listItem` are not in
`BLOCK_TAGS`, so that the preview of a real document has no line breaks.

## The runs

Deadlock is not checked: each of these systems may come to rest, when the
requests of the instance are used up.

| Run | Instance | States | Shows |
|---|---|---|---|
| `AiTaskSafety` | one task, two cancel requests, one viewer, one piece, a stream of four entries, one crash, failing commands, an INSERT interrupted in flight | 1.5 M | `GenerationStopsAtTerminal`, `CancelledAnswerHolds`, `ViewersAgree`, `StatusNeverResurrected`, `NoProposalAfterCancelled`, `ProposalNeverLost`; the stream implements `AiOutcome` (`ImplementsPromise`) |
| `AiTaskLiveness` | the same without crash and Redis fault | 0.62 M | `ViewerReleased`, `CancellingAnswered` |
| `AiQueue` | one task, two cancel requests, one viewer, one piece, one crash, one await that raises | 1.2 M | `CancelledHolds`, `OutcomeKept`, `EveryTaskSettles` |
| `AiToolbar` | two calls of `runAction` of one kind, one piece each, two cancels, no edit | 0.62 M | `ToolbarSettles` |
| `AiReview` | two calls over two ranges, one edit or restore, one click on Accept or Reject | 9.9 M | `FreshWhenAccepted`, `PanelKeepsBoth` |
| `Workspace` | two people, two requests at once, six user actions, titles plain, padded and blank, one failure; people and slots interchangeable | 4.9 M | `OwnerKept`, `TitleSaved`, `PanelsShowRows` |
| `LiveAccess` | two users, one of them an editor by an earlier request, two more requests, two sessions, one loss, failures | 1.2 M | `CutOff`, `StaleSessionEnds` |
| `VersionStore` | one piece, one client, one restore, nine rows, slow pool, two failures | 0.4 M | `NewestIsLive`, `ChangeStored` |
| `VersionStoreTwice` | one client, two pieces, one restore, no failure | | *Violated*: `ShownOnce` |
| `Presence` | two pages of two users, one handler, one error or crash, one dropped or refused connection | 53 k | `AvatarsSettle`, `HashFollowsPages` |
| `RefreshTokensSafety` | two calls in one browser, one in another, four tokens, one mishap | 7.6 M | `OneLiveToken`, `SessionKept`, `RevokedStaysClosed`, and `NoFalseReplay` of the browser with one call |
| `TextAlgorithms` | texts of up to six characters; fragments of two nodes two deep and of one node three deep; previews of two lines and four characters | 0.13 M | `AcceptKeepsPlainText`, `SentencesKeepHtml`, `ReplacementKeepsText`, `PreviewBegins` |

Each passing run of safety also checks its module's `TypeOK`.

Why the bounds are enough.  One task: tasks share no key and no row.  Two cancel
requests: each races the worker and the other; a third adds no command that
the two do not interleave already.  One piece and four entries make a stream
(`started`, the piece, `complete`, two late `cancelled`) outgrow its limit.  Two
calls of `runAction` are one that is old and one that is new; two ranges overlap
or not; an edit before, in or after a range inserts or deletes.  Six user actions
create, open, list, share, and either rename twice or share and revoke, with two
requests in flight.  Messages name a user, and two sessions of one user
are what a message must tell apart; two requests give a duplicate row, a change
and its revocation, or (from a row that is there already, `MCInit`) an update that
finds its row revoked, and the proof covers any number, from an empty table.  One restore against
one store and two replicas is what the restore has to be ordered with; nine rows
never run out.  Four tokens are two rotations of a family while another family
exists.  Two pages of two users show each other's avatars.  Sentences and nodes
meet at every border (at the end of a node, in it, at its start) with three texts;
nothing in the preview depends on the size of its limits.  Every bound is a
constant in the guards (`MaxChunks`, `MaxCrashes`, `MaxFaults`, `MaxEdits`,
`Cancel`, `MaxSends`, `MaxLosses`, `MaxRows`, `Faults`, `MaxErrors`,
`MaxRetries`, `MaxTokens`, `Mishaps`, `MaxText`), and the theorems hold for all of
them.

### Fairness

`AiTask`: weak fairness of the coroutine, of cancel requests and of viewers: an
event loop runs what is ready.  It includes the assumption that the provider
answers: the code reads it with `timeout=None`.  Nothing is assumed of new requests,
crashes or expiry; `AiTaskLiveness` has no crash, after which the code leaves the
status "processing" and a reopened stream waiting.  `AiQueue`: the worker, BullMQ's
check for stalled jobs (so also a restart of the process), a request that was
begun, a stream that is read.  `AiEditor`: the network answers or fails; nothing of
clicks and edits.  `LiveAccess`: each request that was begun and the
delivery of messages to a subscriber; nothing is assumed of `Subscribe`, of hooks
or of new requests.  `VersionStore`: `Store` alone,
that Hocuspocus makes the call it owes and the queries return.  `Presence`:
providers reconnect and their retry timers run out, awareness is renewed and
broadcast (strong fairness of `SetLocalState`: a bounded number of handlers may
all be busy, which real ones are not), `pub` comes back within `retryStrategy`'s
attempts, and Redis keeps its clock.

## The proofs

TLAPS checks the following for every value of the constants (any number of tasks,
users, requests, sessions, clients, restores and failures), from the assumptions
named in the modules, which only say that bounds are natural numbers
(the stream's limit is not 0), flags are Booleans, the ranges, kinds and users a page
is given are ranges (counted from 1), kinds and users, the first text and the proposal
are sequences of sentences and not empty, the pieces that are sent are pieces of the
proposal, letters are neither "." nor " ",
the values that stand for
nothing are not among those they stand beside, and (tokens) that each call has a
browser.  One theorem has a hypothesis of its own (`ViewersAgreeOnOutcome`).

**`WorkspaceProofs`** — `WorkspaceTypeCorrect`, `WorkspaceOwnerKept`
(`OwnerKept`).  That rows of the owner, and no others, say "owner" (`OneOwner`) is
not inductive: `share` and `revoke` write unguarded by the id they found.
`Checked` carries what was checked to the write: a request past the check of the
role is the owner's, and the row it is about to write is somebody else's, or is
gone, because ids are never used again.  `TablesKept` names what a step may do to
the tables and is enough for the requests that do not move (`StaysChecked`).
`HasOwner` adds that a create between its two statements will insert the owner's
row, and `DialogOK` that who removes a row has a list, without which the filter of
the list has no type.  `WorkspaceTitleSaved` and `WorkspacePanelsShowRows`
(`TitleSaved`, `PanelsShowRows`) follow from `ShownInvariance`: for each of the
three subjects (title, people, list), as long as no two requests about it
overlapped and none was refused, at most one is under way and the page either
shows what is stored (a title: without the blanks around it) or that request, or a
timer, will bring it (`SavedOK`, `ChangesOK`,
`ListsOK`).  A timer saves what is on its page (`TimersOK`), and what is
stored is trimmed (`TrimmedInv`).  It needs that a document being created cannot be seen by another
request (`CreationInv`) and that the dialog and the delete button are the owner's
alone (`OwnerPagesInv`).  Each step is first reduced to one of five effects on the
requests (`StepEffect`), so that each invariant is proved about those and not about
every statement.

**`AiTaskProofs`** — `TypeCorrect`, `StreamStops` (`GenerationStopsAtTerminal`),
`CancelHolds`, `StatusStays`, `NoLateProposal` (`NoProposalAfterCancelled`, but for the named late commit), `ProposalStays`
(`ProposalNeverLost`), `StreamKeepsPromise` (`ImplementsPromise`) and
`ViewersAgreeOnOutcome` (`ViewersAgree`).  That nothing is generated after a
terminal event is not inductive: a terminal event must also find the coroutine
where it generates nothing more, or about to be stopped.  `IInv` ties each
statement of the coroutine to the statuses, events and answers that are possible
there (`StatusInv`, the settled tasks), and each of the statements of the cancel
route to what it has already written.  The proof goes statement by statement, with
`LegalMove` naming what a move of the coroutine may do.  That the stream implements
`AiOutcome` rests on `StreamStops` and on `StreamInv`: an accepted task has a stream,
and the ends in a stream have a first one, which events appended after it do not
change.  That viewers agree has a hypothesis, that the stream
keeps at least five events (`EVENT_BUFFER_LIMIT` is 512), because a viewer that
comes late must still find the first end: `BudgetInv` counts the ends that may still be
published (two by the coroutine, one by each of at most three requests that can
interrupt it, one more than without the INSERT that is interrupted in flight), after the first of which nothing else is, `KeptInv` concludes that
it is never trimmed, and `ReadingInv` that no viewer has read past it.

**`AiQueueProofs`** — `TypeCorrect`, `CancelledIsKept` (`CancelledHolds`),
`OutcomeIsKept` (`OutcomeKept`).  An answer "cancelled" says
nothing by itself of a worker that holds the job.  A task is `Closed` when it has no
result and no worker can produce one, and `Doomed` when the flag is raised before
the worker last polls it.  A cancel request raises the flag before it looks the job
up, so a job it finds waiting is doomed, and closed once the request has removed it
(`CancelInv`); `TaskInv` says the same of the worker's side, of the
first run only, because a job that BullMQ runs again may find the flag deleted.  `Tells`
ties the stream of a first run to its status and row: a proposal is stored after
the status and the event that announce it, `failed` comes late (only a catch block
that ran because an await behind `complete` raised publishes it to a task that is not
closed), and `cancelled` is published by who has closed the task.  A
stream has delivered a prefix of what was published (`ViewInv`), so the first end a
viewer reads is the first end of the task.

**`AiEditorProofs`** — `AppliedWasFresh` (`FreshWhenAccepted`), `TypeCorrect`
(`TypeOK`), `PanelKeepsBothTexts` (`PanelKeepsBoth`), and what is about texts (below).
The server compares
the text of the click with the source of the task, and the answer is applied later:
`ClickInv` says that a click the server let pass is fresh and stays so.  It holds
because every click is about a task that was invoked, which is given its source once,
before a proposal of it can be on screen (`SourceInv`, `ProposalInv`); a task that
fails afterwards only loses its state vector, and is then compared less strictly.

The type is not inductive as it stands.  `TypeInv` adds what keeps every text a
sequence of sentences of whatever length: what is kept for later is as well typed as
what is on screen, the selection of the toolbar, the actions a retry may repeat and
those of the calls (`ToolTyped`, `CallTyped`); what a call has of the answer is not more
than the server sent, which is a beginning of it (`StreamTyped`); and what a click
sends is a text put together by the panel, with a range that counts from 1
(`ClickTyped`).  That the panel
keeps both texts holds for texts of every length because its diff goes index by index:
what is kept of a list of segments is what is kept of each, joined (`MappedConcat`),
and what is kept at an index is the sentence of the one text there, or, with every
changed segment toggled, of the other (`MappedParts`).

Such facts about all sequences need induction.  The library's theorem of induction
takes a predicate, which the provers cannot instantiate; `SetInduction` takes a set of
numbers instead and follows from the well-foundedness of `<`.  `FlattenSeq` is a fold
over a recursive function: that the function exists is one induction
(`PrefixesExist`), what it joins are others (`FlattenIsPrefix`, `FlattenConcat`).

**The texts (in `AiEditorProofs`, which has those lemmas)** — `AcceptKeeps`
(`AcceptKeepsPlainText`), `HtmlSentencesKeep` (`SentencesKeep`, which the run states of
the text nodes of a tree), `PreviewOfLines` (`PreviewKeeps`, which the run states of
the lines of a tree): for texts, nodes and lines of any number and length.

- A loop is shown to be its rounds (`RoundsExist`, `ScanIsRounds`,
  `TakeLinesIsRounds`) and an invariant of its rounds is proved by induction.
- The invariant of the matches is that the sentences found so far have the letters of
  the text read so far (`KeepsLetters`); on a well punctuated text also that they make
  that text, which ends at white space or at the end (`KeepsText`).  The second part
  needs to know when `normalizeText` of two texts is that of each with a space between
  (`NormalizeJoin`), for which it is described one character at a time
  (`NormalizeStep`).
- That a clone of the text nodes is the stretch of the text between its ends
  (`CloneIsStretch`) is what both parts of `SentencesKeep` rest on, with the place of
  every character of a node in the text of all (`NodePlace`).
- The invariant of the preview is that what is taken and what remains make the limit,
  and that a round that takes nothing has met a limit (`Taken`).  The theorem assumes
  that no line is empty, which the code makes sure of by `.filter(Boolean)`
  (`database.ts:94`).

**`PresenceProofs`** — `PresenceTypeCorrect` (`TypeOK`).  The hash has fields of
pages and never of users, because no state with a `userId` is ever set, sent or
queued for writing; the deletion by the user's id in `onDisconnect` therefore meets
no field (`EntryRemoved` below).

**`LiveAccessProofs`** — `AccessTypeCorrect`, `AccessCutOff` (`CutOff`).  A live
session without backing has a message on its way only if it had backing when it
was read, so `LoadingBacked` says of a session that loads: backed, unless
overtaken; and `RowInv` says which rows a request that is about to write holds.

**`VersionStoreProofs`** — `VersionsTypeCorrect`, `VersionsNewestIsLive`
(`NewestIsLive`).  At rest is only the end of a store or a restore: `Accounted`
says where the live text, and the one being loaded, is at every step (in the newest
row, in the state encoded, or about to be replaced).  It needs that the newest row exists and which
restore it is of (`HasNewest`, `RowOfRestore`), and one fact about Yjs that is
easily overlooked: handling a restore message that changes nothing owes no store,
so the text must have been empty, because the clones it would make cannot exist
before (`ClonesMade`).

**`RefreshTokensProofs`** — `TokenTypeCorrect`, `TokensRotate` (`OneLiveToken`),
`TokensKeptSession`, `TokensStayRevoked`, `TokensNoFalseReplay`.  One usable token
in a family is not inductive, since the old one is marked before the new one is
inserted: `NoneWhileIssuing` says that a call between the two is alone in a
family without usable token, `OneCarrier` that a token not replayed is with one
call.  A session is kept because a marked token in a browser is being replaced
(`Replaced`) by one that nobody has sent (`FreshUnsent`), until a call fails in between.
`OneBrowser` says that the tokens of a family are in one browser, so that
another browser cannot replay them, and `LoneFresh` what that leaves of a browser
whose calls come one at a time: the token it holds was not sent before.

Only model-checked: `ReplacementKeepsText`, and of `SentencesKeepHtml` and
`PreviewBegins` what collects text nodes and lines from a tree, because operators on
trees of any depth are `RECURSIVE`, which the prover cannot take; and everything that needs fairness (`ViewerReleased`, `CancellingAnswered`,
`StaleSessionEnds`, `ChangeStored`, `EveryTaskSettles`, `ToolbarSettles`,
`AvatarsSettle`, `HashFollowsPages`), which is out of reach of the prover.

## What the documents say

Statements of the documentation that the code does not meet, each a definition
that TLC refutes when it is put into the configuration of the run of its module
(one session, client or call and no failure are enough).  `ShownOnce` has a run of
its own (`VersionStoreTwice`) and is listed under `findings` in `PROJECT.json`.

| Definition | The document | The code |
|---|---|---|
| `VersionStore!ShownOnce` | `README.md:155`: restoring a snapshot "replaces the live editor state" | server and client both insert clones: the text is there twice |
| `VersionStore!SavedAtRest` | `README.md:153`: snapshots are "stored on each meaningful save" | the last edits within five seconds of a store are in no version (`database.ts:267`) |
| `VersionStore!RestoredIsNewest` | `README.md:155`: a restored snapshot "becomes the newest stored version" | a store in flight inserts its row after it (`database.ts:321`) |
| `LiveAccess!StaleSessionsClosed` | `DEVIATIONS.md:20`: the sync server "forcibly closes stale downgraded/revoked sessions" | a role lowered while a session loads is not noticed (`permissions.ts:69`) |
| `RefreshTokens!FamilyRevoked` | `README.md:128`: replaying a used token "revokes the entire token family" | a refresh under way inserts into it afterwards (`services.py:276`) |
| `AiEditor!AppliedToItsSource` | `AiProposal.tsx:250`: "Regenerate it instead of applying it." | an edit between the click and the answer is overwritten (`Editor.tsx:380`) |
| `Presence!EntryRemoved` | `redis.ts:109`: remove the entry "when a client disconnects" | the field deleted is not the one written (`redis.ts:120`) |

## What is not modelled

- The deny list of access tokens: `deny_jti` adds a member to a Redis set and
  then sets the expiry of the whole set, in two awaits; it matters only against
  the clock of the tokens' own expiry.  Registration (two of one address: the
  second organisation is committed and the user's INSERT fails), profile,
  password, Google's HTTP calls, hashing.
- The list of AI interactions, `get_status`, user search: single reads.
- The numbers of the version list (by `created_at`, which is not the order of
  commits), read-only clients of a document.
- Soft delete of documents against live sessions is in `LiveAccess`, against
  requests in `Workspace`; no module has both.
- PDF export, routes, configuration, logging, forms and rendering: I/O and layout.
- The contents of prompts and proposals, hashes, the encoding of Yjs updates, the
  verification of JWTs, code fences and entities in an answer.

To check a module: `tlc -config AiTaskSafety.cfg MCAiTask`, and
`tlapm AiTaskProofs.tla`; the other runs and proofs are called alike
(`PROJECT.json` names the module of each run).
