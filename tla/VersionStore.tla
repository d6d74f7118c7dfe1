---------------------------- MODULE VersionStore ----------------------------
(***************************************************************************)
(* How the text of one document is kept: replicas of the clients, the live *)
(* document of the sync server with its load and store hooks               *)
(* (src/apps/sync-server/src/extensions/database.ts), the rows of          *)
(* document_versions, and restoring a version, which the backend           *)
(* (services.py), the sync server (restore.ts) and the client that asked   *)
(* for it (web/src/lib/restore.ts) carry out together.                     *)
(*                                                                         *)
(* A Yjs document is the set of items inserted and the set of items        *)
(* deleted, and merging is union.  An item is a piece of text and the      *)
(* restores it was cloned in, one after the other: none when it was typed. *)
(* Where the text stands in the document is left out.                      *)
(*                                                                         *)
(* Yjs and Hocuspocus are external: for its first connection a document is *)
(* loaded, and only then registered and served, a change of it (of a       *)
(* connection or of the restore transaction) makes Hocuspocus owe one call *)
(* of onStoreDocument, calls for a document do not overlap, and it is      *)
(* unloaded when no connection and no call is left.                        *)
(***************************************************************************)
EXTENDS Naturals, Sequences

CONSTANTS
  Piece,     \* pieces of text to type, each once
  Client,    \* browsers with the document open
  Restore,   \* requests to restore a version
  NoTarget,  \* no restore to compare with (see target)
  MaxRows,   \* bound: rows ever inserted
  SlowPool,  \* whether the sync server starts before its pool is ready
  Faults     \* bound: how many failures

ASSUME VersionStoreAssumption ==
  MaxRows \in Nat /\ SlowPool \in BOOLEAN /\ Faults \in Nat

VARIABLES
  typed,    \* pieces that were typed
  replica,  \* the document of a client, kept in IndexedDB
  online,   \* clients whose provider is connected
  live,     \* the sync server has the document registered in memory
  loading,  \* onLoadDocument has the newest snapshot, and has not returned
  doc,      \* the document there, or being loaded
  pending,  \* Hocuspocus owes it a call of onStoreDocument
  pool,     \* "starting", "ready" (poolReady), or "broken" for ever
  recent,   \* lastStored is less than five seconds ago
  spc,      \* the next statement of the onStoreDocument that runs
  snap,     \* the state it has encoded
  rows,     \* document_versions in the order of created_at
  rpc,      \* the next statement of a restore request
  rby,      \* the client that made it
  rsnap,    \* the snapshot it restores
  rrow,     \* the row it inserted
  channel,  \* published restore messages not handled, by request
  faults,   \* failures so far
  gap,      \* history: the newest row may be behind for a reason in the code
  target    \* history: the text a restore asked for that nobody edited since

clientVars == <<replica, online>>
serverVars == <<live, loading, doc, pending>>
storeVars == <<pool, recent, spc, snap>>
restoreVars == <<rpc, rby, rsnap, rrow>>
vars == <<typed, clientVars, serverVars, storeVars, rows, restoreVars, channel, faults, gap, target>>

-----------------------------------------------------------------------------
(* Yjs documents.                                                          *)

Empty == [ins |-> {}, del |-> {}]
Visible(d) == d.ins \ d.del
Text(d) == {i.text : i \in Visible(d)}
Merge(d, e) == [ins |-> d.ins \union e.ins, del |-> d.del \union e.del]

Clones(s, by) == {[text |-> i.text, by |-> Append(i.by, by)] : i \in Visible(s)}

\* Mutant: the snapshot's own items are deleted.
RewindDeleting(d, s, by) ==
  [ins |-> d.ins \union Clones(s, by), del |-> d.del \union s.ins]

\* restoreDocumentFromSnapshot: everything is deleted, then clones of what the
\* snapshot shows are inserted.
Rewind(d, s, by) == [ins |-> d.ins \union Clones(s, by), del |-> d.ins]

-----------------------------------------------------------------------------
(* document_versions.                                                      *)

Committed == {k \in 1 .. Len(rows) : rows[k].committed}

\* ORDER BY created_at DESC LIMIT 1
Newest ==
  IF Committed = {} THEN Empty
  ELSE rows[CHOOSE k \in Committed : \A j \in Committed : j <= k].snapshot

Init ==
  /\ typed = {}
  /\ replica = [c \in Client |-> Empty]
  /\ online = {}
  /\ live = FALSE
  /\ loading = FALSE
  /\ doc = Empty
  /\ pending = FALSE
  /\ pool = IF SlowPool THEN "starting" ELSE "ready"
  /\ recent = FALSE
  /\ spc = "idle"
  /\ snap = Empty
  /\ rows = <<>>
  /\ rpc = [r \in Restore |-> "idle"]
  /\ rby \in [Restore -> Client]
  /\ rsnap = [r \in Restore |-> Empty]
  /\ rrow = [r \in Restore |-> 0]
  /\ channel = <<>>
  /\ faults = 0
  /\ gap = FALSE
  /\ target = NoTarget

-----------------------------------------------------------------------------
(* Clients and synchronisation.                                            *)

Type(c, t) ==
  /\ t \notin typed
  /\ typed' = typed \union {t}
  /\ replica' = [replica EXCEPT ![c].ins = @ \union {[text |-> t, by |-> <<>>]}]
  /\ target' = NoTarget
  /\ UNCHANGED <<online, serverVars, storeVars, rows, restoreVars, channel, faults, gap>>

Erase(c, i) ==
  /\ replica' = [replica EXCEPT ![c].del = @ \union {i}]
  /\ target' = NoTarget
  /\ UNCHANGED <<typed, online, serverVars, storeVars, rows, restoreVars, channel, faults, gap>>

\* Changes of a client reach the server, which will call onStoreDocument.
Push(c) ==
  /\ c \in online
  /\ Merge(doc, replica[c]) # doc
  /\ doc' = Merge(doc, replica[c])
  /\ pending' = TRUE
  /\ UNCHANGED <<typed, clientVars, live, loading, storeVars, rows, restoreVars, channel, faults, gap,
                 target>>

\* Changes of the server reach a client.
Pull(c) ==
  /\ c \in online
  /\ Merge(doc, replica[c]) # replica[c]
  /\ replica' = [replica EXCEPT ![c] = Merge(doc, @)]
  /\ UNCHANGED <<typed, online, serverVars, storeVars, rows, restoreVars, channel, faults, gap, target>>

Disconnect(c) ==
  /\ c \in online
  /\ online' = online \ {c}
  /\ UNCHANGED <<typed, replica, serverVars, storeVars, rows, restoreVars, channel, faults, gap, target>>

-----------------------------------------------------------------------------
(* Loading and storing.                                                    *)

\* A client connects for which the document has to be loaded: the SELECT of
\* onLoadDocument returns the newest snapshot.
LoadSelect ==
  /\ ~live /\ ~loading
  /\ pool = "ready"
  /\ loading' = TRUE
  /\ doc' = Newest
  /\ gap' = FALSE
  /\ UNCHANGED <<typed, clientVars, live, pending, storeVars, rows, restoreVars, channel, faults,
                 target>>

\* The snapshot is applied and Hocuspocus registers the document.
LoadApply ==
  /\ loading
  /\ loading' = FALSE
  /\ live' = TRUE
  /\ UNCHANGED <<typed, clientVars, doc, pending, storeVars, rows, restoreVars, channel, faults, gap,
                 target>>

\* While the pool is not ready nothing is loaded: the document is empty.
LoadNothing ==
  /\ ~live /\ ~loading
  /\ pool # "ready"
  /\ live' = TRUE
  /\ gap' = TRUE
  /\ UNCHANGED <<typed, clientVars, loading, doc, pending, storeVars, rows, restoreVars, channel,
                 faults, target>>

\* The SELECT raises, or what it returns cannot be applied, which is logged: the
\* document is empty.
LoadFails ==
  /\ faults < Faults
  /\ faults' = faults + 1
  /\ ~live
  /\ loading \/ pool = "ready"
  /\ loading' = FALSE
  /\ live' = TRUE
  /\ doc' = Empty
  /\ gap' = TRUE
  /\ UNCHANGED <<typed, clientVars, pending, storeVars, rows, restoreVars, channel, target>>

\* A client is connected to the registered document.
Connect(c) ==
  /\ live
  /\ c \notin online
  /\ online' = online \union {c}
  /\ UNCHANGED <<typed, replica, serverVars, storeVars, rows, restoreVars, channel, faults, gap, target>>

\* Hocuspocus unloads a document that has no connection once it is stored.
Unload ==
  /\ live
  /\ online = {}
  /\ ~pending
  /\ spc = "idle"
  /\ live' = FALSE
  /\ doc' = Empty
  /\ gap' = FALSE
  /\ UNCHANGED <<typed, clientVars, loading, pending, storeVars, rows, restoreVars, channel, faults, target>>

\* The head of onStoreDocument: a call while the pool is not pool, or within
\* five seconds of the last, is dropped; otherwise the state is encoded.
StoreBegin ==
  /\ pending
  /\ spc = "idle"
  /\ pending' = FALSE
  /\ IF pool = "ready" /\ ~recent
     THEN /\ recent' = TRUE
          /\ spc' = "select"
          /\ snap' = doc
          /\ gap' = FALSE
     ELSE /\ gap' = TRUE
          /\ UNCHANGED <<recent, spc, snap>>
  /\ UNCHANGED <<typed, clientVars, live, loading, doc, pool, rows, restoreVars, channel, faults, target>>

\* Mutant: no version yet counts as a duplicate.
StoreSelectNoFirst ==
  /\ spc = "select"
  /\ spc' = IF Committed = {} \/ Newest = snap THEN "idle" ELSE "insert"
  /\ UNCHANGED <<typed, clientVars, serverVars, pool, recent, snap, rows, restoreVars, channel,
                 faults, gap, target>>

\* The SELECT of the latest version: a duplicate is not inserted.
StoreSelect ==
  /\ spc = "select"
  /\ spc' = IF Committed # {} /\ Newest = snap THEN "idle" ELSE "insert"
  /\ UNCHANGED <<typed, clientVars, serverVars, pool, recent, snap, rows, restoreVars, channel,
                 faults, gap, target>>

StoreInsert ==
  /\ spc = "insert"
  /\ Len(rows) < MaxRows
  /\ spc' = "idle"
  /\ rows' = Append(rows, [snapshot |-> snap, committed |-> TRUE])
  /\ UNCHANGED <<typed, clientVars, serverVars, pool, recent, snap, restoreVars, channel, faults,
                 gap, target>>

\* A statement raises: the error is logged and lastStored stays.
StoreFails ==
  /\ faults < Faults
  /\ faults' = faults + 1
  /\ spc # "idle"
  /\ spc' = "idle"
  /\ gap' = TRUE
  /\ UNCHANGED <<typed, clientVars, serverVars, pool, recent, snap, rows, restoreVars, channel,
                 target>>

FiveSeconds ==
  /\ recent
  /\ recent' = FALSE
  /\ UNCHANGED <<typed, clientVars, serverVars, pool, spc, snap, rows, restoreVars, channel,
                 faults, gap, target>>

\* The first query of the pool has returned.
PoolReady ==
  /\ pool = "starting"
  /\ pool' = "ready"
  /\ UNCHANGED <<typed, clientVars, serverVars, recent, spc, snap, rows, restoreVars, channel,
                 faults, gap, target>>

\* That query fails, or the pool reports an error: poolReady is not set again.
PoolError ==
  /\ faults < Faults
  /\ faults' = faults + 1
  /\ pool # "broken"
  /\ pool' = "broken"
  /\ UNCHANGED <<typed, clientVars, serverVars, recent, spc, snap, rows, restoreVars, channel, gap,
                 target>>

-----------------------------------------------------------------------------
(* Restoring a version.                                                    *)

\* restore_version up to the SELECT of the version.
RestoreBegin(r, k) ==
  /\ rpc[r] = "idle"
  /\ k \in Committed
  /\ rpc' = [rpc EXCEPT ![r] = "insert"]
  /\ rsnap' = [rsnap EXCEPT ![r] = rows[k].snapshot]
  /\ target' = IF live /\ \A c \in Client : Merge(doc, replica[c]) = doc
               THEN Text(rows[k].snapshot) ELSE NoTarget
  /\ UNCHANGED <<typed, clientVars, serverVars, storeVars, rows, rby, rrow, channel, faults, gap>>

\* INSERT: created_at is the time of the transaction.
RestoreInsert(r) ==
  /\ rpc[r] = "insert"
  /\ Len(rows) < MaxRows
  /\ rpc' = [rpc EXCEPT ![r] = "commit"]
  /\ rrow' = [rrow EXCEPT ![r] = Len(rows) + 1]
  /\ rows' = Append(rows, [snapshot |-> rsnap[r], committed |-> FALSE])
  /\ UNCHANGED <<typed, clientVars, serverVars, storeVars, rby, rsnap, channel, faults, gap, target>>

RestoreCommit(r) ==
  /\ rpc[r] = "commit"
  /\ rpc' = [rpc EXCEPT ![r] = "publish"]
  /\ rows' = [rows EXCEPT ![rrow[r]].committed = TRUE]
  /\ UNCHANGED <<typed, clientVars, serverVars, storeVars, rby, rsnap, rrow, channel, faults, gap,
                 target>>

\* PUBLISH to doc:restore.
RestorePublish(r) ==
  /\ rpc[r] = "publish"
  /\ rpc' = [rpc EXCEPT ![r] = "answer"]
  /\ channel' = Append(channel, r)
  /\ UNCHANGED <<typed, clientVars, serverVars, storeVars, rows, rby, rsnap, rrow, faults, gap,
                 target>>

\* PUBLISH raises, which is swallowed, or nobody hears the message.
RestoreUnheard(r) ==
  /\ faults < Faults
  /\ faults' = faults + 1
  /\ rpc[r] = "publish"
  /\ rpc' = [rpc EXCEPT ![r] = "answer"]
  /\ gap' = TRUE
  /\ UNCHANGED <<typed, clientVars, serverVars, storeVars, rows, rby, rsnap, rrow, channel, target>>

\* The response reaches the client: handleVersionRestore rewinds its replica.
RestoreAnswer(r) ==
  /\ rpc[r] = "answer"
  /\ rpc' = [rpc EXCEPT ![r] = "done"]
  /\ replica' = [replica EXCEPT ![rby[r]] = Rewind(@, rsnap[r], <<r, "client">>)]
  /\ UNCHANGED <<typed, online, serverVars, storeVars, rows, rby, rsnap, rrow, channel, faults, gap,
                 target>>

\* The page that asked is gone, or the response is lost.
RestoreAbandoned(r) ==
  /\ rpc[r] = "answer"
  /\ rpc' = [rpc EXCEPT ![r] = "done"]
  /\ UNCHANGED <<typed, clientVars, serverVars, storeVars, rows, rby, rsnap, rrow, channel, faults,
                 gap, target>>

\* Mutant: the rewound document is not stored.
HandleRestoreUnstored ==
  /\ channel # <<>>
  /\ channel' = Tail(channel)
  /\ doc' = IF live THEN Rewind(doc, rsnap[Head(channel)], <<Head(channel), "server">>) ELSE doc
  /\ UNCHANGED <<typed, clientVars, live, loading, pending, storeVars, rows, restoreVars, faults, gap,
                 target>>

\* handleRestoreMessage: a registered document is rewound, else nothing is done,
\* though one may be loading with the snapshot from before.
HandleRestore ==
  /\ channel # <<>>
  /\ channel' = Tail(channel)
  /\ IF live
     THEN /\ doc' = Rewind(doc, rsnap[Head(channel)], <<Head(channel), "server">>)
          /\ pending' = (pending \/ doc' # doc)
          /\ UNCHANGED gap
     ELSE /\ gap' = (gap \/ (loading /\ doc # Newest))
          /\ UNCHANGED <<doc, pending>>
  /\ UNCHANGED <<typed, clientVars, live, loading, storeVars, rows, restoreVars, faults, target>>

\* The sync server dies and is started again.
SyncCrash ==
  /\ faults < Faults
  /\ faults' = faults + 1
  /\ live' = FALSE
  /\ loading' = FALSE
  /\ online' = {}
  /\ doc' = Empty
  /\ pending' = FALSE
  /\ recent' = FALSE
  /\ spc' = "idle"
  /\ channel' = <<>>
  /\ pool' = IF SlowPool THEN "starting" ELSE "ready"
  /\ gap' = FALSE
  /\ UNCHANGED <<typed, replica, snap, rows, restoreVars, target>>

Edit ==
  \E c \in Client :
    (\E t \in Piece : Type(c, t)) \/ (\E i \in Visible(replica[c]) : Erase(c, i))

Load == LoadSelect \/ LoadApply \/ LoadNothing \/ LoadFails

Sync == \E c \in Client : Connect(c) \/ Disconnect(c) \/ Push(c) \/ Pull(c)

Store == StoreBegin \/ StoreSelect \/ StoreInsert

RestoreStep(r) ==
  \/ \E k \in 1 .. Len(rows) : RestoreBegin(r, k)
  \/ RestoreInsert(r) \/ RestoreCommit(r) \/ RestorePublish(r) \/ RestoreUnheard(r)
  \/ RestoreAnswer(r) \/ RestoreAbandoned(r)

Next ==
  \/ Edit \/ Load \/ Sync \/ Unload \/ Store \/ StoreFails \/ FiveSeconds \/ PoolReady \/ PoolError
  \/ (\E r \in Restore : RestoreStep(r)) \/ HandleRestore \/ SyncCrash

Spec == Init /\ [][Next]_vars

\* Hocuspocus makes the call it owes and the queries return.
Fairness == WF_vars(Store)

FairSpec == Spec /\ Fairness

-----------------------------------------------------------------------------
(* Properties.                                                             *)

Item == [text : Piece, by : Seq(Restore \X {"server", "client"})]

Doc == [ins : SUBSET Item, del : SUBSET Item]
Row == [snapshot : Doc, committed : BOOLEAN]

ClientOK ==
  /\ typed \subseteq Piece
  /\ online \subseteq Client
  /\ replica \in [Client -> Doc]
  /\ \A c \in Client : replica[c].del \subseteq replica[c].ins

\* A document that is not registered has no connection and no work left.
ServerOK ==
  /\ {live, loading, pending, recent, gap} \subseteq BOOLEAN
  /\ {doc, snap} \subseteq Doc
  /\ doc.del \subseteq doc.ins /\ snap.del \subseteq snap.ins
  /\ pool \in {"starting", "ready", "broken"}
  /\ spc \in {"idle", "select", "insert"}
  /\ live => ~loading
  /\ live \/ (online = {} /\ ~pending /\ spc = "idle" /\ (loading \/ doc = Empty))

\* An open transaction is that of a restore request.
RowsOK ==
  /\ rows \in Seq(Row)
  /\ \A k \in 1 .. Len(rows) :
       /\ rows[k].snapshot.del \subseteq rows[k].snapshot.ins
       /\ rows[k].committed <=> ~\E r \in Restore : rpc[r] = "commit" /\ rrow[r] = k

RestoreOK ==
  /\ rpc \in [Restore -> {"idle", "insert", "commit", "publish", "answer", "done"}]
  /\ rby \in [Restore -> Client]
  /\ rsnap \in [Restore -> Doc]
  /\ \A r \in Restore : rsnap[r].del \subseteq rsnap[r].ins
  /\ rrow \in [Restore -> 0 .. Len(rows)]
  /\ channel \in Seq(Restore)
  /\ faults \in Nat

TypeOK == ClientOK /\ ServerOK /\ RowsOK /\ RestoreOK

\* A live document owes nothing to the store, and no restored row waits for its
\* message to be handled.
AtRest ==
  /\ live /\ ~pending /\ spc = "idle"
  /\ channel = <<>> /\ \A r \in Restore : rpc[r] # "publish"

\* At rest the newest version shows what the live document shows, unless the
\* last call of onStoreDocument was dropped (pool not ready, or within five
\* seconds), a statement failed, a restore's message was lost, or it was handled
\* while the document was loading with an older snapshot, when handleRestoreMessage
\* finds no document: however edits, stores in flight, restores, unloading and
\* loading interleave, no other way of falling behind exists.
NewestIsLive == AtRest /\ ~gap => Text(Newest) = Text(doc)

\* Every change of the live document is stored in the end, unless the document
\* goes out of memory with it, or its store is dropped or fails.
ChangeStored == pending ~> ~live \/ gap \/ Text(Newest) = Text(doc)

\* README: snapshots are stored on each meaningful save.  At rest the newest
\* version shows the live text, when nothing fails.
\* The code does not meet it: README, "What the documents say".
SavedAtRest == AtRest => Text(Newest) = Text(doc)

\* README: a restored version becomes the newest stored version.  At rest, and
\* with no edit since the request, the newest version shows it.
\* The code does not meet it: README, "What the documents say".
RestoredIsNewest ==
  /\ AtRest /\ target # NoTarget
  /\ \A r \in Restore : rpc[r] \notin {"insert", "commit"}
  => Text(Newest) = target

\* README: restoring replaces the live editor state.  No piece of text, each of
\* which was typed once, is ever shown twice.
ShownOnce == \A i, j \in Visible(doc) : i.text = j.text => i = j
=============================================================================
