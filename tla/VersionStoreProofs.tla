------------------------- MODULE VersionStoreProofs -------------------------
(* Proofs about VersionStore, for any texts, clients, restores and failures. *)
EXTENDS VersionStore, SequenceTheorems, TLAPS

-----------------------------------------------------------------------------
(* The inductive invariant.                                                *)

IsNewest(k) == k \in Committed /\ \A j \in Committed : j <= k

HasNewest == Committed = {} \/ \E k \in Committed : IsNewest(k)

\* A request that has inserted its row knows it, and is alone with it.
RowOfRestore ==
  /\ \A r \in Restore : rpc[r] \notin {"idle", "insert"} =>
       rrow[r] \in 1 .. Len(rows) /\ rows[rrow[r]].snapshot = rsnap[r]
  /\ \A r, s \in Restore :
       rpc[r] \notin {"idle", "insert"} /\ rpc[s] \notin {"idle", "insert"} /\ rrow[r] = rrow[s] => r = s
  /\ \A k \in 1 .. Len(channel) : rpc[channel[k]] \in {"answer", "done"}
  /\ \A j, k \in 1 .. Len(channel) : channel[j] = channel[k] => j = k

\* The restored row of r is committed and its message not handled.
Outstanding(r) == rpc[r] = "publish" \/ \E k \in 1 .. Len(channel) : channel[k] = r

\* Its message was handled, or lost.
Handled == {r \in Restore : rpc[r] \in {"answer", "done"} /\ ~Outstanding(r)}

\* The clones of the sync server in a document are of the restores in R.
MadeFor(d, R) ==
  \A i \in d.ins, r \in Restore : i.by # <<>> /\ i.by[Len(i.by)] = <<r, "server">> => r \in R

\* No clone of the sync server for a restore exists before its message is handled.
ClonesMade ==
  /\ MadeFor(doc, Handled) /\ MadeFor(snap, Handled)
  /\ \A c \in Client : MadeFor(replica[c], Handled)
  /\ \A k \in 1 .. Len(rows) : MadeFor(rows[k].snapshot, Handled)
  /\ \A r \in Restore : MadeFor(rsnap[r], Handled)

\* What is loaded or loading, and the store owes nothing for, is in the newest row,
\* in the state encoded for a row, or about to be replaced by the newest row's restore.
Accounted ==
  (live \/ loading) /\ ~gap /\ ~pending =>
    IF spc = "idle"
    THEN Text(Newest) = Text(doc) \/ \E r \in Restore : Outstanding(r) /\ IsNewest(rrow[r])
    ELSE Text(snap) = Text(doc)

IInv == TypeOK /\ HasNewest /\ RowOfRestore /\ ClonesMade /\ Accounted

-----------------------------------------------------------------------------
(* Documents.                                                              *)

Good(d) == d \in Doc /\ d.del \subseteq d.ins

\* The empty document is a document.
LEMMA EmptyGood == Good(Empty) /\ \A R : MadeFor(Empty, R)
  BY DEF Good, Empty, Doc, MadeFor

\* Merging documents gives one.
LEMMA MergeGood ==
  ASSUME NEW d, Good(d), NEW e, Good(e)
  PROVE  Good(Merge(d, e))
  BY DEF Good, Merge, Doc

\* It brings no clone that neither had.
LEMMA MergeMade ==
  ASSUME NEW d, NEW e, NEW R, MadeFor(d, R), MadeFor(e, R)
  PROVE  MadeFor(Merge(d, e), R)
  BY DEF Merge, MadeFor

\* More handled restores may have made the clones.
LEMMA MadeMore ==
  ASSUME NEW d, NEW R, NEW S, R \subseteq S, MadeFor(d, R)
  PROVE  MadeFor(d, S)
  BY DEF MadeFor

\* The last restore an item was cloned in.
LEMMA LastOfAppend ==
  ASSUME NEW S, NEW s \in Seq(S), NEW x \in S
  PROVE  /\ Append(s, x) \in Seq(S) /\ Append(s, x) # <<>>
         /\ Append(s, x)[Len(Append(s, x))] = x
  OBVIOUS

\* A clone of the snapshot is an item whose last restore is the one at hand.
LEMMA ClonesLast ==
  ASSUME NEW s, Good(s), NEW by \in Restore \X {"server", "client"}
  PROVE  /\ Clones(s, by) \subseteq Item
         /\ \A i \in Clones(s, by) : i.by # <<>> /\ i.by[Len(i.by)] = by
         /\ Clones(s, by) = {} => Visible(s) = {}
<1>1. ASSUME NEW i \in Visible(s)
      PROVE  i \in Item /\ i.by \in Seq(Restore \X {"server", "client"}) /\ i.text \in Piece
  BY <1>1 DEF Visible, Good, Doc, Item
<1>2. ASSUME NEW i \in Visible(s)
      PROVE  LET j == [text |-> i.text, by |-> Append(i.by, by)]
             IN  j \in Item /\ j.by # <<>> /\ j.by[Len(j.by)] = by
  <2>1. /\ Append(i.by, by) \in Seq(Restore \X {"server", "client"})
        /\ Append(i.by, by) # <<>>
        /\ Append(i.by, by)[Len(Append(i.by, by))] = by
    BY <1>1, LastOfAppend
  <2>2. QED  BY <1>1, <2>1 DEF Item
<1>3. QED  BY <1>2 DEF Clones

\* Rewinding a document gives one.
LEMMA RewindGood ==
  ASSUME NEW d, Good(d), NEW s, Good(s), NEW by \in Restore \X {"server", "client"}
  PROVE  Good(Rewind(d, s, by))
<1>1. Clones(s, by) \subseteq Item
  BY ClonesLast
<1>2. QED  BY <1>1 DEF Good, Rewind, Doc

\* It makes clones of the restore at hand only.
LEMMA RewindMade ==
  ASSUME NEW d, NEW R, MadeFor(d, R), NEW s, Good(s),
         NEW by \in Restore \X {"server", "client"}, by[2] = "server" => by[1] \in R
  PROVE  MadeFor(Rewind(d, s, by), R)
<1>1. \A i \in Clones(s, by) : i.by[Len(i.by)] = by
  BY ClonesLast
<1>2. ASSUME NEW i \in d.ins \union Clones(s, by), NEW r \in Restore,
             i.by # <<>>, i.by[Len(i.by)] = <<r, "server">>
      PROVE  r \in R
  <2>1. CASE i \in d.ins
    BY <1>2, <2>1 DEF MadeFor
  <2>2. CASE i \in Clones(s, by)
    <3>1. by = <<r, "server">>
      BY <1>1, <1>2, <2>2
    <3>2. QED  BY <3>1
  <2>3. QED  BY <2>1, <2>2
<1>3. Rewind(d, s, by).ins = d.ins \union Clones(s, by)
  BY DEF Rewind
<1>4. QED  BY <1>2, <1>3 DEF MadeFor

\* Rewinding that changes nothing was of an empty text to an empty text.
LEMMA RewindSame ==
  ASSUME NEW d, NEW R, MadeFor(d, R), NEW s, Good(s), NEW r \in Restore, r \notin R,
         Rewind(d, s, <<r, "server">>) = d
  PROVE  Text(s) = Text(d)
<1>1. Clones(s, <<r, "server">>) \subseteq d.ins /\ d.del = d.ins
  BY DEF Rewind
<1>2. \A i \in Clones(s, <<r, "server">>) : i.by # <<>> /\ i.by[Len(i.by)] = <<r, "server">>
  BY ClonesLast
<1>3. Clones(s, <<r, "server">>) = {}
  BY <1>1, <1>2 DEF MadeFor
<1>4. Visible(s) = {}
  BY <1>3, ClonesLast
<1>5. Visible(d) = {}
  BY <1>1 DEF Visible
<1>6. QED  BY <1>4, <1>5 DEF Text

-----------------------------------------------------------------------------
(* The newest row.                                                         *)

\* The choice in Newest is the greatest row.
LEMMA MaxChosen ==
  ASSUME NEW S \in SUBSET Nat, NEW k \in S, \A j \in S : j <= k
  PROVE  (CHOOSE m \in S : \A j \in S : j <= m) = k
<1>1. \A m \in S : (\A j \in S : j <= m) => m = k
  OBVIOUS
<1>2. QED  BY <1>1

\* ORDER BY created_at DESC LIMIT 1 returns the newest committed row.
LEMMA NewestNow ==
  ASSUME NEW k, IsNewest(k)
  PROVE  Newest = rows[k].snapshot
<1>1. Committed \in SUBSET Nat /\ k \in Committed
  BY DEF Committed, IsNewest
<1>2. QED  BY <1>1, MaxChosen DEF Newest, IsNewest

\* The same after a step.
LEMMA NewestNext ==
  ASSUME NEW k, IsNewest(k)'
  PROVE  Newest' = rows'[k].snapshot
<1>1. Committed' \in SUBSET Nat /\ k \in Committed'
  BY DEF Committed, IsNewest
<1>2. QED  BY <1>1, MaxChosen DEF Newest, IsNewest

\* What onLoadDocument applies is a document.
LEMMA NewestGood ==
  ASSUME IInv
  PROVE  Good(Newest) /\ MadeFor(Newest, Handled)
<1>1. CASE Committed = {}
  BY <1>1, EmptyGood DEF Newest
<1>2. CASE \E k \in Committed : IsNewest(k)
  <2>1. PICK k \in Committed : IsNewest(k)
    BY <1>2
  <2>2. k \in 1 .. Len(rows)
    BY DEF Committed
  <2>3. rows[k] \in Row /\ rows[k].snapshot.del \subseteq rows[k].snapshot.ins
    BY <2>2 DEF IInv, TypeOK, RowsOK
  <2>4. QED  BY <2>1, <2>2, <2>3, NewestNow DEF Good, Row, IInv, ClonesMade
<1>3. QED  BY <1>1, <1>2 DEF IInv, HasNewest
-----------------------------------------------------------------------------
(* Types.                                                                  *)

\* What the type invariant says of documents, in the words of the lemmas.
LEMMA AllGood ==
  ASSUME TypeOK
  PROVE  /\ Good(doc) /\ Good(snap)
         /\ \A c \in Client : Good(replica[c])
         /\ \A r \in Restore : Good(rsnap[r])
         /\ \A k \in 1 .. Len(rows) : Good(rows[k].snapshot)
<1>1. ASSUME NEW k \in 1 .. Len(rows)
      PROVE  Good(rows[k].snapshot)
  <2>1. rows[k] \in Row
    BY <1>1 DEF TypeOK, RowsOK
  <2>2. QED  BY <1>1, <2>1 DEF TypeOK, RowsOK, Row, Good
<1>2. QED  BY <1>1 DEF TypeOK, ClientOK, ServerOK, RestoreOK, Good

\* Every step keeps the replicas typed.
LEMMA ClientStep ==
  ASSUME TypeOK, [Next]_vars
  PROVE  ClientOK'
<1> DEFINE OK == /\ typed' \subseteq Piece /\ online' \subseteq Client
                 /\ \A c \in Client : Good(replica'[c])
                 /\ DOMAIN replica' = Client /\ replica' = [c \in Client |-> replica'[c]]
<1> SUFFICES OK
  BY DEF ClientOK, Good
<1>1. /\ typed \subseteq Piece /\ online \subseteq Client
      /\ replica = [c \in Client |-> replica[c]] /\ DOMAIN replica = Client
      /\ \A c \in Client : Good(replica[c])
      /\ Good(doc) /\ \A r \in Restore : Good(rsnap[r])
      /\ rby \in [Restore -> Client]
  BY AllGood DEF TypeOK, ClientOK, RestoreOK
<1>2. ASSUME NEW d \in Client, NEW e, Good(e), replica' = [replica EXCEPT ![d] = e],
             typed' \subseteq Piece, online' = online
      PROVE  OK
  BY <1>1, <1>2
<1>3. ASSUME NEW c \in Client, NEW t \in Piece, Type(c, t)
      PROVE  OK
  <2> DEFINE e == [replica[c] EXCEPT !.ins = @ \union {[text |-> t, by |-> <<>>]}]
  <2>1. replica' = [replica EXCEPT ![c] = e]
    BY <1>3 DEF Type
  <2>2. [text |-> t, by |-> <<>>] \in Item
    BY DEF Item
  <2>3. Good(e)
    BY <1>1, <2>2 DEF Good, Doc
  <2>4. typed' \subseteq Piece /\ online' = online
    BY <1>1, <1>3 DEF Type
  <2>5. QED  BY <1>2, <2>1, <2>3, <2>4
<1>4. ASSUME NEW c \in Client, NEW i \in Visible(replica[c]), Erase(c, i)
      PROVE  OK
  <2> DEFINE e == [replica[c] EXCEPT !.del = @ \union {i}]
  <2>1. replica' = [replica EXCEPT ![c] = e]
    BY <1>4 DEF Erase
  <2>2. Good(e)
    BY <1>1 DEF Good, Doc, Visible
  <2>3. typed' \subseteq Piece /\ online' = online
    BY <1>1, <1>4 DEF Erase
  <2>4. QED  BY <1>2, <2>1, <2>2, <2>3
<1>5. ASSUME NEW c \in Client, Pull(c)
      PROVE  OK
  <2>1. Good(Merge(doc, replica[c]))
    BY <1>1, MergeGood
  <2>2. replica' = [replica EXCEPT ![c] = Merge(doc, replica[c])]
    BY <1>5 DEF Pull
  <2>3. typed' \subseteq Piece /\ online' = online
    BY <1>1, <1>5 DEF Pull
  <2>4. QED  BY <1>2, <2>1, <2>2, <2>3
<1>6. ASSUME NEW r \in Restore, RestoreAnswer(r)
      PROVE  OK
  <2> DEFINE e == Rewind(replica[rby[r]], rsnap[r], <<r, "client">>)
  <2>1. rby[r] \in Client
    BY <1>1
  <2>2. Good(e)
    BY <1>1, <2>1, RewindGood
  <2>3. replica' = [replica EXCEPT ![rby[r]] = e]
    BY <1>6 DEF RestoreAnswer
  <2>4. typed' \subseteq Piece /\ online' = online
    BY <1>1, <1>6 DEF RestoreAnswer
  <2>5. QED  BY <1>2, <2>1, <2>2, <2>3, <2>4
<1>7. CASE replica' = replica /\ typed' = typed /\ online' \subseteq Client
  BY <1>1, <1>7
<1>8. ASSUME NEW c \in Client, Connect(c) \/ Disconnect(c) \/ Push(c)
      PROVE  OK
  BY <1>1, <1>7, <1>8 DEF Connect, Disconnect, Push, clientVars
<1>9. ASSUME NEW r \in Restore, RestoreStep(r)
      PROVE  OK
  BY <1>1, <1>6, <1>7, <1>9 DEF RestoreStep, RestoreBegin, RestoreInsert, RestoreCommit,
     RestorePublish, RestoreUnheard, RestoreAbandoned, clientVars
<1>10. CASE Load \/ Unload \/ Store \/ StoreFails \/ FiveSeconds \/ PoolReady \/ PoolError
            \/ HandleRestore \/ SyncCrash \/ UNCHANGED vars
  BY <1>1, <1>7, <1>10 DEF Load, LoadSelect, LoadApply, LoadNothing, LoadFails, Unload, Store, StoreBegin, StoreSelect, StoreInsert, StoreFails, FiveSeconds,
     PoolReady, PoolError, HandleRestore, SyncCrash, clientVars, vars
<1>11. QED  BY <1>3, <1>4, <1>5, <1>8, <1>9, <1>10 DEF Next, Edit, Sync

\* Every step keeps the live document and the state of the store hook typed.
LEMMA ServerStep ==
  ASSUME IInv, [Next]_vars
  PROVE  ServerOK'
<1> DEFINE Resting(l, i, o, d, p, s) ==
             (l => ~i) /\ (l \/ (o = {} /\ ~p /\ s = "idle" /\ (i \/ d = Empty)))
           OK == /\ live' \in BOOLEAN /\ loading' \in BOOLEAN /\ pending' \in BOOLEAN /\ recent' \in BOOLEAN /\ gap' \in BOOLEAN
                 /\ Good(doc') /\ Good(snap')
                 /\ pool' \in {"starting", "ready", "broken"}
                 /\ spc' \in {"idle", "select", "insert"}
                 /\ Resting(live', loading', online', doc', pending', spc')
<1> SUFFICES OK
  BY DEF ServerOK, Good
<1>1. /\ live \in BOOLEAN /\ loading \in BOOLEAN /\ pending \in BOOLEAN /\ recent \in BOOLEAN /\ gap \in BOOLEAN
      /\ Good(doc) /\ Good(snap)
      /\ pool \in {"starting", "ready", "broken"}
      /\ spc \in {"idle", "select", "insert"}
      /\ Resting(live, loading, online, doc, pending, spc)
  BY AllGood DEF TypeOK, ServerOK, IInv
<1>2. /\ \A c \in Client : Good(replica[c])
      /\ \A r \in Restore : Good(rsnap[r])
      /\ channel \in Seq(Restore)
      /\ Good(Newest) /\ Good(Empty)
  BY AllGood, NewestGood, EmptyGood DEF TypeOK, RestoreOK, IInv
<1>3. ASSUME NEW c \in Client, Connect(c) \/ Disconnect(c)
      PROVE  OK
  BY <1>1, <1>3 DEF Connect, Disconnect, storeVars, serverVars
<1>17. CASE Load
  <2>1. CASE LoadSelect
    <3>1. /\ ~live /\ live' = live /\ loading' = TRUE /\ gap' = FALSE /\ doc' = Newest
          /\ UNCHANGED <<online, pending, recent, snap, pool, spc>>
      BY <2>1 DEF LoadSelect, storeVars, clientVars
    <3>2. QED  BY <1>1, <1>2, <3>1
  <2>2. CASE LoadApply \/ LoadNothing
    <3>1. /\ live' = TRUE /\ gap' \in {gap, TRUE}
          /\ UNCHANGED <<online, doc, pending, recent, snap, pool, spc>>
      BY <2>2 DEF LoadApply, LoadNothing, storeVars, clientVars
    <3>2. loading' = FALSE
      BY <1>1, <2>2 DEF LoadApply, LoadNothing
    <3>3. QED  BY <1>1, <3>1, <3>2
  <2>3. CASE LoadFails
    <3>1. /\ live' = TRUE /\ loading' = FALSE /\ gap' = TRUE /\ doc' = Empty
          /\ UNCHANGED <<online, pending, recent, snap, pool, spc>>
      BY <2>3 DEF LoadFails, storeVars, clientVars
    <3>2. QED  BY <1>1, <1>2, <3>1
  <2>4. QED  BY <1>17, <2>1, <2>2, <2>3 DEF Load
<1>4. ASSUME NEW c \in Client, Push(c)
      PROVE  OK
  <2>1. Good(doc')
    BY <1>1, <1>2, <1>4, MergeGood DEF Push
  <2>2. QED  BY <1>1, <1>4, <2>1 DEF Push, storeVars, clientVars
<1>5. CASE StoreBegin
  <2>1. /\ pending /\ pending' = FALSE /\ UNCHANGED <<live, loading, doc, pool, online>>
        /\ gap' \in BOOLEAN /\ recent' \in BOOLEAN
        /\ snap' \in {snap, doc} /\ spc' \in {spc, "select"}
    BY <1>1, <1>5 DEF StoreBegin, clientVars
  <2>2. QED  BY <1>1, <2>1
<1>6. CASE StoreSelect \/ StoreInsert \/ StoreFails
  <2>1. /\ spc # "idle" /\ spc' \in {"idle", "insert"} /\ gap' \in {gap, TRUE}
        /\ UNCHANGED <<live, loading, doc, pending, online, pool, recent, snap>>
    BY <1>6 DEF StoreSelect, StoreInsert, StoreFails, clientVars, serverVars
  <2>2. QED  BY <1>1, <2>1
<1>7. CASE HandleRestore
  <2>1. Head(channel) \in Restore
    BY <1>2, <1>7 DEF HandleRestore
  <2>2. Good(Rewind(doc, rsnap[Head(channel)], <<Head(channel), "server">>))
    BY <1>1, <1>2, <2>1, RewindGood
  <2>3. Good(doc') /\ pending' \in BOOLEAN
    BY <1>1, <1>7, <2>2 DEF HandleRestore
  <2>4. Resting(live', loading', online', doc', pending', spc')
    BY <1>1, <1>7 DEF HandleRestore, clientVars, storeVars
  <2>5. UNCHANGED <<live, loading, recent, snap, pool, spc>> /\ gap' \in BOOLEAN
    BY <1>1, <1>7 DEF HandleRestore, storeVars
  <2>6. QED  BY <1>1, <2>3, <2>4, <2>5
<1>8. CASE SyncCrash
  BY <1>1, <1>2, <1>8 DEF SyncCrash
<1>9. CASE Unload
  BY <1>1, <1>2, <1>9 DEF Unload, storeVars, clientVars
<1>14. CASE FiveSeconds
  BY <1>1, <1>14 DEF FiveSeconds, clientVars, serverVars
<1>15. CASE PoolReady \/ PoolError
  <2>1. pool' \in {"starting", "ready", "broken"}
    BY <1>15 DEF PoolReady, PoolError
  <2>2. UNCHANGED <<serverVars, recent, spc, snap, online, gap>>
    BY <1>15 DEF PoolReady, PoolError, clientVars
  <2>3. QED  BY <1>1, <2>1, <2>2 DEF serverVars
<1>10. CASE UNCHANGED <<serverVars, storeVars, online>> /\ gap' \in BOOLEAN
  BY <1>1, <1>10 DEF serverVars, storeVars
<1>11. ASSUME NEW r \in Restore, RestoreStep(r)
       PROVE  OK
  BY <1>1, <1>10, <1>11 DEF RestoreStep, RestoreBegin, RestoreInsert, RestoreCommit, RestorePublish,
     RestoreUnheard, RestoreAnswer, RestoreAbandoned, clientVars
<1>12. CASE Edit \/ UNCHANGED vars
  BY <1>1, <1>10, <1>12 DEF Edit, Type, Erase, vars, clientVars
<1>13. ASSUME NEW c \in Client, Pull(c)
       PROVE  OK
  BY <1>1, <1>10, <1>13 DEF Pull
<1>16. QED
  BY <1>3, <1>4, <1>5, <1>6, <1>7, <1>8, <1>9, <1>11, <1>12, <1>13, <1>14, <1>15,
     <1>17
  DEF Next, Sync, Store

-----------------------------------------------------------------------------
(* Rows and restores.                                                      *)

\* The steps that are not of a restore request change at most the channel, and
\* only onStoreDocument adds a row.
LEMMA OtherSteps ==
  ASSUME TypeOK, [Next]_vars
  PROVE  \/ /\ UNCHANGED <<rows, rpc, rby, rsnap, rrow>> /\ faults' \in Nat
            /\ channel' \in {channel, <<>>} \/ (channel # <<>> /\ channel' = Tail(channel))
         \/ StoreInsert
         \/ \E r \in Restore : RestoreStep(r)
<1> USE DEF restoreVars
<1>1. faults \in Nat
  BY DEF TypeOK, RestoreOK
<1>2. CASE Edit \/ Unload \/ UNCHANGED vars
  BY <1>1, <1>2 DEF Edit, Type, Erase, Unload, vars
<1>3. CASE Load \/ Sync
  BY <1>1, <1>3 DEF Load, LoadSelect, LoadApply, LoadNothing, LoadFails, Sync, Connect, Disconnect, Push,
     Pull
<1>4. CASE StoreBegin \/ StoreSelect \/ StoreFails \/ FiveSeconds \/ PoolReady \/ PoolError
  BY <1>1, <1>4 DEF StoreBegin, StoreSelect, StoreFails, FiveSeconds, PoolReady, PoolError
<1>5. CASE HandleRestore \/ SyncCrash
  BY <1>1, <1>5 DEF HandleRestore, SyncCrash
<1>6. QED  BY <1>2, <1>3, <1>4, <1>5 DEF Next, Store

\* What is left of the channel is an end of it.
LEMMA ChannelRest ==
  ASSUME channel \in Seq(Restore),
         channel' \in {channel, <<>>} \/ (channel # <<>> /\ channel' = Tail(channel))
  PROVE  /\ channel' \in Seq(Restore)
         /\ \E d \in {0, 1} : \A k \in 1 .. Len(channel') :
              k + d \in 1 .. Len(channel) /\ channel'[k] = channel[k + d]
<1>1. CASE channel' = channel
  BY <1>1
<1>2. CASE channel' = <<>>
  BY <1>2
<1>3. CASE channel # <<>> /\ channel' = Tail(channel)
  <2>1. channel' \in Seq(Restore) /\ Len(channel') = Len(channel) - 1
    BY <1>3
  <2>2. \A k \in 1 .. Len(channel') : k + 1 \in 1 .. Len(channel) /\ channel'[k] = channel[k + 1]
    <3>1. \A k \in 1 .. Len(channel') : channel'[k] = channel[k + 1]
      BY <1>3, HeadTailProperties
    <3>2. Len(channel) \in Nat
      BY LenProperties
    <3>3. \A k \in 1 .. Len(channel') : k + 1 \in 1 .. Len(channel)
      BY <2>1, <3>2
    <3>4. QED  BY <3>1, <3>3
  <2>3. QED  BY <2>1, <2>2
<1>4. QED  BY <1>1, <1>2, <1>3

\* An INSERT adds a row after the others.
LEMMA RowAdded ==
  ASSUME rows \in Seq(Row), NEW x \in Row, rows' = Append(rows, x)
  PROVE  /\ rows' \in Seq(Row) /\ Len(rows') = Len(rows) + 1 /\ Len(rows) \in Nat
         /\ \A k \in 1 .. Len(rows) : rows'[k] = rows[k]
         /\ rows'[Len(rows) + 1] = x
  OBVIOUS

RestoreInv == RowsOK /\ RestoreOK /\ HasNewest /\ RowOfRestore

\* The SELECT of the version restored changes no row.
LEMMA RestoreBeginStep ==
  ASSUME IInv, NEW r \in Restore, NEW k \in 1 .. Len(rows), RestoreBegin(r, k)
  PROVE  RestoreInv'
<1>1. rows[k].snapshot \in Doc /\ rows[k].snapshot.del \subseteq rows[k].snapshot.ins
  <2>1. Good(rows[k].snapshot)
    BY AllGood DEF IInv
  <2>2. QED  BY <2>1 DEF Good
<1>2. /\ UNCHANGED <<rows, rby, rrow, channel, faults>>
      /\ rpc[r] = "idle" /\ rpc' = [rpc EXCEPT ![r] = "insert"]
      /\ rsnap' = [rsnap EXCEPT ![r] = rows[k].snapshot]
  BY DEF RestoreBegin
<1>3. RowsOK'
  BY <1>2 DEF IInv, TypeOK, RowsOK, RestoreOK
<1>4. RestoreOK'
  BY <1>1, <1>2 DEF IInv, TypeOK, RestoreOK
<1>5. HasNewest'
  BY <1>2 DEF IInv, HasNewest, IsNewest, Committed
<1>6. RowOfRestore'
  BY <1>2 DEF IInv, TypeOK, RestoreOK, RowOfRestore
<1>7. QED  BY <1>3, <1>4, <1>5, <1>6 DEF RestoreInv

\* The INSERT of a restore changes no committed row.
LEMMA RestoreInsertStep ==
  ASSUME IInv, NEW r \in Restore, RestoreInsert(r)
  PROVE  RestoreInv' /\ Committed' = Committed
<1> DEFINE n == Len(rows)
           x == [snapshot |-> rsnap[r], committed |-> FALSE]
<1>1. /\ UNCHANGED <<rby, rsnap, channel, faults>>
      /\ rpc[r] = "insert" /\ rpc' = [rpc EXCEPT ![r] = "commit"]
      /\ rrow' = [rrow EXCEPT ![r] = n + 1]
      /\ rows' = Append(rows, x)
  BY DEF RestoreInsert
<1>2. x \in Row /\ rsnap[r].del \subseteq rsnap[r].ins
  BY DEF IInv, TypeOK, RestoreOK, Row
<1>3. /\ rows' \in Seq(Row) /\ Len(rows') = n + 1 /\ n \in Nat
      /\ \A k \in 1 .. n : rows'[k] = rows[k]
      /\ rows'[n + 1] = x
  BY <1>1, <1>2, RowAdded DEF IInv, TypeOK, RowsOK
<1>4. rrow \in [Restore -> 0 .. n] /\ rpc \in [Restore -> {"idle", "insert", "commit", "publish", "answer", "done"}]
  BY DEF IInv, TypeOK, RestoreOK
<1> HIDE DEF n
<1>5. RowsOK'
  <2>1. ASSUME NEW k \in 1 .. n + 1
        PROVE  /\ rows'[k].snapshot.del \subseteq rows'[k].snapshot.ins
               /\ rows'[k].committed <=> ~\E s \in Restore : rpc'[s] = "commit" /\ rrow'[s] = k
    <3>1. CASE k = n + 1
      BY <1>1, <1>2, <1>3, <1>4, <3>1
    <3>2. CASE k \in 1 .. n
      <4>1. /\ rows[k].snapshot.del \subseteq rows[k].snapshot.ins
            /\ rows[k].committed <=> ~\E s \in Restore : rpc[s] = "commit" /\ rrow[s] = k
        BY <3>2 DEF IInv, TypeOK, RowsOK, n
      <4>2. \A s \in Restore : (rpc'[s] = "commit" /\ rrow'[s] = k) <=> (rpc[s] = "commit" /\ rrow[s] = k)
        BY <1>1, <1>3, <1>4, <3>2
      <4>3. rows'[k] = rows[k]
        BY <1>3, <3>2
      <4>4. QED  BY <4>1, <4>2, <4>3
    <3>3. QED  BY <1>3, <2>1, <3>1, <3>2
  <2>2. QED  BY <1>3, <2>1 DEF RowsOK
<1>6. RestoreOK'
  <2>1. rrow' \in [Restore -> 0 .. Len(rows')]
    BY <1>1, <1>3, <1>4
  <2>2. rpc' \in [Restore -> {"idle", "insert", "commit", "publish", "answer", "done"}]
    BY <1>1, <1>4
  <2>3. QED  BY <1>1, <2>1, <2>2 DEF IInv, TypeOK, RestoreOK
<1>7. Committed' = Committed
  BY <1>3 DEF Committed, n
<1>8. HasNewest'
  BY <1>7 DEF IInv, HasNewest, IsNewest
<1>9. RowOfRestore'
  <2>1. \A s \in Restore : rpc'[s] \notin {"idle", "insert"} =>
           s = r \/ (rpc[s] \notin {"idle", "insert"} /\ rrow'[s] = rrow[s])
    BY <1>1, <1>4
  <2>2. rrow'[r] = n + 1
    BY <1>1, <1>4
  <2>3. \A s \in Restore : rpc[s] \notin {"idle", "insert"} =>
           rrow[s] \in 1 .. n /\ rows[rrow[s]].snapshot = rsnap[s]
    BY DEF IInv, RowOfRestore, n
  <2>4. \A s \in Restore : rpc'[s] \notin {"idle", "insert"} =>
           rrow'[s] \in 1 .. Len(rows') /\ rows'[rrow'[s]].snapshot = rsnap'[s]
    BY <1>1, <1>3, <2>1, <2>2, <2>3
  <2>5. \A s, t \in Restore :
          rpc'[s] \notin {"idle", "insert"} /\ rpc'[t] \notin {"idle", "insert"} /\ rrow'[s] = rrow'[t] => s = t
    <3>1. \A s \in Restore : rpc'[s] \notin {"idle", "insert"} /\ s # r => rrow'[s] \in 1 .. n
      BY <2>1, <2>3
    <3>2. \A s, t \in Restore :
           rpc[s] \notin {"idle", "insert"} /\ rpc[t] \notin {"idle", "insert"} /\ rrow[s] = rrow[t] => s = t
      BY DEF IInv, RowOfRestore
    <3>3. n + 1 \notin 1 .. n
      BY <1>3
    <3>4. QED  BY <2>1, <2>2, <3>1, <3>2, <3>3
  <2>6. \A k \in 1 .. Len(channel) : channel[k] \in Restore
    BY DEF IInv, TypeOK, RestoreOK
  <2>7. /\ \A k \in 1 .. Len(channel') : rpc'[channel'[k]] \in {"answer", "done"}
        /\ \A j, k \in 1 .. Len(channel') : channel'[j] = channel'[k] => j = k
    BY <1>1, <1>4, <2>6 DEF IInv, RowOfRestore
  <2>8. QED  BY <2>4, <2>5, <2>7 DEF RowOfRestore
<1>10. QED  BY <1>5, <1>6, <1>7, <1>8, <1>9 DEF RestoreInv

\* Adding a row to the committed ones keeps the newest or is the newest.
LEMMA NewestAmong ==
  ASSUME IInv, NEW n \in Nat, Committed' = Committed \union {n}
  PROVE  /\ HasNewest'
         /\ \A k : IsNewest(k) /\ n <= k => IsNewest(k)'
         /\ (\A k \in Committed : k <= n) => IsNewest(n)'
<1>1. Committed \subseteq Nat
  BY DEF Committed
<1>2. \A k : IsNewest(k) /\ n <= k => IsNewest(k)'
  BY DEF IsNewest
<1>3. (\A k \in Committed : k <= n) => IsNewest(n)'
  BY DEF IsNewest
<1>4. HasNewest'
  <2>1. CASE Committed = {}
    BY <1>3, <2>1 DEF HasNewest
  <2>2. ASSUME NEW k \in Committed, IsNewest(k)
        PROVE  HasNewest'
    <3>1. CASE n <= k
      BY <1>2, <2>2, <3>1 DEF HasNewest
    <3>2. CASE ~(n <= k)
      <4>1. \A j \in Committed : j <= n
        BY <1>1, <2>2, <3>2 DEF IsNewest
      <4>2. QED  BY <1>3, <4>1 DEF HasNewest
    <3>3. QED  BY <3>1, <3>2
  <2>3. QED  BY <2>1, <2>2 DEF IInv, HasNewest
<1>5. QED  BY <1>2, <1>3, <1>4

\* A COMMIT changes one row.
LEMMA RowCommitted ==
  ASSUME rows \in Seq(Row), NEW j \in 1 .. Len(rows), rows' = [rows EXCEPT ![j].committed = TRUE]
  PROVE  /\ rows' \in Seq(Row) /\ Len(rows') = Len(rows)
         /\ \A k \in 1 .. Len(rows) : k # j => rows'[k] = rows[k]
         /\ rows'[j] = [rows[j] EXCEPT !.committed = TRUE]
<1> DEFINE e == [rows[j] EXCEPT !.committed = TRUE]
<1>1. rows[j] \in Row
  OBVIOUS
<1>2. e \in Row
  BY <1>1 DEF Row
<1>3. rows' = [rows EXCEPT ![j] = e]
  OBVIOUS
<1>4. /\ rows' \in Seq(Row) /\ Len(rows') = Len(rows)
      /\ \A k \in 1 .. Len(rows) : rows'[k] = IF k = j THEN e ELSE rows[k]
  <2> HIDE DEF e
  <2>1. /\ [rows EXCEPT ![j] = e] \in Seq(Row)
        /\ Len([rows EXCEPT ![j] = e]) = Len(rows)
        /\ \A k \in 1 .. Len(rows) : [rows EXCEPT ![j] = e][k] = IF k = j THEN e ELSE rows[k]
    BY ONLY <1>2, rows \in Seq(Row), j \in 1 .. Len(rows), ExceptSeq
  <2>2. QED  BY <1>3, <2>1
<1>5. QED  BY <1>4

\* The COMMIT of a restore commits its own row.
LEMMA RestoreCommitStep ==
  ASSUME IInv, NEW r \in Restore, RestoreCommit(r)
  PROVE  /\ RestoreInv'
         /\ Committed' = Committed \union {rrow[r]} /\ rrow[r] \in Nat
         /\ \A k \in 1 .. Len(rows) : rows'[k].snapshot = rows[k].snapshot
<1> DEFINE n == Len(rows)
<1>1. /\ UNCHANGED <<rby, rsnap, rrow, channel, faults>>
      /\ rpc[r] = "commit" /\ rpc' = [rpc EXCEPT ![r] = "publish"]
      /\ rows' = [rows EXCEPT ![rrow[r]].committed = TRUE]
  BY DEF RestoreCommit
<1>2. rrow[r] \in 1 .. n /\ n \in Nat
  BY <1>1 DEF IInv, RowOfRestore, TypeOK, RowsOK
<1>3. /\ rows \in Seq(Row)
      /\ rpc \in [Restore -> {"idle", "insert", "commit", "publish", "answer", "done"}]
  BY DEF IInv, TypeOK, RowsOK, RestoreOK
<1>4. \A k \in 1 .. n : rows[k] \in Row
  BY <1>3
<1>5. /\ Len(rows') = n
      /\ \A k \in 1 .. n : k # rrow[r] => rows'[k] = rows[k]
      /\ rows'[rrow[r]] = [rows[rrow[r]] EXCEPT !.committed = TRUE]
  BY <1>1, <1>2, <1>3, RowCommitted
<1>6. rows'[rrow[r]] \in Row /\ rows'[rrow[r]].committed
      /\ rows'[rrow[r]].snapshot = rows[rrow[r]].snapshot
  BY <1>2, <1>4, <1>5 DEF Row
<1>7. rows' \in Seq(Row)
  BY <1>1, <1>2, <1>3, RowCommitted
<1>8. \A k \in 1 .. n : rows'[k].snapshot = rows[k].snapshot
  BY <1>5, <1>6
<1>9. \A s \in Restore : rpc[s] = "commit" /\ rrow[s] = rrow[r] => s = r
  BY <1>1 DEF IInv, RowOfRestore
<1>10. RowsOK'
  <2>1. ASSUME NEW k \in 1 .. n
        PROVE  /\ rows'[k].snapshot.del \subseteq rows'[k].snapshot.ins
               /\ rows'[k].committed <=> ~\E s \in Restore : rpc'[s] = "commit" /\ rrow'[s] = k
    <3>1. /\ rows[k].snapshot.del \subseteq rows[k].snapshot.ins
          /\ rows[k].committed <=> ~\E s \in Restore : rpc[s] = "commit" /\ rrow[s] = k
      BY DEF IInv, TypeOK, RowsOK
    <3>2. CASE k = rrow[r]
      <4>1. ~\E s \in Restore : rpc'[s] = "commit" /\ rrow'[s] = k
        BY <1>1, <1>3, <1>9, <3>2
      <4>2. QED  BY <1>6, <1>8, <3>1, <3>2, <4>1
    <3>3. CASE k # rrow[r]
      <4>1. \A s \in Restore : (rpc'[s] = "commit" /\ rrow'[s] = k) <=> (rpc[s] = "commit" /\ rrow[s] = k)
        BY <1>1, <1>3, <3>3
      <4>2. QED  BY <1>5, <3>1, <3>3, <4>1
    <3>4. QED  BY <3>2, <3>3
  <2>2. QED  BY <1>5, <1>7, <2>1 DEF RowsOK
<1>11. RestoreOK'
  <2>1. rrow' \in [Restore -> 0 .. Len(rows')]
    BY <1>1, <1>5 DEF IInv, TypeOK, RestoreOK
  <2>2. rpc' \in [Restore -> {"idle", "insert", "commit", "publish", "answer", "done"}]
    BY <1>1, <1>3
  <2>3. QED  BY <1>1, <2>1, <2>2 DEF IInv, TypeOK, RestoreOK
<1>12. Committed' = Committed \union {rrow[r]}
  BY <1>2, <1>5, <1>6 DEF Committed
<1>13. HasNewest'
  BY <1>2, <1>12, NewestAmong
<1>14. RowOfRestore'
  <2>1. \A s \in Restore : rpc'[s] \notin {"idle", "insert"} => rpc[s] \notin {"idle", "insert"}
    BY <1>1, <1>3
  <2>2. \A s \in Restore : rpc'[s] \notin {"idle", "insert"} =>
           rrow'[s] \in 1 .. Len(rows') /\ rows'[rrow'[s]].snapshot = rsnap'[s]
    BY <1>1, <1>5, <1>8, <2>1 DEF IInv, RowOfRestore
  <2>3. \A k \in 1 .. Len(channel) : channel[k] \in Restore
    BY DEF IInv, TypeOK, RestoreOK
  <2>4. \A k \in 1 .. Len(channel') : rpc'[channel'[k]] \in {"answer", "done"}
    BY <1>1, <1>3, <2>3 DEF IInv, RowOfRestore
  <2>5. /\ \A s, t \in Restore :
             rpc'[s] \notin {"idle", "insert"} /\ rpc'[t] \notin {"idle", "insert"} /\ rrow'[s] = rrow'[t] => s = t
        /\ \A j, k \in 1 .. Len(channel') : channel'[j] = channel'[k] => j = k
    BY <1>1, <2>1 DEF IInv, RowOfRestore
  <2>6. QED  BY <2>2, <2>4, <2>5 DEF RowOfRestore
<1>15. QED  BY <1>2, <1>8, <1>10, <1>11, <1>12, <1>13, <1>14 DEF RestoreInv

\* A request past its commit leaves the rows alone.
LEMMA RestoreRowsKept ==
  ASSUME IInv, NEW r \in Restore, UNCHANGED <<rows, rby, rsnap, rrow>>,
         rpc[r] \in {"publish", "answer"}, NEW v \in {"answer", "done"},
         rpc' = [rpc EXCEPT ![r] = v],
         \/ channel' = channel
         \/ rpc[r] = "publish" /\ v = "answer" /\ channel' = Append(channel, r),
         faults' \in Nat
  PROVE  RestoreInv'
<1>1. rpc \in [Restore -> {"idle", "insert", "commit", "publish", "answer", "done"}]
      /\ channel \in Seq(Restore)
  BY DEF IInv, TypeOK, RestoreOK
<1>2. \A s \in Restore : /\ rpc'[s] \notin {"idle", "insert"} <=> rpc[s] \notin {"idle", "insert"}
                         /\ rpc'[s] = "commit" <=> rpc[s] = "commit"
                         /\ rpc[s] \in {"answer", "done"} => rpc'[s] \in {"answer", "done"}
  BY <1>1
<1>3. RowsOK'
  <2>1. \A s \in Restore : rpc'[s] = "commit" <=> rpc[s] = "commit"
    BY <1>2
  <2>2. QED  BY <2>1 DEF IInv, TypeOK, RowsOK
<1>4. RestoreOK'
  <2>1. rpc' \in [Restore -> {"idle", "insert", "commit", "publish", "answer", "done"}]
    BY <1>1
  <2>2. channel' \in Seq(Restore)
    BY <1>1
  <2>3. QED  BY <2>1, <2>2 DEF IInv, TypeOK, RestoreOK
<1>5. HasNewest'
  BY DEF IInv, HasNewest, IsNewest, Committed
<1>6. /\ \A k \in 1 .. Len(channel) : channel[k] \in Restore /\ rpc[channel[k]] \in {"answer", "done"}
      /\ \A j, k \in 1 .. Len(channel) : channel[j] = channel[k] => j = k
  BY <1>1 DEF IInv, RowOfRestore
<1>7. /\ \A k \in 1 .. Len(channel') : rpc'[channel'[k]] \in {"answer", "done"}
      /\ \A j, k \in 1 .. Len(channel') : channel'[j] = channel'[k] => j = k
  <2>1. CASE channel' = channel
    BY <1>2, <1>6, <2>1
  <2>2. CASE rpc[r] = "publish" /\ v = "answer" /\ channel' = Append(channel, r)
    <3>1. \A k \in 1 .. Len(channel) : channel[k] # r
      BY <1>6, <2>2
    <3>2. /\ Len(channel') = Len(channel) + 1 /\ channel'[Len(channel) + 1] = r
          /\ \A k \in 1 .. Len(channel) : channel'[k] = channel[k]
      BY <1>1, <2>2
    <3>3. rpc'[r] \in {"answer", "done"}
      BY <1>1
    <3>4. QED  BY <1>1, <1>2, <1>6, <3>1, <3>2, <3>3
  <2>3. QED  BY <2>1, <2>2
<1>8. RowOfRestore'
  <2>1. \A s \in Restore : rpc'[s] \notin {"idle", "insert"} =>
           rrow'[s] \in 1 .. Len(rows') /\ rows'[rrow'[s]].snapshot = rsnap'[s]
    BY <1>2 DEF IInv, RowOfRestore
  <2>2. \A s, t \in Restore :
          rpc'[s] \notin {"idle", "insert"} /\ rpc'[t] \notin {"idle", "insert"} /\ rrow'[s] = rrow'[t] => s = t
    BY <1>2 DEF IInv, RowOfRestore
  <2>3. QED  BY <1>7, <2>1, <2>2 DEF RowOfRestore
<1>9. QED  BY <1>3, <1>4, <1>5, <1>8 DEF RestoreInv

\* The row of onStoreDocument is the newest.
LEMMA StoreInsertStep ==
  ASSUME IInv, StoreInsert
  PROVE  /\ RestoreInv'
         /\ \E m \in Nat : IsNewest(m)' /\ rows'[m].snapshot = snap
<1> DEFINE n == Len(rows)
           x == [snapshot |-> snap, committed |-> TRUE]
<1>1. UNCHANGED <<rpc, rby, rsnap, rrow, channel, faults>> /\ rows' = Append(rows, x)
  BY DEF StoreInsert, restoreVars
<1>2. x \in Row /\ snap.del \subseteq snap.ins
  BY DEF IInv, TypeOK, ServerOK, Row
<1>3. /\ rows' \in Seq(Row) /\ Len(rows') = n + 1 /\ n \in Nat
      /\ \A k \in 1 .. n : rows'[k] = rows[k]
      /\ rows'[n + 1] = x
  BY <1>1, <1>2, RowAdded DEF IInv, TypeOK, RowsOK
<1>4. rrow \in [Restore -> 0 .. n]
  BY DEF IInv, TypeOK, RestoreOK
<1>5. \A k \in 1 .. n :
        /\ rows[k].snapshot.del \subseteq rows[k].snapshot.ins
        /\ rows[k].committed <=> ~\E s \in Restore : rpc[s] = "commit" /\ rrow[s] = k
  BY DEF IInv, TypeOK, RowsOK
<1> HIDE DEF n
<1>6. RowsOK'
  <2>1. ASSUME NEW k \in 1 .. n + 1
        PROVE  /\ rows'[k].snapshot.del \subseteq rows'[k].snapshot.ins
               /\ rows'[k].committed <=> ~\E s \in Restore : rpc'[s] = "commit" /\ rrow'[s] = k
    <3>1. CASE k = n + 1
      BY <1>1, <1>2, <1>3, <1>4, <3>1
    <3>2. CASE k \in 1 .. n
      BY <1>1, <1>3, <1>5, <3>2
    <3>3. QED  BY <1>3, <2>1, <3>1, <3>2
  <2>2. QED  BY <1>3, <2>1 DEF RowsOK
<1>7. RestoreOK'
  <2>1. rrow' \in [Restore -> 0 .. Len(rows')]
    BY <1>1, <1>3, <1>4
  <2>2. QED  BY <1>1, <2>1 DEF IInv, TypeOK, RestoreOK
<1>8. Committed' = Committed \union {n + 1} /\ \A k \in Committed : k <= n + 1
  BY <1>3 DEF Committed, n
<1>9. HasNewest' /\ \E m \in Nat : m = n + 1 /\ IsNewest(m)'
  <2>1. PICK m \in Nat : m = n + 1
    BY <1>3
  <2>2. QED  BY <1>8, <2>1, NewestAmong
<1>10. RowOfRestore'
  BY <1>1, <1>3, <1>4 DEF IInv, RowOfRestore, n
<1>11. QED  BY <1>3, <1>6, <1>7, <1>9, <1>10 DEF RestoreInv, n

\* Every step keeps rows and restores as they should be.
LEMMA RestoreStepKeeps ==
  ASSUME IInv, [Next]_vars
  PROVE  RestoreInv'
<1>1. CASE StoreInsert
  BY <1>1, StoreInsertStep
<1>2. ASSUME NEW r \in Restore, RestoreStep(r)
      PROVE  RestoreInv'
  <2>1. faults \in Nat
    BY DEF IInv, TypeOK, RestoreOK
  <2>2. CASE RestorePublish(r) \/ RestoreUnheard(r)
    BY <2>1, <2>2, RestoreRowsKept DEF RestorePublish, RestoreUnheard
  <2>3. CASE RestoreAnswer(r) \/ RestoreAbandoned(r)
    BY <2>1, <2>3, RestoreRowsKept DEF RestoreAnswer, RestoreAbandoned
  <2>4. QED
    BY <1>2, <2>2, <2>3, RestoreBeginStep, RestoreInsertStep, RestoreCommitStep DEF RestoreStep
<1>3. CASE /\ UNCHANGED <<rows, rpc, rby, rsnap, rrow>> /\ faults' \in Nat
           /\ channel' \in {channel, <<>>} \/ (channel # <<>> /\ channel' = Tail(channel))
  <2>1. RowsOK'
    BY <1>3 DEF IInv, TypeOK, RowsOK
  <2>2. channel \in Seq(Restore)
    BY DEF IInv, TypeOK, RestoreOK
  <2>3. PICK d \in {0, 1} : \A k \in 1 .. Len(channel') :
              k + d \in 1 .. Len(channel) /\ channel'[k] = channel[k + d]
    BY <1>3, <2>2, ChannelRest
  <2>4. channel' \in Seq(Restore)
    BY <1>3, <2>2, ChannelRest
  <2>5. RestoreOK'
    BY <1>3, <2>4 DEF IInv, TypeOK, RestoreOK
  <2>6. HasNewest'
    BY <1>3 DEF IInv, HasNewest, IsNewest, Committed
  <2>7. /\ \A k \in 1 .. Len(channel') : rpc'[channel'[k]] \in {"answer", "done"}
        /\ \A j, k \in 1 .. Len(channel') : channel'[j] = channel'[k] => j = k
    <3>1. /\ \A k \in 1 .. Len(channel) : rpc[channel[k]] \in {"answer", "done"}
          /\ \A j, k \in 1 .. Len(channel) : channel[j] = channel[k] => j = k
      BY DEF IInv, RowOfRestore
    <3>2. QED  BY <1>3, <2>3, <3>1
  <2>8. RowOfRestore'
    BY <1>3, <2>7 DEF IInv, RowOfRestore
  <2>9. QED  BY <2>1, <2>5, <2>6, <2>8 DEF RestoreInv
<1>4. QED  BY <1>1, <1>2, <1>3, OtherSteps DEF IInv

-----------------------------------------------------------------------------
(* Clones.                                                                 *)

\* A message handled or lost stays so; handling one makes it so.
LEMMA HandledMore ==
  ASSUME IInv, [Next]_vars
  PROVE  /\ Handled \subseteq Handled'
         /\ HandleRestore => Head(channel) \in Handled'
<1>1. /\ rpc \in [Restore -> {"idle", "insert", "commit", "publish", "answer", "done"}]
      /\ channel \in Seq(Restore)
      /\ \A k \in 1 .. Len(channel) : rpc[channel[k]] \in {"answer", "done"}
      /\ \A j, k \in 1 .. Len(channel) : channel[j] = channel[k] => j = k
  BY DEF IInv, TypeOK, RestoreOK, RowOfRestore
<1>2. CASE /\ UNCHANGED rpc
           /\ channel' \in {channel, <<>>} \/ (channel # <<>> /\ channel' = Tail(channel))
  <2>1. PICK d \in {0, 1} : \A k \in 1 .. Len(channel') :
              k + d \in 1 .. Len(channel) /\ channel'[k] = channel[k + d]
    BY <1>1, <1>2, ChannelRest
  <2>2. \A r \in Restore : Outstanding(r)' => Outstanding(r)
    BY <1>2, <2>1 DEF Outstanding
  <2>3. Handled \subseteq Handled'
    BY <1>2, <2>2 DEF Handled
  <2>4. ASSUME HandleRestore
        PROVE  Head(channel) \in Handled'
    <3>1. channel # <<>> /\ channel' = Tail(channel)
      BY <2>4 DEF HandleRestore
    <3>2. /\ Head(channel) \in Restore /\ Head(channel) = channel[1] /\ 1 \in 1 .. Len(channel)
          /\ Len(channel) \in Nat
      BY <1>1, <3>1
    <3>3. \A k \in 1 .. Len(channel') : k + 1 \in 1 .. Len(channel) /\ channel'[k] = channel[k + 1]
      <4>1. /\ Len(channel') = Len(channel) - 1
            /\ \A k \in 1 .. Len(channel') : channel'[k] = channel[k + 1]
        BY <1>1, <3>1, HeadTailProperties
      <4>2. QED  BY <3>2, <4>1
    <3>4. ASSUME NEW k \in 1 .. Len(channel'), channel'[k] = Head(channel)
          PROVE  FALSE
      <4>1. k \in Nat /\ k + 1 \in 1 .. Len(channel) /\ channel[k + 1] = channel[1]
        BY <3>2, <3>3, <3>4
      <4>2. k + 1 = 1
        BY <1>1, <3>2, <4>1
      <4>3. QED  BY <3>4, <4>2
    <3>5. rpc'[Head(channel)] \in {"answer", "done"}
      BY <1>1, <1>2, <3>2
    <3>6. QED  BY <3>2, <3>4, <3>5 DEF Handled, Outstanding
  <2>5. QED  BY <2>3, <2>4
<1>3. CASE StoreInsert
  <2>1. UNCHANGED <<rpc, channel>>
    BY <1>3 DEF StoreInsert, restoreVars
  <2>2. QED  BY <1>2, <2>1
<1>4. ASSUME NEW r \in Restore, RestoreStep(r)
      PROVE  Handled \subseteq Handled'
  <2>1. /\ rpc[r] \notin {"answer", "done"} \/ rpc'[r] = "done"
        /\ \A s \in Restore : s # r => rpc'[s] = rpc[s]
        /\ channel' = channel \/ (rpc[r] = "publish" /\ channel' = Append(channel, r))
    BY <1>1, <1>4 DEF RestoreStep, RestoreBegin, RestoreInsert, RestoreCommit, RestorePublish,
       RestoreUnheard, RestoreAnswer, RestoreAbandoned
  <2>2. ASSUME NEW s \in Restore, s \in Handled
        PROVE  s \in Handled'
    <3>1. rpc[s] \in {"answer", "done"} /\ \A k \in 1 .. Len(channel) : channel[k] # s
      BY <2>2 DEF Handled, Outstanding
    <3>2. rpc'[s] \in {"answer", "done"}
      BY <2>1, <3>1
    <3>3. \A k \in 1 .. Len(channel') : channel'[k] # s
      <4>1. CASE channel' = channel
        BY <3>1, <4>1
      <4>2. CASE rpc[r] = "publish" /\ channel' = Append(channel, r)
        <5>1. r # s
          BY <3>1, <4>2
        <5>2. /\ Len(channel') = Len(channel) + 1 /\ channel'[Len(channel) + 1] = r
              /\ \A k \in 1 .. Len(channel) : channel'[k] = channel[k]
          BY <1>1, <4>2
        <5>3. QED  BY <1>1, <3>1, <5>1, <5>2
      <4>3. QED  BY <2>1, <4>1, <4>2
    <3>4. QED  BY <3>2, <3>3 DEF Handled, Outstanding
  <2>3. QED  BY <2>2 DEF Handled
<1>5. ASSUME NEW r \in Restore, RestoreStep(r)
      PROVE  ~HandleRestore
  <2>1. rpc' # rpc
    BY <1>1, <1>5 DEF RestoreStep, RestoreBegin, RestoreInsert, RestoreCommit, RestorePublish,
       RestoreUnheard, RestoreAnswer, RestoreAbandoned
  <2>2. QED  BY <2>1 DEF HandleRestore, restoreVars
<1>6. QED  BY <1>2, <1>3, <1>4, <1>5, OtherSteps DEF IInv

\* No step makes a clone for a restore whose message is not handled.
LEMMA ClonesStep ==
  ASSUME IInv, [Next]_vars
  PROVE  ClonesMade'
<1> DEFINE H == Handled'
<1>1. /\ Good(doc) /\ Good(snap) /\ \A c \in Client : Good(replica[c])
      /\ \A r \in Restore : Good(rsnap[r])
      /\ replica \in [Client -> Doc] /\ rsnap \in [Restore -> Doc]
      /\ rby \in [Restore -> Client] /\ channel \in Seq(Restore)
      /\ rows \in Seq(Row)
  BY AllGood DEF IInv, TypeOK, ClientOK, RestoreOK, RowsOK
<1>2. Handled \subseteq H /\ (HandleRestore => Head(channel) \in H)
  BY HandledMore
<1> HIDE DEF H
<1>3. /\ MadeFor(doc, H) /\ MadeFor(snap, H) /\ MadeFor(Newest, H) /\ MadeFor(Empty, H)
      /\ \A c \in Client : MadeFor(replica[c], H)
      /\ \A k \in 1 .. Len(rows) : MadeFor(rows[k].snapshot, H)
      /\ \A r \in Restore : MadeFor(rsnap[r], H)
  BY <1>2, MadeMore, NewestGood, EmptyGood DEF IInv, ClonesMade
<1>4. \A k \in 1 .. Len(rows') : MadeFor(rows'[k].snapshot, H)
  <2>1. ASSUME NEW x, MadeFor(x.snapshot, H), x \in Row, rows' = Append(rows, x)
        PROVE  \A k \in 1 .. Len(rows') : MadeFor(rows'[k].snapshot, H)
    <3>1. /\ Len(rows') = Len(rows) + 1 /\ Len(rows) \in Nat
          /\ \A k \in 1 .. Len(rows) : rows'[k] = rows[k]
          /\ rows'[Len(rows) + 1] = x
      BY <1>1, <2>1, RowAdded
    <3>2. QED  BY <1>3, <2>1, <3>1
  <2>2. CASE StoreInsert
    <3> DEFINE x == [snapshot |-> snap, committed |-> TRUE]
    <3>1. x \in Row /\ MadeFor(x.snapshot, H) /\ rows' = Append(rows, x)
      BY <1>1, <1>3, <2>2 DEF StoreInsert, Row, Good
    <3>2. QED  BY <2>1, <3>1
  <2>3. ASSUME NEW r \in Restore, RestoreInsert(r)
        PROVE  \A k \in 1 .. Len(rows') : MadeFor(rows'[k].snapshot, H)
    <3> DEFINE x == [snapshot |-> rsnap[r], committed |-> FALSE]
    <3>1. x \in Row /\ MadeFor(x.snapshot, H) /\ rows' = Append(rows, x)
      BY <1>1, <1>3, <2>3 DEF RestoreInsert, Row, Good
    <3>2. QED  BY <2>1, <3>1
  <2>4. ASSUME NEW r \in Restore, RestoreCommit(r)
        PROVE  \A k \in 1 .. Len(rows') : MadeFor(rows'[k].snapshot, H)
    <3>1. rrow[r] \in 1 .. Len(rows)
      BY <2>4 DEF IInv, RowOfRestore, RestoreCommit
    <3>2. Len(rows') = Len(rows)
      BY <1>1, <2>4, <3>1, RowCommitted DEF RestoreCommit
    <3>3. \A k \in 1 .. Len(rows) : rows'[k].snapshot = rows[k].snapshot
      BY <2>4, RestoreCommitStep
    <3>4. QED  BY <1>3, <3>2, <3>3
  <2>5. CASE rows' = rows
    BY <1>3, <2>5
  <2>6. ASSUME NEW r \in Restore, RestoreStep(r)
        PROVE  \A k \in 1 .. Len(rows') : MadeFor(rows'[k].snapshot, H)
    BY <2>3, <2>4, <2>5, <2>6 DEF RestoreStep, RestoreBegin, RestorePublish, RestoreUnheard,
       RestoreAnswer, RestoreAbandoned
  <2>7. QED  BY <2>2, <2>5, <2>6, OtherSteps DEF IInv
<1>5. \A r \in Restore : MadeFor(rsnap'[r], H)
  <2>1. CASE rsnap' = rsnap
    BY <1>3, <2>1
  <2>2. ASSUME NEW r \in Restore, NEW k \in 1 .. Len(rows), RestoreBegin(r, k)
        PROVE  \A s \in Restore : MadeFor(rsnap'[s], H)
    BY <1>1, <1>3, <2>2 DEF RestoreBegin
  <2>3. ASSUME NEW r \in Restore, RestoreStep(r)
        PROVE  \A s \in Restore : MadeFor(rsnap'[s], H)
    BY <2>1, <2>2, <2>3 DEF RestoreStep, RestoreInsert, RestoreCommit, RestorePublish, RestoreUnheard,
       RestoreAnswer, RestoreAbandoned
  <2>4. CASE StoreInsert
    BY <2>1, <2>4 DEF StoreInsert, restoreVars
  <2>5. QED  BY <2>1, <2>3, <2>4, OtherSteps DEF IInv
<1>6. \A c \in Client : MadeFor(replica'[c], H)
  <2>1. ASSUME NEW c \in Client, NEW e, MadeFor(e, H), replica' = [replica EXCEPT ![c] = e]
        PROVE  \A d \in Client : MadeFor(replica'[d], H)
    BY <1>1, <1>3, <2>1
  <2>2. CASE replica' = replica
    BY <1>3, <2>2
  <2>3. ASSUME NEW c \in Client, NEW t \in Piece, Type(c, t)
        PROVE  \A d \in Client : MadeFor(replica'[d], H)
    <3> DEFINE e == [replica[c] EXCEPT !.ins = @ \union {[text |-> t, by |-> <<>>]}]
    <3>1. replica' = [replica EXCEPT ![c] = e]
      BY <2>3 DEF Type
    <3>2. e.ins = replica[c].ins \union {[text |-> t, by |-> <<>>]}
      BY <1>1 DEF Doc
    <3>3. MadeFor(replica[c], H)
      BY <1>3
    <3>4. MadeFor(e, H)
      BY <3>2, <3>3 DEF MadeFor
    <3>5. QED  BY <2>1, <3>1, <3>4
  <2>4. ASSUME NEW c \in Client, NEW i \in Visible(replica[c]), Erase(c, i)
        PROVE  \A d \in Client : MadeFor(replica'[d], H)
    <3> DEFINE e == [replica[c] EXCEPT !.del = @ \union {i}]
    <3>1. replica' = [replica EXCEPT ![c] = e]
      BY <2>4 DEF Erase
    <3>2. e.ins = replica[c].ins
      BY <1>1 DEF Doc
    <3>3. MadeFor(replica[c], H)
      BY <1>3
    <3>4. MadeFor(e, H)
      BY <3>2, <3>3 DEF MadeFor
    <3>5. QED  BY <2>1, <3>1, <3>4
  <2>5. ASSUME NEW c \in Client, Pull(c)
        PROVE  \A d \in Client : MadeFor(replica'[d], H)
    <3>1. MadeFor(Merge(doc, replica[c]), H)
      BY <1>3, MergeMade
    <3>2. replica' = [replica EXCEPT ![c] = Merge(doc, replica[c])]
      BY <2>5 DEF Pull
    <3>3. QED  BY <2>1, <3>1, <3>2
  <2>6. ASSUME NEW r \in Restore, RestoreAnswer(r)
        PROVE  \A d \in Client : MadeFor(replica'[d], H)
    <3> DEFINE by == <<r, "client">>
               e == Rewind(replica[rby[r]], rsnap[r], by)
    <3>1. rby[r] \in Client
      BY <1>1
    <3>2. by \in Restore \X {"server", "client"} /\ by[2] # "server"
      OBVIOUS
    <3>3. MadeFor(replica[rby[r]], H) /\ Good(rsnap[r])
      BY <1>1, <1>3, <3>1
    <3>4. replica' = [replica EXCEPT ![rby[r]] = e]
      BY <2>6 DEF RestoreAnswer
    <3> HIDE DEF by
    <3>5. MadeFor(e, H)
      BY <3>2, <3>3, RewindMade
    <3>6. QED  BY <2>1, <3>1, <3>4, <3>5
  <2>7. ASSUME NEW r \in Restore, RestoreStep(r)
        PROVE  \A d \in Client : MadeFor(replica'[d], H)
    BY <2>2, <2>6, <2>7 DEF RestoreStep, RestoreBegin, RestoreInsert, RestoreCommit, RestorePublish,
       RestoreUnheard, RestoreAbandoned, clientVars
  <2>8. ASSUME NEW c \in Client, Connect(c) \/ Disconnect(c) \/ Push(c)
        PROVE  replica' = replica
    BY <2>8 DEF Connect, Disconnect, Push, clientVars
  <2>9. CASE Load \/ Unload \/ Store \/ StoreFails \/ FiveSeconds \/ PoolReady \/ PoolError
             \/ HandleRestore \/ SyncCrash \/ UNCHANGED vars
    BY <2>2, <2>9 DEF Load, LoadSelect, LoadApply, LoadNothing, LoadFails, Unload, Store, StoreBegin, StoreSelect, StoreInsert, StoreFails, FiveSeconds,
       PoolReady, PoolError, HandleRestore, SyncCrash, clientVars, vars
  <2>10. QED  BY <2>2, <2>3, <2>4, <2>5, <2>7, <2>8, <2>9 DEF Next, Edit, Sync
<1>7. MadeFor(doc', H) /\ MadeFor(snap', H)
  <2>1. CASE UNCHANGED <<doc, snap>>
    BY <1>3, <2>1
  <2>2. CASE Load
    BY <1>3, <2>2 DEF Load, LoadSelect, LoadApply, LoadNothing, LoadFails, storeVars
  <2>3. ASSUME NEW c \in Client, Push(c)
        PROVE  MadeFor(doc', H) /\ MadeFor(snap', H)
    BY <1>3, <2>3, MergeMade DEF Push, storeVars
  <2>4. CASE HandleRestore
    <3> DEFINE h == Head(channel)
               by == <<h, "server">>
    <3>1. h \in Restore /\ h \in H
      BY <1>1, <1>2, <2>4 DEF HandleRestore
    <3>2. by \in Restore \X {"server", "client"} /\ by[1] \in H
      BY <3>1
    <3>3. doc' \in {doc, Rewind(doc, rsnap[h], by)} /\ snap' = snap
      BY <2>4 DEF HandleRestore, storeVars
    <3>4. Good(rsnap[h])
      BY <1>1, <3>1
    <3> HIDE DEF by
    <3>5. MadeFor(Rewind(doc, rsnap[h], by), H)
      BY <1>3, <3>2, <3>4, RewindMade
    <3>6. QED  BY <1>3, <3>3, <3>5
  <2>5. CASE StoreBegin
    BY <1>3, <2>5 DEF StoreBegin
  <2>6. CASE Unload \/ SyncCrash
    BY <1>3, <2>6 DEF Unload, SyncCrash, storeVars
  <2>7. ASSUME NEW c \in Client, Connect(c) \/ Disconnect(c) \/ Pull(c)
        PROVE  UNCHANGED <<doc, snap>>
    BY <2>7 DEF Connect, Disconnect, Pull, serverVars, storeVars
  <2>8. CASE Edit \/ StoreSelect \/ StoreInsert \/ StoreFails \/ FiveSeconds \/ PoolReady \/ PoolError
             \/ UNCHANGED vars
    BY <2>1, <2>8 DEF Edit, Type, Erase, StoreSelect, StoreInsert, StoreFails, FiveSeconds, PoolReady,
       PoolError, serverVars, storeVars, vars
  <2>9. ASSUME NEW r \in Restore, RestoreStep(r)
        PROVE  UNCHANGED <<doc, snap>>
    BY <2>9 DEF RestoreStep, RestoreBegin, RestoreInsert, RestoreCommit, RestorePublish,
       RestoreUnheard, RestoreAnswer, RestoreAbandoned, serverVars, storeVars
  <2>10. QED  BY <2>1, <2>2, <2>3, <2>4, <2>5, <2>6, <2>7, <2>8, <2>9 DEF Next, Sync, Store
<1>8. QED  BY <1>4, <1>5, <1>6, <1>7 DEF ClonesMade, H

-----------------------------------------------------------------------------
(* The newest version and the live document.                               *)

\* Nothing to account for, or the same as before.
LEMMA Excused ==
  ASSUME (~live' /\ ~loading') \/ gap' \/ pending'
  PROVE  Accounted'
  BY DEF Accounted

\* Nothing changed for the live text and the newest row.
LEMMA StillAccounted ==
  ASSUME Accounted, UNCHANGED <<live, loading, gap, pending, spc, doc, snap>>, Newest' = Newest,
         \A r \in Restore : Outstanding(r) /\ IsNewest(rrow[r]) => Outstanding(r)' /\ IsNewest(rrow[r])'
  PROVE  Accounted'
  BY DEF Accounted, Text, Visible

\* The same rows have the same newest one.
LEMMA SameRows ==
  ASSUME UNCHANGED rows
  PROVE  Newest' = Newest /\ Committed' = Committed /\ \A k : IsNewest(k) => IsNewest(k)'
  BY DEF Newest, Committed, IsNewest

\* The restore steps keep the newest row or make it that of a restore under way.
LEMMA RestoreAccounted ==
  ASSUME IInv, NEW r \in Restore, RestoreStep(r)
  PROVE  Accounted'
<1>1. /\ rpc \in [Restore -> {"idle", "insert", "commit", "publish", "answer", "done"}]
      /\ rrow \in [Restore -> 0 .. Len(rows)] /\ channel \in Seq(Restore)
      /\ \A k \in 1 .. Len(channel) : rpc[channel[k]] \in {"answer", "done"}
  BY DEF IInv, TypeOK, RestoreOK, RowOfRestore
<1>2. Accounted
  BY DEF IInv
<1>3. CASE RestoreUnheard(r)
  BY <1>3, Excused DEF RestoreUnheard
<1>4. UNCHANGED <<live, loading, pending, spc, doc, snap>> /\ (~RestoreUnheard(r) => UNCHANGED gap)
  BY DEF RestoreStep, RestoreBegin, RestoreInsert, RestoreCommit, RestorePublish, RestoreUnheard,
     RestoreAnswer, RestoreAbandoned, serverVars, storeVars
<1>5. ASSUME rpc[r] # "publish", rpc' = [rpc EXCEPT ![r] = rpc'[r]], UNCHANGED channel
      PROVE  \A s \in Restore : Outstanding(s) => Outstanding(s)'
  BY <1>1, <1>5 DEF Outstanding
<1>6. ASSUME NEW k \in 1 .. Len(rows), RestoreBegin(r, k)
      PROVE  Accounted'
  <2>1. \A s \in Restore : Outstanding(s) => Outstanding(s)'
    BY <1>1, <1>5, <1>6 DEF RestoreBegin
  <2>2. UNCHANGED <<rows, rrow, gap>>
    BY <1>6 DEF RestoreBegin
  <2>3. QED  BY <1>2, <1>4, <2>1, <2>2, SameRows, StillAccounted DEF IsNewest, Committed
<1>7. CASE RestoreInsert(r)
  <2>1. \A s \in Restore : Outstanding(s) => Outstanding(s)'
    BY <1>1, <1>5, <1>7 DEF RestoreInsert
  <2>2. ~Outstanding(r)
    BY <1>1, <1>7 DEF RestoreInsert, Outstanding
  <2>3. Committed' = Committed /\ Committed \subseteq 1 .. Len(rows)
    BY <1>7, RestoreInsertStep DEF Committed
  <2>4. \A k \in 1 .. Len(rows) : rows'[k] = rows[k]
    <3>1. [snapshot |-> rsnap[r], committed |-> FALSE] \in Row
      BY DEF IInv, TypeOK, RestoreOK, Row
    <3>2. QED  BY <1>7, <3>1, RowAdded DEF RestoreInsert, IInv, TypeOK, RowsOK
  <2>5. \A k : IsNewest(k) => IsNewest(k)'
    BY <2>3 DEF IsNewest
  <2>6. Newest' = Newest
    <3>1. CASE Committed = {}
      BY <2>3, <3>1 DEF Newest
    <3>2. ASSUME NEW k \in Committed, IsNewest(k)
          PROVE  Newest' = Newest
      BY <2>3, <2>4, <2>5, <3>2, NewestNow, NewestNext
    <3>3. QED  BY <3>1, <3>2 DEF IInv, HasNewest
  <2>7. \A s \in Restore : s # r => rrow'[s] = rrow[s]
    BY <1>1, <1>7 DEF RestoreInsert
  <2>8. \A s \in Restore : Outstanding(s) /\ IsNewest(rrow[s]) => Outstanding(s)' /\ IsNewest(rrow[s])'
    <3>1. ASSUME NEW s \in Restore, Outstanding(s), IsNewest(rrow[s])
          PROVE  Outstanding(s)' /\ IsNewest(rrow[s])'
      <4>1. rrow'[s] = rrow[s]
        BY <2>2, <2>7, <3>1
      <4>2. rrow'[s] \in Committed' /\ \A j \in Committed' : j <= rrow'[s]
        BY <2>3, <3>1, <4>1 DEF IsNewest
      <4>3. QED  BY <2>1, <3>1, <4>2 DEF IsNewest
    <3>2. QED  BY <3>1
  <2>9. UNCHANGED gap
    BY <1>7 DEF RestoreInsert
  <2>10. QED  BY <1>2, <1>4, <2>6, <2>8, <2>9, StillAccounted
<1>8. CASE RestoreCommit(r)
  <2>1. \A s \in Restore : Outstanding(s) => Outstanding(s)'
    BY <1>1, <1>5, <1>8 DEF RestoreCommit
  <2>2. Outstanding(r)'
    BY <1>1, <1>8 DEF RestoreCommit, Outstanding
  <2>3. PICK n \in Nat : n = rrow[r] /\ Committed' = Committed \union {n}
    BY <1>8, RestoreCommitStep
  <2>4. UNCHANGED <<rrow, gap>>
    BY <1>8 DEF RestoreCommit
  <2>5. Committed \subseteq 1 .. Len(rows) /\ \A k \in 1 .. Len(rows) : rows'[k].snapshot = rows[k].snapshot
    BY <1>8, RestoreCommitStep DEF Committed
  <2>6. CASE \A k \in Committed : k <= n
    <3>1. rrow'[r] \in Committed' /\ \A j \in Committed' : j <= rrow'[r]
      BY <2>3, <2>4, <2>6
    <3>2. IsNewest(rrow[r])'
      BY <3>1 DEF IsNewest
    <3>3. spc = "idle" => Accounted'
      BY <1>4, <2>2, <3>2 DEF Accounted
    <3>4. spc # "idle" => Accounted'
      BY <1>2, <1>4, <2>4 DEF Accounted, Text, Visible
    <3>5. QED  BY <3>3, <3>4
  <2>7. ASSUME NEW m \in Committed, IsNewest(m), n <= m
        PROVE  Accounted'
    <3>1. IsNewest(m)'
      BY <2>3, <2>7, NewestAmong
    <3>2. Newest' = Newest
      BY <2>5, <2>7, <3>1, NewestNow, NewestNext
    <3>3. \A s \in Restore : IsNewest(rrow[s]) => IsNewest(rrow[s])'
      <4>1. ASSUME NEW s \in Restore, IsNewest(rrow[s])
            PROVE  IsNewest(rrow[s])'
        <5>1. rrow[s] = m
          <6>1. rrow[s] \in Committed /\ rrow[s] <= m /\ m <= rrow[s]
            BY <2>7, <4>1 DEF IsNewest
          <6>2. rrow[s] \in Nat /\ m \in Nat
            BY <6>1 DEF Committed
          <6>3. QED  BY <6>1, <6>2
        <5>2. rrow'[s] = m
          BY <2>4, <5>1
        <5>3. QED  BY <3>1, <5>2 DEF IsNewest
      <4>2. QED  BY <4>1
    <3>4. QED  BY <1>2, <1>4, <2>1, <2>4, <3>2, <3>3, StillAccounted
  <2>8. CASE \E k \in Committed : ~(k <= n)
    <3>1. PICK m \in Committed : IsNewest(m)
      BY <2>8 DEF IInv, HasNewest
    <3>2. n <= m
      BY <2>5, <2>8, <3>1 DEF IsNewest
    <3>3. QED  BY <2>7, <3>1, <3>2
  <2>9. QED  BY <2>6, <2>8
<1>9. CASE RestorePublish(r)
  <2>1. rpc[r] = "publish" /\ rpc' = [rpc EXCEPT ![r] = "answer"] /\ channel' = Append(channel, r)
        /\ UNCHANGED <<rows, rrow, gap>>
    BY <1>9 DEF RestorePublish
  <2>2. /\ Len(channel') = Len(channel) + 1 /\ Len(channel) \in Nat /\ channel'[Len(channel) + 1] = r
        /\ \A k \in 1 .. Len(channel) : channel'[k] = channel[k]
    BY <1>1, <2>1
  <2>3. \A s \in Restore : Outstanding(s) => Outstanding(s)'
    BY <1>1, <2>1, <2>2 DEF Outstanding
  <2>4. QED  BY <1>2, <1>4, <2>1, <2>3, SameRows, StillAccounted DEF IsNewest, Committed
<1>10. CASE RestoreAnswer(r) \/ RestoreAbandoned(r)
  <2>1. rpc[r] = "answer" /\ rpc' = [rpc EXCEPT ![r] = "done"] /\ UNCHANGED <<channel, rows, rrow, gap>>
    BY <1>10 DEF RestoreAnswer, RestoreAbandoned
  <2>2. \A s \in Restore : Outstanding(s) => Outstanding(s)'
    BY <1>1, <1>5, <2>1
  <2>3. QED  BY <1>2, <1>4, <2>1, <2>2, SameRows, StillAccounted DEF IsNewest, Committed
<1>11. QED  BY <1>3, <1>6, <1>7, <1>8, <1>9, <1>10 DEF RestoreStep

\* Handling a message that changes nothing means that both texts are empty.
LEMMA HandleAccounted ==
  ASSUME IInv, HandleRestore
  PROVE  Accounted'
<1> DEFINE h == Head(channel)
           by == <<h, "server">>
<1>1. /\ channel # <<>> /\ channel' = Tail(channel) /\ channel \in Seq(Restore)
      /\ UNCHANGED <<live, loading, spc, snap, rows, rrow, rpc>>
  BY DEF HandleRestore, IInv, TypeOK, RestoreOK, storeVars, restoreVars
<1>2. h \in Restore /\ h = channel[1] /\ 1 \in 1 .. Len(channel)
  BY <1>1
<1>3. CASE ~live
  <2>1. UNCHANGED <<doc, pending>> /\ gap' = (gap \/ (loading /\ doc # Newest))
    BY <1>3 DEF HandleRestore
  <2>2. CASE ~loading \/ gap \/ doc # Newest
    BY <1>1, <1>3, <2>1, <2>2, Excused
  <2>3. CASE doc = Newest
    <3>1. Newest' = doc'
      BY <1>1, <2>1, <2>3, SameRows
    <3>2. spc' = "idle"
      BY <1>1, <1>3 DEF IInv, TypeOK, ServerOK
    <3>3. QED  BY <3>1, <3>2 DEF Accounted
  <2>4. QED  BY <2>2, <2>3
<1>4. CASE live /\ doc' # doc
  BY <1>4, Excused DEF HandleRestore
<1>5. CASE live /\ doc' = doc
  <2>1. Rewind(doc, rsnap[h], by) = doc /\ pending' = pending /\ gap' = gap
    BY <1>5 DEF HandleRestore, IInv, TypeOK, ServerOK
  <2>2. h \notin Handled
    BY <1>2 DEF Handled, Outstanding
  <2>3. MadeFor(doc, Handled) /\ Good(rsnap[h])
    BY <1>2, AllGood DEF IInv, ClonesMade
  <2>4. Text(rsnap[h]) = Text(doc)
    BY <1>2, <2>1, <2>2, <2>3, RewindSame
  <2>5. Newest' = Newest /\ \A k : IsNewest(k) => IsNewest(k)'
    BY <1>1, SameRows
  <2>6. \A s \in Restore \ {h} : Outstanding(s) => Outstanding(s)'
    <3>1. ASSUME NEW s \in Restore \ {h}, NEW k \in 1 .. Len(channel), channel[k] = s
          PROVE  Outstanding(s)'
      <4>1. /\ Len(channel') = Len(channel) - 1
            /\ \A i \in 1 .. Len(channel') : channel'[i] = channel[i + 1]
        BY <1>1, HeadTailProperties
      <4>2. k # 1 /\ k \in Nat /\ Len(channel) \in Nat
        BY <1>1, <1>2, <3>1
      <4>3. k - 1 \in 1 .. Len(channel') /\ channel'[k - 1] = s
        BY <3>1, <4>1, <4>2
      <4>4. QED  BY <4>3 DEF Outstanding
    <3>2. QED  BY <1>1, <3>1 DEF Outstanding
  <2>7. ASSUME IsNewest(rrow[h])
        PROVE  Text(Newest) = Text(doc)
    <3>1. rpc[h] \in {"answer", "done"}
      BY <1>2 DEF IInv, RowOfRestore
    <3>2. rows[rrow[h]].snapshot = rsnap[h]
      BY <1>2, <3>1 DEF IInv, RowOfRestore
    <3>3. QED  BY <2>4, <2>7, <3>2, NewestNow
  <2>8. CASE Text(Newest) = Text(doc)
    BY <1>1, <1>5, <2>1, <2>5, <2>8 DEF Accounted, IInv, Text, Visible
  <2>9. CASE Text(Newest) # Text(doc)
    <3>1. \A s \in Restore : Outstanding(s) /\ IsNewest(rrow[s]) => Outstanding(s)' /\ IsNewest(rrow[s])'
      BY <1>1, <2>5, <2>6, <2>7, <2>9 DEF IsNewest, Committed
    <3>2. QED  BY <1>1, <1>5, <2>1, <2>5, <3>1, StillAccounted DEF IInv
  <2>10. QED  BY <2>8, <2>9
<1>6. QED  BY <1>3, <1>4, <1>5

\* Every step accounts for the live text.
LEMMA AccountedStep ==
  ASSUME IInv, [Next]_vars
  PROVE  Accounted'
<1>1. Accounted
  BY DEF IInv
<1>2. CASE UNCHANGED <<live, loading, gap, pending, spc, doc, snap, rows, rrow, rpc, channel>>
  <2>1. \A r \in Restore : Outstanding(r) /\ IsNewest(rrow[r]) => Outstanding(r)' /\ IsNewest(rrow[r])'
    BY <1>2 DEF Outstanding, IsNewest, Committed
  <2>2. QED  BY <1>1, <1>2, <2>1, SameRows, StillAccounted
<1>3. CASE Edit \/ FiveSeconds \/ PoolReady \/ PoolError \/ UNCHANGED vars
  BY <1>2, <1>3 DEF Edit, Type, Erase, FiveSeconds, PoolReady, PoolError, serverVars, storeVars,
     restoreVars, vars
<1>4. ASSUME NEW c \in Client, Connect(c) \/ Disconnect(c) \/ Pull(c)
      PROVE  Accounted'
  BY <1>2, <1>4 DEF Connect, Disconnect, Pull, serverVars, storeVars, restoreVars
<1>5. ASSUME NEW c \in Client, Push(c)
      PROVE  Accounted'
  BY <1>5, Excused DEF Push
<1>6. CASE Unload \/ SyncCrash \/ StoreFails
  BY <1>6, Excused DEF Unload, SyncCrash, StoreFails, IInv, TypeOK, ServerOK
<1>7. CASE Load
  <2>1. CASE LoadSelect
    <3>1. doc' = Newest /\ spc' = "idle" /\ Newest' = Newest
      BY <2>1, SameRows DEF LoadSelect, storeVars, IInv, TypeOK, ServerOK
    <3>2. Text(Newest)' = Text(doc)'
      BY <3>1 DEF Text, Visible
    <3>3. QED  BY <3>1, <3>2 DEF Accounted
  <2>2. CASE LoadApply
    <3>1. /\ loading /\ UNCHANGED <<gap, pending, spc, doc, snap, rows, rrow, rpc, channel>>
      BY <2>2 DEF LoadApply, storeVars, restoreVars
    <3>2. spc = "idle"
      BY <2>2 DEF LoadApply, IInv, TypeOK, ServerOK
    <3>3. CASE gap \/ pending
      BY <3>1, <3>3, Excused
    <3>4. CASE Text(Newest) = Text(doc)
      BY <3>1, <3>2, <3>4, SameRows DEF Accounted, Text, Visible
    <3>5. ASSUME NEW r \in Restore, Outstanding(r), IsNewest(rrow[r])
          PROVE  Accounted'
      <4>1. Outstanding(r)' /\ IsNewest(rrow[r])'
        BY <3>1, <3>5 DEF Outstanding, IsNewest, Committed
      <4>2. QED  BY <3>1, <3>2, <4>1 DEF Accounted
    <3>6. QED  BY <1>1, <3>1, <3>2, <3>3, <3>4, <3>5 DEF Accounted
  <2>3. CASE LoadNothing \/ LoadFails
    BY <2>3, Excused DEF LoadNothing, LoadFails
  <2>4. QED  BY <1>7, <2>1, <2>2, <2>3 DEF Load
<1>8. CASE StoreBegin
  <2>1. CASE gap'
    BY <2>1, Excused
  <2>2. CASE ~gap'
    <3>1. spc' = "select" /\ snap' = doc /\ doc' = doc
      BY <1>8, <2>2 DEF StoreBegin
    <3>2. QED  BY <3>1 DEF Accounted, Text, Visible
  <2>3. QED  BY <2>1, <2>2
<1>9. CASE StoreSelect
  <2>1. UNCHANGED <<live, loading, gap, pending, doc, snap>> /\ Newest' = Newest /\ spc # "idle"
    BY <1>9, SameRows DEF StoreSelect, serverVars
  <2>2. CASE spc' = "idle"
    <3>1. Newest = snap
      BY <1>9, <2>2 DEF StoreSelect
    <3>2. QED  BY <1>1, <2>1, <2>2, <3>1 DEF Accounted, Text, Visible
  <2>3. CASE spc' # "idle"
    BY <1>1, <2>1, <2>3 DEF Accounted, Text, Visible
  <2>4. QED  BY <2>2, <2>3
<1>10. CASE StoreInsert
  <2>1. PICK m \in Nat : IsNewest(m)' /\ rows'[m].snapshot = snap
    BY <1>10, StoreInsertStep
  <2>2. Newest' = snap
    BY <2>1, NewestNext
  <2>3. spc = "insert" /\ spc' = "idle" /\ UNCHANGED <<live, loading, gap, pending, doc, snap>>
    BY <1>10 DEF StoreInsert, serverVars
  <2>4. QED  BY <1>1, <2>2, <2>3 DEF Accounted, Text, Visible
<1>11. CASE HandleRestore
  BY <1>11, HandleAccounted
<1>12. ASSUME NEW r \in Restore, RestoreStep(r)
       PROVE  Accounted'
  BY <1>12, RestoreAccounted
<1>13. QED
  BY <1>3, <1>4, <1>5, <1>6, <1>7, <1>8, <1>9, <1>10, <1>11, <1>12 DEF Next, Sync, Store

-----------------------------------------------------------------------------
(* The theorems.                                                           *)

\* The inductive invariant holds before anyone connects.
LEMMA VersionsInit ==
  ASSUME Init, VersionStoreAssumption
  PROVE  IInv
<1>1. <<>> \in Seq(Row) /\ <<>> \in Seq(Restore) /\ Len(<<>>) = 0
  OBVIOUS
<1>2. rows = <<>> /\ channel = <<>> /\ 1 .. Len(rows) = {} /\ 1 .. Len(channel) = {}
  BY <1>1 DEF Init
<1>3. Committed = {}
  BY <1>2 DEF Committed
<1>4. Empty \in Doc /\ Empty.del \subseteq Empty.ins /\ \A R : MadeFor(Empty, R)
  BY EmptyGood DEF Good
<1>5. ClientOK
  BY <1>4 DEF Init, ClientOK
<1>6. ServerOK
  BY <1>4 DEF Init, ServerOK
<1>7. RowsOK
  BY <1>1, <1>2 DEF RowsOK
<1>8. RestoreOK
  BY <1>1, <1>2, <1>4 DEF Init, RestoreOK
<1>9. HasNewest /\ RowOfRestore
  BY <1>2, <1>3 DEF Init, HasNewest, RowOfRestore
<1>10. ClonesMade
  BY <1>2, <1>4 DEF Init, ClonesMade
<1>11. Accounted
  BY DEF Init, Accounted
<1>12. QED  BY <1>5, <1>6, <1>7, <1>8, <1>9, <1>10, <1>11 DEF IInv, TypeOK

\* The inductive invariant holds in every state that the program reaches.
THEOREM VersionsInductive == Spec => []IInv
<1>1. Init => IInv
  BY VersionStoreAssumption, VersionsInit
<1>2. IInv /\ [Next]_vars => IInv'
  BY ClientStep, ServerStep, RestoreStepKeeps, ClonesStep, AccountedStep DEF IInv, TypeOK, RestoreInv
<1>3. QED  BY <1>1, <1>2, PTL DEF Spec

\* Replicas, live document, rows and restore requests are what the code can
\* produce (TypeOK).
THEOREM VersionsTypeCorrect == Spec => []TypeOK
<1>1. IInv => TypeOK
  BY DEF IInv
<1>2. QED  BY <1>1, VersionsInductive, PTL

\* onStoreDocument and a restore leave no way to fall behind the live document
\* but those that NewestIsLive names, however many clients and restores there are.
THEOREM VersionsNewestIsLive == Spec => []NewestIsLive
<1>1. IInv => NewestIsLive
  <2>1. SUFFICES ASSUME IInv, AtRest, ~gap
                 PROVE  Text(Newest) = Text(doc)
    BY DEF NewestIsLive
  <2>2. \A r \in Restore : ~Outstanding(r)
    BY <2>1 DEF AtRest, Outstanding
  <2>3. QED  BY <2>1, <2>2 DEF AtRest, IInv, Accounted
<1>2. QED  BY <1>1, VersionsInductive, PTL
=============================================================================
