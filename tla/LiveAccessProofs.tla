-------------------------- MODULE LiveAccessProofs --------------------------
(***************************************************************************)
(* Proofs about LiveAccess, for every set of users, requests and sessions  *)
(* and for every number of failures.                                       *)
(***************************************************************************)
EXTENDS LiveAccess, TLAPS

Written == {"publish", "done", "error"}

\* A row belongs to the user of the request that inserted it, and a request
\* that will change a row is about the row's user.
RowInv ==
  \A q \in Request :
    /\ holder[q] # NoUser => holder[q] = quser[q] /\ qpc[q] \in Written
    /\ qpc[q] \in {"update", "delete"} =>
         quser[qrow[q]] = quser[q] /\ qpc[qrow[q]] \in Written

\* A session that is still loading is backed as long as nobody changes its rows.
LoadingBacked == \A s \in Session : spc[s] = "loading" /\ s \notin excused => Backed(s)

IInv == TypeOK /\ RowInv /\ LoadingBacked /\ CutOff

-----------------------------------------------------------------------------
(* Type correctness.                                                       *)

\* A statement of share or revoke keeps the types, executed or not.
LEMMA ExecuteType ==
  ASSUME TableOK, RequestOK, NEW q \in Request, Execute(q), deleted' = deleted
  PROVE  TableOK'
<1>. USE LiveAccessAssumption
<1>1. CASE qpc[q] = "insert" /\ holder' = [holder EXCEPT ![q] = quser[q]]
           /\ role' = [role EXCEPT ![q] = qrole[q]]
  BY <1>1 DEF TableOK, RequestOK, Role
<1>2. CASE /\ qpc[q] = "update" /\ holder[qrow[q]] # NoUser
           /\ role' = [role EXCEPT ![qrow[q]] = qrole[q]] /\ UNCHANGED holder
  BY <1>2 DEF TableOK, RequestOK, Role
<1>3. CASE /\ qpc[q] = "delete" /\ holder' = [holder EXCEPT ![qrow[q]] = NoUser]
           /\ role' = [role EXCEPT ![qrow[q]] = "none"]
  BY <1>3 DEF TableOK, RequestOK
<1>. QED  BY <1>1, <1>2, <1>3 DEF Execute

\* The types hold when the system starts.
LEMMA TypeInit == Init => TypeOK
<1>. SUFFICES ASSUME Init PROVE TypeOK
  OBVIOUS
<1>1. TableOK
  BY DEF Init, TableOK
<1>2. RequestOK
  BY DEF Init, RequestOK
<1>3. LinkOK
  <2>1. channel \in Seq(Message) /\ losses \in Nat
    BY DEF Init
  <2>2. link \in BOOLEAN
    BY DEF Init
  <2>. QED  BY <2>1, <2>2 DEF LinkOK
<1>4. SessionOK
  BY DEF Init, SessionOK
<1>. QED  BY <1>1, <1>2, <1>3, <1>4 DEF TypeOK

\* The statements of share, revoke and soft delete keep the types.
LEMMA RequestType ==
  ASSUME TypeOK, NEW q \in Request,
         \/ \E u \in User, r \in Role : Share(q, u, r)
         \/ \E i \in Request : Revoke(q, i)
         \/ RequestStep(q)
         \/ RequestFails(q)
  PROVE  TypeOK'
<1>. USE DEF TypeOK
<1>1. CASE \E u \in User, r \in Role : Share(q, u, r)
  BY <1>1 DEF Share, permVars, linkVars, sessionVars, TableOK, RequestOK, LinkOK, SessionOK, RowsOf
<1>2. CASE \E i \in Request : Revoke(q, i)
  BY <1>2 DEF Revoke, permVars, linkVars, sessionVars, TableOK, RequestOK, LinkOK, SessionOK
<1>3. CASE Write(q)
  <2>1. TableOK'
    BY <1>3, ExecuteType DEF Write
  <2>2. RequestOK'
    BY <1>3 DEF Write, Execute, RequestOK
  <2>3. LinkOK' /\ SessionOK'
    BY <1>3 DEF Write, linkVars, sessionVars, LinkOK, SessionOK, Overtaken
  <2>. QED  BY <2>1, <2>2, <2>3
<1>4. CASE RowGone(q)
  BY <1>4 DEF RowGone, permVars, linkVars, sessionVars, TableOK, RequestOK, LinkOK, SessionOK
<1>5. CASE Publish(q)
  <2>1. [user |-> quser[q], role |-> qrole[q]] \in Message
    BY <1>5 DEF Publish, RequestOK, Message
  <2>2. LinkOK'
    BY <1>5, <2>1 DEF Publish, LinkOK
  <2>. QED  BY <1>5, <2>2 DEF Publish, permVars, sessionVars, TableOK, RequestOK, SessionOK, Targets
<1>6. CASE RequestFails(q)
  <2>1. TableOK'
    BY <1>6, ExecuteType DEF RequestFails, TableOK
  <2>2. RequestOK'
    BY <1>6 DEF RequestFails, RequestOK
  <2>3. LinkOK' /\ SessionOK'
    BY <1>6 DEF RequestFails, linkVars, sessionVars, LinkOK, SessionOK, Overtaken, Targets
  <2>. QED  BY <2>1, <2>2, <2>3
<1>. QED  BY <1>1, <1>2, <1>3, <1>4, <1>5, <1>6 DEF RequestStep

\* The hooks of a connection keep the types.
LEMMA SessionType ==
  ASSUME TypeOK, NEW s \in Session,
         (\E u \in User : Authenticate(s, u)) \/ Connected(s) \/ Disconnect(s)
  PROVE  TypeOK'
<1>. USE DEF TypeOK
<1>1. CASE \E u \in User : Authenticate(s, u)
  <2>. PICK u \in User : Authenticate(s, u)
    BY <1>1
  <2>1. PICK i \in RowsOf(u) : srole' = [srole EXCEPT ![s] = role[i]]
    BY DEF Authenticate
  <2>2. role[i] \in Role
    BY <2>1, LiveAccessAssumption DEF RowsOf, TableOK
  <2>. QED  BY <2>1, <2>2 DEF Authenticate, permVars, requestVars, linkVars, TableOK, RequestOK,
                              LinkOK, SessionOK
<1>2. CASE Connected(s)
  BY <1>2 DEF Connected, permVars, requestVars, linkVars, TableOK, RequestOK, LinkOK, SessionOK
<1>3. CASE Disconnect(s)
  BY <1>3 DEF Disconnect, permVars, requestVars, linkVars, TableOK, RequestOK, LinkOK, SessionOK
<1>. QED  BY <1>1, <1>2, <1>3

\* An empty channel is a channel.
LEMMA EmptyChannel == <<>> \in Seq(Message)
OBVIOUS

\* Messages, subscription, restart and soft delete keep the types.
LEMMA ServerType ==
  ASSUME TypeOK, HandleMessage \/ LoseLink \/ Subscribe \/ SyncCrash \/ SoftDelete
  PROVE  TypeOK'
<1>. USE DEF TypeOK, permVars, requestVars, sessionVars, linkVars
<1>1. CASE HandleMessage
  <2>1. channel' \in Seq(Message)
    BY <1>1 DEF HandleMessage, LinkOK
  <2>2. LinkOK'
    BY <1>1, <2>1 DEF HandleMessage, LinkOK
  <2>3. SessionOK'
    <3>1. PICK hit : spc' = [s \in Session |-> IF s \in hit THEN "idle" ELSE spc[s]]
      BY <1>1 DEF HandleMessage
    <3>. QED  BY <1>1, <3>1 DEF HandleMessage, SessionOK
  <2>4. TableOK' /\ RequestOK'
    BY <1>1 DEF HandleMessage, TableOK, RequestOK
  <2>. QED  BY <2>2, <2>3, <2>4
<1>2. CASE LoseLink
  <2>1. \A k \in 1 .. Len(channel) : Targets(channel[k].user, channel[k].role) \subseteq Session
    BY DEF Targets
  <2>2. UNION {Targets(channel[k].user, channel[k].role) : k \in 1 .. Len(channel)} \subseteq Session
    BY <2>1
  <2>3. excused' \subseteq Session
    BY <1>2, <2>2 DEF LoseLink, SessionOK
  <2>4. LinkOK'
    <3>1. channel' = <<>> /\ link' = FALSE /\ losses' = losses + 1
      BY <1>2 DEF LoseLink
    <3>2. channel' \in Seq(Message)
      BY <3>1, EmptyChannel, Zenon
    <3>3. link' \in BOOLEAN
      BY <3>1, Zenon
    <3>4. losses' \in Nat
      BY <3>1 DEF LinkOK
    <3>. QED  BY <3>2, <3>3, <3>4 DEF LinkOK
  <2>5. TableOK' /\ RequestOK'
    BY <1>2 DEF LoseLink, TableOK, RequestOK
  <2>6. SessionOK'
    BY <1>2, <2>3 DEF LoseLink, SessionOK
  <2>. QED  BY <2>4, <2>5, <2>6
<1>3. CASE Subscribe
  BY <1>3 DEF Subscribe, TableOK, RequestOK, LinkOK, SessionOK
<1>4. CASE SyncCrash
  <2>1. LinkOK'
    <3>1. channel' = <<>> /\ link' = FALSE /\ losses' = losses + 1
      BY <1>4 DEF SyncCrash
    <3>2. channel' \in Seq(Message)
      BY <3>1, EmptyChannel, Zenon
    <3>3. link' \in BOOLEAN
      BY <3>1, Zenon
    <3>4. losses' \in Nat
      BY <3>1 DEF LinkOK
    <3>. QED  BY <3>2, <3>3, <3>4 DEF LinkOK
  <2>2. TableOK' /\ RequestOK'
    BY <1>4 DEF SyncCrash, TableOK, RequestOK
  <2>3. SessionOK'
    BY <1>4 DEF SyncCrash, SessionOK
  <2>. QED  BY <2>1, <2>2, <2>3
<1>5. CASE SoftDelete
  BY <1>5 DEF SoftDelete, TableOK, RequestOK, LinkOK, SessionOK
<1>. QED  BY <1>1, <1>2, <1>3, <1>4, <1>5

\* Every step keeps the types.
LEMMA TypeStep == TypeOK /\ [Next]_vars => TypeOK'
<1>. SUFFICES ASSUME TypeOK, [Next]_vars PROVE TypeOK'
  OBVIOUS
<1>1. CASE UNCHANGED vars
  BY <1>1 DEF vars, permVars, requestVars, sessionVars, linkVars, TypeOK, TableOK, RequestOK,
              LinkOK, SessionOK
<1>2. CASE Next
  BY <1>2, RequestType, SessionType, ServerType DEF Next
<1>. QED  BY <1>1, <1>2

\* Rows, requests, messages and sessions are what the code can produce: a live
\* session always has a user and a role, a request about to write has what it
\* writes.
THEOREM AccessTypeCorrect == Spec => []TypeOK
BY TypeInit, TypeStep, PTL DEF Spec

-----------------------------------------------------------------------------
(* The inductive invariant.                                                *)

\* Every step keeps what the invariant says of the rows and those about to write them.
LEMMA RowStep ==
  ASSUME TypeOK, RowInv, [Next]_vars
  PROVE  RowInv'
<1>. USE DEF Written
<1>1. ASSUME NEW q \in Request, NEW u \in User, NEW r \in Role, Share(q, u, r) PROVE RowInv'
  BY <1>1, LiveAccessAssumption DEF Share, RowInv, RowsOf, permVars, TypeOK, TableOK, RequestOK
<1>2. ASSUME NEW q \in Request, NEW i \in Request, Revoke(q, i) PROVE RowInv'
  BY <1>2, LiveAccessAssumption DEF Revoke, RowInv, permVars, TypeOK, TableOK, RequestOK
<1>3. ASSUME NEW q \in Request, Execute(q), NEW pc \in Written, qpc' = [qpc EXCEPT ![q] = pc],
             UNCHANGED <<quser, qrow>>
      PROVE  RowInv'
  BY <1>3, LiveAccessAssumption DEF Execute, RowInv, TypeOK, TableOK, RequestOK
<1>4. ASSUME NEW q \in Request, UNCHANGED <<holder, role>>, NEW pc \in Written,
             qpc' = [qpc EXCEPT ![q] = pc], qpc[q] # "idle", UNCHANGED <<quser, qrow>>
      PROVE  RowInv'
  BY <1>4 DEF RowInv, TypeOK, TableOK, RequestOK
<1>5. ASSUME NEW q \in Request, Write(q) PROVE RowInv'
  BY <1>3, <1>5 DEF Write
<1>6. ASSUME NEW q \in Request, RowGone(q) \/ Publish(q) PROVE RowInv'
  BY <1>4, <1>6 DEF RowGone, Publish, permVars
<1>7. ASSUME NEW q \in Request, RequestFails(q) PROVE RowInv'
  BY <1>3, <1>4, <1>7 DEF RequestFails
<1>8. ASSUME UNCHANGED <<holder, role, requestVars>> PROVE RowInv'
  BY <1>8 DEF RowInv, requestVars
<1>9. CASE \/ \E s \in Session : (\E u \in User : Authenticate(s, u)) \/ Connected(s) \/ Disconnect(s)
           \/ HandleMessage \/ LoseLink \/ Subscribe \/ SyncCrash \/ SoftDelete
           \/ UNCHANGED vars
  BY <1>8, <1>9 DEF Authenticate, Connected, Disconnect, HandleMessage, LoseLink, Subscribe,
                    SyncCrash, SoftDelete, vars, permVars
<1>. QED  BY <1>1, <1>2, <1>5, <1>6, <1>7, <1>9 DEF Next, RequestStep

\* What a write means for a session of whatever user: it keeps its backing, or
\* the message about the write will close it.
LEMMA ExecuteBacked ==
  ASSUME TypeOK, RowInv, NEW q \in Request, Execute(q), NEW s \in Session, spc[s] # "idle",
         UNCHANGED sessionVars
  PROVE  /\ suser[s] = quser[q] => ShouldDisconnect(srole[s], qrole[q]) \/ Backed(s)'
         /\ suser[s] # quser[q] /\ Backed(s) => Backed(s)'
<1>. USE LiveAccessAssumption DEF sessionVars
<1>1. suser[s] \in User /\ srole[s] \in Role /\ qrole[q] \in Role \union {"none"}
  BY DEF TypeOK, SessionOK, RequestOK
<1>2. Rank(srole[s]) \in 1 .. 3 /\ Rank(qrole[q]) \in 0 .. 3
  BY <1>1 DEF Rank, Role
<1>3. ASSUME suser[s] = quser[q] PROVE ShouldDisconnect(srole[s], qrole[q]) \/ Backed(s)'
  <2>1. CASE qpc[q] = "delete"
    <3>1. qrole[q] = "none"
      BY <2>1 DEF TypeOK, RequestOK
    <3>. QED  BY <1>2, <3>1 DEF ShouldDisconnect, Rank
  <2>2. CASE qpc[q] \in {"insert", "update"}
    <3>1. PICK i \in Request : holder'[i] = quser[q] /\ role'[i] = qrole[q]
      BY <2>2 DEF Execute, RowInv, TypeOK, TableOK, RequestOK
    <3>. QED  BY <1>2, <1>3, <3>1 DEF Backed, RowsOf, ShouldDisconnect
  <2>. QED  BY <2>1, <2>2 DEF Execute
<1>4. ASSUME suser[s] # quser[q], Backed(s) PROVE Backed(s)'
  <2>1. PICK i \in Request : holder[i] = suser[s] /\ Rank(role[i]) >= Rank(srole[s])
    BY <1>4 DEF Backed, RowsOf
  <2>2. holder'[i] = holder[i] /\ role'[i] = role[i]
    BY <1>1, <1>4, <2>1 DEF Execute, RowInv, TypeOK, TableOK, RequestOK
  <2>. QED  BY <2>1, <2>2 DEF Backed, RowsOf
<1>. QED  BY <1>3, <1>4

\* The part of the invariant about one session.
SessionInv(s) ==
  /\ spc[s] = "loading" /\ s \notin excused => Backed(s)
  /\ spc[s] = "live" /\ s \notin excused => Backed(s) \/ Doomed(s)

\* A step that leaves rows and sessions alone keeps what backs a session.
LEMMA BackedFrame ==
  ASSUME NEW s \in Session, Backed(s), UNCHANGED <<holder, role>>,
         suser'[s] = suser[s], srole'[s] = srole[s]
  PROVE  Backed(s)'
BY DEF Backed, RowsOf

\* A message stays on its way: its request is not disturbed, or it is in a
\* channel that only grows.
LEMMA DoomedFrame ==
  ASSUME TypeOK, NEW s \in Session, Doomed(s), UNCHANGED <<suser, srole>>,
         \/ channel' = channel
         \/ \E m \in Message : channel' = Append(channel, m),
         \A q \in Request : qpc[q] = "publish" =>
           qpc'[q] = "publish" /\ quser'[q] = quser[q] /\ qrole'[q] = qrole[q]
  PROVE  Doomed(s)'
<1>1. CASE \E q \in Request :
             qpc[q] = "publish" /\ quser[q] = suser[s] /\ ShouldDisconnect(srole[s], qrole[q])
  BY <1>1 DEF Doomed
<1>2. ASSUME NEW k \in 1 .. Len(channel), channel[k].user = suser[s],
             ShouldDisconnect(srole[s], channel[k].role)
      PROVE  Doomed(s)'
  <2>1. k \in 1 .. Len(channel') /\ channel'[k] = channel[k]
    BY <1>2 DEF TypeOK, LinkOK
  <2>. QED  BY <1>2, <2>1 DEF Doomed
<1>. QED  BY <1>1, <1>2 DEF Doomed

\* The statements that write keep what the invariant says of a session.
LEMMA WriteKeeps ==
  ASSUME TypeOK, RowInv, NEW q \in Request, Write(q), NEW s \in Session, SessionInv(s)
  PROVE  SessionInv(s)'
<1>1. UNCHANGED sessionVars /\ UNCHANGED <<suser, srole, channel, quser, qrole>>
  BY DEF Write, sessionVars, linkVars
<1>2. CASE spc[s] = "idle"
  BY <1>1, <1>2 DEF SessionInv, sessionVars
<1>3. CASE spc[s] = "loading" /\ suser[s] = quser[q]
  <2>1. s \notin excused' => ~ShouldDisconnect(srole[s], qrole[q])
    BY <1>3 DEF Write, Overtaken
  <2>2. ShouldDisconnect(srole[s], qrole[q]) \/ Backed(s)'
    BY <1>1, <1>3, ExecuteBacked DEF Write
  <2>. QED  BY <1>1, <1>3, <2>1, <2>2 DEF SessionInv, sessionVars
<1>4. CASE spc[s] # "idle" /\ suser[s] # quser[q]
  <2>1. Backed(s) => Backed(s)'
    BY <1>1, <1>4, ExecuteBacked DEF Write
  <2>2. Doomed(s) => Doomed(s)'
    <3>1. \A p \in Request : qpc[p] = "publish" => qpc'[p] = "publish"
      BY DEF Write, TypeOK, RequestOK
    <3>. QED  BY <1>1, <3>1, DoomedFrame
  <2>3. spc'[s] = spc[s] /\ (s \notin excused' => s \notin excused)
    BY <1>1 DEF Write, sessionVars
  <2>. QED  BY <2>1, <2>2, <2>3 DEF SessionInv
<1>5. CASE spc[s] = "live" /\ suser[s] = quser[q]
  <2>1. ShouldDisconnect(srole[s], qrole[q]) \/ Backed(s)'
    BY <1>1, <1>5, ExecuteBacked DEF Write
  <2>2. ShouldDisconnect(srole[s], qrole[q]) => Doomed(s)'
    <3>1. qpc'[q] = "publish"
      BY DEF Write, TypeOK, RequestOK
    <3>. QED  BY <1>1, <1>5, <3>1 DEF Doomed
  <2>. QED  BY <1>1, <1>5, <2>1, <2>2 DEF SessionInv, sessionVars
<1>. QED  BY <1>2, <1>3, <1>4, <1>5 DEF TypeOK, SessionOK

\* Publishing a change keeps it.
LEMMA PublishKeeps ==
  ASSUME TypeOK, NEW q \in Request, Publish(q), NEW s \in Session, SessionInv(s)
  PROVE  SessionInv(s)'
<1>. DEFINE m == [user |-> quser[q], role |-> qrole[q]]
<1>1. /\ UNCHANGED <<holder, role, spc, suser, srole, quser, qrole>>
      /\ excused \subseteq excused'
  BY DEF Publish, permVars, sessionVars
<1>2. m \in Message
  BY DEF Publish, TypeOK, RequestOK, Message
<1>3. Backed(s) => Backed(s)'
  BY <1>1, BackedFrame
<1>4. ASSUME spc[s] = "live", s \notin excused', Doomed(s) PROVE Doomed(s)'
  <2>1. ASSUME NEW p \in Request, p # q, qpc[p] = "publish", quser[p] = suser[s],
               ShouldDisconnect(srole[s], qrole[p])
        PROVE  Doomed(s)'
    <3>1. qpc'[p] = "publish"
      BY <2>1 DEF Publish, TypeOK, RequestOK
    <3>. QED  BY <1>1, <2>1, <3>1 DEF Doomed
  <2>2. ASSUME quser[q] = suser[s], ShouldDisconnect(srole[s], qrole[q]) PROVE Doomed(s)'
    <3>1. link
      BY <1>4, <2>2 DEF Publish, Targets
    <3>2. channel' = Append(channel, m)
      BY <3>1 DEF Publish
    <3>3. Len(channel) + 1 \in 1 .. Len(channel') /\ channel'[Len(channel) + 1] = m
      BY <1>2, <3>2 DEF TypeOK, LinkOK
    <3>. QED  BY <1>1, <2>2, <3>3 DEF Doomed
  <2>3. ASSUME NEW k \in 1 .. Len(channel), channel[k].user = suser[s],
               ShouldDisconnect(srole[s], channel[k].role)
        PROVE  Doomed(s)'
    <3>1. channel' = channel \/ channel' = Append(channel, m)
      BY DEF Publish
    <3>2. k \in 1 .. Len(channel') /\ channel'[k] = channel[k]
      BY <1>2, <2>3, <3>1 DEF TypeOK, LinkOK
    <3>. QED  BY <1>1, <2>3, <3>2 DEF Doomed
  <2>. QED  BY <1>4, <2>1, <2>2, <2>3 DEF Doomed
<1>. QED  BY <1>1, <1>3, <1>4 DEF SessionInv

\* A request that fails keeps it.
LEMMA RequestFailsKeeps ==
  ASSUME TypeOK, RowInv, NEW q \in Request, RequestFails(q), NEW s \in Session, SessionInv(s)
  PROVE  SessionInv(s)'
<1>1. /\ UNCHANGED sessionVars /\ UNCHANGED <<spc, suser, srole, quser, qrole, channel>>
      /\ excused \subseteq excused'
  BY DEF RequestFails, linkVars, sessionVars
<1>2. ASSUME spc[s] # "idle", s \notin excused', Backed(s) PROVE Backed(s)'
  <2>1. CASE UNCHANGED <<holder, role>>
    BY <1>1, <1>2, <2>1, BackedFrame
  <2>2. CASE Execute(q)
    <3>1. spc[s] = "live" => suser[s] # quser[q] \/ ~ShouldDisconnect(srole[s], qrole[q])
      BY <1>2 DEF RequestFails, Targets
    <3>2. spc[s] = "loading" => suser[s] # quser[q] \/ ~ShouldDisconnect(srole[s], qrole[q])
      BY <1>2 DEF RequestFails, Overtaken
    <3>. QED  BY <1>1, <1>2, <2>2, <3>1, <3>2, ExecuteBacked DEF TypeOK, SessionOK
  <2>. QED  BY <2>1, <2>2 DEF RequestFails
<1>3. ASSUME spc[s] = "live", s \notin excused', Doomed(s) PROVE Doomed(s)'
  <2>1. ASSUME NEW p \in Request, qpc[p] = "publish", quser[p] = suser[s],
               ShouldDisconnect(srole[s], qrole[p])
        PROVE  Doomed(s)'
    <3>1. p # q
      BY <1>3, <2>1 DEF RequestFails, Targets
    <3>2. qpc'[p] = "publish"
      BY <2>1, <3>1 DEF RequestFails, TypeOK, RequestOK
    <3>. QED  BY <1>1, <2>1, <3>2 DEF Doomed
  <2>2. ASSUME NEW k \in 1 .. Len(channel), channel[k].user = suser[s],
               ShouldDisconnect(srole[s], channel[k].role)
        PROVE  Doomed(s)'
    BY <1>1, <2>2 DEF Doomed
  <2>. QED  BY <1>3, <2>1, <2>2 DEF Doomed
<1>. QED  BY <1>1, <1>2, <1>3 DEF SessionInv

\* Opening another connection keeps it.
LEMMA OpenKeeps ==
  ASSUME TypeOK, NEW q \in Request, NEW s \in Session, SessionInv(s),
         \/ \E u \in User, r \in Role : Share(q, u, r)
         \/ \E i \in Request : Revoke(q, i)
         \/ RowGone(q)
  PROVE  SessionInv(s)'
<1>1. UNCHANGED <<holder, role, spc, suser, srole, channel, excused>>
  BY DEF Share, Revoke, RowGone, permVars, linkVars, sessionVars
<1>2. \A p \in Request : qpc[p] = "publish" =>
         qpc'[p] = "publish" /\ quser'[p] = quser[p] /\ qrole'[p] = qrole[p]
  BY DEF Share, Revoke, RowGone, TypeOK, RequestOK
<1>3. Backed(s) => Backed(s)'
  BY <1>1, BackedFrame
<1>4. Doomed(s) => Doomed(s)'
  BY <1>1, <1>2, DoomedFrame
<1>. QED  BY <1>1, <1>3, <1>4 DEF SessionInv

\* The hooks of the connection keep it.
LEMMA SessionKeeps ==
  ASSUME TypeOK, NEW t \in Session, NEW s \in Session, SessionInv(s),
         (\E u \in User : Authenticate(t, u)) \/ Connected(t) \/ Disconnect(t)
  PROVE  SessionInv(s)'
<1>1. UNCHANGED <<holder, role, channel, qpc, quser, qrole>>
  BY DEF Authenticate, Connected, Disconnect, permVars, requestVars, linkVars
<1>2. CASE s = t /\ \E u \in User : Authenticate(t, u)
  <2>. PICK u \in User : Authenticate(t, u)
    BY <1>2
  <2>1. PICK i \in RowsOf(u) : srole' = [srole EXCEPT ![t] = role[i]]
    BY DEF Authenticate
  <2>2. spc'[s] = "loading" /\ suser'[s] = u /\ srole'[s] = role[i]
    BY <1>2, <2>1 DEF Authenticate, TypeOK, SessionOK
  <2>3. Rank(role[i]) \in Nat
    BY DEF Rank
  <2>4. Backed(s)'
    BY <1>1, <2>2, <2>3 DEF Backed, RowsOf
  <2>. QED  BY <2>2, <2>4 DEF SessionInv
<1>3. CASE s = t /\ (Connected(t) \/ Disconnect(t))
  <2>1. UNCHANGED <<suser, srole, excused>>
    BY <1>3 DEF Connected, Disconnect
  <2>2. spc'[s] = "idle" \/ (spc[s] = "loading" /\ spc'[s] = "live")
    BY <1>3 DEF Connected, Disconnect, TypeOK, SessionOK
  <2>3. Backed(s) => Backed(s)'
    BY <1>1, <2>1, BackedFrame
  <2>. QED  BY <2>1, <2>2, <2>3 DEF SessionInv
<1>4. CASE s # t
  <2>1. /\ spc'[s] = spc[s] /\ suser'[s] = suser[s] /\ srole'[s] = srole[s]
        /\ s \in excused' <=> s \in excused
    BY <1>4 DEF Authenticate, Connected, Disconnect, TypeOK, SessionOK
  <2>2. Backed(s) => Backed(s)'
    BY <1>1, <2>1, BackedFrame
  <2>3. Doomed(s) => Doomed(s)'
    BY <1>1, <2>1 DEF Doomed
  <2>. QED  BY <2>1, <2>2, <2>3 DEF SessionInv
<1>. QED  BY <1>2, <1>3, <1>4

\* Handling a permission message keeps it.
LEMMA MessageKeeps ==
  ASSUME TypeOK, NEW s \in Session, SessionInv(s), HandleMessage
  PROVE  SessionInv(s)'
<1>. DEFINE hit == Targets(Head(channel).user, Head(channel).role)
<1>1. /\ UNCHANGED <<holder, role, suser, srole, qpc, quser, qrole, excused>>
      /\ channel # <<>> /\ channel' = Tail(channel)
      /\ spc'[s] = IF s \in hit THEN "idle" ELSE spc[s]
  BY DEF HandleMessage, permVars, requestVars
<1>2. CASE s \in hit
  BY <1>1, <1>2 DEF SessionInv
<1>3. CASE s \notin hit
  <2>1. Backed(s) => Backed(s)'
    BY <1>1, BackedFrame
  <2>2. ASSUME spc[s] = "live", NEW k \in 1 .. Len(channel), channel[k].user = suser[s],
               ShouldDisconnect(srole[s], channel[k].role)
        PROVE  Doomed(s)'
    <3>1. k # 1
      <4>1. Head(channel) = channel[1]
        BY <1>1 DEF TypeOK, LinkOK
      <4>. QED  BY <1>3, <2>2, <4>1 DEF Targets
    <3>2. k - 1 \in 1 .. Len(channel') /\ channel'[k - 1] = channel[k]
      BY <1>1, <2>2, <3>1 DEF TypeOK, LinkOK
    <3>. QED  BY <1>1, <2>2, <3>2 DEF Doomed
  <2>3. spc[s] = "live" /\ Doomed(s) => Doomed(s)'
    <3>1. CASE \E q \in Request :
                 qpc[q] = "publish" /\ quser[q] = suser[s] /\ ShouldDisconnect(srole[s], qrole[q])
      BY <1>1, <3>1 DEF Doomed
    <3>. QED  BY <2>2, <3>1 DEF Doomed
  <2>. QED  BY <1>1, <1>3, <2>1, <2>3 DEF SessionInv
<1>. QED  BY <1>2, <1>3

\* Losing the subscription, restarting and soft delete keep it.
LEMMA LinkKeeps ==
  ASSUME TypeOK, NEW s \in Session, SessionInv(s), LoseLink \/ Subscribe \/ SyncCrash \/ SoftDelete
  PROVE  SessionInv(s)'
<1>1. UNCHANGED <<holder, role, suser, srole, qpc, quser, qrole>>
  BY DEF LoseLink, Subscribe, SyncCrash, SoftDelete, permVars, requestVars, sessionVars
<1>2. Backed(s) => Backed(s)'
  BY <1>1, BackedFrame
<1>3. CASE LoseLink
  <2>1. spc' = spc /\ excused \subseteq excused'
    BY <1>3 DEF LoseLink, sessionVars
  <2>2. ASSUME spc[s] = "live", s \notin excused', NEW k \in 1 .. Len(channel),
               channel[k].user = suser[s], ShouldDisconnect(srole[s], channel[k].role)
        PROVE  FALSE
    <3>1. s \in Targets(channel[k].user, channel[k].role)
      BY <2>2 DEF Targets
    <3>. QED  BY <1>3, <2>2, <3>1 DEF LoseLink
  <2>3. spc[s] = "live" /\ s \notin excused' /\ Doomed(s) => Doomed(s)'
    BY <1>1, <2>2 DEF Doomed
  <2>. QED  BY <1>2, <2>1, <2>3 DEF SessionInv
<1>4. CASE SyncCrash
  BY <1>4 DEF SyncCrash, SessionInv
<1>5. CASE Subscribe \/ SoftDelete
  <2>1. UNCHANGED <<spc, excused, channel>>
    BY <1>5 DEF Subscribe, SoftDelete, sessionVars, linkVars
  <2>2. Doomed(s) => Doomed(s)'
    BY <1>1, <2>1 DEF Doomed
  <2>. QED  BY <1>2, <2>1, <2>2 DEF SessionInv
<1>. QED  BY <1>3, <1>4, <1>5

\* Every step keeps what the invariant says of a session.
LEMMA SessionStep ==
  ASSUME TypeOK, RowInv, [Next]_vars, NEW s \in Session, SessionInv(s)
  PROVE  SessionInv(s)'
<1>1. CASE UNCHANGED vars
  <2>1. UNCHANGED <<holder, role, channel, qpc, quser, qrole, spc, suser, srole, excused>>
    BY <1>1 DEF vars, permVars, requestVars, linkVars, sessionVars
  <2>. QED  BY <2>1 DEF SessionInv, Backed, Doomed, RowsOf
<1>2. CASE Next
  BY <1>2, WriteKeeps, PublishKeeps, RequestFailsKeeps, OpenKeeps, SessionKeeps, MessageKeeps,
     LinkKeeps DEF Next, RequestStep
<1>. QED  BY <1>1, <1>2

\* The invariant about sessions, session by session.
LEMMA IInvSplit == LoadingBacked /\ CutOff <=> \A s \in Session : SessionInv(s)
BY DEF LoadingBacked, CutOff, SessionInv

\* Every step keeps the inductive invariant.
LEMMA IInvStep == IInv /\ [Next]_vars => IInv'
<1>. SUFFICES ASSUME IInv, [Next]_vars PROVE IInv'
  OBVIOUS
<1>1. TypeOK' /\ RowInv'
  BY TypeStep, RowStep DEF IInv
<1>2. \A s \in Session : SessionInv(s)'
  BY SessionStep, IInvSplit DEF IInv
<1>3. LoadingBacked' /\ CutOff'
  BY <1>2 DEF LoadingBacked, CutOff, SessionInv
<1>. QED  BY <1>1, <1>3 DEF IInv

\* The inductive invariant holds when the system starts.
LEMMA IInvInit == Init => IInv
<1>1. Init => RowInv /\ LoadingBacked /\ CutOff
  BY LiveAccessAssumption DEF Init, RowInv, LoadingBacked, CutOff
<1>. QED  BY <1>1, TypeInit DEF IInv

\* Rows belong to the users they were inserted for, and every session that no
\* change has overtaken is backed while it loads and backed or doomed while it
\* is live.
THEOREM AccessInductive == Spec => []IInv
BY IInvInit, IInvStep, PTL DEF Spec

\* A live session that no change has overtaken keeps a permission of its rank or
\* has the message on its way that closes it: share and revoke with the
\* permission events, against every interleaving with the sync server's hooks.
THEOREM AccessCutOff == Spec => []CutOff
<1>1. IInv => CutOff
  BY DEF IInv
<1>. QED  BY <1>1, AccessInductive, PTL
=============================================================================
