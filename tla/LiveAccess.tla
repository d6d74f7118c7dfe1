----------------------------- MODULE LiveAccess -----------------------------
(***************************************************************************)
(* Who may edit a document live: the owner's share and revoke requests in  *)
(* the backend (src/apps/api-fastapi/app/services.py), the permissions     *)
(* table, the Redis channel permissions:changed and the sessions of the    *)
(* sync server (src/apps/sync-server/src/extensions/auth.ts and            *)
(* permissions.ts), for one document and its collaborators.                *)
(*                                                                         *)
(* Every SQL statement of a request is a step.  Redis Pub/Sub delivers in  *)
(* order, and only to a subscriber that is connected.                      *)
(***************************************************************************)
EXTENDS Naturals, Sequences

CONSTANTS
  User,       \* the collaborators; the owner makes the requests
  Request,    \* share and revoke requests, and the ids of the rows they insert
  Session,    \* sockets of the sync server
  NoUser,     \* the user of a row that does not exist
  MaxLosses,  \* bound: how often the sync server loses Redis, or crashes
  Faults      \* whether requests may fail half way

ASSUME LiveAccessAssumption ==
  /\ NoUser \notin User
  /\ MaxLosses \in Nat
  /\ Faults \in BOOLEAN

VARIABLES
  holder,   \* the user of a permissions row
  role,     \* its role
  deleted,  \* the document is soft-deleted
  qpc,      \* the next statement of a request
  quser,    \* the user it is about
  qrole,    \* the role it gives, "none" when it revokes
  qrow,     \* the row its SELECT found
  channel,  \* published messages the sync server has not handled
  link,     \* the sync server is subscribed
  losses,   \* losses so far
  spc,      \* where a session is
  suser,    \* its user
  srole,    \* the role onAuthenticate read
  excused   \* history: sessions a change could not reach (see CutOff)

permVars == <<holder, role, deleted>>
requestVars == <<qpc, quser, qrole, qrow>>
linkVars == <<channel, link, losses>>
sessionVars == <<spc, suser, srole>>
vars == <<permVars, requestVars, linkVars, sessionVars, excused>>

-----------------------------------------------------------------------------

Role == {"editor", "commenter", "viewer"}

\* ROLE_PRIORITY; no role is 0.
Rank(r) ==
  IF r = "editor" THEN 3 ELSE IF r = "commenter" THEN 2 ELSE IF r = "viewer" THEN 1 ELSE 0

\* Mutant: only a revocation closes sessions.
ShouldDisconnectRevokedOnly(current, new) == new = "none"

\* shouldDisconnectForPermissionChange
ShouldDisconnect(current, new) == Rank(new) < Rank(current)

RowsOf(u) == {i \in Request : holder[i] = u}

\* The sessions in `connections` that a message about user u closes.
Targets(u, new) ==
  {s \in Session : spc[s] = "live" /\ suser[s] = u /\ ShouldDisconnect(srole[s], new)}

\* The sessions it should close and that are not in `connections` yet.
Overtaken(u, new) ==
  {s \in Session : spc[s] = "loading" /\ suser[s] = u /\ ShouldDisconnect(srole[s], new)}

Init ==
  /\ holder = [i \in Request |-> NoUser]
  /\ role = [i \in Request |-> "none"]
  /\ deleted = FALSE
  /\ qpc = [q \in Request |-> "idle"]
  /\ quser = [q \in Request |-> NoUser]
  /\ qrole = [q \in Request |-> "none"]
  /\ qrow = [q \in Request |-> q]
  /\ channel = <<>>
  /\ link = (MaxLosses = 0)  \* not yet subscribed at startup, which is a loss
  /\ losses = 0
  /\ spc = [s \in Session |-> "idle"]
  /\ suser = [s \in Session |-> NoUser]
  /\ srole = [s \in Session |-> "none"]
  /\ excused = {}

-----------------------------------------------------------------------------
(* PermissionsService.share and revoke, called by the owner.               *)

\* Up to the SELECT of an existing row, of which LIMIT 1 takes any.
Share(q, u, r) ==
  /\ qpc[q] = "idle"
  /\ ~deleted
  /\ \/ RowsOf(u) = {} /\ qpc' = [qpc EXCEPT ![q] = "insert"] /\ UNCHANGED qrow
     \/ \E i \in RowsOf(u) :
          qpc' = [qpc EXCEPT ![q] = "update"] /\ qrow' = [qrow EXCEPT ![q] = i]
  /\ quser' = [quser EXCEPT ![q] = u]
  /\ qrole' = [qrole EXCEPT ![q] = r]
  /\ UNCHANGED <<permVars, linkVars, sessionVars, excused>>

\* Up to the SELECT of the row to revoke.
Revoke(q, i) ==
  /\ qpc[q] = "idle"
  /\ ~deleted
  /\ holder[i] # NoUser
  /\ qpc' = [qpc EXCEPT ![q] = "delete"]
  /\ quser' = [quser EXCEPT ![q] = holder[i]]
  /\ qrole' = [qrole EXCEPT ![q] = "none"]
  /\ qrow' = [qrow EXCEPT ![q] = i]
  /\ UNCHANGED <<permVars, linkVars, sessionVars, excused>>

\* INSERT, UPDATE or DELETE; an UPDATE may find its row gone.
Execute(q) ==
  \/ /\ qpc[q] = "insert"
     /\ holder' = [holder EXCEPT ![q] = quser[q]]
     /\ role' = [role EXCEPT ![q] = qrole[q]]
  \/ /\ qpc[q] = "update"
     /\ holder[qrow[q]] # NoUser
     /\ role' = [role EXCEPT ![qrow[q]] = qrole[q]]
     /\ UNCHANGED holder
  \/ /\ qpc[q] = "delete"
     /\ holder' = [holder EXCEPT ![qrow[q]] = NoUser]
     /\ role' = [role EXCEPT ![qrow[q]] = "none"]

\* Mutant: revoking clears the role and keeps the row.
WriteKeepingRow(q) ==
  /\ \/ qpc[q] \in {"insert", "update"} /\ Execute(q)
     \/ /\ qpc[q] = "delete"
        /\ role' = [role EXCEPT ![qrow[q]] = "none"]
        /\ UNCHANGED holder
  /\ qpc' = [qpc EXCEPT ![q] = "publish"]
  /\ excused' = excused \union Overtaken(quser[q], qrole[q])
  /\ UNCHANGED <<deleted, quser, qrole, qrow, linkVars, sessionVars>>

\* The write commits; what comes next is publish_permission_change_event.
Write(q) ==
  /\ Execute(q)
  /\ qpc' = [qpc EXCEPT ![q] = "publish"]
  /\ excused' = excused \union Overtaken(quser[q], qrole[q])
  /\ UNCHANGED <<deleted, quser, qrole, qrow, linkVars, sessionVars>>

\* `UPDATE ... RETURNING` returns nothing: perm["role"] raises, nothing was changed.
RowGone(q) ==
  /\ qpc[q] = "update"
  /\ holder[qrow[q]] = NoUser
  /\ qpc' = [qpc EXCEPT ![q] = "error"]
  /\ UNCHANGED <<permVars, quser, qrole, qrow, linkVars, sessionVars, excused>>

\* PUBLISH; a message without a subscriber is gone.
Publish(q) ==
  /\ qpc[q] = "publish"
  /\ qpc' = [qpc EXCEPT ![q] = "done"]
  /\ IF link
     THEN /\ channel' = Append(channel, [user |-> quser[q], role |-> qrole[q]])
          /\ UNCHANGED excused
     ELSE /\ excused' = excused \union Targets(quser[q], qrole[q])
          /\ UNCHANGED channel
  /\ UNCHANGED <<permVars, quser, qrole, qrow, link, losses, sessionVars>>

\* A write raises or its process dies before the message is published: the row
\* may have been written.  A PUBLISH that raises is swallowed.
RequestFails(q) ==
  /\ Faults
  /\ qpc[q] \in {"insert", "update", "delete", "publish"}
  /\ qpc' = [qpc EXCEPT ![q] = IF qpc[q] = "publish" THEN "done" ELSE "error"]
  /\ \/ Execute(q)
     \/ UNCHANGED <<holder, role>>
  /\ excused' = excused \union Overtaken(quser[q], qrole[q]) \union Targets(quser[q], qrole[q])
  /\ UNCHANGED <<deleted, quser, qrole, qrow, linkVars, sessionVars>>

\* DocumentsService.soft_delete: no message is published.
SoftDelete ==
  /\ ~deleted
  /\ deleted' = TRUE
  /\ UNCHANGED <<holder, role, requestVars, linkVars, sessionVars, excused>>

RequestStep(q) == Write(q) \/ RowGone(q) \/ Publish(q)

-----------------------------------------------------------------------------
(* The sync server.                                                        *)

\* onAuthenticate: the query of getDocumentRole is executed.
Authenticate(s, u) ==
  /\ spc[s] = "idle"
  /\ ~deleted
  /\ \E i \in RowsOf(u) : srole' = [srole EXCEPT ![s] = role[i]]
  /\ spc' = [spc EXCEPT ![s] = "loading"]
  /\ suser' = [suser EXCEPT ![s] = u]
  /\ excused' = excused \ {s}
  /\ UNCHANGED <<permVars, requestVars, linkVars>>

\* The query has returned, the document is loaded, and the `connected` hook
\* enters the session in `connections`.
Connected(s) ==
  /\ spc[s] = "loading"
  /\ spc' = [spc EXCEPT ![s] = "live"]
  /\ UNCHANGED <<permVars, requestVars, linkVars, suser, srole, excused>>

\* onDisconnect
Disconnect(s) ==
  /\ spc[s] # "idle"
  /\ spc' = [spc EXCEPT ![s] = "idle"]
  /\ UNCHANGED <<permVars, requestVars, linkVars, suser, srole, excused>>

\* Mutant: the first target is closed, not all.
HandleMessageFirstOnly ==
  /\ channel # <<>>
  /\ LET hit == Targets(Head(channel).user, Head(channel).role) IN
       \/ hit = {} /\ UNCHANGED spc
       \/ \E s \in hit : spc' = [spc EXCEPT ![s] = "idle"]
  /\ channel' = Tail(channel)
  /\ UNCHANGED <<permVars, requestVars, link, losses, suser, srole, excused>>

\* handlePermissionMessage: every target is told and closed.
HandleMessage ==
  /\ channel # <<>>
  /\ LET hit == Targets(Head(channel).user, Head(channel).role) IN
       spc' = [s \in Session |-> IF s \in hit THEN "idle" ELSE spc[s]]
  /\ channel' = Tail(channel)
  /\ UNCHANGED <<permVars, requestVars, link, losses, suser, srole, excused>>

\* The connection to Redis breaks, and what was on its way is lost.
LoseLink ==
  /\ link
  /\ losses < MaxLosses
  /\ losses' = losses + 1
  /\ link' = FALSE
  /\ channel' = <<>>
  /\ excused' = excused \union
       UNION {Targets(channel[k].user, channel[k].role) : k \in 1 .. Len(channel)}
  /\ UNCHANGED <<permVars, requestVars, sessionVars>>

\* The subscriber is ready, at startup or again, and subscribes.
Subscribe ==
  /\ ~link
  /\ link' = TRUE
  /\ UNCHANGED <<permVars, requestVars, channel, losses, sessionVars, excused>>

\* The sync server dies and is started again.
SyncCrash ==
  /\ losses < MaxLosses
  /\ losses' = losses + 1
  /\ link' = FALSE
  /\ channel' = <<>>
  /\ spc' = [s \in Session |-> "idle"]
  /\ UNCHANGED <<permVars, requestVars, suser, srole, excused>>

Next ==
  \/ \E q \in Request :
       \/ \E u \in User, r \in Role : Share(q, u, r)
       \/ \E i \in Request : Revoke(q, i)
       \/ RequestStep(q)
       \/ RequestFails(q)
  \/ \E s \in Session : (\E u \in User : Authenticate(s, u)) \/ Connected(s) \/ Disconnect(s)
  \/ HandleMessage \/ LoseLink \/ Subscribe \/ SyncCrash \/ SoftDelete

Spec == Init /\ [][Next]_vars

\* Requests that were begun go on, and the subscriber handles what it received.
Fairness ==
  /\ \A q \in Request : WF_vars(RequestStep(q))
  /\ WF_vars(HandleMessage)

FairSpec == Spec /\ Fairness

-----------------------------------------------------------------------------
(* Properties.                                                             *)

Message == [user : User, role : Role \union {"none"}]

TableOK ==
  /\ holder \in [Request -> User \union {NoUser}]
  /\ role \in [Request -> Role \union {"none"}]
  /\ \A i \in Request : holder[i] = NoUser <=> role[i] = "none"
  /\ deleted \in BOOLEAN

RequestOK ==
  /\ qpc \in [Request -> {"idle", "insert", "update", "delete", "publish", "done", "error"}]
  /\ quser \in [Request -> User \union {NoUser}]
  /\ qrole \in [Request -> Role \union {"none"}]
  /\ qrow \in [Request -> Request]
  /\ \A q \in Request : qpc[q] # "idle" => quser[q] \in User
  /\ \A q \in Request : qpc[q] \in {"insert", "update"} => qrole[q] \in Role
  /\ \A q \in Request : qpc[q] = "delete" => qrole[q] = "none"

LinkOK ==
  /\ channel \in Seq(Message)
  /\ link \in BOOLEAN
  /\ losses \in Nat

SessionOK ==
  /\ spc \in [Session -> {"idle", "loading", "live"}]
  /\ suser \in [Session -> User \union {NoUser}]
  /\ srole \in [Session -> Role \union {"none"}]
  /\ \A s \in Session : spc[s] # "idle" => suser[s] \in User /\ srole[s] \in Role
  /\ excused \subseteq Session

TypeOK == TableOK /\ RequestOK /\ LinkOK /\ SessionOK

\* A row in force gives the session's user at least the session's role.
Backed(s) == \E i \in RowsOf(suser[s]) : Rank(role[i]) >= Rank(srole[s])

\* A message that will close the session is on its way.
Doomed(s) ==
  \/ \E q \in Request :
       qpc[q] = "publish" /\ quser[q] = suser[s] /\ ShouldDisconnect(srole[s], qrole[q])
  \/ \E k \in 1 .. Len(channel) :
       channel[k].user = suser[s] /\ ShouldDisconnect(srole[s], channel[k].role)

\* A live session is backed by a permission or about to be closed, however
\* share and revoke requests, reconnections and duplicate rows interleave.
\* Excused are the sessions the design cannot reach: those that read their role
\* before a change and were entered in `connections` after it was written, and
\* those whose message got lost because Redis or a process failed.
CutOff == \A s \in Session : spc[s] = "live" /\ s \notin excused => Backed(s) \/ Doomed(s)

\* What the documentation says: when every message has been handled, no live
\* session has a higher role than its user.
\* The code does not meet it: README, "What the documents say".
StaleSessionsClosed ==
  \A s \in Session :
    /\ spc[s] = "live"
    /\ channel = <<>>
    /\ \A q \in Request : qpc[q] # "publish"
    => Backed(s)

\* A session that has lost its backing is cut off in the end, not just marked.
StaleSessionEnds ==
  \A s \in Session :
    spc[s] = "live" /\ ~Backed(s) ~> spc[s] # "live" \/ s \in excused \/ Backed(s)
=============================================================================
