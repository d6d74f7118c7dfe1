------------------------------ MODULE Workspace ------------------------------
(***************************************************************************)
(* A document, its title and who may use it: DocumentsService and          *)
(* PermissionsService of the NestJS backend (src/apps/api/src), against    *)
(* the pages that call them, whose calls are not ordered: the dashboard,   *)
(* the share dialog and the title of the editor page (src/apps/web/src).   *)
(*                                                                         *)
(* Every statement is a step of its own and commits on its own.  One       *)
(* document stands for all: statements name the document they touch.       *)
(***************************************************************************)
EXTENDS Naturals, FiniteSets, Sequences

CONSTANTS
  Person,    \* users
  Slot,      \* requests that may be under way at once
  Title,     \* what people leave in the field of the title
  Untitled,  \* the title a document is created with
  Blank,     \* the empty string
  Trim,      \* String.trim on them
  None,      \* null
  MaxSends,  \* bound: user actions that send a request
  MaxFaults  \* bound: requests that raise or lose their process

Role == {"viewer", "commenter", "editor", "owner"}
Row == [id : Nat, user : Person, role : Role]
Titles == Title \union {Untitled}
Share == [user : Person, role : Role \ {"owner"}]
Page == [title : Titles, role : Role]
Kind == {"create", "list", "open", "rename", "delete", "share", "revoke", "people"}
Statement == {"insertDoc", "insertRow", "select", "find", "role", "row", "write", "ok", "error"}
Request ==
  [kind : Kind, by : Person, pc : Statement,
   arg : {None} \union Titles \union Share \union Nat,
   got : {None} \union Titles \union Page \union Nat \union SUBSET Row]

\* null is not a user, a title or a request; what is trimmed stays as it is.
ASSUME WorkspaceAssumption ==
  /\ MaxSends \in Nat /\ MaxFaults \in Nat
  /\ None \notin Person \union Titles \union Request
  /\ Trim \in [Titles -> Titles]
  /\ \A t \in Titles : Trim[Trim[t]] = Trim[t]
  /\ Trim[Untitled] = Untitled

VARIABLES
  doc,     \* the row of documents: "none", "live" or "deleted"
  owner,   \* owner_id
  title,   \* title
  rows,    \* permissions
  nextRow, \* the next id of a permission
  req,     \* the request of each slot, or None
  listed,  \* how often a dashboard lists the document
  people,  \* the permissions a share dialog shows, or None before its answer
  page,    \* the title and role on an editor page, or None
  timer,   \* the title its timer will save, or None
  late,    \* what the timers of pages that were left will save
  typist,  \* history: who typed or saved a title last
  raced,   \* history: what two requests that overlapped, a refused one, or the
           \* timer of a page left and open again are about
  sends,   \* user actions so far
  faults   \* faults so far

dbVars == <<doc, owner, title, rows, nextRow>>
pageVars == <<listed, people, page, timer, late>>
countVars == <<typist, raced, sends, faults>>
vars == <<dbVars, req, pageVars, countVars>>

RowsOf(p) == {r \in rows : r.user = p}

Init ==
  /\ doc = "none" /\ owner = None /\ title = Untitled
  /\ rows = {} /\ nextRow = 1
  /\ req = [q \in Slot |-> None]
  /\ listed = [p \in Person |-> 0]
  /\ people = [p \in Person |-> None]
  /\ page = [p \in Person |-> None]
  /\ timer = [p \in Person |-> None]
  /\ late = [p \in Person |-> <<>>]
  /\ typist = None /\ raced = {} /\ sends = 0 /\ faults = 0

-----------------------------------------------------------------------------
(* Requests.                                                               *)

\* What a page shows of the answer to a request, or changes by it.
About(kind) ==
  IF kind \in {"rename", "open"} THEN "title"
  ELSE IF kind \in {"share", "revoke", "people"} THEN "people" ELSE "list"

\* The first statement of a request: only create and the list of a user's
\* documents do not look the document up.
FirstStatement(kind) ==
  IF kind = "create" THEN "insertDoc" ELSE IF kind = "list" THEN "select" ELSE "find"

Ask(kind, p, arg) ==
  [kind |-> kind, by |-> p, arg |-> arg, pc |-> FirstStatement(kind), got |-> None]

\* A request of this kind is under way.
Busy(kind) == \E q \in Slot : req[q] # None /\ req[q].kind = kind

\* What a request that starts now would overlap with.
Overlapping(q, kind) ==
  {About(kind)} \intersect {About(req[o].kind) : o \in {s \in Slot \ {q} : req[s] # None}}

\* A page of p sends a request; stray is what it is about when p has meanwhile
\* opened another page of the document.
SendBeside(q, kind, p, arg, stray) ==
  /\ req[q] = None
  /\ sends < MaxSends
  /\ sends' = sends + 1
  /\ req' = [req EXCEPT ![q] = Ask(kind, p, arg)]
  /\ raced' = raced \union stray \union Overlapping(q, kind)

Send(q, kind, p, arg) == SendBeside(q, kind, p, arg, {})

GoTo(q, pc, got) ==
  req' = [req EXCEPT ![q] =
            [kind |-> @.kind, by |-> @.by, arg |-> @.arg, pc |-> pc, got |-> got]]

-----------------------------------------------------------------------------
(* The services.                                                           *)

\* findDocument: a deleted document is not found.  getById answers what was
\* read here.
FindDocument(q) ==
  /\ req[q] # None /\ req[q].pc = "find"
  /\ IF doc = "live" THEN GoTo(q, "role", title) ELSE GoTo(q, "error", None)
  /\ UNCHANGED <<dbVars, pageVars, countVars>>

\* Who may do what.
Allowed(kind, role) ==
  \/ kind = "open"
  \/ kind = "rename" /\ role = "editor"
  \/ role = "owner"

\* getUserRole (LIMIT 1, in no order) and the check of the caller's role.
GetUserRole(q) ==
  LET r == req[q] IN
  /\ r # None /\ r.pc = "role"
  /\ \/ RowsOf(r.by) = {} /\ GoTo(q, "error", None)
     \/ \E row \in RowsOf(r.by) :
          \/ ~Allowed(r.kind, row.role) /\ GoTo(q, "error", None)
          \/ /\ Allowed(r.kind, row.role)
             /\ \/ /\ r.kind = "open"
                   /\ GoTo(q, "ok", [title |-> r.got, role |-> row.role])
                \/ r.kind \in {"share", "revoke"} /\ GoTo(q, "row", None)
                \/ r.kind = "people" /\ GoTo(q, "select", None)
                \/ r.kind \in {"rename", "delete"} /\ GoTo(q, "write", None)
  /\ UNCHANGED <<dbVars, pageVars, countVars>>

\* Mutant: the caller may be the target.
SelfNever(r) == FALSE

\* share: `targetUser.id === callerId`.
Self(r) == r.arg.user = r.by

\* share and revoke look for the row they will write.
FindRow(q) ==
  LET r == req[q] IN
  /\ r # None /\ r.pc = "row"
  /\ \/ /\ r.kind = "share" /\ Self(r)
        /\ GoTo(q, "error", None)
     \/ /\ r.kind = "share" /\ ~Self(r)
        /\ \/ RowsOf(r.arg.user) = {} /\ GoTo(q, "write", 0)
           \/ \E row \in RowsOf(r.arg.user) : GoTo(q, "write", row.id)
     \/ /\ r.kind = "revoke"
        /\ \/ \E row \in rows :
                /\ row.id = r.arg
                /\ IF row.role = "owner" THEN GoTo(q, "error", None) ELSE GoTo(q, "write", r.arg)
           \/ (\A row \in rows : row.id # r.arg) /\ GoTo(q, "error", None)
  /\ UNCHANGED <<dbVars, pageVars, countVars>>

\* Mutant: the id of the last row is used again.
InsertSameId(user, role) ==
  /\ rows' = rows \union {[id |-> nextRow, user |-> user, role |-> role]}
  /\ UNCHANGED nextRow

\* The INSERT of a permission, which gets a new id.
Insert(user, role) ==
  /\ rows' = rows \union {[id |-> nextRow, user |-> user, role |-> role]}
  /\ nextRow' = nextRow + 1

\* create: two statements.
InsertDocument(q) ==
  /\ req[q] # None /\ req[q].pc = "insertDoc"
  /\ doc = "none"
  /\ doc' = "live" /\ owner' = req[q].by
  /\ GoTo(q, "insertRow", None)
  /\ UNCHANGED <<title, rows, nextRow, pageVars, countVars>>

InsertOwner(q) ==
  /\ req[q] # None /\ req[q].pc = "insertRow"
  /\ Insert(req[q].by, "owner")
  /\ GoTo(q, "ok", None)
  /\ UNCHANGED <<doc, owner, title, pageVars, countVars>>

\* The UPDATE, INSERT or DELETE of a request; each names its row by id and
\* looks at nothing else, whatever has changed since the checks.
Write(r) ==
  \/ /\ r.kind = "rename"
     /\ title' = r.arg
     /\ UNCHANGED <<doc, owner, rows, nextRow>>
  \/ /\ r.kind = "delete"
     /\ doc' = "deleted"
     /\ UNCHANGED <<owner, title, rows, nextRow>>
  \/ /\ r.kind = "share" /\ r.got = 0
     /\ Insert(r.arg.user, r.arg.role)
     /\ UNCHANGED <<doc, owner, title>>
  \/ /\ r.kind = "share" /\ r.got # 0
     /\ rows' = {IF row.id = r.got THEN [row EXCEPT !.role = r.arg.role] ELSE row :
                   row \in rows}
     /\ UNCHANGED <<doc, owner, title, nextRow>>
  \/ /\ r.kind = "revoke"
     /\ rows' = {row \in rows : row.id # r.got}
     /\ UNCHANGED <<doc, owner, title, nextRow>>

\* An UPDATE that found no row returns none, and share raises on it.
Execute(q) ==
  LET r == req[q] IN
  /\ r # None /\ r.pc = "write"
  /\ Write(r)
  /\ IF r.kind = "share" /\ r.got # 0 /\ \A row \in rows : row.id # r.got
     THEN GoTo(q, "error", None) ELSE GoTo(q, "ok", None)
  /\ UNCHANGED <<pageVars, countVars>>

\* The SELECT of a list; the documents of a user are joined with the rows of
\* permissions, one result for each.
Select(q) ==
  LET r == req[q] IN
  /\ r # None /\ r.pc = "select"
  /\ GoTo(q, "ok", IF r.kind = "people" THEN rows
                   ELSE IF doc = "live" THEN Cardinality(RowsOf(r.by)) ELSE 0)
  /\ UNCHANGED <<dbVars, pageVars, countVars>>

\* A statement raises or the process dies; a write may have been executed.
Raise(q) ==
  LET r == req[q] IN
  /\ r # None /\ r.pc \notin {"ok", "error"}
  /\ faults < MaxFaults
  /\ faults' = faults + 1
  /\ GoTo(q, "error", None)
  /\ UNCHANGED dbVars \/ (r.pc = "write" /\ Write(r))
  /\ UNCHANGED <<pageVars, typist, raced, sends>>

-----------------------------------------------------------------------------
(* The pages.                                                              *)

\* Dashboard: it fetches the list when it is opened.
FetchDocuments(q, p) ==
  /\ Send(q, "list", p, None)
  /\ UNCHANGED <<dbVars, pageVars, typist, faults>>

HandleCreate(q, p) ==
  /\ doc = "none"
  /\ ~Busy("create")
  /\ Send(q, "create", p, None)
  /\ UNCHANGED <<dbVars, pageVars, typist, faults>>

\* The Delete button is shown to the owner.
HandleDelete(q, p) ==
  /\ listed[p] > 0 /\ p = owner
  /\ Send(q, "delete", p, None)
  /\ UNCHANGED <<dbVars, pageVars, typist, faults>>

\* Editor: a click on the document navigates to its page, which fetches it (here
\* when its creation was answered).  Nothing stops the timer of the page left.
FetchDoc(q, p) ==
  /\ listed[p] > 0 /\ ~Busy("create")
  /\ Send(q, "open", p, None)
  /\ page' = [page EXCEPT ![p] = None]
  /\ timer' = [timer EXCEPT ![p] = None]
  /\ late' = IF timer[p] = None THEN late ELSE [late EXCEPT ![p] = Append(@, timer[p])]
  /\ UNCHANGED <<dbVars, listed, people, typist, faults>>

CanEditDocument(p) == page[p] # None /\ page[p].role \in {"editor", "owner"}

\* handleTitleChange: every key restarts the timer.
HandleTitleChange(p, t) ==
  /\ CanEditDocument(p)
  /\ page' = [page EXCEPT ![p].title = t]
  /\ timer' = [timer EXCEPT ![p] = t]
  /\ typist' = p
  /\ UNCHANGED <<dbVars, req, listed, people, late, raced, sends, faults>>

\* saveTitle: what is left of the title without the blanks around it, if anything.
SaveTitle(q, p, t, stray) ==
  \/ Trim[t] = Blank /\ UNCHANGED <<req, typist, raced, sends>>
  \/ Trim[t] # Blank /\ SendBeside(q, "rename", p, Trim[t], stray) /\ typist' = p

\* The timer of handleTitleChange runs out, after those that were set before.
TimerFires(q, p) ==
  /\ timer[p] # None /\ late[p] = <<>>
  /\ SaveTitle(q, p, timer[p], {})
  /\ timer' = [timer EXCEPT ![p] = None]
  /\ UNCHANGED <<dbVars, listed, people, page, late, faults>>

\* The timer of a page that was left runs out.
LateTimerFires(q, p) ==
  /\ late[p] # <<>>
  /\ SaveTitle(q, p, Head(late[p]), IF page[p] = None THEN {} ELSE {"title"})
  /\ late' = [late EXCEPT ![p] = Tail(@)]
  /\ UNCHANGED <<dbVars, listed, people, page, timer, faults>>

\* Mutant: leaving the field only stops the timer.
HandleTitleBlurOnly(q, p) ==
  /\ CanEditDocument(p)
  /\ timer' = [timer EXCEPT ![p] = None]
  /\ UNCHANGED <<dbVars, req, listed, people, page, late, countVars>>

\* handleTitleBlur: the timer is stopped and the title saved, changed or not.
HandleTitleBlur(q, p) ==
  /\ CanEditDocument(p)
  /\ SaveTitle(q, p, page[p].title, {})
  /\ timer' = [timer EXCEPT ![p] = None]
  /\ UNCHANGED <<dbVars, listed, people, page, late, faults>>

\* ShareDialog: fetchPermissions when it opens.
CanManagePermissions(p) == page[p] # None /\ page[p].role = "owner"

FetchPermissions(q, p) ==
  /\ CanManagePermissions(p)
  /\ Send(q, "people", p, None)
  /\ UNCHANGED <<dbVars, pageVars, typist, faults>>

\* handleShare; the form waits for the answer, that of another tab does not.
HandleShare(q, p, user, role) ==
  /\ CanManagePermissions(p) /\ people[p] # None
  /\ Send(q, "share", p, [user |-> user, role |-> role])
  /\ UNCHANGED <<dbVars, pageVars, typist, faults>>

\* handleRemove: the button is not shown on the owner's row.
HandleRemove(q, p, row) ==
  /\ CanManagePermissions(p) /\ people[p] # None
  /\ row \in people[p] /\ row.role # "owner"
  /\ Send(q, "revoke", p, row.id)
  /\ UNCHANGED <<dbVars, pageVars, typist, faults>>

-----------------------------------------------------------------------------
(* The answers.                                                            *)

Done(q) ==
  /\ req' = [req EXCEPT ![q] = None]
  /\ UNCHANGED raced

\* Mutant: nothing is fetched again.
FollowUpNever(q, kind) == Done(q)

\* navigate to the new document, which is fetched; fetchPermissions after share.
FollowUp(q, kind) ==
  /\ req' = [req EXCEPT ![q] = Ask(kind, req[q].by, None)]
  /\ raced' = raced \union Overlapping(q, kind)

\* What each page does with the answer to its request: the code after the await.
Answer(q) ==
  LET r == req[q] IN
  \/ /\ r.kind = "create" /\ FollowUp(q, "open")
     /\ page' = [page EXCEPT ![r.by] = None]
     /\ UNCHANGED <<listed, people, timer, late>>
  \/ r.kind = "share" /\ FollowUp(q, "people") /\ UNCHANGED pageVars
  \/ r.kind = "rename" /\ Done(q) /\ UNCHANGED pageVars
  \/ /\ r.kind = "list" /\ Done(q)
     /\ listed' = [listed EXCEPT ![r.by] = r.got]
     /\ UNCHANGED <<people, page, timer, late>>
  \/ /\ r.kind = "delete" /\ Done(q)
     /\ listed' = [listed EXCEPT ![r.by] = 0]
     /\ UNCHANGED <<people, page, timer, late>>
  \/ /\ r.kind = "open" /\ Done(q)
     /\ page' = [page EXCEPT ![r.by] = r.got]
     /\ UNCHANGED <<listed, people, timer, late>>
  \/ /\ r.kind = "people" /\ Done(q)
     /\ people' = [people EXCEPT ![r.by] = r.got]
     /\ UNCHANGED <<listed, page, timer, late>>
  \/ /\ r.kind = "revoke" /\ Done(q)
     /\ people' = [people EXCEPT ![r.by] = {row \in @ : row.id # r.arg}]
     /\ UNCHANGED <<listed, page, timer, late>>

Answered(q) ==
  /\ req[q] # None /\ req[q].pc = "ok"
  /\ Answer(q)
  /\ UNCHANGED <<dbVars, typist, sends, faults>>

\* An error is ignored; the page of a document that cannot be fetched is left.
Refused(q) ==
  /\ req[q] # None /\ req[q].pc = "error"
  /\ req' = [req EXCEPT ![q] = None]
  /\ page' = IF req[q].kind = "open" THEN [page EXCEPT ![req[q].by] = None] ELSE page
  /\ raced' = raced \union {About(req[q].kind)}
  /\ UNCHANGED <<dbVars, listed, people, timer, late, typist, sends, faults>>

Serve(q) ==
  \/ FindDocument(q) \/ GetUserRole(q) \/ FindRow(q) \/ InsertDocument(q)
  \/ InsertOwner(q) \/ Execute(q) \/ Select(q) \/ Raise(q) \/ Answered(q) \/ Refused(q)

Use(q, p) ==
  \/ FetchDocuments(q, p) \/ HandleCreate(q, p) \/ HandleDelete(q, p) \/ FetchDoc(q, p)
  \/ TimerFires(q, p) \/ LateTimerFires(q, p) \/ HandleTitleBlur(q, p)
  \/ FetchPermissions(q, p)
  \/ \E user \in Person, role \in Role \ {"owner"} : HandleShare(q, p, user, role)
  \/ people[p] # None /\ \E row \in people[p] : HandleRemove(q, p, row)

Next ==
  \/ \E q \in Slot : Serve(q) \/ \E p \in Person : Use(q, p)
  \/ \E p \in Person, t \in Title : HandleTitleChange(p, t)

Spec == Init /\ [][Next]_vars

-----------------------------------------------------------------------------
\* What a request is about, and what it has read so far.
ArgOK(r) ==
  /\ r.kind = "rename" => r.arg \in Titles
  /\ r.kind = "share" => r.arg \in Share
  /\ r.kind = "revoke" => r.arg \in Nat
  /\ r.kind \notin {"rename", "share", "revoke"} => r.arg = None
GotOK(r) ==
  /\ r.pc = "role" => r.got \in Titles
  /\ r.pc = "write" /\ r.kind \in {"share", "revoke"} => r.got \in Nat
  /\ r.pc = "ok" /\ r.kind = "list" => r.got \in Nat
  /\ r.pc = "ok" /\ r.kind = "open" => r.got \in Page
  /\ r.pc = "ok" /\ r.kind = "people" => r.got \subseteq Row
  /\ \/ r.pc = "role"
     \/ r.pc = "write" /\ r.kind \in {"share", "revoke"}
     \/ r.pc = "ok" /\ r.kind \in {"list", "open", "people"}
     \/ r.got = None

\* The statements of each kind of request.
PlaceOK(r) ==
  /\ r.pc \in {"insertDoc", "insertRow"} => r.kind = "create"
  /\ r.pc \in {"find", "role"} => r.kind \notin {"create", "list"}
  /\ r.pc = "row" => r.kind \in {"share", "revoke"}
  /\ r.pc = "write" => r.kind \in {"rename", "delete", "share", "revoke"}
  /\ r.pc = "select" => r.kind \in {"list", "people"}

RequestOK(r) ==
  /\ DOMAIN r = {"kind", "by", "arg", "pc", "got"}
  /\ r.kind \in Kind /\ r.by \in Person /\ r.pc \in Statement
  /\ ArgOK(r) /\ GotOK(r) /\ PlaceOK(r)

\* Ids of permissions are unique.
DbOK ==
  /\ doc \in {"none", "live", "deleted"} /\ owner \in Person \union {None}
  /\ title \in Titles
  /\ rows \subseteq Row /\ IsFiniteSet(rows)
  /\ nextRow \in Nat \ {0}
  /\ \A r \in rows : r.id < nextRow /\ \A s \in rows : r.id = s.id => r = s

RequestsOK == DOMAIN req = Slot /\ \A q \in Slot : req[q] # None => RequestOK(req[q])

PagesOK ==
  /\ listed \in [Person -> Nat]
  /\ people \in [Person -> {None} \union SUBSET Row]
  /\ page \in [Person -> {None} \union Page]
  /\ timer \in [Person -> {None} \union Titles]
  /\ late \in [Person -> Seq(Titles)]

CountsOK ==
  /\ typist \in Person \union {None}
  /\ raced \subseteq {"title", "people", "list"}
  /\ sends \in 0 .. MaxSends /\ faults \in 0 .. MaxFaults

TypeOK == DbOK /\ RequestsOK /\ PagesOK /\ CountsOK

UnderWay(subject) == \E q \in Slot : req[q] # None /\ About(req[q].kind) = subject

(* The owner of a document keeps it and nobody else becomes an owner,      *)
(* whatever share and revoke requests overlap, duplicate each other's      *)
(* rows, or write what they checked several statements ago; only a create  *)
(* that failed between its two statements leaves a document without one.   *)
OwnerKept ==
  /\ \A r \in rows : r.role = "owner" <=> r.user = owner
  /\ (doc # "none" /\ ~Busy("create") /\ faults = 0) => \E r \in rows : r.user = owner

(* When all is quiet the stored title is the one on the page of whoever    *)
(* typed or saved one last, without the blanks around it, whichever of the *)
(* timer and the blur of the field saved it, unless the field was left     *)
(* blank, two requests about the title overlapped, one was refused, or the *)
(* timer of a page that was left ran out when its user had it open again.  *)
TitleSaved ==
  /\ typist # None /\ timer[typist] = None /\ page[typist] # None
  /\ ~UnderWay("title") /\ "title" \notin raced
  /\ Trim[page[typist].title] # Blank
  => Trim[page[typist].title] = title

(* When all is quiet the share dialog of the owner shows the permissions   *)
(* there are, duplicates included, and the owner's dashboard no document   *)
(* that was deleted, with the same exceptions: the pages change their      *)
(* lists themselves and fetch them in between.                             *)
PanelsShowRows ==
  \A p \in Person :
    /\ (people[p] # None /\ ~UnderWay("people") /\ "people" \notin raced) => people[p] = rows
    /\ (p = owner /\ listed[p] > 0 /\ ~UnderWay("list") /\ "list" \notin raced) => doc = "live"
=============================================================================
