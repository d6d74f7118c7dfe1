--------------------------- MODULE WorkspaceProofs ---------------------------
(* Proofs about Workspace, for any people, requests, titles and failures.  *)
EXTENDS Workspace, FiniteSetTheorems, TLAPS

-----------------------------------------------------------------------------
(* The inductive invariant.                                                *)

\* Before its document is created nobody owns it or has a permission.
NothingBefore == doc = "none" => owner = None /\ rows = {}

\* The rows of the owner, and no others, say so.
OneOwner == \A r \in rows : r.role = "owner" <=> r.user = owner

\* A request that was let in is of the owner, where only the owner is, and the
\* row it is about to write, if it is still there, is not the owner's.
Checked(r) ==
  /\ r.pc \in {"insertRow", "role", "row", "write"} => doc # "none"
  /\ r.pc = "insertRow" => r.by = owner
  /\ r.pc \in {"row", "write"} /\ r.kind \in {"share", "revoke"} => r.by = owner
  /\ r.pc = "write" /\ r.kind = "share" =>
       /\ r.arg.user # owner
       /\ r.got < nextRow
       /\ \A row \in rows : r.got # 0 /\ row.id = r.got => row.user # owner
  /\ r.pc = "write" /\ r.kind = "revoke" =>
       /\ r.got < nextRow
       /\ \A row \in rows : row.id = r.got => row.user # owner

AllChecked == \A q \in Slot : req[q] # None => Checked(req[q])

\* A create that did not fail has inserted the owner's row or is about to.
HasOwner ==
  doc # "none" /\ faults = 0 =>
    \/ \E r \in rows : r.user = owner
    \/ \E q \in Slot : req[q] # None /\ req[q].kind = "create" /\ req[q].pc = "insertRow"

\* The dialog whose Remove was clicked has shown the permissions.
DialogOK ==
  \A q \in Slot : req[q] # None /\ req[q].kind = "revoke" => people[req[q].by] \subseteq Row

IInv == TypeOK /\ DialogOK /\ NothingBefore /\ OneOwner /\ AllChecked /\ HasOwner

-----------------------------------------------------------------------------
(* Requests.                                                               *)

\* A statement moves one request and keeps what it is about.
LEMMA Moves ==
  ASSUME TypeOK, NEW q \in Slot, req[q] # None, NEW pc, NEW got, GoTo(q, pc, got)
  PROVE  /\ DOMAIN req' = Slot
         /\ \A o \in Slot : o # q => req'[o] = req[o]
         /\ DOMAIN req'[q] = {"kind", "by", "arg", "pc", "got"}
         /\ req'[q].kind = req[q].kind /\ req'[q].by = req[q].by /\ req'[q].arg = req[q].arg
         /\ req'[q].pc = pc /\ req'[q].got = got
  BY DEF TypeOK, RequestsOK, RequestOK, GoTo

\* A request is sent with its first statement.
LEMMA Asked ==
  ASSUME NEW kind \in Kind, NEW p \in Person, NEW arg,
         kind = "rename" => arg \in Titles,
         kind = "share" => arg \in Share,
         kind = "revoke" => arg \in Nat,
         kind \notin {"rename", "share", "revoke"} => arg = None
  PROVE  /\ RequestOK(Ask(kind, p, arg))
         /\ Ask(kind, p, arg).kind = kind
         /\ Ask(kind, p, arg).pc \in {"insertDoc", "select", "find"}
<1>1. FirstStatement(kind) \in {"insertDoc", "select", "find"}
  BY DEF FirstStatement
<1>2. ArgOK(Ask(kind, p, arg)) /\ GotOK(Ask(kind, p, arg))
  BY <1>1 DEF Ask, ArgOK, GotOK, Kind
<1>3. PlaceOK(Ask(kind, p, arg))
  BY <1>1 DEF Ask, PlaceOK, FirstStatement, Kind
<1>4. QED  BY <1>1, <1>2, <1>3 DEF Ask, RequestOK, Statement

\* A request that is OK is not null.
LEMMA NotNull ==
  ASSUME WorkspaceAssumption, NEW r, r = [kind |-> r.kind, by |-> r.by, arg |-> r.arg, pc |-> r.pc, got |-> r.got],
         RequestOK(r)
  PROVE  r # None
<1>1. r.arg \in {None} \union Titles \union Share \union Nat
  BY DEF RequestOK, ArgOK
<1>2. r.got \in {None} \union Titles \union Page \union Nat \union SUBSET Row
  BY DEF RequestOK, GotOK
<1>3. r \in Request
  BY <1>1, <1>2 DEF RequestOK, Request
<1>4. QED  BY <1>3 DEF WorkspaceAssumption

\* The other requests stay as they are.
LEMMA OneMoves ==
  ASSUME RequestsOK, NEW q \in Slot, DOMAIN req' = Slot,
         \A o \in Slot : o # q => req'[o] = req[o],
         req'[q] # None => RequestOK(req'[q])
  PROVE  RequestsOK'
  BY DEF RequestsOK

\* What overlaps is one of three subjects.
LEMMA Subjects ==
  ASSUME NEW q \in Slot, NEW kind
  PROVE  Overlapping(q, kind) \subseteq {"title", "people", "list"}
  BY DEF Overlapping, About

-----------------------------------------------------------------------------
(* Types: what the services write.                                         *)

\* An inserted permission is typed, whatever identifier it gets.
LEMMA InsertTyped ==
  ASSUME DbOK, NEW user \in Person, NEW role \in Role, Insert(user, role),
         doc' \in {"none", "live", "deleted"}, owner' \in Person \union {None}, title' \in Titles
  PROVE  DbOK'
<1> DEFINE new == [id |-> nextRow, user |-> user, role |-> role]
<1>1. rows' = rows \union {new} /\ nextRow' = nextRow + 1
  BY DEF Insert
<1>2. new \in Row /\ new.id = nextRow
  BY DEF DbOK, Row
<1>3. IsFiniteSet(rows')
  BY <1>1, FS_AddElement DEF DbOK
<1> HIDE DEF new
<1>4. \A r \in rows' : r.id < nextRow' /\ \A s \in rows' : r.id = s.id => r = s
  BY <1>1, <1>2 DEF DbOK, Row
<1>5. QED  BY <1>1, <1>2, <1>3, <1>4 DEF DbOK

\* An UPDATE changes the role of the rows with an id.
LEMMA UpdateTyped ==
  ASSUME DbOK, NEW id, NEW role \in Role,
         rows' = {IF row.id = id THEN [row EXCEPT !.role = role] ELSE row : row \in rows},
         UNCHANGED <<doc, owner, title, nextRow>>
  PROVE  DbOK'
<1> DEFINE Changed(row) == IF row.id = id THEN [row EXCEPT !.role = role] ELSE row
<1> DEFINE f == [row \in rows |-> Changed(row)]
<1>1. \A row \in rows : Changed(row) \in Row /\ Changed(row).id = row.id
  BY DEF DbOK, Row
<1>2. f \in Surjection(rows, rows')
  BY DEF Surjection
<1>3. IsFiniteSet(rows')
  BY <1>2, FS_Surjection DEF DbOK
<1>4. rows' = {Changed(row) : row \in rows}
  OBVIOUS
<1> HIDE DEF Changed
<1>5. rows' \subseteq Row
  BY <1>1, <1>4
<1>6. \A r \in rows' : r.id < nextRow' /\ \A s \in rows' : r.id = s.id => r = s
  BY <1>1, <1>4 DEF DbOK
<1>7. QED  BY <1>3, <1>5, <1>6 DEF DbOK

\* A write of a request keeps the tables typed.
LEMMA WriteTyped ==
  ASSUME DbOK, NEW r, RequestOK(r), r.pc = "write", Write(r)
  PROVE  DbOK'
<1>1. CASE r.kind = "rename"
  BY <1>1 DEF Write, RequestOK, ArgOK, DbOK
<1>2. CASE r.kind = "delete"
  BY <1>2 DEF Write, DbOK
<1>3. CASE r.kind = "share" /\ r.got = 0
  <2>1. r.arg.user \in Person /\ r.arg.role \in Role
    BY <1>3 DEF RequestOK, ArgOK, Share, Role
  <2>2. Insert(r.arg.user, r.arg.role) /\ UNCHANGED <<doc, owner, title>>
    BY <1>3 DEF Write
  <2>3. QED  BY <2>1, <2>2, InsertTyped DEF DbOK
<1>4. CASE r.kind = "share" /\ r.got # 0
  <2>1. r.arg.role \in Role
    BY <1>4 DEF RequestOK, ArgOK, Share, Role
  <2>2. QED  BY <1>4, <2>1, UpdateTyped DEF Write
<1>5. CASE r.kind = "revoke"
  <2>1. rows' \subseteq rows /\ UNCHANGED <<doc, owner, title, nextRow>>
    BY <1>5 DEF Write
  <2>2. IsFiniteSet(rows')
    BY <2>1, FS_Subset DEF DbOK
  <2>3. QED  BY <2>1, <2>2 DEF DbOK
<1>6. QED  BY <1>1, <1>2, <1>3, <1>4, <1>5 DEF Write

-----------------------------------------------------------------------------
(* Types: the statements of a request.                                     *)

\* A statement that ends a request with an error, from wherever it was.
LEMMA ErrorTyped ==
  ASSUME RequestsOK, NEW q \in Slot, req[q] # None, GoTo(q, "error", None), TypeOK
  PROVE  RequestsOK'
<1>1. RequestOK(req[q])
  BY DEF RequestsOK
<1>2. RequestOK(req'[q])
  BY <1>1, Moves DEF RequestOK, ArgOK, GotOK, PlaceOK, Statement
<1>3. QED  BY <1>2, Moves, OneMoves

\* The lookup of the document keeps the types, found or not.
LEMMA FindDocumentTyped ==
  ASSUME TypeOK, NEW q \in Slot, FindDocument(q)
  PROVE  TypeOK'
<1>1. req[q] # None /\ req[q].pc = "find" /\ RequestOK(req[q]) /\ RequestsOK
  BY DEF FindDocument, TypeOK, RequestsOK
<1>2. CASE doc = "live"
  <2>1. GoTo(q, "role", title)
    BY <1>2 DEF FindDocument
  <2>2. title \in Titles
    BY DEF TypeOK, DbOK
  <2>3. RequestOK(req'[q])
    BY <1>1, <2>1, <2>2, Moves DEF RequestOK, ArgOK, GotOK, PlaceOK, Statement
  <2>4. RequestsOK'
    BY <1>1, <2>1, <2>3, Moves, OneMoves
  <2>5. QED  BY <2>4 DEF FindDocument, TypeOK, DbOK, PagesOK, CountsOK, dbVars, pageVars, countVars
<1>3. CASE doc # "live"
  <2>1. RequestsOK'
    BY <1>1, <1>3, ErrorTyped DEF FindDocument
  <2>2. QED  BY <2>1 DEF FindDocument, TypeOK, DbOK, PagesOK, CountsOK, dbVars, pageVars, countVars
<1>4. QED  BY <1>2, <1>3

\* The lookup of the caller's role keeps the types, and lets in or refuses.
LEMMA GetUserRoleTyped ==
  ASSUME TypeOK, NEW q \in Slot, GetUserRole(q)
  PROVE  TypeOK'
<1>1. req[q] # None /\ req[q].pc = "role" /\ RequestOK(req[q]) /\ RequestsOK
  BY DEF GetUserRole, TypeOK, RequestsOK
<1>2. RequestsOK'
  <2>1. CASE GoTo(q, "error", None)
    BY <1>1, <2>1, ErrorTyped
  <2>2. ASSUME NEW row \in RowsOf(req[q].by), req[q].kind = "open",
               GoTo(q, "ok", [title |-> req[q].got, role |-> row.role])
        PROVE  RequestsOK'
    <3>1. req[q].got \in Titles /\ row.role \in Role
      BY <1>1 DEF RequestOK, GotOK, TypeOK, DbOK, RowsOf, Row
    <3>2. [title |-> req[q].got, role |-> row.role] \in Page
      BY <3>1 DEF Page
    <3>3. RequestOK(req'[q])
      BY <1>1, <2>2, <3>2, Moves DEF RequestOK, ArgOK, GotOK, PlaceOK, Statement
    <3>4. QED  BY <1>1, <2>2, <3>3, Moves, OneMoves
  <2>3. CASE req[q].kind \in {"share", "revoke"} /\ GoTo(q, "row", None)
    <3>1. RequestOK(req'[q])
      BY <1>1, <2>3, Moves DEF RequestOK, ArgOK, GotOK, PlaceOK, Statement
    <3>2. QED  BY <1>1, <2>3, <3>1, Moves, OneMoves
  <2>4. CASE req[q].kind = "people" /\ GoTo(q, "select", None)
    <3>1. RequestOK(req'[q])
      BY <1>1, <2>4, Moves DEF RequestOK, ArgOK, GotOK, PlaceOK, Statement
    <3>2. QED  BY <1>1, <2>4, <3>1, Moves, OneMoves
  <2>5. CASE req[q].kind \in {"rename", "delete"} /\ GoTo(q, "write", None)
    <3>1. RequestOK(req'[q])
      BY <1>1, <2>5, Moves DEF RequestOK, ArgOK, GotOK, PlaceOK, Statement
    <3>2. QED  BY <1>1, <2>5, <3>1, Moves, OneMoves
  <2>6. QED  BY <2>1, <2>2, <2>3, <2>4, <2>5 DEF GetUserRole
<1>3. QED  BY <1>2 DEF GetUserRole, TypeOK, DbOK, PagesOK, CountsOK, dbVars, pageVars, countVars

\* The lookup of the permission that share and revoke are about keeps the types.
LEMMA FindRowTyped ==
  ASSUME TypeOK, NEW q \in Slot, FindRow(q)
  PROVE  TypeOK'
<1>1. req[q] # None /\ req[q].pc = "row" /\ RequestOK(req[q]) /\ RequestsOK
  BY DEF FindRow, TypeOK, RequestsOK
<1>2. RequestsOK'
  <2>1. CASE GoTo(q, "error", None)
    BY <1>1, <2>1, ErrorTyped
  <2>2. ASSUME NEW id \in Nat, req[q].kind \in {"share", "revoke"}, GoTo(q, "write", id)
        PROVE  RequestsOK'
    <3>1. RequestOK(req'[q])
      BY <1>1, <2>2, Moves DEF RequestOK, ArgOK, GotOK, PlaceOK, Statement
    <3>2. QED  BY <1>1, <2>2, <3>1, Moves, OneMoves
  <2>3. \A row \in rows : row.id \in Nat
    BY DEF TypeOK, DbOK, Row
  <2>4. req[q].kind = "revoke" => req[q].arg \in Nat
    BY <1>1 DEF RequestOK, ArgOK
  <2>5. QED  BY <2>1, <2>2, <2>3, <2>4 DEF FindRow, RowsOf
<1>3. QED  BY <1>2 DEF FindRow, TypeOK, DbOK, PagesOK, CountsOK, dbVars, pageVars, countVars

\* The two inserts of a new document keep the types.
LEMMA CreateTyped ==
  ASSUME TypeOK, NEW q \in Slot, InsertDocument(q) \/ InsertOwner(q)
  PROVE  TypeOK'
<1>1. req[q] # None /\ req[q].pc \in {"insertDoc", "insertRow"} /\ RequestOK(req[q]) /\ RequestsOK
  BY DEF InsertDocument, InsertOwner, TypeOK, RequestsOK
<1>2. req[q].kind = "create" /\ req[q].by \in Person
  BY <1>1 DEF RequestOK, PlaceOK
<1>3. RequestsOK'
  <2>1. GoTo(q, "insertRow", None) \/ GoTo(q, "ok", None)
    BY DEF InsertDocument, InsertOwner
  <2>2. RequestOK(req'[q])
    BY <1>1, <1>2, <2>1, Moves DEF RequestOK, ArgOK, GotOK, PlaceOK, Statement
  <2>3. QED  BY <1>1, <2>1, <2>2, Moves, OneMoves
<1>4. DbOK'
  <2>1. CASE InsertDocument(q)
    BY <1>2, <2>1 DEF InsertDocument, TypeOK, DbOK
  <2>2. CASE InsertOwner(q)
    <3>1. "owner" \in Role
      BY DEF Role
    <3>2. QED  BY <1>2, <2>2, <3>1, InsertTyped DEF InsertOwner, TypeOK, DbOK
  <2>3. QED  BY <2>1, <2>2
<1>5. QED  BY <1>3, <1>4 DEF InsertDocument, InsertOwner, TypeOK, PagesOK, CountsOK, pageVars, countVars

\* A write keeps the types of the tables and of what its page reads next.
LEMMA ExecuteTyped ==
  ASSUME TypeOK, NEW q \in Slot, Execute(q)
  PROVE  TypeOK'
<1>1. req[q] # None /\ req[q].pc = "write" /\ RequestOK(req[q]) /\ RequestsOK /\ DbOK
  BY DEF Execute, TypeOK, RequestsOK
<1>2. req[q].kind \notin {"list", "open", "people"}
  BY <1>1 DEF RequestOK, PlaceOK
<1>3. RequestsOK'
  <2>1. GoTo(q, "error", None) \/ GoTo(q, "ok", None)
    BY DEF Execute
  <2>2. RequestOK(req'[q])
    BY <1>1, <1>2, <2>1, Moves DEF RequestOK, ArgOK, GotOK, PlaceOK, Statement
  <2>3. QED  BY <1>1, <2>1, <2>2, Moves, OneMoves
<1>4. DbOK'
  BY <1>1, WriteTyped DEF Execute
<1>5. QED  BY <1>3, <1>4 DEF Execute, TypeOK, PagesOK, CountsOK, pageVars, countVars

\* What a request reads for its answer is of the kind the page asked for.
LEMMA SelectTyped ==
  ASSUME TypeOK, NEW q \in Slot, Select(q)
  PROVE  TypeOK'
<1> DEFINE found == IF req[q].kind = "people" THEN rows
                    ELSE IF doc = "live" THEN Cardinality(RowsOf(req[q].by)) ELSE 0
<1>1. req[q] # None /\ req[q].pc = "select" /\ RequestOK(req[q]) /\ RequestsOK
  BY DEF Select, TypeOK, RequestsOK
<1>2. req[q].kind \in {"list", "people"}
  BY <1>1 DEF RequestOK, PlaceOK
<1>3. Cardinality(RowsOf(req[q].by)) \in Nat
  <2>1. IsFiniteSet(RowsOf(req[q].by))
    BY FS_Subset DEF TypeOK, DbOK, RowsOf
  <2>2. QED  BY <2>1, FS_CardinalityType
<1>4. (req[q].kind = "people" => found \subseteq Row) /\ (req[q].kind = "list" => found \in Nat)
  BY <1>3 DEF TypeOK, DbOK
<1>5. GoTo(q, "ok", found)
  BY DEF Select
<1> HIDE DEF found
<1>6. RequestOK(req'[q])
  BY <1>1, <1>2, <1>4, <1>5, Moves DEF RequestOK, ArgOK, GotOK, PlaceOK, Statement
<1>7. RequestsOK'
  BY <1>1, <1>5, <1>6, Moves, OneMoves
<1>8. QED  BY <1>7 DEF Select, TypeOK, DbOK, PagesOK, CountsOK, dbVars, pageVars, countVars

\* A request the database fails keeps the types.
LEMMA RaiseTyped ==
  ASSUME WorkspaceAssumption, TypeOK, NEW q \in Slot, Raise(q)
  PROVE  TypeOK'
<1>1. req[q] # None /\ RequestOK(req[q]) /\ RequestsOK /\ DbOK
  BY DEF Raise, TypeOK, RequestsOK
<1>2. RequestsOK'
  BY <1>1, ErrorTyped DEF Raise
<1>3. DbOK'
  BY <1>1, WriteTyped DEF Raise, DbOK, dbVars
<1>4. faults' \in 0 .. MaxFaults
  BY DEF Raise, TypeOK, CountsOK, WorkspaceAssumption
<1>5. QED  BY <1>2, <1>3, <1>4 DEF Raise, TypeOK, PagesOK, CountsOK, pageVars

-----------------------------------------------------------------------------
(* Types: the pages.                                                       *)

\* A request put into a slot.
LEMMA PutTyped ==
  ASSUME RequestsOK, NEW q \in Slot, NEW r, RequestOK(r), req' = [req EXCEPT ![q] = r]
  PROVE  RequestsOK'
<1>1. DOMAIN req' = Slot /\ req'[q] = r /\ \A o \in Slot : o # q => req'[o] = req[o]
  BY DEF RequestsOK
<1>2. QED  BY <1>1, OneMoves

\* A request a page sends is typed, whatever else it races with.
LEMMA SendTyped ==
  ASSUME WorkspaceAssumption, TypeOK, NEW q \in Slot, NEW p \in Person, NEW kind \in Kind, NEW arg,
         kind = "rename" => arg \in Titles,
         kind = "share" => arg \in Share,
         kind = "revoke" => arg \in Nat,
         kind \notin {"rename", "share", "revoke"} => arg = None,
         NEW stray \in SUBSET {"title"}, SendBeside(q, kind, p, arg, stray)
  PROVE  RequestsOK' /\ sends' \in 0 .. MaxSends /\ raced' \subseteq {"title", "people", "list"}
<1>1. RequestsOK'
  <2>1. RequestOK(Ask(kind, p, arg))
    BY Asked
  <2>2. req' = [req EXCEPT ![q] = Ask(kind, p, arg)]
    BY DEF SendBeside
  <2>3. QED  BY <2>1, <2>2, PutTyped DEF TypeOK
<1>2. sends' \in 0 .. MaxSends
  BY DEF SendBeside, TypeOK, CountsOK, WorkspaceAssumption
<1>3. raced' \subseteq {"title", "people", "list"}
  BY Subjects DEF SendBeside, TypeOK, CountsOK
<1>4. QED  BY <1>1, <1>2, <1>3

\* A title that is saved, or nothing but blanks, keeps the types of requests.
LEMMA SaveTitleTyped ==
  ASSUME WorkspaceAssumption, TypeOK, NEW q \in Slot, NEW p \in Person, NEW t \in Titles,
         NEW stray \in SUBSET {"title"}, SaveTitle(q, p, t, stray), UNCHANGED faults
  PROVE  RequestsOK' /\ CountsOK'
<1>1. CASE UNCHANGED <<req, typist, raced, sends>>
  BY <1>1 DEF TypeOK, RequestsOK, CountsOK
<1>2. CASE SendBeside(q, "rename", p, Trim[t], stray) /\ typist' = p
  <2>1. Trim[t] \in Titles /\ "rename" \in Kind
    BY DEF WorkspaceAssumption, Kind
  <2>2. RequestsOK' /\ sends' \in 0 .. MaxSends /\ raced' \subseteq {"title", "people", "list"}
    BY <1>2, <2>1, SendTyped
  <2>3. QED  BY <1>2, <2>2 DEF TypeOK, CountsOK
<1>3. QED  BY <1>1, <1>2 DEF SaveTitle

\* A timer or the field of the title keeps the types of the pages.
LEMMA TitleTimersTyped ==
  ASSUME TypeOK, NEW p \in Person
  PROVE  /\ [timer EXCEPT ![p] = None] \in [Person -> {None} \union Titles]
         /\ late[p] # <<>> => /\ Head(late[p]) \in Titles
                              /\ [late EXCEPT ![p] = Tail(late[p])] \in [Person -> Seq(Titles)]
         /\ timer[p] # None => [late EXCEPT ![p] = Append(late[p], timer[p])] \in [Person -> Seq(Titles)]
<1>1. timer \in [Person -> {None} \union Titles] /\ late \in [Person -> Seq(Titles)]
  BY DEF TypeOK, PagesOK
<1>2. late[p] \in Seq(Titles) /\ (timer[p] # None => timer[p] \in Titles)
  BY <1>1
<1>3. late[p] # <<>> => Head(late[p]) \in Titles /\ Tail(late[p]) \in Seq(Titles)
  BY <1>2
<1>4. timer[p] # None => Append(late[p], timer[p]) \in Seq(Titles)
  BY <1>2
<1>5. QED  BY <1>1, <1>3, <1>4

\* What the user does in a page keeps the types.
LEMMA UseTyped ==
  ASSUME WorkspaceAssumption, TypeOK, NEW q \in Slot, NEW p \in Person, Use(q, p)
  PROVE  TypeOK'
<1> USE DEF dbVars, pageVars
<1>1. CASE FetchDocuments(q, p)
  <2>1. Send(q, "list", p, None)
    BY <1>1 DEF FetchDocuments
  <2>2. QED  BY <1>1, <2>1, SendTyped DEF Send, FetchDocuments, TypeOK, DbOK, PagesOK, CountsOK, Kind
<1>2. CASE HandleCreate(q, p)
  <2>1. Send(q, "create", p, None)
    BY <1>2 DEF HandleCreate
  <2>2. QED  BY <1>2, <2>1, SendTyped DEF Send, HandleCreate, TypeOK, DbOK, PagesOK, CountsOK, Kind
<1>3. CASE HandleDelete(q, p)
  <2>1. Send(q, "delete", p, None)
    BY <1>3 DEF HandleDelete
  <2>2. QED  BY <1>3, <2>1, SendTyped DEF Send, HandleDelete, TypeOK, DbOK, PagesOK, CountsOK, Kind
<1>4. CASE FetchDoc(q, p)
  <2>1. Send(q, "open", p, None)
    BY <1>4 DEF FetchDoc
  <2>2. page' \in [Person -> {None} \union Page]
    BY <1>4 DEF FetchDoc, TypeOK, PagesOK
  <2>3. timer' \in [Person -> {None} \union Titles] /\ late' \in [Person -> Seq(Titles)]
    BY <1>4, TitleTimersTyped DEF FetchDoc, TypeOK, PagesOK
  <2>4. QED  BY <1>4, <2>1, <2>2, <2>3, SendTyped DEF Send, FetchDoc, TypeOK, DbOK, PagesOK, CountsOK, Kind
<1>5. CASE TimerFires(q, p)
  <2>1. timer[p] \in Titles /\ SaveTitle(q, p, timer[p], {}) /\ UNCHANGED faults
    BY <1>5 DEF TimerFires, TypeOK, PagesOK
  <2>2. RequestsOK' /\ CountsOK'
    BY <2>1, SaveTitleTyped
  <2>3. timer' \in [Person -> {None} \union Titles]
    BY <1>5, TitleTimersTyped DEF TimerFires
  <2>4. QED  BY <1>5, <2>2, <2>3 DEF TimerFires, TypeOK, DbOK, PagesOK
<1>6. CASE HandleTitleBlur(q, p)
  <2>1. page[p].title \in Titles /\ SaveTitle(q, p, page[p].title, {}) /\ UNCHANGED faults
    BY <1>6 DEF HandleTitleBlur, CanEditDocument, TypeOK, PagesOK, Page
  <2>2. RequestsOK' /\ CountsOK'
    BY <2>1, SaveTitleTyped
  <2>3. timer' \in [Person -> {None} \union Titles]
    BY <1>6, TitleTimersTyped DEF HandleTitleBlur
  <2>4. QED  BY <1>6, <2>2, <2>3 DEF HandleTitleBlur, TypeOK, DbOK, PagesOK
<1>11. CASE LateTimerFires(q, p)
  <2>1. Head(late[p]) \in Titles /\ late' \in [Person -> Seq(Titles)]
    BY <1>11, TitleTimersTyped DEF LateTimerFires
  <2>2. \E stray \in SUBSET {"title"} : SaveTitle(q, p, Head(late[p]), stray)
    BY <1>11 DEF LateTimerFires
  <2>3. RequestsOK' /\ CountsOK'
    BY <1>11, <2>1, <2>2, SaveTitleTyped DEF LateTimerFires
  <2>4. QED  BY <1>11, <2>1, <2>3 DEF LateTimerFires, TypeOK, DbOK, PagesOK
<1>7. CASE FetchPermissions(q, p)
  <2>1. Send(q, "people", p, None)
    BY <1>7 DEF FetchPermissions
  <2>2. QED  BY <1>7, <2>1, SendTyped DEF Send, FetchPermissions, TypeOK, DbOK, PagesOK, CountsOK, Kind
<1>8. ASSUME NEW user \in Person, NEW role \in Role \ {"owner"}, HandleShare(q, p, user, role)
      PROVE  TypeOK'
  <2>1. Send(q, "share", p, [user |-> user, role |-> role]) /\ [user |-> user, role |-> role] \in Share
    BY <1>8 DEF HandleShare, Share
  <2>2. QED  BY <1>8, <2>1, SendTyped DEF Send, HandleShare, TypeOK, DbOK, PagesOK, CountsOK, Kind
<1>9. ASSUME people[p] # None, NEW row \in people[p], HandleRemove(q, p, row)
      PROVE  TypeOK'
  <2>1. row.id \in Nat
    BY <1>9 DEF TypeOK, PagesOK, Row
  <2>2. Send(q, "revoke", p, row.id)
    BY <1>9 DEF HandleRemove
  <2>3. QED  BY <1>9, <2>1, <2>2, SendTyped DEF Send, HandleRemove, TypeOK, DbOK, PagesOK, CountsOK, Kind
<1>10. QED  BY <1>1, <1>2, <1>3, <1>4, <1>5, <1>6, <1>7, <1>8, <1>9, <1>11 DEF Use

\* Typing in the title keeps the types.
LEMMA HandleTitleChangeTyped ==
  ASSUME TypeOK, NEW p \in Person, NEW t \in Title, HandleTitleChange(p, t)
  PROVE  TypeOK'
<1>1. page[p] \in Page /\ t \in Titles
  BY DEF HandleTitleChange, CanEditDocument, TypeOK, PagesOK, Titles
<1>2. [page[p] EXCEPT !.title = t] \in Page
  BY <1>1 DEF Page
<1>3. page' = [page EXCEPT ![p] = [page[p] EXCEPT !.title = t]] /\ timer' = [timer EXCEPT ![p] = t]
  BY DEF HandleTitleChange
<1>4. PagesOK'
  BY <1>1, <1>2, <1>3 DEF HandleTitleChange, TypeOK, PagesOK
<1>5. QED  BY <1>4 DEF HandleTitleChange, TypeOK, DbOK, RequestsOK, CountsOK, dbVars

\* A request that is over leaves a typed table of requests.
LEMMA DoneTyped ==
  ASSUME RequestsOK, NEW q \in Slot, req' = [req EXCEPT ![q] = None]
  PROVE  RequestsOK'
<1>1. DOMAIN req' = Slot /\ req'[q] = None /\ \A o \in Slot : o # q => req'[o] = req[o]
  BY DEF RequestsOK
<1>2. QED  BY <1>1, OneMoves

\* A page takes an answer of the kind it keeps.
LEMMA AnsweredTyped ==
  ASSUME TypeOK, DialogOK, NEW q \in Slot, Answered(q)
  PROVE  TypeOK'
<1> DEFINE r == req[q]
<1>1. r # None /\ r.pc = "ok" /\ RequestOK(r) /\ RequestsOK /\ PagesOK
  BY DEF Answered, TypeOK, RequestsOK
<1>2. Answer(q) /\ r.by \in Person
  BY <1>1 DEF Answered, RequestOK
<1>3. RequestsOK' /\ raced' \subseteq {"title", "people", "list"}
  <2>1. CASE Done(q)
    BY <1>1, <2>1, DoneTyped DEF Done, TypeOK, CountsOK
  <2>2. ASSUME NEW kind \in {"open", "people"}, FollowUp(q, kind)
        PROVE  RequestsOK' /\ raced' \subseteq {"title", "people", "list"}
    <3>1. RequestOK(Ask(kind, r.by, None))
      BY <1>2, Asked DEF Kind
    <3>2. req' = [req EXCEPT ![q] = Ask(kind, r.by, None)]
      BY <2>2 DEF FollowUp
    <3>3. RequestsOK'
      BY <1>1, <3>1, <3>2, PutTyped
    <3>4. QED  BY <2>2, <3>3, Subjects DEF FollowUp, TypeOK, CountsOK
  <2>3. QED  BY <1>2, <2>1, <2>2 DEF Answer
<1>4. PagesOK'
  <2> USE DEF pageVars, PagesOK
  <2>1. CASE r.kind = "create" /\ page' = [page EXCEPT ![r.by] = None] /\ UNCHANGED <<listed, people, timer, late>>
    BY <1>1, <2>1
  <2>2. CASE UNCHANGED pageVars
    BY <1>1, <2>2
  <2>3. CASE r.kind = "list" /\ listed' = [listed EXCEPT ![r.by] = r.got] /\ UNCHANGED <<people, page, timer, late>>
    BY <1>1, <2>3 DEF RequestOK, GotOK
  <2>4. CASE r.kind = "delete" /\ listed' = [listed EXCEPT ![r.by] = 0] /\ UNCHANGED <<people, page, timer, late>>
    BY <1>1, <2>4
  <2>5. CASE r.kind = "open" /\ page' = [page EXCEPT ![r.by] = r.got] /\ UNCHANGED <<listed, people, timer, late>>
    BY <1>1, <2>5 DEF RequestOK, GotOK
  <2>6. CASE r.kind = "people" /\ people' = [people EXCEPT ![r.by] = r.got] /\ UNCHANGED <<listed, page, timer, late>>
    BY <1>1, <2>6 DEF RequestOK, GotOK
  <2>7. CASE /\ r.kind = "revoke"
             /\ people' = [people EXCEPT ![r.by] = {row \in @ : row.id # r.arg}]
             /\ UNCHANGED <<listed, page, timer, late>>
    <3>1. people[r.by] \subseteq Row
      BY <1>1, <2>7 DEF DialogOK
    <3>2. {row \in people[r.by] : row.id # r.arg} \in SUBSET Row
      BY <3>1
    <3>3. people' = [people EXCEPT ![r.by] = {row \in people[r.by] : row.id # r.arg}]
      BY <2>7
    <3>4. people' \in [Person -> {None} \union SUBSET Row]
      BY <1>1, <1>2, <3>2, <3>3
    <3>5. QED  BY <1>1, <2>7, <3>4
  <2>8. QED  BY <1>2, <2>1, <2>2, <2>3, <2>4, <2>5, <2>6, <2>7 DEF Answer
<1>5. QED  BY <1>3, <1>4 DEF Answered, TypeOK, DbOK, CountsOK, dbVars

\* An error of a request keeps the types.
LEMMA RefusedTyped ==
  ASSUME TypeOK, NEW q \in Slot, Refused(q)
  PROVE  TypeOK'
<1>1. RequestsOK'
  BY DoneTyped DEF Refused, TypeOK
<1>2. page' \in [Person -> {None} \union Page]
  BY DEF Refused, TypeOK, PagesOK
<1>3. raced' \subseteq {"title", "people", "list"}
  BY DEF Refused, TypeOK, CountsOK, About
<1>4. QED  BY <1>1, <1>2, <1>3 DEF Refused, TypeOK, DbOK, PagesOK, CountsOK, dbVars

\* Every step keeps the types.
LEMMA TypeStep ==
  ASSUME WorkspaceAssumption, TypeOK, DialogOK, [Next]_vars
  PROVE  TypeOK'
<1>1. ASSUME NEW q \in Slot, Serve(q)
      PROVE  TypeOK'
  BY <1>1, FindDocumentTyped, GetUserRoleTyped, FindRowTyped, CreateTyped, ExecuteTyped,
     SelectTyped, RaiseTyped, AnsweredTyped, RefusedTyped DEF Serve
<1>2. CASE UNCHANGED vars
  BY <1>2 DEF vars, dbVars, pageVars, countVars, TypeOK, DbOK, RequestsOK, PagesOK, CountsOK
<1>3. QED  BY <1>1, <1>2, UseTyped, HandleTitleChangeTyped DEF Next

\* The dialog whose Remove was clicked goes on showing permissions, after every step.
LEMMA DialogStep ==
  ASSUME WorkspaceAssumption, TypeOK, DialogOK, TypeOK', [Next]_vars
  PROVE  DialogOK'
<1> DEFINE Remove(r) == r # None /\ r.kind = "revoke"
<1> SUFFICES ASSUME NEW o \in Slot, Remove(req'[o])
             PROVE  people'[req'[o].by] \subseteq Row
  BY DEF DialogOK
<1>1. req'[o].by \in Person
  BY DEF TypeOK, RequestsOK, RequestOK
\* What a dialog shows stays a set of rows.
<1>2. ASSUME NEW p \in Person, people[p] \subseteq Row
      PROVE  people'[p] \subseteq Row
  <2>1. CASE UNCHANGED people
    BY <1>2, <2>1
  <2>2. ASSUME NEW q \in Slot, Answered(q), req[q].kind = "people",
               people' = [people EXCEPT ![req[q].by] = req[q].got]
        PROVE  people'[p] \subseteq Row
    BY <1>2, <2>2 DEF Answered, TypeOK, RequestsOK, RequestOK, GotOK, PagesOK
  <2>3. ASSUME NEW q \in Slot,
               people' = [people EXCEPT ![req[q].by] = {row \in @ : row.id # req[q].arg}]
        PROVE  people'[p] \subseteq Row
    <3>1. CASE p = req[q].by
      <4>1. people'[p] = {row \in people[p] : row.id # req[q].arg}
        BY <2>3, <3>1 DEF TypeOK, PagesOK
      <4>2. QED  BY <1>2, <4>1
    <3>2. CASE p # req[q].by
      BY <1>2, <2>3, <3>2 DEF TypeOK, PagesOK
    <3>3. QED  BY <3>1, <3>2
  <2>4. ASSUME NEW q \in Slot, Answered(q)
        PROVE  people'[p] \subseteq Row
    <3>1. \/ UNCHANGED people
          \/ req[q].kind = "people" /\ people' = [people EXCEPT ![req[q].by] = req[q].got]
          \/ people' = [people EXCEPT ![req[q].by] = {row \in @ : row.id # req[q].arg}]
      BY <2>4 DEF Answered, Answer, pageVars
    <3>2. QED  BY <2>1, <2>2, <2>3, <2>4, <3>1
  <2>5. ASSUME NEW q \in Slot, Serve(q), ~Answered(q)
        PROVE  UNCHANGED people
    BY <2>5 DEF Serve, FindDocument, GetUserRole, FindRow, InsertDocument, InsertOwner, Execute,
                Select, Raise, Refused, pageVars
  <2>6. ASSUME NEW q \in Slot, NEW u \in Person, Use(q, u)
        PROVE  UNCHANGED people
    BY <2>6 DEF Use, FetchDocuments, HandleCreate, HandleDelete, FetchDoc, TimerFires, LateTimerFires,
                HandleTitleBlur, FetchPermissions, HandleShare, HandleRemove, pageVars
  <2>7. ASSUME NEW u \in Person, NEW t \in Title, HandleTitleChange(u, t)
        PROVE  UNCHANGED people
    BY <2>7 DEF HandleTitleChange
  <2>8. CASE UNCHANGED vars
    BY <1>2, <2>8 DEF vars, pageVars
  <2>9. QED  BY <2>1, <2>4, <2>5, <2>6, <2>7, <2>8 DEF Next
\* A request to remove a row is from a dialog that shows it.
<1>3. people[req'[o].by] \subseteq Row
  <2>1. ASSUME Remove(req[o]), req'[o].by = req[o].by
        PROVE  people[req'[o].by] \subseteq Row
    BY <2>1 DEF DialogOK
  <2>2. ASSUME NEW q \in Slot, req[q] # None, NEW pc, NEW got, GoTo(q, pc, got)
        PROVE  people[req'[o].by] \subseteq Row
    <3>1. req'[o].kind = req[o].kind /\ req'[o].by = req[o].by /\ req[o] # None
      BY <2>2, Moves
    <3>2. QED  BY <2>1, <3>1
  <2>3. ASSUME NEW q \in Slot, NEW kind, NEW p \in Person, NEW arg,
               req' = [req EXCEPT ![q] = Ask(kind, p, arg)],
               kind = "revoke" => people[p] # None
        PROVE  people[req'[o].by] \subseteq Row
    <3>1. CASE o = q
      <4>1. req'[o].kind = kind /\ req'[o].by = p
        BY <2>3, <3>1 DEF Ask, TypeOK, RequestsOK
      <4>2. QED  BY <2>3, <4>1 DEF TypeOK, PagesOK
    <3>2. CASE o # q
      BY <2>1, <2>3, <3>2 DEF TypeOK, RequestsOK
    <3>3. QED  BY <3>1, <3>2
  <2>4. ASSUME NEW q \in Slot, req' = [req EXCEPT ![q] = None]
        PROVE  people[req'[o].by] \subseteq Row
    BY <2>1, <2>4 DEF TypeOK, RequestsOK
  <2>5. ASSUME NEW q \in Slot, Answered(q)
        PROVE  people[req'[o].by] \subseteq Row
    <3>1. Done(q) \/ \E kind \in {"open", "people"} : FollowUp(q, kind)
      BY <2>5 DEF Answered, Answer
    <3>2. req[q].by \in Person
      BY <2>5 DEF Answered, TypeOK, RequestsOK, RequestOK
    <3>3. QED  BY <2>3, <2>4, <3>1, <3>2 DEF Done, FollowUp
  <2>6. ASSUME NEW q \in Slot, Serve(q), ~Answered(q), ~Refused(q)
        PROVE  people[req'[o].by] \subseteq Row
    <3>1. req[q] # None /\ \E pc \in Statement : \E got : GoTo(q, pc, got)
      <4> USE DEF Statement
      <4>1. CASE FindDocument(q)
        BY <4>1 DEF FindDocument
      <4>2. CASE GetUserRole(q)
        BY <4>2 DEF GetUserRole
      <4>3. CASE FindRow(q)
        BY <4>3 DEF FindRow
      <4>4. CASE InsertDocument(q) \/ InsertOwner(q)
        BY <4>4 DEF InsertDocument, InsertOwner
      <4>5. CASE Execute(q)
        BY <4>5 DEF Execute
      <4>6. CASE Select(q)
        BY <4>6 DEF Select
      <4>7. CASE Raise(q)
        BY <4>7 DEF Raise
      <4>8. QED  BY <2>6, <4>1, <4>2, <4>3, <4>4, <4>5, <4>6, <4>7 DEF Serve
    <3>2. QED  BY <2>2, <3>1
  <2>7. ASSUME NEW q \in Slot, Refused(q)
        PROVE  people[req'[o].by] \subseteq Row
    BY <2>4, <2>7 DEF Refused
  <2>8. ASSUME NEW q \in Slot, NEW p \in Person, Use(q, p)
        PROVE  people[req'[o].by] \subseteq Row
    <3>1. \/ UNCHANGED req
          \/ \E kind \in Kind : \E arg : req' = [req EXCEPT ![q] = Ask(kind, p, arg)]
                                      /\ (kind = "revoke" => people[p] # None)
      <4> USE DEF Kind, Send, SendBeside
      <4>1. CASE FetchDocuments(q, p) \/ HandleCreate(q, p) \/ HandleDelete(q, p) \/ FetchDoc(q, p)
        BY <4>1 DEF FetchDocuments, HandleCreate, HandleDelete, FetchDoc
      <4>2. CASE TimerFires(q, p) \/ LateTimerFires(q, p) \/ HandleTitleBlur(q, p)
        BY <4>2 DEF TimerFires, LateTimerFires, HandleTitleBlur, SaveTitle
      <4>3. CASE FetchPermissions(q, p)
        BY <4>3 DEF FetchPermissions
      <4>4. CASE \E user \in Person, role \in Role \ {"owner"} : HandleShare(q, p, user, role)
        BY <4>4 DEF HandleShare
      <4>5. CASE people[p] # None /\ \E row \in people[p] : HandleRemove(q, p, row)
        BY <4>5 DEF HandleRemove
      <4>6. QED  BY <2>8, <4>1, <4>2, <4>3, <4>4, <4>5 DEF Use
    <3>2. CASE UNCHANGED req
      BY <2>1, <3>2
    <3>3. QED  BY <2>3, <3>1, <3>2
  <2>9. CASE UNCHANGED req
    BY <2>1, <2>9
  <2>10. QED  BY <2>5, <2>6, <2>7, <2>8, <2>9 DEF Next, HandleTitleChange, vars
<1>4. QED  BY <1>1, <1>2, <1>3

\* The types and the dialog hold at the start.
LEMMA TypeInit ==
  ASSUME WorkspaceAssumption, Init
  PROVE  TypeOK
<1>1. IsFiniteSet({})
  BY FS_EmptySet
<1>2. DbOK
  BY <1>1 DEF Init, DbOK, Titles
<1>3. RequestsOK /\ PagesOK
  BY DEF Init, RequestsOK, PagesOK
<1>4. CountsOK
  BY DEF Init, CountsOK, WorkspaceAssumption
<1>5. QED  BY <1>2, <1>3, <1>4 DEF TypeOK

(* Every table, request and page of the workspace keeps its shape, for any *)
(* number of users, requests and titles: ids of permissions stay unique    *)
(* whatever inserts overlap, and every answer a page takes is of the kind  *)
(* it asked for.                                                           *)
THEOREM WorkspaceTypeCorrect == Spec => []TypeOK
<1>1. Init => TypeOK /\ DialogOK
  BY WorkspaceAssumption, TypeInit DEF Init, DialogOK
<1>2. TypeOK /\ DialogOK /\ [Next]_vars => (TypeOK /\ DialogOK)'
  BY WorkspaceAssumption, TypeStep, DialogStep
<1>3. QED  BY <1>1, <1>2, PTL DEF Spec

-----------------------------------------------------------------------------
(* The owner.                                                              *)

\* What a step does to the tables: the owner and the user of a row stay, a row
\* that is new has a new id, and the owner's row is not removed.
TablesKept ==
  /\ doc # "none" => doc' # "none" /\ owner' = owner
  /\ nextRow <= nextRow'
  /\ \A new \in rows' : new.id = nextRow \/ \E old \in rows : old.id = new.id /\ old.user = new.user
  /\ doc # "none" /\ (\E r \in rows : r.user = owner) => \E r \in rows' : r.user = owner
  /\ NothingBefore' /\ OneOwner'

\* A step that writes no table keeps what holds of the tables.
LEMMA UnchangedKept ==
  ASSUME TypeOK, NothingBefore, OneOwner, UNCHANGED dbVars
  PROVE  TablesKept
  BY DEF TablesKept, NothingBefore, OneOwner, dbVars, TypeOK, DbOK

\* A write of a checked request keeps the single owner.
LEMMA WriteKept ==
  ASSUME TypeOK, NothingBefore, OneOwner, NEW r, RequestOK(r), Checked(r), r.pc = "write", Write(r)
  PROVE  TablesKept
<1>1. doc # "none"
  BY DEF Checked
<1>2. CASE r.kind = "rename" \/ r.kind = "delete"
  BY <1>1, <1>2 DEF Write, TablesKept, NothingBefore, OneOwner, TypeOK, DbOK
<1>3. CASE r.kind = "share" /\ r.got = 0
  <2> DEFINE new == [id |-> nextRow, user |-> r.arg.user, role |-> r.arg.role]
  <2>1. rows' = rows \union {new} /\ nextRow' = nextRow + 1 /\ UNCHANGED <<doc, owner>>
    BY <1>3 DEF Write, Insert
  <2>2. new.id = nextRow /\ new.user # owner /\ new.role # "owner"
    BY <1>3 DEF Checked, RequestOK, ArgOK, Share
  <2> HIDE DEF new
  <2>3. OneOwner'
    BY <2>1, <2>2 DEF OneOwner
  <2>4. QED  BY <1>1, <2>1, <2>2, <2>3 DEF TablesKept, NothingBefore, TypeOK, DbOK
<1>4. CASE r.kind = "share" /\ r.got # 0
  <2> DEFINE Changed(row) == IF row.id = r.got THEN [row EXCEPT !.role = r.arg.role] ELSE row
  <2>1. rows' = {Changed(row) : row \in rows} /\ UNCHANGED <<doc, owner, nextRow>>
    BY <1>4 DEF Write
  <2>2. \A row \in rows : /\ Changed(row).id = row.id /\ Changed(row).user = row.user
                          /\ Changed(row).role = "owner" <=> row.user = owner
    BY <1>4 DEF Checked, RequestOK, ArgOK, Share, TypeOK, DbOK, Row, OneOwner
  <2> HIDE DEF Changed
  <2>3. OneOwner'
    BY <2>1, <2>2 DEF OneOwner
  <2>4. QED  BY <1>1, <2>1, <2>2, <2>3 DEF TablesKept, NothingBefore, TypeOK, DbOK
<1>5. CASE r.kind = "revoke"
  <2>1. rows' = {row \in rows : row.id # r.got} /\ UNCHANGED <<doc, owner, nextRow>>
    BY <1>5 DEF Write
  <2>2. \A row \in rows : row.user = owner => row \in rows'
    BY <1>5, <2>1 DEF Checked
  <2>3. QED  BY <1>1, <2>1, <2>2 DEF TablesKept, NothingBefore, OneOwner, TypeOK, DbOK
<1>6. QED  BY <1>2, <1>3, <1>4, <1>5 DEF Write

\* Every step keeps the tables.
LEMMA StepKept ==
  ASSUME IInv, [Next]_vars
  PROVE  TablesKept
<1> USE DEF IInv
<1>1. CASE UNCHANGED dbVars
  BY <1>1, UnchangedKept
<1>2. ASSUME NEW q \in Slot, InsertDocument(q)
      PROVE  TablesKept
  <2>1. rows = {} /\ doc = "none" /\ doc' = "live" /\ UNCHANGED <<rows, nextRow>>
    BY <1>2 DEF InsertDocument, NothingBefore
  <2>2. QED  BY <2>1 DEF TablesKept, NothingBefore, OneOwner, TypeOK, DbOK
<1>3. ASSUME NEW q \in Slot, InsertOwner(q)
      PROVE  TablesKept
  <2> DEFINE new == [id |-> nextRow, user |-> req[q].by, role |-> "owner"]
  <2>1. doc # "none" /\ req[q].by = owner
    BY <1>3 DEF InsertOwner, AllChecked, Checked
  <2>2. rows' = rows \union {new} /\ nextRow' = nextRow + 1 /\ UNCHANGED <<doc, owner>>
    BY <1>3 DEF InsertOwner, Insert
  <2>3. new.id = nextRow /\ new.user = owner /\ new.role = "owner"
    BY <2>1
  <2> HIDE DEF new
  <2>4. QED  BY <2>1, <2>2, <2>3 DEF TablesKept, NothingBefore, OneOwner, TypeOK, DbOK
<1>4. ASSUME NEW q \in Slot, Execute(q) \/ (Raise(q) /\ ~UNCHANGED dbVars)
      PROVE  TablesKept
  <2>1. req[q] # None /\ req[q].pc = "write" /\ Write(req[q])
    BY <1>4 DEF Execute, Raise
  <2>2. RequestOK(req[q]) /\ Checked(req[q])
    BY <2>1 DEF TypeOK, RequestsOK, AllChecked
  <2>3. QED  BY <2>1, <2>2, WriteKept
<1>5. ASSUME NEW q \in Slot, Serve(q)
      PROVE  TablesKept
  <2>1. UNCHANGED dbVars \/ InsertDocument(q) \/ InsertOwner(q) \/ Execute(q) \/ Raise(q)
    BY <1>5 DEF Serve, FindDocument, GetUserRole, FindRow, Select, Answered, Refused
  <2>2. QED  BY <1>1, <1>2, <1>3, <1>4, <2>1
<1>6. ASSUME NEW q \in Slot, NEW p \in Person, Use(q, p)
      PROVE  UNCHANGED dbVars
  BY <1>6 DEF Use, FetchDocuments, HandleCreate, HandleDelete, FetchDoc, TimerFires, LateTimerFires,
              HandleTitleBlur, FetchPermissions, HandleShare, HandleRemove
<1>7. QED  BY <1>1, <1>5, <1>6 DEF Next, HandleTitleChange, vars

\* A request that does not move stays checked, whatever others write.
LEMMA StaysChecked ==
  ASSUME TypeOK, TablesKept, NEW o \in Slot, req[o] # None, req'[o] = req[o], Checked(req[o]), TypeOK'
  PROVE  Checked(req[o])'
<1> DEFINE r == req[o]
<1>1. nextRow \in Nat /\ nextRow' \in Nat /\ RequestOK(r)
  BY DEF TypeOK, DbOK, RequestsOK
<1>2. r.pc \in {"insertRow", "role", "row", "write"} => doc' # "none" /\ owner' = owner
  BY DEF TablesKept, Checked
<1>3. r.pc = "insertRow" => r.by = owner'
  BY <1>2 DEF Checked
<1>4. r.pc \in {"row", "write"} /\ r.kind \in {"share", "revoke"} => r.by = owner'
  BY <1>2 DEF Checked
<1>5. ASSUME r.pc = "write", r.kind \in {"share", "revoke"}
      PROVE  /\ r.got < nextRow'
             /\ \A row \in rows' : row.id = r.got /\ (r.kind = "share" => r.got # 0) => row.user # owner'
  <2>1. r.got \in Nat /\ r.got < nextRow /\ nextRow <= nextRow'
    BY <1>1, <1>5 DEF RequestOK, GotOK, Checked, TablesKept
  <2>2. \A row \in rows : row.id = r.got /\ (r.kind = "share" => r.got # 0) => row.user # owner
    BY <1>5 DEF Checked
  <2>3. ASSUME NEW row \in rows', row.id = r.got, r.kind = "share" => r.got # 0
        PROVE  row.user # owner'
    <3>1. PICK old \in rows : old.id = row.id /\ old.user = row.user
      BY <1>1, <2>1, <2>3 DEF TablesKept
    <3>2. QED  BY <1>2, <1>5, <2>2, <2>3, <3>1
  <2>4. QED  BY <1>1, <2>1, <2>3
<1>6. r.pc = "write" /\ r.kind = "share" => r.arg.user # owner'
  BY <1>2 DEF Checked
<1>7. QED  BY <1>2, <1>3, <1>4, <1>5, <1>6 DEF Checked

\* The check of the caller: a request that goes on to a row is the owner's.
LEMMA LetIn ==
  ASSUME TypeOK, OneOwner, NEW q \in Slot, GetUserRole(q), req[q].kind \in {"share", "revoke"}
  PROVE  GoTo(q, "error", None) \/ (req[q].by = owner /\ GoTo(q, "row", None))
  BY DEF GetUserRole, Allowed, RowsOf, OneOwner

\* The row that share and revoke find is not the owner's.
LEMMA RowFound ==
  ASSUME TypeOK, OneOwner, NEW q \in Slot, FindRow(q), Checked(req[q])
  PROVE  \/ GoTo(q, "error", None)
         \/ /\ req[q].kind = "share" /\ req[q].arg.user # owner
            /\ \E got \in Nat :
                 /\ GoTo(q, "write", got) /\ got < nextRow
                 /\ \A row \in rows : got # 0 /\ row.id = got => row.user # owner
         \/ /\ req[q].kind = "revoke"
            /\ \E got \in Nat :
                 /\ GoTo(q, "write", got) /\ got < nextRow
                 /\ \A row \in rows : row.id = got => row.user # owner
<1> DEFINE r == req[q]
<1>1. r.pc = "row" /\ (r.kind \in {"share", "revoke"} => r.by = owner)
  BY DEF FindRow, Checked
<1>2. nextRow \in Nat \ {0}
  BY DEF TypeOK, DbOK
<1>3. \A row \in rows : row.id \in Nat /\ row.id < nextRow /\ \A s \in rows : row.id = s.id => row = s
  BY DEF TypeOK, DbOK, Row
<1>4. CASE r.kind = "share" /\ ~Self(r)
  <2>1. r.arg.user # owner
    BY <1>1, <1>4 DEF Self
  <2>2. CASE GoTo(q, "write", 0)
    BY <1>2, <1>4, <2>1, <2>2
  <2>3. ASSUME NEW row \in RowsOf(r.arg.user), GoTo(q, "write", row.id)
        PROVE  \E got \in Nat :
                 /\ GoTo(q, "write", got) /\ got < nextRow
                 /\ \A any \in rows : got # 0 /\ any.id = got => any.user # owner
    BY <1>3, <2>1, <2>3 DEF RowsOf
  <2>4. QED  BY <1>4, <2>1, <2>2, <2>3 DEF FindRow
<1>5. ASSUME r.kind = "revoke", NEW row \in rows, row.id = r.arg, row.role # "owner",
             GoTo(q, "write", r.arg)
      PROVE  \E got \in Nat :
               /\ GoTo(q, "write", got) /\ got < nextRow
               /\ \A any \in rows : any.id = got => any.user # owner
  BY <1>3, <1>5 DEF OneOwner
<1>6. QED  BY <1>4, <1>5 DEF FindRow

\* A request that moves is checked again.
LEMMA MovesChecked ==
  ASSUME IInv, TypeOK', TablesKept, NEW q \in Slot, Serve(q), req'[q] # None
  PROVE  Checked(req[q])'
<1> USE DEF IInv
<1> DEFINE r == req[q]
<1>1. CASE req'[q].pc \in {"error", "ok", "select", "insertDoc", "find"}
  BY <1>1 DEF Checked
<1>2. CASE FindDocument(q) /\ GoTo(q, "role", title)
  <2>1. req'[q].pc = "role" /\ doc' # "none"
    BY <1>2, Moves DEF FindDocument, dbVars
  <2>2. QED  BY <2>1 DEF Checked
<1>3. CASE GetUserRole(q)
  <2>1. r # None /\ r.pc = "role" /\ RequestOK(r) /\ Checked(r) /\ UNCHANGED dbVars
    BY <1>3 DEF GetUserRole, AllChecked, TypeOK, RequestsOK
  <2>2. doc' # "none"
    BY <2>1 DEF Checked, dbVars
  <2>3. CASE GoTo(q, "row", None)
    <3>1. r.kind \in {"share", "revoke"} => r.by = owner
      <4>1. CASE GoTo(q, "error", None)
        BY <2>1, <2>3, <4>1, Moves
      <4>2. QED  BY <1>3, <4>1, LetIn
    <3>2. req'[q].pc = "row" /\ req'[q].kind = r.kind /\ req'[q].by = r.by
      BY <2>1, <2>3, Moves
    <3>3. QED  BY <2>1, <2>2, <3>1, <3>2 DEF Checked, dbVars
  <2>4. CASE r.kind \in {"rename", "delete"} /\ GoTo(q, "write", None)
    <3>1. req'[q].pc = "write" /\ req'[q].kind = r.kind
      BY <2>1, <2>4, Moves
    <3>2. QED  BY <2>2, <2>4, <3>1 DEF Checked
  <2>5. CASE GoTo(q, "error", None) \/ GoTo(q, "select", None) \/ \E got : GoTo(q, "ok", got)
    BY <1>1, <2>1, <2>5, Moves
  <2>6. QED  BY <1>3, <2>3, <2>4, <2>5 DEF GetUserRole
<1>4. CASE FindRow(q)
  <2>1. r # None /\ r.pc = "row" /\ RequestOK(r) /\ Checked(r) /\ UNCHANGED dbVars
    BY <1>4 DEF FindRow, AllChecked, TypeOK, RequestsOK
  <2>2. doc' # "none" /\ owner' = owner /\ rows' = rows /\ nextRow' = nextRow
    BY <2>1 DEF Checked, dbVars
  <2>3. r.kind \in {"share", "revoke"} /\ r.by = owner
    BY <2>1 DEF RequestOK, PlaceOK, Checked
  <2>4. CASE GoTo(q, "error", None)
    BY <1>1, <2>1, <2>4, Moves
  <2>5. ASSUME r.kind = "share", r.arg.user # owner, NEW got \in Nat, GoTo(q, "write", got),
               got < nextRow, \A row \in rows : got # 0 /\ row.id = got => row.user # owner
        PROVE  Checked(req[q])'
    <3>1. /\ req'[q].pc = "write" /\ req'[q].kind = r.kind /\ req'[q].by = r.by
          /\ req'[q].arg = r.arg /\ req'[q].got = got
      BY <2>1, <2>5, Moves
    <3>2. QED  BY <2>2, <2>3, <2>5, <3>1 DEF Checked
  <2>6. ASSUME r.kind = "revoke", NEW got \in Nat, GoTo(q, "write", got),
               got < nextRow, \A row \in rows : row.id = got => row.user # owner
        PROVE  Checked(req[q])'
    <3>1. /\ req'[q].pc = "write" /\ req'[q].kind = r.kind /\ req'[q].by = r.by
          /\ req'[q].got = got
      BY <2>1, <2>6, Moves
    <3>2. QED  BY <2>2, <2>3, <2>6, <3>1 DEF Checked
  <2>7. QED  BY <1>4, <2>1, <2>4, <2>5, <2>6, RowFound
<1>5. CASE InsertDocument(q)
  <2>1. r # None /\ doc' = "live" /\ owner' = r.by /\ GoTo(q, "insertRow", None)
    BY <1>5 DEF InsertDocument
  <2>2. req'[q].pc = "insertRow" /\ req'[q].by = r.by
    BY <2>1, Moves
  <2>3. QED  BY <2>1, <2>2 DEF Checked
<1>6. CASE r # None /\ (GoTo(q, "error", None) \/ \E got : GoTo(q, "ok", got))
  BY <1>1, <1>6, Moves
<1>7. CASE InsertOwner(q) \/ Execute(q) \/ Select(q) \/ Raise(q)
  BY <1>6, <1>7 DEF InsertOwner, Execute, Select, Raise
<1>8. CASE Answered(q)
  <2>1. Done(q) \/ \E kind \in {"open", "people"} : FollowUp(q, kind)
    BY <1>8 DEF Answered, Answer
  <2>2. \E kind \in {"open", "people"} : req'[q] = Ask(kind, r.by, None)
    BY <2>1 DEF Done, FollowUp, TypeOK, RequestsOK
  <2>3. req'[q].pc = "find"
    BY <2>2 DEF Ask, FirstStatement
  <2>4. QED  BY <1>1, <2>3
<1>9. CASE Refused(q)
  BY <1>9 DEF Refused, TypeOK, RequestsOK
<1>10. QED  BY <1>2, <1>3, <1>4, <1>5, <1>6, <1>7, <1>8, <1>9 DEF Serve, FindDocument

\* Every request stays checked.
LEMMA CheckedStep ==
  ASSUME IInv, TypeOK', TablesKept, [Next]_vars
  PROVE  AllChecked'
<1> USE DEF IInv
<1> SUFFICES ASSUME NEW o \in Slot, req'[o] # None
             PROVE  Checked(req[o])'
  BY DEF AllChecked
<1>1. CASE req'[o] = req[o]
  BY <1>1, StaysChecked DEF AllChecked
<1>2. ASSUME NEW kind \in Kind, NEW p, NEW arg, req'[o] = Ask(kind, p, arg)
      PROVE  Checked(req[o])'
  <2>1. req'[o].pc \in {"insertDoc", "select", "find"}
    BY <1>2 DEF Ask, FirstStatement
  <2>2. QED  BY <2>1 DEF Checked
<1>3. ASSUME NEW q \in Slot, q # o, Serve(q)
      PROVE  req'[o] = req[o]
  BY <1>3 DEF Serve, FindDocument, GetUserRole, FindRow, InsertDocument, InsertOwner, Execute,
              Select, Raise, Answered, Answer, Refused, Done, FollowUp, GoTo, TypeOK, RequestsOK
<1>4. ASSUME NEW q \in Slot, NEW p \in Person, Use(q, p)
      PROVE  UNCHANGED req \/ \E kind \in Kind : \E arg : req' = [req EXCEPT ![q] = Ask(kind, p, arg)]
  BY <1>4 DEF Use, FetchDocuments, HandleCreate, HandleDelete, FetchDoc, TimerFires, LateTimerFires, SaveTitle,
              HandleTitleBlur, FetchPermissions, HandleShare, HandleRemove, Send, SendBeside, Kind
<1>5. ASSUME NEW q \in Slot, NEW p \in Person, Use(q, p)
      PROVE  Checked(req[o])'
  BY <1>1, <1>2, <1>4, <1>5 DEF TypeOK, RequestsOK
<1>6. QED  BY <1>1, <1>3, <1>5, MovesChecked DEF Next, HandleTitleChange, vars

\* A create that is about to insert the owner's row.
Pending(q) == req[q] # None /\ req[q].kind = "create" /\ req[q].pc = "insertRow"

\* A document has an owner or is about to get it, unless the database failed.
LEMMA HasOwnerStep ==
  ASSUME WorkspaceAssumption, IInv, TypeOK', TablesKept, [Next]_vars
  PROVE  HasOwner'
<1> USE DEF IInv
<1> SUFFICES ASSUME doc' # "none", faults' = 0
             PROVE  (\E r \in rows' : r.user = owner') \/ \E q \in Slot : Pending(q)'
  BY DEF HasOwner, Pending
<1>1. ASSUME NEW q \in Slot, InsertDocument(q)
      PROVE  Pending(q)'
  <2>1. req[q] # None /\ req[q].pc = "insertDoc" /\ RequestOK(req[q]) /\ GoTo(q, "insertRow", None)
    BY <1>1 DEF InsertDocument, TypeOK, RequestsOK
  <2>2. req[q].kind = "create"
    BY <2>1 DEF RequestOK, PlaceOK
  <2>3. req'[q].kind = "create" /\ req'[q].pc = "insertRow"
    BY <2>1, <2>2, Moves
  <2>4. RequestOK([kind |-> req[q].kind, by |-> req[q].by, arg |-> req[q].arg,
                   pc |-> "insertRow", got |-> None])
    BY <2>1, <2>2 DEF RequestOK, ArgOK, GotOK, PlaceOK, Statement
  <2>5. [kind |-> req[q].kind, by |-> req[q].by, arg |-> req[q].arg,
         pc |-> "insertRow", got |-> None] # None
    BY <2>4, NotNull
  <2>6. req'[q] # None
    BY <2>1, <2>5 DEF GoTo, TypeOK, RequestsOK
  <2>7. QED  BY <2>3, <2>6 DEF Pending
<1>2. ASSUME NEW q \in Slot, InsertOwner(q)
      PROVE  \E r \in rows' : r.user = owner'
  <2> DEFINE new == [id |-> nextRow, user |-> req[q].by, role |-> "owner"]
  <2>1. req[q].by = owner
    BY <1>2 DEF InsertOwner, AllChecked, Checked
  <2>2. new \in rows' /\ owner' = owner
    BY <1>2 DEF InsertOwner, Insert
  <2>3. new.user = owner
    BY <2>1
  <2>4. QED  BY <2>2, <2>3
<1>3. ASSUME doc # "none", faults = 0,
             \A q \in Slot : ~InsertOwner(q) /\ ~Raise(q)
      PROVE  (\E r \in rows' : r.user = owner') \/ \E q \in Slot : Pending(q)'
  <2>1. CASE \E r \in rows : r.user = owner
    BY <1>3, <2>1 DEF TablesKept
  <2>2. ASSUME NEW o \in Slot, Pending(o)
        PROVE  Pending(o)'
    <3>1. req'[o] = req[o]
      <4>1. ASSUME NEW q \in Slot, Serve(q)
            PROVE  q # o
        BY <1>3, <2>2, <4>1 DEF Serve, Pending, FindDocument, GetUserRole, FindRow, InsertDocument,
           Execute, Select, Answered, Refused
      <4>2. ASSUME NEW q \in Slot, q # o, Serve(q)
            PROVE  req'[o] = req[o]
        BY <4>2 DEF Serve, FindDocument, GetUserRole, FindRow, InsertDocument, InsertOwner, Execute,
           Select, Raise, Answered, Answer, Refused, Done, FollowUp, GoTo, TypeOK, RequestsOK
      <4>3. ASSUME NEW q \in Slot, NEW p \in Person, Use(q, p)
            PROVE  req'[o] = req[o]
        <5>1. UNCHANGED req \/ (req[q] = None /\ \E r : req' = [req EXCEPT ![q] = r])
          BY <4>3 DEF Use, FetchDocuments, HandleCreate, HandleDelete, FetchDoc, TimerFires, LateTimerFires, SaveTitle,
             HandleTitleBlur, FetchPermissions, HandleShare, HandleRemove, Send, SendBeside
        <5>2. req[q] = None => q # o
          BY <2>2 DEF Pending
        <5>3. QED  BY <5>1, <5>2 DEF TypeOK, RequestsOK
      <4>4. QED  BY <4>1, <4>2, <4>3 DEF Next, HandleTitleChange, vars
    <3>2. QED  BY <2>2, <3>1 DEF Pending
  <2>3. QED  BY <1>3, <2>1, <2>2 DEF HasOwner, Pending
\* Only a create starts a document, and only a fault raises.
<1>4. doc # "none" \/ \E q \in Slot : InsertDocument(q)
  <2>1. CASE UNCHANGED doc
    BY <2>1
  <2>2. ASSUME NEW q \in Slot, Serve(q)
        PROVE  UNCHANGED doc \/ doc # "none" \/ InsertDocument(q)
    <3>1. CASE Execute(q) \/ Raise(q)
      BY <2>2, <3>1 DEF Execute, Raise, dbVars, AllChecked, Checked
    <3>2. QED  BY <2>2, <3>1 DEF Serve, FindDocument, GetUserRole, FindRow, InsertOwner, Select,
               Answered, Refused, dbVars
  <2>3. ASSUME NEW q \in Slot, NEW p \in Person, Use(q, p)
        PROVE  UNCHANGED doc
    BY <2>3 DEF Use, FetchDocuments, HandleCreate, HandleDelete, FetchDoc, TimerFires, LateTimerFires,
       HandleTitleBlur, FetchPermissions, HandleShare, HandleRemove, dbVars
  <2>4. QED  BY <2>1, <2>2, <2>3 DEF Next, HandleTitleChange, vars, dbVars
<1>5. faults = 0 /\ \A q \in Slot : ~Raise(q)
  <2>1. faults \in Nat
    BY DEF TypeOK, CountsOK
  <2>2. \A q \in Slot : ~Raise(q)
    BY <2>1 DEF Raise
  <2>3. ASSUME NEW q \in Slot, Serve(q)
        PROVE  UNCHANGED faults
    BY <2>2, <2>3 DEF Serve, FindDocument, GetUserRole, FindRow, InsertDocument, InsertOwner,
       Execute, Select, Answered, Refused, countVars
  <2>4. ASSUME NEW q \in Slot, NEW p \in Person, Use(q, p)
        PROVE  UNCHANGED faults
    BY <2>4 DEF Use, FetchDocuments, HandleCreate, HandleDelete, FetchDoc, TimerFires, LateTimerFires,
       HandleTitleBlur, FetchPermissions, HandleShare, HandleRemove
  <2>5. QED  BY <2>2, <2>3, <2>4 DEF Next, HandleTitleChange, vars, countVars
<1>6. QED  BY <1>1, <1>2, <1>3, <1>4, <1>5

\* The invariant of the owner holds at the start and is kept.
LEMMA OwnerInit == Init => IInv
BY WorkspaceAssumption, TypeInit
   DEF Init, IInv, DialogOK, NothingBefore, OneOwner, AllChecked, HasOwner

\* Every step keeps the invariant of the owner.
LEMMA OwnerStep == IInv /\ [Next]_vars => IInv'
<1> SUFFICES ASSUME IInv, [Next]_vars
             PROVE  IInv'
  OBVIOUS
<1>1. TypeOK'
  BY WorkspaceAssumption, TypeStep DEF IInv
<1>2. DialogOK'
  BY <1>1, WorkspaceAssumption, DialogStep DEF IInv
<1>3. TablesKept
  BY StepKept
<1>4. NothingBefore' /\ OneOwner'
  BY <1>3 DEF TablesKept
<1>5. AllChecked'
  BY <1>1, <1>3, CheckedStep
<1>6. HasOwner'
  BY <1>1, <1>3, WorkspaceAssumption, HasOwnerStep
<1>7. QED  BY <1>1, <1>2, <1>4, <1>5, <1>6 DEF IInv

(* The owner of a document keeps it and nobody else becomes an owner, for  *)
(* any number of users, pages and requests: a request that was let in to   *)
(* share or revoke is the owner's, and the row it found, however long ago, *)
(* is still that of somebody else or gone, so what it writes unguarded can *)
(* make no owner and unmake none.                                          *)
THEOREM WorkspaceOwnerKept == Spec => []OwnerKept
<1>1. IInv => OwnerKept
  BY DEF IInv, OneOwner, HasOwner, OwnerKept, Busy
<1>2. QED  BY <1>1, OwnerInit, OwnerStep, PTL DEF Spec

-----------------------------------------------------------------------------
(* What the pages show.                                                    *)

\* A request about a subject is under way in a slot, and at most one is.
Under(q, subject) == req[q] # None /\ About(req[q].kind) = subject
One(subject) == \A a, b \in Slot : Under(a, subject) /\ Under(b, subject) => a = b

Creates(q) == req[q] # None /\ req[q].kind = "create"

\* Until its creation is answered nobody has a page of the document, and until
\* it is inserted nobody lists it.
CreationInv ==
  /\ \A a, b \in Slot : Creates(a) /\ Creates(b) => a = b
  /\ doc = "none" \/ Busy("create") =>
       /\ \A p \in Person : page[p] = None /\ people[p] = None /\ timer[p] = None /\ late[p] = <<>>
       /\ \A q \in Slot : req[q] # None => req[q].kind \in {"create", "list", "delete"}
  /\ doc = "none" =>
       /\ \A p \in Person : listed[p] = 0
       /\ \A q \in Slot : req[q] # None =>
            /\ req[q].kind # "delete"
            /\ req[q].kind = "list" /\ req[q].pc = "ok" => req[q].got = 0
            /\ req[q].kind = "create" => req[q].pc # "ok"

\* Only the owner's pages manage the permissions and delete the document.
OwnerPagesInv ==
  /\ \A p \in Person : page[p] # None /\ page[p].role = "owner" => p = owner
  /\ \A p \in Person : people[p] # None => p = owner
  /\ \A q \in Slot : req[q] # None =>
       /\ req[q].kind \in {"share", "revoke", "people", "delete"} => req[q].by = owner
       /\ req[q].kind = "open" /\ req[q].pc = "ok" /\ req[q].got.role = "owner" => req[q].by = owner

\* A page that is being fetched is empty and will get the stored title.
OpensOK ==
  \A q \in Slot : req[q] # None /\ req[q].kind = "open" =>
    /\ page[req[q].by] = None /\ timer[req[q].by] = None
    /\ req[q].pc = "role" => req[q].got = title
    /\ req[q].pc = "ok" => req[q].got.title = title

\* A timer saves what is on its page.
TimersOK == \A p \in Person : timer[p] # None => page[p].title = timer[p]

\* What is left of the title on the page of the last typist, if no timer runs,
\* is nothing, the one being stored, or the stored one.
Settled ==
  /\ typist # None /\ timer[typist] = None /\ page[typist] # None
  /\ Trim[page[typist].title] # Blank
SavedOK ==
  Settled =>
    /\ \A q \in Slot : req[q] # None /\ req[q].kind = "rename" =>
         /\ req[q].by = typist /\ req[q].arg = Trim[page[typist].title]
         /\ req[q].pc = "ok" => title = req[q].arg
    /\ ~Busy("rename") => Trim[page[typist].title] = title

\* A title that is stored, or about to be, has no blanks around it.
TrimmedInv ==
  /\ Trim[title] = title
  /\ \A q \in Slot : req[q] # None /\ req[q].kind = "rename" => Trim[req[q].arg] = req[q].arg

TitleInv == "title" \notin raced => One("title") /\ OpensOK /\ TimersOK /\ SavedOK

\* The dialog of the owner shows the permissions, or those before the one that
\* is being revoked.
DialogsOK ==
  \A p \in Person : people[p] # None /\ ~UnderWay("people") => people[p] = rows
ChangesOK ==
  \A q \in Slot : req[q] # None =>
    /\ req[q].kind = "people" /\ req[q].pc = "ok" => req[q].got = rows
    /\ req[q].kind = "revoke" =>
         /\ req[q].pc \notin {"ok", "error"} => people[req[q].by] = rows
         /\ req[q].pc = "write" => req[q].got = req[q].arg
         /\ req[q].pc = "ok" => rows = {row \in people[req[q].by] : row.id # req[q].arg}
PeopleInv == "people" \notin raced => One("people") /\ DialogsOK /\ ChangesOK

\* The owner's dashboard lists the document only if it is there or about to be
\* deleted from it.
ListsOK ==
  /\ \A q \in Slot : req[q] # None /\ req[q].kind = "list" /\ req[q].pc = "ok" /\ req[q].got > 0 =>
       doc = "live"
  /\ \A p \in Person : p = owner /\ listed[p] > 0 => doc = "live" \/ Busy("delete")
ListInv == "list" \notin raced => One("list") /\ ListsOK

ShownInv == CreationInv /\ OwnerPagesInv /\ TrimmedInv /\ TitleInv /\ PeopleInv /\ ListInv

-----------------------------------------------------------------------------
(* What a statement of a request does.                                     *)

\* A request goes on: it is about what it was about, and no page changes.
GoesOn(q) ==
  /\ req[q] # None /\ req'[q] # None
  /\ req[q].pc \notin {"ok", "error"}
  /\ req'[q].kind = req[q].kind /\ req'[q].by = req[q].by /\ req'[q].arg = req[q].arg
  /\ \A o \in Slot \ {q} : req'[o] = req[o]
  /\ UNCHANGED <<pageVars, typist, raced>>

\* What it has written when it goes on, and what it has read.
Wrote(q) ==
  /\ title' = title \/ (req[q].kind = "rename" /\ title' = req[q].arg)
  /\ \/ rows' = rows \/ req[q].kind \in {"share", "create"}
     \/ req[q].kind = "revoke" /\ req'[q].pc \in {"ok", "error"}
  /\ \/ doc' = doc
     \/ req[q].kind = "create" /\ doc = "none" /\ doc' = "live"
     \/ req[q].kind = "delete"
ReadByPage(q) ==
  /\ req[q].kind = "create" => req[q].pc = "insertRow"
  /\ req[q].kind = "open" =>
       /\ title' = title /\ req[q].pc = "role"
       /\ \E row \in RowsOf(req[q].by) : req'[q].got = [title |-> req[q].got, role |-> row.role]
  /\ req[q].kind = "rename" => title' = req[q].arg
  /\ req[q].kind = "list" => doc' = doc /\ (doc # "live" => req'[q].got = 0)
  /\ req[q].kind = "people" => rows' = rows /\ req'[q].got = rows
  /\ req[q].kind = "revoke" =>
       req[q].pc = "write" /\ rows' = {row \in rows : row.id # req[q].got}
Effect(q) ==
  /\ GoesOn(q) /\ Wrote(q)
  /\ req'[q].pc = "role" => title' = title /\ req'[q].got = title
  /\ req'[q].pc = "write" /\ req[q].kind = "revoke" => req'[q].got = req[q].arg
  /\ req'[q].pc = "ok" => ReadByPage(q)

\* A request that goes on is not null.
LEMMA Alive ==
  ASSUME WorkspaceAssumption, TypeOK, NEW q \in Slot, req[q] # None, NEW pc \in Statement,
         NEW got \in {None} \union Titles \union Page \union Nat \union SUBSET Row, GoTo(q, pc, got)
  PROVE  req'[q] # None
<1> DEFINE new == [kind |-> req[q].kind, by |-> req[q].by, arg |-> req[q].arg, pc |-> pc, got |-> got]
<1>1. RequestOK(req[q]) /\ req'[q] = new
  BY DEF TypeOK, RequestsOK, GoTo
<1>2. req[q].arg \in {None} \union Titles \union Share \union Nat
  BY <1>1 DEF RequestOK, ArgOK
<1>3. new \in Request
  BY <1>1, <1>2 DEF RequestOK, Request
<1>. QED  BY <1>1, <1>3 DEF WorkspaceAssumption

\* A step of a request to a statement with what it has read.
LEMMA GoesOnTo ==
  ASSUME WorkspaceAssumption, TypeOK, NEW q \in Slot, req[q] # None, req[q].pc \notin {"ok", "error"},
         NEW pc \in Statement,
         NEW got \in {None} \union Titles \union Page \union Nat \union SUBSET Row, GoTo(q, pc, got),
         UNCHANGED <<pageVars, typist, raced>>
  PROVE  GoesOn(q) /\ req'[q].pc = pc /\ req'[q].got = got
  BY Alive, Moves DEF GoesOn

\* The lookup of the document sends its request on or ends it, and writes nothing.
LEMMA FindDocumentEffect ==
  ASSUME WorkspaceAssumption, TypeOK, NEW q \in Slot, FindDocument(q)
  PROVE  Effect(q)
<1>1. /\ req[q] # None /\ req[q].pc = "find" /\ RequestOK(req[q]) /\ title \in Titles
      /\ UNCHANGED <<pageVars, typist, raced>> /\ UNCHANGED dbVars
  BY DEF FindDocument, TypeOK, RequestsOK, DbOK, countVars
<1>2. \E pc \in {"role", "error"} : \E got \in {title, None} :
        GoTo(q, pc, got) /\ (pc = "role" => got = title)
  BY DEF FindDocument
<1>3. GoesOn(q) /\ req'[q].pc \in {"role", "error"} /\ (req'[q].pc = "role" => req'[q].got = title)
  BY <1>1, <1>2, GoesOnTo DEF Statement
<1>. QED  BY <1>1, <1>3 DEF Effect, Wrote, dbVars

\* The lookup of the caller's role sends its request on or ends it, and writes nothing.
LEMMA GetUserRoleEffect ==
  ASSUME WorkspaceAssumption, TypeOK, NEW q \in Slot, GetUserRole(q)
  PROVE  Effect(q)
<1>1. /\ req[q] # None /\ req[q].pc = "role" /\ RequestOK(req[q]) /\ req[q].got \in Titles
      /\ UNCHANGED <<pageVars, typist, raced>> /\ UNCHANGED dbVars
  BY DEF GetUserRole, TypeOK, RequestsOK, RequestOK, GotOK, DbOK, countVars
<1>2. ASSUME NEW pc \in {"error", "row", "select", "write"}, GoTo(q, pc, None),
             pc = "write" => req[q].kind \in {"rename", "delete"}
      PROVE  Effect(q)
  <2>1. GoesOn(q) /\ req'[q].pc = pc
    BY <1>1, <1>2, GoesOnTo DEF Statement
  <2>. QED  BY <1>1, <1>2, <2>1 DEF Effect, Wrote, dbVars
<1>3. ASSUME NEW row \in RowsOf(req[q].by), req[q].kind = "open",
             GoTo(q, "ok", [title |-> req[q].got, role |-> row.role])
      PROVE  Effect(q)
  <2>1. row.role \in Role
    BY DEF TypeOK, DbOK, RowsOf, Row
  <2>2. [title |-> req[q].got, role |-> row.role] \in Page
    BY <1>1, <2>1 DEF Page
  <2>3. GoesOn(q) /\ req'[q].pc = "ok" /\ req'[q].got = [title |-> req[q].got, role |-> row.role]
    BY <1>1, <1>3, <2>2, GoesOnTo DEF Statement
  <2>. QED  BY <1>1, <1>3, <2>3 DEF Effect, Wrote, ReadByPage, dbVars
<1>. QED  BY <1>2, <1>3 DEF GetUserRole

\* The lookup of the row sends its request on with it or ends it, and writes nothing.
LEMMA FindRowEffect ==
  ASSUME WorkspaceAssumption, TypeOK, NEW q \in Slot, FindRow(q)
  PROVE  Effect(q)
<1>1. /\ req[q] # None /\ req[q].pc = "row" /\ RequestOK(req[q])
      /\ UNCHANGED <<pageVars, typist, raced>> /\ UNCHANGED dbVars
  BY DEF FindRow, TypeOK, RequestsOK, countVars
<1>2. CASE GoTo(q, "error", None)
  <2>1. GoesOn(q) /\ req'[q].pc = "error"
    BY <1>1, <1>2, GoesOnTo DEF Statement
  <2>. QED  BY <1>1, <2>1 DEF Effect, Wrote, dbVars
<1>3. ASSUME NEW id \in Nat, GoTo(q, "write", id), req[q].kind = "revoke" => id = req[q].arg
      PROVE  Effect(q)
  <2>1. GoesOn(q) /\ req'[q].pc = "write" /\ req'[q].got = id
    BY <1>1, <1>3, GoesOnTo DEF Statement
  <2>. QED  BY <1>1, <1>3, <2>1 DEF Effect, Wrote, dbVars
<1>4. \A row \in rows : row.id \in Nat
  BY DEF TypeOK, DbOK, Row
<1>5. req[q].kind = "revoke" => req[q].arg \in Nat
  BY <1>1 DEF RequestOK, ArgOK
<1>. QED  BY <1>2, <1>3, <1>4, <1>5 DEF FindRow, RowsOf

\* The two inserts of a new document are such a step.
LEMMA CreateEffect ==
  ASSUME WorkspaceAssumption, TypeOK, NEW q \in Slot, InsertDocument(q) \/ InsertOwner(q)
  PROVE  Effect(q)
<1>1. /\ req[q] # None /\ req[q].pc \in {"insertDoc", "insertRow"} /\ req[q].kind = "create"
      /\ UNCHANGED <<pageVars, typist, raced>> /\ UNCHANGED title
  BY DEF InsertDocument, InsertOwner, TypeOK, RequestsOK, RequestOK, PlaceOK, countVars
<1>2. \E pc \in {"insertRow", "ok"} : GoTo(q, pc, None)
  BY DEF InsertDocument, InsertOwner
<1>3. GoesOn(q) /\ req'[q].pc \in {"insertRow", "ok"}
  BY <1>1, <1>2, GoesOnTo DEF Statement
<1>4. req'[q].pc = "ok" => req[q].pc = "insertRow"
  BY <1>1, Moves DEF InsertDocument, InsertOwner
<1>. QED  BY <1>1, <1>3, <1>4 DEF Effect, Wrote, ReadByPage, InsertDocument, InsertOwner

\* A write changes what its kind says and nothing else.
LEMMA WriteEffect ==
  ASSUME NEW r, Write(r)
  PROVE  /\ title' = title \/ (r.kind = "rename" /\ title' = r.arg)
         /\ rows' = rows \/ r.kind \in {"share", "revoke"}
         /\ doc' = doc \/ r.kind = "delete"
         /\ r.kind = "rename" => title' = r.arg
         /\ r.kind = "revoke" => rows' = {row \in rows : row.id # r.got}
         /\ owner' = owner
  BY DEF Write

\* A write is such a step, and its request reads next or is over.
LEMMA ExecuteEffect ==
  ASSUME WorkspaceAssumption, TypeOK, NEW q \in Slot, Execute(q)
  PROVE  Effect(q)
<1>1. /\ req[q] # None /\ req[q].pc = "write" /\ RequestOK(req[q])
      /\ UNCHANGED <<pageVars, typist, raced>> /\ Write(req[q])
  BY DEF Execute, TypeOK, RequestsOK, countVars
<1>2. req[q].kind \notin {"list", "open", "people", "create"}
  BY <1>1 DEF RequestOK, PlaceOK
<1>3. \E pc \in {"ok", "error"} : GoTo(q, pc, None)
  BY DEF Execute
<1>4. GoesOn(q) /\ req'[q].pc \in {"ok", "error"}
  BY <1>1, <1>3, GoesOnTo DEF Statement
<1>. QED  BY <1>1, <1>2, <1>4, WriteEffect DEF Effect, Wrote, ReadByPage

\* The last reads leave the request with what the tables hold.
LEMMA SelectEffect ==
  ASSUME WorkspaceAssumption, TypeOK, NEW q \in Slot, Select(q)
  PROVE  Effect(q)
<1> DEFINE found == IF req[q].kind = "people" THEN rows
                    ELSE IF doc = "live" THEN Cardinality(RowsOf(req[q].by)) ELSE 0
<1>1. /\ req[q] # None /\ req[q].pc = "select" /\ RequestOK(req[q])
      /\ UNCHANGED <<pageVars, typist, raced>> /\ UNCHANGED dbVars
  BY DEF Select, TypeOK, RequestsOK, countVars
<1>2. req[q].kind \in {"list", "people"}
  BY <1>1 DEF RequestOK, PlaceOK
<1>3. Cardinality(RowsOf(req[q].by)) \in Nat
  <2>1. IsFiniteSet(RowsOf(req[q].by))
    BY FS_Subset DEF TypeOK, DbOK, RowsOf
  <2>. QED  BY <2>1, FS_CardinalityType
<1>4. found \in Nat \union SUBSET Row
  BY <1>3 DEF TypeOK, DbOK
<1>5. (req[q].kind = "people" => found = rows) /\ (req[q].kind # "people" /\ doc # "live" => found = 0)
  OBVIOUS
<1>6. GoTo(q, "ok", found)
  BY DEF Select
<1> HIDE DEF found
<1>7. GoesOn(q) /\ req'[q].pc = "ok" /\ req'[q].got = found
  BY <1>1, <1>4, <1>6, GoesOnTo DEF Statement
<1>. QED  BY <1>1, <1>2, <1>5, <1>7 DEF Effect, Wrote, ReadByPage, dbVars

\* A request the database fails ends with an error and writes nothing.
LEMMA RaiseEffect ==
  ASSUME WorkspaceAssumption, TypeOK, NEW q \in Slot, Raise(q)
  PROVE  Effect(q)
<1>1. /\ req[q] # None /\ req[q].pc \notin {"ok", "error"} /\ GoTo(q, "error", None)
      /\ UNCHANGED <<pageVars, typist, raced>>
      /\ UNCHANGED dbVars \/ Write(req[q])
  BY DEF Raise
<1>2. GoesOn(q) /\ req'[q].pc = "error"
  BY <1>1, GoesOnTo DEF Statement
<1>. QED  BY <1>1, <1>2, WriteEffect DEF Effect, Wrote, dbVars

\* Every statement of a request is such a step.
LEMMA ServeEffect ==
  ASSUME WorkspaceAssumption, TypeOK, NEW q \in Slot, Serve(q)
  PROVE  Effect(q) \/ Answered(q) \/ Refused(q)
  BY FindDocumentEffect, GetUserRoleEffect, FindRowEffect, CreateEffect, ExecuteEffect, SelectEffect,
     RaiseEffect DEF Serve

-----------------------------------------------------------------------------
(* What a page does.                                                       *)

\* A request is put into a slot, and races with those about the same subject.
Puts(q, kind, p, arg) ==
  /\ req'[q] # None /\ req'[q].kind = kind /\ req'[q].by = p /\ req'[q].arg = arg
  /\ req'[q].pc = FirstStatement(kind)
  /\ \A o \in Slot \ {q} : req'[o] = req[o]
  /\ raced \union Overlapping(q, kind) \subseteq raced'

\* A request a page sends takes a free slot and races what it overlaps.
LEMMA PutsIt ==
  ASSUME WorkspaceAssumption, TypeOK, NEW q \in Slot, NEW kind \in Kind, NEW p \in Person, NEW arg,
         kind = "rename" => arg \in Titles,
         kind = "share" => arg \in Share,
         kind = "revoke" => arg \in Nat,
         kind \notin {"rename", "share", "revoke"} => arg = None,
         req' = [req EXCEPT ![q] = Ask(kind, p, arg)],
         raced \union Overlapping(q, kind) \subseteq raced'
  PROVE  Puts(q, kind, p, arg)
<1>1. RequestOK(Ask(kind, p, arg))
  BY Asked
<1>2. Ask(kind, p, arg) # None
  BY <1>1, NotNull DEF Ask
<1>. QED  BY <1>2 DEF Puts, Ask, TypeOK, RequestsOK

\* The title a request to rename is about: that of the timer or of the page, or,
\* of a page that was left, one that nobody sees or that races.
Saves(p, arg) ==
  \/ /\ \/ timer[p] # None /\ arg = Trim[timer[p]]
        \/ page[p] # None /\ arg = Trim[page[p].title]
     /\ timer' = [timer EXCEPT ![p] = None] /\ late' = late
  \/ /\ page[p] = None \/ "title" \in raced'
     /\ late[p] # <<>>
     /\ timer' = timer

\* The request of a user's action, and what its page looked at and changed.
Asks(q, p, kind, arg) ==
  /\ req[q] = None /\ Puts(q, kind, p, arg)
  /\ UNCHANGED <<dbVars, listed, people>>
  /\ kind = "create" => doc = "none" /\ ~Busy("create")
  /\ kind = "delete" => p = owner /\ listed[p] > 0
  /\ IF kind = "open"
     THEN /\ listed[p] > 0 /\ ~Busy("create") /\ page' = [page EXCEPT ![p] = None]
          /\ timer' = [timer EXCEPT ![p] = None]
     ELSE page' = page
  /\ IF kind = "rename" THEN Trim[arg] = arg /\ Saves(p, arg) /\ typist' = p ELSE typist' = typist
  /\ kind \notin {"open", "rename"} => UNCHANGED <<timer, late>>
  /\ kind \in {"share", "revoke", "people"} => page[p] # None /\ page[p].role = "owner"
  /\ kind \in {"share", "revoke"} => people[p] # None

\* A title of nothing but blanks is not saved: only its timer is over.
Quiet(p) ==
  /\ UNCHANGED <<dbVars, req, listed, people, page, typist, raced>>
  /\ \/ /\ \/ timer[p] # None /\ Trim[timer[p]] = Blank
           \/ page[p] # None /\ Trim[page[p].title] = Blank
        /\ timer' = [timer EXCEPT ![p] = None] /\ late' = late
     \/ late[p] # <<>> /\ timer' = timer

\* What the user or a timer does in a page changes that page, and puts at most
\* one request.
LEMMA UseEffect ==
  ASSUME WorkspaceAssumption, TypeOK, NEW q \in Slot, NEW p \in Person, Use(q, p)
  PROVE  Quiet(p) \/ \E kind \in Kind : \E arg : Asks(q, p, kind, arg)
<1>. USE DEF Kind, dbVars, pageVars
<1>1. ASSUME NEW kind \in Kind, NEW arg, NEW stray, SendBeside(q, kind, p, arg, stray),
             kind = "rename" => arg \in Titles,
             kind = "share" => arg \in Share,
             kind = "revoke" => arg \in Nat,
             kind \notin {"rename", "share", "revoke"} => arg = None
      PROVE  req[q] = None /\ Puts(q, kind, p, arg) /\ stray \subseteq raced'
  <2>1. /\ req[q] = None /\ req' = [req EXCEPT ![q] = Ask(kind, p, arg)]
        /\ raced' = raced \union stray \union Overlapping(q, kind)
    BY <1>1 DEF SendBeside
  <2>2. raced \union Overlapping(q, kind) \subseteq raced' /\ stray \subseteq raced'
    BY <2>1
  <2>. QED  BY <1>1, <2>1, <2>2, PutsIt
<1>. USE DEF Send
<1>2. CASE FetchDocuments(q, p)
  <2>1. Asks(q, p, "list", None)
    BY <1>1, <1>2 DEF FetchDocuments, Asks
  <2>. QED  BY <2>1
<1>3. CASE HandleCreate(q, p)
  <2>1. Asks(q, p, "create", None)
    BY <1>1, <1>3 DEF HandleCreate, Asks
  <2>. QED  BY <2>1
<1>4. CASE HandleDelete(q, p)
  <2>1. Asks(q, p, "delete", None)
    BY <1>1, <1>4 DEF HandleDelete, Asks
  <2>. QED  BY <2>1
<1>5. CASE FetchDoc(q, p)
  <2>1. Asks(q, p, "open", None)
    BY <1>1, <1>5 DEF FetchDoc, Asks
  <2>. QED  BY <2>1
\* A title is saved, or is blank and nothing is sent.
<1>6. ASSUME NEW t \in Titles, NEW stray, SaveTitle(q, p, t, stray)
      PROVE  \/ Trim[t] = Blank /\ UNCHANGED <<req, typist, raced>>
             \/ /\ req[q] = None /\ Puts(q, "rename", p, Trim[t]) /\ stray \subseteq raced'
                /\ typist' = p /\ Trim[Trim[t]] = Trim[t]
  <2>1. Trim[t] \in Titles /\ Trim[Trim[t]] = Trim[t]
    BY DEF WorkspaceAssumption
  <2>. QED  BY <1>1, <1>6, <2>1 DEF SaveTitle
<1>7. CASE TimerFires(q, p)
  <2>1. timer[p] \in Titles /\ timer[p] # None /\ SaveTitle(q, p, timer[p], {})
    BY <1>7 DEF TimerFires, TypeOK, PagesOK
  <2>2. /\ UNCHANGED <<doc, owner, title, rows, nextRow, listed, people, page, late>>
        /\ timer' = [timer EXCEPT ![p] = None]
    BY <1>7 DEF TimerFires
  <2>3. CASE Trim[timer[p]] = Blank /\ UNCHANGED <<req, typist, raced>>
    BY <2>1, <2>2, <2>3 DEF Quiet
  <2>4. CASE /\ req[q] = None /\ Puts(q, "rename", p, Trim[timer[p]])
             /\ typist' = p /\ Trim[Trim[timer[p]]] = Trim[timer[p]]
    <3>1. Asks(q, p, "rename", Trim[timer[p]])
      BY <2>1, <2>2, <2>4 DEF Asks, Saves
    <3>. QED  BY <3>1
  <2>. QED  BY <1>6, <2>1, <2>3, <2>4
<1>8. CASE HandleTitleBlur(q, p)
  <2>1. page[p].title \in Titles /\ page[p] # None /\ SaveTitle(q, p, page[p].title, {})
    BY <1>8 DEF HandleTitleBlur, CanEditDocument, TypeOK, PagesOK, Page
  <2>2. /\ UNCHANGED <<doc, owner, title, rows, nextRow, listed, people, page, late>>
        /\ timer' = [timer EXCEPT ![p] = None]
    BY <1>8 DEF HandleTitleBlur
  <2>3. CASE Trim[page[p].title] = Blank /\ UNCHANGED <<req, typist, raced>>
    BY <2>1, <2>2, <2>3 DEF Quiet
  <2>4. CASE /\ req[q] = None /\ Puts(q, "rename", p, Trim[page[p].title])
             /\ typist' = p /\ Trim[Trim[page[p].title]] = Trim[page[p].title]
    <3>1. Asks(q, p, "rename", Trim[page[p].title])
      BY <2>1, <2>2, <2>4 DEF Asks, Saves
    <3>. QED  BY <3>1
  <2>. QED  BY <1>6, <2>1, <2>3, <2>4
<1>9. CASE LateTimerFires(q, p)
  <2>1. PICK t \in Titles, stray \in SUBSET {"title"} :
          SaveTitle(q, p, t, stray) /\ (page[p] = None \/ "title" \in stray)
    BY <1>9, TitleTimersTyped DEF LateTimerFires
  <2>2. /\ UNCHANGED <<doc, owner, title, rows, nextRow, listed, people, page, timer>>
        /\ late[p] # <<>>
    BY <1>9 DEF LateTimerFires
  <2>3. CASE UNCHANGED <<req, typist, raced>>
    BY <2>2, <2>3 DEF Quiet
  <2>4. CASE /\ req[q] = None /\ Puts(q, "rename", p, Trim[t]) /\ stray \subseteq raced'
             /\ typist' = p /\ Trim[Trim[t]] = Trim[t]
    <3>1. Asks(q, p, "rename", Trim[t])
      BY <2>1, <2>2, <2>4 DEF Asks, Saves
    <3>. QED  BY <3>1
  <2>. QED  BY <1>6, <2>1, <2>3, <2>4
<1>10. CASE FetchPermissions(q, p)
  <2>1. Asks(q, p, "people", None)
    BY <1>1, <1>10 DEF FetchPermissions, CanManagePermissions, Asks
  <2>. QED  BY <2>1
<1>11. ASSUME NEW user \in Person, NEW role \in Role \ {"owner"}, HandleShare(q, p, user, role)
       PROVE  \E kind \in Kind : \E arg : Asks(q, p, kind, arg)
  <2>1. [user |-> user, role |-> role] \in Share
    BY DEF Share
  <2>2. Asks(q, p, "share", [user |-> user, role |-> role])
    BY <1>1, <1>11, <2>1 DEF HandleShare, CanManagePermissions, Asks
  <2>. QED  BY <2>2
<1>12. ASSUME people[p] # None, NEW row \in people[p], HandleRemove(q, p, row)
       PROVE  \E kind \in Kind : \E arg : Asks(q, p, kind, arg)
  <2>1. row.id \in Nat
    BY <1>12 DEF TypeOK, PagesOK, Row
  <2>2. Asks(q, p, "revoke", row.id)
    BY <1>1, <1>12, <2>1 DEF HandleRemove, CanManagePermissions, Asks
  <2>. QED  BY <2>2
<1>. QED  BY <1>2, <1>3, <1>4, <1>5, <1>7, <1>8, <1>9, <1>10, <1>11, <1>12 DEF Use

\* What an answer does to the request: it is over, or a second one follows it.
Ends(q) ==
  /\ req'[q] = None /\ raced' = raced
  /\ \A o \in Slot \ {q} : req'[o] = req[o]
AnswerEffect(q) ==
  /\ req[q] # None /\ req[q].pc = "ok"
  /\ UNCHANGED <<dbVars, timer, late, typist>>
  /\ CASE req[q].kind = "create" -> Puts(q, "open", req[q].by, None)
       [] req[q].kind = "share" -> Puts(q, "people", req[q].by, None)
       [] OTHER -> Ends(q)
  /\ listed' = IF req[q].kind = "list" THEN [listed EXCEPT ![req[q].by] = req[q].got]
               ELSE IF req[q].kind = "delete" THEN [listed EXCEPT ![req[q].by] = 0] ELSE listed
  /\ page' = IF req[q].kind = "create" THEN [page EXCEPT ![req[q].by] = None]
             ELSE IF req[q].kind = "open" THEN [page EXCEPT ![req[q].by] = req[q].got] ELSE page
  /\ people' = IF req[q].kind = "people" THEN [people EXCEPT ![req[q].by] = req[q].got]
               ELSE IF req[q].kind = "revoke"
               THEN [people EXCEPT ![req[q].by] = {row \in people[req[q].by] : row.id # req[q].arg}]
               ELSE people

\* An answer is taken by its page and leaves its slot.
LEMMA AnsweredEffect ==
  ASSUME WorkspaceAssumption, TypeOK, NEW q \in Slot, Answered(q)
  PROVE  AnswerEffect(q)
<1> DEFINE r == req[q]
<1>1. r # None /\ r.pc = "ok" /\ r.kind \in Kind /\ r.by \in Person /\ Answer(q)
      /\ UNCHANGED <<dbVars, typist>>
  BY DEF Answered, TypeOK, RequestsOK, RequestOK
<1>2. Done(q) => Ends(q)
  BY DEF Done, Ends, TypeOK, RequestsOK
<1>3. ASSUME NEW kind \in {"open", "people"}, FollowUp(q, kind)
      PROVE  Puts(q, kind, r.by, None)
  <2>1. /\ req' = [req EXCEPT ![q] = Ask(kind, r.by, None)]
        /\ raced \union Overlapping(q, kind) \subseteq raced'
    BY <1>3 DEF FollowUp
  <2>2. kind \in Kind /\ kind \notin {"rename", "share", "revoke"}
    BY DEF Kind
  <2>. QED  BY <1>1, <2>1, <2>2, PutsIt
<1>. USE DEF Answer, pageVars
<1>4. CASE r.kind = "create"
  BY <1>1, <1>3, <1>4 DEF AnswerEffect
<1>5. CASE r.kind = "share"
  BY <1>1, <1>3, <1>5 DEF AnswerEffect
<1>6. CASE r.kind \in {"rename", "list", "delete", "open", "people", "revoke"}
  BY <1>1, <1>2, <1>6 DEF AnswerEffect
<1>. QED  BY <1>1, <1>4, <1>5, <1>6 DEF Kind

\* A request that is refused is over; its page forgets the document it could
\* not fetch.
RefuseEffect(q) ==
  /\ req[q] # None /\ req[q].pc = "error"
  /\ req'[q] = None
  /\ \A o \in Slot \ {q} : req'[o] = req[o]
  /\ raced' = raced \union {About(req[q].kind)}
  /\ page' = IF req[q].kind = "open" THEN [page EXCEPT ![req[q].by] = None] ELSE page
  /\ UNCHANGED <<dbVars, listed, people, timer, late, typist>>

\* Every step is one of these.
LEMMA StepEffect ==
  ASSUME WorkspaceAssumption, TypeOK, [Next]_vars
  PROVE  \/ \E q \in Slot : Effect(q) \/ AnswerEffect(q) \/ RefuseEffect(q)
         \/ \E q \in Slot, p \in Person, kind \in Kind : \E arg : Asks(q, p, kind, arg)
         \/ \E p \in Person : Quiet(p)
         \/ \E p \in Person, t \in Title : HandleTitleChange(p, t)
         \/ UNCHANGED vars
<1>1. ASSUME NEW q \in Slot, Refused(q) PROVE RefuseEffect(q)
  BY <1>1 DEF Refused, RefuseEffect, TypeOK, RequestsOK
<1>. QED  BY <1>1, ServeEffect, AnsweredEffect, UseEffect DEF Next

-----------------------------------------------------------------------------
(* Which requests are under way.                                           *)

\* One that goes on is about what it was about.
LEMMA SameRequests ==
  ASSUME NEW q \in Slot, GoesOn(q)
  PROVE  /\ \A o \in Slot : /\ o = q \/ req'[o] = req[o]
                            /\ req'[o] # None <=> req[o] # None
                            /\ /\ req'[o].kind = req[o].kind /\ req'[o].by = req[o].by
                               /\ req'[o].arg = req[o].arg
         /\ \A kind : Busy(kind)' <=> Busy(kind)
         /\ \A subject : /\ UnderWay(subject)' <=> UnderWay(subject)
                         /\ One(subject) => One(subject)'
<1>1. \A o \in Slot : /\ o = q \/ req'[o] = req[o]
                      /\ req'[o] # None <=> req[o] # None
                      /\ /\ req'[o].kind = req[o].kind /\ req'[o].by = req[o].by
                         /\ req'[o].arg = req[o].arg
  BY DEF GoesOn
<1>2. \A kind : Busy(kind)' <=> Busy(kind)
  BY <1>1 DEF Busy
<1>3. \A subject : UnderWay(subject)' <=> UnderWay(subject)
  BY <1>1 DEF UnderWay
<1>4. \A subject : One(subject) => One(subject)'
  BY <1>1 DEF One, Under
<1>. QED  BY <1>1, <1>2, <1>3, <1>4

\* One that is put into a slot is the only one about its subject, or races.
LEMMA PutAlone ==
  ASSUME NEW q \in Slot, NEW kind, NEW p, NEW arg, Puts(q, kind, p, arg), NEW subject, subject \notin raced',
         subject \notin raced => One(subject)
  PROVE  /\ subject \notin raced /\ One(subject)'
         /\ About(kind) = subject => \A o \in Slot \ {q} : ~Under(o, subject) /\ ~Under(o, subject)'
<1>1. subject \notin raced /\ subject \notin Overlapping(q, kind)
  BY DEF Puts
<1>2. \A o \in Slot \ {q} : req[o] # None /\ About(req[o].kind) = subject => About(kind) # subject
  BY <1>1 DEF Overlapping
<1>3. \A o \in Slot \ {q} : Under(o, subject)' <=> Under(o, subject)
  BY DEF Puts, Under
<1>4. Under(q, subject)' => About(kind) = subject
  BY DEF Puts, Under
<1>. QED  BY <1>1, <1>2, <1>3, <1>4 DEF One, Under

\* One that is over leaves at most one of the others.
LEMMA EndAlone ==
  ASSUME NEW q \in Slot, req'[q] = None, \A o \in Slot \ {q} : req'[o] = req[o], NEW subject, One(subject)
  PROVE  One(subject)' /\ (Under(q, subject) => ~UnderWay(subject)')
BY DEF One, Under, UnderWay

-----------------------------------------------------------------------------
(* Each invariant is kept.                                                 *)

\* A document being created has no row another request could see.
LEMMA CreationStep ==
  ASSUME WorkspaceAssumption, IInv, CreationInv, [Next]_vars
  PROVE  CreationInv'
<1> DEFINE Creating == doc = "none" \/ Busy("create")
<1>1. TypeOK /\ (doc' = "none" => doc = "none")
  BY StepKept DEF IInv, TablesKept
<1>2. ASSUME NEW q \in Slot, Effect(q)
      PROVE  CreationInv'
  <2>1. GoesOn(q) /\ UNCHANGED <<listed, people, page, timer, late>>
    BY <1>2 DEF Effect, GoesOn, pageVars
  <2>2. Creating' => Creating
    BY <1>1, <2>1, SameRequests
  <2>3. /\ req'[q].kind = "list" /\ req'[q].pc = "ok" /\ doc' = "none" => req'[q].got = 0
        /\ req'[q].kind = "create" /\ req'[q].pc = "ok" => doc' # "none"
    <3>1. req'[q].kind = "create" /\ req'[q].pc = "ok" => req[q].pc = "insertRow"
      BY <1>2, <2>1, SameRequests DEF Effect, ReadByPage
    <3>2. req[q].pc = "insertRow" => doc # "none"
      BY <2>1 DEF IInv, AllChecked, Checked, GoesOn
    <3>3. req'[q].kind = "list" /\ req'[q].pc = "ok" /\ doc # "live" => req'[q].got = 0
      BY <1>2, <2>1, SameRequests DEF Effect, ReadByPage
    <3>. QED  BY <1>1, <3>1, <3>2, <3>3
  <2>. QED  BY <1>1, <2>1, <2>2, <2>3, SameRequests DEF CreationInv, Creates
<1>3. ASSUME NEW q \in Slot, NEW p \in Person, NEW kind \in Kind, NEW arg, Asks(q, p, kind, arg)
      PROVE  CreationInv'
  <2>1. /\ req'[q] # None /\ req'[q].kind = kind /\ req'[q].pc \in {"insertDoc", "select", "find"}
        /\ \A o \in Slot \ {q} : req'[o] = req[o]
        /\ doc' = doc /\ listed' = listed /\ people' = people
    BY <1>3 DEF Asks, Puts, FirstStatement, dbVars
  <2>2. Creates(q)' => ~Busy("create")
    BY <1>3, <2>1 DEF Asks, Creates
  <2>3. \A a, b \in Slot : Creates(a)' /\ Creates(b)' => a = b
    BY <2>1, <2>2 DEF CreationInv, Creates, Busy
  <2>4. ASSUME Creating'
        PROVE  Creating /\ kind \in {"create", "list", "delete"} /\ UNCHANGED <<page, timer, late>>
    <3>1. Creating
      BY <1>3, <2>1, <2>4 DEF Busy, Asks
    <3>2. page[p] = None /\ people[p] = None /\ timer[p] = None /\ late[p] = <<>> /\ (doc = "none" => listed[p] = 0)
      BY <3>1 DEF CreationInv
    <3>3. kind \in {"create", "list", "delete"}
      BY <1>3, <3>1, <3>2 DEF Asks, Saves, Kind
    <3>. QED  BY <1>3, <3>1, <3>3 DEF Asks
  <2>5. doc = "none" => kind # "delete"
    BY <1>3 DEF Asks, CreationInv
  <2>. QED  BY <2>1, <2>3, <2>4, <2>5 DEF CreationInv
<1>4. ASSUME NEW q \in Slot, AnswerEffect(q)
      PROVE  CreationInv'
  <2>1. /\ req[q] # None /\ req[q].pc = "ok" /\ doc' = doc /\ timer' = timer /\ late' = late
        /\ req[q].by \in Person /\ PagesOK
        /\ \A o \in Slot \ {q} : req'[o] = req[o]
        /\ req'[q] # None => req'[q].kind \in {"open", "people"}
    BY <1>1, <1>4 DEF AnswerEffect, Ends, Puts, dbVars, TypeOK, RequestsOK, RequestOK
  <2>2. ~Creates(q)' /\ \A o \in Slot : Creates(o)' => Creates(o)
    BY <2>1 DEF Creates
  <2>3. \A a, b \in Slot : Creates(a)' /\ Creates(b)' => a = b
    BY <2>2 DEF CreationInv
  <2>4. CASE ~Creating
    <3>1. ~Creating'
      BY <2>1, <2>2, <2>4 DEF Busy, Creates
    <3>. QED  BY <2>3, <3>1 DEF CreationInv
  <2>5. CASE req[q].kind = "create"
    <3>1. doc # "none"
      BY <2>1, <2>5 DEF CreationInv
    <3>2. ~Busy("create")'
      BY <2>1, <2>2, <2>5 DEF Busy, Creates, CreationInv
    <3>. QED  BY <2>1, <2>3, <3>1, <3>2 DEF CreationInv
  <2>6. CASE Creating /\ req[q].kind # "create"
    <3>1. req[q].kind \in {"list", "delete"}
      BY <2>1, <2>6 DEF CreationInv
    <3>2. Ends(q) /\ page' = page /\ people' = people
      BY <1>4, <3>1 DEF AnswerEffect
    <3>3. doc = "none" => \A p \in Person : listed'[p] = 0
      <4>1. doc = "none" => req[q].kind = "list" /\ req[q].got = 0 /\ \A p \in Person : listed[p] = 0
        BY <2>1, <3>1 DEF CreationInv
      <4>. QED  BY <1>4, <2>1, <4>1 DEF AnswerEffect, PagesOK
    <3>. QED  BY <2>1, <2>3, <2>6, <3>2, <3>3 DEF CreationInv, Ends
  <2>. QED  BY <2>4, <2>5, <2>6
<1>5. ASSUME NEW q \in Slot, RefuseEffect(q)
      PROVE  CreationInv'
  <2>1. /\ req'[q] = None /\ \A o \in Slot \ {q} : req'[o] = req[o]
        /\ doc' = doc /\ listed' = listed /\ people' = people /\ timer' = timer /\ late' = late
        /\ \A p \in Person : page'[p] \in {page[p], None}
    BY <1>1, <1>5 DEF RefuseEffect, dbVars, TypeOK, PagesOK
  <2>2. Creating' => Creating
    BY <2>1 DEF Busy
  <2>. QED  BY <2>1, <2>2 DEF CreationInv, Creates
<1>6. ASSUME NEW p \in Person, NEW t \in Title, HandleTitleChange(p, t)
      PROVE  CreationInv'
  <2>1. page[p] # None /\ UNCHANGED <<doc, req, listed, people>>
    BY <1>6 DEF HandleTitleChange, CanEditDocument, dbVars
  <2>2. ~Creating /\ ~Creating'
    BY <2>1 DEF CreationInv, Busy
  <2>. QED  BY <2>1, <2>2 DEF CreationInv, Creates
<1>8. ASSUME NEW p \in Person, Quiet(p)
      PROVE  CreationInv'
  <2>1. (page[p] # None \/ timer[p] # None \/ late[p] # <<>>) /\ UNCHANGED <<doc, req, listed, people>>
    BY <1>8 DEF Quiet, dbVars
  <2>2. ~Creating /\ ~Creating'
    BY <2>1 DEF CreationInv, Busy
  <2>. QED  BY <2>1, <2>2 DEF CreationInv, Creates
<1>7. CASE UNCHANGED vars
  BY <1>7 DEF vars, dbVars, pageVars, CreationInv, Creates, Busy
<1>. QED  BY <1>1, <1>2, <1>3, <1>4, <1>5, <1>6, <1>7, <1>8, StepEffect

\* Only an owner's page has the share dialog or the list open.
LEMMA OwnerPagesStep ==
  ASSUME WorkspaceAssumption, IInv, CreationInv, OwnerPagesInv, [Next]_vars
  PROVE  OwnerPagesInv'
<1>1. TypeOK /\ (doc # "none" => owner' = owner)
  BY StepKept DEF IInv, TablesKept
<1>2. ASSUME NEW q \in Slot, Effect(q)
      PROVE  OwnerPagesInv'
  <2>1. GoesOn(q) /\ UNCHANGED <<people, page>>
    BY <1>2 DEF Effect, GoesOn, pageVars
  <2>2. CASE doc = "none"
    <3>1. \A p \in Person : page'[p] = None /\ people'[p] = None
      BY <2>1, <2>2 DEF CreationInv
    <3>2. \A o \in Slot : req[o] # None => req[o].kind \in {"create", "list"}
      BY <2>2 DEF CreationInv
    <3>3. \A o \in Slot : req'[o] # None => req'[o].kind \in {"create", "list"}
      BY <2>1, <3>2, SameRequests
    <3>4. \A o \in Slot : req'[o] # None =>
            req'[o].kind \notin {"share", "revoke", "people", "delete"} /\ req'[o].kind # "open"
      BY <3>3
    <3>. QED  BY <3>1, <3>4 DEF OwnerPagesInv
  <2>3. CASE doc # "none"
    <3>1. ASSUME req'[q].kind = "open", req'[q].pc = "ok", req'[q].got.role = "owner"
          PROVE  req'[q].by = owner
      <4>1. req'[q].by = req[q].by /\ req[q].kind = "open"
        BY <2>1, <3>1 DEF GoesOn
      <4>2. PICK row \in RowsOf(req[q].by) : req'[q].got = [title |-> req[q].got, role |-> row.role]
        BY <1>2, <3>1, <4>1 DEF Effect, ReadByPage
      <4>3. row.role = "owner" /\ row \in rows /\ row.user = req[q].by
        BY <3>1, <4>2 DEF RowsOf
      <4>. QED  BY <4>1, <4>3 DEF IInv, OneOwner
    <3>. QED  BY <1>1, <2>1, <2>3, <3>1, SameRequests DEF OwnerPagesInv
  <2>. QED  BY <2>2, <2>3
<1>3. ASSUME NEW q \in Slot, NEW p \in Person, NEW kind \in Kind, NEW arg, Asks(q, p, kind, arg)
      PROVE  OwnerPagesInv'
  <2>1. /\ req'[q] # None /\ req'[q].kind = kind /\ req'[q].by = p
        /\ req'[q].pc \in {"insertDoc", "select", "find"}
        /\ \A o \in Slot \ {q} : req'[o] = req[o]
        /\ owner' = owner /\ people' = people
        /\ \A u \in Person : page'[u] \in {page[u], None}
    BY <1>1, <1>3 DEF Asks, Puts, FirstStatement, dbVars, TypeOK, PagesOK
  <2>2. kind \in {"share", "revoke", "people", "delete"} => p = owner
    BY <1>3 DEF Asks, OwnerPagesInv
  <2>. QED  BY <2>1, <2>2 DEF OwnerPagesInv
<1>4. ASSUME NEW q \in Slot, AnswerEffect(q)
      PROVE  OwnerPagesInv'
  <2>1. /\ req[q] # None /\ req[q].pc = "ok" /\ owner' = owner /\ req[q].by \in Person /\ PagesOK
        /\ \A o \in Slot \ {q} : req'[o] = req[o]
        /\ req'[q] # None => /\ req'[q].pc = "find" /\ req'[q].by = req[q].by
                             /\ \/ req'[q].kind = "open"
                                \/ req'[q].kind = "people" /\ req[q].kind = "share"
    BY <1>1, <1>4 DEF AnswerEffect, Ends, Puts, FirstStatement, dbVars, TypeOK, RequestsOK, RequestOK
  <2>2. \A p \in Person : page'[p] # None /\ page'[p].role = "owner" => p = owner
    BY <1>4, <2>1 DEF AnswerEffect, OwnerPagesInv, PagesOK
  <2>3. \A p \in Person : people'[p] # None => p = owner
    BY <1>4, <2>1 DEF AnswerEffect, OwnerPagesInv, PagesOK
  <2>. QED  BY <2>1, <2>2, <2>3 DEF OwnerPagesInv
<1>5. ASSUME NEW q \in Slot, RefuseEffect(q)
      PROVE  OwnerPagesInv'
  <2>1. /\ req'[q] = None /\ \A o \in Slot \ {q} : req'[o] = req[o]
        /\ owner' = owner /\ people' = people
        /\ \A p \in Person : page'[p] \in {page[p], None}
    BY <1>1, <1>5 DEF RefuseEffect, dbVars, TypeOK, PagesOK
  <2>. QED  BY <2>1 DEF OwnerPagesInv
<1>6. ASSUME NEW p \in Person, NEW t \in Title, HandleTitleChange(p, t)
      PROVE  OwnerPagesInv'
  <2>1. /\ page[p] \in Page /\ UNCHANGED <<owner, req, people>>
        /\ page' = [page EXCEPT ![p].title = t]
    BY <1>1, <1>6 DEF HandleTitleChange, CanEditDocument, dbVars, TypeOK, PagesOK
  <2>2. page[p] # None
    BY <1>6 DEF HandleTitleChange, CanEditDocument
  <2>3. \A u \in Person : u # p => page'[u] = page[u]
    BY <1>1, <2>1 DEF TypeOK, PagesOK
  <2>4. page'[p].role = page[p].role
    BY <1>1, <2>1 DEF TypeOK, PagesOK, Page
  <2>. QED  BY <2>1, <2>2, <2>3, <2>4 DEF OwnerPagesInv
<1>7. CASE UNCHANGED vars
  BY <1>7 DEF vars, dbVars, pageVars, OwnerPagesInv
<1>8. ASSUME NEW p \in Person, Quiet(p)
      PROVE  OwnerPagesInv'
  BY <1>8 DEF Quiet, dbVars, OwnerPagesInv
<1>. QED  BY <1>1, <1>2, <1>3, <1>4, <1>5, <1>6, <1>7, <1>8, StepEffect

\* A title that is stored or about to be stays without blanks around it.
LEMMA TrimmedStep ==
  ASSUME WorkspaceAssumption, IInv, TrimmedInv, [Next]_vars
  PROVE  TrimmedInv'
<1>1. TypeOK
  BY DEF IInv
<1>2. ASSUME NEW q \in Slot, Effect(q)
      PROVE  TrimmedInv'
  <2>1. GoesOn(q) /\ Wrote(q)
    BY <1>2 DEF Effect
  <2>2. Trim[title'] = title'
    BY <2>1 DEF Wrote, GoesOn, TrimmedInv
  <2>. QED  BY <2>1, <2>2, SameRequests DEF TrimmedInv
<1>3. ASSUME title' = title, NEW q \in Slot, \A o \in Slot \ {q} : req'[o] = req[o],
             req'[q] # None /\ req'[q].kind = "rename" => Trim[req'[q].arg] = req'[q].arg
      PROVE  TrimmedInv'
  BY <1>3 DEF TrimmedInv
<1>4. ASSUME NEW q \in Slot, NEW p \in Person, NEW kind \in Kind, NEW arg, Asks(q, p, kind, arg)
      PROVE  TrimmedInv'
  BY <1>3, <1>4 DEF Asks, Puts, dbVars
<1>5. ASSUME NEW q \in Slot, AnswerEffect(q)
      PROVE  TrimmedInv'
  <2>1. /\ title' = title /\ \A o \in Slot \ {q} : req'[o] = req[o]
        /\ req'[q] = None \/ req'[q].kind \in {"open", "people"}
    BY <1>5 DEF AnswerEffect, Puts, Ends, dbVars
  <2>. QED  BY <1>3, <2>1
<1>6. ASSUME NEW q \in Slot, RefuseEffect(q)
      PROVE  TrimmedInv'
  BY <1>3, <1>6 DEF RefuseEffect, dbVars
<1>7. CASE UNCHANGED <<title, req>>
  BY <1>7 DEF TrimmedInv
<1>8. ASSUME \/ \E p \in Person, t \in Title : HandleTitleChange(p, t)
             \/ \E p \in Person : Quiet(p)
             \/ UNCHANGED vars
      PROVE  UNCHANGED <<title, req>>
  BY <1>8 DEF HandleTitleChange, Quiet, vars, dbVars
<1>. QED  BY <1>1, <1>2, <1>4, <1>5, <1>6, <1>7, <1>8, StepEffect

\* The title that is shown is saved, on its way, or raced.
LEMMA TitleStep ==
  ASSUME WorkspaceAssumption, IInv, CreationInv, TrimmedInv, TitleInv, [Next]_vars
  PROVE  TitleInv'
<1>. SUFFICES ASSUME "title" \notin raced' PROVE (One("title") /\ OpensOK /\ TimersOK /\ SavedOK)'
  BY DEF TitleInv
<1>1. TypeOK /\ PagesOK
  BY DEF IInv, TypeOK
<1>2. ASSUME NEW q \in Slot, Effect(q)
      PROVE  (One("title") /\ OpensOK /\ TimersOK /\ SavedOK)'
  <2>1. GoesOn(q) /\ UNCHANGED <<page, timer, typist>> /\ raced' = raced
    BY <1>2 DEF Effect, GoesOn, pageVars
  <2>2. One("title") /\ OpensOK /\ TimersOK /\ SavedOK
    BY <2>1 DEF TitleInv
  <2>3. TimersOK' /\ One("title")' /\ (Busy("rename")' <=> Busy("rename"))
    BY <2>1, <2>2, SameRequests DEF TimersOK
  <2>4. CASE title' = title
    <3>1. ASSUME req'[q].kind = "open", req'[q].pc = "ok" PROVE req'[q].got.title = title'
      <4>1. req[q].kind = "open" /\ req[q] # None
        BY <2>1, <3>1 DEF GoesOn
      <4>2. PICK row \in RowsOf(req[q].by) : req'[q].got = [title |-> req[q].got, role |-> row.role]
        BY <1>2, <3>1, <4>1 DEF Effect, ReadByPage
      <4>3. req[q].got = title
        BY <1>2, <2>2, <3>1, <4>1 DEF Effect, ReadByPage, OpensOK
      <4>. QED  BY <2>4, <4>2, <4>3
    <3>2. req'[q].kind = "open" /\ req'[q].pc = "role" => req'[q].got = title'
      BY <1>2, <2>4 DEF Effect
    <3>3. OpensOK'
      BY <2>1, <2>2, <2>4, <3>1, <3>2, SameRequests DEF OpensOK
    <3>4. req'[q].kind = "rename" /\ req'[q].pc = "ok" => title' = req'[q].arg
      BY <1>2, <2>1, SameRequests DEF Effect, ReadByPage
    <3>5. SavedOK'
      BY <2>1, <2>2, <2>3, <2>4, <3>4, SameRequests DEF SavedOK, Settled
    <3>. QED  BY <2>3, <3>3, <3>5
  <2>5. CASE title' # title
    <3>1. req[q].kind = "rename" /\ title' = req[q].arg /\ req[q] # None
      BY <1>2, <2>5 DEF Effect, Wrote, GoesOn
    <3>2. \A o \in Slot : req'[o] # None /\ req'[o].kind \in {"open", "rename"} => o = q
      BY <2>1, <2>2, <3>1, SameRequests DEF One, Under, About
    <3>3. OpensOK'
      BY <2>1, <3>1, <3>2, SameRequests DEF OpensOK
    <3>4. SavedOK'
      BY <2>1, <2>2, <3>1, <3>2, SameRequests DEF SavedOK, Settled, Busy
    <3>. QED  BY <2>3, <3>3, <3>4
  <2>. QED  BY <2>4, <2>5
\* A request about something else that starts or ends.
<1>3. ASSUME NEW q \in Slot, \A o \in Slot \ {q} : req'[o] = req[o], ~Under(q, "title"), ~Under(q, "title")',
             UNCHANGED <<title, page, timer, typist>>, raced \subseteq raced'
      PROVE  (One("title") /\ OpensOK /\ TimersOK /\ SavedOK)'
  <2>1. One("title") /\ OpensOK /\ TimersOK /\ SavedOK
    BY <1>3 DEF TitleInv
  <2>2. \A o \in Slot : /\ Under(o, "title")' <=> Under(o, "title")
                        /\ Under(o, "title") => req'[o] = req[o]
    BY <1>3 DEF Under
  <2>3. \A o \in Slot : /\ req[o] # None /\ req[o].kind \in {"open", "rename"} => Under(o, "title")
                        /\ req'[o] # None /\ req'[o].kind \in {"open", "rename"} => Under(o, "title")'
    BY DEF Under, About
  <2>4. One("title")'
    BY <2>1, <2>2 DEF One
  <2>5. OpensOK' /\ TimersOK'
    BY <1>3, <2>1, <2>2, <2>3 DEF OpensOK, TimersOK
  <2>6. Busy("rename")' <=> Busy("rename")
    BY <2>2, <2>3 DEF Busy
  <2>7. SavedOK'
    BY <1>3, <2>1, <2>2, <2>3, <2>6 DEF SavedOK, Settled
  <2>. QED  BY <2>4, <2>5, <2>7
\* A page is fetched, alone.
<1>4. ASSUME NEW q \in Slot, NEW p \in Person, NEW arg, Puts(q, "open", p, arg), ~Under(q, "title"),
             page' = [page EXCEPT ![p] = None], timer' = [timer EXCEPT ![p] = None],
             UNCHANGED <<title, typist>>
      PROVE  (One("title") /\ OpensOK /\ TimersOK /\ SavedOK)'
  <2>1. "title" \notin raced /\ One("title")' /\ \A o \in Slot \ {q} : ~Under(o, "title") /\ ~Under(o, "title")'
    BY <1>4, PutAlone DEF TitleInv, About
  <2>2. One("title") /\ OpensOK /\ TimersOK /\ SavedOK
    BY <2>1 DEF TitleInv
  <2>3. \A o \in Slot : req'[o] # None /\ req'[o].kind \in {"open", "rename"} => o = q
    BY <2>1 DEF Under, About
  <2>4. \A o \in Slot : ~(req[o] # None /\ req[o].kind \in {"open", "rename"})
    BY <1>4, <2>1 DEF Under, About
  <2>5. req'[q].kind = "open" /\ req'[q].by = p /\ req'[q].pc = "find"
    BY <1>4 DEF Puts, FirstStatement
  <2>6. OpensOK'
    BY <1>1, <1>4, <2>3, <2>5 DEF OpensOK, PagesOK
  <2>7. TimersOK'
    BY <1>1, <1>4, <2>2 DEF TimersOK, PagesOK
  <2>8. ~Busy("rename") /\ \A o \in Slot : ~(req'[o] # None /\ req'[o].kind = "rename")
    BY <2>3, <2>4, <2>5 DEF Busy
  <2>9. page'[p] = None /\ \A u \in Person : u # p => page'[u] = page[u]
    BY <1>1, <1>4 DEF PagesOK
  <2>10. SavedOK'
    BY <1>1, <1>4, <2>2, <2>8, <2>9 DEF SavedOK, Settled, TypeOK, CountsOK
  <2>. QED  BY <2>1, <2>6, <2>7, <2>10
<1>5. ASSUME NEW q \in Slot, NEW p \in Person, NEW kind \in Kind, NEW arg, Asks(q, p, kind, arg)
      PROVE  (One("title") /\ OpensOK /\ TimersOK /\ SavedOK)'
  <2>1. ~Under(q, "title") /\ title' = title
    BY <1>5 DEF Asks, Under, dbVars
  <2>2. CASE kind = "open"
    <3>1. /\ Puts(q, "open", p, arg) /\ page' = [page EXCEPT ![p] = None]
          /\ timer' = [timer EXCEPT ![p] = None] /\ typist' = typist
      BY <1>5, <2>2 DEF Asks
    <3>. QED  BY <1>4, <2>1, <3>1
  <2>3. CASE kind = "rename"
    <3>1. "title" \notin raced /\ One("title")' /\ \A o \in Slot \ {q} : ~Under(o, "title") /\ ~Under(o, "title")'
      BY <1>5, <2>3, PutAlone DEF TitleInv, About, Asks
    <3>2. TimersOK
      BY <3>1 DEF TitleInv
    <3>3. /\ req'[q] # None /\ req'[q].kind = "rename" /\ req'[q].by = p /\ req'[q].arg = arg /\ req'[q].pc = "find"
          /\ page' = page /\ typist' = p
      BY <1>5, <2>3 DEF Asks, Puts, FirstStatement
    <3>8. \/ timer' = [timer EXCEPT ![p] = None] /\ arg = Trim[page[p].title]
          \/ timer' = timer /\ page[p] = None
      BY <1>5, <2>3, <3>2 DEF Asks, Saves, TimersOK
    <3>4. \A o \in Slot : req'[o] # None /\ req'[o].kind \in {"open", "rename"} => o = q
      BY <3>1 DEF Under, About
    <3>5. OpensOK'
      BY <3>3, <3>4 DEF OpensOK
    <3>6. TimersOK'
      BY <1>1, <3>2, <3>3, <3>8 DEF TimersOK, PagesOK
    <3>7. SavedOK'
      BY <3>3, <3>4, <3>8 DEF SavedOK, Settled, Busy
    <3>. QED  BY <3>1, <3>5, <3>6, <3>7
  <2>4. CASE kind \notin {"open", "rename"}
    BY <1>3, <1>5, <2>1, <2>4 DEF Asks, Puts, Under, About
  <2>. QED  BY <2>2, <2>3, <2>4
<1>6. ASSUME NEW q \in Slot, AnswerEffect(q)
      PROVE  (One("title") /\ OpensOK /\ TimersOK /\ SavedOK)'
  <2>1. /\ req[q] # None /\ req[q].pc = "ok" /\ UNCHANGED <<title, timer, typist>>
        /\ req[q].by \in Person
    BY <1>1, <1>6 DEF AnswerEffect, dbVars, TypeOK, RequestsOK, RequestOK
  <2>2. CASE req[q].kind = "create"
    <3>1. Busy("create")
      BY <2>1, <2>2 DEF Busy
    <3>2. timer[req[q].by] = None
      BY <2>1, <3>1 DEF CreationInv
    <3>3. timer' = [timer EXCEPT ![req[q].by] = None]
      BY <1>1, <2>1, <3>2 DEF PagesOK
    <3>. QED  BY <1>4, <1>6, <2>1, <2>2, <3>3 DEF AnswerEffect, Under, About
  <2>3. CASE req[q].kind \notin {"create", "rename", "open"}
    BY <1>3, <1>6, <2>1, <2>3 DEF AnswerEffect, Under, About, Puts, Ends
  <2>4. CASE req[q].kind \in {"rename", "open"}
    <3>1. req'[q] = None /\ raced' = raced /\ \A o \in Slot \ {q} : req'[o] = req[o]
      BY <1>6, <2>4 DEF AnswerEffect, Ends
    <3>2. One("title") /\ OpensOK /\ TimersOK /\ SavedOK
      BY <3>1 DEF TitleInv
    <3>3. Under(q, "title")
      BY <2>1, <2>4 DEF Under, About
    <3>4. One("title")' /\ ~UnderWay("title")'
      BY <3>1, <3>2, <3>3, EndAlone
    <3>5. \A o \in Slot : ~(req'[o] # None /\ req'[o].kind \in {"open", "rename"})
      BY <3>4 DEF UnderWay, About
    <3>6. OpensOK'
      BY <3>5 DEF OpensOK
    <3>7. CASE req[q].kind = "rename"
      <4>1. page' = page
        BY <1>6, <3>7 DEF AnswerEffect
      <4>2. SavedOK'
        BY <2>1, <3>2, <3>5, <3>7, <4>1 DEF SavedOK, Settled
      <4>. QED  BY <2>1, <3>2, <3>4, <3>6, <4>1, <4>2 DEF TimersOK
    <3>8. CASE req[q].kind = "open"
      <4>1. page' = [page EXCEPT ![req[q].by] = req[q].got] /\ req[q].got.title = title /\ Trim[title] = title
            /\ timer[req[q].by] = None
        BY <1>6, <2>1, <3>2, <3>8 DEF AnswerEffect, OpensOK, TrimmedInv
      <4>2. ~Busy("rename")
        BY <2>1, <3>2, <3>3, <3>8 DEF Busy, One, Under, About
      <4>3. TimersOK'
        BY <1>1, <2>1, <3>2, <4>1 DEF TimersOK, PagesOK
      <4>4. SavedOK'
        BY <1>1, <2>1, <3>2, <3>5, <4>1, <4>2 DEF SavedOK, Settled, PagesOK, TypeOK, CountsOK
      <4>. QED  BY <3>4, <3>6, <4>3, <4>4
    <3>. QED  BY <2>4, <3>7, <3>8
  <2>. QED  BY <2>2, <2>3, <2>4
<1>7. ASSUME NEW q \in Slot, RefuseEffect(q)
      PROVE  (One("title") /\ OpensOK /\ TimersOK /\ SavedOK)'
  <2>1. About(req[q].kind) # "title"
    BY <1>7 DEF RefuseEffect
  <2>. QED  BY <1>3, <1>7, <2>1 DEF RefuseEffect, Under, About, dbVars
<1>8. ASSUME NEW p \in Person, NEW t \in Title, HandleTitleChange(p, t)
      PROVE  (One("title") /\ OpensOK /\ TimersOK /\ SavedOK)'
  <2>1. /\ page[p] # None /\ page[p] \in Page /\ t # None
        /\ UNCHANGED <<title, req, raced>>
        /\ timer' = [timer EXCEPT ![p] = t] /\ typist' = p
        /\ page' = [page EXCEPT ![p].title = t]
    BY <1>1, <1>8 DEF HandleTitleChange, CanEditDocument, dbVars, PagesOK, WorkspaceAssumption, Titles
  <2>2. One("title") /\ OpensOK /\ TimersOK
    BY <2>1 DEF TitleInv
  <2>3. page'[p].title = t /\ \A u \in Person : u # p => page'[u] = page[u] /\ timer'[u] = timer[u]
    BY <1>1, <2>1 DEF PagesOK, Page
  <2>4. One("title")'
    BY <2>1, <2>2 DEF One, Under
  <2>5. OpensOK'
    BY <1>1, <2>1, <2>2, <2>3 DEF OpensOK, TypeOK, RequestsOK, RequestOK
  <2>6. TimersOK'
    BY <1>1, <2>1, <2>2, <2>3 DEF TimersOK, PagesOK
  <2>7. SavedOK'
    BY <1>1, <2>1 DEF SavedOK, Settled, PagesOK
  <2>. QED  BY <2>4, <2>5, <2>6, <2>7
\* A blank title is not saved: its page shows no title that should be.
<1>10. ASSUME NEW p \in Person, Quiet(p)
       PROVE  (One("title") /\ OpensOK /\ TimersOK /\ SavedOK)'
  <2>1. UNCHANGED <<title, req, page, typist, raced>>
    BY <1>10 DEF Quiet, dbVars
  <2>2. One("title") /\ OpensOK /\ TimersOK /\ SavedOK
    BY <2>1 DEF TitleInv
  <2>3. \/ timer' = [timer EXCEPT ![p] = None] /\ Trim[page[p].title] = Blank
        \/ timer' = timer
    BY <1>10, <2>2 DEF Quiet, TimersOK
  <2>4. \A u \in Person : timer'[u] \in {timer[u], None} /\ (timer'[u] # timer[u] => u = p)
    BY <1>1, <2>3 DEF PagesOK
  <2>5. One("title")'
    BY <2>1, <2>2 DEF One, Under
  <2>6. OpensOK' /\ TimersOK'
    BY <1>1, <2>1, <2>2, <2>4 DEF OpensOK, TimersOK, TypeOK, RequestsOK, RequestOK
  <2>7. Settled' => Settled
    BY <1>1, <2>1, <2>3, <2>4 DEF Settled, TypeOK, CountsOK
  <2>8. SavedOK'
    BY <2>1, <2>2, <2>7 DEF SavedOK, Busy
  <2>. QED  BY <2>5, <2>6, <2>8
<1>9. CASE UNCHANGED vars
  BY <1>9 DEF vars, dbVars, pageVars, countVars, TitleInv, One, Under, OpensOK, TimersOK, SavedOK, Settled, Busy
<1>. QED  BY <1>1, <1>2, <1>5, <1>6, <1>7, <1>8, <1>9, <1>10, StepEffect

\* The people that are shown are the rows, or a request will show them, or one raced.
LEMMA PeopleStep ==
  ASSUME WorkspaceAssumption, IInv, CreationInv, OwnerPagesInv, PeopleInv, [Next]_vars
  PROVE  PeopleInv'
<1>. SUFFICES ASSUME "people" \notin raced' PROVE (One("people") /\ DialogsOK /\ ChangesOK)'
  BY DEF PeopleInv
<1>1. TypeOK /\ PagesOK
  BY DEF IInv, TypeOK
<1>2. ASSUME NEW q \in Slot, Effect(q)
      PROVE  (One("people") /\ DialogsOK /\ ChangesOK)'
  <2>1. GoesOn(q) /\ people' = people /\ raced' = raced
    BY <1>2 DEF Effect, GoesOn, pageVars
  <2>2. One("people") /\ DialogsOK /\ ChangesOK
    BY <2>1 DEF PeopleInv
  <2>3. One("people")' /\ (UnderWay("people")' <=> UnderWay("people"))
    BY <2>1, <2>2, SameRequests
\* What the request that goes on has read or written.
  <2>4. /\ req'[q].kind = "people" /\ req'[q].pc = "ok" => req'[q].got = rows' /\ rows' = rows
        /\ req'[q].kind = "revoke" =>
             /\ req'[q].pc \notin {"ok", "error"} => rows' = rows /\ people'[req'[q].by] = rows'
             /\ req'[q].pc = "write" => req'[q].got = req'[q].arg
             /\ req'[q].pc = "ok" => rows' = {row \in people'[req'[q].by] : row.id # req'[q].arg}
    <3>1. /\ req[q] # None /\ req'[q].kind = req[q].kind /\ req'[q].by = req[q].by /\ req'[q].arg = req[q].arg
          /\ req[q].pc \notin {"ok", "error"}
      BY <2>1 DEF GoesOn
    <3>2. req[q].kind = "revoke" =>
            people[req[q].by] = rows /\ (req[q].pc = "write" => req[q].got = req[q].arg)
      BY <2>2, <3>1 DEF ChangesOK
    <3>3. req'[q].kind = "people" /\ req'[q].pc = "ok" => req'[q].got = rows' /\ rows' = rows
      BY <1>2, <3>1 DEF Effect, ReadByPage
    <3>4. req'[q].kind = "revoke" /\ req'[q].pc \notin {"ok", "error"} => rows' = rows
      BY <1>2, <3>1 DEF Effect, Wrote
    <3>5. req'[q].kind = "revoke" /\ req'[q].pc = "write" => req'[q].got = req'[q].arg
      BY <1>2, <3>1 DEF Effect
    <3>6. req'[q].kind = "revoke" /\ req'[q].pc = "ok" =>
            rows' = {row \in rows : row.id # req[q].got} /\ req[q].got = req[q].arg
      BY <1>2, <3>1, <3>2 DEF Effect, ReadByPage
    <3>. QED  BY <2>1, <3>1, <3>2, <3>3, <3>4, <3>5, <3>6
  <2>5. CASE rows' = rows
    <3>1. DialogsOK'
      BY <2>1, <2>2, <2>3, <2>5 DEF DialogsOK
    <3>2. ASSUME NEW o \in Slot, o # q, req'[o] # None
          PROVE  req'[o] = req[o]
      BY <2>1, <3>2, SameRequests
    <3>3. ChangesOK'
      BY <2>1, <2>2, <2>4, <2>5, <3>2 DEF ChangesOK
    <3>. QED  BY <2>3, <3>1, <3>3
  <2>6. CASE rows' # rows
    <3>1. req[q] # None /\ req[q].kind \in {"share", "revoke", "create"}
      BY <1>2, <2>1, <2>6 DEF Effect, Wrote, GoesOn
    <3>2. CASE req[q].kind = "create"
      <4>1. Busy("create")
        BY <3>1, <3>2 DEF Busy
      <4>2. /\ \A p \in Person : people'[p] = None
            /\ \A o \in Slot : req[o] # None => req[o].kind \in {"create", "list", "delete"}
        BY <2>1, <4>1 DEF CreationInv
      <4>3. \A o \in Slot : req'[o] # None => req'[o].kind \notin {"people", "revoke"}
        BY <2>1, <4>2, SameRequests
      <4>. QED  BY <2>3, <4>2, <4>3 DEF DialogsOK, ChangesOK
    <3>3. CASE req[q].kind \in {"share", "revoke"}
      <4>1. \A o \in Slot : req'[o] # None /\ req'[o].kind \in {"people", "revoke"} => o = q
        BY <2>1, <2>2, <3>1, <3>3, SameRequests DEF One, Under, About
      <4>2. UnderWay("people")'
        BY <2>3, <3>1, <3>3 DEF UnderWay, About
      <4>3. DialogsOK'
        BY <4>2 DEF DialogsOK
      <4>4. ChangesOK'
        BY <2>4, <4>1 DEF ChangesOK
      <4>. QED  BY <2>3, <4>3, <4>4
    <3>. QED  BY <3>1, <3>2, <3>3
  <2>. QED  BY <2>5, <2>6
\* A request about something else that starts or ends.
<1>3. ASSUME NEW q \in Slot, \A o \in Slot \ {q} : req'[o] = req[o], ~Under(q, "people"), ~Under(q, "people")',
             UNCHANGED <<rows, people>>, raced \subseteq raced'
      PROVE  (One("people") /\ DialogsOK /\ ChangesOK)'
  <2>1. One("people") /\ DialogsOK /\ ChangesOK
    BY <1>3 DEF PeopleInv
  <2>2. \A o \in Slot : /\ Under(o, "people")' <=> Under(o, "people")
                        /\ Under(o, "people") => req'[o] = req[o]
    BY <1>3 DEF Under
  <2>3. \A o \in Slot : req'[o] # None /\ req'[o].kind \in {"people", "revoke"} => Under(o, "people")'
    BY DEF Under, About
  <2>4. One("people")'
    BY <2>1, <2>2 DEF One
  <2>5. UnderWay("people")' <=> UnderWay("people")
    BY <2>2 DEF UnderWay, Under
  <2>6. DialogsOK'
    BY <1>3, <2>1, <2>5 DEF DialogsOK
  <2>7. ChangesOK'
    BY <1>3, <2>1, <2>2, <2>3 DEF ChangesOK
  <2>. QED  BY <2>4, <2>6, <2>7
\* A request about the permissions, alone: for a row to be removed the dialog
\* shows what there is.
<1>4. ASSUME NEW q \in Slot, NEW p \in Person, NEW kind \in {"share", "revoke", "people"}, NEW arg,
             Puts(q, kind, p, arg), UNCHANGED <<rows, people>>,
             kind = "revoke" => people[p] # None /\ ~Under(q, "people")
      PROVE  (One("people") /\ DialogsOK /\ ChangesOK)'
  <2>1. "people" \notin raced /\ One("people")' /\ \A o \in Slot \ {q} : ~Under(o, "people") /\ ~Under(o, "people")'
    BY <1>4, PutAlone DEF PeopleInv, About
  <2>2. DialogsOK
    BY <2>1 DEF PeopleInv
  <2>3. /\ req'[q] # None /\ req'[q].kind = kind /\ req'[q].by = p /\ req'[q].pc = "find"
    BY <1>4 DEF Puts, FirstStatement
  <2>4. UnderWay("people")'
    BY <2>3 DEF UnderWay, About
  <2>5. \A o \in Slot : req'[o] # None /\ req'[o].kind \in {"people", "revoke"} => o = q
    BY <2>1 DEF Under, About
  <2>6. kind = "revoke" => people[p] = rows
    BY <1>4, <2>1, <2>2 DEF DialogsOK, UnderWay, Under
  <2>7. DialogsOK'
    BY <2>4 DEF DialogsOK
  <2>8. ChangesOK'
    BY <1>4, <2>3, <2>5, <2>6 DEF ChangesOK
  <2>. QED  BY <2>1, <2>7, <2>8
<1>5. ASSUME NEW q \in Slot, NEW p \in Person, NEW kind \in Kind, NEW arg, Asks(q, p, kind, arg)
      PROVE  (One("people") /\ DialogsOK /\ ChangesOK)'
  <2>1. ~Under(q, "people") /\ rows' = rows /\ people' = people
    BY <1>5 DEF Asks, Under, dbVars
  <2>2. CASE kind \in {"share", "revoke", "people"}
    BY <1>4, <1>5, <2>1, <2>2 DEF Asks
  <2>3. CASE kind \notin {"share", "revoke", "people"}
    BY <1>3, <1>5, <2>1, <2>3 DEF Asks, Puts, Under, About
  <2>. QED  BY <2>2, <2>3
<1>6. ASSUME NEW q \in Slot, AnswerEffect(q)
      PROVE  (One("people") /\ DialogsOK /\ ChangesOK)'
  <2>1. req[q] # None /\ req[q].pc = "ok" /\ rows' = rows /\ req[q].by \in Person
    BY <1>1, <1>6 DEF AnswerEffect, dbVars, TypeOK, RequestsOK, RequestOK
  <2>2. CASE req[q].kind = "share"
    BY <1>4, <1>6, <2>1, <2>2 DEF AnswerEffect
  <2>3. CASE req[q].kind \notin {"share", "revoke", "people"}
    BY <1>3, <1>6, <2>1, <2>3 DEF AnswerEffect, Under, About, Puts, Ends
  <2>4. CASE req[q].kind \in {"revoke", "people"}
    <3>1. req'[q] = None /\ raced' = raced /\ \A o \in Slot \ {q} : req'[o] = req[o]
      BY <1>6, <2>4 DEF AnswerEffect, Ends
    <3>2. One("people") /\ DialogsOK /\ ChangesOK
      BY <3>1 DEF PeopleInv
    <3>3. Under(q, "people")
      BY <2>1, <2>4 DEF Under, About
    <3>4. One("people")' /\ ~UnderWay("people")'
      BY <3>1, <3>2, <3>3, EndAlone
    <3>5. \A o \in Slot : ~(req'[o] # None /\ req'[o].kind \in {"people", "revoke"})
      BY <3>4 DEF UnderWay, About
    <3>6. ChangesOK'
      BY <3>5 DEF ChangesOK
    <3>7. req[q].by = owner /\ \A p \in Person : people[p] # None => p = owner
      BY <2>1, <2>4 DEF OwnerPagesInv
    <3>8. people' = [people EXCEPT ![req[q].by] = rows]
      BY <1>6, <2>1, <2>4, <3>2 DEF AnswerEffect, ChangesOK
    <3>9. DialogsOK'
      BY <1>1, <2>1, <3>7, <3>8 DEF DialogsOK, PagesOK
    <3>. QED  BY <3>4, <3>6, <3>9
  <2>. QED  BY <2>2, <2>3, <2>4
<1>7. ASSUME NEW q \in Slot, RefuseEffect(q)
      PROVE  (One("people") /\ DialogsOK /\ ChangesOK)'
  <2>1. About(req[q].kind) # "people"
    BY <1>7 DEF RefuseEffect
  <2>. QED  BY <1>3, <1>7, <2>1 DEF RefuseEffect, Under, dbVars
<1>8. CASE UNCHANGED <<req, raced, rows, people>>
  BY <1>8 DEF PeopleInv, One, Under, UnderWay, DialogsOK, ChangesOK
<1>9. ASSUME \/ \E p \in Person, t \in Title : HandleTitleChange(p, t)
             \/ \E p \in Person : Quiet(p)
             \/ UNCHANGED vars
      PROVE  UNCHANGED <<req, raced, rows, people>>
  BY <1>9 DEF HandleTitleChange, Quiet, vars, dbVars, pageVars, countVars
<1>. QED  BY <1>1, <1>2, <1>5, <1>6, <1>7, <1>8, <1>9, StepEffect

\* The list has no deleted document, or a request raced.
LEMMA ListStep ==
  ASSUME WorkspaceAssumption, IInv, CreationInv, OwnerPagesInv, ListInv, [Next]_vars
  PROVE  ListInv'
<1>. SUFFICES ASSUME "list" \notin raced' PROVE (One("list") /\ ListsOK)'
  BY DEF ListInv
<1>1. TypeOK /\ PagesOK /\ (doc # "none" => owner' = owner)
  BY StepKept DEF IInv, TypeOK, TablesKept
<1>2. ASSUME NEW q \in Slot, Effect(q)
      PROVE  (One("list") /\ ListsOK)'
  <2>1. GoesOn(q) /\ listed' = listed /\ raced' = raced
    BY <1>2 DEF Effect, GoesOn, pageVars
  <2>2. One("list") /\ ListsOK
    BY <2>1 DEF ListInv
  <2>3. One("list")' /\ (Busy("delete")' <=> Busy("delete"))
    BY <2>1, <2>2, SameRequests
  <2>4. CASE doc' = doc
    <3>1. req'[q].kind = "list" /\ req'[q].pc = "ok" /\ req'[q].got > 0 => doc' = "live"
      <4>1. req'[q].kind = "list" /\ req'[q].pc = "ok" => (doc # "live" => req'[q].got = 0)
        BY <1>2, <2>1, SameRequests DEF Effect, ReadByPage
      <4>. QED  BY <2>4, <4>1
    <3>2. \A o \in Slot : o # q => req'[o] = req[o]
      BY <2>1, SameRequests
    <3>3. \A p \in Person : p = owner' /\ listed'[p] > 0 => p = owner
      BY <1>1, <2>1 DEF CreationInv
    <3>. QED  BY <2>1, <2>2, <2>3, <2>4, <3>1, <3>2, <3>3 DEF ListsOK
  <2>5. CASE doc' = "live"
    BY <2>3, <2>5 DEF ListsOK
  <2>6. CASE req[q].kind = "delete"
    <3>1. \A o \in Slot : req'[o] # None => req'[o].kind # "list"
      BY <2>1, <2>2, <2>6, SameRequests DEF One, Under, About, GoesOn
    <3>2. Busy("delete")'
      BY <2>1, <2>6 DEF Busy, GoesOn
    <3>. QED  BY <2>3, <3>1, <3>2 DEF ListsOK
  <2>. QED  BY <1>2, <2>4, <2>5, <2>6 DEF Effect, Wrote
\* A request that starts, about this or about something else.
<1>3. ASSUME NEW q \in Slot, NEW p, NEW kind, NEW arg, Puts(q, kind, p, arg),
             ~Under(q, "list") \/ req[q].kind = "create",
             UNCHANGED <<doc, owner, listed>>
      PROVE  (One("list") /\ ListsOK)'
  <2>1. "list" \notin raced /\ One("list")'
    BY <1>3, PutAlone DEF ListInv
  <2>2. ListsOK
    BY <2>1 DEF ListInv
  <2>3. req'[q].pc # "ok" /\ \A o \in Slot : o # q => req'[o] = req[o]
    BY <1>3 DEF Puts, FirstStatement
  <2>4. Busy("delete") => Busy("delete")'
    BY <1>3, <2>3 DEF Busy, Under, About
  <2>. QED  BY <1>3, <2>1, <2>2, <2>3, <2>4 DEF ListsOK
<1>4. ASSUME NEW q \in Slot, NEW p \in Person, NEW kind \in Kind, NEW arg, Asks(q, p, kind, arg)
      PROVE  (One("list") /\ ListsOK)'
  BY <1>3, <1>4 DEF Asks, Under, dbVars
\* A request about something else that ends.
<1>5. ASSUME NEW q \in Slot, \A o \in Slot \ {q} : req'[o] = req[o], req'[q] = None, ~Under(q, "list"),
             UNCHANGED <<doc, owner, listed>>, raced \subseteq raced'
      PROVE  (One("list") /\ ListsOK)'
  <2>1. One("list") /\ ListsOK
    BY <1>5 DEF ListInv
  <2>2. Busy("delete")' <=> Busy("delete")
    BY <1>5 DEF Busy, Under, About
  <2>3. One("list")'
    BY <1>5, <2>1 DEF One, Under
  <2>. QED  BY <1>5, <2>1, <2>2, <2>3 DEF ListsOK
<1>6. ASSUME NEW q \in Slot, AnswerEffect(q)
      PROVE  (One("list") /\ ListsOK)'
  <2>1. req[q] # None /\ req[q].pc = "ok" /\ doc' = doc /\ owner' = owner /\ req[q].by \in Person
    BY <1>1, <1>6 DEF AnswerEffect, dbVars, TypeOK, RequestsOK, RequestOK
  <2>2. CASE req[q].kind \in {"create", "share"}
    BY <1>3, <1>6, <2>1, <2>2 DEF AnswerEffect, Under, About
  <2>3. CASE req[q].kind \notin {"create", "share", "list", "delete"}
    BY <1>1, <1>5, <1>6, <2>1, <2>3
       DEF AnswerEffect, Under, About, Ends, TypeOK, RequestsOK, RequestOK, Kind
  <2>4. CASE req[q].kind \in {"list", "delete"}
    <3>1. req'[q] = None /\ raced' = raced /\ \A o \in Slot \ {q} : req'[o] = req[o]
      BY <1>6, <2>4 DEF AnswerEffect, Ends
    <3>2. One("list") /\ ListsOK
      BY <3>1 DEF ListInv
    <3>3. Under(q, "list")
      BY <2>1, <2>4 DEF Under, About
    <3>4. One("list")' /\ ~UnderWay("list")'
      BY <3>1, <3>2, <3>3, EndAlone
    <3>5. \A o \in Slot : ~(req'[o] # None /\ req'[o].kind \in {"list", "delete"})
      BY <3>4 DEF UnderWay, About
    <3>6. \A o \in Slot : req[o] # None /\ req[o].kind \in {"list", "delete"} => o = q
      BY <3>2, <3>3 DEF One, Under, About
    <3>7. CASE req[q].kind = "list"
      <4>1. listed' = [listed EXCEPT ![req[q].by] = req[q].got] /\ (req[q].got > 0 => doc = "live")
        BY <1>6, <2>1, <3>2, <3>7 DEF AnswerEffect, ListsOK
      <4>2. ~Busy("delete")
        BY <3>6, <3>7 DEF Busy
      <4>. QED  BY <1>1, <2>1, <3>2, <3>4, <3>5, <4>1, <4>2 DEF ListsOK, PagesOK
    <3>8. CASE req[q].kind = "delete"
      <4>1. listed' = [listed EXCEPT ![req[q].by] = 0] /\ req[q].by = owner
        BY <1>6, <2>1, <3>8 DEF AnswerEffect, OwnerPagesInv
      <4>. QED  BY <1>1, <2>1, <3>4, <3>5, <4>1 DEF ListsOK, PagesOK
    <3>. QED  BY <2>4, <3>7, <3>8
  <2>. QED  BY <2>2, <2>3, <2>4
<1>7. ASSUME NEW q \in Slot, RefuseEffect(q)
      PROVE  (One("list") /\ ListsOK)'
  <2>1. About(req[q].kind) # "list"
    BY <1>7 DEF RefuseEffect
  <2>. QED  BY <1>5, <1>7, <2>1 DEF RefuseEffect, Under, dbVars
<1>8. CASE UNCHANGED <<req, raced, doc, owner, listed>>
  BY <1>8 DEF ListInv, One, Under, Busy, ListsOK
<1>9. ASSUME \/ \E p \in Person, t \in Title : HandleTitleChange(p, t)
             \/ \E p \in Person : Quiet(p)
             \/ UNCHANGED vars
      PROVE  UNCHANGED <<req, raced, doc, owner, listed>>
  BY <1>9 DEF HandleTitleChange, Quiet, vars, dbVars, pageVars, countVars
<1>. QED  BY <1>1, <1>2, <1>4, <1>6, <1>7, <1>8, <1>9, StepEffect

\* Nothing is shown, asked or raced at the start.
LEMMA ShownInit == Init => ShownInv
<1>. SUFFICES ASSUME Init PROVE ShownInv
  OBVIOUS
<1>1. CreationInv /\ OwnerPagesInv
  BY DEF Init, CreationInv, Creates, OwnerPagesInv
<1>2. TitleInv /\ PeopleInv /\ ListInv
  BY DEF Init, TitleInv, One, Under, OpensOK, TimersOK, SavedOK, Settled, PeopleInv, DialogsOK, ChangesOK,
         ListInv, ListsOK
<1>3. TrimmedInv
  BY WorkspaceAssumption DEF Init, TrimmedInv
<1>. QED  BY <1>1, <1>2, <1>3 DEF ShownInv

\* What the pages show is kept by every step, whatever requests overlap.
THEOREM ShownInvariance == Spec => [](IInv /\ ShownInv)
<1>1. IInv /\ ShownInv /\ [Next]_vars => ShownInv'
  BY WorkspaceAssumption, CreationStep, OwnerPagesStep, TrimmedStep, TitleStep, PeopleStep, ListStep DEF ShownInv
<1>. QED  BY <1>1, ShownInit, OwnerInit, OwnerStep, PTL DEF Spec

\* When all is quiet the stored title is the one on the page of whoever typed or
\* saved one last, without the blanks around it, unless that leaves nothing, two
\* requests about the title overlapped, one was refused, or the timer of a page
\* that was left ran out when its user had the document open again: for any
\* number of users, requests and timers, and for any titles.
THEOREM WorkspaceTitleSaved == Spec => []TitleSaved
<1>1. ShownInv => TitleSaved
  BY DEF ShownInv, TitleInv, SavedOK, Settled, TitleSaved, Busy, UnderWay, About
<1>. QED  BY <1>1, ShownInvariance, PTL

\* When all is quiet the share dialog shows the permissions there are, and the
\* owner's dashboard no document that was deleted, with the same exceptions.
THEOREM WorkspacePanelsShowRows == Spec => []PanelsShowRows
<1>1. ShownInv => PanelsShowRows
  BY DEF ShownInv, PeopleInv, DialogsOK, ListInv, ListsOK, PanelsShowRows, Busy, UnderWay, About
<1>. QED  BY <1>1, ShownInvariance, PTL
=============================================================================
