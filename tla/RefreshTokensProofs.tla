------------------------- MODULE RefreshTokensProofs -------------------------
(* Proofs about RefreshTokens, for any browsers, calls, tokens and mishaps. *)
EXTENDS RefreshTokens, TLAPS

-----------------------------------------------------------------------------
(* The inductive invariant.                                                *)

\* A family that was not replayed has all its rows.
RowsKept == \A k \in Token : family[k] \notin replayed => k \in present

\* A token of such a family is with one call, is not marked before its turn, and
\* is not found used.
OneCarrier ==
  /\ \A c, d \in Call :
       InRefresh(c) /\ InRefresh(d) /\ sent[c] = sent[d] /\ family[sent[c]] \notin replayed => c = d
  /\ \A c \in Call :
       pc[c] \in {"select", "mark"} /\ family[sent[c]] \notin replayed => sent[c] \notin used
  /\ \A c \in Call : pc[c] = "revoke" => family[sent[c]] \in replayed

\* A call about to issue a token of such a family is the only one, and no token
\* is left.
NoneWhileIssuing ==
  \A c \in Call :
    pc[c] = "insert" /\ family[sent[c]] \notin replayed =>
      /\ \A k \in present \ used : family[k] # family[sent[c]]
      /\ \A d \in Call : pc[d] = "insert" /\ family[sent[d]] = family[sent[c]] => c = d

\* Nothing of a family revoked alone is left, nor will be issued.
Closed ==
  /\ revoked \subseteq Token
  /\ \A f \in revoked \ overlapped :
       /\ \A k \in present : family[k] # f
       /\ \A c \in Call : pc[c] \in {"mark", "insert"} => family[sent[c]] # f

\* Browser b has token k, or a call of it does.
HeldBy(k, b) ==
  \/ cookie[b] = k
  \/ \E c \in Call :
       /\ BrowserOf[c] = b
       /\ (pc[c] = "answer" /\ fresh[c] = k) \/ (InRefresh(c) /\ sent[c] = k)

\* Tokens of a family are in one browser.
OneBrowser ==
  /\ replayed \subseteq Token
  /\ \A a, b \in Browser, j, k \in Token :
       HeldBy(j, a) /\ HeldBy(k, b) /\ family[j] = family[k] => a = b

\* With nothing lost, families of a browser that makes one call at a time are not
\* replayed, and its tokens are not sent but for a refresh under way.
LoneFresh ==
  mishaps = 0 =>
    /\ expired = {}
    /\ \A b \in Browser, k \in Token : Lone(b) /\ HeldBy(k, b) => family[k] \notin replayed
    /\ \A c \in Call : Lone(BrowserOf[c]) =>
         /\ pc[c] = "idle" => cookie[BrowserOf[c]] \notin known
         /\ pc[c] = "answer" => fresh[c] \notin known

\* The token of an answer on its way was not sent, and nobody else has it.
FreshUnsent ==
  \A c \in Call : pc[c] = "answer" =>
    /\ fresh[c] \notin known
    /\ \A b \in Browser : cookie[b] # fresh[c]
    /\ \A d \in Call \ {c} : pc[d] = "answer" => fresh[d] # fresh[c]

\* Call c, made in b, has marked k and is about to bring the next token.
Replacing(c, b, k) ==
  /\ BrowserOf[c] = b /\ sent[c] = k
  /\ pc[c] = "insert" \/ (pc[c] = "answer" /\ family[fresh[c]] = family[k])

\* A marked token is being replaced in its browser.
Replaced ==
  \A b \in Browser :
    cookie[b] \in used /\ family[cookie[b]] \notin replayed \union cut =>
      \E c \in Call : Replacing(c, b, cookie[b])

IInv ==
  /\ TypeOK /\ RowsKept /\ OneCarrier /\ OneLiveToken /\ NoneWhileIssuing /\ Closed
  /\ OneBrowser /\ LoneFresh /\ FreshUnsent /\ Replaced
-----------------------------------------------------------------------------
(* Types.                                                                  *)

\* The list of no families.
LEMMA EmptySeq == <<>> \in Seq(Nat) /\ Len(<<>>) = 0
  OBVIOUS

\* Issuing adds one token and leaves the families of the others alone.
LEMMA Issued ==
  ASSUME family \in Seq(Nat), NEW f \in Nat, family' = Append(family, f)
  PROVE  /\ family' \in Seq(Nat)
         /\ Token' = Token \union {Len(family) + 1}
         /\ Len(family) + 1 \in Nat /\ Len(family) + 1 \notin Token
         /\ \A k \in Token : family'[k] = family[k]
         /\ family'[Len(family) + 1] = f
  BY DEF Token

\* The family of a token is a token not after it.
LEMMA FamilyIsToken ==
  ASSUME TypeOK, NEW k \in Token
  PROVE  family[k] \in Token /\ family[k] \in Nat
  BY DEF TypeOK, Token

\* A token issued at login names a family nobody has, one issued by a refresh the
\* family of the token sent.
LEMMA IssueEffect ==
  ASSUME TypeOK, NEW c \in Call, Login(c) \/ RefreshInsert(c)
  PROVE  \E f \in Nat :
           /\ \/ pc[c] = "idle" /\ f = Len(family) + 1
              \/ pc[c] = "insert" /\ sent[c] \in Token /\ f = family[sent[c]] /\ f \in Token
           /\ family' \in Seq(Nat)
           /\ Token' = Token \union {Len(family) + 1}
           /\ Len(family) + 1 \in Nat /\ Len(family) + 1 \notin Token
           /\ \A k \in Token : family'[k] = family[k]
           /\ family'[Len(family) + 1] = f
           /\ present' = present \union {Len(family) + 1}
           /\ fresh' = [fresh EXCEPT ![c] = Len(family) + 1]
           /\ pc' = [pc EXCEPT ![c] = "answer"]
           /\ UNCHANGED <<used, expired, cookie, sent, mishaps, known, replayed, cut, revoked, overlapped>>
<1>1. PICK f \in Nat :
        /\ Issue(c, f)
        /\ \/ pc[c] = "idle" /\ f = Len(family) + 1
           \/ pc[c] = "insert" /\ sent[c] \in Token /\ f = family[sent[c]] /\ f \in Token
  <2>1. CASE Login(c)
    BY <2>1, Len(family) + 1 \in Nat DEF Login, TypeOK
  <2>2. CASE RefreshInsert(c)
    <3>1. pc[c] = "insert" /\ sent[c] \in Token
      BY <2>2 DEF RefreshInsert, TypeOK
    <3>2. QED  BY <2>2, <3>1, FamilyIsToken DEF RefreshInsert
  <2>3. QED  BY <2>1, <2>2
<1>2. family \in Seq(Nat) /\ family' = Append(family, f)
  BY <1>1 DEF Issue, TypeOK
<1>3. /\ family' \in Seq(Nat)
      /\ Token' = Token \union {Len(family) + 1}
      /\ Len(family) + 1 \in Nat /\ Len(family) + 1 \notin Token
      /\ \A k \in Token : family'[k] = family[k]
      /\ family'[Len(family) + 1] = f
  BY ONLY <1>2, f \in Nat, Issued
<1>4. QED  BY <1>1, <1>3 DEF Issue, Goto, historyVars

\* Every statement, answer and failure keeps the types.
LEMMA TypeStep ==
  ASSUME TypeOK, RefreshTokensAssumption, [Next]_vars
  PROVE  TypeOK'
<1> USE DEF TypeOK, RefreshTokensAssumption
<1>1. ASSUME NEW c \in Call, Login(c) \/ RefreshInsert(c)
      PROVE  TypeOK'
  <2>1. PICK f \in Nat :
          /\ \/ pc[c] = "idle" /\ f = Len(family) + 1
             \/ pc[c] = "insert" /\ sent[c] \in Token /\ f = family[sent[c]] /\ f \in Token
          /\ family' \in Seq(Nat)
          /\ Token' = Token \union {Len(family) + 1}
          /\ Len(family) + 1 \in Nat /\ Len(family) + 1 \notin Token
          /\ \A k \in Token : family'[k] = family[k]
          /\ family'[Len(family) + 1] = f
          /\ present' = present \union {Len(family) + 1}
          /\ fresh' = [fresh EXCEPT ![c] = Len(family) + 1]
          /\ pc' = [pc EXCEPT ![c] = "answer"]
          /\ UNCHANGED <<used, expired, cookie, sent, mishaps, known, replayed, cut, revoked, overlapped>>
    BY <1>1, IssueEffect
  <2>2. (\A k \in Token : family[k] \in 1 .. k /\ family[family[k]] = family[k])'
    <3>1. \A k \in Token : family[k] \in 1 .. k /\ family[k] \in Token
      BY DEF Token
    <3>2. f \in 1 .. Len(family) + 1
      BY <2>1 DEF Token
    <3>3. family'[f] = f
      <4>1. CASE f = Len(family) + 1
        BY <2>1, <4>1
      <4>2. CASE sent[c] \in Token /\ f = family[sent[c]] /\ f \in Token
        BY <2>1, <4>2
      <4>3. QED  BY <2>1, <4>1, <4>2
    <3>4. QED  BY <2>1, <3>1, <3>2, <3>3
  <2>3. present' \subseteq Token' /\ expired' \subseteq Token' /\ known' \subseteq Token'
    BY <2>1
  <2>4. cookie' \in [Browser -> Token' \union {0}] /\ sent' \in [Call -> Token' \union {0}]
    BY <2>1
  <2>5. fresh' \in [Call -> Token' \union {0}]
    BY <2>1
  <2>6. \A d \in Call : pc'[d] = "answer" => fresh'[d] # 0
    BY <2>1
  <2>7. /\ pc' \in [Call -> {"idle", "select", "mark", "insert", "revoke", "answer"}]
        /\ \A d \in Call : pc'[d] \in {"select", "mark", "insert", "revoke"} => sent'[d] \in known'
    BY <2>1
  <2>8. used' \subseteq known' /\ mishaps' \in Nat /\ family' \in Seq(Nat)
    BY <2>1
  <2>9. QED  BY <2>2, <2>3, <2>4, <2>5, <2>6, <2>7, <2>8
<1>2. ASSUME UNCHANGED family
      PROVE  Token' = Token
  BY <1>2 DEF Token
<1>3. ASSUME NEW c \in Call, RefreshSend(c)
      PROVE  TypeOK'
  BY <1>2, <1>3 DEF RefreshSend, Goto, rowVars
<1>4. ASSUME NEW c \in Call, RefreshSelect(c)
      PROVE  TypeOK'
  BY <1>2, <1>4 DEF RefreshSelect, Goto, rowVars, historyVars
<1>5. ASSUME NEW c \in Call, RefreshMark(c)
      PROVE  TypeOK'
  BY <1>2, <1>5 DEF RefreshMark, Goto, historyVars
<1>6. ASSUME NEW c \in Call, RefreshRevoke(c)
      PROVE  TypeOK'
  BY <1>2, <1>6 DEF RefreshRevoke, Goto
<1>7. ASSUME NEW c \in Call, Answer(c)
      PROVE  TypeOK'
  BY <1>2, <1>7 DEF Answer, Goto, rowVars, historyVars
<1>8. ASSUME NEW c \in Call, CallFails(c)
      PROVE  TypeOK'
  BY <1>2, <1>8 DEF CallFails, Mishap, Goto, rowVars, historyVars
<1>9. ASSUME NEW b \in Browser, Logout(b)
      PROVE  TypeOK'
  BY <1>2, <1>9 DEF Logout, rowVars, callVars, historyVars
<1>10. ASSUME NEW k \in Token, Expire(k)
       PROVE  TypeOK'
  BY <1>2, <1>10 DEF Expire, Mishap, callVars, historyVars
<1>11. CASE UNCHANGED vars
  BY <1>2, <1>11 DEF vars, rowVars, callVars, historyVars
<1>12. QED
  BY <1>1, <1>3, <1>4, <1>5, <1>6, <1>7, <1>8, <1>9, <1>10, <1>11 DEF Next, Refresh

\* The types hold before anyone signs in.
LEMMA TypeInit ==
  ASSUME Init, RefreshTokensAssumption
  PROVE  TypeOK
<1>1. Token = {}
  BY EmptySeq DEF Init, Token
<1>2. QED  BY <1>1, EmptySeq DEF Init, TypeOK, RefreshTokensAssumption

\* The rows and requests are what the code can produce (TypeOK).
THEOREM TokenTypeCorrect == Spec => []TypeOK
<1>1. Init => TypeOK
  BY RefreshTokensAssumption, TypeInit
<1>2. TypeOK /\ [Next]_vars => TypeOK'
  BY RefreshTokensAssumption, TypeStep
<1>3. QED  BY <1>1, <1>2, PTL DEF Spec

-----------------------------------------------------------------------------
(* Rows and carriers.                                                      *)

\* Who is between SELECT and INSERT carries a token that was issued.
LEMMA Carried ==
  ASSUME TypeOK, NEW c \in Call, InRefresh(c)
  PROVE  sent[c] \in Token /\ sent[c] \in known
  BY DEF TypeOK, InRefresh

\* A row is deleted only in a family that was replayed.
LEMMA RowsStep ==
  ASSUME TypeOK, RowsKept, OneCarrier, [Next]_vars
  PROVE  RowsKept'
<1> USE DEF RowsKept
<1>1. ASSUME NEW c \in Call, Login(c) \/ RefreshInsert(c)
      PROVE  RowsKept'
  BY <1>1, IssueEffect
<1>2. ASSUME NEW c \in Call, RefreshRevoke(c)
      PROVE  RowsKept'
  <2>1. family[sent[c]] \in replayed
    BY <1>2 DEF RefreshRevoke, OneCarrier
  <2>2. QED  BY <1>2, <2>1 DEF RefreshRevoke, Family, Token
<1>3. ASSUME UNCHANGED <<family, present>>, replayed \subseteq replayed'
      PROVE  RowsKept'
  BY <1>3 DEF Token
<1>4. QED
  BY <1>1, <1>2, <1>3
     DEF Next, Refresh, RefreshSend, RefreshSelect, RefreshMark, Answer, CallFails, Logout, Expire,
         vars, rowVars, historyVars

\* Every step leaves a token of a family not replayed with one call.
LEMMA CarrierStep ==
  ASSUME TypeOK, RowsKept, OneCarrier, [Next]_vars
  PROVE  OneCarrier'
<1> USE DEF OneCarrier, InRefresh
<1>0. pc \in [Call -> {"idle", "select", "mark", "insert", "revoke", "answer"}] /\ used \subseteq known
  BY DEF TypeOK
<1>1. ASSUME NEW c \in Call, Login(c) \/ RefreshInsert(c)
      PROVE  OneCarrier'
  <2>1. /\ pc' = [pc EXCEPT ![c] = "answer"] /\ sent' = sent /\ used' = used
        /\ replayed' = replayed /\ \A k \in Token : family'[k] = family[k]
    BY <1>1, IssueEffect
  <2>2. \A d \in Call : InRefresh(d)' => InRefresh(d) /\ pc'[d] = pc[d]
    BY <1>0, <2>1
  <2>3. \A d \in Call : InRefresh(d)' => family'[sent'[d]] = family[sent[d]]
    BY <2>1, <2>2, Carried
  <2>4. QED  BY <2>1, <2>2, <2>3
<1>2. ASSUME NEW c \in Call, RefreshSend(c)
      PROVE  OneCarrier'
  <2> DEFINE k == cookie[BrowserOf[c]]
  <2>1. /\ pc' = [pc EXCEPT ![c] = "select"] /\ sent' = [sent EXCEPT ![c] = k]
        /\ replayed' = IF k \in used \/ \E d \in Call : InRefresh(d) /\ sent[d] = k
                       THEN replayed \union {family[k]} ELSE replayed
        /\ family' = family /\ used' = used /\ pc[c] = "idle"
    BY <1>2 DEF RefreshSend, Goto, rowVars
  <2>2. \A d \in Call \ {c} : pc'[d] = pc[d] /\ sent'[d] = sent[d]
    BY <2>1, <1>0 DEF TypeOK
  <2>3. pc'[c] = "select" /\ sent'[c] = k
    BY <2>1, <1>0 DEF TypeOK
  <2>4. CASE k \in used \/ \E d \in Call : InRefresh(d) /\ sent[d] = k
    BY <1>0, <2>1, <2>2, <2>3, <2>4
  <2>5. CASE k \notin used /\ ~ \E d \in Call : InRefresh(d) /\ sent[d] = k
    <3>1. \A d \in Call \ {c} : InRefresh(d) => sent[d] # k
      BY <2>5
    <3>2. QED  BY <1>0, <2>1, <2>2, <2>3, <2>5, <3>1
  <2>6. QED  BY <2>4, <2>5
<1>3. ASSUME NEW c \in Call, RefreshSelect(c)
      PROVE  OneCarrier'
  <2>1. /\ pc' = [pc EXCEPT ![c] = IF sent[c] \notin present \/ sent[c] \in expired THEN "idle"
                                   ELSE IF sent[c] \in used THEN "revoke" ELSE "mark"]
        /\ pc[c] = "select" /\ UNCHANGED <<sent, used, family, replayed>>
    BY <1>3 DEF RefreshSelect, Goto, rowVars, historyVars
  <2>2. \A d \in Call \ {c} : pc'[d] = pc[d]
    BY <2>1, <1>0
  <2>3. pc'[c] \in {"idle", "revoke", "mark"} /\ (pc'[c] = "revoke" => sent[c] \in used)
    BY <2>1, <1>0
  <2>4. \A d \in Call : InRefresh(d)' => InRefresh(d)
    BY <2>1, <2>2
  <2>5. QED  BY <2>1, <2>2, <2>3, <2>4
<1>4. ASSUME NEW c \in Call, RefreshMark(c)
      PROVE  OneCarrier'
  <2>1. /\ pc' = [pc EXCEPT ![c] = "insert"] /\ pc[c] = "mark"
        /\ used' = used \union ({sent[c]} \intersect present)
        /\ UNCHANGED <<sent, family, replayed>>
    BY <1>4 DEF RefreshMark, Goto, historyVars
  <2>2. \A d \in Call \ {c} : pc'[d] = pc[d]
    BY <2>1, <1>0
  <2>3. pc'[c] = "insert"
    BY <2>1, <1>0
  <2>4. \A d \in Call \ {c} : InRefresh(d) /\ family[sent[d]] \notin replayed => sent[d] # sent[c]
    BY <2>1
  <2>5. QED  BY <2>1, <2>2, <2>3, <2>4
<1>5. ASSUME NEW c \in Call, pc' = [pc EXCEPT ![c] = "idle"], UNCHANGED <<sent, used, family, replayed>>
      PROVE  OneCarrier'
  <2>1. \A d \in Call : pc'[d] = pc[d] \/ pc'[d] = "idle"
    BY <1>5, <1>0
  <2>2. QED  BY <1>5, <2>1
<1>6. ASSUME UNCHANGED <<pc, sent, used, family, replayed>>
      PROVE  OneCarrier'
  BY <1>6
<1>7. QED
  BY <1>1, <1>2, <1>3, <1>4, <1>5, <1>6
     DEF Next, Refresh, RefreshRevoke, Answer, CallFails, Goto, Logout, Expire, vars, rowVars,
         callVars, historyVars

-----------------------------------------------------------------------------
(* One token at a time.                                                    *)

\* A refresh issues into the family it found empty, a login into a new one.
LEMMA LiveIssue ==
  ASSUME TypeOK, OneLiveToken, NoneWhileIssuing, NEW c \in Call, Login(c) \/ RefreshInsert(c)
  PROVE  OneLiveToken' /\ NoneWhileIssuing'
<1> DEFINE new == Len(family) + 1
<1>0. pc \in [Call -> {"idle", "select", "mark", "insert", "revoke", "answer"}] /\ used \subseteq Token
  BY DEF TypeOK
<1>1. PICK f \in Nat :
        /\ \/ pc[c] = "idle" /\ f = new
           \/ pc[c] = "insert" /\ sent[c] \in Token /\ f = family[sent[c]] /\ f \in Token
        /\ new \notin Token
        /\ \A k \in Token : family'[k] = family[k]
        /\ family'[new] = f
        /\ present' = present \union {new}
        /\ pc' = [pc EXCEPT ![c] = "answer"]
        /\ UNCHANGED <<used, sent, replayed>>
  BY IssueEffect
<1>2. \A k \in (present \ used)' : k = new \/ (k \in present \ used /\ family'[k] = family[k])
  BY <1>1 DEF TypeOK
<1>3. \A k \in present \ used : family[k] = f /\ f \notin replayed => FALSE
  <2>1. CASE f = new
    <3>1. \A k \in present : family[k] \in Token
      BY FamilyIsToken DEF TypeOK
    <3>2. QED  BY <1>1, <2>1, <3>1
  <2>2. CASE pc[c] = "insert" /\ f = family[sent[c]]
    BY <2>2 DEF NoneWhileIssuing
  <2>3. QED  BY <1>1, <2>1, <2>2
<1>4. OneLiveToken'
  <2> SUFFICES ASSUME NEW j \in (present \ used)', NEW k \in (present \ used)',
                      family'[j] = family'[k], family'[j] \notin replayed
               PROVE  j = k
    BY <1>1 DEF OneLiveToken
  <2>1. CASE j = new \/ k = new
    BY <1>1, <1>2, <1>3, <2>1
  <2>2. CASE j \in present \ used /\ k \in present \ used /\ family'[j] = family[j] /\ family'[k] = family[k]
    BY <2>2 DEF OneLiveToken
  <2>3. QED  BY <1>2, <2>1, <2>2
<1>5. \A d \in Call : pc'[d] = "insert" =>
        pc[d] = "insert" /\ d # c /\ family'[sent'[d]] = family[sent[d]] /\ family[sent[d]] \in Token
  <2> TAKE d \in Call
  <2> HAVE pc'[d] = "insert"
  <2>1. pc[d] = "insert" /\ d # c
    BY <1>0, <1>1
  <2>2. sent[d] \in Token
    BY <2>1, Carried DEF InRefresh
  <2>3. QED  BY <1>1, <2>1, <2>2, FamilyIsToken
<1>6. \A d \in Call \ {c} : pc[d] = "insert" /\ family[sent[d]] \notin replayed => family[sent[d]] # f
  <2>1. CASE f = new
    <3>1. \A d \in Call : pc[d] = "insert" => family[sent[d]] \in Token
      BY Carried, FamilyIsToken DEF InRefresh
    <3>2. QED  BY <1>1, <2>1, <3>1
  <2>2. CASE pc[c] = "insert" /\ f = family[sent[c]]
    BY <2>2 DEF NoneWhileIssuing
  <2>3. QED  BY <1>1, <2>1, <2>2
<1>7. NoneWhileIssuing'
  <2> SUFFICES ASSUME NEW d \in Call, pc'[d] = "insert", family'[sent'[d]] \notin replayed
               PROVE  /\ \A k \in (present \ used)' : family'[k] # family'[sent'[d]]
                      /\ \A e \in Call : pc'[e] = "insert" /\ family'[sent'[e]] = family'[sent'[d]] => d = e
    BY <1>1 DEF NoneWhileIssuing
  <2>1. pc[d] = "insert" /\ d # c /\ family'[sent'[d]] = family[sent[d]]
    BY <1>5
  <2>2. \A k \in (present \ used)' : family'[k] # family[sent[d]]
    BY <1>1, <1>2, <1>6, <2>1 DEF NoneWhileIssuing
  <2>3. \A e \in Call : pc'[e] = "insert" /\ family'[sent'[e]] = family[sent[d]] => d = e
    BY <1>5, <2>1 DEF NoneWhileIssuing
  <2>4. QED  BY <2>1, <2>2, <2>3
<1>8. QED  BY <1>4, <1>7

\* Marking uses up the one token of the family.
LEMMA LiveMark ==
  ASSUME TypeOK, RowsKept, OneCarrier, OneLiveToken, NoneWhileIssuing, NEW c \in Call, RefreshMark(c)
  PROVE  OneLiveToken' /\ NoneWhileIssuing'
<1>0. pc \in [Call -> {"idle", "select", "mark", "insert", "revoke", "answer"}]
  BY DEF TypeOK
<1>1. /\ pc' = [pc EXCEPT ![c] = "insert"] /\ pc[c] = "mark"
      /\ used' = used \union ({sent[c]} \intersect present)
      /\ UNCHANGED <<sent, family, replayed, present>>
  BY DEF RefreshMark, Goto, historyVars
<1>2. sent[c] \in Token
  BY <1>1, Carried DEF InRefresh
<1>3. family[sent[c]] \notin replayed => sent[c] \in present \ used
  BY <1>1, <1>2 DEF RowsKept, OneCarrier
<1>4. OneLiveToken'
  BY <1>1 DEF OneLiveToken
<1>5. \A d \in Call : pc'[d] = "insert" => d = c \/ pc[d] = "insert"
  BY <1>0, <1>1
<1>6. NoneWhileIssuing'
  <2> SUFFICES ASSUME NEW d \in Call, pc'[d] = "insert", family[sent[d]] \notin replayed
               PROVE  /\ \A k \in (present \ used)' : family[k] # family[sent[d]]
                      /\ \A e \in Call : pc'[e] = "insert" /\ family[sent[e]] = family[sent[d]] => d = e
    BY <1>1 DEF NoneWhileIssuing
  <2>1. CASE d = c
    <3>1. \A k \in (present \ used)' : family[k] # family[sent[c]]
      BY <1>1, <1>3, <2>1 DEF OneLiveToken
    <3>2. \A e \in Call : pc[e] = "insert" => family[sent[e]] # family[sent[c]]
      BY <1>3, <2>1 DEF NoneWhileIssuing
    <3>3. QED  BY <1>5, <2>1, <3>1, <3>2
  <2>2. CASE d # c /\ pc[d] = "insert"
    <3>1. family[sent[c]] # family[sent[d]]
      BY <1>3, <2>2 DEF NoneWhileIssuing
    <3>2. QED  BY <1>1, <1>5, <2>2, <3>1 DEF NoneWhileIssuing
  <2>3. QED  BY <1>5, <2>1, <2>2
<1>7. QED  BY <1>4, <1>6

\* A token is issued only when its family has no usable one.
LEMMA LiveStep ==
  ASSUME TypeOK, RowsKept, OneCarrier, OneLiveToken, NoneWhileIssuing, [Next]_vars
  PROVE  OneLiveToken' /\ NoneWhileIssuing'
<1>0. pc \in [Call -> {"idle", "select", "mark", "insert", "revoke", "answer"}]
  BY DEF TypeOK
<1>1. ASSUME NEW c \in Call, RefreshSend(c)
      PROVE  OneLiveToken' /\ NoneWhileIssuing'
  <2>1. /\ UNCHANGED <<family, present, used>> /\ replayed \subseteq replayed'
        /\ \A d \in Call : pc'[d] = "insert" => pc[d] = "insert" /\ d # c
        /\ \A d \in Call \ {c} : sent'[d] = sent[d]
    BY <1>0, <1>1 DEF RefreshSend, Goto, rowVars, TypeOK
  <2>2. OneLiveToken'
    BY <2>1 DEF OneLiveToken
  <2>3. QED  BY <2>1, <2>2 DEF NoneWhileIssuing
<1>2. ASSUME UNCHANGED <<family, used, sent, replayed>>, present' \subseteq present,
             \A d \in Call : pc'[d] = "insert" => pc[d] = "insert"
      PROVE  OneLiveToken' /\ NoneWhileIssuing'
  <2>1. OneLiveToken'
    BY <1>2 DEF OneLiveToken
  <2>2. QED  BY <1>2, <2>1 DEF NoneWhileIssuing
<1>3. ASSUME NEW c \in Call, RefreshSelect(c)
      PROVE  OneLiveToken' /\ NoneWhileIssuing'
  <2>1. \A d \in Call : pc'[d] = "insert" => pc[d] = "insert"
    BY <1>0, <1>3 DEF RefreshSelect, Goto
  <2>2. QED  BY <1>2, <1>3, <2>1 DEF RefreshSelect, rowVars, historyVars
<1>4. ASSUME NEW c \in Call, RefreshRevoke(c) \/ Answer(c) \/ CallFails(c)
      PROVE  OneLiveToken' /\ NoneWhileIssuing'
  <2>1. \A d \in Call : pc'[d] = "insert" => pc[d] = "insert"
    BY <1>0, <1>4 DEF RefreshRevoke, Answer, CallFails, Goto
  <2>2. QED  BY <1>2, <1>4, <2>1 DEF RefreshRevoke, Answer, CallFails, rowVars, historyVars
<1>5. ASSUME UNCHANGED <<family, used, sent, replayed, present, pc>>
      PROVE  OneLiveToken' /\ NoneWhileIssuing'
  BY <1>2, <1>5
<1>6. QED
  BY <1>1, <1>3, <1>4, <1>5, LiveIssue, LiveMark
     DEF Next, Refresh, Logout, Expire, vars, rowVars, callVars, historyVars

-----------------------------------------------------------------------------
(* Revoked families.                                                       *)

\* Nothing adds a row to a revoked family.
LEMMA ClosedStep ==
  ASSUME TypeOK, Closed, [Next]_vars
  PROVE  Closed'
<1>0. pc \in [Call -> {"idle", "select", "mark", "insert", "revoke", "answer"}] /\ present \subseteq Token
  BY DEF TypeOK
<1>1. ASSUME NEW c \in Call, Login(c) \/ RefreshInsert(c)
      PROVE  Closed'
  <2> DEFINE new == Len(family) + 1
  <2>1. PICK f \in Nat :
          /\ \/ pc[c] = "idle" /\ f = new
             \/ pc[c] = "insert" /\ sent[c] \in Token /\ f = family[sent[c]] /\ f \in Token
          /\ Token' = Token \union {new}
          /\ new \notin Token
          /\ \A k \in Token : family'[k] = family[k]
          /\ family'[new] = f
          /\ present' = present \union {new}
          /\ pc' = [pc EXCEPT ![c] = "answer"]
          /\ UNCHANGED <<sent, revoked, overlapped>>
    BY <1>1, IssueEffect
  <2>2. f \notin revoked \ overlapped
    BY <2>1 DEF Closed
  <2>3. \A d \in Call : pc'[d] \in {"mark", "insert"} =>
          pc[d] \in {"mark", "insert"} /\ family'[sent'[d]] = family[sent[d]]
    BY <1>0, <2>1, Carried DEF InRefresh
  <2>4. \A k \in present' : family'[k] \notin revoked \ overlapped
    BY <1>0, <2>1, <2>2 DEF Closed
  <2>5. QED  BY <2>1, <2>3, <2>4 DEF Closed
<1>2. ASSUME NEW c \in Call, RefreshSelect(c)
      PROVE  Closed'
  <2>1. /\ UNCHANGED <<family, present, sent, revoked, overlapped>>
        /\ \A d \in Call : pc'[d] \in {"mark", "insert"} =>
             pc[d] \in {"mark", "insert"} \/ sent[d] \in present
    BY <1>0, <1>2 DEF RefreshSelect, Goto, rowVars, historyVars
  <2>2. QED  BY <2>1 DEF Closed, Token
<1>3. ASSUME NEW c \in Call, RefreshMark(c)
      PROVE  Closed'
  <2>1. /\ UNCHANGED <<family, present, sent, revoked, overlapped>>
        /\ \A d \in Call : pc'[d] \in {"mark", "insert"} => pc[d] \in {"mark", "insert"}
    BY <1>0, <1>3 DEF RefreshMark, Goto, historyVars
  <2>2. QED  BY <2>1 DEF Closed, Token
<1>4. ASSUME NEW c \in Call, RefreshSend(c)
      PROVE  Closed'
  <2>1. /\ UNCHANGED <<family, present, revoked, overlapped>>
        /\ \A d \in Call : pc'[d] \in {"mark", "insert"} =>
             pc[d] \in {"mark", "insert"} /\ sent'[d] = sent[d]
    BY <1>0, <1>4 DEF RefreshSend, Goto, rowVars, TypeOK
  <2>2. QED  BY <2>1 DEF Closed, Token
<1>5. ASSUME NEW c \in Call, RefreshRevoke(c)
      PROVE  Closed'
  <2> DEFINE f == family[sent[c]]
  <2>1. /\ present' = present \ Family(f) /\ revoked' = revoked \union {f}
        /\ overlapped' = IF Rotating(c, f) THEN overlapped \union {f} ELSE overlapped
        /\ pc' = [pc EXCEPT ![c] = "idle"] /\ pc[c] = "revoke"
        /\ UNCHANGED <<family, sent>>
    BY <1>5 DEF RefreshRevoke, Goto
  <2>2. f \in Token
    BY <2>1, Carried, FamilyIsToken DEF InRefresh
  <2>3. \A d \in Call : pc'[d] \in {"mark", "insert"} => d # c /\ pc[d] \in {"mark", "insert"}
    BY <1>0, <2>1
  <2>4. ASSUME NEW g \in revoked' \ overlapped'
        PROVE  /\ \A k \in present' : family[k] # g
               /\ \A d \in Call : pc'[d] \in {"mark", "insert"} => family[sent[d]] # g
    <3>1. CASE g = f
      <4>1. ~Rotating(c, f)
        BY <2>1, <2>4, <3>1
      <4>2. QED  BY <1>0, <2>1, <2>3, <3>1, <4>1 DEF Rotating, Family
    <3>2. CASE g \in revoked \ overlapped
      BY <2>1, <2>3, <3>2 DEF Closed
    <3>3. QED  BY <2>1, <2>4, <3>1, <3>2
  <2>5. QED  BY <2>1, <2>2, <2>4 DEF Closed, Token
<1>6. ASSUME NEW c \in Call, Answer(c) \/ CallFails(c)
      PROVE  Closed'
  <2>1. /\ UNCHANGED <<family, present, sent, revoked, overlapped>>
        /\ \A d \in Call : pc'[d] \in {"mark", "insert"} => pc[d] \in {"mark", "insert"}
    BY <1>0, <1>6 DEF Answer, CallFails, Goto, rowVars, historyVars
  <2>2. QED  BY <2>1 DEF Closed, Token
<1>7. ASSUME UNCHANGED <<family, present, pc, sent, revoked, overlapped>>
      PROVE  Closed'
  BY <1>7 DEF Closed, Token
<1>8. QED
  BY <1>1, <1>2, <1>3, <1>4, <1>5, <1>6, <1>7
     DEF Next, Refresh, Logout, Expire, vars, rowVars, callVars, historyVars

-----------------------------------------------------------------------------
(* One call at a time.                                                     *)

\* Issuing gives a browser a token of a family that is new or that it had.
LEMMA HeldIssue ==
  ASSUME TypeOK, RefreshTokensAssumption, OneBrowser, LoneFresh,
         NEW c \in Call, Login(c) \/ RefreshInsert(c)
  PROVE  OneBrowser' /\ LoneFresh'
<1> DEFINE n == Len(family) + 1
           o == BrowserOf[c]
<1>0. /\ pc \in [Call -> {"idle", "select", "mark", "insert", "revoke", "answer"}]
      /\ cookie \in [Browser -> Token \union {0}] /\ fresh \in [Call -> Token \union {0}]
      /\ known \subseteq Token /\ o \in Browser
      /\ \A k \in Token : family[k] \in Token
  BY FamilyIsToken DEF TypeOK, RefreshTokensAssumption
<1>1. PICK f \in Nat :
        /\ \/ pc[c] = "idle" /\ f = n
           \/ pc[c] = "insert" /\ sent[c] \in Token /\ f = family[sent[c]] /\ f \in Token
        /\ Token' = Token \union {n}
        /\ n \in Nat /\ n \notin Token
        /\ \A k \in Token : family'[k] = family[k]
        /\ family'[n] = f
        /\ fresh' = [fresh EXCEPT ![c] = n]
        /\ pc' = [pc EXCEPT ![c] = "answer"]
        /\ UNCHANGED <<expired, cookie, sent, mishaps, known, replayed>>
  BY IssueEffect
<1> HIDE DEF n
<1>2. \A d \in Call \ {c} : fresh'[d] = fresh[d] /\ pc'[d] = pc[d]
  BY <1>0, <1>1
<1>3. fresh'[c] = n /\ pc'[c] = "answer"
  BY <1>0, <1>1
<1>4. n # 0
  BY <1>1 DEF n, TypeOK
<1>5. \A k \in Token', b \in Browser : HeldBy(k, b)' => (k \in Token /\ HeldBy(k, b)) \/ (k = n /\ b = o)
  <2>1. ASSUME NEW k \in Token', NEW b \in Browser, HeldBy(k, b)'
        PROVE  (k \in Token /\ HeldBy(k, b)) \/ (k = n /\ b = o)
    <3>1. CASE cookie[b] = k
      BY <1>0, <1>1, <1>4, <3>1 DEF HeldBy
    <3>2. ASSUME NEW d \in Call, BrowserOf[d] = b,
                 (pc'[d] = "answer" /\ fresh'[d] = k) \/ (InRefresh(d)' /\ sent'[d] = k)
          PROVE  (k \in Token /\ HeldBy(k, b)) \/ (k = n /\ b = o)
      <4>1. CASE d = c
        BY <1>3, <3>2, <4>1 DEF InRefresh
      <4>2. CASE d # c
        <5>1. (pc[d] = "answer" /\ fresh[d] = k) \/ (InRefresh(d) /\ sent[d] = k)
          BY <1>1, <1>2, <3>2, <4>2 DEF InRefresh
        <5>2. k \in Token
          BY <1>0, <1>1, <1>4, <5>1, Carried
        <5>3. QED  BY <3>2, <5>1, <5>2 DEF HeldBy
      <4>3. QED  BY <4>1, <4>2
    <3>3. QED  BY <1>1, <2>1, <3>1, <3>2 DEF HeldBy
  <2>2. QED  BY <2>1
<1>6. f = n \/ (f \in Token /\ sent[c] \in Token /\ f = family[sent[c]] /\ HeldBy(sent[c], o))
  BY <1>1 DEF HeldBy, InRefresh
<1>7. \A k \in Token, b \in Browser : HeldBy(k, b) /\ family[k] = f => b = o
  BY <1>0, <1>1, <1>6 DEF OneBrowser
<1>8. OneBrowser'
  <2>1. ASSUME NEW a \in Browser, NEW b \in Browser, NEW j \in Token', NEW k \in Token',
               HeldBy(j, a)', HeldBy(k, b)', family'[j] = family'[k]
        PROVE  a = b
    <3>1. CASE j \in Token /\ HeldBy(j, a) /\ k \in Token /\ HeldBy(k, b)
      BY <1>1, <2>1, <3>1 DEF OneBrowser
    <3>2. CASE j = n /\ a = o
      BY <1>1, <1>5, <1>7, <2>1, <3>2
    <3>3. CASE k = n /\ b = o
      BY <1>1, <1>5, <1>7, <2>1, <3>3
    <3>4. QED  BY <1>5, <2>1, <3>1, <3>2, <3>3
  <2>2. replayed' \subseteq Token'
    BY <1>1 DEF OneBrowser
  <2>3. QED  BY <2>1, <2>2 DEF OneBrowser
<1>9. LoneFresh'
  <2> SUFFICES ASSUME mishaps = 0
               PROVE  LoneFresh'
    BY <1>1 DEF LoneFresh
  <2>1. ASSUME NEW b \in Browser, NEW k \in Token', Lone(b), HeldBy(k, b)'
        PROVE  family'[k] \notin replayed'
    <3>1. CASE k \in Token /\ HeldBy(k, b)
      BY <1>1, <2>1, <3>1 DEF LoneFresh
    <3>2. CASE k = n /\ b = o
      BY <1>1, <1>6, <2>1, <3>2 DEF LoneFresh, OneBrowser
    <3>3. QED  BY <1>5, <2>1, <3>1, <3>2
  <2>2. \A d \in Call : Lone(BrowserOf[d]) =>
           /\ pc'[d] = "idle" => cookie'[BrowserOf[d]] \notin known'
           /\ pc'[d] = "answer" => fresh'[d] \notin known'
    BY <1>0, <1>1, <1>2, <1>3 DEF LoneFresh
  <2>3. QED  BY <1>1, <2>1, <2>2 DEF LoneFresh, Lone
<1>10. QED  BY <1>8, <1>9

\* A step that gives nobody a token and replays nothing.
LEMMA HeldLess ==
  ASSUME OneBrowser, UNCHANGED <<family, replayed>>,
         \A k \in Token, b \in Browser : HeldBy(k, b)' => HeldBy(k, b)
  PROVE  /\ OneBrowser' /\ Token' = Token
         /\ LoneFresh /\ mishaps = 0 =>
              \A b \in Browser, k \in Token : Lone(b) /\ HeldBy(k, b)' => family'[k] \notin replayed'
<1>1. Token' = Token
  BY DEF Token
<1>2. QED  BY <1>1 DEF OneBrowser, LoneFresh

\* Every step leaves the tokens of a lone browser unsent and its families alone.
LEMMA FreshStep ==
  ASSUME TypeOK, RefreshTokensAssumption, RowsKept, OneCarrier, OneBrowser, LoneFresh, [Next]_vars
  PROVE  OneBrowser' /\ LoneFresh'
<1>0. /\ pc \in [Call -> {"idle", "select", "mark", "insert", "revoke", "answer"}]
      /\ cookie \in [Browser -> Token \union {0}] /\ fresh \in [Call -> Token \union {0}]
      /\ known \subseteq Token /\ 0 \notin Token /\ mishaps \in Nat
      /\ \A c \in Call : BrowserOf[c] \in Browser
      /\ \A c \in Call : InRefresh(c) => sent[c] \in Token
  BY Carried DEF TypeOK, Token, RefreshTokensAssumption
<1>1. ASSUME NEW c \in Call, Login(c) \/ RefreshInsert(c)
      PROVE  OneBrowser' /\ LoneFresh'
  BY <1>1, HeldIssue
<1>2. ASSUME NEW c \in Call, RefreshSend(c)
      PROVE  OneBrowser' /\ LoneFresh'
  <2> DEFINE o == BrowserOf[c]
             k == cookie[o]
  <2>1. /\ pc' = [pc EXCEPT ![c] = "select"] /\ pc[c] = "idle" /\ k # 0
        /\ sent' = [sent EXCEPT ![c] = k]
        /\ known' = known \union {k}
        /\ replayed' = IF k \in known THEN replayed' ELSE replayed
        /\ replayed' \in {replayed, replayed \union {family[k]}}
        /\ UNCHANGED <<fresh, cookie, expired, family, mishaps>>
    <3>1. k \in used \/ (\E d \in Call : InRefresh(d) /\ sent[d] = k) => k \in known
      BY Carried DEF TypeOK
    <3>2. QED  BY <1>2, <3>1 DEF RefreshSend, Goto, rowVars
  <2>2. o \in Browser /\ k \in Token /\ HeldBy(k, o) /\ family[k] \in Token /\ Token' = Token
    BY <1>0, <2>1, FamilyIsToken DEF HeldBy, Token
  <2>3. sent \in [Call -> Token \union {0}]
    BY DEF TypeOK
  <2>4. \A d \in Call \ {c} : pc'[d] = pc[d] /\ sent'[d] = sent[d]
    BY <1>0, <2>1, <2>3
  <2>5. pc'[c] = "select" /\ sent'[c] = k
    BY <1>0, <2>1, <2>3
  <2>6. \A j \in Token, b \in Browser : HeldBy(j, b)' => HeldBy(j, b)
    <3>1. ASSUME NEW j \in Token, NEW b \in Browser, HeldBy(j, b)'
          PROVE  HeldBy(j, b)
      <4>1. CASE cookie[b] = j
        BY <4>1 DEF HeldBy
      <4>2. ASSUME NEW d \in Call, BrowserOf[d] = b,
                   (pc'[d] = "answer" /\ fresh'[d] = j) \/ (InRefresh(d)' /\ sent'[d] = j)
            PROVE  HeldBy(j, b)
        <5>1. CASE d = c
          BY <2>1, <2>5, <4>2, <5>1 DEF HeldBy
        <5>2. CASE d # c
          BY <2>1, <2>4, <4>2, <5>2 DEF HeldBy, InRefresh
        <5>3. QED  BY <5>1, <5>2
      <4>3. QED  BY <2>1, <3>1, <4>1, <4>2 DEF HeldBy
    <3>2. QED  BY <3>1
  <2>7. OneBrowser'
    BY <2>1, <2>2, <2>6 DEF OneBrowser
  <2>8. \A j \in Token, b \in Browser : HeldBy(j, b) /\ b # o => j # k /\ family[j] # family[k]
    BY <2>2 DEF OneBrowser
  <2> HIDE DEF k
  <2>9. LoneFresh'
    <3> SUFFICES ASSUME mishaps = 0
                 PROVE  LoneFresh'
      BY <2>1 DEF LoneFresh
    <3>1. Lone(o) => k \notin known
      BY <2>1 DEF LoneFresh, k
    <3>2. ASSUME NEW b \in Browser, NEW j \in Token, Lone(b), HeldBy(j, b)'
          PROVE  family[j] \notin replayed'
      <4>1. HeldBy(j, b) /\ family[j] \notin replayed
        BY <2>6, <3>2 DEF LoneFresh
      <4>2. CASE b = o
        BY <2>1, <3>1, <3>2, <4>1, <4>2
      <4>3. CASE b # o
        BY <2>1, <2>8, <4>1, <4>3
      <4>4. QED  BY <4>2, <4>3
    <3>3. ASSUME NEW d \in Call, Lone(BrowserOf[d])
          PROVE  /\ pc'[d] = "idle" => cookie[BrowserOf[d]] \notin known'
                 /\ pc'[d] = "answer" => fresh[d] \notin known'
      <4>1. CASE d = c
        BY <2>5, <4>1
      <4>2. CASE d # c
        <5>1. BrowserOf[d] # o /\ BrowserOf[d] \in Browser
          BY <1>0, <3>3, <4>2 DEF Lone
        <5>2. /\ pc[d] = "idle" => cookie[BrowserOf[d]] \notin known
              /\ pc[d] = "answer" => fresh[d] \notin known
          BY <3>3 DEF LoneFresh
        <5>3. cookie[BrowserOf[d]] # k
          <6>1. CASE cookie[BrowserOf[d]] = 0
            BY <2>1, <6>1 DEF k
          <6>2. CASE cookie[BrowserOf[d]] \in Token
            <7>1. HeldBy(cookie[BrowserOf[d]], BrowserOf[d])
              BY DEF HeldBy
            <7>2. QED  BY <2>8, <5>1, <6>2, <7>1
          <6>3. QED  BY <1>0, <5>1, <6>1, <6>2
        <5>4. pc[d] = "answer" => fresh[d] # k
          <6>1. pc[d] = "answer" => fresh[d] \in Token /\ HeldBy(fresh[d], BrowserOf[d])
            BY <1>0 DEF HeldBy, TypeOK
          <6>2. QED  BY <2>8, <5>1, <6>1
        <5>5. QED  BY <2>1, <2>4, <4>2, <5>2, <5>3, <5>4
      <4>3. QED  BY <4>1, <4>2
    <3>4. QED  BY <2>1, <2>2, <3>2, <3>3 DEF LoneFresh, Lone
  <2>10. QED  BY <2>7, <2>9
<1>3. ASSUME UNCHANGED <<family, replayed, known, expired, mishaps>>,
             \A k \in Token, b \in Browser : HeldBy(k, b)' => HeldBy(k, b),
             mishaps = 0 => \A d \in Call : Lone(BrowserOf[d]) =>
                /\ pc'[d] = "idle" => cookie'[BrowserOf[d]] \notin known
                /\ pc'[d] = "answer" => fresh'[d] \notin known
      PROVE  OneBrowser' /\ LoneFresh'
  <2>1. /\ OneBrowser' /\ Token' = Token
        /\ mishaps = 0 =>
              \A b \in Browser, k \in Token : Lone(b) /\ HeldBy(k, b)' => family'[k] \notin replayed'
    BY <1>3, HeldLess
  <2>2. QED  BY <1>3, <2>1 DEF LoneFresh, Lone
<1>4. ASSUME NEW c \in Call, RefreshSelect(c) \/ RefreshMark(c) \/ RefreshRevoke(c)
      PROVE  OneBrowser' /\ LoneFresh'
  <2>1. /\ UNCHANGED <<family, replayed, known, expired, mishaps, cookie, fresh, sent>>
        /\ pc' = [pc EXCEPT ![c] = pc'[c]] /\ InRefresh(c) /\ pc'[c] # "answer"
    BY <1>0, <1>4 DEF RefreshSelect, RefreshMark, RefreshRevoke, Goto, rowVars, historyVars, InRefresh
  <2>2. \A d \in Call \ {c} : pc'[d] = pc[d]
    BY <1>0, <2>1
  <2>3. \A k \in Token, b \in Browser : HeldBy(k, b)' => HeldBy(k, b)
    BY <2>1, <2>2 DEF HeldBy, InRefresh
  <2>4. ASSUME mishaps = 0, Lone(BrowserOf[c])
        PROVE  pc'[c] # "idle"
    <3>1. sent[c] \in Token /\ HeldBy(sent[c], BrowserOf[c])
      BY <1>0, <2>1 DEF HeldBy
    <3>2. family[sent[c]] \notin replayed /\ expired = {}
      BY <1>0, <2>4, <3>1 DEF LoneFresh
    <3>3. sent[c] \in present /\ (pc[c] = "select" => sent[c] \notin used) /\ pc[c] # "revoke"
      BY <3>1, <3>2 DEF RowsKept, OneCarrier
    <3>4. QED  BY <1>0, <1>4, <3>2, <3>3 DEF RefreshSelect, RefreshMark, RefreshRevoke, Goto
  <2>5. mishaps = 0 => \A d \in Call : Lone(BrowserOf[d]) =>
           /\ pc'[d] = "idle" => cookie'[BrowserOf[d]] \notin known
           /\ pc'[d] = "answer" => fresh'[d] \notin known
    BY <2>1, <2>2, <2>4 DEF LoneFresh
  <2>6. QED  BY <1>3, <2>1, <2>3, <2>5
<1>5. ASSUME NEW c \in Call, Answer(c)
      PROVE  OneBrowser' /\ LoneFresh'
  <2>1. /\ pc' = [pc EXCEPT ![c] = "idle"] /\ pc[c] = "answer"
        /\ cookie' = [cookie EXCEPT ![BrowserOf[c]] = fresh[c]]
        /\ UNCHANGED <<fresh, sent, expired, known, replayed, family, mishaps>>
    BY <1>5 DEF Answer, Goto, rowVars, historyVars
  <2>2. \A d \in Call \ {c} : pc'[d] = pc[d]
    BY <1>0, <2>1
  <2>3. pc'[c] = "idle" /\ cookie'[BrowserOf[c]] = fresh[c]
    BY <1>0, <2>1
  <2>4. \A b \in Browser : b # BrowserOf[c] => cookie'[b] = cookie[b]
    BY <1>0, <2>1
  <2>5. \A k \in Token, b \in Browser : HeldBy(k, b)' => HeldBy(k, b)
    BY <2>1, <2>2, <2>3, <2>4 DEF HeldBy, InRefresh
  <2>6. mishaps = 0 => \A d \in Call : Lone(BrowserOf[d]) =>
           /\ pc'[d] = "idle" => cookie'[BrowserOf[d]] \notin known
           /\ pc'[d] = "answer" => fresh'[d] \notin known
    <3>1. ASSUME mishaps = 0, NEW d \in Call, Lone(BrowserOf[d])
          PROVE  /\ pc'[d] = "idle" => cookie'[BrowserOf[d]] \notin known
                 /\ pc'[d] = "answer" => fresh'[d] \notin known
      <4>1. CASE d = c
        BY <2>1, <2>3, <3>1, <4>1 DEF LoneFresh
      <4>2. CASE d # c
        <5>1. BrowserOf[d] # BrowserOf[c]
          BY <3>1, <4>2 DEF Lone
        <5>2. QED  BY <1>0, <2>1, <2>2, <2>4, <3>1, <4>2, <5>1 DEF LoneFresh
      <4>3. QED  BY <4>1, <4>2
    <3>2. QED  BY <3>1
  <2>7. QED  BY <1>3, <2>1, <2>5, <2>6
<1>6. ASSUME NEW o \in Browser, Logout(o)
      PROVE  OneBrowser' /\ LoneFresh'
  <2>1. /\ cookie' = [cookie EXCEPT ![o] = 0]
        /\ UNCHANGED <<pc, fresh, sent, expired, known, replayed, family, mishaps>>
    BY <1>6 DEF Logout, rowVars, callVars, historyVars
  <2>2. \A b \in Browser : cookie'[b] \in {cookie[b], 0}
    BY <1>0, <2>1
  <2>3. \A k \in Token, b \in Browser : HeldBy(k, b)' => HeldBy(k, b)
    BY <1>0, <2>1, <2>2 DEF HeldBy, InRefresh
  <2>4. mishaps = 0 => \A d \in Call : Lone(BrowserOf[d]) =>
           /\ pc'[d] = "idle" => cookie'[BrowserOf[d]] \notin known
           /\ pc'[d] = "answer" => fresh'[d] \notin known
    BY <1>0, <2>1, <2>2 DEF LoneFresh
  <2>5. QED  BY <1>3, <2>1, <2>3, <2>4
<1>7. ASSUME Mishap, UNCHANGED <<family, replayed, cookie, fresh, sent>>,
             \A d \in Call : pc'[d] \in {pc[d], "idle"}
      PROVE  OneBrowser' /\ LoneFresh'
  <2>1. \A k \in Token, b \in Browser : HeldBy(k, b)' => HeldBy(k, b)
    BY <1>7 DEF HeldBy, InRefresh
  <2>2. mishaps' # 0
    BY <1>0, <1>7 DEF Mishap
  <2>3. QED  BY <1>7, <2>1, <2>2, HeldLess DEF LoneFresh
<1>8. ASSUME NEW c \in Call, CallFails(c)
      PROVE  OneBrowser' /\ LoneFresh'
  <2>1. \A d \in Call : pc'[d] \in {pc[d], "idle"}
    BY <1>0, <1>8 DEF CallFails, Goto
  <2>2. QED  BY <1>7, <1>8, <2>1 DEF CallFails, rowVars, historyVars
<1>9. ASSUME NEW k \in Token, Expire(k)
      PROVE  OneBrowser' /\ LoneFresh'
  BY <1>7, <1>9 DEF Expire, callVars, historyVars
<1>10. CASE UNCHANGED vars
  <2>1. UNCHANGED <<family, replayed, known, expired, mishaps, cookie, fresh, sent, pc>>
    BY <1>10 DEF vars, rowVars, callVars, historyVars
  <2>2. \A k \in Token, b \in Browser : HeldBy(k, b)' => HeldBy(k, b)
    BY <2>1 DEF HeldBy, InRefresh
  <2>3. QED  BY <1>3, <2>1, <2>2 DEF LoneFresh
<1>11. QED
  BY <1>1, <1>2, <1>4, <1>5, <1>6, <1>8, <1>9, <1>10 DEF Next, Refresh

-----------------------------------------------------------------------------
(* What is in a browser.                                                   *)

\* A new token is with its call only, until its answer puts it in a cookie.
LEMMA UnsentStep ==
  ASSUME TypeOK, RefreshTokensAssumption, FreshUnsent, [Next]_vars
  PROVE  FreshUnsent'
<1> USE DEF FreshUnsent
<1>0. /\ pc \in [Call -> {"idle", "select", "mark", "insert", "revoke", "answer"}]
      /\ cookie \in [Browser -> Token \union {0}] /\ fresh \in [Call -> Token \union {0}]
      /\ known \subseteq Token /\ 0 \notin Token
      /\ \A c \in Call : BrowserOf[c] \in Browser
      /\ \A c \in Call : pc[c] = "answer" => fresh[c] \in Token
  BY DEF TypeOK, Token, RefreshTokensAssumption
<1>1. ASSUME NEW c \in Call, Login(c) \/ RefreshInsert(c)
      PROVE  FreshUnsent'
  <2>1. /\ Len(family) + 1 \in Nat /\ Len(family) + 1 \notin Token
        /\ fresh' = [fresh EXCEPT ![c] = Len(family) + 1]
        /\ pc' = [pc EXCEPT ![c] = "answer"]
        /\ UNCHANGED <<cookie, known>>
    BY <1>1, IssueEffect
  <2>2. Len(family) + 1 # 0 /\ fresh'[c] = Len(family) + 1
    BY <1>0, <2>1 DEF TypeOK
  <2>3. \A d \in Call \ {c} : pc'[d] = pc[d] /\ fresh'[d] = fresh[d]
    BY <1>0, <2>1
  <2>4. QED  BY <1>0, <2>1, <2>2, <2>3
<1>2. ASSUME NEW c \in Call, RefreshSend(c)
      PROVE  FreshUnsent'
  <2>1. /\ pc' = [pc EXCEPT ![c] = "select"]
        /\ known' = known \union {cookie[BrowserOf[c]]}
        /\ UNCHANGED <<fresh, cookie>>
    BY <1>2 DEF RefreshSend, Goto
  <2>2. \A d \in Call : pc'[d] = "answer" => pc[d] = "answer"
    BY <1>0, <2>1
  <2>3. QED  BY <1>0, <2>1, <2>2
<1>3. ASSUME NEW c \in Call, Answer(c)
      PROVE  FreshUnsent'
  <2>1. /\ pc' = [pc EXCEPT ![c] = "idle"] /\ pc[c] = "answer"
        /\ cookie' = [cookie EXCEPT ![BrowserOf[c]] = fresh[c]]
        /\ UNCHANGED <<fresh, known>>
    BY <1>3 DEF Answer, Goto, historyVars
  <2>2. \A d \in Call : pc'[d] = "answer" => pc[d] = "answer" /\ d # c
    BY <1>0, <2>1
  <2>3. \A b \in Browser : cookie'[b] \in {cookie[b], fresh[c]}
    BY <1>0, <2>1
  <2>4. QED  BY <2>1, <2>2, <2>3
<1>4. ASSUME UNCHANGED <<fresh, known>>, \A d \in Call : pc'[d] = "answer" => pc[d] = "answer",
             \A b \in Browser : cookie'[b] \in {cookie[b], 0}
      PROVE  FreshUnsent'
  BY <1>0, <1>4
<1>5. ASSUME NEW c \in Call, RefreshSelect(c) \/ RefreshMark(c) \/ RefreshRevoke(c) \/ CallFails(c)
      PROVE  FreshUnsent'
  <2>1. /\ UNCHANGED <<fresh, known, cookie>>
        /\ pc' = [pc EXCEPT ![c] = pc'[c]] /\ pc'[c] # "answer"
    BY <1>0, <1>5
       DEF RefreshSelect, RefreshMark, RefreshRevoke, CallFails, Goto, rowVars, historyVars
  <2>2. \A d \in Call : pc'[d] = "answer" => pc[d] = "answer"
    BY <1>0, <2>1
  <2>3. QED  BY <1>4, <2>1, <2>2
<1>6. ASSUME NEW b \in Browser, Logout(b)
      PROVE  FreshUnsent'
  <2>1. UNCHANGED <<fresh, known, pc>> /\ \A o \in Browser : cookie'[o] \in {cookie[o], 0}
    BY <1>0, <1>6 DEF Logout, callVars, historyVars
  <2>2. QED  BY <1>4, <2>1
<1>7. ASSUME UNCHANGED <<fresh, known, cookie, pc>>
      PROVE  FreshUnsent'
  BY <1>7
<1>8. QED
  BY <1>1, <1>2, <1>3, <1>5, <1>6, <1>7
     DEF Next, Refresh, Expire, vars, rowVars, callVars, historyVars

\* A call that is replacing a token goes on doing so while nothing of it changes.
LEMMA ReplacingKept ==
  ASSUME NEW d \in Call, NEW b \in Browser, NEW k \in Token, Replacing(d, b, k), TypeOK,
         pc'[d] = pc[d], sent'[d] = sent[d], fresh'[d] = fresh[d],
         \A j \in Token : family'[j] = family[j]
  PROVE  Replacing(d, b, k)'
<1>1. pc[d] = "answer" => fresh[d] \in Token
  BY DEF TypeOK
<1>2. QED  BY <1>1 DEF Replacing

\* Every step leaves a marked token of a browser with the call that replaces it.
LEMMA ReplacedStep ==
  ASSUME TypeOK, RefreshTokensAssumption, OneBrowser, FreshUnsent, Replaced, [Next]_vars
  PROVE  Replaced'
<1>0. /\ pc \in [Call -> {"idle", "select", "mark", "insert", "revoke", "answer"}]
      /\ cookie \in [Browser -> Token \union {0}] /\ fresh \in [Call -> Token \union {0}]
      /\ sent \in [Call -> Token \union {0}]
      /\ used \subseteq known /\ known \subseteq Token /\ 0 \notin Token
      /\ \A c \in Call : BrowserOf[c] \in Browser
  BY DEF TypeOK, Token, RefreshTokensAssumption
<1>1. ASSUME NEW c \in Call, Login(c) \/ RefreshInsert(c)
      PROVE  Replaced'
  <2>1. PICK f \in Nat :
          /\ pc[c] = "idle" \/ (pc[c] = "insert" /\ f = family[sent[c]])
          /\ \A k \in Token : family'[k] = family[k]
          /\ family'[Len(family) + 1] = f
          /\ fresh' = [fresh EXCEPT ![c] = Len(family) + 1]
          /\ pc' = [pc EXCEPT ![c] = "answer"]
          /\ UNCHANGED <<used, cookie, sent, replayed, cut>>
    BY <1>1, IssueEffect
  <2>2. fresh'[c] = Len(family) + 1 /\ pc'[c] = "answer"
    BY <1>0, <2>1
  <2>3. \A d \in Call \ {c} : pc'[d] = pc[d] /\ fresh'[d] = fresh[d]
    BY <1>0, <2>1
  <2>4. ASSUME NEW b \in Browser, cookie[b] \in used, family[cookie[b]] \notin replayed \union cut
        PROVE  \E d \in Call : Replacing(d, b, cookie[b])'
    <3>1. cookie[b] \in Token
      BY <1>0, <2>4
    <3>2. PICK d \in Call : Replacing(d, b, cookie[b])
      BY <2>4 DEF Replaced
    <3>3. CASE d # c
      BY <2>1, <2>3, <3>1, <3>2, <3>3, ReplacingKept
    <3>4. CASE d = c
      <4>1. pc[c] = "insert" /\ f = family[cookie[b]]
        BY <2>1, <3>2, <3>4 DEF Replacing
      <4>2. QED  BY <2>1, <2>2, <3>1, <3>2, <3>4, <4>1 DEF Replacing
    <3>5. QED  BY <3>3, <3>4
  <2>5. \A b \in Browser : cookie[b] \in used => family'[cookie[b]] = family[cookie[b]]
    BY <1>0, <2>1
  <2>6. QED  BY <2>1, <2>4, <2>5 DEF Replaced
<1>2. ASSUME NEW c \in Call, Answer(c)
      PROVE  Replaced'
  <2>1. /\ pc' = [pc EXCEPT ![c] = "idle"] /\ pc[c] = "answer"
        /\ cookie' = [cookie EXCEPT ![BrowserOf[c]] = fresh[c]]
        /\ UNCHANGED <<fresh, sent, used, family, replayed, cut>>
    BY <1>2 DEF Answer, Goto, rowVars, historyVars
  <2>2. ASSUME NEW b \in Browser, cookie'[b] \in used, family[cookie'[b]] \notin replayed \union cut
        PROVE  \E d \in Call : Replacing(d, b, cookie[b])'
    <3>1. b # BrowserOf[c]
      BY <1>0, <2>1, <2>2 DEF FreshUnsent
    <3>2. cookie'[b] = cookie[b] /\ cookie[b] \in Token
      BY <1>0, <2>1, <2>2, <3>1
    <3>3. PICK d \in Call : Replacing(d, b, cookie[b])
      BY <2>2, <3>2 DEF Replaced
    <3>4. pc'[d] = pc[d]
      BY <1>0, <2>1, <3>1, <3>3 DEF Replacing
    <3>5. QED  BY <2>1, <3>2, <3>3, <3>4, ReplacingKept
  <2>3. QED  BY <2>1, <2>2 DEF Replaced
<1>3. ASSUME NEW c \in Call, RefreshMark(c)
      PROVE  Replaced'
  <2>1. /\ pc' = [pc EXCEPT ![c] = "insert"] /\ pc[c] = "mark"
        /\ used' = used \union ({sent[c]} \intersect present)
        /\ UNCHANGED <<fresh, sent, cookie, family, replayed, cut>>
    BY <1>3 DEF RefreshMark, Goto, historyVars
  <2>2. sent[c] \in Token /\ HeldBy(sent[c], BrowserOf[c])
    BY <2>1, Carried DEF HeldBy, InRefresh
  <2>3. ASSUME NEW b \in Browser, cookie[b] \in used', family[cookie[b]] \notin replayed \union cut
        PROVE  \E d \in Call : Replacing(d, b, cookie[b])'
    <3>1. CASE cookie[b] = sent[c]
      <4>1. b = BrowserOf[c]
        BY <1>0, <2>2, <3>1 DEF OneBrowser, HeldBy
      <4>2. pc'[c] = "insert" /\ sent'[c] = sent[c]
        BY <1>0, <2>1
      <4>3. QED  BY <2>1, <3>1, <4>1, <4>2 DEF Replacing
    <3>2. CASE cookie[b] \in used
      <4>1. PICK d \in Call : Replacing(d, b, cookie[b])
        BY <2>3, <3>2 DEF Replaced
      <4>2. pc'[d] = pc[d]
        BY <1>0, <2>1, <4>1 DEF Replacing
      <4>3. QED  BY <1>0, <2>1, <3>2, <4>1, <4>2, ReplacingKept
    <3>3. QED  BY <2>1, <2>3, <3>1, <3>2
  <2>4. QED  BY <2>1, <2>3 DEF Replaced
<1>4. ASSUME NEW c \in Call, CallFails(c)
      PROVE  Replaced'
  <2>1. /\ pc' = [pc EXCEPT ![c] = "idle"]
        /\ cut' = cut \union (IF pc[c] = "insert" THEN {family[sent[c]]}
                              ELSE IF pc[c] = "answer" THEN {family[fresh[c]]} ELSE {})
        /\ UNCHANGED <<fresh, sent, cookie, used, family, replayed>>
    BY <1>4 DEF CallFails, Goto, rowVars
  <2>2. ASSUME NEW b \in Browser, cookie[b] \in used, family[cookie[b]] \notin replayed \union cut'
        PROVE  \E d \in Call : Replacing(d, b, cookie[b])'
    <3>1. PICK d \in Call : Replacing(d, b, cookie[b])
      BY <2>1, <2>2 DEF Replaced
    <3>2. d # c
      BY <2>1, <2>2, <3>1 DEF Replacing
    <3>3. pc'[d] = pc[d]
      BY <1>0, <2>1, <3>2
    <3>4. QED  BY <1>0, <2>1, <2>2, <3>1, <3>3, ReplacingKept
  <2>3. QED  BY <2>1, <2>2 DEF Replaced
<1>5. ASSUME UNCHANGED <<used, family, cut, fresh>>, replayed \subseteq replayed',
             \A b \in Browser : cookie'[b] \in {cookie[b], 0},
             \A d \in Call : pc[d] \in {"insert", "answer"} => pc'[d] = pc[d] /\ sent'[d] = sent[d]
      PROVE  Replaced'
  <2>1. ASSUME NEW b \in Browser, cookie'[b] \in used, family[cookie'[b]] \notin replayed' \union cut
        PROVE  \E d \in Call : Replacing(d, b, cookie[b])'
    <3>1. cookie'[b] = cookie[b] /\ cookie[b] \in Token
      BY <1>0, <1>5, <2>1
    <3>2. PICK d \in Call : Replacing(d, b, cookie[b])
      BY <1>5, <2>1, <3>1 DEF Replaced
    <3>3. pc'[d] = pc[d] /\ sent'[d] = sent[d]
      BY <1>5, <3>2 DEF Replacing
    <3>4. QED  BY <1>5, <3>1, <3>2, <3>3, ReplacingKept
  <2>2. QED  BY <1>5, <2>1 DEF Replaced
<1>6. ASSUME NEW c \in Call, RefreshSend(c)
      PROVE  Replaced'
  <2>1. /\ pc[c] = "idle" /\ pc' = [pc EXCEPT ![c] = "select"]
        /\ sent' = [sent EXCEPT ![c] = cookie[BrowserOf[c]]]
        /\ UNCHANGED <<used, family, cut, fresh, cookie>> /\ replayed \subseteq replayed'
    BY <1>6 DEF RefreshSend, Goto, rowVars
  <2>2. \A d \in Call : pc[d] \in {"insert", "answer"} => pc'[d] = pc[d] /\ sent'[d] = sent[d]
    BY <1>0, <2>1
  <2>3. QED  BY <1>5, <2>1, <2>2
<1>7. ASSUME NEW c \in Call, RefreshSelect(c) \/ RefreshRevoke(c)
      PROVE  Replaced'
  <2>1. /\ pc[c] \in {"select", "revoke"} /\ pc' = [pc EXCEPT ![c] = pc'[c]]
        /\ UNCHANGED <<used, family, cut, fresh, cookie, sent, replayed>>
    BY <1>0, <1>7 DEF RefreshSelect, RefreshRevoke, Goto, rowVars, historyVars
  <2>2. \A d \in Call : pc[d] \in {"insert", "answer"} => pc'[d] = pc[d]
    BY <1>0, <2>1
  <2>3. QED  BY <1>5, <2>1, <2>2
<1>8. ASSUME NEW b \in Browser, Logout(b)
      PROVE  Replaced'
  <2>1. /\ UNCHANGED <<used, family, cut, fresh, pc, sent, replayed>>
        /\ \A o \in Browser : cookie'[o] \in {cookie[o], 0}
    BY <1>0, <1>8 DEF Logout, rowVars, callVars, historyVars
  <2>2. QED  BY <1>5, <2>1
<1>9. ASSUME UNCHANGED <<used, family, cut, fresh, pc, sent, replayed, cookie>>
      PROVE  Replaced'
  BY <1>5, <1>9
<1>10. QED
  BY <1>1, <1>2, <1>3, <1>4, <1>6, <1>7, <1>8, <1>9
     DEF Next, Refresh, Expire, vars, rowVars, callVars, historyVars

-----------------------------------------------------------------------------
(* The theorems.                                                           *)

\* The inductive invariant holds before anyone signs in.
LEMMA InitIInv ==
  ASSUME Init, RefreshTokensAssumption
  PROVE  IInv
<1>1. Token = {}
  BY EmptySeq DEF Init, Token
<1>2. TypeOK
  BY TypeInit
<1>3. RowsKept /\ OneCarrier /\ OneLiveToken /\ NoneWhileIssuing /\ Closed
  BY <1>1 DEF Init, RowsKept, OneCarrier, InRefresh, OneLiveToken, NoneWhileIssuing, Closed
<1>4. OneBrowser /\ LoneFresh
  BY <1>1 DEF Init, OneBrowser, LoneFresh
<1>5. FreshUnsent /\ Replaced
  BY <1>1 DEF Init, FreshUnsent, Replaced
<1>6. QED  BY <1>2, <1>3, <1>4, <1>5 DEF IInv

\* The conjunction of types, rows, carriers, empty families, holders, unsent tokens and tokens
\* being replaced is preserved by every statement, answer and failure.
THEOREM TokensInductive == Spec => []IInv
<1>1. Init => IInv
  BY RefreshTokensAssumption, InitIInv
<1>2. IInv /\ [Next]_vars => IInv'
  BY RefreshTokensAssumption, TypeStep, RowsStep, CarrierStep, LiveStep, ClosedStep, FreshStep,
     UnsentStep, ReplacedStep DEF IInv
<1>3. QED  BY <1>1, <1>2, PTL DEF Spec

\* Rotation never leaves two usable tokens in a family of which no token was sent
\* used or by two calls at once (refresh marks before it inserts).
THEOREM TokensRotate == Spec => []OneLiveToken
<1>1. IInv => OneLiveToken
  BY DEF IInv
<1>2. QED  BY <1>1, TokensInductive, PTL

\* A browser whose family was not replayed, and lost no answer after a token was
\* marked, has a token that can be used, or a call of it is about to bring one.
THEOREM TokensKeptSession == Spec => []SessionKept
<1>1. IInv => SessionKept
  <2> SUFFICES ASSUME IInv, NEW b \in Browser, cookie[b] # 0,
                      family[cookie[b]] \notin replayed \union cut, cookie[b] \notin present \ used
               PROVE  \E c \in Call :
                        /\ BrowserOf[c] = b /\ sent[c] = cookie[b]
                        /\ \/ pc[c] = "insert"
                           \/ /\ pc[c] = "answer" /\ family[fresh[c]] = family[cookie[b]]
                              /\ fresh[c] \in present \ used
    BY DEF SessionKept
  <2>1. cookie[b] \in Token
    BY DEF IInv, TypeOK
  <2>2. cookie[b] \in used
    BY <2>1 DEF IInv, RowsKept
  <2>3. PICK c \in Call : Replacing(c, b, cookie[b])
    BY <2>2 DEF IInv, Replaced
  <2>4. CASE pc[c] = "insert"
    BY <2>3, <2>4 DEF Replacing
  <2>5. CASE pc[c] = "answer" /\ family[fresh[c]] = family[cookie[b]]
    <3>1. fresh[c] \in Token /\ fresh[c] \notin used
      BY <2>5 DEF IInv, TypeOK, FreshUnsent
    <3>2. fresh[c] \in present
      BY <2>5, <3>1 DEF IInv, RowsKept
    <3>3. QED  BY <2>3, <2>5, <3>1, <3>2 DEF Replacing
  <2>6. QED  BY <2>3, <2>4, <2>5 DEF Replacing
<1>2. QED  BY <1>1, TokensInductive, PTL

\* A family revoked while no other refresh of it was rotating has no row again.
THEOREM TokensStayRevoked == Spec => []RevokedStaysClosed
<1>1. IInv => RevokedStaysClosed
  BY DEF IInv, Closed, RevokedStaysClosed, Family
<1>2. QED  BY <1>1, TokensInductive, PTL

\* A browser that makes one call at a time never replays while nothing is lost,
\* whatever other browsers do.
THEOREM TokensNoFalseReplay == Spec => []NoFalseReplay
<1>1. IInv => NoFalseReplay
  BY DEF IInv, LoneFresh, NoFalseReplay
<1>2. QED  BY <1>1, TokensInductive, PTL
=============================================================================
