---------------------------- MODULE RefreshTokens ----------------------------
(***************************************************************************)
(* The sessions of one user: rotation of refresh tokens, detection of a    *)
(* token used twice, sign-in and sign-out (AuthService in services.py and  *)
(* routes/auth.py, and the same statements in apps/api/src/auth), against  *)
(* browsers whose pages refresh on every answer 401 and on start           *)
(* (web/src/lib/api.ts, auth.ts), each call on its own.                    *)
(*                                                                         *)
(* Tokens are numbered in the order of issue, a family by its first token. *)
(* Every SQL statement is a transaction.  The access token is left out: it *)
(* lasts minutes, so a call may be answered 401 and refresh at any time.   *)
(***************************************************************************)
EXTENDS Naturals, Sequences, FiniteSets

CONSTANTS
  Browser,    \* browsers of the user, each with one set of cookies
  Call,       \* calls of api() that may be under way at once
  BrowserOf,  \* the browser a call is made in
  MaxTokens,  \* bound: tokens ever issued
  Mishaps     \* bound: lost answers, failed statements and expired tokens

ASSUME RefreshTokensAssumption ==
  /\ BrowserOf \in [Call -> Browser]
  /\ MaxTokens \in Nat
  /\ Mishaps \in Nat

VARIABLES
  family,    \* family_id of every token ever issued
  present,   \* tokens with a row in refresh_tokens
  used,      \* tokens whose row was marked
  expired,   \* tokens past expires_at
  cookie,    \* the refresh token in a browser, 0 for none
  pc,        \* the next statement of a call's refresh
  sent,      \* the token it carries
  fresh,     \* the token it has issued
  mishaps,   \* how many so far
  known,     \* history: tokens ever sent
  replayed,  \* history: families one of whose tokens was sent used, or by two calls
  cut,       \* history: families whose next token a failed call did not bring
  revoked,   \* history: families revoked
  overlapped \* history: families revoked while another refresh was rotating

rowVars == <<family, present, used, expired>>
callVars == <<pc, sent, fresh>>
historyVars == <<known, replayed, cut, revoked, overlapped>>
vars == <<rowVars, cookie, callVars, mishaps, historyVars>>

Token == 1 .. Len(family)
Family(f) == {k \in Token : family[k] = f}

Init ==
  /\ family = <<>>
  /\ present = {}
  /\ used = {}
  /\ expired = {}
  /\ cookie = [b \in Browser |-> 0]
  /\ pc = [c \in Call |-> "idle"]
  /\ sent = [c \in Call |-> 0]
  /\ fresh = [c \in Call |-> 0]
  /\ mishaps = 0
  /\ known = {}
  /\ replayed = {}
  /\ cut = {}
  /\ revoked = {}
  /\ overlapped = {}

Goto(c, label) == pc' = [pc EXCEPT ![c] = label]

-----------------------------------------------------------------------------
(* issue_tokens.                                                           *)

Issue(c, f) ==
  /\ Len(family) < MaxTokens
  /\ family' = Append(family, f)
  /\ present' = present \union {Len(family) + 1}
  /\ fresh' = [fresh EXCEPT ![c] = Len(family) + 1]
  /\ Goto(c, "answer")
  /\ UNCHANGED <<used, expired, cookie, sent, mishaps, historyVars>>

\* register, login and the Google callback start a family.
Login(c) ==
  /\ pc[c] = "idle"
  /\ Issue(c, Len(family) + 1)

\* Mutant: only the access token is set.
AnswerKeepingCookie(c) ==
  /\ pc[c] = "answer"
  /\ Goto(c, "idle")
  /\ cookie' = [cookie EXCEPT ![BrowserOf[c]] = IF @ = 0 THEN fresh[c] ELSE @]
  /\ UNCHANGED <<rowVars, sent, fresh, mishaps, historyVars>>

\* The answer sets the cookies of the browser.
Answer(c) ==
  /\ pc[c] = "answer"
  /\ Goto(c, "idle")
  /\ cookie' = [cookie EXCEPT ![BrowserOf[c]] = fresh[c]]
  /\ UNCHANGED <<rowVars, sent, fresh, mishaps, historyVars>>

\* logout clears them and leaves refresh_tokens alone.
Logout(b) ==
  /\ cookie[b] # 0
  /\ cookie' = [cookie EXCEPT ![b] = 0]
  /\ UNCHANGED <<rowVars, callVars, mishaps, historyVars>>

-----------------------------------------------------------------------------
(* refresh.                                                                *)

InRefresh(c) == pc[c] \in {"select", "mark", "insert", "revoke"}

\* tryRefreshToken: the request carries the cookie of this moment.
RefreshSend(c) ==
  LET k == cookie[BrowserOf[c]]
  IN  /\ pc[c] = "idle"
      /\ k # 0
      /\ Goto(c, "select")
      /\ sent' = [sent EXCEPT ![c] = k]
      /\ known' = known \union {k}
      /\ replayed' = IF k \in used \/ \E d \in Call : InRefresh(d) /\ sent[d] = k
                     THEN replayed \union {family[k]} ELSE replayed
      /\ UNCHANGED <<rowVars, cookie, fresh, mishaps, cut, revoked, overlapped>>

\* The SELECT: no row or an expired one is refused, a used one is a replay.
RefreshSelect(c) ==
  /\ pc[c] = "select"
  /\ Goto(c, IF sent[c] \notin present \/ sent[c] \in expired THEN "idle"
             ELSE IF sent[c] \in used THEN "revoke" ELSE "mark")
  /\ UNCHANGED <<rowVars, cookie, sent, fresh, mishaps, historyVars>>

\* Mutant: UPDATE ... WHERE family_id.
RefreshMarkFamily(c) ==
  /\ pc[c] = "mark"
  /\ Goto(c, "insert")
  /\ used' = used \union (Family(family[sent[c]]) \intersect present)
  /\ UNCHANGED <<family, present, expired, cookie, sent, fresh, mishaps, historyVars>>

\* Mutant: the token is not marked.
RefreshMarkNothing(c) ==
  /\ pc[c] = "mark"
  /\ Goto(c, "insert")
  /\ UNCHANGED <<rowVars, cookie, sent, fresh, mishaps, historyVars>>

\* UPDATE ... WHERE id: nothing if the row is gone.
RefreshMark(c) ==
  /\ pc[c] = "mark"
  /\ Goto(c, "insert")
  /\ used' = used \union ({sent[c]} \intersect present)
  /\ UNCHANGED <<family, present, expired, cookie, sent, fresh, mishaps, historyVars>>

\* The user exists; a token of the same family is issued.
RefreshInsert(c) ==
  /\ pc[c] = "insert"
  /\ Issue(c, family[sent[c]])

\* Another refresh of family f is past its SELECT.
Rotating(c, f) ==
  \E d \in Call \ {c} : pc[d] \in {"mark", "insert"} /\ family[sent[d]] = f

\* Mutant: all rows of the user are deleted.
RefreshRevokeUser(c) ==
  /\ pc[c] = "revoke"
  /\ Goto(c, "idle")
  /\ LET f == family[sent[c]]
     IN  /\ present' = {}
         /\ revoked' = revoked \union {f}
         /\ overlapped' = IF Rotating(c, f) THEN overlapped \union {f} ELSE overlapped
  /\ UNCHANGED <<family, used, expired, cookie, sent, fresh, mishaps, known, replayed, cut>>

\* Mutant: only the row of the token is deleted.
RefreshRevokeToken(c) ==
  /\ pc[c] = "revoke"
  /\ Goto(c, "idle")
  /\ LET f == family[sent[c]]
     IN  /\ present' = present \ {sent[c]}
         /\ revoked' = revoked \union {f}
         /\ overlapped' = IF Rotating(c, f) THEN overlapped \union {f} ELSE overlapped
  /\ UNCHANGED <<family, used, expired, cookie, sent, fresh, mishaps, known, replayed, cut>>

\* A replay deletes the family and is refused; the page goes to /login.
RefreshRevoke(c) ==
  /\ pc[c] = "revoke"
  /\ Goto(c, "idle")
  /\ LET f == family[sent[c]]
     IN  /\ present' = present \ Family(f)
         /\ revoked' = revoked \union {f}
         /\ overlapped' = IF Rotating(c, f) THEN overlapped \union {f} ELSE overlapped
  /\ UNCHANGED <<family, used, expired, cookie, sent, fresh, mishaps, known, replayed, cut>>

-----------------------------------------------------------------------------
(* Mishaps.                                                                *)

Mishap ==
  /\ mishaps < Mishaps
  /\ mishaps' = mishaps + 1

\* A statement raises, the server dies, or the answer is lost: the page goes to
\* /login, the cookies stay.
CallFails(c) ==
  /\ Mishap
  /\ pc[c] # "idle"
  /\ Goto(c, "idle")
  /\ cut' = cut \union (IF pc[c] = "insert" THEN {family[sent[c]]}
                        ELSE IF pc[c] = "answer" THEN {family[fresh[c]]} ELSE {})
  /\ UNCHANGED <<rowVars, cookie, sent, fresh, known, replayed, revoked, overlapped>>

Expire(k) ==
  /\ Mishap
  /\ k \in present \ expired
  /\ expired' = expired \union {k}
  /\ UNCHANGED <<family, present, used, cookie, callVars, historyVars>>

Refresh(c) ==
  RefreshSend(c) \/ RefreshSelect(c) \/ RefreshMark(c) \/ RefreshInsert(c) \/ RefreshRevoke(c)

Next ==
  \/ \E c \in Call : Login(c) \/ Refresh(c) \/ Answer(c) \/ CallFails(c)
  \/ \E b \in Browser : Logout(b)
  \/ \E k \in Token : Expire(k)

Spec == Init /\ [][Next]_vars

-----------------------------------------------------------------------------
(* Properties.                                                             *)

\* A family is named by its first token, and a refresh past the SELECT carries a
\* token that was sent.
TypeOK ==
  /\ family \in Seq(Nat)
  /\ \A k \in Token : family[k] \in 1 .. k /\ family[family[k]] = family[k]
  /\ present \subseteq Token /\ used \subseteq known /\ expired \subseteq Token
  /\ known \subseteq Token
  /\ cookie \in [Browser -> Token \union {0}]
  /\ pc \in [Call -> {"idle", "select", "mark", "insert", "revoke", "answer"}]
  /\ sent \in [Call -> Token \union {0}]
  /\ fresh \in [Call -> Token \union {0}]
  /\ \A c \in Call : pc[c] \in {"select", "mark", "insert", "revoke"} => sent[c] \in known
  /\ \A c \in Call : pc[c] = "answer" => fresh[c] # 0
  /\ mishaps \in Nat

\* A family has at most one token that can still be used, unless one of its tokens
\* was sent used or by two calls at once: rotation replaces a token and never adds
\* one, through every failure.
OneLiveToken ==
  \A j, k \in present \ used :
    family[j] = family[k] /\ family[j] \notin replayed => j = k

\* The token in a browser can be used, or the call that used it is about to bring
\* one of its family that can: no replay, sign-in or sign-out elsewhere and no
\* failure ends a session.  The code ends it in two cases, named here: its token was
\* sent used or by two calls at once (`replayed`), or the call that had marked it
\* failed before its answer came (`cut`): the next refresh is then taken for a replay.
SessionKept ==
  \A b \in Browser :
    LET k == cookie[b]
    IN  k # 0 /\ family[k] \notin replayed \union cut =>
          \/ k \in present \ used
          \/ \E c \in Call :
               /\ BrowserOf[c] = b /\ sent[c] = k
               /\ \/ pc[c] = "insert"
                  \/ /\ pc[c] = "answer" /\ family[fresh[c]] = family[k]
                     /\ fresh[c] \in present \ used

\* A revoked family is gone for good, if no other refresh was between its SELECT
\* and its INSERT when it was revoked.
RevokedStaysClosed ==
  \A f \in revoked \ overlapped : Family(f) \intersect present = {}

\* README: replaying a used token revokes the entire token family.  Once it is
\* revoked no token of it has a row.
\* The code does not meet it: README, "What the documents say".
FamilyRevoked == \A f \in revoked : Family(f) \intersect present = {}

\* At most one call at a time is made in browser b.
Lone(b) == \A c, d \in Call : BrowserOf[c] = b /\ BrowserOf[d] = b => c = d

\* A browser that makes one call at a time, with nothing lost so far, never has
\* a token to send that was sent before, whatever calls, sign-ins and replays of
\* other browsers do: reuse detection never ends the session of such a user.
NoFalseReplay ==
  mishaps = 0 =>
    \A c \in Call : Lone(BrowserOf[c]) /\ pc[c] = "idle" => cookie[BrowserOf[c]] \notin known
=============================================================================
