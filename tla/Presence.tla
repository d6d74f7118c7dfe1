------------------------------ MODULE Presence ------------------------------
(***************************************************************************)
(* Who is online in one document: the awareness state each editor page     *)
(* sets, the provider that connects it (src/apps/web/src), the avatars the *)
(* other pages show, and the hash the sync server keeps in Redis           *)
(* (src/apps/sync-server/src/extensions/redis.ts).                         *)
(*                                                                         *)
(* An awareness state is abstracted to the fields of its `user` object,    *)
(* {} when it has none.  Hocuspocus and Yjs are external: the server       *)
(* broadcasts the states of its connections, drops that of a connection    *)
(* that closes, and calls onAwarenessUpdate with all of them.              *)
(***************************************************************************)
EXTENDS Naturals, FiniteSets

CONSTANTS
  Client,    \* editor pages; each has a client id of its own
  User,      \* users
  UserOf,    \* the user of a page
  Handler,   \* bound: onAwarenessUpdate calls under way at once
  MaxErrors, \* bound: errors of Redis and crashes of the sync server
  MaxRetries \* bound: connections that fail to authenticate or drop

ASSUME PresenceAssumption ==
  /\ UserOf \in [Client -> User]
  /\ Client \intersect User = {}
  /\ MaxErrors \in Nat /\ MaxRetries \in Nat

VARIABLES
  ws,      \* the provider of a page: "none", "connecting", "retry", "refused", "up",
           \* "left" when it is destroyed, "stray" when its socket is open all the same
  timer,   \* the pages one of whose retry timers runs
  me,      \* the awareness state of a page
  view,    \* the states of other pages a page knows
  aware,   \* the server's awareness: the states of its connections
  hash,    \* the fields of presence:<document> in Redis
  ttl,     \* it has an expiry
  pubUp,   \* the `pub` client is connected
  ready,   \* `ready` of the extension
  hpc,     \* where each onAwarenessUpdate is: "idle", "hset" or "expire"
  todo,    \* the states it has still to write
  errors,  \* errors so far
  retries, \* failed connections so far
  subErred \* history: `ready` was cleared last by an error of the `sub` client

pageVars == <<ws, timer, me, view>>
redisVars == <<hash, ttl, pubUp, ready, subErred>>
handlerVars == <<hpc, todo>>
vars == <<pageVars, aware, redisVars, handlerVars, errors, retries>>

NoStates == [c \in {} |-> {}]
Without(states, c) == [d \in DOMAIN states \ {c} |-> states[d]]
With(states, c, s) == [d \in DOMAIN states \union {c} |-> IF d = c THEN s ELSE states[d]]

Init ==
  /\ ws = [c \in Client |-> "none"]
  /\ timer = {}
  /\ me = [c \in Client |-> {}]
  /\ view = [c \in Client |-> NoStates]
  /\ aware = NoStates
  /\ hash = {} /\ ttl = FALSE
  /\ pubUp = FALSE /\ ready = FALSE /\ subErred = FALSE
  /\ hpc = [h \in Handler |-> "idle"]
  /\ todo = [h \in Handler |-> NoStates]
  /\ errors = 0 /\ retries = 0

\* The page of c was left.
Gone(c) == ws[c] \in {"left", "stray"}

-----------------------------------------------------------------------------
(* RedisPresenceExtension.                                                 *)

\* Mutant: the field is the user's id, as the deletion expects.
EntryKeyUser(c, state) == UserOf[c]

\* The field an awareness state is written to: user.userId, else userId, else
\* the client id.
EntryKey(c, state) == IF "userId" \in state THEN UserOf[c] ELSE c

\* onAwarenessUpdate is called with all states; `ready` is looked at once.
StartUpdate(states) ==
  \/ ready = FALSE /\ UNCHANGED handlerVars
  \/ /\ ready
     /\ \E h \in Handler :
          /\ hpc[h] = "idle"
          /\ hpc' = [hpc EXCEPT ![h] = IF states = NoStates THEN "idle" ELSE "hset"]
          /\ todo' = [todo EXCEPT ![h] = states]

\* HSET for the next state.
HandlerHSet(h) ==
  /\ hpc[h] = "hset" /\ pubUp
  /\ \E c \in DOMAIN todo[h] :
       /\ hash' = hash \union {EntryKey(c, todo[h][c])}
       /\ todo' = [todo EXCEPT ![h] = Without(@, c)]
  /\ hpc' = [hpc EXCEPT ![h] = "expire"]
  /\ UNCHANGED <<pageVars, aware, ttl, pubUp, ready, subErred, errors, retries>>

\* Mutant: the expiry is not set.
HandlerExpireNever(h) ==
  /\ hpc[h] = "expire" /\ pubUp
  /\ hpc' = [hpc EXCEPT ![h] = IF todo[h] = NoStates THEN "idle" ELSE "hset"]
  /\ UNCHANGED <<pageVars, aware, redisVars, todo, errors, retries>>

\* EXPIRE of the whole hash; after the last state the update is published, which
\* no server acts on.
HandlerExpire(h) ==
  /\ hpc[h] = "expire" /\ pubUp
  /\ ttl' = TRUE
  /\ hpc' = [hpc EXCEPT ![h] = IF todo[h] = NoStates THEN "idle" ELSE "hset"]
  /\ UNCHANGED <<pageVars, aware, hash, pubUp, ready, subErred, todo, errors, retries>>

\* A command raises: the rest of the update is dropped.
HandlerRaises(h) ==
  /\ hpc[h] # "idle"
  /\ \/ ~pubUp /\ UNCHANGED errors
     \/ pubUp /\ errors < MaxErrors /\ errors' = errors + 1
  /\ hpc' = [hpc EXCEPT ![h] = "idle"]
  /\ todo' = [todo EXCEPT ![h] = NoStates]
  /\ UNCHANGED <<pageVars, aware, redisVars, retries>>

\* The connection of a page closes: its state goes, onDisconnect deletes the
\* field of its user, and the awareness update is written like any other.
OnDisconnect(c) ==
  /\ aware' = Without(aware, c)
  /\ hash' = IF ready THEN hash \ {UserOf[c]} ELSE hash
  /\ StartUpdate(aware')
  /\ UNCHANGED <<ttl, pubUp, ready, subErred>>

\* `pub` is connected, at the start or again.
OnReady ==
  /\ ~pubUp
  /\ pubUp' = TRUE /\ ready' = TRUE /\ subErred' = FALSE
  /\ UNCHANGED <<pageVars, aware, hash, ttl, handlerVars, errors, retries>>

\* An error of either client clears `ready`; only `pub` is listened to for the
\* end of it, and loses its connection here only by an error of its own.
OnError ==
  /\ errors < MaxErrors
  /\ errors' = errors + 1
  /\ ready' = FALSE
  /\ \/ pubUp' = FALSE /\ UNCHANGED subErred
     \/ subErred' = TRUE /\ UNCHANGED pubUp
  /\ UNCHANGED <<pageVars, aware, hash, ttl, handlerVars, retries>>

\* Redis drops the hash: nobody has refreshed it for presenceTtl.
HashExpires ==
  /\ ttl
  /\ ~ready \/ \A c \in Client : ws[c] # "up"
  /\ \A h \in Handler : hpc[h] = "idle" \/ ~pubUp
  /\ hash' = {} /\ ttl' = FALSE
  /\ UNCHANGED <<pageVars, aware, pubUp, ready, subErred, handlerVars, errors, retries>>

\* The sync server dies and starts again.
Crash ==
  /\ errors < MaxErrors
  /\ errors' = errors + 1
  /\ ws' = [c \in Client |-> IF ws[c] = "up" THEN "connecting" ELSE ws[c]]
  /\ view' = [c \in Client |-> NoStates]
  /\ aware' = NoStates
  /\ pubUp' = FALSE /\ ready' = FALSE /\ subErred' = FALSE
  /\ hpc' = [h \in Handler |-> "idle"]
  /\ todo' = [h \in Handler |-> NoStates]
  /\ UNCHANGED <<timer, me, hash, ttl, retries>>

-----------------------------------------------------------------------------
(* The editor page and its provider.                                       *)

\* The effect of the page sets the user with its id; the cursor extension sets
\* one without when the editor is made, before or after.
OpenPage(c) ==
  /\ ws[c] = "none"
  /\ ws' = [ws EXCEPT ![c] = "connecting"]
  /\ \E fields \in {{"id", "name", "color"}, {"name", "color"}} :
       me' = [me EXCEPT ![c] = fields]
  /\ UNCHANGED <<timer, view, aware, redisVars, handlerVars, errors, retries>>

\* useEditor makes a new editor when canEditDocument changes.
RecreateEditor(c) ==
  /\ ws[c] # "none" /\ ~Gone(c)
  /\ me' = [me EXCEPT ![c] = {"name", "color"}]
  /\ UNCHANGED <<ws, timer, view, aware, redisVars, handlerVars, errors, retries>>

\* shouldRetryAuth: a token may be renewed, a permission is not waited for.
ShouldRetryAuth(reason) == reason # "permission"

\* The provider connects and is let in.
Connect(c) ==
  /\ ws[c] = "connecting"
  /\ ws' = [ws EXCEPT ![c] = "up"]
  /\ UNCHANGED <<timer, me, view, aware, redisVars, handlerVars, errors, retries>>

\* onAuthenticationFailed: a timer connects again, or nothing is done.
AuthenticationFails(c) ==
  /\ ws[c] = "connecting" /\ retries < MaxRetries
  /\ retries' = retries + 1
  /\ \E reason \in {"token", "permission"} :
       /\ ws' = [ws EXCEPT ![c] = IF ShouldRetryAuth(reason) THEN "retry" ELSE "refused"]
       /\ timer' = IF ShouldRetryAuth(reason) THEN timer \union {c} ELSE timer
  /\ UNCHANGED <<me, view, aware, redisVars, handlerVars, errors>>

\* Mutant: the timer connects the provider of the document, made again if need be.
RetryTimerRevives(c) ==
  /\ c \in timer
  /\ timer' = timer \ {c}
  /\ ws' = [ws EXCEPT ![c] = "connecting"]
  /\ UNCHANGED <<me, view, aware, redisVars, handlerVars, errors, retries>>

\* The timer runs out and calls connect().  destroyProvider does not clear it:
\* that of a page that was left opens the socket again.
RetryTimer(c) ==
  /\ c \in timer
  /\ timer' = timer \ {c}
  /\ ws' = [ws EXCEPT ![c] = IF @ = "left" THEN "stray" ELSE "connecting"]
  /\ UNCHANGED <<me, view, aware, redisVars, handlerVars, errors, retries>>

\* A destroyed provider listens to its socket no more and authenticates nothing:
\* the server gives such a connection up, or dies.
StrayCloses(c) ==
  /\ ws[c] = "stray"
  /\ ws' = [ws EXCEPT ![c] = "left"]
  /\ UNCHANGED <<timer, me, view, aware, redisVars, handlerVars, errors, retries>>

\* The socket closes; the provider connects again.
Drop(c) ==
  /\ ws[c] = "up" /\ retries < MaxRetries
  /\ retries' = retries + 1
  /\ ws' = [ws EXCEPT ![c] = "connecting"]
  /\ view' = [view EXCEPT ![c] = NoStates]
  /\ OnDisconnect(c)
  /\ UNCHANGED <<timer, me, errors>>

\* destroyProvider, when the page is left or its permission changes; a retry
\* timer runs on.
DestroyProvider(c) ==
  /\ ws[c] # "none" /\ ~Gone(c)
  /\ ws' = [ws EXCEPT ![c] = "left"]
  /\ view' = [view EXCEPT ![c] = NoStates]
  /\ IF ws[c] = "up" THEN OnDisconnect(c) ELSE UNCHANGED <<aware, redisVars, handlerVars>>
  /\ UNCHANGED <<timer, me, errors, retries>>

\* The page sends its state when it changes and every few seconds.
SetLocalState(c) ==
  /\ ws[c] = "up"
  /\ aware' = With(aware, c, me[c])
  /\ StartUpdate(aware')
  /\ UNCHANGED <<pageVars, redisVars, errors, retries>>

\* The server's broadcast arrives.
Broadcast(c) ==
  /\ ws[c] = "up"
  /\ view' = [view EXCEPT ![c] = Without(aware, c)]
  /\ UNCHANGED <<ws, timer, me, aware, redisVars, handlerVars, errors, retries>>

\* updateUsers: every state with a user is shown but those with the id of the
\* page's own user.
Users(c) ==
  LET states == With(view[c], c, me[c])
  IN {d \in DOMAIN states :
        /\ states[d] # {}
        /\ ~("id" \in states[d] /\ UserOf[d] = UserOf[c])}

Write(h) == HandlerHSet(h) \/ HandlerExpire(h) \/ (~pubUp /\ HandlerRaises(h))

Next ==
  \/ \E c \in Client :
       \/ OpenPage(c) \/ RecreateEditor(c) \/ Connect(c) \/ AuthenticationFails(c)
       \/ RetryTimer(c) \/ StrayCloses(c) \/ Drop(c) \/ DestroyProvider(c) \/ SetLocalState(c) \/ Broadcast(c)
  \/ \E h \in Handler : HandlerHSet(h) \/ HandlerExpire(h) \/ HandlerRaises(h)
  \/ OnReady \/ OnError \/ HashExpires \/ Crash

\* Providers reconnect, states are sent again and again (SF: handlers are
\* bounded here), Redis comes back within retryStrategy's attempts and keeps its
\* clock.
Fairness ==
  /\ \A c \in Client :
       /\ WF_vars(Connect(c)) /\ WF_vars(RetryTimer(c))
       /\ SF_vars(SetLocalState(c)) /\ WF_vars(Broadcast(c))
  /\ \A h \in Handler : WF_vars(Write(h))
  /\ WF_vars(OnReady) /\ WF_vars(HashExpires)

Spec == Init /\ [][Next]_vars /\ Fairness

-----------------------------------------------------------------------------
States == UNION {[S -> SUBSET {"id", "name", "color"}] : S \in SUBSET Client}

\* The fields of the hash are client ids, never user ids.
TypeOK ==
  /\ ws \in [Client -> {"none", "connecting", "retry", "refused", "up", "left", "stray"}]
  /\ timer \subseteq Client
  /\ me \in [Client -> SUBSET {"id", "name", "color"}]
  /\ aware \in States /\ view \in [Client -> States] /\ todo \in [Handler -> States]
  /\ hash \subseteq Client
  /\ {ttl, pubUp, ready, subErred} \subseteq BOOLEAN
  /\ hpc \in [Handler -> {"idle", "hset", "expire"}]
  /\ errors \in 0 .. MaxErrors /\ retries \in 0 .. MaxRetries

(* A page that is left disappears from the avatars of every other page for *)
(* good, whatever a retry timer that outlives it does (websocket.ts:56),   *)
(* and pages of different users that stay connected come to show each      *)
(* other, over dropped connections, failed authentications and crashes.    *)
AvatarsSettle ==
  \A c, d \in Client :
    /\ <>Gone(d) => <>[](d \notin Users(c) \/ c = d)
    /\ UserOf[c] # UserOf[d] /\ <>[](ws[c] = "up" /\ ws[d] = "up") => <>[](d \in Users(c))

(* The hash follows the pages in the end, whatever handlers were still     *)
(* writing.  A page that stays connected is in it for good, except after   *)
(* an error of the subscribing client: no one sets `ready` again.  When    *)
(* everyone has left it goes; only an error between HSET and EXPIRE leaves *)
(* a hash that never expires.                                              *)
HashFollowsPages ==
  /\ \A c \in Client : <>[](ws[c] = "up") => <>[](c \in hash \/ (~ready /\ subErred))
  /\ (\A c \in Client : Gone(c)) ~> hash = {} \/ (~ttl /\ errors > 0)

(* redis.ts:109 says of onDisconnect: "When a client disconnects, remove   *)
(* their presence entry from Redis."                                       *)
(* The code does not meet it: README, "What the documents say".            *)
EntryRemoved ==
  \A c \in Client :
    Gone(c) /\ ready /\ (\A h \in Handler : hpc[h] = "idle") => c \notin hash
=============================================================================
