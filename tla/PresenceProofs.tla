--------------------------- MODULE PresenceProofs ---------------------------
(***************************************************************************)
(* Proof that the hash of Presence names pages and never users, for any    *)
(* number of pages, users and calls under way.  The fields are written     *)
(* with the id of the page because no state that is set has a userId, and  *)
(* nothing on the way from a page to the hash adds one.                    *)
(***************************************************************************)
EXTENDS Presence, TLAPS

Fields == {"id", "name", "color"}

\* A map of states has states of pages, without a userId.
LEMMA StatesOf ==
  ASSUME NEW s
  PROVE  s \in States <=>
           /\ DOMAIN s \subseteq Client
           /\ s = [d \in DOMAIN s |-> s[d]]
           /\ \A d \in DOMAIN s : s[d] \in SUBSET Fields
<1>1. ASSUME s \in States
      PROVE  /\ DOMAIN s \subseteq Client
             /\ s = [d \in DOMAIN s |-> s[d]]
             /\ \A d \in DOMAIN s : s[d] \in SUBSET Fields
  <2>1. PICK S \in SUBSET Client : s \in [S -> SUBSET Fields]
    BY <1>1 DEF States, Fields
  <2>. QED  BY <2>1
<1>2. ASSUME DOMAIN s \subseteq Client, s = [d \in DOMAIN s |-> s[d]],
             \A d \in DOMAIN s : s[d] \in SUBSET Fields
      PROVE  s \in States
  <2>1. s \in [DOMAIN s -> SUBSET Fields]
    BY <1>2
  <2>. QED  BY <1>2, <2>1 DEF States, Fields
<1>. QED  BY <1>1, <1>2

\* There are no states at the start and after a crash.
LEMMA NoStatesTyped == NoStates \in States
<1>1. /\ DOMAIN NoStates \subseteq Client
      /\ NoStates = [d \in DOMAIN NoStates |-> NoStates[d]]
      /\ \A d \in DOMAIN NoStates : NoStates[d] \in SUBSET Fields
  BY DEF NoStates
<1>. QED  BY <1>1, StatesOf

\* A state that goes leaves the others as they are.
LEMMA WithoutTyped ==
  ASSUME NEW s \in States, NEW c
  PROVE  Without(s, c) \in States
<1>1. /\ DOMAIN Without(s, c) = DOMAIN s \ {c}
      /\ \A d \in DOMAIN s \ {c} : Without(s, c)[d] = s[d]
      /\ Without(s, c) = [d \in DOMAIN Without(s, c) |-> Without(s, c)[d]]
  BY DEF Without
<1>. QED  BY <1>1, StatesOf

\* A page's state is set among the others.
LEMMA WithTyped ==
  ASSUME NEW s \in States, NEW c \in Client, NEW f \in SUBSET Fields
  PROVE  With(s, c, f) \in States
<1>1. /\ DOMAIN With(s, c, f) = DOMAIN s \union {c}
      /\ \A d \in DOMAIN s \union {c} :
           With(s, c, f)[d] = IF d = c THEN f ELSE s[d]
      /\ With(s, c, f) = [d \in DOMAIN With(s, c, f) |-> With(s, c, f)[d]]
  BY DEF With
<1>. QED  BY <1>1, StatesOf

\* The field of a state is the id of its page.
LEMMA FieldIsClient ==
  ASSUME NEW s \in States, NEW c \in DOMAIN s
  PROVE  EntryKey(c, s[c]) = c /\ c \in Client
<1>1. s[c] \in SUBSET Fields /\ c \in Client
  BY StatesOf
<1>2. "userId" \notin s[c]
  BY <1>1 DEF Fields
<1>. QED  BY <1>1, <1>2 DEF EntryKey

\* A call of onAwarenessUpdate has states that are typed.
LEMMA StartUpdateTyped ==
  ASSUME TypeOK, NEW s \in States, StartUpdate(s)
  PROVE  todo' \in [Handler -> States] /\ hpc' \in [Handler -> {"idle", "hset", "expire"}]
<1>1. CASE UNCHANGED handlerVars
  BY <1>1 DEF TypeOK, handlerVars
<1>2. ASSUME NEW h \in Handler,
             hpc' = [hpc EXCEPT ![h] = IF s = NoStates THEN "idle" ELSE "hset"],
             todo' = [todo EXCEPT ![h] = s]
      PROVE  todo' \in [Handler -> States] /\ hpc' \in [Handler -> {"idle", "hset", "expire"}]
  BY <1>2 DEF TypeOK
<1>. QED  BY <1>1, <1>2 DEF StartUpdate

\* A connection that closes takes a state and perhaps a field, and adds none.
LEMMA OnDisconnectTyped ==
  ASSUME TypeOK, NEW c \in Client, OnDisconnect(c)
  PROVE  /\ aware' \in States /\ hash' \subseteq Client
         /\ todo' \in [Handler -> States]
         /\ hpc' \in [Handler -> {"idle", "hset", "expire"}]
         /\ {ttl, pubUp, ready, subErred}' \subseteq BOOLEAN
<1>1. aware' \in States
  BY WithoutTyped DEF OnDisconnect, TypeOK
<1>2. hash' \subseteq Client
  BY DEF OnDisconnect, TypeOK
<1>3. StartUpdate(aware')
  BY DEF OnDisconnect
<1>4. {ttl, pubUp, ready, subErred}' \subseteq BOOLEAN
  BY DEF OnDisconnect, TypeOK
<1>. QED  BY <1>1, <1>2, <1>3, <1>4, StartUpdateTyped

\* The user of a page and its connection.
LEMMA PageTyped ==
  ASSUME TypeOK, NEW c \in Client,
         \/ OpenPage(c) \/ RecreateEditor(c) \/ Connect(c) \/ AuthenticationFails(c)
         \/ RetryTimer(c) \/ StrayCloses(c) \/ Drop(c) \/ DestroyProvider(c) \/ SetLocalState(c) \/ Broadcast(c)
  PROVE  TypeOK'
<1>1. CASE OpenPage(c)
  BY <1>1 DEF OpenPage, TypeOK, redisVars, handlerVars
<1>2. CASE RecreateEditor(c)
  BY <1>2 DEF RecreateEditor, TypeOK, redisVars, handlerVars
<1>3. CASE Connect(c)
  BY <1>3 DEF Connect, TypeOK, redisVars, handlerVars
<1>4. CASE AuthenticationFails(c)
  <2>1. ws' \in [Client -> {"none", "connecting", "retry", "refused", "up", "left", "stray"}]
    BY <1>4 DEF AuthenticationFails, TypeOK
  <2>2. retries' \in 0 .. MaxRetries
    BY <1>4, PresenceAssumption DEF AuthenticationFails, TypeOK
  <2>3. timer' \subseteq Client
    BY <1>4 DEF AuthenticationFails, TypeOK
  <2>. QED  BY <1>4, <2>1, <2>2, <2>3 DEF AuthenticationFails, TypeOK, redisVars, handlerVars
<1>5. CASE RetryTimer(c)
  BY <1>5 DEF RetryTimer, TypeOK, redisVars, handlerVars
<1>6. CASE Drop(c)
  <2>1. /\ ws' \in [Client -> {"none", "connecting", "retry", "refused", "up", "left", "stray"}]
        /\ view' \in [Client -> States]
    BY <1>6, NoStatesTyped DEF Drop, TypeOK
  <2>2. retries' \in 0 .. MaxRetries
    BY <1>6, PresenceAssumption DEF Drop, TypeOK
  <2>3. OnDisconnect(c) /\ UNCHANGED <<timer, me, errors>>
    BY <1>6 DEF Drop
  <2>. QED  BY <2>1, <2>2, <2>3, OnDisconnectTyped DEF TypeOK
<1>7. CASE DestroyProvider(c)
  <2>1. /\ ws' \in [Client -> {"none", "connecting", "retry", "refused", "up", "left", "stray"}]
        /\ view' \in [Client -> States]
        /\ UNCHANGED <<timer, me, errors, retries>>
    BY <1>7, NoStatesTyped DEF DestroyProvider, TypeOK
  <2>2. CASE OnDisconnect(c)
    BY <2>1, <2>2, OnDisconnectTyped DEF TypeOK
  <2>3. CASE UNCHANGED <<aware, redisVars, handlerVars>>
    BY <2>1, <2>3 DEF TypeOK, redisVars, handlerVars
  <2>. QED  BY <1>7, <2>2, <2>3 DEF DestroyProvider
<1>8. CASE SetLocalState(c)
  <2>1. me[c] \in SUBSET Fields /\ aware \in States
    BY DEF TypeOK, Fields
  <2>2. aware' \in States /\ StartUpdate(aware')
    BY <1>8, <2>1, WithTyped DEF SetLocalState
  <2>. QED  BY <1>8, <2>2, StartUpdateTyped DEF SetLocalState, TypeOK, pageVars, redisVars
<1>9. CASE Broadcast(c)
  <2>1. Without(aware, c) \in States
    BY WithoutTyped DEF TypeOK
  <2>. QED  BY <1>9, <2>1 DEF Broadcast, TypeOK, redisVars, handlerVars
<1>10. CASE StrayCloses(c)
  BY <1>10 DEF StrayCloses, TypeOK, redisVars, handlerVars
<1>. QED  BY <1>1, <1>2, <1>3, <1>4, <1>5, <1>6, <1>7, <1>8, <1>9, <1>10

\* A call under way: what it writes was set by a page.
LEMMA HandlerTyped ==
  ASSUME TypeOK, NEW h \in Handler,
         HandlerHSet(h) \/ HandlerExpire(h) \/ HandlerRaises(h)
  PROVE  TypeOK'
<1>1. CASE HandlerHSet(h)
  <2>1. PICK c \in DOMAIN todo[h] :
          /\ hash' = hash \union {EntryKey(c, todo[h][c])}
          /\ todo' = [todo EXCEPT ![h] = Without(@, c)]
    BY <1>1 DEF HandlerHSet
  <2>2. todo[h] \in States
    BY DEF TypeOK
  <2>3. hash' \subseteq Client
    BY <2>1, <2>2, FieldIsClient DEF TypeOK
  <2>4. todo' \in [Handler -> States]
    BY <2>1, <2>2, WithoutTyped DEF TypeOK
  <2>. QED  BY <1>1, <2>3, <2>4 DEF HandlerHSet, TypeOK, pageVars
<1>2. CASE HandlerExpire(h)
  BY <1>2 DEF HandlerExpire, TypeOK, pageVars
<1>3. CASE HandlerRaises(h)
  <2>1. errors' \in 0 .. MaxErrors
    BY <1>3, PresenceAssumption DEF HandlerRaises, TypeOK
  <2>2. todo' \in [Handler -> States]
    BY <1>3, NoStatesTyped DEF HandlerRaises, TypeOK
  <2>. QED  BY <1>3, <2>1, <2>2 DEF HandlerRaises, TypeOK, pageVars, redisVars
<1>. QED  BY <1>1, <1>2, <1>3

\* The clients of Redis, its clock, and the death of the sync server.
LEMMA RedisTyped ==
  ASSUME TypeOK, OnReady \/ OnError \/ HashExpires \/ Crash
  PROVE  TypeOK'
<1>1. CASE OnReady
  BY <1>1 DEF OnReady, TypeOK, pageVars, handlerVars
<1>2. CASE OnError
  <2>1. errors' \in 0 .. MaxErrors
    BY <1>2, PresenceAssumption DEF OnError, TypeOK
  <2>. QED  BY <1>2, <2>1 DEF OnError, TypeOK, pageVars, handlerVars
<1>3. CASE HashExpires
  BY <1>3 DEF HashExpires, TypeOK, pageVars, handlerVars
<1>4. CASE Crash
  <2>1. errors' \in 0 .. MaxErrors
    BY <1>4, PresenceAssumption DEF Crash, TypeOK
  <2>2. /\ view' \in [Client -> States] /\ aware' \in States /\ todo' \in [Handler -> States]
        /\ ws' \in [Client -> {"none", "connecting", "retry", "refused", "up", "left", "stray"}]
    BY <1>4, NoStatesTyped DEF Crash, TypeOK
  <2>. QED  BY <1>4, <2>1, <2>2 DEF Crash, TypeOK
<1>. QED  BY <1>1, <1>2, <1>3, <1>4

(* The fields of the hash are ids of pages, whatever pages set their       *)
(* states, however calls of onAwarenessUpdate interleave and however Redis *)
(* and the server fail: the deletion by a user's id meets none of them.    *)
THEOREM PresenceTypeCorrect == Spec => []TypeOK
<1>1. Init => TypeOK
  <2>. SUFFICES ASSUME Init PROVE TypeOK
    OBVIOUS
  <2>2. errors = 0 /\ retries = 0
    BY DEF Init
  <2>3. errors \in 0 .. MaxErrors /\ retries \in 0 .. MaxRetries
    BY <2>2, PresenceAssumption
  <2>. QED  BY <2>3, NoStatesTyped DEF Init, TypeOK
<1>2. TypeOK /\ [Next]_vars => TypeOK'
  <2>1. CASE UNCHANGED vars
    BY <2>1 DEF vars, pageVars, redisVars, handlerVars, TypeOK
  <2>. QED  BY <2>1, PageTyped, HandlerTyped, RedisTyped DEF Next
<1>. QED  BY <1>1, <1>2, PTL DEF Spec
=============================================================================
