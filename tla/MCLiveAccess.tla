---------------------------- MODULE MCLiveAccess ----------------------------
(* LiveAccess for TLC, from the state in which an earlier request has made *)
(* a user an editor: the next request may already update or revoke a row.  *)
EXTENDS LiveAccess

CONSTANTS
  Earlier,      \* a request that was served before
  Collaborator  \* the user it was about

MCInit ==
  /\ holder = [i \in Request |-> IF i = Earlier THEN Collaborator ELSE NoUser]
  /\ role = [i \in Request |-> IF i = Earlier THEN "editor" ELSE "none"]
  /\ deleted = FALSE
  /\ qpc = [q \in Request |-> IF q = Earlier THEN "done" ELSE "idle"]
  /\ quser = [q \in Request |-> IF q = Earlier THEN Collaborator ELSE NoUser]
  /\ qrole = [q \in Request |-> IF q = Earlier THEN "editor" ELSE "none"]
  /\ qrow = [q \in Request |-> q]
  /\ channel = <<>> /\ link = FALSE /\ losses = 0
  /\ spc = [s \in Session |-> "idle"]
  /\ suser = [s \in Session |-> NoUser]
  /\ srole = [s \in Session |-> "none"]
  /\ excused = {}

MCFairSpec == MCInit /\ [][Next]_vars /\ Fairness
=============================================================================
