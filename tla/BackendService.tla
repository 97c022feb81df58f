---------------------------- MODULE BackendService ----------------------------
(***************************************************************************)
(* What a BackendManager promises the requests of one server: a request gets *)
(* the backend its manager serves at that moment and keeps it; a backend is  *)
(* served once, by one manager; it is retired only behind a closed door, and *)
(* under its users only when they have been given up.  No profiles, no       *)
(* phases of a reload, no sessions, no failures.                             *)
(***************************************************************************)
CONSTANTS Managers, Clients, Backends, None, NoUse

VARIABLES
  serving,    \* the backend of each manager, or None
  open,       \* the managers that let requests in
  user,       \* what each client uses: a manager and a backend, or NoUse
  served,     \* the backends that were ever served
  retired,    \* the served ones that have been unloaded
  abandoned   \* the ones unloaded without waiting for their users any longer

Init ==
  /\ serving = [m \in Managers |-> None] /\ open = {}
  /\ user = [c \in Clients |-> NoUse]
  /\ served = {} /\ retired = {} /\ abandoned = {}

Users(b) == {c \in Clients : user[c] # NoUse /\ user[c].be = b}

\* A backend nobody has seen before opens the door.
Serve(m, b) ==
  /\ serving[m] = None /\ b \notin served
  /\ serving' = [serving EXCEPT ![m] = b]
  /\ open' = open \cup {m} /\ served' = served \cup {b}
  /\ UNCHANGED <<user, retired, abandoned>>

Close(m) ==
  /\ m \in open
  /\ open' = open \ {m}
  /\ UNCHANGED <<serving, user, served, retired, abandoned>>

\* Its users have left, or are given up.
Retire(m) ==
  /\ m \notin open /\ serving[m] # None
  /\ serving' = [serving EXCEPT ![m] = None]
  /\ retired' = retired \cup {serving[m]}
  /\ \/ Users(serving[m]) = {} /\ abandoned' = abandoned
     \/ abandoned' = abandoned \cup {serving[m]}
  /\ UNCHANGED <<open, user, served>>

Enter(c, m) ==
  /\ m \in open /\ user[c] = NoUse
  /\ user' = [user EXCEPT ![c] = [kind |-> m, be |-> serving[m]]]
  /\ UNCHANGED <<serving, open, served, retired, abandoned>>

Leave(c) ==
  /\ user[c] # NoUse
  /\ user' = [user EXCEPT ![c] = NoUse]
  /\ UNCHANGED <<serving, open, served, retired, abandoned>>

Next ==
  \/ \E m \in Managers, b \in Backends : Serve(m, b)
  \/ \E m \in Managers : Close(m) \/ Retire(m)
  \/ \E c \in Clients, m \in Managers : Enter(c, m)
  \/ \E c \in Clients : Leave(c)

Spec == Init /\ [][Next]_<<serving, open, user, served, retired, abandoned>>
=============================================================================
