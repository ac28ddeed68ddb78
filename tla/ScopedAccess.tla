---------------------------- MODULE ScopedAccess ----------------------------
(***************************************************************************)
(* What the session of a request promises.  It works in transactions.  A   *)
(* transaction acts in one schema from its first statement to its last.    *)
(* The first one acts in the schema of the request's tenant, if it has     *)
(* one; the later ones act in any, and no later one counts as the first    *)
(* before the session is over.                                             *)
(***************************************************************************)
CONSTANTS Requests, Schemas, Nowhere
VARIABLES
    home,   \* the schema of each request's tenant, or Nowhere
    turn,   \* the transaction it is at, or none: "idle", "first" or "later"
    where,  \* the schema of its open transaction, or Nowhere
    act     \* the statement just made: by whom and where

vars == <<home, turn, where, act>>
None == <<>>

Init ==
    /\ home = [r \in Requests |-> Nowhere] /\ where = [r \in Requests |-> Nowhere]
    /\ turn = [r \in Requests |-> "idle"] /\ act = None

Start(r) ==
    /\ turn[r] = "idle" /\ turn' = [turn EXCEPT ![r] = "first"]
    /\ \E h \in Schemas \cup {Nowhere} : home' = [home EXCEPT ![r] = h]
    /\ act' = None /\ UNCHANGED where

Open(r) ==
    /\ turn[r] # "idle" /\ where[r] = Nowhere
    /\ \E s \in Schemas :
          /\ turn[r] = "first" /\ home[r] # Nowhere => s = home[r]
          /\ where' = [where EXCEPT ![r] = s]
    /\ act' = None /\ UNCHANGED <<home, turn>>

Act(r) ==
    /\ where[r] # Nowhere /\ act' = <<r, where[r]>>
    /\ UNCHANGED <<home, turn, where>>

\* A commit or a rollback.
End(r) ==
    /\ where[r] # Nowhere /\ where' = [where EXCEPT ![r] = Nowhere]
    /\ turn' = [turn EXCEPT ![r] = "later"]
    /\ act' = None /\ UNCHANGED home

Leave(r) ==
    /\ turn[r] # "idle" /\ turn' = [turn EXCEPT ![r] = "idle"]
    /\ home' = [home EXCEPT ![r] = Nowhere] /\ where' = [where EXCEPT ![r] = Nowhere]
    /\ act' = None

\* No statement of a handler.
Quiet == act' = None /\ UNCHANGED <<home, turn, where>>

Next == Quiet \/ \E r \in Requests : Start(r) \/ Open(r) \/ Act(r) \/ End(r) \/ Leave(r)
Spec == Init /\ [][Next]_vars
=============================================================================
