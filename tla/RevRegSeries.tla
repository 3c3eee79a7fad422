----------------------------- MODULE RevRegSeries -----------------------------
(***************************************************************************)
(* What the registry lifecycle promises (spec.md section 2, RegistryDefi-  *)
(* nition, and section 4.1), stated without workers, handler tasks or      *)
(* restarts.  The registries of one credential definition form a series:  *)
(*                                                                         *)
(*   - a registry is created in state init, either as a fresh one or as   *)
(*     the successor of a full registry that has none yet (mark_full       *)
(*     triggers create_registry once);                                     *)
(*   - its state then moves init -> posted -> active -> full, one stage a  *)
(*     time;                                                               *)
(*   - it becomes posted only once its definition is stored, and active   *)
(*     only once its status list is stored.                                *)
(*                                                                         *)
(* RevRegLifecycle implements it with every variable mapped to itself:    *)
(* the workers, the handler tasks and the restarts are hidden.             *)
(***************************************************************************)
EXTENDS Naturals

CONSTANTS
    MaxRecs,       \* the number of registries the series may reach
    InitialRecs    \* how many registries may be active at the start

VARIABLES
    recState,   \* the state of each registry, "none" if not created
    nRecs,      \* registries created so far (ids 1..nRecs)
    pred,       \* the full registry each one succeeds, 0 if none
    defs,       \* registries whose definition is stored
    lists       \* registries whose status list is stored

seriesVars == <<recState, nRecs, pred, defs, lists>>

Ids == 1..MaxRecs

(* A full registry nobody has succeeded yet. *)
Unsucceeded(p) == recState[p] = "full" /\ \A s \in 1..nRecs : pred[s] # p

Init ==
    /\ nRecs \in InitialRecs
    /\ recState = [r \in Ids |-> IF r <= nRecs THEN "active" ELSE "none"]
    /\ pred = [r \in Ids |-> 0]
    /\ defs = 1..nRecs
    /\ lists = 1..nRecs

(* create_registry: a fresh registry (p = 0) or the successor of p. *)
Create(p) ==
    /\ nRecs < MaxRecs
    /\ p = 0 \/ Unsucceeded(p)
    /\ nRecs' = nRecs + 1
    /\ recState' = [recState EXCEPT ![nRecs + 1] = "init"]
    /\ pred' = [pred EXCEPT ![nRecs + 1] = p]
    /\ UNCHANGED <<defs, lists>>

(* The definition of an init registry is generated and stored. *)
StoreDefinition(r) ==
    /\ recState[r] = "init"
    /\ defs' = defs \cup {r}
    /\ UNCHANGED <<recState, nRecs, pred, lists>>

(* A registry whose definition is stored becomes posted. *)
Post(r) ==
    /\ recState[r] = "init"
    /\ r \in defs
    /\ recState' = [recState EXCEPT ![r] = "posted"]
    /\ UNCHANGED <<nRecs, pred, defs, lists>>

(* The status list of a posted registry is stored. *)
StoreList(r) ==
    /\ recState[r] = "posted"
    /\ lists' = lists \cup {r}
    /\ UNCHANGED <<recState, nRecs, pred, defs>>

(* A posted registry whose status list is stored becomes active. *)
Activate(r) ==
    /\ recState[r] = "posted"
    /\ r \in lists
    /\ recState' = [recState EXCEPT ![r] = "active"]
    /\ UNCHANGED <<nRecs, pred, defs, lists>>

(* mark_full: an active registry becomes full. *)
MarkFull(r) ==
    /\ recState[r] = "active"
    /\ recState' = [recState EXCEPT ![r] = "full"]
    /\ UNCHANGED <<nRecs, pred, defs, lists>>

Next ==
    \/ \E p \in 0..MaxRecs : Create(p)
    \/ \E r \in Ids :
         StoreDefinition(r) \/ Post(r) \/ StoreList(r) \/ Activate(r)
           \/ MarkFull(r)

Spec == Init /\ [][Next]_seriesVars
=============================================================================
