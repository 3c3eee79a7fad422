--------------------------- MODULE RevRegIndexState ---------------------------
(***************************************************************************)
(* What the index bookkeeping of one revocation registry promises (the     *)
(* RegistryIndexState of spec.md section 2, with sections 4.2 and 4.3),    *)
(* stated without processes, sessions or retries.                          *)
(*                                                                         *)
(*   - current, the highest index allocated, only moves up by one and      *)
(*     never past the capacity;                                            *)
(*   - an index is delivered in a credential at most once, and only after *)
(*     it was allocated (an allocated index may also never be delivered:   *)
(*     the deliberate skip of section 4.2);                                *)
(*   - the revoked set only grows, and a batch revoked at once contains    *)
(*     only allocated indices that were not yet revoked.                   *)
(*                                                                         *)
(* The detailed model RevRegIndex implements this specification under the  *)
(* mapping current <- curr_id, delivered <- the indices of the credentials *)
(* returned, revoked <- used_ids.                                          *)
(***************************************************************************)
EXTENDS Naturals

CONSTANTS
    MaxCapacity,      \* the registry's maximum credential capacity
    InitialIndices    \* the values current may start at

VARIABLES
    current,    \* current highest-allocated index
    delivered,  \* indices handed out in a credential
    revoked     \* the revoked set

indexVars == <<current, delivered, revoked>>

(* The indices a revocation batch may contain. *)
Revocable == (1..current) \ revoked

Init ==
    /\ current \in InitialIndices
    /\ delivered \subseteq 1..current
    /\ revoked = {}

(* allocate_index: the next index, if within capacity. *)
Allocate ==
    /\ current < MaxCapacity
    /\ current' = current + 1
    /\ UNCHANGED <<delivered, revoked>>

(* An allocated index is handed out, once. *)
Deliver(x) ==
    /\ x \in (1..current) \ delivered
    /\ delivered' = delivered \cup {x}
    /\ UNCHANGED <<current, revoked>>

(* A non-empty batch of revocable indices is revoked together. *)
Revoke(batch) ==
    /\ batch # {}
    /\ batch \subseteq Revocable
    /\ revoked' = revoked \cup batch
    /\ UNCHANGED <<current, delivered>>

Next ==
    \/ Allocate
    \/ \E x \in 1..MaxCapacity : Deliver(x)
    \/ \E batch \in SUBSET (1..MaxCapacity) : Revoke(batch)

Spec == Init /\ [][Next]_indexVars
=============================================================================
