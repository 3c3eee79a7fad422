-------------------------- MODULE RevRegLifecycle ---------------------------
(***************************************************************************)
(* The life of the revocation registries of one credential definition:    *)
(* AnonCredsRevocation.init_issuer_registry, handle_full_registry and      *)
(* get_or_create_active_registry (revocation/anoncreds.py), and           *)
(* AnonCredsIssuer.create_and_register_revocation_registry_definition and *)
(* create_and_register_revocation_list (anoncreds/issuer.py).             *)
(*                                                                         *)
(* Registry records are numbered in creation order, so "oldest" is the    *)
(* least number.  A record's id doubles as its rev_reg_def_id, since the   *)
(* definition's tag is the record id.  Workers run handle_full_registry    *)
(* and get_or_create_active_registry; every init event gets its own        *)
(* handler task that generates the definition and then its status list.   *)
(* An agent restart loses every in-memory task and pending event and       *)
(* keeps the store and the saved records.                                  *)
(***************************************************************************)
EXTENDS Naturals, FiniteSets

CONSTANTS
    Workers,          \* concurrent callers of the registry operations
    MaxRecs,          \* bound: number of registry records that can exist
    InitialRecs,      \* how many active registries exist at the start
    MaxRestarts,      \* bound: number of agent restarts
    EndorserMayFail,  \* author role: the endorser lookup may find none (74-77)
    GetOrCreateAsIs   \* TRUE: the call at line 169 as written (TypeError)

ASSUME ConstantsAssumption ==
    /\ MaxRecs \in Nat
    /\ InitialRecs \subseteq 0..MaxRecs
    /\ MaxRestarts \in Nat
    /\ EndorserMayFail \in BOOLEAN
    /\ GetOrCreateAsIs \in BOOLEAN

VARIABLES
    recState,  \* IssuerRevRegRecord.state of each record, "none" if unsaved
    nRecs,     \* records created so far (ids 1..nRecs)
    pred,      \* the full registry a record succeeds, 0 if none
    defs,      \* ids with REV_REG_INFO, REV_REG_DEF and PRIVATE rows
    lists,     \* ids with a REV_LIST row
    gen,       \* per record: state of its init-event handler task
    wpc,       \* per worker: where it is in its call
    wrec,      \* per worker: the record its call works on
    wout,      \* per worker: how its last call ended
    restarts

storeVars == <<recState, nRecs, pred, defs, lists>>
vars == <<recState, nRecs, pred, defs, lists, gen, wpc, wrec, wout, restarts>>

Ids == 1..MaxRecs
RecStates == {"none", "init", "posted", "active", "full"}
GenStates == {"none", "pending", "save", "list", "listsave", "done"}
Active == {r \in 1..nRecs : recState[r] = "active"}
NonFull == {r \in 1..nRecs : recState[r] # "full"}

Init ==
    /\ nRecs \in InitialRecs
    /\ recState = [r \in Ids |-> IF r <= nRecs THEN "active" ELSE "none"]
    /\ pred = [r \in Ids |-> 0]
    /\ defs = 1..nRecs
    /\ lists = 1..nRecs
    /\ gen = [r \in Ids |-> "none"]
    /\ wpc = [w \in Workers |-> "idle"]
    /\ wrec = [w \in Workers |-> 0]
    /\ wout = [w \in Workers |-> "none"]
    /\ restarts = 0

-----------------------------------------------------------------------------
(* init_issuer_registry, lines 32-87: save a new record in state init,    *)
(* then check the endorser, then notify the init event.  The successor's  *)
(* predecessor is the registry the worker was handling (0 from            *)
(* get_or_create_active_registry).                                         *)

InitSave(w) ==
    /\ wpc[w] = "init"
    /\ nRecs < MaxRecs
    /\ nRecs' = nRecs + 1
    /\ recState' = [recState EXCEPT ![nRecs + 1] = "init"]
    /\ pred' = [pred EXCEPT ![nRecs + 1] = wrec[w]]
    /\ wpc' = [wpc EXCEPT ![w] = "notify"]
    /\ wrec' = [wrec EXCEPT ![w] = nRecs + 1]
    /\ UNCHANGED <<defs, lists, gen, wout, restarts>>

InitEndorserFails(w) ==
    /\ wpc[w] = "notify"
    /\ EndorserMayFail
    /\ wpc' = [wpc EXCEPT ![w] = "idle"]
    /\ wout' = [wout EXCEPT ![w] = "error"]
    /\ UNCHANGED <<storeVars, gen, wrec, restarts>>

InitNotify(w) ==
    /\ wpc[w] = "notify"
    /\ gen' = [gen EXCEPT ![wrec[w]] = "pending"]
    /\ wpc' = [wpc EXCEPT ![w] = "idle"]
    /\ wout' = [wout EXCEPT ![w] = "created"]
    /\ UNCHANGED <<storeVars, wrec, restarts>>

-----------------------------------------------------------------------------
(* handle_full_registry, lines 89-108: under a for-update transaction,    *)
(* return if the record is already full, else mark it full and commit;    *)
(* then, outside the transaction, create the successor.  The caller       *)
(* calls it with a registry issuance found full, so active or full.       *)

HandleFullNoop(w, r) ==
    /\ wpc[w] = "idle"
    /\ recState[r] = "full"
    /\ wout' = [wout EXCEPT ![w] = "noop"]
    /\ UNCHANGED <<storeVars, gen, wpc, wrec, restarts>>

(* Mutant: the full-state check under the for-update fetch is dropped.   *)
HandleFullNoRecheck(w, r) ==
    /\ wpc[w] = "idle"
    /\ recState[r] \in {"active", "full"}
    /\ recState' = [recState EXCEPT ![r] = "full"]
    /\ wpc' = [wpc EXCEPT ![w] = "init"]
    /\ wrec' = [wrec EXCEPT ![w] = r]
    /\ UNCHANGED <<nRecs, pred, defs, lists, gen, wout, restarts>>

HandleFull(w, r) ==
    /\ wpc[w] = "idle"
    /\ recState[r] = "active"
    /\ recState' = [recState EXCEPT ![r] = "full"]
    /\ wpc' = [wpc EXCEPT ![w] = "init"]
    /\ wrec' = [wrec EXCEPT ![w] = r]
    /\ UNCHANGED <<nRecs, pred, defs, lists, gen, wout, restarts>>

-----------------------------------------------------------------------------
(* get_or_create_active_registry, lines 146-173: return the oldest active *)
(* record (get_active_issuer_rev_reg_record, lines 110-128); otherwise    *)
(* query the non-full records in a new session and, if there are none,    *)
(* create one.  As written the call at line 169 passes cred_def_id as    *)
(* issuer_id and no cred_def_id, so it raises TypeError.                  *)

GetActive(w) ==
    /\ wpc[w] = "idle"
    /\ \E r \in Active :
         /\ \A s \in Active : r <= s
         /\ wrec' = [wrec EXCEPT ![w] = r]
    /\ wout' = [wout EXCEPT ![w] = "found"]
    /\ UNCHANGED <<storeVars, gen, wpc, restarts>>

GetActiveNone(w) ==
    /\ wpc[w] = "idle"
    /\ Active = {}
    /\ wpc' = [wpc EXCEPT ![w] = "query"]
    /\ UNCHANGED <<storeVars, gen, wrec, wout, restarts>>

QueryPending(w) ==
    /\ wpc[w] = "query"
    /\ NonFull # {}
    /\ wpc' = [wpc EXCEPT ![w] = "idle"]
    /\ wout' = [wout EXCEPT ![w] = "retry"]
    /\ UNCHANGED <<storeVars, gen, wrec, restarts>>

QueryCreateTypeError(w) ==
    /\ wpc[w] = "query"
    /\ NonFull = {}
    /\ GetOrCreateAsIs
    /\ wpc' = [wpc EXCEPT ![w] = "idle"]
    /\ wout' = [wout EXCEPT ![w] = "typeerror"]
    /\ UNCHANGED <<storeVars, gen, wrec, restarts>>

QueryCreate(w) ==
    /\ wpc[w] = "query"
    /\ NonFull = {}
    /\ ~GetOrCreateAsIs
    /\ wpc' = [wpc EXCEPT ![w] = "init"]
    /\ wrec' = [wrec EXCEPT ![w] = 0]
    /\ UNCHANGED <<storeVars, gen, wout, restarts>>

-----------------------------------------------------------------------------
(* The init-event handler task of record r: generate the definition       *)
(* (issuer.py 509-628), then create its status list (714-778).            *)

(* Mutant: the rows are inserted outside the transaction that fails.    *)
GenStoreNoInsert(r) ==
    /\ gen[r] = "pending"
    /\ recState[r] = "init"
    /\ gen' = [gen EXCEPT ![r] = "save"]
    /\ UNCHANGED <<recState, nRecs, pred, defs, lists, wpc, wrec, wout, restarts>>

(* Lines 530-614: require state init (534), fetch the cred def, create   *)
(* and register the definition, then insert the REV_REG_INFO, REV_REG_DEF *)
(* and PRIVATE rows in one transaction.  Only this task moves a record    *)
(* out of init and each record gets one event, so the state check and the *)
(* duplicate-insert error cannot fail here.                               *)
GenStore(r) ==
    /\ gen[r] = "pending"
    /\ recState[r] = "init"
    /\ defs' = defs \cup {r}
    /\ gen' = [gen EXCEPT ![r] = "save"]
    /\ UNCHANGED <<recState, nRecs, pred, lists, wpc, wrec, wout, restarts>>

(* Lines 616-626: save the in-memory record, now posted.                   *)
GenSave(r) ==
    /\ gen[r] = "save"
    /\ recState' = [recState EXCEPT ![r] = "posted"]
    /\ gen' = [gen EXCEPT ![r] = "list"]
    /\ UNCHANGED <<nRecs, pred, defs, lists, wpc, wrec, wout, restarts>>

(* Lines 714-768: require state posted, fetch the definition, create and *)
(* register the list, insert the REV_LIST row in a session.               *)
ListStore(r) ==
    /\ gen[r] = "list"
    /\ recState[r] = "posted"
    /\ lists' = lists \cup {r}
    /\ gen' = [gen EXCEPT ![r] = "listsave"]
    /\ UNCHANGED <<recState, nRecs, pred, defs, wpc, wrec, wout, restarts>>

(* Mutant: the record is given the definition's state name "finished"    *)
(* (RevRegDefState) instead of IssuerRevRegRecord.STATE_ACTIVE.           *)
ListSaveFinishedState(r) ==
    /\ gen[r] = "listsave"
    /\ recState' = [recState EXCEPT ![r] = "finished"]
    /\ gen' = [gen EXCEPT ![r] = "done"]
    /\ UNCHANGED <<nRecs, pred, defs, lists, wpc, wrec, wout, restarts>>

(* Lines 770-778: the record becomes active and is saved.                  *)
ListSave(r) ==
    /\ gen[r] = "listsave"
    /\ recState' = [recState EXCEPT ![r] = "active"]
    /\ gen' = [gen EXCEPT ![r] = "done"]
    /\ UNCHANGED <<nRecs, pred, defs, lists, wpc, wrec, wout, restarts>>

-----------------------------------------------------------------------------
(* An agent restart: every task and pending event is lost; the store and  *)
(* the saved records survive.                                             *)
Restart ==
    /\ restarts < MaxRestarts
    /\ restarts' = restarts + 1
    /\ wpc' = [w \in Workers |-> "idle"]
    /\ gen' = [r \in Ids |-> IF gen[r] = "none" THEN "none" ELSE "done"]
    /\ UNCHANGED <<storeVars, wrec, wout>>

WorkerStep(w) ==
    \/ InitSave(w) \/ InitEndorserFails(w) \/ InitNotify(w)
    \/ \E r \in 1..nRecs : HandleFullNoop(w, r) \/ HandleFull(w, r)
    \/ GetActive(w) \/ GetActiveNone(w) \/ QueryPending(w)
    \/ QueryCreateTypeError(w) \/ QueryCreate(w)

HandlerStep(r) ==
    GenStore(r) \/ GenSave(r) \/ ListStore(r) \/ ListSave(r)

(* Once every record id of the bound is used the model may stop, with     *)
(* workers left waiting to create a record.                               *)
Terminated ==
    /\ nRecs = MaxRecs
    /\ UNCHANGED vars

Next ==
    \/ \E w \in Workers : WorkerStep(w)
    \/ \E r \in Ids : HandlerStep(r)
    \/ Restart
    \/ Terminated

Spec == Init /\ [][Next]_vars

-----------------------------------------------------------------------------
(***************************************************************************)
(* Refinement: the series of registries as spec.md states it              *)
(* (RevRegSeries), every variable mapped to itself; the workers, the       *)
(* handler tasks and the restarts are hidden.                              *)
(***************************************************************************)
Series == INSTANCE RevRegSeries

(* init_issuer_registry, handle_full_registry, get_or_create_active_       *)
(* registry and the init-event handler together implement the registry    *)
(* series of spec.md: a registry is created fresh or as the single         *)
(* successor of a full one, moves init, posted, active, full in order, and *)
(* is posted or active only once its definition or its status list is in *)
(* the store, whatever the interleaving and across restarts.               *)
ImplementsSeries == Series!Spec

TypeOK ==
    /\ nRecs \in 0..MaxRecs
    /\ recState \in [Ids -> RecStates]
    /\ pred \in [Ids -> 0..MaxRecs]
    /\ defs \subseteq Ids
    /\ lists \subseteq Ids
    /\ gen \in [Ids -> GenStates]
    /\ wpc \in [Workers -> {"idle", "init", "notify", "query"}]
    /\ wrec \in [Workers -> 0..MaxRecs]
    /\ wout \in [Workers -> {"none", "error", "created", "noop", "found",
                              "retry", "typeerror"}]
    /\ restarts \in 0..MaxRestarts

(* A saved record is never ahead of the store, across restarts: a record  *)
(* posted (or later) has its definition rows, and one active (or later)   *)
(* has its status list.  The code inserts the rows before it saves the    *)
(* record (issuer.py 592-626 and 761-776); a crash in between leaves rows *)
(* with a record behind them, never the reverse.                          *)
RecordBackedByStore ==
    \A r \in 1..nRecs :
        /\ recState[r] \in {"posted", "active", "full"} => r \in defs
        /\ recState[r] \in {"active", "full"} => r \in lists

(* handle_full_registry creates at most one successor for a registry,     *)
(* however many callers found it full at the same time: the for-update   *)
(* fetch and the already-full return serialise them (lines 91-99).        *)
AtMostOneSuccessor ==
    \A r \in Ids :
        Cardinality({s \in 1..nRecs : pred[s] = r})
          + Cardinality({w \in Workers : wpc[w] = "init" /\ wrec[w] = r}) <= 1

(* Spec 4.1: mark_full immediately triggers create_registry for a         *)
(* successor.  Checked with restarts: a registry marked full has a        *)
(* successor, or a worker still about to create it.                       *)
SuccessorForEveryFull ==
    \A r \in 1..nRecs :
        recState[r] = "full" =>
            \/ \E s \in 1..nRecs : pred[s] = r
            \/ \E w \in Workers : wpc[w] = "init" /\ wrec[w] = r

=============================================================================
