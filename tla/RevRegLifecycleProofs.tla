------------------------ MODULE RevRegLifecycleProofs ------------------------
(***************************************************************************)
(* Proofs about RevRegLifecycle for every number of workers, records and   *)
(* restarts: a saved registry record is never ahead of the rows in the     *)
(* store, and handle_full_registry creates at most one successor for a    *)
(* registry.                                                               *)
(***************************************************************************)
EXTENDS RevRegLifecycle, FiniteSetTheorems, TLAPS

(***************************************************************************)
(* The inductive invariant.  Neither property is inductive by itself.      *)
(* RecordBackedByStore needs what each stage of a record's handler task    *)
(* has already written (HandlerShape), so that the save at the next stage *)
(* finds its rows.  AtMostOneSuccessor needs that only a full registry has *)
(* a successor or a worker about to create one (full is never left), so    *)
(* that handle_full_registry, which requires the registry active, cannot  *)
(* start a second one; and that a worker between the save and the notify *)
(* of init_issuer_registry holds a fresh init record no handler has yet.  *)
(***************************************************************************)
Fresh ==
    \A r \in Ids : r > nRecs =>
        recState[r] = "none" /\ gen[r] = "none" /\ pred[r] = 0

HandlerShape ==
    \A r \in Ids :
        /\ gen[r] = "pending" => recState[r] = "init"
        /\ gen[r] = "save" => recState[r] = "init" /\ r \in defs
        /\ gen[r] = "list" => recState[r] = "posted" /\ r \in defs
        /\ gen[r] = "listsave" =>
               recState[r] = "posted" /\ r \in defs /\ r \in lists

NotifyShape ==
    /\ \A w \in Workers : wpc[w] = "notify" =>
           /\ wrec[w] \in 1..nRecs
           /\ recState[wrec[w]] = "init"
           /\ gen[wrec[w]] = "none"
    /\ \A w, v \in Workers :
           w # v /\ wpc[w] = "notify" /\ wpc[v] = "notify" => wrec[w] # wrec[v]

(* A worker about to create the successor of registry r (r # 0). *)
Creating(w, r) == wpc[w] = "init" /\ wrec[w] = r /\ r # 0

SuccessorShape ==
    /\ \A s \in 1..nRecs : pred[s] # 0 => recState[pred[s]] = "full"
    /\ \A w \in Workers : Creating(w, wrec[w]) => recState[wrec[w]] = "full"
    /\ \A s, t \in 1..nRecs : pred[s] = pred[t] /\ pred[s] # 0 => s = t
    /\ \A w, v \in Workers : Creating(w, wrec[w]) /\ Creating(v, wrec[w]) => w = v
    /\ \A w \in Workers, s \in 1..nRecs : Creating(w, wrec[w]) => pred[s] # wrec[w]

LInv ==
    /\ TypeOK
    /\ Fresh
    /\ HandlerShape
    /\ NotifyShape
    /\ SuccessorShape
    /\ RecordBackedByStore

USE ConstantsAssumption

LEMMA InitLInv == Init => LInv
  <1> SUFFICES ASSUME Init PROVE LInv
    OBVIOUS
  <1>1. nRecs \in 0..MaxRecs
    BY DEF Init
  <1>2. TypeOK
    BY <1>1 DEF Init, TypeOK, Ids, RecStates, GenStates
  <1>3. Fresh /\ HandlerShape /\ NotifyShape
    BY <1>1 DEF Init, Fresh, HandlerShape, NotifyShape, Ids
  <1>4. SuccessorShape
    BY <1>1 DEF Init, SuccessorShape, Creating, Ids
  <1>5. RecordBackedByStore
    BY <1>1 DEF Init, RecordBackedByStore, Ids
  <1>6. QED
    BY <1>2, <1>3, <1>4, <1>5 DEF LInv

-----------------------------------------------------------------------------
(* One case per action of a worker. *)
LEMMA WorkerStepLInv ==
    ASSUME LInv, NEW w \in Workers, WorkerStep(w)
    PROVE  LInv'
  <1> USE DEF LInv, TypeOK, Fresh, HandlerShape, NotifyShape, SuccessorShape,
              Creating, RecordBackedByStore, Ids, RecStates, GenStates,
              storeVars
  <1>1. CASE InitSave(w)
    BY <1>1 DEF InitSave
  <1>2. CASE InitEndorserFails(w)
    BY <1>2 DEF InitEndorserFails
  <1>3. CASE InitNotify(w)
    BY <1>3 DEF InitNotify
  <1>4. CASE \E r \in 1..nRecs : HandleFullNoop(w, r)
    BY <1>4 DEF HandleFullNoop
  <1>5. CASE \E r \in 1..nRecs : HandleFull(w, r)
    <2>1. PICK r \in 1..nRecs : HandleFull(w, r)
      BY <1>5
    <2>2. /\ \A s \in 1..nRecs : pred[s] # r
          /\ \A v \in Workers : ~Creating(v, r)
      BY <2>1 DEF HandleFull
    <2>3. (TypeOK /\ Fresh /\ HandlerShape /\ NotifyShape)'
      BY <2>1 DEF HandleFull
    <2>4. SuccessorShape'
      BY <2>1, <2>2 DEF HandleFull
    <2>5. RecordBackedByStore'
      BY <2>1 DEF HandleFull
    <2>6. QED
      BY <2>3, <2>4, <2>5
  <1>6. CASE GetActive(w)
    <2>1. PICK r \in Active : wrec' = [wrec EXCEPT ![w] = r]
      BY <1>6 DEF GetActive
    <2>2. r \in 0..MaxRecs
      BY DEF Active
    <2>3. QED
      BY <1>6, <2>1, <2>2 DEF GetActive
  <1>7. CASE GetActiveNone(w)
    BY <1>7 DEF GetActiveNone
  <1>10. CASE QueryPending(w)
    BY <1>10 DEF QueryPending
  <1>11. CASE QueryCreateTypeError(w)
    BY <1>11 DEF QueryCreateTypeError
  <1>8. CASE QueryCreate(w)
    BY <1>8 DEF QueryCreate
  <1>9. QED
    BY <1>1, <1>2, <1>3, <1>4, <1>5, <1>6, <1>7, <1>8, <1>10, <1>11
       DEF WorkerStep

(* One case per stage of a record's init-event handler task. *)
LEMMA HandlerStepLInv ==
    ASSUME LInv, NEW r \in Ids, HandlerStep(r)
    PROVE  LInv'
  <1> USE DEF LInv, TypeOK, Fresh, HandlerShape, NotifyShape, SuccessorShape,
              Creating, RecordBackedByStore, Ids, RecStates, GenStates
  <1>1. CASE GenStore(r)
    BY <1>1 DEF GenStore
  <1>2. CASE GenSave(r)
    BY <1>2 DEF GenSave
  <1>3. CASE ListStore(r)
    BY <1>3 DEF ListStore
  <1>4. CASE ListSave(r)
    BY <1>4 DEF ListSave
  <1>5. QED
    BY <1>1, <1>2, <1>3, <1>4 DEF HandlerStep

LEMMA RestartLInv == LInv /\ Restart => LInv'
  BY DEF LInv, TypeOK, Fresh, HandlerShape, NotifyShape, SuccessorShape,
         Creating, RecordBackedByStore, Ids, RecStates, GenStates, storeVars,
         Restart

LEMMA NextLInv == LInv /\ [Next]_vars => LInv'
  <1> SUFFICES ASSUME LInv, [Next]_vars PROVE LInv'
    OBVIOUS
  <1>1. CASE \E w \in Workers : WorkerStep(w)
    BY <1>1, WorkerStepLInv
  <1>2. CASE \E r \in Ids : HandlerStep(r)
    BY <1>2, HandlerStepLInv
  <1>3. CASE Restart
    BY <1>3, RestartLInv
  <1>4. CASE Terminated \/ UNCHANGED vars
    <2>1. UNCHANGED vars
      BY <1>4 DEF Terminated
    <2>2. QED
      BY <2>1 DEF vars, LInv, TypeOK, Fresh, HandlerShape, NotifyShape,
                  SuccessorShape, Creating, RecordBackedByStore
  <1>5. QED
    BY <1>1, <1>2, <1>3, <1>4 DEF Next

(* The inductive invariant holds in every reachable state. *)
THEOREM LInvariant == Spec => []LInv
  BY InitLInv, NextLInv, PTL DEF Spec

(* A set whose elements are all equal has at most one of them. *)
LEMMA AtMostOneElement ==
    ASSUME NEW S, \A x, y \in S : x = y
    PROVE  IsFiniteSet(S) /\ Cardinality(S) \in 0..1
  <1>1. CASE S = {}
    BY <1>1, FS_EmptySet
  <1>2. CASE S # {}
    <2>1. PICK x \in S : TRUE
      BY <1>2
    <2>2. S = {x}
      BY <2>1
    <2>3. IsFiniteSet({x}) /\ Cardinality({x}) = 1
      BY FS_Singleton
    <2>4. QED
      BY <2>2, <2>3
  <1>3. QED
    BY <1>1, <1>2

(* The count AtMostOneSuccessor bounds, from the shape of the successors. *)
LEMMA SuccessorCount == LInv => AtMostOneSuccessor
  <1> SUFFICES ASSUME LInv, NEW r \in Ids
               PROVE  Cardinality({s \in 1..nRecs : pred[s] = r})
                        + Cardinality({w \in Workers : wpc[w] = "init" /\ wrec[w] = r})
                        <= 1
    BY DEF AtMostOneSuccessor
  <1> DEFINE Succ == {s \in 1..nRecs : pred[s] = r}
             Crt == {w \in Workers : wpc[w] = "init" /\ wrec[w] = r}
  <1>1. r # 0
    BY DEF Ids
  <1>2. IsFiniteSet(Succ) /\ Cardinality(Succ) \in 0..1
    <2>1. \A s, t \in Succ : s = t
      BY <1>1 DEF LInv, SuccessorShape
    <2>2. QED
      BY <2>1, AtMostOneElement
  <1>3. IsFiniteSet(Crt) /\ Cardinality(Crt) \in 0..1
    <2>1. \A w, v \in Crt : w = v
      BY <1>1 DEF LInv, SuccessorShape, Creating
    <2>2. QED
      BY <2>1, AtMostOneElement
  <1>4. Succ = {} \/ Crt = {}
    BY <1>1 DEF LInv, SuccessorShape, Creating
  <1>5. QED
    BY <1>2, <1>3, <1>4, FS_EmptySet

(* A registry record saved as posted, active or full always has the        *)
(* definition rows, and one saved active or full its status list row, in   *)
(* every run with any number of workers and restarts: the handler task of *)
(* create_and_register_revocation_registry_definition and                 *)
(* create_and_register_revocation_list writes the rows before it saves    *)
(* the record.                                                             *)
THEOREM RecordBacked == Spec => []RecordBackedByStore
  BY LInvariant, PTL DEF LInv

(* handle_full_registry creates at most one successor for each registry,  *)
(* for any number of concurrent callers, records and restarts.             *)
THEOREM SingleSuccessor == Spec => []AtMostOneSuccessor
  BY LInvariant, SuccessorCount, PTL

(* Every variable of the lifecycle keeps the type the code gives it.       *)
THEOREM LifecycleTypeCorrect == Spec => []TypeOK
  BY LInvariant, PTL DEF LInv

-----------------------------------------------------------------------------
(***************************************************************************)
(* Refinement of RevRegSeries.  Every variable of the series is mapped to *)
(* itself, so a step maps to the series action that changes the same      *)
(* store variable: InitSave is Create of the worker's predecessor, which   *)
(* SuccessorShape shows is 0 or a full registry without successor;        *)
(* HandleFull is MarkFull; the four handler stages are StoreDefinition,    *)
(* Post, StoreList and Activate, HandlerShape giving the state and the    *)
(* stored rows each needs.  Every other step leaves the store unchanged.  *)
(***************************************************************************)
LEMMA InitRefinesSeries == Init => Series!Init
  BY DEF Init, Series!Init, Ids, Series!Ids

LEMMA StepRefinesSeries == LInv /\ [Next]_vars => [Series!Next]_storeVars
  <1> SUFFICES ASSUME LInv, [Next]_vars PROVE [Series!Next]_storeVars
    OBVIOUS
  <1> USE DEF LInv, TypeOK, HandlerShape, SuccessorShape, Creating, Ids,
              storeVars
  <1>1. ASSUME NEW w \in Workers, InitSave(w) PROVE Series!Next
    <2>1. wrec[w] \in 0..MaxRecs
      BY <1>1 DEF InitSave
    <2>2. wrec[w] = 0 \/ Series!Unsucceeded(wrec[w])
      BY <1>1 DEF InitSave, Series!Unsucceeded
    <2>3. Series!Create(wrec[w])
      BY <1>1, <2>2 DEF InitSave, Series!Create
    <2>4. QED
      BY <2>1, <2>3 DEF Series!Next
  <1>2. ASSUME NEW w \in Workers, NEW r \in 1..nRecs, HandleFull(w, r)
        PROVE  Series!Next
    <2>1. r \in Series!Ids
      BY DEF Series!Ids
    <2>2. QED
      BY <1>2, <2>1 DEF HandleFull, Series!MarkFull, Series!Next
  <1>3. ASSUME NEW w \in Workers, WorkerStep(w),
               ~InitSave(w), ~\E r \in 1..nRecs : HandleFull(w, r)
        PROVE  UNCHANGED storeVars
    BY <1>3 DEF WorkerStep, InitEndorserFails, InitNotify, HandleFullNoop,
                GetActive, GetActiveNone, QueryPending, QueryCreateTypeError,
                QueryCreate
  <1>4. ASSUME NEW r \in Ids, HandlerStep(r) PROVE Series!Next
    <2>1. r \in Series!Ids
      BY DEF Series!Ids
    <2>2. CASE GenStore(r)
      BY <2>1, <2>2 DEF GenStore, Series!StoreDefinition, Series!Next
    <2>3. CASE GenSave(r)
      BY <2>1, <2>3 DEF GenSave, Series!Post, Series!Next
    <2>4. CASE ListStore(r)
      BY <2>1, <2>4 DEF ListStore, Series!StoreList, Series!Next
    <2>5. CASE ListSave(r)
      BY <2>1, <2>5 DEF ListSave, Series!Activate, Series!Next
    <2>6. QED
      BY <1>4, <2>2, <2>3, <2>4, <2>5 DEF HandlerStep
  <1>5. CASE Restart \/ Terminated \/ UNCHANGED vars
    BY <1>5 DEF Restart, Terminated, vars
  <1>6. QED
    BY <1>1, <1>2, <1>3, <1>4, <1>5 DEF Next

(* The lifecycle implements the registry series of spec.md for any number *)
(* of workers, records and restarts: a successor is created only for a    *)
(* full registry without one, and a registry is posted or active only with *)
(* its rows stored.                                                        *)
THEOREM SeriesRefinement == Spec => ImplementsSeries
  <1>1. Spec => []LInv
    BY LInvariant
  <1>2. QED
    BY <1>1, InitRefinesSeries, StepRefinesSeries, PTL
       DEF Spec, ImplementsSeries, Series!Spec, Series!seriesVars, storeVars
=============================================================================
