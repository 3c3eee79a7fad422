-------------------------- MODULE RevRegIndexProofs --------------------------
(***************************************************************************)
(* Proofs about RevRegIndex for every value of the constants: the type     *)
(* invariant, and that the status list only ever marks revoked indices     *)
(* that rev_reg_info records as revoked and that issuance had reserved.    *)
(***************************************************************************)
EXTENDS RevRegIndex, TLAPS

(***************************************************************************)
(* The inductive invariant.  StatusListSound is not inductive by itself: a *)
(* revoker commits the list it computed from an older session read, so we  *)
(* need that every list a revoker read is still covered by used_ids (used  *)
(* ids only grow), that the list it will commit is its read list plus its  *)
(* eligible indices, and that those indices were reserved when it read     *)
(* rev_reg_info.                                                           *)
(***************************************************************************)
AttemptBound ==
    \A r \in Revokers : rpc[r] # "done" => attempt[r] < MaxAttempt

OutcomeAtEnd ==
    \A r \in Revokers : rpc[r] # "done" => outcome[r] = "none"

ReservedIdx ==
    \A i \in Issuers : ipc[i] = "create" => idx[i] \in Indices

SnapsCovered ==
    \A r \in Revokers : listSnap[r] \subseteq usedIds

CommitShape ==
    \A r \in Revokers :
        rpc[r] = "commit" =>
            /\ updList[r] = listSnap[r] \cup elig[r]
            /\ elig[r] \subseteq 1..infoSnap[r].curr
            /\ elig[r] \cap infoSnap[r].used = {}
            /\ elig[r] # {}
            /\ req[r] \subseteq elig[r] \cup failed[r]

IInv ==
    /\ TypeOK
    /\ AttemptBound
    /\ OutcomeAtEnd
    /\ ReservedIdx
    /\ SnapsCovered
    /\ CommitShape
    /\ StatusListSound
    /\ RevokedWereReserved
    /\ IndexAccounting
    /\ RevokeAccountsForRequest

USE MaxCredNumAssumption, MaxAttemptAssumption, RequestSetsAssumption,
    InitialCurrIdsAssumption, RaisesAssumption

(* What the partition of lines 1043-1070 returns. *)
LEMMA PartitionFacts ==
    ASSUME NEW batch \in SUBSET Int, NEW info \in Info
    PROVE  /\ Eligible(batch, info) \subseteq Indices
           /\ Eligible(batch, info) \subseteq 1..info.curr
           /\ Rejected(batch, info) \subseteq batch
           /\ Eligible(batch, info) \cap info.used = {}
  <1>1. info.curr \in 0..MaxCredNum
    BY DEF Info
  <1>2. ASSUME NEW x \in Eligible(batch, info)
        PROVE  x \in Int /\ 1 <= x /\ x <= MaxCredNum /\ x <= info.curr
    BY DEF Eligible
  <1>3. ASSUME NEW x \in Eligible(batch, info)
        PROVE  x \in Indices /\ x \in 1..info.curr
    BY <1>1, <1>2 DEF Indices
  <1>4. Rejected(batch, info) \subseteq batch
    BY DEF Rejected
  <1>5. Eligible(batch, info) \cap info.used = {}
    BY DEF Eligible
  <1>6. QED
    BY <1>3, <1>4, <1>5

(* Every requested index is either eligible or reported failed. *)
LEMMA PartitionCovers ==
    ASSUME NEW batch, NEW info
    PROVE  batch \subseteq Eligible(batch, info) \cup Rejected(batch, info)
  BY DEF Rejected

LEMMA InitIInv == Init => IInv
  <1> SUFFICES ASSUME Init PROVE IInv
    OBVIOUS
  <1>1. currId \in 0..MaxCredNum
    BY DEF Init
  <1>2. /\ currId \in 0..MaxCredNum
        /\ usedIds \subseteq Indices
        /\ revList \subseteq Indices
        /\ ipc \in [Issuers -> {"idle", "create", "full"}]
        /\ idx \in [Issuers -> 0..MaxCredNum]
        /\ issued \subseteq Indices
        /\ skipped \subseteq Indices
    BY <1>1 DEF Init, Indices
  <1>3. /\ rpc \in [Revokers -> {"start", "readInfo", "commit", "done"}]
        /\ req \in [Revokers -> RequestSets]
        /\ attempt \in [Revokers -> 0..MaxAttempt]
        /\ listSnap \in [Revokers -> SUBSET Indices]
        /\ infoSnap \in [Revokers -> Info]
        /\ elig \in [Revokers -> SUBSET Indices]
        /\ failed \in [Revokers -> SUBSET UNION RequestSets]
    BY DEF Init, Info, NoInfo
  <1>4. /\ prevList \in [Revokers -> (SUBSET Indices) \cup {NoList}]
        /\ updList \in [Revokers -> (SUBSET Indices) \cup {NoList}]
        /\ outcome \in [Revokers -> {"none", "ok", "conflict", "crash"}]
        /\ committed \in [Revokers -> BOOLEAN]
    <2>1. NoList \in (SUBSET Indices) \cup {NoList}
      OBVIOUS
    <2>2. QED
      BY <2>1 DEF Init
  <1>5. TypeOK
    BY <1>2, <1>3, <1>4 DEF TypeOK
  <1>6. AttemptBound /\ ReservedIdx /\ SnapsCovered /\ CommitShape
    BY DEF Init, AttemptBound, ReservedIdx, SnapsCovered, CommitShape
  <1>10. OutcomeAtEnd
    BY DEF Init, OutcomeAtEnd
  <1>7. StatusListSound /\ RevokedWereReserved /\ RevokeAccountsForRequest
    BY DEF Init, StatusListSound, RevokedWereReserved, RevokeAccountsForRequest
  <1>8. IndexAccounting
    <2>1. InFlight = {}
      BY DEF Init, InFlight
    <2>2. QED
      BY <2>1 DEF Init, IndexAccounting
  <1>9. QED
    BY <1>5, <1>6, <1>7, <1>8, <1>10 DEF IInv

-----------------------------------------------------------------------------
(* One lemma per process kind; each case is one action of Next. *)

(* An issuer that starts creating a credential adds its index to the set  *)
(* of indices in flight; one that stops removes it, the others' are kept. *)
LEMMA InFlightGrows ==
    ASSUME TypeOK, NEW i \in Issuers, ipc[i] = "idle", NEW n,
           ipc' = [ipc EXCEPT ![i] = "create"], idx' = [idx EXCEPT ![i] = n]
    PROVE  InFlight' = InFlight \cup {n}
  <1>1. ASSUME NEW x \in InFlight' PROVE x \in InFlight \cup {n}
    <2>1. PICK j \in Issuers : ipc'[j] = "create" /\ x = idx'[j]
      BY <1>1 DEF InFlight
    <2>2. CASE j = i
      BY <2>1, <2>2 DEF TypeOK
    <2>3. CASE j # i
      BY <2>1, <2>3 DEF TypeOK, InFlight
    <2>4. QED
      BY <2>2, <2>3
  <1>2. ASSUME NEW x \in InFlight \cup {n} PROVE x \in InFlight'
    <2>1. CASE x = n
      BY <2>1 DEF TypeOK, InFlight
    <2>2. CASE x \in InFlight
      <3>1. PICK j \in Issuers : ipc[j] = "create" /\ x = idx[j]
        BY <2>2 DEF InFlight
      <3>2. j # i
        BY <3>1
      <3>3. QED
        BY <3>1, <3>2 DEF TypeOK, InFlight
    <2>3. QED
      BY <2>1, <2>2, <1>2
  <1>3. QED
    BY <1>1, <1>2

LEMMA InFlightShrinks ==
    ASSUME TypeOK, IndexAccounting, NEW i \in Issuers, ipc[i] = "create",
           ipc' = [ipc EXCEPT ![i] = "idle"], idx' = idx
    PROVE  InFlight' = InFlight \ {idx[i]}
  <1>1. ASSUME NEW x \in InFlight' PROVE x \in InFlight \ {idx[i]}
    <2>1. PICK j \in Issuers : ipc'[j] = "create" /\ x = idx'[j]
      BY <1>1 DEF InFlight
    <2>2. j # i /\ ipc[j] = "create" /\ x = idx[j]
      BY <2>1 DEF TypeOK
    <2>3. idx[j] # idx[i]
      BY <2>2 DEF IndexAccounting
    <2>4. QED
      BY <2>2, <2>3 DEF InFlight
  <1>2. ASSUME NEW x \in InFlight \ {idx[i]} PROVE x \in InFlight'
    <2>1. PICK j \in Issuers : ipc[j] = "create" /\ x = idx[j]
      BY <1>2 DEF InFlight
    <2>2. j # i
      BY <1>2, <2>1
    <2>3. QED
      BY <2>1, <2>2 DEF TypeOK, InFlight
  <1>3. QED
    BY <1>1, <1>2

LEMMA IssuerStep ==
    ASSUME IInv, NEW i \in Issuers,
           ReserveIndex(i) \/ RegistryFull(i) \/ IssueCredential(i)
             \/ CreateCredentialFails(i)
    PROVE  IInv'
  <1> USE DEF IInv, TypeOK, AttemptBound, OutcomeAtEnd, ReservedIdx, SnapsCovered,
              CommitShape, StatusListSound, RevokedWereReserved, Indices,
              RevokeAccountsForRequest,
              storeVars, revokerVars
  <1>1. CASE ReserveIndex(i)
    <2>1. InFlight' = InFlight \cup {currId + 1}
      BY <1>1, InFlightGrows DEF ReserveIndex
    <2>2. 1..currId' = (1..currId) \cup {currId + 1}
      <3>1. currId \in Nat /\ currId' = currId + 1
        BY <1>1 DEF ReserveIndex
      <3>2. QED
        BY <3>1
    <2>3. currId + 1 \notin issued \cup skipped \cup InFlight
      BY DEF IndexAccounting
    <2>4. ASSUME NEW j \in Issuers, ipc[j] = "create" PROVE idx[j] \in InFlight
      BY <2>4 DEF InFlight
    <2>5. IndexAccounting'
      BY <1>1, <2>1, <2>2, <2>3, <2>4 DEF IndexAccounting, ReserveIndex
    <2>6. QED
      BY <1>1, <2>5 DEF ReserveIndex
  <1>2. CASE RegistryFull(i)
    <2>1. InFlight' = InFlight
      BY <1>2 DEF RegistryFull, InFlight
    <2>2. QED
      BY <1>2, <2>1 DEF RegistryFull, IndexAccounting
  <1>3. CASE IssueCredential(i)
    <2>1. InFlight' = InFlight \ {idx[i]}
      BY <1>3, InFlightShrinks DEF IssueCredential
    <2>2. idx[i] \in InFlight
      BY <1>3 DEF IssueCredential, InFlight
    <2>3. IndexAccounting'
      BY <1>3, <2>1, <2>2 DEF IssueCredential, IndexAccounting
    <2>4. QED
      BY <1>3, <2>3 DEF IssueCredential
  <1>4. CASE CreateCredentialFails(i)
    <2>1. InFlight' = InFlight \ {idx[i]}
      BY <1>4, InFlightShrinks DEF CreateCredentialFails
    <2>2. idx[i] \in InFlight
      BY <1>4 DEF CreateCredentialFails, InFlight
    <2>3. IndexAccounting'
      BY <1>4, <2>1, <2>2 DEF CreateCredentialFails, IndexAccounting
    <2>4. QED
      BY <1>4, <2>3 DEF CreateCredentialFails
  <1>5. QED
    BY <1>1, <1>2, <1>3, <1>4

LEMMA RevokerStep ==
    ASSUME IInv, NEW r \in Revokers,
           RevokeGiveUp(r) \/ RevokeReadList(r) \/ RevokeNothingToDo(r)
             \/ RevokeCompute(r) \/ RevokeUpdateRaises(r)
             \/ RevokeConflict(r) \/ RevokeCommit(r)
    PROVE  IInv'
  <1> USE DEF IInv, TypeOK, AttemptBound, OutcomeAtEnd, ReservedIdx, SnapsCovered,
              CommitShape, StatusListSound, RevokedWereReserved, Indices,
              RevokeAccountsForRequest,
              Info, IndexAccounting, InFlight, storeVars, issuerVars
  <1>1. CASE RevokeGiveUp(r)
    BY <1>1 DEF RevokeGiveUp
  <1>2. CASE RevokeReadList(r)
    <2>1. attempt' \in [Revokers -> 0..MaxAttempt]
      BY <1>2 DEF RevokeReadList
    <2>2. listSnap' \in [Revokers -> SUBSET Indices]
      BY <1>2 DEF RevokeReadList
    <2>3. TypeOK'
      BY <1>2, <2>1, <2>2 DEF RevokeReadList
    <2>4. (AttemptBound /\ SnapsCovered /\ CommitShape)'
      BY <1>2 DEF RevokeReadList
    <2>5. QED
      BY <1>2, <2>3, <2>4 DEF RevokeReadList
  <1>3. CASE RevokeNothingToDo(r)
    <2> DEFINE info == [curr |-> currId, used |-> usedIds]
    <2>1. info \in Info /\ req[r] \in SUBSET Int
      OBVIOUS
    <2>2. Rejected(req[r], info) \subseteq UNION RequestSets
      <3>1. Rejected(req[r], info) \subseteq req[r]
        BY <2>1, PartitionFacts
      <3>2. req[r] \subseteq UNION RequestSets
        OBVIOUS
      <3>3. QED
        BY <3>1, <3>2
    <2>3. req[r] \subseteq Rejected(req[r], info)
      BY <1>3, PartitionCovers DEF RevokeNothingToDo
    <2>4. QED
      BY <1>3, <2>2, <2>3 DEF RevokeNothingToDo
  <1>4. CASE RevokeCompute(r)
    <2> DEFINE info == [curr |-> currId, used |-> usedIds]
    <2>1. info \in Info /\ req[r] \in SUBSET Int
      OBVIOUS
    <2>2. /\ Eligible(req[r], info) \subseteq Indices
          /\ Eligible(req[r], info) \subseteq 1..info.curr
          /\ Eligible(req[r], info) \cap info.used = {}
          /\ Rejected(req[r], info) \subseteq UNION RequestSets
      <3>1. Rejected(req[r], info) \subseteq req[r]
        BY <2>1, PartitionFacts
      <3>2. req[r] \subseteq UNION RequestSets
        OBVIOUS
      <3>3. QED
        BY <2>1, <3>1, <3>2, PartitionFacts
    <2>3. req[r] \subseteq Eligible(req[r], info) \cup Rejected(req[r], info)
      BY PartitionCovers
    <2>4. CommitShape'
      BY <1>4, <2>2, <2>3 DEF RevokeCompute, UpdateStatusList
    <2>5. (RevokeAccountsForRequest /\ OutcomeAtEnd)'
      BY <1>4 DEF RevokeCompute
    <2>6. (TypeOK /\ AttemptBound /\ ReservedIdx /\ SnapsCovered)'
      BY <1>4, <2>2 DEF RevokeCompute, UpdateStatusList
    <2>7. (StatusListSound /\ RevokedWereReserved /\ IndexAccounting)'
      BY <1>4 DEF RevokeCompute
    <2>8. QED
      BY <2>4, <2>5, <2>6, <2>7
  <1>5. CASE RevokeUpdateRaises(r)
    BY <1>5 DEF RevokeUpdateRaises
  <1>6. CASE RevokeConflict(r)
    BY <1>6 DEF RevokeConflict
  <1>7. CASE RevokeCommit(r)
    <2>1. /\ updList[r] = listSnap[r] \cup elig[r]
          /\ elig[r] \subseteq 1..currId
          /\ usedIds = infoSnap[r].used
      BY <1>7 DEF RevokeCommit
    <2>2. IndexAccounting'
      BY <1>7 DEF RevokeCommit
    <2>3. (TypeOK /\ StatusListSound /\ RevokedWereReserved)'
      BY <1>7, <2>1 DEF RevokeCommit
    <2>4. RevokeAccountsForRequest'
      <3>1. req[r] \subseteq usedIds' \cup failed'[r]
        BY <1>7, <2>1 DEF RevokeCommit
      <3>2. QED
        BY <1>7, <3>1 DEF RevokeCommit
    <2>5. (AttemptBound /\ OutcomeAtEnd /\ ReservedIdx /\ SnapsCovered
            /\ CommitShape)'
      BY <1>7, <2>1 DEF RevokeCommit
    <2>6. QED
      BY <2>2, <2>3, <2>4, <2>5
  <1>8. QED
    BY <1>1, <1>2, <1>3, <1>4, <1>5, <1>6, <1>7

LEMMA NextIInv == IInv /\ [Next]_vars => IInv'
  <1> SUFFICES ASSUME IInv, [Next]_vars PROVE IInv'
    OBVIOUS
  <1>1. CASE \E i \in Issuers :
               ReserveIndex(i) \/ RegistryFull(i) \/ IssueCredential(i)
                 \/ CreateCredentialFails(i)
    BY <1>1, IssuerStep
  <1>2. CASE \E r \in Revokers :
               RevokeGiveUp(r) \/ RevokeReadList(r) \/ RevokeNothingToDo(r)
                 \/ RevokeCompute(r) \/ RevokeUpdateRaises(r)
                 \/ RevokeConflict(r) \/ RevokeCommit(r)
    BY <1>2, RevokerStep
  <1>3. CASE Terminated \/ UNCHANGED vars
    <2>1. UNCHANGED <<currId, usedIds, revList, ipc, idx, issued, skipped,
                      rpc, req, attempt, listSnap, infoSnap, elig, failed,
                      prevList, updList, outcome, committed>>
      BY <1>3 DEF Terminated, vars, storeVars, issuerVars, revokerVars
    <2>2. QED
      BY <2>1 DEF IInv, TypeOK, AttemptBound, OutcomeAtEnd, ReservedIdx, SnapsCovered,
                  CommitShape, StatusListSound, RevokedWereReserved,
                  IndexAccounting, InFlight, RevokeAccountsForRequest
  <1>4. QED
    BY <1>1, <1>2, <1>3 DEF Next

(* The inductive invariant holds in every reachable state. *)
THEOREM IInvariant == Spec => []IInv
  BY InitIInv, NextIInv, PTL DEF Spec

(* create_credential and revoke_credentials keep every variable within the *)
(* type the code gives it, for every registry size and number of callers.  *)
THEOREM TypeCorrect == Spec => []TypeOK
  BY IInvariant, PTL DEF IInv

(* revoke_credentials never commits a status list that marks an index     *)
(* revoked that used_ids does not record, and only reserved indices are    *)
(* recorded, whatever the interleaving with create_credential and other    *)
(* revokers.                                                               *)
THEOREM StatusListSoundness == Spec => [](StatusListSound /\ RevokedWereReserved)
  BY IInvariant, PTL DEF IInv

(* revoke_credentials records as revoked only indices create_credential   *)
(* had already reserved: the revoker's check against curr_id, read in an  *)
(* earlier session, stays sound because curr_id only grows.                *)
THEOREM RevokedReserved == Spec => []RevokedWereReserved
  BY IInvariant, PTL DEF IInv

(* create_credential reserves every index once: whatever the interleaving  *)
(* of issuers, each index up to curr_id is held by exactly one call, or    *)
(* was handed out, or skipped after a failed Credential.create, and no two *)
(* calls in flight hold the same index.                                    *)
THEOREM IndexAccountingHolds == Spec => []IndexAccounting
  BY IInvariant, PTL DEF IInv

(* revoke_credentials, in every interleaving with issuers and with other  *)
(* revokers, returns normally only once each requested index is recorded  *)
(* in used_ids or reported in failed_crids: none is silently dropped by a *)
(* retry after a lost optimistic commit.                                   *)
THEOREM RevokeAccounting == Spec => []RevokeAccountsForRequest
  BY IInvariant, PTL DEF IInv

-----------------------------------------------------------------------------
(***************************************************************************)
(* The capacity boundary.  A call told the registry is full stays so, and *)
(* it was told so with curr_id + 1 > max_cred_num; curr_id only grows and *)
(* never past max_cred_num, so from then on curr_id = max_cred_num and no  *)
(* reservation is enabled (FullAtCapacity).  With IndexAccounting, every   *)
(* index of the registry is then issued, skipped or in flight.             *)
(***************************************************************************)
FullAtCapacity == (\E i \in Issuers : ipc[i] = "full") => currId = MaxCredNum

LEMMA InitFullAtCapacity == Init => FullAtCapacity
  BY DEF Init, FullAtCapacity

LEMMA NextFullAtCapacity ==
    IInv /\ FullAtCapacity /\ [Next]_vars => FullAtCapacity'
  <1> SUFFICES ASSUME IInv, FullAtCapacity, [Next]_vars PROVE FullAtCapacity'
    OBVIOUS
  <1> USE DEF IInv, TypeOK, FullAtCapacity
  <1>1. ASSUME NEW i \in Issuers, ReserveIndex(i) PROVE FullAtCapacity'
    <2>1. ~\E j \in Issuers : ipc[j] = "full"
      BY <1>1 DEF ReserveIndex
    <2>2. QED
      BY <1>1, <2>1 DEF ReserveIndex
  <1>2. ASSUME NEW i \in Issuers, RegistryFull(i) PROVE FullAtCapacity'
    BY <1>2 DEF RegistryFull, storeVars
  <1>3. ASSUME NEW i \in Issuers, IssueCredential(i) \/ CreateCredentialFails(i)
        PROVE  FullAtCapacity'
    BY <1>3 DEF IssueCredential, CreateCredentialFails, storeVars
  <1>4. ASSUME NEW r \in Revokers,
               RevokeGiveUp(r) \/ RevokeReadList(r) \/ RevokeNothingToDo(r)
                 \/ RevokeCompute(r) \/ RevokeUpdateRaises(r)
                 \/ RevokeConflict(r) \/ RevokeCommit(r)
        PROVE  FullAtCapacity'
    BY <1>4 DEF RevokeGiveUp, RevokeReadList, RevokeNothingToDo, RevokeCompute,
                RevokeUpdateRaises, RevokeConflict, RevokeCommit, issuerVars,
                storeVars
  <1>5. CASE Terminated \/ UNCHANGED vars
    BY <1>5 DEF Terminated, vars, storeVars, issuerVars
  <1>6. QED
    BY <1>1, <1>2, <1>3, <1>4, <1>5 DEF Next

(* create_credential reports the registry full only once every index of   *)
(* 1..max_cred_num has been handed out, skipped or is being created, for   *)
(* every capacity and number of concurrent calls: the check at line 925   *)
(* never loses the boundary index.                                         *)
THEOREM FullExhausted == Spec => []FullOnlyWhenExhausted
  <1>1. Spec => [](IInv /\ FullAtCapacity)
    <2>1. Init => IInv /\ FullAtCapacity
      BY InitIInv, InitFullAtCapacity
    <2>2. IInv /\ FullAtCapacity /\ [Next]_vars => (IInv /\ FullAtCapacity)'
      BY NextIInv, NextFullAtCapacity
    <2>3. QED
      BY <2>1, <2>2, PTL DEF Spec
  <1>2. IInv /\ FullAtCapacity => FullOnlyWhenExhausted
    BY DEF IInv, FullAtCapacity, FullOnlyWhenExhausted, IndexAccounting, Indices
  <1>3. QED
    BY <1>1, <1>2, PTL

-----------------------------------------------------------------------------
(***************************************************************************)
(* Refinement: every step of create_credential or revoke_credentials is a  *)
(* step of the index state of spec.md, or leaves curr_id, the handed-out   *)
(* indices and used_ids alone.                                             *)
(***************************************************************************)
LEMMA InitRefines == Init => IndexState!Init
  BY DEF Init, IndexState!Init

LEMMA StepRefines ==
    IInv /\ [Next]_vars => [IndexState!Next]_IndexState!indexVars
  <1> SUFFICES ASSUME IInv, [Next]_vars
               PROVE  [IndexState!Next]_IndexState!indexVars
    OBVIOUS
  <1> USE DEF IndexState!indexVars
  <1>1. ASSUME NEW i \in Issuers, ReserveIndex(i) PROVE IndexState!Allocate
    BY <1>1 DEF ReserveIndex, IndexState!Allocate, IInv, TypeOK, revokerVars
  <1>2. ASSUME NEW i \in Issuers, IssueCredential(i)
        PROVE  IndexState!Deliver(idx[i])
    <2>1. idx[i] \in InFlight
      BY <1>2 DEF IssueCredential, InFlight
    <2>2. idx[i] \in (1..currId) \ issued
      BY <2>1 DEF IInv, IndexAccounting
    <2>3. QED
      BY <1>2, <2>2 DEF IssueCredential, IndexState!Deliver, storeVars
  <1>3. ASSUME NEW r \in Revokers, RevokeCommit(r)
        PROVE  IndexState!Revoke(elig[r])
    <2>1. infoSnap[r] = [curr |-> currId, used |-> usedIds]
      BY <1>3 DEF RevokeCommit
    <2>2. /\ elig[r] # {}
          /\ elig[r] \subseteq 1..currId
          /\ elig[r] \cap usedIds = {}
      BY <1>3, <2>1 DEF IInv, CommitShape, RevokeCommit
    <2>3. usedIds' = usedIds \cup elig[r]
      BY <1>3, <2>1 DEF RevokeCommit
    <2>4. QED
      BY <1>3, <2>2, <2>3 DEF RevokeCommit, IndexState!Revoke, IndexState!Revocable,
                               issuerVars
  <1>4. ASSUME NEW i \in Issuers, IssueCredential(i) PROVE idx[i] \in 1..MaxCredNum
    BY <1>4 DEF IssueCredential, IInv, ReservedIdx, Indices
  <1>5. ASSUME NEW r \in Revokers, RevokeCommit(r)
        PROVE  elig[r] \in SUBSET (1..MaxCredNum)
    BY <1>5 DEF RevokeCommit, IInv, TypeOK, Indices
  <1>6. CASE \E i \in Issuers : ReserveIndex(i)
    BY <1>1, <1>6 DEF IndexState!Next
  <1>7. CASE \E i \in Issuers : IssueCredential(i)
    BY <1>2, <1>4, <1>7 DEF IndexState!Next
  <1>8. CASE \E r \in Revokers : RevokeCommit(r)
    BY <1>3, <1>5, <1>8 DEF IndexState!Next
  <1>9. CASE \E i \in Issuers : RegistryFull(i) \/ CreateCredentialFails(i)
    BY <1>9 DEF RegistryFull, CreateCredentialFails, storeVars, revokerVars
  <1>10. CASE \E r \in Revokers :
                RevokeGiveUp(r) \/ RevokeReadList(r) \/ RevokeNothingToDo(r)
                  \/ RevokeCompute(r) \/ RevokeUpdateRaises(r) \/ RevokeConflict(r)
    BY <1>10 DEF RevokeGiveUp, RevokeReadList, RevokeNothingToDo,
                 RevokeCompute, RevokeUpdateRaises, RevokeConflict, storeVars,
                 issuerVars
  <1>11. CASE Terminated \/ UNCHANGED vars
    BY <1>11 DEF Terminated, vars, storeVars, issuerVars
  <1>12. QED
    BY <1>6, <1>7, <1>8, <1>9, <1>10, <1>11 DEF Next

(* create_credential and revoke_credentials, under any interleaving of any *)
(* number of calls, implement the index state spec.md describes: curr_id   *)
(* climbs by one within capacity, each reserved index is handed out at     *)
(* most once, and used_ids only grows by batches of reserved, unrevoked    *)
(* indices, the optimistic check at lines 1108-1113 standing in for a lock.*)
THEOREM Refinement == Spec => ImplementsIndexState
  <1>1. Spec => []IInv
    BY IInvariant
  <1>2. QED
    BY <1>1, InitRefines, StepRefines, PTL
       DEF Spec, ImplementsIndexState, IndexState!Spec
=============================================================================
