----------------------------- MODULE RevRegIndex -----------------------------
(***************************************************************************)
(* The index bookkeeping of ONE revocation registry of the anoncreds issuer *)
(* (src/aries_cloudagent/anoncreds/issuer.py) and the two operations that  *)
(* share it:                                                               *)
(*                                                                         *)
(*   - AnonCredsIssuer.create_credential (lines 882-969): reserves         *)
(*     rev_reg_info.curr_id + 1 in one for-update transaction, then builds *)
(*     the credential outside the transaction;                             *)
(*   - AnonCredsIssuer.revoke_credentials (lines 971-1133): optimistic     *)
(*     retry loop that reads the definition, the status list and           *)
(*     rev_reg_info in a plain session, computes the new status list, and  *)
(*     commits only if rev_reg_info is unchanged.                          *)
(*                                                                         *)
(* Every create_credential call and every revoke_credentials call is a     *)
(* process; the asyncio event loop interleaves them at each await.         *)
(* The cryptographic status list is abstracted to the set of indices it    *)
(* marks revoked: RevocationStatusList.update(prev, issued=None, revoked)  *)
(* returns prev with the revoked indices added.                            *)
(***************************************************************************)
EXTENDS Integers, FiniteSets

CONSTANTS
    MaxCredNum,       \* rev_reg_def.max_cred_num
    Issuers,          \* concurrent create_credential calls on this registry
    Revokers,         \* concurrent revoke_credentials calls on this registry
    RequestSets,      \* the cred_revoc_ids batches a revoker may submit
    MaxAttempt,       \* max_attempt in revoke_credentials (line 995)
    InitialCurrIds,   \* rev_reg_info.curr_id values the registry may start at
    StatusListUpdateRaises, \* TRUE: line 1084 calls time.time() on the function time
    NoList            \* None, for prev_list / updated_list

ASSUME MaxCredNumAssumption == MaxCredNum \in Nat \ {0}
ASSUME MaxAttemptAssumption == MaxAttempt \in Nat \ {0}
ASSUME RequestSetsAssumption == RequestSets \subseteq SUBSET Int
ASSUME InitialCurrIdsAssumption ==
    InitialCurrIds \subseteq 0..MaxCredNum /\ InitialCurrIds # {}
ASSUME RaisesAssumption == StatusListUpdateRaises \in BOOLEAN
ASSUME DisjointProcs == Issuers \cap Revokers = {}

VARIABLES
    \* --- the wallet store, for this registry ---
    currId,     \* CATEGORY_REV_REG_INFO value_json["curr_id"]
    usedIds,    \* CATEGORY_REV_REG_INFO value_json["used_ids"]
    revList,    \* CATEGORY_REV_LIST: indices the status list marks revoked
    \* --- create_credential calls ---
    ipc,        \* "idle" | "create" | "full"
    idx,        \* rev_reg_index reserved by the call
    issued,     \* indices of credentials handed out (history)
    skipped,    \* indices reserved whose Credential.create failed (history)
    \* --- revoke_credentials calls ---
    rpc,        \* "start" | "readInfo" | "commit" | "done"
    req,        \* cred_revoc_ids
    attempt,    \* attempt
    listSnap,   \* revocation list read in the session of this attempt
    infoSnap,   \* rev_info read in the session of this attempt
    elig,       \* rev_crids of this attempt
    failed,     \* failed_crids of this attempt
    prevList,   \* prev_list (kept across attempts, as in the code)
    updList,    \* updated_list (kept across attempts, as in the code)
    outcome,    \* "none" | "ok" | "conflict" | "crash"
    committed   \* history: this call committed its transaction

storeVars == <<currId, usedIds, revList>>
issuerVars == <<ipc, idx, issued, skipped>>
revokerVars == <<rpc, req, attempt, listSnap, infoSnap, elig, failed,
                 prevList, updList, outcome, committed>>
vars == <<storeVars, issuerVars, revokerVars>>

Indices == 1..MaxCredNum
Info == [curr : 0..MaxCredNum, used : SUBSET Indices]
NoInfo == [curr |-> 0, used |-> {}]

(***************************************************************************)
(* The partition of lines 1043-1070: an index is skipped when it is out of *)
(* range, not yet issued, or already revoked; the rest are rev_crids.      *)
(***************************************************************************)
(* Mutant: the "not yet issued" branch (lines 1053-1060) is dropped. *)
EligibleNoIssuedCheck(batch, info) ==
    {x \in batch : 1 <= x /\ x <= MaxCredNum /\ x \notin info.used}

Eligible(batch, info) ==
    {x \in batch : /\ 1 <= x /\ x <= MaxCredNum
                   /\ x <= info.curr
                   /\ x \notin info.used}

(* Mutant: only out-of-range indices are reported in failed_crids. *)
RejectedOutOfRange(batch, info) == {x \in batch : x < 1 \/ x > MaxCredNum}

Rejected(batch, info) == batch \ Eligible(batch, info)

(* RevocationStatusList.update(time, None, revoked, def), line 1083. *)
UpdateStatusList(prev, revoked) == prev \cup revoked

Init ==
    /\ currId \in InitialCurrIds
    /\ usedIds = {}
    /\ revList = {}
    /\ ipc = [i \in Issuers |-> "idle"]
    /\ idx = [i \in Issuers |-> 0]
    /\ issued = 1..currId
    /\ skipped = {}
    /\ rpc = [r \in Revokers |-> "start"]
    /\ req \in [Revokers -> RequestSets]
    /\ attempt = [r \in Revokers |-> 0]
    /\ listSnap = [r \in Revokers |-> {}]
    /\ infoSnap = [r \in Revokers |-> NoInfo]
    /\ elig = [r \in Revokers |-> {}]
    /\ failed = [r \in Revokers |-> {}]
    /\ prevList = [r \in Revokers |-> NoList]
    /\ updList = [r \in Revokers |-> NoList]
    /\ outcome = [r \in Revokers |-> "none"]
    /\ committed = [r \in Revokers |-> FALSE]

-----------------------------------------------------------------------------
(***************************************************************************)
(* create_credential                                                       *)
(***************************************************************************)

(* Mutants of ReserveIndex: the capacity check is off by one; the new     *)
(* curr_id is never written back.                                          *)
ReserveIndexOffByOne(i) ==
    /\ ipc[i] = "idle"
    /\ currId + 1 <= MaxCredNum + 1
    /\ currId' = currId + 1
    /\ idx' = [idx EXCEPT ![i] = currId + 1]
    /\ ipc' = [ipc EXCEPT ![i] = "create"]
    /\ UNCHANGED <<usedIds, revList, issued, skipped, revokerVars>>

ReserveIndexNoWrite(i) ==
    /\ ipc[i] = "idle"
    /\ currId + 1 <= MaxCredNum
    /\ idx' = [idx EXCEPT ![i] = currId + 1]
    /\ ipc' = [ipc EXCEPT ![i] = "create"]
    /\ UNCHANGED <<currId, usedIds, revList, issued, skipped, revokerVars>>

(* Lines 884-933: the transaction fetches rev_reg_info for update, finds   *)
(* curr_id + 1 within max_cred_num, writes it back and commits.            *)
ReserveIndex(i) ==
    /\ ipc[i] = "idle"
    /\ currId + 1 <= MaxCredNum
    /\ currId' = currId + 1
    /\ idx' = [idx EXCEPT ![i] = currId + 1]
    /\ ipc' = [ipc EXCEPT ![i] = "create"]
    /\ UNCHANGED <<usedIds, revList, issued, skipped, revokerVars>>

(* Mutant: the capacity check is off by one the other way; the registry   *)
(* is reported full while index max_cred_num is still free.                *)
RegistryFullEarly(i) ==
    /\ ipc[i] = "idle"
    /\ currId + 1 >= MaxCredNum
    /\ ipc' = [ipc EXCEPT ![i] = "full"]
    /\ UNCHANGED <<storeVars, idx, issued, skipped, revokerVars>>

(* Lines 925-928: curr_id + 1 > max_cred_num raises                        *)
(* AnonCredsIssuerRevocationRegistryFullError inside the transaction,      *)
(* which is then rolled back: nothing is written.                          *)
RegistryFull(i) ==
    /\ ipc[i] = "idle"
    /\ currId + 1 > MaxCredNum
    /\ ipc' = [ipc EXCEPT ![i] = "full"]
    /\ UNCHANGED <<storeVars, idx, issued, skipped, revokerVars>>

(* Lines 939-969: Credential.create in the executor succeeds and the call  *)
(* returns str(rev_reg_index).                                             *)
IssueCredential(i) ==
    /\ ipc[i] = "create"
    /\ issued' = issued \cup {idx[i]}
    /\ ipc' = [ipc EXCEPT ![i] = "idle"]
    /\ UNCHANGED <<storeVars, idx, skipped, revokerVars>>

(* Lines 966-967: Credential.create raises AnoncredsError; the reserved    *)
(* index stays consumed and is never handed out.                           *)
CreateCredentialFails(i) ==
    /\ ipc[i] = "create"
    /\ skipped' = skipped \cup {idx[i]}
    /\ ipc' = [ipc EXCEPT ![i] = "idle"]
    /\ UNCHANGED <<storeVars, idx, issued, revokerVars>>

-----------------------------------------------------------------------------
(***************************************************************************)
(* revoke_credentials                                                      *)
(***************************************************************************)

(* Lines 999-1003: attempt += 1; at attempt >= max_attempt the call raises *)
(* "Repeated conflict attempting to update registry".                      *)
RevokeGiveUp(r) ==
    /\ rpc[r] = "start"
    /\ attempt[r] + 1 >= MaxAttempt
    /\ attempt' = [attempt EXCEPT ![r] = @ + 1]
    /\ rpc' = [rpc EXCEPT ![r] = "done"]
    /\ outcome' = [outcome EXCEPT ![r] = "conflict"]
    /\ UNCHANGED <<storeVars, issuerVars, req, listSnap, infoSnap, elig,
                   failed, prevList, updList, committed>>

(* Lines 999-1011: a new attempt; the session fetches the definition (it   *)
(* never changes) and then the revocation list.                            *)
RevokeReadList(r) ==
    /\ rpc[r] = "start"
    /\ attempt[r] + 1 < MaxAttempt
    /\ attempt' = [attempt EXCEPT ![r] = @ + 1]
    /\ listSnap' = [listSnap EXCEPT ![r] = revList]
    /\ rpc' = [rpc EXCEPT ![r] = "readInfo"]
    /\ UNCHANGED <<storeVars, issuerVars, req, infoSnap, elig, failed,
                   prevList, updList, outcome, committed>>

(* Lines 1012-1073: the session's next fetch reads rev_reg_info; the       *)
(* partition finds no eligible index and the loop breaks, returning        *)
(* prev_list and updated_list as they were left by earlier attempts.       *)
RevokeNothingToDo(r) ==
    /\ rpc[r] = "readInfo"
    /\ LET info == [curr |-> currId, used |-> usedIds]
       IN /\ Eligible(req[r], info) = {}
          /\ infoSnap' = [infoSnap EXCEPT ![r] = info]
          /\ elig' = [elig EXCEPT ![r] = {}]
          /\ failed' = [failed EXCEPT ![r] = Rejected(req[r], info)]
    /\ rpc' = [rpc EXCEPT ![r] = "done"]
    /\ outcome' = [outcome EXCEPT ![r] = "ok"]
    /\ UNCHANGED <<storeVars, issuerVars, req, attempt, listSnap,
                   prevList, updList, committed>>

(* Lines 1012-1093: rev_reg_info is read, some indices are eligible, and   *)
(* the new status list is computed in the executor from the list of this  *)
(* attempt's session.                                                      *)
RevokeCompute(r) ==
    /\ rpc[r] = "readInfo"
    /\ ~StatusListUpdateRaises
    /\ LET info == [curr |-> currId, used |-> usedIds]
       IN /\ Eligible(req[r], info) # {}
          /\ infoSnap' = [infoSnap EXCEPT ![r] = info]
          /\ elig' = [elig EXCEPT ![r] = Eligible(req[r], info)]
          /\ failed' = [failed EXCEPT ![r] = Rejected(req[r], info)]
          /\ prevList' = [prevList EXCEPT ![r] = listSnap[r]]
          /\ updList' = [updList EXCEPT ![r] =
                            UpdateStatusList(listSnap[r], Eligible(req[r], info))]
    /\ rpc' = [rpc EXCEPT ![r] = "commit"]
    /\ UNCHANGED <<storeVars, issuerVars, req, attempt, listSnap,
                   outcome, committed>>

(* Lines 1080-1093 as written: the lambda evaluates time.time() where time *)
(* is the function imported at line 7; the AttributeError is not an       *)
(* AnoncredsError and leaves the call.                                     *)
RevokeUpdateRaises(r) ==
    /\ rpc[r] = "readInfo"
    /\ StatusListUpdateRaises
    /\ Eligible(req[r], [curr |-> currId, used |-> usedIds]) # {}
    /\ rpc' = [rpc EXCEPT ![r] = "done"]
    /\ outcome' = [outcome EXCEPT ![r] = "crash"]
    /\ UNCHANGED <<storeVars, issuerVars, req, attempt, listSnap, infoSnap,
                   elig, failed, prevList, updList, committed>>

(* Lines 1095-1113: the transaction fetches the list and rev_reg_info for  *)
(* update; rev_reg_info differs from this attempt's read, so the loop      *)
(* continues and the transaction is rolled back.                           *)
RevokeConflict(r) ==
    /\ rpc[r] = "commit"
    /\ [curr |-> currId, used |-> usedIds] # infoSnap[r]
    /\ rpc' = [rpc EXCEPT ![r] = "start"]
    /\ UNCHANGED <<storeVars, issuerVars, req, attempt, listSnap, infoSnap,
                   elig, failed, prevList, updList, outcome, committed>>

(* Mutant: used_ids.update(rev_crids) (line 1119) is forgotten. *)
RevokeCommitNoUsedIds(r) ==
    /\ rpc[r] = "commit"
    /\ [curr |-> currId, used |-> usedIds] = infoSnap[r]
    /\ revList' = updList[r]
    /\ usedIds' = infoSnap[r].used
    /\ committed' = [committed EXCEPT ![r] = TRUE]
    /\ rpc' = [rpc EXCEPT ![r] = "done"]
    /\ outcome' = [outcome EXCEPT ![r] = "ok"]
    /\ UNCHANGED <<currId, issuerVars, req, attempt, listSnap, infoSnap,
                   elig, failed, prevList, updList>>

(* Mutant: the commit does not compare rev_reg_info with this attempt's   *)
(* read (lines 1108-1113 dropped) and writes blindly.                      *)
RevokeCommitBlind(r) ==
    /\ rpc[r] = "commit"
    /\ revList' = updList[r]
    /\ usedIds' = infoSnap[r].used \cup elig[r]
    /\ committed' = [committed EXCEPT ![r] = TRUE]
    /\ rpc' = [rpc EXCEPT ![r] = "done"]
    /\ outcome' = [outcome EXCEPT ![r] = "ok"]
    /\ UNCHANGED <<currId, issuerVars, req, attempt, listSnap, infoSnap,
                   elig, failed, prevList, updList>>

(* Lines 1114-1127: rev_reg_info is unchanged; the new list and           *)
(* used_ids | rev_crids are written and committed.                         *)
RevokeCommit(r) ==
    /\ rpc[r] = "commit"
    /\ [curr |-> currId, used |-> usedIds] = infoSnap[r]
    /\ revList' = updList[r]
    /\ usedIds' = infoSnap[r].used \cup elig[r]
    /\ committed' = [committed EXCEPT ![r] = TRUE]
    /\ rpc' = [rpc EXCEPT ![r] = "done"]
    /\ outcome' = [outcome EXCEPT ![r] = "ok"]
    /\ UNCHANGED <<currId, issuerVars, req, attempt, listSnap, infoSnap,
                   elig, failed, prevList, updList>>

-----------------------------------------------------------------------------
(* Every call has returned; the registry is full for all issuers.          *)
Terminated ==
    /\ \A i \in Issuers : ipc[i] = "full"
    /\ \A r \in Revokers : rpc[r] = "done"
    /\ UNCHANGED vars

Next ==
    \/ \E i \in Issuers :
          \/ ReserveIndex(i) \/ RegistryFull(i)
          \/ IssueCredential(i) \/ CreateCredentialFails(i)
    \/ \E r \in Revokers :
          \/ RevokeGiveUp(r) \/ RevokeReadList(r)
          \/ RevokeNothingToDo(r) \/ RevokeCompute(r) \/ RevokeUpdateRaises(r)
          \/ RevokeConflict(r) \/ RevokeCommit(r)
    \/ Terminated

Spec == Init /\ [][Next]_vars

-----------------------------------------------------------------------------
(***************************************************************************)
(* Properties                                                              *)
(***************************************************************************)

(***************************************************************************)
(* Refinement: the registry's index state as spec.md states it            *)
(* (RevRegIndexState), with curr_id as the current index, the indices of   *)
(* the credentials create_credential returned as the delivered ones, and   *)
(* used_ids as the revoked set.                                            *)
(***************************************************************************)
IndexState == INSTANCE RevRegIndexState
                WITH MaxCapacity <- MaxCredNum, InitialIndices <- InitialCurrIds,
                     current <- currId, delivered <- issued, revoked <- usedIds

(* create_credential and revoke_credentials together implement the index   *)
(* state of spec.md: curr_id only moves up by one within max_cred_num, a   *)
(* credential's index was reserved and is handed out once, and used_ids     *)
(* only grows, by batches of reserved indices not yet revoked, although    *)
(* each revoker decides its batch on a read that concurrent issuers and     *)
(* revokers may since have changed.                                         *)
ImplementsIndexState == IndexState!Spec

(* Every variable has the type the code gives it. *)
TypeOK ==
    /\ currId \in 0..MaxCredNum
    /\ usedIds \subseteq Indices
    /\ revList \subseteq Indices
    /\ ipc \in [Issuers -> {"idle", "create", "full"}]
    /\ idx \in [Issuers -> 0..MaxCredNum]
    /\ issued \subseteq Indices
    /\ skipped \subseteq Indices
    /\ rpc \in [Revokers -> {"start", "readInfo", "commit", "done"}]
    /\ req \in [Revokers -> RequestSets]
    /\ attempt \in [Revokers -> 0..MaxAttempt]
    /\ listSnap \in [Revokers -> SUBSET Indices]
    /\ infoSnap \in [Revokers -> Info]
    /\ elig \in [Revokers -> SUBSET Indices]
    /\ failed \in [Revokers -> SUBSET UNION RequestSets]
    /\ prevList \in [Revokers -> (SUBSET Indices) \cup {NoList}]
    /\ updList \in [Revokers -> (SUBSET Indices) \cup {NoList}]
    /\ outcome \in [Revokers -> {"none", "ok", "conflict", "crash"}]
    /\ committed \in [Revokers -> BOOLEAN]

(* Index allocation (create_credential): every index up to curr_id was     *)
(* reserved by exactly one call: it is either handed out in one credential,*)
(* skipped after a failed Credential.create, or still being created by one *)
(* call, and no two calls hold the same index.                             *)
InFlight == {idx[i] : i \in {j \in Issuers : ipc[j] = "create"}}
IndexAccounting ==
    /\ issued \cup skipped \cup InFlight = 1..currId
    /\ issued \cap skipped = {}
    /\ InFlight \cap (issued \cup skipped) = {}
    /\ \A i, j \in Issuers :
          i # j /\ ipc[i] = "create" /\ ipc[j] = "create" => idx[i] # idx[j]

(* create_credential raises AnonCredsIssuerRevocationRegistryFullError    *)
(* only once the capacity is used up: when any call has been told the      *)
(* registry is full, every index 1..max_cred_num has been handed out,      *)
(* skipped or is being created, so the boundary index max_cred_num is     *)
(* never lost to the check at line 925, whatever other calls reserved in  *)
(* between.                                                                *)
FullOnlyWhenExhausted ==
    (\E i \in Issuers : ipc[i] = "full") => issued \cup skipped \cup InFlight = Indices

(* revoke_credentials: the status list never marks an index revoked that   *)
(* used_ids does not record, even when a revoker's list and rev_reg_info   *)
(* were read at different times.                                           *)
StatusListSound == revList \subseteq usedIds

(* revoke_credentials: only indices curr_id had already reserved are ever  *)
(* recorded revoked, although the revoker checks a curr_id read before     *)
(* concurrent issuance moves it.                                           *)
RevokedWereReserved == usedIds \subseteq 1..currId

(* A revoke_credentials call that returned normally accounts for every     *)
(* requested index: it is revoked in rev_reg_info or reported in failed.   *)
RevokeAccountsForRequest ==
    \A r \in Revokers :
        outcome[r] = "ok" => \A x \in req[r] : x \in failed[r] \/ x \in usedIds

(***************************************************************************)
(* Statements of the spec (section 3, 4.3 and 8) that the code as written  *)
(* does not keep; the runs that check them expect a violation.             *)
(***************************************************************************)

(* Spec section 3: rev_reg_info and the status list change together, so   *)
(* every index used_ids records as revoked is revoked in the status list.  *)
StatusListComplete == usedIds \subseteq revList

(* Spec section 4.3: a call returns a new status list only when it         *)
(* committed it; "nothing to do" returns no new list.                      *)
RevokeResultCommitted ==
    \A r \in Revokers :
        outcome[r] = "ok" /\ updList[r] # NoList => committed[r]

(* Spec section 4.3: revocation gives up with a conflict only after five   *)
(* attempts that each read the registry and lost the commit race.          *)
SpecAttempts == 5
ConflictOnlyAfterSpecAttempts ==
    \A r \in Revokers :
        outcome[r] = "conflict" => attempt[r] - 1 >= SpecAttempts

(* Spec section 8 (end-to-end): revoking an issued, unrevoked index        *)
(* succeeds; revoke_credentials never leaves with an unexpected exception. *)
RevokeNeverCrashes == \A r \in Revokers : outcome[r] # "crash"

=============================================================================
