------------------------- MODULE RegistrationProofs -------------------------
(***************************************************************************)
(* Proofs about Registration for every set of callers and every set of     *)
(* registrar answers: the three rows of a credential definition are stored *)
(* and re-keyed together, and, when a single task registers the schema, no *)
(* object is ever stored under both its job id and its registered id.      *)
(***************************************************************************)
EXTENDS Registration, TLAPS

(***************************************************************************)
(* The inductive invariant for every instance.  A caller about to store    *)
(* has chosen its key (KeyChosen): the store writes entry[c][key[p]], so   *)
(* without it even the type is not inductive.  The revocation registry     *)
(* definition's entry is never touched (RrDefFixed).  Until the credential *)
(* definition caller has stored, no row of the credential definition      *)
(* exists under any key (CredDefFresh): _finish_registration needs a job   *)
(* entry and only CredDefStore makes one.  CredDefRowsAgree is inductive   *)
(* on top of these, because the store writes the three rows together and  *)
(* Rekeyable asks the same of all three.                                   *)
(***************************************************************************)
KeyChosen ==
    \A p \in Callers : pc[p] \in {"store", "storeExisting"} => key[p] \in Keys

RrDefFixed == entry["rrdef"] = [k \in Keys |-> IF k = "id" THEN "wait" ELSE "absent"]

CredDefFresh ==
    pc[CredDefCaller] \in {"start", "store"} =>
        \A c \in CredDefCats, k \in Keys : entry[c][k] = "absent"

RInv ==
    /\ TypeOK
    /\ KeyChosen
    /\ RrDefFixed
    /\ CredDefFresh
    /\ CredDefRowsAgree

(***************************************************************************)
(* With one schema task, the schema has no entry until that task stores it *)
(* (SchemaFresh): the duplicate check, the remote registration and the     *)
(* store run in that order, and the finish event can only re-key an entry *)
(* that exists.  With two tasks this fails: both pass the duplicate check  *)
(* before either stores (run registration_duplicate).                      *)
(***************************************************************************)
SchemaFresh ==
    \A p \in SchemaCallers :
        pc[p] # "done" => \A k \in Keys : entry["schema"][k] = "absent"

SInv ==
    /\ RInv
    /\ SchemaFresh
    /\ NoDuplicateEntry

USE RegistrationAssumption

LEMMA InitRInv == Init => RInv
  BY DEF Init, RInv, TypeOK, KeyChosen, RrDefFixed, CredDefFresh,
         CredDefRowsAgree, Callers, Cats, CredDefCats, Keys, EntryStates

-----------------------------------------------------------------------------
(* One case per action; the re-keying step is the one that needs the rows *)
(* to agree before it.                                                     *)
LEMMA NextRInv == RInv /\ [Next]_vars => RInv'
  <1> SUFFICES ASSUME RInv, [Next]_vars PROVE RInv'
    OBVIOUS
  <1> USE DEF RInv, TypeOK, KeyChosen, RrDefFixed, CredDefFresh,
              CredDefRowsAgree, Callers, Cats, CredDefCats, Keys, EntryStates,
              Kinds
  <1>1. ASSUME NEW p \in Callers, SchemaCheck(p) PROVE RInv'
    BY <1>1 DEF SchemaCheck
  <1>2. ASSUME NEW p \in Callers, SchemaRegister(p) PROVE RInv'
    <2>1. CASE "schema" \in ledger
      <3>1. /\ key' = [key EXCEPT ![p] = "id"]
            /\ pc' = [pc EXCEPT ![p] = "storeExisting"]
            /\ UNCHANGED <<ledger, events, entry, out, rrOut>>
            /\ p \in SchemaCallers /\ p # CredDefCaller
        BY <1>2, <2>1 DEF SchemaRegister
      <3>2. QED
        BY <3>1
    <2>2. CASE "schema" \notin ledger
      <3>1. PICK o \in RegOutcomes :
              /\ ledger' = ledger \cup {"schema"}
              /\ key' = [key EXCEPT ![p] = IF o = "wait" THEN "job" ELSE "id"]
              /\ events' = IF o = "wait" THEN events \cup {"schema"} ELSE events
              /\ pc' = [pc EXCEPT ![p] = "store"]
        BY <1>2, <2>2 DEF SchemaRegister
      <3>2. UNCHANGED <<entry, out, rrOut>>
        BY <1>2 DEF SchemaRegister
      <3>3. p \in SchemaCallers /\ p # CredDefCaller
        BY <1>2 DEF SchemaRegister
      <3>4. TypeOK'
        BY <3>1, <3>2, <3>3
      <3>5. KeyChosen'
        BY <3>1, <3>2, <3>3
      <3>6. (RrDefFixed /\ CredDefFresh /\ CredDefRowsAgree)'
        BY <3>1, <3>2, <3>3
      <3>7. QED
        BY <3>4, <3>5, <3>6
    <2>3. QED
      BY <2>1, <2>2
  <1>3. ASSUME NEW p \in Callers, SchemaStore(p) PROVE RInv'
    BY <1>3 DEF SchemaStore, StateOf
  <1>4. ASSUME NEW p \in Callers, CredDefRegister(p) PROVE RInv'
    BY <1>4 DEF CredDefRegister
  <1>5. ASSUME NEW p \in Callers, CredDefStore(p) PROVE RInv'
    BY <1>5 DEF CredDefStore, StateOf
  <1>6. ASSUME NEW kind \in Kinds, FinishRegistration(kind) PROVE RInv'
    BY <1>6 DEF FinishRegistration, Rekeyable, Rekey, CatsOf
  <1>7. CASE FinishRevRegDef
    BY <1>7 DEF FinishRevRegDef
  <1>8. CASE Terminated \/ UNCHANGED vars
    BY <1>8 DEF Terminated, vars
  <1>9. QED
    BY <1>1, <1>2, <1>3, <1>4, <1>5, <1>6, <1>7, <1>8 DEF Next

(* The inductive invariant holds in every reachable state. *)
THEOREM RInvariant == Spec => []RInv
  BY InitRInv, NextRInv, PTL DEF Spec

(* Every variable of the registration model keeps its type, for any number *)
(* of concurrent create_and_register_schema callers.                       *)
THEOREM RegistrationTypeCorrect == Spec => []TypeOK
  BY RInvariant, PTL DEF RInv

(* create_and_register_credential_definition and finish_cred_def keep the *)
(* credential definition, its private part and its key proof in the same  *)
(* state under every key, whatever the registrar answers and however the  *)
(* finish event interleaves with the store.                                *)
THEOREM CredDefRowsTogether == Spec => []CredDefRowsAgree
  BY RInvariant, PTL DEF RInv

-----------------------------------------------------------------------------
(***************************************************************************)
(* One schema task.                                                        *)
(***************************************************************************)
LEMMA InitSInv ==
    ASSUME NEW sc, SchemaCallers = {sc}
    PROVE  Init => SInv
  BY InitRInv DEF Init, SInv, SchemaFresh, NoDuplicateEntry, Cats, Keys

LEMMA NextSInv ==
    ASSUME NEW sc, SchemaCallers = {sc}
    PROVE  SInv /\ [Next]_vars => SInv'
  <1> SUFFICES ASSUME SInv, [Next]_vars PROVE SInv'
    OBVIOUS
  <1>1. RInv'
    BY NextRInv DEF SInv
  <1> USE DEF SInv, RInv, TypeOK, KeyChosen, CredDefFresh, SchemaFresh,
              NoDuplicateEntry, Callers, Cats, CredDefCats, Keys, EntryStates,
              Kinds
  <1>2. ASSUME NEW p \in Callers, SchemaCheck(p) PROVE SInv'
    BY <1>1, <1>2 DEF SchemaCheck
  <1>3. ASSUME NEW p \in Callers, SchemaRegister(p) PROVE SInv'
    BY <1>1, <1>3 DEF SchemaRegister
  <1>4. ASSUME NEW p \in Callers, SchemaStore(p) PROVE SInv'
    BY <1>1, <1>4 DEF SchemaStore, StateOf
  <1>5. ASSUME NEW p \in Callers, CredDefRegister(p) PROVE SInv'
    BY <1>1, <1>5 DEF CredDefRegister
  <1>6. ASSUME NEW p \in Callers, CredDefStore(p) PROVE SInv'
    BY <1>1, <1>6 DEF CredDefStore, StateOf
  <1>7. ASSUME NEW kind \in Kinds, FinishRegistration(kind) PROVE SInv'
    BY <1>1, <1>7 DEF FinishRegistration, Rekeyable, Rekey, CatsOf
  <1>8. CASE FinishRevRegDef
    BY <1>1, <1>8 DEF FinishRevRegDef
  <1>9. CASE Terminated \/ UNCHANGED vars
    BY <1>1, <1>9 DEF Terminated, vars
  <1>10. QED
    BY <1>2, <1>3, <1>4, <1>5, <1>6, <1>7, <1>8, <1>9 DEF Next

(* When one task registers the schema, no schema or credential definition *)
(* is ever stored under both its job id and its registered id: the         *)
(* duplicate check of create_and_register_schema runs before any entry     *)
(* exists, and _finish_registration removes the job entry in the          *)
(* transaction that inserts the registered one.  Two concurrent tasks break *)
(* this (run registration_duplicate), so the hypothesis is needed.         *)
THEOREM SingleSchemaTaskNoDuplicate ==
    ASSUME NEW sc, SchemaCallers = {sc}
    PROVE  Spec => []NoDuplicateEntry
  <1>1. Init => SInv
    BY InitSInv
  <1>2. SInv /\ [Next]_vars => SInv'
    BY NextSInv
  <1>3. QED
    BY <1>1, <1>2, PTL DEF Spec, SInv
=============================================================================
