---------------------------- MODULE Registration ----------------------------
(***************************************************************************)
(* Storing registered objects and re-keying them from the registrar's job  *)
(* id to their registered id (anoncreds/issuer.py): create_and_register_   *)
(* schema with _store_schema, finish_schema, create_and_register_          *)
(* credential_definition, finish_cred_def, both through                   *)
(* _finish_registration, and finish_revocation_registry_definition through *)
(* _update_entry_state.                                                    *)
(*                                                                         *)
(* One schema and one credential definition.  The wallet holds, per        *)
(* category and per key (the job id or the registered id), either no entry *)
(* or an entry whose state tag is "wait" or "finished".  The remote         *)
(* registrar answers a fresh registration with the id (finished) or a job  *)
(* id (wait), in which case it later delivers a finish event; a second     *)
(* registration of the same schema raises AnonCredsSchemaAlreadyExists.    *)
(***************************************************************************)
EXTENDS Naturals, FiniteSets

CONSTANTS
    SchemaCallers,   \* concurrent callers of create_and_register_schema
    CredDefCaller,   \* the caller of create_and_register_credential_definition
    RegOutcomes      \* the registrar's answers to a fresh registration

ASSUME RegistrationAssumption ==
    /\ CredDefCaller \notin SchemaCallers
    /\ RegOutcomes \subseteq {"finished", "wait"}
    /\ RegOutcomes # {}

VARIABLES
    entry,    \* entry[cat][key]: "absent", "wait" or "finished"
    ledger,   \* the kinds of object the registrar already holds
    events,   \* kinds with a finish event delivered and not yet handled
    pc,       \* per caller: where it is in its call
    key,      \* per caller: the key it will store under
    out,      \* per caller: how its call ended
    rrOut     \* how finish_revocation_registry_definition ended

vars == <<entry, ledger, events, pc, key, out, rrOut>>

Callers == SchemaCallers \cup {CredDefCaller}
Cats == {"schema", "cdef", "cdefpriv", "cdefkp", "rrdef"}
CredDefCats == {"cdef", "cdefpriv", "cdefkp"}
Keys == {"job", "id"}
EntryStates == {"absent", "wait", "finished"}
Kinds == {"schema", "creddef"}

(* The categories an object of a kind is stored in. *)
CatsOf(kind) == IF kind = "schema" THEN {"schema"} ELSE CredDefCats

(* Mutant: the job entry is tagged with a state name the code never uses. *)
StateOfPending(k) == IF k = "job" THEN "pending" ELSE "finished"

(* The state tag the registrar's answer gives the stored entry. *)
StateOf(k) == IF k = "job" THEN "wait" ELSE "finished"

Init ==
    /\ entry = [c \in Cats |-> [k \in Keys |->
                   IF c = "rrdef" /\ k = "id" THEN "wait" ELSE "absent"]]
    /\ ledger = {}
    /\ events = {}
    /\ pc = [p \in Callers |-> "start"]
    /\ key = [p \in Callers |-> "none"]
    /\ out = [p \in Callers |-> "none"]
    /\ rrOut = "none"

-----------------------------------------------------------------------------
(* create_and_register_schema, lines 195-268.                              *)

(* Lines 216-233: a session looks for a stored schema with this name,     *)
(* version and issuer, under any key; finding one raises.                 *)
SchemaCheck(p) ==
    /\ pc[p] = "start"
    /\ p \in SchemaCallers
    /\ IF \E k \in Keys : entry["schema"][k] # "absent"
         THEN /\ pc' = [pc EXCEPT ![p] = "done"]
              /\ out' = [out EXCEPT ![p] = "exists"]
         ELSE /\ pc' = [pc EXCEPT ![p] = "register"]
              /\ UNCHANGED out
    /\ UNCHANGED <<entry, ledger, events, key, rrOut>>

(* Lines 235-241: register remotely.  A fresh schema is registered with   *)
(* the id or a job id (and a finish event to come); one the registrar     *)
(* holds raises AnonCredsSchemaAlreadyExists, whose handler (248-264)     *)
(* stores it as finished under the id and then raises.                    *)
SchemaRegister(p) ==
    /\ pc[p] = "register"
    /\ p \in SchemaCallers
    /\ IF "schema" \in ledger
         THEN /\ key' = [key EXCEPT ![p] = "id"]
              /\ pc' = [pc EXCEPT ![p] = "storeExisting"]
              /\ UNCHANGED <<ledger, events>>
         ELSE \E o \in RegOutcomes :
              /\ ledger' = ledger \cup {"schema"}
              /\ key' = [key EXCEPT ![p] = IF o = "wait" THEN "job" ELSE "id"]
              /\ events' = IF o = "wait" THEN events \cup {"schema"} ELSE events
              /\ pc' = [pc EXCEPT ![p] = "store"]
    /\ UNCHANGED <<entry, out, rrOut>>

(* _store_schema, lines 170-193: insert under the id or the job id, with  *)
(* the registrar's state tag; an existing name makes the insert fail.     *)
SchemaStore(p) ==
    /\ pc[p] \in {"store", "storeExisting"}
    /\ p \in SchemaCallers
    /\ pc' = [pc EXCEPT ![p] = "done"]
    /\ IF entry["schema"][key[p]] # "absent"
         THEN /\ out' = [out EXCEPT ![p] = "error"]
              /\ UNCHANGED entry
         ELSE /\ entry' = [entry EXCEPT !["schema"][key[p]] = StateOf(key[p])]
              /\ out' = [out EXCEPT ![p] =
                           IF pc[p] = "store" THEN "ok" ELSE "error"]
    /\ UNCHANGED <<ledger, events, key, rrOut>>

-----------------------------------------------------------------------------
(* create_and_register_credential_definition, lines 320-412.              *)

(* Lines 340-375: create the definition and register it remotely.         *)
CredDefRegister(p) ==
    /\ pc[p] = "start"
    /\ p = CredDefCaller
    /\ \E o \in RegOutcomes :
         /\ ledger' = ledger \cup {"creddef"}
         /\ key' = [key EXCEPT ![p] = IF o = "wait" THEN "job" ELSE "id"]
         /\ events' = IF o = "wait" THEN events \cup {"creddef"} ELSE events
    /\ pc' = [pc EXCEPT ![p] = "store"]
    /\ UNCHANGED <<entry, out, rrOut>>

(* Lines 377-412: one transaction inserts the definition, its private     *)
(* part and its key proof under the id or the job id.                     *)
CredDefStore(p) ==
    /\ pc[p] = "store"
    /\ p = CredDefCaller
    /\ pc' = [pc EXCEPT ![p] = "done"]
    /\ IF \E c \in CredDefCats : entry[c][key[p]] # "absent"
         THEN /\ out' = [out EXCEPT ![p] = "error"]
              /\ UNCHANGED entry
         ELSE /\ entry' = [c \in Cats |->
                             IF c \in CredDefCats
                               THEN [entry[c] EXCEPT ![key[p]] = StateOf(key[p])]
                               ELSE entry[c]]
              /\ out' = [out EXCEPT ![p] = "ok"]
    /\ UNCHANGED <<ledger, events, key, rrOut>>

-----------------------------------------------------------------------------
(* _finish_registration, lines 147-168, for each category of the object,  *)
(* in one transaction (finish_schema 268-272, finish_cred_def 414-424):    *)
(* the job entry must exist, its copy is inserted under the registered id *)
(* tagged finished, and the job entry is removed.  Any failure raises and *)
(* the transaction is not committed.                                      *)
Rekeyable(cats) ==
    \A c \in cats : entry[c]["job"] # "absent" /\ entry[c]["id"] = "absent"

(* Mutant: the key proof row is not moved to the registered id.          *)
RekeyNoKeyProof(cats) ==
    [c \in Cats |-> IF c \in cats \ {"cdefkp"}
                      THEN [job |-> "absent", id |-> "finished"]
                      ELSE entry[c]]

(* Mutant: the job entry is not removed after the copy is inserted.       *)
RekeyKeepJob(cats) ==
    [c \in Cats |-> IF c \in cats THEN [job |-> entry[c]["job"], id |-> "finished"]
                                  ELSE entry[c]]

Rekey(cats) ==
    [c \in Cats |-> IF c \in cats THEN [job |-> "absent", id |-> "finished"]
                                  ELSE entry[c]]

FinishRegistration(kind) ==
    /\ kind \in events
    /\ events' = events \ {kind}
    /\ entry' = IF Rekeyable(CatsOf(kind)) THEN Rekey(CatsOf(kind)) ELSE entry
    /\ UNCHANGED <<ledger, pc, key, out, rrOut>>

(* finish_revocation_registry_definition, lines 680-690, through           *)
(* _update_entry_state, lines 124-145: fetch the definition for update,    *)
(* then replace the entry of that name in CATEGORY_SCHEMA.  No schema has  *)
(* a revocation registry definition's id as its name, so Askar raises and  *)
(* the error is wrapped; the definition's state tag is left as it was.     *)
FinishRevRegDef ==
    /\ rrOut = "none"
    /\ entry["rrdef"]["id"] # "absent"
    /\ rrOut' = "error"
    /\ UNCHANGED <<entry, ledger, events, pc, key, out>>

(* Every call has returned and every event was handled: nothing is left   *)
(* to do.                                                                  *)
Terminated ==
    /\ \A p \in Callers : pc[p] = "done"
    /\ events = {}
    /\ rrOut # "none"
    /\ UNCHANGED vars

-----------------------------------------------------------------------------
Next ==
    \/ \E p \in Callers :
         SchemaCheck(p) \/ SchemaRegister(p) \/ SchemaStore(p)
           \/ CredDefRegister(p) \/ CredDefStore(p)
    \/ \E kind \in Kinds : FinishRegistration(kind)
    \/ FinishRevRegDef
    \/ Terminated

(* Each call in progress continues, and a delivered finish event is        *)
(* handled: asyncio runs every ready task.                                 *)
Fairness ==
    /\ \A p \in Callers :
         WF_vars(SchemaCheck(p) \/ SchemaRegister(p) \/ SchemaStore(p)
                   \/ CredDefRegister(p) \/ CredDefStore(p))
    /\ \A kind \in Kinds : WF_vars(FinishRegistration(kind))

Spec == Init /\ [][Next]_vars
FairSpec == Spec /\ Fairness

-----------------------------------------------------------------------------
TypeOK ==
    /\ entry \in [Cats -> [Keys -> EntryStates]]
    /\ ledger \subseteq Kinds
    /\ events \subseteq Kinds
    /\ pc \in [Callers -> {"start", "register", "store", "storeExisting", "done"}]
    /\ key \in [Callers -> Keys \cup {"none"}]
    /\ out \in [Callers -> {"none", "ok", "exists", "error"}]
    /\ rrOut \in {"none", "error", "ok"}

(* The credential definition, its private part and its key proof are      *)
(* stored, and re-keyed, together: under every key the three categories   *)
(* hold the same state (one transaction in lines 377-412 and in           *)
(* finish_cred_def, lines 414-424).                                        *)
CredDefRowsAgree ==
    \A k \in Keys : \A c1, c2 \in CredDefCats : entry[c1][k] = entry[c2][k]

(* Spec 4.1: the entry under the temporary job id is atomically replaced  *)
(* by one under the registered id, never left as a duplicate.             *)
NoDuplicateEntry ==
    \A c \in Cats : ~(entry[c]["job"] # "absent" /\ entry[c]["id"] # "absent")

(* Spec 4.1: an object the registrar answered with a job id is later      *)
(* re-keyed to its registered id: once its finish event is delivered, it *)
(* is eventually stored under the registered id, finished.                *)
EventuallyFinished ==
    \A kind \in Kinds :
        kind \in events ~> \A c \in CatsOf(kind) : entry[c]["id"] = "finished"

=============================================================================
