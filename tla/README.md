# Formal models of the AnonCreds revocation core

This directory holds TLA+ models of the revocation core of
`src/aries_cloudagent`. The models are checked with TLC, and the
index, lifecycle and registration models also have TLAPS proofs. The core is four cooperating
parts. All of them keep their state in an Askar store, which is a
transactional key-value store whose `fetch(..., for_update=True)` locks a
row until commit. All of them run as asyncio coroutines, so they can
interleave at every `await`.

| Part (spec section) | Code | Module |
|---|---|---|
| Index Allocator (4.2) | `AnonCredsIssuer.create_credential`, `anoncreds/issuer.py` 823-969 | `RevRegIndex` |
| Revocation Batch Engine (4.3) | `AnonCredsIssuer.revoke_credentials`, `issuer.py` 971-1133 | `RevRegIndex` |
| Registry Definition Manager (4.1) | `init_issuer_registry`, `handle_full_registry` (`revocation/anoncreds.py` 32-108); `create_and_register_revocation_registry_definition`, `create_and_register_revocation_list` (`issuer.py` 509-628, 714-778) | `RevRegLifecycle`, refining `RevRegSeries` |
| Active Registry Selector (4.4) | `get_active_issuer_rev_reg_record`, `get_or_create_active_registry` (`revocation/anoncreds.py` 110-173) | `RevRegLifecycle` |
| Object registration, job-id re-keying (4.1) | `_store_schema`, `create_and_register_schema`, `create_and_register_credential_definition`, `finish_schema`, `finish_cred_def`, `_finish_registration`, `_update_entry_state` (`issuer.py` 124-424, 680-690) | `Registration` |

The parts interact like this:
- Issuance reserves an index in a registry's `REV_REG_INFO` row (`curr_id`).
- When the registry is full, the caller calls `handle_full_registry`. That
  marks the registry full and creates a successor record.
- The successor's init event drives generation of its definition and then
  its status list, after which the record is active.
- Revocation reads the status list and `REV_REG_INFO`, computes a new list,
  and commits both. It uses a compare-and-retry loop against concurrent
  issuance and concurrent revocation.

## Modules

### `RevRegIndex`: index allocation and batch revocation on one registry

State:
- The store: `currId` is `curr_id`, `usedIds` is `used_ids`, and `revList`
  is the status list, abstracted to the set of indices it marks revoked.
- Each issuer call has a program counter `ipc` and its reserved index `idx`.
- Each revoker call keeps the locals of `revoke_credentials`:
  - the attempt counter;
  - the list and the `rev_reg_info` it read;
  - the eligible indices and the failed ones;
  - `prev_list` and `updated_list`, which survive across attempts as they
    do in the code;
  - the outcome.

Actions:
- `ReserveIndex`: the whole for-update transaction of lines 884-933.
- `RegistryFull`: the `RegistryFull` error of lines 925-928.
- `IssueCredential` and `CreateCredentialFails`: the two outcomes of the
  executor call at 939-969. The index is consumed even when creation fails.
- The revoker steps, one per `await` between store accesses:
  - `RevokeGiveUp`: the attempt check, 998-1003.
  - `RevokeReadList`: the session fetch of the list, 1009.
  - `RevokeNothingToDo`: the fetch of `rev_reg_info` and a partition that
    leaves nothing eligible, which breaks the loop (1012-1073).
  - `RevokeCompute`: the same fetch and partition with indices eligible,
    followed by the list update, 1012-1093.
  - `RevokeUpdateRaises`: the list update raising, 1080-1093.
  - `RevokeConflict`: the commit transaction finding `rev_reg_info`
    changed, 1095-1113.
  - `RevokeCommit`: the commit transaction succeeding, 1095-1133.
- `Eligible` and `Rejected` are the partition of lines 1037-1070.

The constant `StatusListUpdateRaises` says whether the list update raises.
Line 1084 calls `time.time()`, but `time` is the function imported at line
7, so as written every update raises `AttributeError`. The "as is" runs set
it TRUE. The "fixed" runs set it FALSE, to examine what the loop would do
once that line is corrected.

### `RevRegIndexState`: what the index bookkeeping promises

This is the abstract specification of one registry's index state, written
from spec.md (section 2, RegistryIndexState, and sections 4.2 and 4.3), not
from code. It has no processes, sessions or retries, only three variables:
- `current`, the highest index allocated;
- `delivered`, the indices handed out in a credential;
- `revoked`, the revoked set.

Its three steps:
- `Allocate` raises `current` by one, within capacity.
- `Deliver(x)` hands out an allocated index that was not handed out before.
- `Revoke(batch)` adds a non-empty batch of allocated, not yet revoked
  indices to `revoked`.

`RevRegIndex` instantiates it as `IndexState`, mapping `current` to
`curr_id`, `delivered` to the indices of the credentials returned, and
`revoked` to `used_ids`. The property `ImplementsIndexState ==
IndexState!Spec` says that every step of the detailed model is a step of
the abstract one or leaves all three alone. The status list is not part of
the mapping: the lost revocation (`MCRevRegIndex_lostrevocation`) shows it
can lose an index, which no abstract step allows.

### `RevRegLifecycle`: the registries of one credential definition

State:
- Records are numbered in creation order, so the oldest is the least
  number. Each has a state (`none`, `init`, `posted`, `active`, `full`) and
  the full registry it succeeds, `pred`.
- `defs` holds the ids with definition rows and `lists` the ids with a
  status-list row.
- Workers run `handle_full_registry` and `get_or_create_active_registry`.
- Each init event gets a handler task (`gen`).
  - The task runs the generation: its store transaction is `GenStore`,
    and saving the record as posted is `GenSave`.
  - It then runs the list creation: the list insert is `ListStore`, and
    saving the record as active is `ListSave`.
  - Chaining the two steps is the work of the event handler, which is
    outside this repository.
- `Restart` models an agent restart. Every in-memory task and pending
  event is lost. The store and the saved records survive.

The constants select the behaviour under study:
- `GetOrCreateAsIs` selects the as-written call at line 169, which raises
  `TypeError`, or the corrected one.
- `EndorserMayFail` lets the endorser lookup at 74-77 fail after the record
  was saved.

### `RevRegSeries`: what the registry lifecycle promises

This is the abstract specification of the registries of one credential
definition, written from spec.md (section 2, RegistryDefinition, and
section 4.1), not from code. Its variables are the store variables of
`RevRegLifecycle`: `recState`, `nRecs`, `pred`, `defs` and `lists`.

Its steps:
- `Create(p)` adds a registry in state init. It is fresh (`p = 0`) or the
  successor of a full registry `p` that has no successor yet.
- `StoreDefinition(r)` stores an init registry's definition, and `Post(r)`
  makes it posted once the definition is stored.
- `StoreList(r)` stores a posted registry's status list, and `Activate(r)`
  makes it active once the list is stored.
- `MarkFull(r)` makes an active registry full.

`RevRegLifecycle` instantiates it as `Series`, with every variable mapped
to itself. Workers, handler tasks and restarts are hidden. The property
`ImplementsSeries == Series!Spec` is checked in
`MCRevRegLifecycle_restart`.

### `Registration`: storing registered objects and re-keying them

The model covers one schema and one credential definition. The wallet holds
an entry per category and per key (the job id or the registered id). An
entry is either absent or has a state tag, `wait` or `finished`.

The registrar's answers:
- It answers a fresh registration with the id or with a job id.
- A job id comes with a finish event to be delivered later.
- A second registration of the same schema raises
  `AnonCredsSchemaAlreadyExists`.

The actions:
- `SchemaCheck`, `SchemaRegister` and `SchemaStore` are the three awaits of
  `create_and_register_schema`.
- `CredDefRegister` and `CredDefStore` are the two awaits of
  `create_and_register_credential_definition`.
- `FinishRegistration` is the one transaction of `finish_schema` and
  `finish_cred_def`.
- `FinishRevRegDef` is `_update_entry_state` as written.

## Runs

Every cfg starts with a one-line comment saying what it checks.

| Run | Expect | Checks | What it shows |
|---|---|---|---|
| `MCRevRegIndex_fixed` | pass | `TypeOK`, `StatusListSound`, `RevokedWereReserved`, `RevokeAccountsForRequest`, `ImplementsIndexState` | 2 issuers × 2 revokers, capacity 4, four request batches including out-of-range ones. The status list marks only recorded revocations, only reserved indices are recorded, and every normal return accounts for each requested index. Issuance and revocation together refine the abstract index state: `used_ids` never loses an index to a concurrent revoker. |
| `MCRevRegIndex_asis` | pass | `TypeOK`, `IndexAccounting`, `FullOnlyWhenExhausted`, `ImplementsIndexState` | Concurrent reservations consume every index exactly once, whether issued or skipped, with capacity 3 so that `RegistryFull` happens. A call is told the registry is full only once every index up to `max_cred_num` is taken, so the boundary check at line 925 strands no index. Issuance as written refines the abstract index state. |
| `MCRevRegIndex_crash` | violation | `RevokeNeverCrashes` | The `AttributeError` at line 1084. |
| `MCRevRegIndex_lostrevocation` | violation | `StatusListComplete` | A torn session read loses a committed revocation from the status list. |
| `MCRevRegIndex_staleresult` | violation | `RevokeResultCommitted` | A retry that finds nothing to do returns the list of an abandoned attempt. |
| `MCRevRegIndex_attempts` | violation | `ConflictOnlyAfterSpecAttempts` | Only four attempts are made, not the spec's five. |
| `MCRevRegLifecycle_asis` | pass | `TypeOK`, `RecordBackedByStore`, `AtMostOneSuccessor` | The code as written: two workers, up to 3 records, an endorser lookup that may fail, and line 169 raising. |
| `MCRevRegLifecycle_restart` | pass | `TypeOK`, `RecordBackedByStore`, `AtMostOneSuccessor`, `ImplementsSeries` | The same safety properties with one restart anywhere, a failing endorser lookup, and line 169 corrected (so fresh registries are created). The lifecycle refines the registry series, so record states advance in order. |
| `MCRevRegLifecycle_nosuccessor` | violation | `SuccessorForEveryFull` | A restart between marking full and creating the successor. |
| `MCRegistration_store` | pass | `TypeOK`, `CredDefRowsAgree`, `NoDuplicateEntry` | Either registrar answer, with re-keying: the three cred def rows move together, and no entry is duplicated. |
| `MCRegistration_duplicate` | violation | `NoDuplicateEntry` | Two concurrent schema registrations store the schema under both keys. |
| `MCRegistration_finishorder` | violation | `EventuallyFinished` | A finish event handled before the store strands the entry under its job id. |

Two defects show up in a single sequential call, so a unit test reaches
them and no run is spent on them. The model carries both:
- `get_or_create_active_registry` calls `init_issuer_registry(cred_def_id,
  max_cred_num=...)` at line 169. That omits the required `cred_def_id`, so
  the call raises `TypeError`. This is action `QueryCreateTypeError`, taken
  in `MCRevRegLifecycle_asis`.
- `_update_entry_state` replaces the entry in `CATEGORY_SCHEMA` instead of
  the category it fetched from (`issuer.py` line 140). As a result,
  `finish_revocation_registry_definition` always fails. This is action
  `FinishRevRegDef`.

A third path is taken but not checked by a property. An author whose
endorser lookup fails (lines 74-77) leaves its saved init record with no
init event, so the record is never generated, and later calls of
`get_or_create_active_registry` keep retrying. This is `InitEndorserFails`,
taken in both lifecycle runs. It is listed as a hazard with no covering
run: the liveness run it needs would exceed the project's run budget.

`PROJECT.json` records what each violation shows (`findings`), and a mutant
for every property of every passing run. A mutant is a plausible bug in a
mapped definition that TLC must then catch.

### Bounds

The bounds are as small as possible while still reaching every branch.
- **Index model.**
  - Capacity 3-4 with two issuers reaches `RegistryFull`, a skipped index
    and two concurrent reservations.
  - The request batches include 0 and 5, which are out of range, and an
    index not yet issued.
  - Two revokers can overlap in every order.
  - With `MaxAttempt` 5, one issuer can force enough conflicts to exhaust
    the retries.
- **Lifecycle model.**
  - `MaxRecs` 3 allows two successors of one registry, which is the case
    `AtMostOneSuccessor` must exclude.
  - Once the bound is used up, `Terminated` lets the model stop.
- **Registration model.** It is small enough to explore completely in a
  second.

### Fairness

Only `Registration` has a liveness property (`EventuallyFinished`), which
is checked under `FairSpec`. The fairness is weak fairness on the steps of
a call already in progress and on each delivered event's handler. That is
what asyncio gives: every task whose awaited I/O completes is resumed.
Starting a call is the caller's choice and is not fair.

## What is proved

The proofs hold for every value of the constants. The assumptions are the
named `ASSUME`s of the modules:
- `RevRegIndex`: positive capacity and attempt bound, batches of integers,
  and initial counters within capacity.
- `RevRegLifecycle`: `ConstantsAssumption`, which says the bounds are
  natural numbers and the switches Boolean.
- `Registration`: `RegistrationAssumption`, which says the cred def caller
  is not a schema caller and the registrar answers `finished` or `wait`.

### `RevRegIndexProofs`

This module covers any capacity, attempt bound, and number of concurrent
issuers and revokers. It proves:
- `TypeCorrect`: `Spec => []TypeOK`.
- `StatusListSoundness`: `Spec => [](StatusListSound /\ RevokedWereReserved)`.
- `IndexAccountingHolds`: `Spec => []IndexAccounting`.
- `FullExhausted`: `Spec => []FullOnlyWhenExhausted`. It rests on `IInv`
  and `FullAtCapacity`, which is inductive on top of it. `full` is never
  left, `RegistryFull` needs `curr_id + 1 > max_cred_num`, and no
  reservation goes past `max_cred_num`. So a full call implies
  `curr_id = max_cred_num`, and `IndexAccounting` then covers every index.
- `RevokeAccounting`: `Spec => []RevokeAccountsForRequest`.
- `RevokedReserved`: `Spec => []RevokedWereReserved`, stated on its own.
- `Refinement`: `Spec => ImplementsIndexState`, that is, the detailed model
  implements `RevRegIndexState`.

None of these invariants is inductive by itself. A revoker commits a list
it built from an older read. The inductive invariant `IInv` therefore adds:
- every list a revoker has read is still covered by `used_ids`, because
  `used_ids` only grows (`SnapsCovered`);
- a revoker about to commit holds:
  - exactly its read list plus its eligible indices;
  - a non-empty set of eligible indices;
  - indices that were reserved and not yet revoked when it read
    `rev_reg_info`;
  - every requested index among its eligible indices or in `failed`
    (`CommitShape`);
- a revoker that has not returned has no outcome yet (`OutcomeAtEnd`), so
  `RevokeAccountsForRequest` only constrains finished calls;
- an issuer in creation holds an index in range (`ReservedIdx`);
- a running revoker's attempt counter is below the bound (`AttemptBound`);
- `IndexAccounting` itself, which is inductive once the type is known.

The proofs are laid out as follows:
- `InitIInv` proves `Init => IInv`, and `NextIInv` proves
  `IInv /\ [Next]_vars => IInv'`.
- `NextIInv` uses one lemma per process kind, with one case per action.
- `InFlightGrows` and `InFlightShrinks` give the set of in-flight indices
  after a reservation or a finished creation.
- `PartitionFacts` states what the partition returns.

The refinement proof follows the standard pattern:
- `InitRefines` maps the initial state to an initial state.
- `StepRefines` maps every step, under `IInv`:
  - `ReserveIndex` is `Allocate`;
  - `IssueCredential` is `Deliver(idx[i])`. `IndexAccounting` shows the
    index is reserved and was not handed out before.
  - `RevokeCommit` is `Revoke(elig[r])`. The commit's compare shows that
    `rev_reg_info` is the one read, so `CommitShape` applies to the current
    state.
  - every other step is a stutter.
- The temporal step is PTL.

The refinement proof is the argument that the optimistic compare at lines
1108-1113 does the work of a lock for `used_ids`: dropping it (mutant
`RevokeCommitBlind`) lets a revoker write back a `used_ids` that misses a
concurrent revoker's indices.

### `RevRegLifecycleProofs`

This module covers any number of workers, records and restarts. It proves:
- `LifecycleTypeCorrect`: `Spec => []TypeOK`.
- `RecordBacked`: `Spec => []RecordBackedByStore`.
- `SingleSuccessor`: `Spec => []AtMostOneSuccessor`.
- `SeriesRefinement`: `Spec => ImplementsSeries`, that is, the lifecycle
  implements `RevRegSeries`.

The inductive invariant `LInv` adds:
- `Fresh`: ids beyond `nRecs` are unused.
- `HandlerShape`: what each stage of a record's handler task has already
  written. A task about to save the record as posted finds its definition
  rows, and one about to save it as active finds its list.
- `NotifyShape`: a worker between the save and the notify of
  `init_issuer_registry` holds a fresh init record no handler has yet.
- `SuccessorShape`:
  - only a full registry has a successor, or a worker about to create one,
    and `full` is never left;
  - successors and creating workers are unique per registry.

This is why `handle_full_registry`, which requires the registry to be
active under its for-update fetch, cannot start a second successor.
`AtMostOneSuccessor` counts with `Cardinality`. The lemma
`AtMostOneElement`, resting on `FS_EmptySet` and `FS_Singleton` of
`FiniteSetTheorems`, turns uniqueness into that count.

To keep the proofs free of `CHOOSE`, `GetActive` is written as "some
active record no greater than every active record". That has the same
single successor state as the `CHOOSE` of the least one.

`SeriesRefinement` maps each step to the series action on the same store
variable:
- `InitSave` is `Create` of the worker's predecessor. By
  `SuccessorShape`, that predecessor is 0 or a full registry without a
  successor.
- `HandleFull` is `MarkFull`.
- `GenStore`, `GenSave`, `ListStore` and `ListSave` are
  `StoreDefinition`, `Post`, `StoreList` and `Activate`. `HandlerShape`
  gives the state and the rows each of them needs.
- Every other step leaves the store unchanged.

### `RegistrationProofs`

This module covers any set of schema callers and any registrar answers.
It proves:
- `RegistrationTypeCorrect`: `Spec => []TypeOK`.
- `CredDefRowsTogether`: `Spec => []CredDefRowsAgree`.
- `SingleSchemaTaskNoDuplicate`: with `SchemaCallers = {sc}`,
  `Spec => []NoDuplicateEntry`.

The inductive invariant `RInv` adds three conjuncts:
- `KeyChosen`: a caller about to store has a key. Without it, the store's
  `entry[c][key[p]]` breaks even the type.
- `RrDefFixed`: the revocation registry definition's entry never changes.
  This is because `_update_entry_state` as written always fails.
- `CredDefFresh`: before the cred def caller stores, no cred def row
  exists. `_finish_registration` needs a job entry, and only the store
  makes one.

`CredDefRowsAgree` is then inductive, because the store writes the three
rows together and `Rekeyable` asks the same of all three.

For `NoDuplicateEntry`, `SInv` adds `SchemaFresh`: the schema has no
entry until its task stores it. This needs a single schema task. With two
tasks, both pass the duplicate check before either stores, and run
`MCRegistration_duplicate` shows the resulting duplicate. The hypothesis
is therefore the exact condition under which the property holds, not a
convenience.

### What is only model-checked

- **Liveness** (`EventuallyFinished`). Liveness and
  `ENABLED` are out of TLAPS's reach here.
- **`NoDuplicateEntry` with several schema tasks.** It is false there, and
  TLC shows the counterexample (`MCRegistration_duplicate`).
- **The violation runs' properties.** They are findings, not theorems.

## What is not modelled

- **The AnonCreds registry dispatch (`anoncreds/anoncreds/registry.py`).**
  - It is not the registry the core uses. `issuer.py` (line 38) and
    `revocation/anoncreds.py` (line 6) import `AnonCredsRegistry` from
    `anoncreds/registry.py`, which is a different file.
  - `issuer.py` line 755 calls `register_revocation_list(profile,
    rev_reg_def, rev_list, options)`, a method this class lacks. The class
    has `register_revocation_status_list(profile, rev_status_list,
    options)` instead.
  - Composing this class with the core would therefore be a guess.
  - On its own, it appends handlers to two lists and filters them with
    their `supports()`, which is implemented outside `src/`.
  - Its failures all happen in one call, which a unit test reaches:
    - `IndexError` on no match (lines 60 and 74);
    - an error on two matches;
    - the literal identifier `"something"` at line 159.
- **The Indy present-proof format handler, the attachment data record, and
  the unit tests of other packages.** These are request validation, record
  schemas and test code, with no shared state with the core.
- **Cryptography.** `Credential.create`, `RevocationRegistryDefinition.create`
  and `RevocationStatusList.update` are opaque library calls. They appear
  only through their success or failure.
- **Read-only queries** (`get_created_*`, `match_created_*`) and tails-file
  upload.

## Plan

1. Compose `RevRegIndex` with `RevRegLifecycle`. Issuance on a full
   registry would then drive `handle_full_registry`. This caller is
   described by spec section 4.2, but it is not in `src/`, so it would be
   modelled from the spec.
2. Check that every `revoke_credentials` call returns, under weak fairness
   of the revoker steps. This needs a smaller instance than
   `MCRevRegIndex_fixed` for liveness checking.
