# Sovereign Classifier: specifications

TLA+ models of the classifier's backend, its CI/CD gate and its discovery
connectors, the TLC runs that check them on small instances, and TLAPS proofs
for every instance. Paths below are relative to `src/`.

## 1. The system

A company's infrastructure is discovered and classified; a transfer of one of
its entities to a cloud destination is decided by two legal gates; decisions
that need a human are reviewed within a deadline; a CI/CD gate asks for a
decision about everything a repository is about to deploy; and the history of
decisions is exported as evidence.

| Component | State it keeps | Operations | Hard behaviour |
|---|---|---|---|
| Policy engine (`app/policy/engine.py`, `lookup_tables.py`, `status_resolution.py`) | none (pure; two tables) | `decide_transfer`, `resolve_transfer_status` | the order of the gates; failing closed |
| Transfer handlers (`app/api/routes.py`, `app/db/repository.py`) | `TRANSFER_REQUEST`, `POLICY_DECISION`, `AUTHORIZATION_REQUEST`, `CLASSIFICATION_EVIDENCE`, `DEPLOYMENT_ACTION` | request, poll, deploy, resolve a review | each handler is up to six transactions; threads interleave, deadlines pass, requests die |
| Ingestion (`app/ingestion/pipeline.py`, `app/graph/repository.py`) | `COMPANY`, `ENTITY`, `CANONICAL_SCHEMA`; Neo4j nodes and edges | `POST /ingest` | two databases without a common transaction; concurrent ingestion of one entity |
| CI/CD gate (`scripts/run_pipeline_interceptor.py`, `app/interceptor/cli.py`, `api_client.py`, `assembler.py`) | none of its own; a run's lists | ingest everything, ask about everything, exit 0 or 1 | calls fail or time out after having been carried out; the company and the schemas change meanwhile |
| IaC parsers (`app/interceptor/iac/`) | none | files to `DiscoveredResource`s | correlation between blocks; bad blocks; errors that nothing catches; missing attributes |
| Cloud discovery (`scripts/run_cloud_discovery.py`, `app/connectors/`) | none of its own | list, examine, ingest, scope by scope | every query may be refused, every listing may raise |
| Evidence packs (`app/db/repository.py`, `app/compliance/pdf_report.py`) | `COMPLIANCE_EVIDENCE_PACK`, `_ITEM` | generate, export | reads a history that others extend, keyed by entity |
| Content scan: detectors, DLP mapping, sampling loops, transform (`app/connectors/`, `app/interceptor/repo_scanner.py`) | none (a scan's lists) | list, examine, classify one dataset; load an export | refused, damaged and unreadable parts; caps; the order of keywords |
| Accounts, roles, tokens, API keys (`app/auth/`, `scripts/seed_admin_user.py`, `create_api_key.py`) | `COMPANY`, `USER_ACCOUNT`, `USER_ROLE`, `API_KEY`; tokens outside the database | register, log in, invite, keys, edit the company, the key's way into `POST /ingest` | check and insert in two transactions; claims and keys that outlive what they were read from |
| Audit reads, explanations, dashboard, legal knowledge base, observability, clients and configuration, operator scripts | see `PROJECT.json` | | not modelled: reads, seeds, wiring |

They interact by calls. The gate and the dashboard call the API over HTTP; the
API's handlers call the repositories, each of whose methods takes one
connection of the pool (at most five) and commits one transaction of its own;
the discovery runner calls the ingestion pipeline in its own process. Nothing
is shared in memory and nothing is queued: all that two requests have in common
is the two databases. What makes the system correct is therefore a matter of
what a sequence of small transactions guarantees when other sequences fall in
between, which is what the core models.

### What makes each part correct

* Engine: a residency lock or a mandate is a hard gate, whatever the adequacy list says.
* Handlers: nothing is deployed, and nothing stored as allowed, without a clearance by the engine or by a reviewer in time; a review is closed once; silence fails closed; the history is append-only; the client is told what the verdicts justify.
* Ingestion: the graph never has what Postgres lacks; an answer tells what happened; running again repairs; concurrent ingestions leave a bounded mess.
* Gate: a pass is backed by an ALLOW for everything that was asked about, and every fault blocks.
* Packs: each transfer at most once, every entity of the period covered, the document shows the review that took place.
* Parsers: an error that is caught costs no more than its block, or for a companion block the buckets of its file; what is clear is read as Terraform applies it.
* Connectors: one bad item costs only itself; what is unknown is taken for the worse.
* Content scan: what was legible and sensitive within the caps is on record, whatever was wrong next to it; the cap on files counts only what is read.
* Accounts: one account per address, whoever registers at the same time; what a token or a key says stays true for as long as it is accepted; a revoked key stays revoked.

## 2. The modules

| Module | Models | Uses |
|---|---|---|
| `PolicyEngine` | the two pure functions as operators; the tables are constants | |
| `TransferLifecycle` | the four transfer handlers as sequences of transactions | extends `PolicyEngine` |
| `TransferAuthority` | the abstract promise about a transfer | instantiated by `TransferLifecycle` |
| `EvidencePack` | packs and their document over the handlers' history | extends `TransferLifecycle` |
| `Ingestion` | the pipeline over both databases | |
| `Gate` | pipelines against the API, whose calls are one step each | extends `PolicyEngine` |
| `InfrastructureScan` | Terraform and Kubernetes parsers | |
| `Discovery` | one run of cloud discovery | |
| `ContentScan` | how one dataset is classified | |
| `Accounts` | companies, accounts, tokens and API keys | |
| `TransferLifecycle_proofs` | theorems about the engine, the handlers, and what decisions, rulings and answers came from | extends `TransferLifecycle` |
| `Authority_proofs` | the refinement, and theorems about packs from those about the history | extends `EvidencePack`, `TransferLifecycle_proofs` |
| `Ingestion_proofs`, `Gate_proofs`, `Accounts_proofs`, `InfrastructureScan_proofs`, `Discovery_proofs`, `ContentScan_proofs` | theorems | extend the module they are about |
| `MC*` | values for TLC's constants | extend the module they check |

An operator that a comment calls *Mutant* is not part of the model: it is the
definition below it with a plausible bug, kept to show that a property can fail
(`PROJECT.json`, "mutants").

### State and actions

**TransferLifecycle.** One variable per table column that the handlers branch
on: `schemas[e]` is the sequence of an entity's locks, `status[t]` the request's
status, `decisions` the `POLICY_DECISION` rows in commit order, `current` those
with `is_current`, `review[d]` the authorization request of decision `d`,
`cited` and `deployments` the rows that hang on it. `job[h]` is a request in
progress: where it stands and the locals its remaining steps use. Each action is
one transaction: `ReadClassification`, `ReadCompany`, `ReadSchemaId`,
`InsertTransfer`, `Demote`, `InsertDecision`, `SetStatus`, `CreateReview`,
`Cite`, `Reply` are `POST /transfer-request` in order; `PollTransfer`,
`PollDecision`, `PollReview`, `PollWrite` the status poll; `Deploy*` the
recording of a deployment; `ResolveReview` the guarded UPDATE of a review,
after which the handler inserts the human decision by the same `Demote` and
`InsertDecision`. Around them `Ingest`, `UpdateCompany`, `Expire` (a deadline
passes; the row is unchanged, what the code compares with `now()` is not) and
`Die` (a request stops between two transactions).

Abstractions: `insert_policy_decision` takes two steps because under READ
COMMITTED its UPDATE does not see rows that commit later. In the code the UPDATE
locks the rows it finds, so a second one that found the same rows waits for the
first to commit; the model lets it go on, which only adds behaviours. A guarded
single-statement UPDATE is one step. The API's clock and the database's are one.
Polls and deployments that the status answers at once change nothing and are
left out as steps. `deployments` is a set: repeated deployments of a decision
are not told apart. The latest schema is the last committed one;
`get_latest_schema` orders by `generated_at`, whose disagreement with commit
order is `Ingestion`'s subject. One company, so that tenant filters are true.

**Ingestion.** Postgres rows (`entities`, schema rows with `is_latest`, the
entity's pointer) and Neo4j's nodes and edges, per handler a program counter and
its locals. Every repository call is one action and may raise at its start
(`Raise`); a commit that raises after it has taken effect is not modelled.
`MERGE` is modelled by how Neo4j evaluates it without a uniqueness constraint,
a match and then a create, from the code's use of it. `upsert_company` is a
stutter after the first time. The route is registered twice in `routes.py`; the
first registration answers.

**Gate.** A run's resources with their validity, the requests assembled from them,
the outcome of each and the exit code. A request is the position in the scan of the
resource it was built of, and those still to process are a set of positions: the
loop takes the least. A call of the API is one step that
may fail after having taken effect (`MaxFaults`). Its polling loop is not there:
the gate asks once.

**EvidencePack.** `clock` counts transactions, and `begun`, `decidedAt` give
each decision the `now()` of its transaction's start, so that a decision may
become visible in a period already over. Polls and deployments are left out:
packs do not read what they write.

**InfrastructureScan.** A repository is a sequence of files, Terraform's first, a
file a sequence of blocks with the attributes the parsers branch on; an attribute
is a literal, absent or an expression. `load` says whether a file is read, refused
(the error is caught and the file skipped) or its error escapes, as an `OSError` or a
`ValueError` of a manifest's does. `ParseBlock` is the loop body and `NextFile` the
end of a file; `Escape` is an error that nothing catches (`Escapes`: besides such a
load, the two passes over a Terraform file before its loop, which an unlabelled
block or a bad provider breaks). It sets `aborted` and loses what was discovered,
since the gate's process ends. References are text in the code; here a companion
block has the bucket it is `of` in Terraform's sense and the names that the `text`
of its attribute contains, which may be others too, or none. A companion that
`raises` breaks every bucket whose loop comes to it (`TripsOver`). A loop that
returns at its first hit is the least position of a hit. A `DiscoveredResource`
carries the file and block it is of (`Report`), which only the properties read.

**Discovery.** The scope being scanned, what has been listed and found in it, and
the latest schema per resource. Every refusal is a choice in the action of the
resource it concerns. `EntityOf` names the entity a resource is ingested as: two
instances may share theirs, as their `Name` tags may, and then the later
ingestion is the latest schema. Datasets have names of their own.

**ContentScan.** One dataset from the export or the listing to the ingestion
request: `Load*` the export, `List`, `Examine` one action per object within the
cap, `PassOver` for those beyond it or not kept by the repository's walk, `Submit`
the transform. An object carries the signals a pattern of the detectors can find
in it (the regular expressions themselves are left out) and whether reading it
raises an error the loop expects, or another. Its signals stand `near`, within the
caps of a store's sampling; `far`, in a text up to 2 MB, where only the repository
scan reads; or `past` every cap, where nobody does (the rest of a longer text,
further pages and characters of a PDF or an image). `Discovery` has several datasets
and the scopes around this.

**Accounts.** `companies`, `accounts` (with their roles) and `keys` are the tables,
`tokens` the claims of the tokens not yet expired, which the database knows
nothing of. `job[h]` is a request, or the run of a script, as in
`TransferLifecycle`; each action is one transaction: `Register`,
`RegisterCompany`, `RegisterAccount`, `IssueToken`; `Login`, `ReadRoles`;
`Invite*`, `InsertKey`, `RevokeKey`, `EditCompany` behind `AdminRequest`, the
check of the claims; `Ingest`, `TouchKey`, `CheckName`, `FindCompany`,
`HandOver` the key's way into `POST /ingest`; `KeyScript*` and `Seed*` the two
scripts. `Expire` ends a token, `Die` a request. Passwords are left out (a wrong one
changes nothing), as are the routes that only read.

## 3. Runs

Every passing run explores its whole state space. "Violation" runs reproduce a
place where the code and a statement of the repository disagree (section 5).

| Run | Question | Bounds, and why they are enough |
|---|---|---|
| `lifecycle` | is anything uncleared deployed or stored as allowed; can a review be closed twice, a transfer have two current decisions, the history be rewritten, an answer be incomplete; does it all implement `TransferAuthority`? | 2 threads, 2 transfers of 1 entity, 1 death, verdicts ALLOW and REVIEW: two writers of one row and a request that is never finished. Clearance, finality and history are also proved for any numbers |
| `lifecycle_reads` | can the residency gate be got past between a request's reads? | all locks, destinations and mandates, 2 schemas, so that one ingestion falls between two reads |
| `lifecycle_liveness` | is a ruling recorded; does silence end in DENIED for good? | 2 threads, 2 transfers, no death, fairness as below |
| `ingestion` | graph behind Postgres, truthful answers, repair by re-running, how many `is_latest` rows | 2 threads, an application and two dependencies, 4 requests, 1 fault: more requests than threads, so that what earlier ones leave behind counts |
| `gate` | is a pass sound, does a fault block, does the mandate bind, does a pipeline end? | every repository of at most two resources, with namesakes and resources that do not validate; other clients stand for other pipelines |
| `evidence_packs` | doubles, coverage, the review that is told | 2 threads, 2 transfers, 1 pack at any moment |
| `infrastructure_scan` | what does each error cost and which ones end the walk, is a clear file read as Terraform applies it, whose region counts? | 2 files, 3 blocks in all: a bucket and one block of each kind in every order, sound or raising, or two of a kind; two providers and a resource; a file that is refused or escapes before or after another |
| `discovery` | caution, exports instead of sampling, independence of the clouds | 2 regions, which both scan the buckets, a resource group, and two instances of one name |
| `content_scan` | what does a bad object, entry or field cost; how far is a repository read, and does its cap count the right files; is the special category on record? | every sequence of at most 3 objects of 13 kinds from each source under a cap of 2, so that one is beyond it; every export of at most 2 entries, a bad one before or after a good one |
| `accounts` | can two accounts share an address, a token or key act for what it was not given for, a revoked key come back; who changes the mandate? | 2 threads, 2 companies, addresses and accounts, 1 key, 1 token, 1 death: a check and an insert that race, a script that dies and is run again, a key revoked while in use. All of it is also proved for any numbers |

`MaxSchemas`, `MaxCrashes`, `MaxRequests`, `MaxFaults`, `MaxPacks`, `MaxBlocks`
and `MaxFiles` are bounds for TLC and appear in guards only. Handlers and
transfers are symmetric where no liveness is checked. Deadlock is checked except
where a run of the program ends: `Ingestion` (all requests done),
`InfrastructureScan`, `Discovery`, `ContentScan`. The type invariants of `Gate`,
`EvidencePack`, `InfrastructureScan`, `Discovery` and `ContentScan` document the
shapes of the variables and hold; they are not among the checked properties,
which are the ones that say more, and are proved (section 4).

**Fairness.** `FairSpec` gives each request thread weak fairness: a handler
blocks on nothing but the database and the thread pool goes on scheduling it;
nothing is assumed about reviewers, deadlines or clients. `PollingSpec` adds
strong fairness of the polls, that is a client that polls again and again, which is how a
client learns of a resolution (`README.md:157`) and what `ExpiryFailsClosed` needs, since nothing in the
backend watches deadlines. `Gate`'s `FairSpec` is weak fairness of each
pipeline, one thread whose calls have timeouts.

## 4. Proofs

Every safety and action property that a passing run checks is also a theorem;
what is left to the model checker alone is liveness.

### The engine, the handlers and packs

`TransferLifecycle_proofs` starts with the engine: for all tables, locks and destinations, the
residency gate is hard (`ResidencyLockIsAHardGate`), without a lock and a
mandate nothing is denied (`UnlockedIsNeverDenied`), the resolution only
rewrites `REVIEW_PENDING` (`OnlyReviewsAreUpdated`), and it lets a transfer
go ahead in the cases that `OnlyTheseMayDeploy` names.

For the handlers it proves, for any numbers of threads, transfers,
entities, schemas and deaths, from `TablesAssumption` and `LifecycleAssumption`:

* `TypeCorrect`: `TypeOK`, by the inductive `TypeInv`. `TypeOK` alone is not
  inductive: a step dereferences the decision that its job points at, so
  `JobPointers` adds that the rows jobs point at exist and belong to their
  transfer.
* `ReviewsAreFinal`, `HistoryIsAppendOnly`: the two action properties, from `TypeInv`.
* `DeploymentsAreCleared` and `StoredAllowedIsJustified`: a deployment, and a
  stored ALLOWED or COMPLETED, has a clearance behind it. Both are written from
  reads that may be stale, so the invariant has to speak of the requests in
  between: `ReviewInv` (only engine decisions have a review, and a request that
  is still to open one is the only one to do so for its decision, which has none
  yet, so that opening it overwrites no ruling) and `ClearanceInv` (a request
  about to write ALLOWED, insert a deployment or complete a transfer is at work
  for a transfer that is cleared). That clearances are never withdrawn, because reviews are final and rows never
  change, makes them survive everyone else's steps.

and, about the history of decisions:

* `TheLockHolds`: the lock, the mandate and the schema's identifier are read in
  three transactions; because schemas only grow in number, the lock decided on is
  that of a schema no later than the one cited (`LockInv`).
* `RulingIsOnce`: only the request that drew a transfer's identifier decides it,
  so there is one engine decision, one review, and one winner that records it
  (`RulingInv`).
* `CurrentIsUnique`: a final call supersedes the decision it is about because both
  are of one entity, and whatever is inserted in between is about another
  transfer (`CurrentInv`).
* `AnswersAreComplete`: the identifier leaves the handler last (`AnswerInv`).

`Authority_proofs` proves that the handlers implement `TransferAuthority`
(`LifecycleImplementsAuthority`) and that a transfer that is settled stays so
(`SettledIsForGood`). Each step is shown to be one of the abstract steps or a
stutter under the mapping. The invariant that takes, `MappingInv`, joins the
ones above with `PlaceInv`, which says what is known of a transfer at each place a
request for it can be.

For packs the same module shows first that every behaviour with packs is one of
`TransferLifecycle`'s, so that all of the above holds of the history packs are made from
(`HistoryBehind`), and adds what time there is in it: no two insertions begin at
once, and a ruling begins after the decision it is about was committed
(`TimeInv`). From that follow `PacksHaveNoDoubles`, `DocumentsTellTheReview` and
`PacksCoverEntities`, the last with `CoverInv`: a decision loses its place only
to one of the same entity. `PackTypeCorrect` has the types.

### Ingestion and accounts

`Ingestion_proofs` proves all five properties of the `ingestion` run, from
`IngestionAssumption` (request threads are finite in number):
`IngestionTypeCorrect`, `GraphStaysBacked`, `AnswersAreTrue` and `RerunRepairs`
from one invariant, which says of each request what it relies on (`Grounded`),
and from the fact that steps take nothing of that away (`Kept`).
`LatestStaysBounded` counts: `FlagInv` has an injection of an entity's flagged
rows into the threads that inserted them, and a thread that inserts again has
seen its own row.

`Accounts_proofs` proves the properties of the `accounts` run: `TypeCorrect`,
`AccountsStaySound`, `ClaimsStayBacked`, `KeysActForTheirCompany`,
`RevocationHolds`, `MandateIsGuarded`. No statement takes a row away or changes
what others rely on, so that what a request or the bearer of a token has once
read stays true; a race for an address is decided by the unique constraint.

### The gate

`Gate_proofs` proves, for any repositories, pipelines, locks, tables and faults
(`GateAssumption`): `PassesAreSound`, `ErrorsAlwaysBlock`, `TheMandateBinds` and
the types (`GateTypeCorrect`). That a run passes says nothing of any single
resource, so `PassIsSound` is far from inductive. `GateInv` says of every run
(`RunOK`) that a request is still in `todo` or has its answer (`Accounted`), that
an answer other than ALLOW is among what is blocked, and that an ALLOW is worth a
destination on a list, under a mandate that of the qualified providers; the last
by the engine's rule (`AllowedIsListed`). In a well-named scan what is looked up
by name is the resource itself (`LookedUpRightly`), which is where the condition
comes in. `PassMeansAllowed`, without it, is refuted in section 5.

### What the scans report

The loops of the three scans go over positions of a sequence, and their first hit
is the least position of one. `MinIsLeast` (a set of positions that is not empty
has a least element, by well-foundedness of the naturals) is what the proofs need
where an induction over the sequence would otherwise be.

`InfrastructureScan_proofs`, from `ScanAssumption`: `WalkInv` says where the walk
can be (`PlaceInv`), that a report is what its block in its own file was parsed to
(`TrueReports`), that the reports are of exactly the blocks walked over that are
to be reported (`ExactReports`), in order, and that a walk that ended early did so
at a file that `Escapes` and with nothing discovered (`LossInv`). From the last
three follows `CaughtErrorsStayInTheirFile`, as a bucket can only be tripped up by
a bad companion of its file. `ClearFilesAreUnderstood` follows from the reports
being true, because in a clear file the first companion block is the only one,
and so does `RegionsComeFromTheFile`, where the least position of a declaring
provider is the first (`FirstProvider`). `WalkTypeCorrect` has the types.

`Discovery_proofs`, from `DiscoveryAssumption` (kinds of resources are disjoint,
datasets have entities of their own, AWS scopes come before Azure's):
`AwsStaysCautious` and `ExportsReplaceSampling` from `RecordInv`, which says both
of what has been found and not yet ingested and of every latest schema, so that
ingesting over a namesake's facts changes nothing; `CloudsStayIndependent` from
`ScopeInv`, by which every scope already left was scanned or comes after a failure
in its own cloud. `DiscoveryTypeCorrect` has the types (`LoopInv`).

`ContentScan_proofs`, from `ContentScanAssumption`: `ScanInv` says that at any
place of the loading the export is what the intact entries so far amount to
(`LoadedTo`), and at any place of the sampling the findings are those of the
objects read so far (`SampledTo`), and what a submitted classification is computed
from. `BadPartsStandAlone` follows for any export and objects;
`RepositoriesAreReadToTheirCaps` needs besides that a cap on what is counted is none
where there is not more to count (`DataIsWalked`, by cardinalities of finite
sets); `SensitiveDataIsOnRecord` needs the tables: each Macie type stands in one
row (`MacieFacts`), and Purview's special keywords stand before the ordinary ones
(`PurviewFacts`). `ScanTypeCorrect` has the types: every category on record is one
of the schema's, every confidence a percentage.

The proofs have one step per action and under it one per conjunct that the
action can disturb. Only model-checked: liveness (`ExpiryFailsClosed`,
`RulingIsRecorded`, `GateEnds`), which needs ENABLED and is out of the prover's
reach. Nothing is proved of the statements that section 5 refutes.

## 5. Where code and documentation disagree

The first two are violation runs; `PROJECT.json` quotes the statement and the
line. The others are stated in their module, below the properties that hold, with
the statement they quote, each with a `.cfg` that reproduces it (`tlc -config <cfg>
MC<module>.tla`). A `.cfg` that serves several statements checks one of them; put
the name of another in its place. The hazards of `PROJECT.json` that no property
covers, or none entirely, name the statement that does.

1. `denied_after_approval`: an approved transfer is stored and answered DENIED by
   the next poll, because the review is looked for under the human decision that
   has become current. `TransferAuthority` therefore lets a reviewed transfer be
   refused whatever the ruling.
2. `lost_ruling`: a request that dies after resolving a review leaves no decision
   row, and cannot be repeated.

| Module | Property | Configuration | What happens |
|---|---|---|---|
| `TransferLifecycle` | `ReviewAlwaysLinked` | `Superseded.cfg` | superseding goes by entity (`app/db/repository.py:263`): a second transfer takes the first one's open review out of sight, and its poll denies it |
| `TransferLifecycle` | `CompletedIsFinal` | `Overwritten.cfg` | a poll that began before the deployment was recorded writes DENIED over COMPLETED (`app/db/repository.py:241`) |
| `TransferLifecycle` | `DecisionIsReproducible` | `StaleSchema.cfg` | a decision cites a schema it was not computed from (`app/api/routes.py:147`) |
| `Ingestion` | `FailedMeansNothingPersisted` | `PartialFailure.cfg` | "before any data was persisted" (`routes.py:111`) is answered after commits |
| `Ingestion` | `NodesAreUnique` | `DuplicateNode.cfg` | concurrent first ingestions create two nodes (`app/graph/repository.py:47`) |
| `Ingestion` | `LinkedOrLogged` | `DroppedLink.cfg` | a dependency whose row is there and whose node is not is neither linked nor logged (`app/graph/repository.py:107`) |
| `Gate` | `DeclaredLockHolds` | `GateLockErased.cfg` | a scan's own ingestion resets the lock its owner declared (`app/connectors/transform.py:89`) |
| `Gate` | `PassMeansAllowed` | `GateNamesake.cfg`, `GateBadTag.cfg` | resources of one name (`app/interceptor/cli.py:50`), or that do not validate (`assembler.py:31`), are not asked about |
| `EvidencePack` | `PackShowsOriginal` | `WrongOriginal.cfg` | a document shows another transfer's decision as the original (`repository.py:797`) |
| `EvidencePack` | `PackIsComplete` | `IncompletePack.cfg` | a pack leaves superseded transfers out (`repository.py:592`) |
| `InfrastructureScan` | `ParsersNeverRaise` | `EscapedError.cfg` | a directory named `x.yaml`, an impossible date (`k8s_parser.py:113-117`), or a resource block or provider of another shape (`terraform_parser.py:314-315`) ends the gate's run, although both parsers say "Never raises" |
| `InfrastructureScan` | `OneBadBlockCostsOnlyItself` | `BadCompanion.cfg` | a companion block that is no mapping costs every bucket of its file whose loop comes to it (`terraform_parser.py:117`, `:149`) |
| `InfrastructureScan` | `CautiousAccess` | `BorrowedBlock.cfg`, `UnresolvedFlag.cfg` | a bucket is private by another one's block (`terraform_parser.py:118`), or by a flag that is an expression (`:122`) |
| `InfrastructureScan` | `CautiousEncryption` | `MissingAlgorithm.cfg` | a bucket is encrypted by a configuration without an algorithm (`:155`) |
| `Discovery` | `PrivateIsPrivate` | `UnkeptByDiscovery.cfg` | a VM whose interface cannot be read is private (`vm_connector.py:33`) |
| `Discovery` | `SensitiveIsFlagged` | `UnkeptByDiscovery.cfg` | a bucket that cannot be sampled has no findings (`s3_connector.py:77`) |
| `Discovery` | `UnscannableIsFlagged` | `UnkeptByDiscovery.cfg` | archives in a container are passed over (`blob_connector.py:34`) |
| `Discovery` | `ReachableStaysOnRecord` | `Namesakes.cfg` | of two instances with one name, the last one's facts are the entity's (`ec2_connector.py:68`) |
| `ContentScan` | `BadExportDegrades` | `UnkeptByContentScan.cfg` | an export that is JSON of another shape ends the run (`macie_connector.py:83`) |
| `ContentScan` | `LegibleIsFlagged` | `UnkeptByContentScan.cfg` | a bucket mentioned without detections is not sampled (`s3_connector.py:137`) |
| `ContentScan` | `CutFileIsFlagged` | `UnkeptByContentScan.cfg` | what a repository's file holds past 2 MB, five pages or 20,000 characters leaves no trace, not even a flag (`repo_scanner.py:68`) |
| `Accounts` | `OnlyInviteesJoin` | `JoinedCompany.cfg` | `POST /auth/register` with the name of an existing company makes the caller an administrator of it (`app/auth/routes.py:73`), against the tenant isolation of `README.md:26` |

## 6. Not modelled, and the plan

Done, in order of importance: the engine, the handlers and their promise;
ingestion; the gate; packs; the parsers; discovery; accounts; the content scan;
and the proofs of section 4, the refinement among them.

What could still be added:

1. `Discovery` over `Ingestion`'s transactions instead of an ingestion that
   is one step, for a scan that races a client's `POST /ingest`.
2. The infrastructure half of the transform.

Out of reach of the prover: liveness and ENABLED, and what recursive or folded
definitions compute for every input.

Left out for good: the dashboard and read-only queries, PDF layout, logging and
metrics, password and token encoding, the regular expressions of the detectors,
the law knowledge base's seeding (idempotent upserts that an operator runs), the
construction of database clients, and containers. Nothing of theirs is state that
another component branches on, but the clauses of the knowledge base, which are a constant
of `TransferLifecycle`.
