--------------------------------- MODULE Gate --------------------------------
(***************************************************************************)
(* The CI/CD gate (app/interceptor/cli.py and its entry point              *)
(* scripts/run_pipeline_interceptor.py) against the API: every pipeline    *)
(* run scans its repository, ingests what it found, asks for a decision    *)
(* about each cloud resource and turns the answers into an exit code.      *)
(*                                                                         *)
(* Runs of several pipelines, other clients that ingest, and the admin who *)
(* edits the company share the API's state, of which this module keeps     *)
(* what decisions depend on: the residency lock of each entity's latest    *)
(* schema and the company's mandate.  A call is answered, refused, or      *)
(* answered too late; TransferLifecycle and Ingestion have what the API    *)
(* does inside a call.  A destination stands for cloud, region and the     *)
(* country that region_country_map.json gives for them ("UNKNOWN" is a     *)
(* country on no list).                                                    *)
(***************************************************************************)
EXTENDS Naturals, Sequences, FiniteSets, SequencesExt, PolicyEngine

CONSTANTS
    Names,      \* resource names
    Pipelines,  \* pipeline runs
    Scans,      \* what a repository may contain: sequences of Resource
    Locks,      \* residency locks that other clients ingest
    Mandates,   \* values PATCH /company gives qualified_provider_required
    MaxFaults   \* bound: API calls that fail

Granularity == {"dataset", "workload"}

\* DiscoveredResource; "valid" says that an IngestionRequest can be built of it
\* (a tag that is not a string is enough for it not to be).
Resource ==
    [name : Names, granularity : Granularity, cloud : {"aws", "azure", "other"},
     dest : Destinations, valid : BOOLEAN]

ASSUME GateAssumption ==
    /\ Scans \subseteq Seq(Resource)
    /\ Locks \subseteq ResidencyLock
    /\ Mandates \subseteq BOOLEAN
    /\ MaxFaults \in Nat

\* The API's identity of an entity within the company.
Keys == Granularity \X Names

KeyOf(resource) == <<resource.granularity, resource.name>>

VARIABLES
    lock,      \* lock[k]: residency_lock of k's latest schema, "absent" without one
    mandated,  \* COMPANY.qualified_provider_required
    run,       \* run[p]: pipeline run p
    faults,    \* API calls that have failed
    declared,  \* for the properties: the entities whose owner last declared a lock
    unbound    \* for the properties: the runs during which no mandate was in force

vars == <<lock, mandated, run, faults, declared, unbound>>

NotStarted == [at |-> "start"]

\* A run at work: the scan, the positions in it whose requests are still to process,
\* and for each resource that was answered the outcome, for each that failed "error".
Run ==
    [at : {"ingest", "transfer", "done"}, scan : Seq(Resource), todo : SUBSET Nat,
     blocked : SUBSET Resource, exit : {0, 1},
     answers : SUBSET (Resource \X {"ALLOW", "DENY", "REVIEW", "error"})]

Init ==
    /\ lock = [k \in Keys |-> "absent"]
    /\ mandated = FALSE
    /\ run = [p \in Pipelines |-> NotStarted]
    /\ faults = 0
    /\ declared = {}
    /\ unbound = {}

-----------------------------------------------------------------------------
\* assemble_ingestion_requests: a resource that cannot be transformed is skipped.
\* The requests keep the order of the scan, so that positions in it stand for them.
assemble(scan) == {i \in DOMAIN scan : scan[i].valid}

\* resource_by_name: a later resource of the same name replaces an earlier one.
resource_by_name(scan, name) ==
    scan[CHOOSE i \in DOMAIN scan :
            /\ scan[i].name = name
            /\ \A j \in DOMAIN scan : scan[j].name = name => j <= i]

current(p) == run[p].scan[Min(run[p].todo)]

looked_up(p) == resource_by_name(run[p].scan, current(p).name)

\* Without configuration a run blocks before it looks at anything; so does one whose
\* scan raises (InfrastructureScan's Escape), which ends the process with exit code
\* 1.  With nothing discovered it passes.
Start(p) ==
    /\ run[p] = NotStarted
    /\ \E scan \in Scans, configured \in BOOLEAN :
          run' = [run EXCEPT ![p] =
                    [at     |-> IF configured /\ scan # <<>> THEN "ingest" ELSE "done",
                     scan   |-> scan, todo |-> assemble(scan),
                     blocked |-> {}, answers |-> {},
                     exit   |-> IF configured THEN 0 ELSE 1]]
    /\ unbound' = IF mandated THEN unbound ELSE unbound \cup {p}
    /\ UNCHANGED <<lock, mandated, faults, declared>>

\* Mutant: the gate waits for an ALLOW.
WaitForAllow(p, answer) ==
    run' = [run EXCEPT
              ![p].at = "ingest",
              ![p].todo = IF answer = "ALLOW" THEN @ \ {Min(@)} ELSE @,
              ![p].answers = @ \cup {<<current(p), answer>>}]

\* Mutant: an error is logged and forgotten.
ForgetError(p, answer) ==
    run' = [run EXCEPT
              ![p].at = "ingest",
              ![p].todo = @ \ {Min(@)},
              ![p].blocked = @ \cup (IF answer \in {"DENY", "REVIEW"} THEN {current(p)} ELSE {}),
              ![p].answers = @ \cup {<<current(p), answer>>}]

\* Mutant: only DENY is a blocking outcome.
BlockOnDeny(p, answer) ==
    run' = [run EXCEPT
              ![p].at = "ingest",
              ![p].todo = @ \ {Min(@)},
              ![p].blocked = @ \cup (IF answer \in {"DENY", "error"} THEN {current(p)} ELSE {}),
              ![p].answers = @ \cup {<<current(p), answer>>}]

\* The loop goes on with the next request, blocked unless the answer is ALLOW.
Conclude(p, answer) ==
    run' = [run EXCEPT
              ![p].at = "ingest",
              ![p].todo = @ \ {Min(@)},
              ![p].blocked = @ \cup (IF answer = "ALLOW" THEN {} ELSE {current(p)}),
              ![p].answers = @ \cup {<<current(p), answer>>}]

\* api_client.ingest.  Every request the transform builds carries the lock
\* "none".  A resource that is not on a cloud is ingested and passed over.
Ingest(p) ==
    /\ run[p].at = "ingest"
    /\ run[p].todo # {}
    /\ lock' = [lock EXCEPT ![KeyOf(current(p))] = "none"]
    /\ run' = IF looked_up(p).cloud \in {"aws", "azure"}
              THEN [run EXCEPT ![p].at = "transfer"]
              ELSE [run EXCEPT ![p].todo = @ \ {Min(@)}]
    /\ UNCHANGED <<mandated, faults, declared, unbound>>

\* Unreachable, refused, or answered after the client's timeout: what the API
\* has committed by then stays.
IngestFails(p) ==
    /\ run[p].at = "ingest"
    /\ run[p].todo # {}
    /\ faults < MaxFaults
    /\ faults' = faults + 1
    /\ lock' \in {lock, [lock EXCEPT ![KeyOf(current(p))] = "none"]}
    /\ Conclude(p, "error")
    /\ UNCHANGED <<mandated, declared, unbound>>

\* api_client.request_transfer, for the destination of the resource looked up
\* by name, decided on the lock that the entity's latest schema has by now.
Transfer(p) ==
    /\ run[p].at = "transfer"
    /\ Conclude(p, decide_transfer(lock[KeyOf(current(p))], mandated,
                                   looked_up(p).dest).outcome)
    /\ UNCHANGED <<lock, mandated, faults, declared, unbound>>

TransferFails(p) ==
    /\ run[p].at = "transfer"
    /\ faults < MaxFaults
    /\ faults' = faults + 1
    /\ Conclude(p, "error")
    /\ UNCHANGED <<lock, mandated, declared, unbound>>

Finish(p) ==
    /\ run[p].at = "ingest"
    /\ run[p].todo = {}
    /\ run' = [run EXCEPT ![p].at = "done", ![p].exit = IF run[p].blocked = {} THEN 0 ELSE 1]
    /\ UNCHANGED <<lock, mandated, faults, declared, unbound>>

-----------------------------------------------------------------------------
\* POST /ingest by a client that knows the entity's lock.
Declare(k) ==
    /\ \E l \in Locks :
          /\ lock' = [lock EXCEPT ![k] = l]
          /\ declared' = IF l = "none" THEN declared \ {k} ELSE declared \cup {k}
    /\ UNCHANGED <<mandated, run, faults, unbound>>

UpdateCompany ==
    /\ mandated' \in Mandates
    /\ unbound' = IF mandated' THEN unbound
                  ELSE unbound \cup {p \in Pipelines : run[p].at \in {"ingest", "transfer"}}
    /\ UNCHANGED <<lock, run, faults, declared>>

GateStep(p) ==
    Ingest(p) \/ IngestFails(p) \/ Transfer(p) \/ TransferFails(p) \/ Finish(p)

Next ==
    \/ \E p \in Pipelines : Start(p) \/ GateStep(p)
    \/ \E k \in Keys : Declare(k)
    \/ UpdateCompany

Spec == Init /\ [][Next]_vars

\* A pipeline that runs is not suspended, and no call outlasts its timeout.
FairSpec == Spec /\ \A p \in Pipelines : WF_vars(GateStep(p))

-----------------------------------------------------------------------------
(***************************************************************************)
(* Properties                                                              *)
(***************************************************************************)

\* Every variable has its shape.
TypeOK ==
    /\ lock \in [Keys -> ResidencyLock \cup {"absent"}]
    /\ mandated \in BOOLEAN
    /\ run \in [Pipelines -> {NotStarted} \cup Run]
    /\ faults \in 0..MaxFaults
    /\ declared \subseteq Keys
    /\ unbound \subseteq Pipelines

Passed(p) == run[p].at = "done" /\ run[p].exit = 0

Scanned(p) == ToSet(run[p].scan)

OnCloud(r) == r.cloud \in {"aws", "azure"}

\* Names tell the resources of the scan apart, and all can be ingested.
WellNamed(p) ==
    /\ \A i, j \in DOMAIN run[p].scan : run[p].scan[i].name = run[p].scan[j].name => i = j
    /\ \A r \in Scanned(p) : r.valid

\* Exit code 0 means that the engine allowed every cloud resource to go where
\* it is declared (cli.py:34-36), as long as the scan is well named.
PassIsSound ==
    \A p \in Pipelines :
        Passed(p) /\ WellNamed(p) =>
            \A r \in Scanned(p) : OnCloud(r) =>
                /\ <<r, "ALLOW">> \in run[p].answers
                /\ r.dest \in QualifiedPairs \cup AdequateNames

\* The gate fails closed: a run in which any call failed does not pass
\* (cli.py:35-36), however the other resources fared.
ErrorsBlock ==
    \A p \in Pipelines :
        Passed(p) => \A r \in Scanned(p) : <<r, "error">> \notin run[p].answers

\* A mandate in force during the whole run binds it (engine.py:49-55): it
\* passes only with qualified providers, whatever else changes meanwhile.
MandateBindsTheGate ==
    \A p \in Pipelines :
        Passed(p) /\ p \notin unbound =>
            \A r \in Resource :
                <<r, "ALLOW">> \in run[p].answers =>
                    resource_by_name(run[p].scan, r.name).dest \in QualifiedPairs

\* A run that has started ends with an exit code.
GateEnds ==
    \A p \in Pipelines : run[p].at \in {"ingest", "transfer"} ~> run[p].at = "done"

-----------------------------------------------------------------------------
(***************************************************************************)
(* Statements of the repository that the gate does not keep.               *)
(***************************************************************************)

\* "0 if every resolvable resource is ALLOWED, 1 if ANY resource is DENY/REVIEW"
\* (cli.py:34-35): a run does not pass with a resource that the engine, asked
\* about it, could only deny or send to review.
PassMeansAllowed ==
    \A p \in Pipelines :
        Passed(p) => \A r \in Scanned(p) : OnCloud(r) =>
            r.dest \in QualifiedPairs \cup AdequateNames

\* "Residency lock overrides adequacy unconditionally" (README.md:51): an entity
\* whose owner has declared a lock is not let go to an adequate country.
DeclaredLockHolds ==
    [][\A p \in Pipelines :
          /\ run[p].at = "transfer"
          /\ KeyOf(current(p)) \in declared
          /\ <<current(p), "ALLOW">> \in run'[p].answers \ run[p].answers
          => looked_up(p).dest \in QualifiedPairs]_vars
=============================================================================
