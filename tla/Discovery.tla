------------------------------ MODULE Discovery ------------------------------
(***************************************************************************)
(* One run of cloud discovery (scripts/run_cloud_discovery.py,             *)
(* app/connectors/runner.py): the AWS regions, then the Azure resource     *)
(* groups, one scope after the other.  In each scope the datasets (S3      *)
(* buckets, Blob containers) and the workloads (EC2 instances, VMs) are    *)
(* listed and examined by the connectors, and what was found is ingested,  *)
(* one resource at a time.  Any query to the cloud may be refused, any     *)
(* listing may raise, any resource may be skipped, any ingestion may fail. *)
(*                                                                         *)
(* What the resources are really like does not change during a run.  S3    *)
(* lists the buckets of the account, whatever the region: a run over two   *)
(* regions examines and ingests each bucket twice.  A resource is ingested *)
(* as the entity of its name, which an instance takes from a tag: several  *)
(* may be one entity, whose latest schema says which of them it is about.  *)
(***************************************************************************)
EXTENDS Naturals, Sequences, SequencesExt

CONSTANTS
    Buckets, Instances, Containers, VMs,  \* the resources there are
    Scopes,     \* the run: [cloud, place], AWS regions before resource groups
    Place,      \* the region or resource group of all but the buckets
    Account,    \* the account of a dataset
    EntityOf,   \* the entity a resource is ingested as: its type and name
    Public,     \* the resources that can be reached from outside
    Encrypted,  \* the buckets, instances and VMs that are encrypted
    Content,    \* the objects of a dataset: "text" has personal data in it,
                \* "archive" cannot be scanned
    Export      \* what the DLP exports know of the datasets they mention

Datasets == Buckets \cup Containers

Workloads == Instances \cup VMs

Resources == Datasets \cup Workloads

ASSUME DiscoveryAssumption ==
    /\ Buckets \cap (Instances \cup Containers \cup VMs) = {}
    /\ Instances \cap (Containers \cup VMs) = {}
    /\ Containers \cap VMs = {}
    /\ Scopes \in Seq([cloud : {"aws", "azure"}, place : {s.place : s \in ToSet(Scopes)}])
    /\ \A m, n \in DOMAIN Scopes :
          m < n => ~(Scopes[m].cloud = "azure" /\ Scopes[n].cloud = "aws")
    /\ DOMAIN Place = Resources \ Buckets
    /\ DOMAIN Account = Datasets
    /\ DOMAIN EntityOf = Resources
    /\ \A q \in Datasets, r \in Resources : EntityOf[q] = EntityOf[r] => q = r
    /\ Public \subseteq Resources
    /\ Encrypted \subseteq Resources \ Containers
    /\ Content \in [Datasets -> SUBSET {"text", "archive"}]
    /\ DOMAIN Export \subseteq Datasets
    /\ \A r \in DOMAIN Export : Export[r] \subseteq {"export"}

VARIABLES
    at,       \* the scope being scanned, Len(Scopes) + 1 at the end
    phase,    \* where in the scope
    todo,     \* resources listed and not yet examined
    found,    \* the scope's DiscoveredResources, not yet ingested
    latest,   \* the latest schema of each entity that has one
    scanned,  \* scopes logged as being scanned
    failed    \* clouds whose run is logged to have failed entirely

vars == <<at, phase, todo, found, latest, scanned, failed>>

Phase == {"list_datasets", "datasets", "list_workloads", "workloads", "ingest"}

Facts == [public : BOOLEAN, encrypted : BOOLEAN, findings : SUBSET {"export", "text", "flag"}]

Ended == at > Len(Scopes)

Init ==
    /\ at = 1
    /\ phase = "list_datasets"
    /\ todo = {}
    /\ found = {}
    /\ latest = <<>>
    /\ scanned = {}
    /\ failed = {}

-----------------------------------------------------------------------------
\* What a scope's listings return.
DatasetsOf(scope) ==
    IF scope.cloud = "aws" THEN Buckets ELSE {r \in Containers : Place[r] = scope.place}

WorkloadsOf(scope) ==
    {r \in (IF scope.cloud = "aws" THEN Instances ELSE VMs) : Place[r] = scope.place}

\* The listing of the datasets, account by account; a refused one is skipped.
ListDatasets ==
    /\ ~Ended /\ phase = "list_datasets"
    /\ \E accounts \in SUBSET {Account[r] : r \in DatasetsOf(Scopes[at])} :
          todo' = {r \in DatasetsOf(Scopes[at]) : Account[r] \in accounts}
    /\ phase' = "datasets"
    /\ scanned' = scanned \cup {at}
    /\ UNCHANGED <<at, found, latest, failed>>

\* The listing of the workloads; a refused one is skipped.
ListWorkloads ==
    /\ ~Ended /\ phase = "list_workloads"
    /\ todo' \in {WorkloadsOf(Scopes[at]), {}}
    /\ phase' = "workloads"
    /\ UNCHANGED <<at, found, latest, scanned, failed>>

\* Mutant: nothing catches the exception.
RunEnds ==
    /\ ~Ended /\ phase \in {"list_datasets", "list_workloads"}
    /\ at' = Len(Scopes) + 1
    /\ phase' = "list_datasets"
    /\ found' = {}
    /\ scanned' = scanned \cup {at}
    /\ failed' = failed \cup {Scopes[at].cloud}
    /\ UNCHANGED <<todo, latest>>

\* A listing raises what the connectors do not catch (no credentials, no
\* connection): the run of this cloud is over, with all the scope had found.
RunFails ==
    /\ ~Ended /\ phase \in {"list_datasets", "list_workloads"}
    /\ LET left == {n \in DOMAIN Scopes : n > at /\ Scopes[n].cloud # Scopes[at].cloud}
       IN  at' = IF left = {} THEN Len(Scopes) + 1 ELSE Min(left)
    /\ phase' = "list_datasets"
    /\ found' = {}
    /\ scanned' = scanned \cup {at}
    /\ failed' = failed \cup {Scopes[at].cloud}
    /\ UNCHANGED <<todo, latest>>

-----------------------------------------------------------------------------
\* The findings of sampling r, of whose objects those in read could be read;
\* the Blob connector passes over what it cannot scan.
Sampled(r, listed, read) ==
    IF ~listed THEN {}
    ELSE (read \cap {"text"}) \cup
         (IF r \in Buckets /\ "archive" \in Content[r] THEN {"flag"} ELSE {})

\* Mutant: the export is for what cannot be sampled.
SampledFirst(r, listed, read) ==
    IF r \in DOMAIN Export /\ ~listed THEN Export[r] ELSE Sampled(r, listed, read)

\* The smart fallback: datasets that an export mentions are not sampled.
FindingsOf(r, listed, read) ==
    IF r \in DOMAIN Export THEN Export[r] ELSE Sampled(r, listed, read)

Found(r, public, encrypted, findings) ==
    /\ phase = (IF r \in Datasets THEN "datasets" ELSE "workloads")
    /\ r \in todo
    /\ todo' = todo \ {r}
    /\ found' = found \cup
          {[resource |-> r,
            facts |-> [public |-> public, encrypted |-> encrypted, findings |-> findings]]}
    /\ UNCHANGED <<at, phase, latest, scanned, failed>>

\* Mutant: what could not be asked is taken to be private.
TrustBucket(r) ==
    \E access, encryption, listed \in BOOLEAN, read \in SUBSET Content[r] :
        Found(r, access /\ r \in Public, encryption /\ r \in Encrypted,
              FindingsOf(r, listed, read))

\* The body of discover_s3_buckets' loop.
DiscoverBucket(r) ==
    \E access, encryption, listed \in BOOLEAN, read \in SUBSET Content[r] :
        Found(r, ~access \/ r \in Public, encryption /\ r \in Encrypted,
              FindingsOf(r, listed, read))

\* The body of discover_blob_containers' inner loop.
DiscoverContainer(r) ==
    \E listed \in BOOLEAN, read \in SUBSET Content[r] :
        Found(r, r \in Public, TRUE, FindingsOf(r, listed, read))

\* The body of discover_ec2_instances' loop.
DiscoverInstance(r) ==
    \E volumes \in BOOLEAN : Found(r, r \in Public, volumes /\ r \in Encrypted, {})

\* The body of discover_virtual_machines' loop.
DiscoverVM(r) ==
    \E interfaces \in BOOLEAN : Found(r, interfaces /\ r \in Public, r \in Encrypted, {})

\* An exception while a resource is examined.
Skip(r) ==
    /\ r \in todo
    /\ todo' = todo \ {r}
    /\ UNCHANGED <<at, phase, found, latest, scanned, failed>>

Proceed ==
    /\ todo = {}
    /\ \/ phase = "datasets" /\ phase' = "list_workloads"
       \/ phase = "workloads" /\ phase' = "ingest"
    /\ UNCHANGED <<at, todo, found, latest, scanned, failed>>

-----------------------------------------------------------------------------
\* One turn of _ingest_resources: it counts the resource as ingested or as
\* failed, and its schema has been stored or not.
Ingest(f) ==
    /\ phase = "ingest"
    /\ f \in found
    /\ found' = found \ {f}
    /\ \/ latest' = [e \in DOMAIN latest \cup {EntityOf[f.resource]} |->
                       IF e = EntityOf[f.resource] THEN f ELSE latest[e]]
       \/ UNCHANGED latest
    /\ UNCHANGED <<at, phase, todo, scanned, failed>>

NextScope ==
    /\ phase = "ingest"
    /\ found = {}
    /\ at' = at + 1
    /\ phase' = "list_datasets"
    /\ UNCHANGED <<todo, found, latest, scanned, failed>>

Next ==
    \/ ListDatasets
    \/ ListWorkloads
    \/ RunFails
    \/ \E r \in Buckets : DiscoverBucket(r)
    \/ \E r \in Containers : DiscoverContainer(r)
    \/ \E r \in Instances : DiscoverInstance(r)
    \/ \E r \in VMs : DiscoverVM(r)
    \/ \E r \in todo : Skip(r)
    \/ Proceed
    \/ \E f \in found : Ingest(f)
    \/ NextScope

Spec == Init /\ [][Next]_vars

-----------------------------------------------------------------------------
(***************************************************************************)
(* Properties                                                              *)
(***************************************************************************)

\* What is on record.
Latest == {latest[e] : e \in DOMAIN latest}

\* Every variable has its type, and a scope begins with nothing left over from
\* the one before.
TypeOK ==
    /\ at \in 1..(Len(Scopes) + 1)
    /\ phase \in Phase
    /\ todo \subseteq Resources
    /\ found \subseteq [resource : Resources, facts : Facts]
    /\ \A e \in DOMAIN latest : /\ latest[e] \in [resource : Resources, facts : Facts]
                                /\ EntityOf[latest[e].resource] = e
    /\ scanned \subseteq DOMAIN Scopes
    /\ failed \subseteq {"aws", "azure"}
    /\ phase = "list_datasets" => todo = {} /\ found = {}

\* "Could not check public access block ... True" (s3_connector.py:46-47, 61):
\* whatever is refused in whichever of the scans of a bucket or an instance, the
\* latest schema has it as private, or encrypted, only if it is, and namesakes do
\* not mix.
AwsIsReadCautiously ==
    \A f \in Latest : f.resource \in Buckets \cup Instances =>
        /\ ~f.facts.public => f.resource \notin Public
        /\ f.facts.encrypted => f.resource \in Encrypted

\* "those are used INSTEAD of local sampling for that bucket" (s3_connector.py:4-9):
\* the findings of a dataset that an export mentions are the export's, however
\* often it is scanned and whatever can be sampled then, and those of another
\* dataset never are.
ExportReplacesSampling ==
    \A f \in Latest : f.resource \in Datasets =>
        IF f.resource \in DOMAIN Export THEN f.facts.findings = Export[f.resource]
        ELSE "export" \notin f.facts.findings

\* "AWS discovery run failed entirely" (run_cloud_discovery.py:68): a scope is
\* left out only after the run of its own cloud has failed in an earlier one.
CloudsAreIndependent ==
    Ended => \A n \in DOMAIN Scopes :
        \/ n \in scanned
        \/ /\ Scopes[n].cloud \in failed
           /\ \E m \in scanned : m < n /\ Scopes[m].cloud = Scopes[n].cloud

-----------------------------------------------------------------------------
(***************************************************************************)
(* Statements of the repository that the connectors do not keep.           *)
(***************************************************************************)

\* "Fail-cautious defaults everywhere (assume public, assume unencrypted ...)"
\* (README.md:52): nothing is on record as private that can be reached.
PrivateIsPrivate ==
    \A f \in Latest : ~f.facts.public => f.resource \notin Public

\* "On uncertainty, the system errs toward flagging risk" (README.md:52): a
\* dataset with personal data in it is not on record as having no findings.
SensitiveIsFlagged ==
    \A f \in Latest : f.resource \in Datasets \ DOMAIN Export =>
        ("text" \in Content[f.resource] => f.facts.findings # {})

\* "Video/executable/archive content is flagged for manual review" (README.md:183):
\* no container with such content is on record without a flag for it.
UnscannableIsFlagged ==
    \A f \in Latest : f.resource \in Datasets \ DOMAIN Export =>
        (Content[f.resource] = {"archive"} => "flag" \in f.facts.findings)

\* The same over the steps of a run, during which nothing changes: what was put on
\* record as one that can be reached is not replaced by one that cannot, a
\* namesake's (ec2_connector.py:68).
ReachableStaysOnRecord ==
    [][\A e \in DOMAIN latest :
          latest[e].facts.public /\ latest[e].resource \in Public => latest'[e].facts.public]_vars
=============================================================================
