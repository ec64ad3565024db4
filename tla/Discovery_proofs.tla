--------------------------- MODULE Discovery_proofs --------------------------
(***************************************************************************)
(* Proofs about Discovery for any resources, scopes, accounts, names and   *)
(* exports: what is put on record of a resource is what its own            *)
(* examination found, in whichever scan, and the run goes through every    *)
(* scope whose cloud did not fail.                                         *)
(***************************************************************************)
EXTENDS Discovery, WellFoundedInduction, TLAPS

\* A set of positions that is not empty has a first one.
LEMMA MinIsLeast ==
    ASSUME NEW S \in SUBSET Nat, S # {}
    PROVE  Min(S) \in S /\ \A n \in S : Min(S) <= n
<1>1. PICK R : IsWellFoundedOn(R, Nat) /\ R = {ss \in Nat \X Nat : ss[1] < ss[2]}
  BY NatLessThanWellFounded, Zenon DEF OpToRel
<1>2. PICK m \in S : \A n \in S : <<n, m>> \notin R
  BY <1>1, WFMin
<1>3. ASSUME NEW n \in S PROVE m <= n
  <2>1. m \in Nat /\ n \in Nat
    OBVIOUS
  <2>2. n < m => <<n, m>> \in {ss \in Nat \X Nat : ss[1] < ss[2]}
    BY <2>1
  <2>3. ~(n < m)
    BY <1>1, <1>2, <2>2
  <2>. QED
    BY <2>1, <2>3
<1>. QED
  BY <1>3 DEF Min

-----------------------------------------------------------------------------
(***************************************************************************)
(* What has been found, and what is on record, is as the examination of    *)
(* that very resource had it.                                              *)
(***************************************************************************)
TrueToScan(f) ==
    /\ f.resource \in Buckets \cup Instances =>
          /\ ~f.facts.public => f.resource \notin Public
          /\ f.facts.encrypted => f.resource \in Encrypted
    /\ f.resource \in Datasets =>
          IF f.resource \in DOMAIN Export THEN f.facts.findings = Export[f.resource]
          ELSE "export" \notin f.facts.findings

RecordInv ==
    /\ \A f \in found : TrueToScan(f)
    /\ \A e \in DOMAIN latest : TrueToScan(latest[e])

\* The findings of a dataset are those of the export that mentions it, or none of
\* an export's (s3_connector.py:137-141).
LEMMA ExportOrSample ==
    ASSUME NEW r \in Datasets, NEW listed \in BOOLEAN, NEW read \in SUBSET Content[r]
    PROVE  IF r \in DOMAIN Export THEN FindingsOf(r, listed, read) = Export[r]
           ELSE "export" \notin FindingsOf(r, listed, read)
  BY DEF FindingsOf, Sampled

LEMMA FoundKeeps ==
    ASSUME RecordInv, NEW r, NEW public, NEW encrypted, NEW findings,
           Found(r, public, encrypted, findings),
           r \in Buckets \cup Instances =>
              (~public => r \notin Public) /\ (encrypted => r \in Encrypted),
           r \in Datasets =>
              IF r \in DOMAIN Export THEN findings = Export[r] ELSE "export" \notin findings
    PROVE  RecordInv'
<1>. DEFINE f == [resource |-> r,
                  facts |-> [public |-> public, encrypted |-> encrypted, findings |-> findings]]
<1>1. TrueToScan(f)
  BY DEF TrueToScan
<1>2. found' = found \cup {f} /\ latest' = latest
  BY DEF Found
<1>. QED
  BY <1>1, <1>2 DEF RecordInv

LEMMA RecordStep ==
    ASSUME RecordInv, [Next]_vars
    PROVE  RecordInv'
<1>1. CASE ListDatasets \/ ListWorkloads \/ Proceed \/ NextScope \/ \E r \in todo : Skip(r)
  BY <1>1 DEF RecordInv, ListDatasets, ListWorkloads, Proceed, NextScope, Skip
<1>2. CASE RunFails
  BY <1>2 DEF RecordInv, RunFails
<1>3. ASSUME NEW r \in Buckets, DiscoverBucket(r)
      PROVE  RecordInv'
  BY <1>3, DiscoveryAssumption, ExportOrSample, FoundKeeps DEF DiscoverBucket, Datasets
<1>4. ASSUME NEW r \in Containers, DiscoverContainer(r)
      PROVE  RecordInv'
  BY <1>4, DiscoveryAssumption, ExportOrSample, FoundKeeps DEF DiscoverContainer, Datasets
<1>5. ASSUME NEW r \in Instances, DiscoverInstance(r)
      PROVE  RecordInv'
  BY <1>5, DiscoveryAssumption, FoundKeeps DEF DiscoverInstance, Datasets
<1>6. ASSUME NEW r \in VMs, DiscoverVM(r)
      PROVE  RecordInv'
  BY <1>6, DiscoveryAssumption, FoundKeeps DEF DiscoverVM, Datasets
<1>7. ASSUME NEW f \in found, Ingest(f)
      PROVE  RecordInv'
  <2>1. TrueToScan(f)
    BY DEF RecordInv
  <2>2. found' \subseteq found
    BY <1>7 DEF Ingest
  <2>3. \A e \in DOMAIN latest' : latest'[e] = f \/ (e \in DOMAIN latest /\ latest'[e] = latest[e])
    BY <1>7 DEF Ingest
  <2>. QED
    BY <2>1, <2>2, <2>3 DEF RecordInv
<1>8. CASE UNCHANGED vars
  BY <1>8 DEF RecordInv, vars
<1>. QED
  BY <1>1, <1>2, <1>3, <1>4, <1>5, <1>6, <1>7, <1>8 DEF Next

LEMMA RecordIsTrue == Spec => []RecordInv
<1>1. Init => RecordInv
  BY DEF Init, RecordInv
<1>. QED
  BY <1>1, RecordStep, PTL DEF Spec

\* However many scans a bucket or an instance is in, which of their queries are
\* refused and which ingestions fail, and whatever names instances share, AWS
\* resources are on record as private or encrypted only if they are
\* (s3_connector.py:46-47, 61).
THEOREM AwsStaysCautious == Spec => []AwsIsReadCautiously
<1>1. RecordInv => AwsIsReadCautiously
  BY DEF RecordInv, AwsIsReadCautiously, Latest, TrueToScan
<1>. QED
  BY <1>1, RecordIsTrue, PTL

\* What an export says of a dataset is never mixed with, or replaced by, what a
\* later scan of the same bucket samples (s3_connector.py:4-9).
THEOREM ExportsReplaceSampling == Spec => []ExportReplacesSampling
<1>1. RecordInv => ExportReplacesSampling
  BY DEF RecordInv, ExportReplacesSampling, Latest, TrueToScan
<1>. QED
  BY <1>1, RecordIsTrue, PTL

-----------------------------------------------------------------------------
(***************************************************************************)
(* Scopes.  A scope that has been left behind was scanned, or lies behind  *)
(* the one in which the run of its cloud failed.                           *)
(***************************************************************************)
Served(n) ==
    \/ n \in scanned
    \/ /\ Scopes[n].cloud \in failed
       /\ \E m \in scanned : m < n /\ Scopes[m].cloud = Scopes[n].cloud

ScopeInv ==
    /\ at \in 1..(Len(Scopes) + 1)
    /\ phase \in Phase
    /\ scanned \subseteq DOMAIN Scopes
    /\ failed \subseteq {"aws", "azure"}
    /\ phase # "list_datasets" => at \in scanned
    /\ \A n \in DOMAIN Scopes : n < at => Served(n)

LEMMA ScopesAreNumbered ==
    /\ Len(Scopes) \in Nat /\ DOMAIN Scopes = 1..Len(Scopes)
    /\ \A n \in DOMAIN Scopes : Scopes[n].cloud \in {"aws", "azure"}
<1>. DEFINE places == {s.place : s \in ToSet(Scopes)}
            S == [cloud : {"aws", "azure"}, place : places]
<1>1. Scopes \in Seq(S)
  BY DiscoveryAssumption
<1>2. \A s \in S : s.cloud \in {"aws", "azure"}
  OBVIOUS
<1>. HIDE DEF S
<1>. QED
  BY <1>1, <1>2

\* Nobody takes back that a scope was served.
LEMMA ServedStays ==
    ASSUME ScopeInv, scanned \subseteq scanned', failed \subseteq failed',
           NEW n \in DOMAIN Scopes, Served(n)
    PROVE  Served(n)'
  BY DEF Served

\* Between the scope in which a run fails and the next run's first one there are
\* only scopes of the cloud that failed.
LEMMA FailedRunKeeps ==
    ASSUME ScopeInv, RunFails
    PROVE  ScopeInv'
<1>. DEFINE left == {n \in DOMAIN Scopes : n > at /\ Scopes[n].cloud # Scopes[at].cloud}
<1>1. at \in DOMAIN Scopes
  BY ScopesAreNumbered DEF RunFails, Ended, ScopeInv
<1>2. /\ at' = IF left = {} THEN Len(Scopes) + 1 ELSE Min(left)
      /\ scanned' = scanned \cup {at} /\ failed' = failed \cup {Scopes[at].cloud}
      /\ phase' = "list_datasets"
  BY DEF RunFails
<1>3. at' \in 1..(Len(Scopes) + 1) /\ \A n \in left : at' <= n
  <2>1. left \in SUBSET Nat
    BY ScopesAreNumbered
  <2>2. CASE left = {}
    BY <1>2, <2>2, ScopesAreNumbered
  <2>3. CASE left # {}
    <3>1. Min(left) \in left /\ \A n \in left : Min(left) <= n
      BY <2>1, <2>3, MinIsLeast
    <3>. QED
      BY <1>2, <2>3, <3>1, ScopesAreNumbered
  <2>. QED
    BY <2>2, <2>3
<1>4. ASSUME NEW n \in DOMAIN Scopes, n < at'
      PROVE  Served(n)'
  <2>1. CASE n < at
    BY <1>2, <2>1, ServedStays DEF ScopeInv
  <2>2. CASE n = at
    BY <1>2, <2>2 DEF Served
  <2>3. CASE n > at
    <3>1. Scopes[n].cloud = Scopes[at].cloud
      BY <1>3, <1>4, <2>3, ScopesAreNumbered
    <3>. QED
      BY <1>1, <1>2, <2>3, <3>1 DEF Served
  <2>. QED
    BY <1>1, <2>1, <2>2, <2>3, ScopesAreNumbered
<1>. QED
  BY <1>1, <1>2, <1>3, <1>4, ScopesAreNumbered DEF ScopeInv, Phase

LEMMA ScopeStep ==
    ASSUME ScopeInv, [Next]_vars
    PROVE  ScopeInv'
<1>1. CASE ListDatasets
  <2>1. at \in DOMAIN Scopes
    BY <1>1, ScopesAreNumbered DEF ListDatasets, Ended, ScopeInv
  <2>2. at' = at /\ phase' = "datasets" /\ scanned' = scanned \cup {at} /\ failed' = failed
    BY <1>1 DEF ListDatasets
  <2>3. \A n \in DOMAIN Scopes : n < at' => Served(n)'
    BY <2>2, ServedStays DEF ScopeInv
  <2>. QED
    BY <2>1, <2>2, <2>3 DEF ScopeInv, Phase
<1>2. CASE RunFails
  BY <1>2, FailedRunKeeps
<1>3. ASSUME UNCHANGED <<at, scanned, failed>>, phase' \in Phase,
             phase' # "list_datasets" => phase # "list_datasets"
      PROVE  ScopeInv'
  <2>1. \A n \in DOMAIN Scopes : n < at' => Served(n)'
    BY <1>3, ServedStays DEF ScopeInv
  <2>. QED
    BY <1>3, <2>1 DEF ScopeInv
<1>4. CASE NextScope
  <2>1. /\ at \in scanned /\ at' = at + 1 /\ phase' = "list_datasets"
        /\ scanned' = scanned /\ failed' = failed
    BY <1>4 DEF NextScope, ScopeInv
  <2>2. ASSUME NEW n \in DOMAIN Scopes, n < at'
        PROVE  Served(n)'
    <3>1. CASE n < at
      BY <2>1, <3>1, ServedStays DEF ScopeInv
    <3>2. CASE n = at
      BY <2>1, <3>2 DEF Served
    <3>. QED
      BY <2>1, <2>2, <3>1, <3>2, ScopesAreNumbered DEF ScopeInv
  <2>. QED
    BY <2>1, <2>2, ScopesAreNumbered DEF ScopeInv, Phase
<1>5. CASE ListWorkloads \/ Proceed
  BY <1>3, <1>5 DEF ListWorkloads, Proceed, Phase
<1>6. CASE \/ \E r \in Buckets : DiscoverBucket(r)
           \/ \E r \in Containers : DiscoverContainer(r)
           \/ \E r \in Instances : DiscoverInstance(r)
           \/ \E r \in VMs : DiscoverVM(r)
           \/ \E r \in todo : Skip(r)
           \/ \E f \in found : Ingest(f)
  <2>1. UNCHANGED <<at, scanned, failed, phase>>
    BY <1>6 DEF DiscoverBucket, DiscoverContainer, DiscoverInstance, DiscoverVM, Found, Skip,
                Ingest
  <2>. QED
    BY <1>3, <2>1 DEF ScopeInv
<1>7. CASE UNCHANGED vars
  BY <1>3, <1>7 DEF vars, ScopeInv
<1>. QED
  BY <1>1, <1>2, <1>4, <1>5, <1>6, <1>7 DEF Next

LEMMA ScopesAreServed == Spec => []ScopeInv
<1>1. Init => ScopeInv
  BY ScopesAreNumbered DEF Init, ScopeInv, Phase
<1>. QED
  BY <1>1, ScopeStep, PTL DEF Spec

\* A listing that raises ends the run of its own cloud and no other
\* (run_cloud_discovery.py:61-80): every other scope has been scanned at the end.
THEOREM CloudsStayIndependent == Spec => []CloudsAreIndependent
<1>1. ScopeInv => CloudsAreIndependent
  BY ScopesAreNumbered DEF ScopeInv, CloudsAreIndependent, Served, Ended
<1>. QED
  BY <1>1, ScopesAreServed, PTL

-----------------------------------------------------------------------------
(***************************************************************************)
(* Types.  Only while the datasets or the workloads are examined is there  *)
(* something left to examine.                                              *)
(***************************************************************************)
DiscoveredResource == [resource : Resources, facts : Facts]

LoopInv ==
    /\ todo \subseteq Resources
    /\ phase \notin {"datasets", "workloads"} => todo = {}
    /\ phase = "list_datasets" => found = {}
    /\ found \subseteq DiscoveredResource
    /\ \A e \in DOMAIN latest :
          latest[e] \in DiscoveredResource /\ EntityOf[latest[e].resource] = e

\* What is read off a resource is true or false of it.
LEMMA Membership ==
    ASSUME NEW S, NEW r
    PROVE  \E b \in BOOLEAN : b = (r \in S)
<1>1. CASE r \in S
  <2>1. TRUE = (r \in S)
    BY <1>1
  <2>. QED
    BY <2>1, Zenon
<1>2. CASE r \notin S
  <2>1. FALSE = (r \in S)
    BY <1>2
  <2>. QED
    BY <2>1, Zenon
<1>. QED
  BY <1>1, <1>2

LEMMA FoundIsTyped ==
    ASSUME LoopInv, NEW r \in Resources, NEW public \in BOOLEAN, NEW encrypted \in BOOLEAN,
           NEW findings \in SUBSET {"export", "text", "flag"},
           Found(r, public, encrypted, findings)
    PROVE  LoopInv'
<1>. DEFINE facts == [public |-> public, encrypted |-> encrypted, findings |-> findings]
            f == [resource |-> r, facts |-> facts]
<1>1. f \in DiscoveredResource
  BY DEF DiscoveredResource, Facts
<1>2. /\ found' = found \cup {f} /\ todo' = todo \ {r} /\ phase' = phase /\ latest' = latest
      /\ phase \in {"datasets", "workloads"}
  BY DEF Found
<1>. HIDE DEF f
<1>. QED
  BY <1>1, <1>2 DEF LoopInv

LEMMA FindingsAreTyped ==
    ASSUME NEW r \in Datasets, NEW listed \in BOOLEAN, NEW read \in SUBSET Content[r]
    PROVE  FindingsOf(r, listed, read) \in SUBSET {"export", "text", "flag"}
<1>1. r \in DOMAIN Export => Export[r] \subseteq {"export"}
  BY DiscoveryAssumption
<1>. QED
  BY <1>1 DEF FindingsOf, Sampled

LEMMA LoopStep ==
    ASSUME LoopInv, [Next]_vars
    PROVE  LoopInv'
<1>1. CASE ListDatasets \/ ListWorkloads
  <2>1. todo' \subseteq Resources
    BY <1>1 DEF ListDatasets, ListWorkloads, DatasetsOf, WorkloadsOf, Resources, Datasets, Workloads
  <2>. QED
    BY <1>1, <2>1 DEF LoopInv, ListDatasets, ListWorkloads
<1>2. CASE RunFails \/ NextScope
  BY <1>2 DEF LoopInv, RunFails, NextScope
<1>3. ASSUME NEW r \in Buckets, DiscoverBucket(r)
      PROVE  LoopInv'
  <2>1. r \in Datasets /\ r \in Resources
    BY DEF Datasets, Resources
  <2>2. PICK access \in BOOLEAN, encryption \in BOOLEAN, listed \in BOOLEAN, read \in SUBSET Content[r] :
           Found(r, ~access \/ r \in Public, encryption /\ r \in Encrypted, FindingsOf(r, listed, read))
    BY <1>3 DEF DiscoverBucket
  <2>3. PICK public \in BOOLEAN : public = (~access \/ r \in Public)
    BY Zenon
  <2>4. PICK encrypted \in BOOLEAN : encrypted = (encryption /\ r \in Encrypted)
    BY Zenon
  <2>5. Found(r, public, encrypted, FindingsOf(r, listed, read))
    BY <2>2, <2>3, <2>4, Zenon
  <2>. QED
    BY <2>1, <2>5, FindingsAreTyped, FoundIsTyped
<1>4. ASSUME NEW r \in Containers, DiscoverContainer(r)
      PROVE  LoopInv'
  <2>1. r \in Datasets /\ r \in Resources
    BY DEF Datasets, Resources
  <2>2. PICK listed \in BOOLEAN, read \in SUBSET Content[r] :
           Found(r, r \in Public, TRUE, FindingsOf(r, listed, read))
    BY <1>4 DEF DiscoverContainer
  <2>3. PICK public \in BOOLEAN : public = (r \in Public)
    BY Membership, Zenon
  <2>4. Found(r, public, TRUE, FindingsOf(r, listed, read))
    BY <2>2, <2>3, Zenon
  <2>. QED
    BY <2>1, <2>4, FindingsAreTyped, FoundIsTyped
<1>5. ASSUME NEW r \in Instances, DiscoverInstance(r)
      PROVE  LoopInv'
  <2>1. r \in Resources
    BY DEF Workloads, Resources
  <2>2. PICK volumes \in BOOLEAN : Found(r, r \in Public, volumes /\ r \in Encrypted, {})
    BY <1>5 DEF DiscoverInstance
  <2>3. PICK public \in BOOLEAN : public = (r \in Public)
    BY Membership, Zenon
  <2>4. PICK encrypted \in BOOLEAN : encrypted = (volumes /\ r \in Encrypted)
    BY Zenon
  <2>5. Found(r, public, encrypted, {})
    BY <2>2, <2>3, <2>4, Zenon
  <2>. QED
    BY <2>1, <2>5, FoundIsTyped
<1>6. ASSUME NEW r \in VMs, DiscoverVM(r)
      PROVE  LoopInv'
  <2>1. r \in Resources
    BY DEF Workloads, Resources
  <2>2. PICK interfaces \in BOOLEAN : Found(r, interfaces /\ r \in Public, r \in Encrypted, {})
    BY <1>6 DEF DiscoverVM
  <2>3. PICK public \in BOOLEAN : public = (interfaces /\ r \in Public)
    BY Zenon
  <2>4. PICK encrypted \in BOOLEAN : encrypted = (r \in Encrypted)
    BY Membership, Zenon
  <2>5. Found(r, public, encrypted, {})
    BY <2>2, <2>3, <2>4, Zenon
  <2>. QED
    BY <2>1, <2>5, FoundIsTyped
<1>7. CASE Proceed \/ \E r \in todo : Skip(r)
  BY <1>7 DEF LoopInv, Proceed, Skip
<1>8. ASSUME NEW f \in found, Ingest(f)
      PROVE  LoopInv'
  <2>1. f \in DiscoveredResource /\ found' \subseteq found /\ todo' = todo /\ phase' = phase
    BY <1>8 DEF LoopInv, Ingest
  <2>2. \A e \in DOMAIN latest' :
           \/ latest'[e] = f /\ e = EntityOf[f.resource]
           \/ e \in DOMAIN latest /\ latest'[e] = latest[e]
    BY <1>8 DEF Ingest
  <2>. QED
    BY <2>1, <2>2 DEF LoopInv
<1>9. CASE UNCHANGED vars
  BY <1>9 DEF LoopInv, vars
<1>. QED
  BY <1>1, <1>2, <1>3, <1>4, <1>5, <1>6, <1>7, <1>8, <1>9 DEF Next

\* A scope begins with nothing left of the one before, not even after a run that
\* failed, and an entity's schema is about a resource of its name.
THEOREM DiscoveryTypeCorrect == Spec => []TypeOK
<1>1. Init => LoopInv
  BY DEF Init, LoopInv
<1>2. Spec => []LoopInv
  BY <1>1, LoopStep, PTL DEF Spec
<1>3. LoopInv /\ ScopeInv => TypeOK
  BY DEF LoopInv, ScopeInv, TypeOK, DiscoveredResource
<1>. QED
  BY <1>2, <1>3, ScopesAreServed, PTL
=============================================================================
