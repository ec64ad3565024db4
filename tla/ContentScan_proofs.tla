-------------------------- MODULE ContentScan_proofs -------------------------
(***************************************************************************)
(* Proofs about ContentScan for any datasets, exports, installed libraries *)
(* and caps: the findings are those of every intact entry, or of every     *)
(* object within the cap that could be read, whatever else there is.       *)
(***************************************************************************)
EXTENDS ContentScan, FiniteSetTheorems, WellFoundedInduction, TLAPS

\* What is known of a dataset.
LEMMA InputFacts ==
    ASSUME NEW i \in Inputs
    PROVE  /\ i.source \in {"s3", "blob", "repo"}
           /\ i.listing \in {"ok", "refused", "broken"}
           /\ i.file \in {"items", "unreadable", "misshapen"}
           /\ Len(i.objects) \in Nat /\ DOMAIN i.objects = 1..Len(i.objects)
           /\ \A n \in DOMAIN i.objects : i.objects[n] \in Object
           /\ Len(i.export) \in Nat /\ DOMAIN i.export = 1..Len(i.export)
           /\ \A n \in DOMAIN i.export : i.export[n] \in Item /\ IsFiniteSet(i.export[n].labels)
           /\ i.source = "repo" => i.export = <<>> /\ i.listing = "ok"
<1>1. /\ i \in Input
      /\ \A item \in ToSet(i.export) : IsFiniteSet(item.labels)
      /\ i.source = "repo" => i.export = <<>> /\ i.listing = "ok"
  BY ContentScanAssumption
<1>2. PICK S : S = Object
  OBVIOUS
<1>3. PICK T : T = Item
  OBVIOUS
<1>4. /\ i.source \in {"s3", "blob", "repo"} /\ i.listing \in {"ok", "refused", "broken"}
      /\ i.file \in {"items", "unreadable", "misshapen"}
      /\ i.objects \in Seq(S) /\ i.export \in Seq(T)
  BY <1>1, <1>2, <1>3 DEF Input
<1>5. \A n \in DOMAIN i.export : IsFiniteSet(i.export[n].labels)
  BY <1>1 DEF ToSet
<1>. QED
  BY <1>1, <1>2, <1>3, <1>4, <1>5

LEMMA WalkedFacts ==
    ASSUME NEW i \in Inputs
    PROVE  \A n \in Walked(i) : n \in Nat /\ n \in DOMAIN i.objects /\ n >= 1 /\ n <= Len(i.objects)
<1>1. DOMAIN i.objects = 1..Len(i.objects) /\ Len(i.objects) \in Nat
  BY InputFacts
<1>2. Walked(i) \subseteq DOMAIN i.objects
  BY DEF Walked
<1>. QED
  BY <1>1, <1>2

LEMMA ObjectFacts ==
    ASSUME NEW o \in Object
    PROVE  /\ o.format \in Format /\ o.near \in SUBSET Signal /\ o.far \in SUBSET Signal
           /\ o.damaged \in BOOLEAN /\ o.excluded \in BOOLEAN
           /\ o.fate \in {"ok", "refused", "broken"}
  BY DEF Object

-----------------------------------------------------------------------------
(***************************************************************************)
(* The invariant: what has been kept of the export and of the objects when *)
(* the walk is at a certain place.                                         *)
(***************************************************************************)
Intact(item) == item.about = "this" /\ ~item.broken

IntactBefore(i, k) == {n \in DOMAIN i.export : n < k /\ Intact(i.export[n])}

LoadedTo(k) ==
    /\ mentioned <=> IntactBefore(input, k) # {}
    /\ export = UNION {ContentFindings(input.export[n]) : n \in IntactBefore(input, k)}

\* How much of the export has been loaded: one that is no list of items not at all.
Loading ==
    IF at = "load" THEN pos
    ELSE IF input.file = "items" THEN Len(input.export) + 1 ELSE 1

ReadBefore(i, k) == {n \in Walked(i) : n < k /\ Fate(i.objects[n]) = "ok"}

Breaks(i, n) == Fate(i.objects[n]) = "broken" /\ i.source # "repo"

SampledTo(k) ==
    /\ findings = UNION {Yield(input.source, input.objects[n]) : n \in ReadBefore(input, k)}
    /\ \A n \in Walked(input) : n < k => ~Breaks(input, n)

Submitted ==
    LET all == IF mentioned THEN export ELSE findings
    IN  IF input.source = "repo" /\ all = {} THEN {} ELSE {to_ingestion_request(all)}

Placed ==
    /\ input \in Inputs
    /\ at \in {"load", "list", "sample", "examined", "done", "dropped", "aborted"}
    /\ pos \in Nat \ {0}
    /\ mentioned \in BOOLEAN

SampleInv ==
    /\ at \in {"load", "list"} => findings = {}
    /\ at = "sample" => ~mentioned /\ input.listing = "ok" /\ SampledTo(pos)
    /\ at \in {"examined", "done"} /\ ~mentioned /\ input.listing = "ok" =>
          SampledTo(Len(input.objects) + 1)
    /\ at = "dropped" =>
          ~mentioned /\ (input.listing = "ok" => \E n \in Walked(input) : Breaks(input, n))

ScanInv ==
    /\ Placed
    /\ LoadedTo(Loading)
    /\ SampleInv
    /\ schemas = IF at = "done" THEN Submitted ELSE {}

\* A step of the sampling leaves alone what came of the export.
LEMMA ExportStays ==
    ASSUME ScanInv, at # "load", at' # "load", UNCHANGED <<input, mentioned, export>>
    PROVE  LoadedTo(Loading)'
  BY DEF ScanInv, LoadedTo, Loading

LEMMA LoadFileKeeps ==
    ASSUME ScanInv, LoadFile
    PROVE  ScanInv'
<1>1. /\ at = "load" /\ pos = 1 /\ input.file # "items" /\ at' \in {"list", "aborted"}
      /\ UNCHANGED <<input, pos, mentioned, export, findings, schemas>>
  BY DEF LoadFile
<1>2. Placed'
  BY <1>1 DEF ScanInv, Placed
<1>3. LoadedTo(Loading)'
  BY <1>1 DEF ScanInv, LoadedTo, Loading
<1>4. SampleInv'
  BY <1>1 DEF ScanInv, SampleInv
<1>. QED
  BY <1>1, <1>2, <1>3, <1>4 DEF ScanInv

\* An entry that is intact and about the dataset adds its findings and the mention,
\* any other adds neither (macie_connector.py:85-96).
LEMMA LoadItemKeeps ==
    ASSUME ScanInv, LoadItem
    PROVE  ScanInv'
<1>1. /\ at = "load" /\ pos \in DOMAIN input.export /\ pos' = pos + 1
      /\ UNCHANGED <<input, at, findings, schemas>>
  BY DEF LoadItem
<1>. DEFINE before == IntactBefore(input, pos)
            after == IntactBefore(input, pos + 1)
<1>2. Placed' /\ pos \in Nat
  <2>1. pos \in Nat \ {0} /\ pos + 1 \in Nat \ {0}
    BY DEF ScanInv, Placed
  <2>2. mentioned' \in BOOLEAN
    BY DEF ScanInv, Placed, LoadItem
  <2>. QED
    BY <1>1, <2>1, <2>2 DEF ScanInv, Placed
<1>3. LoadedTo(Loading)'
  <2>0. /\ mentioned <=> before # {}
        /\ export = UNION {ContentFindings(input.export[n]) : n \in before}
    BY <1>1 DEF ScanInv, LoadedTo, Loading
  <2>1. CASE Intact(input.export[pos])
    <3>1. mentioned' = TRUE /\ export' = export \cup ContentFindings(input.export[pos])
      BY <2>1 DEF LoadItem, Intact
    <3>2. after = before \cup {pos}
      BY <1>1, <1>2, <2>1, InputFacts DEF IntactBefore, ScanInv, Placed
    <3>3. export' = UNION {ContentFindings(input.export[n]) : n \in after}
      BY <2>0, <3>1, <3>2
    <3>. QED
      BY <1>1, <3>1, <3>2, <3>3 DEF LoadedTo, Loading
  <2>2. CASE ~Intact(input.export[pos])
    <3>1. mentioned' = mentioned /\ export' = export
      BY <2>2 DEF LoadItem, Intact
    <3>2. after = before
      BY <1>1, <1>2, <2>2, InputFacts DEF IntactBefore, ScanInv, Placed
    <3>. QED
      BY <1>1, <2>0, <3>1, <3>2 DEF LoadedTo, Loading
  <2>. QED
    BY <2>1, <2>2
<1>4. SampleInv'
  BY <1>1 DEF ScanInv, SampleInv
<1>. QED
  BY <1>1, <1>2, <1>3, <1>4 DEF ScanInv

LEMMA LoadedKeeps ==
    ASSUME ScanInv, Loaded
    PROVE  ScanInv'
<1>1. /\ at = "load" /\ pos > Len(input.export) /\ input.file = "items" /\ at' = "list"
      /\ UNCHANGED <<input, pos, mentioned, export, findings, schemas>>
  BY DEF Loaded
<1>2. Placed'
  BY <1>1 DEF ScanInv, Placed
<1>3. LoadedTo(Loading)'
  <2>1. IntactBefore(input, pos) = IntactBefore(input, Len(input.export) + 1)
    BY <1>1, InputFacts DEF IntactBefore, ScanInv, Placed
  <2>. QED
    BY <1>1, <2>1 DEF ScanInv, LoadedTo, Loading
<1>4. SampleInv'
  BY <1>1 DEF ScanInv, SampleInv
<1>. QED
  BY <1>1, <1>2, <1>3, <1>4 DEF ScanInv

LEMMA ListKeeps ==
    ASSUME ScanInv, List
    PROVE  ScanInv'
<1>1. /\ at = "list" /\ pos' = 1
      /\ at' = IF mentioned THEN "examined"
               ELSE CASE input.listing = "ok" -> "sample"
                      [] input.listing = "refused" -> "examined"
                      [] input.listing = "broken" -> "dropped"
      /\ UNCHANGED <<input, mentioned, export, findings, schemas>>
  BY DEF List
<1>2. /\ mentioned => at' = "examined"
      /\ ~mentioned /\ input.listing = "ok" => at' = "sample"
      /\ ~mentioned /\ input.listing = "refused" => at' = "examined"
      /\ ~mentioned /\ input.listing = "broken" => at' = "dropped"
  BY <1>1
<1>3. input.listing \in {"ok", "refused", "broken"}
  BY InputFacts DEF ScanInv, Placed
<1>4. Placed' /\ at' # "load" /\ at' # "done"
  BY <1>1, <1>2, <1>3 DEF ScanInv, Placed
<1>5. SampleInv'
  <2>1. ReadBefore(input, 1) = {} /\ \A n \in Walked(input) : ~(n < 1)
    BY InputFacts DEF ReadBefore, Walked, ScanInv, Placed
  <2>2. SampledTo(1)'
    BY <1>1, <2>1 DEF SampledTo, ScanInv, SampleInv
  <2>. QED
    BY <1>1, <1>2, <1>3, <2>2 DEF SampleInv
<1>. QED
  BY <1>1, <1>4, <1>5, ExportStays DEF ScanInv

\* An object within the cap adds what it yields where it can be read.
LEMMA ExamineKeeps ==
    ASSUME ScanInv, Examine
    PROVE  ScanInv'
<1>. DEFINE o == input.objects[pos]
<1>1. /\ at = "sample" /\ pos \in Walked(input) /\ pos' = pos + 1
      /\ findings' = IF Fate(o) = "ok" THEN findings \cup Yield(input.source, o) ELSE findings
      /\ at' = IF Breaks(input, pos) THEN "dropped" ELSE at
      /\ UNCHANGED <<input, mentioned, export, schemas>>
  BY DEF Examine, Breaks
<1>2. Placed' /\ at' \in {"sample", "dropped"} /\ pos \in Nat
  BY <1>1 DEF ScanInv, Placed
<1>3. ~mentioned /\ input.listing = "ok" /\ SampledTo(pos)
  BY <1>1 DEF ScanInv, SampleInv
<1>4. CASE Breaks(input, pos)
  <2>1. SampleInv'
    BY <1>1, <1>3, <1>4 DEF SampleInv
  <2>. QED
    BY <1>1, <1>2, <2>1, ExportStays DEF ScanInv
<1>5. CASE ~Breaks(input, pos)
  <2>1. \A n \in Walked(input) : n \in Nat
    BY WalkedFacts DEF ScanInv, Placed
  <2>2. ReadBefore(input, pos + 1) =
          ReadBefore(input, pos) \cup (IF Fate(o) = "ok" THEN {pos} ELSE {})
    <3>1. \A n \in Walked(input) : n < pos + 1 <=> n < pos \/ n = pos
      BY <1>2, <2>1
    <3>. QED
      BY <1>1, <1>2, <3>1 DEF ReadBefore
  <2>3. findings' = UNION {Yield(input.source, input.objects[n]) : n \in ReadBefore(input, pos + 1)}
    BY <1>1, <1>3, <2>2 DEF SampledTo
  <2>4. \A n \in Walked(input) : n < pos + 1 => ~Breaks(input, n)
    BY <1>2, <1>3, <1>5, <2>1 DEF SampledTo
  <2>5. SampledTo(pos)'
    BY <1>1, <2>3, <2>4 DEF SampledTo
  <2>6. SampleInv'
    BY <1>1, <1>3, <1>5, <2>5 DEF SampleInv
  <2>. QED
    BY <1>1, <1>2, <2>6, ExportStays DEF ScanInv
<1>. QED
  BY <1>4, <1>5

LEMMA PassOverKeeps ==
    ASSUME ScanInv, PassOver
    PROVE  ScanInv'
<1>1. /\ at = "sample" /\ pos \notin Walked(input) /\ pos' = pos + 1
      /\ UNCHANGED <<input, at, mentioned, export, findings, schemas>>
  BY DEF PassOver
<1>2. Placed' /\ pos \in Nat
  BY <1>1 DEF ScanInv, Placed
<1>3. ~mentioned /\ input.listing = "ok" /\ SampledTo(pos)
  BY <1>1 DEF ScanInv, SampleInv
<1>4. \A n \in Walked(input) : n \in Nat /\ n # pos
  BY <1>1, WalkedFacts DEF ScanInv, Placed
<1>5. ReadBefore(input, pos + 1) = ReadBefore(input, pos)
  BY <1>2, <1>4 DEF ReadBefore
<1>6. \A n \in Walked(input) : n < pos + 1 => n < pos
  BY <1>2, <1>4
<1>7. SampledTo(pos)'
  BY <1>1, <1>3, <1>5, <1>6 DEF SampledTo
<1>8. SampleInv'
  BY <1>1, <1>3, <1>7 DEF SampleInv
<1>. QED
  BY <1>1, <1>2, <1>8, ExportStays DEF ScanInv

LEMMA ExaminedKeeps ==
    ASSUME ScanInv, Examined
    PROVE  ScanInv'
<1>1. /\ at = "sample" /\ pos > Len(input.objects) /\ at' = "examined"
      /\ UNCHANGED <<input, pos, mentioned, export, findings, schemas>>
  BY DEF Examined
<1>2. Placed' /\ pos \in Nat
  BY <1>1 DEF ScanInv, Placed
<1>3. SampledTo(pos)
  BY <1>1 DEF ScanInv, SampleInv
<1>4. /\ ReadBefore(input, Len(input.objects) + 1) = ReadBefore(input, pos)
      /\ \A n \in Walked(input) : n < pos
  BY <1>1, <1>2, InputFacts DEF ReadBefore, Walked, ScanInv, Placed
<1>5. SampledTo(Len(input.objects) + 1)'
  BY <1>1, <1>3, <1>4 DEF SampledTo
<1>6. SampleInv'
  BY <1>1, <1>5 DEF SampleInv
<1>. QED
  BY <1>1, <1>2, <1>6, ExportStays DEF ScanInv

LEMMA SubmitKeeps ==
    ASSUME ScanInv, Submit
    PROVE  ScanInv'
<1>1. /\ at = "examined" /\ at' = "done" /\ schemas' = Submitted
      /\ UNCHANGED <<input, pos, mentioned, export, findings>>
  BY DEF Submit, Submitted
<1>2. Placed'
  BY <1>1 DEF ScanInv, Placed
<1>3. SampleInv'
  BY <1>1 DEF ScanInv, SampleInv, SampledTo
<1>4. schemas' = Submitted'
  BY <1>1 DEF Submitted
<1>. QED
  BY <1>1, <1>2, <1>3, <1>4, ExportStays DEF ScanInv

LEMMA ScanInvariant == Spec => []ScanInv
<1>1. Init => ScanInv
  <2>. SUFFICES ASSUME Init PROVE ScanInv
    OBVIOUS
  <2>1. Placed /\ at = "load" /\ findings = {} /\ schemas = {}
    <3>1. /\ input \in Inputs /\ at = "load" /\ pos = 1 /\ mentioned = FALSE
          /\ findings = {} /\ schemas = {}
      BY DEF Init
    <3>2. pos \in Nat \ {0}
      BY <3>1
    <3>3. mentioned \in BOOLEAN
      BY <3>1
    <3>. QED
      BY <3>1, <3>2, <3>3 DEF Placed
  <2>2. LoadedTo(Loading)
    <3>1. IntactBefore(input, 1) = {}
      BY InputFacts DEF Init, IntactBefore
    <3>2. Loading = 1 /\ mentioned = FALSE /\ export = {}
      BY DEF Init, Loading
    <3>. QED
      BY <3>1, <3>2 DEF LoadedTo
  <2>. QED
    BY <2>1, <2>2 DEF ScanInv, SampleInv
<1>2. ScanInv /\ [Next]_vars => ScanInv'
  <2>. SUFFICES ASSUME ScanInv, [Next]_vars PROVE ScanInv'
    OBVIOUS
  <2>1. CASE LoadFile \/ LoadItem \/ Loaded
    BY <2>1, LoadFileKeeps, LoadItemKeeps, LoadedKeeps
  <2>2. CASE List \/ Submit
    BY <2>2, ListKeeps, SubmitKeeps
  <2>3. CASE Examine \/ PassOver \/ Examined
    BY <2>3, ExamineKeeps, PassOverKeeps, ExaminedKeeps
  <2>4. CASE UNCHANGED vars
    BY <2>4 DEF vars, ScanInv, Placed, SampleInv, SampledTo, LoadedTo, Loading, Submitted
  <2>. QED
    BY <2>1, <2>2, <2>3, <2>4 DEF Next
<1>. QED
  BY <1>1, <1>2, PTL DEF Spec

-----------------------------------------------------------------------------
(***************************************************************************)
(* From what was found to what is on record.                               *)
(***************************************************************************)
All == IF mentioned THEN export ELSE findings

Serious == {"national_id", "health", "genetic"}

\* The classification has the category of every finding, and is a high one
\* exactly when one of the three is among them (transform.py:28-56).
LEMMA RecordedFacts ==
    ASSUME ScanInv, at = "done"
    PROVE  /\ All # {} => Recorded = {f.category : f \in All}
           /\ All = {} => Recorded = IF input.source = "repo" THEN {} ELSE {"none"}
           /\ High <=> \E f \in All : f.category \in Serious
<1>1. schemas = IF input.source = "repo" /\ All = {} THEN {} ELSE {to_ingestion_request(All)}
  BY DEF ScanInv, Submitted, All
<1>2. /\ to_ingestion_request(All).categories = IF All = {} THEN {"none"} ELSE {f.category : f \in All}
      /\ to_ingestion_request(All).sensitivity = _aggregate_sensitivity(All)
  BY DEF to_ingestion_request
<1>3. _aggregate_sensitivity(All) = "high" <=> \E f \in All : f.category \in Serious
  BY DEF _aggregate_sensitivity, Serious
<1>4. CASE input.source = "repo" /\ All = {}
  BY <1>1, <1>4 DEF Recorded, High
<1>5. CASE ~(input.source = "repo" /\ All = {})
  <2>1. schemas = {to_ingestion_request(All)}
    BY <1>1, <1>5
  <2>2. Recorded = to_ingestion_request(All).categories
    BY <2>1 DEF Recorded
  <2>3. High <=> to_ingestion_request(All).sensitivity = "high"
    BY <2>1 DEF High
  <2>. QED
    BY <1>2, <1>3, <1>5, <2>2, <2>3
<1>. QED
  BY <1>4, <1>5

Entire(source, o) == Legible(o) \cup (IF source = "repo" /\ o.format = "text" THEN o.far ELSE {})

\* A sampleable object yields what its legible signals stand for.
LEMMA YieldFacts ==
    ASSUME NEW o \in Object, NEW source, is_sampleable(o)
    PROVE  Yield(source, o) =
             {Finding(Detector[s][1], Detector[s][2], "regex") : s \in Entire(source, o)}
<1>1. extract_text_by_extension(source, o) = Entire(source, o)
  BY DEF extract_text_by_extension, Entire, Legible, is_sampleable
<1>. QED
  BY <1>1 DEF Yield, requires_manual_review, is_sampleable, detect_content_findings

LEMMA FindingFields ==
    ASSUME NEW c, NEW k, NEW d
    PROVE  Finding(c, k, d).category = c
  BY DEF Finding

\* At the end of a scan that sampled, the objects that were read are those on the
\* page, or within the walk's cap, whose reading did not fail.
LEMMA SampledFacts ==
    ASSUME ScanInv, Sampled
    PROVE  /\ at = "dropped" <=> \E n \in Walked(input) : Breaks(input, n)
           /\ at = "done" =>
                findings = UNION {Yield(input.source, input.objects[n]) :
                                     n \in {m \in Walked(input) : Fate(input.objects[m]) = "ok"}}
<1>1. CASE at = "dropped"
  BY <1>1 DEF ScanInv, SampleInv, Sampled
<1>2. CASE at = "done"
  <2>1. SampledTo(Len(input.objects) + 1)
    BY <1>2 DEF ScanInv, SampleInv, Sampled
  <2>2. \A n \in Walked(input) : n < Len(input.objects) + 1
    BY WalkedFacts, InputFacts DEF ScanInv, Placed
  <2>3. ReadBefore(input, Len(input.objects) + 1) = {m \in Walked(input) : Fate(input.objects[m]) = "ok"}
    BY <2>2 DEF ReadBefore
  <2>. QED
    BY <1>2, <2>1, <2>2, <2>3 DEF SampledTo
<1>. QED
  BY <1>1, <1>2 DEF Sampled

\* Every legible signal of an object that was walked and is readable is on record.
LEMMA LegibleIsRecorded ==
    ASSUME ScanInv, Sampled, at = "done",
           NEW n \in Walked(input), input.objects[n].fate = "ok",
           NEW s \in Entire(input.source, input.objects[n]), is_sampleable(input.objects[n])
    PROVE  /\ Detector[s][1] \in Recorded
           /\ Detector[s][1] \in Serious => High
<1>. DEFINE o == input.objects[n]
            f == Finding(Detector[s][1], Detector[s][2], "regex")
<1>1. o \in Object
  BY WalkedFacts, InputFacts DEF ScanInv, Placed
<1>2. Fate(o) = "ok"
  BY DEF Fate
<1>3. f \in Yield(input.source, o)
  BY <1>1, YieldFacts
<1>4. f \in findings
  BY <1>2, <1>3, SampledFacts
<1>5. f \in All
  BY <1>4 DEF All, Sampled
<1>6. f.category = Detector[s][1]
  BY FindingFields
<1>. QED
  BY <1>5, <1>6, RecordedFacts

LEMMA LegibleIsSampleable ==
    ASSUME NEW o \in Object, Legible(o) # {}
    PROVE  is_sampleable(o)
<1>1. Extractors \subseteq {"pdf", "image"}
  BY ContentScanAssumption
<1>. QED
  BY <1>1 DEF Legible, is_sampleable

-----------------------------------------------------------------------------
\* Sampling: an object costs nothing but itself (s3_connector.py:100).
LEMMA ObjectsAreIndependent ==
    ASSUME ScanInv
    PROVE  OneBadObjectCostsOnlyItself
<1>. SUFFICES ASSUME Sampled, input.source # "repo" PROVE OneBadObjectCostsOnlyItself
  BY DEF OneBadObjectCostsOnlyItself
<1>. DEFINE page == {n \in DOMAIN input.objects : n <= MaxObjects}
            broken == \E n \in page : /\ input.objects[n].fate = "broken"
                                      /\ input.objects[n].format \in {"text", "pdf", "image"}
<1>1. page = Walked(input)
  BY DEF Walked
<1>2. broken <=> \E n \in Walked(input) : Breaks(input, n)
  BY <1>1 DEF Breaks, Fate, is_sampleable
<1>3. at = "dropped" <=> broken
  BY <1>2, SampledFacts
<1>4. ASSUME ~broken, NEW n \in page, input.objects[n].fate = "ok",
             NEW s \in Legible(input.objects[n])
      PROVE  Detector[s][1] \in Recorded
  <2>1. at = "done"
    BY <1>3, <1>4 DEF Sampled
  <2>2. input.objects[n] \in Object
    BY InputFacts DEF ScanInv, Placed
  <2>3. is_sampleable(input.objects[n])
    BY <2>2, LegibleIsSampleable
  <2>4. s \in Entire(input.source, input.objects[n])
    BY DEF Entire
  <2>. QED
    BY <1>1, <1>4, <2>1, <2>3, <2>4, LegibleIsRecorded
<1>. QED
  BY <1>3, <1>4 DEF OneBadObjectCostsOnlyItself

\* The walk of a repository (repo_scanner.py:37-53).
LEMMA DataIsWalked ==
    ASSUME NEW i \in Inputs, i.source = "repo",
           Cardinality({n \in DOMAIN i.objects : IsDataFile(i.objects[n])}) <= MaxObjects,
           NEW n \in DOMAIN i.objects, IsDataFile(i.objects[n])
    PROVE  n \in Walked(i)
<1>. DEFINE data == {m \in DOMAIN i.objects : IsDataFile(i.objects[m])}
            upto == {m \in 1..n : IsDataFile(i.objects[m])}
<1>1. DOMAIN i.objects = 1..Len(i.objects) /\ Len(i.objects) \in Nat
  BY InputFacts
<1>2. IsFiniteSet(1..Len(i.objects))
  BY <1>1, FS_Interval
<1>3. data \in SUBSET (1..Len(i.objects))
  BY <1>1
<1>4. IsFiniteSet(data)
  BY <1>2, <1>3, FS_Subset
<1>5. upto \in SUBSET data
  BY <1>1
<1>6. Cardinality(upto) <= Cardinality(data) /\ IsFiniteSet(upto)
  BY <1>4, <1>5, FS_Subset
<1>7. Cardinality(upto) \in Nat /\ Cardinality(data) \in Nat
  BY <1>4, <1>6, FS_CardinalityType
<1>8. Cardinality(upto) <= MaxObjects
  BY <1>6, <1>7, ContentScanAssumption
<1>. QED
  BY <1>8 DEF Walked

LEMMA RepositoriesAreRead ==
    ASSUME ScanInv
    PROVE  RepositoryIsReadToItsCaps
<1>. SUFFICES ASSUME Sampled, input.source = "repo" PROVE RepositoryIsReadToItsCaps
  BY DEF RepositoryIsReadToItsCaps
<1>. DEFINE own == {n \in DOMAIN input.objects : ~input.objects[n].excluded}
            data == {n \in own : input.objects[n].format \in {"text", "pdf", "image"}}
            Whole(o) == Legible(o) \cup (IF o.format = "text" THEN o.far ELSE {})
            held == UNION {Whole(input.objects[n]) : n \in {m \in data : input.objects[m].fate = "ok"}}
<1>0. input \in Inputs
  BY DEF ScanInv, Placed
<1>1. at = "done" /\ ~mentioned
  BY SampledFacts DEF Breaks, Sampled
<1>2. data = {n \in DOMAIN input.objects : IsDataFile(input.objects[n])}
  BY DEF IsDataFile, is_sampleable
<1>3. \A o : Whole(o) = Entire(input.source, o)
  BY DEF Entire
<1>4. ASSUME Cardinality(data) <= MaxObjects
      PROVE  {Detector[s][1] : s \in held} \subseteq Recorded
  <2>. SUFFICES ASSUME NEW n \in data, input.objects[n].fate = "ok", NEW s \in Whole(input.objects[n])
                PROVE  Detector[s][1] \in Recorded
    OBVIOUS
  <2>1. n \in Walked(input)
    BY <1>0, <1>2, <1>4, DataIsWalked
  <2>2. is_sampleable(input.objects[n])
    BY DEF is_sampleable
  <2>3. s \in Entire(input.source, input.objects[n])
    BY <1>3
  <2>. QED
    BY <1>1, <2>1, <2>2, <2>3, LegibleIsRecorded
<1>5. Recorded \subseteq {Detector[s][1] : s \in held}
  <2>. SUFFICES ASSUME NEW c \in Recorded PROVE c \in {Detector[s][1] : s \in held}
    OBVIOUS
  <2>1. PICK f \in findings : c = f.category
    BY <1>1, RecordedFacts DEF All
  <2>2. PICK n \in Walked(input) : Fate(input.objects[n]) = "ok" /\ f \in Yield(input.source, input.objects[n])
    BY <1>1, <2>1, SampledFacts
  <2>3. n \in DOMAIN input.objects /\ IsDataFile(input.objects[n]) /\ input.objects[n] \in Object
    BY <1>0, WalkedFacts, InputFacts DEF Walked
  <2>4. n \in data /\ input.objects[n].fate = "ok" /\ is_sampleable(input.objects[n])
    BY <1>2, <2>2, <2>3 DEF IsDataFile, Fate
  <2>5. PICK s \in Entire(input.source, input.objects[n]) :
           f = Finding(Detector[s][1], Detector[s][2], "regex")
    BY <2>2, <2>3, <2>4, YieldFacts
  <2>6. s \in held
    BY <1>3, <2>4, <2>5
  <2>. QED
    BY <2>1, <2>5, <2>6, FindingFields
<1>. QED
  BY <1>4, <1>5 DEF RepositoryIsReadToItsCaps

-----------------------------------------------------------------------------
(***************************************************************************)
(* The export.                                                             *)
(***************************************************************************)

\* After the loading, a dataset that is mentioned has the findings of every entry
\* that is intact and about it.
LEMMA ExportFacts ==
    ASSUME ScanInv, at # "load"
    PROVE  /\ input.file = "items" \/ mentioned =>
                /\ mentioned <=> \E n \in DOMAIN input.export : Intact(input.export[n])
                /\ export = UNION {ContentFindings(input.export[n]) :
                                      n \in {m \in DOMAIN input.export : Intact(input.export[m])}}
<1>1. DOMAIN input.export = 1..Len(input.export) /\ Len(input.export) \in Nat
  BY InputFacts DEF ScanInv, Placed
<1>2. CASE input.file = "items"
  <2>1. Loading = Len(input.export) + 1
    BY <1>2 DEF Loading
  <2>2. IntactBefore(input, Len(input.export) + 1) = {m \in DOMAIN input.export : Intact(input.export[m])}
    BY <1>1 DEF IntactBefore
  <2>. QED
    BY <2>1, <2>2 DEF ScanInv, LoadedTo
<1>3. CASE input.file # "items"
  <2>1. Loading = 1
    BY <1>3 DEF Loading
  <2>2. IntactBefore(input, 1) = {}
    BY <1>1 DEF IntactBefore
  <2>. QED
    BY <1>3, <2>1, <2>2 DEF ScanInv, LoadedTo
<1>. QED
  BY <1>2, <1>3

\* A set onto which a function maps a finite one has no more elements.
LEMMA ImageIsNoLarger ==
    ASSUME NEW S, IsFiniteSet(S), NEW T, NEW g \in [S -> T], \A t \in T : \E s \in S : g[s] = t
    PROVE  IsFiniteSet(T) /\ Cardinality(T) <= Cardinality(S)
<1>1. g \in Surjection(S, T)
  BY DEF Surjection
<1>. QED
  BY <1>1, FS_Surjection

\* Loading: a malformed entry costs nothing but itself (macie_connector.py:94).
LEMMA EntriesAreIndependent ==
    ASSUME ScanInv
    PROVE  OneBadEntryCostsOnlyItself
<1>. SUFFICES ASSUME at \notin {"load"}, input.file = "items" PROVE OneBadEntryCostsOnlyItself
  BY DEF OneBadEntryCostsOnlyItself
<1>. DEFINE intact == {n \in DOMAIN input.export :
                          input.export[n].about = "this" /\ ~input.export[n].broken}
            sets == {input.export[n].labels : n \in intact}
            labels == UNION sets
            named == {l \in labels : "blank" \notin DOMAIN l}
            Of(l) == Finding(CategoryOf(l), 97, "dlp")
<1>1. intact = {n \in DOMAIN input.export : Intact(input.export[n])}
  BY DEF Intact
<1>2. /\ mentioned <=> intact # {}
      /\ export = UNION {ContentFindings(input.export[n]) : n \in intact}
  BY <1>1, ExportFacts
<1>3. export = {Of(l) : l \in named}
  BY <1>2 DEF ContentFindings
<1>4. (export = {}) <=> (\A l \in labels : "blank" \in DOMAIN l)
  BY <1>3
<1>5. IsFiniteSet(labels)
  <2>1. /\ DOMAIN input.export = 1..Len(input.export) /\ Len(input.export) \in Nat
        /\ \A n \in DOMAIN input.export : IsFiniteSet(input.export[n].labels)
    BY InputFacts DEF ScanInv, Placed
  <2>2. IsFiniteSet(1..Len(input.export))
    BY <2>1, FS_Interval
  <2>3. intact \in SUBSET (1..Len(input.export))
    BY <2>1
  <2>4. IsFiniteSet(intact)
    BY <2>2, <2>3, FS_Subset
  <2>. DEFINE g == [n \in intact |-> input.export[n].labels]
  <2>5. g \in [intact -> sets] /\ \A t \in sets : \E n \in intact : g[n] = t
    OBVIOUS
  <2>6. IsFiniteSet(sets)
    <3>. HIDE DEF g, sets, intact
    <3>. QED
      BY <2>4, <2>5, ImageIsNoLarger
  <2>7. \A T \in sets : IsFiniteSet(T)
    BY <2>1
  <2>. QED
    <3>. HIDE DEF sets
    <3>. QED
      BY <2>6, <2>7, FS_UNION
<1>6. Cardinality(export) <= Cardinality(labels)
  <2>1. named \in SUBSET labels
    OBVIOUS
  <2>2. IsFiniteSet(named) /\ Cardinality(named) <= Cardinality(labels)
    <3>. HIDE DEF labels, named
    <3>. QED
      BY <1>5, <2>1, FS_Subset
  <2>. DEFINE g == [l \in named |-> Of(l)]
  <2>3. g \in [named -> export] /\ \A t \in export : \E l \in named : g[l] = t
    BY <1>3
  <2>4. IsFiniteSet(export) /\ Cardinality(export) <= Cardinality(named)
    <3>. HIDE DEF g, named
    <3>. QED
      BY <2>2, <2>3, ImageIsNoLarger
  <2>5. Cardinality(export) \in Nat /\ Cardinality(named) \in Nat /\ Cardinality(labels) \in Nat
    BY <1>5, <2>2, <2>4, FS_CardinalityType
  <2>. QED
    BY <2>2, <2>4, <2>5
<1>. QED
  BY <1>2, <1>4, <1>6 DEF OneBadEntryCostsOnlyItself

\* The finding of a label of an intact entry is on record.
LEMMA LabelIsRecorded ==
    ASSUME ScanInv, at = "done", mentioned,
           NEW n \in DOMAIN input.export, Intact(input.export[n]),
           NEW l \in input.export[n].labels, "blank" \notin DOMAIN l
    PROVE  /\ CategoryOf(l) \in Recorded
           /\ CategoryOf(l) \in Serious => High
<1>. DEFINE f == Finding(CategoryOf(l), 97, "dlp")
<1>1. f \in ContentFindings(input.export[n])
  BY DEF ContentFindings
<1>2. f \in All
  BY <1>1, ExportFacts DEF All
<1>3. f.category = CategoryOf(l)
  BY FindingFields
<1>. QED
  BY <1>2, <1>3, RecordedFacts

LEMMA LabelFacts ==
    ASSUME NEW l \in Label
    PROVE  /\ "type" \in DOMAIN l => "words" \notin DOMAIN l /\ "blank" \notin DOMAIN l
           /\ "words" \in DOMAIN l => l.words \in SUBSET Keyword /\ "blank" \notin DOMAIN l
<1>1. CASE l \in [type : STRING, top : STRING]
  <2>1. DOMAIN l = {"type", "top"}
    BY <1>1
  <2>. QED
    BY <2>1
<1>2. CASE l \in [words : SUBSET Keyword]
  <2>1. DOMAIN l = {"words"} /\ l.words \in SUBSET Keyword
    BY <1>2
  <2>. QED
    BY <2>1
<1>3. CASE l \in [blank : {TRUE}]
  <2>1. DOMAIN l = {"blank"}
    BY <1>3
  <2>. QED
    BY <2>1
<1>. QED
  BY <1>1, <1>2, <1>3 DEF Label

\* Each type of detection stands in one row of the table (dlp_mapping.py:29-43).
LEMMA MacieFacts ==
    ASSUME NEW top
    PROVE  /\ map_macie_detection("NATIONAL_IDENTIFICATION_NUMBER", top) = "national_id"
           /\ map_macie_detection("MEDICAL_RECORD_NUMBER", top) = "health"
<1>1. \A c \in DOMAIN MACIE_DETECTION_MAP :
         /\ "NATIONAL_IDENTIFICATION_NUMBER" \in MACIE_DETECTION_MAP[c] <=> c = "national_id"
         /\ "MEDICAL_RECORD_NUMBER" \in MACIE_DETECTION_MAP[c] <=> c = "health"
  BY DEF MACIE_DETECTION_MAP
<1>2. {"national_id", "health"} \subseteq DOMAIN MACIE_DETECTION_MAP
  BY DEF MACIE_DETECTION_MAP
<1>. QED
  BY <1>1, <1>2 DEF map_macie_detection

\* One sign of a national identifier or of health makes the dataset a high one
\* (transform.py:31-33).
LEMMA OneBadFieldIsEnough ==
    ASSUME ScanInv
    PROVE  OneBadFieldPullsTheDatasetIn
<1>. SUFFICES ASSUME at = "done" PROVE OneBadFieldPullsTheDatasetIn
  BY DEF OneBadFieldPullsTheDatasetIn
<1>1. (Recorded \cap Serious # {}) <=> High
  <2>1. CASE All = {}
    BY <2>1, RecordedFacts DEF Serious
  <2>2. CASE All # {}
    BY <2>2, RecordedFacts
  <2>. QED
    BY <2>1, <2>2
<1>2. ASSUME ~mentioned, input.source # "repo", NEW n \in DOMAIN input.objects,
             n <= MaxObjects, input.listing = "ok", input.objects[n].fate = "ok",
             Legible(input.objects[n]) \cap {"cin", "health"} # {}
      PROVE  High
  <2>1. Sampled
    BY <1>2 DEF Sampled
  <2>2. input.objects[n] \in Object
    BY InputFacts DEF ScanInv, Placed
  <2>3. is_sampleable(input.objects[n]) /\ n \in Walked(input)
    BY <1>2, <2>2, LegibleIsSampleable DEF Walked
  <2>4. PICK s \in Legible(input.objects[n]) : s \in {"cin", "health"}
    BY <1>2
  <2>5. s \in Entire(input.source, input.objects[n])
    BY <2>4 DEF Entire
  <2>6. Detector["cin"][1] = "national_id" /\ Detector["health"][1] = "health"
    BY DEF Detector
  <2>7. Detector[s][1] \in Serious
    BY <2>4, <2>6 DEF Serious
  <2>. QED
    BY <1>2, <2>1, <2>3, <2>5, <2>7, LegibleIsRecorded
<1>3. ASSUME mentioned, NEW n \in DOMAIN input.export,
             input.export[n].about = "this", ~input.export[n].broken,
             NEW l \in input.export[n].labels, "type" \in DOMAIN l,
             l.type \in {"NATIONAL_IDENTIFICATION_NUMBER", "MEDICAL_RECORD_NUMBER"}
      PROVE  High
  <2>1. l \in Label
    BY InputFacts DEF ScanInv, Placed, Item
  <2>2. "words" \notin DOMAIN l /\ "blank" \notin DOMAIN l
    BY <1>3, <2>1, LabelFacts
  <2>3. CategoryOf(l) \in Serious
    BY <1>3, <2>2, MacieFacts DEF CategoryOf, Serious
  <2>. QED
    BY <1>3, <2>2, <2>3, LabelIsRecorded DEF Intact
<1>. QED
  BY <1>1, <1>2, <1>3 DEF OneBadFieldPullsTheDatasetIn, Serious

-----------------------------------------------------------------------------
\* A set of positions that is not empty has a first one.
LEMMA MinIsLeast ==
    ASSUME NEW S \in SUBSET Nat, S # {}
    PROVE  Min(S) \in S /\ \A n \in S : Min(S) <= n
<1>1. PICK R : IsWellFoundedOn(R, Nat) /\ R = {ss \in Nat \X Nat : ss[1] < ss[2]}
  BY NatLessThanWellFounded, Zenon DEF OpToRel
<1>2. PICK m \in S : \A n \in S : <<n, m>> \notin R
  BY <1>1, WFMin
<1>3. ASSUME NEW n \in S PROVE m <= n
  <2>1. m \in Nat /\ n \in Nat
    OBVIOUS
  <2>2. n < m => <<n, m>> \in {ss \in Nat \X Nat : ss[1] < ss[2]}
    BY <2>1
  <2>3. ~(n < m)
    BY <1>1, <1>2, <2>2
  <2>. QED
    BY <2>1, <2>3
<1>. QED
  BY <1>3 DEF Min

\* The keywords of the special categories stand before the ordinary ones
\* (dlp_mapping.py:51-71).
LEMMA PurviewFacts ==
    ASSUME NEW words \in SUBSET Keyword,
           words \ {"PERSONAL", "FINANCIAL", "CREDIT_CARD", "BANK"} # {}
    PROVE  \E entry \in ToSet(_PURVIEW_SUBSTRING_MAP) :
              /\ entry[1] \in words
              /\ entry[2] # "ordinary_pii"
              /\ entry[2] = map_purview_classification(words)
<1>. DEFINE hits == {i \in DOMAIN _PURVIEW_SUBSTRING_MAP : _PURVIEW_SUBSTRING_MAP[i][1] \in words}
<1>1. DOMAIN _PURVIEW_SUBSTRING_MAP = 1..17
  BY DEF _PURVIEW_SUBSTRING_MAP
<1>2. /\ _PURVIEW_SUBSTRING_MAP[14][1] = "PERSONAL" /\ _PURVIEW_SUBSTRING_MAP[15][1] = "FINANCIAL"
      /\ _PURVIEW_SUBSTRING_MAP[16][1] = "CREDIT_CARD" /\ _PURVIEW_SUBSTRING_MAP[17][1] = "BANK"
  BY DEF _PURVIEW_SUBSTRING_MAP
<1>3. \A i \in 1..13 : _PURVIEW_SUBSTRING_MAP[i][2] # "ordinary_pii"
  BY DEF _PURVIEW_SUBSTRING_MAP
<1>4. PICK i \in hits : i <= 13
  <2>1. PICK k \in words : k \notin {"PERSONAL", "FINANCIAL", "CREDIT_CARD", "BANK"}
    OBVIOUS
  <2>2. PICK i \in 1..17 : k = _PURVIEW_SUBSTRING_MAP[i][1]
    BY <1>1, <2>1 DEF Keyword, ToSet
  <2>3. i # 14 /\ i # 15 /\ i # 16 /\ i # 17
    BY <1>2, <2>1, <2>2
  <2>. QED
    BY <1>1, <2>1, <2>2, <2>3
<1>5. Min(hits) \in hits /\ Min(hits) <= i
  <2>1. hits \in SUBSET Nat /\ hits # {}
    BY <1>1, <1>4
  <2>. HIDE DEF hits
  <2>. QED
    BY <1>4, <2>1, MinIsLeast
<1>6. Min(hits) \in 1..13
  BY <1>1, <1>4, <1>5
<1>7. map_purview_classification(words) = _PURVIEW_SUBSTRING_MAP[Min(hits)][2]
  BY <1>4 DEF map_purview_classification
<1>8. _PURVIEW_SUBSTRING_MAP[Min(hits)] \in ToSet(_PURVIEW_SUBSTRING_MAP)
  BY <1>1, <1>6 DEF ToSet
<1>. QED
  BY <1>3, <1>5, <1>6, <1>7, <1>8

\* No name with a keyword of a special category is ordinary data
\* (dlp_mapping.py:74-79).
LEMMA SpecialNamesAreSpecial ==
    ASSUME ScanInv
    PROVE  SpecialBeforeOrdinary
<1>. SUFFICES ASSUME mentioned, at = "done", NEW n \in DOMAIN input.export,
                     input.export[n].about = "this", ~input.export[n].broken,
                     NEW l \in input.export[n].labels, "words" \in DOMAIN l,
                     l.words \ {"PERSONAL", "FINANCIAL", "CREDIT_CARD", "BANK"} # {}
              PROVE  \E entry \in ToSet(_PURVIEW_SUBSTRING_MAP) :
                        /\ entry[1] \in l.words
                        /\ entry[2] # "ordinary_pii"
                        /\ entry[2] \in Recorded
  BY DEF SpecialBeforeOrdinary
<1>1. l \in Label
  BY InputFacts DEF ScanInv, Placed, Item
<1>2. l.words \in SUBSET Keyword /\ "blank" \notin DOMAIN l
  BY <1>1, LabelFacts
<1>3. \E entry \in ToSet(_PURVIEW_SUBSTRING_MAP) :
         entry[1] \in l.words /\ entry[2] # "ordinary_pii" /\ entry[2] = CategoryOf(l)
  BY <1>2, PurviewFacts DEF CategoryOf
<1>4. CategoryOf(l) \in Recorded
  BY <1>2, LabelIsRecorded DEF Intact
<1>. QED
  BY <1>3, <1>4

-----------------------------------------------------------------------------
\* Where a repository holds no more data files than the cap, every one that can be
\* read is on record as far as the caps on its bytes, pages and characters go, and
\* nothing but these (repo_scanner.py:37-53, 68).
THEOREM RepositoriesAreReadToTheirCaps == Spec => []RepositoryIsReadToItsCaps
<1>1. ScanInv => RepositoryIsReadToItsCaps
  BY RepositoriesAreRead
<1>. QED
  BY <1>1, ScanInvariant, PTL

\* An object that is refused, damaged or of an unknown format, and an entry that is
\* malformed, take nothing else with them (s3_connector.py:100,
\* macie_connector.py:94).
THEOREM BadPartsStandAlone == Spec => []OneBadPartCostsOnlyItself
<1>1. ScanInv => OneBadPartCostsOnlyItself
  BY ObjectsAreIndependent, EntriesAreIndependent DEF OneBadPartCostsOnlyItself
<1>. QED
  BY <1>1, ScanInvariant, PTL

\* No ordinary data hides a special category, in the aggregate or in the name of a
\* classification (transform.py:31-33, dlp_mapping.py:74-79).
THEOREM SensitiveDataIsOnRecord == Spec => []SensitiveIsOnRecord
<1>1. ScanInv => SensitiveIsOnRecord
  BY OneBadFieldIsEnough, SpecialNamesAreSpecial DEF SensitiveIsOnRecord
<1>. QED
  BY <1>1, ScanInvariant, PTL

-----------------------------------------------------------------------------
(***************************************************************************)
(* Types.                                                                  *)
(***************************************************************************)
\* A set of percentages that is not empty has a greatest one: its complement to
\* a hundred has a least.
LEMMA MaxIsGreatest ==
    ASSUME NEW S \in SUBSET (0..100), S # {}
    PROVE  Max(S) \in S
<1>. DEFINE T == {100 - n : n \in S}
<1>1. T \in SUBSET Nat /\ T # {}
  <2>1. \A n \in S : n \in 0..100 /\ 100 - n \in Nat
    OBVIOUS
  <2>2. PICK n : n \in S
    OBVIOUS
  <2>. QED
    BY <2>1, <2>2
<1>2. PICK m \in T : \A n \in T : m <= n
  <2>. HIDE DEF T
  <2>. QED
    BY <1>1, MinIsLeast
<1>3. PICK g \in S : m = 100 - g
  BY <1>2
<1>4. \A n \in S : n <= g
  <2>. SUFFICES ASSUME NEW n \in S PROVE n <= g
    OBVIOUS
  <2>1. 100 - n \in T
    OBVIOUS
  <2>2. 100 - g <= 100 - n
    BY <1>2, <1>3, <2>1
  <2>3. n \in 0..100 /\ g \in 0..100
    OBVIOUS
  <2>. HIDE DEF T
  <2>. QED
    BY <2>2, <2>3
<1>5. Max(S) \in S /\ \A n \in S : n <= Max(S)
  BY <1>4, Zenon DEF Max
<1>. QED
  BY <1>5

LEMMA CategoryIsTyped ==
    ASSUME NEW l \in Label, "blank" \notin DOMAIN l
    PROVE  CategoryOf(l) \in Category
<1>1. CASE "words" \in DOMAIN l
  <2>. DEFINE hits == {i \in DOMAIN _PURVIEW_SUBSTRING_MAP : _PURVIEW_SUBSTRING_MAP[i][1] \in l.words}
  <2>1. DOMAIN _PURVIEW_SUBSTRING_MAP = 1..17
    BY DEF _PURVIEW_SUBSTRING_MAP
  <2>2. \A i \in 1..17 : _PURVIEW_SUBSTRING_MAP[i][2] \in Category
    BY DEF _PURVIEW_SUBSTRING_MAP, Category
  <2>3. hits # {} => Min(hits) \in 1..17
    <3>1. hits \in SUBSET Nat /\ hits \subseteq 1..17
      BY <2>1
    <3>. HIDE DEF hits
    <3>. QED
      BY <3>1, MinIsLeast
  <2>. QED
    BY <1>1, <2>2, <2>3 DEF CategoryOf, map_purview_classification, Category
<1>2. CASE "words" \notin DOMAIN l
  <2>1. DOMAIN MACIE_DETECTION_MAP \subseteq Category
    BY DEF MACIE_DETECTION_MAP, Category
  <2>2. map_macie_detection(l.type, l.top) \in Category
    <3>1. CASE \E c \in DOMAIN MACIE_DETECTION_MAP : l.type \in MACIE_DETECTION_MAP[c]
      <4>1. (CHOOSE c \in DOMAIN MACIE_DETECTION_MAP : l.type \in MACIE_DETECTION_MAP[c])
              \in DOMAIN MACIE_DETECTION_MAP
        BY <3>1, Zenon
      <4>. HIDE DEF MACIE_DETECTION_MAP
      <4>2. ~(\A c \in DOMAIN MACIE_DETECTION_MAP : l.type \notin MACIE_DETECTION_MAP[c])
        BY <3>1
      <4>3. map_macie_detection(l.type, l.top) =
              CHOOSE c \in DOMAIN MACIE_DETECTION_MAP : l.type \in MACIE_DETECTION_MAP[c]
        BY <3>1, <4>2 DEF map_macie_detection
      <4>. QED
        BY <2>1, <4>1, <4>3
    <3>2. CASE ~\E c \in DOMAIN MACIE_DETECTION_MAP : l.type \in MACIE_DETECTION_MAP[c]
      <4>1. map_macie_detection(l.type, l.top) = IF l.top = "HEALTH" THEN "health" ELSE "ordinary_pii"
        BY <3>2 DEF map_macie_detection
      <4>. QED
        BY <4>1 DEF Category
    <3>. QED
      BY <3>1, <3>2
  <2>. QED
    BY <1>2, <2>2 DEF CategoryOf
<1>. QED
  BY <1>1, <1>2

\* Every signal has its row in the table of detectors.
LEMMA DetectionsAreTyped ==
    ASSUME NEW signals \in SUBSET Signal
    PROVE  detect_content_findings(signals) \subseteq FindingType
<1>. SUFFICES ASSUME NEW s \in Signal
              PROVE  Finding(Detector[s][1], Detector[s][2], "regex") \in FindingType
  BY DEF detect_content_findings
<1>1. Detector[s][1] \in Category /\ Detector[s][2] \in 0..100
  BY DEF Detector, Signal, Category
<1>. HIDE DEF Detector
<1>. QED
  BY <1>1 DEF Finding, FindingType

LEMMA YieldIsTyped ==
    ASSUME NEW o \in Object, NEW source
    PROVE  Yield(source, o) \subseteq FindingType
<1>1. extract_text_by_extension(source, o) \in SUBSET Signal
  BY ObjectFacts DEF extract_text_by_extension
<1>2. Finding("ordinary_pii", 30, "unscannable_format_flagged_for_review") \in FindingType
  BY DEF Finding, FindingType, Category
<1>. QED
  BY <1>1, <1>2, DetectionsAreTyped DEF Yield

LEMMA ExportIsTyped ==
    ASSUME ScanInv
    PROVE  export \subseteq FindingType
<1>1. export = UNION {ContentFindings(input.export[n]) : n \in IntactBefore(input, Loading)}
  BY DEF ScanInv, LoadedTo
<1>2. \A n \in DOMAIN input.export : ContentFindings(input.export[n]) \subseteq FindingType
  <2>. SUFFICES ASSUME NEW n \in DOMAIN input.export, NEW l \in input.export[n].labels,
                       "blank" \notin DOMAIN l
                PROVE  Finding(CategoryOf(l), 97, "dlp") \in FindingType
    BY DEF ContentFindings
  <2>1. l \in Label
    BY InputFacts DEF ScanInv, Placed, Item
  <2>2. CategoryOf(l) \in Category
    BY <2>1, CategoryIsTyped
  <2>. QED
    BY <2>2 DEF Finding, FindingType
<1>. QED
  BY <1>1, <1>2 DEF IntactBefore

SchemaType ==
    [categories : SUBSET (Category \cup {"none"}), sensitivity : {"low", "medium", "high"},
     confidence : 0..100]

LEMMA RequestIsTyped ==
    ASSUME NEW all \in SUBSET FindingType
    PROVE  to_ingestion_request(all) \in SchemaType
<1>. DEFINE categories == IF all = {} THEN {"none"} ELSE {f.category : f \in all}
            sensitivity == _aggregate_sensitivity(all)
            confidence == IF all = {} THEN 50 ELSE Max({f.confidence : f \in all})
<1>1. categories \in SUBSET (Category \cup {"none"})
  BY DEF FindingType
<1>2. sensitivity \in {"low", "medium", "high"}
  <2>1. CASE all = {}
    BY <2>1 DEF _aggregate_sensitivity
  <2>2. CASE all # {} /\ \E f \in all : f.category \in {"national_id", "health", "genetic"}
    BY <2>2 DEF _aggregate_sensitivity
  <2>3. CASE all # {} /\ \A f \in all : f.category \notin {"national_id", "health", "genetic"}
    BY <2>3 DEF _aggregate_sensitivity
  <2>. QED
    BY <2>1, <2>2, <2>3
<1>3. confidence \in 0..100
  <2>1. CASE all = {}
    BY <2>1
  <2>2. CASE all # {}
    <3>. DEFINE S == {f.confidence : f \in all}
    <3>1. S \in SUBSET (0..100) /\ S # {}
      BY <2>2 DEF FindingType
    <3>. HIDE DEF S
    <3>2. Max(S) \in 0..100
      BY <3>1, MaxIsGreatest
    <3>. QED
      BY <2>2, <3>2 DEF S
  <2>. QED
    BY <2>1, <2>2
<1>4. to_ingestion_request(all) =
        [categories |-> categories, sensitivity |-> sensitivity, confidence |-> confidence]
  BY DEF to_ingestion_request
<1>. HIDE DEF categories, sensitivity, confidence
<1>. QED
  BY <1>1, <1>2, <1>3, <1>4 DEF SchemaType

KeptInv == findings \subseteq FindingType /\ schemas \subseteq SchemaType

\* Every finding that is ingested has a category of the schema and a confidence in
\* percent, whichever detector or export it comes from (schemas.py:16-26).
THEOREM ScanTypeCorrect == Spec => []TypeOK
<1>1. Init => KeptInv
  BY DEF Init, KeptInv
<1>2. ScanInv /\ KeptInv /\ [Next]_vars => KeptInv'
  <2>. SUFFICES ASSUME ScanInv, KeptInv, [Next]_vars PROVE KeptInv'
    OBVIOUS
  <2>1. CASE Examine
    <3>1. /\ pos \in DOMAIN input.objects
          /\ findings' \in {findings, findings \cup Yield(input.source, input.objects[pos])}
          /\ schemas' = schemas
      BY <2>1 DEF Examine, Walked
    <3>2. input.objects[pos] \in Object
      BY <3>1, InputFacts DEF ScanInv, Placed
    <3>3. Yield(input.source, input.objects[pos]) \subseteq FindingType
      BY <3>2, YieldIsTyped
    <3>. QED
      BY <3>1, <3>3 DEF KeptInv
  <2>2. CASE Submit
    <3>. DEFINE all == IF mentioned THEN export ELSE findings
    <3>1. all \in SUBSET FindingType
      BY ExportIsTyped DEF KeptInv
    <3>2. findings' = findings /\ schemas' \in {{}, {to_ingestion_request(all)}}
      BY <2>2 DEF Submit
    <3>. QED
      BY <3>1, <3>2, RequestIsTyped DEF KeptInv
  <2>3. CASE LoadFile \/ LoadItem \/ Loaded \/ List \/ PassOver \/ Examined \/ UNCHANGED vars
    BY <2>3 DEF LoadFile, LoadItem, Loaded, List, PassOver, Examined, vars, KeptInv
  <2>. QED
    BY <2>1, <2>2, <2>3 DEF Next
<1>3. ScanInv /\ KeptInv => TypeOK
  BY ExportIsTyped DEF ScanInv, Placed, KeptInv, SchemaType, TypeOK
<1>. QED
  BY <1>1, <1>2, <1>3, ScanInvariant, PTL DEF Spec
=============================================================================
