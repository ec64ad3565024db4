----------------------------- MODULE ContentScan -----------------------------
(***************************************************************************)
(* How one dataset is classified: a bucket, a Blob container or the data   *)
(* files of a repository (app/connectors/content_detectors.py and the      *)
(* sampling loops over it in s3_connector.py, blob_connector.py and        *)
(* interceptor/repo_scanner.py), the DLP export that may take the place of *)
(* the sampling (macie_connector.py, purview_connector.py over             *)
(* dlp_mapping.py), and the classification that the ingestion request      *)
(* carries (transform.py).  Discovery has what surrounds this: several     *)
(* datasets, scopes and the ingestion.                                     *)
(*                                                                         *)
(* An object is its format, the signals a pattern of the detectors can     *)
(* find in it, and what happens to whoever reads it.  Its text within the  *)
(* caps of a store's sampling, on bytes, pages and characters, is "near";  *)
(* the rest of a text up to 2 MB, which only the repository scan gets to   *)
(* see, is "far"; what is past every cap, and nobody reads, is "past".     *)
(* Confidences are hundredths.                                             *)
(***************************************************************************)
EXTENDS Naturals, Sequences, SequencesExt, FiniteSets, FiniteSetsExt

CONSTANTS
    Inputs,      \* the datasets to scan: members of Input
    Extractors,  \* the formats among "pdf" and "image" whose libraries are installed
    MaxObjects   \* MAX_OBJECTS_PER_CONTAINER and MAX_REPO_FILES_SAMPLED

Format == {"text", "pdf", "image", "unscannable", "other"}

Signal == {"cin", "email", "phone", "health", "religious", "political", "union",
           "criminal", "racial"}

Category == {"national_id", "health", "genetic", "racial_ethnic_origin", "political",
             "religious_philosophical", "union", "criminal_record_or_security_measure",
             "ordinary_pii"}

\* "refused" is the error a reading loop expects of the store, "broken" any other;
\* a damaged file, or one cut short by the cap, does not parse.
Object == [format : Format, near : SUBSET Signal, far : SUBSET Signal,
           past : SUBSET Signal, damaged : BOOLEAN, excluded : BOOLEAN,
           fate : {"ok", "refused", "broken"}]

-----------------------------------------------------------------------------
(***************************************************************************)
(* dlp_mapping.py.                                                         *)
(***************************************************************************)
MACIE_DETECTION_MAP ==
    [national_id |-> {"US_SOCIAL_SECURITY_NUMBER", "US_PASSPORT_NUMBER",
                      "NATIONAL_IDENTIFICATION_NUMBER"},
     health |-> {"HEALTH_INSURANCE_CLAIM_NUMBER", "MEDICAL_RECORD_NUMBER"},
     genetic |-> {"GENETIC_INFORMATION"},
     criminal_record_or_security_measure |-> {"CRIMINAL_JUSTICE"},
     ordinary_pii |-> {"EMAIL_ADDRESS", "NAME", "ADDRESS", "PHONE_NUMBER",
                       "CREDIT_CARD_NUMBER", "BANK_ACCOUNT_NUMBER"}]

\* The type decides; the category of the block is asked only about unknown types.
map_macie_detection(type, top) ==
    CASE \E c \in DOMAIN MACIE_DETECTION_MAP : type \in MACIE_DETECTION_MAP[c] ->
            CHOOSE c \in DOMAIN MACIE_DETECTION_MAP : type \in MACIE_DETECTION_MAP[c]
      [] \A c \in DOMAIN MACIE_DETECTION_MAP : type \notin MACIE_DETECTION_MAP[c] ->
            IF top = "HEALTH" THEN "health" ELSE "ordinary_pii"

_PURVIEW_SUBSTRING_MAP == <<
    <<"PASSPORT", "national_id">>, <<"NATIONAL_ID", "national_id">>,
    <<"DRIVERS_LICENSE", "national_id">>, <<"TAX_FILE_NUMBER", "national_id">>,
    <<"HEALTH", "health">>, <<"MEDICAL", "health">>, <<"GENETIC", "genetic">>,
    <<"RELIGION", "religious_philosophical">>, <<"POLITICAL", "political">>,
    <<"ETHNIC", "racial_ethnic_origin">>, <<"RACIAL", "racial_ethnic_origin">>,
    <<"UNION", "union">>, <<"CRIMINAL", "criminal_record_or_security_measure">>,
    <<"PERSONAL", "ordinary_pii">>, <<"FINANCIAL", "ordinary_pii">>,
    <<"CREDIT_CARD", "ordinary_pii">>, <<"BANK", "ordinary_pii">> >>

Keyword == {entry[1] : entry \in ToSet(_PURVIEW_SUBSTRING_MAP)}

\* Mutant: the loop goes on after a hit, and the last one wins.
LastKeywordWins(words) ==
    LET hits == {i \in DOMAIN _PURVIEW_SUBSTRING_MAP : _PURVIEW_SUBSTRING_MAP[i][1] \in words}
    IN  IF hits = {} THEN "ordinary_pii" ELSE _PURVIEW_SUBSTRING_MAP[Max(hits)][2]

\* The first entry whose keyword occurs in the name, which is the set of those
\* that do.
map_purview_classification(words) ==
    LET hits == {i \in DOMAIN _PURVIEW_SUBSTRING_MAP : _PURVIEW_SUBSTRING_MAP[i][1] \in words}
    IN  IF hits = {} THEN "ordinary_pii" ELSE _PURVIEW_SUBSTRING_MAP[Min(hits)][2]

(***************************************************************************)
(* The entries of an export.  A label is a Macie detection in its block,   *)
(* or a Purview classification, which is passed over when it has no name.  *)
(***************************************************************************)
Label == [type : STRING, top : STRING] \cup [words : SUBSET Keyword] \cup [blank : {TRUE}]

\* "about" is the dataset the entry names; a broken entry is malformed somewhere
\* inside.
Item == [about : {"this", "another", "nothing"}, labels : SUBSET Label, broken : BOOLEAN]

Input == [source : {"s3", "blob", "repo"}, listing : {"ok", "refused", "broken"},
          objects : Seq(Object), file : {"items", "unreadable", "misshapen"},
          export : Seq(Item)]

ASSUME ContentScanAssumption ==
    /\ \A i \in Inputs :
          /\ i \in Input
          /\ \A item \in ToSet(i.export) : IsFiniteSet(item.labels)
          /\ i.source = "repo" => i.export = <<>> /\ i.listing = "ok"
    /\ Extractors \subseteq {"pdf", "image"}
    /\ MaxObjects \in Nat \ {0}

VARIABLES
    input,      \* the dataset
    at,         \* the step of the scan; "dropped" when an error loses the dataset,
                \* "aborted" when one ends the program
    pos,        \* the entry or the object that is next
    mentioned,  \* the dataset is a key of the loaded export
    export,     \* the findings the export has for it
    findings,   \* the findings of sampling it
    schemas     \* the classifications ingested for it: one at most

vars == <<input, at, pos, mentioned, export, findings, schemas>>

Finding(category, confidence, detector) ==
    [category |-> category, confidence |-> confidence, detector |-> detector]

Init ==
    /\ input \in Inputs
    /\ at = "load"
    /\ pos = 1
    /\ mentioned = FALSE
    /\ export = {}
    /\ findings = {}
    /\ schemas = {}

-----------------------------------------------------------------------------
(***************************************************************************)
(* load_macie_findings_file and load_purview_scan_file.                    *)
(***************************************************************************)
CategoryOf(label) ==
    IF "words" \in DOMAIN label THEN map_purview_classification(label.words)
    ELSE map_macie_detection(label.type, label.top)

ContentFindings(item) ==
    {Finding(CategoryOf(label), 97, "dlp") : label \in {l \in item.labels : "blank" \notin DOMAIN l}}

\* A file that is missing, cannot be opened or is text but no JSON is an empty
\* export; JSON of another shape and a file that is not UTF-8 (both "misshapen")
\* raise what no clause names, and the program ends before it has scanned anything.
LoadFile ==
    /\ at = "load" /\ pos = 1
    /\ input.file # "items"
    /\ at' = IF input.file = "unreadable" THEN "list" ELSE "aborted"
    /\ UNCHANGED <<input, pos, mentioned, export, findings, schemas>>

\* Mutant: the dataset gets its key before the entry is converted.
KeyBeforeConversion ==
    /\ at = "load" /\ input.file = "items"
    /\ pos \in DOMAIN input.export
    /\ LET item == input.export[pos]
       IN  /\ mentioned' = (mentioned \/ item.about = "this")
           /\ export' = IF item.about = "this" /\ ~item.broken
                           THEN export \cup ContentFindings(item) ELSE export
    /\ pos' = pos + 1
    /\ UNCHANGED <<input, at, findings, schemas>>

\* One turn of the loop: the whole entry is converted before any of it is kept.
LoadItem ==
    /\ at = "load" /\ input.file = "items"
    /\ pos \in DOMAIN input.export
    /\ LET item == input.export[pos]
       IN  IF item.about = "this" /\ ~item.broken
              THEN mentioned' = TRUE /\ export' = export \cup ContentFindings(item)
              ELSE UNCHANGED <<mentioned, export>>
    /\ pos' = pos + 1
    /\ UNCHANGED <<input, at, findings, schemas>>

Loaded ==
    /\ at = "load" /\ input.file = "items"
    /\ pos > Len(input.export)
    /\ at' = "list"
    /\ UNCHANGED <<input, pos, mentioned, export, findings, schemas>>

-----------------------------------------------------------------------------
(***************************************************************************)
(* content_detectors.py.                                                   *)
(***************************************************************************)
is_sampleable(o) == o.format \in {"text", "pdf", "image"}

requires_manual_review(o) == o.format = "unscannable"

\* What the repository's walk keeps.
IsDataFile(o) == is_sampleable(o) /\ ~o.excluded

\* Mutant: the bytes of a repository's file are not cut.
ReadUncut(source, o) ==
    IF o.format = "text" THEN o.near \cup (IF source = "repo" THEN o.far \cup o.past ELSE {})
    ELSE IF o.damaged \/ o.format \notin Extractors THEN {} ELSE o.near

\* Never raises: what cannot be parsed is an empty text, and what is past the caps
\* (the bytes handed over, and the pages and characters of a PDF or an image) is
\* no part of it.
extract_text_by_extension(source, o) ==
    IF o.format = "text" THEN o.near \cup (IF source = "repo" THEN o.far ELSE {})
    ELSE IF o.damaged \/ o.format \notin Extractors THEN {} ELSE o.near

Detector ==
    [cin |-> <<"national_id", 60>>, email |-> <<"ordinary_pii", 90>>,
     phone |-> <<"ordinary_pii", 75>>, health |-> <<"health", 65>>,
     religious |-> <<"religious_philosophical", 55>>, political |-> <<"political", 55>>,
     union |-> <<"union", 60>>, criminal |-> <<"criminal_record_or_security_measure", 60>>,
     racial |-> <<"racial_ethnic_origin", 50>>]

detect_content_findings(signals) ==
    {Finding(Detector[s][1], Detector[s][2], "regex") : s \in signals}

-----------------------------------------------------------------------------
(***************************************************************************)
(* The sampling loops.                                                     *)
(***************************************************************************)
\* Mutant: the cap counts whatever the walk comes by.
CapEverything(i) ==
    {n \in DOMAIN i.objects : n <= MaxObjects /\ (i.source = "repo" => IsDataFile(i.objects[n]))}

\* The objects a loop looks at: the stores list one page, the repository's walk
\* counts only the files it will read.
Walked(i) ==
    {n \in DOMAIN i.objects :
        IF i.source = "repo"
           THEN /\ IsDataFile(i.objects[n])
                /\ Cardinality({m \in 1..n : IsDataFile(i.objects[m])}) <= MaxObjects
           ELSE n <= MaxObjects}

\* The smart fallback: a dataset that the export has as a key is not sampled.  A
\* refused listing is an empty one; any other error loses the dataset.
List ==
    /\ at = "list"
    /\ pos' = 1
    /\ at' = IF mentioned THEN "examined"
             ELSE CASE input.listing = "ok" -> "sample"
                    [] input.listing = "refused" -> "examined"
                    [] input.listing = "broken" -> "dropped"
    /\ UNCHANGED <<input, mentioned, export, findings, schemas>>

\* The findings one object that can be read adds.
Yield(source, o) ==
    IF requires_manual_review(o)
       THEN IF source = "s3"
               THEN {Finding("ordinary_pii", 30, "unscannable_format_flagged_for_review")}
               ELSE {}
    ELSE IF is_sampleable(o) THEN detect_content_findings(extract_text_by_extension(source, o))
    ELSE {}

\* Only sampleable objects are read.
Fate(o) == IF is_sampleable(o) THEN o.fate ELSE "ok"

\* Mutant: a refused object ends the loop.
StopAtRefusal ==
    /\ at = "sample"
    /\ pos \in Walked(input)
    /\ LET o == input.objects[pos]
       IN  /\ findings' = IF Fate(o) = "ok" THEN findings \cup Yield(input.source, o) ELSE findings
           /\ at' = CASE Fate(o) = "ok" -> at
                     [] Fate(o) = "refused" -> "examined"
                     [] Fate(o) = "broken" -> IF input.source = "repo" THEN at ELSE "dropped"
    /\ pos' = pos + 1
    /\ UNCHANGED <<input, mentioned, export, schemas>>

\* The stores' own errors are caught where they occur; any other error loses the
\* whole dataset, except in a repository.
Examine ==
    /\ at = "sample"
    /\ pos \in Walked(input)
    /\ LET o == input.objects[pos]
       IN  /\ findings' = IF Fate(o) = "ok" THEN findings \cup Yield(input.source, o) ELSE findings
           /\ at' = IF Fate(o) = "broken" /\ input.source # "repo" THEN "dropped" ELSE at
    /\ pos' = pos + 1
    /\ UNCHANGED <<input, mentioned, export, schemas>>

\* What is on no page, or nothing the walk keeps, costs nothing.
PassOver ==
    /\ at = "sample"
    /\ pos \in DOMAIN input.objects \ Walked(input)
    /\ pos' = pos + 1
    /\ UNCHANGED <<input, at, mentioned, export, findings, schemas>>

Examined ==
    /\ at = "sample"
    /\ pos > Len(input.objects)
    /\ at' = "examined"
    /\ UNCHANGED <<input, pos, mentioned, export, findings, schemas>>

-----------------------------------------------------------------------------
\* Mutant: high only where every finding is.
EveryFieldIsBad(all) ==
    CASE all = {} -> "low"
      [] all # {} /\ \A f \in all : f.category \in {"national_id", "health", "genetic"} -> "high"
      [] \E f \in all : f.category \notin {"national_id", "health", "genetic"} -> "medium"

(***************************************************************************)
(* transform.py: the classification of the ingestion request.  A           *)
(* repository without findings makes none.                                 *)
(***************************************************************************)
_aggregate_sensitivity(all) ==
    CASE all = {} -> "low"
      [] \E f \in all : f.category \in {"national_id", "health", "genetic"} -> "high"
      [] all # {} /\ \A f \in all : f.category \notin {"national_id", "health", "genetic"} -> "medium"

to_ingestion_request(all) ==
    [categories  |-> IF all = {} THEN {"none"} ELSE {f.category : f \in all},
     sensitivity |-> _aggregate_sensitivity(all),
     confidence  |-> IF all = {} THEN 50 ELSE Max({f.confidence : f \in all})]

Submit ==
    /\ at = "examined"
    /\ LET all == IF mentioned THEN export ELSE findings
       IN  schemas' = IF input.source = "repo" /\ all = {} THEN {} ELSE {to_ingestion_request(all)}
    /\ at' = "done"
    /\ UNCHANGED <<input, pos, mentioned, export, findings>>

Next == LoadFile \/ LoadItem \/ Loaded \/ List \/ Examine \/ PassOver \/ Examined \/ Submit

Spec == Init /\ [][Next]_vars

-----------------------------------------------------------------------------
(***************************************************************************)
(* Properties.                                                             *)
(***************************************************************************)
FindingType ==
    [category : Category, confidence : 0..100,
     detector : {"regex", "dlp", "unscannable_format_flagged_for_review"}]

\* The shape of the state: every finding that is ingested has a category of the
\* schema (schemas.py:16-26) and a confidence in percent.
TypeOK ==
    /\ at \in {"load", "list", "sample", "examined", "done", "dropped", "aborted"}
    /\ pos \in Nat \ {0}
    /\ mentioned \in BOOLEAN
    /\ export \cup findings \subseteq FindingType
    /\ schemas \subseteq [categories : SUBSET (Category \cup {"none"}),
                         sensitivity : {"low", "medium", "high"}, confidence : 0..100]

\* Everything the ingested classification says of the dataset.
Recorded == UNION {schema.categories : schema \in schemas}

High == \E schema \in schemas : schema.sensitivity = "high"

Sampled == at \in {"done", "dropped"} /\ ~mentioned /\ input.listing = "ok"

\* What can be read out of an object, wherever it is: text is always legible, the
\* other formats where their library is installed and the file is whole.
Legible(o) ==
    CASE o.format = "text" -> o.near
      [] o.format \in Extractors /\ ~o.damaged -> o.near
      [] o.format # "text" /\ (o.format \notin Extractors \/ o.damaged) -> {}

\* "except (ClientError, UnicodeDecodeError) ... continue" (s3_connector.py:100,
\* blob_connector.py:43) and "one bad page shouldn't fail the whole doc"
\* (content_detectors.py:149): an object that is refused, damaged or of an unknown
\* format costs nothing but itself.  What the other objects on the first page
\* hold is on record; the dataset is lost only to an error of another kind, and a
\* repository to none.
OneBadObjectCostsOnlyItself ==
    Sampled /\ input.source # "repo" =>
        LET page == {n \in DOMAIN input.objects : n <= MaxObjects}
            broken == \E n \in page : /\ input.objects[n].fate = "broken"
                                      /\ input.objects[n].format \in {"text", "pdf", "image"}
        IN  /\ at = "dropped" <=> broken
            /\ ~broken =>
                  \A n \in page : input.objects[n].fate = "ok" =>
                      \A s \in Legible(input.objects[n]) : Detector[s][1] \in Recorded

\* "Reached MAX_REPO_FILES_SAMPLED -- remaining repo files were not scanned"
\* (repo_scanner.py:47-51): where there are no more data files than that, whatever
\* else and however much of it the repository holds, each that can be read is on
\* record as far as its first 2 MB go, a PDF or an image as far as its pages and
\* characters are counted (repo_scanner.py:68, content_detectors.py:146-152); and
\* what is past these caps, or in a directory that is not the repository's own,
\* is not.
RepositoryIsReadToItsCaps ==
    Sampled /\ input.source = "repo" =>
        LET own == {n \in DOMAIN input.objects : ~input.objects[n].excluded}
            data == {n \in own : input.objects[n].format \in {"text", "pdf", "image"}}
            All(o) == Legible(o) \cup (IF o.format = "text" THEN o.far ELSE {})
            held == UNION {All(input.objects[n]) : n \in {m \in data : input.objects[m].fate = "ok"}}
        IN  /\ Cardinality(data) <= MaxObjects => {Detector[s][1] : s \in held} \subseteq Recorded
            /\ Recorded \subseteq {Detector[s][1] : s \in held}

\* "one bad field pulls the whole document in" (transform.py:31-33): one sign of a
\* national identifier or of health, among whatever else was found and in whatever
\* order, makes the dataset a high one and is on record as what it is.
OneBadFieldPullsTheDatasetIn ==
    at = "done" =>
        LET high == {"national_id", "health", "genetic"}
        IN  /\ (Recorded \cap high # {}) <=> High
            /\ ~mentioned /\ input.source # "repo" =>
                  \A n \in DOMAIN input.objects :
                      /\ n <= MaxObjects /\ input.listing = "ok" /\ input.objects[n].fate = "ok"
                      /\ Legible(input.objects[n]) \cap {"cin", "health"} # {}
                      => High
            /\ mentioned =>
                  \A n \in DOMAIN input.export :
                      /\ input.export[n].about = "this" /\ ~input.export[n].broken
                      /\ \E l \in input.export[n].labels :
                            "type" \in DOMAIN l
                            /\ l.type \in {"NATIONAL_IDENTIFICATION_NUMBER", "MEDICAL_RECORD_NUMBER"}
                      => High

\* "substring matching is more resilient to new classifier names"
\* (dlp_mapping.py:74-79): a classification whose name has a keyword of a special
\* category in it is on record under that category, or that of another such
\* keyword of the name, whatever else the name says
\* ("MICROSOFT.PERSONAL.HEALTH_..." is health).
SpecialBeforeOrdinary ==
    mentioned /\ at = "done" =>
        \A n \in DOMAIN input.export :
            input.export[n].about = "this" /\ ~input.export[n].broken =>
                \A l \in input.export[n].labels :
                    ("words" \in DOMAIN l
                     /\ l.words \ {"PERSONAL", "FINANCIAL", "CREDIT_CARD", "BANK"} # {})
                    => \E entry \in ToSet(_PURVIEW_SUBSTRING_MAP) :
                          /\ entry[1] \in l.words
                          /\ entry[2] # "ordinary_pii"
                          /\ entry[2] \in Recorded

\* "one malformed finding must not break the whole load" (macie_connector.py:94): a
\* malformed entry, or one about nothing, takes no other entry with it and does
\* not count as one that covers its dataset, which is sampled unless an intact
\* entry mentions it.
OneBadEntryCostsOnlyItself ==
    at \notin {"load"} /\ input.file = "items" =>
        LET intact == {n \in DOMAIN input.export :
                          input.export[n].about = "this" /\ ~input.export[n].broken}
            labels == UNION {input.export[n].labels : n \in intact}
        IN  /\ mentioned <=> intact # {}
            /\ (export = {}) <=> (\A l \in labels : "blank" \in DOMAIN l)
            /\ Cardinality(export) <= Cardinality(labels)

\* What is damaged, refused or malformed, in the store or in the export, costs
\* nothing but itself (s3_connector.py:100, macie_connector.py:94).
OneBadPartCostsOnlyItself == OneBadObjectCostsOnlyItself /\ OneBadEntryCostsOnlyItself

\* No ordinary data hides a special category, neither in the aggregate
\* (transform.py:31-33) nor in the name of a classification (dlp_mapping.py:74-79).
SensitiveIsOnRecord == OneBadFieldPullsTheDatasetIn /\ SpecialBeforeOrdinary

-----------------------------------------------------------------------------
(***************************************************************************)
(* Statements of the repository that the scan does not keep.               *)
(***************************************************************************)

\* "Returns an empty dict (never raises) if the file is missing or malformed"
\* (macie_connector.py:65): no export ends the program.
BadExportDegrades == at # "aborted"

\* "local regex/OCR only runs for buckets Macie hasn't scanned" and "errs toward
\* flagging risk" (s3_connector.py:6, README.md:52): what a store holds in plain
\* text on its first page is on record, whatever an export says.
LegibleIsFlagged ==
    at = "done" /\ input.source # "repo" /\ input.listing = "ok" =>
        \A n \in DOMAIN input.objects :
            n <= MaxObjects /\ input.objects[n].fate = "ok" /\ Legible(input.objects[n]) # {}
            => Recorded # {"none"}

\* "On uncertainty, the system errs toward flagging risk, never toward silently
\* approving it" (README.md:52): a file of a repository that is cut at the cap is
\* at least on record as something.
CutFileIsFlagged ==
    at = "done" /\ input.source = "repo" =>
        \A n \in Walked(input) :
            input.objects[n].fate = "ok" /\ input.objects[n].past # {} => Recorded # {}
=============================================================================
