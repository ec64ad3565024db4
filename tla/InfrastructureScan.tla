-------------------------- MODULE InfrastructureScan -------------------------
(***************************************************************************)
(* What a repository declares, as the gate's parsers see it: Terraform     *)
(* files (app/interceptor/iac/terraform_parser.py) and Kubernetes          *)
(* manifests (app/interceptor/iac/k8s_parser.py).                          *)
(*                                                                         *)
(* A file is a sequence of blocks and is walked block by block: a file     *)
(* whose load fails counts for nothing, a block whose extraction raises is *)
(* skipped, and an error that nothing catches ends the walk with all that  *)
(* was discovered.  An attribute is a literal, absent, or an expression,   *)
(* which hcl2 leaves as a string (a true value in Python).  A bucket's     *)
(* public access and encryption are read from companion blocks of its      *)
(* file: those whose bucket attribute has the bucket's name in its text.   *)
(***************************************************************************)
EXTENDS Naturals, Sequences, SequencesExt, FiniteSetsExt

CONSTANTS
    Names,    \* names of Terraform resources
    Regions,  \* regions that files declare
    Blocks,   \* the blocks a file may be made of
    MaxBlocks,  \* bound: blocks in all files
    MaxFiles    \* bound: files

Attribute == {"true", "false", "expression", "absent"}

Region == Regions \cup {"absent"}

\* The resources that are reported.  One that "raises" has attributes of a shape
\* that its extraction function raises on.
Resource ==
    [type : {"aws_s3_bucket"}, name : Names, region : Region,
     acl : {"public", "other"}, raises : BOOLEAN]
    \cup [type : {"aws_instance"}, name : Names, ip : Attribute,
          encrypted : Attribute, raises : BOOLEAN]
    \cup [type : {"azurerm_storage_account"}, name : Names, region : Region,
          access : Attribute, raises : BOOLEAN]
    \cup [type : {"azurerm_vm"}, name : Names, region : Region, raises : BOOLEAN]
    \cup [type : {"PersistentVolumeClaim"}, name : Names, region : Region,
          tracked : BOOLEAN, encrypted : BOOLEAN, raises : BOOLEAN]
    \cup [type : {"ConfigMap"}, name : Names, sensitive : BOOLEAN, raises : BOOLEAN]

Kubernetes == {"PersistentVolumeClaim", "ConfigMap"}

\* The blocks that a bucket's facts are read from: the bucket it is "of" in
\* Terraform's sense, and the names that the text of its bucket attribute
\* contains.  The "flags" are the values that a public access block's four have.
Companion ==
    [type : {"public_access_block"}, of : Names, text : SUBSET Names,
     flags : (SUBSET Attribute) \ {{}}, raises : BOOLEAN]
    \cup [type : {"encryption_configuration"}, of : Names, text : SUBSET Names,
          algorithm : {"named", "absent", "malformed"}, raises : BOOLEAN]

\* An unlabelled block is a resource block without its two labels.
Block ==
    Resource \cup Companion
    \cup [type : {"provider"}, region : Region, raises : BOOLEAN]
    \cup [type : {"irrelevant", "unlabelled"}]

\* A file is read, is refused (its error is caught), or its error escapes.
Load == {"read", "refused", "escapes"}

ASSUME ScanAssumption ==
    /\ Blocks \subseteq Block
    /\ MaxBlocks \in Nat
    /\ MaxFiles \in Nat

VARIABLES
    files,      \* the repository: each file's kind, blocks and what loading it does
    at,         \* at = <<f, b>>: the walk is at block b of file f
    discovered, \* the DiscoveredResources, each with the file and block it is of
    aborted     \* an error has ended the walk

vars == <<files, at, discovered, aborted>>

Discovered ==
    [file : 1..MaxFiles, block : 1..MaxBlocks,
     facts : [region : Regions \cup {"unknown"}, public : BOOLEAN, encrypted : BOOLEAN]]

Init ==
    /\ files = <<>>
    /\ at = <<1, 1>>
    /\ discovered = <<>>
    /\ aborted = FALSE

-----------------------------------------------------------------------------
\* bool(value), and a value that defaults to caution where it is missing.
Truthy(value) == value \in {"true", "expression"}

UnlessFalse(value) == value # "false"

\* The providers of a file that declare a region, by position.
Declaring(blocks) ==
    {i \in DOMAIN blocks :
        /\ blocks[i].type = "provider"
        /\ ~blocks[i].raises
        /\ blocks[i].region # "absent"}

\* Mutant: the last provider's region.
LastRegion(blocks) ==
    IF Declaring(blocks) = {} THEN "unknown" ELSE blocks[Max(Declaring(blocks))].region

\* _default_region_from_providers, and "unknown" where it has none.
DefaultRegion(blocks) ==
    IF Declaring(blocks) = {} THEN "unknown" ELSE blocks[Min(Declaring(blocks))].region

\* The blocks of a type that a bucket's name is found in, by position: the loops
\* return at the first.
Correlated(blocks, type, name) ==
    {i \in DOMAIN blocks :
        blocks[i].type = type /\ ~blocks[i].raises /\ name \in blocks[i].text}

\* The loop of a bucket comes to a block that is no mapping before it returns.
TripsOver(blocks, type, name) ==
    \E i \in DOMAIN blocks :
        /\ blocks[i].type = type
        /\ blocks[i].raises
        /\ \A j \in Correlated(blocks, type, name) : i < j

\* Mutant: one flag is enough.
SomeFlag(name, blocks) ==
    LET found == Correlated(blocks, "public_access_block", name)
    IN  \/ found = {}
        \/ \A flag \in blocks[Min(found)].flags : ~Truthy(flag)

\* _correlate_s3_public_access: public unless the first such block sets all flags.
CorrelatePublicAccess(name, blocks) ==
    LET found == Correlated(blocks, "public_access_block", name)
    IN  \/ found = {}
        \/ \E flag \in blocks[Min(found)].flags : ~Truthy(flag)

\* _correlate_s3_encryption: encrypted if the first such block has a rule.
CorrelateEncryption(name, blocks) ==
    LET found == Correlated(blocks, "encryption_configuration", name)
    IN  found # {} /\ blocks[Min(found)].algorithm # "malformed"

Facts(region, public, encrypted) ==
    [region |-> region, public |-> public, encrypted |-> encrypted]

OwnRegion(b, default) == IF b.region = "absent" THEN default ELSE b.region

\* The extraction functions, by type of resource.
Parse(b, blocks) ==
    CASE b.type = "aws_s3_bucket" ->
           Facts(OwnRegion(b, DefaultRegion(blocks)),
                 b.acl = "public" \/ CorrelatePublicAccess(b.name, blocks),
                 CorrelateEncryption(b.name, blocks))
      [] b.type = "aws_instance" ->
           Facts(DefaultRegion(blocks), UnlessFalse(b.ip), Truthy(b.encrypted))
      [] b.type = "azurerm_storage_account" ->
           Facts(OwnRegion(b, "unknown"), UnlessFalse(b.access), TRUE)
      [] b.type = "azurerm_vm" -> Facts(OwnRegion(b, "unknown"), TRUE, TRUE)
      [] b.type = "PersistentVolumeClaim" ->
           Facts(OwnRegion(b, "unknown"), TRUE, b.encrypted)
      [] b.type = "ConfigMap" -> Facts("unknown", FALSE, FALSE)

\* A claim without the annotation and a config map without findings are no facts.
IsTracked(b) ==
    CASE b.type = "PersistentVolumeClaim" -> b.tracked
      [] b.type = "ConfigMap" -> b.sensitive
      [] OTHER -> TRUE

\* A bucket's extraction raises with its own attributes or with a companion's.
Raises(b, blocks) ==
    \/ b.raises
    \/ /\ b.type = "aws_s3_bucket"
       /\ \/ b.acl # "public" /\ TripsOver(blocks, "public_access_block", b.name)
          \/ TripsOver(blocks, "encryption_configuration", b.name)

IsReported(b, blocks) == b \in Resource /\ IsTracked(b) /\ ~Raises(b, blocks)

\* What is outside every try: the two passes over a Terraform file before its
\* loop, and the errors of a manifest's load that its except clause does not name.
Escapes(file) ==
    \/ file.load = "escapes"
    \/ \E i \in DOMAIN file.blocks : file.blocks[i].type = "unlabelled"
    \/ \E i \in DOMAIN file.blocks :
          /\ file.blocks[i].type = "provider"
          /\ file.blocks[i].raises
          /\ \A j \in Declaring(file.blocks) : i < j

-----------------------------------------------------------------------------
Room == MaxBlocks - FoldSeq(LAMBDA file, n : n + Len(file.blocks), 0, files)

\* What a file can be: no error of a Terraform file's load escapes.
IsFile(file) ==
    LET types == {b.type : b \in ToSet(file.blocks)}
    IN  /\ file.load # "read" => file.blocks = <<>>
        /\ \/ /\ file.kind = "terraform"
              /\ file.load # "escapes"
              /\ types \cap Kubernetes = {}
           \/ /\ file.kind = "kubernetes"
              /\ types \subseteq Kubernetes \cup {"irrelevant"}

\* A file of the repository, before the walk begins; Terraform's are walked first.
Write(file) ==
    /\ at = <<1, 1>>
    /\ ~aborted
    /\ Len(files) < MaxFiles
    /\ IsFile(file)
    /\ file.kind = "terraform" => \A f \in DOMAIN files : files[f].kind = "terraform"
    /\ files' = Append(files, file)
    /\ UNCHANGED <<at, discovered, aborted>>

Report(f, b) ==
    [file |-> f, block |-> b, facts |-> Parse(files[f].blocks[b], files[f].blocks)]

\* The walk is in file f, which is being read.
IsWalking(f) == ~aborted /\ f <= Len(files) /\ ~Escapes(files[f])

\* Mutant: the except clause is around the loop.
LeaveFile(f, b) ==
    /\ IsWalking(f)
    /\ b <= Len(files[f].blocks)
    /\ LET block == files[f].blocks[b]
       IN  IF block \in Resource /\ Raises(block, files[f].blocks)
           THEN /\ discovered' = discovered
                /\ at' = <<f + 1, 1>>
           ELSE /\ discovered' = IF IsReported(block, files[f].blocks)
                                 THEN Append(discovered, Report(f, b))
                                 ELSE discovered
                /\ at' = <<f, b + 1>>
    /\ UNCHANGED <<files, aborted>>

\* The loop body of parse_terraform_file and parse_k8s_file.
ParseBlock(f, b) ==
    /\ IsWalking(f)
    /\ b <= Len(files[f].blocks)
    /\ discovered' = IF IsReported(files[f].blocks[b], files[f].blocks)
                     THEN Append(discovered, Report(f, b))
                     ELSE discovered
    /\ at' = <<f, b + 1>>
    /\ UNCHANGED <<files, aborted>>

\* The end of a file, or one that is refused and so has no blocks.
NextFile(f, b) ==
    /\ IsWalking(f)
    /\ b > Len(files[f].blocks)
    /\ at' = <<f + 1, 1>>
    /\ UNCHANGED <<files, discovered, aborted>>

\* An error that nothing catches ends the gate's process before its first call.
Escape(f) ==
    /\ ~aborted
    /\ f <= Len(files)
    /\ Escapes(files[f])
    /\ discovered' = <<>>
    /\ aborted' = TRUE
    /\ UNCHANGED <<files, at>>

Next ==
    \/ \E kind \in {"terraform", "kubernetes"}, load \in Load, length \in 0..MaxBlocks :
          /\ length <= Room
          /\ \E blocks \in [1..length -> Blocks] :
                Write([kind |-> kind, load |-> load, blocks |-> blocks])
    \/ ParseBlock(at[1], at[2])
    \/ NextFile(at[1], at[2])
    \/ Escape(at[1])

Spec == Init /\ [][Next]_vars

-----------------------------------------------------------------------------
(***************************************************************************)
(* Properties                                                              *)
(***************************************************************************)

\* Every variable has its shape.
TypeOK ==
    /\ DOMAIN files \subseteq 1..MaxFiles
    /\ \A f \in DOMAIN files :
          files[f].load \in Load /\ ToSet(files[f].blocks) \subseteq Blocks
    /\ at \in (1..(MaxFiles + 1)) \X (1..(MaxBlocks + 1))
    /\ ToSet(discovered) \subseteq Discovered
    /\ aborted \in BOOLEAN

BlockOf(r) == files[r.file].blocks[r.block]

FileOf(r) == files[r.file].blocks

\* All (file, block) positions before the walk's.
Walked ==
    {p \in (DOMAIN files) \X (1..MaxBlocks) :
        /\ p[2] <= Len(files[p[1]].blocks)
        /\ p[1] < at[1] \/ (p[1] = at[1] /\ p[2] < at[2])}

Positions == {<<r.file, r.block>> : r \in ToSet(discovered)}

\* A resource that can be read by itself, and the companions of its file.
IsSound(b) == b \in Resource /\ IsTracked(b) /\ ~b.raises

HasBadCompanion(f) == \E b \in ToSet(files[f].blocks) : b \in Companion /\ b.raises

\* "one malformed resource block must not abort the file" (terraform_parser.py:330,
\* k8s_parser.py:133), as far as that goes: whatever stands around it, a sound
\* resource that has been walked over is reported, but for the buckets of a file
\* with a bad companion; each is reported once and in order, and nothing else
\* is; and the walk is only lost to a manifest or to a Terraform file that has
\* an unlabelled block or a bad provider.
ErrorsStayInTheirFile ==
    /\ ~aborted => \A p \in Walked :
          LET b == files[p[1]].blocks[p[2]]
          IN  IsSound(b) /\ (b.type = "aws_s3_bucket" => ~HasBadCompanion(p[1]))
                => p \in Positions
    /\ \A p \in Positions : p \in Walked /\ IsSound(files[p[1]].blocks[p[2]])
    /\ \A i, j \in DOMAIN discovered :
          i < j => \/ discovered[i].file < discovered[j].file
                   \/ /\ discovered[i].file = discovered[j].file
                      /\ discovered[i].block < discovered[j].block
    /\ aborted =>
          /\ at[1] \in DOMAIN files
          /\ \/ files[at[1]].kind = "kubernetes" /\ files[at[1]].load = "escapes"
             \/ \E b \in ToSet(files[at[1]].blocks) :
                   b.type = "unlabelled" \/ (b.type = "provider" /\ b.raises)

\* A bucket's file is clear about it: of the companions that can be read, those
\* that are about it, and no others, have its name in their text; there is at
\* most one of each kind, and its attributes are literals.
IsClear(r) ==
    LET name == BlockOf(r).name
        blocks == FileOf(r)
        companions == {i \in DOMAIN blocks : blocks[i] \in Companion /\ ~blocks[i].raises}
        about == {i \in companions : blocks[i].of = name}
    IN  /\ \A i \in companions : blocks[i].of = name <=> name \in blocks[i].text
        /\ \A i, j \in about : blocks[i].type = blocks[j].type => i = j
        /\ \A i \in about :
              /\ blocks[i].type = "public_access_block" => "expression" \notin blocks[i].flags
              /\ blocks[i].type = "encryption_configuration" => blocks[i].algorithm # "absent"

IsBucket(r) == BlockOf(r).type = "aws_s3_bucket"

\* The blocks of r's file that are about r's bucket in Terraform's sense.
About(r, type) ==
    {b \in ToSet(FileOf(r)) : b.type = type /\ ~b.raises /\ b.of = BlockOf(r).name}

AccessIsBlocked(r) == \E b \in About(r, "public_access_block") : b.flags = {"true"}

AlgorithmIsNamed(r) ==
    \E b \in About(r, "encryption_configuration") : b.algorithm = "named"

\* Where the file is clear, a bucket's exposure and encryption are what
\* Terraform will apply, wherever in the file the other blocks stand
\* (terraform_parser.py:106-112, 144-165).
ClearFilesAreReadRight ==
    \A r \in ToSet(discovered) :
        IsBucket(r) /\ IsClear(r) =>
            /\ r.facts.public = (BlockOf(r).acl = "public" \/ ~AccessIsBlocked(r))
            /\ r.facts.encrypted = AlgorithmIsNamed(r)

\* The region that is reported is the resource's own where it declares one
\* ("resources with an explicit region attribute always take precedence",
\* terraform_parser.py:89-90); otherwise it is unknown, or that of the first
\* provider that has one, which only AWS resources are given.
RegionIsDeclared ==
    \A r \in ToSet(discovered) :
        LET b == BlockOf(r)
            declares == b.type \notin {"aws_instance", "ConfigMap"} /\ b.region # "absent"
        IN  /\ declares => r.facts.region = b.region
            /\ ~declares /\ r.facts.region # "unknown" =>
                  /\ b.type \in {"aws_s3_bucket", "aws_instance"}
                  /\ \E i \in DOMAIN FileOf(r) :
                        /\ FileOf(r)[i].type = "provider"
                        /\ FileOf(r)[i].region = r.facts.region
                        /\ \A j \in 1..(i - 1) :
                              FileOf(r)[j].type = "provider" => FileOf(r)[j].region = "absent"

-----------------------------------------------------------------------------
(***************************************************************************)
(* Statements of the repository that the parsers do not keep.              *)
(***************************************************************************)

\* "Never raises" (terraform_parser.py:304, k8s_parser.py:107): a manifest that is
\* a directory, or has an impossible date, and a Terraform file with an unlabelled
\* block or a bad provider, end the walk.
ParsersNeverRaise == ~aborted

\* "a per-resource extraction error is caught individually so one bad resource
\* block doesn't discard every other resource in the same file"
\* (terraform_parser.py:304-307): a bad companion discards every bucket.
OneBadBlockCostsOnlyItself ==
    ~aborted => \A p \in Walked : IsSound(files[p[1]].blocks[p[2]]) => p \in Positions

\* "on ANY missing or unparseable attribute, fail toward the MORE cautious
\* classification (assume public, assume unencrypted)" (terraform_parser.py:9-12):
\* a bucket is only private if its own block says so four times over.
CautiousAccess ==
    \A r \in ToSet(discovered) : IsBucket(r) /\ ~r.facts.public => AccessIsBlocked(r)

\* The same for encryption: a bucket is only encrypted if its own configuration
\* names an algorithm.
CautiousEncryption ==
    \A r \in ToSet(discovered) : IsBucket(r) /\ r.facts.encrypted => AlgorithmIsNamed(r)
=============================================================================
