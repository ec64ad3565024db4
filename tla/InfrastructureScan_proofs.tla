----------------------- MODULE InfrastructureScan_proofs ---------------------
(***************************************************************************)
(* Proofs about InfrastructureScan for any names, regions and blocks and   *)
(* any number of files: errors that are caught cost no more than their     *)
(* file, and what is reported is what the file declares.                   *)
(***************************************************************************)
EXTENDS InfrastructureScan, WellFoundedInduction, TLAPS

\* A set of positions that is not empty has a first one.
LEMMA MinIsLeast ==
    ASSUME NEW S \in SUBSET Nat, S # {}
    PROVE  Min(S) \in S /\ \A n \in S : Min(S) <= n
<1>1. PICK R : IsWellFoundedOn(R, Nat) /\ R = {ss \in Nat \X Nat : ss[1] < ss[2]}
  BY NatLessThanWellFounded, Zenon DEF OpToRel
<1>2. PICK m \in S : \A n \in S : <<n, m>> \notin R
  BY <1>1, WFMin
<1>3. ASSUME NEW n \in S PROVE m <= n
  <2>1. m \in Nat /\ n \in Nat
    OBVIOUS
  <2>2. n < m => <<n, m>> \in {ss \in Nat \X Nat : ss[1] < ss[2]}
    BY <2>1
  <2>3. ~(n < m)
    BY <1>1, <1>2, <2>2
  <2>. QED
    BY <2>1, <2>3
<1>. QED
  BY <1>3 DEF Min

\* What is appended is the only thing that is new.
LEMMA ToSetAppend ==
    ASSUME NEW X, NEW s \in Seq(X), NEW e \in X
    PROVE  ToSet(Append(s, e)) = ToSet(s) \cup {e}
<1>1. DOMAIN Append(s, e) = (DOMAIN s) \cup {Len(s) + 1}
  OBVIOUS
<1>2. \A n \in DOMAIN s : Append(s, e)[n] = s[n]
  OBVIOUS
<1>3. Append(s, e)[Len(s) + 1] = e
  OBVIOUS
<1>. QED
  BY <1>1, <1>2, <1>3 DEF ToSet

-----------------------------------------------------------------------------
(***************************************************************************)
(* What the extraction functions return.                                   *)
(***************************************************************************)
Fact == [region : Regions \cup {"unknown"}, public : BOOLEAN, encrypted : BOOLEAN]

LEMMA BlockFacts ==
    ASSUME NEW blocks \in Seq(Blocks)
    PROVE  /\ DOMAIN blocks = 1..Len(blocks) /\ Len(blocks) \in Nat
           /\ DOMAIN blocks \in SUBSET Nat
           /\ \A i \in DOMAIN blocks : blocks[i] \in Block
<1>1. Blocks \subseteq Block
  BY ScanAssumption
<1>2. \A i \in DOMAIN blocks : blocks[i] \in Blocks
  OBVIOUS
<1>. QED
  BY <1>1, <1>2

\* A provider is a region or none (terraform_parser.py:84-99).
LEMMA ProviderFacts ==
    ASSUME NEW b \in Block, b.type = "provider"
    PROVE  b.region \in Region
  BY DEF Block, Resource, Companion

\* The flags of a public access block and the algorithm of a configuration.
LEMMA CompanionFacts ==
    ASSUME NEW b \in Block
    PROVE  /\ b.type \in {"public_access_block", "encryption_configuration"} => b \in Companion
           /\ b.type = "public_access_block" => b.flags \in SUBSET Attribute /\ b.flags # {}
           /\ b.type = "encryption_configuration" =>
                 b.algorithm \in {"named", "absent", "malformed"}
<1>1. b.type = "public_access_block" =>
         b \in [type : {"public_access_block"}, of : Names, text : SUBSET Names,
                flags : (SUBSET Attribute) \ {{}}, raises : BOOLEAN]
  BY DEF Block, Resource, Companion
<1>2. b.type = "encryption_configuration" =>
         b \in [type : {"encryption_configuration"}, of : Names, text : SUBSET Names,
                algorithm : {"named", "absent", "malformed"}, raises : BOOLEAN]
  BY DEF Block, Resource, Companion
<1>3. b.type \in {"public_access_block", "encryption_configuration"} => b \in Companion
  BY <1>1, <1>2 DEF Companion
<1>4. b.type = "public_access_block" => b.flags \in SUBSET Attribute /\ b.flags # {}
  BY <1>1
<1>5. b.type = "encryption_configuration" => b.algorithm \in {"named", "absent", "malformed"}
  BY <1>2
<1>. QED
  BY <1>3, <1>4, <1>5

LEMMA ResourceFacts ==
    ASSUME NEW b \in Resource
    PROVE  /\ b.type \in {"aws_s3_bucket", "aws_instance", "azurerm_storage_account", "azurerm_vm",
                          "PersistentVolumeClaim", "ConfigMap"}
           /\ b.name \in Names
           /\ b.type \notin {"aws_instance", "ConfigMap"} => b.region \in Region
           /\ b.type = "PersistentVolumeClaim" => b.encrypted \in BOOLEAN
  BY DEF Resource

\* The region of the first provider that has one.
LEMMA DefaultFacts ==
    ASSUME NEW blocks \in Seq(Blocks)
    PROVE  \/ DefaultRegion(blocks) = "unknown"
           \/ \E i \in Declaring(blocks) :
                 /\ DefaultRegion(blocks) \in Regions
                 /\ blocks[i].region = DefaultRegion(blocks)
                 /\ \A n \in Declaring(blocks) : i <= n
<1>. SUFFICES ASSUME Declaring(blocks) # {}
              PROVE  \E i \in Declaring(blocks) :
                        /\ DefaultRegion(blocks) \in Regions
                        /\ blocks[i].region = DefaultRegion(blocks)
                        /\ \A n \in Declaring(blocks) : i <= n
  BY DEF DefaultRegion
<1>. DEFINE i == Min(Declaring(blocks))
<1>1. Declaring(blocks) \in SUBSET Nat
  BY BlockFacts DEF Declaring
<1>2. i \in Declaring(blocks) /\ \A n \in Declaring(blocks) : i <= n
  BY <1>1, MinIsLeast
<1>3. i \in DOMAIN blocks /\ blocks[i].type = "provider" /\ blocks[i].region # "absent"
  BY <1>2 DEF Declaring
<1>4. DefaultRegion(blocks) = blocks[i].region
  BY DEF DefaultRegion
<1>5. blocks[i].region \in Regions
  BY <1>3, BlockFacts, ProviderFacts DEF Region
<1>. QED
  BY <1>2, <1>4, <1>5

\* No provider before it has one, in a file whose walk is not lost.
LEMMA FirstProvider ==
    ASSUME NEW file, file.blocks \in Seq(Blocks), ~Escapes(file),
           NEW i \in Declaring(file.blocks), \A n \in Declaring(file.blocks) : i <= n,
           NEW j \in 1..(i - 1), file.blocks[j].type = "provider"
    PROVE  file.blocks[j].region = "absent"
<1>. DEFINE blocks == file.blocks
<1>1. DOMAIN blocks = 1..Len(blocks) /\ Len(blocks) \in Nat
  BY BlockFacts
<1>2. i \in 1..Len(blocks)
  BY <1>1 DEF Declaring
<1>3. j \in DOMAIN blocks /\ ~(i <= j)
  BY <1>1, <1>2
<1>4. CASE blocks[j].raises
  <2>1. PICK k \in Declaring(blocks) : ~(j < k)
    BY <1>3, <1>4 DEF Escapes
  <2>2. k \in Nat /\ i <= k
    BY <1>1, <2>1 DEF Declaring
  <2>. QED
    BY <1>2, <1>3, <2>1, <2>2
<1>5. CASE ~blocks[j].raises
  BY <1>3, <1>5 DEF Declaring
<1>. QED
  BY <1>4, <1>5

LEMMA ParseFacts ==
    ASSUME NEW b \in Resource, NEW blocks \in Seq(Blocks)
    PROVE  Parse(b, blocks) \in Fact
<1>1. DefaultRegion(blocks) \in Regions \cup {"unknown"}
  BY DefaultFacts
<1>2. \A d \in Regions \cup {"unknown"} :
         b.type \notin {"aws_instance", "ConfigMap"} => OwnRegion(b, d) \in Regions \cup {"unknown"}
  BY ResourceFacts DEF OwnRegion, Region
<1>3. \A v : Truthy(v) \in BOOLEAN /\ UnlessFalse(v) \in BOOLEAN
  BY DEF Truthy, UnlessFalse
<1>4. CorrelatePublicAccess(b.name, blocks) \in BOOLEAN
  BY DEF CorrelatePublicAccess
<1>5. CorrelateEncryption(b.name, blocks) \in BOOLEAN
  BY DEF CorrelateEncryption
<1>6. \A r \in Regions \cup {"unknown"}, p \in BOOLEAN, e \in BOOLEAN : Facts(r, p, e) \in Fact
  BY DEF Facts, Fact
<1>7. CASE b.type = "aws_s3_bucket"
  <2>1. (b.acl = "public" \/ CorrelatePublicAccess(b.name, blocks)) \in BOOLEAN
    OBVIOUS
  <2>2. OwnRegion(b, DefaultRegion(blocks)) \in Regions \cup {"unknown"}
    BY <1>1, <1>2, <1>7
  <2>. QED
    BY <1>5, <1>6, <1>7, <2>1, <2>2 DEF Parse
<1>8. CASE b.type = "aws_instance"
  BY <1>1, <1>3, <1>6, <1>8 DEF Parse
<1>9. CASE b.type \in {"azurerm_storage_account", "azurerm_vm", "PersistentVolumeClaim"}
  <2>1. OwnRegion(b, "unknown") \in Regions \cup {"unknown"}
    BY <1>2, <1>9
  <2>. QED
    BY <1>3, <1>6, <1>9, <2>1, ResourceFacts DEF Parse
<1>10. CASE b.type = "ConfigMap"
  BY <1>6, <1>10 DEF Parse
<1>. QED
  BY <1>7, <1>8, <1>9, <1>10, ResourceFacts

-----------------------------------------------------------------------------
(***************************************************************************)
(* The invariant of the walk.                                              *)
(***************************************************************************)
File == [kind : {"terraform", "kubernetes"}, load : Load, blocks : Seq(Blocks)]

FilesInv ==
    /\ files \in Seq(File)
    /\ Len(files) <= MaxFiles
    /\ \A f \in DOMAIN files : Len(files[f].blocks) <= MaxBlocks /\ IsFile(files[f])

\* The walk is in a file or behind the last one.
PlaceInv ==
    /\ at \in (Nat \ {0}) \X (Nat \ {0})
    /\ at[1] <= Len(files) + 1
    /\ at[1] \in DOMAIN files => at[2] <= Len(files[at[1]].blocks) + 1
    /\ at[1] \notin DOMAIN files => at[2] = 1

\* It is lost in a file whose error escapes, and everything with it.
LossInv ==
    /\ aborted \in BOOLEAN
    /\ aborted => at[1] \in DOMAIN files /\ Escapes(files[at[1]]) /\ discovered = <<>>

\* Everything that is reported is what its block, in its file, was parsed to.
TrueReports ==
    /\ discovered \in Seq(Discovered)
    /\ \A r \in ToSet(discovered) : r = Report(r.file, r.block)

Wanted(p) == IsReported(files[p[1]].blocks[p[2]], files[p[1]].blocks)

\* Before the walk is lost, the reports are of exactly the wanted blocks of files
\* whose errors do not escape.
ExactReports ==
    ~aborted =>
        /\ \A p \in Walked : ~Escapes(files[p[1]])
        /\ Positions = {p \in Walked : Wanted(p)}

Ordered ==
    \A i, j \in DOMAIN discovered :
        i < j => \/ discovered[i].file < discovered[j].file
                 \/ /\ discovered[i].file = discovered[j].file
                    /\ discovered[i].block < discovered[j].block

WalkInv == FilesInv /\ PlaceInv /\ LossInv /\ TrueReports /\ ExactReports /\ Ordered

LEMMA FileFacts ==
    ASSUME NEW fs \in Seq(File)
    PROVE  /\ DOMAIN fs = 1..Len(fs) /\ Len(fs) \in Nat
           /\ \A f \in DOMAIN fs :
                 /\ fs[f].load \in Load
                 /\ fs[f].blocks \in Seq(Blocks)
                 /\ DOMAIN fs[f].blocks = 1..Len(fs[f].blocks)
                 /\ Len(fs[f].blocks) \in Nat
<1>1. ASSUME NEW f \in DOMAIN fs
      PROVE  fs[f].load \in Load /\ fs[f].blocks \in Seq(Blocks)
  <2>1. fs[f] \in File
    OBVIOUS
  <2>. QED
    BY <2>1 DEF File
<1>2. ASSUME NEW f \in DOMAIN fs
      PROVE  /\ DOMAIN fs[f].blocks = 1..Len(fs[f].blocks)
             /\ Len(fs[f].blocks) \in Nat
  BY <1>1
<1>. QED
  BY <1>1, <1>2

\* A report is of a block that has been walked over and is wanted.
LEMMA ReportedIsWanted ==
    ASSUME WalkInv, NEW r \in ToSet(discovered)
    PROVE  /\ ~aborted
           /\ <<r.file, r.block>> \in Walked
           /\ Wanted(<<r.file, r.block>>)
           /\ ~Escapes(files[r.file])
<1>1. ~aborted
  BY DEF WalkInv, LossInv, ToSet
<1>2. <<r.file, r.block>> \in Positions
  BY DEF Positions
<1>3. <<r.file, r.block>> \in Walked /\ Wanted(<<r.file, r.block>>)
  BY <1>1, <1>2 DEF WalkInv, ExactReports
<1>4. ~Escapes(files[<<r.file, r.block>>[1]])
  BY <1>1, <1>3 DEF WalkInv, ExactReports
<1>. QED
  BY <1>1, <1>3, <1>4

LEMMA WriteKeeps ==
    ASSUME WalkInv, NEW kind \in {"terraform", "kubernetes"}, NEW load \in Load,
           NEW length \in 0..MaxBlocks, NEW blocks \in [1..length -> Blocks],
           Write([kind |-> kind, load |-> load, blocks |-> blocks])
    PROVE  WalkInv'
<1>. DEFINE file == [kind |-> kind, load |-> load, blocks |-> blocks]
<1>1. /\ at = <<1, 1>> /\ Len(files) < MaxFiles /\ files' = Append(files, file)
      /\ at' = at /\ discovered' = discovered /\ aborted = FALSE /\ aborted' = FALSE
      /\ IsFile(file)
  BY DEF Write, WalkInv, LossInv
<1>2. length \in Nat /\ blocks \in Seq(Blocks) /\ Len(blocks) = length /\ length <= MaxBlocks
  BY ScanAssumption
<1>3. file \in File
  BY <1>2 DEF File
<1>4. FilesInv'
  <2>1. files \in Seq(File)
    BY DEF WalkInv, FilesInv
  <2>2. files' \in Seq(File) /\ Len(files') = Len(files) + 1
    BY <1>1, <1>3, <2>1
  <2>3. Len(files') <= MaxFiles
    BY <1>1, <2>1, <2>2, ScanAssumption
  <2>4. ASSUME NEW f \in DOMAIN files'
        PROVE  Len(files'[f].blocks) <= MaxBlocks /\ IsFile(files'[f])
    <3>1. files'[f] = IF f \in DOMAIN files THEN files[f] ELSE file
      BY <1>1, <1>3, <2>1, <2>4
    <3>. QED
      BY <1>1, <1>2, <3>1 DEF WalkInv, FilesInv
  <2>. QED
    BY <2>2, <2>3, <2>4 DEF FilesInv
<1>5. at' \in (Nat \ {0}) \X (Nat \ {0}) /\ at'[1] = 1 /\ at'[2] = 1
  BY <1>1
<1>6. PlaceInv'
  <2>1. /\ DOMAIN files' = 1..Len(files') /\ Len(files') \in Nat
        /\ \A f \in DOMAIN files' : Len(files'[f].blocks) \in Nat
    BY <1>4, FileFacts DEF FilesInv
  <2>. QED
    BY <1>5, <2>1 DEF PlaceInv
<1>7. Walked = {} /\ Walked' = {}
  BY <1>1 DEF Walked
<1>8. ToSet(discovered) = {}
  BY <1>7, ReportedIsWanted
<1>9. TrueReports'
  BY <1>1, <1>8 DEF WalkInv, TrueReports
<1>10. LossInv' /\ ExactReports' /\ Ordered'
  BY <1>1, <1>7, <1>8 DEF WalkInv, LossInv, ExactReports, Ordered, Positions
<1>. QED
  BY <1>4, <1>6, <1>9, <1>10 DEF WalkInv

\* A block that is reported is behind everything reported before it.
LEMMA ParseBlockKeeps ==
    ASSUME WalkInv, ParseBlock(at[1], at[2])
    PROVE  WalkInv'
<1>. DEFINE f == at[1]
            b == at[2]
            p == <<f, b>>
<1>1. /\ f <= Len(files) /\ ~Escapes(files[f]) /\ b <= Len(files[f].blocks)
      /\ discovered' = IF IsReported(files[f].blocks[b], files[f].blocks)
                       THEN Append(discovered, Report(f, b)) ELSE discovered
      /\ at' = <<f, b + 1>> /\ files' = files /\ ~aborted /\ aborted' = aborted
  BY DEF ParseBlock, IsWalking
<1>2. /\ f \in Nat \ {0} /\ b \in Nat \ {0} /\ at'[1] = f /\ at'[2] = b + 1 /\ b + 1 \in Nat \ {0}
      /\ at' \in (Nat \ {0}) \X (Nat \ {0})
  BY <1>1 DEF WalkInv, PlaceInv
<1>3. /\ f \in DOMAIN files /\ files[f].blocks \in Seq(Blocks)
      /\ b \in DOMAIN files[f].blocks /\ Len(files[f].blocks) \in Nat
      /\ Len(files) \in Nat /\ DOMAIN files = 1..Len(files)
      /\ Len(files[f].blocks) <= MaxBlocks /\ f \in 1..MaxFiles /\ b \in 1..MaxBlocks
  BY <1>1, <1>2, FileFacts, ScanAssumption DEF WalkInv, FilesInv
<1>4. FilesInv'
  BY <1>1 DEF WalkInv, FilesInv
<1>5. PlaceInv' /\ LossInv'
  <2>1. PlaceInv'
    BY <1>1, <1>2, <1>3 DEF PlaceInv
  <2>. QED
    BY <1>1, <2>1 DEF WalkInv, LossInv
<1>6. Walked' = Walked \cup {p}
  <2>1. ASSUME NEW q \in (DOMAIN files) \X (1..MaxBlocks)
        PROVE  (q[1] < f \/ (q[1] = f /\ q[2] < b + 1)) <=>
                  (q[1] < f \/ (q[1] = f /\ q[2] < b)) \/ q = p
    <3>1. q = <<q[1], q[2]>> /\ q[1] \in Nat /\ q[2] \in Nat
      BY <1>3
    <3>2. q = p <=> q[1] = f /\ q[2] = b
      BY <3>1
    <3>3. q[2] < b + 1 <=> q[2] < b \/ q[2] = b
      BY <1>2, <3>1
    <3>. QED
      BY <3>2, <3>3
  <2>2. p \in (DOMAIN files) \X (1..MaxBlocks) /\ p[1] = f /\ p[2] = b
    BY <1>3
  <2>. HIDE DEF f, b, p
  <2>. QED
    BY <1>1, <1>2, <2>1, <2>2 DEF Walked, f, b
<1>7. \A q \in Walked' : ~Escapes(files'[q[1]])
  BY <1>1, <1>6 DEF WalkInv, ExactReports
<1>8. CASE ~IsReported(files[f].blocks[b], files[f].blocks)
  <2>1. discovered' = discovered
    BY <1>1, <1>8
  <2>2. TrueReports'
    BY <1>1, <2>1 DEF WalkInv, TrueReports, Report
  <2>3. {q \in Walked' : Wanted(q)} = {q \in Walked : Wanted(q)}
    BY <1>6, <1>8 DEF Wanted
  <2>4. ExactReports' /\ Ordered'
    BY <1>1, <1>7, <2>1, <2>3 DEF WalkInv, ExactReports, Ordered, Positions, Wanted
  <2>. QED
    BY <1>4, <1>5, <2>2, <2>4 DEF WalkInv
<1>9. CASE IsReported(files[f].blocks[b], files[f].blocks)
  <2>. DEFINE e == Report(f, b)
  <2>1. e.file = f /\ e.block = b
    BY DEF Report
  <2>2. e \in Discovered
    <3>1. files[f].blocks[b] \in Resource
      BY <1>9 DEF IsReported
    <3>2. Parse(files[f].blocks[b], files[f].blocks) \in Fact
      BY <1>3, <3>1, ParseFacts
    <3>. QED
      BY <1>3, <3>2 DEF Report, Discovered, Fact
  <2>3. discovered \in Seq(Discovered)
    BY DEF WalkInv, TrueReports
  <2>4. discovered' = Append(discovered, e)
    BY <1>1, <1>9
  <2>5. discovered' \in Seq(Discovered) /\ ToSet(discovered') = ToSet(discovered) \cup {e}
    <3>. HIDE DEF e
    <3>. QED
      BY <2>2, <2>3, <2>4, ToSetAppend
  <2>6. TrueReports'
    BY <1>1, <2>1, <2>5 DEF WalkInv, TrueReports, Report
  <2>7. Positions' = Positions \cup {p}
    <3>. HIDE DEF e
    <3>. QED
      BY <2>1, <2>5 DEF Positions
  <2>8. {q \in Walked' : Wanted(q)} = {q \in Walked : Wanted(q)} \cup {p}
    BY <1>1, <1>6, <1>9 DEF Wanted
  <2>9. \A i, j \in DOMAIN discovered' :
          i < j => \/ discovered'[i].file < discovered'[j].file
                   \/ /\ discovered'[i].file = discovered'[j].file
                      /\ discovered'[i].block < discovered'[j].block
    <3>. SUFFICES ASSUME NEW i \in DOMAIN discovered', NEW j \in DOMAIN discovered', i < j
                  PROVE  \/ discovered'[i].file < discovered'[j].file
                         \/ /\ discovered'[i].file = discovered'[j].file
                            /\ discovered'[i].block < discovered'[j].block
      OBVIOUS
    <3>1. /\ i \in DOMAIN discovered /\ discovered'[i] = discovered[i]
          /\ j \in DOMAIN discovered => discovered'[j] = discovered[j]
          /\ j \notin DOMAIN discovered => discovered'[j] = e
      <4>. HIDE DEF e
      <4>. QED
        BY <2>2, <2>3, <2>4
    <3>2. CASE j \in DOMAIN discovered
      BY <3>1, <3>2 DEF WalkInv, Ordered
    <3>3. CASE j \notin DOMAIN discovered
      <4>1. discovered[i] \in ToSet(discovered)
        BY <3>1 DEF ToSet
      <4>2. <<discovered[i].file, discovered[i].block>> \in Walked
        BY <4>1, ReportedIsWanted
      <4>3. discovered[i].file < f \/ (discovered[i].file = f /\ discovered[i].block < b)
        BY <4>2 DEF Walked
      <4>. QED
        BY <2>1, <3>1, <3>3, <4>3
    <3>. QED
      BY <3>2, <3>3
  <2>10. ExactReports' /\ Ordered'
    BY <1>1, <1>7, <2>7, <2>8, <2>9 DEF WalkInv, ExactReports, Ordered, Wanted
  <2>. QED
    BY <1>4, <1>5, <2>6, <2>10 DEF WalkInv
<1>. QED
  BY <1>8, <1>9

\* A file is left when it has been walked through.
LEMMA NextFileKeeps ==
    ASSUME WalkInv, NextFile(at[1], at[2])
    PROVE  WalkInv'
<1>. DEFINE f == at[1]
            b == at[2]
<1>1. /\ f <= Len(files) /\ b > Len(files[f].blocks) /\ ~Escapes(files[f])
      /\ at' = <<f + 1, 1>> /\ files' = files /\ discovered' = discovered
      /\ ~aborted /\ aborted' = aborted
  BY DEF NextFile, IsWalking
<1>2. /\ f \in Nat \ {0} /\ b \in Nat \ {0} /\ at'[1] = f + 1 /\ at'[2] = 1
      /\ at' \in (Nat \ {0}) \X (Nat \ {0})
  BY <1>1 DEF WalkInv, PlaceInv
<1>3. /\ f \in DOMAIN files /\ Len(files) \in Nat /\ DOMAIN files = 1..Len(files)
      /\ \A g \in DOMAIN files : Len(files[g].blocks) \in Nat
  <2>1. files \in Seq(File)
    BY DEF WalkInv, FilesInv
  <2>2. Len(files) \in Nat /\ DOMAIN files = 1..Len(files)
    BY <2>1
  <2>3. \A g \in DOMAIN files : Len(files[g].blocks) \in Nat
    BY <2>1, FileFacts
  <2>4. f \in 1..Len(files)
    BY <1>1, <1>2, <2>2
  <2>. QED
    BY <2>2, <2>3, <2>4
<1>4. FilesInv'
  BY <1>1 DEF WalkInv, FilesInv
<1>5. PlaceInv' /\ LossInv'
  <2>1. PlaceInv'
    BY <1>1, <1>2, <1>3 DEF PlaceInv
  <2>. QED
    BY <1>1, <2>1 DEF WalkInv, LossInv
<1>6. TrueReports'
  BY <1>1 DEF WalkInv, TrueReports, Report
<1>7. ASSUME NEW q \in (DOMAIN files) \X (1..MaxBlocks), q[2] <= Len(files[q[1]].blocks)
      PROVE  (q[1] < f + 1 \/ (q[1] = f + 1 /\ q[2] < 1)) <=>
                (q[1] < f \/ (q[1] = f /\ q[2] < b))
  <2>1. q[1] \in Nat /\ q[2] \in Nat \ {0}
    BY <1>3
  <2>2. q[1] = f => q[2] < b
    BY <1>1, <1>2, <1>3, <1>7, <2>1
  <2>. QED
    BY <1>2, <2>1, <2>2
<1>8. Walked' = Walked
  <2>. HIDE DEF f, b
  <2>. QED
    BY <1>1, <1>2, <1>7 DEF Walked, f, b
<1>9. ExactReports' /\ Ordered'
  BY <1>1, <1>8 DEF WalkInv, ExactReports, Ordered, Positions, Wanted
<1>. QED
  BY <1>4, <1>5, <1>6, <1>9 DEF WalkInv

\* An error that escapes loses everything, so nothing wrong is left.
LEMMA EscapeKeeps ==
    ASSUME WalkInv, Escape(at[1])
    PROVE  WalkInv'
<1>1. /\ at[1] <= Len(files) /\ Escapes(files[at[1]])
      /\ discovered' = <<>> /\ aborted' = TRUE /\ files' = files /\ at' = at
  BY DEF Escape
<1>2. FilesInv'
  BY <1>1 DEF WalkInv, FilesInv
<1>3. at[1] \in DOMAIN files
  <2>1. at[1] \in Nat \ {0} /\ files \in Seq(File)
    BY DEF WalkInv, PlaceInv, FilesInv
  <2>. QED
    BY <1>1, <2>1
<1>4. PlaceInv' /\ LossInv'
  BY <1>1, <1>3 DEF WalkInv, PlaceInv, LossInv
<1>5. TrueReports' /\ ExactReports' /\ Ordered'
  BY <1>1 DEF TrueReports, ExactReports, Ordered, ToSet
<1>. QED
  BY <1>2, <1>4, <1>5 DEF WalkInv

LEMMA WalkInvariant == Spec => []WalkInv
<1>1. Init => WalkInv
  <2>. SUFFICES ASSUME Init PROVE WalkInv
    OBVIOUS
  <2>1. files = <<>> /\ at = <<1, 1>> /\ discovered = <<>>
    BY DEF Init
  <2>2. FilesInv /\ PlaceInv
    BY <2>1, ScanAssumption DEF FilesInv, PlaceInv
  <2>3. ToSet(discovered) = {} /\ Walked = {}
    BY <2>1 DEF ToSet, Walked
  <2>4. LossInv
    BY DEF Init, LossInv
  <2>5. TrueReports /\ ExactReports /\ Ordered
    BY <2>1, <2>3 DEF TrueReports, ExactReports, Ordered, Positions
  <2>. QED
    BY <2>2, <2>4, <2>5 DEF WalkInv
<1>2. WalkInv /\ [Next]_vars => WalkInv'
  <2>. SUFFICES ASSUME WalkInv, [Next]_vars PROVE WalkInv'
    OBVIOUS
  <2>1. CASE \E kind \in {"terraform", "kubernetes"}, load \in Load, length \in 0..MaxBlocks :
               /\ length <= Room
               /\ \E blocks \in [1..length -> Blocks] :
                     Write([kind |-> kind, load |-> load, blocks |-> blocks])
    BY <2>1, WriteKeeps
  <2>2. CASE ParseBlock(at[1], at[2]) \/ NextFile(at[1], at[2]) \/ Escape(at[1])
    BY <2>2, ParseBlockKeeps, NextFileKeeps, EscapeKeeps
  <2>3. CASE UNCHANGED vars
    BY <2>3 DEF vars, WalkInv, FilesInv, PlaceInv, LossInv, TrueReports, Report, ExactReports, Ordered,
                Positions, Walked, Wanted
  <2>. QED
    BY <2>1, <2>2, <2>3 DEF Next
<1>. QED
  BY <1>1, <1>2, PTL DEF Spec

-----------------------------------------------------------------------------
(***************************************************************************)
(* What is said of the resources.                                          *)
(***************************************************************************)

\* A report is of a resource of a file that loads, as it was parsed.
LEMMA ReportFacts ==
    ASSUME WalkInv, NEW r \in ToSet(discovered)
    PROVE  /\ FileOf(r) \in Seq(Blocks)
           /\ BlockOf(r) \in Resource /\ IsReported(BlockOf(r), FileOf(r))
           /\ r.facts = Parse(BlockOf(r), FileOf(r))
           /\ ~Escapes(files[r.file])
<1>1. /\ <<r.file, r.block>> \in Walked /\ Wanted(<<r.file, r.block>>)
      /\ ~Escapes(files[r.file])
  BY ReportedIsWanted
<1>2. r.file \in DOMAIN files
  BY <1>1 DEF Walked
<1>3. FileOf(r) \in Seq(Blocks)
  BY <1>2, FileFacts DEF WalkInv, FilesInv, FileOf
<1>4. IsReported(BlockOf(r), FileOf(r))
  BY <1>1 DEF Wanted, BlockOf, FileOf
<1>5. r = Report(r.file, r.block)
  BY DEF WalkInv, TrueReports
<1>6. r.facts = Parse(BlockOf(r), FileOf(r))
  BY <1>5 DEF Report, BlockOf, FileOf
<1>. QED
  BY <1>1, <1>3, <1>4, <1>6 DEF IsReported

\* A bucket's public access block (terraform_parser.py:102-141).
LEMMA AccessIsReadRight ==
    ASSUME WalkInv, NEW r \in ToSet(discovered), IsBucket(r), IsClear(r)
    PROVE  CorrelatePublicAccess(BlockOf(r).name, FileOf(r)) <=> ~AccessIsBlocked(r)
<1>. DEFINE name == BlockOf(r).name
            blocks == FileOf(r)
            found == Correlated(blocks, "public_access_block", name)
            m == Min(found)
<1>1. blocks \in Seq(Blocks) /\ \A i \in DOMAIN blocks : blocks[i] \in Block
  BY ReportFacts, BlockFacts
<1>2. /\ \A i, j \in found : i = j
      /\ \A i \in found : blocks[i].of = name /\ "expression" \notin blocks[i].flags
  BY <1>1, CompanionFacts DEF IsClear, Correlated
<1>3. \A i \in DOMAIN blocks :
         /\ blocks[i].type = "public_access_block"
         /\ ~blocks[i].raises
         /\ blocks[i].of = name
         => i \in found
  BY <1>1, CompanionFacts DEF IsClear, Correlated
<1>4. AccessIsBlocked(r) <=> \E i \in found : blocks[i].flags = {"true"}
  <2>1. \A i \in found :
           i \in DOMAIN blocks /\ blocks[i].type = "public_access_block" /\ ~blocks[i].raises
    BY DEF Correlated
  <2>. HIDE DEF found
  <2>. QED
    BY <1>2, <1>3, <2>1 DEF AccessIsBlocked, About, ToSet
<1>5. CASE found = {}
  BY <1>4, <1>5 DEF CorrelatePublicAccess
<1>6. CASE found # {}
  <2>1. found \in SUBSET Nat
    BY <1>1, BlockFacts DEF Correlated
  <2>2. m \in found
    <3>. HIDE DEF found
    <3>. QED
      BY <1>6, <2>1, MinIsLeast
  <2>3. m \in DOMAIN blocks /\ blocks[m].type = "public_access_block"
    BY <2>2 DEF Correlated
  <2>4. blocks[m].flags \in SUBSET Attribute /\ blocks[m].flags # {}
    BY <1>1, <2>3, BlockFacts, CompanionFacts
  <2>5. (\E flag \in blocks[m].flags : ~Truthy(flag)) <=> blocks[m].flags # {"true"}
    BY <1>2, <2>2, <2>4 DEF Truthy, Attribute
  <2>6. AccessIsBlocked(r) <=> blocks[m].flags = {"true"}
    <3>. HIDE DEF m, found
    <3>. QED
      BY <1>2, <1>4, <2>2
  <2>. QED
    BY <1>6, <2>5, <2>6 DEF CorrelatePublicAccess
<1>. QED
  BY <1>5, <1>6

\* A bucket's encryption configuration (terraform_parser.py:144-172).
LEMMA EncryptionIsReadRight ==
    ASSUME WalkInv, NEW r \in ToSet(discovered), IsBucket(r), IsClear(r)
    PROVE  CorrelateEncryption(BlockOf(r).name, FileOf(r)) <=> AlgorithmIsNamed(r)
<1>. DEFINE name == BlockOf(r).name
            blocks == FileOf(r)
            found == Correlated(blocks, "encryption_configuration", name)
            m == Min(found)
<1>1. blocks \in Seq(Blocks) /\ \A i \in DOMAIN blocks : blocks[i] \in Block
  BY ReportFacts, BlockFacts
<1>2. /\ \A i, j \in found : i = j
      /\ \A i \in found : blocks[i].of = name /\ blocks[i].algorithm # "absent"
  BY <1>1, CompanionFacts DEF IsClear, Correlated
<1>3. \A i \in DOMAIN blocks :
         /\ blocks[i].type = "encryption_configuration"
         /\ ~blocks[i].raises
         /\ blocks[i].of = name
         => i \in found
  BY <1>1, CompanionFacts DEF IsClear, Correlated
<1>4. AlgorithmIsNamed(r) <=> \E i \in found : blocks[i].algorithm = "named"
  <2>1. \A i \in found :
           i \in DOMAIN blocks /\ blocks[i].type = "encryption_configuration" /\ ~blocks[i].raises
    BY DEF Correlated
  <2>. HIDE DEF found
  <2>. QED
    BY <1>2, <1>3, <2>1 DEF AlgorithmIsNamed, About, ToSet
<1>5. CASE found = {}
  BY <1>4, <1>5 DEF CorrelateEncryption
<1>6. CASE found # {}
  <2>1. found \in SUBSET Nat
    BY <1>1, BlockFacts DEF Correlated
  <2>2. m \in found
    <3>. HIDE DEF found
    <3>. QED
      BY <1>6, <2>1, MinIsLeast
  <2>3. m \in DOMAIN blocks /\ blocks[m].type = "encryption_configuration"
    BY <2>2 DEF Correlated
  <2>4. blocks[m].algorithm \in {"named", "absent", "malformed"}
    BY <1>1, <2>3, BlockFacts, CompanionFacts
  <2>5. blocks[m].algorithm # "malformed" <=> blocks[m].algorithm = "named"
    BY <1>2, <2>2, <2>4
  <2>6. AlgorithmIsNamed(r) <=> blocks[m].algorithm = "named"
    <3>. HIDE DEF m, found
    <3>. QED
      BY <1>2, <1>4, <2>2
  <2>. QED
    BY <1>6, <2>5, <2>6 DEF CorrelateEncryption
<1>. QED
  BY <1>5, <1>6

LEMMA BucketsAreReadRight ==
    ASSUME WalkInv
    PROVE  ClearFilesAreReadRight
<1>. SUFFICES ASSUME NEW r \in ToSet(discovered), IsBucket(r), IsClear(r)
              PROVE  /\ r.facts.public = (BlockOf(r).acl = "public" \/ ~AccessIsBlocked(r))
                     /\ r.facts.encrypted = AlgorithmIsNamed(r)
  BY DEF ClearFilesAreReadRight
<1>. DEFINE name == BlockOf(r).name
            blocks == FileOf(r)
<1>1. r.facts = Facts(OwnRegion(BlockOf(r), DefaultRegion(blocks)),
                      BlockOf(r).acl = "public" \/ CorrelatePublicAccess(name, blocks),
                      CorrelateEncryption(name, blocks))
  BY ReportFacts DEF Parse, IsBucket
<1>2. /\ r.facts.public = (BlockOf(r).acl = "public" \/ CorrelatePublicAccess(name, blocks))
      /\ r.facts.encrypted = CorrelateEncryption(name, blocks)
  BY <1>1 DEF Facts
<1>3. AlgorithmIsNamed(r) \in BOOLEAN /\ CorrelateEncryption(name, blocks) \in BOOLEAN
  BY DEF AlgorithmIsNamed, CorrelateEncryption
<1>. QED
  BY <1>2, <1>3, AccessIsReadRight, EncryptionIsReadRight

\* A default region is the first provider's of its file.
LEMMA DefaultIsDeclared ==
    ASSUME WalkInv, NEW r \in ToSet(discovered), DefaultRegion(FileOf(r)) # "unknown"
    PROVE  \E i \in DOMAIN FileOf(r) :
              /\ FileOf(r)[i].type = "provider"
              /\ FileOf(r)[i].region = DefaultRegion(FileOf(r))
              /\ \A j \in 1..(i - 1) :
                    FileOf(r)[j].type = "provider" => FileOf(r)[j].region = "absent"
<1>1. FileOf(r) \in Seq(Blocks) /\ ~Escapes(files[r.file]) /\ FileOf(r) = files[r.file].blocks
  BY ReportFacts DEF FileOf
<1>2. PICK i \in Declaring(FileOf(r)) :
         /\ FileOf(r)[i].region = DefaultRegion(FileOf(r))
         /\ \A n \in Declaring(FileOf(r)) : i <= n
  BY <1>1, DefaultFacts
<1>3. i \in DOMAIN FileOf(r) /\ FileOf(r)[i].type = "provider"
  BY <1>2 DEF Declaring
<1>4. \A j \in 1..(i - 1) : FileOf(r)[j].type = "provider" => FileOf(r)[j].region = "absent"
  BY <1>1, <1>2, FirstProvider
<1>. QED
  BY <1>2, <1>3, <1>4

\* The region of each type of resource.
LEMMA RegionOf ==
    ASSUME NEW b \in Resource, NEW blocks
    PROVE  /\ b.type = "aws_s3_bucket" =>
                 Parse(b, blocks).region = OwnRegion(b, DefaultRegion(blocks))
           /\ b.type = "aws_instance" => Parse(b, blocks).region = DefaultRegion(blocks)
           /\ b.type \in {"azurerm_storage_account", "azurerm_vm", "PersistentVolumeClaim"} =>
                 Parse(b, blocks).region = OwnRegion(b, "unknown")
           /\ b.type = "ConfigMap" => Parse(b, blocks).region = "unknown"
<1>1. \A x, y, z : Facts(x, y, z).region = x
  BY DEF Facts
<1>2. CASE b.type = "aws_s3_bucket"
  BY <1>1, <1>2 DEF Parse
<1>3. CASE b.type = "aws_instance"
  BY <1>1, <1>3 DEF Parse
<1>4. CASE b.type = "azurerm_storage_account"
  BY <1>1, <1>4 DEF Parse
<1>5. CASE b.type = "azurerm_vm"
  BY <1>1, <1>5 DEF Parse
<1>6. CASE b.type = "PersistentVolumeClaim"
  BY <1>1, <1>6 DEF Parse
<1>7. CASE b.type = "ConfigMap"
  BY <1>1, <1>7 DEF Parse
<1>. QED
  BY <1>2, <1>3, <1>4, <1>5, <1>6, <1>7, ResourceFacts

LEMMA RegionsAreDeclared ==
    ASSUME WalkInv
    PROVE  RegionIsDeclared
<1>. SUFFICES ASSUME NEW r \in ToSet(discovered)
              PROVE  LET b == BlockOf(r)
                         declares == b.type \notin {"aws_instance", "ConfigMap"} /\ b.region # "absent"
                     IN  /\ declares => r.facts.region = b.region
                         /\ ~declares /\ r.facts.region # "unknown" =>
                               /\ b.type \in {"aws_s3_bucket", "aws_instance"}
                               /\ \E i \in DOMAIN FileOf(r) :
                                     /\ FileOf(r)[i].type = "provider"
                                     /\ FileOf(r)[i].region = r.facts.region
                                     /\ \A j \in 1..(i - 1) :
                                           FileOf(r)[j].type = "provider" =>
                                              FileOf(r)[j].region = "absent"
  BY DEF RegionIsDeclared
<1>. DEFINE b == BlockOf(r)
            default == DefaultRegion(FileOf(r))
            declares == b.type \notin {"aws_instance", "ConfigMap"} /\ b.region # "absent"
<1>1. b \in Resource /\ r.facts = Parse(b, FileOf(r))
  BY ReportFacts
<1>2. declares => r.facts.region = b.region
  BY <1>1, RegionOf, ResourceFacts DEF OwnRegion
<1>3. ~declares /\ r.facts.region # "unknown" =>
         b.type \in {"aws_s3_bucket", "aws_instance"} /\ r.facts.region = default
  BY <1>1, RegionOf, ResourceFacts DEF OwnRegion
<1>. QED
  BY <1>2, <1>3, DefaultIsDeclared

-----------------------------------------------------------------------------
(***************************************************************************)
(* What is reported.                                                       *)
(***************************************************************************)

\* Only a companion's error can be a bucket's.
LEMMA SoundIsReported ==
    ASSUME WalkInv, NEW p \in Walked, IsSound(files[p[1]].blocks[p[2]]),
           files[p[1]].blocks[p[2]].type = "aws_s3_bucket" => ~HasBadCompanion(p[1])
    PROVE  Wanted(p)
<1>. DEFINE blocks == files[p[1]].blocks
            b == blocks[p[2]]
<1>1. \A i \in DOMAIN blocks : blocks[i] \in Block /\ blocks[i] \in ToSet(blocks)
  <2>1. files \in Seq(File) /\ p[1] \in DOMAIN files
    BY DEF WalkInv, FilesInv, Walked
  <2>. QED
    BY <2>1, FileFacts, BlockFacts DEF ToSet
<1>2. ASSUME b.type = "aws_s3_bucket", NEW type \in {"public_access_block", "encryption_configuration"}
      PROVE  ~TripsOver(blocks, type, b.name)
  BY <1>1, <1>2, CompanionFacts DEF TripsOver, HasBadCompanion
<1>3. ~Raises(b, blocks)
  BY <1>2 DEF Raises, IsSound
<1>. QED
  BY <1>3 DEF Wanted, IsReported, IsSound

LEMMA ErrorsStay ==
    ASSUME WalkInv
    PROVE  ErrorsStayInTheirFile
<1>1. ASSUME ~aborted, NEW p \in Walked
      PROVE  LET b == files[p[1]].blocks[p[2]]
             IN  IsSound(b) /\ (b.type = "aws_s3_bucket" => ~HasBadCompanion(p[1]))
                   => p \in Positions
  BY <1>1, SoundIsReported DEF WalkInv, ExactReports
<1>2. ASSUME NEW p \in Positions
      PROVE  p \in Walked /\ IsSound(files[p[1]].blocks[p[2]])
  <2>1. PICK r \in ToSet(discovered) : p = <<r.file, r.block>>
    BY DEF Positions
  <2>2. p \in Walked /\ Wanted(p)
    BY <2>1, ReportedIsWanted
  <2>. QED
    BY <2>2 DEF Wanted, IsReported, IsSound, Raises
<1>3. ASSUME aborted
      PROVE  /\ at[1] \in DOMAIN files
             /\ \/ files[at[1]].kind = "kubernetes" /\ files[at[1]].load = "escapes"
                \/ \E b \in ToSet(files[at[1]].blocks) :
                      b.type = "unlabelled" \/ (b.type = "provider" /\ b.raises)
  <2>1. at[1] \in DOMAIN files /\ Escapes(files[at[1]]) /\ IsFile(files[at[1]])
    BY <1>3 DEF WalkInv, LossInv, FilesInv
  <2>. QED
    BY <2>1 DEF Escapes, IsFile, ToSet
<1>4. Ordered
  BY DEF WalkInv
<1>. QED
  BY <1>1, <1>2, <1>3, <1>4 DEF ErrorsStayInTheirFile, Ordered

\* Whatever stands around it, a sound resource that has been walked over is
\* reported, once and in order, and nothing else is; a bucket may be lost to a bad
\* companion of its own file, and the walk to the errors that nothing catches
\* (terraform_parser.py:314-335, k8s_parser.py:113-135).
THEOREM CaughtErrorsStayInTheirFile == Spec => []ErrorsStayInTheirFile
<1>1. WalkInv => ErrorsStayInTheirFile
  BY ErrorsStay
<1>. QED
  BY <1>1, WalkInvariant, PTL

\* Where its file is clear about a bucket, exposure and encryption are what
\* Terraform will apply, wherever the other blocks stand
\* (terraform_parser.py:102-172).
THEOREM ClearFilesAreUnderstood == Spec => []ClearFilesAreReadRight
<1>1. WalkInv => ClearFilesAreReadRight
  BY BucketsAreReadRight
<1>. QED
  BY <1>1, WalkInvariant, PTL

\* No region is made up: it is the resource's own, or else the first provider's
\* (terraform_parser.py:84-99).
THEOREM RegionsComeFromTheFile == Spec => []RegionIsDeclared
<1>1. WalkInv => RegionIsDeclared
  BY RegionsAreDeclared
<1>. QED
  BY <1>1, WalkInvariant, PTL

\* Every variable keeps its shape.
THEOREM WalkTypeCorrect == Spec => []TypeOK
<1>1. WalkInv => TypeOK
  <2>. SUFFICES ASSUME WalkInv PROVE TypeOK
    OBVIOUS
  <2>1. /\ files \in Seq(File) /\ Len(files) <= MaxFiles
        /\ \A f \in DOMAIN files : Len(files[f].blocks) <= MaxBlocks
    BY DEF WalkInv, FilesInv
  <2>2. DOMAIN files = 1..Len(files) /\ Len(files) \in Nat
    BY <2>1, FileFacts
  <2>3. DOMAIN files \subseteq 1..MaxFiles
    BY <2>1, <2>2, ScanAssumption
  <2>4. ASSUME NEW f \in DOMAIN files
        PROVE  files[f].load \in Load /\ ToSet(files[f].blocks) \subseteq Blocks
    BY <2>1, FileFacts DEF ToSet
  <2>5. at \in (1..(MaxFiles + 1)) \X (1..(MaxBlocks + 1))
    <3>1. /\ at \in (Nat \ {0}) \X (Nat \ {0}) /\ at[1] <= Len(files) + 1
          /\ at[1] \in DOMAIN files => at[2] <= Len(files[at[1]].blocks) + 1
          /\ at[1] \notin DOMAIN files => at[2] = 1
      BY DEF WalkInv, PlaceInv
    <3>2. at = <<at[1], at[2]>> /\ at[1] \in Nat \ {0} /\ at[2] \in Nat \ {0}
      BY <3>1
    <3>3. at[1] \in 1..(MaxFiles + 1)
      BY <2>1, <2>2, <3>1, <3>2, ScanAssumption
    <3>4. at[2] \in 1..(MaxBlocks + 1)
      <4>1. CASE at[1] \in DOMAIN files
        BY <2>1, <3>1, <3>2, <4>1, FileFacts, ScanAssumption
      <4>2. CASE at[1] \notin DOMAIN files
        BY <3>1, <4>2, ScanAssumption
      <4>. QED
        BY <4>1, <4>2
    <3>. QED
      BY <3>2, <3>3, <3>4
  <2>6. ToSet(discovered) \subseteq Discovered
    BY DEF WalkInv, TrueReports, ToSet
  <2>7. aborted \in BOOLEAN
    BY DEF WalkInv, LossInv
  <2>. QED
    BY <2>3, <2>4, <2>5, <2>6, <2>7 DEF TypeOK
<1>. QED
  BY <1>1, WalkInvariant, PTL
=============================================================================
