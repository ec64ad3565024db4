------------------------- MODULE MCInfrastructureScan ------------------------
(***************************************************************************)
(* InfrastructureScan for TLC: a bucket "data" and a bucket "database",    *)
(* any reference to which contains the other's name.                       *)
(***************************************************************************)
EXTENDS InfrastructureScan

Bucket(name, region, acl) ==
    [type |-> "aws_s3_bucket", name |-> name, region |-> region, acl |-> acl, raises |-> FALSE]

\* The names in the text of a reference to a bucket, and of a literal or a variable.
Reference(of) == IF of = "database" THEN {"data", "database"} ELSE {of}

Literal == {}

Access(of, text, flags) ==
    [type |-> "public_access_block", of |-> of, text |-> text, flags |-> flags,
     raises |-> FALSE]

Encryption(of, text, algorithm) ==
    [type |-> "encryption_configuration", of |-> of, text |-> text, algorithm |-> algorithm,
     raises |-> FALSE]

Provider(region, raises) == [type |-> "provider", region |-> region, raises |-> raises]

Raising(block) == [block EXCEPT !.raises = TRUE]

Claim(region, tracked, raises) ==
    [type |-> "PersistentVolumeClaim", name |-> "data", region |-> region,
     tracked |-> tracked, encrypted |-> TRUE, raises |-> raises]

\* Every type of block, with what the parsers tell apart of each.
ScanBlocks ==
    {Provider(region, FALSE) : region \in {"r1", "r2", "absent"}}
    \cup {Provider("r1", TRUE)}
    \cup {Bucket("data", "absent", "other"), Raising(Bucket("data", "r2", "other")),
          Bucket("database", "r1", "public")}
    \cup {Access("data", Reference("data"), {"true"}),
          Access("data", Reference("data"), {"true", "absent"}),
          Access("database", Reference("database"), {"true", "expression"}),
          Access("data", Literal, {"true"}),
          Raising(Access("database", Literal, {"true"}))}
    \cup {Encryption("data", Reference("data"), "named"),
          Encryption("data", Reference("data"), "malformed"),
          Raising(Encryption("data", Literal, "absent"))}
    \cup {[type |-> "aws_instance", name |-> "data", ip |-> "absent",
           encrypted |-> "expression", raises |-> FALSE],
          [type |-> "azurerm_storage_account", name |-> "data", region |-> "r2",
           access |-> "false", raises |-> FALSE],
          [type |-> "azurerm_vm", name |-> "data", region |-> "absent", raises |-> FALSE]}
    \cup {Claim("r2", TRUE, FALSE), Claim("absent", FALSE, TRUE)}
    \cup {[type |-> "ConfigMap", name |-> "data", sensitive |-> TRUE, raises |-> FALSE],
          [type |-> "irrelevant"], [type |-> "unlabelled"]}

\* Two buckets and nothing but literals.
LiteralBlocks ==
    {Bucket("data", "absent", "other"), Access("data", Reference("data"), {"false"}),
     Access("database", Reference("database"), {"true"})}

UnresolvedBlocks ==
    {Bucket("data", "absent", "other"), Access("data", Reference("data"), {"true", "expression"}),
     Access("data", Reference("data"), {"true"})}

RuleBlocks ==
    {Bucket("data", "absent", "other"), Encryption("data", Reference("data"), "absent"),
     Encryption("data", Reference("data"), "named")}

\* A bucket beside another bucket's bad companion.
CompanionBlocks ==
    {Bucket("data", "absent", "other"), Raising(Access("database", Literal, {"true"}))}
=============================================================================
