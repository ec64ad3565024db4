----------------------------- MODULE MCDiscovery -----------------------------
(***************************************************************************)
(* Discovery for TLC: two regions and a resource group.                    *)
(***************************************************************************)
EXTENDS Discovery

MCScopes ==
    <<[cloud |-> "aws", place |-> "eu"], [cloud |-> "aws", place |-> "us"],
      [cloud |-> "azure", place |-> "group"]>>

MCPlace ==
    [r \in Resources \ Buckets |-> IF r \in Instances THEN "us" ELSE "group"]

MCAccount == [r \in Datasets |-> IF r \in Buckets THEN "aws" ELSE "storage"]

\* All instances have one name.
MCEntityOf == [r \in Resources |-> IF r \in Instances THEN "web" ELSE r]

MCContent ==
    [r \in Datasets |-> IF r \in Containers THEN {"archive"} ELSE {"text", "archive"}]

\* The first bucket is mentioned by an export, with findings.
MCExport == [r \in {"covered"} |-> {"export"}]

NoExport == [r \in {} |-> {}]
=============================================================================
