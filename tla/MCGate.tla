-------------------------------- MODULE MCGate -------------------------------
(***************************************************************************)
(* Gate on small instances: repositories of up to two resources.           *)
(***************************************************************************)
EXTENDS Gate, TLC

CONSTANTS logs, web, hosted, listed, abroad

Bucket(name, dest) ==
    [name |-> name, granularity |-> "dataset", cloud |-> "aws", dest |-> dest, valid |-> TRUE]

Machine(name, dest) ==
    [name |-> name, granularity |-> "workload", cloud |-> "azure", dest |-> dest, valid |-> TRUE]

\* A ConfigMap, whose manifest names no cloud.
ConfigMap(name) ==
    [name |-> name, granularity |-> "dataset", cloud |-> "other", dest |-> abroad, valid |-> TRUE]

\* A bucket with a tag that is a number.
BadTag(name, dest) == [Bucket(name, dest) EXCEPT !.valid = FALSE]

\* Names that may collide, resources that may not be assembled.
AnyScan ==
    BoundedSeq({Bucket(logs, listed), Bucket(logs, abroad), Machine(logs, abroad),
                Machine(web, hosted), ConfigMap(logs), BadTag(web, abroad)}, 2)

\* Two pipelines of the same two repositories.
TwoScans ==
    {<<Bucket(logs, listed), Machine(web, hosted)>>, <<Machine(web, hosted), Bucket(logs, abroad)>>}

\* Two resources of one name, both valid.
NamesakeScans == {<<Bucket(logs, abroad), Machine(logs, listed)>>}

BadTagScans == {<<BadTag(logs, abroad)>>}

PlainScans == {<<Bucket(logs, listed)>>}

Symmetry == Permutations(Pipelines)
=============================================================================
