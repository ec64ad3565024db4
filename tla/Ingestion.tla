------------------------------ MODULE Ingestion ------------------------------
(***************************************************************************)
(* POST /ingest: one finding goes into Postgres and is then projected into *)
(* the graph (app/ingestion/pipeline.py over app/db/repository.py and      *)
(* app/graph/repository.py).                                               *)
(*                                                                         *)
(* The two stores share nothing but entity ids, and no transaction spans   *)
(* them: a handler is a sequence of Postgres transactions and Neo4j        *)
(* transactions, any of which may fail, that other handlers' fall between. *)
(* An entity stands for its (type, name) key within the company, which     *)
(* uq_entity_company_type_name makes its identity.  insert_canonical_      *)
(* schema takes two steps, as insert_policy_decision does in               *)
(* TransferLifecycle, and so does MERGE, because no uniqueness constraint  *)
(* makes Neo4j lock what is not there yet.                                 *)
(***************************************************************************)
EXTENDS Naturals, Sequences, FiniteSets, SequencesExt

CONSTANTS
    Entities,     \* natural keys
    Requests,     \* the findings clients send: an entity and its dependencies
    Handlers,     \* request threads
    MaxRequests,  \* bound: requests that arrive
    MaxFaults     \* bound: database calls that raise, and requests that die

ASSUME IngestionAssumption ==
    /\ Requests \subseteq [entity : Entities, dependencies : Seq(Entities)]
    /\ IsFiniteSet(Handlers)
    /\ MaxRequests \in Nat
    /\ MaxFaults \in Nat

VARIABLES
    entities,  \* the keys that ENTITY has a row for
    rows,      \* the CANONICAL_SCHEMA rows in commit order, each by its entity
    latest,    \* the indices of rows whose is_latest is true
    pointer,   \* pointer[e]: ENTITY.latest_canonical_schema_id, 0 for NULL
    nodes,     \* nodes[e]: how many graph nodes carry e's entity_id
    edges,     \* the DEPENDS_ON relationships
    job,       \* job[h]: the request h is working on
    arrived,   \* requests so far
    faults,    \* faults so far
    answer     \* the last response sent, for the properties

postgres == <<entities, rows, latest, pointer>>
graph == <<nodes, edges>>
vars == <<postgres, graph, job, arrived, faults, answer>>

PostgresPlaces == {"upsertEntity", "demote", "insertSchema"}
GraphPlaces == {"matchNode", "createNode", "resolve", "link"}

Idle == [at |-> "idle"]

\* What a handler holds.  "linkable" and "unlinked" are there for the
\* properties: the dependencies whose nodes existed when the request arrived,
\* and those it has met so far without linking or logging them.
Job ==
    [at : PostgresPlaces \cup GraphPlaces, entity : Entities, left : Seq(Entities),
     schema : Nat, seen : SUBSET Nat,
     linkable : SUBSET Entities, unlinked : SUBSET Entities]

Init ==
    /\ entities = {}
    /\ rows = <<>>
    /\ latest = {}
    /\ pointer = [e \in Entities |-> 0]
    /\ nodes = [e \in Entities |-> 0]
    /\ edges = {}
    /\ job = [h \in Handlers |-> Idle]
    /\ arrived = 0
    /\ faults = 0
    /\ answer = [code |-> 0]

Go(h, place) == job' = [job EXCEPT ![h].at = place]

LatestOf(e) == {n \in latest : rows[n] = e}

-----------------------------------------------------------------------------
(***************************************************************************)
(* Postgres, the source of truth, first.                                   *)
(***************************************************************************)

\* The request passes the company check; upsert_company changes nothing that
\* anything here depends on.
Arrive(h, r) ==
    /\ job[h] = Idle
    /\ arrived < MaxRequests
    /\ arrived' = arrived + 1
    /\ job' = [job EXCEPT ![h] =
                 [at |-> "upsertEntity", entity |-> r.entity, left |-> r.dependencies,
                  schema |-> 0, seen |-> {},
                  linkable |-> {d \in ToSet(r.dependencies) : d \in entities /\ nodes[d] > 0},
                  unlinked |-> {}]]
    /\ UNCHANGED <<postgres, graph, faults, answer>>

\* Mutant: the projection runs before the schema is written.
UpsertThenProject(h) ==
    /\ job[h].at = "upsertEntity"
    /\ entities' = entities \cup {job[h].entity}
    /\ Go(h, "matchNode")
    /\ UNCHANGED <<rows, latest, pointer, graph, arrived, faults, answer>>

UpsertEntity(h) ==
    /\ job[h].at = "upsertEntity"
    /\ entities' = entities \cup {job[h].entity}
    /\ Go(h, "demote")
    /\ UNCHANGED <<rows, latest, pointer, graph, arrived, faults, answer>>

\* insert_canonical_schema's first UPDATE: the rows it sees as the latest.
DemoteSchemas(h) ==
    /\ job[h].at = "demote"
    /\ job' = [job EXCEPT ![h].at = "insertSchema", ![h].seen = LatestOf(job[h].entity)]
    /\ UNCHANGED <<postgres, graph, arrived, faults, answer>>

\* Mutant: the rows are demoted after the INSERT, the new one among them.
DemoteAfterInsert(h) ==
    /\ job[h].at = "insertSchema"
    /\ LET e == job[h].entity
           n == Len(rows) + 1
       IN  /\ rows' = Append(rows, e)
           /\ latest' = latest \ job[h].seen
           /\ pointer' = [pointer EXCEPT ![e] = n]
           /\ job' = [job EXCEPT ![h].at = "matchNode", ![h].schema = n, ![h].seen = {}]
    /\ UNCHANGED <<entities, graph, arrived, faults, answer>>

\* Mutant: the entity points at the row that comes next.
PointPastEnd(h) ==
    /\ job[h].at = "insertSchema"
    /\ LET e == job[h].entity
           n == Len(rows) + 1
       IN  /\ rows' = Append(rows, e)
           /\ latest' = (latest \ job[h].seen) \cup {n}
           /\ pointer' = [pointer EXCEPT ![e] = n + 1]
           /\ job' = [job EXCEPT ![h].at = "matchNode", ![h].schema = n, ![h].seen = {}]
    /\ UNCHANGED <<entities, graph, arrived, faults, answer>>

\* Its INSERT, the UPDATE of ENTITY, and the commit.
InsertSchema(h) ==
    /\ job[h].at = "insertSchema"
    /\ LET e == job[h].entity
           n == Len(rows) + 1
       IN  /\ rows' = Append(rows, e)
           /\ latest' = (latest \ job[h].seen) \cup {n}
           /\ pointer' = [pointer EXCEPT ![e] = n]
           /\ job' = [job EXCEPT ![h].at = "matchNode", ![h].schema = n, ![h].seen = {}]
    /\ UNCHANGED <<entities, graph, arrived, faults, answer>>

-----------------------------------------------------------------------------
(***************************************************************************)
(* The projection: upsert_asset or upsert_workload, then the dependencies. *)
(***************************************************************************)
MatchNode(h) ==
    /\ job[h].at = "matchNode"
    /\ Go(h, IF nodes[job[h].entity] > 0 THEN "resolve" ELSE "createNode")
    /\ UNCHANGED <<postgres, graph, arrived, faults, answer>>

CreateNode(h) ==
    /\ job[h].at = "createNode"
    /\ nodes' = [nodes EXCEPT ![job[h].entity] = @ + 1]
    /\ Go(h, "resolve")
    /\ UNCHANGED <<postgres, edges, arrived, faults, answer>>

\* Mutant: the first dependency that is not found ends the loop.
StopAtMissing(h) ==
    /\ job[h].at = "resolve"
    /\ job[h].left # <<>>
    /\ job' = IF Head(job[h].left) \in entities
              THEN [job EXCEPT ![h].at = "link"]
              ELSE [job EXCEPT ![h].left = <<>>]
    /\ UNCHANGED <<postgres, graph, arrived, faults, answer>>

\* get_entity_by_natural_key; a target without a row is skipped with a warning.
ResolveDependency(h) ==
    /\ job[h].at = "resolve"
    /\ job[h].left # <<>>
    /\ job' = IF Head(job[h].left) \in entities
              THEN [job EXCEPT ![h].at = "link"]
              ELSE [job EXCEPT ![h].left = Tail(@)]
    /\ UNCHANGED <<postgres, graph, arrived, faults, answer>>

\* link_depends_on: MATCH finds no row, and MERGE does nothing, unless both
\* nodes are there.
LinkDependsOn(h) ==
    /\ job[h].at = "link"
    /\ LET from == job[h].entity
           to == Head(job[h].left)
           found == nodes[from] > 0 /\ nodes[to] > 0
       IN  /\ edges' = edges \cup (IF found THEN {<<from, to>>} ELSE {})
           /\ job' = [job EXCEPT ![h].at = "resolve", ![h].left = Tail(@),
                                 ![h].unlinked = @ \cup (IF found THEN {} ELSE {to})]
    /\ UNCHANGED <<postgres, nodes, arrived, faults, answer>>

-----------------------------------------------------------------------------
(***************************************************************************)
(* The responses: 201 when all is done, 500 when Postgres raises, 207 when *)
(* the projection does.                                                    *)
(***************************************************************************)
Respond(h, code) ==
    /\ answer' = [code |-> code, at |-> job[h].at, entity |-> job[h].entity,
                  schema |-> job[h].schema, linkable |-> job[h].linkable,
                  unlinked |-> job[h].unlinked]
    /\ job' = [job EXCEPT ![h] = Idle]

Ingested(h) ==
    /\ job[h].at = "resolve"
    /\ job[h].left = <<>>
    /\ Respond(h, 201)
    /\ UNCHANGED <<postgres, graph, arrived, faults>>

\* Mutant: any exception is taken for a failed projection.
AlwaysPartial(h) ==
    /\ job[h] # Idle
    /\ faults < MaxFaults
    /\ faults' = faults + 1
    /\ Respond(h, 207)
    /\ UNCHANGED <<postgres, graph, arrived>>

\* A call raises; the transaction it is in rolls back.
Raise(h) ==
    /\ job[h] # Idle
    /\ faults < MaxFaults
    /\ faults' = faults + 1
    /\ Respond(h, IF job[h].at \in PostgresPlaces THEN 500 ELSE 207)
    /\ UNCHANGED <<postgres, graph, arrived>>

\* The process dies with the request; nobody gets a response.
Die(h) ==
    /\ job[h] # Idle
    /\ faults < MaxFaults
    /\ faults' = faults + 1
    /\ job' = [job EXCEPT ![h] = Idle]
    /\ UNCHANGED <<postgres, graph, arrived, answer>>

-----------------------------------------------------------------------------
Next ==
    \E h \in Handlers :
        \/ \E r \in Requests : Arrive(h, r)
        \/ UpsertEntity(h) \/ DemoteSchemas(h) \/ InsertSchema(h)
        \/ MatchNode(h) \/ CreateNode(h)
        \/ ResolveDependency(h) \/ LinkDependsOn(h)
        \/ Ingested(h) \/ Raise(h) \/ Die(h)

Spec == Init /\ [][Next]_vars

-----------------------------------------------------------------------------
(***************************************************************************)
(* Properties                                                              *)
(***************************************************************************)

\* Every variable has the shape its table has, and foreign keys point at rows.
TypeOK ==
    /\ entities \subseteq Entities
    /\ rows \in Seq(entities)
    /\ latest \subseteq DOMAIN rows
    /\ pointer \in [Entities -> {0} \cup DOMAIN rows]
    /\ nodes \in [Entities -> Nat]
    /\ edges \subseteq Entities \X Entities
    /\ job \in [Handlers -> {Idle} \cup Job]
    /\ arrived \in 0..MaxRequests
    /\ faults \in 0..MaxFaults

\* The is_latest flags and ENTITY.latest_canonical_schema_id are kept by one
\* transaction, but its UPDATE does not see concurrent inserts, so that several
\* rows of an entity can stay flagged.  The row the entity points at is always
\* one of them, and they are never more than the threads that overlapped: the
\* drift does not build up, and get_latest_classification never finds nothing.
LatestIsBounded ==
    \A e \in Entities :
        /\ pointer[e] = 0 => LatestOf(e) = {}
        /\ pointer[e] # 0 => pointer[e] \in LatestOf(e)
        /\ Cardinality(LatestOf(e)) <= Cardinality(Handlers)

\* "Postgres write happens FIRST, always.  If it fails, we stop -- nothing
\* touches the graph" (pipeline.py:7-8): the graph never knows of an entity
\* whose schema is not stored, nor links one it has no node for.
GraphIsBacked ==
    /\ \A e \in Entities : nodes[e] > 0 => pointer[e] # 0
    /\ \A edge \in edges : nodes[edge[1]] > 0 /\ nodes[edge[2]] > 0

\* 201 and 207 promise the finding is stored, 201 also that it is in the graph
\* (pipeline.py:26-32, routes.py:100-105), whatever failed on the way.
AnswerIsTrue ==
    /\ answer.code \in {201, 207} =>
          answer.schema \in DOMAIN rows /\ rows[answer.schema] = answer.entity
    /\ answer.code = 201 => nodes[answer.entity] > 0

\* Re-running an ingestion completes the graph (pipeline.py:11-12 and 124-130):
\* once it is answered 201, every dependency whose node was there when it
\* arrived is linked, wherever in the list the missing ones stand.
RerunLinks ==
    answer.code = 201 =>
        \A d \in answer.linkable : <<answer.entity, d>> \in edges

-----------------------------------------------------------------------------
(***************************************************************************)
(* Statements of the repository that the pipeline does not keep.           *)
(***************************************************************************)

\* "Ingestion failed before any data was persisted." (routes.py:111), the text
\* of every 500: none is sent once upsert_entity has written its row.
FailedMeansNothingPersisted == answer.code = 500 => answer.at = "upsertEntity"

\* "If a dependency's target hasn't been ingested yet, we skip it and log"
\* (pipeline.py:112-113): a dependency is linked or logged, never dropped.
LinkedOrLogged == answer.code = 201 => answer.unlinked = {}

\* "Safe to call on every discovery scan without creating duplicates"
\* (graph/repository.py:31-32).
NodesAreUnique == \A e \in Entities : nodes[e] <= 1
=============================================================================
