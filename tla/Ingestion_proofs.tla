-------------------------- MODULE Ingestion_proofs ---------------------------
(***************************************************************************)
(* Proofs about Ingestion for any entities, requests and bounds and for    *)
(* any finite number of request threads.                                   *)
(*                                                                         *)
(* The argument: nothing that is written is ever taken away (Kept), except *)
(* is_latest flags, so that what a request has written or found is still   *)
(* there when it goes on and when it answers.  The flags are counted by    *)
(* the threads that set them (Flaggers).                                   *)
(***************************************************************************)
EXTENDS Ingestion, FiniteSetTheorems, SequenceTheorems, TLAPS

LEMMA JobFields ==
    ASSUME NEW j \in Job
    PROVE  /\ j # Idle
           /\ j.at \in PostgresPlaces \cup GraphPlaces /\ j.entity \in Entities
           /\ j.left \in Seq(Entities) /\ j.schema \in Nat /\ j.seen \subseteq Nat
           /\ j.linkable \subseteq Entities /\ j.unlinked \subseteq Entities
  BY DEF Job, Idle, PostgresPlaces, GraphPlaces

\* Working through a list loses its head only.
LEMMA TailFacts ==
    ASSUME NEW S, NEW s \in Seq(S), s # <<>>
    PROVE  /\ Head(s) \in S /\ Tail(s) \in Seq(S)
           /\ \A x \in ToSet(s) : x = Head(s) \/ x \in ToSet(Tail(s))
<1>1. /\ Len(s) \in Nat /\ DOMAIN s = 1..Len(s) /\ Head(s) = s[1] /\ Head(s) \in S
      /\ Tail(s) \in Seq(S) /\ Len(Tail(s)) = Len(s) - 1
      /\ \A i \in 1..Len(Tail(s)) : Tail(s)[i] = s[i + 1]
  BY HeadTailProperties, LenProperties
<1>2. DOMAIN Tail(s) = 1..(Len(s) - 1)
  BY <1>1, LenProperties
<1>3. ASSUME NEW i \in DOMAIN s, i # 1
      PROVE  s[i] \in ToSet(Tail(s))
  <2>1. i - 1 \in DOMAIN Tail(s) /\ Tail(s)[i - 1] = s[i]
    BY <1>1, <1>2, <1>3
  <2>. QED
    BY <2>1 DEF ToSet
<1>. QED
  BY <1>1, <1>3 DEF ToSet

-----------------------------------------------------------------------------
(***************************************************************************)
(* What a request relies on.                                               *)
(***************************************************************************)
StoredAs(n, e) == n \in DOMAIN rows /\ rows[n] = e

Grounded(j) ==
    /\ j.at # "upsertEntity" => j.entity \in entities
    /\ j.at = "link" => j.left # <<>>
    /\ \A n \in j.seen : StoredAs(n, j.entity)
    /\ j.at \in GraphPlaces => StoredAs(j.schema, j.entity) /\ pointer[j.entity] # 0
    /\ j.at \in {"resolve", "link"} => nodes[j.entity] > 0
    /\ \A d \in j.linkable :
         /\ d \in entities /\ nodes[d] > 0
         /\ d \in ToSet(j.left) \/ <<j.entity, d>> \in edges

JobInv == \A h \in Handlers : job[h] # Idle => Grounded(job[h])

AnswerInv ==
    /\ answer.code \in {201, 207} => answer.entity \in Entities
    /\ AnswerIsTrue
    /\ RerunLinks

CoreInv == TypeOK /\ JobInv /\ GraphIsBacked /\ AnswerInv

\* What no step takes away.
Kept ==
    /\ entities \subseteq entities'
    /\ \A n, e : StoredAs(n, e) => StoredAs(n, e)'
    /\ \A e \in Entities : pointer[e] # 0 => pointer'[e] # 0
    /\ \A e \in Entities : nodes[e] > 0 => nodes'[e] > 0
    /\ edges \subseteq edges'

LEMMA GroundedStays ==
    ASSUME Kept, NEW j \in Job, Grounded(j)
    PROVE  Grounded(j)'
  BY JobFields DEF Kept, Grounded

LEMMA AnswerStays ==
    ASSUME Kept, AnswerInv, answer' = answer
    PROVE  AnswerInv'
  BY DEF Kept, AnswerInv, AnswerIsTrue, RerunLinks, StoredAs

\* A request goes on to next; the others stay where they are.
LEMMA JobMoves ==
    ASSUME TypeOK, JobInv, Kept, NEW h \in Handlers, NEW next,
           job' = [job EXCEPT ![h] = next],
           next = Idle \/ (next \in Job /\ Grounded(next)')
    PROVE  JobInv' /\ job' \in [Handlers -> {Idle} \cup Job]
<1>1. job'[h] = next /\ \A i \in Handlers \ {h} : job'[i] = job[i]
  BY DEF TypeOK
<1>2. ASSUME NEW i \in Handlers, job'[i] # Idle
      PROVE  Grounded(job[i])'
  <2>1. CASE i = h
    BY <1>1, <1>2, <2>1 DEF Grounded, StoredAs
  <2>2. CASE i # h
    <3>1. PICK j \in Job : j = job[i] /\ Grounded(j)
      BY <1>1, <1>2, <2>2 DEF TypeOK, JobInv
    <3>2. Grounded(j)'
      BY <3>1, GroundedStays
    <3>. QED
      BY <1>1, <2>2, <3>1, <3>2 DEF Grounded, StoredAs
  <2>. QED
    BY <2>1, <2>2
<1>. QED
  BY <1>2 DEF JobInv, TypeOK

-----------------------------------------------------------------------------
(***************************************************************************)
(* The invariant is inductive: one lemma for each kind of step.            *)
(***************************************************************************)
TablesOK ==
    /\ entities \subseteq Entities
    /\ rows \in Seq(entities)
    /\ latest \subseteq DOMAIN rows
    /\ pointer \in [Entities -> {0} \cup DOMAIN rows]
    /\ nodes \in [Entities -> Nat]
    /\ edges \subseteq Entities \X Entities
    /\ arrived \in 0..MaxRequests
    /\ faults \in 0..MaxFaults

\* What a step has to show once it is known where its request goes.
LEMMA MovesOn ==
    ASSUME CoreInv, NEW h \in Handlers, NEW next,
           job' = [job EXCEPT ![h] = next],
           next = Idle \/ (next \in Job /\ Grounded(next)'),
           Kept, TablesOK', GraphIsBacked', AnswerInv'
    PROVE  CoreInv'
<1>1. JobInv' /\ job' \in [Handlers -> {Idle} \cup Job]
  BY JobMoves DEF CoreInv
<1>. QED
  BY <1>1 DEF CoreInv, TypeOK, TablesOK

LEMMA SameTables ==
    ASSUME CoreInv, UNCHANGED <<postgres, graph>>
    PROVE  Kept /\ GraphIsBacked'
  BY DEF CoreInv, Kept, GraphIsBacked, StoredAs, postgres, graph

LEMMA ArriveKeeps ==
    ASSUME CoreInv, NEW h \in Handlers, NEW r \in Requests, Arrive(h, r)
    PROVE  CoreInv'
<1>1. r.entity \in Entities /\ r.dependencies \in Seq(Entities)
  BY IngestionAssumption
<1>2. PICK there \in SUBSET Entities :
        there = {d \in ToSet(r.dependencies) : d \in entities /\ nodes[d] > 0}
  BY DEF CoreInv, TypeOK
<1>. DEFINE next ==
       [at |-> "upsertEntity", entity |-> r.entity, left |-> r.dependencies,
        schema |-> 0, seen |-> {}, linkable |-> there, unlinked |-> {}]
<1>3. next \in Job /\ Grounded(next)'
  <2>1. next \in Job
    BY <1>1 DEF Job, PostgresPlaces
  <2>2. Grounded(next)'
    BY <1>2 DEF Arrive, Grounded, GraphPlaces, postgres, graph
  <2>. QED
    BY <2>1, <2>2
<1>4. Kept /\ GraphIsBacked'
  BY SameTables DEF Arrive
<1>5. TablesOK'
  BY IngestionAssumption DEF CoreInv, TypeOK, TablesOK, Arrive, postgres, graph
<1>6. AnswerInv'
  BY <1>4, AnswerStays DEF CoreInv, Arrive
<1>7. job' = [job EXCEPT ![h] = next]
  BY <1>2 DEF Arrive
<1>. HIDE DEF next
<1>. QED
  BY <1>3, <1>4, <1>5, <1>6, <1>7, MovesOn

\* The request that a handler has, and what it relies on.
LEMMA AtWork ==
    ASSUME CoreInv, NEW h \in Handlers, job[h] # Idle
    PROVE  job[h] \in Job /\ Grounded(job[h])
  BY DEF CoreInv, TypeOK, JobInv

LEMMA UpsertKeeps ==
    ASSUME CoreInv, NEW h \in Handlers, UpsertEntity(h)
    PROVE  CoreInv'
<1>1. PICK j \in Job : j = job[h] /\ Grounded(j) /\ j.at = "upsertEntity"
  BY AtWork DEF UpsertEntity, Idle
<1>. DEFINE next == [j EXCEPT !.at = "demote"]
<1>2. Kept
  BY DEF Kept, UpsertEntity, StoredAs, graph
<1>3. next \in Job
  BY DEF Job, PostgresPlaces
<1>4. Grounded(next)'
  <2>1. Grounded(j)' /\ j.entity \in entities'
    BY <1>1, <1>2, GroundedStays DEF UpsertEntity
  <2>. QED
    BY <1>3, <2>1 DEF Grounded, GraphPlaces, Job
<1>5. GraphIsBacked'
  BY DEF CoreInv, GraphIsBacked, UpsertEntity, graph
<1>6. TablesOK'
  <2>1. rows' \in Seq(entities')
    BY LenProperties, ElementOfSeq, SeqDef DEF CoreInv, TypeOK, UpsertEntity
  <2>. QED
    BY <1>1, <2>1, JobFields DEF CoreInv, TypeOK, TablesOK, UpsertEntity, graph
<1>7. AnswerInv'
  BY <1>2, AnswerStays DEF CoreInv, UpsertEntity
<1>8. job' = [job EXCEPT ![h] = next]
  BY <1>1 DEF UpsertEntity, Go, CoreInv, TypeOK
<1>. HIDE DEF next
<1>. QED
  BY <1>2, <1>3, <1>4, <1>5, <1>6, <1>7, <1>8, MovesOn

LEMMA DemoteKeeps ==
    ASSUME CoreInv, NEW h \in Handlers, DemoteSchemas(h)
    PROVE  CoreInv'
<1>1. PICK j \in Job : j = job[h] /\ Grounded(j) /\ j.at = "demote"
  BY AtWork DEF DemoteSchemas, Idle
<1>2. PICK seen \in SUBSET Nat : seen = LatestOf(j.entity)
  <2>1. LatestOf(j.entity) \subseteq 1..Len(rows) /\ Len(rows) \in Nat
    BY LenProperties DEF LatestOf, CoreInv, TypeOK
  <2>. QED
    BY <2>1
<1>. DEFINE next == [j EXCEPT !.at = "insertSchema", !.seen = seen]
<1>3. Kept /\ GraphIsBacked'
  BY SameTables DEF DemoteSchemas
<1>4. next \in Job
  BY DEF Job, PostgresPlaces
<1>5. Grounded(next)'
  <2>1. Grounded(j)'
    BY <1>1, <1>3, GroundedStays
  <2>2. \A n \in seen : StoredAs(n, j.entity)'
    BY <1>2 DEF LatestOf, StoredAs, CoreInv, TypeOK, DemoteSchemas, postgres
  <2>. QED
    BY <1>1, <1>4, <2>1, <2>2 DEF Grounded, GraphPlaces, Job
<1>6. TablesOK'
  BY DEF CoreInv, TypeOK, TablesOK, DemoteSchemas, postgres, graph
<1>7. AnswerInv'
  BY <1>3, AnswerStays DEF CoreInv, DemoteSchemas
<1>8. job' = [job EXCEPT ![h] = next]
  BY <1>1, <1>2 DEF DemoteSchemas, CoreInv, TypeOK
<1>. HIDE DEF next
<1>. QED
  BY <1>3, <1>4, <1>5, <1>6, <1>7, <1>8, MovesOn

LEMMA InsertKeeps ==
    ASSUME CoreInv, NEW h \in Handlers, InsertSchema(h)
    PROVE  CoreInv'
<1>1. PICK j \in Job : j = job[h] /\ Grounded(j) /\ j.at = "insertSchema"
  BY AtWork DEF InsertSchema, Idle
<1>2. PICK n \in Nat : n = Len(rows) + 1
  BY LenProperties DEF CoreInv, TypeOK
<1>. DEFINE next == [j EXCEPT !.at = "matchNode", !.schema = n, !.seen = {}]
<1>3. j.entity \in entities /\ j.entity \in Entities
  BY <1>1, JobFields DEF Grounded
<1>4. /\ rows' \in Seq(entities) /\ DOMAIN rows = 1..Len(rows) /\ DOMAIN rows' = 1..n
      /\ \A m \in DOMAIN rows : rows'[m] = rows[m]
      /\ rows'[n] = j.entity /\ Len(rows) \in Nat
  BY <1>1, <1>2, <1>3, AppendProperties, LenProperties DEF InsertSchema, CoreInv, TypeOK
<1>5. /\ pointer' = [pointer EXCEPT ![j.entity] = n]
      /\ latest' = (latest \ j.seen) \cup {n}
      /\ UNCHANGED <<entities, nodes, edges, arrived, faults, answer>>
  BY <1>1, <1>2 DEF InsertSchema, graph
<1>6. Kept
  BY <1>2, <1>3, <1>4, <1>5 DEF Kept, StoredAs, CoreInv, TypeOK
<1>7. next \in Job
  BY DEF Job, GraphPlaces
<1>8. Grounded(next)'
  <2>1. Grounded(j)'
    BY <1>1, <1>6, GroundedStays
  <2>2. StoredAs(n, j.entity)'
    BY <1>2, <1>4 DEF StoredAs
  <2>3. pointer'[j.entity] # 0
    BY <1>2, <1>3, <1>5, <1>4 DEF CoreInv, TypeOK
  <2>. QED
    BY <1>1, <1>7, <2>1, <2>2, <2>3 DEF Grounded, GraphPlaces, Job
<1>9. GraphIsBacked'
  BY <1>2, <1>4, <1>5 DEF CoreInv, TypeOK, GraphIsBacked
<1>10. TablesOK'
  <2>1. latest' \subseteq DOMAIN rows'
    BY <1>2, <1>4, <1>5 DEF CoreInv, TypeOK
  <2>2. pointer' \in [Entities -> {0} \cup DOMAIN rows']
    BY <1>2, <1>3, <1>4, <1>5 DEF CoreInv, TypeOK
  <2>. QED
    BY <1>4, <1>5, <2>1, <2>2 DEF CoreInv, TypeOK, TablesOK
<1>11. AnswerInv'
  BY <1>5, <1>6, AnswerStays DEF CoreInv
<1>12. job' = [job EXCEPT ![h] = next]
  BY <1>1, <1>2 DEF InsertSchema, CoreInv, TypeOK
<1>. HIDE DEF next
<1>. QED
  BY <1>6, <1>7, <1>8, <1>9, <1>10, <1>11, <1>12, MovesOn

\* The projection's places: what MERGE finds, and what it creates.
LEMMA MatchKeeps ==
    ASSUME CoreInv, NEW h \in Handlers, MatchNode(h)
    PROVE  CoreInv'
<1>1. PICK j \in Job : j = job[h] /\ Grounded(j) /\ j.at = "matchNode"
  BY AtWork DEF MatchNode, Idle
<1>2. PICK place \in {"resolve", "createNode"} :
        /\ place = IF nodes[j.entity] > 0 THEN "resolve" ELSE "createNode"
        /\ place = "resolve" => nodes[j.entity] > 0
  OBVIOUS
<1>. DEFINE next == [j EXCEPT !.at = place]
<1>3. Kept /\ GraphIsBacked'
  BY SameTables DEF MatchNode
<1>4. next \in Job
  BY DEF Job, GraphPlaces
<1>5. Grounded(next)'
  <2>1. Grounded(j)'
    BY <1>1, <1>3, GroundedStays
  <2>. QED
    BY <1>1, <1>2, <1>4, <2>1 DEF Grounded, GraphPlaces, Job, MatchNode, graph
<1>6. TablesOK'
  BY DEF CoreInv, TypeOK, TablesOK, MatchNode, postgres, graph
<1>7. AnswerInv'
  BY <1>3, AnswerStays DEF CoreInv, MatchNode
<1>8. job' = [job EXCEPT ![h] = next]
  BY <1>1, <1>2 DEF MatchNode, Go, CoreInv, TypeOK
<1>. HIDE DEF next
<1>. QED
  BY <1>3, <1>4, <1>5, <1>6, <1>7, <1>8, MovesOn

LEMMA CreateKeeps ==
    ASSUME CoreInv, NEW h \in Handlers, CreateNode(h)
    PROVE  CoreInv'
<1>1. PICK j \in Job : j = job[h] /\ Grounded(j) /\ j.at = "createNode"
  BY AtWork DEF CreateNode, Idle
<1>. DEFINE next == [j EXCEPT !.at = "resolve"]
<1>2. /\ j.entity \in Entities /\ pointer[j.entity] # 0
      /\ nodes' = [nodes EXCEPT ![j.entity] = @ + 1]
      /\ nodes'[j.entity] > 0
      /\ UNCHANGED <<postgres, edges, arrived, faults, answer>>
  BY <1>1, JobFields DEF Grounded, GraphPlaces, CreateNode, CoreInv, TypeOK
<1>3. Kept
  BY <1>2 DEF Kept, StoredAs, postgres, CoreInv, TypeOK
<1>4. next \in Job
  BY DEF Job, GraphPlaces
<1>5. Grounded(next)'
  <2>1. Grounded(j)'
    BY <1>1, <1>3, GroundedStays
  <2>. QED
    BY <1>1, <1>2, <1>4, <2>1 DEF Grounded, GraphPlaces, Job
<1>6. GraphIsBacked'
  BY <1>2 DEF CoreInv, TypeOK, GraphIsBacked, postgres
<1>7. TablesOK'
  BY <1>2 DEF CoreInv, TypeOK, TablesOK, postgres
<1>8. AnswerInv'
  BY <1>2, <1>3, AnswerStays DEF CoreInv
<1>9. job' = [job EXCEPT ![h] = next]
  BY <1>1 DEF CreateNode, Go, CoreInv, TypeOK
<1>. HIDE DEF next
<1>. QED
  BY <1>3, <1>4, <1>5, <1>6, <1>7, <1>8, <1>9, MovesOn

\* A dependency that is not found was not linkable.
LEMMA ResolveKeeps ==
    ASSUME CoreInv, NEW h \in Handlers, ResolveDependency(h)
    PROVE  CoreInv'
<1>1. PICK j \in Job : j = job[h] /\ Grounded(j) /\ j.at = "resolve" /\ j.left # <<>>
  BY AtWork DEF ResolveDependency, Idle
<1>2. /\ Head(j.left) \in Entities /\ Tail(j.left) \in Seq(Entities)
      /\ \A x \in ToSet(j.left) : x = Head(j.left) \/ x \in ToSet(Tail(j.left))
  BY <1>1, JobFields, TailFacts
<1>3. PICK next \in Job :
        /\ job' = [job EXCEPT ![h] = next]
        /\ \/ next = [j EXCEPT !.at = "link"]
           \/ Head(j.left) \notin entities /\ next = [j EXCEPT !.left = Tail(j.left)]
  <2>1. CASE Head(j.left) \in entities
    <3>1. [j EXCEPT !.at = "link"] \in Job
      BY DEF Job, GraphPlaces
    <3>. QED
      BY <1>1, <2>1, <3>1 DEF ResolveDependency, CoreInv, TypeOK
  <2>2. CASE Head(j.left) \notin entities
    <3>1. [j EXCEPT !.left = Tail(j.left)] \in Job
      BY <1>2 DEF Job
    <3>. QED
      BY <1>1, <2>2, <3>1 DEF ResolveDependency, CoreInv, TypeOK
  <2>. QED
    BY <2>1, <2>2
<1>4. Kept /\ GraphIsBacked'
  BY SameTables DEF ResolveDependency
<1>5. Grounded(next)'
  <2>1. Grounded(j)' /\ Grounded(j)
    BY <1>1, <1>4, GroundedStays
  <2>2. CASE next = [j EXCEPT !.at = "link"]
    BY <1>1, <2>1, <2>2 DEF Grounded, GraphPlaces, Job
  <2>3. CASE Head(j.left) \notin entities /\ next = [j EXCEPT !.left = Tail(j.left)]
    <3>1. \A d \in j.linkable : d # Head(j.left)
      BY <2>1, <2>3 DEF Grounded
    <3>2. /\ next.at = j.at /\ next.entity = j.entity /\ next.seen = j.seen
          /\ next.schema = j.schema /\ next.linkable = j.linkable
          /\ next.left = Tail(j.left)
      BY <2>3 DEF Job
    <3>. QED
      BY <1>1, <1>2, <2>1, <3>1, <3>2 DEF Grounded
  <2>. QED
    BY <1>3, <2>2, <2>3
<1>6. TablesOK'
  BY DEF CoreInv, TypeOK, TablesOK, ResolveDependency, postgres, graph
<1>7. AnswerInv'
  BY <1>4, AnswerStays DEF CoreInv, ResolveDependency
<1>. QED
  BY <1>3, <1>4, <1>5, <1>6, <1>7, MovesOn

\* A dependency that was linkable has its node, as the request's own entity
\* has, and is linked.
LEMMA LinkKeeps ==
    ASSUME CoreInv, NEW h \in Handlers, LinkDependsOn(h)
    PROVE  CoreInv'
<1>1. PICK j \in Job : j = job[h] /\ Grounded(j) /\ j.at = "link" /\ j.left # <<>>
  BY AtWork DEF LinkDependsOn, Idle, Grounded
<1>2. /\ Head(j.left) \in Entities /\ Tail(j.left) \in Seq(Entities) /\ j.entity \in Entities
      /\ \A x \in ToSet(j.left) : x = Head(j.left) \/ x \in ToSet(Tail(j.left))
  BY <1>1, JobFields, TailFacts
<1>3. PICK found \in BOOLEAN :
        found = (nodes[j.entity] > 0 /\ nodes[Head(j.left)] > 0)
  OBVIOUS
<1>4. PICK unlinked \in SUBSET Entities :
        unlinked = j.unlinked \cup (IF found THEN {} ELSE {Head(j.left)})
  BY <1>2, JobFields
<1>. DEFINE next == [j EXCEPT !.at = "resolve", !.left = Tail(j.left), !.unlinked = unlinked]
<1>5. /\ edges' = edges \cup (IF found THEN {<<j.entity, Head(j.left)>>} ELSE {})
      /\ job' = [job EXCEPT ![h] = next]
      /\ UNCHANGED <<postgres, nodes, arrived, faults, answer>>
  BY <1>1, <1>3, <1>4 DEF LinkDependsOn, CoreInv, TypeOK
<1>6. Kept
  BY <1>5 DEF Kept, StoredAs, postgres
<1>7. next \in Job
  BY <1>2 DEF Job, GraphPlaces
<1>8. Grounded(next)'
  <2>1. Grounded(j) /\ Grounded(j)'
    BY <1>1, <1>6, GroundedStays
  <2>2. \A d \in j.linkable : d = Head(j.left) => <<j.entity, d>> \in edges'
    BY <1>1, <1>3, <1>5, <2>1 DEF Grounded
  <2>3. /\ next.at = "resolve" /\ next.entity = j.entity /\ next.seen = j.seen
        /\ next.schema = j.schema /\ next.linkable = j.linkable
        /\ next.left = Tail(j.left)
    BY DEF Job
  <2>. HIDE DEF next
  <2>. QED
    BY <1>1, <1>2, <2>1, <2>2, <2>3 DEF Grounded, GraphPlaces
<1>9. GraphIsBacked'
  <2>1. /\ \A edge \in edges : nodes[edge[1]] > 0 /\ nodes[edge[2]] > 0
        /\ \A e \in Entities : nodes[e] > 0 => pointer[e] # 0
    BY DEF CoreInv, GraphIsBacked
  <2>2. nodes' = nodes /\ pointer' = pointer
    BY <1>5 DEF postgres
  <2>3. edges' = edges \cup (IF found THEN {<<j.entity, Head(j.left)>>} ELSE {})
    BY <1>5
  <2>4. CASE found = FALSE
    BY <2>1, <2>2, <2>3, <2>4 DEF GraphIsBacked
  <2>5. CASE found = TRUE
    <3>1. edges' = edges \cup {<<j.entity, Head(j.left)>>}
      BY <2>3, <2>5
    <3>2. nodes[j.entity] > 0 /\ nodes[Head(j.left)] > 0
      BY <1>3, <2>5
    <3>. QED
      BY <2>1, <2>2, <3>1, <3>2 DEF GraphIsBacked
  <2>. QED
    BY <2>4, <2>5
<1>10. TablesOK'
  BY <1>2, <1>5 DEF CoreInv, TypeOK, TablesOK, postgres
<1>11. AnswerInv'
  BY <1>5, <1>6, AnswerStays DEF CoreInv
<1>. HIDE DEF next
<1>. QED
  BY <1>5, <1>6, <1>7, <1>8, <1>9, <1>10, <1>11, MovesOn

\* What a response says is what its request relied on.
LEMMA AnswerFromJob ==
    ASSUME CoreInv, NEW h \in Handlers, job[h] # Idle, NEW code, Respond(h, code),
           code \in {201, 207} => job[h].at \in GraphPlaces,
           code = 201 => job[h].at = "resolve" /\ job[h].left = <<>>,
           UNCHANGED <<postgres, graph>>
    PROVE  AnswerInv'
<1>1. PICK j \in Job : j = job[h] /\ Grounded(j)
  BY AtWork
<1>2. /\ answer'.code = code /\ answer'.entity = j.entity
      /\ answer'.schema = j.schema /\ answer'.linkable = j.linkable
  BY <1>1 DEF Respond
<1>3. ToSet(<<>>) = {}
  BY DEF ToSet
<1>4. AnswerIsTrue'
  BY <1>1, <1>2 DEF AnswerIsTrue, Grounded, StoredAs, postgres, graph
<1>5. RerunLinks'
  BY <1>1, <1>2, <1>3 DEF RerunLinks, Grounded, graph
<1>. QED
  BY <1>1, <1>2, <1>4, <1>5, JobFields DEF AnswerInv

LEMMA EndKeeps ==
    ASSUME CoreInv, NEW h \in Handlers, Ingested(h) \/ Raise(h) \/ Die(h)
    PROVE  CoreInv'
<1>1. job[h] # Idle
  BY DEF Ingested, Raise, Die, Idle
<1>2. Kept /\ GraphIsBacked'
  BY SameTables DEF Ingested, Raise, Die
<1>3. job' = [job EXCEPT ![h] = Idle]
  BY DEF Ingested, Raise, Die, Respond
<1>4. TablesOK'
  BY IngestionAssumption
     DEF CoreInv, TypeOK, TablesOK, Ingested, Raise, Die, postgres, graph
<1>5. AnswerInv'
  <2>1. CASE Ingested(h)
    BY <1>1, <2>1, AnswerFromJob DEF Ingested, GraphPlaces
  <2>2. CASE Raise(h)
    <3>1. PICK code \in {500, 207} :
            Respond(h, code) /\ (code = 207 => job[h].at \notin PostgresPlaces)
      BY <2>2 DEF Raise
    <3>2. job[h].at \in PostgresPlaces \cup GraphPlaces
      BY <1>1, AtWork, JobFields
    <3>. QED
      BY <1>1, <2>2, <3>1, <3>2, AnswerFromJob DEF Raise
  <2>3. CASE Die(h)
    BY <1>2, <2>3, AnswerStays DEF CoreInv, Die
  <2>. QED
    BY <2>1, <2>2, <2>3
<1>. QED
  BY <1>2, <1>3, <1>4, <1>5, MovesOn

LEMMA CoreInvariant == Spec => []CoreInv
<1>1. Init => CoreInv
  <2>. SUFFICES ASSUME Init PROVE CoreInv
    OBVIOUS
  <2>1. TypeOK
    BY IngestionAssumption, EmptySeq DEF Init, TypeOK
  <2>2. JobInv
    BY DEF Init, JobInv
  <2>3. GraphIsBacked
    BY DEF Init, GraphIsBacked
  <2>4. AnswerInv
    BY DEF Init, AnswerInv, AnswerIsTrue, RerunLinks
  <2>. QED
    BY <2>1, <2>2, <2>3, <2>4 DEF CoreInv
<1>2. CoreInv /\ [Next]_vars => CoreInv'
  <2>. SUFFICES ASSUME CoreInv, [Next]_vars PROVE CoreInv'
    OBVIOUS
  <2>1. CASE UNCHANGED vars
    <3>1. UNCHANGED <<entities, rows, latest, pointer, nodes, edges, job, arrived, faults, answer>>
      BY <2>1 DEF vars, postgres, graph
    <3>. QED
      BY <3>1 DEF CoreInv, TypeOK, JobInv, Grounded, StoredAs, GraphIsBacked,
                  AnswerInv, AnswerIsTrue, RerunLinks
  <2>2. CASE Next
    <3>1. PICK h \in Handlers :
            \/ \E r \in Requests : Arrive(h, r)
            \/ UpsertEntity(h) \/ DemoteSchemas(h) \/ InsertSchema(h)
            \/ MatchNode(h) \/ CreateNode(h)
            \/ ResolveDependency(h) \/ LinkDependsOn(h)
            \/ Ingested(h) \/ Raise(h) \/ Die(h)
      BY <2>2 DEF Next
    <3>. QED
      BY <3>1, ArriveKeeps, UpsertKeeps, DemoteKeeps, InsertKeeps, MatchKeeps,
         CreateKeeps, ResolveKeeps, LinkKeeps, EndKeeps
  <2>. QED
    BY <2>1, <2>2
<1>. QED
  BY <1>1, <1>2, PTL DEF Spec

\* The graph never has what Postgres lacks: a node has a stored schema behind
\* it and an edge two nodes, whatever failed or fell in between (pipeline.py:7).
THEOREM GraphStaysBacked == Spec => []GraphIsBacked
<1>1. CoreInv => GraphIsBacked
  BY DEF CoreInv
<1>. QED
  BY <1>1, CoreInvariant, PTL

\* Every variable keeps its table's shape and no foreign key dangles.
THEOREM IngestionTypeCorrect == Spec => []TypeOK
<1>1. CoreInv => TypeOK
  BY DEF CoreInv
<1>. QED
  BY <1>1, CoreInvariant, PTL

\* What 201 and 207 promise of the finding is so (pipeline.py:26-32).
THEOREM AnswersAreTrue == Spec => []AnswerIsTrue
<1>1. CoreInv => AnswerIsTrue
  BY DEF CoreInv, AnswerInv
<1>. QED
  BY <1>1, CoreInvariant, PTL

\* Ingesting again links every dependency whose node is there (pipeline.py:11-12).
THEOREM RerunRepairs == Spec => []RerunLinks
<1>1. CoreInv => RerunLinks
  BY DEF CoreInv, AnswerInv
<1>. QED
  BY <1>1, CoreInvariant, PTL

-----------------------------------------------------------------------------
(***************************************************************************)
(* The is_latest flags.  Each flagged row of an entity was inserted by a   *)
(* thread, and no thread has two: one that inserts a row for the entity    *)
(* has seen the row it inserted before, and takes its flag away.           *)
(***************************************************************************)
FlaggedBy(f, e) ==
    \A n \in LatestOf(e) :
        job[f[n]].at = "insertSchema" /\ job[f[n]].entity = e => n \in job[f[n]].seen

\* What the entity's pointer and the flags have to do with each other.
Points(e) ==
    /\ pointer[e] = 0 => LatestOf(e) = {}
    /\ pointer[e] # 0 => pointer[e] \in LatestOf(e)

FlagInv ==
    \A e \in Entities :
        Points(e) /\ \E f \in Injection(LatestOf(e), Handlers) : FlaggedBy(f, e)

\* Steps that set no flag: a request that is to insert a row has not changed,
\* or has just seen every row that is flagged.
LEMMA FlagsStay ==
    ASSUME FlagInv, UNCHANGED <<rows, latest, pointer>>,
           \A i \in Handlers : job'[i].at = "insertSchema" =>
              job'[i] = job[i] \/ job'[i].seen = LatestOf(job'[i].entity)
    PROVE  FlagInv'
<1>. SUFFICES ASSUME NEW e \in Entities
              PROVE  /\ Points(e)'
                     /\ \E f \in Injection(LatestOf(e), Handlers)' : FlaggedBy(f, e)'
  BY DEF FlagInv
<1>1. LatestOf(e)' = LatestOf(e) /\ Points(e)'
  BY DEF LatestOf, Points, FlagInv
<1>2. PICK f \in Injection(LatestOf(e), Handlers) : FlaggedBy(f, e)
  BY DEF FlagInv
<1>3. \A n \in LatestOf(e) : f[n] \in Handlers
  BY DEF Injection
<1>4. FlaggedBy(f, e)'
  BY <1>1, <1>2, <1>3 DEF FlaggedBy
<1>. QED
  BY <1>1, <1>4

LEMMA InsertFlags ==
    ASSUME CoreInv, FlagInv, NEW h \in Handlers, InsertSchema(h)
    PROVE  FlagInv'
<1>1. PICK j \in Job : j = job[h] /\ Grounded(j) /\ j.at = "insertSchema"
  BY AtWork DEF InsertSchema, Idle
<1>2. PICK n \in Nat : n = Len(rows) + 1
  BY LenProperties DEF CoreInv, TypeOK
<1>3. j.entity \in entities /\ j.entity \in Entities
  BY <1>1, JobFields DEF Grounded
<1>4. /\ DOMAIN rows = 1..Len(rows) /\ Len(rows) \in Nat
      /\ \A m \in DOMAIN rows : rows'[m] = rows[m]
      /\ rows'[n] = j.entity
  BY <1>1, <1>2, <1>3, AppendProperties, LenProperties DEF InsertSchema, CoreInv, TypeOK
<1>5. /\ pointer' = [pointer EXCEPT ![j.entity] = n]
      /\ latest' = (latest \ j.seen) \cup {n}
      /\ job'[h].at = "matchNode"
      /\ \A i \in Handlers \ {h} : job'[i] = job[i]
  BY <1>1, <1>2 DEF InsertSchema, CoreInv, TypeOK
<1>6. n \notin latest /\ n # 0 /\ latest \subseteq DOMAIN rows
  BY <1>2, <1>4 DEF CoreInv, TypeOK
<1>7. \A m \in j.seen : rows[m] = j.entity
  BY <1>1 DEF Grounded, StoredAs
<1>. SUFFICES ASSUME NEW e \in Entities
              PROVE  /\ Points(e)'
                     /\ \E f \in Injection(LatestOf(e), Handlers)' : FlaggedBy(f, e)'
  BY DEF FlagInv
<1>8. PICK f \in Injection(LatestOf(e), Handlers) : FlaggedBy(f, e)
  BY DEF FlagInv
<1>9. /\ f \in [LatestOf(e) -> Handlers]
      /\ \A a, b \in LatestOf(e) : f[a] = f[b] => a = b
  BY <1>8 DEF Injection, IsInjective
<1>10. CASE e # j.entity
  <2>1. LatestOf(e)' = LatestOf(e)
    BY <1>4, <1>5, <1>6, <1>7, <1>10 DEF LatestOf
  <2>2. pointer'[e] = pointer[e]
    BY <1>5, <1>10 DEF CoreInv, TypeOK
  <2>3. Points(e)'
    BY <2>1, <2>2 DEF FlagInv, Points
  <2>4. FlaggedBy(f, e)'
    BY <1>5, <1>8, <1>9, <2>1 DEF FlaggedBy
  <2>. QED
    BY <1>8, <2>1, <2>3, <2>4
<1>11. CASE e = j.entity
  <2>1. LatestOf(e)' = (LatestOf(e) \ j.seen) \cup {n}
    BY <1>4, <1>5, <1>6, <1>11 DEF LatestOf
  <2>2. n \notin LatestOf(e)
    BY <1>6 DEF LatestOf
  <2>3. Points(e)'
    <3>1. pointer'[e] = n
      BY <1>3, <1>5, <1>11 DEF CoreInv, TypeOK
    <3>. QED
      BY <1>6, <2>1, <3>1 DEF Points
  <2>4. \A m \in LatestOf(e) \ j.seen : f[m] # h
    BY <1>1, <1>8, <1>11 DEF FlaggedBy
  <2>5. PICK g \in [LatestOf(e)' -> Handlers] :
          g = [m \in LatestOf(e)' |-> IF m = n THEN h ELSE f[m]]
    BY <1>9, <2>1
  <2>6. g[n] = h /\ \A m \in LatestOf(e) \ j.seen : g[m] = f[m]
    BY <2>1, <2>2, <2>5
  <2>7. g \in Injection(LatestOf(e), Handlers)'
    BY <1>9, <2>1, <2>4, <2>5, <2>6 DEF Injection, IsInjective
  <2>8. FlaggedBy(g, e)'
    BY <1>5, <1>8, <1>9, <2>1, <2>4, <2>6 DEF FlaggedBy
  <2>. QED
    BY <2>3, <2>7, <2>8
<1>. QED
  BY <1>10, <1>11

\* No other step makes a request one that is to insert a row.
LEMMA OthersFlagNothing ==
    ASSUME CoreInv, FlagInv, NEW h \in Handlers,
           \/ \E r \in Requests : Arrive(h, r)
           \/ UpsertEntity(h) \/ MatchNode(h) \/ CreateNode(h)
           \/ ResolveDependency(h) \/ LinkDependsOn(h)
           \/ Ingested(h) \/ Raise(h) \/ Die(h)
    PROVE  FlagInv'
<1>1. UNCHANGED <<rows, latest, pointer>>
  BY DEF Arrive, UpsertEntity, MatchNode, CreateNode, ResolveDependency, LinkDependsOn,
         Ingested, Raise, Die, postgres
<1>2. job \in [Handlers -> {Idle} \cup Job]
  BY DEF CoreInv, TypeOK
<1>3. job'[h].at # "insertSchema" /\ \A i \in Handlers \ {h} : job'[i] = job[i]
  <2>1. CASE \E r \in Requests : Arrive(h, r)
    BY <1>2, <2>1 DEF Arrive
  <2>2. CASE UpsertEntity(h) \/ MatchNode(h) \/ CreateNode(h)
    <3>1. PICK j \in Job : j = job[h]
      BY <2>2, AtWork DEF UpsertEntity, MatchNode, CreateNode, Idle
    <3>2. PICK place \in {"demote", "createNode", "resolve"} :
            job' = [job EXCEPT ![h].at = place]
      BY <2>2 DEF UpsertEntity, MatchNode, CreateNode, Go
    <3>. QED
      BY <1>2, <3>1, <3>2 DEF Job
  <2>3. CASE ResolveDependency(h)
    <3>1. PICK j \in Job : j = job[h] /\ j.at = "resolve"
      BY <2>3, AtWork DEF ResolveDependency, Idle
    <3>. QED
      BY <1>2, <2>3, <3>1 DEF ResolveDependency, Job
  <2>4. CASE LinkDependsOn(h)
    <3>1. PICK j \in Job : j = job[h] /\ j.at = "link"
      BY <2>4, AtWork DEF LinkDependsOn, Idle
    <3>. QED
      BY <1>2, <2>4, <3>1 DEF LinkDependsOn, Job
  <2>5. CASE Ingested(h) \/ Raise(h) \/ Die(h)
    BY <1>2, <2>5 DEF Ingested, Raise, Die, Respond, Idle
  <2>. QED
    BY <2>1, <2>2, <2>3, <2>4, <2>5
<1>. QED
  BY <1>1, <1>3, FlagsStay

LEMMA DemoteFlagsNothing ==
    ASSUME CoreInv, FlagInv, NEW h \in Handlers, DemoteSchemas(h)
    PROVE  FlagInv'
<1>1. PICK j \in Job : j = job[h]
  BY AtWork DEF DemoteSchemas, Idle
<1>2. /\ job'[h].seen = LatestOf(job'[h].entity)
      /\ \A i \in Handlers \ {h} : job'[i] = job[i]
  BY <1>1 DEF DemoteSchemas, CoreInv, TypeOK, Job
<1>3. UNCHANGED <<rows, latest, pointer>>
  BY DEF DemoteSchemas, postgres
<1>. QED
  BY <1>2, <1>3, FlagsStay

\* The entity points at a row that is flagged, and its flagged rows are never
\* more than the request threads (repository.py:143), so that they do not
\* build up however often the entity is ingested.
THEOREM LatestStaysBounded == Spec => []LatestIsBounded
<1>1. Init => FlagInv
  <2>. SUFFICES ASSUME Init, NEW e \in Entities
                PROVE  Points(e) /\ \E f \in Injection(LatestOf(e), Handlers) : FlaggedBy(f, e)
    BY DEF FlagInv
  <2>1. LatestOf(e) = {} /\ pointer[e] = 0
    BY DEF Init, LatestOf
  <2>2. PICK f \in [{} -> Handlers] : TRUE
    <3>1. [x \in {} |-> x] \in [{} -> Handlers]
      OBVIOUS
    <3>. QED
      BY <3>1
  <2>3. f \in Injection(LatestOf(e), Handlers) /\ FlaggedBy(f, e)
    BY <2>1, <2>2 DEF Injection, IsInjective, FlaggedBy
  <2>. QED
    BY <2>1, <2>3 DEF Points
<1>2. CoreInv /\ FlagInv /\ [Next]_vars => FlagInv'
  <2>. SUFFICES ASSUME CoreInv, FlagInv, [Next]_vars PROVE FlagInv'
    OBVIOUS
  <2>1. CASE UNCHANGED vars
    <3>1. UNCHANGED <<rows, latest, pointer, job>>
      BY <2>1 DEF vars, postgres
    <3>. QED
      BY <3>1, FlagsStay
  <2>2. CASE Next
    <3>1. PICK h \in Handlers :
            \/ \E r \in Requests : Arrive(h, r)
            \/ UpsertEntity(h) \/ DemoteSchemas(h) \/ InsertSchema(h)
            \/ MatchNode(h) \/ CreateNode(h)
            \/ ResolveDependency(h) \/ LinkDependsOn(h)
            \/ Ingested(h) \/ Raise(h) \/ Die(h)
      BY <2>2 DEF Next
    <3>. QED
      BY <3>1, InsertFlags, OthersFlagNothing, DemoteFlagsNothing
  <2>. QED
    BY <2>1, <2>2
<1>3. CoreInv /\ FlagInv => LatestIsBounded
  <2>. SUFFICES ASSUME CoreInv, FlagInv, NEW e \in Entities
                PROVE  Points(e) /\ Cardinality(LatestOf(e)) <= Cardinality(Handlers)
    BY DEF LatestIsBounded, Points
  <2>1. PICK f \in Injection(LatestOf(e), Handlers) : TRUE
    BY DEF FlagInv
  <2>. QED
    BY <2>1, FS_Injection, IngestionAssumption DEF FlagInv
<1>. QED
  BY <1>1, <1>2, <1>3, CoreInvariant, PTL DEF Spec
=============================================================================
