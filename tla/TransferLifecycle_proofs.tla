----------------------- MODULE TransferLifecycle_proofs ---------------------
(***************************************************************************)
(* Proofs about PolicyEngine and TransferLifecycle for any entities,       *)
(* identifiers, request threads, tables and bounds.                        *)
(***************************************************************************)
EXTENDS TransferLifecycle, SequenceTheorems, TLAPS

(***************************************************************************)
(* What the two pure functions return, for every destination and every     *)
(* pair of tables.                                                         *)
(***************************************************************************)
\* The engine always returns a result of DecisionResult (engine.py:40-104).
LEMMA DecideType ==
    ASSUME NEW lock \in ResidencyLock, NEW mandate \in BOOLEAN, NEW dest \in Destinations
    PROVE  decide_transfer(lock, mandate, dest) \in DecisionResult
  BY DEF decide_transfer, DecisionResult, Outcome, ReasonCode, PolicyReference

\* Gate 1 comes first and adequacy cannot override it (engine.py:49-55): a
\* locked asset, or any asset of a mandated company, is denied every
\* destination without a qualified provider and allowed every one with.
THEOREM ResidencyLockIsAHardGate ==
    ASSUME NEW lock, NEW mandate \in BOOLEAN, NEW dest,
           lock # "none" \/ mandate
    PROVE  decide_transfer(lock, mandate, dest).outcome =
              IF dest \in QualifiedPairs THEN "ALLOW" ELSE "DENY"
  BY DEF decide_transfer, requires_sovereign_hosting, is_qualified

\* Without a lock or a mandate the engine never denies on its own: a country
\* off the adequacy list is left to a human (engine.py:94-104).
THEOREM UnlockedIsNeverDenied ==
    ASSUME NEW dest
    PROVE  decide_transfer("none", FALSE, dest).outcome =
              IF dest \in AdequateNames THEN "ALLOW" ELSE "REVIEW"
  BY DEF decide_transfer, requires_sovereign_hosting, is_adequate

\* The resolution of any stored status and any authorization request.
LEMMA ResolveType ==
    ASSUME NEW stored \in TransferStatus, NEW auth \in AuthorizationView
    PROVE  resolve_transfer_status(stored, auth) \in StatusResolution
  BY DEF resolve_transfer_status, TransferStatus, AuthorizationView,
         StatusResolution, EffectiveStatus

\* Only a transfer stored as REVIEW_PENDING asks its caller to persist anything
\* (status_resolution.py:41-50): a poll of any other writes nothing.
LEMMA OnlyReviewsAreUpdated ==
    ASSUME NEW stored \in TransferStatus, NEW auth \in AuthorizationView,
           resolve_transfer_status(stored, auth).update
    PROVE  stored = "REVIEW_PENDING"
  BY DEF resolve_transfer_status, TransferStatus, AuthorizationView

\* The resolution is ALLOWED in two cases only: the stored status already is,
\* or the review that is waited for was approved.  Expiry, rejection and a
\* missing request are never read as consent (status_resolution.py:52-68).
LEMMA OnlyTheseMayDeploy ==
    ASSUME NEW stored \in TransferStatus, NEW auth \in AuthorizationView,
           resolve_transfer_status(stored, auth).effective = "ALLOWED"
    PROVE  \/ stored = "ALLOWED"
           \/ stored = "REVIEW_PENDING" /\ auth = "APPROVED"
  BY DEF resolve_transfer_status, TransferStatus, AuthorizationView

-----------------------------------------------------------------------------
(***************************************************************************)
(* The handlers.                                                           *)
(***************************************************************************)

\* A request's locals have the types its place in the handler says.
LEMMA JobFields ==
    ASSUME NEW j \in Job
    PROVE  /\ j.at = "readCompany" =>
                /\ j.entity \in Entities
                /\ j.dest \in Destinations
                /\ j.lock \in ResidencyLock
           /\ j.at = "readSchemaId" =>
                /\ j.entity \in Entities
                /\ j.dest \in Destinations
                /\ j.lock \in ResidencyLock
                /\ j.mandated \in BOOLEAN
           /\ j.at = "insertTransfer" =>
                /\ j.entity \in Entities
                /\ j.dest \in Destinations
                /\ j.schema \in Nat
                /\ j.result \in DecisionResult
           /\ j.at \in {"demote", "insertDecision"} => j.row \in Decision
           /\ j.at \in {"setStatus", "createReview", "cite", "reply"} =>
                /\ j.decision \in Nat
                /\ j = [at |-> j.at, decision |-> j.decision]
           /\ j.at \in {"pollDecision", "pollReview", "pollWrite", "deployDecision",
                        "deployReview", "deployInsert", "deployComplete"} =>
                j.transfer \in Transfers
           /\ j.at = "pollWrite" => j.target \in {"ALLOWED", "DENIED"}
           /\ j.at \in {"deployDecision", "deployReview"} => j.status \in TransferStatus
           /\ j.at \in {"pollReview", "deployReview", "deployInsert"} => j.decision \in Nat
  BY DEF Job

-----------------------------------------------------------------------------
(***************************************************************************)
(* Types and pointers.  TypeOK is not inductive on its own: SetStatus and  *)
(* Cite follow the index in their request, so the index must be one of an  *)
(* existing row, and of the right one.                                     *)
(***************************************************************************)
PointersOf(j) ==
    /\ j.at \in {"setStatus", "createReview", "cite", "reply"} =>
            j.decision \in EngineDecisions
    /\ j.at \in {"pollReview", "deployReview", "deployInsert"} =>
            /\ j.decision \in DOMAIN decisions
            /\ decisions[j.decision].transfer = j.transfer

JobPointers == \A h \in Handlers : PointersOf(job[h])

TypeInv == TypeOK /\ JobPointers

\* What appending a decision does to the two parallel sequences.
LEMMA InsertFacts ==
    ASSUME TypeOK, NEW h \in Handlers, InsertDecision(h)
    PROVE  /\ decisions' \in Seq(Decision)
           /\ review' \in Seq(AuthorizationView)
           /\ Len(decisions) \in Nat
           /\ Len(decisions') = Len(decisions) + 1
           /\ Len(review') = Len(decisions')
           /\ DOMAIN decisions = 1..Len(decisions)
           /\ DOMAIN decisions' = 1..(Len(decisions) + 1)
           /\ DOMAIN review = 1..Len(decisions)
           /\ DOMAIN review' = 1..(Len(decisions) + 1)
           /\ \A d \in 1..Len(decisions) :
                 decisions'[d] = decisions[d] /\ review'[d] = review[d]
           /\ decisions'[Len(decisions) + 1] = job[h].row
           /\ review'[Len(decisions) + 1] = "none"
<1>1. job[h].row \in Decision /\ "none" \in AuthorizationView
  BY JobFields DEF TypeOK, InsertDecision, AuthorizationView
<1>2. decisions' = Append(decisions, job[h].row) /\ review' = Append(review, "none")
  BY DEF InsertDecision
<1>3. decisions \in Seq(Decision) /\ review \in Seq(AuthorizationView)
  BY DEF TypeOK
<1>4. decisions' \in Seq(Decision) /\ review' \in Seq(AuthorizationView)
  BY <1>1, <1>2, <1>3, AppendProperties
<1>5. Len(review) = Len(decisions)
  BY DEF TypeOK
<1>. QED
  BY <1>1, <1>2, <1>3, <1>4, <1>5, AppendProperties, LenProperties

\* Writing one review leaves the others and the length as they are.
LEMMA ReviewFacts ==
    ASSUME TypeOK, NEW d \in DOMAIN decisions, NEW r \in AuthorizationView
    PROVE  /\ [review EXCEPT ![d] = r] \in Seq(AuthorizationView)
           /\ Len([review EXCEPT ![d] = r]) = Len(decisions)
           /\ DOMAIN [review EXCEPT ![d] = r] = DOMAIN decisions
           /\ \A i \in DOMAIN decisions :
                 [review EXCEPT ![d] = r][i] = IF i = d THEN r ELSE review[i]
  BY ExceptSeq, LenProperties DEF TypeOK

LEMMA InitTypeInv == Init => TypeInv
<1>. SUFFICES ASSUME Init PROVE TypeInv
  OBVIOUS
<1>1. TypeOK
  <2>1. decisions \in Seq(Decision) /\ review \in Seq(AuthorizationView)
        /\ Len(review) = Len(decisions)
    BY EmptySeq DEF Init
  <2>2. schemas \in [Entities -> Seq(ResidencyLock)]
    BY EmptySeq DEF Init
  <2>3. job \in [Handlers -> Job]
    BY DEF Init, Idle, Job
  <2>4. /\ mandated \in BOOLEAN
        /\ status \in [Transfers -> TransferStatus \cup {"absent"}]
    BY DEF Init
  <2>5. /\ current \subseteq DOMAIN decisions
        /\ cited \subseteq DOMAIN decisions
        /\ deployments \subseteq DOMAIN decisions
        /\ known \subseteq Transfers
    BY DEF Init
  <2>6. crashes \in 0..MaxCrashes
    BY LifecycleAssumption DEF Init
  <2>. QED
    BY <2>1, <2>2, <2>3, <2>4, <2>5, <2>6 DEF TypeOK
<1>2. JobPointers
  BY DEF Init, JobPointers, PointersOf, Idle
<1>. QED
  BY <1>1, <1>2 DEF TypeInv

\* A handler moves on and no decision row changes: only its own new locals
\* have to be looked at.
LEMMA MoveOn ==
    ASSUME TypeInv, NEW h \in Handlers, NEW next \in Job, Goto(h, next),
           PointersOf(next), UNCHANGED decisions
    PROVE  /\ job' \in [Handlers -> Job]
           /\ JobPointers'
           /\ job'[h] = next
           /\ \A i \in Handlers \ {h} : job'[i] = job[i]
<1>1. /\ job' \in [Handlers -> Job]
      /\ job'[h] = next
      /\ \A i \in Handlers \ {h} : job'[i] = job[i]
  BY DEF TypeInv, TypeOK, Goto
<1>2. ASSUME NEW i \in Handlers PROVE PointersOf(job[i])'
  <2>1. PointersOf(job'[i])
    BY <1>1 DEF TypeInv, JobPointers
  <2>. QED
    BY <2>1 DEF PointersOf, EngineDecisions
<1>. QED
  BY <1>1, <1>2 DEF JobPointers

LEMMA IdleIsJob == Idle \in Job /\ PointersOf(Idle)
  BY DEF Idle, Job, PointersOf

\* The handler of POST /transfer-request up to its first write.
LEMMA TypeReads ==
    ASSUME TypeInv, NEW h \in Handlers,
           \/ \E e \in Entities, dest \in Destinations : ReadClassification(h, e, dest)
           \/ ReadCompany(h) \/ ReadSchemaId(h)
           \/ \E t \in Transfers : InsertTransfer(h, t)
           \/ InsertTransferFails(h)
           \/ Demote(h)
    PROVE  TypeInv'
<1>. USE DEF TypeInv
<1>. job[h] \in Job
  BY DEF TypeOK
<1>1. ASSUME NEW e \in Entities, NEW dest \in Destinations, ReadClassification(h, e, dest)
      PROVE  TypeInv'
  <2>. DEFINE next == [at |-> "readCompany", entity |-> e, dest |-> dest,
                       lock |-> schemas[e][Len(schemas[e])]]
  <2>1. schemas[e] \in Seq(ResidencyLock) /\ schemas[e] # <<>>
    BY <1>1 DEF ReadClassification, TypeOK
  <2>2. schemas[e][Len(schemas[e])] \in ResidencyLock
    <3>1. Len(schemas[e]) \in 1..Len(schemas[e])
      BY <2>1, EmptySeq, LenProperties
    <3>. QED
      BY <2>1, <3>1, ElementOfSeq
  <2>3. next \in Job
    BY <2>2 DEF Job
  <2>4. PointersOf(next)
    BY DEF PointersOf
  <2>5. Goto(h, next) /\ UNCHANGED <<database, known, crashes>>
    BY <1>1 DEF ReadClassification
  <2>. HIDE DEF next
  <2>. QED
    BY <2>3, <2>4, <2>5, MoveOn DEF TypeOK, database
<1>2. CASE ReadCompany(h)
  <2>. DEFINE next == [at |-> "readSchemaId", entity |-> job[h].entity,
                       dest |-> job[h].dest, lock |-> job[h].lock, mandated |-> mandated]
  <2>1. next \in Job
    BY <1>2, JobFields DEF ReadCompany, TypeOK, Job
  <2>2. PointersOf(next)
    BY DEF PointersOf
  <2>3. Goto(h, next) /\ UNCHANGED <<database, known, crashes>>
    BY <1>2 DEF ReadCompany
  <2>. HIDE DEF next
  <2>. QED
    BY <2>1, <2>2, <2>3, MoveOn DEF TypeOK, database
<1>3. CASE ReadSchemaId(h)
  <2>. DEFINE res == decide_transfer(job[h].lock, job[h].mandated, job[h].dest)
              next == [at |-> "insertTransfer", entity |-> job[h].entity,
                       dest |-> job[h].dest, schema |-> Len(schemas[job[h].entity]),
                       result |-> res]
  <2>1. /\ job[h].entity \in Entities
        /\ job[h].dest \in Destinations
        /\ job[h].lock \in ResidencyLock
        /\ job[h].mandated \in BOOLEAN
    BY <1>3, JobFields DEF ReadSchemaId
  <2>2. res \in DecisionResult
    BY <2>1, DecideType
  <2>3. Len(schemas[job[h].entity]) \in Nat
    BY <2>1, LenProperties DEF TypeOK
  <2>4. Goto(h, next) /\ UNCHANGED <<database, known, crashes>>
    BY <1>3 DEF ReadSchemaId
  <2>. HIDE DEF res
  <2>5. next \in Job
    BY <2>1, <2>2, <2>3 DEF Job
  <2>6. PointersOf(next)
    BY DEF PointersOf
  <2>. HIDE DEF next
  <2>. QED
    BY <2>4, <2>5, <2>6, MoveOn DEF TypeOK, database
<1>4. ASSUME NEW t \in Transfers, InsertTransfer(h, t)
      PROVE  TypeInv'
  <2>. DEFINE row == [transfer |-> t, entity |-> job[h].entity,
                      dest |-> job[h].dest, schema |-> job[h].schema,
                      model |-> "rule_based_engine", result |-> job[h].result]
              next == [at |-> "demote", row |-> row]
  <2>1. row \in Decision
    BY <1>4, JobFields DEF InsertTransfer, Decision
  <2>2. Goto(h, next)
    BY <1>4 DEF InsertTransfer
  <2>3. status' \in [Transfers -> TransferStatus \cup {"absent"}]
    BY <1>4 DEF InsertTransfer, TypeOK, TransferStatus
  <2>. HIDE DEF row
  <2>4. next \in Job
    BY <2>1 DEF Job
  <2>5. PointersOf(next)
    BY DEF PointersOf
  <2>. HIDE DEF next
  <2>. QED
    BY <1>4, <2>2, <2>3, <2>4, <2>5, MoveOn DEF InsertTransfer, TypeOK
<1>5. CASE InsertTransferFails(h)
  BY <1>5, IdleIsJob, MoveOn DEF InsertTransferFails, TypeOK, database
<1>6. CASE Demote(h)
  <2>. DEFINE seen == {d \in current : decisions[d].entity = job[h].row.entity}
              next == [at |-> "insertDecision", row |-> job[h].row, seen |-> seen]
  <2>1. job[h].row \in Decision
    BY <1>6, JobFields DEF Demote
  <2>2. seen \subseteq Nat
    BY LenProperties DEF TypeOK
  <2>3. Goto(h, next) /\ UNCHANGED <<database, known, crashes>>
    BY <1>6 DEF Demote
  <2>. HIDE DEF seen
  <2>4. next \in Job
    BY <2>1, <2>2 DEF Job
  <2>5. PointersOf(next)
    BY DEF PointersOf
  <2>. HIDE DEF next
  <2>. QED
    BY <2>3, <2>4, <2>5, MoveOn DEF TypeOK, database
<1>. QED
  BY <1>1, <1>2, <1>3, <1>4, <1>5, <1>6

\* insert_policy_decision's second step: the new row, and the request that now
\* points at it.
LEMMA TypeInsertDecision ==
    ASSUME TypeInv, NEW h \in Handlers, InsertDecision(h)
    PROVE  TypeInv'
<1>. USE DEF TypeInv
<1>. DEFINE n == Len(decisions) + 1
            next == IF job[h].row.model = "rule_based_engine"
                    THEN [at |-> "setStatus", decision |-> n] ELSE Idle
<1>1. n \in Nat /\ n \in DOMAIN decisions' /\ DOMAIN decisions \subseteq DOMAIN decisions'
  BY InsertFacts
<1>2. next \in Job
  BY <1>1, IdleIsJob DEF Job
<1>3. Goto(h, next)
  BY DEF InsertDecision
<1>4. ASSUME NEW i \in Handlers PROVE PointersOf(job[i])'
  <2>1. CASE i = h /\ job[h].row.model = "rule_based_engine"
    <3>1. job'[i] = [at |-> "setStatus", decision |-> n]
      BY <1>3, <2>1 DEF Goto, TypeOK
    <3>2. decisions'[n].model = "rule_based_engine"
      BY <2>1, InsertFacts
    <3>. QED
      BY <1>1, <3>1, <3>2 DEF PointersOf, EngineDecisions
  <2>2. CASE i = h /\ job[h].row.model # "rule_based_engine"
    <3>1. job'[i] = Idle
      BY <1>3, <2>2 DEF Goto, TypeOK
    <3>. QED
      BY <3>1 DEF PointersOf, Idle
  <2>3. CASE i # h
    <3>1. job'[i] = job[i] /\ PointersOf(job[i])
      BY <1>3, <2>3 DEF Goto, TypeOK, JobPointers
    <3>2. \A d \in DOMAIN decisions : decisions'[d] = decisions[d]
      BY InsertFacts
    <3>. QED
      BY <1>1, <3>1, <3>2 DEF PointersOf, EngineDecisions
  <2>. QED
    BY <2>1, <2>2, <2>3
<1>5. JobPointers'
  BY <1>4 DEF JobPointers
<1>6. job' \in [Handlers -> Job]
  BY <1>2, <1>3 DEF Goto, TypeOK
<1>7. /\ current' \subseteq DOMAIN decisions'
      /\ cited' \subseteq DOMAIN decisions'
      /\ deployments' \subseteq DOMAIN decisions'
  BY <1>1 DEF InsertDecision, TypeOK
<1>8. /\ decisions' \in Seq(Decision)
      /\ review' \in Seq(AuthorizationView)
      /\ Len(review') = Len(decisions')
  BY InsertFacts
<1>. QED
  BY <1>5, <1>6, <1>7, <1>8 DEF InsertDecision, TypeOK

\* The rest of POST /transfer-request.
LEMMA TypeWrites ==
    ASSUME TypeInv, NEW h \in Handlers,
           SetStatus(h) \/ CreateReview(h) \/ Cite(h) \/ Reply(h)
    PROVE  TypeInv'
<1>. USE DEF TypeInv
<1>. job[h] \in Job /\ PointersOf(job[h])
  BY DEF TypeOK, JobPointers
<1>. DEFINE d == job[h].decision
<1>1. d \in EngineDecisions /\ d \in DOMAIN decisions /\ d \in Nat
      /\ job[h] = [at |-> job[h].at, decision |-> d]
  BY JobFields DEF PointersOf, EngineDecisions, SetStatus, CreateReview, Cite, Reply
<1>2. decisions[d] \in Decision /\ decisions[d].transfer \in Transfers
  <2>1. decisions[d] \in Decision
    BY <1>1, ElementOfSeq, LenProperties DEF TypeOK
  <2>. QED
    BY <2>1 DEF Decision
<1>3. CASE SetStatus(h)
  <2>. DEFINE next == [at |-> IF decisions[d].result.outcome = "REVIEW"
                              THEN "createReview" ELSE "cite", decision |-> d]
  <2>1. status' \in [Transfers -> TransferStatus \cup {"absent"}]
    BY <1>2, <1>3 DEF SetStatus, TypeOK, status_map, TransferStatus
  <2>2. next \in Job /\ PointersOf(next) /\ Goto(h, next)
    BY <1>1, <1>3 DEF SetStatus, Job, PointersOf
  <2>. HIDE DEF next
  <2>. QED
    BY <1>3, <2>1, <2>2, MoveOn DEF SetStatus, TypeOK
<1>4. CASE CreateReview(h)
  <2>. DEFINE next == [at |-> "cite", decision |-> d]
  <2>1. next \in Job /\ PointersOf(next)
    BY <1>1 DEF Job, PointersOf
  <2>2. Goto(h, next)
    <3>1. [job[h] EXCEPT !.at = "cite"] = next
      BY <1>1
    <3>. QED
      BY <1>4, <3>1 DEF CreateReview
  <2>3. review' \in Seq(AuthorizationView) /\ Len(review') = Len(decisions)
    BY <1>1, <1>4, ReviewFacts DEF CreateReview, AuthorizationView
  <2>. HIDE DEF next
  <2>. QED
    BY <1>4, <2>1, <2>2, <2>3, MoveOn DEF CreateReview, TypeOK
<1>5. CASE Cite(h)
  <2>. DEFINE next == [at |-> "reply", decision |-> d]
  <2>1. next \in Job /\ PointersOf(next)
    BY <1>1 DEF Job, PointersOf
  <2>2. Goto(h, next)
    <3>1. [job[h] EXCEPT !.at = "reply"] = next
      BY <1>1
    <3>. QED
      BY <1>5, <3>1 DEF Cite
  <2>3. cited' \subseteq DOMAIN decisions
    BY <1>1, <1>5 DEF Cite, TypeOK
  <2>. HIDE DEF next
  <2>. QED
    BY <1>5, <2>1, <2>2, <2>3, MoveOn DEF Cite, TypeOK
<1>6. CASE Reply(h)
  <2>1. known' \subseteq Transfers
    BY <1>2, <1>6 DEF Reply, TypeOK
  <2>. QED
    BY <1>6, <2>1, IdleIsJob, MoveOn DEF Reply, TypeOK, database
<1>. QED
  BY <1>3, <1>4, <1>5, <1>6

\* Polling: reads, and the write that follows from them.
LEMMA TypePolls ==
    ASSUME TypeInv, NEW h \in Handlers,
           (\E t \in Transfers : PollTransfer(h, t)) \/ PollStep(h)
    PROVE  TypeInv'
<1>. USE DEF TypeInv
<1>. job[h] \in Job /\ PointersOf(job[h])
  BY DEF TypeOK, JobPointers
<1>0. ASSUME NEW t \in Transfers, NEW r, Persist(h, t, r),
             UNCHANGED <<database, known, crashes>>
      PROVE  TypeInv'
  <2>. DEFINE next == IF r.update
                      THEN [at |-> "pollWrite", transfer |-> t,
                            target |-> IF r.effective = "ALLOWED"
                                       THEN "ALLOWED" ELSE "DENIED"]
                      ELSE Idle
  <2>1. next \in Job /\ PointersOf(next)
    BY IdleIsJob DEF Job, PointersOf
  <2>2. Goto(h, next)
    BY <1>0 DEF Persist
  <2>. HIDE DEF next
  <2>. QED
    BY <1>0, <2>1, <2>2, MoveOn DEF TypeOK, database
<1>1. ASSUME NEW t \in Transfers, PollTransfer(h, t) PROVE TypeInv'
  <2>. DEFINE next == [at |-> "pollDecision", transfer |-> t]
  <2>1. next \in Job /\ PointersOf(next)
    BY DEF Job, PointersOf
  <2>2. Goto(h, next)
    BY <1>1 DEF PollTransfer
  <2>. HIDE DEF next
  <2>. QED
    BY <1>1, <2>1, <2>2, MoveOn DEF PollTransfer, TypeOK, database
<1>2. CASE PollDecision(h)
  <2>. DEFINE t == job[h].transfer
  <2>1. t \in Transfers
    BY <1>2, JobFields DEF PollDecision
  <2>2. CASE Persist(h, t, resolve_transfer_status("REVIEW_PENDING", "none"))
    BY <1>0, <1>2, <2>1, <2>2 DEF PollDecision
  <2>3. ASSUME NEW d \in CurrentFor(t),
               Goto(h, [at |-> "pollReview", transfer |-> t, decision |-> d])
        PROVE  TypeInv'
    <3>. DEFINE next == [at |-> "pollReview", transfer |-> t, decision |-> d]
    <3>1. d \in DOMAIN decisions /\ d \in Nat /\ decisions[d].transfer = t
      BY LenProperties DEF CurrentFor, TypeOK
    <3>2. next \in Job /\ PointersOf(next)
      BY <2>1, <3>1 DEF Job, PointersOf
    <3>. HIDE DEF next
    <3>. QED
      BY <1>2, <2>3, <3>2, MoveOn DEF PollDecision, TypeOK, database, next
  <2>. QED
    BY <1>2, <2>2, <2>3 DEF PollDecision
<1>3. CASE PollReview(h)
  BY <1>0, <1>3, JobFields DEF PollReview
<1>4. CASE PollWrite(h)
  <2>1. status' \in [Transfers -> TransferStatus \cup {"absent"}]
    BY <1>4, JobFields DEF PollWrite, TypeOK, TransferStatus
  <2>. QED
    BY <1>4, <2>1, IdleIsJob, MoveOn DEF PollWrite, TypeOK
<1>. QED
  BY <1>1, <1>2, <1>3, <1>4 DEF PollStep

\* Recording a deployment.
LEMMA TypeDeploys ==
    ASSUME TypeInv, NEW h \in Handlers,
           (\E t \in Transfers : DeployTransfer(h, t)) \/ DeployStep(h)
    PROVE  TypeInv'
<1>. USE DEF TypeInv
<1>. job[h] \in Job /\ PointersOf(job[h])
  BY DEF TypeOK, JobPointers
<1>1. ASSUME NEW t \in Transfers, DeployTransfer(h, t) PROVE TypeInv'
  <2>. DEFINE next == [at |-> "deployDecision", transfer |-> t, status |-> status[t]]
  <2>1. next \in Job /\ PointersOf(next)
    BY <1>1 DEF DeployTransfer, Job, PointersOf, TransferStatus
  <2>2. Goto(h, next)
    BY <1>1 DEF DeployTransfer
  <2>. HIDE DEF next
  <2>. QED
    BY <1>1, <2>1, <2>2, MoveOn DEF DeployTransfer, TypeOK, database
<1>2. CASE DeployDecision(h)
  <2>. DEFINE t == job[h].transfer
  <2>1. t \in Transfers /\ job[h].status \in TransferStatus
    BY <1>2, JobFields DEF DeployDecision
  <2>2. CASE Goto(h, Idle)
    BY <1>2, <2>2, IdleIsJob, MoveOn DEF DeployDecision, TypeOK, database
  <2>3. ASSUME NEW d \in CurrentFor(t),
               Goto(h, [at |-> "deployReview", transfer |-> t,
                        status |-> job[h].status, decision |-> d])
        PROVE  TypeInv'
    <3>. DEFINE next == [at |-> "deployReview", transfer |-> t,
                         status |-> job[h].status, decision |-> d]
    <3>1. d \in DOMAIN decisions /\ d \in Nat /\ decisions[d].transfer = t
      BY LenProperties DEF CurrentFor, TypeOK
    <3>2. next \in Job /\ PointersOf(next)
      BY <2>1, <3>1 DEF Job, PointersOf
    <3>. HIDE DEF next
    <3>. QED
      BY <1>2, <2>3, <3>2, MoveOn DEF DeployDecision, TypeOK, database, next
  <2>. QED
    BY <1>2, <2>2, <2>3 DEF DeployDecision
<1>3. CASE DeployReview(h)
  <2>. DEFINE allowed == resolve_transfer_status(job[h].status,
                             review[job[h].decision]).effective = "ALLOWED"
              next == IF allowed
                      THEN [at |-> "deployInsert", transfer |-> job[h].transfer,
                            decision |-> job[h].decision]
                      ELSE Idle
  <2>1. Goto(h, next)
    BY <1>3 DEF DeployReview
  <2>. HIDE DEF allowed
  <2>2. next \in Job /\ PointersOf(next)
    BY <1>3, JobFields, IdleIsJob DEF DeployReview, Job, PointersOf
  <2>. HIDE DEF next
  <2>. QED
    BY <1>3, <2>1, <2>2, MoveOn DEF DeployReview, TypeOK, database
<1>4. CASE DeployInsert(h)
  <2>. DEFINE next == [at |-> "deployComplete", transfer |-> job[h].transfer]
  <2>1. next \in Job /\ PointersOf(next)
    BY <1>4, JobFields DEF DeployInsert, Job, PointersOf
  <2>2. deployments' \subseteq DOMAIN decisions
    BY <1>4 DEF DeployInsert, TypeOK, PointersOf
  <2>3. Goto(h, next)
    BY <1>4 DEF DeployInsert
  <2>. HIDE DEF next
  <2>. QED
    BY <1>4, <2>1, <2>2, <2>3, MoveOn DEF DeployInsert, TypeOK
<1>5. CASE DeployComplete(h)
  <2>1. status' \in [Transfers -> TransferStatus \cup {"absent"}]
    BY <1>5, JobFields DEF DeployComplete, TypeOK, TransferStatus
  <2>. QED
    BY <1>5, <2>1, IdleIsJob, MoveOn DEF DeployComplete, TypeOK
<1>. QED
  BY <1>1, <1>2, <1>3, <1>4, <1>5 DEF DeployStep

\* A reviewer's verdict, and the copy of the original row that records it.
LEMMA TypeResolve ==
    ASSUME TypeInv, NEW h \in Handlers, NEW d \in DOMAIN decisions,
           NEW ruling \in Rulings, ResolveReview(h, d, ruling)
    PROVE  TypeInv'
<1>. USE DEF TypeInv
<1>. DEFINE row == [decisions[d] EXCEPT !.model = "human_reviewer",
                                        !.result = HumanResult(ruling)]
            next == [at |-> "demote", row |-> row]
<1>1. ruling \in {"APPROVED", "REJECTED"}
  BY LifecycleAssumption
<1>2. row \in Decision
  <2>1. decisions[d] \in Decision
    BY ElementOfSeq, LenProperties DEF TypeOK
  <2>2. HumanResult(ruling) \in HumanResults
    BY <1>1 DEF HumanResults
  <2>. QED
    BY <2>1, <2>2 DEF Decision
<1>3. Goto(h, next)
  BY DEF ResolveReview
<1>4. review' \in Seq(AuthorizationView) /\ Len(review') = Len(decisions)
  BY <1>1, ReviewFacts DEF ResolveReview, AuthorizationView
<1>. HIDE DEF row
<1>5. next \in Job /\ PointersOf(next)
  BY <1>2 DEF Job, PointersOf
<1>. HIDE DEF next
<1>. QED
  BY <1>3, <1>4, <1>5, MoveOn DEF ResolveReview, TypeOK

\* What happens around the handlers leaves every request where it is.
LEMMA TypeEnvironment ==
    ASSUME TypeInv, Environment
    PROVE  TypeInv'
<1>. USE DEF TypeInv
<1>1. ASSUME NEW e \in Entities, Ingest(e) PROVE TypeInv'
  <2>1. PICK lock \in IngestedLocks : schemas' = [schemas EXCEPT ![e] = Append(@, lock)]
    BY <1>1 DEF Ingest
  <2>2. lock \in ResidencyLock /\ schemas[e] \in Seq(ResidencyLock)
    BY LifecycleAssumption DEF TypeOK
  <2>3. Append(schemas[e], lock) \in Seq(ResidencyLock)
    BY <2>2, AppendProperties
  <2>4. schemas' \in [Entities -> Seq(ResidencyLock)]
    BY <2>1, <2>3 DEF TypeOK
  <2>. QED
    BY <1>1, <2>4 DEF Ingest, TypeOK, JobPointers, PointersOf, EngineDecisions
<1>2. CASE UpdateCompany
  <2>1. mandated' \in BOOLEAN
    BY <1>2, LifecycleAssumption DEF UpdateCompany
  <2>. QED
    BY <1>2, <2>1 DEF UpdateCompany, TypeOK, JobPointers, PointersOf, EngineDecisions
<1>3. ASSUME NEW d \in DOMAIN decisions, Expire(d) PROVE TypeInv'
  <2>1. review' \in Seq(AuthorizationView) /\ Len(review') = Len(decisions)
    BY <1>3, ReviewFacts DEF Expire, AuthorizationView
  <2>. QED
    BY <1>3, <2>1 DEF Expire, TypeOK, JobPointers, PointersOf, EngineDecisions
<1>. QED
  BY <1>1, <1>2, <1>3 DEF Environment

LEMMA TypeDie ==
    ASSUME TypeInv, NEW h \in Handlers, Die(h)
    PROVE  TypeInv'
<1>1. crashes' \in 0..MaxCrashes
  BY LifecycleAssumption DEF Die, TypeInv, TypeOK
<1>. QED
  BY <1>1, IdleIsJob, MoveOn DEF Die, TypeInv, TypeOK, database

LEMMA TypeStep ==
    ASSUME TypeInv, [Next]_vars
    PROVE  TypeInv'
<1>1. CASE UNCHANGED vars
  BY <1>1 DEF vars, database, TypeInv, TypeOK, JobPointers, PointersOf, EngineDecisions
<1>2. ASSUME NEW h \in Handlers, Request(h) PROVE TypeInv'
  BY <1>2, TypeReads, TypePolls, TypeDeploys, TypeResolve DEF Request
<1>3. ASSUME NEW h \in Handlers, HandlerStep(h) PROVE TypeInv'
  BY <1>3, TypeReads, TypeInsertDecision, TypeWrites, TypePolls, TypeDeploys
     DEF HandlerStep, TransferStep
<1>. QED
  BY <1>1, <1>2, <1>3, TypeDie, TypeEnvironment DEF Next

\* Every variable keeps the shape of its table and every request in progress
\* points at rows that exist.
THEOREM TypeCorrect == Spec => [](TypeOK /\ JobPointers)
<1>1. TypeInv /\ [Next]_vars => TypeInv'
  BY TypeStep
<1>2. TypeInv => TypeOK /\ JobPointers
  BY DEF TypeInv
<1>. QED
  BY <1>1, <1>2, InitTypeInv, PTL DEF Spec

-----------------------------------------------------------------------------
(***************************************************************************)
(* Reviews.  create_authorization_request does not look whether a review   *)
(* exists already, so a review stays closed only because the request that  *)
(* opens it is the only one to hold its decision, and holds it before any  *)
(* review of it exists.                                                    *)
(***************************************************************************)
Reviewless(j) == j.at \in {"setStatus", "createReview"}

ReviewInv ==
    /\ \A d \in DOMAIN decisions : review[d] # "none" => d \in EngineDecisions
    /\ \A h \in Handlers : Reviewless(job[h]) => review[job[h].decision] = "none"
    /\ \A h, i \in Handlers :
          Reviewless(job[h]) /\ Reviewless(job[i]) /\ h # i =>
              job[h].decision # job[i].decision

\* The two tables a history is made of: rows stay, closed reviews stay closed,
\* superseded decisions stay superseded.
HistoryKept ==
    /\ DOMAIN decisions \subseteq DOMAIN decisions'
    /\ Len(decisions') >= Len(decisions)
    /\ \A d \in DOMAIN decisions : decisions'[d] = decisions[d]
    /\ \A d \in DOMAIN decisions :
          review[d] \in {"APPROVED", "REJECTED", "EXPIRED"} => review'[d] = review[d]
    /\ current' \cap DOMAIN decisions \subseteq current

\* Steps that neither insert a decision nor write a review.
Quiet == UNCHANGED <<decisions, current, review>>

LEMMA QuietKeepsHistory ==
    ASSUME TypeInv, Quiet
    PROVE  HistoryKept
  BY LenProperties DEF Quiet, HistoryKept, TypeInv, TypeOK

LEMMA QuietKeepsReviews ==
    ASSUME TypeInv, ReviewInv, NEW h \in Handlers, NEW next, Quiet, Goto(h, next),
           Reviewless(next) => Reviewless(job[h]) /\ next.decision = job[h].decision
    PROVE  ReviewInv'
<1>1. job'[h] = next /\ \A i \in Handlers \ {h} : job'[i] = job[i]
  BY DEF TypeInv, TypeOK, Goto
<1>. QED
  BY <1>1 DEF ReviewInv, Quiet, EngineDecisions, Reviewless

LEMMA InsertKeepsReviews ==
    ASSUME TypeInv, ReviewInv, NEW h \in Handlers, InsertDecision(h)
    PROVE  HistoryKept /\ ReviewInv'
<1>. DEFINE n == Len(decisions) + 1
            next == IF job[h].row.model = "rule_based_engine"
                    THEN [at |-> "setStatus", decision |-> n] ELSE Idle
<1>1. job'[h] = next /\ \A i \in Handlers \ {h} : job'[i] = job[i]
  BY DEF InsertDecision, TypeInv, TypeOK, Goto
<1>2. HistoryKept
  BY InsertFacts DEF HistoryKept, InsertDecision, TypeInv
<1>3. ASSUME NEW d \in DOMAIN decisions', review'[d] # "none"
      PROVE  (d \in EngineDecisions)'
  BY <1>3, InsertFacts DEF TypeInv, ReviewInv, EngineDecisions
<1>4. ASSUME NEW i \in Handlers, Reviewless(job'[i])
      PROVE  /\ review'[job'[i].decision] = "none"
             /\ i = h => job'[i].decision = n
             /\ i # h => job'[i].decision \in DOMAIN decisions /\ Reviewless(job[i])
  <2>1. CASE i = h
    <3>1. job'[i].decision = n
      BY <1>1, <1>4, <2>1 DEF Reviewless, Idle
    <3>. QED
      BY <2>1, <3>1, InsertFacts DEF TypeInv
  <2>2. CASE i # h
    BY <1>1, <1>4, <2>2, InsertFacts
       DEF TypeInv, ReviewInv, JobPointers, PointersOf, EngineDecisions, Reviewless
  <2>. QED
    BY <2>1, <2>2
<1>5. n \notin DOMAIN decisions
  BY InsertFacts DEF TypeInv
<1>6. ASSUME NEW i \in Handlers, NEW k \in Handlers, i # k,
             Reviewless(job'[i]), Reviewless(job'[k])
      PROVE  job'[i].decision # job'[k].decision
  <2>1. CASE i = h \/ k = h
    BY <1>4, <1>5, <1>6, <2>1
  <2>2. CASE i # h /\ k # h
    BY <1>1, <1>4, <1>6, <2>2 DEF ReviewInv
  <2>. QED
    BY <2>1, <2>2
<1>. QED
  BY <1>2, <1>3, <1>4, <1>6 DEF ReviewInv, Reviewless

\* CreateReview opens the review of a decision no other request will open.
LEMMA CreateKeepsReviews ==
    ASSUME TypeInv, ReviewInv, NEW h \in Handlers, CreateReview(h)
    PROVE  HistoryKept /\ ReviewInv'
<1>. DEFINE d == job[h].decision
<1>1. d \in EngineDecisions /\ d \in DOMAIN decisions /\ review[d] = "none"
  BY DEF CreateReview, TypeInv, JobPointers, PointersOf, ReviewInv, Reviewless, EngineDecisions
<1>2. /\ \A i \in DOMAIN decisions : review'[i] = IF i = d THEN "PENDING" ELSE review[i]
      /\ UNCHANGED <<decisions, current>>
  BY <1>1, ReviewFacts DEF CreateReview, AuthorizationView, TypeInv
<1>3. job'[h].at = "cite" /\ \A i \in Handlers \ {h} : job'[i] = job[i]
  <2>1. job[h] \in Job
    BY DEF TypeInv, TypeOK
  <2>2. job[h] = [at |-> job[h].at, decision |-> d]
    BY <2>1, JobFields DEF CreateReview
  <2>3. [job[h] EXCEPT !.at = "cite"].at = "cite"
    BY <2>2
  <2>. QED
    BY <2>3 DEF CreateReview, Goto, TypeInv, TypeOK
<1>4. HistoryKept
  BY <1>1, <1>2, LenProperties DEF HistoryKept, TypeInv, TypeOK
<1>5. ASSUME NEW i \in Handlers, Reviewless(job'[i])
      PROVE  /\ i # h /\ job'[i] = job[i]
             /\ review'[job'[i].decision] = "none"
  <2>1. i # h /\ job'[i] = job[i]
    BY <1>3, <1>5 DEF Reviewless
  <2>2. job[i].decision # d /\ job[i].decision \in DOMAIN decisions
        /\ review[job[i].decision] = "none"
    BY <1>5, <2>1 DEF ReviewInv, Reviewless, CreateReview, TypeInv, JobPointers,
                      PointersOf, EngineDecisions
  <2>. QED
    BY <1>2, <2>1, <2>2
<1>. QED
  BY <1>1, <1>2, <1>4, <1>5 DEF ReviewInv, EngineDecisions

\* Closing an open review leaves the requests that have yet to open theirs.
LEMMA CloseKeepsReviews ==
    ASSUME TypeInv, ReviewInv, NEW d \in DOMAIN decisions,
           NEW r \in {"APPROVED", "REJECTED", "EXPIRED"},
           review[d] = "PENDING", review' = [review EXCEPT ![d] = r],
           UNCHANGED <<decisions, current>>,
           \A i \in Handlers : Reviewless(job'[i]) => job'[i] = job[i]
    PROVE  HistoryKept /\ ReviewInv'
<1>1. r \in AuthorizationView
  BY DEF AuthorizationView
<1>2. \A i \in DOMAIN decisions : review'[i] = IF i = d THEN r ELSE review[i]
  BY <1>1, ReviewFacts DEF TypeInv
<1>3. HistoryKept
  BY <1>2, LenProperties DEF HistoryKept, TypeInv, TypeOK
<1>4. ASSUME NEW i \in Handlers, Reviewless(job'[i])
      PROVE  review'[job'[i].decision] = "none"
  <2>1. job'[i] = job[i]
    BY <1>4
  <2>2. review[job[i].decision] = "none" /\ job[i].decision \in DOMAIN decisions
    BY <1>4, <2>1 DEF ReviewInv, Reviewless, TypeInv, JobPointers, PointersOf, EngineDecisions
  <2>. QED
    BY <1>2, <2>1, <2>2
<1>5. \A i \in DOMAIN decisions : review'[i] # "none" => i \in EngineDecisions
  BY <1>2 DEF ReviewInv
<1>. QED
  BY <1>3, <1>4, <1>5 DEF ReviewInv, EngineDecisions

LEMMA ReviewStep ==
    ASSUME TypeInv, ReviewInv, [Next]_vars
    PROVE  HistoryKept /\ ReviewInv'
<1>. USE DEF Reviewless
<1>1. CASE UNCHANGED vars
  BY <1>1, QuietKeepsHistory DEF vars, database, Quiet, ReviewInv, EngineDecisions
<1>2. ASSUME NEW h \in Handlers, NEW next, Goto(h, next), Quiet, ~Reviewless(next)
      PROVE  HistoryKept /\ ReviewInv'
  BY <1>2, QuietKeepsHistory, QuietKeepsReviews
<1>3. ~Reviewless(Idle)
  BY DEF Idle
<1>4. ASSUME NEW h \in Handlers, Request(h)
      PROVE  HistoryKept /\ ReviewInv'
  <2>1. ASSUME NEW e \in Entities, NEW dest \in Destinations, ReadClassification(h, e, dest)
        PROVE  HistoryKept /\ ReviewInv'
    BY <1>2, <2>1 DEF ReadClassification, database, Quiet
  <2>2. ASSUME NEW t \in Transfers, PollTransfer(h, t)
        PROVE  HistoryKept /\ ReviewInv'
    BY <1>2, <2>2 DEF PollTransfer, database, Quiet
  <2>3. ASSUME NEW t \in Transfers, DeployTransfer(h, t)
        PROVE  HistoryKept /\ ReviewInv'
    BY <1>2, <2>3 DEF DeployTransfer, database, Quiet
  <2>4. ASSUME NEW d \in DOMAIN decisions, NEW ruling \in Rulings, ResolveReview(h, d, ruling)
        PROVE  HistoryKept /\ ReviewInv'
    <3>1. ruling \in {"APPROVED", "REJECTED", "EXPIRED"}
      BY LifecycleAssumption
    <3>2. \A i \in Handlers : Reviewless(job'[i]) => job'[i] = job[i]
      BY <2>4 DEF ResolveReview, Goto, TypeInv, TypeOK
    <3>. QED
      BY <2>4, <3>1, <3>2, CloseKeepsReviews DEF ResolveReview
  <2>. QED
    BY <1>4, <2>1, <2>2, <2>3, <2>4 DEF Request
<1>5. ASSUME NEW h \in Handlers, TransferStep(h)
      PROVE  HistoryKept /\ ReviewInv'
  <2>1. CASE ReadCompany(h)
    BY <1>2, <2>1 DEF ReadCompany, database, Quiet
  <2>2. CASE ReadSchemaId(h)
    BY <1>2, <2>2 DEF ReadSchemaId, database, Quiet
  <2>3. ASSUME NEW t \in Transfers, InsertTransfer(h, t)
        PROVE  HistoryKept /\ ReviewInv'
    BY <1>2, <2>3 DEF InsertTransfer, Quiet
  <2>4. CASE InsertTransferFails(h)
    BY <1>2, <1>3, <2>4 DEF InsertTransferFails, database, Quiet
  <2>5. CASE Demote(h)
    BY <1>2, <2>5 DEF Demote, database, Quiet
  <2>6. CASE SetStatus(h)
    <3>. DEFINE d == job[h].decision
                next == [at |-> IF decisions[d].result.outcome = "REVIEW"
                                THEN "createReview" ELSE "cite", decision |-> d]
    <3>1. Goto(h, next) /\ Quiet /\ Reviewless(job[h]) /\ next.decision = job[h].decision
      BY <2>6 DEF SetStatus, Quiet
    <3>. HIDE DEF next
    <3>. QED
      BY <3>1, QuietKeepsHistory, QuietKeepsReviews
  <2>8. CASE Cite(h)
    <3>1. job[h] = [at |-> job[h].at, decision |-> job[h].decision]
      BY <2>8, JobFields DEF Cite, TypeInv, TypeOK
    <3>2. [job[h] EXCEPT !.at = "reply"].at = "reply"
      BY <3>1
    <3>. QED
      BY <1>2, <2>8, <3>2 DEF Cite, Quiet
  <2>9. CASE Reply(h)
    BY <1>2, <1>3, <2>9 DEF Reply, database, Quiet
  <2>. QED
    BY <1>5, <2>1, <2>2, <2>3, <2>4, <2>5, <2>6, <2>8, <2>9,
       InsertKeepsReviews, CreateKeepsReviews DEF TransferStep
<1>6. ASSUME NEW h \in Handlers, PollStep(h)
      PROVE  HistoryKept /\ ReviewInv'
  <2>1. ASSUME NEW t, NEW r, Persist(h, t, r), Quiet
        PROVE  HistoryKept /\ ReviewInv'
    <3>. DEFINE next == IF r.update
                        THEN [at |-> "pollWrite", transfer |-> t,
                              target |-> IF r.effective = "ALLOWED"
                                         THEN "ALLOWED" ELSE "DENIED"]
                        ELSE Idle
    <3>1. Goto(h, next) /\ ~Reviewless(next)
      BY <1>3, <2>1 DEF Persist
    <3>. HIDE DEF next
    <3>. QED
      BY <1>2, <2>1, <3>1
  <2>2. CASE PollDecision(h)
    BY <1>2, <2>1, <2>2 DEF PollDecision, database, Quiet
  <2>3. CASE PollReview(h)
    BY <2>1, <2>3 DEF PollReview, database, Quiet
  <2>4. CASE PollWrite(h)
    BY <1>2, <1>3, <2>4 DEF PollWrite, Quiet
  <2>. QED
    BY <1>6, <2>2, <2>3, <2>4 DEF PollStep
<1>7. ASSUME NEW h \in Handlers, DeployStep(h)
      PROVE  HistoryKept /\ ReviewInv'
  <2>1. CASE DeployDecision(h)
    BY <1>2, <1>3, <2>1 DEF DeployDecision, database, Quiet
  <2>2. CASE DeployReview(h)
    <3>. DEFINE allowed == resolve_transfer_status(job[h].status,
                               review[job[h].decision]).effective = "ALLOWED"
                next == IF allowed
                        THEN [at |-> "deployInsert", transfer |-> job[h].transfer,
                              decision |-> job[h].decision]
                        ELSE Idle
    <3>1. Goto(h, next) /\ Quiet
      BY <2>2 DEF DeployReview, database, Quiet
    <3>. HIDE DEF allowed
    <3>2. ~Reviewless(next)
      BY <1>3
    <3>. HIDE DEF next
    <3>. QED
      BY <1>2, <3>1, <3>2
  <2>3. CASE DeployInsert(h)
    BY <1>2, <2>3 DEF DeployInsert, Quiet
  <2>4. CASE DeployComplete(h)
    BY <1>2, <1>3, <2>4 DEF DeployComplete, Quiet
  <2>. QED
    BY <1>7, <2>1, <2>2, <2>3, <2>4 DEF DeployStep
<1>8. ASSUME NEW h \in Handlers, Die(h)
      PROVE  HistoryKept /\ ReviewInv'
  BY <1>2, <1>3, <1>8 DEF Die, database, Quiet
<1>9. CASE Environment
  <2>1. ASSUME Quiet, UNCHANGED job
        PROVE  HistoryKept /\ ReviewInv'
    BY <2>1, QuietKeepsHistory DEF Quiet, ReviewInv, EngineDecisions
  <2>2. ASSUME NEW d \in DOMAIN decisions, Expire(d)
        PROVE  HistoryKept /\ ReviewInv'
    BY <2>2, CloseKeepsReviews DEF Expire
  <2>. QED
    BY <1>9, <2>1, <2>2 DEF Environment, Ingest, UpdateCompany, Quiet
<1>. QED
  BY <1>1, <1>4, <1>5, <1>6, <1>7, <1>8, <1>9 DEF Next, HandlerStep

LEMMA InitReviewInv == Init => ReviewInv
  BY EmptySeq DEF Init, ReviewInv, Reviewless, Idle

LEMMA HistoryInvariant == Spec => [](TypeInv /\ ReviewInv)
<1>1. TypeInv /\ ReviewInv /\ [Next]_vars => TypeInv' /\ ReviewInv'
  BY TypeStep, ReviewStep
<1>. QED
  BY <1>1, InitTypeInv, InitReviewInv, PTL DEF Spec

\* No schedule of two reviewers, an expiry and a death reopens a review or
\* closes it twice.
THEOREM ReviewsAreFinal == Spec => ReviewIsFinal
<1>1. TypeInv /\ ReviewInv /\ [Next]_vars =>
        [\A d \in DOMAIN review :
            review[d] \in {"APPROVED", "REJECTED", "EXPIRED"} => review'[d] = review[d]]_vars
  <2>. SUFFICES ASSUME TypeInv, ReviewInv, [Next]_vars, NEW d \in DOMAIN review,
                       review[d] \in {"APPROVED", "REJECTED", "EXPIRED"}
                PROVE  review'[d] = review[d]
    OBVIOUS
  <2>1. DOMAIN review = DOMAIN decisions
    BY LenProperties DEF TypeInv, TypeOK
  <2>. QED
    BY <2>1, ReviewStep DEF HistoryKept
<1>. QED
  BY <1>1, HistoryInvariant, PTL DEF Spec, ReviewIsFinal

\* The decision history is append-only: rows are neither lost nor rewritten,
\* and a superseded decision stays superseded.
THEOREM HistoryIsAppendOnly == Spec => HistoryOnlyGrows
<1>1. TypeInv /\ ReviewInv /\ [Next]_vars =>
        [/\ Len(decisions') >= Len(decisions)
         /\ \A d \in DOMAIN decisions : decisions'[d] = decisions[d]
         /\ current' \cap DOMAIN decisions \subseteq current]_vars
  BY ReviewStep DEF HistoryKept
<1>. QED
  BY <1>1, HistoryInvariant, PTL DEF Spec, HistoryOnlyGrows

-----------------------------------------------------------------------------
(***************************************************************************)
(* Clearance.  A clearance, once given, stays; so it is enough that every  *)
(* request that is about to act on one had seen it, however long ago.      *)
(***************************************************************************)
HoldsClearance(j) ==
    /\ j.at = "pollWrite" /\ j.target = "ALLOWED" => Cleared(j.transfer)
    /\ j.at \in {"deployDecision", "deployReview"} /\ j.status = "ALLOWED" =>
            Cleared(j.transfer)
    /\ j.at \in {"deployInsert", "deployComplete"} => Cleared(j.transfer)

ClearanceInv ==
    /\ AllowedIsJustified
    /\ ClearedBeforeDeployment
    /\ \A h \in Handlers : HoldsClearance(job[h])

LEMMA ClearanceStays ==
    ASSUME HistoryKept, NEW t, Cleared(t)
    PROVE  Cleared(t)'
<1>1. PICK d \in EngineDecisions :
          /\ decisions[d].transfer = t
          /\ decisions[d].result.outcome = "ALLOW" \/ review[d] = "APPROVED"
  BY DEF Cleared
<1>2. d \in DOMAIN decisions
  BY DEF EngineDecisions
<1>3. decisions'[d] = decisions[d] /\ d \in DOMAIN decisions'
      /\ (review[d] = "APPROVED" => review'[d] = "APPROVED")
  BY <1>2 DEF HistoryKept
<1>. QED
  BY <1>1, <1>3 DEF Cleared, EngineDecisions

\* It is enough that what a step writes down or carries on was cleared before
\* the step.
LEMMA ClearanceCarries ==
    ASSUME TypeInv, ClearanceInv, HistoryKept,
           \A t \in Transfers : status'[t] \in {"ALLOWED", "COMPLETED"} => Cleared(t),
           \A d \in deployments' : d \in DOMAIN decisions /\ Cleared(decisions[d].transfer),
           \A h \in Handlers : HoldsClearance(job'[h])
    PROVE  ClearanceInv'
<1>1. \A t : Cleared(t) => Cleared(t)'
  BY ClearanceStays
<1>2. AllowedIsJustified'
  BY <1>1 DEF AllowedIsJustified
<1>3. ClearedBeforeDeployment'
  <2>1. ASSUME NEW d \in deployments' PROVE Cleared(decisions[d].transfer)'
    <3>1. d \in DOMAIN decisions /\ Cleared(decisions[d].transfer)
      BY <2>1
    <3>2. decisions'[d] = decisions[d]
      BY <3>1 DEF HistoryKept
    <3>. QED
      BY <1>1, <3>1, <3>2 DEF Cleared, EngineDecisions
  <2>. QED
    BY <2>1 DEF ClearedBeforeDeployment
<1>4. ASSUME NEW h \in Handlers PROVE HoldsClearance(job[h])'
  <2>1. HoldsClearance(job'[h])
    OBVIOUS
  <2>. QED
    BY <1>1, <2>1 DEF HoldsClearance, Cleared, EngineDecisions
<1>. QED
  BY <1>2, <1>3, <1>4 DEF ClearanceInv

\* The same for one handler that moves on and writes neither table.
LEMMA ClearanceMoves ==
    ASSUME TypeInv, ClearanceInv, HistoryKept, NEW h \in Handlers, NEW next,
           Goto(h, next), HoldsClearance(next), UNCHANGED <<status, deployments>>
    PROVE  ClearanceInv'
<1>1. \A i \in Handlers : HoldsClearance(job'[i])
  BY DEF Goto, TypeInv, TypeOK, ClearanceInv
<1>2. \A t \in Transfers : status'[t] \in {"ALLOWED", "COMPLETED"} => Cleared(t)
  BY DEF ClearanceInv, AllowedIsJustified
<1>3. \A d \in deployments' : d \in DOMAIN decisions /\ Cleared(decisions[d].transfer)
  BY DEF ClearanceInv, ClearedBeforeDeployment, TypeInv, TypeOK
<1>. QED
  BY <1>1, <1>2, <1>3, ClearanceCarries

\* And for one that writes the status of one transfer.
LEMMA ClearanceWrites ==
    ASSUME TypeInv, ClearanceInv, HistoryKept, NEW h \in Handlers, NEW next,
           Goto(h, next), HoldsClearance(next), UNCHANGED deployments,
           NEW t \in Transfers, NEW s, status' = [status EXCEPT ![t] = s],
           s \in {"ALLOWED", "COMPLETED"} => Cleared(t)
    PROVE  ClearanceInv'
<1>1. \A i \in Handlers : HoldsClearance(job'[i])
  BY DEF Goto, TypeInv, TypeOK, ClearanceInv
<1>2. \A u \in Transfers : status'[u] \in {"ALLOWED", "COMPLETED"} => Cleared(u)
  BY DEF ClearanceInv, AllowedIsJustified, TypeInv, TypeOK
<1>3. \A d \in deployments' : d \in DOMAIN decisions /\ Cleared(decisions[d].transfer)
  BY DEF ClearanceInv, ClearedBeforeDeployment, TypeInv, TypeOK
<1>. QED
  BY <1>1, <1>2, <1>3, ClearanceCarries

\* An authorization request that reads APPROVED is a clearance of the transfer
\* of its decision.
LEMMA ApprovedIsCleared ==
    ASSUME TypeInv, ReviewInv, NEW d \in DOMAIN decisions, review[d] = "APPROVED"
    PROVE  Cleared(decisions[d].transfer)
  BY DEF ReviewInv, Cleared

LEMMA ClearanceStep ==
    ASSUME TypeInv, ReviewInv, ClearanceInv, [Next]_vars
    PROVE  ClearanceInv'
<1>1. HistoryKept
  BY ReviewStep
<1>2. HoldsClearance(Idle)
  BY DEF HoldsClearance, Idle
<1>3. ASSUME NEW h \in Handlers, NEW next, Goto(h, next), HoldsClearance(next),
             UNCHANGED <<status, deployments>>
      PROVE  ClearanceInv'
  BY <1>1, <1>3, ClearanceMoves
<1>4. ASSUME UNCHANGED <<status, deployments, job>>
      PROVE  ClearanceInv'
  <2>1. \A t \in Transfers : status'[t] \in {"ALLOWED", "COMPLETED"} => Cleared(t)
    BY <1>4 DEF ClearanceInv, AllowedIsJustified
  <2>2. \A d \in deployments' : d \in DOMAIN decisions /\ Cleared(decisions[d].transfer)
    BY <1>4 DEF ClearanceInv, ClearedBeforeDeployment, TypeInv, TypeOK
  <2>3. \A h \in Handlers : HoldsClearance(job'[h])
    BY <1>4 DEF ClearanceInv
  <2>. QED
    BY <1>1, <2>1, <2>2, <2>3, ClearanceCarries
<1>5. ASSUME NEW h \in Handlers, Request(h) PROVE ClearanceInv'
  <2>1. ASSUME NEW e \in Entities, NEW dest \in Destinations, ReadClassification(h, e, dest)
        PROVE  ClearanceInv'
    BY <1>3, <2>1 DEF ReadClassification, database, HoldsClearance
  <2>2. ASSUME NEW t \in Transfers, PollTransfer(h, t) PROVE ClearanceInv'
    BY <1>3, <2>2 DEF PollTransfer, database, HoldsClearance
  <2>3. ASSUME NEW t \in Transfers, DeployTransfer(h, t) PROVE ClearanceInv'
    BY <1>3, <2>3 DEF DeployTransfer, database, HoldsClearance, ClearanceInv, AllowedIsJustified
  <2>4. ASSUME NEW d \in DOMAIN decisions, NEW ruling \in Rulings, ResolveReview(h, d, ruling)
        PROVE  ClearanceInv'
    BY <1>3, <2>4 DEF ResolveReview, HoldsClearance
  <2>. QED
    BY <1>5, <2>1, <2>2, <2>3, <2>4 DEF Request
<1>6. ASSUME NEW h \in Handlers, TransferStep(h) PROVE ClearanceInv'
  <2>. job[h] \in Job /\ PointersOf(job[h])
    BY DEF TypeInv, TypeOK, JobPointers
  <2>1. CASE ReadCompany(h)
    BY <1>3, <2>1 DEF ReadCompany, database, HoldsClearance
  <2>2. CASE ReadSchemaId(h)
    BY <1>3, <2>2 DEF ReadSchemaId, database, HoldsClearance
  <2>3. ASSUME NEW t \in Transfers, InsertTransfer(h, t) PROVE ClearanceInv'
    BY <1>1, <2>3, ClearanceWrites DEF InsertTransfer, HoldsClearance
  <2>4. CASE InsertTransferFails(h)
    BY <1>2, <1>3, <2>4 DEF InsertTransferFails, database
  <2>5. CASE Demote(h)
    BY <1>3, <2>5 DEF Demote, database, HoldsClearance
  <2>6. CASE InsertDecision(h)
    <3>. DEFINE next == IF job[h].row.model = "rule_based_engine"
                        THEN [at |-> "setStatus", decision |-> Len(decisions) + 1] ELSE Idle
    <3>1. HoldsClearance(next)
      BY <1>2 DEF HoldsClearance
    <3>2. Goto(h, next) /\ UNCHANGED <<status, deployments>>
      BY <2>6 DEF InsertDecision
    <3>. HIDE DEF next
    <3>. QED
      BY <1>3, <3>1, <3>2
  <2>7. CASE SetStatus(h)
    <3>. DEFINE d == job[h].decision
                t == decisions[d].transfer
                next == [at |-> IF decisions[d].result.outcome = "REVIEW"
                                THEN "createReview" ELSE "cite", decision |-> d]
    <3>1. d \in EngineDecisions /\ d \in DOMAIN decisions
      BY <2>7 DEF SetStatus, PointersOf, EngineDecisions
    <3>2. decisions[d] \in Decision
      BY <3>1, ElementOfSeq, LenProperties DEF TypeInv, TypeOK
    <3>3. t \in Transfers
      BY <3>2 DEF Decision
    <3>4. status_map(decisions[d].result.outcome) \in {"ALLOWED", "COMPLETED"} => Cleared(t)
      BY <3>1 DEF status_map, Cleared
    <3>5. Goto(h, next) /\ HoldsClearance(next)
      BY <2>7 DEF SetStatus, HoldsClearance
    <3>6. status' = [status EXCEPT ![t] = status_map(decisions[d].result.outcome)]
          /\ UNCHANGED deployments
      BY <2>7 DEF SetStatus
    <3>. HIDE DEF next
    <3>. QED
      BY <1>1, <3>3, <3>4, <3>5, <3>6, ClearanceWrites
  <2>8. ASSUME NEW at, at \in {"cite", "reply"}, job[h].at \in {"createReview", "cite"},
               Goto(h, [job[h] EXCEPT !.at = at]), UNCHANGED <<status, deployments>>
        PROVE  ClearanceInv'
    <3>1. job[h] = [at |-> job[h].at, decision |-> job[h].decision]
      BY <2>8, JobFields
    <3>2. [job[h] EXCEPT !.at = at].at = at
      BY <3>1
    <3>3. HoldsClearance([job[h] EXCEPT !.at = at])
      BY <2>8, <3>2 DEF HoldsClearance
    <3>. QED
      BY <1>3, <2>8, <3>3
  <2>9. CASE Reply(h)
    BY <1>2, <1>3, <2>9 DEF Reply, database
  <2>. QED
    BY <1>6, <2>1, <2>2, <2>3, <2>4, <2>5, <2>6, <2>7, <2>8, <2>9
       DEF TransferStep, CreateReview, Cite
<1>7. ASSUME NEW h \in Handlers, PollStep(h) PROVE ClearanceInv'
  <2>. job[h] \in Job /\ PointersOf(job[h]) /\ HoldsClearance(job[h])
    BY DEF TypeInv, TypeOK, JobPointers, ClearanceInv
  <2>. DEFINE t == job[h].transfer
  <2>1. ASSUME NEW auth \in AuthorizationView,
               Persist(h, t, resolve_transfer_status("REVIEW_PENDING", auth)),
               auth = "APPROVED" => Cleared(t), UNCHANGED <<status, deployments>>
        PROVE  ClearanceInv'
    <3>. DEFINE r == resolve_transfer_status("REVIEW_PENDING", auth)
                next == IF r.update
                        THEN [at |-> "pollWrite", transfer |-> t,
                              target |-> IF r.effective = "ALLOWED"
                                         THEN "ALLOWED" ELSE "DENIED"]
                        ELSE Idle
    <3>1. "REVIEW_PENDING" \in TransferStatus
      BY DEF TransferStatus
    <3>2. r.effective = "ALLOWED" => Cleared(t)
      BY <2>1, <3>1, OnlyTheseMayDeploy
    <3>3. Goto(h, next)
      BY <2>1 DEF Persist
    <3>. HIDE DEF r
    <3>4. HoldsClearance(next)
      BY <1>2, <3>2 DEF HoldsClearance
    <3>. HIDE DEF next
    <3>. QED
      BY <1>3, <2>1, <3>3, <3>4
  <2>2. CASE PollDecision(h)
    <3>1. "none" \in AuthorizationView
      BY DEF AuthorizationView
    <3>2. ASSUME NEW d \in CurrentFor(t),
                 Goto(h, [at |-> "pollReview", transfer |-> t, decision |-> d])
          PROVE  ClearanceInv'
      BY <1>3, <2>2, <3>2 DEF PollDecision, database, HoldsClearance
    <3>3. CASE Persist(h, t, resolve_transfer_status("REVIEW_PENDING", "none"))
      BY <2>1, <2>2, <3>1, <3>3 DEF PollDecision, database
    <3>. QED
      BY <2>2, <3>2, <3>3 DEF PollDecision
  <2>3. CASE PollReview(h)
    <3>. DEFINE d == job[h].decision
    <3>1. d \in DOMAIN decisions /\ decisions[d].transfer = t
      BY <2>3 DEF PollReview, PointersOf
    <3>2. review[d] \in AuthorizationView
      BY <3>1, ElementOfSeq, LenProperties DEF TypeInv, TypeOK
    <3>3. review[d] = "APPROVED" => Cleared(t)
      BY <3>1, ApprovedIsCleared
    <3>4. Persist(h, t, resolve_transfer_status("REVIEW_PENDING", review[d]))
          /\ UNCHANGED <<status, deployments>>
      BY <2>3 DEF PollReview, database
    <3>. QED
      BY <2>1, <3>2, <3>3, <3>4
  <2>4. CASE PollWrite(h)
    <3>1. t \in Transfers /\ (job[h].target = "ALLOWED" => Cleared(t))
          /\ job[h].target \in {"ALLOWED", "DENIED"}
      BY <2>4, JobFields DEF PollWrite, HoldsClearance
    <3>. QED
      BY <1>1, <1>2, <2>4, <3>1, ClearanceWrites DEF PollWrite
  <2>. QED
    BY <1>7, <2>2, <2>3, <2>4 DEF PollStep
<1>8. ASSUME NEW h \in Handlers, DeployStep(h) PROVE ClearanceInv'
  <2>. job[h] \in Job /\ PointersOf(job[h]) /\ HoldsClearance(job[h])
    BY DEF TypeInv, TypeOK, JobPointers, ClearanceInv
  <2>. DEFINE t == job[h].transfer
  <2>1. CASE DeployDecision(h)
    <3>1. ASSUME NEW d \in CurrentFor(t),
                 Goto(h, [at |-> "deployReview", transfer |-> t,
                          status |-> job[h].status, decision |-> d])
          PROVE  ClearanceInv'
      BY <1>3, <2>1, <3>1 DEF DeployDecision, database, HoldsClearance
    <3>. QED
      BY <1>2, <1>3, <2>1, <3>1 DEF DeployDecision, database
  <2>2. CASE DeployReview(h)
    <3>. DEFINE d == job[h].decision
                allowed == resolve_transfer_status(job[h].status, review[d]).effective
                              = "ALLOWED"
                next == IF allowed
                        THEN [at |-> "deployInsert", transfer |-> t, decision |-> d]
                        ELSE Idle
    <3>1. d \in DOMAIN decisions /\ decisions[d].transfer = t /\ job[h].status \in TransferStatus
      BY <2>2, JobFields DEF DeployReview, PointersOf
    <3>2. review[d] \in AuthorizationView
      BY <3>1, ElementOfSeq, LenProperties DEF TypeInv, TypeOK
    <3>3. allowed => job[h].status = "ALLOWED" \/ review[d] = "APPROVED"
      BY <3>1, <3>2, OnlyTheseMayDeploy
    <3>4. allowed => Cleared(t)
      BY <2>2, <3>1, <3>3, ApprovedIsCleared DEF DeployReview, HoldsClearance
    <3>5. Goto(h, next) /\ UNCHANGED <<status, deployments>>
      BY <2>2 DEF DeployReview, database
    <3>. HIDE DEF allowed
    <3>6. HoldsClearance(next)
      BY <1>2, <3>4 DEF HoldsClearance
    <3>. HIDE DEF next
    <3>. QED
      BY <1>3, <3>5, <3>6
  <2>3. CASE DeployInsert(h)
    <3>1. job[h].decision \in DOMAIN decisions
          /\ decisions[job[h].decision].transfer = t /\ Cleared(t)
      BY <2>3 DEF DeployInsert, PointersOf, HoldsClearance
    <3>2. \A u \in Transfers : status'[u] \in {"ALLOWED", "COMPLETED"} => Cleared(u)
      BY <2>3 DEF DeployInsert, ClearanceInv, AllowedIsJustified
    <3>3. \A d \in deployments' : d \in DOMAIN decisions /\ Cleared(decisions[d].transfer)
      BY <2>3, <3>1 DEF DeployInsert, ClearanceInv, ClearedBeforeDeployment, TypeInv, TypeOK
    <3>4. \A i \in Handlers : HoldsClearance(job'[i])
      BY <2>3, <3>1 DEF DeployInsert, Goto, HoldsClearance, ClearanceInv, TypeInv, TypeOK
    <3>. QED
      BY <1>1, <3>2, <3>3, <3>4, ClearanceCarries
  <2>4. CASE DeployComplete(h)
    <3>1. t \in Transfers /\ Cleared(t)
      BY <2>4, JobFields DEF DeployComplete, HoldsClearance
    <3>. QED
      BY <1>1, <1>2, <2>4, <3>1, ClearanceWrites DEF DeployComplete
  <2>. QED
    BY <1>8, <2>1, <2>2, <2>3, <2>4 DEF DeployStep
<1>9. ASSUME NEW h \in Handlers, Die(h) PROVE ClearanceInv'
  BY <1>2, <1>3, <1>9 DEF Die, database
<1>10. CASE Environment \/ UNCHANGED vars
  BY <1>4, <1>10 DEF Environment, Ingest, UpdateCompany, Expire, vars, database
<1>. QED
  BY <1>5, <1>6, <1>7, <1>8, <1>9, <1>10 DEF Next, HandlerStep

LEMMA InitClearanceInv == Init => ClearanceInv
  BY DEF Init, ClearanceInv, AllowedIsJustified, ClearedBeforeDeployment, HoldsClearance, Idle

LEMMA ClearanceInvariant == Spec => []ClearanceInv
<1>1. TypeInv /\ ReviewInv /\ ClearanceInv /\ [Next]_vars => ClearanceInv'
  BY ClearanceStep
<1>. QED
  BY <1>1, InitClearanceInv, HistoryInvariant, PTL DEF Spec

\* Nothing is ever recorded as deployed that neither the engine nor a reviewer
\* cleared, whatever runs at the same time and whatever dies.
THEOREM DeploymentsAreCleared == Spec => []ClearedBeforeDeployment
<1>1. ClearanceInv => ClearedBeforeDeployment
  BY DEF ClearanceInv
<1>. QED
  BY <1>1, ClearanceInvariant, PTL

\* A stored ALLOWED or COMPLETED always has a clearance behind it, although
\* the polls that store it act on reads of an earlier state.
THEOREM StoredAllowedIsJustified == Spec => []AllowedIsJustified
<1>1. ClearanceInv => AllowedIsJustified
  BY DEF ClearanceInv
<1>. QED
  BY <1>1, ClearanceInvariant, PTL

-----------------------------------------------------------------------------
(***************************************************************************)
(* The history: what the decisions say of the schemas, the reviews and the *)
(* answers they came from.                                                 *)
(***************************************************************************)
\* A handler's new place is the only one that changes.
LEMMA GotoFacts ==
    ASSUME TypeInv, NEW h \in Handlers, NEW next, Goto(h, next)
    PROVE  job'[h] = next /\ \A i \in Handlers \ {h} : job'[i] = job[i]
  BY DEF TypeInv, TypeOK, Goto

\* A handler that only moves its place marker keeps its decision.
LEMMA NextPlace ==
    ASSUME NEW j \in Job, j.at \in {"setStatus", "createReview", "cite", "reply"}, NEW at
    PROVE  [j EXCEPT !.at = at] = [at |-> at, decision |-> j.decision]
  BY JobFields

-----------------------------------------------------------------------------
(***************************************************************************)
(* The residency lock.  A handler reads the lock, the mandate and the      *)
(* identifier of the schema in three transactions; schemas only grow in    *)
(* number, so the lock it decides on is that of a schema no later than the *)
(* one it cites.                                                           *)
(***************************************************************************)
\* What LockIsHardGate says of one decision, and that the schema cited exists.
Gated(row) ==
    /\ row.schema \in 0..Len(schemas[row.entity])
    /\ row.dest \notin QualifiedPairs /\ row.result.outcome # "DENY" =>
          \E v \in 1..row.schema : schemas[row.entity][v] = "none"

HoldsLock(j) ==
    /\ j.at \in {"readCompany", "readSchemaId"} =>
          \E v \in 1..Len(schemas[j.entity]) : schemas[j.entity][v] = j.lock
    /\ j.at = "insertTransfer" => Gated(j)
    /\ j.at \in {"demote", "insertDecision"} /\ j.row.model = "rule_based_engine" => Gated(j.row)

LockInv ==
    /\ \A h \in Handlers : HoldsLock(job[h])
    /\ \A d \in EngineDecisions : Gated(decisions[d])

\* CANONICAL_SCHEMA rows are versions: none is removed or rewritten.
SchemasKept ==
    \A e \in Entities :
        /\ Len(schemas[e]) \in Nat /\ Len(schemas'[e]) \in Nat
        /\ Len(schemas[e]) <= Len(schemas'[e])
        /\ \A v \in 1..Len(schemas[e]) : schemas'[e][v] = schemas[e][v]

LEMMA SameSchemas ==
    ASSUME TypeInv, UNCHANGED schemas
    PROVE  SchemasKept
  BY LenProperties DEF SchemasKept, TypeInv, TypeOK

LEMMA IngestKeepsSchemas ==
    ASSUME TypeInv, NEW e \in Entities, Ingest(e)
    PROVE  SchemasKept
<1>1. PICK lock \in ResidencyLock : schemas' = [schemas EXCEPT ![e] = Append(@, lock)]
  BY LifecycleAssumption DEF Ingest
<1>2. schemas[e] \in Seq(ResidencyLock)
  BY DEF TypeInv, TypeOK
<1>3. /\ Len(Append(schemas[e], lock)) = Len(schemas[e]) + 1
      /\ \A v \in 1..Len(schemas[e]) : Append(schemas[e], lock)[v] = schemas[e][v]
  BY <1>2, AppendProperties
<1>4. schemas'[e] = Append(schemas[e], lock) /\ \A f \in Entities \ {e} : schemas'[f] = schemas[f]
  BY <1>1 DEF TypeInv, TypeOK
<1>5. \A f \in Entities : Len(schemas[f]) \in Nat
  BY LenProperties DEF TypeInv, TypeOK
<1>. QED
  BY <1>3, <1>4, <1>5 DEF SchemasKept

\* Schemas being kept, what was read of them stays so.
LEMMA GatedStays ==
    ASSUME SchemasKept, NEW row, row.entity \in Entities, Gated(row)
    PROVE  Gated(row)'
<1>. DEFINE e == row.entity
<1>1. /\ Len(schemas[e]) \in Nat /\ Len(schemas'[e]) \in Nat
      /\ Len(schemas[e]) <= Len(schemas'[e])
      /\ \A v \in 1..Len(schemas[e]) : schemas'[e][v] = schemas[e][v]
  BY DEF SchemasKept
<1>2. row.schema \in Nat /\ row.schema <= Len(schemas[e])
  BY <1>1 DEF Gated
<1>. QED
  BY <1>1, <1>2 DEF Gated

LEMMA HoldsLockStays ==
    ASSUME SchemasKept, NEW j \in Job, HoldsLock(j)
    PROVE  HoldsLock(j)'
<1>1. ASSUME j.at \in {"readCompany", "readSchemaId"}
      PROVE  \E v \in 1..Len(schemas'[j.entity]) : schemas'[j.entity][v] = j.lock
  <2>1. j.entity \in Entities
    BY <1>1, JobFields
  <2>2. PICK v \in 1..Len(schemas[j.entity]) : schemas[j.entity][v] = j.lock
    BY <1>1 DEF HoldsLock
  <2>. QED
    BY <2>1, <2>2 DEF SchemasKept
<1>2. ASSUME j.at = "insertTransfer" PROVE Gated(j)'
  BY <1>2, JobFields, GatedStays DEF HoldsLock
<1>3. ASSUME j.at \in {"demote", "insertDecision"}, j.row.model = "rule_based_engine"
      PROVE  Gated(j.row)'
  <2>1. j.row.entity \in Entities
    BY <1>3, JobFields DEF Decision
  <2>. QED
    BY <1>3, <2>1, GatedStays DEF HoldsLock
<1>. QED
  BY <1>1, <1>2, <1>3 DEF HoldsLock

\* A handler moves on and inserts no decision.
LEMMA LockMoves ==
    ASSUME TypeInv, LockInv, NEW h \in Handlers, NEW next, Goto(h, next), HoldsLock(next),
           UNCHANGED <<schemas, decisions>>
    PROVE  LockInv'
<1>. SchemasKept
  BY SameSchemas
<1>1. ASSUME NEW i \in Handlers PROVE HoldsLock(job[i])'
  <2>1. CASE i = h
    BY <2>1, GotoFacts DEF HoldsLock, Gated
  <2>2. CASE i # h
    <3>1. PICK j \in Job : j = job[i] /\ HoldsLock(j)
      BY DEF LockInv, TypeInv, TypeOK
    <3>2. HoldsLock(j)'
      BY <3>1, HoldsLockStays
    <3>3. job'[i] = j
      BY <2>2, <3>1, GotoFacts
    <3>. QED
      BY <3>2, <3>3 DEF HoldsLock, Gated
  <2>. QED
    BY <2>1, <2>2
<1>2. ASSUME NEW d \in EngineDecisions' PROVE Gated(decisions[d])'
  <2>1. d \in EngineDecisions /\ d \in DOMAIN decisions
    BY <1>2 DEF EngineDecisions
  <2>2. PICK row \in Decision : row = decisions[d] /\ Gated(row)
    BY <2>1, ElementOfSeq, LenProperties DEF LockInv, TypeInv, TypeOK
  <2>3. Gated(row)'
    BY <2>2, GatedStays DEF Decision
  <2>. QED
    BY <2>2, <2>3 DEF Gated
<1>. QED
  BY <1>1, <1>2 DEF LockInv

LEMMA LockInsert ==
    ASSUME TypeInv, LockInv, NEW h \in Handlers, InsertDecision(h)
    PROVE  LockInv'
<1>. PICK l \in Job : l = job[h] /\ HoldsLock(l)
  BY DEF LockInv, TypeInv, TypeOK
<1>. DEFINE n == Len(decisions) + 1
            next == IF l.row.model = "rule_based_engine"
                    THEN [at |-> "setStatus", decision |-> n] ELSE Idle
<1>1. job'[h] = next /\ \A i \in Handlers \ {h} : job'[i] = job[i]
  BY GotoFacts DEF InsertDecision
<1>2. SchemasKept /\ UNCHANGED schemas
  BY SameSchemas DEF InsertDecision
<1>3. ASSUME NEW i \in Handlers PROVE HoldsLock(job[i])'
  <2>1. CASE i = h
    BY <1>1, <2>1 DEF HoldsLock, Idle
  <2>2. CASE i # h
    <3>1. PICK j \in Job : j = job[i] /\ HoldsLock(j)
      BY DEF LockInv, TypeInv, TypeOK
    <3>2. HoldsLock(j)' /\ job'[i] = j
      BY <1>1, <1>2, <2>2, <3>1, HoldsLockStays
    <3>. QED
      BY <3>2 DEF HoldsLock, Gated
  <2>. QED
    BY <2>1, <2>2
<1>4. ASSUME NEW d \in EngineDecisions' PROVE Gated(decisions[d])'
  <2>1. PICK row : row = decisions'[d]
    OBVIOUS
  <2>3. /\ row.model = "rule_based_engine"
        /\ row = l.row \/ (d \in DOMAIN decisions /\ row = decisions[d])
    <3>1. d \in DOMAIN decisions' /\ row.model = "rule_based_engine"
      BY <1>4, <2>1 DEF EngineDecisions
    <3>2. \A i \in DOMAIN decisions' :
              decisions'[i] = job[h].row \/ (i \in DOMAIN decisions /\ decisions'[i] = decisions[i])
      BY InsertFacts DEF TypeInv
    <3>. QED
      BY <2>1, <3>1, <3>2
  <2>2. Gated(row)
    <3>1. CASE row = l.row
      BY <2>3, <3>1 DEF InsertDecision, HoldsLock
    <3>2. CASE d \in DOMAIN decisions /\ row = decisions[d]
      BY <2>1, <2>3, <3>2 DEF LockInv, EngineDecisions
    <3>. QED
      BY <2>3, <3>1, <3>2
  <2>. QED
    BY <1>2, <2>1, <2>2 DEF Gated
<1>. QED
  BY <1>3, <1>4 DEF LockInv

\* The engine lets a destination without a provider past only if nothing locks.
LEMMA UngatedMeansUnlocked ==
    ASSUME NEW lock \in ResidencyLock, NEW flag \in BOOLEAN, NEW dest,
           dest \notin QualifiedPairs, decide_transfer(lock, flag, dest).outcome # "DENY"
    PROVE  lock = "none"
  BY ResidencyLockIsAHardGate

LEMMA LockStep ==
    ASSUME TypeInv, LockInv, [Next]_vars
    PROVE  LockInv'
<1>1. ASSUME NEW h \in Handlers, NEW next, Goto(h, next), UNCHANGED <<schemas, decisions>>,
             next.at \notin {"readCompany", "readSchemaId", "insertTransfer",
                             "demote", "insertDecision"}
      PROVE  LockInv'
  BY <1>1, LockMoves DEF HoldsLock
<1>2. ASSUME NEW h \in Handlers, Goto(h, Idle), UNCHANGED <<schemas, decisions>>
      PROVE  LockInv'
  BY <1>1, <1>2 DEF Idle
<1>3. ASSUME UNCHANGED <<decisions, job>>, SchemasKept PROVE LockInv'
  <2>1. ASSUME NEW i \in Handlers PROVE HoldsLock(job[i])'
    <3>1. PICK j \in Job : j = job[i] /\ HoldsLock(j)
      BY DEF LockInv, TypeInv, TypeOK
    <3>2. HoldsLock(j)'
      BY <1>3, <3>1, HoldsLockStays
    <3>. QED
      BY <1>3, <3>1, <3>2 DEF HoldsLock, Gated
  <2>2. ASSUME NEW d \in EngineDecisions' PROVE Gated(decisions[d])'
    <3>1. d \in EngineDecisions /\ d \in DOMAIN decisions
      BY <1>3, <2>2 DEF EngineDecisions
    <3>2. PICK row \in Decision : row = decisions[d] /\ Gated(row)
      BY <3>1, ElementOfSeq, LenProperties DEF LockInv, TypeInv, TypeOK
    <3>3. Gated(row)'
      BY <1>3, <3>2, GatedStays DEF Decision
    <3>. QED
      BY <1>3, <3>2, <3>3 DEF Gated
  <2>. QED
    BY <2>1, <2>2 DEF LockInv
<1>4. ASSUME NEW h \in Handlers, Request(h) PROVE LockInv'
  <2>1. ASSUME NEW e \in Entities, NEW dest \in Destinations, ReadClassification(h, e, dest)
        PROVE  LockInv'
    <3>. DEFINE next == [at |-> "readCompany", entity |-> e, dest |-> dest,
                         lock |-> schemas[e][Len(schemas[e])]]
    <3>1. Len(schemas[e]) \in 1..Len(schemas[e])
      <4>1. schemas[e] \in Seq(ResidencyLock) /\ schemas[e] # <<>>
        BY <2>1 DEF ReadClassification, TypeInv, TypeOK
      <4>. QED
        BY <4>1, EmptySeq, LenProperties
    <3>2. Goto(h, next) /\ UNCHANGED <<schemas, decisions>>
      BY <2>1 DEF ReadClassification, database
    <3>3. HoldsLock(next)
      BY <3>1, <3>2 DEF HoldsLock
    <3>. HIDE DEF next
    <3>. QED
      BY <3>2, <3>3, LockMoves
  <2>2. ASSUME NEW t \in Transfers, PollTransfer(h, t) \/ DeployTransfer(h, t) PROVE LockInv'
    BY <1>1, <2>2 DEF PollTransfer, DeployTransfer, database
  <2>3. ASSUME NEW d \in DOMAIN decisions, NEW ruling \in Rulings, ResolveReview(h, d, ruling)
        PROVE  LockInv'
    <3>. DEFINE row == [decisions[d] EXCEPT !.model = "human_reviewer",
                                            !.result = HumanResult(ruling)]
                next == [at |-> "demote", row |-> row]
    <3>1. decisions[d] \in Decision
      BY ElementOfSeq, LenProperties DEF TypeInv, TypeOK
    <3>2. row.model = "human_reviewer"
      BY <3>1 DEF Decision
    <3>3. Goto(h, next) /\ UNCHANGED <<schemas, decisions>>
      BY <2>3 DEF ResolveReview
    <3>. HIDE DEF row
    <3>4. HoldsLock(next)
      BY <3>2 DEF HoldsLock
    <3>. HIDE DEF next
    <3>. QED
      BY <3>3, <3>4, LockMoves
  <2>. QED
    BY <1>4, <2>1, <2>2, <2>3 DEF Request
<1>5. ASSUME NEW h \in Handlers, TransferStep(h) PROVE LockInv'
  <2>. PICK j \in Job : j = job[h] /\ HoldsLock(j)
    BY DEF LockInv, TypeInv, TypeOK
  <2>1. CASE ReadCompany(h)
    <3>. DEFINE next == [at |-> "readSchemaId", entity |-> j.entity, dest |-> j.dest,
                         lock |-> j.lock, mandated |-> mandated]
    <3>1. Goto(h, next) /\ UNCHANGED <<schemas, decisions>> /\ j.at = "readCompany"
      BY <2>1 DEF ReadCompany, database
    <3>2. HoldsLock(next)
      BY <3>1 DEF HoldsLock
    <3>. HIDE DEF next
    <3>. QED
      BY <3>1, <3>2, LockMoves
  <2>2. CASE ReadSchemaId(h)
    <3>. DEFINE result == decide_transfer(j.lock, j.mandated, j.dest)
                next == [at |-> "insertTransfer", entity |-> j.entity, dest |-> j.dest,
                         schema |-> Len(schemas[j.entity]), result |-> result]
    <3>1. Goto(h, next) /\ UNCHANGED <<schemas, decisions>> /\ j.at = "readSchemaId"
      BY <2>2 DEF ReadSchemaId, database
    <3>2. /\ j.entity \in Entities /\ j.lock \in ResidencyLock /\ j.mandated \in BOOLEAN
          /\ \E v \in 1..Len(schemas[j.entity]) : schemas[j.entity][v] = j.lock
      BY <3>1, JobFields DEF HoldsLock
    <3>3. j.dest \notin QualifiedPairs /\ result.outcome # "DENY" => j.lock = "none"
      BY <3>2, UngatedMeansUnlocked
    <3>4. Len(schemas[j.entity]) \in Nat
      BY <3>2, LenProperties DEF TypeInv, TypeOK
    <3>. HIDE DEF result
    <3>5. HoldsLock(next)
      BY <3>1, <3>2, <3>3, <3>4 DEF HoldsLock, Gated
    <3>. HIDE DEF next
    <3>. QED
      BY <3>1, <3>5, LockMoves
  <2>3. ASSUME NEW t \in Transfers, InsertTransfer(h, t) PROVE LockInv'
    <3>. DEFINE row == [transfer |-> t, entity |-> j.entity, dest |-> j.dest,
                        schema |-> j.schema, model |-> "rule_based_engine",
                        result |-> j.result]
                next == [at |-> "demote", row |-> row]
    <3>1. Goto(h, next) /\ UNCHANGED <<schemas, decisions>> /\ j.at = "insertTransfer"
      BY <2>3 DEF InsertTransfer
    <3>2. Gated(row)
      BY <3>1 DEF HoldsLock, Gated
    <3>. HIDE DEF row
    <3>3. HoldsLock(next)
      BY <3>2 DEF HoldsLock
    <3>. HIDE DEF next
    <3>. QED
      BY <3>1, <3>3, LockMoves
  <2>4. CASE InsertTransferFails(h)
    BY <1>2, <2>4 DEF InsertTransferFails, database
  <2>5. CASE Demote(h)
    <3>. DEFINE seen == {d \in current : decisions[d].entity = j.row.entity}
                next == [at |-> "insertDecision", row |-> j.row, seen |-> seen]
    <3>1. Goto(h, next) /\ UNCHANGED <<schemas, decisions>> /\ j.at = "demote"
      BY <2>5 DEF Demote, database
    <3>2. HoldsLock(next)
      BY <3>1 DEF HoldsLock, Gated
    <3>. HIDE DEF next
    <3>. QED
      BY <3>1, <3>2, LockMoves
  <2>6. CASE InsertDecision(h)
    BY <2>6, LockInsert
  <2>7. CASE SetStatus(h)
    BY <1>1, <2>7 DEF SetStatus
  <2>8. CASE CreateReview(h)
    <3>. DEFINE next == [job[h] EXCEPT !.at = "cite"]
    <3>1. Goto(h, next) /\ UNCHANGED <<schemas, decisions>>
      BY <2>8 DEF CreateReview
    <3>2. next.at = "cite"
      BY <2>8, NextPlace DEF CreateReview
    <3>. HIDE DEF next
    <3>. QED
      BY <1>1, <3>1, <3>2
  <2>9. CASE Cite(h)
    <3>. DEFINE next == [job[h] EXCEPT !.at = "reply"]
    <3>1. Goto(h, next) /\ UNCHANGED <<schemas, decisions>>
      BY <2>9 DEF Cite
    <3>2. next.at = "reply"
      BY <2>9, NextPlace DEF Cite
    <3>. HIDE DEF next
    <3>. QED
      BY <1>1, <3>1, <3>2
  <2>10. CASE Reply(h)
    BY <1>2, <2>10 DEF Reply, database
  <2>. QED
    BY <1>5, <2>1, <2>2, <2>3, <2>4, <2>5, <2>6, <2>7, <2>8, <2>9, <2>10 DEF TransferStep
<1>6. ASSUME NEW h \in Handlers, PollStep(h) \/ DeployStep(h) PROVE LockInv'
  <2>1. ASSUME NEW t, NEW r, Persist(h, t, r), UNCHANGED <<schemas, decisions>> PROVE LockInv'
    BY <1>1, <1>2, <2>1 DEF Persist
  <2>2. CASE PollDecision(h)
    BY <1>1, <2>1, <2>2 DEF PollDecision, database
  <2>3. CASE PollReview(h)
    BY <2>1, <2>3 DEF PollReview, database
  <2>4. CASE PollWrite(h)
    BY <1>2, <2>4 DEF PollWrite
  <2>5. CASE DeployDecision(h)
    BY <1>1, <1>2, <2>5 DEF DeployDecision, database
  <2>6. CASE DeployReview(h)
    BY <1>1, <1>2, <2>6 DEF DeployReview, database
  <2>7. CASE DeployInsert(h)
    BY <1>1, <2>7 DEF DeployInsert
  <2>8. CASE DeployComplete(h)
    BY <1>2, <2>8 DEF DeployComplete
  <2>. QED
    BY <1>6, <2>2, <2>3, <2>4, <2>5, <2>6, <2>7, <2>8 DEF PollStep, DeployStep
<1>7. ASSUME NEW h \in Handlers, Die(h) PROVE LockInv'
  BY <1>2, <1>7 DEF Die, database
<1>8. ASSUME NEW e \in Entities, Ingest(e) PROVE LockInv'
  BY <1>3, <1>8, IngestKeepsSchemas DEF Ingest
<1>9. ASSUME UNCHANGED <<schemas, decisions, job>> PROVE LockInv'
  BY <1>3, <1>9, SameSchemas
<1>10. CASE Environment \/ UNCHANGED vars
  BY <1>8, <1>9, <1>10 DEF Environment, UpdateCompany, Expire, vars, database
<1>. QED
  BY <1>4, <1>5, <1>6, <1>7, <1>10 DEF Next, HandlerStep

LEMMA InitLockInv == Init => LockInv
  BY EmptySeq DEF Init, LockInv, HoldsLock, Idle, EngineDecisions

\* No schedule of ingestions, edits of the company and requests makes the engine let
\* an entity past the residency gate that every schema up to the one cited locks.
THEOREM TheLockHolds == Spec => []LockIsHardGate
<1>1. TypeInv /\ LockInv /\ [Next]_vars => LockInv'
  BY LockStep
<1>2. LockInv => LockIsHardGate
  BY DEF LockInv, LockIsHardGate, Gated
<1>3. Spec => [](TypeInv /\ ReviewInv)
  BY HistoryInvariant
<1>. QED
  BY <1>1, <1>2, <1>3, InitLockInv, PTL DEF Spec

-----------------------------------------------------------------------------
(***************************************************************************)
(* Rulings.  Each transfer has one decision of the engine, since only the  *)
(* request that drew its identifier decides it; so its one review can be   *)
(* won once, and the winner alone inserts the human's decision, about the  *)
(* entity whose current decisions it has seen.                             *)
(***************************************************************************)
Inserting(j) == j.at \in {"demote", "insertDecision"}

Deciding(j) == Inserting(j) /\ j.row.model = "rule_based_engine"

Recording(j) == Inserting(j) /\ j.row.model = "human_reviewer"

\* The row repeats the verdict of a review of its transfer.
AboutReview(row) ==
    \E o \in EngineDecisions :
        /\ decisions[o].transfer = row.transfer
        /\ decisions[o].entity = row.entity
        /\ review[o] \in {"APPROVED", "REJECTED"}
        /\ row.result = HumanResult(review[o])

Fresh(row) ==
    /\ status[row.transfer] # "absent"
    /\ \A d \in DOMAIN decisions : decisions[d].transfer # row.transfer

Owed(row) ==
    /\ AboutReview(row)
    /\ \A d \in HumanDecisions : decisions[d].transfer # row.transfer

RulingInv ==
    /\ \A d \in EngineDecisions : status[decisions[d].transfer] # "absent"
    /\ \A d1, d2 \in EngineDecisions :
          decisions[d1].transfer = decisions[d2].transfer => d1 = d2
    /\ \A d \in HumanDecisions : AboutReview(decisions[d])
    /\ \A d1, d2 \in HumanDecisions :
          decisions[d1].transfer = decisions[d2].transfer => d1 = d2
    /\ \A h \in Handlers : Deciding(job[h]) => Fresh(job[h].row)
    /\ \A h \in Handlers : Recording(job[h]) => Owed(job[h].row)
    /\ \A h, i \in Handlers :
          h # i /\ Inserting(job[h]) /\ Inserting(job[i])
            /\ job[h].row.model = job[i].row.model =>
              job[h].row.transfer # job[i].row.transfer

\* An identifier that was drawn stays drawn.
StatusKept ==
    \A t \in Transfers : status[t] # "absent" => status'[t] # "absent"

\* A verdict, once given, stays.
LEMMA AboutReviewStays ==
    ASSUME HistoryKept, NEW row, AboutReview(row)
    PROVE  AboutReview(row)'
<1>1. PICK o \in EngineDecisions :
          /\ decisions[o].transfer = row.transfer
          /\ decisions[o].entity = row.entity
          /\ review[o] \in {"APPROVED", "REJECTED"}
          /\ row.result = HumanResult(review[o])
  BY DEF AboutReview
<1>2. o \in DOMAIN decisions
  BY DEF EngineDecisions
<1>3. o \in DOMAIN decisions' /\ decisions'[o] = decisions[o] /\ review'[o] = review[o]
  BY <1>1, <1>2 DEF HistoryKept
<1>. QED
  BY <1>1, <1>3 DEF AboutReview, EngineDecisions

LEMMA RowTypes ==
    ASSUME TypeInv
    PROVE  /\ \A d \in DOMAIN decisions :
                 decisions[d] \in Decision /\ decisions[d].transfer \in Transfers
           /\ \A h \in Handlers : Inserting(job[h]) =>
                 job[h].row \in Decision /\ job[h].row.transfer \in Transfers
<1>1. \A d \in DOMAIN decisions : decisions[d] \in Decision
  BY ElementOfSeq, LenProperties DEF TypeInv, TypeOK
<1>2. \A h \in Handlers : Inserting(job[h]) => job[h].row \in Decision
  BY JobFields DEF TypeInv, TypeOK, Inserting
<1>. QED
  BY <1>1, <1>2 DEF Decision

\* Steps that insert no decision and begin no insertion.
LEMMA RulingCarries ==
    ASSUME TypeInv, RulingInv, HistoryKept, StatusKept, UNCHANGED decisions,
           \A i \in Handlers : Inserting(job'[i]) =>
               Inserting(job[i]) /\ job'[i].row = job[i].row
    PROVE  RulingInv'
<1>1. UNCHANGED <<EngineDecisions, HumanDecisions>>
  BY DEF EngineDecisions, HumanDecisions
<1>2. \A row : AboutReview(row) => AboutReview(row)'
  BY AboutReviewStays
<1>3. \A d \in EngineDecisions : status'[decisions[d].transfer] # "absent"
  BY RowTypes DEF RulingInv, StatusKept, EngineDecisions
<1>4. \A d \in HumanDecisions : AboutReview(decisions[d])'
  BY <1>2 DEF RulingInv, AboutReview, EngineDecisions
<1>5. ASSUME NEW i \in Handlers, Deciding(job'[i]) PROVE Fresh(job[i].row)'
  <2>1. Fresh(job[i].row) /\ job'[i].row = job[i].row /\ job[i].row.transfer \in Transfers
    BY <1>5, RowTypes DEF RulingInv, Deciding
  <2>. QED
    BY <2>1 DEF Fresh, StatusKept
<1>6. ASSUME NEW i \in Handlers, Recording(job'[i]) PROVE Owed(job[i].row)'
  <2>1. PICK row : row = job[i].row /\ job'[i].row = row /\ Owed(row)
    BY <1>6 DEF RulingInv, Recording
  <2>2. AboutReview(row)'
    BY <1>2, <2>1 DEF Owed
  <2>. QED
    BY <1>1, <2>1, <2>2 DEF Owed, AboutReview
<1>. QED
  BY <1>1, <1>3, <1>4, <1>5, <1>6 DEF RulingInv, Deciding, Recording

\* One handler moves on, to a place where it inserts nothing or what it already held.
LEMMA RulingMoves ==
    ASSUME TypeInv, RulingInv, HistoryKept, StatusKept, NEW h \in Handlers, NEW next,
           Goto(h, next), UNCHANGED decisions,
           Inserting(next) => Inserting(job[h]) /\ next.row = job[h].row
    PROVE  RulingInv'
<1>1. \A i \in Handlers : Inserting(job'[i]) => Inserting(job[i]) /\ job'[i].row = job[i].row
  BY GotoFacts
<1>. QED
  BY <1>1, RulingCarries

LEMMA RulingInsertTransfer ==
    ASSUME TypeInv, RulingInv, HistoryKept, NEW h \in Handlers, NEW t \in Transfers,
           InsertTransfer(h, t)
    PROVE  RulingInv'
<1>. DEFINE row == [transfer |-> t, entity |-> job[h].entity, dest |-> job[h].dest,
                    schema |-> job[h].schema, model |-> "rule_based_engine",
                    result |-> job[h].result]
            next == [at |-> "demote", row |-> row]
<1>1. job'[h] = next /\ \A i \in Handlers \ {h} : job'[i] = job[i]
  BY GotoFacts DEF InsertTransfer
<1>2. row.transfer = t /\ row.model = "rule_based_engine" /\ next.row = row
  OBVIOUS
<1>. HIDE DEF row, next
<1>3. /\ status[t] = "absent" /\ status'[t] # "absent"
      /\ \A u \in Transfers \ {t} : status'[u] = status[u]
      /\ UNCHANGED <<decisions, review>>
  BY DEF InsertTransfer, TypeInv, TypeOK
<1>4. \A d \in DOMAIN decisions : decisions[d].transfer # t
  <2>1. \A d \in EngineDecisions : decisions[d].transfer # t
    BY <1>3 DEF RulingInv
  <2>2. \A d \in HumanDecisions : decisions[d].transfer # t
    BY <2>1 DEF RulingInv, AboutReview
  <2>. QED
    BY <2>1, <2>2, RowTypes DEF EngineDecisions, HumanDecisions, Decision
<1>5. UNCHANGED <<EngineDecisions, HumanDecisions>>
  BY <1>3 DEF EngineDecisions, HumanDecisions
<1>6. \A r : AboutReview(r)' <=> AboutReview(r)
  BY <1>3, <1>5 DEF AboutReview
<1>7. \A i \in Handlers \ {h} : Deciding(job[i]) => job[i].row.transfer # t
  BY <1>3 DEF RulingInv, Fresh
<1>8. ASSUME NEW i \in Handlers, Deciding(job'[i]) PROVE Fresh(job[i].row)'
  <2>1. CASE i = h
    BY <1>1, <1>2, <1>3, <1>4, <2>1 DEF Fresh
  <2>2. CASE i # h
    BY <1>1, <1>3, <1>7, <1>8, <2>2, RowTypes DEF Fresh, RulingInv, Deciding
  <2>. QED
    BY <2>1, <2>2
<1>9. ASSUME NEW i \in Handlers, Recording(job'[i]) PROVE Owed(job[i].row)'
  <2>1. i # h /\ job'[i] = job[i] /\ Owed(job[i].row)
    BY <1>1, <1>2, <1>9 DEF Recording, RulingInv
  <2>. QED
    BY <1>3, <1>5, <1>6, <2>1 DEF Owed, AboutReview
<1>10. ASSUME NEW i \in Handlers, NEW k \in Handlers, i # k, Inserting(job'[i]),
              Inserting(job'[k]), job'[i].row.model = job'[k].row.model
       PROVE  job'[i].row.transfer # job'[k].row.transfer
  BY <1>1, <1>2, <1>7, <1>10 DEF RulingInv, Deciding
<1>11. \A d \in EngineDecisions : status'[decisions[d].transfer] # "absent"
  BY <1>3, RowTypes DEF RulingInv, EngineDecisions
<1>. QED
  BY <1>3, <1>5, <1>6, <1>8, <1>9, <1>10, <1>11 DEF RulingInv, AboutReview

\* Who closes the review is the only one who ever does, so nothing is recorded of it yet.
LEMMA RulingResolve ==
    ASSUME TypeInv, ReviewInv, RulingInv, HistoryKept, NEW h \in Handlers,
           NEW d \in DOMAIN decisions, NEW ruling \in Rulings, ResolveReview(h, d, ruling)
    PROVE  RulingInv'
<1>. PICK row : row = [decisions[d] EXCEPT !.model = "human_reviewer",
                                           !.result = HumanResult(ruling)]
  OBVIOUS
<1>. DEFINE next == [at |-> "demote", row |-> row]
<1>1. job'[h] = next /\ \A i \in Handlers \ {h} : job'[i] = job[i]
  BY GotoFacts DEF ResolveReview
<1>2. /\ row.transfer = decisions[d].transfer /\ row.entity = decisions[d].entity
      /\ row.model = "human_reviewer" /\ row.result = HumanResult(ruling)
      /\ next.row = row
  BY RowTypes DEF Decision
<1>. HIDE DEF next
<1>3. d \in EngineDecisions /\ review[d] = "PENDING" /\ ruling \in {"APPROVED", "REJECTED"}
  BY LifecycleAssumption DEF ResolveReview, ReviewInv
<1>4. review'[d] = ruling /\ UNCHANGED <<decisions, status>>
  <2>1. \A i \in DOMAIN decisions : review'[i] = IF i = d THEN ruling ELSE review[i]
    BY <1>3, ReviewFacts DEF ResolveReview, TypeInv, AuthorizationView
  <2>. QED
    BY <2>1 DEF ResolveReview
<1>5. UNCHANGED <<EngineDecisions, HumanDecisions>>
  BY <1>4 DEF EngineDecisions, HumanDecisions
<1>6. \A r : AboutReview(r) => AboutReview(r)'
  BY AboutReviewStays
<1>7. AboutReview(row)'
  BY <1>2, <1>3, <1>4, <1>5 DEF AboutReview
<1>8. \A r : AboutReview(r) => r.transfer # row.transfer
  BY <1>2, <1>3 DEF AboutReview, RulingInv
<1>9. ASSUME NEW i \in Handlers, Recording(job'[i]) PROVE Owed(job[i].row)'
  <2>1. CASE i = h
    <3>1. \A e \in HumanDecisions : decisions[e].transfer # row.transfer
      BY <1>8 DEF RulingInv
    <3>2. job'[i].row = row
      BY <1>1, <1>2, <2>1
    <3>. QED
      BY <1>4, <1>5, <1>7, <3>1, <3>2 DEF Owed, AboutReview
  <2>2. CASE i # h
    <3>1. PICK r : r = job[i].row /\ Owed(r) /\ job'[i].row = r
      BY <1>1, <1>9, <2>2 DEF RulingInv, Recording
    <3>2. AboutReview(r)'
      BY <1>6, <3>1 DEF Owed
    <3>. QED
      BY <1>4, <1>5, <3>1, <3>2 DEF Owed, AboutReview
  <2>. QED
    BY <2>1, <2>2
<1>10. ASSUME NEW i \in Handlers, Deciding(job'[i]) PROVE Fresh(job[i].row)'
  <2>1. i # h
    BY <1>1, <1>2, <1>10 DEF Deciding
  <2>. QED
    BY <1>1, <1>4, <1>10, <2>1 DEF Fresh, RulingInv, Deciding
<1>11. \A i \in Handlers \ {h} : Recording(job[i]) => job[i].row.transfer # row.transfer
  BY <1>8 DEF RulingInv, Owed
<1>12. ASSUME NEW i \in Handlers, NEW k \in Handlers, i # k, Inserting(job'[i]),
              Inserting(job'[k]), job'[i].row.model = job'[k].row.model
       PROVE  job'[i].row.transfer # job'[k].row.transfer
  <2>1. CASE i # h /\ k # h
    BY <1>1, <1>12, <2>1 DEF RulingInv
  <2>2. CASE i = h
    BY <1>1, <1>2, <1>11, <1>12, <2>2 DEF Recording
  <2>3. CASE k = h
    BY <1>1, <1>2, <1>11, <1>12, <2>3 DEF Recording
  <2>. QED
    BY <2>1, <2>2, <2>3
<1>13. \A e \in HumanDecisions : AboutReview(decisions[e])'
  BY <1>4, <1>6 DEF RulingInv, AboutReview
<1>. QED
  BY <1>4, <1>5, <1>9, <1>10, <1>12, <1>13 DEF RulingInv, AboutReview

LEMMA RulingInsertDecision ==
    ASSUME TypeInv, RulingInv, HistoryKept, NEW h \in Handlers, InsertDecision(h)
    PROVE  RulingInv'
<1>. DEFINE n == Len(decisions) + 1
            next == IF job[h].row.model = "rule_based_engine"
                    THEN [at |-> "setStatus", decision |-> n] ELSE Idle
<1>1. job'[h] = next /\ \A i \in Handlers \ {h} : job'[i] = job[i]
  BY GotoFacts DEF InsertDecision
<1>2. ~Inserting(next)
  BY DEF Inserting, Idle
<1>. HIDE DEF next
<1>. PICK row \in Decision : row = job[h].row
  BY RowTypes DEF InsertDecision, Inserting
<1>3. /\ n \notin DOMAIN decisions
      /\ DOMAIN decisions' = DOMAIN decisions \cup {n}
      /\ \A d \in DOMAIN decisions : decisions'[d] = decisions[d] /\ review'[d] = review[d]
      /\ decisions'[n] = row
  <2>1. /\ Len(decisions) \in Nat
        /\ DOMAIN decisions = 1..Len(decisions)
        /\ DOMAIN decisions' = 1..(Len(decisions) + 1)
    BY InsertFacts DEF TypeInv
  <2>2. \A i \in 1..Len(decisions) : decisions'[i] = decisions[i] /\ review'[i] = review[i]
    BY InsertFacts DEF TypeInv
  <2>3. decisions'[n] = row
    BY InsertFacts DEF TypeInv
  <2>4. 1..(Len(decisions) + 1) = 1..Len(decisions) \cup {n}
    BY <2>1
  <2>. QED
    BY <2>1, <2>2, <2>3, <2>4
<1>. HIDE DEF n
<1>4. UNCHANGED status
  BY DEF InsertDecision
<1>5. row.model \in {"rule_based_engine", "human_reviewer"}
  BY DEF Decision
<1>6. /\ row.model = "rule_based_engine" =>
            /\ Fresh(row)
            /\ EngineDecisions' = EngineDecisions \cup {n}
            /\ HumanDecisions' = HumanDecisions
      /\ row.model = "human_reviewer" =>
            /\ Owed(row)
            /\ EngineDecisions' = EngineDecisions
            /\ HumanDecisions' = HumanDecisions \cup {n}
  <2>1. ASSUME row.model = "rule_based_engine" PROVE Fresh(row)
    BY <2>1 DEF RulingInv, Deciding, Inserting, InsertDecision
  <2>2. ASSUME row.model = "human_reviewer" PROVE Owed(row)
    BY <2>2 DEF RulingInv, Recording, Inserting, InsertDecision
  <2>. QED
    BY <1>3, <2>1, <2>2 DEF EngineDecisions, HumanDecisions
<1>7. EngineDecisions \subseteq DOMAIN decisions /\ HumanDecisions \subseteq DOMAIN decisions
  BY DEF EngineDecisions, HumanDecisions
<1>8. \A r : AboutReview(r) => AboutReview(r)'
  BY AboutReviewStays
<1>9. \A d \in HumanDecisions' : AboutReview(decisions[d])'
  <2>1. ASSUME NEW d \in HumanDecisions', NEW r, r = decisions'[d], AboutReview(r)'
        PROVE  AboutReview(decisions[d])'
    BY <2>1 DEF AboutReview
  <2>2. ASSUME NEW d \in HumanDecisions PROVE AboutReview(decisions'[d])
    BY <1>3, <1>7, <2>2 DEF RulingInv
  <2>3. row.model = "human_reviewer" => AboutReview(row)
    BY <1>6 DEF Owed
  <2>4. ASSUME NEW d \in HumanDecisions' PROVE \E r : r = decisions'[d] /\ AboutReview(r)'
    BY <1>3, <1>5, <1>6, <1>8, <2>2, <2>3, <2>4
  <2>. QED
    BY <2>1, <2>4
<1>10. \A d1, d2 \in EngineDecisions' :
          decisions'[d1].transfer = decisions'[d2].transfer => d1 = d2
  BY <1>3, <1>5, <1>6, <1>7 DEF RulingInv, Fresh
<1>11. \A d1, d2 \in HumanDecisions' :
          decisions'[d1].transfer = decisions'[d2].transfer => d1 = d2
  BY <1>3, <1>5, <1>6, <1>7 DEF RulingInv, Owed
<1>12. \A d \in EngineDecisions' : status'[decisions'[d].transfer] # "absent"
  BY <1>3, <1>4, <1>5, <1>6, <1>7 DEF RulingInv, Fresh
<1>13. ASSUME NEW i \in Handlers, Inserting(job'[i])
       PROVE  i # h /\ job'[i] = job[i] /\ job[i].row \in Decision
  BY <1>1, <1>2, <1>13, RowTypes
<1>14. ASSUME NEW i \in Handlers, Deciding(job'[i]) PROVE Fresh(job[i].row)'
  <2>1. i # h /\ job'[i] = job[i] /\ Fresh(job[i].row)
    BY <1>13, <1>14 DEF RulingInv, Deciding
  <2>2. job[i].row.transfer # row.transfer
    <3>1. CASE row.model = "rule_based_engine"
      BY <1>14, <2>1, <3>1 DEF RulingInv, Deciding, Inserting, InsertDecision
    <3>2. CASE row.model = "human_reviewer"
      BY <1>6, <1>7, <2>1, <3>2 DEF Owed, AboutReview, Fresh
    <3>. QED
      BY <1>5, <3>1, <3>2
  <2>. QED
    BY <1>3, <1>4, <2>1, <2>2 DEF Fresh
<1>15. ASSUME NEW i \in Handlers, Recording(job'[i]) PROVE Owed(job[i].row)'
  <2>1. PICK r : r = job[i].row /\ job'[i].row = r /\ Owed(r) /\ i # h
    BY <1>13, <1>15 DEF RulingInv, Recording
  <2>2. row.model = "human_reviewer" => r.transfer # row.transfer
    BY <1>13, <1>15, <2>1 DEF RulingInv, Recording, Inserting, InsertDecision
  <2>3. AboutReview(r)'
    BY <1>8, <2>1 DEF Owed
  <2>4. \A d \in HumanDecisions' : decisions'[d].transfer # r.transfer
    BY <1>3, <1>5, <1>6, <1>7, <2>1, <2>2 DEF Owed
  <2>. QED
    BY <2>1, <2>3, <2>4 DEF Owed, AboutReview
<1>16. ASSUME NEW i \in Handlers, NEW k \in Handlers, i # k, Inserting(job'[i]),
              Inserting(job'[k]), job'[i].row.model = job'[k].row.model
       PROVE  job'[i].row.transfer # job'[k].row.transfer
  BY <1>13, <1>16 DEF RulingInv
<1>. QED
  BY <1>9, <1>10, <1>11, <1>12, <1>14, <1>15, <1>16 DEF RulingInv

LEMMA RulingStep ==
    ASSUME TypeInv, ReviewInv, RulingInv, [Next]_vars
    PROVE  RulingInv' /\ StatusKept
<1>. HistoryKept
  BY ReviewStep
<1>1. ASSUME UNCHANGED status PROVE StatusKept
  BY <1>1 DEF StatusKept
<1>2. ASSUME NEW t \in Transfers, NEW s, s # "absent", status' = [status EXCEPT ![t] = s]
      PROVE  StatusKept
  BY <1>2 DEF StatusKept, TypeInv, TypeOK
<1>3. ASSUME NEW h \in Handlers, NEW next, Goto(h, next), StatusKept, UNCHANGED decisions,
             ~Inserting(next)
      PROVE  RulingInv' /\ StatusKept
  BY <1>3, RulingMoves
<1>4. ASSUME NEW h \in Handlers, Goto(h, Idle), StatusKept, UNCHANGED decisions
      PROVE  RulingInv' /\ StatusKept
  BY <1>3, <1>4 DEF Inserting, Idle
<1>5. ASSUME NEW h \in Handlers, Request(h) PROVE RulingInv' /\ StatusKept
  <2>1. ASSUME NEW e \in Entities, NEW dest \in Destinations, ReadClassification(h, e, dest)
        PROVE  RulingInv' /\ StatusKept
    BY <1>1, <1>3, <2>1 DEF ReadClassification, database, Inserting
  <2>2. ASSUME NEW t \in Transfers, PollTransfer(h, t) PROVE RulingInv' /\ StatusKept
    BY <1>1, <1>3, <2>2 DEF PollTransfer, database, Inserting
  <2>3. ASSUME NEW t \in Transfers, DeployTransfer(h, t) PROVE RulingInv' /\ StatusKept
    BY <1>1, <1>3, <2>3 DEF DeployTransfer, database, Inserting
  <2>4. ASSUME NEW d \in DOMAIN decisions, NEW ruling \in Rulings, ResolveReview(h, d, ruling)
        PROVE  RulingInv' /\ StatusKept
    BY <1>1, <2>4, RulingResolve DEF ResolveReview
  <2>. QED
    BY <1>5, <2>1, <2>2, <2>3, <2>4 DEF Request
<1>6. ASSUME NEW h \in Handlers, TransferStep(h) PROVE RulingInv' /\ StatusKept
  <2>. job[h] \in Job
    BY DEF TypeInv, TypeOK
  <2>1. CASE ReadCompany(h)
    BY <1>1, <1>3, <2>1 DEF ReadCompany, database, Inserting
  <2>2. CASE ReadSchemaId(h)
    BY <1>1, <1>3, <2>2 DEF ReadSchemaId, database, Inserting
  <2>3. ASSUME NEW t \in Transfers, InsertTransfer(h, t) PROVE RulingInv' /\ StatusKept
    BY <1>2, <2>3, RulingInsertTransfer DEF InsertTransfer
  <2>4. CASE InsertTransferFails(h)
    BY <1>1, <1>4, <2>4 DEF InsertTransferFails, database
  <2>5. CASE Demote(h)
    <3>. DEFINE next == [at |-> "insertDecision", row |-> job[h].row,
                         seen |-> {d \in current : decisions[d].entity = job[h].row.entity}]
    <3>1. Goto(h, next) /\ Inserting(job[h]) /\ UNCHANGED <<decisions, status>>
      BY <2>5 DEF Demote, database, Inserting
    <3>2. next.row = job[h].row
      OBVIOUS
    <3>. HIDE DEF next
    <3>. QED
      BY <1>1, <3>1, <3>2, RulingMoves
  <2>6. CASE InsertDecision(h)
    BY <1>1, <2>6, RulingInsertDecision DEF InsertDecision
  <2>7. CASE SetStatus(h)
    <3>1. job[h].decision \in DOMAIN decisions
      BY <2>7 DEF SetStatus, TypeInv, JobPointers, PointersOf, EngineDecisions
    <3>2. StatusKept
      BY <1>2, <2>7, <3>1, RowTypes DEF SetStatus, status_map
    <3>. QED
      BY <1>3, <2>7, <3>2 DEF SetStatus, Inserting
  <2>8. CASE CreateReview(h)
    BY <1>1, <1>3, <2>8, NextPlace DEF CreateReview, Inserting
  <2>9. CASE Cite(h)
    BY <1>1, <1>3, <2>9, NextPlace DEF Cite, Inserting
  <2>10. CASE Reply(h)
    BY <1>1, <1>4, <2>10 DEF Reply, database
  <2>. QED
    BY <1>6, <2>1, <2>2, <2>3, <2>4, <2>5, <2>6, <2>7, <2>8, <2>9, <2>10 DEF TransferStep
<1>7. ASSUME NEW h \in Handlers, PollStep(h) \/ DeployStep(h) PROVE RulingInv' /\ StatusKept
  <2>1. ASSUME NEW t, NEW r, Persist(h, t, r), UNCHANGED <<status, decisions>>
        PROVE  RulingInv' /\ StatusKept
    BY <1>1, <1>3, <1>4, <2>1 DEF Persist, Inserting
  <2>2. CASE PollDecision(h)
    BY <1>1, <1>3, <2>1, <2>2 DEF PollDecision, database, Inserting
  <2>3. CASE PollReview(h)
    BY <2>1, <2>3 DEF PollReview, database
  <2>4. CASE PollWrite(h)
    <3>1. job[h].transfer \in Transfers /\ job[h].target # "absent"
      BY <2>4, JobFields DEF PollWrite, TypeInv, TypeOK
    <3>. QED
      BY <1>2, <1>4, <2>4, <3>1 DEF PollWrite
  <2>5. CASE DeployDecision(h)
    BY <1>1, <1>3, <1>4, <2>5 DEF DeployDecision, database, Inserting
  <2>6. CASE DeployReview(h)
    BY <1>1, <1>3, <1>4, <2>6 DEF DeployReview, database, Inserting
  <2>7. CASE DeployInsert(h)
    BY <1>1, <1>3, <2>7 DEF DeployInsert, Inserting
  <2>8. CASE DeployComplete(h)
    <3>1. job[h].transfer \in Transfers
      BY <2>8, JobFields DEF DeployComplete, TypeInv, TypeOK
    <3>. QED
      BY <1>2, <1>4, <2>8, <3>1 DEF DeployComplete
  <2>. QED
    BY <1>7, <2>2, <2>3, <2>4, <2>5, <2>6, <2>7, <2>8 DEF PollStep, DeployStep
<1>8. ASSUME NEW h \in Handlers, Die(h) PROVE RulingInv' /\ StatusKept
  BY <1>1, <1>4, <1>8 DEF Die, database
<1>9. CASE Environment \/ UNCHANGED vars
  <2>1. UNCHANGED <<decisions, status, job>>
    BY <1>9 DEF Environment, Ingest, UpdateCompany, Expire, vars, database
  <2>. QED
    BY <1>1, <2>1, RulingCarries
<1>. QED
  BY <1>5, <1>6, <1>7, <1>8, <1>9 DEF Next, HandlerStep

LEMMA InitRulingInv == Init => RulingInv
  BY EmptySeq DEF Init, RulingInv, Inserting, Deciding, Recording, Idle, EngineDecisions,
     HumanDecisions

LEMMA RulingInvariant == Spec => [](TypeInv /\ ReviewInv /\ RulingInv)
<1>1. TypeInv /\ ReviewInv /\ RulingInv /\ [Next]_vars => RulingInv'
  BY RulingStep
<1>. QED
  BY <1>1, HistoryInvariant, InitRulingInv, PTL DEF Spec

\* Two reviewers, an expiry and a death in any order leave at most one final call for
\* a transfer, and it repeats what the review row says.
THEOREM RulingIsOnce == Spec => []OneRulingPerReview
<1>1. RulingInv => OneRulingPerReview
  BY DEF RulingInv, OneRulingPerReview, AboutReview
<1>. QED
  BY <1>1, RulingInvariant, PTL

-----------------------------------------------------------------------------
(***************************************************************************)
(* The current decision.  A final call supersedes the decision it is about *)
(* because both are of one entity, and what another request inserts in     *)
(* between is about another transfer.                                      *)
(***************************************************************************)
\* Of the row's transfer no decision will be left current that is not seen.
Supersedes(j) ==
    j.at = "insertDecision" =>
        \A d \in current \ j.seen : decisions[d].transfer # j.row.transfer

CurrentInv ==
    /\ OneCurrentPerTransfer
    /\ \A h \in Handlers : Recording(job[h]) => Supersedes(job[h])

\* A transfer is about one entity, so all its decisions are.
LEMMA OneEntity ==
    ASSUME TypeInv, RulingInv, NEW row, AboutReview(row), NEW d \in DOMAIN decisions,
           decisions[d].transfer = row.transfer
    PROVE  decisions[d].entity = row.entity
<1>1. PICK o \in EngineDecisions :
          decisions[o].transfer = row.transfer /\ decisions[o].entity = row.entity
  BY DEF AboutReview
<1>2. CASE d \in EngineDecisions
  BY <1>1, <1>2 DEF RulingInv
<1>3. CASE d \in HumanDecisions
  <2>1. PICK p \in EngineDecisions : decisions[p].transfer = decisions[d].transfer
                                     /\ decisions[p].entity = decisions[d].entity
    BY <1>3 DEF RulingInv, AboutReview
  <2>. QED
    BY <1>1, <2>1 DEF RulingInv
<1>. QED
  BY <1>2, <1>3, RowTypes DEF EngineDecisions, HumanDecisions, Decision

\* Steps that insert no decision and see none.
LEMMA CurrentCarries ==
    ASSUME CurrentInv, UNCHANGED <<decisions, current>>,
           \A i \in Handlers : job'[i].at = "insertDecision" => job'[i] = job[i]
    PROVE  CurrentInv'
  BY DEF CurrentInv, OneCurrentPerTransfer, Supersedes, Recording, Inserting

LEMMA CurrentMoves ==
    ASSUME TypeInv, CurrentInv, NEW h \in Handlers, NEW next, Goto(h, next),
           UNCHANGED <<decisions, current>>, next.at # "insertDecision"
    PROVE  CurrentInv'
<1>1. \A i \in Handlers : job'[i].at = "insertDecision" => job'[i] = job[i]
  BY GotoFacts
<1>. QED
  BY <1>1, CurrentCarries

LEMMA CurrentDemote ==
    ASSUME TypeInv, RulingInv, CurrentInv, NEW h \in Handlers, Demote(h)
    PROVE  CurrentInv'
<1>. PICK j \in Job : j = job[h]
  BY DEF TypeInv, TypeOK
<1>. PICK seen : seen = {d \in current : decisions[d].entity = j.row.entity}
  OBVIOUS
<1>. DEFINE next == [at |-> "insertDecision", row |-> j.row, seen |-> seen]
<1>1. job'[h] = next /\ \A i \in Handlers \ {h} : job'[i] = job[i]
  BY GotoFacts DEF Demote
<1>2. UNCHANGED <<decisions, current>> /\ j.at = "demote"
  BY DEF Demote, database
<1>3. ASSUME j.row.model = "human_reviewer", NEW d \in current \ seen
      PROVE  decisions[d].transfer # j.row.transfer
  <2>1. d \in DOMAIN decisions /\ decisions[d].entity # j.row.entity
    BY <1>3 DEF TypeInv, TypeOK
  <2>2. AboutReview(j.row)
    BY <1>2, <1>3 DEF RulingInv, Recording, Inserting, Owed
  <2>. QED
    BY <2>1, <2>2, OneEntity
<1>4. ASSUME NEW i \in Handlers, Recording(job'[i]) PROVE Supersedes(job[i])'
  <2>1. CASE i = h
    BY <1>1, <1>2, <1>3, <1>4, <2>1 DEF Supersedes, Recording
  <2>2. CASE i # h
    BY <1>1, <1>2, <1>4, <2>2 DEF Supersedes, CurrentInv
  <2>. QED
    BY <2>1, <2>2
<1>. QED
  BY <1>2, <1>4 DEF CurrentInv, OneCurrentPerTransfer, Recording, Inserting

LEMMA CurrentInsert ==
    ASSUME TypeInv, RulingInv, CurrentInv, NEW h \in Handlers, InsertDecision(h)
    PROVE  CurrentInv'
<1>. PICK n : n = Len(decisions) + 1
  OBVIOUS
<1>. PICK j \in Job : j = job[h]
  BY DEF TypeInv, TypeOK
<1>. DEFINE next == IF j.row.model = "rule_based_engine"
                    THEN [at |-> "setStatus", decision |-> n] ELSE Idle
<1>1. job'[h] = next /\ \A i \in Handlers \ {h} : job'[i] = job[i]
  BY GotoFacts DEF InsertDecision
<1>2. next.at # "insertDecision"
  BY DEF Idle
<1>. HIDE DEF next
<1>3. /\ j.at = "insertDecision" /\ j.row \in Decision
      /\ current' = (current \ j.seen) \cup {n}
  BY RowTypes DEF InsertDecision, Inserting
<1>4. /\ \A d \in DOMAIN decisions : decisions'[d] = decisions[d]
      /\ decisions'[n] = j.row
  BY InsertFacts DEF TypeInv
<1>5. current \subseteq DOMAIN decisions
  BY DEF TypeInv, TypeOK
<1>6. \A d \in current \ j.seen : decisions[d].transfer # j.row.transfer
  <2>1. CASE Deciding(j)
    BY <1>5, <2>1 DEF RulingInv, Fresh
  <2>2. CASE Recording(j)
    BY <1>3, <2>2 DEF CurrentInv, Supersedes
  <2>. QED
    BY <1>3, <2>1, <2>2 DEF Decision, Deciding, Recording, Inserting
<1>7. ASSUME NEW i \in Handlers, Recording(job'[i]) PROVE Supersedes(job[i])'
  <2>1. CASE job'[i].at # "insertDecision"
    BY <2>1 DEF Supersedes
  <2>2. CASE job'[i].at = "insertDecision"
    <3>1. i # h /\ job'[i] = job[i] /\ Recording(job[i])
      BY <1>1, <1>2, <1>7, <2>2
    <3>2. \A d \in current \ job[i].seen : decisions[d].transfer # job[i].row.transfer
      BY <2>2, <3>1 DEF CurrentInv, Supersedes
    <3>3. j.row.transfer # job[i].row.transfer
      <4>1. CASE Deciding(j)
        <5>1. PICK o \in DOMAIN decisions : decisions[o].transfer = job[i].row.transfer
          BY <3>1 DEF RulingInv, Owed, AboutReview, EngineDecisions
        <5>. QED
          BY <4>1, <5>1 DEF RulingInv, Fresh
      <4>2. CASE Recording(j)
        BY <3>1, <4>2 DEF RulingInv, Recording
      <4>. QED
        BY <1>3, <4>1, <4>2 DEF Decision, Deciding, Recording, Inserting
    <3>. QED
      BY <1>3, <1>4, <1>5, <3>1, <3>2, <3>3 DEF Supersedes
  <2>. QED
    BY <2>1, <2>2
<1>8. OneCurrentPerTransfer'
  BY <1>3, <1>4, <1>5, <1>6 DEF CurrentInv, OneCurrentPerTransfer
<1>. QED
  BY <1>7, <1>8 DEF CurrentInv, Recording, Inserting

LEMMA CurrentStep ==
    ASSUME TypeInv, RulingInv, CurrentInv, [Next]_vars
    PROVE  CurrentInv'
<1>1. ASSUME NEW h \in Handlers, NEW next, Goto(h, next), UNCHANGED <<decisions, current>>,
             next.at # "insertDecision"
      PROVE  CurrentInv'
  BY <1>1, CurrentMoves
<1>2. ASSUME NEW h \in Handlers, Goto(h, Idle), UNCHANGED <<decisions, current>>
      PROVE  CurrentInv'
  BY <1>1, <1>2 DEF Idle
<1>3. ASSUME NEW h \in Handlers, Request(h) PROVE CurrentInv'
  BY <1>1, <1>3 DEF Request, ReadClassification, PollTransfer, DeployTransfer, ResolveReview,
     database
<1>4. ASSUME NEW h \in Handlers, TransferStep(h) PROVE CurrentInv'
  <2>. job[h] \in Job
    BY DEF TypeInv, TypeOK
  <2>1. CASE ReadCompany(h) \/ ReadSchemaId(h) \/ \E t \in Transfers : InsertTransfer(h, t)
    BY <1>1, <2>1 DEF ReadCompany, ReadSchemaId, InsertTransfer, database
  <2>2. CASE InsertTransferFails(h) \/ Reply(h)
    BY <1>2, <2>2 DEF InsertTransferFails, Reply, database
  <2>3. CASE Demote(h)
    BY <2>3, CurrentDemote
  <2>4. CASE InsertDecision(h)
    BY <2>4, CurrentInsert
  <2>5. CASE SetStatus(h)
    BY <1>1, <2>5 DEF SetStatus
  <2>6. CASE CreateReview(h)
    BY <1>1, <2>6, NextPlace DEF CreateReview
  <2>7. CASE Cite(h)
    BY <1>1, <2>7, NextPlace DEF Cite
  <2>. QED
    BY <1>4, <2>1, <2>2, <2>3, <2>4, <2>5, <2>6, <2>7 DEF TransferStep
<1>5. ASSUME NEW h \in Handlers, PollStep(h) \/ DeployStep(h) PROVE CurrentInv'
  <2>1. ASSUME NEW t, NEW r, Persist(h, t, r), UNCHANGED <<decisions, current>>
        PROVE  CurrentInv'
    BY <1>1, <1>2, <2>1 DEF Persist
  <2>2. CASE PollDecision(h)
    BY <1>1, <2>1, <2>2 DEF PollDecision, database
  <2>3. CASE PollReview(h)
    BY <2>1, <2>3 DEF PollReview, database
  <2>4. CASE PollWrite(h) \/ DeployComplete(h)
    BY <1>2, <2>4 DEF PollWrite, DeployComplete
  <2>5. CASE DeployDecision(h)
    BY <1>1, <1>2, <2>5 DEF DeployDecision, database
  <2>6. CASE DeployReview(h)
    BY <1>1, <1>2, <2>6 DEF DeployReview, database
  <2>7. CASE DeployInsert(h)
    BY <1>1, <2>7 DEF DeployInsert
  <2>. QED
    BY <1>5, <2>2, <2>3, <2>4, <2>5, <2>6, <2>7 DEF PollStep, DeployStep
<1>6. ASSUME NEW h \in Handlers, Die(h) PROVE CurrentInv'
  BY <1>2, <1>6 DEF Die, database
<1>7. CASE Environment \/ UNCHANGED vars
  <2>1. UNCHANGED <<decisions, current, job>>
    BY <1>7 DEF Environment, Ingest, UpdateCompany, Expire, vars, database
  <2>. QED
    BY <2>1, CurrentCarries
<1>. QED
  BY <1>3, <1>4, <1>5, <1>6, <1>7 DEF Next, HandlerStep

LEMMA InitCurrentInv == Init => CurrentInv
  BY DEF Init, CurrentInv, OneCurrentPerTransfer, Recording, Inserting, Idle

\* Demotion and insertion see different moments, and yet a transfer never has two
\* current decisions: the LIMIT 1 of the query that looks for it never chooses.
THEOREM CurrentIsUnique == Spec => []OneCurrentPerTransfer
<1>1. TypeInv /\ RulingInv /\ CurrentInv /\ [Next]_vars => CurrentInv'
  BY CurrentStep
<1>2. CurrentInv => OneCurrentPerTransfer
  BY DEF CurrentInv
<1>. QED
  BY <1>1, <1>2, InitCurrentInv, RulingInvariant, PTL DEF Spec

-----------------------------------------------------------------------------
(***************************************************************************)
(* Answers.  A client learns a transfer's identifier in the last step of   *)
(* the request that decides it; each step before leaves its mark, and no   *)
(* other request takes it away.                                            *)
(***************************************************************************)
Settled(t) == status[t] \notin {"absent", "PENDING"}

NeedsReview(d) == decisions[d].result.outcome = "REVIEW"

HasClause(d) == decisions[d].result.reference \in KnownClauses

Complete(d) ==
    /\ Settled(decisions[d].transfer)
    /\ NeedsReview(d) <=> review[d] # "none"
    /\ HasClause(d) <=> d \in cited

\* How far a request has come with its decision.
Marked(j) ==
    /\ j.at = "createReview" => NeedsReview(j.decision)
    /\ j.at \in {"createReview", "cite", "reply"} => Settled(decisions[j.decision].transfer)
    /\ j.at \in {"cite", "reply"} /\ NeedsReview(j.decision) => review[j.decision] # "none"
    /\ j.at = "reply" /\ HasClause(j.decision) => j.decision \in cited

AnswerInv ==
    /\ \A d \in cited : HasClause(d)
    /\ \A d \in DOMAIN decisions : review[d] # "none" => NeedsReview(d)
    /\ \A h \in Handlers : Marked(job[h])
    /\ \A t \in known : \E d \in EngineDecisions : decisions[d].transfer = t /\ Complete(d)

\* What a step may not take away from an answer.
MarksKept ==
    /\ \A d \in DOMAIN decisions : d \in DOMAIN decisions' /\ decisions'[d] = decisions[d]
    /\ \A d \in DOMAIN decisions : review[d] # "none" => review'[d] # "none"
    /\ cited \subseteq cited'
    /\ \A t \in Transfers : Settled(t) => Settled(t)'

LEMMA MarkedStays ==
    ASSUME TypeInv, MarksKept, NEW j, PointersOf(j), Marked(j)
    PROVE  Marked(j)'
<1>1. CASE j.at \in {"createReview", "cite", "reply"}
  <2>1. /\ j.decision \in DOMAIN decisions
        /\ decisions[j.decision].transfer \in Transfers
    BY <1>1, RowTypes DEF PointersOf, EngineDecisions
  <2>. QED
    BY <2>1 DEF Marked, MarksKept, NeedsReview, HasClause
<1>2. CASE j.at \notin {"createReview", "cite", "reply"}
  BY <1>2 DEF Marked
<1>. QED
  BY <1>1, <1>2

\* It is enough to look at what the step wrote: one handler's place, new answers.
LEMMA AnswerMoves ==
    ASSUME TypeInv, AnswerInv, MarksKept, NEW h \in Handlers, NEW next, Goto(h, next),
           Marked(next)',
           \A d \in cited' : HasClause(d)',
           \A d \in DOMAIN decisions' : review'[d] # "none" => NeedsReview(d)',
           \A t \in known' \ known :
               \E d \in EngineDecisions : decisions[d].transfer = t /\ Complete(d)
    PROVE  AnswerInv'
<1>1. ASSUME NEW i \in Handlers PROVE Marked(job[i])'
  <2>1. CASE i = h
    BY <2>1, GotoFacts DEF Marked, Settled, NeedsReview, HasClause
  <2>2. CASE i # h
    <3>1. PICK j : j = job[i] /\ PointersOf(j) /\ Marked(j)
      BY DEF AnswerInv, TypeInv, JobPointers
    <3>2. Marked(j)' /\ job'[i] = j
      BY <2>2, <3>1, MarkedStays, GotoFacts
    <3>. QED
      BY <3>2 DEF Marked, Settled, NeedsReview, HasClause
  <2>. QED
    BY <2>1, <2>2
<1>2. ASSUME NEW t \in known'
      PROVE  \E d \in EngineDecisions' : decisions'[d].transfer = t /\ Complete(d)'
  <2>1. PICK d \in EngineDecisions : decisions[d].transfer = t /\ Complete(d)
    BY <1>2 DEF AnswerInv
  <2>2. /\ d \in DOMAIN decisions /\ decisions[d].transfer \in Transfers
        /\ d \in DOMAIN decisions' /\ decisions'[d] = decisions[d]
    BY RowTypes DEF EngineDecisions, MarksKept
  <2>3. Settled(t)'
    BY <2>1, <2>2 DEF MarksKept, Complete
  <2>4. NeedsReview(d)' <=> review'[d] # "none"
    BY <2>1, <2>2 DEF MarksKept, Complete, NeedsReview
  <2>5. HasClause(d)' <=> d \in cited'
    BY <2>1, <2>2 DEF MarksKept, Complete, HasClause
  <2>6. Complete(d)'
    BY <2>1, <2>2, <2>3, <2>4, <2>5 DEF Complete, Settled
  <2>. QED
    BY <2>1, <2>2, <2>6 DEF EngineDecisions
<1>. QED
  BY <1>1, <1>2 DEF AnswerInv

\* Steps that write neither reviews, citations nor answers.
LEMMA AnswerQuiet ==
    ASSUME TypeInv, AnswerInv, NEW h \in Handlers, NEW next, Goto(h, next),
           next.at \notin {"createReview", "cite", "reply"},
           UNCHANGED <<decisions, review, cited, known>>,
           \A t \in Transfers : Settled(t) => Settled(t)'
    PROVE  AnswerInv'
<1>1. MarksKept
  BY DEF MarksKept
<1>2. Marked(next)'
  BY DEF Marked
<1>3. /\ \A d \in cited' : HasClause(d)'
      /\ \A d \in DOMAIN decisions' : review'[d] # "none" => NeedsReview(d)'
  BY DEF AnswerInv, HasClause, NeedsReview
<1>. QED
  BY <1>1, <1>2, <1>3, AnswerMoves

\* The request that decides a transfer, from the row of its decision to its answer.
LEMMA AnswerInsert ==
    ASSUME TypeInv, AnswerInv, NEW h \in Handlers, InsertDecision(h)
    PROVE  AnswerInv'
<1>. PICK n : n = Len(decisions) + 1
  OBVIOUS
<1>. PICK next : next = IF job[h].row.model = "rule_based_engine"
                        THEN [at |-> "setStatus", decision |-> n] ELSE Idle
  OBVIOUS
<1>1. Goto(h, next) /\ UNCHANGED <<status, cited, known>>
  BY DEF InsertDecision
<1>2. /\ \A d \in DOMAIN decisions :
            d \in DOMAIN decisions' /\ decisions'[d] = decisions[d] /\ review'[d] = review[d]
      /\ \A d \in DOMAIN decisions' : d \in DOMAIN decisions \/ review'[d] = "none"
  BY InsertFacts DEF TypeInv
<1>3. MarksKept
  BY <1>1, <1>2 DEF MarksKept, Settled
<1>4. Marked(next)'
  BY DEF Marked, Idle
<1>5. /\ \A d \in cited' : HasClause(d)'
      /\ \A d \in DOMAIN decisions' : review'[d] # "none" => NeedsReview(d)'
  BY <1>1, <1>2 DEF AnswerInv, HasClause, NeedsReview, TypeInv, TypeOK
<1>. QED
  BY <1>1, <1>3, <1>4, <1>5, AnswerMoves

LEMMA AnswerStatus ==
    ASSUME TypeInv, AnswerInv, NEW h \in Handlers, SetStatus(h)
    PROVE  AnswerInv'
<1>. PICK d : d = job[h].decision
  OBVIOUS
<1>. PICK next : next = [at |-> IF decisions[d].result.outcome = "REVIEW"
                                THEN "createReview" ELSE "cite", decision |-> d]
  OBVIOUS
<1>1. Goto(h, next) /\ UNCHANGED <<decisions, review, cited, known>>
  BY DEF SetStatus
<1>2. d \in DOMAIN decisions /\ decisions[d].transfer \in Transfers
  BY RowTypes DEF SetStatus, TypeInv, JobPointers, PointersOf, EngineDecisions
<1>3. /\ status'[decisions[d].transfer] \notin {"absent", "PENDING"}
      /\ \A t \in Transfers \ {decisions[d].transfer} : status'[t] = status[t]
  BY <1>2 DEF SetStatus, status_map, TypeInv, TypeOK
<1>4. MarksKept
  BY <1>1, <1>3 DEF MarksKept, Settled
<1>5. Marked(next)'
  BY <1>1, <1>3 DEF Marked, NeedsReview, Settled
<1>6. /\ \A e \in cited' : HasClause(e)'
      /\ \A e \in DOMAIN decisions' : review'[e] # "none" => NeedsReview(e)'
  BY <1>1 DEF AnswerInv, HasClause, NeedsReview
<1>. QED
  BY <1>1, <1>4, <1>5, <1>6, AnswerMoves

LEMMA AnswerReview ==
    ASSUME TypeInv, AnswerInv, NEW h \in Handlers, CreateReview(h)
    PROVE  AnswerInv'
<1>. PICK d : d = job[h].decision
  OBVIOUS
<1>. PICK next : next = [at |-> "cite", decision |-> d]
  OBVIOUS
<1>1. Goto(h, next) /\ UNCHANGED <<decisions, status, cited, known>>
  <2>1. job[h] \in Job
    BY DEF TypeInv, TypeOK
  <2>. QED
    BY <2>1, NextPlace DEF CreateReview
<1>2. /\ d \in DOMAIN decisions /\ NeedsReview(d) /\ Settled(decisions[d].transfer)
  BY DEF CreateReview, TypeInv, JobPointers, PointersOf, EngineDecisions, AnswerInv, Marked
<1>3. \A i \in DOMAIN decisions : review'[i] = IF i = d THEN "PENDING" ELSE review[i]
  BY <1>2, ReviewFacts DEF CreateReview, TypeInv, AuthorizationView
<1>4. MarksKept
  BY <1>1, <1>3 DEF MarksKept, Settled
<1>5. Marked(next)'
  BY <1>1, <1>2, <1>3 DEF Marked, NeedsReview, Settled
<1>6. /\ \A e \in cited' : HasClause(e)'
      /\ \A e \in DOMAIN decisions' : review'[e] # "none" => NeedsReview(e)'
  BY <1>1, <1>2, <1>3 DEF AnswerInv, HasClause, NeedsReview
<1>. QED
  BY <1>1, <1>4, <1>5, <1>6, AnswerMoves

LEMMA AnswerCite ==
    ASSUME TypeInv, AnswerInv, NEW h \in Handlers, Cite(h)
    PROVE  AnswerInv'
<1>. PICK d : d = job[h].decision
  OBVIOUS
<1>. PICK next : next = [at |-> "reply", decision |-> d]
  OBVIOUS
<1>1. /\ Goto(h, next) /\ UNCHANGED <<decisions, status, review, known>>
      /\ cited' = cited \cup {e \in {d} : HasClause(e)}
  <2>1. job[h] \in Job
    BY DEF TypeInv, TypeOK
  <2>. QED
    BY <2>1, NextPlace DEF Cite, HasClause
<1>2. /\ Settled(decisions[d].transfer)
      /\ NeedsReview(d) => review[d] # "none"
  BY DEF Cite, AnswerInv, Marked
<1>3. MarksKept
  BY <1>1 DEF MarksKept, Settled
<1>4. Marked(next)'
  BY <1>1, <1>2 DEF Marked, NeedsReview, Settled, HasClause
<1>5. /\ \A e \in cited' : HasClause(e)'
      /\ \A e \in DOMAIN decisions' : review'[e] # "none" => NeedsReview(e)'
  BY <1>1 DEF AnswerInv, HasClause, NeedsReview
<1>. QED
  BY <1>1, <1>3, <1>4, <1>5, AnswerMoves

LEMMA AnswerReply ==
    ASSUME TypeInv, AnswerInv, NEW h \in Handlers, Reply(h)
    PROVE  AnswerInv'
<1>. PICK d : d = job[h].decision
  OBVIOUS
<1>1. /\ Goto(h, Idle) /\ UNCHANGED <<decisions, status, review, cited>>
      /\ known' = known \cup {decisions[d].transfer}
  BY DEF Reply, database
<1>2. d \in EngineDecisions /\ d \in DOMAIN decisions
  BY DEF Reply, TypeInv, JobPointers, PointersOf, EngineDecisions
<1>3. Complete(d)
  <2>1. Marked(job[h]) /\ job[h].at = "reply"
    BY DEF Reply, AnswerInv
  <2>2. /\ review[d] # "none" => NeedsReview(d)
        /\ d \in cited => HasClause(d)
    BY <1>2 DEF AnswerInv
  <2>. QED
    BY <2>1, <2>2 DEF Marked, Complete
<1>4. MarksKept
  BY <1>1 DEF MarksKept, Settled
<1>5. /\ \A e \in cited' : HasClause(e)'
      /\ \A e \in DOMAIN decisions' : review'[e] # "none" => NeedsReview(e)'
  BY <1>1 DEF AnswerInv, HasClause, NeedsReview
<1>6. \A t \in known' \ known :
          \E e \in EngineDecisions : decisions[e].transfer = t /\ Complete(e)
  BY <1>1, <1>2, <1>3
<1>. PICK next : next = Idle
  OBVIOUS
<1>7. Marked(next)'
  BY DEF Marked, Idle
<1>. QED
  BY <1>1, <1>4, <1>5, <1>6, <1>7, AnswerMoves

\* Closing an open review, by a reviewer or by the clock, leaves it there.
LEMMA CloseKeepsMarks ==
    ASSUME TypeInv, AnswerInv, NEW d \in DOMAIN decisions, review[d] = "PENDING",
           NEW r \in {"APPROVED", "REJECTED", "EXPIRED"}, review' = [review EXCEPT ![d] = r],
           UNCHANGED <<decisions, status, cited, known>>
    PROVE  /\ MarksKept
           /\ \A e \in cited' : HasClause(e)'
           /\ \A e \in DOMAIN decisions' : review'[e] # "none" => NeedsReview(e)'
<1>1. \A i \in DOMAIN decisions : review'[i] = IF i = d THEN r ELSE review[i]
  BY ReviewFacts DEF TypeInv, AuthorizationView
<1>. QED
  BY <1>1 DEF MarksKept, Settled, AnswerInv, HasClause, NeedsReview

LEMMA AnswerStep ==
    ASSUME TypeInv, ReviewInv, AnswerInv, [Next]_vars
    PROVE  AnswerInv'
<1>1. ASSUME UNCHANGED status PROVE \A t \in Transfers : Settled(t) => Settled(t)'
  BY <1>1 DEF Settled
<1>2. ASSUME NEW t \in Transfers, NEW s, s \notin {"absent", "PENDING"},
             status' = [status EXCEPT ![t] = s]
      PROVE  \A u \in Transfers : Settled(u) => Settled(u)'
  BY <1>2 DEF Settled, TypeInv, TypeOK
<1>3. ASSUME NEW h \in Handlers, NEW next, Goto(h, next),
             next.at \notin {"createReview", "cite", "reply"},
             UNCHANGED <<decisions, review, cited, known, status>>
      PROVE  AnswerInv'
  BY <1>1, <1>3, AnswerQuiet
<1>4. ASSUME NEW h \in Handlers, Goto(h, Idle),
             UNCHANGED <<decisions, review, cited, known, status>>
      PROVE  AnswerInv'
  BY <1>3, <1>4 DEF Idle
<1>5. ASSUME NEW h \in Handlers, Goto(h, Idle), UNCHANGED <<decisions, review, cited, known>>,
             \A t \in Transfers : Settled(t) => Settled(t)'
      PROVE  AnswerInv'
  BY <1>5, AnswerQuiet DEF Idle
<1>6. ASSUME NEW h \in Handlers, Request(h) PROVE AnswerInv'
  <2>1. ASSUME NEW e \in Entities, NEW dest \in Destinations, ReadClassification(h, e, dest)
        PROVE  AnswerInv'
    BY <1>3, <2>1 DEF ReadClassification, database
  <2>2. ASSUME NEW t \in Transfers, PollTransfer(h, t) PROVE AnswerInv'
    BY <1>3, <2>2 DEF PollTransfer, database
  <2>3. ASSUME NEW t \in Transfers, DeployTransfer(h, t) PROVE AnswerInv'
    BY <1>3, <2>3 DEF DeployTransfer, database
  <2>4. ASSUME NEW d \in DOMAIN decisions, NEW ruling \in Rulings, ResolveReview(h, d, ruling)
        PROVE  AnswerInv'
    <3>. PICK next : next = [at |-> "demote",
                             row |-> [decisions[d] EXCEPT !.model = "human_reviewer",
                                                          !.result = HumanResult(ruling)]]
      OBVIOUS
    <3>1. ruling \in {"APPROVED", "REJECTED", "EXPIRED"}
      BY LifecycleAssumption
    <3>2. /\ MarksKept
          /\ \A e \in cited' : HasClause(e)'
          /\ \A e \in DOMAIN decisions' : review'[e] # "none" => NeedsReview(e)'
      BY <2>4, <3>1, CloseKeepsMarks DEF ResolveReview
    <3>3. Goto(h, next) /\ UNCHANGED known
      BY <2>4 DEF ResolveReview
    <3>4. Marked(next)'
      BY DEF Marked
    <3>. QED
      BY <3>2, <3>3, <3>4, AnswerMoves
  <2>. QED
    BY <1>6, <2>1, <2>2, <2>3, <2>4 DEF Request
<1>7. ASSUME NEW h \in Handlers, TransferStep(h) PROVE AnswerInv'
  <2>1. CASE ReadCompany(h)
    BY <1>3, <2>1 DEF ReadCompany, database
  <2>2. CASE ReadSchemaId(h)
    BY <1>3, <2>2 DEF ReadSchemaId, database
  <2>3. ASSUME NEW t \in Transfers, InsertTransfer(h, t) PROVE AnswerInv'
    <3>1. \A u \in Transfers : Settled(u) => Settled(u)'
      BY <2>3 DEF InsertTransfer, Settled, TypeInv, TypeOK
    <3>. QED
      BY <2>3, <3>1, AnswerQuiet DEF InsertTransfer
  <2>4. CASE InsertTransferFails(h)
    BY <1>4, <2>4 DEF InsertTransferFails, database
  <2>5. CASE Demote(h)
    BY <1>3, <2>5 DEF Demote, database
  <2>. QED
    BY <1>7, <2>1, <2>2, <2>3, <2>4, <2>5, AnswerInsert, AnswerStatus, AnswerReview,
       AnswerCite, AnswerReply DEF TransferStep
<1>8. ASSUME NEW h \in Handlers, PollStep(h) \/ DeployStep(h) PROVE AnswerInv'
  <2>1. ASSUME NEW t, NEW r, Persist(h, t, r),
               UNCHANGED <<decisions, review, cited, known, status>>
        PROVE  AnswerInv'
    BY <1>3, <1>4, <2>1 DEF Persist
  <2>2. CASE PollDecision(h)
    BY <1>3, <2>1, <2>2 DEF PollDecision, database
  <2>3. CASE PollReview(h)
    BY <2>1, <2>3 DEF PollReview, database
  <2>4. CASE PollWrite(h)
    <3>1. job[h].transfer \in Transfers /\ job[h].target \in {"ALLOWED", "DENIED"}
      BY <2>4, JobFields DEF PollWrite, TypeInv, TypeOK
    <3>. QED
      BY <1>2, <1>5, <2>4, <3>1 DEF PollWrite
  <2>5. CASE DeployDecision(h)
    BY <1>3, <1>4, <2>5 DEF DeployDecision, database
  <2>6. CASE DeployReview(h)
    BY <1>3, <1>4, <2>6 DEF DeployReview, database
  <2>7. CASE DeployInsert(h)
    BY <1>3, <2>7 DEF DeployInsert
  <2>8. CASE DeployComplete(h)
    <3>1. job[h].transfer \in Transfers
      BY <2>8, JobFields DEF DeployComplete, TypeInv, TypeOK
    <3>2. \A u \in Transfers : Settled(u) => Settled(u)'
      BY <1>2, <2>8, <3>1 DEF DeployComplete
    <3>. QED
      BY <1>5, <2>8, <3>2 DEF DeployComplete
  <2>. QED
    BY <1>8, <2>2, <2>3, <2>4, <2>5, <2>6, <2>7, <2>8 DEF PollStep, DeployStep
<1>9. ASSUME NEW h \in Handlers, Die(h) PROVE AnswerInv'
  BY <1>4, <1>9 DEF Die, database
<1>10. ASSUME UNCHANGED job, MarksKept, UNCHANGED known,
              \A e \in cited' : HasClause(e)',
              \A e \in DOMAIN decisions' : review'[e] # "none" => NeedsReview(e)'
       PROVE  AnswerInv'
  <2>1. CASE Handlers = {}
    <3>1. ASSUME NEW t \in known'
          PROVE  \E d \in EngineDecisions' : decisions'[d].transfer = t /\ Complete(d)'
      <4>1. PICK d \in EngineDecisions : decisions[d].transfer = t /\ Complete(d)
        BY <1>10, <3>1 DEF AnswerInv
      <4>. QED
        BY <1>10, <4>1, RowTypes DEF EngineDecisions, MarksKept, Complete, NeedsReview, HasClause,
           Settled
    <3>. QED
      BY <1>10, <2>1, <3>1 DEF AnswerInv
  <2>2. ASSUME NEW h \in Handlers PROVE AnswerInv'
    <3>1. PICK next : next = job[h] /\ PointersOf(next) /\ Marked(next)
      BY DEF TypeInv, JobPointers, AnswerInv
    <3>2. Goto(h, next)
      BY <1>10, <3>1 DEF Goto, TypeInv, TypeOK
    <3>3. Marked(next)'
      BY <1>10, <3>1, MarkedStays
    <3>. QED
      BY <1>10, <3>2, <3>3, AnswerMoves
  <2>. QED
    BY <2>1, <2>2
<1>11. ASSUME NEW d \in DOMAIN decisions, Expire(d) PROVE AnswerInv'
  BY <1>10, <1>11, CloseKeepsMarks DEF Expire
<1>12. CASE (\E e \in Entities : Ingest(e)) \/ UpdateCompany \/ UNCHANGED vars
  <2>1. UNCHANGED <<decisions, review, cited, known, status, job>>
    BY <1>12 DEF Ingest, UpdateCompany, vars, database
  <2>2. MarksKept
    BY <2>1 DEF MarksKept, Settled
  <2>. QED
    BY <1>10, <2>1, <2>2 DEF AnswerInv, HasClause, NeedsReview
<1>. QED
  BY <1>6, <1>7, <1>8, <1>9, <1>11, <1>12 DEF Next, HandlerStep, Environment

LEMMA InitAnswerInv == Init => AnswerInv
  BY EmptySeq DEF Init, AnswerInv, Marked, Idle

\* Whatever dies on the way, a client that holds a transfer's identifier finds it
\* decided, with its review open if it needs one and its clause if there is one.
THEOREM AnswersAreComplete == Spec => []AnswerIsComplete
<1>1. TypeInv /\ ReviewInv /\ AnswerInv /\ [Next]_vars => AnswerInv'
  BY AnswerStep
<1>2. TypeInv /\ AnswerInv => AnswerIsComplete
  <2>. SUFFICES ASSUME TypeInv, AnswerInv, NEW t \in known
                PROVE  /\ status[t] \notin {"absent", "PENDING"}
                       /\ \E d \in EngineDecisions :
                             /\ decisions[d].transfer = t
                             /\ (decisions[d].result.outcome = "REVIEW") = (review[d] # "none")
                             /\ (decisions[d].result.reference \in KnownClauses) = (d \in cited)
    BY DEF AnswerIsComplete
  <2>1. PICK d \in EngineDecisions : decisions[d].transfer = t /\ Complete(d)
    BY DEF AnswerInv
  <2>. QED
    BY <2>1 DEF Complete, Settled, NeedsReview, HasClause
<1>. QED
  BY <1>1, <1>2, HistoryInvariant, InitAnswerInv, PTL DEF Spec
=============================================================================
