--------------------------- MODULE Authority_proofs --------------------------
(***************************************************************************)
(* What the decisions come to, for any entities, identifiers, request      *)
(* threads, tables and bounds: TransferLifecycle implements                *)
(* TransferAuthority, and the compliance packs of EvidencePack tell its    *)
(* history as it was.                                                      *)
(***************************************************************************)
EXTENDS EvidencePack, TransferLifecycle_proofs

(***************************************************************************)
(* What the mapping needs beyond the invariants there are: a transfer is   *)
(* told only to those who ask after it was first settled, so the request   *)
(* that decides it is the first to write its status; and polls are of      *)
(* transfers that went to review.                                          *)
(***************************************************************************)
Decided(t) == \E d \in EngineDecisions : decisions[d].transfer = t

SentToReview(t) == \E d \in EngineDecisions : decisions[d].transfer = t /\ NeedsReview(d)

PollAt == {"pollDecision", "pollReview", "pollWrite"}

DeployAt == {"deployDecision", "deployReview", "deployInsert", "deployComplete"}

Place(j) ==
    /\ j.at \in PollAt => SentToReview(j.transfer)
    /\ j.at \in PollAt \cup DeployAt => j.transfer \in Transfers /\ Settled(j.transfer)
    /\ Deciding(j) => j.row.transfer \in Transfers /\ ~Settled(j.row.transfer)
    /\ j.at = "setStatus" => ~Settled(decisions[j.decision].transfer)
    /\ j.at = "deployComplete" => \E d \in deployments : decisions[d].transfer = j.transfer

PlaceInv ==
    /\ \A t \in Transfers : Settled(t) => Decided(t)
    /\ \A t \in Transfers : status[t] = "REVIEW_PENDING" => SentToReview(t)
    /\ \A h \in Handlers : Place(job[h])

\* Rows stay and no transfer is settled anew.
PlaceKept ==
    /\ \A d \in DOMAIN decisions : d \in DOMAIN decisions' /\ decisions'[d] = decisions[d]
    /\ deployments \subseteq deployments'
    /\ \A t \in Transfers : Settled(t)' <=> Settled(t)
    /\ \A t \in Transfers : status'[t] = "REVIEW_PENDING" => status[t] = "REVIEW_PENDING"

LEMMA DecidedStays ==
    ASSUME \A d \in DOMAIN decisions : d \in DOMAIN decisions' /\ decisions'[d] = decisions[d],
           NEW t
    PROVE  (Decided(t) => Decided(t)') /\ (SentToReview(t) => SentToReview(t)')
  BY DEF Decided, SentToReview, NeedsReview, EngineDecisions

LEMMA PlaceStays ==
    ASSUME TypeInv, PlaceKept, NEW j, PointersOf(j), Place(j)
    PROVE  Place(j)'
<1>1. j.at \in PollAt => SentToReview(j.transfer)'
  BY DecidedStays DEF Place, PlaceKept
<1>2. /\ j.at \in PollAt \cup DeployAt => j.transfer \in Transfers /\ Settled(j.transfer)'
      /\ Deciding(j) => j.row.transfer \in Transfers /\ ~Settled(j.row.transfer)'
  BY DEF Place, PlaceKept
<1>3. j.at = "setStatus" => ~Settled(decisions[j.decision].transfer)'
  <2>1. ASSUME j.at = "setStatus" PROVE ~Settled(decisions[j.decision].transfer)'
    <3>1. j.decision \in DOMAIN decisions /\ decisions[j.decision].transfer \in Transfers
      BY <2>1, RowTypes DEF PointersOf, EngineDecisions
    <3>2. PICK t \in Transfers : t = decisions[j.decision].transfer /\ ~Settled(t)
      BY <2>1, <3>1 DEF Place
    <3>3. ~Settled(t)' /\ decisions'[j.decision].transfer = t
      BY <3>1, <3>2 DEF PlaceKept
    <3>. QED
      BY <3>3 DEF Settled
  <2>. QED
    BY <2>1
<1>4. j.at = "deployComplete" =>
          \E d \in deployments' : decisions'[d].transfer = j.transfer
  BY DEF Place, PlaceKept, TypeInv, TypeOK
<1>. QED
  BY <1>1, <1>2, <1>3, <1>4 DEF Place

LEMMA PlaceMoves ==
    ASSUME TypeInv, PlaceInv, PlaceKept, NEW h \in Handlers, NEW next, Goto(h, next),
           Place(next)'
    PROVE  PlaceInv'
<1>1. ASSUME NEW i \in Handlers PROVE Place(job[i])'
  <2>1. PICK j : j = job'[i] /\ Place(j)'
    <3>1. CASE i = h
      BY <3>1, GotoFacts
    <3>2. CASE i # h
      <4>1. PICK j : j = job[i] /\ PointersOf(j) /\ Place(j)
        BY DEF PlaceInv, TypeInv, JobPointers
      <4>2. Place(j)' /\ job'[i] = j
        BY <3>2, <4>1, PlaceStays, GotoFacts
      <4>. QED
        BY <4>2
    <3>. QED
      BY <3>1, <3>2
  <2>. QED
    BY <2>1 DEF Place, Settled, SentToReview, NeedsReview
<1>2. ASSUME NEW t \in Transfers
      PROVE  /\ Settled(t)' => Decided(t)'
             /\ status'[t] = "REVIEW_PENDING" => SentToReview(t)'
  BY DecidedStays DEF PlaceInv, PlaceKept
<1>. QED
  BY <1>1, <1>2 DEF PlaceInv

\* A handler moves on and writes none of the tables this is about.
LEMMA PlaceQuiet ==
    ASSUME TypeInv, PlaceInv, NEW h \in Handlers, NEW next, Goto(h, next), Place(next),
           UNCHANGED <<decisions, status, deployments>>
    PROVE  PlaceInv'
<1>1. PlaceKept
  BY DEF PlaceKept, Settled
<1>2. Place(next)'
  BY DEF Place, Settled, SentToReview, NeedsReview, EngineDecisions
<1>. QED
  BY <1>1, <1>2, PlaceMoves

\* The row of the engine's decision is there before its transfer is settled.
LEMMA PlaceInsert ==
    ASSUME TypeInv, PlaceInv, NEW h \in Handlers, InsertDecision(h)
    PROVE  PlaceInv'
<1>. PICK n : n = Len(decisions) + 1
  OBVIOUS
<1>. PICK j : j = job[h] /\ Place(j)
  BY DEF PlaceInv
<1>. PICK next : next = IF j.row.model = "rule_based_engine"
                        THEN [at |-> "setStatus", decision |-> n] ELSE Idle
  OBVIOUS
<1>1. Goto(h, next) /\ UNCHANGED <<status, deployments>> /\ j.at = "insertDecision"
  BY DEF InsertDecision
<1>2. /\ \A d \in DOMAIN decisions : d \in DOMAIN decisions' /\ decisions'[d] = decisions[d]
      /\ decisions'[n] = j.row
  BY InsertFacts DEF TypeInv
<1>3. PlaceKept
  BY <1>1, <1>2 DEF PlaceKept, Settled
<1>4. Place(next)'
  <2>1. CASE j.row.model = "rule_based_engine"
    <3>1. ~Settled(j.row.transfer)
      BY <1>1, <2>1 DEF Place, Deciding, Inserting
    <3>2. next = [at |-> "setStatus", decision |-> n]
      BY <2>1
    <3>3. status'[decisions'[n].transfer] \in {"absent", "PENDING"}
      BY <1>1, <1>2, <3>1 DEF Settled
    <3>. QED
      BY <3>2, <3>3 DEF Place, Settled, PollAt, DeployAt, Deciding, Inserting
  <2>2. CASE j.row.model # "rule_based_engine"
    BY <2>2 DEF Place, Idle, PollAt, DeployAt, Deciding, Inserting
  <2>. QED
    BY <2>1, <2>2
<1>. QED
  BY <1>1, <1>3, <1>4, PlaceMoves

\* The status is written for the first time by the one request that decides.
LEMMA PlaceSetStatus ==
    ASSUME TypeInv, ReviewInv, RulingInv, PlaceInv, NEW h \in Handlers, SetStatus(h)
    PROVE  PlaceInv'
<1>. PICK d : d = job[h].decision
  OBVIOUS
<1>. PICK w : w = decisions[d].transfer
  OBVIOUS
<1>. PICK next : next = [at |-> IF decisions[d].result.outcome = "REVIEW"
                                THEN "createReview" ELSE "cite", decision |-> d]
  OBVIOUS
<1>1. job'[h] = next /\ \A i \in Handlers \ {h} : job'[i] = job[i]
  BY GotoFacts DEF SetStatus
<1>2. d \in EngineDecisions /\ d \in DOMAIN decisions /\ w \in Transfers
  BY RowTypes DEF SetStatus, TypeInv, JobPointers, PointersOf, EngineDecisions
<1>3. /\ UNCHANGED <<decisions, deployments>>
      /\ status'[w] = status_map(decisions[d].result.outcome)
      /\ \A t \in Transfers \ {w} : status'[t] = status[t]
  BY <1>2 DEF SetStatus, TypeInv, TypeOK
<1>4. /\ \A t \in Transfers : Settled(t) => Settled(t)'
      /\ \A t \in Transfers : t # w /\ Settled(t)' => Settled(t)
  BY <1>3 DEF Settled, status_map
<1>5. \A t : (Decided(t) => Decided(t)') /\ (SentToReview(t) => SentToReview(t)')
  BY <1>3 DEF Decided, SentToReview, NeedsReview, EngineDecisions
<1>6. ASSUME NEW i \in Handlers PROVE Place(job[i])'
  <2>1. CASE i = h
    BY <1>1, <2>1 DEF Place, PollAt, DeployAt, Deciding, Inserting
  <2>2. CASE i # h
    <3>1. PICK j : j = job[i] /\ job'[i] = j /\ Place(j)
      BY <1>1, <2>2 DEF PlaceInv
    <3>2. Deciding(j) => j.row.transfer # w
      BY <1>2, <3>1 DEF RulingInv, Fresh
    <3>3. j.at = "setStatus" => decisions[j.decision].transfer # w
                                /\ decisions[j.decision].transfer \in Transfers
      <4>1. ASSUME j.at = "setStatus"
            PROVE  decisions[j.decision].transfer # w
                   /\ decisions[j.decision].transfer \in Transfers
        <5>1. j.decision # d
          BY <2>2, <3>1, <4>1 DEF ReviewInv, Reviewless, SetStatus
        <5>2. j.decision \in EngineDecisions /\ j.decision \in DOMAIN decisions
          BY <3>1, <4>1 DEF TypeInv, JobPointers, PointersOf, EngineDecisions
        <5>. QED
          BY <1>2, <5>1, <5>2, RowTypes DEF RulingInv
      <4>. QED
        BY <4>1
    <3>4. /\ j.at \in PollAt => SentToReview(j.transfer)'
          /\ j.at \in PollAt \cup DeployAt => j.transfer \in Transfers /\ Settled(j.transfer)'
      BY <1>4, <1>5, <3>1 DEF Place
    <3>5. Deciding(j) => j.row.transfer \in Transfers /\ ~Settled(j.row.transfer)'
      BY <1>4, <3>1, <3>2 DEF Place
    <3>6. j.at = "setStatus" => ~Settled(decisions[j.decision].transfer)'
      BY <1>3, <3>1, <3>3 DEF Place, Settled
    <3>7. j.at = "deployComplete" =>
              \E e \in deployments' : decisions'[e].transfer = j.transfer
      BY <1>3, <3>1 DEF Place
    <3>8. Place(j)'
      BY <3>4, <3>5, <3>6, <3>7 DEF Place
    <3>. QED
      BY <3>1, <3>8 DEF Place, Settled, SentToReview, NeedsReview
  <2>. QED
    BY <2>1, <2>2
<1>7. Decided(w)
  BY <1>2 DEF Decided
<1>8. ASSUME NEW t \in Transfers, Settled(t)' PROVE Decided(t)'
  BY <1>4, <1>5, <1>7, <1>8 DEF PlaceInv
<1>9. ASSUME NEW t \in Transfers, status'[t] = "REVIEW_PENDING" PROVE SentToReview(t)'
  <2>1. CASE t = w
    <3>1. decisions[d].result.outcome \notin {"ALLOW", "DENY"}
      BY <1>3, <1>9, <2>1 DEF status_map
    <3>2. decisions[d].result.outcome \in {"ALLOW", "DENY", "REVIEW"}
      BY <1>2, RowTypes
         DEF Decision, DecisionResult, Outcome, HumanResults, HumanResult
    <3>3. SentToReview(w)
      BY <1>2, <3>1, <3>2 DEF SentToReview, NeedsReview
    <3>. QED
      BY <1>5, <2>1, <3>3
  <2>2. CASE t # w
    BY <1>3, <1>5, <1>9, <2>2 DEF PlaceInv
  <2>. QED
    BY <2>1, <2>2
<1>. QED
  BY <1>6, <1>8, <1>9 DEF PlaceInv

\* Whoever writes a status later writes that of a transfer that has one.
LEMMA PlaceWrites ==
    ASSUME TypeInv, PlaceInv, NEW h \in Handlers, NEW t \in Transfers, Settled(t),
           NEW s \in {"ALLOWED", "DENIED", "COMPLETED"}, status' = [status EXCEPT ![t] = s],
           Goto(h, Idle), UNCHANGED <<decisions, deployments>>
    PROVE  PlaceInv'
<1>. PICK next : next = Idle
  OBVIOUS
<1>1. PlaceKept
  BY DEF PlaceKept, Settled, TypeInv, TypeOK
<1>2. Place(next)'
  BY DEF Place, Idle, PollAt, DeployAt, Deciding, Inserting
<1>. QED
  BY <1>1, <1>2, PlaceMoves

LEMMA PlaceStep ==
    ASSUME TypeInv, ReviewInv, RulingInv, AnswerInv, PlaceInv, [Next]_vars
    PROVE  PlaceInv'
<1>. USE DEF PollAt, DeployAt
<1>1. ASSUME NEW h \in Handlers, NEW next, Goto(h, next),
             next.at \notin PollAt \cup DeployAt \cup {"demote", "insertDecision", "setStatus"},
             UNCHANGED <<decisions, status, deployments>>
      PROVE  PlaceInv'
  BY <1>1, PlaceQuiet DEF Place, Deciding, Inserting
<1>2. ASSUME NEW h \in Handlers, Goto(h, Idle), UNCHANGED <<decisions, status, deployments>>
      PROVE  PlaceInv'
  BY <1>1, <1>2 DEF Idle
\* Polls and deployments carry their transfer along.
<1>3. ASSUME NEW h \in Handlers, NEW next, Goto(h, next),
             UNCHANGED <<decisions, status, deployments>>,
             \/ next.at \in {"pollReview", "pollWrite"} /\ job[h].at \in PollAt
             \/ next.at \in {"deployReview", "deployInsert"} /\ job[h].at \in DeployAt,
             next.transfer = job[h].transfer
      PROVE  PlaceInv'
  <2>1. Place(job[h])
    BY DEF PlaceInv
  <2>2. /\ next.at \in PollAt => SentToReview(next.transfer)
        /\ next.transfer \in Transfers /\ Settled(next.transfer)
    BY <1>3, <2>1 DEF Place
  <2>3. next.at \notin {"demote", "insertDecision", "setStatus", "deployComplete"}
    BY <1>3
  <2>4. Place(next)
    BY <2>2, <2>3 DEF Place, Deciding, Inserting
  <2>. QED
    BY <1>3, <2>4, PlaceQuiet
<1>4. \A t \in known : t \in Transfers /\ Settled(t)
  BY RowTypes DEF AnswerInv, Complete, TypeInv, TypeOK
<1>5. ASSUME NEW h \in Handlers, Request(h) PROVE PlaceInv'
  <2>1. ASSUME NEW e \in Entities, NEW dest \in Destinations, ReadClassification(h, e, dest)
        PROVE  PlaceInv'
    BY <1>1, <2>1 DEF ReadClassification, database
  <2>2. ASSUME NEW t \in Transfers, PollTransfer(h, t) PROVE PlaceInv'
    <3>. PICK next : next = [at |-> "pollDecision", transfer |-> t]
      OBVIOUS
    <3>1. Goto(h, next) /\ UNCHANGED <<decisions, status, deployments>>
      BY <2>2 DEF PollTransfer, database
    <3>2. Place(next)
      BY <1>4, <2>2 DEF PollTransfer, PlaceInv, Place, Deciding, Inserting
    <3>. QED
      BY <3>1, <3>2, PlaceQuiet
  <2>3. ASSUME NEW t \in Transfers, DeployTransfer(h, t) PROVE PlaceInv'
    <3>. PICK next : next = [at |-> "deployDecision", transfer |-> t, status |-> status[t]]
      OBVIOUS
    <3>1. Goto(h, next) /\ UNCHANGED <<decisions, status, deployments>>
      BY <2>3 DEF DeployTransfer, database
    <3>2. Place(next)
      BY <1>4, <2>3 DEF DeployTransfer, Place, Deciding, Inserting
    <3>. QED
      BY <3>1, <3>2, PlaceQuiet
  <2>4. ASSUME NEW d \in DOMAIN decisions, NEW ruling \in Rulings, ResolveReview(h, d, ruling)
        PROVE  PlaceInv'
    <3>. PICK row : row = [decisions[d] EXCEPT !.model = "human_reviewer",
                                               !.result = HumanResult(ruling)]
      OBVIOUS
    <3>. PICK next : next = [at |-> "demote", row |-> row]
      OBVIOUS
    <3>1. row.model = "human_reviewer"
      BY RowTypes DEF Decision
    <3>2. Goto(h, next) /\ UNCHANGED <<decisions, status, deployments>>
      BY <2>4 DEF ResolveReview
    <3>3. Place(next)
      BY <3>1 DEF Place, Deciding, Inserting
    <3>. QED
      BY <3>2, <3>3, PlaceQuiet
  <2>. QED
    BY <1>5, <2>1, <2>2, <2>3, <2>4 DEF Request
<1>6. ASSUME NEW h \in Handlers, TransferStep(h) PROVE PlaceInv'
  <2>. job[h] \in Job /\ Place(job[h])
    BY DEF TypeInv, TypeOK, PlaceInv
  <2>1. CASE ReadCompany(h)
    BY <1>1, <2>1 DEF ReadCompany, database
  <2>2. CASE ReadSchemaId(h)
    BY <1>1, <2>2 DEF ReadSchemaId, database
  <2>3. ASSUME NEW t \in Transfers, InsertTransfer(h, t) PROVE PlaceInv'
    <3>. PICK row : row = [transfer |-> t, entity |-> job[h].entity, dest |-> job[h].dest,
                           schema |-> job[h].schema, model |-> "rule_based_engine",
                           result |-> job[h].result]
      OBVIOUS
    <3>. PICK next : next = [at |-> "demote", row |-> row]
      OBVIOUS
    <3>1. /\ Goto(h, next) /\ UNCHANGED <<decisions, deployments>>
          /\ status[t] = "absent" /\ status' = [status EXCEPT ![t] = "PENDING"]
      BY <2>3 DEF InsertTransfer
    <3>2. PlaceKept /\ ~Settled(t)'
      BY <3>1 DEF PlaceKept, Settled, TypeInv, TypeOK
    <3>3. Place(next)'
      BY <3>2 DEF Place, Settled
    <3>. QED
      BY <3>1, <3>2, <3>3, PlaceMoves
  <2>4. CASE InsertTransferFails(h)
    BY <1>2, <2>4 DEF InsertTransferFails, database
  <2>5. CASE Demote(h)
    <3>. PICK next : next = [at |-> "insertDecision", row |-> job[h].row,
                             seen |-> {d \in current : decisions[d].entity = job[h].row.entity}]
      OBVIOUS
    <3>1. Goto(h, next) /\ UNCHANGED <<decisions, status, deployments>>
      BY <2>5 DEF Demote, database
    <3>2. Place(next)
      BY <2>5 DEF Demote, Place, Deciding, Inserting
    <3>. QED
      BY <3>1, <3>2, PlaceQuiet
  <2>6. CASE InsertDecision(h)
    BY <2>6, PlaceInsert
  <2>7. CASE SetStatus(h)
    BY <2>7, PlaceSetStatus
  <2>8. ASSUME NEW at \in {"cite", "reply"}, job[h].at \in {"createReview", "cite"},
               Goto(h, [job[h] EXCEPT !.at = at]), UNCHANGED <<decisions, status, deployments>>
        PROVE  PlaceInv'
    <3>. PICK next : next = [at |-> at, decision |-> job[h].decision]
      OBVIOUS
    <3>1. Goto(h, next)
      BY <2>8, NextPlace
    <3>. QED
      BY <1>1, <2>8, <3>1
  <2>9. CASE Reply(h)
    BY <1>2, <2>9 DEF Reply, database
  <2>. QED
    BY <1>6, <2>1, <2>2, <2>3, <2>4, <2>5, <2>6, <2>7, <2>8, <2>9
       DEF TransferStep, CreateReview, Cite
<1>7. ASSUME NEW h \in Handlers, PollStep(h) PROVE PlaceInv'
  <2>1. ASSUME NEW r, Persist(h, job[h].transfer, r), job[h].at \in PollAt,
               UNCHANGED <<decisions, status, deployments>>
        PROVE  PlaceInv'
    <3>. PICK next : next = [at |-> "pollWrite", transfer |-> job[h].transfer,
                             target |-> IF r.effective = "ALLOWED" THEN "ALLOWED" ELSE "DENIED"]
      OBVIOUS
    <3>1. CASE Goto(h, Idle)
      BY <1>2, <2>1, <3>1
    <3>2. CASE Goto(h, next)
      <4>1. next.at = "pollWrite" /\ next.transfer = job[h].transfer
        OBVIOUS
      <4>2. /\ next.at \in {"pollReview", "pollWrite"} /\ job[h].at \in PollAt
            /\ UNCHANGED <<decisions, status, deployments>>
        BY <2>1, <4>1
      <4>. HIDE DEF PollAt, DeployAt
      <4>. QED
        BY <1>3, <3>2, <4>1, <4>2
    <3>. QED
      BY <2>1, <3>1, <3>2 DEF Persist
  <2>2. CASE PollDecision(h)
    <3>1. ASSUME NEW d,
                 Goto(h, [at |-> "pollReview", transfer |-> job[h].transfer, decision |-> d])
          PROVE  PlaceInv'
      <4>. PICK next : next = [at |-> "pollReview", transfer |-> job[h].transfer, decision |-> d]
        OBVIOUS
      <4>1. next.at \in {"pollReview", "pollWrite"} /\ next.transfer = job[h].transfer
        OBVIOUS
      <4>2. Goto(h, next) /\ job[h].at \in PollAt /\ UNCHANGED <<decisions, status, deployments>>
        BY <2>2, <3>1 DEF PollDecision, database
      <4>. HIDE DEF PollAt, DeployAt
      <4>. QED
        BY <1>3, <4>1, <4>2
    <3>. QED
      BY <2>1, <2>2, <3>1 DEF PollDecision, database
  <2>3. CASE PollReview(h)
    BY <2>1, <2>3 DEF PollReview, database
  <2>4. CASE PollWrite(h)
    <3>1. job[h].transfer \in Transfers /\ Settled(job[h].transfer)
      BY <2>4 DEF PollWrite, PlaceInv, Place
    <3>2. job[h].target \in {"ALLOWED", "DENIED", "COMPLETED"}
      BY <2>4, JobFields DEF PollWrite, TypeInv, TypeOK
    <3>. QED
      BY <2>4, <3>1, <3>2, PlaceWrites DEF PollWrite
  <2>. QED
    BY <1>7, <2>2, <2>3, <2>4 DEF PollStep
<1>8. ASSUME NEW h \in Handlers, DeployStep(h) PROVE PlaceInv'
  <2>1. CASE DeployDecision(h)
    <3>1. ASSUME NEW d, Goto(h, [at |-> "deployReview", transfer |-> job[h].transfer,
                                 status |-> job[h].status, decision |-> d])
          PROVE  PlaceInv'
      BY <1>3, <2>1, <3>1 DEF DeployDecision, database
    <3>. QED
      BY <1>2, <2>1, <3>1 DEF DeployDecision, database
  <2>2. CASE DeployReview(h)
    <3>1. ASSUME Goto(h, [at |-> "deployInsert", transfer |-> job[h].transfer,
                          decision |-> job[h].decision])
          PROVE  PlaceInv'
      BY <1>3, <2>2, <3>1 DEF DeployReview, database
    <3>. QED
      BY <1>2, <2>2, <3>1 DEF DeployReview, database
  <2>3. CASE DeployInsert(h)
    <3>. PICK d : d = job[h].decision
      OBVIOUS
    <3>. PICK next : next = [at |-> "deployComplete", transfer |-> job[h].transfer]
      OBVIOUS
    <3>1. /\ Goto(h, next) /\ UNCHANGED <<decisions, status>>
          /\ deployments' = deployments \cup {d}
      BY <2>3 DEF DeployInsert
    <3>2. decisions[d].transfer = job[h].transfer
      BY <2>3 DEF DeployInsert, TypeInv, JobPointers, PointersOf
    <3>3. job[h].transfer \in Transfers /\ Settled(job[h].transfer)
      BY <2>3 DEF DeployInsert, PlaceInv, Place
    <3>4. PlaceKept
      BY <3>1 DEF PlaceKept, Settled
    <3>5. Place(next)'
      BY <3>1, <3>2, <3>3 DEF Place, Deciding, Inserting, Settled
    <3>. QED
      BY <3>1, <3>4, <3>5, PlaceMoves
  <2>4. CASE DeployComplete(h)
    <3>1. job[h].transfer \in Transfers /\ Settled(job[h].transfer)
      BY <2>4 DEF DeployComplete, PlaceInv, Place
    <3>. QED
      BY <2>4, <3>1, PlaceWrites DEF DeployComplete
  <2>. QED
    BY <1>8, <2>1, <2>2, <2>3, <2>4 DEF DeployStep
<1>9. ASSUME NEW h \in Handlers, Die(h) PROVE PlaceInv'
  BY <1>2, <1>9 DEF Die, database
<1>10. CASE Environment \/ UNCHANGED vars
  <2>1. UNCHANGED <<decisions, status, deployments, job>>
    BY <1>10 DEF Environment, Ingest, UpdateCompany, Expire, vars, database
  <2>. QED
    BY <2>1 DEF PlaceInv, Place, Settled, Decided, SentToReview, NeedsReview, EngineDecisions
<1>. QED
  BY <1>5, <1>6, <1>7, <1>8, <1>9, <1>10 DEF Next, HandlerStep

LEMMA InitPlaceInv == Init => PlaceInv
  BY DEF Init, PlaceInv, Place, Settled, Deciding, Inserting, Idle, PollAt, DeployAt

\* Everything the mapping rests on.
MappingInv ==
    TypeInv /\ ReviewInv /\ RulingInv /\ AnswerInv /\ ClearanceInv /\ PlaceInv

LEMMA MappingInvariant == Spec => []MappingInv
<1>1. MappingInv /\ [Next]_vars => MappingInv'
  BY TypeStep, ReviewStep, RulingStep, AnswerStep, ClearanceStep, PlaceStep DEF MappingInv
<1>2. Init => MappingInv
  BY InitTypeInv, InitReviewInv, InitRulingInv, InitAnswerInv, InitClearanceInv, InitPlaceInv
     DEF MappingInv
<1>. QED
  BY <1>1, <1>2, PTL DEF Spec

-----------------------------------------------------------------------------
(***************************************************************************)
(* The mapping.  The engine decides a transfer once, so the CHOOSE of      *)
(* VerdictOn and RulingOn has nothing to choose.                           *)
(***************************************************************************)
verdictOf == [t \in Transfers |-> VerdictOn(t)]

rulingOf == [t \in Transfers |-> RulingOn(t)]

answerOf ==
    [t \in Transfers |-> IF status[t] \in {"absent", "PENDING"} THEN "none" ELSE status[t]]

releasedOf == {decisions[d].transfer : d \in deployments}

LEMMA ChooseTheOne ==
    ASSUME NEW S, NEW d \in S, \A e \in S : e = d
    PROVE  (CHOOSE e \in S : TRUE) = d
  OBVIOUS

LEMMA VerdictFacts ==
    ASSUME RulingInv, NEW d \in EngineDecisions
    PROVE  /\ VerdictOn(decisions[d].transfer) = decisions[d].result.outcome
           /\ RulingOn(decisions[d].transfer) = review[d]
<1>. PICK t : t = decisions[d].transfer
  OBVIOUS
<1>. PICK S : S = EngineDecision(t)
  OBVIOUS
<1>1. d \in S /\ \A e \in S : e = d
  BY DEF RulingInv, EngineDecision
<1>2. (CHOOSE e \in S : TRUE) = d
  BY <1>1, ChooseTheOne
<1>. QED
  BY <1>1, <1>2 DEF VerdictOn, RulingOn

LEMMA NextVerdictFacts ==
    ASSUME RulingInv', NEW d, d \in EngineDecisions', NEW t, t = decisions'[d].transfer
    PROVE  VerdictOn(t)' = decisions'[d].result.outcome /\ RulingOn(t)' = review'[d]
<1>. PICK S : S = EngineDecision(t)'
  OBVIOUS
<1>1. d \in S /\ \A e \in S : e = d
  BY DEF RulingInv, EngineDecision
<1>2. (CHOOSE e \in S : TRUE) = d
  BY <1>1, ChooseTheOne
<1>3. VerdictOn(t)' = IF S = {} THEN "none"
                      ELSE decisions'[CHOOSE e \in S : TRUE].result.outcome
  BY DEF VerdictOn
<1>4. RulingOn(t)' = IF S = {} THEN "none" ELSE review'[CHOOSE e \in S : TRUE]
  BY DEF RulingOn
<1>5. S # {}
  BY <1>1
<1>. QED
  BY <1>2, <1>3, <1>4, <1>5

LEMMA UndecidedFacts ==
    ASSUME NEW t, ~Decided(t)
    PROVE  VerdictOn(t) = "none" /\ RulingOn(t) = "none"
  BY DEF Decided, EngineDecision, VerdictOn, RulingOn

LEMMA NextUndecidedFacts ==
    ASSUME NEW t, ~Decided(t)'
    PROVE  VerdictOn(t)' = "none" /\ RulingOn(t)' = "none"
  BY DEF Decided, EngineDecision, VerdictOn, RulingOn

LEMMA ClearedProceeds ==
    ASSUME RulingInv, NEW t \in Transfers, Cleared(t)
    PROVE  verdictOf[t] = "ALLOW" \/ rulingOf[t] = "APPROVED"
  BY VerdictFacts DEF Cleared, verdictOf, rulingOf

\* The abstract steps, in terms of the mapping.
Abstract == [Authority!Next]_(Authority!authorityVars)

LEMMA AbstractStutter ==
    ASSUME UNCHANGED <<verdictOf, rulingOf, answerOf, releasedOf>>
    PROVE  Abstract
  BY DEF Abstract, Authority!authorityVars, verdictOf, rulingOf, answerOf, releasedOf

LEMMA AbstractDecide ==
    ASSUME NEW t \in Transfers, NEW v \in {"ALLOW", "DENY", "REVIEW"}, verdictOf[t] = "none",
           verdictOf' = [verdictOf EXCEPT ![t] = v],
           UNCHANGED <<rulingOf, answerOf, releasedOf>>
    PROVE  Abstract
  BY DEF Abstract, Authority!Next, Authority!Decide, Authority!Verdict,
     verdictOf, rulingOf, answerOf, releasedOf

LEMMA AbstractOpenReview ==
    ASSUME NEW t \in Transfers, verdictOf[t] = "REVIEW", rulingOf[t] = "none",
           rulingOf' = [rulingOf EXCEPT ![t] = "PENDING"],
           UNCHANGED <<verdictOf, answerOf, releasedOf>>
    PROVE  Abstract
  BY DEF Abstract, Authority!Next, Authority!OpenReview,
     verdictOf, rulingOf, answerOf, releasedOf

LEMMA AbstractCloseReview ==
    ASSUME NEW t \in Transfers, NEW r \in {"APPROVED", "REJECTED", "EXPIRED"},
           rulingOf[t] = "PENDING", rulingOf' = [rulingOf EXCEPT ![t] = r],
           UNCHANGED <<verdictOf, answerOf, releasedOf>>
    PROVE  Abstract
  BY DEF Abstract, Authority!Next, Authority!CloseReview,
     verdictOf, rulingOf, answerOf, releasedOf

LEMMA AbstractTell ==
    ASSUME NEW t \in Transfers,
           NEW a \in {"REVIEW_PENDING", "ALLOWED", "DENIED", "COMPLETED"},
           verdictOf[t] # "none",
           a = "REVIEW_PENDING" => verdictOf[t] = "REVIEW" /\ answerOf[t] = "none",
           a = "ALLOWED" => verdictOf[t] = "ALLOW" \/ rulingOf[t] = "APPROVED",
           a = "DENIED" => verdictOf[t] # "ALLOW",
           a = "COMPLETED" => t \in releasedOf,
           answerOf' = [answerOf EXCEPT ![t] = a],
           UNCHANGED <<verdictOf, rulingOf, releasedOf>>
    PROVE  Abstract
  BY DEF Abstract, Authority!Next, Authority!Tell, Authority!Answer, Authority!MayProceed,
     verdictOf, rulingOf, answerOf, releasedOf

LEMMA AbstractRelease ==
    ASSUME NEW t \in Transfers, verdictOf[t] = "ALLOW" \/ rulingOf[t] = "APPROVED",
           releasedOf' = releasedOf \cup {t},
           UNCHANGED <<verdictOf, rulingOf, answerOf>>
    PROVE  Abstract
  BY DEF Abstract, Authority!Next, Authority!Release, Authority!MayProceed,
     verdictOf, rulingOf, answerOf, releasedOf

LEMMA MapSame ==
    /\ UNCHANGED <<decisions, review>> => UNCHANGED <<verdictOf, rulingOf>>
    /\ UNCHANGED status => UNCHANGED answerOf
    /\ UNCHANGED <<decisions, deployments>> => UNCHANGED releasedOf
<1>1. ASSUME UNCHANGED <<decisions, review>> PROVE UNCHANGED <<verdictOf, rulingOf>>
  BY <1>1 DEF verdictOf, rulingOf, VerdictOn, RulingOn, EngineDecision, EngineDecisions
<1>. QED
  BY <1>1 DEF answerOf, releasedOf

\* A status is written.
LEMMA MapStatus ==
    ASSUME TypeInv, NEW t \in Transfers, NEW s \in {"REVIEW_PENDING", "ALLOWED", "DENIED", "COMPLETED"},
           status' = [status EXCEPT ![t] = s]
    PROVE  answerOf' = [answerOf EXCEPT ![t] = s]
<1>1. DOMAIN status = Transfers
  BY DEF TypeInv, TypeOK
<1>. QED
  BY <1>1 DEF answerOf

\* A review is opened or closed.
LEMMA MapReview ==
    ASSUME TypeInv, RulingInv, RulingInv', NEW d \in EngineDecisions, NEW r \in AuthorizationView,
           review' = [review EXCEPT ![d] = r], UNCHANGED decisions
    PROVE  /\ decisions[d].transfer \in Transfers
           /\ verdictOf[decisions[d].transfer] = decisions[d].result.outcome
           /\ rulingOf[decisions[d].transfer] = review[d]
           /\ UNCHANGED verdictOf
           /\ rulingOf' = [rulingOf EXCEPT ![decisions[d].transfer] = r]
<1>. PICK w : w = decisions[d].transfer
  OBVIOUS
<1>1. d \in DOMAIN decisions /\ w \in Transfers
  BY RowTypes DEF EngineDecisions
<1>2. VerdictOn(w) = decisions[d].result.outcome /\ RulingOn(w) = review[d]
  BY VerdictFacts
<1>3. verdictOf' = verdictOf
  BY DEF verdictOf, VerdictOn, EngineDecision, EngineDecisions
<1>4. \A e \in DOMAIN decisions : review'[e] = IF e = d THEN r ELSE review[e]
  BY <1>1, ReviewFacts DEF TypeInv
<1>5. RulingOn(w)' = r
  <2>1. d \in EngineDecisions' /\ w = decisions'[d].transfer /\ review'[d] = r
    BY <1>1, <1>4 DEF EngineDecisions
  <2>. QED
    BY <2>1, NextVerdictFacts
<1>6. ASSUME NEW t \in Transfers, t # w PROVE RulingOn(t)' = RulingOn(t)
  <2>1. CASE Decided(t)
    <3>1. PICK e \in EngineDecisions : decisions[e].transfer = t
      BY <2>1 DEF Decided
    <3>2. RulingOn(t) = review[e]
      BY <3>1, VerdictFacts
    <3>3. /\ e \in EngineDecisions' /\ t = decisions'[e].transfer /\ e # d
          /\ e \in DOMAIN decisions
      BY <1>6, <3>1 DEF EngineDecisions
    <3>4. RulingOn(t)' = review'[e]
      BY <3>3, NextVerdictFacts
    <3>. QED
      BY <1>4, <3>2, <3>3, <3>4
  <2>2. CASE ~Decided(t)
    <3>1. ~Decided(t)'
      BY <2>2 DEF Decided, EngineDecisions
    <3>. QED
      BY <2>2, <3>1, UndecidedFacts, NextUndecidedFacts
  <2>. QED
    BY <2>1, <2>2
<1>7. rulingOf' = [rulingOf EXCEPT ![w] = r]
  <2>1. rulingOf' = [t \in Transfers |-> RulingOn(t)']
    BY DEF rulingOf
  <2>2. [rulingOf EXCEPT ![w] = r] = [t \in Transfers |-> IF t = w THEN r ELSE RulingOn(t)]
    BY <1>1 DEF rulingOf
  <2>. QED
    BY <1>5, <1>6, <2>1, <2>2
<1>. QED
  BY <1>1, <1>2, <1>3, <1>7 DEF verdictOf, rulingOf

\* A decision is inserted.
LEMMA MapInsert ==
    ASSUME TypeInv, RulingInv, RulingInv', NEW h \in Handlers, InsertDecision(h)
    PROVE  Abstract
<1>. PICK n : n = Len(decisions) + 1
  OBVIOUS
<1>. PICK row : row = job[h].row /\ row \in Decision /\ row.transfer \in Transfers
  BY RowTypes DEF InsertDecision, Inserting
<1>1. /\ \A d \in DOMAIN decisions : /\ d \in DOMAIN decisions' /\ decisions'[d] = decisions[d]
                                     /\ review'[d] = review[d]
      /\ n \in DOMAIN decisions' /\ decisions'[n] = row /\ review'[n] = "none"
      /\ \A d \in DOMAIN decisions' : d \in DOMAIN decisions \/ d = n
      /\ n \notin DOMAIN decisions
  BY InsertFacts DEF TypeInv
<1>2. UNCHANGED answerOf
  BY MapSame DEF InsertDecision
<1>3. UNCHANGED releasedOf
  <2>1. deployments' = deployments /\ deployments \subseteq DOMAIN decisions
    BY DEF InsertDecision, TypeInv, TypeOK
  <2>. QED
    BY <1>1, <2>1 DEF releasedOf
<1>4. ASSUME NEW t, Decided(t)
      PROVE  VerdictOn(t)' = VerdictOn(t) /\ RulingOn(t)' = RulingOn(t)
  <2>1. PICK e \in EngineDecisions : decisions[e].transfer = t
    BY <1>4 DEF Decided
  <2>2. VerdictOn(t) = decisions[e].result.outcome /\ RulingOn(t) = review[e]
    BY <2>1, VerdictFacts
  <2>3. e \in EngineDecisions' /\ t = decisions'[e].transfer /\ e \in DOMAIN decisions
    BY <1>1, <2>1 DEF EngineDecisions
  <2>4. VerdictOn(t)' = decisions'[e].result.outcome /\ RulingOn(t)' = review'[e]
    BY <2>3, NextVerdictFacts
  <2>. QED
    BY <1>1, <2>2, <2>3, <2>4
<1>5. ASSUME NEW t, ~Decided(t), row.model # "rule_based_engine" \/ t # row.transfer
      PROVE  VerdictOn(t)' = VerdictOn(t) /\ RulingOn(t)' = RulingOn(t)
  <2>1. ~Decided(t)'
    BY <1>1, <1>5 DEF Decided, EngineDecisions
  <2>. QED
    BY <1>5, <2>1, UndecidedFacts, NextUndecidedFacts
<1>6. CASE row.model # "rule_based_engine"
  <2>1. \A t \in Transfers : VerdictOn(t)' = VerdictOn(t) /\ RulingOn(t)' = RulingOn(t)
    BY <1>4, <1>5, <1>6
  <2>2. UNCHANGED <<verdictOf, rulingOf>>
    BY <2>1 DEF verdictOf, rulingOf
  <2>. QED
    BY <1>2, <1>3, <2>2, AbstractStutter
<1>7. CASE row.model = "rule_based_engine"
  <2>. PICK w : w = row.transfer
    OBVIOUS
  <2>. PICK v : v = row.result.outcome
    OBVIOUS
  <2>1. ~Decided(w)
    BY <1>7 DEF InsertDecision, RulingInv, Deciding, Inserting, Fresh, Decided, EngineDecisions
  <2>2. VerdictOn(w) = "none" /\ RulingOn(w) = "none"
    BY <2>1, UndecidedFacts
  <2>3. n \in EngineDecisions' /\ w = decisions'[n].transfer
    BY <1>1, <1>7 DEF EngineDecisions
  <2>4. VerdictOn(w)' = v /\ RulingOn(w)' = "none"
    BY <1>1, <2>3, NextVerdictFacts
  <2>5. v \in {"ALLOW", "DENY", "REVIEW"}
    BY DEF Decision, DecisionResult, Outcome, HumanResults, HumanResult
  <2>6. \A t \in Transfers : t # w =>
            VerdictOn(t)' = VerdictOn(t) /\ RulingOn(t)' = RulingOn(t)
    BY <1>4, <1>5
  <2>7. verdictOf' = [verdictOf EXCEPT ![w] = v]
    <3>1. verdictOf' = [t \in Transfers |-> VerdictOn(t)']
      BY DEF verdictOf
    <3>2. [verdictOf EXCEPT ![w] = v] = [t \in Transfers |-> IF t = w THEN v ELSE VerdictOn(t)]
      BY DEF verdictOf
    <3>. QED
      BY <2>4, <2>6, <3>1, <3>2
  <2>8. rulingOf' = rulingOf
    <3>1. \A t \in Transfers : RulingOn(t)' = RulingOn(t)
      BY <2>2, <2>4, <2>6
    <3>. QED
      BY <3>1 DEF rulingOf
  <2>9. verdictOf[w] = "none"
    BY <2>2 DEF verdictOf
  <2>. QED
    BY <1>2, <1>3, <2>5, <2>7, <2>8, <2>9, AbstractDecide
<1>. QED
  BY <1>6, <1>7

LEMMA MapSetStatus ==
    ASSUME TypeInv, RulingInv, PlaceInv, NEW h \in Handlers, SetStatus(h)
    PROVE  Abstract
<1>. PICK d : d = job[h].decision
  OBVIOUS
<1>. PICK w : w = decisions[d].transfer
  OBVIOUS
<1>. PICK v : v = decisions[d].result.outcome
  OBVIOUS
<1>1. d \in EngineDecisions /\ w \in Transfers
  BY RowTypes DEF SetStatus, TypeInv, JobPointers, PointersOf, EngineDecisions
<1>2. verdictOf[w] = v
  BY <1>1, VerdictFacts DEF verdictOf
<1>3. v \in {"ALLOW", "DENY", "REVIEW"}
  BY <1>1, RowTypes
     DEF EngineDecisions, Decision, DecisionResult, Outcome, HumanResults, HumanResult
<1>4. /\ status' = [status EXCEPT ![w] = status_map(v)]
      /\ UNCHANGED <<decisions, review, deployments>>
  BY DEF SetStatus
<1>5. /\ v = "ALLOW" => status_map(v) = "ALLOWED"
      /\ v = "DENY" => status_map(v) = "DENIED"
      /\ v = "REVIEW" => status_map(v) = "REVIEW_PENDING"
  BY DEF status_map
<1>6. PICK a \in {"REVIEW_PENDING", "ALLOWED", "DENIED"} :
          /\ a = status_map(v)
          /\ a = "REVIEW_PENDING" => v = "REVIEW"
          /\ a = "ALLOWED" => v = "ALLOW"
          /\ a = "DENIED" => v = "DENY"
  BY <1>3, <1>5
<1>7. answerOf[w] = "none"
  BY <1>1 DEF SetStatus, PlaceInv, Place, Settled, answerOf
<1>8. answerOf' = [answerOf EXCEPT ![w] = a]
  BY <1>1, <1>4, <1>6, MapStatus
<1>9. UNCHANGED <<verdictOf, rulingOf, releasedOf>>
  BY <1>4, MapSame
<1>10. verdictOf[w] # "none" /\ a # "COMPLETED"
  BY <1>2, <1>3, <1>6
<1>. QED
  BY <1>1, <1>2, <1>6, <1>7, <1>8, <1>9, <1>10, AbstractTell

\* A poll or a deployment writes what it resolved.
LEMMA MapWrite ==
    ASSUME TypeInv, RulingInv, NEW t \in Transfers, NEW a \in {"ALLOWED", "DENIED", "COMPLETED"},
           Decided(t), a = "ALLOWED" => Cleared(t), a = "DENIED" => SentToReview(t),
           a = "COMPLETED" => \E d \in deployments : decisions[d].transfer = t,
           status' = [status EXCEPT ![t] = a], UNCHANGED <<decisions, review, deployments>>
    PROVE  Abstract
<1>1. verdictOf[t] # "none"
  <2>1. PICK d \in EngineDecisions : decisions[d].transfer = t
    BY DEF Decided
  <2>2. verdictOf[t] = decisions[d].result.outcome
    BY <2>1, VerdictFacts DEF verdictOf
  <2>3. decisions[d].result.outcome \in {"ALLOW", "DENY", "REVIEW"}
    BY <2>1, RowTypes
       DEF EngineDecisions, Decision, DecisionResult, Outcome, HumanResults, HumanResult
  <2>. QED
    BY <2>2, <2>3
<1>2. a = "DENIED" => verdictOf[t] # "ALLOW"
  BY VerdictFacts DEF SentToReview, NeedsReview, verdictOf
<1>3. a = "ALLOWED" => verdictOf[t] = "ALLOW" \/ rulingOf[t] = "APPROVED"
  BY ClearedProceeds
<1>4. a = "COMPLETED" => t \in releasedOf
  BY DEF releasedOf
<1>5. answerOf' = [answerOf EXCEPT ![t] = a]
  BY MapStatus
<1>6. UNCHANGED <<verdictOf, rulingOf, releasedOf>>
  BY MapSame
<1>. QED
  BY <1>1, <1>2, <1>3, <1>4, <1>5, <1>6, AbstractTell

LEMMA ReviewedIsDecided ==
    ASSUME NEW t, SentToReview(t)
    PROVE  Decided(t)
  BY DEF SentToReview, Decided

\* A reviewer or a deadline closes a review.
LEMMA MapClose ==
    ASSUME TypeInv, ReviewInv, RulingInv, RulingInv', NEW d \in DOMAIN decisions,
           NEW r \in {"APPROVED", "REJECTED", "EXPIRED"}, review[d] = "PENDING",
           review' = [review EXCEPT ![d] = r], UNCHANGED <<decisions, status, deployments>>
    PROVE  Abstract
<1>1. d \in EngineDecisions /\ r \in AuthorizationView
  BY DEF ReviewInv, AuthorizationView
<1>2. UNCHANGED <<answerOf, releasedOf>>
  BY MapSame
<1>. QED
  BY <1>1, <1>2, MapReview, AbstractCloseReview

LEMMA MapOpen ==
    ASSUME TypeInv, ReviewInv, RulingInv, RulingInv', AnswerInv, NEW h \in Handlers,
           CreateReview(h)
    PROVE  Abstract
<1>. PICK d : d = job[h].decision
  OBVIOUS
<1>1. d \in EngineDecisions /\ "PENDING" \in AuthorizationView
  BY DEF CreateReview, TypeInv, JobPointers, PointersOf, AuthorizationView
<1>2. review[d] = "none" /\ decisions[d].result.outcome = "REVIEW"
  BY DEF CreateReview, ReviewInv, Reviewless, AnswerInv, Marked, NeedsReview
<1>3. review' = [review EXCEPT ![d] = "PENDING"] /\ UNCHANGED <<decisions, status, deployments>>
  BY DEF CreateReview
<1>4. UNCHANGED <<answerOf, releasedOf>>
  BY <1>3, MapSame
<1>5. /\ decisions[d].transfer \in Transfers
      /\ verdictOf[decisions[d].transfer] = "REVIEW"
      /\ rulingOf[decisions[d].transfer] = "none"
      /\ UNCHANGED verdictOf
      /\ rulingOf' = [rulingOf EXCEPT ![decisions[d].transfer] = "PENDING"]
  BY <1>1, <1>2, <1>3, MapReview
<1>. QED
  BY <1>4, <1>5, AbstractOpenReview

LEMMA MapDeploy ==
    ASSUME TypeInv, RulingInv, ClearanceInv, PlaceInv, NEW h \in Handlers, DeployInsert(h)
    PROVE  Abstract
<1>. PICK d : d = job[h].decision
  OBVIOUS
<1>. PICK t : t = job[h].transfer
  OBVIOUS
<1>1. t \in Transfers /\ decisions[d].transfer = t /\ Cleared(t)
  BY DEF DeployInsert, PlaceInv, Place, DeployAt, TypeInv, JobPointers, PointersOf,
     ClearanceInv, HoldsClearance
<1>2. deployments' = deployments \cup {d} /\ UNCHANGED <<decisions, review, status>>
  BY DEF DeployInsert
<1>3. releasedOf' = releasedOf \cup {t}
  BY <1>1, <1>2 DEF releasedOf
<1>4. UNCHANGED <<verdictOf, rulingOf, answerOf>>
  BY <1>2, MapSame
<1>. QED
  BY <1>1, <1>3, <1>4, ClearedProceeds, AbstractRelease

\* Every step of a handler or of its surroundings is one of the authority's or none.
LEMMA MapStep ==
    ASSUME MappingInv, MappingInv', [Next]_vars
    PROVE  Abstract
<1>. USE DEF MappingInv
<1>1. ASSUME UNCHANGED <<decisions, review, status, deployments>> PROVE Abstract
  BY <1>1, MapSame, AbstractStutter
<1>2. ASSUME NEW h \in Handlers, Request(h) PROVE Abstract
  <2>1. ASSUME NEW d \in DOMAIN decisions, NEW ruling \in Rulings, ResolveReview(h, d, ruling)
        PROVE  Abstract
    <3>1. ruling \in {"APPROVED", "REJECTED", "EXPIRED"}
      BY LifecycleAssumption
    <3>. QED
      BY <2>1, <3>1, MapClose DEF ResolveReview
  <2>. QED
    BY <1>1, <1>2, <2>1 DEF Request, ReadClassification, PollTransfer, DeployTransfer, database
<1>3. ASSUME NEW h \in Handlers, TransferStep(h) PROVE Abstract
  <2>1. ASSUME NEW t \in Transfers, InsertTransfer(h, t) PROVE Abstract
    <3>1. UNCHANGED answerOf
      BY <2>1 DEF InsertTransfer, answerOf, TypeInv, TypeOK
    <3>2. UNCHANGED <<decisions, review, deployments>>
      BY <2>1 DEF InsertTransfer
    <3>. QED
      BY <3>1, <3>2, MapSame, AbstractStutter
  <2>2. CASE InsertDecision(h)
    BY <2>2, MapInsert
  <2>3. CASE SetStatus(h)
    BY <2>3, MapSetStatus
  <2>4. CASE CreateReview(h)
    BY <2>4, MapOpen
  <2>5. CASE ReadCompany(h) \/ ReadSchemaId(h) \/ InsertTransferFails(h) \/ Demote(h)
             \/ Cite(h) \/ Reply(h)
    BY <1>1, <2>5
       DEF ReadCompany, ReadSchemaId, InsertTransferFails, Demote, Cite, Reply, database
  <2>. QED
    BY <1>3, <2>1, <2>2, <2>3, <2>4, <2>5 DEF TransferStep
<1>4. ASSUME NEW h \in Handlers, PollStep(h) PROVE Abstract
  <2>1. CASE PollWrite(h)
    <3>. PICK t : t = job[h].transfer
      OBVIOUS
    <3>. PICK a : a = job[h].target
      OBVIOUS
    <3>1. t \in Transfers /\ SentToReview(t) /\ Decided(t)
      BY <2>1, ReviewedIsDecided DEF PollWrite, PlaceInv, Place, PollAt
    <3>2. a \in {"ALLOWED", "DENIED"}
      BY <2>1, JobFields DEF PollWrite, TypeInv, TypeOK
    <3>3. a = "ALLOWED" => Cleared(t)
      BY <2>1 DEF PollWrite, ClearanceInv, HoldsClearance
    <3>4. status' = [status EXCEPT ![t] = a] /\ UNCHANGED <<decisions, review, deployments>>
      BY <2>1 DEF PollWrite
    <3>5. a \in {"ALLOWED", "DENIED", "COMPLETED"} /\ a # "COMPLETED"
      BY <3>2
    <3>. QED
      BY <3>1, <3>3, <3>4, <3>5, MapWrite
  <2>. QED
    BY <1>1, <1>4, <2>1 DEF PollStep, PollDecision, PollReview, database
<1>5. ASSUME NEW h \in Handlers, DeployStep(h) PROVE Abstract
  <2>1. CASE DeployInsert(h)
    BY <2>1, MapDeploy
  <2>2. CASE DeployComplete(h)
    <3>. PICK t : t = job[h].transfer
      OBVIOUS
    <3>1. /\ t \in Transfers /\ Settled(t)
          /\ \E d \in deployments : decisions[d].transfer = t
      BY <2>2 DEF DeployComplete, PlaceInv, Place, DeployAt
    <3>2. Decided(t)
      BY <3>1 DEF PlaceInv
    <3>3. /\ status' = [status EXCEPT ![t] = "COMPLETED"]
          /\ UNCHANGED <<decisions, review, deployments>>
      BY <2>2 DEF DeployComplete
    <3>. QED
      BY <3>1, <3>2, <3>3, MapWrite
  <2>. QED
    BY <1>1, <1>5, <2>1, <2>2 DEF DeployStep, DeployDecision, DeployReview, database
<1>6. ASSUME NEW h \in Handlers, Die(h) PROVE Abstract
  BY <1>1, <1>6 DEF Die, database
<1>7. CASE Environment
  <2>1. ASSUME NEW d \in DOMAIN decisions, Expire(d) PROVE Abstract
    BY <2>1, MapClose DEF Expire
  <2>. QED
    BY <1>1, <1>7, <2>1 DEF Environment, Ingest, UpdateCompany
<1>8. CASE UNCHANGED vars
  BY <1>1, <1>8 DEF vars, database
<1>. QED
  BY <1>2, <1>3, <1>4, <1>5, <1>6, <1>7, <1>8 DEF Next, HandlerStep

LEMMA MapInit == Init => Authority!Init
  BY DEF Init, Authority!Init, VerdictOn, RulingOn, EngineDecision, EngineDecisions

\* Seen from outside, any number of handlers, with deaths and expiries between any two
\* of their transactions, are the abstract authority: one verdict, one closing of its
\* review, answers and deployments that these justify.
THEOREM LifecycleImplementsAuthority == Spec => ImplementsAuthority
<1>1. MappingInv /\ MappingInv' /\ [Next]_vars => [Authority!Next]_(Authority!authorityVars)
  BY MapStep DEF Abstract
<1>2. Init => Authority!Init
  BY MapInit
<1>. QED
  BY <1>1, <1>2, MappingInvariant, PTL DEF Spec, ImplementsAuthority, Authority!Spec

\* A verdict may be replaced but not withdrawn: once a client can ask about a transfer,
\* its status never goes back to waiting.
THEOREM SettledIsForGood == Spec => SettledStaysSettled
<1>1. MappingInv /\ [Next]_vars =>
        [\A t \in known :
            status[t] # "REVIEW_PENDING" => status'[t] \notin {"PENDING", "REVIEW_PENDING"}]_vars
  <2>. SUFFICES ASSUME MappingInv, [Next]_vars, NEW t \in known, status[t] # "REVIEW_PENDING"
                PROVE  status'[t] \notin {"PENDING", "REVIEW_PENDING"}
    OBVIOUS
  <2>1. t \in Transfers /\ Settled(t)
    BY RowTypes DEF MappingInv, AnswerInv, Complete, TypeInv, TypeOK
  <2>2. CASE UNCHANGED status
    BY <2>1, <2>2 DEF Settled
  <2>3. ASSUME NEW u \in Transfers, NEW s, status' = [status EXCEPT ![u] = s],
               t = u => s \notin {"PENDING", "REVIEW_PENDING"}
        PROVE  status'[t] \notin {"PENDING", "REVIEW_PENDING"}
    BY <2>1, <2>3 DEF Settled, MappingInv, TypeInv, TypeOK
  <2>4. ASSUME NEW h \in Handlers, NEW u \in Transfers, InsertTransfer(h, u)
        PROVE  status'[t] \notin {"PENDING", "REVIEW_PENDING"}
    <3>1. t # u
      BY <2>1, <2>4 DEF InsertTransfer, Settled
    <3>. QED
      BY <2>3, <2>4, <3>1 DEF InsertTransfer
  <2>5. ASSUME NEW h \in Handlers, SetStatus(h)
        PROVE  status'[t] \notin {"PENDING", "REVIEW_PENDING"}
    <3>. PICK w : w = decisions[job[h].decision].transfer
      OBVIOUS
    <3>1. w \in Transfers
      BY <2>5, RowTypes
         DEF SetStatus, MappingInv, TypeInv, JobPointers, PointersOf, EngineDecisions
    <3>2. t # w
      BY <2>1, <2>5 DEF SetStatus, MappingInv, PlaceInv, Place
    <3>. PICK s : s = status_map(decisions[job[h].decision].result.outcome)
      OBVIOUS
    <3>3. status' = [status EXCEPT ![w] = s]
      BY <2>5 DEF SetStatus
    <3>. QED
      BY <2>3, <3>1, <3>2, <3>3
  <2>6. ASSUME NEW h \in Handlers, PollWrite(h) \/ DeployComplete(h)
        PROVE  status'[t] \notin {"PENDING", "REVIEW_PENDING"}
    <3>1. job[h].transfer \in Transfers
      BY <2>6 DEF PollWrite, DeployComplete, MappingInv, PlaceInv, Place, PollAt, DeployAt
    <3>2. PollWrite(h) => job[h].target \in {"ALLOWED", "DENIED"}
      BY JobFields DEF PollWrite, MappingInv, TypeInv, TypeOK
    <3>. QED
      BY <2>3, <2>6, <3>1, <3>2 DEF PollWrite, DeployComplete
  <2>7. \/ UNCHANGED status
        \/ \E h \in Handlers :
              \/ \E u \in Transfers : InsertTransfer(h, u)
              \/ SetStatus(h) \/ PollWrite(h) \/ DeployComplete(h)
    BY DEF Next, Request, HandlerStep, TransferStep, PollStep, DeployStep, Environment,
       ReadClassification, ReadCompany, ReadSchemaId, InsertTransferFails, Demote,
       InsertDecision, CreateReview, Cite, Reply, PollTransfer, PollDecision, PollReview,
       DeployTransfer, DeployDecision, DeployReview, DeployInsert, ResolveReview, Die,
       Ingest, UpdateCompany, Expire, vars, database
  <2>. QED
    BY <2>2, <2>4, <2>5, <2>6, <2>7
<1>. QED
  BY <1>1, MappingInvariant, PTL DEF Spec, SettledStaysSettled

-----------------------------------------------------------------------------
(***************************************************************************)
(* EvidencePack.  Packs only read what TransferLifecycle writes, so that   *)
(* every behaviour here is one of TransferLifecycle's, and what was proved *)
(* about the history holds for what packs are made of (HistoryBehind).     *)
(* What is left is time: an engine's decision is older than the ruling     *)
(* about it.                                                               *)
(***************************************************************************)
LEMMA PackStepIsStep == [PackNext]_packVars => [Next]_vars
<1>. SUFFICES ASSUME [PackNext]_packVars PROVE [Next]_vars
  OBVIOUS
<1>1. CASE \E h \in Handlers : BeginDecision(h) \/ CommitDecision(h)
  BY <1>1 DEF BeginDecision, CommitDecision, Next, HandlerStep, TransferStep
<1>2. ASSUME NEW h \in Handlers, OtherStep(h) PROVE Next
  <2>1. CASE Die(h)
    BY <2>1 DEF Next
  <2>2. CASE \/ \E e \in Entities, dest \in Destinations : ReadClassification(h, e, dest)
             \/ \E d \in DOMAIN decisions, ruling \in Rulings : ResolveReview(h, d, ruling)
    BY <2>2 DEF Next, Request
  <2>3. CASE \/ ReadCompany(h) \/ ReadSchemaId(h)
             \/ \E t \in Transfers : InsertTransfer(h, t)
             \/ InsertTransferFails(h)
             \/ SetStatus(h) \/ CreateReview(h) \/ Cite(h) \/ Reply(h)
    BY <2>3 DEF Next, HandlerStep, TransferStep
  <2>. QED
    BY <1>2, <2>1, <2>2, <2>3 DEF OtherStep
<1>3. CASE Meanwhile
  BY <1>3 DEF Meanwhile, Next
<1>4. CASE UNCHANGED vars
  BY <1>4
<1>. QED
  BY <1>1, <1>2, <1>3, <1>4 DEF PackNext, GeneratePack, packVars

\* What is known of the history from TransferLifecycle alone.
HistoryOK == TypeInv /\ ReviewInv /\ RulingInv /\ OneCurrentPerTransfer

LEMMA HistoryBehind == PackSpec => Spec /\ []HistoryOK
<1>1. PackInit => Init
  BY DEF PackInit
<1>2. TypeInv /\ ReviewInv /\ RulingInv /\ OneCurrentPerTransfer => HistoryOK
  BY DEF HistoryOK
<1>. QED
  BY <1>1, <1>2, PackStepIsStep, RulingInvariant, CurrentIsUnique, PTL DEF PackSpec, Spec

-----------------------------------------------------------------------------
(***************************************************************************)
(* Three kinds of steps: one begins to insert a decision, one commits it,  *)
(* and the others neither touch the decisions nor begin an insertion.      *)
(***************************************************************************)
Elsewhere ==
    /\ UNCHANGED <<decisions, current, clock, begun, decidedAt>>
    /\ \A i \in Handlers : job'[i].at = "insertDecision" => job'[i] = job[i]

LEMMA MovesElsewhere ==
    ASSUME TypeInv, NEW h \in Handlers, NEW next, Goto(h, next), next.at # "insertDecision",
           UNCHANGED <<decisions, current, clock, begun, decidedAt>>
    PROVE  Elsewhere
  BY GotoFacts DEF Elsewhere

LEMMA OtherIsElsewhere ==
    ASSUME TypeInv, NEW h \in Handlers, OtherStep(h)
    PROVE  Elsewhere /\ packs' = packs
<1>1. PICK j \in Job : j = job[h]
  BY DEF TypeInv, TypeOK
<1>2. UNCHANGED <<decisions, current, clock, begun, decidedAt, packs>>
  BY DEF OtherStep, ReadClassification, ReadCompany, ReadSchemaId, InsertTransfer,
         InsertTransferFails, SetStatus, CreateReview, Cite, Reply, ResolveReview, Die,
         database
<1>3. \E next : Goto(h, next) /\ next.at # "insertDecision"
  <2>1. CASE \/ \E e \in Entities, dest \in Destinations : ReadClassification(h, e, dest)
             \/ ReadCompany(h) \/ ReadSchemaId(h)
    <3>1. ASSUME NEW e \in Entities, NEW dest \in Destinations, ReadClassification(h, e, dest)
          PROVE  \E next : Goto(h, next) /\ next.at # "insertDecision"
      BY <3>1 DEF ReadClassification
    <3>2. CASE ReadCompany(h)
      BY <3>2 DEF ReadCompany
    <3>3. CASE ReadSchemaId(h)
      BY <3>3 DEF ReadSchemaId
    <3>. QED
      BY <2>1, <3>1, <3>2, <3>3
  <2>2. CASE \/ \E t \in Transfers : InsertTransfer(h, t)
             \/ \E d \in DOMAIN decisions, ruling \in Rulings : ResolveReview(h, d, ruling)
    <3>1. ASSUME NEW t \in Transfers, InsertTransfer(h, t)
          PROVE  \E next : Goto(h, next) /\ next.at # "insertDecision"
      BY <3>1 DEF InsertTransfer
    <3>2. ASSUME NEW d \in DOMAIN decisions, NEW ruling \in Rulings, ResolveReview(h, d, ruling)
          PROVE  \E next : Goto(h, next) /\ next.at # "insertDecision"
      <4>1. \E row : Goto(h, [at |-> "demote", row |-> row])
        BY <3>2 DEF ResolveReview
      <4>. QED
        BY <4>1
    <3>. QED
      BY <2>2, <3>1, <3>2
  <2>3. CASE InsertTransferFails(h) \/ Reply(h) \/ Die(h)
    BY <2>3 DEF InsertTransferFails, Reply, Die, Idle
  <2>4. CASE SetStatus(h)
    BY <2>4 DEF SetStatus
  <2>5. CASE CreateReview(h)
    <3>1. [j EXCEPT !.at = "cite"] = [at |-> "cite", decision |-> j.decision]
      BY <1>1, <2>5, NextPlace DEF CreateReview
    <3>. QED
      BY <1>1, <2>5, <3>1 DEF CreateReview
  <2>6. CASE Cite(h)
    <3>1. [j EXCEPT !.at = "reply"] = [at |-> "reply", decision |-> j.decision]
      BY <1>1, <2>6, NextPlace DEF Cite
    <3>. QED
      BY <1>1, <2>6, <3>1 DEF Cite
  <2>. QED
    BY <2>1, <2>2, <2>3, <2>4, <2>5, <2>6 DEF OtherStep
<1>. QED
  BY <1>2, <1>3, MovesElsewhere

LEMMA StepKinds ==
    ASSUME TypeInv, [PackNext]_packVars
    PROVE  \/ \E h \in Handlers : BeginDecision(h)
           \/ \E h \in Handlers : CommitDecision(h)
           \/ Elsewhere /\ packs' = packs
           \/ /\ Elsewhere
              /\ \E from, to \in 0..clock : GeneratePack(from, to)
<1>1. CASE \E h \in Handlers : OtherStep(h)
  BY <1>1, OtherIsElsewhere
<1>2. CASE Meanwhile
  BY <1>2 DEF Meanwhile, Environment, Ingest, UpdateCompany, Expire, Elsewhere
<1>3. CASE \E from, to \in 0..clock : GeneratePack(from, to)
  BY <1>3 DEF GeneratePack, vars, database, Elsewhere
<1>4. CASE UNCHANGED packVars
  BY <1>4 DEF packVars, vars, database, Elsewhere
<1>. QED
  BY <1>1, <1>2, <1>3, <1>4 DEF PackNext

-----------------------------------------------------------------------------
(***************************************************************************)
(* Times.  No two insertions begin at once, and a reviewer's begins after  *)
(* the decision that was reviewed has been committed.                      *)
(***************************************************************************)
InsertingRow(h) == job[h].at = "insertDecision"

TimesOK ==
    /\ clock \in Nat
    /\ begun \in [Handlers -> 0..clock]
    /\ decidedAt \in Seq(1..clock)
    /\ Len(decidedAt) = Len(decisions)
    /\ \A h \in Handlers : InsertingRow(h) => begun[h] \in 1..clock

TimesDiffer ==
    /\ \A p, q \in DOMAIN decisions : decidedAt[p] = decidedAt[q] => p = q
    /\ \A h \in Handlers : InsertingRow(h) =>
          \A d \in DOMAIN decisions : decidedAt[d] # begun[h]
    /\ \A h, i \in Handlers : InsertingRow(h) /\ InsertingRow(i) /\ h # i =>
          begun[h] # begun[i]

RulingIsLater ==
    /\ \A h \in Handlers : InsertingRow(h) /\ job[h].row.model = "human_reviewer" =>
          \A p \in EngineDecisions :
              decisions[p].transfer = job[h].row.transfer => decidedAt[p] < begun[h]
    /\ \A d \in HumanDecisions, p \in EngineDecisions :
          decisions[p].transfer = decisions[d].transfer => decidedAt[p] < decidedAt[d]

TimeInv == TimesOK /\ TimesDiffer /\ RulingIsLater

LEMMA Times ==
    ASSUME TypeInv, TimesOK
    PROVE  /\ DOMAIN decidedAt = DOMAIN decisions
           /\ \A d \in DOMAIN decisions : decidedAt[d] \in 1..clock
  BY LenProperties, ElementOfSeq DEF TypeInv, TypeOK, TimesOK

LEMMA ElsewhereKeepsTime ==
    ASSUME TimeInv, Elsewhere
    PROVE  TimeInv'
<1>1. TimesOK'
  BY DEF TimeInv, TimesOK, Elsewhere, InsertingRow
<1>2. TimesDiffer'
  BY DEF TimeInv, TimesDiffer, Elsewhere, InsertingRow
<1>3. RulingIsLater'
  BY DEF TimeInv, RulingIsLater, Elsewhere, InsertingRow, EngineDecisions, HumanDecisions
<1>. QED
  BY <1>1, <1>2, <1>3 DEF TimeInv

LEMMA BeginKeepsTime ==
    ASSUME TypeInv, TimeInv, NEW h \in Handlers, BeginDecision(h)
    PROVE  TimeInv'
<1>1. /\ job'[h].at = "insertDecision" /\ job'[h].row = job[h].row
      /\ \A i \in Handlers \ {h} : job'[i] = job[i]
  BY GotoFacts DEF BeginDecision, Demote
<1>2. /\ clock' = clock + 1 /\ begun' = [begun EXCEPT ![h] = clock + 1]
      /\ UNCHANGED <<decisions, decidedAt>>
  BY DEF BeginDecision, Demote, database
<1>3. /\ clock \in Nat /\ begun \in [Handlers -> 0..clock]
      /\ begun'[h] = clock + 1 /\ \A i \in Handlers \ {h} : begun'[i] = begun[i]
  BY <1>2 DEF TimeInv, TimesOK
<1>4. \A d \in DOMAIN decisions : decidedAt[d] \in 1..clock
  BY Times DEF TimeInv
<1>5. \A i \in Handlers \ {h} : InsertingRow(i)' => InsertingRow(i)
  BY <1>1 DEF InsertingRow
<1>6. TimesOK'
  <2>1. decidedAt' \in Seq(1..clock')
    <3>1. 1..clock \subseteq 1..clock'
      BY <1>2, <1>3
    <3>. QED
      BY <1>2, <3>1, SeqDef DEF TimeInv, TimesOK
  <2>2. begun' \in [Handlers -> 0..clock']
    BY <1>2, <1>3
  <2>. QED
    BY <1>2, <1>3, <1>5, <2>1, <2>2 DEF TimeInv, TimesOK
<1>7. TimesDiffer'
  BY <1>2, <1>3, <1>4, <1>5 DEF TimeInv, TimesOK, TimesDiffer
<1>8. RulingIsLater'
  <2>1. EngineDecisions' = EngineDecisions /\ HumanDecisions' = HumanDecisions
    BY <1>2 DEF EngineDecisions, HumanDecisions
  <2>2. EngineDecisions \subseteq DOMAIN decisions
    BY DEF EngineDecisions
  <2>3. \A p \in EngineDecisions : decidedAt[p] < begun'[h]
    BY <1>3, <1>4, <2>2
  <2>. QED
    BY <1>1, <1>2, <1>3, <1>5, <2>1, <2>3 DEF TimeInv, RulingIsLater
<1>. QED
  BY <1>6, <1>7, <1>8 DEF TimeInv

LEMMA CommitKeepsTime ==
    ASSUME TypeInv, RulingInv, TimeInv, NEW h \in Handlers, CommitDecision(h)
    PROVE  TimeInv'
<1>1. PICK n \in Nat : n = Len(decisions) + 1
  BY InsertFacts DEF TypeInv, CommitDecision
<1>2. PICK row \in Decision : row = job[h].row
  BY JobFields DEF TypeInv, TypeOK, CommitDecision, InsertDecision
<1>3. /\ DOMAIN decisions = 1..Len(decisions) /\ DOMAIN decisions' = 1..n
      /\ Len(decisions') = n /\ decisions'[n] = row /\ Len(decisions) \in Nat
      /\ \A d \in DOMAIN decisions : decisions'[d] = decisions[d]
  BY <1>1, <1>2, InsertFacts DEF TypeInv, CommitDecision
<1>4. /\ job'[h].at # "insertDecision" /\ job[h].at = "insertDecision"
      /\ \A i \in Handlers \ {h} : job'[i] = job[i]
  BY GotoFacts DEF CommitDecision, InsertDecision, Idle
<1>5. begun[h] \in 1..clock /\ UNCHANGED <<clock, begun>>
  BY <1>4 DEF TimeInv, TimesOK, InsertingRow, CommitDecision
<1>6. /\ decidedAt' \in Seq(1..clock) /\ Len(decidedAt') = n
      /\ decidedAt'[n] = begun[h]
      /\ \A d \in DOMAIN decisions : decidedAt'[d] = decidedAt[d]
  BY <1>1, <1>3, <1>5, AppendProperties DEF TimeInv, TimesOK, CommitDecision
<1>7. \A i \in Handlers : InsertingRow(i)' => i # h /\ InsertingRow(i)
  BY <1>4 DEF InsertingRow
<1>8. TimesOK'
  BY <1>3, <1>5, <1>6, <1>7 DEF TimeInv, TimesOK
<1>9. TimesDiffer'
  <2>1. \A d \in DOMAIN decisions : decidedAt[d] # begun[h]
    BY <1>4 DEF TimeInv, TimesDiffer, InsertingRow
  <2>2. \A d \in DOMAIN decisions' : d = n \/ d \in DOMAIN decisions
    BY <1>1, <1>3
  <2>3. \A i \in Handlers : InsertingRow(i)' => begun[i] # begun[h]
    BY <1>4, <1>7 DEF TimeInv, TimesDiffer, InsertingRow
  <2>. QED
    BY <1>5, <1>6, <1>7, <2>1, <2>2, <2>3 DEF TimeInv, TimesDiffer
<1>10. RulingIsLater'
  <2>0. \A d \in DOMAIN decisions' :
          \/ d = n /\ decisions'[d] = row
          \/ d \in DOMAIN decisions /\ decisions'[d] = decisions[d]
    <3>1. \A d \in DOMAIN decisions' : d = n \/ d \in DOMAIN decisions
      BY <1>1, <1>3
    <3>. QED
      BY <1>3, <3>1
  <2>1. \A d \in EngineDecisions' :
          d \in EngineDecisions \/ (d = n /\ row.model = "rule_based_engine")
    BY <2>0 DEF EngineDecisions
  <2>2. \A d \in HumanDecisions' :
          d \in HumanDecisions \/ (d = n /\ row.model = "human_reviewer")
    BY <2>0 DEF HumanDecisions
  <2>3. EngineDecisions \subseteq DOMAIN decisions /\ HumanDecisions \subseteq DOMAIN decisions
    BY DEF EngineDecisions, HumanDecisions
  <2>4. ASSUME row.model = "rule_based_engine"
        PROVE  \A d \in DOMAIN decisions : decisions[d].transfer # row.transfer
    BY <1>2, <1>4, <2>4 DEF RulingInv, Deciding, Inserting, Fresh
  <2>5. ASSUME NEW i \in Handlers, InsertingRow(i)', job[i].row.model = "human_reviewer",
               NEW p \in EngineDecisions', decisions'[p].transfer = job[i].row.transfer
        PROVE  decidedAt'[p] < begun[i]
    <3>1. CASE p \in EngineDecisions
      BY <1>3, <1>6, <1>7, <2>3, <2>5, <3>1 DEF TimeInv, RulingIsLater
    <3>2. CASE p = n /\ row.model = "rule_based_engine"
      <4>1. PICK o \in EngineDecisions : decisions[o].transfer = job[i].row.transfer
        BY <1>7, <2>5 DEF RulingInv, Recording, Inserting, InsertingRow, Owed, AboutReview
      <4>. QED
        BY <1>3, <2>3, <2>4, <2>5, <3>2, <4>1
    <3>. QED
      BY <2>1, <3>1, <3>2
  <2>6. ASSUME NEW d \in HumanDecisions', NEW p \in EngineDecisions',
               decisions'[p].transfer = decisions'[d].transfer
        PROVE  decidedAt'[p] < decidedAt'[d]
    <3>1. CASE d \in HumanDecisions /\ p \in EngineDecisions
      BY <1>3, <1>6, <2>3, <2>6, <3>1 DEF TimeInv, RulingIsLater
    <3>2. CASE d \in HumanDecisions /\ p = n /\ row.model = "rule_based_engine"
      BY <1>3, <2>3, <2>4, <2>6, <3>2
    <3>3. CASE d = n /\ row.model = "human_reviewer" /\ p \in EngineDecisions
      <4>1. decidedAt[p] < begun[h]
        BY <1>2, <1>3, <1>4, <2>3, <2>6, <3>3 DEF TimeInv, RulingIsLater, InsertingRow
      <4>. QED
        BY <1>6, <2>3, <3>3, <4>1
    <3>4. ~(row.model = "human_reviewer" /\ row.model = "rule_based_engine")
      OBVIOUS
    <3>. QED
      BY <2>1, <2>2, <3>1, <3>2, <3>3, <3>4
  <2>7. \A i \in Handlers : InsertingRow(i)' => job'[i] = job[i]
    BY <1>4, <1>7
  <2>. QED
    BY <1>5, <2>5, <2>6, <2>7 DEF RulingIsLater
<1>. QED
  BY <1>8, <1>9, <1>10 DEF TimeInv

LEMMA TimeInvariant == PackSpec => [](HistoryOK /\ TimeInv)
<1>1. PackInit => TimeInv
  <2>. SUFFICES ASSUME PackInit PROVE TimeInv
    OBVIOUS
  <2>1. TimesOK
    BY EmptySeq DEF PackInit, Init, TimesOK, InsertingRow, Idle
  <2>2. DOMAIN decisions = {}
    BY EmptySeq DEF PackInit, Init
  <2>3. TimesDiffer /\ RulingIsLater
    BY <2>2 DEF PackInit, Init, TimesDiffer, RulingIsLater, InsertingRow, Idle,
               EngineDecisions, HumanDecisions
  <2>. QED
    BY <2>1, <2>3 DEF TimeInv
<1>2. HistoryOK /\ TimeInv /\ [PackNext]_packVars => TimeInv'
  BY StepKinds, ElsewhereKeepsTime, BeginKeepsTime, CommitKeepsTime DEF HistoryOK
<1>. QED
  BY <1>1, <1>2, HistoryBehind, PTL DEF PackSpec

-----------------------------------------------------------------------------
(***************************************************************************)
(* Packs are snapshots of current decisions, and rows do not change.       *)
(***************************************************************************)
PackOK(pack) ==
    /\ pack \in Pack
    /\ pack.items \subseteq {d \in DOMAIN decisions : decidedAt[d] \in pack.from..pack.to}
    /\ \A d1, d2 \in pack.items :
          decisions[d1].transfer = decisions[d2].transfer => d1 = d2

PackInv == \A pack \in packs : PackOK(pack)

\* Rows and their times stay as they are.
LEMMA RowsStay ==
    ASSUME TypeInv, TimesOK, [PackNext]_packVars
    PROVE  \A d \in DOMAIN decisions :
              /\ d \in DOMAIN decisions'
              /\ decisions'[d] = decisions[d] /\ decidedAt'[d] = decidedAt[d]
<1>1. CASE \E h \in Handlers : BeginDecision(h)
  BY <1>1 DEF BeginDecision, Demote, database
<1>2. ASSUME NEW h \in Handlers, CommitDecision(h)
      PROVE  \A d \in DOMAIN decisions :
                /\ d \in DOMAIN decisions'
                /\ decisions'[d] = decisions[d] /\ decidedAt'[d] = decidedAt[d]
  <2>1. \A d \in DOMAIN decisions : d \in DOMAIN decisions' /\ decisions'[d] = decisions[d]
    <3>1. /\ Len(decisions) \in Nat /\ DOMAIN decisions = 1..Len(decisions)
          /\ DOMAIN decisions' = 1..(Len(decisions) + 1)
          /\ \A d \in 1..Len(decisions) : decisions'[d] = decisions[d]
      BY <1>2, InsertFacts DEF TypeInv, CommitDecision
    <3>2. 1..Len(decisions) \subseteq 1..(Len(decisions) + 1)
      BY <3>1
    <3>. QED
      BY <3>1, <3>2
  <2>2. decidedAt \in Seq(Nat) /\ begun[h] \in Nat
    BY SeqDef DEF TimesOK
  <2>3. \A d \in DOMAIN decisions : decidedAt'[d] = decidedAt[d]
    BY <1>2, <2>2, Times, AppendProperties, LenProperties DEF CommitDecision
  <2>. QED
    BY <2>1, <2>3
<1>3. CASE Elsewhere
  BY <1>3 DEF Elsewhere
<1>. QED
  BY <1>1, <1>2, <1>3, StepKinds

LEMMA PackStays ==
    ASSUME TypeInv, TimesOK, [PackNext]_packVars, NEW pack, PackOK(pack)
    PROVE  PackOK(pack)'
  BY RowsStay DEF PackOK

LEMMA PackInvStep ==
    ASSUME HistoryOK, TimeInv, PackInv, [PackNext]_packVars
    PROVE  PackInv'
<1>1. CASE packs' = packs
  BY <1>1, PackStays DEF PackInv, HistoryOK, TimeInv
<1>2. ASSUME NEW from \in 0..clock, NEW to \in 0..clock, GeneratePack(from, to)
      PROVE  PackInv'
  <2>. DEFINE items == {d \in current : decidedAt[d] \in from..to}
              new == [from |-> from, to |-> to, items |-> items]
  <2>1. clock \in Nat /\ current \subseteq DOMAIN decisions /\ DOMAIN decisions \subseteq Nat
    BY LenProperties DEF HistoryOK, TypeInv, TypeOK, TimeInv, TimesOK
  <2>2. new.from = from /\ new.to = to /\ new.items = items
    OBVIOUS
  <2>3. PackOK(new)
    <3>1. new \in Pack
      BY <2>1 DEF Pack
    <3>2. \A d1, d2 \in items : decisions[d1].transfer = decisions[d2].transfer => d1 = d2
      BY DEF HistoryOK, OneCurrentPerTransfer
    <3>. QED
      BY <2>1, <2>2, <3>1, <3>2 DEF PackOK
  <2>4. packs' = packs \cup {new}
    BY <1>2 DEF GeneratePack
  <2>5. \A pack \in packs' : PackOK(pack)
    BY <2>3, <2>4 DEF PackInv
  <2>. QED
    BY <2>5, PackStays DEF PackInv, HistoryOK, TimeInv
<1>3. packs' = packs \/ \E from, to \in 0..clock : GeneratePack(from, to)
  BY StepKinds DEF HistoryOK, BeginDecision, CommitDecision
<1>. QED
  BY <1>1, <1>2, <1>3

LEMMA PackInvariant == PackSpec => [](HistoryOK /\ TimeInv /\ PackInv)
<1>1. PackInit => PackInv
  BY DEF PackInit, PackInv
<1>2. HistoryOK /\ TimeInv /\ PackInv /\ [PackNext]_packVars => PackInv'
  BY PackInvStep
<1>. QED
  BY <1>1, <1>2, TimeInvariant, PTL DEF PackSpec

\* Every pack keeps to its period, and every decision has its time.
THEOREM PackTypeCorrect == PackSpec => []PackTypeOK
<1>1. HistoryOK /\ TimeInv /\ PackInv => PackTypeOK
  <2>. SUFFICES ASSUME HistoryOK, TimesOK, PackInv PROVE PackTypeOK
    BY DEF TimeInv
  <2>1. decidedAt \in Seq(1..clock) /\ DOMAIN decidedAt = DOMAIN decisions
    BY Times DEF HistoryOK, TimesOK
  <2>. QED
    BY <2>1 DEF TimesOK, PackInv, PackOK, PackTypeOK
<1>. QED
  BY <1>1, PackInvariant, PTL

\* No pack lists a transfer twice, though concurrent inserts of an entity's
\* decisions do not see each other (repository.py:588-592): what an entity may
\* have two of, a transfer has one of.
THEOREM PacksHaveNoDoubles == PackSpec => []PackHasNoDoubles
<1>1. PackInv => PackHasNoDoubles
  BY DEF PackInv, PackOK, PackHasNoDoubles
<1>. QED
  BY <1>1, PackInvariant, PTL

\* The decision that a human decision closed the review of, and its ruling.
LEMMA ReviewedFacts ==
    ASSUME HistoryOK, TimeInv, NEW d \in HumanDecisions
    PROVE  /\ Reviewed(d) \in EngineDecisions
           /\ decisions[Reviewed(d)].entity = decisions[d].entity
           /\ decidedAt[Reviewed(d)] < decidedAt[d]
           /\ decisions[d].result = HumanResult(review[Reviewed(d)])
<1>1. PICK o \in EngineDecisions :
          /\ decisions[o].transfer = decisions[d].transfer
          /\ decisions[o].entity = decisions[d].entity
          /\ decisions[d].result = HumanResult(review[o])
  BY DEF HistoryOK, RulingInv, AboutReview
<1>2. \A p \in EngineDecisions : decisions[p].transfer = decisions[d].transfer => p = o
  BY <1>1 DEF HistoryOK, RulingInv
<1>3. Reviewed(d) = o
  BY <1>1, <1>2 DEF Reviewed
<1>. QED
  BY <1>1, <1>3 DEF TimeInv, RulingIsLater

\* Whenever nothing was decided about the entity between a decision and the
\* ruling on it, the document's two stages are the two (pdf_report.py:75-79),
\* in whatever order transactions began and committed.
THEOREM DocumentsTellTheReview == PackSpec => []DocumentTellsTheReview
<1>1. ASSUME HistoryOK, TimeInv, PackInv, NEW pack \in packs, NEW d \in HumanItems(pack),
             NothingBetween(Reviewed(d), d)
      PROVE  /\ Original(d) = {Reviewed(d)}
             /\ decisions[d].result = HumanResult(review[Reviewed(d)])
  <2>. DEFINE r == Reviewed(d)
              earlier == {p \in EngineDecisions :
                             /\ decisions[d].model = "human_reviewer"
                             /\ decisions[p].entity = decisions[d].entity
                             /\ decidedAt[p] < decidedAt[d]}
  <2>1. d \in HumanDecisions /\ d \in DOMAIN decisions /\ decisions[d].model = "human_reviewer"
    BY <1>1 DEF HumanItems, HumanDecisions
  <2>2. /\ r \in EngineDecisions /\ decisions[r].entity = decisions[d].entity
        /\ decidedAt[r] < decidedAt[d]
        /\ decisions[d].result = HumanResult(review[r])
    BY <1>1, <2>1, ReviewedFacts
  <2>. HIDE DEF r
  <2>3. \A p \in EngineDecisions \cup {d} : p \in DOMAIN decisions /\ decidedAt[p] \in Nat
    BY <1>1, <2>1, Times DEF HistoryOK, TimeInv, TimesOK, EngineDecisions
  <2>4. r \in earlier
    BY <2>1, <2>2
  <2>5. \A q \in earlier : decidedAt[q] <= decidedAt[r]
    <3>1. NothingBetween(r, d)
      BY <1>1 DEF r
    <3>. QED
      BY <2>2, <2>3, <3>1 DEF NothingBetween
  <2>6. ASSUME NEW p \in earlier, \A q \in earlier : decidedAt[q] <= decidedAt[p]
        PROVE  p = r
    <3>1. decidedAt[p] = decidedAt[r]
      BY <2>2, <2>3, <2>4, <2>5, <2>6
    <3>. QED
      BY <1>1, <2>2, <2>3, <3>1 DEF TimeInv, TimesDiffer
  <2>7. Original(d) = {p \in earlier : \A q \in earlier : decidedAt[q] <= decidedAt[p]}
    BY DEF Original
  <2>8. Original(d) = {r}
    BY <2>4, <2>5, <2>6, <2>7
  <2>. QED
    BY <2>2, <2>8 DEF r
<1>2. HistoryOK /\ TimeInv /\ PackInv => DocumentTellsTheReview
  BY <1>1 DEF DocumentTellsTheReview
<1>. QED
  BY <1>2, PackInvariant, PTL

-----------------------------------------------------------------------------
(***************************************************************************)
(* Coverage.  A decision loses its place only to one of the same entity,   *)
(* and in the same transaction.                                            *)
(***************************************************************************)
CoverInv ==
    /\ \A d \in DOMAIN decisions : \E c \in current : decisions[c].entity = decisions[d].entity
    /\ \A h \in Handlers : InsertingRow(h) =>
          \A d \in job[h].seen :
              d \in DOMAIN decisions /\ decisions[d].entity = job[h].row.entity

LEMMA BeginKeepsCover ==
    ASSUME TypeInv, CoverInv, NEW h \in Handlers, BeginDecision(h)
    PROVE  CoverInv'
<1>1. /\ job'[h].row = job[h].row
      /\ job'[h].seen = {d \in current : decisions[d].entity = job[h].row.entity}
      /\ \A i \in Handlers \ {h} : job'[i] = job[i]
  BY GotoFacts DEF BeginDecision, Demote
<1>2. UNCHANGED <<decisions, current>> /\ current \subseteq DOMAIN decisions
  BY DEF BeginDecision, Demote, database, TypeInv, TypeOK
<1>. QED
  BY <1>1, <1>2 DEF CoverInv, InsertingRow

LEMMA CommitKeepsCover ==
    ASSUME TypeInv, CoverInv, NEW h \in Handlers, CommitDecision(h)
    PROVE  CoverInv'
<1>1. PICK n \in Nat : n = Len(decisions) + 1
  BY InsertFacts DEF TypeInv, CommitDecision
<1>2. /\ DOMAIN decisions = 1..Len(decisions) /\ DOMAIN decisions' = 1..n
      /\ decisions'[n] = job[h].row /\ Len(decisions) \in Nat
      /\ \A d \in DOMAIN decisions : decisions'[d] = decisions[d]
  BY <1>1, InsertFacts DEF TypeInv, CommitDecision
<1>3. /\ job'[h].at # "insertDecision" /\ InsertingRow(h)
      /\ \A i \in Handlers \ {h} : job'[i] = job[i]
  BY GotoFacts DEF CommitDecision, InsertDecision, InsertingRow, Idle
<1>4. current' = (current \ job[h].seen) \cup {n} /\ current \subseteq DOMAIN decisions
  BY <1>1 DEF CommitDecision, InsertDecision, TypeInv, TypeOK
<1>5. ASSUME NEW d \in DOMAIN decisions'
      PROVE  \E c \in current' : decisions'[c].entity = decisions'[d].entity
  <2>1. CASE d = n
    BY <1>4, <2>1
  <2>2. CASE d # n
    <3>1. d \in DOMAIN decisions
      BY <1>1, <1>2, <1>5, <2>2
    <3>2. PICK c \in current : decisions[c].entity = decisions[d].entity
      BY <3>1 DEF CoverInv
    <3>3. CASE c \in job[h].seen
      <4>1. decisions[c].entity = job[h].row.entity
        BY <1>3, <3>3 DEF CoverInv
      <4>2. decisions'[n].entity = decisions[d].entity /\ n \in current'
        BY <1>2, <1>4, <3>2, <4>1
      <4>. QED
        BY <1>2, <3>1, <4>2
    <3>4. CASE c \notin job[h].seen
      BY <1>2, <1>4, <3>1, <3>2, <3>4
    <3>. QED
      BY <3>3, <3>4
  <2>. QED
    BY <2>1, <2>2
<1>6. ASSUME NEW i \in Handlers, InsertingRow(i)', NEW d \in job'[i].seen
      PROVE  d \in DOMAIN decisions' /\ decisions'[d].entity = job'[i].row.entity
  <2>1. i # h /\ InsertingRow(i) /\ job'[i] = job[i]
    BY <1>3, <1>6 DEF InsertingRow
  <2>2. d \in DOMAIN decisions /\ decisions[d].entity = job[i].row.entity
    BY <1>6, <2>1 DEF CoverInv
  <2>3. d \in DOMAIN decisions'
    BY <1>1, <1>2, <2>2
  <2>. QED
    BY <1>2, <2>1, <2>2, <2>3
<1>. QED
  BY <1>5, <1>6 DEF CoverInv

LEMMA CoverInvariant == PackSpec => []CoverInv
<1>1. PackInit => CoverInv
  BY EmptySeq DEF PackInit, Init, CoverInv, InsertingRow, Idle
<1>2. HistoryOK /\ CoverInv /\ [PackNext]_packVars => CoverInv'
  <2>. SUFFICES ASSUME HistoryOK, CoverInv, [PackNext]_packVars PROVE CoverInv'
    OBVIOUS
  <2>1. CASE Elsewhere
    BY <2>1 DEF CoverInv, Elsewhere, InsertingRow
  <2>. QED
    BY <2>1, StepKinds, BeginKeepsCover, CommitKeepsCover DEF HistoryOK
<1>. QED
  BY <1>1, <1>2, HistoryBehind, PTL DEF PackSpec

\* Every entity ever decided about is in a pack of the whole time, whatever is
\* being superseded while the pack is generated (repository.py:592).
THEOREM PacksCoverEntities == PackSpec => PackCoversEntities
<1>1. ASSUME HistoryOK, TimeInv, CoverInv, [PackNext]_packVars,
             NEW pack \in packs' \ packs, pack.from = 0, pack.to = clock
      PROVE  {decisions[d].entity : d \in pack.items}
               = {decisions[d].entity : d \in DOMAIN decisions}
  <2>1. PICK from, to \in 0..clock : GeneratePack(from, to)
    BY <1>1, StepKinds DEF HistoryOK, BeginDecision, CommitDecision
  <2>2. pack = [from |-> from, to |-> to,
                items |-> {d \in current : decidedAt[d] \in from..to}]
    BY <1>1, <2>1 DEF GeneratePack
  <2>3. pack.items = {d \in current : decidedAt[d] \in 0..clock}
    BY <1>1, <2>2
  <2>4. current \subseteq DOMAIN decisions
    BY <1>1 DEF HistoryOK, TypeInv, TypeOK
  <2>5. \A d \in current : decidedAt[d] \in 0..clock
    BY <1>1, <2>4, Times DEF HistoryOK, TimeInv, TimesOK
  <2>6. pack.items = current
    BY <2>3, <2>5
  <2>7. \A d \in DOMAIN decisions : \E c \in current : decisions[c].entity = decisions[d].entity
    BY <1>1 DEF CoverInv
  <2>. QED
    BY <2>4, <2>6, <2>7
<1>2. HistoryOK /\ TimeInv /\ CoverInv /\ [PackNext]_packVars =>
        [\A pack \in packs' \ packs :
            pack.from = 0 /\ pack.to = clock =>
                {decisions[d].entity : d \in pack.items}
                  = {decisions[d].entity : d \in DOMAIN decisions}]_packVars
  BY <1>1
<1>. QED
  BY <1>2, CoverInvariant, TimeInvariant, PTL DEF PackSpec, PackCoversEntities
=============================================================================
