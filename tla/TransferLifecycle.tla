-------------------------- MODULE TransferLifecycle -------------------------
(***************************************************************************)
(* The life of transfer requests inside the API: the decision, the status  *)
(* polls, the human review and the recording of deployments                *)
(* (app/api/routes.py over app/db/repository.py).                          *)
(*                                                                         *)
(* FastAPI runs the synchronous handlers in a thread pool, and every       *)
(* repository method takes its own connection and commits its own          *)
(* transaction, so a handler is a sequence of transactions that other      *)
(* handlers' transactions fall between.  A handler here is a worker of     *)
(* Handlers; job[h] holds where it stands ("at") and the locals that its   *)
(* remaining steps still use.  One action is one transaction, with two     *)
(* exceptions.  insert_policy_decision takes two steps, because under READ *)
(* COMMITTED its UPDATE sees the rows committed when the statement starts  *)
(* and not those that commit before its own commit.  A read of columns no  *)
(* one ever changes is part of the step that uses them.                    *)
(***************************************************************************)
EXTENDS Naturals, Sequences, PolicyEngine

CONSTANTS
    Entities,       \* the entities of one company
    Transfers,      \* identifiers that gen_random_uuid() may return
    Handlers,       \* request threads
    KnownClauses,   \* policy references that LAW_CLAUSE has a row for
    IngestedLocks,  \* residency locks that ingested payloads carry
    Mandates,       \* values PATCH /company gives qualified_provider_required
    Rulings,        \* verdicts reviewers hand down
    MaxSchemas,     \* bound: canonical schemas per entity
    MaxCrashes      \* bound: requests that die before their last step

ASSUME LifecycleAssumption ==
    /\ IngestedLocks \subseteq ResidencyLock
    /\ Mandates \subseteq BOOLEAN
    /\ Rulings \subseteq {"APPROVED", "REJECTED"}
    /\ MaxSchemas \in Nat
    /\ MaxCrashes \in Nat

VARIABLES
    schemas,      \* schemas[e]: the locks of e's CANONICAL_SCHEMA rows, the last is_latest
    mandated,     \* COMPANY.qualified_provider_required
    status,       \* status[t]: TRANSFER_REQUEST.status, "absent" before the INSERT
    decisions,    \* the POLICY_DECISION rows in commit order
    current,      \* the indices of decisions whose is_current is true
    review,       \* review[d]: the AUTHORIZATION_REQUEST of decision d
    cited,        \* the decisions with a CLASSIFICATION_EVIDENCE row
    deployments,  \* the decisions DEPLOYMENT_ACTION rows are linked to
    known,        \* the transfers whose identifier a response has carried
    job,          \* job[h]: the request h is working on
    crashes       \* requests that have died so far

database == <<schemas, mandated, status, decisions, current, review, cited, deployments>>
vars == <<database, known, job, crashes>>

HumanResult(ruling) ==
    [outcome   |-> IF ruling = "APPROVED" THEN "ALLOW" ELSE "DENY",
     reason    |-> "human_review_resolution",
     reference |-> "n/a"]

HumanResults == {HumanResult(r) : r \in {"APPROVED", "REJECTED"}}

Decision ==
    [transfer : Transfers, entity : Entities, dest : Destinations, schema : Nat,
     model : {"rule_based_engine", "human_reviewer"},
     result : DecisionResult \cup HumanResults]

\* The requests in progress: one record set for each place a handler can be at.
Job ==
    [at : {"idle"}]
    \cup [at : {"readCompany"}, entity : Entities, dest : Destinations,
          lock : ResidencyLock]
    \cup [at : {"readSchemaId"}, entity : Entities, dest : Destinations,
          lock : ResidencyLock, mandated : BOOLEAN]
    \cup [at : {"insertTransfer"}, entity : Entities, dest : Destinations,
          schema : Nat, result : DecisionResult]
    \cup [at : {"demote"}, row : Decision]
    \cup [at : {"insertDecision"}, row : Decision, seen : SUBSET Nat]
    \cup [at : {"setStatus", "createReview", "cite", "reply"}, decision : Nat]
    \cup [at : {"pollDecision"}, transfer : Transfers]
    \cup [at : {"pollReview"}, transfer : Transfers, decision : Nat]
    \cup [at : {"pollWrite"}, transfer : Transfers, target : {"ALLOWED", "DENIED"}]
    \cup [at : {"deployDecision"}, transfer : Transfers, status : TransferStatus]
    \cup [at : {"deployReview"}, transfer : Transfers, status : TransferStatus,
          decision : Nat]
    \cup [at : {"deployInsert"}, transfer : Transfers, decision : Nat]
    \cup [at : {"deployComplete"}, transfer : Transfers]

Idle == [at |-> "idle"]

Goto(h, next) == job' = [job EXCEPT ![h] = next]

Init ==
    /\ schemas = [e \in Entities |-> <<>>]
    /\ mandated = FALSE
    /\ status = [t \in Transfers |-> "absent"]
    /\ decisions = <<>>
    /\ current = {}
    /\ review = <<>>
    /\ cited = {}
    /\ deployments = {}
    /\ known = {}
    /\ job = [h \in Handlers |-> Idle]
    /\ crashes = 0

-----------------------------------------------------------------------------
(***************************************************************************)
(* What happens around the transfer handlers: ingestion commits a new      *)
(* canonical schema, an admin edits the company, a review's expires_at     *)
(* passes, a request dies (its open transaction rolls back, what it has    *)
(* committed stays).                                                       *)
(***************************************************************************)
Ingest(e) ==
    /\ Len(schemas[e]) < MaxSchemas
    /\ \E lock \in IngestedLocks :
          schemas' = [schemas EXCEPT ![e] = Append(@, lock)]
    /\ UNCHANGED <<mandated, status, decisions, current, review, cited,
                   deployments, known, job, crashes>>

UpdateCompany ==
    /\ \E flag \in Mandates : mandated' = flag
    /\ UNCHANGED <<schemas, status, decisions, current, review, cited,
                   deployments, known, job, crashes>>

Expire(d) ==
    /\ review[d] = "PENDING"
    /\ review' = [review EXCEPT ![d] = "EXPIRED"]
    /\ UNCHANGED <<schemas, mandated, status, decisions, current, cited,
                   deployments, known, job, crashes>>

Die(h) ==
    /\ job[h] # Idle
    /\ crashes < MaxCrashes
    /\ crashes' = crashes + 1
    /\ Goto(h, Idle)
    /\ UNCHANGED <<database, known>>

-----------------------------------------------------------------------------
(***************************************************************************)
(* POST /transfer-request                                                  *)
(***************************************************************************)

\* get_latest_classification; an entity without a schema is answered 409.
ReadClassification(h, e, dest) ==
    /\ job[h] = Idle
    /\ schemas[e] # <<>>
    /\ Goto(h, [at |-> "readCompany", entity |-> e, dest |-> dest,
                lock |-> schemas[e][Len(schemas[e])]])
    /\ UNCHANGED <<database, known, crashes>>

ReadCompany(h) ==
    /\ job[h].at = "readCompany"
    /\ Goto(h, [at |-> "readSchemaId", entity |-> job[h].entity,
                dest |-> job[h].dest, lock |-> job[h].lock,
                mandated |-> mandated])
    /\ UNCHANGED <<database, known, crashes>>

\* get_latest_canonical_schema_id, then the engine on what was read earlier.
ReadSchemaId(h) ==
    /\ job[h].at = "readSchemaId"
    /\ Goto(h, [at |-> "insertTransfer", entity |-> job[h].entity,
                dest |-> job[h].dest,
                schema |-> Len(schemas[job[h].entity]),
                result |-> decide_transfer(job[h].lock, job[h].mandated, job[h].dest)])
    /\ UNCHANGED <<database, known, crashes>>

\* Mutant: the identifier is handed out before the transfer is decided.
AnswerEarly(h, t) ==
    /\ job[h].at = "insertTransfer"
    /\ status[t] = "absent"
    /\ status' = [status EXCEPT ![t] = "PENDING"]
    /\ known' = known \cup {t}
    /\ Goto(h, [at |-> "demote",
                row |-> [transfer |-> t, entity |-> job[h].entity,
                         dest |-> job[h].dest, schema |-> job[h].schema,
                         model |-> "rule_based_engine", result |-> job[h].result]])
    /\ UNCHANGED <<schemas, mandated, decisions, current, review, cited,
                   deployments, crashes>>

InsertTransfer(h, t) ==
    /\ job[h].at = "insertTransfer"
    /\ status[t] = "absent"
    /\ status' = [status EXCEPT ![t] = "PENDING"]
    /\ Goto(h, [at |-> "demote",
                row |-> [transfer |-> t, entity |-> job[h].entity,
                         dest |-> job[h].dest, schema |-> job[h].schema,
                         model |-> "rule_based_engine", result |-> job[h].result]])
    /\ UNCHANGED <<schemas, mandated, decisions, current, review, cited,
                   deployments, known, crashes>>

\* Bound: with all identifiers of Transfers in use the INSERT raises and the
\* request ends in a 500, as with any other exception before its first write.
InsertTransferFails(h) ==
    /\ job[h].at = "insertTransfer"
    /\ \A t \in Transfers : status[t] # "absent"
    /\ Goto(h, Idle)
    /\ UNCHANGED <<database, known, crashes>>

\* Mutant: the UPDATE is forgotten.
DemoteNothing(h) ==
    /\ job[h].at = "demote"
    /\ Goto(h, [at |-> "insertDecision", row |-> job[h].row, seen |-> {}])
    /\ UNCHANGED <<database, known, crashes>>

\* insert_policy_decision's UPDATE: the rows of the entity it sees as current.
Demote(h) ==
    /\ job[h].at = "demote"
    /\ Goto(h, [at |-> "insertDecision", row |-> job[h].row,
                seen |-> {d \in current : decisions[d].entity = job[h].row.entity}])
    /\ UNCHANGED <<database, known, crashes>>

\* Mutant: a final call replaces the row it is about.
OverwriteDecision(h) ==
    /\ job[h].at = "insertDecision"
    /\ LET row == job[h].row
           kept == [d \in DOMAIN decisions |->
                       IF decisions[d].transfer = row.transfer THEN row ELSE decisions[d]]
       IN  IF row.model = "human_reviewer"
           THEN /\ decisions' = kept
                /\ Goto(h, Idle)
                /\ UNCHANGED <<review, current>>
           ELSE /\ decisions' = Append(decisions, row)
                /\ review' = Append(review, "none")
                /\ current' = (current \ job[h].seen) \cup {Len(decisions) + 1}
                /\ Goto(h, [at |-> "setStatus", decision |-> Len(decisions) + 1])
    /\ UNCHANGED <<schemas, mandated, status, cited, deployments, known, crashes>>

\* Mutant: a final call supersedes the entity's decisions without becoming one.
InsertSuperseding(h) ==
    /\ job[h].at = "insertDecision"
    /\ decisions' = Append(decisions, job[h].row)
    /\ review' = Append(review, "none")
    /\ IF job[h].row.model = "rule_based_engine"
       THEN /\ current' = (current \ job[h].seen) \cup {Len(decisions) + 1}
            /\ Goto(h, [at |-> "setStatus", decision |-> Len(decisions) + 1])
       ELSE /\ current' = current \ job[h].seen
            /\ Goto(h, Idle)
    /\ UNCHANGED <<schemas, mandated, status, cited, deployments, known, crashes>>

\* Its INSERT and commit, which also publishes the demotions.  The human
\* review handler has nothing left to do afterwards.
InsertDecision(h) ==
    /\ job[h].at = "insertDecision"
    /\ decisions' = Append(decisions, job[h].row)
    /\ review' = Append(review, "none")
    /\ current' = (current \ job[h].seen) \cup {Len(decisions) + 1}
    /\ Goto(h, IF job[h].row.model = "rule_based_engine"
               THEN [at |-> "setStatus", decision |-> Len(decisions) + 1]
               ELSE Idle)
    /\ UNCHANGED <<schemas, mandated, status, cited, deployments, known, crashes>>

\* Mutant: the outcome is written as it is.
NoStatusMap(outcome) == outcome

status_map(outcome) ==
    CASE outcome = "ALLOW" -> "ALLOWED"
      [] outcome = "DENY" -> "DENIED"
      [] OTHER -> "REVIEW_PENDING"

\* Mutant: no review is ever opened.
SetStatusOnly(h) ==
    /\ job[h].at = "setStatus"
    /\ LET d == job[h].decision
       IN  /\ status' = [status EXCEPT ![decisions[d].transfer] =
                                    status_map(decisions[d].result.outcome)]
           /\ Goto(h, [at |-> "cite", decision |-> d])
    /\ UNCHANGED <<schemas, mandated, decisions, current, review, cited,
                   deployments, known, crashes>>

SetStatus(h) ==
    /\ job[h].at = "setStatus"
    /\ LET d == job[h].decision
           outcome == decisions[d].result.outcome
       IN  /\ status' = [status EXCEPT ![decisions[d].transfer] = status_map(outcome)]
           /\ Goto(h, [at |-> IF outcome = "REVIEW" THEN "createReview" ELSE "cite",
                       decision |-> d])
    /\ UNCHANGED <<schemas, mandated, decisions, current, review, cited,
                   deployments, known, crashes>>

CreateReview(h) ==
    /\ job[h].at = "createReview"
    /\ review' = [review EXCEPT ![job[h].decision] = "PENDING"]
    /\ Goto(h, [job[h] EXCEPT !.at = "cite"])
    /\ UNCHANGED <<schemas, mandated, status, decisions, current, cited,
                   deployments, known, crashes>>

\* get_law_clause_by_reference and insert_classification_evidence; without a
\* clause the evidence link is skipped with a warning.
Cite(h) ==
    /\ job[h].at = "cite"
    /\ cited' = cited \cup
                {d \in {job[h].decision} : decisions[d].result.reference \in KnownClauses}
    /\ Goto(h, [job[h] EXCEPT !.at = "reply"])
    /\ UNCHANGED <<schemas, mandated, status, decisions, current, review,
                   deployments, known, crashes>>

\* The response is the only place a client learns the transfer's identifier.
Reply(h) ==
    /\ job[h].at = "reply"
    /\ known' = known \cup {decisions[job[h].decision].transfer}
    /\ Goto(h, Idle)
    /\ UNCHANGED <<database, crashes>>

-----------------------------------------------------------------------------
(***************************************************************************)
(* GET /transfer-request/{id}/status.  A poll that reads any status other  *)
(* than REVIEW_PENDING writes nothing (lemma OnlyReviewsAreUpdated of      *)
(* TransferLifecycle_proofs), so only the others are steps.                *)
(***************************************************************************)

\* get_current_policy_decision_for_transfer; its ORDER BY ... LIMIT 1 is left
\* open, OneCurrentPerTransfer says that there is never more than one row.
CurrentFor(t) == {d \in current : decisions[d].transfer = t}

\* What the poll does with a resolution: persist it, or only answer it.
Persist(h, t, resolution) ==
    Goto(h, IF resolution.update
            THEN [at |-> "pollWrite", transfer |-> t,
                  target |-> IF resolution.effective = "ALLOWED"
                             THEN "ALLOWED" ELSE "DENIED"]
            ELSE Idle)

PollTransfer(h, t) ==
    /\ job[h] = Idle
    /\ t \in known
    /\ status[t] = "REVIEW_PENDING"
    /\ Goto(h, [at |-> "pollDecision", transfer |-> t])
    /\ UNCHANGED <<database, known, crashes>>

PollDecision(h) ==
    /\ job[h].at = "pollDecision"
    /\ LET t == job[h].transfer
       IN  \/ /\ CurrentFor(t) = {}
              /\ Persist(h, t, resolve_transfer_status("REVIEW_PENDING", "none"))
           \/ \E d \in CurrentFor(t) :
                 Goto(h, [at |-> "pollReview", transfer |-> t, decision |-> d])
    /\ UNCHANGED <<database, known, crashes>>

\* get_authorization_request_by_policy_decision, and the clock.
PollReview(h) ==
    /\ job[h].at = "pollReview"
    /\ Persist(h, job[h].transfer,
               resolve_transfer_status("REVIEW_PENDING", review[job[h].decision]))
    /\ UNCHANGED <<database, known, crashes>>

\* update_transfer_request_status, whatever the status has become meanwhile.
PollWrite(h) ==
    /\ job[h].at = "pollWrite"
    /\ status' = [status EXCEPT ![job[h].transfer] = job[h].target]
    /\ Goto(h, Idle)
    /\ UNCHANGED <<schemas, mandated, decisions, current, review, cited,
                   deployments, known, crashes>>

-----------------------------------------------------------------------------
(***************************************************************************)
(* POST /deployment-actions.  With a status other than ALLOWED and         *)
(* REVIEW_PENDING the request is refused with 403 whatever it reads next   *)
(* (lemma OnlyTheseMayDeploy of TransferLifecycle_proofs).                 *)
(***************************************************************************)
DeployTransfer(h, t) ==
    /\ job[h] = Idle
    /\ t \in known
    /\ status[t] \in {"ALLOWED", "REVIEW_PENDING"}
    /\ Goto(h, [at |-> "deployDecision", transfer |-> t, status |-> status[t]])
    /\ UNCHANGED <<database, known, crashes>>

\* No current decision: 409.
DeployDecision(h) ==
    /\ job[h].at = "deployDecision"
    /\ LET t == job[h].transfer
       IN  \/ CurrentFor(t) = {} /\ Goto(h, Idle)
           \/ \E d \in CurrentFor(t) :
                 Goto(h, [at |-> "deployReview", transfer |-> t,
                          status |-> job[h].status, decision |-> d])
    /\ UNCHANGED <<database, known, crashes>>

\* Mutant: only a DENIED transfer is refused.
DeployUnlessDenied(h) ==
    /\ job[h].at = "deployReview"
    /\ LET resolution == resolve_transfer_status(job[h].status, review[job[h].decision])
       IN  Goto(h, IF resolution.effective # "DENIED"
                   THEN [at |-> "deployInsert", transfer |-> job[h].transfer,
                         decision |-> job[h].decision]
                   ELSE Idle)
    /\ UNCHANGED <<database, known, crashes>>

\* Unless the effective status is ALLOWED: 403.
DeployReview(h) ==
    /\ job[h].at = "deployReview"
    /\ LET resolution == resolve_transfer_status(job[h].status, review[job[h].decision])
       IN  Goto(h, IF resolution.effective = "ALLOWED"
                   THEN [at |-> "deployInsert", transfer |-> job[h].transfer,
                         decision |-> job[h].decision]
                   ELSE Idle)
    /\ UNCHANGED <<database, known, crashes>>

DeployInsert(h) ==
    /\ job[h].at = "deployInsert"
    /\ deployments' = deployments \cup {job[h].decision}
    /\ Goto(h, [at |-> "deployComplete", transfer |-> job[h].transfer])
    /\ UNCHANGED <<schemas, mandated, status, decisions, current, review, cited,
                   known, crashes>>

DeployComplete(h) ==
    /\ job[h].at = "deployComplete"
    /\ status' = [status EXCEPT ![job[h].transfer] = "COMPLETED"]
    /\ Goto(h, Idle)
    /\ UNCHANGED <<schemas, mandated, decisions, current, review, cited,
                   deployments, known, crashes>>

-----------------------------------------------------------------------------
(***************************************************************************)
(* POST /reviews/{id}/resolve.  resolve_authorization_request is one       *)
(* conditional UPDATE: a review that is no longer PENDING or has expired   *)
(* is answered 409.  The winner goes on to insert the human decision, a    *)
(* copy of the original row that carries the verdict; it leaves            *)
(* TRANSFER_REQUEST.status to the next poll.                               *)
(***************************************************************************)

\* Mutant: the UPDATE is not conditional.
ResolveAnyReview(h, d, ruling) ==
    /\ job[h] = Idle
    /\ review[d] # "none"
    /\ review' = [review EXCEPT ![d] = ruling]
    /\ Goto(h, [at |-> "demote",
                row |-> [decisions[d] EXCEPT !.model = "human_reviewer",
                                             !.result = HumanResult(ruling)]])
    /\ UNCHANGED <<schemas, mandated, status, decisions, current, cited,
                   deployments, known, crashes>>

\* Mutant: only an approval is worth a decision row.
RecordApprovalsOnly(h, d, ruling) ==
    /\ job[h] = Idle
    /\ review[d] = "PENDING"
    /\ review' = [review EXCEPT ![d] = ruling]
    /\ Goto(h, IF ruling = "REJECTED" THEN Idle
               ELSE [at |-> "demote",
                     row |-> [decisions[d] EXCEPT !.model = "human_reviewer",
                                                  !.result = HumanResult(ruling)]])
    /\ UNCHANGED <<schemas, mandated, status, decisions, current, cited,
                   deployments, known, crashes>>

ResolveReview(h, d, ruling) ==
    /\ job[h] = Idle
    /\ review[d] = "PENDING"
    /\ review' = [review EXCEPT ![d] = ruling]
    /\ Goto(h, [at |-> "demote",
                row |-> [decisions[d] EXCEPT !.model = "human_reviewer",
                                             !.result = HumanResult(ruling)]])
    /\ UNCHANGED <<schemas, mandated, status, decisions, current, cited,
                   deployments, known, crashes>>

-----------------------------------------------------------------------------
\* The requests clients and reviewers send.
Request(h) ==
    \/ \E e \in Entities, dest \in Destinations : ReadClassification(h, e, dest)
    \/ \E t \in Transfers : PollTransfer(h, t) \/ DeployTransfer(h, t)
    \/ \E d \in DOMAIN decisions, ruling \in Rulings : ResolveReview(h, d, ruling)

\* The steps a handler takes on its own once a request has arrived.
TransferStep(h) ==
    \/ ReadCompany(h) \/ ReadSchemaId(h)
    \/ \E t \in Transfers : InsertTransfer(h, t)
    \/ InsertTransferFails(h)
    \/ Demote(h) \/ InsertDecision(h) \/ SetStatus(h)
    \/ CreateReview(h) \/ Cite(h) \/ Reply(h)

PollStep(h) == PollDecision(h) \/ PollReview(h) \/ PollWrite(h)

DeployStep(h) ==
    DeployDecision(h) \/ DeployReview(h) \/ DeployInsert(h) \/ DeployComplete(h)

HandlerStep(h) == TransferStep(h) \/ PollStep(h) \/ DeployStep(h)

Environment ==
    \/ \E e \in Entities : Ingest(e)
    \/ UpdateCompany
    \/ \E d \in DOMAIN decisions : Expire(d)

Next ==
    \/ \E h \in Handlers : Request(h) \/ HandlerStep(h) \/ Die(h)
    \/ Environment

Spec == Init /\ [][Next]_vars

\* A thread of the pool that holds a request keeps running it.  Nothing makes
\* a client send a request, a reviewer rule or a clock reach a deadline.
FairSpec == Spec /\ \A h \in Handlers : WF_vars(HandlerStep(h))

\* A client that keeps polling for as long as it is told to wait: whenever
\* threads keep coming free, one of them takes its poll.
PollingSpec ==
    FairSpec /\ \A t \in Transfers : SF_vars(\E h \in Handlers : PollTransfer(h, t))

-----------------------------------------------------------------------------
(***************************************************************************)
(* Properties                                                              *)
(***************************************************************************)

\* Every variable has the shape its table has; the rows a request points at
\* exist.
TypeOK ==
    /\ schemas \in [Entities -> Seq(ResidencyLock)]
    /\ mandated \in BOOLEAN
    /\ status \in [Transfers -> TransferStatus \cup {"absent"}]
    /\ decisions \in Seq(Decision)
    /\ review \in Seq(AuthorizationView)
    /\ Len(review) = Len(decisions)
    /\ current \subseteq DOMAIN decisions
    /\ cited \subseteq DOMAIN decisions
    /\ deployments \subseteq DOMAIN decisions
    /\ known \subseteq Transfers
    /\ job \in [Handlers -> Job]
    /\ crashes \in 0..MaxCrashes

EngineDecisions == {d \in DOMAIN decisions : decisions[d].model = "rule_based_engine"}

HumanDecisions == {d \in DOMAIN decisions : decisions[d].model = "human_reviewer"}

\* A transfer may go ahead: the engine allowed it, or a reviewer approved it
\* before its review expired.
Cleared(t) ==
    \E d \in EngineDecisions :
        /\ decisions[d].transfer = t
        /\ decisions[d].result.outcome = "ALLOW" \/ review[d] = "APPROVED"

\* POST /deployment-actions re-validates on the server (routes.py:278): no
\* interleaving of polls, reviews, expiries and deaths lets it record a
\* deployment of a transfer that neither the engine nor a reviewer cleared.
ClearedBeforeDeployment ==
    \A d \in deployments : Cleared(decisions[d].transfer)

\* A stored ALLOWED or COMPLETED is never the product of a stale read: polls
\* write what they resolved from earlier reads, without looking again.
AllowedIsJustified ==
    \A t \in Transfers : status[t] \in {"ALLOWED", "COMPLETED"} => Cleared(t)

\* Two reviewers, or a reviewer whose request dies, never leave two final calls
\* for one review, nor one that disagrees with the AUTHORIZATION_REQUEST row
\* (the conditional UPDATE of resolve_authorization_request).
OneRulingPerReview ==
    /\ \A d \in HumanDecisions :
         \E o \in EngineDecisions :
            /\ decisions[o].transfer = decisions[d].transfer
            /\ review[o] \in {"APPROVED", "REJECTED"}
            /\ decisions[d].result = HumanResult(review[o])
    /\ \A d1, d2 \in HumanDecisions :
         decisions[d1].transfer = decisions[d2].transfer => d1 = d2

\* Though is_current is not unique per entity under READ COMMITTED, a transfer
\* never has two current decisions, so that the LIMIT 1 of
\* get_current_policy_decision_for_transfer never chooses.
OneCurrentPerTransfer ==
    \A d1, d2 \in current :
        decisions[d1].transfer = decisions[d2].transfer => d1 = d2

\* Whatever dies on the way, a client that holds a transfer's identifier finds
\* it decided, with its review open if it needs one and with its law clause.
AnswerIsComplete ==
    \A t \in known :
        /\ status[t] \notin {"absent", "PENDING"}
        /\ \E d \in EngineDecisions :
              /\ decisions[d].transfer = t
              /\ (decisions[d].result.outcome = "REVIEW") = (review[d] # "none")
              /\ (decisions[d].result.reference \in KnownClauses) = (d \in cited)

\* Gate 1 is a hard gate (engine.py:49-55) through the handler's separate
\* reads: a destination without a qualified provider is let past DENY only if
\* some schema no later than the one cited did not lock the entity.
LockIsHardGate ==
    \A d \in EngineDecisions :
        /\ decisions[d].dest \notin QualifiedPairs
        /\ decisions[d].result.outcome # "DENY"
        => \E v \in 1..decisions[d].schema : schemas[decisions[d].entity][v] = "none"

\* A resolved review is never resolved again and an expired one never revived
\* (repository.py:403-408), and no step touches any other row's review.
ReviewIsFinal ==
    [][\A d \in DOMAIN review :
          review[d] \in {"APPROVED", "REJECTED", "EXPIRED"} => review'[d] = review[d]]_vars

\* A superseded decision never becomes current again, and no row of the history
\* is rewritten: the audit trail is append-only (README.md:25).
HistoryOnlyGrows ==
    [][/\ Len(decisions') >= Len(decisions)
       /\ \A d \in DOMAIN decisions : decisions'[d] = decisions[d]
       /\ current' \cap DOMAIN decisions \subseteq current]_vars

\* Once a client can ask about a transfer, its status never goes back to
\* waiting: a verdict may be replaced but not withdrawn.
SettledStaysSettled ==
    [][\A t \in known :
          status[t] # "REVIEW_PENDING" => status'[t] \notin {"PENDING", "REVIEW_PENDING"}]_vars

ReviewExpired(t) ==
    \E d \in EngineDecisions : decisions[d].transfer = t /\ review[d] = "EXPIRED"

\* Silence past the deadline resolves to DENIED (status_resolution.py:66-67),
\* for good, once the client that holds the identifier keeps polling.
ExpiryFailsClosed ==
    \A t \in Transfers :
        (t \in known /\ ReviewExpired(t)) ~> [](status[t] = "DENIED")

\* While no request dies, a reviewer's verdict always reaches the permanent
\* record as a decision of its own (README.md:53).
RulingIsRecorded ==
    \A t \in Transfers :
        (\E d \in EngineDecisions :
            decisions[d].transfer = t /\ review[d] \in {"APPROVED", "REJECTED"})
        ~> (\E d \in HumanDecisions : decisions[d].transfer = t)

-----------------------------------------------------------------------------
(***************************************************************************)
(* The handlers implement TransferAuthority: a transfer's verdict and      *)
(* review are those of the engine's decision about it.                     *)
(***************************************************************************)
EngineDecision(t) == {d \in EngineDecisions : decisions[d].transfer = t}

VerdictOn(t) ==
    IF EngineDecision(t) = {} THEN "none"
    ELSE decisions[CHOOSE d \in EngineDecision(t) : TRUE].result.outcome

RulingOn(t) ==
    IF EngineDecision(t) = {} THEN "none"
    ELSE review[CHOOSE d \in EngineDecision(t) : TRUE]

Authority ==
    INSTANCE TransferAuthority WITH
        verdict  <- [t \in Transfers |-> VerdictOn(t)],
        ruling   <- [t \in Transfers |-> RulingOn(t)],
        answer   <- [t \in Transfers |->
                        IF status[t] \in {"absent", "PENDING"} THEN "none" ELSE status[t]],
        released <- {decisions[d].transfer : d \in deployments}

\* Every interleaving of the handlers' transactions, with deaths and expiries,
\* looks from outside like the abstract authority: one verdict, one closing of
\* its review, answers and deployments that these justify.
ImplementsAuthority == Authority!Spec

-----------------------------------------------------------------------------
(***************************************************************************)
(* Statements of the repository that the handlers do not keep.             *)
(***************************************************************************)

\* "DENIED -> engine said DENY, or a human review resolved to DENY, or a review
\* EXPIRED" (04_transfer_request_status_states.sql:7-8).
DeniedIsJustified ==
    \A t \in Transfers :
        status[t] = "DENIED" =>
            VerdictOn(t) = "DENY" \/ RulingOn(t) \in {"REJECTED", "EXPIRED"}

\* "COMPLETED -> interceptor reported it actually executed the transfer"
\* (04_transfer_request_status_states.sql:10): that it did is not taken back.  A
\* poll under way stores what it resolved before (repository.py:241).
CompletedIsFinal ==
    [][\A t \in Transfers : status[t] = "COMPLETED" => status'[t] = "COMPLETED"]_vars

\* "REVIEW_PENDING with no linked authorization request is an inconsistent
\* state that shouldn't happen" (status_resolution.py:53-55).
ReviewAlwaysLinked ==
    \A t \in known :
        status[t] = "REVIEW_PENDING" => \E d \in CurrentFor(t) : review[d] # "none"

\* "given any past decision's inputs, you can re-run this function and get the
\* exact same answer" (engine.py:6-7), the inputs being the schema the decision
\* cites, the destination, and the company's flag, which is not stored.
DecisionIsReproducible ==
    \A d \in EngineDecisions :
        LET row == decisions[d]
        IN  \E flag \in BOOLEAN :
               row.result =
                 decide_transfer(schemas[row.entity][row.schema], flag, row.dest)

\* "The engine's original verdict and the human's final call both remain in the
\* permanent record" (README.md:53): when no request is in progress, every
\* resolved review has its human decision.
FinalCallIsOnRecord ==
    (\A h \in Handlers : job[h] = Idle) =>
        \A t \in Transfers :
            RulingOn(t) \in {"APPROVED", "REJECTED"} =>
                \E d \in HumanDecisions : decisions[d].transfer = t
=============================================================================
