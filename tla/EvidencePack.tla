----------------------------- MODULE EvidencePack ----------------------------
(***************************************************************************)
(* Compliance evidence packs over the decision history that the handlers   *)
(* of TransferLifecycle write: a pack is a snapshot of the current         *)
(* decisions of a period, its document is put together from the tables     *)
(* each time it is downloaded (generate_compliance_evidence_pack and       *)
(* get_evidence_pack_full_records of app/db/repository.py,                 *)
(* app/compliance/pdf_report.py).                                          *)
(*                                                                         *)
(* The document orders decisions by decided_at, which is the now() of the  *)
(* transaction that inserts a row, that is the time it began and not the   *)
(* time it committed.  Time is counted in such transactions, so that no    *)
(* two begin at once, and a period is an interval of it.  Polls and        *)
(* deployments neither write nor read what is modelled here, so they are   *)
(* left out of Next.                                                       *)
(***************************************************************************)
EXTENDS TransferLifecycle, FiniteSets

CONSTANT MaxPacks  \* bound: evidence packs

ASSUME PackAssumption == MaxPacks \in Nat

VARIABLES
    clock,      \* insert_policy_decision transactions begun so far
    begun,      \* begun[h]: the time h's last such transaction began
    decidedAt,  \* decidedAt[d]: POLICY_DECISION.decided_at
    packs       \* the COMPLIANCE_EVIDENCE_PACKs with their items

packVars == <<vars, clock, begun, decidedAt, packs>>

Pack == [from : Nat, to : Nat, items : SUBSET Nat]

PackInit ==
    /\ Init
    /\ clock = 0
    /\ begun = [h \in Handlers |-> 0]
    /\ decidedAt = <<>>
    /\ packs = {}

-----------------------------------------------------------------------------
BeginDecision(h) ==
    /\ Demote(h)
    /\ clock' = clock + 1
    /\ begun' = [begun EXCEPT ![h] = clock + 1]
    /\ UNCHANGED <<decidedAt, packs>>

CommitDecision(h) ==
    /\ InsertDecision(h)
    /\ decidedAt' = Append(decidedAt, begun[h])
    /\ UNCHANGED <<clock, begun, packs>>

\* The steps of TransferLifecycle that insert no decision.
OtherStep(h) ==
    /\ \/ \E e \in Entities, dest \in Destinations : ReadClassification(h, e, dest)
       \/ ReadCompany(h) \/ ReadSchemaId(h)
       \/ \E t \in Transfers : InsertTransfer(h, t)
       \/ InsertTransferFails(h)
       \/ SetStatus(h) \/ CreateReview(h) \/ Cite(h) \/ Reply(h)
       \/ \E d \in DOMAIN decisions, ruling \in Rulings : ResolveReview(h, d, ruling)
       \/ Die(h)
    /\ UNCHANGED <<clock, begun, decidedAt, packs>>

Meanwhile == Environment /\ UNCHANGED <<clock, begun, decidedAt, packs>>

\* generate_compliance_evidence_pack: the pack and its items in one transaction.
GeneratePack(from, to) ==
    /\ Cardinality(packs) < MaxPacks
    /\ packs' = packs \cup
                {[from |-> from, to |-> to,
                  items |-> {d \in current : decidedAt[d] \in from..to}]}
    /\ UNCHANGED <<vars, clock, begun, decidedAt>>

PackNext ==
    \/ \E h \in Handlers : BeginDecision(h) \/ CommitDecision(h) \/ OtherStep(h)
    \/ Meanwhile
    \/ \E from, to \in 0..clock : GeneratePack(from, to)

PackSpec == PackInit /\ [][PackNext]_packVars

-----------------------------------------------------------------------------
(***************************************************************************)
(* The document: what get_evidence_pack_full_records joins to an item.     *)
(***************************************************************************)

\* Mutant: the original is looked for among the current decisions.
CurrentOriginal(d) ==
    {p \in EngineDecisions \cap current :
        /\ decisions[d].model = "human_reviewer"
        /\ decisions[p].entity = decisions[d].entity
        /\ decidedAt[p] < decidedAt[d]}

\* The LATERAL join: for a human decision the last earlier decision of the
\* engine about the same entity, whichever transfer it was about.
Original(d) ==
    LET earlier == {p \in EngineDecisions :
                       /\ decisions[d].model = "human_reviewer"
                       /\ decisions[p].entity = decisions[d].entity
                       /\ decidedAt[p] < decidedAt[d]}
    IN  {p \in earlier : \A q \in earlier : decidedAt[q] <= decidedAt[p]}

\* The decision whose review the human decision d closed.
Reviewed(d) ==
    CHOOSE p \in EngineDecisions : decisions[p].transfer = decisions[d].transfer

HumanItems(pack) == pack.items \cap HumanDecisions

\* No engine decision about the same entity began between the two.
NothingBetween(p, d) ==
    \A q \in EngineDecisions :
        decisions[q].entity = decisions[d].entity =>
            ~(decidedAt[p] < decidedAt[q] /\ decidedAt[q] < decidedAt[d])

-----------------------------------------------------------------------------
(***************************************************************************)
(* Properties                                                              *)
(***************************************************************************)

\* The added variables have their shape, and a pack holds decisions of its
\* period only.
PackTypeOK ==
    /\ clock \in Nat
    /\ begun \in [Handlers -> 0..clock]
    /\ decidedAt \in Seq(1..clock)
    /\ DOMAIN decidedAt = DOMAIN decisions
    /\ \A pack \in packs :
          /\ pack \in Pack
          /\ pack.items \subseteq {d \in DOMAIN decisions : decidedAt[d] \in pack.from..pack.to}

\* A pack never lists a transfer twice, whatever the concurrent inserts of its
\* entity's decisions see of each other (repository.py:588-592).
PackHasNoDoubles ==
    \A pack \in packs : \A d1, d2 \in pack.items :
        decisions[d1].transfer = decisions[d2].transfer => d1 = d2

\* An entity that has been decided about is in every pack of the whole time:
\* superseding and inserting are one transaction, so that no snapshot falls
\* between them, and concurrent ones never leave an entity without a current
\* decision.
PackCoversEntities ==
    [][\A pack \in packs' \ packs :
          pack.from = 0 /\ pack.to = clock =>
              {decisions[d].entity : d \in pack.items}
                = {decisions[d].entity : d \in DOMAIN decisions}]_packVars

\* The two stages of a human decision (pdf_report.py:75-79) are the decision
\* that was reviewed and a ruling that agrees with its review, whenever no other
\* decision about the entity began between the two.
DocumentTellsTheReview ==
    \A pack \in packs : \A d \in HumanItems(pack) :
        NothingBetween(Reviewed(d), d) =>
            /\ Original(d) = {Reviewed(d)}
            /\ decisions[d].result = HumanResult(review[Reviewed(d)])

-----------------------------------------------------------------------------
(***************************************************************************)
(* Statements of the repository that packs and documents do not keep.      *)
(***************************************************************************)

\* "what the system originally flagged and why, then who overrode it"
\* (pdf_report.py:75-76): the first stage is the decision that was reviewed.
PackShowsOriginal ==
    \A pack \in packs : \A d \in HumanItems(pack) : Original(d) = {Reviewed(d)}

\* "Audits every decision with an append-only history (nothing is ever
\* overwritten, only superseded), exportable as a detailed PDF evidence pack"
\* (README.md:25): a pack of the whole time accounts for every transfer that
\* had been decided.
PackIsComplete ==
    [][\A pack \in packs' \ packs :
          pack.from = 0 /\ pack.to = clock =>
              {decisions[d].transfer : d \in pack.items}
                = {decisions[d].transfer : d \in DOMAIN decisions}]_packVars
=============================================================================
