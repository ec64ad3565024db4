-------------------------- MODULE TransferAuthority -------------------------
(***************************************************************************)
(* What the service promises about a transfer, with no handlers, no        *)
(* transactions and no current/superseded bookkeeping: who may let it go   *)
(* ahead, and which answers the verdicts justify.  The promise is the one  *)
(* of the state machine in postgres/init/04_transfer_request_status_       *)
(* states.sql, except that a reviewed transfer may be refused whatever the *)
(* review's result: that is what the code guarantees (README, finding 1).  *)
(***************************************************************************)
CONSTANT Transfers

VARIABLES
    verdict,   \* the engine's verdict, "none" until it has run
    ruling,    \* where the human review stands, "none" if there is none
    answer,    \* what a client that asks is told, "none" while undecided
    released   \* the transfers recorded as deployed

authorityVars == <<verdict, ruling, answer, released>>

Verdict == {"none", "ALLOW", "DENY", "REVIEW"}
Ruling == {"none", "PENDING", "APPROVED", "REJECTED", "EXPIRED"}
Answer == {"none", "REVIEW_PENDING", "ALLOWED", "DENIED", "COMPLETED"}

Init ==
    /\ verdict = [t \in Transfers |-> "none"]
    /\ ruling = [t \in Transfers |-> "none"]
    /\ answer = [t \in Transfers |-> "none"]
    /\ released = {}

MayProceed(t) == verdict[t] = "ALLOW" \/ ruling[t] = "APPROVED"

\* The engine speaks once.
Decide(t) ==
    /\ verdict[t] = "none"
    /\ \E v \in Verdict \ {"none"} : verdict' = [verdict EXCEPT ![t] = v]
    /\ UNCHANGED <<ruling, answer, released>>

OpenReview(t) ==
    /\ verdict[t] = "REVIEW"
    /\ ruling[t] = "none"
    /\ ruling' = [ruling EXCEPT ![t] = "PENDING"]
    /\ UNCHANGED <<verdict, answer, released>>

\* A review is closed once: by a reviewer or by its deadline.
CloseReview(t) ==
    /\ ruling[t] = "PENDING"
    /\ \E r \in {"APPROVED", "REJECTED", "EXPIRED"} : ruling' = [ruling EXCEPT ![t] = r]
    /\ UNCHANGED <<verdict, answer, released>>

\* Waiting is only the first answer, going ahead needs a clearance, executed
\* needs a deployment, and what the engine allowed is never refused.
Tell(t) ==
    /\ verdict[t] # "none"
    /\ \E a \in Answer \ {"none"} :
          /\ a = "REVIEW_PENDING" => verdict[t] = "REVIEW" /\ answer[t] = "none"
          /\ a = "ALLOWED" => MayProceed(t)
          /\ a = "DENIED" => verdict[t] # "ALLOW"
          /\ a = "COMPLETED" => t \in released
          /\ answer' = [answer EXCEPT ![t] = a]
    /\ UNCHANGED <<verdict, ruling, released>>

Release(t) ==
    /\ MayProceed(t)
    /\ released' = released \cup {t}
    /\ UNCHANGED <<verdict, ruling, answer>>

Next ==
    \E t \in Transfers :
        Decide(t) \/ OpenReview(t) \/ CloseReview(t) \/ Tell(t) \/ Release(t)

Spec == Init /\ [][Next]_authorityVars
=============================================================================
