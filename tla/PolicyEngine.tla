---------------------------- MODULE PolicyEngine ----------------------------
(***************************************************************************)
(* The pure decision engine (app/policy/engine.py over the two tables of   *)
(* app/policy/lookup_tables.py) and the pure status resolution             *)
(* (app/policy/status_resolution.py).  Neither reads nor writes any state: *)
(* every handler of TransferLifecycle calls them on what it has read.      *)
(*                                                                         *)
(* A destination stands for the three request fields the engine looks at   *)
(* (cloud, region, country); the tables are the set of destinations whose  *)
(* (cloud, region) pair is on the qualified-provider list and the set of   *)
(* those whose country is on the CNDP adequacy list.                       *)
(***************************************************************************)
CONSTANTS
    Destinations,    \* what a transfer request may name as its destination
    QualifiedPairs,  \* destinations on config/qualified_providers.json
    AdequateNames    \* destinations on config/cndp_adequacy_countries.json

ASSUME TablesAssumption ==
    /\ QualifiedPairs \subseteq Destinations
    /\ AdequateNames \subseteq Destinations

ResidencyLock ==
    {"none", "sensitive_hosting_required", "oiv_hosting_required"}

Outcome == {"ALLOW", "DENY", "REVIEW"}

ReasonCode ==
    {"qualified_sovereign_provider", "no_sovereign_region_available",
     "destination_on_adequacy_list", "destination_not_on_adequacy_list"}

PolicyReference == {"decree_2.24.921", "art_11_loi_05-20", "art_43_loi_09-08"}

DecisionResult ==
    [outcome : Outcome, reason : ReasonCode, reference : PolicyReference]

is_qualified(dest) == dest \in QualifiedPairs

is_adequate(dest) == dest \in AdequateNames

requires_sovereign_hosting(lock, mandated) == lock # "none" \/ mandated

\* Mutant: the adequacy gate runs first.
AdequacyFirst(lock, mandated, dest) ==
    [outcome   |-> IF is_adequate(dest) \/ is_qualified(dest) THEN "ALLOW"
                   ELSE IF requires_sovereign_hosting(lock, mandated) THEN "DENY"
                   ELSE "REVIEW",
     reason    |-> "destination_on_adequacy_list",
     reference |-> "art_43_loi_09-08"]

(***************************************************************************)
(* The two gates, in the engine's order.  "mandated" is the owning         *)
(* company's qualified_provider_required flag.                             *)
(***************************************************************************)
decide_transfer(lock, mandated, dest) ==
    CASE requires_sovereign_hosting(lock, mandated) /\ is_qualified(dest) ->
            [outcome   |-> "ALLOW",
             reason    |-> "qualified_sovereign_provider",
             reference |-> "decree_2.24.921"]
      [] requires_sovereign_hosting(lock, mandated) /\ ~is_qualified(dest) ->
            [outcome   |-> "DENY",
             reason    |-> "no_sovereign_region_available",
             reference |-> IF lock = "sensitive_hosting_required"
                           THEN "art_11_loi_05-20" ELSE "decree_2.24.921"]
      [] ~requires_sovereign_hosting(lock, mandated) /\ is_adequate(dest) ->
            [outcome   |-> "ALLOW",
             reason    |-> "destination_on_adequacy_list",
             reference |-> "art_43_loi_09-08"]
      [] OTHER ->
            [outcome   |-> "REVIEW",
             reason    |-> "destination_not_on_adequacy_list",
             reference |-> "art_43_loi_09-08"]

-----------------------------------------------------------------------------

\* The check constraint's values; no code writes ABORTED.
TransferStatus ==
    {"PENDING", "ALLOWED", "DENIED", "REVIEW_PENDING", "COMPLETED", "ABORTED"}

(***************************************************************************)
(* What the resolution can find when it looks for the authorization        *)
(* request of a decision: none, or its status, where a PENDING row whose   *)
(* expires_at has passed is told apart because the code compares it with   *)
(* the current time.                                                       *)
(***************************************************************************)
AuthorizationView == {"none", "PENDING", "EXPIRED", "APPROVED", "REJECTED"}

EffectiveStatus == {"ALLOWED", "DENIED", "REVIEW_PENDING"}

StatusResolution == [effective : EffectiveStatus, update : BOOLEAN]

\* Mutant: whatever is not rejected and no longer open goes ahead.
FailOpen(status, auth) ==
    IF status # "REVIEW_PENDING" THEN [effective |-> status, update |-> FALSE]
    ELSE [effective |-> CASE auth = "PENDING"  -> "REVIEW_PENDING"
                          [] auth = "REJECTED" -> "DENIED"
                          [] OTHER             -> "ALLOWED",
          update    |-> auth # "PENDING"]

\* Mutant: expires_at is not looked at.
DeadlineIgnored(status, auth) ==
    IF status # "REVIEW_PENDING" THEN [effective |-> status, update |-> FALSE]
    ELSE [effective |-> CASE auth \in {"PENDING", "EXPIRED"} -> "REVIEW_PENDING"
                          [] auth = "APPROVED" -> "ALLOWED"
                          [] OTHER             -> "DENIED",
          update    |-> auth \notin {"PENDING", "EXPIRED"}]

resolve_transfer_status(status, auth) ==
    CASE status \in {"ALLOWED", "DENIED"} ->
            [effective |-> status, update |-> FALSE]
      [] status \in {"PENDING", "COMPLETED", "ABORTED"} ->
            [effective |-> "REVIEW_PENDING", update |-> FALSE]
      [] status = "REVIEW_PENDING" /\ auth \in {"none", "REJECTED", "EXPIRED"} ->
            [effective |-> "DENIED", update |-> TRUE]
      [] status = "REVIEW_PENDING" /\ auth = "APPROVED" ->
            [effective |-> "ALLOWED", update |-> TRUE]
      [] OTHER ->
            [effective |-> "REVIEW_PENDING", update |-> FALSE]
=============================================================================
