------------------------------- MODULE Accounts ------------------------------
(***************************************************************************)
(* Companies, accounts, roles, bearer tokens and API keys (app/auth over   *)
(* the auth methods of app/db/repository.py, and the scripts that seed an  *)
(* administrator and provision a key).                                     *)
(*                                                                         *)
(* As in TransferLifecycle a request is a sequence of transactions of its  *)
(* own, a worker of Handlers holds where it stands, and the transactions   *)
(* of others fall between.  Scripts run in workers too.  A token is what   *)
(* its claims say: nothing in the database knows of it, and it is accepted *)
(* until it expires.  Identifiers are drawn from sets by                   *)
(* gen_random_uuid(); a row that does not exist is Null.                   *)
(*                                                                         *)
(* Left out: passwords (a wrong one answers 401 and changes nothing),      *)
(* sectors and the other columns no property tells apart, and the reads    *)
(* that only list rows.                                                    *)
(***************************************************************************)
EXTENDS Naturals, FiniteSets

CONSTANTS
    Names,       \* company names
    Emails,      \* e-mail addresses
    SeedName, SeedEmail,  \* the company and address scripts/seed_admin_user.py names
    CompanyIds, UserIds, KeyIds,
    Handlers,    \* request threads and script runs
    RequestedRoles, \* what invitations ask for: InviteUserRequest.role is a free string
    MaxTokens,   \* bound: tokens that are valid at one time
    MaxCrashes,  \* bound: requests and scripts that die before their last step
    Null         \* no row, no value

Roles == {"admin", "compliance_reviewer", "compliance_officer", "viewer"}

Company == [name : Names, mandated : BOOLEAN]
Account == [company : CompanyIds, email : Emails, roles : SUBSET Roles]
Key == [company : CompanyIds, revoked : BOOLEAN, used : BOOLEAN]

\* What decode_access_token returns of a token that verifies.
Claims == [user : UserIds, company : CompanyIds, roles : SUBSET Roles]

ASSUME AccountsAssumption ==
    /\ SeedName \in Names /\ SeedEmail \in Emails
    /\ MaxTokens \in Nat /\ MaxCrashes \in Nat
    /\ Null \notin Company \cup Account \cup Key \cup BOOLEAN

VARIABLES
    companies,  \* companies[c]: the COMPANY row with that id
    accounts,   \* accounts[u]: the USER_ACCOUNT row and its USER_ROLE rows
    keys,       \* keys[k]: the API_KEY row
    tokens,     \* the claims of the tokens that have not expired
    job,        \* job[h]: the request or script h is working on
    crashes     \* how many have died so far

vars == <<companies, accounts, keys, tokens, job, crashes>>

Job ==
    [at : {"idle"}]
    \cup [at : {"registerCompany"}, email : Emails, name : Names]
    \cup [at : {"registerAccount"}, email : Emails, company : CompanyIds]
    \cup [at : {"readRoles"}, user : UserIds, company : CompanyIds]
    \cup [at : {"issueToken"}, claims : Claims]
    \cup [at : {"invitee", "invite"}, claims : Claims, email : Emails,
          role : RequestedRoles]
    \cup [at : {"insertKey"}, claims : Claims]
    \cup [at : {"revokeKey"}, claims : Claims, key : KeyIds]
    \cup [at : {"editCompany"}, claims : Claims, mandate : BOOLEAN \cup {Null}]
    \cup [at : {"touchKey", "checkName"}, key : KeyIds, company : CompanyIds, name : Names]
    \cup [at : {"findCompany"}, key : KeyIds, name : Names]
    \cup [at : {"ingest"}, key : KeyIds, company : CompanyIds]
    \cup [at : {"keyCompany"}, name : Names]
    \cup [at : {"keyInsert"}, company : CompanyIds]
    \cup [at : {"seedCompany"}]
    \cup [at : {"seedAccount"}, company : CompanyIds]
    \cup [at : {"seedReviewer", "seedAdmin"}, user : UserIds]

Idle == [at |-> "idle"]

Goto(h, next) == job' = [job EXCEPT ![h] = next]

\* The state the database is installed in: the roles are there, no company is.
Init ==
    /\ companies = [c \in CompanyIds |-> Null]
    /\ accounts = [u \in UserIds |-> Null]
    /\ keys = [k \in KeyIds |-> Null]
    /\ tokens = {}
    /\ job = [h \in Handlers |-> Idle]
    /\ crashes = 0

Stored(table) == {i \in DOMAIN table : table[i] # Null}
Unused(table) == DOMAIN table \ Stored(table)

-----------------------------------------------------------------------------
(***************************************************************************)
(* The repository's statements.  Each is one transaction.                  *)
(***************************************************************************)
CompanyNamed(name, c) == c \in Stored(companies) /\ companies[c].name = name

\* get_user_by_email: the account e has, or none.
AccountOf(e) == {u \in Stored(accounts) : accounts[u].email = e}

\* Mutant: companies have no natural key.
AlwaysInsert(name, c) ==
    /\ c \in Unused(companies)
    /\ companies' = [companies EXCEPT ![c] = [name |-> name, mandated |-> FALSE]]

\* Mutant: the whole row is written when there is one.
ReplaceCompany(name, c) ==
    \/ /\ CompanyNamed(name, c)
       /\ companies' = [companies EXCEPT ![c] = [name |-> name, mandated |-> FALSE]]
    \/ /\ \A d \in CompanyIds : ~CompanyNamed(name, d)
       /\ c \in Unused(companies)
       /\ companies' = [companies EXCEPT ![c] = [name |-> name, mandated |-> FALSE]]

\* INSERT ... ON CONFLICT (name) DO UPDATE SET sector: the id is the old row's
\* if there is one, and nothing of that row but its sector is written.
upsert_company(name, c) ==
    \/ /\ CompanyNamed(name, c)
       /\ UNCHANGED companies
    \/ /\ \A d \in CompanyIds : ~CompanyNamed(name, d)
       /\ c \in Unused(companies)
       /\ companies' = [companies EXCEPT ![c] = [name |-> name, mandated |-> FALSE]]

\* Mutant: the address is not unique; the look-up before has to do.
InsertUnchecked(c, e, role, u) ==
    /\ role \in Roles
    /\ u \in Unused(accounts)
    /\ accounts' = [accounts EXCEPT ![u] = [company |-> c, email |-> e, roles |-> {role}]]

\* Mutant: the account is committed before its role is looked up.
CommitAccountFirst(c, e, role, u) ==
    /\ AccountOf(e) = {}
    /\ u \in Unused(accounts)
    /\ accounts' = [accounts EXCEPT ![u] =
          [company |-> c, email |-> e, roles |-> {role} \cap Roles]]

\* The two INSERTs commit together.  An address that is taken violates the
\* unique constraint and an unknown role raises: both roll the account back.
create_user_with_role(c, e, role, u) ==
    /\ AccountOf(e) = {} /\ role \in Roles
    /\ u \in Unused(accounts)
    /\ accounts' = [accounts EXCEPT ![u] = [company |-> c, email |-> e, roles |-> {role}]]

CannotCreate(e, role) == AccountOf(e) # {} \/ role \notin Roles

\* Mutant: the script's company is written too.
MoveAccount(c, e, u) ==
    \/ /\ u \in AccountOf(e)
       /\ accounts' = [accounts EXCEPT ![u].company = c]
    \/ /\ AccountOf(e) = {}
       /\ u \in Unused(accounts)
       /\ accounts' = [accounts EXCEPT ![u] = [company |-> c, email |-> e, roles |-> {}]]

\* ON CONFLICT (email) DO UPDATE SET name: company, password and roles stay.
upsert_user_account(c, e, u) ==
    \/ u \in AccountOf(e) /\ UNCHANGED accounts
    \/ /\ AccountOf(e) = {}
       /\ u \in Unused(accounts)
       /\ accounts' = [accounts EXCEPT ![u] = [company |-> c, email |-> e, roles |-> {}]]

assign_role(u, role) ==
    accounts' = [accounts EXCEPT ![u].roles = @ \cup {role}]

\* When all of KeyIds are taken (the bound) the request leaves no row.
create_api_key(c) ==
    \/ \E k \in Unused(keys) :
          keys' = [keys EXCEPT ![k] = [company |-> c, revoked |-> FALSE, used |-> FALSE]]
    \/ Unused(keys) = {} /\ UNCHANGED keys

\* The UPDATE is restricted to the company's own keys; otherwise 404.
revoke_api_key(k, c) ==
    IF k \in Stored(keys) /\ keys[k].company = c
       THEN keys' = [keys EXCEPT ![k].revoked = TRUE]
       ELSE UNCHANGED keys

\* Mutant: the row that was read when the key was checked is written back.
WriteBackKey(k) == keys' = [keys EXCEPT ![k].used = TRUE, ![k].revoked = FALSE]

touch_api_key_last_used(k) == keys' = [keys EXCEPT ![k].used = TRUE]

\* Mutant: without COALESCE.
OverwriteProfile(c, mandate) ==
    companies' = [companies EXCEPT ![c].mandated = mandate]

\* COALESCE: a field the edit does not carry stays.
update_company_profile(c, mandate) ==
    IF mandate = Null THEN UNCHANGED companies
    ELSE companies' = [companies EXCEPT ![c].mandated = mandate]

create_access_token(claims) ==
    /\ Cardinality(tokens) < MaxTokens
    /\ tokens' = tokens \cup {claims}

-----------------------------------------------------------------------------
(***************************************************************************)
(* POST /auth/register.                                                    *)
(***************************************************************************)
\* The address is looked up in a transaction of its own; 409 if it is taken.
Register(h, e, name) ==
    /\ job[h] = Idle
    /\ AccountOf(e) = {}
    /\ Goto(h, [at |-> "registerCompany", email |-> e, name |-> name])
    /\ UNCHANGED <<companies, accounts, keys, tokens, crashes>>

RegisterCompany(h) ==
    /\ job[h].at = "registerCompany"
    /\ \E c \in CompanyIds :
          /\ upsert_company(job[h].name, c)
          /\ Goto(h, [at |-> "registerAccount", email |-> job[h].email, company |-> c])
    /\ UNCHANGED <<accounts, keys, tokens, crashes>>

RegisterAccount(h) ==
    /\ job[h].at = "registerAccount"
    /\ \/ \E u \in UserIds :
             /\ create_user_with_role(job[h].company, job[h].email, "admin", u)
             /\ Goto(h, [at |-> "issueToken",
                         claims |-> [user |-> u, company |-> job[h].company,
                                     roles |-> {"admin"}]])
       \/ /\ CannotCreate(job[h].email, "admin")
          /\ Goto(h, Idle)
          /\ UNCHANGED accounts
    /\ UNCHANGED <<companies, keys, tokens, crashes>>

IssueToken(h) ==
    /\ job[h].at = "issueToken"
    /\ create_access_token(job[h].claims)
    /\ Goto(h, Idle)
    /\ UNCHANGED <<companies, accounts, keys, crashes>>

(***************************************************************************)
(* POST /auth/login.                                                       *)
(***************************************************************************)
Login(h, u) ==
    /\ job[h] = Idle
    /\ u \in Stored(accounts)
    /\ Goto(h, [at |-> "readRoles", user |-> u, company |-> accounts[u].company])
    /\ UNCHANGED <<companies, accounts, keys, tokens, crashes>>

\* get_user_roles, and the token that answers the request.
ReadRoles(h) ==
    /\ job[h].at = "readRoles"
    /\ create_access_token([user |-> job[h].user, company |-> job[h].company,
                            roles |-> accounts[job[h].user].roles])
    /\ Goto(h, Idle)
    /\ UNCHANGED <<companies, accounts, keys, crashes>>

Expire(token) ==
    /\ token \in tokens
    /\ tokens' = tokens \ {token}
    /\ UNCHANGED <<companies, accounts, keys, job, crashes>>

-----------------------------------------------------------------------------
(***************************************************************************)
(* The administrator's requests: require_role("admin") asks the token's    *)
(* claims, not the database, and the company acted on is the claims' too.  *)
(***************************************************************************)
require_role(claims, role) == claims \in tokens /\ role \in claims.roles

AdminRequest(h, claims) ==
    /\ job[h] = Idle
    /\ require_role(claims, "admin")
    /\ \/ \E e \in Emails, role \in RequestedRoles :
             Goto(h, [at |-> "invitee", claims |-> claims, email |-> e, role |-> role])
       \/ Goto(h, [at |-> "insertKey", claims |-> claims])
       \/ \E k \in Stored(keys) :
             Goto(h, [at |-> "revokeKey", claims |-> claims, key |-> k])
       \/ \E mandate \in BOOLEAN \cup {Null} :
             Goto(h, [at |-> "editCompany", claims |-> claims, mandate |-> mandate])
    /\ UNCHANGED <<companies, accounts, keys, tokens, crashes>>

\* 409 if the address is taken when it is looked up.
InviteLookup(h) ==
    /\ job[h].at = "invitee"
    /\ IF AccountOf(job[h].email) = {}
          THEN Goto(h, [job[h] EXCEPT !.at = "invite"])
          ELSE Goto(h, Idle)
    /\ UNCHANGED <<companies, accounts, keys, tokens, crashes>>

InviteInsert(h) ==
    /\ job[h].at = "invite"
    /\ \/ \E u \in UserIds :
             create_user_with_role(job[h].claims.company, job[h].email, job[h].role, u)
       \/ CannotCreate(job[h].email, job[h].role) /\ UNCHANGED accounts
    /\ Goto(h, Idle)
    /\ UNCHANGED <<companies, keys, tokens, crashes>>

InsertKey(h) ==
    /\ job[h].at = "insertKey"
    /\ create_api_key(job[h].claims.company)
    /\ Goto(h, Idle)
    /\ UNCHANGED <<companies, accounts, tokens, crashes>>

RevokeKey(h) ==
    /\ job[h].at = "revokeKey"
    /\ revoke_api_key(job[h].key, job[h].claims.company)
    /\ Goto(h, Idle)
    /\ UNCHANGED <<companies, accounts, tokens, crashes>>

EditCompany(h) ==
    /\ job[h].at = "editCompany"
    /\ update_company_profile(job[h].claims.company, job[h].mandate)
    /\ Goto(h, Idle)
    /\ UNCHANGED <<accounts, keys, tokens, crashes>>

-----------------------------------------------------------------------------
(***************************************************************************)
(* POST /ingest with an API key: require_api_key, the comparison of the    *)
(* payload's company name with the key's company, and the ingestion, which *)
(* looks the company up again by the payload's name.                       *)
(***************************************************************************)
Ingest(h, k, name) ==
    /\ job[h] = Idle
    /\ k \in Stored(keys)
    /\ ~keys[k].revoked
    /\ Goto(h, [at |-> "touchKey", key |-> k, company |-> keys[k].company, name |-> name])
    /\ UNCHANGED <<companies, accounts, keys, tokens, crashes>>

TouchKey(h) ==
    /\ job[h].at = "touchKey"
    /\ touch_api_key_last_used(job[h].key)
    /\ Goto(h, [job[h] EXCEPT !.at = "checkName"])
    /\ UNCHANGED <<companies, accounts, tokens, crashes>>

\* 403 unless the names agree.
CheckName(h) ==
    /\ job[h].at = "checkName"
    /\ IF CompanyNamed(job[h].name, job[h].company)
          THEN Goto(h, [at |-> "findCompany", key |-> job[h].key, name |-> job[h].name])
          ELSE Goto(h, Idle)
    /\ UNCHANGED <<companies, accounts, keys, tokens, crashes>>

FindCompany(h) ==
    /\ job[h].at = "findCompany"
    /\ \E c \in CompanyIds :
          /\ upsert_company(job[h].name, c)
          /\ Goto(h, [at |-> "ingest", key |-> job[h].key, company |-> c])
    /\ UNCHANGED <<accounts, keys, tokens, crashes>>

\* From here on the request is a request of module Ingestion.
HandOver(h) ==
    /\ job[h].at = "ingest"
    /\ Goto(h, Idle)
    /\ UNCHANGED <<companies, accounts, keys, tokens, crashes>>

-----------------------------------------------------------------------------
(***************************************************************************)
(* scripts/create_api_key.py and scripts/seed_admin_user.py.               *)
(***************************************************************************)
RunKeyScript(h, name) ==
    /\ job[h] = Idle
    /\ Goto(h, [at |-> "keyCompany", name |-> name])
    /\ UNCHANGED <<companies, accounts, keys, tokens, crashes>>

KeyScriptCompany(h) ==
    /\ job[h].at = "keyCompany"
    /\ \E c \in CompanyIds :
          /\ upsert_company(job[h].name, c)
          /\ Goto(h, [at |-> "keyInsert", company |-> c])
    /\ UNCHANGED <<accounts, keys, tokens, crashes>>

KeyScriptKey(h) ==
    /\ job[h].at = "keyInsert"
    /\ create_api_key(job[h].company)
    /\ Goto(h, Idle)
    /\ UNCHANGED <<companies, accounts, tokens, crashes>>

RunSeedScript(h) ==
    /\ job[h] = Idle
    /\ Goto(h, [at |-> "seedCompany"])
    /\ UNCHANGED <<companies, accounts, keys, tokens, crashes>>

SeedCompany(h) ==
    /\ job[h].at = "seedCompany"
    /\ \E c \in CompanyIds :
          /\ upsert_company(SeedName, c)
          /\ Goto(h, [at |-> "seedAccount", company |-> c])
    /\ UNCHANGED <<accounts, keys, tokens, crashes>>

SeedAccount(h) ==
    /\ job[h].at = "seedAccount"
    /\ \E u \in UserIds :
          /\ upsert_user_account(job[h].company, SeedEmail, u)
          /\ Goto(h, [at |-> "seedReviewer", user |-> u])
    /\ UNCHANGED <<companies, keys, tokens, crashes>>

SeedReviewer(h) ==
    /\ job[h].at = "seedReviewer"
    /\ assign_role(job[h].user, "compliance_reviewer")
    /\ Goto(h, [job[h] EXCEPT !.at = "seedAdmin"])
    /\ UNCHANGED <<companies, keys, tokens, crashes>>

SeedAdmin(h) ==
    /\ job[h].at = "seedAdmin"
    /\ assign_role(job[h].user, "admin")
    /\ Goto(h, Idle)
    /\ UNCHANGED <<companies, keys, tokens, crashes>>

-----------------------------------------------------------------------------
\* A request or a script dies; its open transaction rolls back.
Die(h) ==
    /\ job[h] # Idle
    /\ crashes < MaxCrashes
    /\ crashes' = crashes + 1
    /\ Goto(h, Idle)
    /\ UNCHANGED <<companies, accounts, keys, tokens>>

Start(h) ==
    \/ \E e \in Emails, name \in Names : Register(h, e, name)
    \/ \E u \in UserIds : Login(h, u)
    \/ \E claims \in tokens : AdminRequest(h, claims)
    \/ \E k \in KeyIds, name \in Names : Ingest(h, k, name)
    \/ \E name \in Names : RunKeyScript(h, name)
    \/ RunSeedScript(h)

Proceed(h) ==
    \/ RegisterCompany(h) \/ RegisterAccount(h) \/ IssueToken(h) \/ ReadRoles(h)
    \/ InviteLookup(h) \/ InviteInsert(h) \/ InsertKey(h) \/ RevokeKey(h) \/ EditCompany(h)
    \/ TouchKey(h) \/ CheckName(h) \/ FindCompany(h) \/ HandOver(h)
    \/ KeyScriptCompany(h) \/ KeyScriptKey(h)
    \/ SeedCompany(h) \/ SeedAccount(h) \/ SeedReviewer(h) \/ SeedAdmin(h)

Next ==
    \/ \E h \in Handlers : Start(h) \/ Proceed(h) \/ Die(h)
    \/ \E token \in tokens : Expire(token)

Spec == Init /\ [][Next]_vars

-----------------------------------------------------------------------------
TypeOK ==
    /\ companies \in [CompanyIds -> Company \cup {Null}]
    /\ accounts \in [UserIds -> Account \cup {Null}]
    /\ keys \in [KeyIds -> Key \cup {Null}]
    /\ tokens \subseteq Claims
    /\ job \in [Handlers -> Job]
    /\ crashes \in 0..MaxCrashes

\* Registration and invitation look the address up in one transaction and insert
\* in another (app/auth/routes.py:69 and :92): two of them may both find it free.
OneAccountPerEmail ==
    \A u, v \in Stored(accounts) : accounts[u].email = accounts[v].email => u = v

\* The claims a request acts on, wherever it stands.
ClaimsInUse == tokens \cup {job[h].claims : h \in {i \in Handlers : "claims" \in DOMAIN job[i]}}

\* What a token says of its bearer is on record: the account exists, belongs to
\* the company named, and holds the roles (app/auth/routes.py:57 and :82).  No
\* request looks these up again before it acts on them.
ClaimsAreBacked ==
    \A claims \in ClaimsInUse :
        /\ claims.user \in Stored(accounts)
        /\ accounts[claims.user].company = claims.company
        /\ claims.roles \subseteq accounts[claims.user].roles
        /\ claims.company \in Stored(companies)

\* Findings are ingested under the company of the API key they came with, although
\* the company is looked up by the name in the payload and two transactions after
\* the comparison (app/api/routes.py:89, app/ingestion/pipeline.py:58).
KeyActsForItsCompany ==
    \A h \in Handlers :
        job[h].at = "ingest" => job[h].company = keys[job[h].key].company

\* Only the seeding script, which commits the account and each role apart, leaves
\* an account without a role (app/db/repository.py:698 against :318 and :631).
RolelessOnlyBySeeding ==
    \A u \in Stored(accounts) : accounts[u].roles = {} => accounts[u].email = SeedEmail

\* However registrations, invitations, the script and deaths interleave, the table
\* of accounts is sound (app/auth/routes.py:64-99).
AccountsAreSound == OneAccountPerEmail /\ RolelessOnlyBySeeding

\* A key once revoked stays so and starts no request, whatever requests were under
\* way when it was revoked (app/auth/dependencies.py:125-129).
RevocationIsFinal ==
    [][\A k \in Stored(keys) : keys[k].revoked =>
          /\ keys'[k].revoked
          /\ \A h \in Handlers : job'[h].at = "touchKey" /\ job'[h].key = k => job'[h] = job[h]]_vars

\* The company's qualified-provider mandate moves only by an edit of one of its
\* administrators, although every registration, ingestion and script upserts the
\* company's row (app/db/repository.py:39 and :846).
MandateIsTheAdmins ==
    [][\A c \in Stored(companies) : companies'[c] # companies[c] =>
          \E h \in Handlers :
              /\ job[h].at = "editCompany" /\ job'[h] = Idle
              /\ job[h].claims.company = c
              /\ "admin" \in accounts[job[h].claims.user].roles]_vars

-----------------------------------------------------------------------------
(***************************************************************************)
(* Statements of the repository that the routes do not keep.               *)
(***************************************************************************)

\* "every company's data, decisions, and infrastructure are structurally isolated
\* from every other company on the platform" (README.md:26): who joins a company
\* that has accounts was invited by an administrator of it, or is the seeding
\* script's.  Registration under the name of a company joins it (auth/routes.py:73).
OnlyInviteesJoin ==
    [][\A u \in Unused(accounts), v \in Stored(accounts) :
          /\ u \in Stored(accounts')
          /\ accounts'[u].company = accounts[v].company
          => \E h \in Handlers :
                /\ job'[h] # job[h]
                /\ \/ job[h].at = "invite" /\ job[h].claims.company = accounts'[u].company
                   \/ job[h].at = "seedAccount"]_vars
=============================================================================
