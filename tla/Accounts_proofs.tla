---------------------------- MODULE Accounts_proofs --------------------------
(***************************************************************************)
(* Proofs about Accounts for any names, addresses, identifiers, workers    *)
(* and bounds.                                                             *)
(*                                                                         *)
(* The argument: no statement takes a row away or changes what the others  *)
(* rely on (Kept), so that whatever was true when a request, or the bearer *)
(* of a token, looked at the database is still true when it is acted on.   *)
(***************************************************************************)
EXTENDS Accounts, TLAPS

\* The places of requests that carry the claims of a token.
AdminAt == {"invitee", "invite", "insertKey", "revokeKey", "editCompany"}

ClaimsAt == {"issueToken"} \cup AdminAt

\* A request's locals have the types its place in the handler says.
LEMMA JobFields ==
    ASSUME NEW j \in Job
    PROVE  /\ "claims" \in DOMAIN j <=> j.at \in ClaimsAt
           /\ j.at \in ClaimsAt => j.claims \in Claims
           /\ j.at = "registerCompany" => j.email \in Emails /\ j.name \in Names
           /\ j.at = "registerAccount" => j.email \in Emails /\ j.company \in CompanyIds
           /\ j.at = "readRoles" => j.user \in UserIds /\ j.company \in CompanyIds
           /\ j.at \in {"invitee", "invite"} =>
                /\ j.email \in Emails /\ j.role \in RequestedRoles
                /\ j = [at |-> j.at, claims |-> j.claims, email |-> j.email, role |-> j.role]
           /\ j.at = "revokeKey" => j.key \in KeyIds
           /\ j.at = "editCompany" => j.mandate \in BOOLEAN \cup {Null}
           /\ j.at \in {"touchKey", "checkName"} =>
                /\ j.key \in KeyIds /\ j.company \in CompanyIds /\ j.name \in Names
                /\ j = [at |-> j.at, key |-> j.key, company |-> j.company, name |-> j.name]
           /\ j.at = "findCompany" => j.key \in KeyIds /\ j.name \in Names
           /\ j.at = "keyCompany" => j.name \in Names
           /\ j.at \in {"keyInsert", "seedAccount"} => j.company \in CompanyIds
           /\ j.at \in {"seedReviewer", "seedAdmin"} =>
                j.user \in UserIds /\ j = [at |-> j.at, user |-> j.user]
  BY DEF Job, ClaimsAt, AdminAt

-----------------------------------------------------------------------------
(***************************************************************************)
(* The inductive invariant: the tables are sound, and what requests and    *)
(* tokens have read is still so.                                           *)
(***************************************************************************)
CompaniesOK ==
    /\ companies \in [CompanyIds -> Company \cup {Null}]
    /\ \A c, d \in Stored(companies) : companies[c].name = companies[d].name => c = d

AccountsOK ==
    /\ accounts \in [UserIds -> Account \cup {Null}]
    /\ OneAccountPerEmail
    /\ RolelessOnlyBySeeding
    /\ \A u \in Stored(accounts) : accounts[u].company \in Stored(companies)

KeysOK ==
    /\ keys \in [KeyIds -> Key \cup {Null}]
    /\ \A k \in Stored(keys) : keys[k].company \in Stored(companies)

Backed(claims) ==
    /\ claims.user \in Stored(accounts)
    /\ accounts[claims.user].company = claims.company
    /\ claims.roles \subseteq accounts[claims.user].roles
    /\ claims.company \in Stored(companies)

JobBacked(j) ==
    /\ j.at \in ClaimsAt => Backed(j.claims)
    /\ j.at \in AdminAt => "admin" \in j.claims.roles
    /\ j.at \in {"registerAccount", "keyInsert", "seedAccount"} => j.company \in Stored(companies)
    /\ j.at = "readRoles" =>
          /\ j.user \in Stored(accounts)
          /\ accounts[j.user].company = j.company
          /\ j.company \in Stored(companies)
    /\ j.at \in {"seedReviewer", "seedAdmin"} => j.user \in Stored(accounts)
    /\ j.at \in {"touchKey", "checkName", "ingest"} =>
          j.key \in Stored(keys) /\ keys[j.key].company = j.company
    /\ j.at = "findCompany" =>
          j.key \in Stored(keys) /\ CompanyNamed(j.name, keys[j.key].company)

Inv ==
    /\ CompaniesOK /\ AccountsOK /\ KeysOK
    /\ tokens \subseteq Claims
    /\ \A claims \in tokens : Backed(claims)
    /\ job \in [Handlers -> Job]
    /\ \A h \in Handlers : JobBacked(job[h])
    /\ crashes \in 0..MaxCrashes

\* What no step takes away.
CompaniesKept ==
    \A c \in Stored(companies) :
        c \in Stored(companies)' /\ companies'[c].name = companies[c].name

AccountsKept ==
    \A u \in Stored(accounts) :
        /\ u \in Stored(accounts)'
        /\ accounts'[u].company = accounts[u].company
        /\ accounts[u].roles \subseteq accounts'[u].roles

KeysKept ==
    \A k \in Stored(keys) :
        /\ k \in Stored(keys)'
        /\ keys'[k].company = keys[k].company
        /\ keys[k].revoked => keys'[k].revoked

Kept == CompaniesKept /\ AccountsKept /\ KeysKept

\* A table that is left alone keeps its rows.
LEMMA Untouched ==
    /\ UNCHANGED companies => CompaniesKept
    /\ UNCHANGED accounts => AccountsKept
    /\ UNCHANGED keys => KeysKept
  BY DEF CompaniesKept, AccountsKept, KeysKept, Stored

\* Rows being kept, what was read stays so.
LEMMA BackedStays ==
    ASSUME Kept, NEW claims, Backed(claims)
    PROVE  Backed(claims)'
  BY DEF Kept, CompaniesKept, AccountsKept, Backed

LEMMA JobBackedStays ==
    ASSUME Kept, NEW j, JobBacked(j)
    PROVE  JobBacked(j)'
<1>1. j.at \in ClaimsAt => Backed(j.claims)'
  BY BackedStays DEF JobBacked
<1>2. j.at = "findCompany" =>
          j.key \in Stored(keys)' /\ CompanyNamed(j.name, keys[j.key].company)'
  BY DEF JobBacked, Kept, KeysKept, CompaniesKept, CompanyNamed
<1>3. j.at \in {"touchKey", "checkName", "ingest"} =>
          j.key \in Stored(keys)' /\ keys'[j.key].company = j.company
  BY DEF JobBacked, Kept, KeysKept
<1>4. /\ j.at \in {"registerAccount", "keyInsert", "seedAccount"} => j.company \in Stored(companies)'
      /\ j.at = "readRoles" =>
          /\ j.user \in Stored(accounts)'
          /\ accounts'[j.user].company = j.company
          /\ j.company \in Stored(companies)'
      /\ j.at \in {"seedReviewer", "seedAdmin"} => j.user \in Stored(accounts)'
  BY DEF JobBacked, Kept, AccountsKept, CompaniesKept
<1>. QED
  BY <1>1, <1>2, <1>3, <1>4 DEF JobBacked

\* One worker moves on, the tables stay sound and keep their rows: only the
\* worker's new locals and the new tokens have to be looked at.
LEMMA MoveOn ==
    ASSUME Inv, Kept, CompaniesOK', AccountsOK', KeysOK',
           NEW h \in Handlers, NEW next \in Job, Goto(h, next), JobBacked(next)',
           tokens' \subseteq Claims, \A claims \in tokens' \ tokens : Backed(claims)',
           UNCHANGED crashes
    PROVE  Inv'
<1>1. /\ job' \in [Handlers -> Job]
      /\ job'[h] = next
      /\ \A i \in Handlers \ {h} : job'[i] = job[i]
  BY DEF Inv, Goto
<1>2. \A i \in Handlers : JobBacked(job[i])'
  <2>1. ASSUME NEW i \in Handlers, i # h PROVE JobBacked(job[i])'
    <3>1. JobBacked(job'[i])
      BY <1>1, <2>1 DEF Inv
    <3>2. ASSUME NEW j, JobBacked(j) PROVE JobBacked(j)'
      BY <3>2, JobBackedStays
    <3>. QED
      BY <3>1, <3>2, <1>1, <2>1 DEF Inv, JobBacked, Backed, CompanyNamed
  <2>2. JobBacked(job[h])'
    BY <1>1 DEF JobBacked, Backed, CompanyNamed
  <2>. QED
    BY <2>1, <2>2
<1>3. \A claims \in tokens' : Backed(claims)'
  BY BackedStays DEF Inv
<1>. QED
  BY <1>1, <1>2, <1>3 DEF Inv

-----------------------------------------------------------------------------
(***************************************************************************)
(* What each statement does to its table.                                  *)
(***************************************************************************)
LEMMA NullIsNoRow == Null \notin Company /\ Null \notin Account /\ Null \notin Key
  BY AccountsAssumption

LEMMA UpsertCompany ==
    ASSUME Inv, NEW name \in Names, NEW c \in CompanyIds, upsert_company(name, c)
    PROVE  /\ CompaniesOK' /\ CompaniesKept
           /\ CompanyNamed(name, c)'
           /\ \A d \in Stored(companies) : companies'[d] = companies[d]
<1>. USE DEF Inv, CompaniesOK
<1>1. CASE CompanyNamed(name, c) /\ UNCHANGED companies
  BY <1>1 DEF CompaniesKept, CompanyNamed, Stored
<1>2. CASE /\ \A d \in CompanyIds : ~CompanyNamed(name, d)
           /\ c \in Unused(companies)
           /\ companies' = [companies EXCEPT ![c] = [name |-> name, mandated |-> FALSE]]
  <2>. DEFINE row == [name |-> name, mandated |-> FALSE]
  <2>1. row \in Company /\ row # Null /\ row.name = name
    <3>1. row \in Company /\ row.name = name
      BY DEF Company
    <3>. QED
      BY <3>1, NullIsNoRow
  <2>. HIDE DEF row
  <2>2. companies' = [companies EXCEPT ![c] = row]
    BY <1>2 DEF row
  <2>3. /\ companies' \in [CompanyIds -> Company \cup {Null}]
        /\ companies'[c] = row
        /\ \A d \in CompanyIds \ {c} : companies'[d] = companies[d]
    BY <2>1, <2>2
  <2>4. Stored(companies)' = Stored(companies) \cup {c}
    BY <2>1, <2>3 DEF Stored
  <2>5. c \notin Stored(companies)
    BY <1>2 DEF Unused
  <2>6. \A d \in Stored(companies) : companies'[d] = companies[d] /\ companies[d].name # name
    BY <1>2, <2>3, <2>5 DEF Stored, CompanyNamed
  <2>. QED
    BY <2>1, <2>3, <2>4, <2>6 DEF CompaniesKept, CompanyNamed
<1>. QED
  BY <1>1, <1>2 DEF upsert_company

LEMMA UpdateCompany ==
    ASSUME Inv, NEW c \in Stored(companies), NEW mandate \in BOOLEAN \cup {Null},
           update_company_profile(c, mandate)
    PROVE  /\ CompaniesOK' /\ CompaniesKept
           /\ \A d \in Stored(companies) \ {c} : companies'[d] = companies[d]
<1>. USE DEF Inv, CompaniesOK
<1>1. CASE mandate = Null
  BY <1>1 DEF update_company_profile, CompaniesKept, Stored
<1>2. CASE mandate # Null
  <2>. DEFINE row == [companies[c] EXCEPT !.mandated = mandate]
  <2>1. c \in CompanyIds /\ companies[c] \in Company
    BY DEF Stored
  <2>2. row \in Company /\ row # Null /\ row.name = companies[c].name
    BY <1>2, <2>1, NullIsNoRow DEF Company
  <2>3. companies' = [companies EXCEPT ![c] = row]
    BY <1>2 DEF update_company_profile
  <2>. HIDE DEF row
  <2>4. /\ companies' \in [CompanyIds -> Company \cup {Null}]
        /\ companies'[c] = row
        /\ \A d \in CompanyIds \ {c} : companies'[d] = companies[d]
    BY <2>1, <2>2, <2>3
  <2>5. Stored(companies)' = Stored(companies)
    BY <2>2, <2>4 DEF Stored
  <2>. QED
    BY <2>2, <2>4, <2>5 DEF CompaniesKept, Stored
<1>. QED
  BY <1>1, <1>2

InsertAccount(c, e, roles, u) ==
    accounts' = [accounts EXCEPT ![u] = [company |-> c, email |-> e, roles |-> roles]]

\* One new account, of an address that had none.
LEMMA NewAccount ==
    ASSUME Inv, CompaniesKept, NEW c \in Stored(companies), NEW e \in Emails,
           NEW roles \in SUBSET Roles, NEW u \in Unused(accounts), AccountOf(e) = {},
           roles = {} => e = SeedEmail,
           InsertAccount(c, e, roles, u)
    PROVE  /\ AccountsOK' /\ AccountsKept
           /\ u \in Stored(accounts)'
           /\ accounts'[u].company = c /\ accounts'[u].roles = roles
<1>. USE DEF Inv, AccountsOK
<1>. DEFINE row == [company |-> c, email |-> e, roles |-> roles]
<1>1. /\ row \in Account /\ row # Null
      /\ row.email = e /\ row.company = c /\ row.roles = roles
  BY NullIsNoRow DEF Account, Stored, CompaniesOK
<1>2. accounts' = [accounts EXCEPT ![u] = row]
  BY DEF InsertAccount
<1>. HIDE DEF row
<1>3. u \in UserIds /\ u \notin Stored(accounts)
  BY DEF Unused
<1>4. /\ accounts' \in [UserIds -> Account \cup {Null}]
      /\ accounts'[u] = row
      /\ \A v \in UserIds \ {u} : accounts'[v] = accounts[v]
  BY <1>1, <1>2, <1>3
<1>5. Stored(accounts)' = Stored(accounts) \cup {u}
  BY <1>1, <1>3, <1>4 DEF Stored
<1>6. \A v \in Stored(accounts) : accounts'[v] = accounts[v] /\ accounts[v].email # e
  BY <1>3, <1>4 DEF Stored, AccountOf
<1>7. AccountsKept
  BY <1>5, <1>6 DEF AccountsKept
<1>8. OneAccountPerEmail' /\ RolelessOnlyBySeeding'
  <2>1. OneAccountPerEmail'
    BY <1>1, <1>4, <1>5, <1>6 DEF OneAccountPerEmail
  <2>2. ASSUME NEW v \in Stored(accounts)', accounts'[v].roles = {}
        PROVE  accounts'[v].email = SeedEmail
    BY <1>1, <1>4, <1>5, <1>6, <2>2 DEF RolelessOnlyBySeeding
  <2>. QED
    BY <2>1, <2>2 DEF RolelessOnlyBySeeding
<1>9. \A v \in Stored(accounts)' : accounts'[v].company \in Stored(companies)'
  BY <1>1, <1>4, <1>5, <1>6 DEF CompaniesKept
<1>. QED
  BY <1>1, <1>4, <1>5, <1>7, <1>8, <1>9

\* The accounts are left alone and the companies kept.
LEMMA SameAccounts ==
    ASSUME Inv, CompaniesKept, UNCHANGED accounts
    PROVE  AccountsOK' /\ AccountsKept
  BY Untouched DEF Inv, AccountsOK, OneAccountPerEmail, RolelessOnlyBySeeding, Stored,
     CompaniesKept

LEMMA AssignRole ==
    ASSUME Inv, CompaniesKept, NEW u \in Stored(accounts), NEW role \in Roles,
           assign_role(u, role)
    PROVE  AccountsOK' /\ AccountsKept
<1>. USE DEF Inv, AccountsOK
<1>. DEFINE row == [accounts[u] EXCEPT !.roles = @ \cup {role}]
<1>1. u \in UserIds /\ accounts[u] \in Account
  BY DEF Stored
<1>2. /\ row \in Account /\ row # Null
      /\ row.email = accounts[u].email /\ row.company = accounts[u].company
      /\ row.roles = accounts[u].roles \cup {role}
  BY <1>1, NullIsNoRow DEF Account
<1>3. accounts' = [accounts EXCEPT ![u] = row]
  BY <1>1 DEF assign_role
<1>. HIDE DEF row
<1>4. /\ accounts' \in [UserIds -> Account \cup {Null}]
      /\ accounts'[u] = row
      /\ \A v \in UserIds \ {u} : accounts'[v] = accounts[v]
  BY <1>1, <1>2, <1>3
<1>5. Stored(accounts)' = Stored(accounts)
  BY <1>2, <1>4 DEF Stored
<1>6. \A v \in Stored(accounts) :
          /\ accounts'[v].email = accounts[v].email
          /\ accounts'[v].company = accounts[v].company
          /\ accounts[v].roles \subseteq accounts'[v].roles
  BY <1>2, <1>4 DEF Stored
<1>7. OneAccountPerEmail' /\ RolelessOnlyBySeeding'
  BY <1>5, <1>6 DEF OneAccountPerEmail, RolelessOnlyBySeeding
<1>. QED
  BY <1>4, <1>5, <1>6, <1>7 DEF AccountsKept, CompaniesKept

\* One key's row is written, and neither its company nor its end is undone.
LEMMA WriteKey ==
    ASSUME Inv, CompaniesKept, NEW k \in KeyIds, NEW row \in Key,
           row.company \in Stored(companies),
           k \in Stored(keys) =>
               row.company = keys[k].company /\ (keys[k].revoked => row.revoked),
           keys' = [keys EXCEPT ![k] = row]
    PROVE  KeysOK' /\ KeysKept
<1>. USE DEF Inv, KeysOK
<1>1. row # Null
  BY NullIsNoRow
<1>2. /\ keys' \in [KeyIds -> Key \cup {Null}]
      /\ keys'[k] = row
      /\ \A i \in KeyIds \ {k} : keys'[i] = keys[i]
  OBVIOUS
<1>3. Stored(keys)' = Stored(keys) \cup {k}
  BY <1>1, <1>2 DEF Stored
<1>. QED
  BY <1>2, <1>3 DEF KeysKept, CompaniesKept, Stored

LEMMA SameKeys ==
    ASSUME Inv, CompaniesKept, UNCHANGED keys
    PROVE  KeysOK' /\ KeysKept
  BY Untouched DEF Inv, KeysOK, Stored, CompaniesKept

LEMMA SameCompanies ==
    ASSUME Inv, UNCHANGED companies
    PROVE  CompaniesOK' /\ CompaniesKept
  BY Untouched DEF Inv, CompaniesOK, Stored

LEMMA CreateKey ==
    ASSUME Inv, CompaniesKept, NEW c \in Stored(companies), create_api_key(c)
    PROVE  KeysOK' /\ KeysKept
<1>1. CASE UNCHANGED keys
  BY <1>1, SameKeys
<1>2. ASSUME NEW k \in Unused(keys),
             keys' = [keys EXCEPT ![k] = [company |-> c, revoked |-> FALSE, used |-> FALSE]]
      PROVE  KeysOK' /\ KeysKept
  <2>. DEFINE row == [company |-> c, revoked |-> FALSE, used |-> FALSE]
  <2>1. row \in Key /\ row.company = c
    BY DEF Key, Stored, Inv, CompaniesOK
  <2>2. k \in KeyIds /\ k \notin Stored(keys)
    BY DEF Unused, Inv, KeysOK
  <2>3. keys' = [keys EXCEPT ![k] = row]
    BY <1>2
  <2>. HIDE DEF row
  <2>. QED
    BY <2>1, <2>2, <2>3, WriteKey
<1>. QED
  BY <1>1, <1>2 DEF create_api_key

LEMMA RevokeAKey ==
    ASSUME Inv, CompaniesKept, NEW k, NEW c, revoke_api_key(k, c)
    PROVE  KeysOK' /\ KeysKept
<1>1. CASE UNCHANGED keys
  BY <1>1, SameKeys
<1>2. CASE k \in Stored(keys) /\ keys' = [keys EXCEPT ![k].revoked = TRUE]
  <2>. DEFINE row == [keys[k] EXCEPT !.revoked = TRUE]
  <2>1. k \in KeyIds /\ keys[k] \in Key /\ keys[k].company \in Stored(companies)
    BY <1>2 DEF Stored, Inv, KeysOK
  <2>2. row \in Key /\ row.company = keys[k].company /\ row.revoked
    BY <2>1 DEF Key
  <2>3. keys' = [keys EXCEPT ![k] = row]
    BY <1>2
  <2>. HIDE DEF row
  <2>. QED
    BY <2>1, <2>2, <2>3, WriteKey
<1>. QED
  BY <1>1, <1>2 DEF revoke_api_key

LEMMA TouchAKey ==
    ASSUME Inv, CompaniesKept, NEW k \in Stored(keys), touch_api_key_last_used(k)
    PROVE  KeysOK' /\ KeysKept
<1>. DEFINE row == [keys[k] EXCEPT !.used = TRUE]
<1>1. k \in KeyIds /\ keys[k] \in Key /\ keys[k].company \in Stored(companies)
  BY DEF Stored, Inv, KeysOK
<1>2. row \in Key /\ row.company = keys[k].company /\ row.revoked = keys[k].revoked
  BY <1>1 DEF Key
<1>3. keys' = [keys EXCEPT ![k] = row]
  BY DEF touch_api_key_last_used
<1>. HIDE DEF row
<1>. QED
  BY <1>1, <1>2, <1>3, WriteKey

-----------------------------------------------------------------------------
(***************************************************************************)
(* The steps.                                                              *)
(***************************************************************************)
LEMMA SameTables ==
    ASSUME Inv, UNCHANGED <<companies, accounts, keys>>
    PROVE  CompaniesOK' /\ AccountsOK' /\ KeysOK' /\ Kept
  BY SameCompanies, SameAccounts, SameKeys DEF Kept

LEMMA IdleFacts == Idle \in Job /\ JobBacked(Idle) /\ JobBacked(Idle)'
  BY DEF Idle, Job, JobBacked, ClaimsAt, AdminAt

\* A worker moves on and only its own locals change.
LEMMA OnlyMoves ==
    ASSUME Inv, NEW h \in Handlers, NEW next \in Job, Goto(h, next), JobBacked(next),
           UNCHANGED <<companies, accounts, keys, tokens, crashes>>
    PROVE  Inv' /\ Kept
<1>1. CompaniesOK' /\ AccountsOK' /\ KeysOK' /\ Kept
  BY SameTables
<1>2. JobBacked(next)'
  BY <1>1, JobBackedStays
<1>3. tokens' \subseteq Claims /\ tokens' \ tokens = {}
  BY DEF Inv
<1>. QED
  BY <1>1, <1>2, <1>3, MoveOn

\* POST /auth/register and POST /auth/login.
LEMMA RegisterSteps ==
    ASSUME Inv, NEW h \in Handlers,
           \/ \E e \in Emails, name \in Names : Register(h, e, name)
           \/ RegisterCompany(h) \/ RegisterAccount(h) \/ IssueToken(h)
    PROVE  Inv' /\ Kept
<1>. PICK j \in Job : j = job[h] /\ JobBacked(j)
  BY DEF Inv
<1>1. ASSUME NEW e \in Emails, NEW name \in Names, Register(h, e, name)
      PROVE  Inv' /\ Kept
  <2>. DEFINE next == [at |-> "registerCompany", email |-> e, name |-> name]
  <2>1. next \in Job /\ JobBacked(next)
    BY DEF Job, JobBacked, ClaimsAt, AdminAt
  <2>2. Goto(h, next)
    BY <1>1 DEF Register
  <2>. HIDE DEF next
  <2>. QED
    BY <1>1, <2>1, <2>2, OnlyMoves DEF Register
<1>2. CASE RegisterCompany(h)
  <2>1. j.email \in Emails /\ j.name \in Names
    BY <1>2, JobFields DEF RegisterCompany
  <2>2. PICK c \in CompanyIds :
            /\ upsert_company(j.name, c)
            /\ Goto(h, [at |-> "registerAccount", email |-> j.email, company |-> c])
    BY <1>2 DEF RegisterCompany
  <2>. DEFINE next == [at |-> "registerAccount", email |-> j.email, company |-> c]
  <2>3. CompaniesOK' /\ CompaniesKept /\ c \in Stored(companies)'
    BY <2>1, <2>2, UpsertCompany DEF CompanyNamed
  <2>4. UNCHANGED <<accounts, keys, tokens, crashes>>
    BY <1>2 DEF RegisterCompany
  <2>5. AccountsOK' /\ KeysOK' /\ Kept
    BY <2>3, <2>4, SameAccounts, SameKeys DEF Kept
  <2>6. next \in Job /\ JobBacked(next)'
    BY <2>1, <2>3 DEF Job, JobBacked, ClaimsAt, AdminAt
  <2>7. Goto(h, next)
    BY <2>2
  <2>8. tokens' \subseteq Claims /\ tokens' \ tokens = {}
    BY <2>4 DEF Inv
  <2>. HIDE DEF next
  <2>. QED
    BY <2>3, <2>4, <2>5, <2>6, <2>7, <2>8, MoveOn
<1>3. CASE RegisterAccount(h)
  <2>1. /\ j.email \in Emails /\ j.company \in CompanyIds
        /\ j.company \in Stored(companies)
    BY <1>3, JobFields DEF RegisterAccount, JobBacked
  <2>2. UNCHANGED <<companies, keys, tokens, crashes>>
    BY <1>3 DEF RegisterAccount
  <2>3. CompaniesOK' /\ CompaniesKept /\ KeysOK' /\ KeysKept
    BY <2>2, SameCompanies, SameKeys
  <2>4. tokens' \subseteq Claims /\ tokens' \ tokens = {}
    BY <2>2 DEF Inv
  <2>5. CASE Goto(h, Idle) /\ UNCHANGED accounts
    BY <2>2, <2>5, IdleFacts, OnlyMoves
  <2>6. ASSUME NEW u \in UserIds,
               create_user_with_role(j.company, j.email, "admin", u),
               Goto(h, [at |-> "issueToken",
                        claims |-> [user |-> u, company |-> j.company,
                                    roles |-> {"admin"}]])
        PROVE  Inv' /\ Kept
    <3>. DEFINE claims == [user |-> u, company |-> j.company, roles |-> {"admin"}]
                next == [at |-> "issueToken", claims |-> claims]
    <3>1. PICK roles \in SUBSET Roles : roles = {"admin"} /\ roles # {}
      BY DEF Roles
    <3>2. /\ AccountOf(j.email) = {}
          /\ u \in Unused(accounts)
          /\ InsertAccount(j.company, j.email, roles, u)
      BY <2>6, <3>1 DEF create_user_with_role, InsertAccount
    <3>3. /\ AccountsOK' /\ AccountsKept
          /\ u \in Stored(accounts)'
          /\ accounts'[u].company = j.company /\ accounts'[u].roles = roles
      <4>1. roles = {} => j.email = SeedEmail
        BY <3>1
      <4>. QED
        BY <2>1, <2>3, <3>2, <4>1, NewAccount
    <3>4. claims \in Claims
      BY <2>1, <3>1 DEF Claims
    <3>5. Backed(claims)'
      BY <2>1, <2>3, <3>1, <3>3 DEF Backed, CompaniesKept
    <3>6. Goto(h, next)
      BY <2>6
    <3>. HIDE DEF claims
    <3>7. next \in Job /\ JobBacked(next)'
      BY <3>4, <3>5 DEF Job, JobBacked, ClaimsAt, AdminAt
    <3>. HIDE DEF next
    <3>. QED
      BY <2>2, <2>3, <2>4, <3>3, <3>6, <3>7, MoveOn DEF Kept
  <2>. QED
    BY <1>3, <2>5, <2>6 DEF RegisterAccount
<1>4. CASE IssueToken(h)
  <2>1. j.claims \in Claims /\ Backed(j.claims)
    BY <1>4, JobFields DEF IssueToken, JobBacked, ClaimsAt
  <2>2. /\ UNCHANGED <<companies, accounts, keys, crashes>>
        /\ Goto(h, Idle)
        /\ tokens' = tokens \cup {j.claims}
    BY <1>4 DEF IssueToken, create_access_token
  <2>3. CompaniesOK' /\ AccountsOK' /\ KeysOK' /\ Kept
    BY <2>2, SameTables
  <2>4. tokens' \subseteq Claims
    BY <2>1, <2>2 DEF Inv
  <2>5. \A claims \in tokens' \ tokens : Backed(claims)'
    BY <2>1, <2>2, <2>3, BackedStays
  <2>. QED
    BY <2>2, <2>3, <2>4, <2>5, IdleFacts, MoveOn
<1>. QED
  BY <1>1, <1>2, <1>3, <1>4

LEMMA LoginSteps ==
    ASSUME Inv, NEW h \in Handlers, ReadRoles(h) \/ \E u \in UserIds : Login(h, u)
    PROVE  Inv' /\ Kept
<1>. job[h] \in Job /\ JobBacked(job[h])
  BY DEF Inv
<1>1. ASSUME NEW u \in UserIds, Login(h, u)
      PROVE  Inv' /\ Kept
  <2>. DEFINE next == [at |-> "readRoles", user |-> u, company |-> accounts[u].company]
  <2>1. /\ u \in Stored(accounts) /\ accounts[u].company \in Stored(companies)
        /\ accounts[u].company \in CompanyIds
    BY <1>1 DEF Login, Inv, AccountsOK, CompaniesOK, Stored
  <2>2. next \in Job /\ JobBacked(next)
    BY <2>1 DEF Job, JobBacked, ClaimsAt, AdminAt
  <2>3. Goto(h, next)
    BY <1>1 DEF Login
  <2>. HIDE DEF next
  <2>. QED
    BY <1>1, <2>2, <2>3, OnlyMoves DEF Login
<1>2. CASE ReadRoles(h)
  <2>. DEFINE claims == [user |-> job[h].user, company |-> job[h].company,
                         roles |-> accounts[job[h].user].roles]
  <2>1. /\ job[h].user \in UserIds /\ job[h].company \in CompanyIds
        /\ job[h].user \in Stored(accounts)
        /\ accounts[job[h].user].company = job[h].company
        /\ job[h].company \in Stored(companies)
    BY <1>2, JobFields DEF ReadRoles, JobBacked
  <2>2. accounts[job[h].user] \in Account
    BY <2>1 DEF Inv, AccountsOK, Stored
  <2>3. claims \in Claims /\ Backed(claims)
    BY <2>1, <2>2 DEF Claims, Backed, Account
  <2>4. /\ UNCHANGED <<companies, accounts, keys, crashes>>
        /\ Goto(h, Idle)
        /\ tokens' = tokens \cup {claims}
    BY <1>2 DEF ReadRoles, create_access_token
  <2>. HIDE DEF claims
  <2>5. CompaniesOK' /\ AccountsOK' /\ KeysOK' /\ Kept
    BY <2>4, SameTables
  <2>6. tokens' \subseteq Claims
    BY <2>3, <2>4 DEF Inv
  <2>7. \A t \in tokens' \ tokens : Backed(t)'
    BY <2>3, <2>4, <2>5, BackedStays
  <2>. QED
    BY <2>4, <2>5, <2>6, <2>7, IdleFacts, MoveOn
<1>. QED
  BY <1>1, <1>2

\* A worker is done, whatever tables it has written.
LEMMA Finishes ==
    ASSUME Inv, Kept, CompaniesOK', AccountsOK', KeysOK', NEW h \in Handlers, Goto(h, Idle),
           UNCHANGED <<tokens, crashes>>
    PROVE  Inv'
<1>1. tokens' \subseteq Claims /\ tokens' \ tokens = {}
  BY DEF Inv
<1>. QED
  BY <1>1, IdleFacts, MoveOn

\* What an administrator may ask for, from the token to the last transaction.
LEMMA AdminSteps ==
    ASSUME Inv, NEW h \in Handlers,
           \/ \E claims \in tokens : AdminRequest(h, claims)
           \/ InviteLookup(h) \/ InviteInsert(h) \/ InsertKey(h) \/ RevokeKey(h) \/ EditCompany(h)
    PROVE  Inv' /\ Kept
<1>. PICK j \in Job : j = job[h] /\ JobBacked(j)
  BY DEF Inv
<1>1. ASSUME NEW claims \in tokens, AdminRequest(h, claims)
      PROVE  Inv' /\ Kept
  <2>1. claims \in Claims /\ Backed(claims) /\ "admin" \in claims.roles
    BY <1>1 DEF Inv, AdminRequest, require_role
  <2>2. UNCHANGED <<companies, accounts, keys, tokens, crashes>>
    BY <1>1 DEF AdminRequest
  <2>3. PICK next \in
              [at : {"invitee"}, claims : {claims}, email : Emails, role : RequestedRoles]
              \cup [at : {"insertKey"}, claims : {claims}]
              \cup [at : {"revokeKey"}, claims : {claims}, key : Stored(keys)]
              \cup [at : {"editCompany"}, claims : {claims}, mandate : BOOLEAN \cup {Null}] :
            Goto(h, next)
    <3>1. ASSUME NEW e \in Emails, NEW role \in RequestedRoles,
                 Goto(h, [at |-> "invitee", claims |-> claims, email |-> e, role |-> role])
          PROVE  \E next \in [at : {"invitee"}, claims : {claims}, email : Emails,
                              role : RequestedRoles] : Goto(h, next)
      BY <3>1
    <3>2. ASSUME NEW k \in Stored(keys), Goto(h, [at |-> "revokeKey", claims |-> claims, key |-> k])
          PROVE  \E next \in [at : {"revokeKey"}, claims : {claims}, key : Stored(keys)] :
                    Goto(h, next)
      BY <3>2
    <3>3. ASSUME NEW mandate \in BOOLEAN \cup {Null},
                 Goto(h, [at |-> "editCompany", claims |-> claims, mandate |-> mandate])
          PROVE  \E next \in [at : {"editCompany"}, claims : {claims},
                              mandate : BOOLEAN \cup {Null}] : Goto(h, next)
      BY <3>3
    <3>4. Goto(h, [at |-> "insertKey", claims |-> claims]) =>
            \E next \in [at : {"insertKey"}, claims : {claims}] : Goto(h, next)
      OBVIOUS
    <3>. QED
      BY <1>1, <3>1, <3>2, <3>3, <3>4 DEF AdminRequest
  <2>4. next \in Job
    BY <2>1, <2>3 DEF Job, Stored, Inv, KeysOK
  <2>5. next.at \in AdminAt /\ next.claims = claims
    BY <2>3 DEF AdminAt
  <2>6. JobBacked(next)
    BY <2>1, <2>5 DEF JobBacked, ClaimsAt, AdminAt
  <2>. QED
    BY <2>2, <2>3, <2>4, <2>6, OnlyMoves
<1>2. CASE InviteLookup(h)
  <2>1. UNCHANGED <<companies, accounts, keys, tokens, crashes>>
    BY <1>2 DEF InviteLookup
  <2>2. CASE Goto(h, Idle)
    BY <2>1, <2>2, IdleFacts, OnlyMoves
  <2>3. CASE Goto(h, [j EXCEPT !.at = "invite"])
    <3>. DEFINE next == [at |-> "invite", claims |-> j.claims, email |-> j.email,
                         role |-> j.role]
    <3>1. /\ j.at = "invitee" /\ j.claims \in Claims
          /\ j.email \in Emails /\ j.role \in RequestedRoles
          /\ j = [at |-> j.at, claims |-> j.claims, email |-> j.email, role |-> j.role]
      BY <1>2, JobFields DEF InviteLookup, ClaimsAt, AdminAt
    <3>2. next = [j EXCEPT !.at = "invite"]
      BY <3>1
    <3>3. Backed(j.claims) /\ "admin" \in j.claims.roles
      BY <3>1 DEF JobBacked, ClaimsAt, AdminAt
    <3>4. next \in Job /\ JobBacked(next)
      BY <3>1, <3>3 DEF Job, JobBacked, ClaimsAt, AdminAt
    <3>5. Goto(h, next)
      BY <2>3, <3>2
    <3>. HIDE DEF next
    <3>. QED
      BY <2>1, <3>4, <3>5, OnlyMoves
  <2>. QED
    BY <1>2, <2>2, <2>3 DEF InviteLookup
<1>3. CASE InviteInsert(h)
  <2>1. /\ Goto(h, Idle)
        /\ UNCHANGED <<companies, keys, tokens, crashes>>
    BY <1>3 DEF InviteInsert
  <2>2. /\ j.claims \in Claims /\ j.claims.company \in Stored(companies)
        /\ j.email \in Emails
    BY <1>3, JobFields DEF InviteInsert, JobBacked, Backed, ClaimsAt, AdminAt
  <2>3. CompaniesOK' /\ CompaniesKept /\ KeysOK' /\ KeysKept
    BY <2>1, SameCompanies, SameKeys
  <2>4. AccountsOK' /\ AccountsKept
    <3>1. CASE UNCHANGED accounts
      BY <2>3, <3>1, SameAccounts
    <3>2. ASSUME NEW u \in UserIds,
                 create_user_with_role(j.claims.company, j.email, j.role, u)
          PROVE  AccountsOK' /\ AccountsKept
      <4>1. PICK roles \in SUBSET Roles : roles = {j.role} /\ roles # {}
        BY <3>2 DEF create_user_with_role
      <4>2. /\ AccountOf(j.email) = {}
            /\ u \in Unused(accounts)
            /\ InsertAccount(j.claims.company, j.email, roles, u)
        BY <3>2, <4>1 DEF create_user_with_role, InsertAccount
      <4>. QED
        BY <2>2, <2>3, <4>1, <4>2, NewAccount
    <3>. QED
      BY <1>3, <3>1, <3>2 DEF InviteInsert
  <2>. QED
    BY <2>1, <2>3, <2>4, Finishes DEF Kept
<1>4. CASE InsertKey(h)
  <2>1. /\ Goto(h, Idle) /\ create_api_key(j.claims.company)
        /\ UNCHANGED <<companies, accounts, tokens, crashes>>
    BY <1>4 DEF InsertKey
  <2>2. j.claims.company \in Stored(companies)
    BY <1>4 DEF InsertKey, JobBacked, Backed, ClaimsAt, AdminAt
  <2>3. CompaniesOK' /\ CompaniesKept /\ AccountsOK' /\ AccountsKept
    BY <2>1, SameCompanies, SameAccounts
  <2>4. KeysOK' /\ KeysKept
    BY <2>1, <2>2, <2>3, CreateKey
  <2>. QED
    BY <2>1, <2>3, <2>4, Finishes DEF Kept
<1>5. CASE RevokeKey(h)
  <2>1. /\ Goto(h, Idle) /\ revoke_api_key(j.key, j.claims.company)
        /\ UNCHANGED <<companies, accounts, tokens, crashes>>
    BY <1>5 DEF RevokeKey
  <2>2. CompaniesOK' /\ CompaniesKept /\ AccountsOK' /\ AccountsKept
    BY <2>1, SameCompanies, SameAccounts
  <2>3. KeysOK' /\ KeysKept
    BY <2>1, <2>2, RevokeAKey
  <2>. QED
    BY <2>1, <2>2, <2>3, Finishes DEF Kept
<1>6. CASE EditCompany(h)
  <2>1. /\ Goto(h, Idle) /\ update_company_profile(j.claims.company, j.mandate)
        /\ UNCHANGED <<accounts, keys, tokens, crashes>>
    BY <1>6 DEF EditCompany
  <2>2. j.mandate \in BOOLEAN \cup {Null} /\ j.claims.company \in Stored(companies)
    BY <1>6, JobFields DEF EditCompany, JobBacked, Backed, ClaimsAt, AdminAt
  <2>3. CompaniesOK' /\ CompaniesKept
    BY <2>1, <2>2, UpdateCompany
  <2>4. AccountsOK' /\ AccountsKept /\ KeysOK' /\ KeysKept
    BY <2>1, <2>3, SameAccounts, SameKeys
  <2>. QED
    BY <2>1, <2>3, <2>4, Finishes DEF Kept
<1>. QED
  BY <1>1, <1>2, <1>3, <1>4, <1>5, <1>6

\* POST /ingest, from the key to the company the findings go to.
LEMMA IngestSteps ==
    ASSUME Inv, NEW h \in Handlers,
           \/ \E k \in KeyIds, name \in Names : Ingest(h, k, name)
           \/ TouchKey(h) \/ CheckName(h) \/ FindCompany(h) \/ HandOver(h)
    PROVE  Inv' /\ Kept
<1>. PICK j \in Job : j = job[h] /\ JobBacked(j)
  BY DEF Inv
<1>1. ASSUME NEW k \in KeyIds, NEW name \in Names, Ingest(h, k, name)
      PROVE  Inv' /\ Kept
  <2>. DEFINE next == [at |-> "touchKey", key |-> k, company |-> keys[k].company, name |-> name]
  <2>1. k \in Stored(keys) /\ keys[k].company \in CompanyIds
    BY <1>1 DEF Ingest, Inv, KeysOK, CompaniesOK, Stored
  <2>2. next \in Job /\ JobBacked(next)
    BY <2>1 DEF Job, JobBacked, ClaimsAt, AdminAt
  <2>3. Goto(h, next)
    BY <1>1 DEF Ingest
  <2>. HIDE DEF next
  <2>. QED
    BY <1>1, <2>2, <2>3, OnlyMoves DEF Ingest
<1>2. CASE TouchKey(h)
  <2>. DEFINE next == [at |-> "checkName", key |-> j.key, company |-> j.company, name |-> j.name]
  <2>1. /\ j.at = "touchKey"
        /\ j.key \in KeyIds /\ j.company \in CompanyIds /\ j.name \in Names
        /\ j = [at |-> j.at, key |-> j.key, company |-> j.company, name |-> j.name]
        /\ j.key \in Stored(keys) /\ keys[j.key].company = j.company
    BY <1>2, JobFields DEF TouchKey, JobBacked
  <2>2. /\ touch_api_key_last_used(j.key)
        /\ Goto(h, [j EXCEPT !.at = "checkName"])
        /\ UNCHANGED <<companies, accounts, tokens, crashes>>
    BY <1>2 DEF TouchKey
  <2>3. next = [j EXCEPT !.at = "checkName"]
    BY <2>1
  <2>4. CompaniesOK' /\ CompaniesKept /\ AccountsOK' /\ AccountsKept
    BY <2>2, SameCompanies, SameAccounts
  <2>5. KeysOK' /\ KeysKept
    BY <2>1, <2>2, <2>4, TouchAKey
  <2>6. next \in Job /\ JobBacked(next)'
    BY <2>1, <2>5 DEF Job, JobBacked, ClaimsAt, AdminAt, KeysKept
  <2>7. Goto(h, next)
    BY <2>2, <2>3
  <2>8. tokens' \subseteq Claims /\ tokens' \ tokens = {}
    BY <2>2 DEF Inv
  <2>. HIDE DEF next
  <2>. QED
    BY <2>2, <2>4, <2>5, <2>6, <2>7, <2>8, MoveOn DEF Kept
<1>3. CASE CheckName(h)
  <2>1. UNCHANGED <<companies, accounts, keys, tokens, crashes>>
    BY <1>3 DEF CheckName
  <2>2. CASE Goto(h, Idle)
    BY <2>1, <2>2, IdleFacts, OnlyMoves
  <2>3. CASE /\ CompanyNamed(j.name, j.company)
             /\ Goto(h, [at |-> "findCompany", key |-> j.key, name |-> j.name])
    <3>. DEFINE next == [at |-> "findCompany", key |-> j.key, name |-> j.name]
    <3>1. /\ j.key \in KeyIds /\ j.name \in Names
          /\ j.key \in Stored(keys) /\ keys[j.key].company = j.company
      BY <1>3, JobFields DEF CheckName, JobBacked
    <3>2. next \in Job /\ JobBacked(next)
      BY <2>3, <3>1 DEF Job, JobBacked, ClaimsAt, AdminAt
    <3>. HIDE DEF next
    <3>3. Goto(h, next)
      BY <2>3 DEF next
    <3>. QED
      BY <2>1, <3>2, <3>3, OnlyMoves
  <2>. QED
    BY <1>3, <2>2, <2>3 DEF CheckName
<1>4. CASE FindCompany(h)
  <2>1. /\ j.key \in KeyIds /\ j.name \in Names /\ j.key \in Stored(keys)
        /\ CompanyNamed(j.name, keys[j.key].company)
    BY <1>4, JobFields DEF FindCompany, JobBacked
  <2>2. PICK c \in CompanyIds :
            /\ upsert_company(j.name, c)
            /\ Goto(h, [at |-> "ingest", key |-> j.key, company |-> c])
    BY <1>4 DEF FindCompany
  <2>. DEFINE next == [at |-> "ingest", key |-> j.key, company |-> c]
  <2>3. CompaniesOK' /\ CompaniesKept /\ CompanyNamed(j.name, c)'
    BY <2>1, <2>2, UpsertCompany
  <2>4. UNCHANGED <<accounts, keys, tokens, crashes>>
    BY <1>4 DEF FindCompany
  <2>5. AccountsOK' /\ KeysOK' /\ Kept
    BY <2>3, <2>4, SameAccounts, SameKeys DEF Kept
  <2>6. keys[j.key].company = c
    BY <2>1, <2>3 DEF CompaniesOK, CompaniesKept, CompanyNamed
  <2>7. next \in Job /\ JobBacked(next)'
    BY <2>1, <2>4, <2>6 DEF Job, JobBacked, ClaimsAt, AdminAt, Stored
  <2>8. Goto(h, next)
    BY <2>2
  <2>9. tokens' \subseteq Claims /\ tokens' \ tokens = {}
    BY <2>4 DEF Inv
  <2>. HIDE DEF next
  <2>. QED
    BY <2>3, <2>4, <2>5, <2>7, <2>8, <2>9, MoveOn
<1>5. CASE HandOver(h)
  BY <1>5, IdleFacts, OnlyMoves DEF HandOver
<1>. QED
  BY <1>1, <1>2, <1>3, <1>4, <1>5

\* scripts/create_api_key.py and scripts/seed_admin_user.py.
LEMMA ScriptSteps ==
    ASSUME Inv, NEW h \in Handlers,
           \/ \E name \in Names : RunKeyScript(h, name)
           \/ KeyScriptCompany(h) \/ KeyScriptKey(h)
           \/ RunSeedScript(h) \/ SeedCompany(h) \/ SeedAccount(h)
           \/ SeedReviewer(h) \/ SeedAdmin(h)
    PROVE  Inv' /\ Kept
<1>. PICK j \in Job : j = job[h] /\ JobBacked(j)
  BY DEF Inv
<1>1. ASSUME NEW name \in Names, RunKeyScript(h, name)
      PROVE  Inv' /\ Kept
  <2>. DEFINE next == [at |-> "keyCompany", name |-> name]
  <2>1. next \in Job /\ JobBacked(next)
    BY DEF Job, JobBacked, ClaimsAt, AdminAt
  <2>2. Goto(h, next)
    BY <1>1 DEF RunKeyScript
  <2>. HIDE DEF next
  <2>. QED
    BY <1>1, <2>1, <2>2, OnlyMoves DEF RunKeyScript
<1>2. ASSUME NEW name \in Names, NEW c \in CompanyIds, NEW at \in {"keyInsert", "seedAccount"},
             upsert_company(name, c), Goto(h, [at |-> at, company |-> c]),
             UNCHANGED <<accounts, keys, tokens, crashes>>
      PROVE  Inv' /\ Kept
  <2>. DEFINE next == [at |-> at, company |-> c]
  <2>1. CompaniesOK' /\ CompaniesKept /\ c \in Stored(companies)'
    BY <1>2, UpsertCompany DEF CompanyNamed
  <2>2. AccountsOK' /\ KeysOK' /\ Kept
    BY <1>2, <2>1, SameAccounts, SameKeys DEF Kept
  <2>3. next \in Job /\ JobBacked(next)'
    BY <2>1 DEF Job, JobBacked, ClaimsAt, AdminAt
  <2>4. tokens' \subseteq Claims /\ tokens' \ tokens = {}
    BY <1>2 DEF Inv
  <2>. HIDE DEF next
  <2>5. Goto(h, next)
    BY <1>2 DEF next
  <2>. QED
    BY <1>2, <2>1, <2>2, <2>3, <2>4, <2>5, MoveOn
<1>3. CASE KeyScriptCompany(h)
  <2>1. j.name \in Names
    BY <1>3, JobFields DEF KeyScriptCompany
  <2>. QED
    BY <1>2, <1>3, <2>1 DEF KeyScriptCompany
<1>4. CASE KeyScriptKey(h)
  <2>1. /\ Goto(h, Idle) /\ create_api_key(j.company)
        /\ UNCHANGED <<companies, accounts, tokens, crashes>>
    BY <1>4 DEF KeyScriptKey
  <2>2. j.company \in Stored(companies)
    BY <1>4 DEF KeyScriptKey, JobBacked
  <2>3. CompaniesOK' /\ CompaniesKept /\ AccountsOK' /\ AccountsKept
    BY <2>1, SameCompanies, SameAccounts
  <2>4. KeysOK' /\ KeysKept
    BY <2>1, <2>2, <2>3, CreateKey
  <2>. QED
    BY <2>1, <2>3, <2>4, Finishes DEF Kept
<1>5. CASE RunSeedScript(h)
  <2>. DEFINE next == [at |-> "seedCompany"]
  <2>1. next \in Job /\ JobBacked(next)
    BY DEF Job, JobBacked, ClaimsAt, AdminAt
  <2>2. Goto(h, next)
    BY <1>5 DEF RunSeedScript
  <2>. HIDE DEF next
  <2>. QED
    BY <1>5, <2>1, <2>2, OnlyMoves DEF RunSeedScript
<1>6. CASE SeedCompany(h)
  BY <1>2, <1>6, AccountsAssumption DEF SeedCompany
<1>7. CASE SeedAccount(h)
  <2>1. PICK u \in UserIds :
            /\ upsert_user_account(j.company, SeedEmail, u)
            /\ Goto(h, [at |-> "seedReviewer", user |-> u])
    BY <1>7 DEF SeedAccount
  <2>. DEFINE next == [at |-> "seedReviewer", user |-> u]
  <2>2. UNCHANGED <<companies, keys, tokens, crashes>> /\ j.company \in Stored(companies)
    BY <1>7 DEF SeedAccount, JobBacked
  <2>3. CompaniesOK' /\ CompaniesKept /\ KeysOK' /\ KeysKept
    BY <2>2, SameCompanies, SameKeys
  <2>4. AccountsOK' /\ AccountsKept /\ u \in Stored(accounts)'
    <3>1. CASE u \in AccountOf(SeedEmail) /\ UNCHANGED accounts
      BY <2>3, <3>1, SameAccounts DEF AccountOf, AccountsKept
    <3>2. CASE /\ AccountOf(SeedEmail) = {}
               /\ u \in Unused(accounts)
               /\ InsertAccount(j.company, SeedEmail, {}, u)
      BY <2>2, <2>3, <3>2, NewAccount, AccountsAssumption
    <3>. QED
      BY <2>1, <3>1, <3>2 DEF upsert_user_account, InsertAccount
  <2>5. next \in Job /\ JobBacked(next)'
    BY <2>4 DEF Job, JobBacked, ClaimsAt, AdminAt
  <2>6. tokens' \subseteq Claims /\ tokens' \ tokens = {}
    BY <2>2 DEF Inv
  <2>. HIDE DEF next
  <2>7. Goto(h, next)
    BY <2>1 DEF next
  <2>. QED
    BY <2>2, <2>3, <2>4, <2>5, <2>6, <2>7, MoveOn DEF Kept
<1>8. CASE SeedReviewer(h)
  <2>. DEFINE next == [at |-> "seedAdmin", user |-> j.user]
  <2>1. /\ j.user \in UserIds /\ j = [at |-> j.at, user |-> j.user]
        /\ j.user \in Stored(accounts)
    BY <1>8, JobFields DEF SeedReviewer, JobBacked
  <2>2. /\ assign_role(j.user, "compliance_reviewer")
        /\ Goto(h, [j EXCEPT !.at = "seedAdmin"])
        /\ UNCHANGED <<companies, keys, tokens, crashes>>
    BY <1>8 DEF SeedReviewer
  <2>3. CompaniesOK' /\ CompaniesKept /\ KeysOK' /\ KeysKept
    BY <2>2, SameCompanies, SameKeys
  <2>4. AccountsOK' /\ AccountsKept
    BY <2>1, <2>2, <2>3, AssignRole DEF Roles
  <2>5. next \in Job /\ JobBacked(next)'
    BY <2>1, <2>4 DEF Job, JobBacked, ClaimsAt, AdminAt, AccountsKept
  <2>6. tokens' \subseteq Claims /\ tokens' \ tokens = {}
    BY <2>2 DEF Inv
  <2>7. next = [j EXCEPT !.at = "seedAdmin"]
    BY <2>1
  <2>. HIDE DEF next
  <2>8. Goto(h, next)
    BY <2>2, <2>7
  <2>. QED
    BY <2>2, <2>3, <2>4, <2>5, <2>6, <2>8, MoveOn DEF Kept
<1>9. CASE SeedAdmin(h)
  <2>1. /\ assign_role(j.user, "admin") /\ Goto(h, Idle)
        /\ UNCHANGED <<companies, keys, tokens, crashes>>
    BY <1>9 DEF SeedAdmin
  <2>2. j.user \in Stored(accounts)
    BY <1>9 DEF SeedAdmin, JobBacked
  <2>3. CompaniesOK' /\ CompaniesKept /\ KeysOK' /\ KeysKept
    BY <2>1, SameCompanies, SameKeys
  <2>4. AccountsOK' /\ AccountsKept
    BY <2>1, <2>2, <2>3, AssignRole DEF Roles
  <2>. QED
    BY <2>1, <2>3, <2>4, Finishes DEF Kept
<1>. QED
  BY <1>1, <1>3, <1>4, <1>5, <1>6, <1>7, <1>8, <1>9

LEMMA DieStep ==
    ASSUME Inv, NEW h \in Handlers, Die(h)
    PROVE  Inv' /\ Kept
<1>1. UNCHANGED <<companies, accounts, keys, tokens>> /\ Goto(h, Idle)
  BY DEF Die
<1>2. CompaniesOK' /\ AccountsOK' /\ KeysOK' /\ Kept
  BY <1>1, SameTables
<1>3. crashes' \in 0..MaxCrashes
  BY AccountsAssumption DEF Die, Inv
<1>4. job' \in [Handlers -> Job]
  BY <1>1, IdleFacts DEF Goto, Inv
<1>5. ASSUME NEW i \in Handlers PROVE JobBacked(job[i])'
  <2>1. job'[i] = Idle \/ job'[i] = job[i]
    BY <1>1 DEF Goto, Inv
  <2>2. PICK next : next = job'[i] /\ JobBacked(next)
    BY <2>1, IdleFacts DEF Inv
  <2>3. JobBacked(next)'
    BY <1>2, <2>2, JobBackedStays
  <2>. QED
    BY <2>2, <2>3 DEF JobBacked, Backed, CompanyNamed
<1>6. ASSUME NEW claims \in tokens' PROVE Backed(claims)'
  BY <1>1, <1>2, BackedStays DEF Inv
<1>. QED
  BY <1>1, <1>2, <1>3, <1>4, <1>5, <1>6 DEF Inv

\* The database keeps nothing of a token: that one expires changes nothing else.
LEMMA ExpireStep ==
    ASSUME Inv, NEW token \in tokens, Expire(token)
    PROVE  Inv' /\ Kept
<1>1. UNCHANGED <<companies, accounts, keys, job, crashes>> /\ tokens' \subseteq tokens
  BY DEF Expire
<1>2. CompaniesOK' /\ AccountsOK' /\ KeysOK' /\ Kept
  BY <1>1, SameTables
<1>3. ASSUME NEW claims \in tokens' PROVE Backed(claims)'
  BY <1>1, <1>2, BackedStays DEF Inv
<1>4. ASSUME NEW i \in Handlers PROVE JobBacked(job[i])'
  <2>1. PICK j : j = job[i] /\ JobBacked(j)
    BY DEF Inv
  <2>2. JobBacked(j)'
    BY <1>2, <2>1, JobBackedStays
  <2>. QED
    BY <1>1, <2>1, <2>2 DEF JobBacked, Backed, CompanyNamed
<1>. QED
  BY <1>1, <1>2, <1>3, <1>4 DEF Inv

LEMMA InitInv == Init => Inv
<1>. SUFFICES ASSUME Init PROVE Inv
  OBVIOUS
<1>1. Stored(companies) = {} /\ Stored(accounts) = {} /\ Stored(keys) = {}
  BY DEF Init, Stored
<1>2. CompaniesOK /\ AccountsOK /\ KeysOK
  BY <1>1 DEF Init, CompaniesOK, AccountsOK, KeysOK, OneAccountPerEmail, RolelessOnlyBySeeding
<1>. QED
  BY <1>2, IdleFacts, AccountsAssumption DEF Init, Inv

LEMMA NextInv == Inv /\ [Next]_vars => Inv' /\ Kept
<1>. SUFFICES ASSUME Inv, [Next]_vars PROVE Inv' /\ Kept
  OBVIOUS
<1>1. ASSUME NEW h \in Handlers, Start(h) PROVE Inv' /\ Kept
  BY <1>1, RegisterSteps, LoginSteps, AdminSteps, IngestSteps, ScriptSteps DEF Start
<1>2. ASSUME NEW h \in Handlers, Proceed(h) PROVE Inv' /\ Kept
  BY <1>2, RegisterSteps, LoginSteps, AdminSteps, IngestSteps, ScriptSteps DEF Proceed
<1>3. CASE UNCHANGED vars
  <2>1. UNCHANGED <<companies, accounts, keys, tokens, job, crashes>>
    BY <1>3 DEF vars
  <2>2. CompaniesOK' /\ AccountsOK' /\ KeysOK' /\ Kept
    BY <2>1, SameTables
  <2>. QED
    BY <2>1, <2>2 DEF Inv, JobBacked, Backed, CompanyNamed, Stored
<1>. QED
  BY <1>1, <1>2, <1>3, DieStep, ExpireStep DEF Next

LEMMA InvAlways == Spec => []Inv
  BY InitInv, NextInv, PTL DEF Spec

-----------------------------------------------------------------------------
(***************************************************************************)
(* What a single step may write.                                           *)
(***************************************************************************)
\* A company's row changes only when a worker edits it.
LEMMA OnlyEditsChangeCompanies ==
    ASSUME Inv, Next, NEW c \in Stored(companies), companies'[c] # companies[c]
    PROVE  \E h \in Handlers : EditCompany(h) /\ job[h].claims.company = c
<1>1. ASSUME NEW name \in Names, NEW d \in CompanyIds, upsert_company(name, d) PROVE FALSE
  BY <1>1, UpsertCompany
<1>2. companies' # companies
  OBVIOUS
<1>3. ASSUME NEW h \in Handlers, Start(h) PROVE FALSE
  BY <1>2, <1>3 DEF Start, Register, Login, AdminRequest, Ingest, RunKeyScript, RunSeedScript
<1>4. ASSUME NEW h \in Handlers, Proceed(h)
      PROVE  EditCompany(h) /\ job[h].claims.company = c
  <2>. PICK j \in Job : j = job[h] /\ JobBacked(j)
    BY DEF Inv
  <2>1. ~RegisterCompany(h)
    BY <1>1, JobFields DEF RegisterCompany
  <2>2. ~FindCompany(h)
    BY <1>1, JobFields DEF FindCompany
  <2>3. ~KeyScriptCompany(h)
    BY <1>1, JobFields DEF KeyScriptCompany
  <2>4. ~SeedCompany(h)
    BY <1>1, AccountsAssumption DEF SeedCompany
  <2>5. EditCompany(h)
    BY <1>2, <1>4, <2>1, <2>2, <2>3, <2>4 DEF Proceed, RegisterAccount, IssueToken, ReadRoles,
       InviteLookup, InviteInsert, InsertKey, RevokeKey, TouchKey, CheckName, HandOver,
       KeyScriptKey, SeedAccount, SeedReviewer, SeedAdmin
  <2>6. /\ j.mandate \in BOOLEAN \cup {Null} /\ j.claims.company \in Stored(companies)
        /\ update_company_profile(j.claims.company, j.mandate)
    BY <2>5, JobFields DEF EditCompany, JobBacked, Backed, ClaimsAt, AdminAt
  <2>. QED
    BY <2>5, <2>6, UpdateCompany
<1>. QED
  BY <1>2, <1>3, <1>4 DEF Next, Die, Expire

\* A request of an API key begins only with one that is not revoked.
LEMMA OnlyLiveKeysBegin ==
    ASSUME Inv, Next, NEW i \in Handlers, job'[i] # job[i], job'[i].at = "touchKey"
    PROVE  ~keys[job'[i].key].revoked
<1>. PICK j \in Job : j = job[i] /\ JobBacked(j)
  BY DEF Inv
<1>1. ASSUME NEW h \in Handlers, NEW next, Goto(h, next), next.at # "touchKey" PROVE FALSE
  BY <1>1 DEF Goto, Inv
<1>2. job' # job
  OBVIOUS
<1>3. ASSUME NEW h \in Handlers, Start(h) PROVE ~keys[job'[i].key].revoked
  <2>1. ASSUME NEW k \in KeyIds, NEW name \in Names, Ingest(h, k, name)
        PROVE  ~keys[job'[i].key].revoked
    BY <2>1 DEF Ingest, Goto, Inv
  <2>2. ASSUME NEW claims \in tokens PROVE ~AdminRequest(h, claims)
    BY <1>1 DEF AdminRequest
  <2>3. ASSUME NEW e \in Emails, NEW name \in Names PROVE ~Register(h, e, name)
    BY <1>1 DEF Register
  <2>4. ASSUME NEW u \in UserIds PROVE ~Login(h, u)
    BY <1>1 DEF Login
  <2>5. ASSUME NEW name \in Names PROVE ~RunKeyScript(h, name)
    BY <1>1 DEF RunKeyScript
  <2>6. ~RunSeedScript(h)
    BY <1>1 DEF RunSeedScript
  <2>. QED
    BY <1>3, <2>1, <2>2, <2>3, <2>4, <2>5, <2>6 DEF Start
<1>4. ASSUME NEW h \in Handlers PROVE ~Proceed(h)
  <2>. PICK l \in Job : l = job[h]
    BY DEF Inv
  <2>1. ~Goto(h, Idle)
    BY <1>1 DEF Idle
  <2>2. ~RegisterCompany(h) /\ ~FindCompany(h) /\ ~KeyScriptCompany(h) /\ ~SeedCompany(h)
    BY <1>1 DEF RegisterCompany, FindCompany, KeyScriptCompany, SeedCompany
  <2>3. ~RegisterAccount(h) /\ ~SeedAccount(h)
    BY <1>1, <2>1 DEF RegisterAccount, SeedAccount
  <2>4. ~InviteLookup(h)
    <3>1. ASSUME l.at = "invitee" PROVE [l EXCEPT !.at = "invite"].at # "touchKey"
      BY <3>1, JobFields
    <3>. QED
      BY <1>1, <2>1, <3>1 DEF InviteLookup
  <2>5. ~TouchKey(h)
    <3>1. ASSUME l.at = "touchKey" PROVE [l EXCEPT !.at = "checkName"].at # "touchKey"
      BY <3>1, JobFields
    <3>. QED
      BY <1>1, <3>1 DEF TouchKey
  <2>6. ~CheckName(h)
    BY <1>1, <2>1 DEF CheckName
  <2>7. ~SeedReviewer(h)
    <3>1. ASSUME l.at = "seedReviewer" PROVE [l EXCEPT !.at = "seedAdmin"].at # "touchKey"
      BY <3>1, JobFields
    <3>. QED
      BY <1>1, <3>1 DEF SeedReviewer
  <2>8. /\ ~IssueToken(h) /\ ~ReadRoles(h) /\ ~InviteInsert(h) /\ ~InsertKey(h)
        /\ ~RevokeKey(h) /\ ~EditCompany(h) /\ ~HandOver(h) /\ ~KeyScriptKey(h) /\ ~SeedAdmin(h)
    BY <2>1 DEF IssueToken, ReadRoles, InviteInsert, InsertKey, RevokeKey, EditCompany, HandOver,
       KeyScriptKey, SeedAdmin
  <2>. QED
    BY <2>2, <2>3, <2>4, <2>5, <2>6, <2>7, <2>8 DEF Proceed
<1>5. ASSUME NEW h \in Handlers PROVE ~Die(h)
  BY <1>1 DEF Die, Idle
<1>. QED
  BY <1>2, <1>3, <1>4, <1>5 DEF Next, Expire

-----------------------------------------------------------------------------
\* Every row, token and request has the shape its statement or handler gives it.
THEOREM TypeCorrect == Spec => []TypeOK
<1>1. Inv => TypeOK
  BY DEF Inv, CompaniesOK, AccountsOK, KeysOK, TypeOK
<1>. QED
  BY <1>1, InvAlways, PTL

\* However many registrations, invitations and seedings find an address free at the
\* same time, one account has it (app/auth/routes.py:69 and :92), and no request that
\* is interrupted leaves an account without a role; the seeding script may.
THEOREM AccountsStaySound == Spec => []AccountsAreSound
<1>1. Inv => AccountsAreSound
  BY DEF Inv, AccountsOK, AccountsAreSound
<1>. QED
  BY <1>1, InvAlways, PTL

\* The claims of a token, and those a request has taken from one, never say more
\* than the database does, whatever happened since the token was issued.
THEOREM ClaimsStayBacked == Spec => []ClaimsAreBacked
<1>1. Inv => ClaimsAreBacked
  <2>. SUFFICES ASSUME Inv, NEW claims \in ClaimsInUse PROVE Backed(claims)
    BY DEF ClaimsAreBacked, Backed
  <2>1. CASE claims \in tokens
    BY <2>1 DEF Inv
  <2>2. ASSUME NEW h \in Handlers, "claims" \in DOMAIN job[h], claims = job[h].claims
        PROVE  Backed(claims)
    BY <2>2, JobFields DEF Inv, JobBacked
  <2>. QED
    BY <2>1, <2>2 DEF ClaimsInUse
<1>. QED
  BY <1>1, InvAlways, PTL

\* Findings go to the company of the key they came with, although it is looked up
\* by a name of the payload two transactions after the comparison.
THEOREM KeysActForTheirCompany == Spec => []KeyActsForItsCompany
<1>1. Inv => KeyActsForItsCompany
  BY DEF Inv, JobBacked, KeyActsForItsCompany
<1>. QED
  BY <1>1, InvAlways, PTL

\* No touch, write or crash brings a revoked key back, and none begins a request.
THEOREM RevocationHolds == Spec => RevocationIsFinal
<1>. DEFINE Final == \A k \in Stored(keys) : keys[k].revoked =>
          /\ keys'[k].revoked
          /\ \A h \in Handlers : job'[h].at = "touchKey" /\ job'[h].key = k => job'[h] = job[h]
<1>1. Inv /\ [Next]_vars => [Final]_vars
  <2>. SUFFICES ASSUME Inv, Next PROVE Final
    OBVIOUS
  <2>1. Kept
    BY NextInv
  <2>. QED
    BY <2>1, OnlyLiveKeysBegin DEF Kept, KeysKept
<1>. HIDE DEF Final
<1>2. [][Final]_vars => RevocationIsFinal
  BY DEF RevocationIsFinal, Final
<1>. QED
  BY <1>1, <1>2, InvAlways, PTL DEF Spec

\* No registration, ingestion or script moves a company's mandate: only the edit of
\* one who is on record as its administrator.
THEOREM MandateIsGuarded == Spec => MandateIsTheAdmins
<1>. DEFINE Guarded == \A c \in Stored(companies) : companies'[c] # companies[c] =>
          \E h \in Handlers :
              /\ job[h].at = "editCompany" /\ job'[h] = Idle
              /\ job[h].claims.company = c
              /\ "admin" \in accounts[job[h].claims.user].roles
<1>1. Inv /\ [Next]_vars => [Guarded]_vars
  <2>. SUFFICES ASSUME Inv, Next, NEW c \in Stored(companies), companies'[c] # companies[c]
                PROVE  \E h \in Handlers :
                          /\ job[h].at = "editCompany" /\ job'[h] = Idle
                          /\ job[h].claims.company = c
                          /\ "admin" \in accounts[job[h].claims.user].roles
    OBVIOUS
  <2>1. PICK h \in Handlers : EditCompany(h) /\ job[h].claims.company = c
    BY OnlyEditsChangeCompanies
  <2>2. job[h].at = "editCompany" /\ job'[h] = Idle
    BY <2>1 DEF EditCompany, Goto, Inv
  <2>3. "admin" \in accounts[job[h].claims.user].roles
    BY <2>2 DEF Inv, JobBacked, Backed, ClaimsAt, AdminAt
  <2>. QED
    BY <2>1, <2>2, <2>3
<1>. HIDE DEF Guarded
<1>2. [][Guarded]_vars => MandateIsTheAdmins
  BY DEF MandateIsTheAdmins, Guarded
<1>. QED
  BY <1>1, <1>2, InvAlways, PTL DEF Spec
=============================================================================
