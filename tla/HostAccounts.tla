---------------------------- MODULE HostAccounts ----------------------------
(* Who may administer a Host: the seeding of baseline settings by replicas that
   start on one PostgreSQL database, the login that follows a successful OAuth
   exchange (the first one becomes the superadmin), the signing of session
   tokens, and the e-mail whitelist.  Deployments without JWT_SECRET in the
   environment are modelled; any statement may fail.                         *)
EXTENDS Naturals, FiniteSets

CONSTANTS
    Replicas,    \* host processes
    Logins,      \* OAuth callbacks being served
    Admins,      \* requests to edit the whitelist
    Identities,  \* accounts at an OAuth provider
    Emails,
    Verified,    \* the verified addresses of an identity
    Primary,     \* its AuthUser.Email, which GitHub's public profile may supply unverified
    Nil

ASSUME AccountAssumption ==
    /\ Verified \in [Identities -> SUBSET Emails]
    /\ Primary \in [Identities -> Emails]
    /\ Nil \notin Replicas \cup Logins \cup Admins \cup Identities \cup Emails

VARIABLES
    boot,         \* where InitDB is, per replica
    initialized,  \* the is_initialized row: absent, or its value
    secret,       \* the jwt_secret row: who generated it, or Nil
    lock,         \* the login whose transaction holds the is_initialized row
    users,        \* the role in an identity's row of users
    whitelist,
    pc, who,      \* where a login is, and whose
    left,         \* verified addresses it has yet to look up
    row,          \* the role it has read, or "zero": a User without an ID
    token,        \* the token it has set as cookie
    apc, item,    \* where a deletion is, and what of
    mishaps       \* history: "secret" was generated by GetJWTSecret, deletions
                  \* from the "whitelist" overlapped

stored == <<initialized, secret, users, whitelist>>
login == <<pc, who, left, row, token>>
admin == <<apc, item>>
vars == <<boot, stored, lock, login, admin, mishaps>>

Secrets == Replicas \cup Logins \cup Admins
Token == [user : Identities \cup {Nil}, key : Secrets]

TypeOK ==
    /\ boot \in [Replicas -> {"down", "look", "insert", "up"}]
    /\ initialized \in {"absent", "false", "true"}
    /\ secret \in Secrets \cup {Nil}
    /\ lock \in Logins \cup {Nil}
    /\ users \in [Identities -> {"none", "admin", "superadmin"}]
    /\ whitelist \subseteq Emails
    /\ pc \in [Logins -> {"idle", "tx", "boot", "check", "find", "create", "save", "sign", "done"}]
    /\ who \in [Logins -> Identities \cup {Nil}]
    /\ left \in [Logins -> SUBSET Emails]
    /\ row \in [Logins -> {"none", "zero", "admin", "superadmin"}]
    /\ token \in [Logins -> Token \cup {Nil}]
    /\ apc \in [Admins -> {"idle", "count", "delete"}]
    /\ item \in [Admins -> Emails \cup {Nil}]
    /\ mishaps \subseteq {"secret", "whitelist"}
    /\ \A r \in Logins : pc[r] = "boot" <=> lock = r

Init ==
    /\ boot = [p \in Replicas |-> "down"]
    /\ initialized = "absent" /\ secret = Nil /\ lock = Nil
    /\ users = [i \in Identities |-> "none"]
    /\ whitelist = {}
    /\ pc = [r \in Logins |-> "idle"]
    /\ who = [r \in Logins |-> Nil]
    /\ left = [r \in Logins |-> {}]
    /\ row = [r \in Logins |-> "none"]
    /\ token = [r \in Logins |-> Nil]
    /\ apc = [a \in Admins |-> "idle"]
    /\ item = [a \in Admins |-> Nil]
    /\ mishaps = {}

Goto(r, place) == pc' = [pc EXCEPT ![r] = place]

(***************************************************************************)
(* seedBaselineSettings                                                     *)

\* is_initialized is created as "false" unless it is there.
SeedInit(p) ==
    /\ boot[p] = "down"
    /\ initialized' = IF initialized = "absent" THEN "false" ELSE initialized
    /\ boot' = [boot EXCEPT ![p] = "look"]
    /\ UNCHANGED <<secret, users, whitelist, lock, login, admin, mishaps>>

\* Any error of First counts as absent.
SeedLook(p) ==
    /\ boot[p] = "look"
    /\ \/ boot' = [boot EXCEPT ![p] = "insert"]
       \/ secret # Nil /\ boot' = [boot EXCEPT ![p] = "up"]
    /\ UNCHANGED <<stored, lock, login, admin, mishaps>>

\* Mutant: Save, which replaces a row that another replica has created.
SeedOverwrite(p) ==
    /\ boot[p] = "insert"
    /\ secret' = p
    /\ boot' = [boot EXCEPT ![p] = "up"]
    /\ UNCHANGED <<initialized, users, whitelist, lock, login, admin, mishaps>>

\* Create with OnConflict DoNothing; its error is not looked at.
SeedInsert(p) ==
    /\ boot[p] = "insert"
    /\ secret' \in IF secret = Nil THEN {p, Nil} ELSE {secret}
    /\ boot' = [boot EXCEPT ![p] = "up"]
    /\ UNCHANGED <<initialized, users, whitelist, lock, login, admin, mishaps>>

(***************************************************************************)
(* handleOAuthLoginSuccess: the bootstrap transaction                       *)

\* The provider's callback: state, code exchange and user info were good.
LoginBegin(r, i) ==
    /\ pc[r] = "idle" /\ \E p \in Replicas : boot[p] = "up"
    /\ who' = [who EXCEPT ![r] = i]
    /\ Goto(r, "tx")
    /\ UNCHANGED <<boot, stored, lock, left, row, token, admin, mishaps>>

\* Mutant: reads is_initialized without FOR UPDATE.
TxReadUnlocked(r) ==
    /\ pc[r] = "tx"
    /\ \/ initialized = "true" /\ Goto(r, "check") /\ left' = [left EXCEPT ![r] = Verified[who[r]]]
       \/ initialized # "true" /\ Goto(r, "boot") /\ UNCHANGED left
    /\ UNCHANGED <<boot, stored, lock, who, row, token, admin, mishaps>>

\* SELECT ... FOR UPDATE waits for the row, then reads what was committed.  A
\* Host that is initialised commits at once and goes on to the whitelist.
TxRead(r) ==
    /\ pc[r] = "tx" /\ lock = Nil
    /\ \/ /\ initialized = "true"
          /\ Goto(r, "check") /\ left' = [left EXCEPT ![r] = Verified[who[r]]]
          /\ UNCHANGED lock
       \/ /\ initialized # "true"
          /\ Goto(r, "boot") /\ lock' = r
          /\ UNCHANGED left
    /\ UNCHANGED <<boot, stored, who, row, token, admin, mishaps>>

\* A failed read counts as not initialised, but what bootstrapSuperadminTx then
\* does in the broken transaction fails too.
TxReadFails(r) ==
    /\ pc[r] = "tx"
    /\ Goto(r, "done")
    /\ UNCHANGED <<boot, stored, lock, who, left, row, token, admin, mishaps>>

\* bootstrapSuperadminTx and commit: its writes become visible together.
Bootstrap(r) ==
    /\ pc[r] = "boot"
    /\ users' = [users EXCEPT ![who[r]] = "superadmin"]
    /\ whitelist' = whitelist \cup {Primary[who[r]]}
    /\ initialized' = "true"
    /\ row' = [row EXCEPT ![r] = "superadmin"]
    /\ lock' = Nil /\ Goto(r, "sign")
    /\ UNCHANGED <<boot, secret, who, left, token, admin, mishaps>>

\* One of its statements, or the commit, fails: rollback.
BootstrapFails(r) ==
    /\ pc[r] = "boot"
    /\ lock' = Nil /\ Goto(r, "done")
    /\ UNCHANGED <<boot, stored, who, left, row, token, admin, mishaps>>

(***************************************************************************)
(* handleOAuthLoginSuccess: a normal login                                  *)

\* A lookup that fails counts as no match.
CheckEmail(r, e) ==
    /\ pc[r] = "check" /\ e \in left[r]
    /\ \/ e \in whitelist /\ Goto(r, "find") /\ left' = [left EXCEPT ![r] = {}]
       \/ left' = [left EXCEPT ![r] = @ \ {e}] /\ UNCHANGED pc
    /\ UNCHANGED <<boot, stored, lock, who, row, token, admin, mishaps>>

NotWhitelisted(r) ==
    /\ pc[r] = "check" /\ left[r] = {}
    /\ Goto(r, "done")
    /\ UNCHANGED <<boot, stored, lock, who, left, row, token, admin, mishaps>>

\* upsertAdminUser: any error of First counts as absent.
FindUser(r) ==
    /\ pc[r] = "find"
    /\ \/ Goto(r, "create") /\ UNCHANGED row
       \/ /\ users[who[r]] # "none"
          /\ Goto(r, "save") /\ row' = [row EXCEPT ![r] = users[who[r]]]
    /\ UNCHANGED <<boot, stored, lock, who, left, token, admin, mishaps>>

\* Mutant: the insert replaces the row it conflicts with.
CreateReplacing(r) ==
    /\ pc[r] = "create"
    /\ users' = [users EXCEPT ![who[r]] = "admin"] /\ row' = [row EXCEPT ![r] = "admin"]
    /\ Goto(r, "sign")
    /\ UNCHANGED <<boot, initialized, secret, whitelist, lock, who, left, token, admin, mishaps>>

\* idx_provider_user refuses a second row; the error is not looked at, and the
\* User that is returned has no ID.
CreateUser(r) ==
    /\ pc[r] = "create"
    /\ \/ /\ users[who[r]] = "none"
          /\ users' = [users EXCEPT ![who[r]] = "admin"] /\ row' = [row EXCEPT ![r] = "admin"]
       \/ row' = [row EXCEPT ![r] = "zero"] /\ UNCHANGED users
    /\ Goto(r, "sign")
    /\ UNCHANGED <<boot, initialized, secret, whitelist, lock, who, left, token, admin, mishaps>>

\* Save writes the whole row back, its role included; its error is not looked at.
SaveUser(r) ==
    /\ pc[r] = "save"
    /\ users' \in {users, [users EXCEPT ![who[r]] = row[r]]}
    /\ Goto(r, "sign")
    /\ UNCHANGED <<boot, initialized, secret, whitelist, lock, who, left, row, token, admin, mishaps>>

\* GetJWTSecret.  A GetSetting that fails looks like a missing secret: a new one
\* is generated and saved over the old one, and the save may fail in turn.
GetJWTSecret(new, key) ==
    \/ key = secret /\ secret # Nil /\ UNCHANGED <<secret, mishaps>>
    \/ key = new /\ secret' \in {secret, new} /\ mishaps' = mishaps \cup {"secret"}

\* GenerateToken, and the cookie.
Sign(r) ==
    /\ pc[r] = "sign"
    /\ \E k \in Secrets :
          /\ GetJWTSecret(r, k)
          /\ token' = [token EXCEPT ![r] = [user |-> IF row[r] = "zero" THEN Nil ELSE who[r],
                                            key |-> k]]
    /\ Goto(r, "done")
    /\ UNCHANGED <<boot, initialized, users, whitelist, lock, who, left, row, admin>>

\* ParseToken asks for the secret too: a request whose read fails is refused, and
\* leaves a new secret behind.
ParseUnread(a) ==
    /\ apc[a] = "idle" /\ \E r \in Logins : token[r] # Nil
    /\ GetJWTSecret(a, a)
    /\ UNCHANGED <<boot, initialized, users, whitelist, lock, login, admin>>

(***************************************************************************)
(* The whitelist                                                            *)

\* extractUser accepts some cookie: it verifies and names a row of users.
Authorized ==
    \E r \in Logins : /\ token[r] # Nil
                      /\ token[r].key = secret /\ token[r].user # Nil
                      /\ users[token[r].user] # "none"

\* adminCreateWhitelist; the unique index refuses an address that is there.
AddEmail(e) ==
    /\ Authorized /\ e \notin whitelist
    /\ whitelist' = whitelist \cup {e}
    /\ UNCHANGED <<boot, initialized, secret, users, lock, login, admin, mishaps>>

\* adminDeleteWhitelist reads the row, ...
DeleteBegin(a, e) ==
    /\ Authorized /\ apc[a] = "idle" /\ e \in whitelist
    /\ apc' = [apc EXCEPT ![a] = "count"] /\ item' = [item EXCEPT ![a] = e]
    /\ UNCHANGED <<boot, stored, lock, login, mishaps>>

\* Mutant: the last address may go.
DeleteCountLast(a) ==
    /\ apc[a] = "count"
    /\ apc' = [apc EXCEPT ![a] = IF Cardinality(whitelist) < 1 THEN "idle" ELSE "delete"]
    /\ UNCHANGED <<item, boot, stored, lock, login, mishaps>>

\* ... counts, and refuses to delete the last one, ...
DeleteCount(a) ==
    /\ apc[a] = "count"
    /\ apc' = [apc EXCEPT ![a] = IF Cardinality(whitelist) <= 1 THEN "idle" ELSE "delete"]
    /\ UNCHANGED <<item, boot, stored, lock, login, mishaps>>

\* Other requests that have counted and have still to delete.
Deleting(a) == {b \in Admins \ {a} : apc[b] = "delete"}

\* ... and deletes.
DeleteRow(a) ==
    /\ apc[a] = "delete"
    /\ whitelist' = whitelist \ {item[a]}
    /\ apc' = [apc EXCEPT ![a] = "idle"] /\ item' = [item EXCEPT ![a] = Nil]
    /\ mishaps' = IF Deleting(a) = {} THEN mishaps ELSE mishaps \cup {"whitelist"}
    /\ UNCHANGED <<boot, initialized, secret, users, lock, login>>

LoginStep(r) ==
    \/ TxRead(r) \/ TxReadFails(r) \/ Bootstrap(r) \/ BootstrapFails(r)
    \/ (\E e \in Emails : CheckEmail(r, e)) \/ NotWhitelisted(r)
    \/ FindUser(r) \/ CreateUser(r) \/ SaveUser(r) \/ Sign(r)

Next ==
    \/ \E p \in Replicas : SeedInit(p) \/ SeedLook(p) \/ SeedInsert(p)
    \/ \E r \in Logins : LoginStep(r) \/ \E i \in Identities : LoginBegin(r, i)
    \/ \E e \in Emails : AddEmail(e) \/ \E a \in Admins : DeleteBegin(a, e)
    \/ \E a \in Admins : DeleteCount(a) \/ DeleteRow(a) \/ ParseUnread(a)

Spec == Init /\ [][Next]_vars

(***************************************************************************)
(* Properties                                                               *)

Superadmins == {i \in Identities : users[i] = "superadmin"}

\* handleOAuthLoginSuccess: however many first logins race, on however many
\* replicas, and whichever of them fail, exactly one becomes the superadmin, and
\* the Host counts as initialised exactly from then on.
OneSuperadmin ==
    Cardinality(Superadmins) = IF initialized = "true" THEN 1 ELSE 0

\* upsertAdminUser writes back a role it read earlier, and inserts after reads
\* that failed: no later login takes the role of the superadmin away.
SuperadminKeepsRole ==
    [][\A i \in Identities : users[i] = "superadmin" => users'[i] = "superadmin"]_vars

\* seedBaselineSettings, "initialized consistently across replicas": however the
\* replicas' starts and the logins interleave, every token that was issued keeps
\* verifying, unless GetJWTSecret found no secret and generated one itself.
TokensVerify ==
    "secret" \in mishaps \/ \A r \in Logins : token[r] # Nil => token[r].key = secret

\* adminDeleteWhitelist, "Cannot delete the last whitelisted email": an
\* initialised Host's whitelist is never empty, unless two deletions had both
\* counted before one of them deleted.
WhitelistKept ==
    (initialized = "true" /\ "whitelist" \notin mishaps) => whitelist # {}

\* The inductive invariant behind these properties: a login past the transaction
\* has seen an initialised Host, one inside the bootstrap has not, the role that
\* upsertAdminUser is about to write back is still the one in the row, and a
\* deletion that has counted still finds two addresses.
LoginOK(r) ==
    /\ pc[r] # "idle" => who[r] \in Identities
    /\ pc[r] \in {"check", "find", "create", "save"} => initialized = "true"
    /\ pc[r] = "boot" => initialized # "true"
    /\ pc[r] = "save" => row[r] = users[who[r]] /\ row[r] # "none"

RolesOK ==
    /\ initialized # "true" => \A i \in Identities : users[i] = "none"
    /\ initialized = "true" =>
          \E i \in Identities : \A j \in Identities : users[j] = "superadmin" <=> j = i

DeletionsOK ==
    /\ IsFiniteSet(whitelist)
    /\ "whitelist" \notin mishaps =>
          \A a \in Admins : apc[a] = "delete" => \E e, f \in whitelist : e # f

AccountsInv ==
    /\ TypeOK /\ RolesOK /\ \A r \in Logins : LoginOK(r)
    /\ TokensVerify /\ WhitelistKept /\ DeletionsOK
=============================================================================
