------------------------- MODULE HostAccounts_proofs -------------------------
(* Exactly one superadmin, tokens that keep verifying and a whitelist that is
   never emptied, for any number of replicas, logins, identities, addresses and
   deletions; an OAuth client whose id and secret belong together, for any
   number of requests that edit it.                                          *)
EXTENDS HostAccounts, HostSettings, FiniteSetTheorems, TLAPS

\* Two addresses are counted only where there are two.
LEMMA TwoCounted ==
    ASSUME NEW S, IsFiniteSet(S), ~(Cardinality(S) <= 1)
    PROVE  \E e, f \in S : e # f
  <1>1. S # {}
    BY FS_EmptySet
  <1>2. PICK e \in S : TRUE
    BY <1>1
  <1>3. IsFiniteSet(S \ {e}) /\ Cardinality(S \ {e}) = Cardinality(S) - 1
    BY <1>2, FS_RemoveElement
  <1>4. S \ {e} # {}
    BY <1>3, FS_EmptySet, FS_CardinalityType
  <1> QED BY <1>4

\* A new database has no users and is not initialised.
LEMMA InitAccounts == Init => AccountsInv
  <1> SUFFICES ASSUME Init PROVE AccountsInv
    OBVIOUS
  <1>1. TypeOK /\ RolesOK /\ \A r \in Logins : LoginOK(r)
    BY AccountAssumption DEF Init, TypeOK, RolesOK, LoginOK, Secrets, Token
  <1>2. TokensVerify /\ WhitelistKept
    BY DEF Init, TokensVerify, WhitelistKept
  <1>3. DeletionsOK
    BY FS_EmptySet DEF Init, DeletionsOK
  <1> QED BY <1>1, <1>2, <1>3 DEF AccountsInv

\* A step that leaves the whitelist's state alone keeps what is known of it.
LEMMA WhitelistUntouched ==
    ASSUME AccountsInv, UNCHANGED <<whitelist, admin>>,
           "whitelist" \in mishaps' <=> "whitelist" \in mishaps,
           initialized' = "true" => initialized = "true"
    PROVE  WhitelistKept' /\ DeletionsOK'
  BY DEF AccountsInv, WhitelistKept, DeletionsOK, admin

\* Tokens and secret stay, and with them what is known of the tokens.
LEMMA TokensUntouched ==
    ASSUME AccountsInv, UNCHANGED <<token, secret>>, mishaps \subseteq mishaps'
    PROVE  TokensVerify'
  BY DEF AccountsInv, TokensVerify

\* seedBaselineSettings creates is_initialized as "false" and never changes it.
LEMMA SeedAccounts ==
    ASSUME AccountsInv, NEW p \in Replicas, SeedInit(p) \/ SeedLook(p) \/ SeedInsert(p)
    PROVE  AccountsInv'
  <1>1. TypeOK'
    <2>1. CASE SeedInit(p)
      BY <2>1 DEF AccountsInv, TypeOK, SeedInit, login, admin
    <2>2. CASE SeedLook(p)
      BY <2>2 DEF AccountsInv, TypeOK, SeedLook, stored, login, admin
    <2>3. CASE SeedInsert(p)
      BY <2>3 DEF AccountsInv, TypeOK, SeedInsert, login, admin, Secrets
    <2> QED BY <2>1, <2>2, <2>3
  <1>2. initialized' = "true" <=> initialized = "true"
    BY DEF AccountsInv, TypeOK, SeedInit, SeedLook, SeedInsert, stored
  <1>3. UNCHANGED <<users, login>>
    BY DEF SeedInit, SeedLook, SeedInsert, stored
  <1>4. TokensVerify'
    <2>1. UNCHANGED <<token, mishaps>> /\ (secret = Nil \/ secret' = secret)
      BY DEF SeedInit, SeedLook, SeedInsert, stored, login
    <2>2. \A r \in Logins : token[r] # Nil => token[r].key # Nil
      BY AccountAssumption DEF AccountsInv, TypeOK, Token, Secrets
    <2> QED BY <2>1, <2>2 DEF AccountsInv, TokensVerify
  <1>5. WhitelistKept' /\ DeletionsOK'
    <2>1. UNCHANGED <<whitelist, admin, mishaps>>
      BY DEF SeedInit, SeedLook, SeedInsert, stored
    <2> QED BY <1>2, <2>1, WhitelistUntouched
  <1> QED BY <1>1, <1>2, <1>3, <1>4, <1>5 DEF AccountsInv, RolesOK, LoginOK, login

\* The whitelist's handlers touch no user, no login and no setting.
LEMMA WhitelistAccounts ==
    ASSUME AccountsInv,
           \/ \E e \in Emails : AddEmail(e) \/ \E a \in Admins : DeleteBegin(a, e)
           \/ \E a \in Admins : DeleteCount(a) \/ DeleteRow(a)
    PROVE  AccountsInv'
  <1>1. UNCHANGED <<boot, initialized, secret, users, lock, login>>
    BY DEF AddEmail, DeleteBegin, DeleteCount, DeleteRow, stored
  <1>2. whitelist' \subseteq Emails
    BY DEF AccountsInv, TypeOK, AddEmail, DeleteBegin, DeleteCount, DeleteRow, stored
  <1>3. /\ apc' \in [Admins -> {"idle", "count", "delete"}]
        /\ item' \in [Admins -> Emails \cup {Nil}]
    BY DEF AccountsInv, TypeOK, AddEmail, DeleteBegin, DeleteCount, DeleteRow, admin
  <1>4. mishaps' \subseteq {"secret", "whitelist"} /\ mishaps \subseteq mishaps'
    BY DEF AccountsInv, TypeOK, AddEmail, DeleteBegin, DeleteCount, DeleteRow
  <1>5. TypeOK'
    BY <1>1, <1>2, <1>3, <1>4 DEF AccountsInv, TypeOK, login
  <1>6. TokensVerify'
    BY <1>1, <1>4, TokensUntouched DEF login
  <1>7. WhitelistKept' /\ DeletionsOK'
    <2>1. CASE \E e \in Emails : AddEmail(e)
      <3>1. PICK e \in Emails : AddEmail(e)
        BY <2>1
      <3>2. IsFiniteSet(whitelist')
        BY <3>1, FS_AddElement DEF AddEmail, AccountsInv, DeletionsOK
      <3> QED BY <3>1, <3>2 DEF AddEmail, AccountsInv, WhitelistKept, DeletionsOK, admin
    <2>2. CASE \E a \in Admins : \E e \in Emails : DeleteBegin(a, e)
      BY <2>2 DEF DeleteBegin, AccountsInv, TypeOK, WhitelistKept, DeletionsOK, stored
    <2>3. ASSUME NEW a \in Admins, DeleteCount(a) PROVE WhitelistKept' /\ DeletionsOK'
      <3>1. apc'[a] = "delete" => \E e, f \in whitelist : e # f
        BY <2>3, TwoCounted DEF DeleteCount, AccountsInv, TypeOK, DeletionsOK
      <3> QED BY <2>3, <3>1 DEF DeleteCount, AccountsInv, TypeOK, WhitelistKept, DeletionsOK, stored
    <2>4. ASSUME NEW a \in Admins, DeleteRow(a) PROVE WhitelistKept' /\ DeletionsOK'
      <3>1. IsFiniteSet(whitelist')
        BY <2>4, FS_RemoveElement, FS_Subset DEF DeleteRow, AccountsInv, DeletionsOK
      <3>2. CASE "whitelist" \in mishaps'
        BY <3>1, <3>2 DEF WhitelistKept, DeletionsOK
      <3>3. CASE "whitelist" \notin mishaps'
        <4>1. "whitelist" \notin mishaps /\ Deleting(a) = {}
          BY <2>4, <3>3 DEF DeleteRow
        <4>2. PICK e, f \in whitelist : e # f
          BY <2>4, <4>1 DEF DeleteRow, AccountsInv, DeletionsOK
        <4>3. whitelist' # {}
          BY <2>4, <4>2 DEF DeleteRow
        <4>4. \A b \in Admins : apc'[b] # "delete"
          BY <2>4, <4>1 DEF DeleteRow, Deleting, AccountsInv, TypeOK
        <4> QED BY <3>1, <4>3, <4>4 DEF WhitelistKept, DeletionsOK
      <3> QED BY <3>2, <3>3
    <2> QED BY <2>1, <2>2, <2>3, <2>4
  <1> QED BY <1>1, <1>5, <1>6, <1>7 DEF AccountsInv, RolesOK, LoginOK, login

\* A request whose read of the secret fails leaves a new one behind.
LEMMA ParseAccounts ==
    ASSUME AccountsInv, NEW a \in Admins, ParseUnread(a)
    PROVE  AccountsInv'
  <1>1. UNCHANGED <<boot, initialized, users, whitelist, lock, login, admin>>
    BY DEF ParseUnread
  <1>2. \/ UNCHANGED <<secret, mishaps>>
        \/ secret' \in {secret, a} /\ mishaps' = mishaps \cup {"secret"}
    BY DEF ParseUnread, GetJWTSecret
  <1>3. TypeOK'
    <2>1. secret' \in Secrets \cup {Nil}
      BY <1>2 DEF AccountsInv, TypeOK, Secrets
    <2>2. mishaps' \subseteq {"secret", "whitelist"}
      <3>1. mishaps \subseteq {"secret", "whitelist"}
        BY DEF AccountsInv, TypeOK
      <3> QED BY <1>2, <3>1
    <2> QED BY <1>1, <2>1, <2>2 DEF AccountsInv, TypeOK, login, admin
  <1>4. TokensVerify'
    BY <1>1, <1>2 DEF AccountsInv, TokensVerify, login
  <1>5. WhitelistKept' /\ DeletionsOK'
    BY <1>1, <1>2, WhitelistUntouched
  <1> QED BY <1>1, <1>3, <1>4, <1>5 DEF AccountsInv, RolesOK, LoginOK, login

\* A login that moves without touching users or is_initialized keeps what is
\* known of the others.
LEMMA OtherLogins ==
    ASSUME AccountsInv, NEW r \in Logins, NEW q \in Logins, q # r,
           UNCHANGED <<users, initialized>>,
           pc'[q] = pc[q], who'[q] = who[q], row'[q] = row[q]
    PROVE  LoginOK(q)'
  BY DEF AccountsInv, LoginOK

\* The steps of a login that leave users and is_initialized alone.
LEMMA QuietAccounts ==
    ASSUME AccountsInv, NEW r \in Logins,
           \/ \E i \in Identities : LoginBegin(r, i)
           \/ TxRead(r) \/ TxReadFails(r) \/ BootstrapFails(r)
           \/ (\E e \in Emails : CheckEmail(r, e)) \/ NotWhitelisted(r)
           \/ FindUser(r) \/ Sign(r)
    PROVE  AccountsInv'
  <1> USE DEF Goto, stored, login, admin
  <1>1. UNCHANGED <<users, initialized>>
    BY DEF LoginBegin, TxRead, TxReadFails, BootstrapFails, CheckEmail, NotWhitelisted,
           FindUser, Sign
  <1>2. TypeOK'
    <2>1. CASE \E i \in Identities : LoginBegin(r, i)
      BY <2>1, AccountAssumption DEF AccountsInv, TypeOK, LoginBegin
    <2>2. CASE TxRead(r)
      <3>1. Verified[who[r]] \subseteq Emails
        BY <2>2, AccountAssumption DEF AccountsInv, LoginOK, TxRead
      <3>2. left' \in [Logins -> SUBSET Emails]
        BY <2>2, <3>1 DEF AccountsInv, TypeOK, TxRead
      <3>3. /\ lock' \in Logins \cup {Nil}
            /\ \A q \in Logins : pc'[q] = "boot" <=> lock' = q
        BY <2>2, AccountAssumption DEF AccountsInv, TypeOK, TxRead
      <3>4. /\ pc' \in [Logins -> {"idle", "tx", "boot", "check", "find", "create", "save",
                                    "sign", "done"}]
            /\ UNCHANGED <<boot, stored, who, row, token, admin, mishaps>>
        BY <2>2 DEF AccountsInv, TypeOK, TxRead
      <3> QED BY <3>2, <3>3, <3>4 DEF AccountsInv, TypeOK
    <2>3. CASE TxReadFails(r) \/ NotWhitelisted(r)
      <3>1. /\ pc[r] # "boot" /\ pc' = [pc EXCEPT ![r] = "done"]
            /\ UNCHANGED <<boot, stored, lock, who, left, row, token, admin, mishaps>>
        BY <2>3 DEF TxReadFails, NotWhitelisted
      <3> QED BY <3>1 DEF AccountsInv, TypeOK
    <2>4. CASE BootstrapFails(r)
      BY <2>4, AccountAssumption DEF AccountsInv, TypeOK, BootstrapFails
    <2>5. CASE \E e \in Emails : CheckEmail(r, e)
      BY <2>5, AccountAssumption DEF AccountsInv, TypeOK, CheckEmail
    <2>6. CASE FindUser(r)
      BY <2>6, AccountAssumption DEF AccountsInv, TypeOK, LoginOK, FindUser
    <2>7. CASE Sign(r)
      <3>1. PICK k \in Secrets :
               /\ GetJWTSecret(r, k)
               /\ token' = [token EXCEPT ![r] =
                              [user |-> IF row[r] = "zero" THEN Nil ELSE who[r], key |-> k]]
        BY <2>7 DEF Sign
      <3>2. who[r] \in Identities
        BY <2>7 DEF AccountsInv, TypeOK, LoginOK, Sign
      <3>3. token' \in [Logins -> Token \cup {Nil}]
        BY <3>1, <3>2 DEF AccountsInv, TypeOK, Token
      <3>4. secret' \in Secrets \cup {Nil}
        BY <3>1 DEF AccountsInv, TypeOK, GetJWTSecret, Secrets
      <3>5. mishaps' \subseteq {"secret", "whitelist"}
        <4>1. mishaps \subseteq {"secret", "whitelist"}
          BY DEF AccountsInv, TypeOK
        <4> QED BY <3>1, <4>1 DEF GetJWTSecret
      <3> QED BY <2>7, <3>3, <3>4, <3>5, AccountAssumption DEF AccountsInv, TypeOK, Sign
    <2> QED BY <2>1, <2>2, <2>3, <2>4, <2>5, <2>6, <2>7
  <1>3. LoginOK(r)'
    BY DEF AccountsInv, TypeOK, LoginOK, LoginBegin, TxRead, TxReadFails, BootstrapFails,
           CheckEmail, NotWhitelisted, FindUser, Sign
  <1>4. \A q \in Logins : q # r => LoginOK(q)'
    <2> SUFFICES ASSUME NEW q \in Logins, q # r PROVE LoginOK(q)'
      OBVIOUS
    <2>1. pc'[q] = pc[q] /\ who'[q] = who[q] /\ row'[q] = row[q]
      BY DEF AccountsInv, TypeOK, LoginBegin, TxRead, TxReadFails, BootstrapFails,
             CheckEmail, NotWhitelisted, FindUser, Sign
    <2> QED BY <1>1, <2>1, OtherLogins
  <1>5. TokensVerify'
    <2>1. CASE Sign(r)
      BY <2>1 DEF Sign, GetJWTSecret, AccountsInv, TypeOK, TokensVerify
    <2>2. CASE ~Sign(r)
      BY <2>2, TokensUntouched DEF LoginBegin, TxRead, TxReadFails, BootstrapFails, CheckEmail,
             NotWhitelisted, FindUser
    <2> QED BY <2>1, <2>2
  <1>6. WhitelistKept' /\ DeletionsOK'
    <2>1. UNCHANGED <<whitelist, admin>> /\ ("whitelist" \in mishaps' <=> "whitelist" \in mishaps)
      BY DEF LoginBegin, TxRead, TxReadFails, BootstrapFails, CheckEmail, NotWhitelisted,
             FindUser, Sign, GetJWTSecret
    <2> QED BY <1>1, <2>1, WhitelistUntouched
  <1> QED BY <1>1, <1>2, <1>3, <1>4, <1>5, <1>6 DEF AccountsInv, RolesOK

\* The bootstrap: nobody has a row, and no other login is past the transaction
\* or inside it.
LEMMA BootstrapAccounts ==
    ASSUME AccountsInv, NEW r \in Logins, Bootstrap(r)
    PROVE  AccountsInv'
  <1> USE DEF Goto, stored, login, admin
  <1>1. initialized # "true" /\ who[r] \in Identities /\ lock = r
    BY DEF AccountsInv, TypeOK, LoginOK, Bootstrap
  <1>2. TypeOK'
    <2>0. Primary[who[r]] \in Emails
      BY <1>1, AccountAssumption
    <2>a. whitelist \subseteq Emails /\ whitelist' = whitelist \cup {Primary[who[r]]}
      BY DEF AccountsInv, TypeOK, Bootstrap
    <2>1. whitelist' \subseteq Emails
      BY <2>0, <2>a
    <2>2. users' \in [Identities -> {"none", "admin", "superadmin"}]
      BY <1>1 DEF AccountsInv, TypeOK, Bootstrap
    <2>3. lock' = Nil /\ \A q \in Logins : pc'[q] # "boot" /\ q # Nil
      BY <1>1, AccountAssumption DEF AccountsInv, TypeOK, Bootstrap
    <2> QED BY <2>1, <2>2, <2>3 DEF AccountsInv, TypeOK, Bootstrap
  <1>3. RolesOK'
    BY <1>1 DEF AccountsInv, TypeOK, RolesOK, Bootstrap
  <1>4. \A q \in Logins : LoginOK(q)'
    BY <1>1 DEF AccountsInv, TypeOK, LoginOK, Bootstrap
  <1>5. TokensVerify'
    BY TokensUntouched DEF Bootstrap
  <1>6. WhitelistKept' /\ DeletionsOK'
    <2>1. IsFiniteSet(whitelist')
      BY FS_AddElement DEF Bootstrap, AccountsInv, DeletionsOK
    <2> QED BY <2>1 DEF Bootstrap, AccountsInv, WhitelistKept, DeletionsOK
  <1> QED BY <1>2, <1>3, <1>4, <1>5, <1>6 DEF AccountsInv

\* Create inserts a row only where there was none, so nobody is about to save
\* that row, and the new role is "admin".
LEMMA CreateAccounts ==
    ASSUME AccountsInv, NEW r \in Logins, CreateUser(r)
    PROVE  AccountsInv'
  <1> USE DEF Goto, stored, login, admin
  <1>1. initialized = "true" /\ initialized' = "true" /\ who[r] \in Identities
    BY DEF AccountsInv, LoginOK, CreateUser
  <1>2. TypeOK'
    BY <1>1, AccountAssumption DEF AccountsInv, TypeOK, CreateUser
  <1>3. \A i \in Identities : users[i] # "none" => users'[i] = users[i]
    BY DEF AccountsInv, TypeOK, CreateUser
  <1>4. \A i \in Identities : users'[i] = "superadmin" <=> users[i] = "superadmin"
    BY <1>1 DEF AccountsInv, TypeOK, CreateUser
  <1>5. RolesOK'
    BY <1>1, <1>4 DEF AccountsInv, RolesOK
  <1>6. \A q \in Logins : LoginOK(q)'
    BY <1>1, <1>3 DEF AccountsInv, TypeOK, LoginOK, CreateUser
  <1>7. TokensVerify' /\ WhitelistKept' /\ DeletionsOK'
    BY <1>1, TokensUntouched, WhitelistUntouched DEF CreateUser
  <1> QED BY <1>2, <1>5, <1>6, <1>7 DEF AccountsInv

\* Save writes back the role the row still has.
LEMMA SaveAccounts ==
    ASSUME AccountsInv, NEW r \in Logins, SaveUser(r)
    PROVE  AccountsInv' /\ users' = users
  <1> USE DEF Goto, stored, login, admin
  <1>1. users' = users
    BY DEF AccountsInv, TypeOK, LoginOK, SaveUser
  <1>2. TypeOK'
    BY <1>1, AccountAssumption DEF AccountsInv, TypeOK, SaveUser
  <1>3. \A q \in Logins : LoginOK(q)'
    BY <1>1 DEF AccountsInv, TypeOK, LoginOK, SaveUser
  <1>4. TokensVerify' /\ WhitelistKept' /\ DeletionsOK'
    BY TokensUntouched, WhitelistUntouched DEF SaveUser
  <1> QED BY <1>1, <1>2, <1>3, <1>4 DEF AccountsInv, RolesOK, SaveUser

\* One case per group of actions.
LEMMA NextAccounts == AccountsInv /\ [Next]_vars => AccountsInv'
  <1> SUFFICES ASSUME AccountsInv, [Next]_vars PROVE AccountsInv'
    OBVIOUS
  <1>1. CASE UNCHANGED vars
    BY <1>1 DEF AccountsInv, TypeOK, RolesOK, LoginOK, TokensVerify, WhitelistKept, DeletionsOK,
                vars, stored, login, admin
  <1>2. CASE \E p \in Replicas : SeedInit(p) \/ SeedLook(p) \/ SeedInsert(p)
    BY <1>2, SeedAccounts
  <1>3. CASE \/ \E e \in Emails : AddEmail(e) \/ \E a \in Admins : DeleteBegin(a, e)
             \/ \E a \in Admins : DeleteCount(a) \/ DeleteRow(a)
    BY <1>3, WhitelistAccounts
  <1>4. CASE \E r \in Logins : LoginStep(r) \/ \E i \in Identities : LoginBegin(r, i)
    BY <1>4, QuietAccounts, BootstrapAccounts, CreateAccounts, SaveAccounts DEF LoginStep
  <1>5. CASE \E a \in Admins : ParseUnread(a)
    BY <1>5, ParseAccounts
  <1> QED BY <1>1, <1>2, <1>3, <1>4, <1>5 DEF Next

\* The invariant holds of every reachable state.
THEOREM AccountsInvariant == Spec => []AccountsInv
  <1>1. Init => AccountsInv BY InitAccounts
  <1>2. AccountsInv /\ [Next]_vars => AccountsInv' BY NextAccounts
  <1> QED BY <1>1, <1>2, PTL DEF Spec

\* Type correctness of the accounts' state.
THEOREM AccountsTypeCorrect == Spec => []TypeOK
  <1>1. AccountsInv => TypeOK BY DEF AccountsInv
  <1> QED BY <1>1, AccountsInvariant, PTL

\* handleOAuthLoginSuccess makes exactly one superadmin, however many first
\* logins race and fail on however many replicas.
THEOREM AccountsOneSuperadmin == Spec => []OneSuperadmin
  <1>1. AccountsInv => OneSuperadmin
    <2> SUFFICES ASSUME AccountsInv PROVE OneSuperadmin
      OBVIOUS
    <2>1. CASE initialized # "true"
      <3>1. Superadmins = {}
        BY <2>1 DEF AccountsInv, RolesOK, Superadmins
      <3> QED BY <2>1, <3>1, FS_EmptySet DEF OneSuperadmin
    <2>2. CASE initialized = "true"
      <3>1. PICK i \in Identities : \A j \in Identities : users[j] = "superadmin" <=> j = i
        BY <2>2 DEF AccountsInv, RolesOK
      <3>2. Superadmins = {i}
        BY <3>1 DEF Superadmins
      <3> QED BY <2>2, <3>2, FS_Singleton DEF OneSuperadmin
    <2> QED BY <2>1, <2>2
  <1> QED BY <1>1, AccountsInvariant, PTL

\* Replicas that start never invalidate a token that was issued.
THEOREM AccountsTokensVerify == Spec => []TokensVerify
  <1>1. AccountsInv => TokensVerify BY DEF AccountsInv
  <1> QED BY <1>1, AccountsInvariant, PTL

\* A deletion that overlaps with no other leaves the whitelist with an address.
THEOREM AccountsWhitelistKept == Spec => []WhitelistKept
  <1>1. AccountsInv => WhitelistKept BY DEF AccountsInv
  <1> QED BY <1>1, AccountsInvariant, PTL

\* No step takes the role of the superadmin away: a Save writes back the role
\* that is in the row, a Create only inserts.
THEOREM AccountsSuperadminKept == Spec => SuperadminKeepsRole
  <1>1. AccountsInv /\ [Next]_vars
          => [\A i \in Identities : users[i] = "superadmin" => users'[i] = "superadmin"]_vars
    <2> SUFFICES ASSUME AccountsInv, Next, NEW i \in Identities, users[i] = "superadmin"
                 PROVE  users'[i] = "superadmin"
      BY DEF vars, stored
    <2>1. CASE \E p \in Replicas : SeedInit(p) \/ SeedLook(p) \/ SeedInsert(p)
      BY <2>1 DEF SeedInit, SeedLook, SeedInsert, stored
    <2>2. CASE \/ \E e \in Emails : AddEmail(e) \/ \E a \in Admins : DeleteBegin(a, e)
               \/ \E a \in Admins : DeleteCount(a) \/ DeleteRow(a)
      BY <2>2 DEF AddEmail, DeleteBegin, DeleteCount, DeleteRow, stored
    <2>3. ASSUME NEW r \in Logins, LoginStep(r) PROVE users'[i] = "superadmin"
      <3>1. CASE SaveUser(r) BY <3>1, SaveAccounts
      <3>2. CASE CreateUser(r) BY <3>2 DEF CreateUser, AccountsInv, TypeOK
      <3>3. CASE Bootstrap(r) BY <3>3 DEF Bootstrap, AccountsInv, TypeOK
      <3>4. CASE \/ TxRead(r) \/ TxReadFails(r) \/ BootstrapFails(r)
                 \/ (\E e \in Emails : CheckEmail(r, e)) \/ NotWhitelisted(r)
                 \/ FindUser(r) \/ Sign(r)
        BY <3>4 DEF TxRead, TxReadFails, BootstrapFails, CheckEmail, NotWhitelisted,
                    FindUser, Sign, stored
      <3> QED BY <2>3, <3>1, <3>2, <3>3, <3>4 DEF LoginStep
    <2>4. ASSUME NEW r \in Logins, NEW j \in Identities, LoginBegin(r, j)
          PROVE  users'[i] = "superadmin"
      BY <2>4 DEF LoginBegin, stored
    <2>5. CASE \E a \in Admins : ParseUnread(a)
      BY <2>5 DEF ParseUnread
    <2> QED BY <2>1, <2>2, <2>3, <2>4, <2>5 DEF Next
  <1> QED BY <1>1, AccountsInvariant, PTL DEF Spec, SuperadminKeepsRole

-----------------------------------------------------------------------------
(* The OAuth client of HostSettings                                            *)

\* The rows of a new database are as meant: there are none.
LEMMA SettingsStart == SettingsInit => SettingsInv
  <1> SUFFICES ASSUME SettingsInit PROVE SettingsInv
    OBVIOUS
  <1>1. NoClient \in Client /\ NoClient \in [Keys -> Editors \cup {Absent}] /\ NoClient["secret"] = Absent
    BY DEF NoClient, Client, Keys
  <1>2. SettingsTypeOK /\ TodoSubmitted
    BY <1>1 DEF SettingsInit, SettingsTypeOK, TodoSubmitted
  <1>3. AsMeant
    BY DEF SettingsInit, AsMeant, RowFollows, HandFollows
  <1> QED BY <1>1, <1>2, <1>3, SettingsAssumption DEF SettingsInit, SettingsInv

\* Types of what the wizard and the settings page leave.
LEMMA SettingsTypes == SettingsTypeOK /\ [SettingsNext]_settings => SettingsTypeOK'
  <1> SUFFICES ASSUME SettingsTypeOK, [SettingsNext]_settings PROVE SettingsTypeOK'
    OBVIOUS
  <1> USE DEF SettingsTypeOK
  <1>1. CASE UNCHANGED settings
    BY <1>1 DEF settings
  <1>2. ASSUME NEW a \in Editors, SetupBegin(a) PROVE SettingsTypeOK'
    <2>1. OwnClient(a) \in Client /\ OwnClient(a) \in [Keys -> Editors \cup {Absent}]
      BY DEF OwnClient, Client
    <2> QED BY <1>2, <2>1 DEF SetupBegin
  <1>3. ASSUME NEW a \in Editors, FormGet(a) PROVE SettingsTypeOK'
    <2>1. PICK v \in Shown(oauth["secret"]) : form' = [form EXCEPT ![a] = [oauth EXCEPT !["secret"] = v]]
      BY <1>3 DEF FormGet
    <2>2. oauth["secret"] \in Editors \cup {Absent, "masked"}
      BY DEF Client, Keys
    <2>3. v \in Editors \cup {Absent, "masked"}
      BY <2>2 DEF Shown
    <2>4. [oauth EXCEPT !["secret"] = v] \in Client
      BY <2>3 DEF Client, Keys
    <2> QED BY <1>3, <2>1, <2>4 DEF FormGet
  <1>4. ASSUME NEW a \in Editors, NEW sent \in SUBSET Keys, NEW changed \in SUBSET Keys,
               FormSubmit(a, sent, changed)
        PROVE  SettingsTypeOK'
    <2>1. [k \in Keys |-> IF k \in changed THEN a ELSE form[a][k]] \in Client
      BY DEF Client
    <2>2. meant' \in [Keys -> Editors \cup {Absent}]
      BY <1>4 DEF FormSubmit
    <2> QED BY <1>4, <2>1, <2>2 DEF FormSubmit
  <1>5. ASSUME NEW a \in Editors, NEW k \in Keys, WriteKey(a, k) PROVE SettingsTypeOK'
    <2>1. form[a][k] \in Editors \cup {Absent, "masked"}
      BY DEF Client
    <2>2. oauth' \in Client
      BY <1>5, <2>1 DEF WriteKey, Client
    <2>3. todo' \in [Editors -> SUBSET Keys] /\ torn' \in BOOLEAN
      BY <1>5 DEF WriteKey
    <2> QED BY <1>5, <2>2, <2>3 DEF WriteKey
  <1>6. ASSUME NEW a \in Editors, WriteEnd(a) PROVE SettingsTypeOK'
    <2>1. NoClient \in Client
      BY DEF NoClient, Client
    <2> QED BY <1>6, <2>1 DEF WriteEnd
  <1> QED BY <1>1, <1>2, <1>3, <1>4, <1>5, <1>6 DEF SettingsNext

\* A request that has rows to write has been submitted.
LEMMA SettingsTodo == SettingsTypeOK /\ TodoSubmitted /\ [SettingsNext]_settings => TodoSubmitted'
  BY DEF SettingsTypeOK, TodoSubmitted, settings, SettingsNext, SetupBegin, FormGet,
     FormSubmit, WriteKey, WriteEnd

\* A step of a that writes no row keeps it as meant, if for every key a now means it
\* and will write it, or meant and a's own part in it are as before.
LEMMA NothingWritten ==
    ASSUME AsMeant, ~torn, NEW a \in Editors, UNCHANGED oauth, NEW k \in Keys,
           \A b \in Editors \ {a} : spc'[b] = spc[b] /\ form'[b] = form[b] /\ todo'[b] = todo[b],
           \/ Will(a, k)'
           \/ meant'[k] = meant[k] /\ (Will(a, k) => Will(a, k)') /\ HandFollows(a, k)'
    PROVE  RowFollows(k)' /\ \A b \in Editors : HandFollows(b, k)'
  <1>1. RowFollows(k) /\ \A b \in Editors : HandFollows(b, k)
    BY DEF AsMeant
  <1>2. CASE Will(a, k)'
    <2>1. form'[a][k] = meant'[k]
      BY <1>2 DEF Will
    <2>2. RowFollows(k)'
      BY <1>2 DEF RowFollows
    <2>3. HandFollows(a, k)'
      BY <2>1 DEF HandFollows
    <2>4. \A b \in Editors \ {a} : HandFollows(b, k)'
      BY <1>2 DEF HandFollows
    <2> QED BY <2>2, <2>3, <2>4
  <1>3. CASE meant'[k] = meant[k] /\ (Will(a, k) => Will(a, k)') /\ HandFollows(a, k)'
    <2>1. \A b \in Editors : Will(b, k) => Will(b, k)'
      BY <1>3 DEF Will
    <2>2. RowFollows(k)'
      BY <1>1, <1>3, <2>1 DEF RowFollows
    <2>3. ASSUME NEW b \in Editors \ {a} PROVE HandFollows(b, k)'
      BY <1>1, <1>3, <2>1 DEF HandFollows
    <2> QED BY <1>3, <2>2, <2>3
  <1> QED BY <1>2, <1>3

\* Every step keeps the rows as meant, or a request on its way to make them so.
LEMMA SettingsStep == SettingsInv /\ [SettingsNext]_settings => SettingsInv'
  <1> SUFFICES ASSUME SettingsInv, [SettingsNext]_settings PROVE SettingsInv'
    OBVIOUS
  <1>0. /\ SettingsTypeOK /\ SettingsTypeOK' /\ TodoSubmitted /\ TodoSubmitted'
        /\ AsMeant /\ oauth["secret"] # "masked"
    BY SettingsTypes, SettingsTodo DEF SettingsInv
  <1>1. CASE UNCHANGED settings
    <2>1. AsMeant'
      BY <1>0, <1>1 DEF settings, AsMeant, RowFollows, HandFollows, Will
    <2> QED BY <1>0, <1>1, <2>1 DEF settings, SettingsInv
  <1>2. ASSUME NEW a \in Editors, SetupBegin(a) PROVE SettingsInv'
    <2>1. /\ UNCHANGED <<oauth, torn>> /\ \A k \in Keys : Will(a, k)'
          /\ \A b \in Editors \ {a} : spc'[b] = spc[b] /\ form'[b] = form[b] /\ todo'[b] = todo[b]
      BY <1>0, <1>2 DEF SetupBegin, SettingsTypeOK, OwnClient, Will
    <2>2. AsMeant'
      BY <1>0, <2>1, NothingWritten DEF AsMeant
    <2> QED BY <1>0, <2>1, <2>2 DEF SettingsInv
  <1>3. ASSUME NEW a \in Editors, FormGet(a) PROVE SettingsInv'
    <2>1. PICK v \in Shown(oauth["secret"]) : form' = [form EXCEPT ![a] = [oauth EXCEPT !["secret"] = v]]
      BY <1>3 DEF FormGet
    <2>2. /\ UNCHANGED <<oauth, torn, meant, todo>> /\ spc[a] = "idle" /\ todo[a] = {}
          /\ \A b \in Editors \ {a} : spc'[b] = spc[b] /\ form'[b] = form[b]
          /\ form'[a] = [oauth EXCEPT !["secret"] = v]
      BY <1>0, <1>3, <2>1 DEF FormGet, SettingsTypeOK, TodoSubmitted
    <2>3. ASSUME NEW k \in Keys PROVE form'[a][k] = oauth[k] \/ (k = "secret" /\ form'[a][k] = "masked")
      BY <1>0, <2>2 DEF SettingsTypeOK, Client, Keys, Shown
    <2>4. ASSUME ~torn, NEW k \in Keys PROVE HandFollows(a, k)'
      <3>1. RowFollows(k)
        BY <1>0, <2>4 DEF AsMeant
      <3>2. ASSUME NEW b \in Editors, Will(b, k) PROVE b # a /\ Will(b, k)'
        BY <2>2, <3>2 DEF Will
      <3> QED BY <2>2, <2>3, <3>1, <3>2 DEF RowFollows, HandFollows
    <2>5. ASSUME NEW k \in Keys PROVE ~Will(a, k)
      BY <2>2 DEF Will
    <2>6. AsMeant'
      BY <1>0, <2>2, <2>4, <2>5, NothingWritten DEF AsMeant
    <2> QED BY <1>0, <2>2, <2>6 DEF SettingsInv
  <1>4. ASSUME NEW a \in Editors, NEW sent \in SUBSET Keys, NEW changed \in SUBSET Keys,
               FormSubmit(a, sent, changed)
        PROVE  SettingsInv'
    <2>1. /\ UNCHANGED <<oauth, torn>> /\ spc[a] = "form" /\ todo[a] = {}
          /\ \A b \in Editors \ {a} : spc'[b] = spc[b] /\ form'[b] = form[b] /\ todo'[b] = todo[b]
      BY <1>0, <1>4 DEF FormSubmit, SettingsTypeOK, TodoSubmitted
    <2>2. \A k \in changed : k \in todo'[a] /\ form'[a][k] = a /\ meant'[k] = a
      BY <1>0, <1>4 DEF FormSubmit, SettingsTypeOK
    <2>3. \A k \in Keys \ changed : form'[a][k] = form[a][k] /\ meant'[k] = meant[k]
      BY <1>0, <1>4 DEF FormSubmit, SettingsTypeOK
    <2>4. ASSUME ~torn, NEW k \in Keys
          PROVE  RowFollows(k)' /\ \A b \in Editors : HandFollows(b, k)'
      <3>1. CASE k \in changed
        <4>1. Will(a, k)'
          BY <2>2, <3>1 DEF Will
        <4> QED BY <1>0, <2>1, <2>4, <4>1, NothingWritten
      <3>2. CASE k \notin changed
        <4>1. \A b \in Editors \ {a} : Will(b, k) => Will(b, k)'
          BY <2>1, <2>3, <3>2 DEF Will
        <4>2. HandFollows(a, k)
          BY <1>0, <2>4 DEF AsMeant
        <4>3. HandFollows(a, k)'
          BY <2>1, <2>3, <3>2, <4>1, <4>2 DEF HandFollows
        <4>4. ~Will(a, k)
          BY <2>1 DEF Will
        <4> QED BY <1>0, <2>1, <2>3, <2>4, <3>2, <4>3, <4>4, NothingWritten
      <3> QED BY <3>1, <3>2
    <2>5. AsMeant'
      BY <2>1, <2>4 DEF AsMeant
    <2> QED BY <1>0, <2>1, <2>5 DEF SettingsInv
  <1>5. ASSUME NEW a \in Editors, NEW k \in Keys, WriteKey(a, k) PROVE SettingsInv'
    <2>1. /\ UNCHANGED <<spc, form, meant>> /\ k \in todo[a]
          /\ todo'[a] = todo[a] \ {k} /\ \A b \in Editors \ {a} : todo'[b] = todo[b]
      BY <1>0, <1>5 DEF WriteKey, SettingsTypeOK
    <2>2. meant[k] # "masked"
      BY <1>0, SettingsAssumption DEF SettingsTypeOK
    <2>3. CASE ~Writable(k, form[a][k]) /\ UNCHANGED <<oauth, torn>>
      <3>1. ~Will(a, k)
        BY <2>2, <2>3 DEF Will, Writable
      <3>2. \A b \in Editors, l \in Keys : Will(b, l) => Will(b, l)'
        BY <2>1, <3>1 DEF Will
      <3>3. AsMeant'
        BY <1>0, <2>1, <2>3, <3>2 DEF AsMeant, RowFollows, HandFollows
      <3> QED BY <1>0, <2>3, <3>3 DEF SettingsInv
    <2>4. CASE torn' = TRUE /\ UNCHANGED oauth
      BY <1>0, <2>4 DEF SettingsInv, AsMeant
    <2>5. CASE /\ Writable(k, form[a][k])
               /\ oauth' = [oauth EXCEPT ![k] = form[a][k]]
               /\ torn' = (torn \/ Editing(a) # {})
      <3>1. oauth'[k] = form[a][k] /\ \A l \in Keys \ {k} : oauth'[l] = oauth[l]
        BY <1>0, <2>5 DEF SettingsTypeOK, Client
      <3>2. oauth'["secret"] # "masked"
        BY <1>0, <2>5, <3>1 DEF Writable, Keys
      <3>3. ASSUME ~torn' PROVE AsMeant'
        <4>1. \A b \in Editors \ {a} : spc[b] = "idle" /\ todo[b] = {}
          BY <1>0, <2>5, <3>3 DEF Editing, TodoSubmitted
        <4>2. \A b \in Editors \ {a}, l \in Keys : ~Will(b, l) /\ HandFollows(b, l)'
          BY <2>1, <4>1 DEF Will, HandFollows
        <4>3. \A l \in Keys : RowFollows(l) /\ HandFollows(a, l)
          BY <1>0, <2>5, <3>3 DEF AsMeant
        <4>4. \A l \in todo[a] : form[a][l] = meant[l] \/ (l = "secret" /\ form[a][l] = "masked")
          BY <1>0, <4>2, <4>3 DEF HandFollows, SettingsTypeOK
        <4>5. form[a][k] = meant[k]
          BY <2>1, <2>5, <4>4 DEF Writable
        <4>6. \A l \in Keys : RowFollows(l)'
          BY <2>1, <3>1, <4>2, <4>3, <4>5 DEF RowFollows, Will
        <4>7. spc[a] # "form"
          BY <1>0, <2>1 DEF TodoSubmitted
        <4>8. \A l \in Keys : HandFollows(a, l)'
          BY <2>1, <4>4, <4>7 DEF HandFollows
        <4> QED BY <4>2, <4>6, <4>8 DEF AsMeant
      <3>4. AsMeant'
        BY <3>3 DEF AsMeant
      <3> QED BY <1>0, <3>2, <3>4 DEF SettingsInv
    <2> QED BY <1>5, <2>3, <2>4, <2>5 DEF WriteKey
  <1>6. ASSUME NEW a \in Editors, WriteEnd(a) PROVE SettingsInv'
    <2>1. /\ UNCHANGED <<oauth, todo, meant, torn>> /\ spc'[a] = "idle" /\ todo[a] = {}
          /\ \A b \in Editors \ {a} : spc'[b] = spc[b] /\ form'[b] = form[b]
      BY <1>0, <1>6 DEF WriteEnd, SettingsTypeOK
    <2>2. ASSUME NEW k \in Keys PROVE ~Will(a, k) /\ HandFollows(a, k)'
      BY <2>1 DEF Will, HandFollows
    <2>3. AsMeant'
      BY <1>0, <2>1, <2>2, NothingWritten DEF AsMeant
    <2> QED BY <1>0, <2>1, <2>3 DEF SettingsInv
  <1> QED BY <1>1, <1>2, <1>3, <1>4, <1>5, <1>6 DEF SettingsNext

\* saveSetupConfig and adminSaveSettings leave each row as the last request to
\* change it meant, and store no masked secret, whatever the number of editors,
\* unless two of them overlapped or a write failed.
THEOREM SettingsClientAsMeant == SettingsSpec => []ClientAsMeant
  <1>1. SettingsInv => ClientAsMeant
    <2> SUFFICES ASSUME SettingsInv, ~torn, \A a \in Editors : spc[a] \notin {"put", "setup"}
                 PROVE  oauth = meant
      BY DEF SettingsInv, ClientAsMeant
    <2>1. \A a \in Editors, k \in Keys : ~Will(a, k)
      BY DEF SettingsInv, TodoSubmitted, Will
    <2>2. \A k \in Keys : oauth[k] = meant[k]
      BY <2>1 DEF SettingsInv, AsMeant, RowFollows
    <2> QED BY <2>2 DEF SettingsInv, SettingsTypeOK, Client
  <1> QED BY <1>1, SettingsStart, SettingsStep, PTL DEF SettingsSpec
=============================================================================
