---------------------------- MODULE ProxySessions ----------------------------
(***************************************************************************)
(* The in-memory store of short-lived proxy credentials                    *)
(* (host/internal/proxy/session.go, type Store).                           *)
(*                                                                         *)
(* Every method reads the clock BEFORE it takes the store's mutex, so each *)
(* call is two steps: XBegin reads the time (and draws the random values), *)
(* XLocked is the critical section, which may run arbitrarily later with a *)
(* time that is stale by then.                                             *)
(*                                                                         *)
(* A *Session pointer is a handle of Handles; the two maps of the store    *)
(* hold handles, and "cur == sess" is equality of handles.  A password is  *)
(* random and unique to its session: presenting it is presenting the       *)
(* handle, and any other string is NoPassword.                             *)
(***************************************************************************)
EXTENDS Naturals

CONSTANTS
    Handles,      \* *Session pointers: the credentials that are ever issued
    Ids,          \* values of Session.ID
    Users,        \* values of Session.Username
    Agents,       \* probes a credential may be bound to
    Callers,      \* goroutines that call the store
    SessionTTL,   \* lifetime of a credential, in clock ticks
    MaxClock,     \* bound: last clock value
    Nil           \* the nil pointer, the absent argument, a wrong password

ASSUME StoreAssumption ==
    /\ SessionTTL \in Nat /\ MaxClock \in Nat
    /\ Nil \notin Handles \cup Ids \cup Users \cup Agents

VARIABLES
    clock,    \* time.Now()
    sess,     \* the sessions allocated so far, by handle
    byID,     \* Store.byID
    byUser,   \* Store.byUser
    call,     \* the call each goroutine is in
    reply     \* what its last call returned

vars == <<clock, sess, byID, byUser, call, reply>>

Session == [id : Ids, user : Users, agent : Agents, expires : Nat, revoked : BOOLEAN]

Call == [op    : {"idle", "issue", "authenticate", "list", "revoke"},
         now   : Nat,                \* s.now(), read before the lock
         id    : Ids \cup {Nil},
         user  : Users \cup {Nil},
         pass  : Handles \cup {Nil},
         agent : Agents \cup {Nil}]

\* objs is the session returned, or the sessions listed.
Reply == [kind : {"none", "refused", "issued", "session", "listing", "revoked"},
          objs : SUBSET Handles]

Idle == [op |-> "idle", now |-> 0, id |-> Nil, user |-> Nil, pass |-> Nil, agent |-> Nil]

Return(p, kind, objs) ==
    /\ reply' = [reply EXCEPT ![p] = [kind |-> kind, objs |-> objs]]
    /\ call' = [call EXCEPT ![p] = Idle]

\* The call a method is in once it has read the clock.
Pending(op, id, user, pass, agent) ==
    [op |-> op, now |-> clock, id |-> id, user |-> user, pass |-> pass, agent |-> agent]

Begin(p, c) ==
    /\ call[p].op = "idle"
    /\ call' = [call EXCEPT ![p] = c]
    /\ reply' = [reply EXCEPT ![p] = [kind |-> "none", objs |-> {}]]
    /\ UNCHANGED <<clock, sess, byID, byUser>>

-----------------------------------------------------------------------------
(* "sess.revoked || !now.Before(sess.ExpiresAt)"                           *)
DeadAt(h, now) == sess[h].revoked \/ now >= sess[h].expires

\* Mutant: purges a credential one tick before it expires.
PurgedEarly(now) == {h \in DOMAIN sess : byID[sess[h].id] = h /\ DeadAt(h, now + 1)}

\* The sessions purgeLocked(now) finds in byID and deletes.
PurgedAt(now) == {h \in DOMAIN sess : byID[sess[h].id] = h /\ DeadAt(h, now)}

\* Mutant: the purge forgets the username index.
UsersUntouched(D) == byUser

\* The two maps without the sessions of D: delete(byID, id), and
\* delete(byUser, username) only where byUser still points at that session.
IDsWithout(D) == [i \in Ids |-> IF byID[i] \in D THEN Nil ELSE byID[i]]
UsersWithout(D) == [u \in Users |-> IF /\ byUser[u] \in D
                                       /\ sess[byUser[u]].user = u
                                    THEN Nil ELSE byUser[u]]

Tick ==
    /\ clock < MaxClock
    /\ clock' = clock + 1
    /\ UNCHANGED <<sess, byID, byUser, call, reply>>

-----------------------------------------------------------------------------
(* Issue                                                                   *)
IssueBegin(p, a, i) == Begin(p, Pending("issue", i, Nil, Nil, a))

\* Purge, refuse a taken id, then up to five random usernames: the loop ends
\* with a free one, or fails (five collisions, or the random source failing).
IssueLocked(p) ==
    /\ call[p].op = "issue"
    /\ LET now    == call[p].now
           idMap  == IDsWithout(PurgedAt(now))
           usrMap == UsersWithout(PurgedAt(now))
           id     == call[p].id
       IN \/ /\ idMap[id] = Nil
             /\ \E h \in Handles \ DOMAIN sess, u \in {v \in Users : usrMap[v] = Nil} :
                   /\ sess' = [g \in DOMAIN sess \cup {h} |->
                                 IF g = h THEN [id |-> id, user |-> u,
                                                agent |-> call[p].agent,
                                                expires |-> now + SessionTTL,
                                                revoked |-> FALSE]
                                 ELSE sess[g]]
                   /\ byID' = [idMap EXCEPT ![id] = h]
                   /\ byUser' = [usrMap EXCEPT ![u] = h]
                   /\ Return(p, "issued", {h})
          \/ /\ byID' = idMap /\ byUser' = usrMap
             /\ Return(p, "refused", {})
             /\ UNCHANGED sess
    /\ UNCHANGED clock

-----------------------------------------------------------------------------
(* Authenticate                                                            *)
AuthenticateBegin(p, u, w) == Begin(p, Pending("authenticate", Nil, u, w, Nil))

\* The session a locked Authenticate accepts, if any.
Accepted(p) == {h \in DOMAIN sess : /\ byUser[call[p].user] = h
                                    /\ ~DeadAt(h, call[p].now)
                                    /\ call[p].pass = h}

AuthenticateLocked(p) ==
    /\ call[p].op = "authenticate"
    /\ Return(p, IF Accepted(p) = {} THEN "refused" ELSE "session", Accepted(p))
    /\ UNCHANGED <<clock, sess, byID, byUser>>

-----------------------------------------------------------------------------
(* List                                                                    *)
ListBegin(p) == Begin(p, Pending("list", Nil, Nil, Nil, Nil))

ListLocked(p) ==
    /\ call[p].op = "list"
    /\ byID' = IDsWithout(PurgedAt(call[p].now))
    /\ byUser' = UsersWithout(PurgedAt(call[p].now))
    /\ Return(p, "listing", {h \in DOMAIN sess : \E i \in Ids : byID'[i] = h})
    /\ UNCHANGED <<clock, sess>>

-----------------------------------------------------------------------------
(* Revoke                                                                  *)
RevokeBegin(p, i) == Begin(p, Pending("revoke", i, Nil, Nil, Nil))

\* Expired or unknown ids are refused, and nothing is deleted.
Revocable(p) == /\ byID[call[p].id] # Nil
                /\ ~DeadAt(byID[call[p].id], call[p].now)

\* Mutant: marks a copy of the session: the maps keep the stored one, which
\* is not flagged.
RevokeCopy(p) ==
    /\ call[p].op = "revoke"
    /\ LET h == byID[call[p].id]
       IN \/ /\ ~Revocable(p)
             /\ Return(p, "refused", {})
             /\ UNCHANGED <<sess, byID, byUser>>
          \/ /\ Revocable(p)
             /\ Return(p, "revoked", {h})
             /\ UNCHANGED <<sess, byID, byUser>>
    /\ UNCHANGED clock

RevokeLocked(p) ==
    /\ call[p].op = "revoke"
    /\ LET h == byID[call[p].id]
       IN \/ /\ ~Revocable(p)
             /\ Return(p, "refused", {})
             /\ UNCHANGED <<sess, byID, byUser>>
          \/ /\ Revocable(p)
             /\ sess' = [sess EXCEPT ![h].revoked = TRUE]
             /\ byID' = [byID EXCEPT ![call[p].id] = Nil]
             /\ byUser' = [byUser EXCEPT ![sess[h].user] = IF @ = h THEN Nil ELSE @]
             /\ Return(p, "revoked", {h})
    /\ UNCHANGED clock

-----------------------------------------------------------------------------
Init ==
    /\ clock = 0
    /\ sess = [h \in {} |-> Nil]
    /\ byID = [i \in Ids |-> Nil]
    /\ byUser = [u \in Users |-> Nil]
    /\ call = [p \in Callers |-> Idle]
    /\ reply = [p \in Callers |-> [kind |-> "none", objs |-> {}]]

Next ==
    \/ Tick
    \/ \E p \in Callers :
          \/ \E a \in Agents, i \in Ids : IssueBegin(p, a, i)
          \/ IssueLocked(p)
          \/ \E u \in Users, w \in Handles \cup {Nil} : AuthenticateBegin(p, u, w)
          \/ AuthenticateLocked(p)
          \/ ListBegin(p)
          \/ ListLocked(p)
          \/ \E i \in Ids : RevokeBegin(p, i)
          \/ RevokeLocked(p)

Spec == Init /\ [][Next]_vars

-----------------------------------------------------------------------------
(* Properties                                                              *)

\* Types: the maps point at allocated sessions only, and a reply never holds
\* a nil session.
TypeOK ==
    /\ clock \in Nat
    /\ DOMAIN sess \in SUBSET Handles
    /\ sess \in [DOMAIN sess -> Session]
    /\ byID \in [Ids -> DOMAIN sess \cup {Nil}]
    /\ byUser \in [Users -> DOMAIN sess \cup {Nil}]
    /\ call \in [Callers -> Call]
    /\ reply \in [Callers -> Reply]

\* The two maps always index the same sessions, each under its own id and its
\* own username, although Issue, Revoke and purgeLocked update them one after
\* the other and compare pointers before they delete from byUser.
IndexesAgree ==
    /\ \A i \in Ids : byID[i] # Nil =>
          sess[byID[i]].id = i /\ byUser[sess[byID[i]].user] = byID[i]
    /\ \A u \in Users : byUser[u] # Nil =>
          sess[byUser[u]].user = u /\ byID[sess[byUser[u]].id] = byUser[u]

\* A credential that is neither revoked nor expired is still in both maps: no
\* purge, made with a time read before it waited for the lock, and no reuse of
\* an id or a username evicts it.
LiveCredentialsKept ==
    \A h \in DOMAIN sess :
        ~DeadAt(h, clock) => byID[sess[h].id] = h /\ byUser[sess[h].user] = h

\* Revoke is immediate and final: once it has told a caller that a credential
\* is revoked, no Authenticate, List or Revoke of any goroutine, in flight or
\* later, returns that credential.
RevocationFinal ==
    [][\A p, q \in Callers, h \in Handles :
          (reply[q].kind = "revoked" /\ h \in reply[q].objs /\ h \in reply'[p].objs)
             => h \in reply[p].objs]_vars

\* List, under the lock, returns every credential that can authenticate at
\* that moment (a stale clock never hides one), and nothing that was revoked
\* or had expired when the call began.
ListExact ==
    [][\A p \in Callers : (call[p].op = "list" /\ reply'[p].kind = "listing") =>
          /\ {h \in DOMAIN sess : ~DeadAt(h, clock)} \subseteq reply'[p].objs
          /\ \A h \in reply'[p].objs : ~DeadAt(h, call[p].now)]_vars

-----------------------------------------------------------------------------
(* The inductive invariant behind the theorems of ProxySessions_proofs.    *)

\* A call in flight carries the arguments of its operation, and a time that
\* was read in the past; it has not replied yet.
CallOK ==
    \A p \in Callers :
        /\ call[p].now <= clock
        /\ call[p].op \in {"issue", "revoke"} => call[p].id \in Ids
        /\ call[p].op = "issue" => call[p].agent \in Agents
        /\ call[p].op = "authenticate" => call[p].user \in Users
        /\ call[p].op # "idle" => reply[p].kind = "none"

\* What a Revoke has reported is marked, and what is marked is in no map.
RevokedUnreachable ==
    /\ \A p \in Callers : reply[p].kind = "revoked" =>
          \A h \in reply[p].objs : h \in DOMAIN sess /\ sess[h].revoked
    /\ \A i \in Ids : byID[i] # Nil => ~sess[byID[i]].revoked
    /\ \A u \in Users : byUser[u] # Nil => ~sess[byUser[u]].revoked

StoreInv ==
    /\ TypeOK
    /\ CallOK
    /\ IndexesAgree
    /\ LiveCredentialsKept
    /\ RevokedUnreachable
=============================================================================
