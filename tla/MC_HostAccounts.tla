-------------------------- MODULE MC_HostAccounts --------------------------
(* Two replicas and two logins, of one identity or of two: one has a second
   verified address, the other's e-mail is none of its verified ones; two
   deletions.  The settings share no state with
   the accounts: they are edited, by two requests, on a Host whose accounts
   are at rest.                                                              *)
EXTENDS HostAccounts, HostSettings, TLC

CONSTANTS p1, p2, g1, g2, d1, d2, i1, i2, e1, e2, s1, s2

VerifiedEmails == (i1 :> {e1, e2}) @@ (i2 :> {e1})
PrimaryEmail == (i1 :> e1) @@ (i2 :> e2)

HostSymmetry ==
    Permutations(Replicas) \cup Permutations(Logins) \cup Permutations(Admins) \cup Permutations(Editors)

AtRest == \A p \in Replicas : boot[p] = "down"
HostInit == Init /\ SettingsInit
HostNext ==
    \/ Next /\ UNCHANGED settings /\ spc = [a \in Editors |-> "idle"] /\ oauth = NoClient
    \/ SettingsNext /\ AtRest /\ UNCHANGED vars
HostSpec == HostInit /\ [][HostNext]_<<vars, settings>>
=============================================================================
