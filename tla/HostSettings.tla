---------------------------- MODULE HostSettings ----------------------------
(* The OAuth client a Host logs in with: the setup wizard (setup.go) and the
   settings page (admin_settings.go) store its id and its secret as two rows of
   system_settings, one SetSetting after the other.  Any statement may fail.

   Of the settings these two are kept, for one provider: the rows that only make
   sense together.  A value is named after the request that brought it.      *)

CONSTANTS
    Editors,    \* requests of the wizard and of settings pages
    Absent      \* a row that is not there

ASSUME SettingsAssumption == Absent \notin Editors /\ "masked" \notin Editors /\ Absent # "masked"

VARIABLES
    oauth,      \* the client_id and client_secret rows
    spc,        \* where a request is
    form, todo, \* the values it submits, and the keys it has yet to write
    meant,      \* history: what the last request to change a row meant it to be
    torn        \* history: a write failed, or other values were in an editor's hands

settings == <<oauth, spc, form, todo, meant, torn>>

Keys == {"id", "secret"}
Client == [Keys -> Editors \cup {Absent, "masked"}]
NoClient == [k \in Keys |-> Absent]
OwnClient(a) == [k \in Keys |-> a]

\* Types of the variables.
SettingsTypeOK ==
    /\ oauth \in Client
    /\ spc \in [Editors -> {"idle", "form", "put", "setup"}]
    /\ form \in [Editors -> Client]
    /\ todo \in [Editors -> SUBSET Keys]
    /\ meant \in [Keys -> Editors \cup {Absent}]
    /\ torn \in BOOLEAN

SettingsInit ==
    /\ oauth = NoClient
    /\ spc = [a \in Editors |-> "idle"]
    /\ form = [a \in Editors |-> NoClient]
    /\ todo = [a \in Editors |-> {}]
    /\ meant = NoClient
    /\ torn = FALSE

\* saveSetupConfig.  The Host is not initialised, or the read of is_initialized
\* failed, which looks the same; app_url has been written.
SetupBegin(a) ==
    /\ spc[a] = "idle"
    /\ spc' = [spc EXCEPT ![a] = "setup"]
    /\ form' = [form EXCEPT ![a] = OwnClient(a)]
    /\ todo' = [todo EXCEPT ![a] = Keys]
    /\ meant' = OwnClient(a)
    /\ UNCHANGED <<oauth, torn>>

\* A secret of more than four characters is shown masked.
Shown(v) == IF v = Absent THEN {v} ELSE {v, "masked"}

\* adminGetSettings.
FormGet(a) ==
    /\ spc[a] = "idle"
    /\ spc' = [spc EXCEPT ![a] = "form"]
    /\ \E v \in Shown(oauth["secret"]) :
          form' = [form EXCEPT ![a] = [oauth EXCEPT !["secret"] = v]]
    /\ UNCHANGED <<oauth, todo, meant, torn>>

\* The page sends some of the keys it was given back as they are, and others
\* with a new value: a new client, or a new secret of the same one.
FormSubmit(a, sent, changed) ==
    /\ spc[a] = "form"
    /\ \A k \in sent \ changed : form[a][k] # Absent
    /\ spc' = [spc EXCEPT ![a] = "put"]
    /\ form' = [form EXCEPT ![a] = [k \in Keys |-> IF k \in changed THEN a ELSE form[a][k]]]
    /\ todo' = [todo EXCEPT ![a] = sent \cup changed]
    /\ meant' = [k \in Keys |-> IF k \in changed THEN a ELSE meant[k]]
    /\ UNCHANGED <<oauth, torn>>

\* Mutant: what the page was shown is saved.
WritableMasked(k, v) == TRUE

\* adminSaveSettings leaves a secret alone that comes back masked.
Writable(k, v) == ~(k = "secret" /\ v = "masked")

\* Other requests that hold values read or typed earlier.
Editing(a) == {b \in Editors \ {a} : spc[b] # "idle"}

\* SetSetting of one key: the wizard writes the id first, the page in no order.
\* The keys that follow one that fails are still written.
WriteKey(a, k) ==
    /\ k \in todo[a] /\ ~(spc[a] = "setup" /\ k = "secret" /\ "id" \in todo[a])
    /\ todo' = [todo EXCEPT ![a] = @ \ {k}]
    /\ \/ /\ ~Writable(k, form[a][k])
          /\ UNCHANGED <<oauth, torn>>
       \/ /\ Writable(k, form[a][k])
          /\ oauth' = [oauth EXCEPT ![k] = form[a][k]]
          /\ torn' = (torn \/ Editing(a) # {})
       \/ torn' = TRUE /\ UNCHANGED oauth
    /\ UNCHANGED <<spc, form, meant>>

\* The answer.
WriteEnd(a) ==
    /\ spc[a] \in {"put", "setup"} /\ todo[a] = {}
    /\ spc' = [spc EXCEPT ![a] = "idle"]
    /\ form' = [form EXCEPT ![a] = NoClient]
    /\ UNCHANGED <<oauth, todo, meant, torn>>

SettingsNext ==
    \E a \in Editors :
        \/ SetupBegin(a) \/ FormGet(a) \/ WriteEnd(a)
        \/ \E sent, changed \in SUBSET Keys : FormSubmit(a, sent, changed)
        \/ \E k \in Keys : WriteKey(a, k)

SettingsSpec == SettingsInit /\ [][SettingsNext]_settings

(***************************************************************************)
(* Properties                                                               *)

\* saveSetupConfig and adminSaveSettings write the two rows one by one.  The masked
\* secret that a page was shown is never stored, however many pages are open; and
\* when no request is at it each row is what the last request to change it meant,
\* so that an id and a secret that came together stay together, unless a write
\* failed or another request had loaded or was writing the rows too.
ClientAsMeant ==
    /\ oauth["secret"] # "masked"
    /\ (\A a \in Editors : spc[a] \notin {"put", "setup"}) /\ ~torn => oauth = meant

\* The inductive invariant.  The request a has yet to write what is meant for k.
Will(a, k) == k \in todo[a] /\ form[a][k] = meant[k]

\* A row is as meant, or somebody will make it so; and what a page shows, or a
\* request has yet to write, is what is meant, unless another will write that.
RowFollows(k) == oauth[k] = meant[k] \/ \E a \in Editors : Will(a, k)

HandFollows(a, k) ==
    (spc[a] = "form" \/ k \in todo[a]) =>
        \/ form[a][k] = meant[k] \/ (k = "secret" /\ form[a][k] = "masked")
        \/ \E b \in Editors \ {a} : Will(b, k)

AsMeant == ~torn => \A k \in Keys : RowFollows(k) /\ \A a \in Editors : HandFollows(a, k)

\* Only a request that has been submitted has rows to write.
TodoSubmitted == \A a \in Editors : todo[a] # {} => spc[a] \in {"put", "setup"}

SettingsInv == SettingsTypeOK /\ TodoSubmitted /\ oauth["secret"] # "masked" /\ AsMeant
=============================================================================
