----------------------------- MODULE SitesStore -----------------------------
(***************************************************************************)
(* The Site Manager of src/src/main.js: the list in memory, the form, the  *)
(* sites file and the secrets in the keychain.  sites_save replaces the    *)
(* file in one rename; it and the keychain calls run on the main thread in *)
(* the order they are made, so a call takes effect when it is made.  A     *)
(* task is an async function between two of its awaits.                    *)
(*                                                                         *)
(* Of a site only its logon type, "cloud" for an object store, and whose   *)
(* data it holds are kept; a secret is whose secret it is.                 *)
(***************************************************************************)
EXTENDS Integers, Sequences, SequencesExt, FiniteSets

CONSTANTS Id, Null,
          Logon,        \* the logon types explored
          Saved,        \* the sites on file at first: Id -> Logon, partial
          MaxRequests,  \* bound on what the user does
          MaxFaults     \* bound on calls that fail

ASSUME SitesAssumption == /\ Null \notin Id /\ IsFiniteSet(Id) /\ DOMAIN Saved \subseteq Id
                          /\ MaxRequests \in Nat /\ MaxFaults \in Nat

Slot == {"pass", "keypass", "cloud"}     \* id, id:keypass and id:<key>

VARIABLES disk,      \* sites.json
          chain,     \* the keychain: <<id, slot>> |-> whose secret
          sites,     \* the list in memory
          ticked,    \* selectedSiteIds
          sel,       \* selectedSiteId
          form,      \* the form: whose data, its logon type and its secrets
          gets,      \* the answers of secret_get to come
          tasks,     \* the async functions under way
          shown,     \* "closed", "loading" or "open"
          backup,    \* the last export
          own,       \* history: whose data each site was created with
          odd,       \* history: what may go wrong and did
          requests, faults

vars == <<disk, chain, sites, ticked, sel, form, gets, tasks, shown, backup,
          own, odd, requests, faults>>
selection == <<ticked, sel, form, gets>>

Fault == faults < MaxFaults /\ faults' = faults + 1
Site(logon, data) == [logon |-> logon, data |-> data]
NoSites == [i \in {} |-> Site("normal", Null)]
NoSecrets == [slot \in Slot |-> Null]
Blank == [data |-> Null, logon |-> "normal", secrets |-> NoSecrets]
Task(kind, id, logon, jobs) == [kind |-> kind, id |-> id, logon |-> logon, jobs |-> jobs]
Job(act, id, slot, whose) == [act |-> act, id |-> id, slot |-> slot, whose |-> whose]
SetIt(id, slot, whose) == Job("set", id, slot, whose)
DeleteIt(id, slot) == Job("delete", id, slot, Null)
Without(f, ids) == [i \in DOMAIN f \ ids |-> f[i]]
With(f, id, s) == [i \in DOMAIN f \cup {id} |-> IF i = id THEN s ELSE f[i]]

\* Where the secret of a logon type is kept, if it has one.
SlotOf(logon) == CASE logon = "cloud" -> "cloud" [] logon = "normal" -> "pass"
                   [] logon = "key" -> "keypass" [] OTHER -> "none"

Init == /\ disk = [i \in DOMAIN Saved |-> Site(Saved[i], i)]
        /\ chain = [c \in Id \X Slot |->
                      IF c[1] \in DOMAIN Saved /\ c[2] = SlotOf(Saved[c[1]]) THEN c[1] ELSE Null]
        /\ sites = disk /\ ticked = {} /\ sel = Null /\ form = Blank
        /\ gets = {} /\ tasks = {} /\ shown = "closed"
        /\ backup = {} /\ own = [i \in Id |-> IF i \in DOMAIN Saved THEN i ELSE Null] /\ odd = {}
        /\ requests = 0 /\ faults = 0

-----------------------------------------------------------------------------
(* Selection and form *)

Saving == \E t \in tasks : t.kind = "save"
\* The form or the selection changes; under a save that still reads them, that is odd.
Show(t, s, f, more) ==
    /\ ticked' = t /\ sel' = s /\ form' = f
    /\ odd' = odd \cup more \cup (IF Saving THEN {"moved"} ELSE {})

\* fillSiteForm, then the secret that belongs to the logon type is asked for.
Asks(id, s) == IF SlotOf(s.logon) = "none" THEN {}
               ELSE {[id |-> id, slot |-> SlotOf(s.logon), whose |-> chain[<<id, SlotOf(s.logon)>>]]}
SelectSite(id, list, more) ==
    /\ Show({id}, id, IF id \in DOMAIN list
                      THEN [Blank EXCEPT !.data = list[id].data, !.logon = list[id].logon]
                      ELSE Blank, more)
    /\ gets' = gets \cup (IF id \in DOMAIN list THEN Asks(id, list[id]) ELSE {})

\* The answer fills its field, unless the selection has moved on; where the keychain
\* fails there is none.
SecretCame_Anyway(g) ==
    /\ gets' = gets \ {g}
    /\ form' = IF g.whose # Null THEN [form EXCEPT !.secrets[g.slot] = g.whose] ELSE form
    /\ odd' = IF form' # form /\ Saving THEN odd \cup {"moved"} ELSE odd
    /\ UNCHANGED <<disk, chain, sites, ticked, sel, tasks, shown, backup, own, requests, faults>>
SecretCame(g) ==
    /\ gets' = gets \ {g}
    /\ \/ /\ form' = IF g.whose # Null /\ sel = g.id
                     THEN [form EXCEPT !.secrets[g.slot] = g.whose] ELSE form
          /\ UNCHANGED faults
       \/ UNCHANGED form /\ Fault
    /\ odd' = IF form' # form /\ Saving THEN odd \cup {"moved"} ELSE odd
    /\ UNCHANGED <<disk, chain, sites, ticked, sel, tasks, shown, backup, own, requests>>

Request == requests < MaxRequests /\ requests' = requests + 1
\* The form will be blanked when the list has been read, or a deletion has ended.
Early == IF shown = "loading" \/ \E t \in tasks : t.kind = "delete" THEN {"early"} ELSE {}

\* onSiteClick, plain or with Ctrl, and applySiteSelection.
Click ==
    /\ Request /\ shown # "closed"
    /\ \E id \in DOMAIN sites :
          \/ SelectSite(id, sites, Early)
          \/ LET t == IF id \in ticked THEN ticked \ {id} ELSE ticked \cup {id} IN
             IF Cardinality(t) = 1 THEN SelectSite(CHOOSE i \in t : TRUE, sites, Early)
             ELSE Show(t, Null, Blank, Early) /\ gets' = gets
    /\ UNCHANGED <<disk, chain, sites, tasks, shown, backup, own, faults>>
\* The user chooses a logon type and may enter a secret.
TypeInForm ==
    /\ Request /\ shown # "closed" /\ form.data # Null
    /\ \E logon \in Logon, typed \in BOOLEAN :
          LET s == IF typed /\ SlotOf(logon) \in Slot
                   THEN [form.secrets EXCEPT ![SlotOf(logon)] = form.data] ELSE form.secrets
              shows == IF logon = "normal" THEN s ELSE [s EXCEPT !["pass"] = Null]
          IN Show(ticked, sel, [form EXCEPT !.logon = logon, !.secrets = shows], {})
    /\ UNCHANGED <<disk, chain, sites, gets, tasks, shown, backup, own, faults>>

\* openSites: the list is read again from the file, with the old one still on screen.
OpenSites_KeepsSelection ==
    /\ Request /\ shown = "closed"
    /\ shown' = "loading"
    /\ UNCHANGED <<disk, chain, sites, selection, odd, tasks, backup, own, faults>>
OpenSites ==
    /\ Request /\ shown = "closed"
    /\ shown' = "loading" /\ ticked' = {} /\ sel' = Null
    /\ odd' = odd \cup (IF Saving THEN {"moved"} ELSE {})
    /\ UNCHANGED <<disk, chain, sites, form, gets, tasks, backup, own, faults>>
\* loadSites.  A file that cannot be read counts as no file; one that is corrupt is
\* moved away.  Either way the list is empty.
LoadSites(unread) ==
    IF unread THEN Fault /\ sites' = NoSites /\ disk' \in {disk, NoSites}
    ELSE sites' = disk /\ UNCHANGED <<disk, faults>>
Unread(unread) == IF unread THEN {"unread"} ELSE {}
Loaded ==
    /\ shown = "loading"
    /\ shown' = "open"
    /\ \E unread \in BOOLEAN :
          /\ LoadSites(unread)
          /\ Show(ticked, sel, Blank, Unread(unread))         \* setSiteFormEnabled(false)
    /\ UNCHANGED <<chain, gets, tasks, backup, own, requests>>
CloseSites ==
    /\ Request /\ shown = "open"
    /\ shown' = "closed"
    /\ UNCHANGED <<disk, chain, sites, selection, odd, tasks, backup, own, faults>>

-----------------------------------------------------------------------------
(* Saving *)

Start(t) == tasks' = tasks \cup {t}
\* sites_save of the list as it is now, and what follows.
Saves(list, then, else) ==
    \/ disk' = list /\ UNCHANGED faults /\ then
    \/ Fault /\ UNCHANGED disk /\ else

Fresh == CHOOSE i \in Id : own[i] = Null
HasFresh == \E i \in Id : own[i] = Null
NewSite ==
    /\ Request /\ shown # "closed" /\ HasFresh
    /\ sites' = With(sites, Fresh, Site("normal", Fresh))
    /\ own' = [own EXCEPT ![Fresh] = Fresh]
    /\ SelectSite(Fresh, sites', Early)
    /\ UNCHANGED <<disk, chain, tasks, shown, backup, faults>>

Overlap == IF tasks = {} THEN {} ELSE {"overlap"}
Recast(a, b) == IF (a = "cloud") # (b = "cloud") THEN {"recast"} ELSE {}
SaveSite ==
    /\ Request /\ shown # "closed" /\ Cardinality(ticked) = 1 /\ sel \in DOMAIN sites
    /\ sites' = [sites EXCEPT ![sel] = Site(form.logon, form.data)]
    /\ LET noted == odd \cup Overlap \cup Recast(sites[sel].logon, form.logon) IN
       Saves(sites',
             /\ Start(Task("save", sel, form.logon, <<Job("read", sel, "pass", Null)>>))
             /\ odd' = noted,
             UNCHANGED tasks /\ odd' = noted \cup {"cut"})
    /\ UNCHANGED <<chain, selection, shown, backup, own>>

\* Back in saveSite: what to do with the secrets is read from the form only now.
Put(id, slot, whose) == IF whose = Null THEN DeleteIt(id, slot) ELSE SetIt(id, slot, whose)
SecretJobs(t, s) ==
    CASE t.logon = "cloud" -> <<Put(t.id, "cloud", s["cloud"])>>
      [] t.logon = "normal" /\ s["pass"] # Null ->
            <<SetIt(t.id, "pass", s["pass"]), DeleteIt(t.id, "keypass")>>
      [] t.logon = "key" -> <<DeleteIt(t.id, "pass"), Job("readkey", t.id, "keypass", Null)>>
      [] OTHER -> <<DeleteIt(t.id, "pass"), DeleteIt(t.id, "keypass")>>

DuplicateSite ==
    /\ Request /\ shown # "closed" /\ HasFresh
    /\ \E id \in DOMAIN sites :
          LET slots == IF sites[id].logon = "cloud" THEN <<"cloud">> ELSE <<"pass", "keypass">>
              copies == [i \in DOMAIN slots |-> Job("copy", Fresh, slots[i], id)]
              select == <<Job("select", Fresh, "pass", Null)>>
          IN /\ ticked = {id}
             /\ sites' = With(sites, Fresh, sites[id])
             /\ own' = [own EXCEPT ![Fresh] = own[id]]
             /\ Saves(sites', Start(Task("duplicate", Fresh, "none", copies \o select)),
                              Start(Task("duplicate", Fresh, "none", select)))
    /\ odd' = odd \cup Overlap
    /\ UNCHANGED <<chain, selection, shown, backup>>

\* Every secret first, then the file; nothing that fails is told.
Forget(id) == Job("forget", id, IF sites[id].logon = "cloud" THEN "cloud" ELSE "pass", Null)
Chained(ids) == [k \in 1..Cardinality(ids) |-> Forget(SetToSeq(ids)[k])]
DeletesIn(order(_)) ==
    /\ Request /\ shown # "closed" /\ ticked \cap DOMAIN sites # {}
    /\ LET gone == ticked \cap DOMAIN sites IN
       /\ sites' = Without(sites, gone)
       /\ Start(Task("delete", Null, "none", order(Chained(gone))))
    /\ ticked' = {} /\ sel' = Null /\ odd' = odd \cup Overlap
    /\ UNCHANGED <<disk, chain, form, gets, shown, backup, own, faults>>
SaveJob == <<Job("save", Null, "pass", Null)>>
BlankJob == <<Job("blank", Null, "pass", Null)>>
DeleteSite_FileFirst == DeletesIn(LAMBDA js : SaveJob \o js \o BlankJob)
DeleteSite == DeletesIn(LAMBDA js : js \o SaveJob \o BlankJob)

\* The next call of a task.  A failing one ends a save or a copy, and no other.
Ends(t, failed) == IF ~failed THEN Tail(t.jobs)
                   ELSE CASE t.kind = "save" -> <<>>
                          [] t.kind = "duplicate" -> <<t.jobs[Len(t.jobs)]>>
                          [] OTHER -> Tail(t.jobs)
Goes(t, jobs) == tasks' = (tasks \ {t}) \cup (IF jobs = <<>> THEN {} ELSE {[t EXCEPT !.jobs = jobs]})
Sets(t, id, slot, whose) ==
    \/ /\ chain' = [chain EXCEPT ![<<id, slot>>] = whose]
       /\ Goes(t, Tail(t.jobs)) /\ UNCHANGED <<odd, faults>>
    \/ /\ Fault /\ Goes(t, Ends(t, TRUE)) /\ UNCHANGED chain
       /\ odd' = odd \cup (IF t.kind = "save" THEN {"cut"} ELSE {})
\* secret_delete, which never says that it failed.
Erases(id, slot) ==
    \/ chain' = [chain EXCEPT ![<<id, slot>>] = Null] /\ UNCHANGED <<odd, faults>>
    \/ /\ chain[<<id, slot>>] # Null /\ Fault /\ UNCHANGED chain
       /\ odd' = odd \cup {"kept"}
Step(t) ==
    LET j == Head(t.jobs) IN
    \/ /\ j.act = "set"
       /\ Sets(t, j.id, j.slot, j.whose)
       /\ UNCHANGED <<disk, selection>>
    \/ /\ j.act = "copy"
       /\ IF chain[<<j.whose, j.slot>>] = Null
          THEN Goes(t, Tail(t.jobs)) /\ UNCHANGED <<chain, odd, faults>>
          ELSE \/ Sets(t, j.id, j.slot, chain[<<j.whose, j.slot>>])
               \/ Fault /\ Goes(t, Tail(t.jobs)) /\ UNCHANGED <<chain, odd>>
       /\ UNCHANGED <<disk, selection>>
    \/ /\ j.act = "delete"
       /\ Erases(j.id, j.slot)
       /\ Goes(t, Tail(t.jobs))
       /\ UNCHANGED <<disk, selection>>
    \/ /\ j.act = "forget"       \* the password, then the passphrase
       /\ Erases(j.id, j.slot)
       /\ Goes(t, (IF j.slot = "pass" THEN <<DeleteIt(j.id, "keypass")>> ELSE <<>>) \o Tail(t.jobs))
       /\ UNCHANGED <<disk, selection>>
    \/ /\ j.act = "read"
       /\ Goes(t, SecretJobs(t, form.secrets) \o Tail(t.jobs))
       /\ UNCHANGED <<disk, chain, selection, odd, faults>>
    \/ /\ j.act = "readkey"
       /\ Goes(t, <<Put(t.id, "keypass", form.secrets["keypass"])>> \o Tail(t.jobs))
       /\ UNCHANGED <<disk, chain, selection, odd, faults>>
    \/ /\ j.act = "save"
       /\ Saves(sites, Goes(t, Tail(t.jobs)), Goes(t, Tail(t.jobs)))
       /\ UNCHANGED <<chain, selection, odd>>
    \/ /\ j.act = "blank"
       /\ Show(ticked, sel, Blank, {})
       /\ Goes(t, <<>>)
       /\ UNCHANGED <<disk, chain, gets, faults>>
    \/ /\ j.act = "select"
       /\ SelectSite(j.id, sites, Early)
       /\ Goes(t, <<>>)
       /\ UNCHANGED <<disk, chain, faults>>

-----------------------------------------------------------------------------
(* Export and import *)

ExportSites ==
    /\ Request /\ shown # "closed" /\ ticked \cap DOMAIN sites # {}
    /\ backup' = {[site |-> sites[i], own |-> own[i],
                   secret |-> IF sites[i].logon \in {"normal", "cloud"}
                              THEN chain[<<i, SlotOf(sites[i].logon)>>] ELSE Null] :
                     i \in ticked \cap DOMAIN sites}
    /\ UNCHANGED <<disk, chain, sites, selection, tasks, shown, own, odd, faults>>

\* parsePacketboatExport passes over what has no host, as no object store has.
Parsed == {b \in backup : b.site.logon # "cloud"}
ImportJobs(id, b) ==
    IF b.secret = Null THEN <<>> ELSE <<SetIt(id, "pass", b.secret)>>
Replaced(a, b) == Recast(a, b) \cup (IF a = b THEN {} ELSE {"replaced"})
\* One site of the file, as a copy or over one that looks the same.
ImportSites ==
    /\ Request /\ shown # "closed" /\ Parsed # {}
    /\ \E b \in Parsed :
       \E id \in {i \in DOMAIN sites : sites[i].data = b.site.data}
                 \cup (IF HasFresh THEN {Fresh} ELSE {}) :
          /\ sites' = With(sites, id, b.site)
          /\ own' = [own EXCEPT ![id] = b.own]
          /\ odd' = odd \cup Overlap
                     \cup (IF id \in DOMAIN sites THEN Replaced(sites[id].logon, b.site.logon) ELSE {})
          /\ Saves(sites',
                   IF ImportJobs(id, b) = <<>> THEN UNCHANGED tasks
                   ELSE Start(Task("import", id, "none", ImportJobs(id, b))),
                   UNCHANGED tasks)
    /\ UNCHANGED <<chain, selection, shown, backup>>

\* The application is killed, and started again.
Crash ==
    /\ Request
    /\ \E unread \in BOOLEAN :
          /\ LoadSites(unread)
          /\ odd' = odd \cup Unread(unread) \cup (IF Saving THEN {"cut"} ELSE {})
    /\ ticked' = {} /\ sel' = Null /\ form' = Blank /\ gets' = {}
    /\ tasks' = {} /\ shown' = "closed"
    /\ UNCHANGED <<chain, backup, own>>

Next == \/ Click \/ TypeInForm \/ OpenSites \/ Loaded \/ CloseSites \/ NewSite \/ SaveSite
        \/ DuplicateSite \/ DeleteSite \/ ExportSites \/ ImportSites \/ Crash
        \/ \E g \in gets : SecretCame(g)
        \/ \E t \in tasks : Step(t) /\ UNCHANGED <<sites, shown, backup, own, requests>>

Spec == Init /\ [][Next]_vars

-----------------------------------------------------------------------------
(* Properties *)

\* A site's secrets in the keychain are its own, although answers of secret_get come
\* late and saveSite reads the form after an await: unless the form or the selection
\* changed during a save, or see DataIsOwn (main.js:1565, 2313).
SecretsAreOwn ==
    odd \cap {"moved", "early"} = {} =>
        \A id \in DOMAIN disk, slot \in Slot : chain[<<id, slot>>] \in {Null, own[id]}

\* No site is ever saved with a blank form or another site's data: unless the user
\* was quick enough to select one while the list was being read again or others were
\* still being deleted (main.js:2625, 2363).
DataIsOwn ==
    "early" \notin odd =>
        /\ \A id \in DOMAIN sites : sites[id].data = own[id]
        /\ \A id \in DOMAIN disk : disk[id].data = own[id]

\* No secret stays in the keychain without a site on file that uses it, although the
\* secrets of a site go before the site (main.js:2347) and a new one comes after it, the
\* application may be killed in between, and saving the list or a secret may fail.
\* Excepted are: the list could not be read, or a deletion of the keychain failed, which
\* nobody is told; a site's protocol was changed from or to cloud; two saves, copies,
\* deletions or imports overlapped.  After a save of a site that was cut short, and an
\* import over a site with another logon type, the secret may be one that the site used
\* before, and uses again with that logon type.
Uses(logon, slot) == \/ slot = SlotOf(logon)
                     \/ /\ odd \cap {"cut", "replaced"} # {}
                        /\ slot # "cloud" /\ logon # "cloud"
NoOrphanSecrets ==
    tasks = {} /\ odd \cap {"unread", "kept", "recast", "overlap"} = {} =>
        \A id \in Id, slot \in Slot :
            chain[<<id, slot>>] # Null => id \in DOMAIN disk /\ Uses(disk[id].logon, slot)

=============================================================================
