--------------------------- MODULE DesktopRecords ---------------------------
(***************************************************************************)
(* The user's records in the main process: profiles (profiles.json),       *)
(* proxies (proxies.json), the encrypted cards and cookie snapshots of the *)
(* two vaults, and the tasks and views that hold references to them or     *)
(* copies of them (src/electron/main.ts and the repositories).             *)
(*                                                                         *)
(* Profiles and proxies are written in place: a write may be refused, and  *)
(* one that is cut short leaves a file that loads as empty. The vaults     *)
(* write a second file and rename it.                                      *)
(***************************************************************************)
EXTENDS Naturals, Functions

CONSTANTS
  Profiles, Proxies, Tasks,
  MaxEdits,    \* bound: edits of a record that are told apart
  None

VARIABLES
  profiles,    \* the repository: profile -> its proxy of choice and its edit
  proxies,     \* the repository: proxy -> its edit
  cards,       \* the payment vault: profiles with a card
  snaps,       \* the cookie vault: profiles with snapshots
  file,        \* the four files
  deleting,    \* the deletion of a profile under way, with the record it may put back
  tests,       \* the health check under way: proxies to test, each as it was read
  task,        \* what each active task refers to
  panel,       \* the profiles as the runtime panel last read them
  reset,       \* the session reset under way, with the panel's copy
  intact,      \* no write of profiles.json or proxies.json was refused or cut short
  acked        \* cards reported as saved, and not deleted since

records == <<profiles, proxies, cards, snaps>>
users == <<tests, task, panel, reset>>
recordsVars == <<records, file, deleting, users, intact, acked>>

Choices == Proxies \cup {None}
Record == [proxy : Choices, edit : 1 .. MaxEdits]
Put(f, k, v) == [x \in DOMAIN f \cup {k} |-> IF x = k THEN v ELSE f[x]]
Without(f, k) == Restrict(f, DOMAIN f \ {k})
EmptyFiles == [profiles |-> <<>>, proxies |-> <<>>, cards |-> {}, snaps |-> {}]

RecordsInit ==
  /\ profiles = <<>> /\ proxies = <<>> /\ cards = {} /\ snaps = {}
  /\ file = EmptyFiles /\ deleting = None /\ tests = <<>>
  /\ task = [t \in Tasks |-> None] /\ panel = <<>> /\ reset = None
  /\ intact = TRUE /\ acked = {}

\* Handlers run to their end; only a crash comes between the steps of a deletion.
Idle == deleting = None

----------------------------------------------------------------------------
(* The repositories, once the record is in memory.                          *)

\* The profile repository tells nobody of a refused write.
ProfilesWritten ==
  \/ file' = [file EXCEPT !.profiles = profiles'] /\ UNCHANGED intact
  \/ intact' = FALSE /\ UNCHANGED file

ProxiesWritten == file' = [file EXCEPT !.proxies = proxies'] /\ UNCHANGED intact

\* The proxy repository throws, with the record changed in memory.
ProxiesRefused == intact' = FALSE /\ UNCHANGED file

----------------------------------------------------------------------------
(* Profiles.                                                               *)

CanSave(r) == r.proxy \in DOMAIN proxies \cup {None}

Store(p, r) ==
  /\ profiles' = Put(profiles, p, r)
  /\ ProfilesWritten

After(edit) == IF edit < MaxEdits THEN edit + 1 ELSE edit

SaveProfile(p, x) ==
  LET r == [proxy |-> x, edit |-> IF p \in DOMAIN profiles THEN After(profiles[p].edit) ELSE 1] IN
  /\ Idle /\ CanSave(r)
  /\ Store(p, r)
  /\ UNCHANGED <<proxies, cards, snaps, deleting, users, acked>>

\* A monitor that does not buy names its profile and proxy where the checks do not look.
Assigned(t, p) == task[t] # None /\ task[t].kind # "monitor" /\ task[t].profile = p

DeleteProfile(p) ==
  /\ Idle /\ p \in DOMAIN profiles
  /\ \A t \in Tasks : ~Assigned(t, p)
  /\ profiles' = Without(profiles, p) /\ ProfilesWritten
  /\ deleting' = [profile |-> p, record |-> profiles[p], at |-> "data"]
  /\ UNCHANGED <<proxies, cards, snaps, users, acked>>

PutBack == Store(deleting.profile, deleting.record) /\ deleting' = None

\* The directory may be locked; then the snapshots, whose file may refuse.
DeleteData ==
  /\ deleting # None /\ deleting.at = "data"
  /\ LET p == deleting.profile IN
     \/ PutBack /\ UNCHANGED snaps
     \/ /\ snaps' = snaps \ {p}
        /\ \/ /\ file' = IF p \in snaps THEN [file EXCEPT !.snaps = snaps'] ELSE file
              /\ deleting' = [deleting EXCEPT !.at = "card"]
              /\ UNCHANGED <<profiles, intact>>
           \/ p \in snaps /\ PutBack
  /\ UNCHANGED <<proxies, cards, users, acked>>

DeleteCardData ==
  /\ deleting # None /\ deleting.at = "card"
  /\ LET p == deleting.profile IN
     /\ cards' = cards \ {p} /\ acked' = acked \ {p}
     /\ \/ /\ file' = IF p \in cards THEN [file EXCEPT !.cards = cards'] ELSE file
           /\ deleting' = None
           /\ UNCHANGED <<profiles, intact>>
        \/ p \in cards /\ PutBack
  /\ UNCHANGED <<proxies, snaps, users>>

----------------------------------------------------------------------------
(* Cards and snapshots.                                                    *)

SaveCard(p) ==
  /\ Idle /\ p \in DOMAIN profiles
  /\ cards' = cards \cup {p}
  /\ \/ file' = [file EXCEPT !.cards = cards'] /\ acked' = acked \cup {p}
     \/ UNCHANGED <<file, acked>>
  /\ UNCHANGED <<profiles, proxies, snaps, deleting, users, intact>>

\* Nothing is written when the vault in memory has no card.
DeleteCard(p) ==
  /\ Idle /\ p \in DOMAIN profiles
  /\ cards' = cards \ {p} /\ acked' = acked \ {p}
  /\ file' \in (IF p \in cards THEN {file, [file EXCEPT !.cards = cards']} ELSE {file})
  /\ UNCHANGED <<profiles, proxies, snaps, deleting, users, intact>>

SaveSnapshot(p) ==
  /\ Idle /\ p \in DOMAIN profiles
  /\ snaps' = snaps \cup {p}
  /\ file' \in {file, [file EXCEPT !.snaps = snaps']}
  /\ UNCHANGED <<profiles, proxies, cards, deleting, users, intact, acked>>

DeleteSnapshot(p) ==
  /\ Idle /\ p \in snaps
  /\ snaps' = snaps \ {p}
  /\ file' \in {file, [file EXCEPT !.snaps = snaps']}
  /\ UNCHANGED <<profiles, proxies, cards, deleting, users, intact, acked>>

----------------------------------------------------------------------------
(* Proxies.                                                                *)

SaveProxy(x) ==
  /\ Idle
  /\ proxies' = Put(proxies, x, IF x \in DOMAIN proxies THEN After(proxies[x]) ELSE 1)
  /\ ProxiesWritten \/ ProxiesRefused
  /\ UNCHANGED <<profiles, cards, snaps, deleting, users, acked>>

Chosen(x) == \E p \in DOMAIN profiles : profiles[p].proxy = x

Selected(x) == \E t \in Tasks : task[t] # None /\ task[t].kind # "monitor" /\ task[t].proxy = x

InUseByTasks(x) == Selected(x)

InUse(x) == Chosen(x) \/ Selected(x)

DeleteProxy(x) ==
  /\ Idle /\ x \in DOMAIN proxies /\ ~InUse(x)
  /\ proxies' = Without(proxies, x)
  /\ ProxiesWritten \/ ProxiesRefused
  /\ UNCHANGED <<profiles, cards, snaps, deleting, users, acked>>

TestProxies(X) ==
  /\ Idle /\ tests = <<>> /\ X # {}
  /\ tests' = Restrict(proxies, X)
  /\ UNCHANGED <<records, file, deleting, task, panel, reset, intact, acked>>

\* The record is saved as it was read, and a refused write ends the round.
TestEnds(x) ==
  /\ Idle /\ x \in DOMAIN tests
  /\ proxies' = Put(proxies, x, tests[x])
  /\ \/ ProxiesWritten /\ tests' = Without(tests, x)
     \/ ProxiesRefused /\ tests' = <<>>
  /\ UNCHANGED <<profiles, cards, snaps, deleting, task, panel, reset, acked>>

----------------------------------------------------------------------------
(* Tasks are created from what the interface listed, up to minutes ago; the *)
(* program does not look whether the records are still there.               *)

Exist(p, x) == p \in DOMAIN profiles /\ x \in DOMAIN proxies \cup {None}

CreateTask(t, k, p, x) ==
  /\ Idle /\ task[t] = None
  /\ task' = [task EXCEPT ![t] = [kind |-> k, profile |-> p, proxy |-> x, sound |-> Exist(p, x)]]
  /\ UNCHANGED <<records, file, deleting, tests, panel, reset, intact, acked>>

TaskEnds(t) ==
  /\ Idle /\ task[t] # None /\ task' = [task EXCEPT ![t] = None]
  /\ UNCHANGED <<records, file, deleting, tests, panel, reset, intact, acked>>

----------------------------------------------------------------------------
(* The session reset of the runtime panel saves the copy it shows, without *)
(* its user agent, and the whole copy again when the reset fails.          *)

PanelReads ==
  /\ Idle /\ panel' = profiles
  /\ UNCHANGED <<records, file, deleting, tests, task, reset, intact, acked>>

BeginReset(p) ==
  /\ Idle /\ reset = None /\ p \in DOMAIN panel /\ CanSave(panel[p])
  /\ Store(p, panel[p])
  /\ reset' = [profile |-> p, record |-> panel[p]]
  /\ UNCHANGED <<proxies, cards, snaps, deleting, tests, task, panel, acked>>

ResetDone ==
  /\ Idle /\ reset # None /\ reset' = None
  /\ LET p == reset.profile IN
     /\ snaps' = snaps \ {p}
     /\ file' = IF p \in snaps THEN [file EXCEPT !.snaps = snaps'] ELSE file
  /\ UNCHANGED <<profiles, proxies, cards, deleting, tests, task, panel, intact, acked>>

ResetFails ==
  /\ Idle /\ reset # None /\ reset' = None
  /\ snaps' \in {snaps, snaps \ {reset.profile}}
  /\ IF CanSave(reset.record) THEN Store(reset.profile, reset.record)
                              ELSE UNCHANGED <<profiles, file, intact>>
  /\ UNCHANGED <<proxies, cards, deleting, tests, task, panel, acked>>

----------------------------------------------------------------------------
(* The program ends and starts again; unfinished tasks come back from the  *)
(* database.                                                               *)

Restart ==
  /\ profiles' = file'.profiles /\ proxies' = file'.proxies
  /\ cards' = file'.cards /\ snaps' = file'.snaps
  /\ deleting' = None /\ tests' = <<>> /\ panel' = <<>> /\ reset' = None
  /\ UNCHANGED <<task, acked>>

Crash == UNCHANGED <<file, intact>> /\ Restart

AllInPlace == {"profiles", "proxies", "cards"}

\* The files a crash may cut short.
InPlace == {"profiles", "proxies"}

CrashInWrite(part) ==
  /\ file' = [file EXCEPT ![part] = EmptyFiles[part]] /\ intact' = FALSE
  /\ Restart

----------------------------------------------------------------------------
RecordsNext ==
  \/ \E p \in Profiles :
       \/ \E x \in Choices : SaveProfile(p, x)
       \/ DeleteProfile(p) \/ SaveCard(p) \/ DeleteCard(p) \/ BeginReset(p)
       \/ SaveSnapshot(p) \/ DeleteSnapshot(p)
  \/ \E x \in Proxies : SaveProxy(x) \/ DeleteProxy(x) \/ TestEnds(x)
  \/ \E X \in {{x} : x \in DOMAIN proxies} \cup {DOMAIN proxies} : TestProxies(X)
  \/ \E t \in Tasks :
       \/ \E k \in {"checkout", "monitor"}, p \in Profiles, x \in Choices : CreateTask(t, k, p, x)
       \/ TaskEnds(t)
  \/ DeleteData \/ DeleteCardData \/ PanelReads \/ ResetDone \/ ResetFails
  \/ Crash \/ \E part \in InPlace : CrashInWrite(part)

RecordsSpec == RecordsInit /\ [][RecordsNext]_recordsVars

----------------------------------------------------------------------------
Partial(S, T) == UNION {[D -> T] : D \in SUBSET S}
Task == [kind : {"checkout", "monitor"}, profile : Profiles, proxy : Choices, sound : BOOLEAN]

\* The records are of their types, in memory, on file and where copies are held.
RecordsTypeOK ==
  /\ profiles \in Partial(Profiles, Record) /\ panel \in Partial(Profiles, Record)
  /\ proxies \in Partial(Proxies, 1 .. MaxEdits) /\ tests \in Partial(Proxies, 1 .. MaxEdits)
  /\ cards \subseteq Profiles /\ snaps \subseteq Profiles /\ acked \subseteq Profiles
  /\ file.profiles \in Partial(Profiles, Record)
  /\ file.proxies \in Partial(Proxies, 1 .. MaxEdits)
  /\ file.cards \subseteq Profiles /\ file.snaps \subseteq Profiles
  /\ deleting \in {None} \cup [profile : Profiles, record : Record, at : {"data", "card"}]
  /\ task \in [Tasks -> {None} \cup Task]
  /\ reset \in {None} \cup [profile : Profiles, record : Record]
  /\ intact \in BOOLEAN

\* As long as no write of the two repositories is lost, the proxy a profile prefers exists,
\* and so do the profile and the proxy of an active checkout that was created with both,
\* whatever deletions, health checks, stale copies and restarts come in between (the checks
\* of save-profile, delete-profile and delete-proxy, main.ts).
UsedRecordsExist ==
  intact =>
    /\ \A p \in DOMAIN profiles : profiles[p].proxy \in DOMAIN proxies \cup {None}
    /\ \A t \in Tasks : task[t] # None /\ task[t].sound /\ task[t].kind # "monitor" =>
         Exist(task[t].profile, task[t].proxy)

\* Every active checkout has its profile and its proxy, however old the interface's list was
\* when it was created.
TaskRecordsExist ==
  intact =>
    \A t \in Tasks : task[t] # None /\ task[t].kind # "monitor" =>
      Exist(task[t].profile, task[t].proxy)

\* A card reported as saved, and not deleted since, is on file: no crash and no failed save
\* of another loses it (profile-payment-vault.ts).
AckedCardSurvives == acked \subseteq file.cards

\* What is kept for a profile goes with it.
DataGoesWithProfile == intact /\ deleting = None => file.cards \cup file.snaps \subseteq DOMAIN profiles

\* A session reset or a health check never sets a record back to an older edit.
EditsOnlyAdvance ==
  [][ResetFails \/ (\E p \in Profiles : BeginReset(p)) \/ (\E x \in Proxies : TestEnds(x)) =>
       /\ \A p \in DOMAIN profiles : profiles'[p].edit >= profiles[p].edit
       /\ \A x \in DOMAIN proxies : proxies'[x] >= proxies[x]]_recordsVars

\* A health check never brings back a proxy that was deleted.
DeletedProxyStaysAway ==
  [][(\E x \in Proxies : TestEnds(x)) => DOMAIN proxies' = DOMAIN proxies]_recordsVars

\* The proxy of an active monitor exists.
MonitorProxyExists ==
  intact => \A t \in Tasks : task[t] # None => task[t].proxy \in DOMAIN proxies \cup {None}
=============================================================================
