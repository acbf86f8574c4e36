------------------------------- MODULE Packages -------------------------------
(* The package catalogue (internal/packages): rows in the database, files by    *)
(* their SHA-256 on disk, and sources that are synced into them. Syncs, bundle  *)
(* imports, uploads, edits and deletions run at once and hold no lock.          *)
EXTENDS Integers, FiniteSets

CONSTANTS
    Contents,  \* file contents, each stands for its SHA-256
    Label,     \* the name and size a content goes by
    Sources,   \* package sources
    Signed,    \* sources with a signed manifest; the others are SFTP directories
    Hosts,     \* servers of a source, each stands for its host key too
    None,      \* no source, no key
    Jobs,      \* requests and the scheduler
    Stories    \* bounds of a behaviour: records of Story

JobKinds == {"sync", "bundle", "upload", "delete", "update", "save"}

\* kinds: the jobs there are, jobs: how many start, events: how often a source
\* changes, is deleted, or the process restarts.
Story == [kinds: SUBSET JobKinds, jobs: Nat, events: Nat]

ASSUME PackagesConstants ==
    Stories \subseteq Story /\ Signed \subseteq Sources /\ None \notin Sources \cup Hosts /\ Hosts # {}

VARIABLES
    story,      \* the chosen bounds
    pkg,        \* table packages, by content
    file,       \* files of the repository
    source,     \* table package_sources
    offer,      \* external: what each source offers
    job,        \* jobs in progress
    started, events,
    \* observation
    contested,  \* contents that were deleted and written at once
    edited      \* contents that were edited while a manifest described them

vars == <<story, pkg, file, source, offer, job, started, events, contested, edited>>

NoPackage == [row |-> FALSE, src |-> None, verified |-> FALSE, withdrawn |-> FALSE, meta |-> "none"]
Idle == [pc |-> "idle", kind |-> "sync", src |-> None, host |-> None, pin |-> None, listed |-> {}, todo |-> {},
         cur |-> {}, have |-> FALSE, seen |-> {}, failed |-> FALSE, mine |-> TRUE, alone |-> FALSE]

TypeOK ==
    /\ story \in Stories
    /\ pkg \in [Contents -> [row: BOOLEAN, src: Sources \cup {None}, verified: BOOLEAN, withdrawn: BOOLEAN,
                             meta: {"none", "guessed", "edited", "signed"}]]
    /\ {file, contested, edited} \subseteq SUBSET Contents
    /\ source \in [Sources -> [exists: BOOLEAN, host: Hosts, pin: Hosts \cup {None}, last: {"never", "ok", "failed"}]]
    /\ offer \in [Sources -> SUBSET Contents]
    /\ job \in [Jobs -> [pc: {"idle", "connect", "list", "next", "fetch", "upsert", "finish", "delete", "remove", "update", "save"},
                         kind: JobKinds, src: Sources \cup {None}, host: Hosts \cup {None}, pin: Hosts \cup {None},
                         listed: SUBSET Contents, todo: SUBSET Contents, cur: SUBSET Contents, have: BOOLEAN,
                         seen: SUBSET Contents, failed: BOOLEAN, mine: BOOLEAN, alone: BOOLEAN]]
    /\ started \in 0..story.jobs /\ events \in 0..story.events
    \* the foreign key of packages.source_id
    /\ \A c \in Contents : pkg[c].src # None => source[pkg[c].src].exists

Init ==
    /\ story \in Stories
    /\ pkg = [c \in Contents |-> NoPackage] /\ file = {}
    /\ \E h \in Hosts : source = [s \in Sources |-> [exists |-> TRUE, host |-> h, pin |-> None, last |-> "never"]]
    /\ offer \in {[s \in Sources |-> {c}] : c \in Contents}
    /\ job = [j \in Jobs |-> Idle] /\ started = 0 /\ events = 0
    /\ contested = {} /\ edited = {}

-------------------------------------------------------------------------------
(* Jobs *)

At(j, pc) == job[j].pc = pc
Goto(j, pc) == job' = [job EXCEPT ![j].pc = pc]
End(j) == job' = [job EXCEPT ![j] = Idle]
Verified(j) == job[j].kind = "bundle" \/ (job[j].kind = "sync" /\ job[j].src \in Signed)
Deleting(c) == \E k \in Jobs : job[k].kind = "delete" /\ job[k].cur = {c}
Writing(c) == \E k \in Jobs : job[k].kind # "delete" /\ job[k].cur = {c}

\* A job starts; whoever is at work is no longer alone.
Start(j, kind, fields) ==
    /\ kind \in story.kinds /\ started < story.jobs /\ started' = started + 1
    /\ At(j, "idle")
    /\ job' = [k \in Jobs |-> IF k = j THEN [fields EXCEPT !.kind = kind, !.alone = \A i \in Jobs : At(i, "idle")]
                              ELSE [job[k] EXCEPT !.alone = FALSE]]
    /\ UNCHANGED <<story, pkg, file, source, offer, events, contested, edited>>

\* Sync reads the source; the panel and RunDue call it.
SyncStart(j, s) ==
    /\ source[s].exists
    /\ Start(j, "sync", [Idle EXCEPT !.pc = "connect", !.src = s, !.host = source[s].host, !.pin = source[s].pin])

\* newSFTPFetcher: the server's key is compared with the pinned one, or it is
\* the first that is seen.
Pins(j) == job[j].src \notin Signed /\ job[j].pin = None

\* The host key of an SFTP server is pinned on first use: the configuration that
\* was read is written back with it.
SyncConnect(j) ==
    LET s == job[j].src IN
    /\ At(j, "connect")
    /\ job[j].pin \in {None, job[j].host}
    /\ source' = IF Pins(j) /\ source[s].exists THEN [source EXCEPT ![s].host = job[j].host, ![s].pin = job[j].host] ELSE source
    /\ Goto(j, "list")
    /\ UNCHANGED <<story, pkg, file, offer, started, events, contested, edited>>

\* What list returns: the files of a verified manifest, or all of a directory.
Listing(s) == offer[s]

SyncList(j) ==
    /\ At(j, "list")
    /\ job' = [job EXCEPT ![j].pc = "next", ![j].listed = Listing(job[j].src), ![j].todo = Listing(job[j].src)]
    /\ UNCHANGED <<story, pkg, file, source, offer, started, events, contested, edited>>

\* Connection, login, host key, listing or manifest fail.
SyncFails(j) ==
    /\ job[j].pc \in {"connect", "list"}
    /\ job' = [job EXCEPT ![j].pc = "finish", ![j].failed = TRUE]
    /\ UNCHANGED <<story, pkg, file, source, offer, started, events, contested, edited>>

\* Mutant: a row is enough, whether its file is there or not.
HasRow(c) == pkg[c].row

has(c) == pkg[c].row /\ c \in file

\* What an unsigned source has fetched before under the name and size of c.
Fetched(s, c) == {x \in Contents : pkg[x].row /\ pkg[x].src = s /\ Label[x] = Label[c]}

\* syncFile and ImportBundle look for the file first.
Check(j, c) ==
    /\ At(j, "next") /\ c \in job[j].todo
    /\ \E x \in IF Verified(j) \/ Fetched(job[j].src, c) = {} THEN {c} ELSE Fetched(job[j].src, c) :
          LET got == has(x) /\ (Verified(j) \/ x \in Fetched(job[j].src, c)) IN
          job' = [job EXCEPT ![j].todo = @ \ {c}, ![j].have = got, ![j].cur = {IF got THEN x ELSE c},
                             ![j].pc = IF got THEN "upsert" ELSE "fetch"]
    /\ UNCHANGED <<story, pkg, file, source, offer, started, events, contested, edited>>

\* Mutant: whatever arrives is stored.
WantedAny(j, c, y) == TRUE

\* store: a manifest's SHA-256 must match what arrived.
Wanted(j, c, y) == Verified(j) => y = c

\* The bytes behind the name of c now; a bundle may hold others than its manifest says.
Arriving(j, c) ==
    IF job[j].kind = "sync" THEN {y \in offer[job[j].src] : Label[y] = Label[c]}
    ELSE IF job[j].kind = "bundle" THEN {y \in Contents : Label[y] = Label[c]} ELSE {c}

Fetch(j, c, y) ==
    /\ At(j, "fetch") /\ job[j].cur = {c} /\ y \in Arriving(j, c) /\ Wanted(j, c, y)
    /\ file' = file \cup {y}
    /\ job' = [job EXCEPT ![j].pc = "upsert", ![j].cur = {IF Verified(j) THEN c ELSE y}]
    /\ contested' = IF Deleting(y) THEN contested \cup {y} ELSE contested \ {y}
    /\ UNCHANGED <<story, pkg, source, offer, started, events, edited>>

\* The file cannot be read or does not match: the others go on, an upload ends.
FetchFails(j) ==
    /\ At(j, "fetch")
    /\ IF job[j].kind = "upload" THEN End(j)
       ELSE job' = [job EXCEPT ![j].pc = "next", ![j].cur = {}, ![j].failed = TRUE]
    /\ UNCHANGED <<story, pkg, file, source, offer, started, events, contested, edited>>

\* A verified description replaces what is stored; an unverified one is written
\* for new files only.
Upserted(j, c) ==
    IF Verified(j) \/ ~pkg[c].row
    THEN [row |-> TRUE, src |-> job[j].src, verified |-> Verified(j), withdrawn |-> FALSE,
          meta |-> IF Verified(j) THEN "signed" ELSE "guessed"]
    ELSE [pkg[c] EXCEPT !.withdrawn = FALSE]

\* The source was deleted: the foreign key refuses its packages.
Orphan(j, c) == job[j].src # None /\ ~source[job[j].src].exists /\ (Verified(j) \/ ~pkg[c].row)

\* An unsigned file that was fetched before is only no longer withdrawn.
upsert(j, c) ==
    /\ At(j, "upsert") /\ job[j].cur = {c}
    /\ LET touch == job[j].have /\ ~Verified(j)  ok == touch \/ ~Orphan(j, c) IN
       /\ pkg' = IF (touch /\ ~pkg[c].row) \/ ~ok THEN pkg ELSE [pkg EXCEPT ![c] = Upserted(j, c)]
       /\ IF job[j].kind = "upload" THEN End(j)
          ELSE job' = [job EXCEPT ![j].pc = "next", ![j].cur = {}, ![j].have = FALSE,
                                  ![j].seen = IF ok THEN @ \cup {c} ELSE @, ![j].failed = @ \/ ~ok]
    /\ contested' = IF Deleting(c) THEN contested \cup {c} ELSE contested
    /\ edited' = IF ~Verified(j) \/ Orphan(j, c) THEN edited
                 ELSE IF \E k \in Jobs : job[k].kind = "update" /\ job[k].cur = {c} THEN edited \cup {c} ELSE edited \ {c}
    /\ UNCHANGED <<story, file, source, offer, started, events>>

\* Mutant: packages are withdrawn after a sync with errors too.
MayWithdrawAlways(j) == job[j].kind = "sync"

MayWithdraw(j) == job[j].kind = "sync" /\ ~job[j].failed

\* What the source no longer offers is withdrawn.
Withdraw(j) ==
    /\ At(j, "next") /\ job[j].todo = {}
    /\ pkg' = [c \in Contents |-> IF MayWithdraw(j) /\ pkg[c].src = job[j].src /\ pkg[c].row /\ c \notin job[j].seen
                                  THEN [pkg[c] EXCEPT !.withdrawn = TRUE] ELSE pkg[c]]
    /\ Goto(j, "finish")
    /\ UNCHANGED <<story, file, source, offer, started, events, contested, edited>>

Finish(j) ==
    /\ At(j, "finish")
    /\ source' = IF job[j].kind = "sync" /\ source[job[j].src].exists
                 THEN [source EXCEPT ![job[j].src].last = IF job[j].failed THEN "failed" ELSE "ok"] ELSE source
    /\ End(j)
    /\ UNCHANGED <<story, pkg, file, offer, started, events, contested, edited>>

\* ImportBundle; the manifest has been verified.
ImportBundle(j, B) == Start(j, "bundle", [Idle EXCEPT !.pc = "next", !.todo = B])

Upload(j, c) == Start(j, "upload", [Idle EXCEPT !.pc = "fetch", !.cur = {c}])

-------------------------------------------------------------------------------
(* Deletion, edits and the sources *)

\* Delete: the package is read, its row goes, then its file.
Delete(j, c) == pkg[c].row /\ Start(j, "delete", [Idle EXCEPT !.pc = "delete", !.cur = {c}])

DeleteRow(j, c) ==
    /\ At(j, "delete") /\ job[j].cur = {c}
    /\ pkg' = IF job[j].mine THEN [pkg EXCEPT ![c] = NoPackage] ELSE pkg
    /\ job' = [k \in Jobs |-> IF k = j THEN [job[k] EXCEPT !.pc = "remove"]
                              ELSE IF job[k].cur = {c} /\ job[k].pc \in {"delete", "update"} THEN [job[k] EXCEPT !.mine = FALSE]
                              ELSE job[k]]
    /\ contested' = IF Writing(c) THEN contested \cup {c} ELSE contested
    /\ UNCHANGED <<story, file, source, offer, started, events, edited>>

DeleteFile(j, c) ==
    /\ At(j, "remove") /\ job[j].cur = {c}
    /\ file' = file \ {c}
    /\ End(j)
    /\ UNCHANGED <<story, pkg, source, offer, started, events, contested, edited>>

\* Mutant: any description may be edited.
EditableAny(c) == pkg[c].row

Editable(c) == pkg[c].row /\ ~pkg[c].verified

\* Update: the package is read, then its description is written.
Update(j, c) == Editable(c) /\ Start(j, "update", [Idle EXCEPT !.pc = "update", !.cur = {c}])

UpdateRow(j, c) ==
    /\ At(j, "update") /\ job[j].cur = {c}
    /\ pkg' = IF job[j].mine THEN [pkg EXCEPT ![c].meta = "edited"] ELSE pkg
    /\ End(j)
    /\ UNCHANGED <<story, file, source, offer, started, events, contested, edited>>

\* Mutant: the key stays when the host changes.
KeptPinAlways(s, h) == source[s].pin

\* SaveSource keeps the pinned key of the same host.
KeptPin(s, h) == IF h = source[s].host THEN source[s].pin ELSE None

\* A key in the request is stored as it is: it is taken to be that of its host.
\* The panel sends none.
SaveSource(j, s, h) ==
    /\ source[s].exists
    /\ \E pin \in {KeptPin(s, h), h} :
          Start(j, "save", [Idle EXCEPT !.pc = "save", !.src = s, !.host = h, !.pin = pin])

SaveSourceRow(j) ==
    LET s == job[j].src IN
    /\ At(j, "save")
    /\ source' = IF source[s].exists THEN [source EXCEPT ![s].host = job[j].host, ![s].pin = job[j].pin] ELSE source
    /\ End(j)
    /\ UNCHANGED <<story, pkg, file, offer, started, events, contested, edited>>

Event == events < story.events /\ events' = events + 1
Disturb == job' = [j \in Jobs |-> [job[j] EXCEPT !.alone = FALSE]]

Unlinked(s) == [c \in Contents |-> IF pkg[c].src = s THEN [pkg[c] EXCEPT !.src = None] ELSE pkg[c]]

\* DeleteSource: the packages stay.
DeleteSource(s) ==
    /\ Event /\ source[s].exists
    /\ source' = [source EXCEPT ![s].exists = FALSE]
    /\ pkg' = Unlinked(s)
    /\ Disturb
    /\ UNCHANGED <<story, file, offer, started, contested, edited>>

\* The source's owner changes what it offers.
Publish(s, O) ==
    /\ Event /\ offer[s] # O
    /\ offer' = [offer EXCEPT ![s] = O]
    /\ Disturb
    /\ UNCHANGED <<story, pkg, file, source, started, contested, edited>>

Restart ==
    /\ Event /\ \E j \in Jobs : ~At(j, "idle")
    /\ job' = [j \in Jobs |-> Idle]
    /\ UNCHANGED <<story, pkg, file, source, offer, started, contested, edited>>

Job(j) ==
    \/ \E s \in Sources : SyncStart(j, s) \/ \E h \in Hosts : SaveSource(j, s, h)
    \/ \E B \in SUBSET Contents : ImportBundle(j, B)
    \/ SyncConnect(j) \/ SyncList(j) \/ SyncFails(j) \/ FetchFails(j) \/ Withdraw(j) \/ Finish(j) \/ SaveSourceRow(j)
    \/ \E c \in Contents :
          \/ Check(j, c) \/ upsert(j, c) \/ Upload(j, c) \/ Delete(j, c) \/ DeleteRow(j, c) \/ DeleteFile(j, c)
          \/ Update(j, c) \/ UpdateRow(j, c) \/ \E y \in Contents : Fetch(j, c, y)

World ==
    \/ Restart
    \/ \E s \in Sources : DeleteSource(s) \/ \E O \in SUBSET Contents : Publish(s, O)

Next == World \/ \E j \in Jobs : Job(j)

Spec == Init /\ [][Next]_vars

-------------------------------------------------------------------------------
(* Properties *)

\* A package in the catalogue has its file, unless a deletion of it and a sync,
\* import or upload of the same content overlapped.
RowHasFile == \A c \in Contents : pkg[c].row => c \in file \cup contested

\* A sync without errors that nothing disturbed leaves what the source offers
\* stored, described by its manifest if it has one, and not withdrawn, and the
\* rest of its packages withdrawn: whatever state it started from, files that
\* are missing included.
SyncRestores ==
    [][\A j \in Jobs : At(j, "finish") /\ job[j].kind = "sync" /\ job[j].alone /\ ~job[j].failed /\ job'[j].pc = "idle" =>
          LET s == job[j].src
              Stands(c) == pkg[c].row /\ c \in file /\ ~pkg[c].withdrawn /\ (s \in Signed => pkg[c].meta = "signed")
              Same(c) == IF s \in Signed THEN {c} ELSE {x \in Contents : Label[x] = Label[c]}
          IN  /\ \A c \in job[j].listed : \E x \in Same(c) : Stands(x)
              /\ \A c \in Contents : pkg[c].row /\ pkg[c].src = s /\ Same(c) \cap job[j].listed = {} => pkg[c].withdrawn]_vars

\* A sync withdraws only what its listing did not have, save for a package that
\* another one of the same name and size stands for.
WithdrawnWasGone ==
    [][\A j \in Jobs, c \in Contents :
          At(j, "next") /\ job'[j].pc = "finish" /\ ~pkg[c].withdrawn /\ pkg'[c].withdrawn /\ c \in job[j].listed =>
             job[j].src \notin Signed /\ \E x \in job[j].seen : Label[x] = Label[c]]_vars

\* The description of a verified package is its manifest's, unless an edit was
\* under way when the manifest arrived.
VerifiedIsSigned == \A c \in Contents : pkg[c].verified => pkg[c].meta = "signed" \/ c \in edited

\* A pinned key is the key of the host it is stored with.
PinIsOfHost == \A s \in Sources : source[s].pin \in {None, source[s].host}

\* Files, descriptions and pinned keys belong to the rows they are stored with,
\* whatever syncs, uploads, edits and deletions overlapped.
CatalogueIsSound == TypeOK /\ RowHasFile /\ VerifiedIsSigned /\ PinIsOfHost

\* A sync makes the catalogue what the source offers, no less and no more.
SyncIsFaithful == SyncRestores /\ WithdrawnWasGone
===============================================================================
