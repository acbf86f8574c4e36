----------------------------- MODULE RunnersProofs -----------------------------
(* The properties of the package catalogue and of the runners, for any number   *)
(* of contents, sources, hosts, jobs and stories.                               *)
EXTENDS Runners, FiniteSetTheorems, SequenceTheorems, TLAPS

\* What a job is at each of its steps. A job that is not at work is nobody's;
\* a step on one content knows it.
Sane(r) ==
    /\ r.pc = "idle" => r = Idle
    /\ r.pc \in {"connect", "list"} => r.kind = "sync"
    /\ r.pc \in {"next", "finish"} => r.kind \in {"sync", "bundle"}
    /\ r.pc \in {"fetch", "upsert"} => r.kind \in {"sync", "bundle", "upload"}
    /\ r.pc = "fetch" => r.have = FALSE
    /\ r.pc \in {"delete", "remove"} <=> r.kind = "delete"
    /\ r.pc = "update" <=> r.kind = "update"
    /\ r.pc = "save" <=> r.kind = "save"
    /\ r.kind = "sync" /\ r.pc # "idle" => r.src \in Sources /\ r.host \in Hosts
    /\ r.kind = "save" => r.src \in Sources /\ r.host \in Hosts /\ r.pin \in {None, r.host}
    /\ IF r.pc \in {"fetch", "upsert", "delete", "remove", "update"} THEN \E c \in Contents : r.cur = {c} ELSE r.cur = {}

JobsAreSane == \A j \in Jobs : Sane(job[j])

\* A deletion that is about to remove the file of a content, or whose row is no
\* longer the one it read, and whoever writes the content, know of each other.
DeletionsAreSeen ==
    \A k \in Jobs, c \in Contents : job[k].cur = {c} =>
       /\ job[k].pc = "remove" /\ (pkg[c].row \/ \E j \in Jobs : job[j].pc = "upsert" /\ job[j].cur = {c}) => c \in contested
       /\ job[k].pc = "delete" /\ ~job[k].mine /\ pkg[c].row => c \in contested

\* What is about to be described is stored.
StoredBeforeRow == \A j \in Jobs, c \in Contents : job[j].pc = "upsert" /\ job[j].cur = {c} => c \in file \cup contested

\* An edit under way is of a description that is not verified, or is marked.
EditsAreSeen ==
    \A k \in Jobs, c \in Contents :
       job[k].pc = "update" /\ job[k].mine /\ job[k].cur = {c} /\ pkg[c].verified => c \in edited

\* The inductive invariant of the catalogue.
CatalogueInv == CatalogueIsSound /\ JobsAreSane /\ DeletionsAreSeen /\ StoredBeforeRow /\ EditsAreSeen

\* x stands for y in a listing of s.
StandsFor(s, x, y) == IF s \in Signed THEN x = y ELSE Label[x] = Label[y]

\* A sync treats what was listed, and nothing else.
Covers(r) ==
    r.kind = "sync" =>
       /\ r.pc \in {"connect", "list"} => r.seen = {}
       /\ r.todo \subseteq r.listed
       /\ \A x \in r.seen \cup r.cur : \E y \in r.listed : StandsFor(r.src, x, y)
       /\ ~r.failed => \A y \in r.listed : y \in r.todo \/ \E x \in r.seen \cup r.cur : StandsFor(r.src, x, y)
       /\ r.pc = "finish" /\ ~r.failed => r.todo = {}

SyncsCover == \A j \in Jobs : Covers(job[j])

\* A job that is alone is at work, and the others are not.
AloneIsAlone == \A j, k \in Jobs : job[j].alone => job[j].pc # "idle" /\ (k # j => job[k].pc = "idle")

\* Content x is in the catalogue as a sync from s leaves it.
Standing(s, x) == pkg[x].row /\ x \in file /\ ~pkg[x].withdrawn /\ (s \in Signed => pkg[x].meta = "signed")

\* What a sync that is alone has done stands.
AloneStands ==
    \A j \in Jobs : job[j].alone /\ job[j].kind = "sync" =>
       /\ \A x \in job[j].seen : Standing(job[j].src, x)
       /\ \A c \in Contents : job[j].pc = "upsert" /\ job[j].cur = {c} => c \in file /\ (job[j].have => pkg[c].row)
       /\ job[j].pc = "finish" /\ ~job[j].failed =>
             \A c \in Contents : pkg[c].row /\ pkg[c].src = job[j].src /\ c \notin job[j].seen => pkg[c].withdrawn

\* The inductive invariant of the syncs, beside that of the catalogue.
SyncInv == SyncsCover /\ AloneIsAlone /\ AloneStands

\* The inductive invariant of module Packages.
PackagesInv == CatalogueInv /\ SyncInv

-------------------------------------------------------------------------------
(* Types *)

\* The records of the variables.
PackageRow == [row: BOOLEAN, src: Sources \cup {None}, verified: BOOLEAN, withdrawn: BOOLEAN,
               meta: {"none", "guessed", "edited", "signed"}]
\* A row of package_sources.
SourceRow == [exists: BOOLEAN, host: Hosts, pin: Hosts \cup {None}, last: {"never", "ok", "failed"}]
\* A job.
JobRow == [pc: {"idle", "connect", "list", "next", "fetch", "upsert", "finish", "delete", "remove", "update", "save"},
           kind: JobKinds, src: Sources \cup {None}, host: Hosts \cup {None}, pin: Hosts \cup {None},
           listed: SUBSET Contents, todo: SUBSET Contents, cur: SUBSET Contents, have: BOOLEAN,
           seen: SUBSET Contents, failed: BOOLEAN, mine: BOOLEAN, alone: BOOLEAN]

\* The foreign key of packages.source_id.
ForeignKey == \A c \in Contents : pkg[c].src # None => source[pkg[c].src].exists

\* The type invariant by these names.
TypeList ==
    /\ story \in Stories
    /\ pkg \in [Contents -> PackageRow]
    /\ file \in SUBSET Contents /\ contested \in SUBSET Contents /\ edited \in SUBSET Contents
    /\ source \in [Sources -> SourceRow]
    /\ offer \in [Sources -> SUBSET Contents]
    /\ job \in [Jobs -> JobRow]
    /\ started \in 0..story.jobs /\ events \in 0..story.events
    /\ ForeignKey

\* The two forms agree.
LEMMA TypesByName == (TypeOK <=> TypeList) /\ (TypeOK' <=> TypeList')
<1>1. TypeOK <=> TypeList
  BY DEF TypeOK, TypeList, PackageRow, SourceRow, JobRow, ForeignKey
<1>2. TypeOK' <=> TypeList'
  BY DEF TypeOK, TypeList, PackageRow, SourceRow, JobRow, ForeignKey
<1>. QED
  BY <1>1, <1>2

\* The record of a job that is not at work.
LEMMA IdleJob ==
    /\ Idle \in JobRow /\ Idle.pc = "idle" /\ Idle.kind = "sync" /\ Idle.cur = {} /\ Idle.alone = FALSE
    /\ Idle.listed = {} /\ Idle.todo = {} /\ Idle.seen = {} /\ Idle.mine = TRUE /\ Idle.failed = FALSE
    /\ Sane(Idle) /\ Covers(Idle)
<1>1. /\ Idle \in JobRow /\ Idle.pc = "idle" /\ Idle.kind = "sync" /\ Idle.cur = {} /\ Idle.alone = FALSE
      /\ Idle.listed = {} /\ Idle.todo = {} /\ Idle.seen = {} /\ Idle.mine = TRUE /\ Idle.failed = FALSE
  BY DEF Idle, JobRow, JobKinds
<1>2. Sane(Idle)
  BY <1>1 DEF Sane
<1>3. Covers(Idle)
  BY <1>1 DEF Covers
<1>. QED
  BY <1>1, <1>2, <1>3

\* The stories.
LEMMA StoryKinds ==
    ASSUME TypeOK
    PROVE  story.jobs \in Nat /\ story.events \in Nat /\ story.kinds \subseteq JobKinds
BY PackagesConstants DEF TypeOK, Story

\* One job goes on.
LEMMA JobGoes ==
    ASSUME job \in [Jobs -> JobRow], NEW j \in Jobs, NEW r \in JobRow, job' = [job EXCEPT ![j] = r]
    PROVE  job' \in [Jobs -> JobRow] /\ \A i \in Jobs : job'[i] = IF i = j THEN r ELSE job[i]
OBVIOUS

-------------------------------------------------------------------------------
(* What each step makes of its job *)

\* A job that only changes its observation stays what it is.
LEMMA Marked ==
    ASSUME NEW r \in JobRow, Sane(r), Covers(r), r.pc # "idle" \/ r.alone = FALSE, NEW m \in BOOLEAN,
           r.pc = "idle" => m = r.mine
    PROVE  /\ [r EXCEPT !.alone = FALSE] \in JobRow /\ Sane([r EXCEPT !.alone = FALSE]) /\ Covers([r EXCEPT !.alone = FALSE])
           /\ [r EXCEPT !.mine = m] \in JobRow /\ Sane([r EXCEPT !.mine = m]) /\ Covers([r EXCEPT !.mine = m])
<1>. DEFINE a == [r EXCEPT !.alone = FALSE]
            b == [r EXCEPT !.mine = m]
<1>1. a \in JobRow /\ b \in JobRow
  BY DEF JobRow
<1>2. /\ a.pc = r.pc /\ a.kind = r.kind /\ a.src = r.src /\ a.host = r.host /\ a.pin = r.pin /\ a.listed = r.listed
      /\ a.todo = r.todo /\ a.cur = r.cur /\ a.seen = r.seen /\ a.failed = r.failed
      /\ b.pc = r.pc /\ b.kind = r.kind /\ b.src = r.src /\ b.host = r.host /\ b.pin = r.pin /\ b.listed = r.listed
      /\ b.todo = r.todo /\ b.cur = r.cur /\ b.seen = r.seen /\ b.failed = r.failed /\ a.have = r.have /\ b.have = r.have
  BY DEF JobRow
<1>3. r.pc = "idle" => a = r /\ b = r
  BY DEF JobRow
<1>. HIDE DEF a, b
<1>4. Sane(a) /\ Sane(b)
  BY <1>2, <1>3 DEF Sane
<1>5. Covers(a) /\ Covers(b)
  BY <1>2 DEF Covers
<1>. QED
  BY <1>1, <1>4, <1>5 DEF a, b

\* Job j starts as record r, made of the fields of its kind.
StartsAs(j, kind, fields, r) ==
    /\ r = [fields EXCEPT !.kind = kind, !.alone = r.alone]
    /\ job' = [k \in Jobs |-> IF k = j THEN r ELSE [job[k] EXCEPT !.alone = FALSE]]
    /\ r.alone => \A i \in Jobs : job[i].pc = "idle"
    /\ UNCHANGED <<story, pkg, file, source, offer, events, contested, edited>>
    /\ started' \in 0..story.jobs /\ job[j].pc = "idle"

\* A job starts.
LEMMA StartRecord ==
    ASSUME TypeOK, JobsAreSane, SyncsCover, NEW j \in Jobs, NEW kind \in JobKinds, NEW fields \in JobRow, Start(j, kind, fields)
    PROVE  \E r \in JobRow : StartsAs(j, kind, fields, r)
<1>1. PICK b \in BOOLEAN : b = (\A i \in Jobs : At(i, "idle"))
  OBVIOUS
<1>. DEFINE r == [fields EXCEPT !.kind = kind, !.alone = b]
<1>2. r \in JobRow /\ r.alone = b
  BY DEF JobRow
<1>3. r = [fields EXCEPT !.kind = kind, !.alone = r.alone]
  BY <1>2
<1>4. job' = [k \in Jobs |-> IF k = j THEN r ELSE [job[k] EXCEPT !.alone = FALSE]]
  BY <1>1 DEF Start
<1>5. r.alone => \A i \in Jobs : job[i].pc = "idle"
  BY <1>1, <1>2 DEF At
<1>6. started' \in 0..story.jobs
  <2>1. started \in 0..story.jobs /\ story.jobs \in Nat
    BY StoryKinds, TypesByName DEF TypeList
  <2>2. started < story.jobs /\ started' = started + 1
    BY DEF Start
  <2>. QED
    BY <2>1, <2>2
<1>. QED
  BY <1>2, <1>3, <1>4, <1>5, <1>6 DEF Start, At, StartsAs

\* What a job that starts is, and what the others become.
LEMMA StartJob ==
    ASSUME TypeOK, JobsAreSane, SyncsCover, AloneIsAlone, NEW j \in Jobs, NEW r \in JobRow, Sane(r), Covers(r), r.pc # "idle",
           job' = [k \in Jobs |-> IF k = j THEN r ELSE [job[k] EXCEPT !.alone = FALSE]],
           r.alone => \A i \in Jobs : job[i].pc = "idle"
    PROVE  /\ job' \in [Jobs -> JobRow] /\ job'[j] = r
           /\ \A i \in Jobs : i # j => /\ job'[i].pc = job[i].pc /\ job'[i].cur = job[i].cur /\ job'[i].mine = job[i].mine
                                       /\ job'[i].alone = FALSE
           /\ JobsAreSane' /\ SyncsCover' /\ AloneIsAlone'
<1>t. job \in [Jobs -> JobRow]
  BY TypesByName DEF TypeList
<1>1. ASSUME NEW i \in Jobs, i # j
      PROVE  /\ job'[i] \in JobRow /\ Sane(job'[i]) /\ Covers(job'[i])
             /\ job'[i].pc = job[i].pc /\ job'[i].cur = job[i].cur /\ job'[i].mine = job[i].mine /\ job'[i].alone = FALSE
  <2>1. job'[i] = [job[i] EXCEPT !.alone = FALSE] /\ job[i] \in JobRow
    BY <1>t, <1>1
  <2>2. Sane(job[i]) /\ Covers(job[i]) /\ (job[i].pc # "idle" \/ job[i].alone = FALSE) /\ job[i].mine \in BOOLEAN
    BY <1>t, IdleJob DEF JobsAreSane, SyncsCover, Sane, JobRow
  <2>3. job'[i] \in JobRow /\ Sane(job'[i]) /\ Covers(job'[i])
    BY <2>1, <2>2, Marked
  <2>4. job'[i].pc = job[i].pc /\ job'[i].cur = job[i].cur /\ job'[i].mine = job[i].mine /\ job'[i].alone = FALSE
    BY <2>1 DEF JobRow
  <2>. QED
    BY <2>3, <2>4
<1>2. job'[j] = r
  OBVIOUS
<1>3. job' \in [Jobs -> JobRow]
  <2>1. \A i \in Jobs : job'[i] \in JobRow
    BY <1>1, <1>2
  <2>2. job' = [i \in Jobs |-> job'[i]]
    OBVIOUS
  <2>. QED
    BY <2>1, <2>2
<1>4. JobsAreSane' /\ SyncsCover'
  BY <1>1, <1>2 DEF JobsAreSane, SyncsCover
<1>5. AloneIsAlone'
  BY <1>1, <1>2 DEF AloneIsAlone
<1>. QED
  BY <1>1, <1>2, <1>3, <1>4, <1>5

\* The record a step of its own makes of a job; a job that ends is idle.
StepOf(j, r) ==
    /\ r \in JobRow /\ Sane(r) /\ Covers(r) /\ (r.alone => r.pc # "idle" /\ job[j].alone)
    /\ job[j].pc # "idle" /\ job' = [job EXCEPT ![j] = r]

\* A job connects, lists, fails, or is about to withdraw.
LEMMA SyncConnectRecord ==
    ASSUME TypeOK, JobsAreSane, SyncsCover, NEW j \in Jobs, SyncConnect(j)
    PROVE  \E r \in JobRow : /\ StepOf(j, r) /\ r.pc = "list" /\ r.seen = job[j].seen /\ r.src = job[j].src /\ r.kind = job[j].kind
                             /\ job[j].kind = "sync" /\ job[j].src \in Sources /\ job[j].host \in Hosts
<1>t. job \in [Jobs -> JobRow] /\ job[j] \in JobRow /\ Sane(job[j]) /\ Covers(job[j])
  BY TypesByName DEF TypeList, JobsAreSane, SyncsCover
<1>. DEFINE r == [job[j] EXCEPT !.pc = "list"]
<1>1. /\ r \in JobRow /\ r.pc = "list" /\ r.kind = job[j].kind /\ r.src = job[j].src /\ r.host = job[j].host /\ r.pin = job[j].pin
      /\ r.listed = job[j].listed /\ r.todo = job[j].todo /\ r.cur = job[j].cur /\ r.seen = job[j].seen
      /\ r.failed = job[j].failed /\ r.alone = job[j].alone
  BY <1>t DEF JobRow
<1>2. job' = [job EXCEPT ![j] = r] /\ job[j].pc = "connect"
  BY DEF SyncConnect, Goto, At
<1>. HIDE DEF r
<1>3. job[j].kind = "sync" /\ job[j].src \in Sources /\ job[j].host \in Hosts
  BY <1>t, <1>2 DEF Sane
<1>4. Sane(r)
  BY <1>t, <1>1, <1>2, <1>3 DEF Sane
<1>5. Covers(r)
  BY <1>t, <1>1, <1>2 DEF Covers
<1>. QED
  BY <1>1, <1>2, <1>3, <1>4, <1>5 DEF StepOf

\* The listing is read.
LEMMA SyncListRecord ==
    ASSUME TypeOK, JobsAreSane, SyncsCover, NEW j \in Jobs, SyncList(j)
    PROVE  \E r \in JobRow : /\ StepOf(j, r) /\ r.pc = "next" /\ r.seen = job[j].seen /\ r.src = job[j].src /\ r.kind = job[j].kind
<1>t. job \in [Jobs -> JobRow] /\ job[j] \in JobRow /\ Sane(job[j]) /\ Covers(job[j])
  BY TypesByName DEF TypeList, JobsAreSane, SyncsCover
<1>1. job[j].pc = "list" /\ job[j].kind = "sync" /\ job[j].src \in Sources /\ job[j].host \in Hosts /\ job[j].cur = {}
  BY <1>t DEF Sane, SyncList, At
<1>. DEFINE L == offer[job[j].src]
            r == [job[j] EXCEPT !.pc = "next", !.listed = L, !.todo = L]
<1>2. L \in SUBSET Contents
  BY <1>1, TypesByName DEF TypeList
<1>3. job' = [job EXCEPT ![j] = r]
  BY DEF SyncList, Listing
<1>. HIDE DEF L
<1>4. /\ r \in JobRow /\ r.pc = "next" /\ r.kind = job[j].kind /\ r.src = job[j].src /\ r.host = job[j].host /\ r.pin = job[j].pin
      /\ r.listed = L /\ r.todo = L /\ r.cur = {} /\ r.seen = job[j].seen
      /\ r.failed = job[j].failed /\ r.alone = job[j].alone
  BY <1>t, <1>1, <1>2 DEF JobRow
<1>. HIDE DEF r
<1>5. Sane(r)
  BY <1>1, <1>4 DEF Sane
<1>6. Covers(r)
  BY <1>t, <1>1, <1>4 DEF Covers
<1>. QED
  BY <1>1, <1>3, <1>4, <1>5, <1>6 DEF StepOf

\* A sync fails before it treats files.
LEMMA SyncFailsRecord ==
    ASSUME TypeOK, JobsAreSane, SyncsCover, NEW j \in Jobs, SyncFails(j)
    PROVE  \E r \in JobRow : /\ StepOf(j, r) /\ r.pc = "finish" /\ r.seen = job[j].seen /\ r.src = job[j].src /\ r.kind = job[j].kind
                             /\ r.failed
<1>t. job \in [Jobs -> JobRow] /\ job[j] \in JobRow /\ Sane(job[j]) /\ Covers(job[j])
  BY TypesByName DEF TypeList, JobsAreSane, SyncsCover
<1>1. /\ job[j].pc \in {"connect", "list"} /\ job[j].kind = "sync" /\ job[j].src \in Sources /\ job[j].host \in Hosts
      /\ job[j].cur = {}
  BY <1>t DEF Sane, SyncFails
<1>. DEFINE r == [job[j] EXCEPT !.pc = "finish", !.failed = TRUE]
<1>3. job' = [job EXCEPT ![j] = r]
  BY DEF SyncFails
<1>4. /\ r \in JobRow /\ r.pc = "finish" /\ r.kind = job[j].kind /\ r.src = job[j].src /\ r.host = job[j].host
      /\ r.listed = job[j].listed /\ r.todo = job[j].todo /\ r.cur = {} /\ r.seen = job[j].seen
      /\ r.failed = TRUE /\ r.alone = job[j].alone
  BY <1>t, <1>1 DEF JobRow
<1>. HIDE DEF r
<1>5. Sane(r)
  BY <1>1, <1>4 DEF Sane
<1>6. Covers(r)
  BY <1>t, <1>1, <1>4 DEF Covers
<1>. QED
  BY <1>1, <1>3, <1>4, <1>5, <1>6 DEF StepOf

\* A file is looked for: the job knows the file it has, or the one it fetches.
LEMMA CheckRecord ==
    ASSUME TypeOK, JobsAreSane, SyncsCover, NEW j \in Jobs, NEW c \in Contents, Check(j, c)
    PROVE  \E r \in JobRow, z \in Contents :
              /\ StepOf(j, r) /\ r.cur = {z} /\ r.seen = job[j].seen /\ r.src = job[j].src /\ r.kind = job[j].kind
              /\ r.pc \in {"fetch", "upsert"} /\ (r.pc = "upsert" => has(z))
<1>t. job \in [Jobs -> JobRow] /\ job[j] \in JobRow /\ Sane(job[j]) /\ Covers(job[j])
  BY TypesByName DEF TypeList, JobsAreSane, SyncsCover
<1>1. job[j].pc = "next" /\ job[j].kind \in {"sync", "bundle"} /\ job[j].cur = {} /\ c \in job[j].todo
  BY <1>t DEF Sane, Check, At
<1>. DEFINE X == IF Verified(j) \/ Fetched(job[j].src, c) = {} THEN {c} ELSE Fetched(job[j].src, c)
            Got(x) == has(x) /\ (Verified(j) \/ x \in Fetched(job[j].src, c))
<1>2. PICK x \in X :
         job' = [job EXCEPT ![j].todo = @ \ {c}, ![j].have = Got(x), ![j].cur = {IF Got(x) THEN x ELSE c},
                            ![j].pc = IF Got(x) THEN "upsert" ELSE "fetch"]
  BY DEF Check
<1>3. PICK g \in BOOLEAN : g = Got(x)
  OBVIOUS
<1>. DEFINE z == IF g THEN x ELSE c
            r == [job[j] EXCEPT !.todo = @ \ {c}, !.have = g, !.cur = {z}, !.pc = IF g THEN "upsert" ELSE "fetch"]
<1>4. job' = [job EXCEPT ![j] = r]
  BY <1>2, <1>3
<1>5. x \in Contents /\ z \in Contents
  BY DEF Fetched
<1>6. g => has(z)
  BY <1>3
<1>7. job[j].kind = "sync" => StandsFor(job[j].src, z, c)
  <2>1. CASE job[j].src \in Signed /\ job[j].kind = "sync"
    BY <2>1 DEF StandsFor, Verified
  <2>2. ASSUME job[j].src \notin Signed, job[j].kind = "sync" PROVE StandsFor(job[j].src, z, c)
    BY <2>2 DEF StandsFor, Verified, Fetched
  <2>. QED
    BY <2>1, <2>2
<1>. HIDE DEF z
<1>8. /\ r \in JobRow /\ r.pc = (IF g THEN "upsert" ELSE "fetch") /\ r.kind = job[j].kind /\ r.src = job[j].src
      /\ r.host = job[j].host /\ r.listed = job[j].listed /\ r.todo = job[j].todo \ {c} /\ r.cur = {z}
      /\ r.seen = job[j].seen /\ r.failed = job[j].failed /\ r.alone = job[j].alone /\ r.have = g
  BY <1>t, <1>1, <1>5 DEF JobRow
<1>. HIDE DEF r
<1>9. Sane(r)
  BY <1>t, <1>1, <1>5, <1>8 DEF Sane
<1>10. Covers(r)
  <2>. SUFFICES ASSUME job[j].kind = "sync" PROVE Covers(r)
    BY <1>8 DEF Covers
  <2>1. StandsFor(job[j].src, z, c) /\ c \in job[j].listed /\ r.todo \subseteq r.listed
    BY <1>t, <1>1, <1>7, <1>8 DEF Covers
  <2>2. \A q \in r.seen \cup r.cur : \E y \in r.listed : StandsFor(r.src, q, y)
    BY <1>t, <1>1, <1>8, <2>1 DEF Covers
  <2>3. ~r.failed => \A y \in r.listed : y \in r.todo \/ \E q \in r.seen \cup r.cur : StandsFor(r.src, q, y)
    <3>. SUFFICES ASSUME ~r.failed, NEW y \in r.listed, y \notin r.todo PROVE \E q \in r.seen \cup r.cur : StandsFor(r.src, q, y)
      OBVIOUS
    <3>1. CASE y = c
      BY <3>1, <2>1, <1>8
    <3>2. CASE y # c
      <4>1. y \notin job[j].todo /\ ~job[j].failed /\ y \in job[j].listed
        BY <3>2, <1>8
      <4>2. PICK q \in job[j].seen \cup job[j].cur : StandsFor(job[j].src, q, y)
        BY <4>1, <1>t DEF Covers
      <4>. QED
        BY <4>2, <1>1, <1>8
    <3>. QED
      BY <3>1, <3>2
  <2>. QED
    BY <1>8, <2>1, <2>2, <2>3 DEF Covers
<1>. QED
  BY <1>1, <1>4, <1>5, <1>6, <1>8, <1>9, <1>10 DEF StepOf

\* A file arrives.
LEMMA FetchRecord ==
    ASSUME TypeOK, JobsAreSane, SyncsCover, NEW j \in Jobs, NEW c \in Contents, NEW y \in Contents, Fetch(j, c, y)
    PROVE  \E r \in JobRow :
              /\ StepOf(j, r) /\ r.cur = {y} /\ r.seen = job[j].seen /\ r.src = job[j].src /\ r.kind = job[j].kind
              /\ r.pc = "upsert" /\ r.have = FALSE
<1>t. job \in [Jobs -> JobRow] /\ job[j] \in JobRow /\ Sane(job[j]) /\ Covers(job[j])
  BY TypesByName DEF TypeList, JobsAreSane, SyncsCover
<1>1. job[j].pc = "fetch" /\ job[j].kind \in {"sync", "bundle", "upload"} /\ job[j].cur = {c} /\ job[j].have = FALSE
  BY <1>t DEF Sane, Fetch, At
<1>2. (Verified(j) => y = c) /\ (job[j].kind = "sync" => Label[y] = Label[c])
  BY DEF Fetch, Wanted, Arriving
<1>. DEFINE r == [job[j] EXCEPT !.pc = "upsert", !.cur = {y}]
<1>3. job' = [job EXCEPT ![j] = r]
  BY <1>2 DEF Fetch
<1>4. /\ r \in JobRow /\ r.pc = "upsert" /\ r.kind = job[j].kind /\ r.src = job[j].src
      /\ r.host = job[j].host /\ r.listed = job[j].listed /\ r.todo = job[j].todo /\ r.cur = {y} /\ r.have = job[j].have
      /\ r.seen = job[j].seen /\ r.failed = job[j].failed /\ r.alone = job[j].alone
  BY <1>t, <1>1 DEF JobRow
<1>. HIDE DEF r
<1>5. Sane(r)
  BY <1>t, <1>1, <1>4 DEF Sane
<1>6. Covers(r)
  <2>. SUFFICES ASSUME job[j].kind = "sync" PROVE Covers(r)
    BY <1>4 DEF Covers
  <2>1. \A q \in Contents : StandsFor(job[j].src, c, q) <=> StandsFor(job[j].src, y, q)
    BY <1>2 DEF StandsFor, Verified
  <2>2. job[j].listed \subseteq Contents
    BY <1>t DEF JobRow
  <2>. QED
    BY <1>t, <1>1, <1>4, <2>1, <2>2 DEF Covers
<1>. QED
  BY <1>1, <1>3, <1>4, <1>5, <1>6 DEF StepOf

\* A file does not arrive.
LEMMA FetchFailsRecord ==
    ASSUME TypeOK, JobsAreSane, SyncsCover, NEW j \in Jobs, FetchFails(j)
    PROVE  \E r \in JobRow :
              /\ StepOf(j, r) /\ r.cur = {} /\ r.pc \in {"next", "idle"}
              /\ r.alone => r.seen = job[j].seen /\ r.src = job[j].src /\ r.kind = job[j].kind
<1>t. job \in [Jobs -> JobRow] /\ job[j] \in JobRow /\ Sane(job[j]) /\ Covers(job[j])
  BY TypesByName DEF TypeList, JobsAreSane, SyncsCover
<1>1. job[j].pc = "fetch" /\ job[j].kind \in {"sync", "bundle", "upload"}
  BY <1>t DEF Sane, FetchFails, At
<1>2. CASE job[j].kind = "upload"
  <2>1. job' = [job EXCEPT ![j] = Idle]
    BY <1>2 DEF FetchFails, End
  <2>. QED
    BY <2>1, <1>1, IdleJob DEF StepOf
<1>3. CASE job[j].kind # "upload"
  <2>. DEFINE r == [job[j] EXCEPT !.pc = "next", !.cur = {}, !.failed = TRUE]
  <2>1. job' = [job EXCEPT ![j] = r]
    BY <1>3 DEF FetchFails
  <2>2. /\ r \in JobRow /\ r.pc = "next" /\ r.kind = job[j].kind /\ r.src = job[j].src
        /\ r.host = job[j].host /\ r.listed = job[j].listed /\ r.todo = job[j].todo /\ r.cur = {}
        /\ r.seen = job[j].seen /\ r.failed = TRUE /\ r.alone = job[j].alone
    BY <1>t, <1>1 DEF JobRow
  <2>. HIDE DEF r
  <2>3. Sane(r)
    BY <1>t, <1>1, <1>3, <2>2 DEF Sane
  <2>4. Covers(r)
    BY <1>t, <1>1, <2>2 DEF Covers
  <2>. QED
    BY <1>1, <2>1, <2>2, <2>3, <2>4 DEF StepOf
<1>. QED
  BY <1>2, <1>3

\* A row is written or refused.
LEMMA UpsertRecord ==
    ASSUME TypeOK, JobsAreSane, SyncsCover, NEW j \in Jobs, NEW c \in Contents, upsert(j, c)
    PROVE  \E r \in JobRow :
              /\ StepOf(j, r) /\ r.cur = {} /\ r.pc \in {"next", "idle"}
              /\ r.alone => r.src = job[j].src /\ r.kind = job[j].kind /\ r.seen \subseteq job[j].seen \cup {c}
              /\ r.alone /\ c \in r.seen => c \in job[j].seen \/ (job[j].have /\ ~Verified(j)) \/ ~Orphan(j, c)
<1>t. job \in [Jobs -> JobRow] /\ job[j] \in JobRow /\ Sane(job[j]) /\ Covers(job[j])
  BY TypesByName DEF TypeList, JobsAreSane, SyncsCover
<1>1. job[j].pc = "upsert" /\ job[j].kind \in {"sync", "bundle", "upload"} /\ job[j].cur = {c}
  BY <1>t DEF Sane, upsert, At
<1>2. CASE job[j].kind = "upload"
  <2>1. job' = [job EXCEPT ![j] = Idle]
    BY <1>2 DEF upsert, End
  <2>. QED
    BY <2>1, <1>1, IdleJob DEF StepOf
<1>3. CASE job[j].kind # "upload"
  <2>. DEFINE touch == job[j].have /\ ~Verified(j)
              Ok == touch \/ ~Orphan(j, c)
  <2>1. PICK ok \in BOOLEAN : ok = Ok
    OBVIOUS
  <2>2. job[j].failed \in BOOLEAN
    BY <1>t DEF JobRow
  <2>3. PICK f \in BOOLEAN : f = (job[j].failed \/ ~ok)
    OBVIOUS
  <2>. DEFINE r == [job[j] EXCEPT !.pc = "next", !.cur = {}, !.have = FALSE,
                                  !.seen = IF ok THEN @ \cup {c} ELSE @, !.failed = f]
  <2>4. job' = [job EXCEPT ![j].pc = "next", ![j].cur = {}, ![j].have = FALSE,
                           ![j].seen = IF Ok THEN @ \cup {c} ELSE @, ![j].failed = @ \/ ~Ok]
    BY <1>3 DEF upsert
  <2>5. job' = [job EXCEPT ![j] = r]
    BY <2>1, <2>3, <2>4
  <2>6. /\ r \in JobRow /\ r.pc = "next" /\ r.kind = job[j].kind /\ r.src = job[j].src
        /\ r.host = job[j].host /\ r.listed = job[j].listed /\ r.todo = job[j].todo /\ r.cur = {}
        /\ r.seen = (IF ok THEN job[j].seen \cup {c} ELSE job[j].seen) /\ r.failed = f /\ r.alone = job[j].alone
    BY <1>t, <1>1 DEF JobRow
  <2>. HIDE DEF r
  <2>7. Sane(r)
    BY <1>t, <1>1, <1>3, <2>6 DEF Sane
  <2>8. Covers(r)
    <3>1. ~r.failed => ok /\ ~job[j].failed
      BY <2>3, <2>6
    <3>2. r.seen \cup r.cur \subseteq job[j].seen \cup job[j].cur
      BY <1>1, <2>6
    <3>3. ok => r.seen \cup r.cur = job[j].seen \cup job[j].cur
      BY <1>1, <2>6
    <3>. QED
      BY <1>t, <1>1, <2>6, <3>1, <3>2, <3>3 DEF Covers
  <2>9. r.alone /\ c \in r.seen => c \in job[j].seen \/ (job[j].have /\ ~Verified(j)) \/ ~Orphan(j, c)
    BY <2>1, <2>6
  <2>. QED
    BY <1>1, <2>5, <2>6, <2>7, <2>8, <2>9 DEF StepOf
<1>. QED
  BY <1>2, <1>3

\* A sync has treated everything.
LEMMA WithdrawRecord ==
    ASSUME TypeOK, JobsAreSane, SyncsCover, NEW j \in Jobs, Withdraw(j)
    PROVE  \E r \in JobRow :
              /\ StepOf(j, r) /\ r.pc = "finish" /\ r.cur = {} /\ r.seen = job[j].seen /\ r.src = job[j].src
              /\ r.kind = job[j].kind /\ r.failed = job[j].failed
<1>t. job \in [Jobs -> JobRow] /\ job[j] \in JobRow /\ Sane(job[j]) /\ Covers(job[j])
  BY TypesByName DEF TypeList, JobsAreSane, SyncsCover
<1>1. job[j].pc = "next" /\ job[j].kind \in {"sync", "bundle"} /\ job[j].cur = {} /\ job[j].todo = {}
  BY <1>t DEF Sane, Withdraw, At
<1>. DEFINE r == [job[j] EXCEPT !.pc = "finish"]
<1>2. job' = [job EXCEPT ![j] = r]
  BY DEF Withdraw, Goto
<1>3. /\ r \in JobRow /\ r.pc = "finish" /\ r.kind = job[j].kind /\ r.src = job[j].src
      /\ r.host = job[j].host /\ r.listed = job[j].listed /\ r.todo = {} /\ r.cur = {}
      /\ r.seen = job[j].seen /\ r.failed = job[j].failed /\ r.alone = job[j].alone
  BY <1>t, <1>1 DEF JobRow
<1>. HIDE DEF r
<1>4. Sane(r)
  BY <1>t, <1>1, <1>3 DEF Sane
<1>5. Covers(r)
  BY <1>t, <1>1, <1>3 DEF Covers
<1>. QED
  BY <1>1, <1>2, <1>3, <1>4, <1>5 DEF StepOf

\* A job ends.
LEMMA EndRecord ==
    ASSUME NEW j \in Jobs, job[j].pc # "idle", End(j)
    PROVE  StepOf(j, Idle)
BY IdleJob DEF StepOf, End

\* A deletion has removed the row; those that had read the row know it no more.
LEMMA DeleteRowRecord ==
    ASSUME TypeOK, JobsAreSane, SyncsCover, NEW j \in Jobs, NEW c \in Contents, DeleteRow(j, c)
    PROVE  /\ job' \in [Jobs -> JobRow] /\ JobsAreSane' /\ SyncsCover'
           /\ job[j].pc = "delete" /\ job'[j].pc = "remove" /\ job[j].cur = {c} /\ job[j].kind = "delete"
           /\ \A i \in Jobs : /\ job'[i].cur = job[i].cur /\ job'[i].alone = job[i].alone /\ job'[i].kind = job[i].kind
                              /\ i # j => job'[i].pc = job[i].pc /\ (job'[i].mine => job[i].mine)
                              /\ job[i].mine /\ ~job'[i].mine => job[i].cur = {c}
                              /\ i # j /\ job[i].cur = {c} /\ job[i].pc = "update" => ~job'[i].mine
<1>t. job \in [Jobs -> JobRow] /\ job[j] \in JobRow /\ Sane(job[j]) /\ Covers(job[j])
  BY TypesByName DEF TypeList, JobsAreSane, SyncsCover
<1>1. job[j].pc = "delete" /\ job[j].kind = "delete" /\ job[j].cur = {c}
  BY <1>t DEF Sane, DeleteRow, At
<1>2. job' = [k \in Jobs |-> IF k = j THEN [job[k] EXCEPT !.pc = "remove"]
                             ELSE IF job[k].cur = {c} /\ job[k].pc \in {"delete", "update"} THEN [job[k] EXCEPT !.mine = FALSE]
                             ELSE job[k]]
  BY DEF DeleteRow
<1>3. /\ job'[j] \in JobRow /\ job'[j].pc = "remove" /\ job'[j].kind = "delete" /\ job'[j].cur = {c}
      /\ job'[j].alone = job[j].alone /\ job'[j].mine = job[j].mine
  BY <1>t, <1>1, <1>2 DEF JobRow
<1>4. Sane(job'[j]) /\ Covers(job'[j])
  BY <1>3 DEF Sane, Covers
<1>5. ASSUME NEW i \in Jobs, i # j
      PROVE  /\ job'[i] \in JobRow /\ Sane(job'[i]) /\ Covers(job'[i])
             /\ job'[i].pc = job[i].pc /\ job'[i].cur = job[i].cur /\ job'[i].alone = job[i].alone /\ job'[i].kind = job[i].kind
             /\ (job'[i].mine => job[i].mine) /\ (job[i].mine /\ ~job'[i].mine => job[i].cur = {c})
             /\ job[i].cur = {c} /\ job[i].pc = "update" => ~job'[i].mine
  <2>1. job[i] \in JobRow /\ Sane(job[i]) /\ Covers(job[i])
    BY <1>t DEF JobsAreSane, SyncsCover
  <2>2. CASE job[i].cur = {c} /\ job[i].pc \in {"delete", "update"}
    <3>1. job'[i] = [job[i] EXCEPT !.mine = FALSE]
      BY <1>2, <1>5, <2>2
    <3>2. job'[i] \in JobRow /\ Sane(job'[i]) /\ Covers(job'[i])
      BY <2>1, <2>2, <3>1, Marked
    <3>3. /\ job'[i].pc = job[i].pc /\ job'[i].cur = job[i].cur /\ job'[i].alone = job[i].alone /\ job'[i].kind = job[i].kind
          /\ job'[i].mine = FALSE
      BY <2>1, <3>1 DEF JobRow
    <3>. QED
      BY <2>2, <3>2, <3>3
  <2>3. CASE ~(job[i].cur = {c} /\ job[i].pc \in {"delete", "update"})
    <3>1. job'[i] = job[i]
      BY <1>2, <1>5, <2>3
    <3>. QED
      BY <2>1, <2>3, <3>1
  <2>. QED
    BY <2>2, <2>3
<1>6. job' \in [Jobs -> JobRow]
  <2>1. \A i \in Jobs : job'[i] \in JobRow
    BY <1>3, <1>5
  <2>2. job' = [i \in Jobs |-> job'[i]]
    BY <1>2
  <2>. QED
    BY <2>1, <2>2
<1>7. JobsAreSane' /\ SyncsCover'
  BY <1>4, <1>5 DEF JobsAreSane, SyncsCover
<1>. QED
  BY <1>1, <1>3, <1>5, <1>6, <1>7

-------------------------------------------------------------------------------
(* Steps that leave rows and files alone *)

\* What a step of one job means for all of them.
LEMMA StepKeepsJobs ==
    ASSUME TypeOK, JobsAreSane, SyncsCover, AloneIsAlone, NEW j \in Jobs, NEW r \in JobRow, StepOf(j, r)
    PROVE  /\ job' \in [Jobs -> JobRow] /\ job'[j] = r /\ \A i \in Jobs : i # j => job'[i] = job[i]
           /\ JobsAreSane' /\ SyncsCover' /\ AloneIsAlone' /\ \A i \in Jobs : job'[i].alone => i = j
<1>t. job \in [Jobs -> JobRow]
  BY TypesByName DEF TypeList
<1>1. /\ Sane(r) /\ Covers(r) /\ (r.alone => r.pc # "idle" /\ job[j].alone)
      /\ job[j].pc # "idle" /\ job' = [job EXCEPT ![j] = r]
  BY DEF StepOf
<1>2. job' \in [Jobs -> JobRow] /\ \A i \in Jobs : job'[i] = IF i = j THEN r ELSE job[i]
  BY <1>t, <1>1, JobGoes
<1>3. JobsAreSane' /\ SyncsCover'
  BY <1>1, <1>2 DEF JobsAreSane, SyncsCover
<1>4. \A i \in Jobs : job'[i].alone => i = j
  BY <1>1, <1>2 DEF AloneIsAlone
<1>5. AloneIsAlone'
  BY <1>1, <1>2, <1>4 DEF AloneIsAlone
<1>. QED
  BY <1>2, <1>3, <1>4, <1>5

\* Rows and files stay, and a job on a content is on it as before, or has just
\* found it in the catalogue, or has just begun to delete or edit it.
LEMMA QuietStep ==
    ASSUME PackagesInv, TypeOK', JobsAreSane', PinIsOfHost', UNCHANGED <<pkg, file, contested, edited>>,
           \A i \in Jobs, c \in Contents : job'[i].cur = {c} =>
              \/ job'[i].pc = job[i].pc /\ job[i].cur = {c} /\ job'[i].mine = job[i].mine
              \/ job'[i].pc = "upsert" /\ has(c)
              \/ job'[i].pc = "delete" /\ job'[i].mine
              \/ job'[i].pc = "update" /\ ~pkg[c].verified
              \/ job'[i].pc = "fetch"
    PROVE  CatalogueInv'
<1>1. CatalogueIsSound /\ DeletionsAreSeen /\ StoredBeforeRow /\ EditsAreSeen
  BY DEF PackagesInv, CatalogueInv
<1>2. RowHasFile' /\ VerifiedIsSigned'
  BY <1>1 DEF CatalogueIsSound, RowHasFile, VerifiedIsSigned
<1>3. StoredBeforeRow'
  BY <1>1 DEF StoredBeforeRow, has
<1>4. EditsAreSeen'
  BY <1>1 DEF EditsAreSeen
<1>5. DeletionsAreSeen'
  <2>. SUFFICES ASSUME NEW k \in Jobs, NEW c \in Contents, job'[k].cur = {c}
                PROVE  /\ job'[k].pc = "remove" /\ (pkg[c].row \/ \E j \in Jobs : job'[j].pc = "upsert" /\ job'[j].cur = {c}) => c \in contested
                       /\ job'[k].pc = "delete" /\ ~job'[k].mine /\ pkg[c].row => c \in contested
    BY DEF DeletionsAreSeen
  <2>1. job'[k].pc = "remove" => job[k].pc = "remove" /\ job[k].cur = {c}
    OBVIOUS
  <2>2. \A j \in Jobs : job'[j].pc = "upsert" /\ job'[j].cur = {c} => (job[j].pc = "upsert" /\ job[j].cur = {c}) \/ pkg[c].row
    BY DEF has
  <2>3. job'[k].pc = "delete" /\ ~job'[k].mine => job[k].pc = "delete" /\ job[k].cur = {c} /\ ~job[k].mine
    OBVIOUS
  <2>4. job[k].pc = "remove" /\ job[k].cur = {c} /\ (pkg[c].row \/ \E j \in Jobs : job[j].pc = "upsert" /\ job[j].cur = {c}) => c \in contested
    BY <1>1 DEF DeletionsAreSeen
  <2>5. job[k].pc = "delete" /\ job[k].cur = {c} /\ ~job[k].mine /\ pkg[c].row => c \in contested
    BY <1>1 DEF DeletionsAreSeen
  <2>. QED
    BY <2>1, <2>2, <2>3, <2>4, <2>5
<1>. QED
  BY <1>2, <1>3, <1>4, <1>5 DEF CatalogueInv, CatalogueIsSound

\* What a sync that is alone has done stands when rows and files stay.
LEMMA QuietAlone ==
    ASSUME PackagesInv, NEW j \in Jobs, NEW r \in JobRow, StepOf(j, r), UNCHANGED <<pkg, file>>,
           r.alone /\ r.kind = "sync" => job[j].kind = "sync" /\ r.seen = job[j].seen /\ r.src = job[j].src,
           \A c \in Contents : r.alone /\ r.pc = "upsert" /\ r.cur = {c} => has(c),
           r.alone /\ r.pc = "finish" => r.failed
    PROVE  AloneStands'
<1>1. TypeOK /\ JobsAreSane /\ SyncsCover /\ AloneIsAlone /\ AloneStands
  BY DEF PackagesInv, CatalogueInv, CatalogueIsSound, SyncInv
<1>2. job'[j] = r /\ \A i \in Jobs : job'[i].alone => i = j
  BY <1>1, StepKeepsJobs
<1>3. r.alone => job[j].alone
  BY DEF StepOf
<1>4. ASSUME r.alone, r.kind = "sync"
      PROVE  /\ \A x \in r.seen : Standing(r.src, x)'
             /\ \A c \in Contents : r.pc = "upsert" /\ r.cur = {c} => c \in file' /\ pkg'[c].row
             /\ r.pc = "finish" => r.failed
  <2>1. \A x \in job[j].seen : Standing(job[j].src, x)
    BY <1>1, <1>3, <1>4 DEF AloneStands
  <2>2. \A x \in r.seen : Standing(r.src, x)'
    BY <2>1, <1>4 DEF Standing
  <2>. QED
    BY <2>2, <1>4 DEF has
<1>. QED
  BY <1>2, <1>4 DEF AloneStands, Standing

\* A step of one job that leaves rows and files alone keeps the invariant.
LEMMA QuietJob ==
    ASSUME PackagesInv, NEW j \in Jobs, NEW r \in JobRow, StepOf(j, r),
           UNCHANGED <<story, pkg, file, offer, started, events, contested, edited>>,
           source' \in [Sources -> SourceRow], PinIsOfHost', \A s \in Sources : source'[s].exists = source[s].exists,
           r.alone /\ r.kind = "sync" => job[j].kind = "sync" /\ r.seen = job[j].seen /\ r.src = job[j].src,
           \A c \in Contents : r.cur = {c} => r.pc = "fetch" \/ (r.pc = "upsert" /\ has(c)),
           r.alone /\ r.pc = "finish" => r.failed
    PROVE  PackagesInv'
<1>1. TypeOK /\ JobsAreSane /\ SyncsCover /\ AloneIsAlone /\ AloneStands
  BY DEF PackagesInv, CatalogueInv, CatalogueIsSound, SyncInv
<1>2. /\ job' \in [Jobs -> JobRow] /\ job'[j] = r /\ \A i \in Jobs : i # j => job'[i] = job[i]
      /\ JobsAreSane' /\ SyncsCover' /\ AloneIsAlone'
  BY <1>1, StepKeepsJobs
<1>3. TypeOK'
  <2>1. TypeList
    BY <1>1, TypesByName
  <2>2. \A c \in Contents : pkg[c].src # None => pkg[c].src \in Sources
    BY <2>1 DEF TypeList, PackageRow
  <2>3. ForeignKey'
    BY <2>1, <2>2 DEF TypeList, ForeignKey
  <2>4. TypeList'
    BY <1>2, <2>1, <2>3 DEF TypeList
  <2>. QED
    BY <2>4, TypesByName
<1>4. \A i \in Jobs, c \in Contents : job'[i].cur = {c} =>
              \/ job'[i].pc = job[i].pc /\ job[i].cur = {c} /\ job'[i].mine = job[i].mine
              \/ job'[i].pc = "upsert" /\ has(c)
              \/ job'[i].pc = "fetch"
  BY <1>2
<1>5. CatalogueInv'
  BY <1>2, <1>3, <1>4, QuietStep
<1>6. AloneStands'
  BY QuietAlone
<1>. QED
  BY <1>2, <1>5, <1>6 DEF PackagesInv, SyncInv

\* The key of a server is pinned with its host.
LEMMA SyncConnectKeeps ==
    ASSUME PackagesInv, NEW j \in Jobs, SyncConnect(j)
    PROVE  PackagesInv'
<1>1. TypeOK /\ JobsAreSane /\ SyncsCover /\ PinIsOfHost /\ source \in [Sources -> SourceRow]
  BY TypesByName DEF PackagesInv, CatalogueInv, CatalogueIsSound, SyncInv, TypeList
<1>2. PICK r \in JobRow : /\ StepOf(j, r) /\ r.pc = "list" /\ r.seen = job[j].seen /\ r.src = job[j].src /\ r.kind = job[j].kind
                          /\ job[j].kind = "sync" /\ job[j].src \in Sources /\ job[j].host \in Hosts
  BY <1>1, SyncConnectRecord
<1>3. r.cur = {}
  BY <1>2 DEF StepOf, Sane
<1>. DEFINE s == job[j].src
            h == job[j].host
<1>4. source' = source \/ source' = [source EXCEPT ![s].host = h, ![s].pin = h]
  BY DEF SyncConnect
<1>5. s \in Sources /\ h \in Hosts
  BY <1>2
<1>. HIDE DEF s, h
<1>6. source' \in [Sources -> SourceRow] /\ \A q \in Sources : source'[q].exists = source[q].exists
  BY <1>1, <1>4, <1>5 DEF SourceRow
<1>7. PinIsOfHost'
  BY <1>1, <1>4, <1>5 DEF SourceRow, PinIsOfHost
<1>8. UNCHANGED <<story, pkg, file, offer, started, events, contested, edited>>
  BY DEF SyncConnect
<1>. QED
  BY <1>2, <1>3, <1>6, <1>7, <1>8, QuietJob

\* The listing is read.
LEMMA SyncListKeeps ==
    ASSUME PackagesInv, NEW j \in Jobs, SyncList(j)
    PROVE  PackagesInv'
<1>1. TypeOK /\ JobsAreSane /\ SyncsCover /\ PinIsOfHost /\ source \in [Sources -> SourceRow]
  BY TypesByName DEF PackagesInv, CatalogueInv, CatalogueIsSound, SyncInv, TypeList
<1>2. PICK r \in JobRow : /\ StepOf(j, r) /\ r.pc = "next" /\ r.seen = job[j].seen /\ r.src = job[j].src /\ r.kind = job[j].kind
  BY <1>1, SyncListRecord
<1>3. r.cur = {}
  BY <1>2 DEF StepOf, Sane
<1>4. UNCHANGED <<story, pkg, file, source, offer, started, events, contested, edited>>
  BY DEF SyncList
<1>5. PinIsOfHost'
  BY <1>1, <1>4 DEF PinIsOfHost
<1>. QED
  BY <1>1, <1>2, <1>3, <1>4, <1>5, QuietJob

\* A sync fails before it treats files.
LEMMA SyncFailsKeeps ==
    ASSUME PackagesInv, NEW j \in Jobs, SyncFails(j)
    PROVE  PackagesInv'
<1>1. TypeOK /\ JobsAreSane /\ SyncsCover /\ PinIsOfHost /\ source \in [Sources -> SourceRow]
  BY TypesByName DEF PackagesInv, CatalogueInv, CatalogueIsSound, SyncInv, TypeList
<1>2. PICK r \in JobRow : /\ StepOf(j, r) /\ r.pc = "finish" /\ r.seen = job[j].seen /\ r.src = job[j].src /\ r.kind = job[j].kind
                          /\ r.failed
  BY <1>1, SyncFailsRecord
<1>3. r.cur = {}
  BY <1>2 DEF StepOf, Sane
<1>4. UNCHANGED <<story, pkg, file, source, offer, started, events, contested, edited>>
  BY DEF SyncFails
<1>5. PinIsOfHost'
  BY <1>1, <1>4 DEF PinIsOfHost
<1>. QED
  BY <1>1, <1>2, <1>3, <1>4, <1>5, QuietJob

\* A file is looked for.
LEMMA CheckKeeps ==
    ASSUME PackagesInv, NEW j \in Jobs, NEW c \in Contents, Check(j, c)
    PROVE  PackagesInv'
<1>1. TypeOK /\ JobsAreSane /\ SyncsCover /\ PinIsOfHost /\ source \in [Sources -> SourceRow]
  BY TypesByName DEF PackagesInv, CatalogueInv, CatalogueIsSound, SyncInv, TypeList
<1>2. PICK r \in JobRow, z \in Contents :
              /\ StepOf(j, r) /\ r.cur = {z} /\ r.seen = job[j].seen /\ r.src = job[j].src /\ r.kind = job[j].kind
              /\ r.pc \in {"fetch", "upsert"} /\ (r.pc = "upsert" => has(z))
  BY <1>1, CheckRecord
<1>3. \A q \in Contents : r.cur = {q} => r.pc = "fetch" \/ (r.pc = "upsert" /\ has(q))
  <2>1. \A q \in Contents : r.cur = {q} => q = z
    BY <1>2
  <2>. QED
    BY <1>2, <2>1
<1>4. UNCHANGED <<story, pkg, file, source, offer, started, events, contested, edited>>
  BY DEF Check
<1>5. PinIsOfHost'
  BY <1>1, <1>4 DEF PinIsOfHost
<1>. QED
  BY <1>1, <1>2, <1>3, <1>4, <1>5, QuietJob

\* A file does not arrive.
LEMMA FetchFailsKeeps ==
    ASSUME PackagesInv, NEW j \in Jobs, FetchFails(j)
    PROVE  PackagesInv'
<1>1. TypeOK /\ JobsAreSane /\ SyncsCover /\ PinIsOfHost /\ source \in [Sources -> SourceRow]
  BY TypesByName DEF PackagesInv, CatalogueInv, CatalogueIsSound, SyncInv, TypeList
<1>2. PICK r \in JobRow :
              /\ StepOf(j, r) /\ r.cur = {} /\ r.pc \in {"next", "idle"}
              /\ r.alone => r.seen = job[j].seen /\ r.src = job[j].src /\ r.kind = job[j].kind
  BY <1>1, FetchFailsRecord
<1>4. UNCHANGED <<story, pkg, file, source, offer, started, events, contested, edited>>
  BY DEF FetchFails
<1>5. PinIsOfHost'
  BY <1>1, <1>4 DEF PinIsOfHost
<1>. QED
  BY <1>1, <1>2, <1>4, <1>5, QuietJob

\* A sync or an import ends.
LEMMA FinishKeeps ==
    ASSUME PackagesInv, NEW j \in Jobs, Finish(j)
    PROVE  PackagesInv'
<1>1. TypeOK /\ JobsAreSane /\ SyncsCover /\ PinIsOfHost /\ source \in [Sources -> SourceRow] /\ Sane(job[j])
  BY TypesByName DEF PackagesInv, CatalogueInv, CatalogueIsSound, SyncInv, TypeList, JobsAreSane
<1>2. StepOf(j, Idle)
  BY EndRecord DEF Finish, At
<1>. DEFINE s == job[j].src
<1>3. source' = source \/ (s \in Sources /\ \E l \in {"failed", "ok"} : source' = [source EXCEPT ![s].last = l])
  BY <1>1 DEF Finish, At, Sane
<1>. HIDE DEF s
<1>4. source' \in [Sources -> SourceRow] /\ \A q \in Sources : source'[q].exists = source[q].exists
  BY <1>1, <1>3 DEF SourceRow
<1>5. PinIsOfHost'
  BY <1>1, <1>3 DEF SourceRow, PinIsOfHost
<1>6. UNCHANGED <<story, pkg, file, offer, started, events, contested, edited>>
  BY DEF Finish
<1>. QED
  BY <1>2, <1>4, <1>5, <1>6, QuietJob, IdleJob

\* The configuration of a source is written.
LEMMA SaveSourceRowKeeps ==
    ASSUME PackagesInv, NEW j \in Jobs, SaveSourceRow(j)
    PROVE  PackagesInv'
<1>1. TypeOK /\ JobsAreSane /\ SyncsCover /\ PinIsOfHost /\ source \in [Sources -> SourceRow] /\ Sane(job[j])
  BY TypesByName DEF PackagesInv, CatalogueInv, CatalogueIsSound, SyncInv, TypeList, JobsAreSane
<1>2. StepOf(j, Idle)
  BY EndRecord DEF SaveSourceRow, At
<1>. DEFINE s == job[j].src
            h == job[j].host
            p == job[j].pin
<1>3. s \in Sources /\ h \in Hosts /\ p \in {None, h}
  BY <1>1 DEF Sane, SaveSourceRow, At
<1>4. source' = source \/ source' = [source EXCEPT ![s].host = h, ![s].pin = p]
  BY DEF SaveSourceRow
<1>. HIDE DEF s, h, p
<1>5. source' \in [Sources -> SourceRow] /\ \A q \in Sources : source'[q].exists = source[q].exists
  BY <1>1, <1>3, <1>4 DEF SourceRow
<1>6. PinIsOfHost'
  BY <1>1, <1>3, <1>4 DEF SourceRow, PinIsOfHost
<1>7. UNCHANGED <<story, pkg, file, offer, started, events, contested, edited>>
  BY DEF SaveSourceRow
<1>. QED
  BY <1>2, <1>5, <1>6, <1>7, QuietJob, IdleJob

-------------------------------------------------------------------------------
(* Jobs start *)

\* A job that starts keeps the invariant.
LEMMA StartKeeps ==
    ASSUME PackagesInv, NEW j \in Jobs, NEW r \in JobRow, Sane(r), Covers(r), r.pc # "idle", r.seen = {},
           r.pc \notin {"upsert", "finish"}, r.mine = TRUE,
           job' = [k \in Jobs |-> IF k = j THEN r ELSE [job[k] EXCEPT !.alone = FALSE]],
           r.alone => \A i \in Jobs : job[i].pc = "idle",
           UNCHANGED <<story, pkg, file, source, offer, events, contested, edited>>, started' \in 0..story.jobs,
           \A c \in Contents : r.cur = {c} => r.pc \in {"fetch", "delete"} \/ (r.pc = "update" /\ ~pkg[c].verified)
    PROVE  PackagesInv'
<1>1. TypeOK /\ JobsAreSane /\ SyncsCover /\ AloneIsAlone /\ PinIsOfHost /\ TypeList
  BY TypesByName DEF PackagesInv, CatalogueInv, CatalogueIsSound, SyncInv
<1>2. /\ job' \in [Jobs -> JobRow] /\ job'[j] = r
      /\ \A i \in Jobs : i # j => /\ job'[i].pc = job[i].pc /\ job'[i].cur = job[i].cur /\ job'[i].mine = job[i].mine
                                  /\ job'[i].alone = FALSE
      /\ JobsAreSane' /\ SyncsCover' /\ AloneIsAlone'
  BY <1>1, StartJob
<1>3. TypeOK'
  <2>1. TypeList'
    BY <1>1, <1>2 DEF TypeList, ForeignKey
  <2>. QED
    BY <2>1, TypesByName
<1>4. PinIsOfHost'
  BY <1>1 DEF PinIsOfHost
<1>5. \A i \in Jobs, c \in Contents : job'[i].cur = {c} =>
              \/ job'[i].pc = job[i].pc /\ job[i].cur = {c} /\ job'[i].mine = job[i].mine
              \/ job'[i].pc = "upsert" /\ has(c)
              \/ job'[i].pc = "delete" /\ job'[i].mine
              \/ job'[i].pc = "update" /\ ~pkg[c].verified
              \/ job'[i].pc = "fetch"
  <2>. SUFFICES ASSUME NEW i \in Jobs, NEW c \in Contents, job'[i].cur = {c}
                PROVE  \/ job'[i].pc = job[i].pc /\ job[i].cur = {c} /\ job'[i].mine = job[i].mine
                       \/ job'[i].pc = "delete" /\ job'[i].mine
                       \/ job'[i].pc = "update" /\ ~pkg[c].verified
                       \/ job'[i].pc = "fetch"
    OBVIOUS
  <2>1. CASE i = j
    BY <1>2, <2>1
  <2>2. CASE i # j
    BY <1>2, <2>2
  <2>. QED
    BY <2>1, <2>2
<1>6. CatalogueInv'
  BY <1>2, <1>3, <1>4, <1>5, QuietStep
<1>7. AloneStands'
  BY <1>2 DEF AloneStands
<1>. QED
  BY <1>2, <1>6, <1>7 DEF PackagesInv, SyncInv

\* The records requests begin with.
LEMMA SyncStartKeeps ==
    ASSUME PackagesInv, NEW j \in Jobs, NEW s \in Sources, SyncStart(j, s)
    PROVE  PackagesInv'
<1>1. TypeOK /\ JobsAreSane /\ SyncsCover /\ TypeList
  BY TypesByName DEF PackagesInv, CatalogueInv, CatalogueIsSound, SyncInv
<1>. DEFINE h == source[s].host
            p == source[s].pin
            f == [Idle EXCEPT !.pc = "connect", !.src = s, !.host = h, !.pin = p]
<1>2. h \in Hosts /\ p \in Hosts \cup {None}
  BY <1>1 DEF TypeList, SourceRow
<1>3. Start(j, "sync", f)
  BY DEF SyncStart
<1>. HIDE DEF h, p
<1>4. f \in JobRow /\ "sync" \in JobKinds
  BY <1>2 DEF Idle, JobRow, JobKinds
<1>. HIDE DEF f
<1>5. PICK r \in JobRow : StartsAs(j, "sync", f, r)
  BY <1>1, <1>3, <1>4, StartRecord
<1>6. /\ r.pc = "connect" /\ r.kind = "sync" /\ r.src = s /\ r.host = h /\ r.cur = {} /\ r.seen = {} /\ r.listed = {} /\ r.todo = {}
      /\ r.mine = TRUE /\ r.failed = FALSE
  BY <1>5 DEF Idle, f, StartsAs
<1>7. Sane(r) /\ Covers(r)
  BY <1>2, <1>6 DEF Sane, Covers
<1>8. \A c \in Contents : r.cur # {c}
  BY <1>6
<1>. QED
  BY <1>5, <1>6, <1>7, <1>8, StartKeeps DEF StartsAs

\* The panel saves a source.
LEMMA SaveSourceKeeps ==
    ASSUME PackagesInv, NEW j \in Jobs, NEW s \in Sources, NEW h \in Hosts, SaveSource(j, s, h)
    PROVE  PackagesInv'
<1>1. TypeOK /\ JobsAreSane /\ SyncsCover /\ TypeList /\ PinIsOfHost
  BY TypesByName DEF PackagesInv, CatalogueInv, CatalogueIsSound, SyncInv
<1>0. PICK p \in {KeptPin(s, h), h} : Start(j, "save", [Idle EXCEPT !.pc = "save", !.src = s, !.host = h, !.pin = p])
  BY DEF SaveSource
<1>. DEFINE f == [Idle EXCEPT !.pc = "save", !.src = s, !.host = h, !.pin = p]
<1>2. p \in Hosts \cup {None} /\ p \in {None, h}
  BY <1>1 DEF TypeList, SourceRow, KeptPin, PinIsOfHost
<1>3. Start(j, "save", f)
  BY <1>0
<1>4. f \in JobRow /\ "save" \in JobKinds
  BY <1>2 DEF Idle, JobRow, JobKinds
<1>. HIDE DEF f
<1>5. PICK r \in JobRow : StartsAs(j, "save", f, r)
  BY <1>1, <1>3, <1>4, StartRecord
<1>6. r.pc = "save" /\ r.kind = "save" /\ r.src = s /\ r.host = h /\ r.pin = p /\ r.cur = {} /\ r.seen = {} /\ r.mine = TRUE
  BY <1>5 DEF Idle, f, StartsAs
<1>7. Sane(r) /\ Covers(r)
  BY <1>2, <1>6 DEF Sane, Covers
<1>8. \A c \in Contents : r.cur # {c}
  BY <1>6
<1>. QED
  BY <1>5, <1>6, <1>7, <1>8, StartKeeps DEF StartsAs

\* A bundle is imported.
LEMMA ImportBundleKeeps ==
    ASSUME PackagesInv, NEW j \in Jobs, NEW B \in SUBSET Contents, ImportBundle(j, B)
    PROVE  PackagesInv'
<1>1. TypeOK /\ JobsAreSane /\ SyncsCover
  BY DEF PackagesInv, CatalogueInv, CatalogueIsSound, SyncInv
<1>. DEFINE f == [Idle EXCEPT !.pc = "next", !.todo = B]
<1>3. Start(j, "bundle", f)
  BY DEF ImportBundle
<1>4. f \in JobRow /\ "bundle" \in JobKinds
  BY DEF Idle, JobRow, JobKinds
<1>. HIDE DEF f
<1>5. PICK r \in JobRow : StartsAs(j, "bundle", f, r)
  BY <1>1, <1>3, <1>4, StartRecord
<1>6. r.pc = "next" /\ r.kind = "bundle" /\ r.cur = {} /\ r.seen = {} /\ r.mine = TRUE
  BY <1>5 DEF Idle, f, StartsAs
<1>7. Sane(r) /\ Covers(r)
  BY <1>6 DEF Sane, Covers
<1>8. \A c \in Contents : r.cur # {c}
  BY <1>6
<1>. QED
  BY <1>5, <1>6, <1>7, <1>8, StartKeeps DEF StartsAs

\* What a request about content c begins with.
Asked(step, c) == [Idle EXCEPT !.pc = step, !.cur = {c}]

\* A request about one content: an upload, a deletion or an edit.
LEMMA RequestKeeps ==
    ASSUME PackagesInv, NEW j \in Jobs, NEW c \in Contents, NEW step, NEW kind,
           <<step, kind>> \in {<<"fetch", "upload">>, <<"delete", "delete">>, <<"update", "update">>},
           step = "update" => ~pkg[c].verified, Start(j, kind, Asked(step, c))
    PROVE  PackagesInv'
<1>1. TypeOK /\ JobsAreSane /\ SyncsCover
  BY DEF PackagesInv, CatalogueInv, CatalogueIsSound, SyncInv
<1>2. (step = "fetch" /\ kind = "upload") \/ (step = "delete" /\ kind = "delete") \/ (step = "update" /\ kind = "update")
  OBVIOUS
<1>. DEFINE f == Asked(step, c)
<1>3. Start(j, kind, f)
  OBVIOUS
<1>4. f \in JobRow /\ kind \in JobKinds
  BY <1>2 DEF Idle, JobRow, JobKinds, Asked
<1>. HIDE DEF f
<1>5. PICK r \in JobRow : StartsAs(j, kind, f, r)
  BY <1>1, <1>3, <1>4, StartRecord
<1>6. r.pc = step /\ r.kind = kind /\ r.cur = {c} /\ r.seen = {} /\ r.mine = TRUE /\ r.have = FALSE
  BY <1>5 DEF Idle, f, StartsAs, Asked
<1>7. Sane(r) /\ Covers(r)
  BY <1>2, <1>6 DEF Sane, Covers
<1>8. \A q \in Contents : r.cur = {q} => r.pc \in {"fetch", "delete"} \/ (r.pc = "update" /\ ~pkg[q].verified)
  <2>1. \A q \in Contents : r.cur = {q} => q = c
    BY <1>6
  <2>. QED
    BY <2>1, <1>2, <1>6
<1>. QED
  BY <1>2, <1>5, <1>6, <1>7, <1>8, StartKeeps DEF StartsAs

-------------------------------------------------------------------------------
(* The world *)

\* Nobody is alone any more.
LEMMA Disturbed ==
    ASSUME TypeOK, JobsAreSane, SyncsCover, AloneIsAlone, Disturb
    PROVE  /\ job' \in [Jobs -> JobRow] /\ JobsAreSane' /\ SyncsCover'
           /\ \A i \in Jobs : /\ job'[i].pc = job[i].pc /\ job'[i].cur = job[i].cur /\ job'[i].mine = job[i].mine
                              /\ job'[i].kind = job[i].kind /\ job'[i].alone = FALSE
<1>t. job \in [Jobs -> JobRow]
  BY TypesByName DEF TypeList
<1>1. ASSUME NEW i \in Jobs
      PROVE  /\ job'[i] \in JobRow /\ Sane(job'[i]) /\ Covers(job'[i])
             /\ job'[i].pc = job[i].pc /\ job'[i].cur = job[i].cur /\ job'[i].mine = job[i].mine
             /\ job'[i].kind = job[i].kind /\ job'[i].alone = FALSE
  <2>1. job'[i] = [job[i] EXCEPT !.alone = FALSE] /\ job[i] \in JobRow
    BY <1>t DEF Disturb
  <2>2. Sane(job[i]) /\ Covers(job[i]) /\ (job[i].pc # "idle" \/ job[i].alone = FALSE) /\ job[i].mine \in BOOLEAN
    BY <1>t, IdleJob DEF JobsAreSane, SyncsCover, Sane, JobRow
  <2>3. job'[i] \in JobRow /\ Sane(job'[i]) /\ Covers(job'[i])
    BY <2>1, <2>2, Marked
  <2>. QED
    BY <2>1, <2>3 DEF JobRow
<1>2. job' = [i \in Jobs |-> job'[i]]
  BY DEF Disturb
<1>3. job' \in [Jobs -> JobRow]
  BY <1>1, <1>2
<1>. QED
  BY <1>1, <1>3 DEF JobsAreSane, SyncsCover

\* An event.
LEMMA EventCounts ==
    ASSUME TypeOK, Event, UNCHANGED story
    PROVE  events' \in 0..story'.events
<1>1. events \in 0..story.events /\ story.events \in Nat
  BY StoryKinds, TypesByName DEF TypeList
<1>2. events < story.events /\ events' = events + 1
  BY DEF Event
<1>. QED
  BY <1>1, <1>2

\* The owner of a source changes what it offers.
LEMMA PublishKeeps ==
    ASSUME PackagesInv, NEW s \in Sources, NEW O \in SUBSET Contents, Publish(s, O)
    PROVE  PackagesInv'
<1>1. TypeOK /\ JobsAreSane /\ SyncsCover /\ AloneIsAlone /\ PinIsOfHost /\ TypeList
  BY TypesByName DEF PackagesInv, CatalogueInv, CatalogueIsSound, SyncInv
<1>2. Event /\ Disturb /\ offer' = [offer EXCEPT ![s] = O] /\ UNCHANGED <<story, pkg, file, source, started, contested, edited>>
  BY DEF Publish
<1>3. /\ job' \in [Jobs -> JobRow] /\ JobsAreSane' /\ SyncsCover'
      /\ \A i \in Jobs : /\ job'[i].pc = job[i].pc /\ job'[i].cur = job[i].cur /\ job'[i].mine = job[i].mine
                         /\ job'[i].kind = job[i].kind /\ job'[i].alone = FALSE
  BY <1>1, <1>2, Disturbed
<1>4. TypeOK'
  <2>1. events' \in 0..story'.events
    BY <1>1, <1>2, EventCounts
  <2>2. TypeList'
    BY <1>1, <1>2, <1>3, <2>1 DEF TypeList, ForeignKey
  <2>. QED
    BY <2>2, TypesByName
<1>5. PinIsOfHost'
  BY <1>1, <1>2 DEF PinIsOfHost
<1>6. CatalogueInv'
  BY <1>2, <1>3, <1>4, <1>5, QuietStep
<1>7. AloneIsAlone' /\ AloneStands'
  BY <1>3 DEF AloneIsAlone, AloneStands
<1>. QED
  BY <1>3, <1>6, <1>7 DEF PackagesInv, SyncInv

\* The process restarts.
LEMMA RestartKeeps ==
    ASSUME PackagesInv, Restart
    PROVE  PackagesInv'
<1>1. TypeOK /\ PinIsOfHost /\ TypeList
  BY TypesByName DEF PackagesInv, CatalogueInv, CatalogueIsSound, SyncInv
<1>2. Event /\ job' = [j \in Jobs |-> Idle] /\ UNCHANGED <<story, pkg, file, source, offer, started, contested, edited>>
  BY DEF Restart
<1>3. \A i \in Jobs : job'[i] = Idle
  BY <1>2
<1>4. TypeOK'
  <2>1. events' \in 0..story'.events
    BY <1>1, <1>2, EventCounts
  <2>2. job' \in [Jobs -> JobRow]
    BY <1>2, IdleJob
  <2>3. TypeList'
    BY <1>1, <1>2, <2>1, <2>2 DEF TypeList, ForeignKey
  <2>. QED
    BY <2>3, TypesByName
<1>5. PinIsOfHost'
  BY <1>1, <1>2 DEF PinIsOfHost
<1>6. JobsAreSane' /\ SyncsCover' /\ AloneIsAlone' /\ AloneStands'
  BY <1>3, IdleJob DEF JobsAreSane, SyncsCover, AloneIsAlone, AloneStands
<1>7. CatalogueInv'
  <2>1. \A i \in Jobs, c \in Contents : job'[i].cur # {c}
    BY <1>3, IdleJob
  <2>. QED
    BY <1>2, <1>4, <1>5, <1>6, <2>1, QuietStep
<1>. QED
  BY <1>6, <1>7 DEF PackagesInv, SyncInv

\* A source is deleted; its packages stay.
LEMMA DeleteSourceKeeps ==
    ASSUME PackagesInv, NEW s \in Sources, DeleteSource(s)
    PROVE  PackagesInv'
<1>1. TypeOK /\ JobsAreSane /\ SyncsCover /\ AloneIsAlone /\ PinIsOfHost /\ TypeList
  BY TypesByName DEF PackagesInv, CatalogueInv, CatalogueIsSound, SyncInv
<1>2. /\ Event /\ Disturb /\ source' = [source EXCEPT ![s].exists = FALSE] /\ pkg' = Unlinked(s)
      /\ UNCHANGED <<story, file, offer, started, contested, edited>>
  BY DEF DeleteSource
<1>3. /\ job' \in [Jobs -> JobRow] /\ JobsAreSane' /\ SyncsCover'
      /\ \A i \in Jobs : /\ job'[i].pc = job[i].pc /\ job'[i].cur = job[i].cur /\ job'[i].mine = job[i].mine
                         /\ job'[i].kind = job[i].kind /\ job'[i].alone = FALSE
  BY <1>1, <1>2, Disturbed
<1>4. pkg' \in [Contents -> PackageRow]
  BY <1>1, <1>2 DEF TypeList, Unlinked, PackageRow
<1>5. \A c \in Contents : /\ pkg'[c].row = pkg[c].row /\ pkg'[c].verified = pkg[c].verified /\ pkg'[c].meta = pkg[c].meta
                          /\ pkg'[c].src # None => pkg'[c].src = pkg[c].src /\ pkg[c].src # s
  BY <1>1, <1>2 DEF TypeList, Unlinked, PackageRow
<1>6. source' \in [Sources -> SourceRow] /\ PinIsOfHost' /\ \A q \in Sources : q # s => source'[q].exists = source[q].exists
  BY <1>1, <1>2 DEF TypeList, SourceRow, PinIsOfHost
<1>7. TypeOK'
  <2>1. events' \in 0..story'.events
    BY <1>1, <1>2, EventCounts
  <2>2. \A c \in Contents : pkg[c].src # None => pkg[c].src \in Sources
    BY <1>1 DEF TypeList, PackageRow
  <2>3. ForeignKey'
    BY <1>1, <1>5, <1>6, <2>2 DEF TypeList, ForeignKey
  <2>4. TypeList'
    BY <1>1, <1>2, <1>3, <1>4, <1>6, <2>1, <2>3 DEF TypeList
  <2>. QED
    BY <2>4, TypesByName
<1>8. RowHasFile' /\ VerifiedIsSigned' /\ DeletionsAreSeen' /\ StoredBeforeRow' /\ EditsAreSeen'
  <2>1. RowHasFile /\ VerifiedIsSigned /\ DeletionsAreSeen /\ StoredBeforeRow /\ EditsAreSeen
    BY DEF PackagesInv, CatalogueInv, CatalogueIsSound
  <2>2. RowHasFile' /\ VerifiedIsSigned'
    BY <1>2, <1>5, <2>1 DEF RowHasFile, VerifiedIsSigned
  <2>3. DeletionsAreSeen'
    BY <1>2, <1>3, <1>5, <2>1 DEF DeletionsAreSeen
  <2>4. StoredBeforeRow' /\ EditsAreSeen'
    BY <1>2, <1>3, <1>5, <2>1 DEF StoredBeforeRow, EditsAreSeen
  <2>. QED
    BY <2>2, <2>3, <2>4
<1>9. AloneIsAlone' /\ AloneStands'
  BY <1>3 DEF AloneIsAlone, AloneStands
<1>. QED
  BY <1>3, <1>6, <1>7, <1>8, <1>9 DEF PackagesInv, CatalogueInv, CatalogueIsSound, SyncInv

-------------------------------------------------------------------------------
(* Steps that change rows and files *)

\* A file arrives.
LEMMA FetchKeeps ==
    ASSUME PackagesInv, NEW j \in Jobs, NEW c \in Contents, NEW y \in Contents, Fetch(j, c, y)
    PROVE  PackagesInv'
<1>1. /\ TypeOK /\ JobsAreSane /\ SyncsCover /\ AloneIsAlone /\ AloneStands /\ PinIsOfHost /\ TypeList
      /\ RowHasFile /\ VerifiedIsSigned /\ DeletionsAreSeen /\ StoredBeforeRow /\ EditsAreSeen
  BY TypesByName DEF PackagesInv, CatalogueInv, CatalogueIsSound, SyncInv
<1>2. PICK r \in JobRow :
              /\ StepOf(j, r) /\ r.cur = {y} /\ r.seen = job[j].seen /\ r.src = job[j].src /\ r.kind = job[j].kind
              /\ r.pc = "upsert" /\ r.have = FALSE
  BY <1>1, FetchRecord
<1>3. /\ job' \in [Jobs -> JobRow] /\ job'[j] = r /\ \A i \in Jobs : i # j => job'[i] = job[i]
      /\ JobsAreSane' /\ SyncsCover' /\ AloneIsAlone' /\ \A i \in Jobs : job'[i].alone => i = j
  BY <1>1, <1>2, StepKeepsJobs
<1>4. /\ file' = file \cup {y} /\ contested' = IF Deleting(y) THEN contested \cup {y} ELSE contested \ {y}
      /\ UNCHANGED <<story, pkg, source, offer, started, events, edited>>
  BY DEF Fetch
<1>5. TypeOK' /\ PinIsOfHost'
  <2>1. contested' \in SUBSET Contents /\ file' \in SUBSET Contents
    BY <1>1, <1>4 DEF TypeList
  <2>2. TypeList'
    BY <1>1, <1>3, <1>4, <2>1 DEF TypeList, ForeignKey
  <2>. QED
    BY <1>1, <1>4, <2>2, TypesByName DEF PinIsOfHost
<1>6. \A q \in Contents : q \in file \cup contested => q \in file' \cup contested'
  BY <1>4
<1>7. RowHasFile' /\ VerifiedIsSigned'
  BY <1>1, <1>4, <1>6 DEF RowHasFile, VerifiedIsSigned
<1>8. StoredBeforeRow'
  <2>1. \A q \in Contents : r.cur = {q} => q \in file'
    BY <1>2, <1>4
  <2>. QED
    BY <1>1, <1>3, <1>6, <2>1 DEF StoredBeforeRow
<1>9. EditsAreSeen'
  BY <1>1, <1>2, <1>3, <1>4 DEF EditsAreSeen
<1>10. DeletionsAreSeen'
  <2>. SUFFICES ASSUME NEW k \in Jobs, NEW q \in Contents, job'[k].cur = {q}, job'[k].pc \in {"delete", "remove"}
                PROVE  /\ job'[k].pc = "remove" /\ (pkg[q].row \/ \E i \in Jobs : job'[i].pc = "upsert" /\ job'[i].cur = {q}) => q \in contested'
                       /\ job'[k].pc = "delete" /\ ~job'[k].mine /\ pkg[q].row => q \in contested'
    BY <1>4 DEF DeletionsAreSeen
  <2>1. k # j /\ job'[k] = job[k]
    BY <1>2, <1>3
  <2>2. job[k].kind = "delete"
    BY <1>1, <2>1 DEF JobsAreSane, Sane
  <2>3. CASE q = y
    BY <1>4, <2>1, <2>2, <2>3 DEF Deleting
  <2>4. CASE q # y
    <3>1. q \in contested => q \in contested'
      BY <1>4, <2>4
    <3>2. \A i \in Jobs : job'[i].pc = "upsert" /\ job'[i].cur = {q} => job[i].pc = "upsert" /\ job[i].cur = {q}
      BY <1>2, <1>3, <2>4
    <3>. QED
      BY <1>1, <2>1, <3>1, <3>2 DEF DeletionsAreSeen
  <2>. QED
    BY <2>3, <2>4
<1>11. AloneStands'
  <2>. SUFFICES ASSUME r.alone, r.kind = "sync"
                PROVE  /\ \A x \in r.seen : Standing(r.src, x)'
                       /\ \A q \in Contents : r.pc = "upsert" /\ r.cur = {q} => q \in file' /\ (r.have => pkg'[q].row)
                       /\ r.pc # "finish"
    BY <1>3 DEF AloneStands, Standing
  <2>1. job[j].alone /\ job[j].kind = "sync"
    BY <1>2 DEF StepOf
  <2>2. \A x \in r.seen : Standing(r.src, x)
    BY <1>1, <1>2, <2>1 DEF AloneStands
  <2>3. \A x \in r.seen : Standing(r.src, x)'
    BY <1>4, <2>2 DEF Standing
  <2>. QED
    BY <1>2, <1>4, <2>3
<1>. QED
  BY <1>3, <1>5, <1>7, <1>8, <1>9, <1>10, <1>11 DEF PackagesInv, CatalogueInv, CatalogueIsSound, SyncInv

\* The row of a content after upsert: as it was, no longer withdrawn, or new.
LEMMA UpsertRow ==
    ASSUME TypeOK, NEW j \in Jobs, NEW c \in Contents, upsert(j, c)
    PROVE  /\ pkg' \in [Contents -> PackageRow] /\ \A q \in Contents : q # c => pkg'[q] = pkg[q]
           /\ \/ /\ pkg'[c] = pkg[c]
                 /\ ~(job[j].have /\ ~Verified(j) /\ pkg[c].row) /\ ((job[j].have /\ ~Verified(j)) \/ Orphan(j, c))
              \/ /\ pkg'[c].row /\ ~pkg'[c].withdrawn /\ pkg'[c].verified = pkg[c].verified /\ pkg'[c].meta = pkg[c].meta
                 /\ pkg'[c].src = pkg[c].src /\ pkg[c].row /\ ~Verified(j)
              \/ /\ pkg'[c].row /\ ~pkg'[c].withdrawn /\ pkg'[c].verified = Verified(j) /\ pkg'[c].src = job[j].src
                 /\ (Verified(j) => pkg'[c].meta = "signed") /\ (Verified(j) \/ ~pkg[c].row) /\ ~Orphan(j, c)
<1>t. pkg \in [Contents -> PackageRow] /\ pkg[c] \in PackageRow /\ job[j] \in JobRow
  BY TypesByName DEF TypeList
<1>. DEFINE touch == job[j].have /\ ~Verified(j)
            Ok == touch \/ ~Orphan(j, c)
<1>1. pkg' = IF (touch /\ ~pkg[c].row) \/ ~Ok THEN pkg ELSE [pkg EXCEPT ![c] = Upserted(j, c)]
  BY DEF upsert
<1>2. CASE (touch /\ ~pkg[c].row) \/ ~Ok
  BY <1>t, <1>1, <1>2
<1>3. CASE ~((touch /\ ~pkg[c].row) \/ ~Ok) /\ (Verified(j) \/ ~pkg[c].row)
  <2>1. PICK v \in BOOLEAN : v = Verified(j)
    BY DEF Verified
  <2>. DEFINE m == IF v THEN "signed" ELSE "guessed"
              p == [row |-> TRUE, src |-> job[j].src, verified |-> v, withdrawn |-> FALSE, meta |-> m]
  <2>2. pkg' = [pkg EXCEPT ![c] = p]
    BY <1>1, <1>3, <2>1 DEF Upserted
  <2>3. p \in PackageRow
    BY <1>t DEF PackageRow, JobRow
  <2>4. pkg' \in [Contents -> PackageRow] /\ pkg'[c] = p /\ \A q \in Contents : q # c => pkg'[q] = pkg[q]
    BY <1>t, <2>2, <2>3
  <2>5. p.row /\ ~p.withdrawn /\ p.verified = v /\ p.src = job[j].src /\ (v => p.meta = "signed")
    OBVIOUS
  <2>6. ~Orphan(j, c)
    BY <1>3
  <2>. HIDE DEF p
  <2>. QED
    BY <1>3, <2>1, <2>4, <2>5, <2>6
<1>4. CASE ~((touch /\ ~pkg[c].row) \/ ~Ok) /\ ~(Verified(j) \/ ~pkg[c].row)
  <2>. DEFINE p == [pkg[c] EXCEPT !.withdrawn = FALSE]
  <2>1. pkg' = [pkg EXCEPT ![c] = p]
    BY <1>1, <1>4 DEF Upserted
  <2>2. /\ p \in PackageRow /\ p.row = pkg[c].row /\ p.withdrawn = FALSE /\ p.verified = pkg[c].verified
        /\ p.meta = pkg[c].meta /\ p.src = pkg[c].src
    BY <1>t DEF PackageRow
  <2>. HIDE DEF p
  <2>3. pkg' \in [Contents -> PackageRow] /\ pkg'[c] = p /\ \A q \in Contents : q # c => pkg'[q] = pkg[q]
    BY <1>t, <2>1, <2>2
  <2>. QED
    BY <1>4, <2>2, <2>3
<1>. QED
  BY <1>2, <1>3, <1>4

\* What upsert notes beside the row.
LEMMA UpsertNotes ==
    ASSUME TypeOK, NEW j \in Jobs, NEW c \in Contents, upsert(j, c)
    PROVE  /\ contested' \in SUBSET Contents /\ contested \subseteq contested' /\ (Deleting(c) => c \in contested')
           /\ edited' \in SUBSET Contents /\ \A q \in Contents : q # c => (q \in edited' <=> q \in edited)
           /\ IF ~Verified(j) \/ Orphan(j, c) THEN edited' = edited
              ELSE (\E k \in Jobs : job[k].kind = "update" /\ job[k].cur = {c}) => c \in edited'
           /\ UNCHANGED <<story, file, source, offer, started, events>> /\ job[j].pc = "upsert" /\ job[j].cur = {c}
<1>1. contested \in SUBSET Contents /\ edited \in SUBSET Contents
  BY TypesByName DEF TypeList
<1>2. contested' = IF Deleting(c) THEN contested \cup {c} ELSE contested
  BY DEF upsert
<1>3. edited' = IF ~Verified(j) \/ Orphan(j, c) THEN edited
                ELSE IF \E k \in Jobs : job[k].kind = "update" /\ job[k].cur = {c} THEN edited \cup {c} ELSE edited \ {c}
  BY DEF upsert
<1>4. UNCHANGED <<story, file, source, offer, started, events>> /\ job[j].pc = "upsert" /\ job[j].cur = {c}
  BY DEF upsert, At
<1>. QED
  BY <1>1, <1>2, <1>3, <1>4

\* A row is written.
LEMMA UpsertKeeps ==
    ASSUME PackagesInv, NEW j \in Jobs, NEW c \in Contents, upsert(j, c)
    PROVE  PackagesInv'
<1>1. /\ TypeOK /\ JobsAreSane /\ SyncsCover /\ AloneIsAlone /\ AloneStands /\ PinIsOfHost /\ TypeList
      /\ RowHasFile /\ VerifiedIsSigned /\ DeletionsAreSeen /\ StoredBeforeRow /\ EditsAreSeen
  BY TypesByName DEF PackagesInv, CatalogueInv, CatalogueIsSound, SyncInv
<1>2. PICK r \in JobRow :
              /\ StepOf(j, r) /\ r.cur = {} /\ r.pc \in {"next", "idle"}
              /\ r.alone => r.src = job[j].src /\ r.kind = job[j].kind /\ r.seen \subseteq job[j].seen \cup {c}
              /\ r.alone /\ c \in r.seen => c \in job[j].seen \/ (job[j].have /\ ~Verified(j)) \/ ~Orphan(j, c)
  BY <1>1, UpsertRecord
<1>3. /\ job' \in [Jobs -> JobRow] /\ job'[j] = r /\ \A i \in Jobs : i # j => job'[i] = job[i]
      /\ JobsAreSane' /\ SyncsCover' /\ AloneIsAlone' /\ \A i \in Jobs : job'[i].alone => i = j
  BY <1>1, <1>2, StepKeepsJobs
<1>4. /\ contested' \in SUBSET Contents /\ contested \subseteq contested' /\ (Deleting(c) => c \in contested')
      /\ edited' \in SUBSET Contents /\ \A q \in Contents : q # c => (q \in edited' <=> q \in edited)
      /\ IF ~Verified(j) \/ Orphan(j, c) THEN edited' = edited
         ELSE (\E k \in Jobs : job[k].kind = "update" /\ job[k].cur = {c}) => c \in edited'
      /\ UNCHANGED <<story, file, source, offer, started, events>> /\ job[j].pc = "upsert" /\ job[j].cur = {c}
  BY <1>1, UpsertNotes
<1>. DEFINE Same3 == /\ pkg'[c] = pkg[c]
                     /\ ~(job[j].have /\ ~Verified(j) /\ pkg[c].row) /\ ((job[j].have /\ ~Verified(j)) \/ Orphan(j, c))
            Back == /\ pkg'[c].row /\ ~pkg'[c].withdrawn /\ pkg'[c].verified = pkg[c].verified /\ pkg'[c].meta = pkg[c].meta
                    /\ pkg'[c].src = pkg[c].src /\ pkg[c].row /\ ~Verified(j)
            New == /\ pkg'[c].row /\ ~pkg'[c].withdrawn /\ pkg'[c].verified = Verified(j) /\ pkg'[c].src = job[j].src
                   /\ (Verified(j) => pkg'[c].meta = "signed") /\ (Verified(j) \/ ~pkg[c].row) /\ ~Orphan(j, c)
<1>5. pkg' \in [Contents -> PackageRow] /\ \A q \in Contents : q # c => pkg'[q] = pkg[q]
  BY <1>1, UpsertRow
<1>6. Same3 \/ Back \/ New
  BY <1>1, UpsertRow
<1>7. TypeOK' /\ PinIsOfHost'
  <2>1. New => (pkg'[c].src # None => source[pkg'[c].src].exists)
    BY DEF Orphan
  <2>2. pkg'[c].src # None => source[pkg'[c].src].exists
    BY <1>1, <1>6, <2>1 DEF TypeList, ForeignKey
  <2>3. ForeignKey'
    BY <1>1, <1>4, <1>5, <2>2 DEF TypeList, ForeignKey
  <2>4. TypeList'
    BY <1>1, <1>3, <1>4, <1>5, <2>3 DEF TypeList
  <2>. QED
    BY <1>1, <1>4, <2>4, TypesByName DEF PinIsOfHost
<1>8. RowHasFile' /\ StoredBeforeRow'
  <2>1. c \in file \cup contested
    BY <1>1, <1>4 DEF StoredBeforeRow
  <2>2. RowHasFile'
    BY <1>1, <1>4, <1>5, <2>1 DEF RowHasFile
  <2>3. StoredBeforeRow'
    BY <1>1, <1>2, <1>3, <1>4 DEF StoredBeforeRow
  <2>. QED
    BY <2>2, <2>3
<1>9. pkg'[c].verified => pkg'[c].meta = "signed" \/ c \in edited'
  <2>1. CASE Same3
    BY <1>1, <1>4, <2>1 DEF VerifiedIsSigned
  <2>2. CASE Back
    BY <1>1, <1>4, <2>2 DEF VerifiedIsSigned
  <2>3. CASE New
    BY <2>3
  <2>. QED
    BY <1>6, <2>1, <2>2, <2>3
<1>10. VerifiedIsSigned'
  BY <1>1, <1>4, <1>5, <1>9 DEF VerifiedIsSigned
<1>11. EditsAreSeen'
  <2>. SUFFICES ASSUME NEW k \in Jobs, NEW q \in Contents, job'[k].pc = "update", job'[k].mine, job'[k].cur = {q}, pkg'[q].verified
                PROVE  q \in edited'
    BY DEF EditsAreSeen
  <2>1. k # j /\ job'[k] = job[k] /\ job[k].kind = "update"
    BY <1>1, <1>2, <1>3 DEF JobsAreSane, Sane
  <2>2. CASE q # c
    BY <1>1, <1>4, <1>5, <2>1, <2>2 DEF EditsAreSeen
  <2>3. ASSUME q = c, pkg[c].verified, edited' = edited PROVE q \in edited'
    BY <1>1, <2>1, <2>3 DEF EditsAreSeen
  <2>4. ASSUME q = c, Same3 PROVE q \in edited'
    BY <1>4, <2>3, <2>4
  <2>5. ASSUME q = c, Back PROVE q \in edited'
    BY <1>4, <2>3, <2>5
  <2>6. ASSUME q = c, New PROVE q \in edited'
    BY <1>4, <2>1, <2>6
  <2>. QED
    BY <1>6, <2>2, <2>4, <2>5, <2>6
<1>12. DeletionsAreSeen'
  <2>. SUFFICES ASSUME NEW k \in Jobs, NEW q \in Contents, job'[k].cur = {q}, job'[k].pc \in {"delete", "remove"}
                PROVE  /\ job'[k].pc = "remove" /\ (pkg'[q].row \/ \E i \in Jobs : job'[i].pc = "upsert" /\ job'[i].cur = {q}) => q \in contested'
                       /\ job'[k].pc = "delete" /\ ~job'[k].mine /\ pkg'[q].row => q \in contested'
    BY DEF DeletionsAreSeen
  <2>1. k # j /\ job'[k] = job[k]
    BY <1>2, <1>3
  <2>2. job[k].kind = "delete"
    BY <1>1, <2>1 DEF JobsAreSane, Sane
  <2>3. CASE q = c
    BY <1>4, <2>1, <2>2, <2>3 DEF Deleting
  <2>4. CASE q # c
    <3>1. q \in contested => q \in contested' /\ pkg'[q] = pkg[q]
      BY <1>4, <1>5, <2>4
    <3>2. \A i \in Jobs : job'[i].pc = "upsert" /\ job'[i].cur = {q} => job[i].pc = "upsert" /\ job[i].cur = {q}
      BY <1>2, <1>3
    <3>3. /\ job[k].pc = "remove" /\ (pkg[q].row \/ \E i \in Jobs : job[i].pc = "upsert" /\ job[i].cur = {q}) => q \in contested
          /\ job[k].pc = "delete" /\ ~job[k].mine /\ pkg[q].row => q \in contested
      BY <1>1, <2>1 DEF DeletionsAreSeen
    <3>4. pkg'[q].row = pkg[q].row
      BY <1>5, <2>4
    <3>. QED
      BY <2>1, <3>1, <3>2, <3>3, <3>4
  <2>. QED
    BY <2>3, <2>4
<1>13. AloneStands'
  <2>. SUFFICES ASSUME r.alone, r.kind = "sync" PROVE \A x \in r.seen : Standing(r.src, x)'
    BY <1>2, <1>3 DEF AloneStands, Standing
  <2>1. job[j].alone /\ job[j].kind = "sync" /\ r.src = job[j].src /\ r.seen \subseteq job[j].seen \cup {c}
    BY <1>2 DEF StepOf
  <2>2. \A x \in job[j].seen : Standing(r.src, x)
    BY <1>1, <2>1 DEF AloneStands
  <2>3. c \in file /\ (job[j].have => pkg[c].row)
    BY <1>1, <1>4, <2>1 DEF AloneStands
  <2>4. r.src \in Signed <=> Verified(j)
    BY <2>1 DEF Verified
  <2>5. ASSUME NEW x \in r.seen, x # c PROVE Standing(r.src, x)'
    <3>1. x \in job[j].seen /\ x \in Contents
      BY <2>1, <2>5 DEF JobRow
    <3>2. pkg'[x] = pkg[x] /\ file' = file
      BY <1>4, <1>5, <2>5, <3>1
    <3>. QED
      BY <2>2, <3>1, <3>2 DEF Standing
  <2>6. ASSUME c \in r.seen PROVE Standing(r.src, c)'
    <3>1. CASE New
      BY <1>4, <2>3, <2>4, <3>1 DEF Standing
    <3>2. CASE Back
      BY <1>4, <2>3, <2>4, <3>2 DEF Standing
    <3>3. CASE Same3
      <4>1. c \in job[j].seen
        BY <1>2, <2>3, <2>6, <3>3
      <4>. QED
        BY <1>4, <2>2, <3>3, <4>1 DEF Standing
    <3>. QED
      BY <1>6, <3>1, <3>2, <3>3
  <2>. QED
    BY <2>5, <2>6
<1>. QED
  BY <1>3, <1>7, <1>8, <1>10, <1>11, <1>12, <1>13 DEF PackagesInv, CatalogueInv, CatalogueIsSound, SyncInv

\* What Withdraw makes of a row.
LEMMA WithdrawRow ==
    ASSUME TypeOK, NEW j \in Jobs, Withdraw(j)
    PROVE  /\ pkg' \in [Contents -> PackageRow]
           /\ \A c \in Contents :
                 IF MayWithdraw(j) /\ pkg[c].src = job[j].src /\ pkg[c].row /\ c \notin job[j].seen
                 THEN /\ pkg'[c].row = pkg[c].row /\ pkg'[c].src = pkg[c].src /\ pkg'[c].verified = pkg[c].verified
                      /\ pkg'[c].meta = pkg[c].meta /\ pkg'[c].withdrawn
                 ELSE pkg'[c] = pkg[c]
<1>t. pkg \in [Contents -> PackageRow]
  BY TypesByName DEF TypeList
<1>1. pkg' = [c \in Contents |-> IF MayWithdraw(j) /\ pkg[c].src = job[j].src /\ pkg[c].row /\ c \notin job[j].seen
                                 THEN [pkg[c] EXCEPT !.withdrawn = TRUE] ELSE pkg[c]]
  BY DEF Withdraw
<1>2. ASSUME NEW c \in Contents
      PROVE  /\ [pkg[c] EXCEPT !.withdrawn = TRUE] \in PackageRow /\ pkg[c] \in PackageRow
             /\ [pkg[c] EXCEPT !.withdrawn = TRUE].row = pkg[c].row /\ [pkg[c] EXCEPT !.withdrawn = TRUE].src = pkg[c].src
             /\ [pkg[c] EXCEPT !.withdrawn = TRUE].verified = pkg[c].verified
             /\ [pkg[c] EXCEPT !.withdrawn = TRUE].meta = pkg[c].meta
             /\ [pkg[c] EXCEPT !.withdrawn = TRUE].withdrawn = TRUE
  BY <1>t DEF PackageRow
<1>. QED
  BY <1>1, <1>2

\* What is no longer offered is withdrawn.
LEMMA WithdrawKeeps ==
    ASSUME PackagesInv, NEW j \in Jobs, Withdraw(j)
    PROVE  PackagesInv'
<1>1. /\ TypeOK /\ JobsAreSane /\ SyncsCover /\ AloneIsAlone /\ AloneStands /\ PinIsOfHost /\ TypeList
      /\ RowHasFile /\ VerifiedIsSigned /\ DeletionsAreSeen /\ StoredBeforeRow /\ EditsAreSeen
  BY TypesByName DEF PackagesInv, CatalogueInv, CatalogueIsSound, SyncInv
<1>2. PICK r \in JobRow :
              /\ StepOf(j, r) /\ r.pc = "finish" /\ r.cur = {} /\ r.seen = job[j].seen /\ r.src = job[j].src
              /\ r.kind = job[j].kind /\ r.failed = job[j].failed
  BY <1>1, WithdrawRecord
<1>3. /\ job' \in [Jobs -> JobRow] /\ job'[j] = r /\ \A i \in Jobs : i # j => job'[i] = job[i]
      /\ JobsAreSane' /\ SyncsCover' /\ AloneIsAlone' /\ \A i \in Jobs : job'[i].alone => i = j
  BY <1>1, <1>2, StepKeepsJobs
<1>4. UNCHANGED <<story, file, source, offer, started, events, contested, edited>>
  BY DEF Withdraw
<1>5. /\ pkg' \in [Contents -> PackageRow]
      /\ \A c \in Contents :
            IF MayWithdraw(j) /\ pkg[c].src = job[j].src /\ pkg[c].row /\ c \notin job[j].seen
            THEN /\ pkg'[c].row = pkg[c].row /\ pkg'[c].src = pkg[c].src /\ pkg'[c].verified = pkg[c].verified
                 /\ pkg'[c].meta = pkg[c].meta /\ pkg'[c].withdrawn
            ELSE pkg'[c] = pkg[c]
  BY <1>1, WithdrawRow
<1>6. \A c \in Contents : /\ pkg'[c].row = pkg[c].row /\ pkg'[c].src = pkg[c].src /\ pkg'[c].verified = pkg[c].verified
                          /\ pkg'[c].meta = pkg[c].meta
  BY <1>5
<1>7. TypeOK' /\ PinIsOfHost'
  <2>1. ForeignKey'
    BY <1>1, <1>4, <1>6 DEF TypeList, ForeignKey
  <2>2. TypeList'
    BY <1>1, <1>3, <1>4, <1>5, <2>1 DEF TypeList
  <2>. QED
    BY <1>1, <1>4, <2>2, TypesByName DEF PinIsOfHost
<1>8. RowHasFile' /\ VerifiedIsSigned'
  BY <1>1, <1>4, <1>6 DEF RowHasFile, VerifiedIsSigned
<1>9. StoredBeforeRow' /\ EditsAreSeen'
  BY <1>1, <1>2, <1>3, <1>4, <1>6 DEF StoredBeforeRow, EditsAreSeen
<1>10. DeletionsAreSeen'
  <2>1. \A i \in Jobs, q \in Contents : job'[i].cur = {q} => job'[i] = job[i]
    BY <1>2, <1>3
  <2>. QED
    BY <1>1, <1>4, <1>6, <2>1 DEF DeletionsAreSeen
<1>11. AloneStands'
  <2>. SUFFICES ASSUME r.alone, r.kind = "sync"
                PROVE  /\ \A x \in r.seen : Standing(r.src, x)'
                       /\ ~r.failed => \A c \in Contents : pkg'[c].row /\ pkg'[c].src = r.src /\ c \notin r.seen => pkg'[c].withdrawn
    BY <1>2, <1>3 DEF AloneStands, Standing
  <2>1. \A x \in r.seen : x \in Contents /\ Standing(r.src, x)
    BY <1>1, <1>2 DEF AloneStands, StepOf, JobRow
  <2>2. \A x \in r.seen : pkg'[x] = pkg[x]
    BY <1>2, <1>5, <2>1
  <2>3. ~r.failed => MayWithdraw(j)
    BY <1>2 DEF MayWithdraw
  <2>4. \A x \in r.seen : Standing(r.src, x)'
    BY <1>4, <2>1, <2>2 DEF Standing
  <2>. QED
    BY <1>2, <1>5, <1>6, <2>3, <2>4
<1>. QED
  BY <1>3, <1>7, <1>8, <1>9, <1>10, <1>11 DEF PackagesInv, CatalogueInv, CatalogueIsSound, SyncInv

\* A row is deleted.
LEMMA DeleteRowKeeps ==
    ASSUME PackagesInv, NEW j \in Jobs, NEW c \in Contents, DeleteRow(j, c)
    PROVE  PackagesInv'
<1>1. /\ TypeOK /\ JobsAreSane /\ SyncsCover /\ AloneIsAlone /\ AloneStands /\ PinIsOfHost /\ TypeList
      /\ RowHasFile /\ VerifiedIsSigned /\ DeletionsAreSeen /\ StoredBeforeRow /\ EditsAreSeen
  BY TypesByName DEF PackagesInv, CatalogueInv, CatalogueIsSound, SyncInv
<1>2. /\ job' \in [Jobs -> JobRow] /\ JobsAreSane' /\ SyncsCover'
      /\ job[j].pc = "delete" /\ job'[j].pc = "remove" /\ job[j].cur = {c} /\ job[j].kind = "delete"
      /\ \A i \in Jobs : /\ job'[i].cur = job[i].cur /\ job'[i].alone = job[i].alone /\ job'[i].kind = job[i].kind
                         /\ i # j => job'[i].pc = job[i].pc /\ (job'[i].mine => job[i].mine)
                         /\ job[i].mine /\ ~job'[i].mine => job[i].cur = {c}
                         /\ i # j /\ job[i].cur = {c} /\ job[i].pc = "update" => ~job'[i].mine
  BY <1>1, DeleteRowRecord
<1>3. /\ pkg' = (IF job[j].mine THEN [pkg EXCEPT ![c] = NoPackage] ELSE pkg)
      /\ contested' = (IF Writing(c) THEN contested \cup {c} ELSE contested)
      /\ UNCHANGED <<story, file, source, offer, started, events, edited>>
  BY DEF DeleteRow
<1>4. NoPackage \in PackageRow /\ NoPackage.row = FALSE /\ NoPackage.src = None /\ NoPackage.verified = FALSE
  BY DEF NoPackage, PackageRow
<1>5. /\ pkg' \in [Contents -> PackageRow] /\ \A q \in Contents : q # c => pkg'[q] = pkg[q]
      /\ pkg'[c] = pkg[c] \/ pkg'[c] = NoPackage
      /\ job[j].mine => pkg'[c] = NoPackage
  BY <1>1, <1>3, <1>4 DEF TypeList
<1>6. contested' \in SUBSET Contents /\ contested \subseteq contested' /\ (Writing(c) => c \in contested')
  BY <1>1, <1>3 DEF TypeList
<1>7. TypeOK' /\ PinIsOfHost'
  <2>1. ForeignKey'
    BY <1>1, <1>3, <1>4, <1>5 DEF TypeList, ForeignKey
  <2>2. TypeList'
    BY <1>1, <1>2, <1>3, <1>5, <1>6, <2>1 DEF TypeList
  <2>. QED
    BY <1>1, <1>3, <2>2, TypesByName DEF PinIsOfHost
<1>8. RowHasFile' /\ VerifiedIsSigned'
  BY <1>1, <1>3, <1>4, <1>5, <1>6 DEF RowHasFile, VerifiedIsSigned
<1>9. StoredBeforeRow'
  BY <1>1, <1>2, <1>3, <1>6 DEF StoredBeforeRow
<1>10. EditsAreSeen'
  <2>. SUFFICES ASSUME NEW k \in Jobs, NEW q \in Contents, job'[k].pc = "update", job'[k].mine, job'[k].cur = {q}, pkg'[q].verified
                PROVE  q \in edited'
    BY DEF EditsAreSeen
  <2>1. k # j /\ job[k].pc = "update" /\ job[k].cur = {q} /\ job[k].mine
    BY <1>2
  <2>2. q # c
    BY <1>2, <2>1
  <2>. QED
    BY <1>1, <1>3, <1>5, <2>1, <2>2 DEF EditsAreSeen
<1>11. DeletionsAreSeen'
  <2>. SUFFICES ASSUME NEW k \in Jobs, NEW q \in Contents, job'[k].cur = {q}
                PROVE  /\ job'[k].pc = "remove" /\ (pkg'[q].row \/ \E i \in Jobs : job'[i].pc = "upsert" /\ job'[i].cur = {q}) => q \in contested'
                       /\ job'[k].pc = "delete" /\ ~job'[k].mine /\ pkg'[q].row => q \in contested'
    BY DEF DeletionsAreSeen
  <2>1. \A i \in Jobs : job'[i].pc = "upsert" /\ job'[i].cur = {q} => job[i].pc = "upsert" /\ job[i].cur = {q}
    BY <1>2
  <2>2. job[k].cur = {q}
    BY <1>2
  <2>3. CASE q # c
    <3>1. k # j /\ job'[k].pc = job[k].pc
      BY <1>2, <2>2, <2>3
    <3>2. ~job'[k].mine => ~job[k].mine
      BY <1>2, <2>2, <2>3
    <3>3. pkg'[q] = pkg[q]
      BY <1>5, <2>3
    <3>. QED
      BY <1>1, <1>6, <2>1, <2>2, <3>1, <3>2, <3>3 DEF DeletionsAreSeen
  <2>4. CASE q = c
    <3>1. (\E i \in Jobs : job'[i].pc = "upsert" /\ job'[i].cur = {c}) => c \in contested'
      <4>1. \A i \in Jobs : job[i].pc = "upsert" => job[i].kind # "delete"
        BY <1>1 DEF JobsAreSane, Sane
      <4>. QED
        BY <1>6, <2>1, <2>4, <4>1 DEF Writing
    <3>2. pkg'[c].row => c \in contested'
      <4>. SUFFICES ASSUME pkg'[c].row PROVE c \in contested
        BY <1>6
      <4>1. ~job[j].mine /\ pkg[c].row
        BY <1>4, <1>5
      <4>. QED
        BY <1>1, <1>2, <4>1 DEF DeletionsAreSeen
    <3>. QED
      BY <2>4, <3>1, <3>2
  <2>. QED
    BY <2>3, <2>4
<1>12. AloneIsAlone'
  <2>1. \A i \in Jobs : job[i].pc = "idle" <=> job'[i].pc = "idle"
    BY <1>2
  <2>. QED
    BY <1>1, <1>2, <2>1 DEF AloneIsAlone
<1>13. AloneStands'
  <2>1. \A i \in Jobs : job'[i].alone => i = j
    BY <1>1, <1>2 DEF AloneIsAlone
  <2>. QED
    BY <1>2, <2>1 DEF AloneStands
<1>. QED
  BY <1>2, <1>7, <1>8, <1>9, <1>10, <1>11, <1>12, <1>13 DEF PackagesInv, CatalogueInv, CatalogueIsSound, SyncInv

\* A deletion removes its file.
LEMMA DeleteFileKeeps ==
    ASSUME PackagesInv, NEW j \in Jobs, NEW c \in Contents, DeleteFile(j, c)
    PROVE  PackagesInv'
<1>1. /\ TypeOK /\ JobsAreSane /\ SyncsCover /\ AloneIsAlone /\ AloneStands /\ PinIsOfHost /\ TypeList
      /\ RowHasFile /\ VerifiedIsSigned /\ DeletionsAreSeen /\ StoredBeforeRow /\ EditsAreSeen
  BY TypesByName DEF PackagesInv, CatalogueInv, CatalogueIsSound, SyncInv
<1>2. StepOf(j, Idle) /\ job[j].pc = "remove" /\ job[j].cur = {c}
  BY EndRecord DEF DeleteFile, At
<1>3. /\ job' \in [Jobs -> JobRow] /\ job'[j] = Idle /\ \A i \in Jobs : i # j => job'[i] = job[i]
      /\ JobsAreSane' /\ SyncsCover' /\ AloneIsAlone' /\ \A i \in Jobs : job'[i].alone => i = j
  BY <1>1, <1>2, IdleJob, StepKeepsJobs
<1>4. file' = file \ {c} /\ UNCHANGED <<story, pkg, source, offer, started, events, contested, edited>>
  BY DEF DeleteFile
<1>5. TypeOK' /\ PinIsOfHost'
  <2>1. TypeList'
    BY <1>1, <1>3, <1>4 DEF TypeList, ForeignKey
  <2>. QED
    BY <1>1, <1>4, <2>1, TypesByName DEF PinIsOfHost
<1>6. (pkg[c].row \/ \E i \in Jobs : job[i].pc = "upsert" /\ job[i].cur = {c}) => c \in contested
  BY <1>1, <1>2 DEF DeletionsAreSeen
<1>7. RowHasFile' /\ VerifiedIsSigned'
  BY <1>1, <1>4, <1>6 DEF RowHasFile, VerifiedIsSigned
<1>8. \A i \in Jobs, q \in Contents : job'[i].cur = {q} => job'[i] = job[i] /\ job[i].cur = {q}
  BY <1>3, IdleJob
<1>9. StoredBeforeRow'
  BY <1>1, <1>4, <1>6, <1>8 DEF StoredBeforeRow
<1>10. EditsAreSeen' /\ DeletionsAreSeen'
  BY <1>1, <1>4, <1>8 DEF EditsAreSeen, DeletionsAreSeen
<1>11. AloneStands'
  BY <1>3, IdleJob DEF AloneStands
<1>. QED
  BY <1>3, <1>5, <1>7, <1>9, <1>10, <1>11 DEF PackagesInv, CatalogueInv, CatalogueIsSound, SyncInv

\* A description is edited.
LEMMA UpdateRowKeeps ==
    ASSUME PackagesInv, NEW j \in Jobs, NEW c \in Contents, UpdateRow(j, c)
    PROVE  PackagesInv'
<1>1. /\ TypeOK /\ JobsAreSane /\ SyncsCover /\ AloneIsAlone /\ AloneStands /\ PinIsOfHost /\ TypeList
      /\ RowHasFile /\ VerifiedIsSigned /\ DeletionsAreSeen /\ StoredBeforeRow /\ EditsAreSeen
  BY TypesByName DEF PackagesInv, CatalogueInv, CatalogueIsSound, SyncInv
<1>2. StepOf(j, Idle) /\ job[j].pc = "update" /\ job[j].cur = {c}
  BY EndRecord DEF UpdateRow, At
<1>3. /\ job' \in [Jobs -> JobRow] /\ job'[j] = Idle /\ \A i \in Jobs : i # j => job'[i] = job[i]
      /\ JobsAreSane' /\ SyncsCover' /\ AloneIsAlone' /\ \A i \in Jobs : job'[i].alone => i = j
  BY <1>1, <1>2, IdleJob, StepKeepsJobs
<1>4. /\ pkg' = (IF job[j].mine THEN [pkg EXCEPT ![c].meta = "edited"] ELSE pkg)
      /\ UNCHANGED <<story, file, source, offer, started, events, contested, edited>>
  BY DEF UpdateRow
<1>5. /\ pkg' \in [Contents -> PackageRow]
      /\ \A q \in Contents : /\ pkg'[q].row = pkg[q].row /\ pkg'[q].src = pkg[q].src /\ pkg'[q].verified = pkg[q].verified
                             /\ pkg'[q].meta = pkg[q].meta \/ (q = c /\ job[j].mine)
  BY <1>1, <1>4 DEF TypeList, PackageRow
<1>6. TypeOK' /\ PinIsOfHost'
  <2>1. ForeignKey'
    BY <1>1, <1>4, <1>5 DEF TypeList, ForeignKey
  <2>2. TypeList'
    BY <1>1, <1>3, <1>4, <1>5, <2>1 DEF TypeList
  <2>. QED
    BY <1>1, <1>4, <2>2, TypesByName DEF PinIsOfHost
<1>7. RowHasFile'
  BY <1>1, <1>4, <1>5 DEF RowHasFile
<1>8. VerifiedIsSigned'
  <2>1. job[j].mine /\ pkg[c].verified => c \in edited
    BY <1>1, <1>2 DEF EditsAreSeen
  <2>. QED
    BY <1>1, <1>4, <1>5, <2>1 DEF VerifiedIsSigned
<1>9. \A i \in Jobs, q \in Contents : job'[i].cur = {q} => job'[i] = job[i] /\ job[i].cur = {q}
  BY <1>3, IdleJob
<1>10. StoredBeforeRow' /\ EditsAreSeen' /\ DeletionsAreSeen'
  <2>1. \A q \in Contents : pkg'[q].row = pkg[q].row /\ pkg'[q].verified = pkg[q].verified
    BY <1>5
  <2>2. StoredBeforeRow' /\ EditsAreSeen'
    BY <1>1, <1>4, <1>9, <2>1 DEF StoredBeforeRow, EditsAreSeen
  <2>3. \A i, k \in Jobs, q \in Contents : job'[i].cur = {q} => job[i].cur = {q} /\ job'[i].pc = job[i].pc /\ job'[i].mine = job[i].mine
    BY <1>9
  <2>4. DeletionsAreSeen'
    BY <1>1, <1>4, <2>1, <2>3 DEF DeletionsAreSeen
  <2>. QED
    BY <2>2, <2>4
<1>11. AloneStands'
  BY <1>3, IdleJob DEF AloneStands
<1>. QED
  BY <1>3, <1>6, <1>7, <1>8, <1>10, <1>11 DEF PackagesInv, CatalogueInv, CatalogueIsSound, SyncInv

-------------------------------------------------------------------------------
(* The catalogue *)

\* The repository is empty at first.
LEMMA PackagesStart == Init => PackagesInv
<1>. SUFFICES ASSUME Init PROVE PackagesInv
  OBVIOUS
<1>1. PICK h \in Hosts : source = [s \in Sources |-> [exists |-> TRUE, host |-> h, pin |-> None, last |-> "never"]]
  BY DEF Init
<1>2. /\ story \in Stories /\ pkg = [c \in Contents |-> NoPackage] /\ file = {} /\ job = [j \in Jobs |-> Idle]
      /\ started = 0 /\ events = 0 /\ contested = {} /\ edited = {}
      /\ offer \in {[s \in Sources |-> {c}] : c \in Contents}
  BY DEF Init
<1>3. NoPackage \in PackageRow /\ NoPackage.row = FALSE /\ NoPackage.src = None /\ NoPackage.verified = FALSE
  BY DEF NoPackage, PackageRow
<1>4. source \in [Sources -> SourceRow] /\ PinIsOfHost
  BY <1>1 DEF SourceRow, PinIsOfHost
<1>5. offer \in [Sources -> SUBSET Contents]
  BY <1>2
<1>6. story.jobs \in Nat /\ story.events \in Nat
  BY <1>2, PackagesConstants DEF Story
<1>7. TypeOK
  <2>1. TypeList
    BY <1>2, <1>3, <1>4, <1>5, <1>6, IdleJob DEF TypeList, ForeignKey
  <2>. QED
    BY <2>1, TypesByName
<1>8. RowHasFile /\ VerifiedIsSigned
  BY <1>2, <1>3 DEF RowHasFile, VerifiedIsSigned
<1>9. \A i \in Jobs : job[i] = Idle
  BY <1>2
<1>10. /\ JobsAreSane /\ SyncsCover /\ AloneIsAlone /\ AloneStands /\ DeletionsAreSeen /\ StoredBeforeRow /\ EditsAreSeen
  BY <1>9, IdleJob DEF JobsAreSane, SyncsCover, AloneIsAlone, AloneStands, DeletionsAreSeen, StoredBeforeRow, EditsAreSeen
<1>. QED
  BY <1>4, <1>7, <1>8, <1>10 DEF PackagesInv, CatalogueInv, CatalogueIsSound, SyncInv

\* Steps that leave the catalogue alone.
LEMMA PackagesStutter ==
    ASSUME PackagesInv, UNCHANGED vars
    PROVE  PackagesInv'
BY DEF vars, PackagesInv, CatalogueInv, CatalogueIsSound, SyncInv, TypeOK, RowHasFile, VerifiedIsSigned, PinIsOfHost,
       JobsAreSane, DeletionsAreSeen, StoredBeforeRow, EditsAreSeen, SyncsCover, AloneIsAlone, AloneStands, Standing

\* Every step keeps the invariant.
LEMMA PackagesStep ==
    ASSUME PackagesInv, Next
    PROVE  PackagesInv'
<1>1. CASE World
  BY <1>1, RestartKeeps, DeleteSourceKeeps, PublishKeeps DEF World
<1>2. ASSUME NEW j \in Jobs, Job(j) PROVE PackagesInv'
  <2>1. CASE \E s \in Sources : SyncStart(j, s) \/ \E h \in Hosts : SaveSource(j, s, h)
    BY <2>1, SyncStartKeeps, SaveSourceKeeps
  <2>2. CASE \E B \in SUBSET Contents : ImportBundle(j, B)
    BY <2>2, ImportBundleKeeps
  <2>3. CASE SyncConnect(j) \/ SyncList(j) \/ SyncFails(j) \/ FetchFails(j) \/ Withdraw(j) \/ Finish(j) \/ SaveSourceRow(j)
    BY <2>3, SyncConnectKeeps, SyncListKeeps, SyncFailsKeeps, FetchFailsKeeps, WithdrawKeeps, FinishKeeps, SaveSourceRowKeeps
  <2>4. CASE \E c \in Contents : Check(j, c) \/ upsert(j, c) \/ DeleteRow(j, c) \/ DeleteFile(j, c) \/ UpdateRow(j, c)
                                 \/ \E y \in Contents : Fetch(j, c, y)
    BY <2>4, CheckKeeps, UpsertKeeps, DeleteRowKeeps, DeleteFileKeeps, UpdateRowKeeps, FetchKeeps
  <2>5. ASSUME NEW c \in Contents, Upload(j, c) PROVE PackagesInv'
    <3>1. Start(j, "upload", Asked("fetch", c))
      BY <2>5 DEF Upload, Asked
    <3>2. <<"fetch", "upload">> \in {<<"fetch", "upload">>, <<"delete", "delete">>, <<"update", "update">>}
      OBVIOUS
    <3>. QED
      BY <3>1, <3>2, RequestKeeps
  <2>6. ASSUME NEW c \in Contents, Delete(j, c) PROVE PackagesInv'
    <3>1. Start(j, "delete", Asked("delete", c))
      BY <2>6 DEF Delete, Asked
    <3>2. <<"delete", "delete">> \in {<<"fetch", "upload">>, <<"delete", "delete">>, <<"update", "update">>}
      OBVIOUS
    <3>. QED
      BY <3>1, <3>2, RequestKeeps
  <2>7. ASSUME NEW c \in Contents, Update(j, c) PROVE PackagesInv'
    <3>1. Start(j, "update", Asked("update", c)) /\ ~pkg[c].verified
      BY <2>7 DEF Update, Editable, Asked
    <3>2. <<"update", "update">> \in {<<"fetch", "upload">>, <<"delete", "delete">>, <<"update", "update">>}
      OBVIOUS
    <3>. QED
      BY <3>1, <3>2, RequestKeeps
  <2>. QED
    BY <1>2, <2>1, <2>2, <2>3, <2>4, <2>5, <2>6, <2>7 DEF Job
<1>. QED
  BY <1>1, <1>2 DEF Next

\* The invariant of the repository.
LEMMA PackagesHold == Spec => []PackagesInv
<1>1. PackagesInv /\ [Next]_vars => PackagesInv'
  BY PackagesStep, PackagesStutter
<1>. QED
  BY <1>1, PackagesStart, PTL DEF Spec

\* Syncs, imports, uploads, edits and deletions hold no lock, and yet a row has
\* its file, a verified one its manifest's description, and a source the key of
\* its host, save where the observations say that they overlapped.
THEOREM CatalogueStaysSound == Spec => []CatalogueIsSound
<1>1. PackagesInv => CatalogueIsSound
  BY DEF PackagesInv, CatalogueInv
<1>. QED
  BY <1>1, PackagesHold, PTL

\* Only a job's own step brings it from "next" to "finish", and only one step.
LEMMA WhoWithdraws ==
    ASSUME PackagesInv, Next, NEW j \in Jobs, At(j, "next"), job'[j].pc = "finish"
    PROVE  Withdraw(j)
<1>1. /\ TypeOK /\ JobsAreSane /\ SyncsCover /\ AloneIsAlone
  BY DEF PackagesInv, CatalogueInv, CatalogueIsSound, SyncInv
<1>2. job \in [Jobs -> JobRow] /\ job[j].pc = "next"
  BY <1>1, TypesByName DEF TypeList, At
<1>3. CASE World
  <2>1. ASSUME Disturb PROVE job'[j].pc = "next"
    BY <1>1, <1>2, <2>1, Disturbed
  <2>2. ASSUME Restart PROVE job'[j].pc = "idle"
    BY <2>2, IdleJob DEF Restart
  <2>. QED
    BY <1>3, <2>1, <2>2 DEF World, DeleteSource, Publish
<1>4. ASSUME NEW k \in Jobs, Job(k), ~Withdraw(j) PROVE FALSE
  <2>1. ASSUME NEW r, StepOf(k, r), k = j => r.pc # "finish" PROVE FALSE
    BY <1>1, <1>2, <2>1 DEF StepOf
  <2>2. ASSUME NEW kind, NEW f, Start(k, kind, f) PROVE FALSE
    <3>1. k # j
      BY <1>2, <2>2 DEF Start, At
    <3>2. job'[j] = [job[j] EXCEPT !.alone = FALSE]
      BY <2>2, <3>1 DEF Start
    <3>. QED
      BY <1>2, <3>2 DEF JobRow
  <2>3. CASE \E s \in Sources : SyncStart(k, s) \/ \E h \in Hosts : SaveSource(k, s, h)
    BY <2>2, <2>3 DEF SyncStart, SaveSource
  <2>4. CASE \E B \in SUBSET Contents : ImportBundle(k, B)
    BY <2>2, <2>4 DEF ImportBundle
  <2>5. CASE \E c \in Contents : Upload(k, c) \/ Delete(k, c) \/ Update(k, c)
    BY <2>2, <2>5 DEF Upload, Delete, Update
  <2>6. ASSUME SyncConnect(k) PROVE FALSE
    BY <1>1, <2>1, <2>6, SyncConnectRecord
  <2>7. ASSUME SyncList(k) PROVE FALSE
    BY <1>1, <2>1, <2>7, SyncListRecord
  <2>8. ASSUME SyncFails(k) PROVE FALSE
    BY <1>2, <2>8 DEF SyncFails
  <2>9. ASSUME FetchFails(k) PROVE FALSE
    BY <1>1, <2>1, <2>9, FetchFailsRecord
  <2>10. ASSUME Withdraw(k) PROVE FALSE
    <3>1. k # j
      BY <1>4, <2>10
    <3>. QED
      BY <1>2, <2>10, <3>1 DEF Withdraw, Goto
  <2>11. ASSUME Finish(k) \/ SaveSourceRow(k) PROVE FALSE
    BY <1>2, <2>1, <2>11, EndRecord, IdleJob DEF Finish, SaveSourceRow, At
  <2>12. ASSUME NEW c \in Contents, Check(k, c) PROVE FALSE
    BY <1>1, <2>1, <2>12, CheckRecord
  <2>13. ASSUME NEW c \in Contents, upsert(k, c) PROVE FALSE
    BY <1>1, <2>1, <2>13, UpsertRecord
  <2>14. ASSUME NEW c \in Contents, NEW y \in Contents, Fetch(k, c, y) PROVE FALSE
    BY <1>1, <2>1, <2>14, FetchRecord
  <2>15. ASSUME NEW c \in Contents, DeleteFile(k, c) \/ UpdateRow(k, c) PROVE FALSE
    BY <1>2, <2>1, <2>15, EndRecord, IdleJob DEF DeleteFile, UpdateRow, At
  <2>16. ASSUME NEW c \in Contents, DeleteRow(k, c) PROVE FALSE
    <3>1. k # j
      BY <1>2, <2>16 DEF DeleteRow, At
    <3>. QED
      BY <1>1, <1>2, <2>16, <3>1, DeleteRowRecord
  <2>. QED
    BY <1>4, <2>3, <2>4, <2>5, <2>6, <2>7, <2>8, <2>9, <2>10, <2>11, <2>12, <2>13, <2>14, <2>15, <2>16 DEF Job
<1>. QED
  BY <1>3, <1>4 DEF Next

\* A sync makes the catalogue what the source offers: one that nothing disturbed
\* leaves all of it standing and the rest withdrawn, and any sync withdraws only
\* what its listing did not have.
THEOREM SyncsAreFaithful == Spec => SyncIsFaithful
<1>. DEFINE Restored == \A j \in Jobs : At(j, "finish") /\ job[j].kind = "sync" /\ job[j].alone /\ ~job[j].failed /\ job'[j].pc = "idle" =>
          LET s == job[j].src
              Stands(c) == pkg[c].row /\ c \in file /\ ~pkg[c].withdrawn /\ (s \in Signed => pkg[c].meta = "signed")
              Same(c) == IF s \in Signed THEN {c} ELSE {x \in Contents : Label[x] = Label[c]}
          IN  /\ \A c \in job[j].listed : \E x \in Same(c) : Stands(x)
              /\ \A c \in Contents : pkg[c].row /\ pkg[c].src = s /\ Same(c) \cap job[j].listed = {} => pkg[c].withdrawn
            Gone == \A j \in Jobs, c \in Contents :
          At(j, "next") /\ job'[j].pc = "finish" /\ ~pkg[c].withdrawn /\ pkg'[c].withdrawn /\ c \in job[j].listed =>
             job[j].src \notin Signed /\ \E x \in job[j].seen : Label[x] = Label[c]
<1>1. PackagesInv => Restored
  <2>. SUFFICES ASSUME PackagesInv, NEW j \in Jobs, job[j].pc = "finish", job[j].kind = "sync", job[j].alone, ~job[j].failed
                PROVE  LET s == job[j].src
                           Stands(c) == pkg[c].row /\ c \in file /\ ~pkg[c].withdrawn /\ (s \in Signed => pkg[c].meta = "signed")
                           Same(c) == IF s \in Signed THEN {c} ELSE {x \in Contents : Label[x] = Label[c]}
                       IN  /\ \A c \in job[j].listed : \E x \in Same(c) : Stands(x)
                           /\ \A c \in Contents : pkg[c].row /\ pkg[c].src = s /\ Same(c) \cap job[j].listed = {} => pkg[c].withdrawn
    BY DEF At
  <2>. DEFINE s == job[j].src
              Stands(c) == pkg[c].row /\ c \in file /\ ~pkg[c].withdrawn /\ (s \in Signed => pkg[c].meta = "signed")
              Same(c) == IF s \in Signed THEN {c} ELSE {x \in Contents : Label[x] = Label[c]}
  <2>1. Sane(job[j]) /\ Covers(job[j]) /\ job[j] \in JobRow
    BY TypesByName DEF PackagesInv, CatalogueInv, CatalogueIsSound, TypeList, JobsAreSane, SyncInv, SyncsCover
  <2>2. job[j].cur = {} /\ job[j].todo = {} /\ job[j].seen \subseteq Contents /\ job[j].listed \subseteq Contents
    BY <2>1 DEF Sane, Covers, JobRow
  <2>3. /\ \A y \in job[j].listed : \E x \in job[j].seen : StandsFor(s, x, y)
        /\ \A x \in job[j].seen : \E y \in job[j].listed : StandsFor(s, x, y)
    BY <2>1, <2>2 DEF Covers
  <2>4. /\ \A x \in job[j].seen : Standing(s, x)
        /\ \A c \in Contents : pkg[c].row /\ pkg[c].src = s /\ c \notin job[j].seen => pkg[c].withdrawn
    BY DEF PackagesInv, SyncInv, AloneStands
  <2>5. ASSUME NEW c \in job[j].listed
        PROVE  \E x \in Same(c) : Stands(x)
    <3>1. PICK x \in job[j].seen : StandsFor(s, x, c)
      BY <2>3
    <3>2. x \in Same(c)
      BY <3>1, <2>2 DEF StandsFor
    <3>3. Stands(x)
      BY <2>4 DEF Standing
    <3>. QED
      BY <3>2, <3>3
  <2>6. ASSUME NEW c \in Contents, pkg[c].row, pkg[c].src = s, Same(c) \cap job[j].listed = {}
        PROVE  pkg[c].withdrawn
    <3>1. ASSUME c \in job[j].seen
          PROVE  FALSE
      <4>1. PICK y \in job[j].listed : StandsFor(s, c, y)
        BY <3>1, <2>3
      <4>2. y \in Same(c)
        BY <4>1, <2>2 DEF StandsFor
      <4>. QED
        BY <4>2, <2>6
    <3>. QED
      BY <3>1, <2>4, <2>6
  <2>. QED
    BY <2>5, <2>6
<1>2. PackagesInv /\ [Next]_vars => Gone
  <2>. SUFFICES ASSUME PackagesInv, [Next]_vars, NEW j \in Jobs, NEW c \in Contents, job[j].pc = "next", job'[j].pc = "finish",
                       ~pkg[c].withdrawn, pkg'[c].withdrawn, c \in job[j].listed
                PROVE  job[j].src \notin Signed /\ \E x \in job[j].seen : Label[x] = Label[c]
    BY DEF At
  <2>0. TypeOK /\ Sane(job[j]) /\ Covers(job[j])
    BY DEF PackagesInv, CatalogueInv, CatalogueIsSound, JobsAreSane, SyncInv, SyncsCover
  <2>1. Next
    BY DEF vars
  <2>2. Withdraw(j)
    BY <2>1, WhoWithdraws DEF PackagesInv, At
  <2>3. MayWithdraw(j) /\ c \notin job[j].seen
    BY <2>0, <2>2, WithdrawRow
  <2>4. job[j].todo = {} /\ job[j].cur = {} /\ job[j].kind = "sync" /\ ~job[j].failed
    BY <2>0, <2>2, <2>3 DEF Withdraw, MayWithdraw, Sane
  <2>5. PICK x \in job[j].seen : StandsFor(job[j].src, x, c)
    BY <2>0, <2>4 DEF Covers
  <2>. QED
    BY <2>3, <2>5 DEF StandsFor
<1>3. (Spec => [][Restored]_vars) /\ (Spec => [][Gone]_vars)
  <2>1. PackagesInv /\ [Next]_vars => [Restored]_vars /\ [Gone]_vars
    BY <1>1, <1>2
  <2>. HIDE DEF Restored, Gone
  <2>. QED
    BY <2>1, PackagesHold, PTL DEF Spec
<1>. QED
  BY <1>3 DEF SyncIsFaithful, SyncRestores, WithdrawnWasGone

-------------------------------------------------------------------------------
\* A set of naturals that is not empty has a least member.
LEMMA LeastOf ==
    ASSUME NEW T \in SUBSET Nat, T # {}
    PROVE  \E n \in T : \A m \in T : n <= m
<1>1. PICK n \in T : \A m \in T : ~(<<m, n>> \in OpToRel(<, Nat))
  BY NatLessThanWellFounded, WFMin
<1>2. \A m \in T : ~(m < n)
  BY <1>1 DEF OpToRel
<1>. QED
  BY <1>2

\* Induction over the naturals, for a set that is closed under the successor.
LEMMA NatInd ==
    ASSUME NEW T, 0 \in T, \A n \in Nat : n \in T => n + 1 \in T
    PROVE  \A n \in Nat : n \in T
<1>. SUFFICES ASSUME Nat \ T # {} PROVE FALSE
  OBVIOUS
<1>1. PICK n \in Nat \ T : \A m \in Nat \ T : n <= m
  BY LeastOf
<1>2. n # 0 /\ n - 1 \in Nat /\ n - 1 \in T
  BY <1>1
<1>3. (n - 1) + 1 = n
  BY <1>1
<1>. QED
  BY <1>1, <1>2, <1>3

\* f is a, then what G[1] makes of it, then G[2], up to G[n].
Iterated(f, n, a, G) == f = [k \in 0..n |-> IF k = 0 THEN a ELSE G[k][f[k - 1]]]

\* A recursion over 0..n by a function exists.
LEMMA Iterates ==
    ASSUME NEW V, NEW a \in V, NEW n \in Nat, NEW G \in [1..n -> [V -> V]]
    PROVE  \E f \in [0..n -> V] : Iterated(f, n, a, G)
<1>. DEFINE Up(m, f) == f \in [0..m -> V] /\ f[0] = a /\ \A k \in 1..m : f[k] = G[k][f[k - 1]]
            T == {m \in Nat : m <= n => \E f : Up(m, f)}
<1>1. 0 \in T
  <2>1. Up(0, [k \in 0..0 |-> a])
    OBVIOUS
  <2>. QED
    BY <2>1
<1>2. ASSUME NEW m \in Nat, m \in T
      PROVE  m + 1 \in T
  <2>. SUFFICES ASSUME m + 1 <= n PROVE \E f : Up(m + 1, f)
    OBVIOUS
  <2>1. PICK f : Up(m, f)
    BY <1>2
  <2>. DEFINE g == [k \in 0..(m + 1) |-> IF k = m + 1 THEN G[m + 1][f[m]] ELSE f[k]]
  <2>2. g \in [0..(m + 1) -> V]
    <3>1. m + 1 \in 1..n /\ m \in 0..m
      OBVIOUS
    <3>2. G[m + 1] \in [V -> V] /\ f[m] \in V
      BY <2>1, <3>1
    <3>3. G[m + 1][f[m]] \in V
      BY <3>2
    <3>4. \A k \in 0..(m + 1) : k # m + 1 => f[k] \in V
      BY <2>1
    <3>. QED
      BY <3>3, <3>4
  <2>3. g[0] = a
    BY <2>1
  <2>4. ASSUME NEW k \in 1..(m + 1) PROVE g[k] = G[k][g[k - 1]]
    <3>1. CASE k = m + 1
      BY <3>1
    <3>2. CASE k # m + 1
      <4>1. k \in 1..m /\ k - 1 \in 0..m
        BY <3>2
      <4>2. f[k] = G[k][f[k - 1]]
        BY <4>1, <2>1
      <4>. QED
        BY <4>1, <4>2
    <3>. QED
      BY <3>1, <3>2
  <2>5. Up(m + 1, g)
    BY <2>2, <2>3, <2>4
  <2>. HIDE DEF Up, g
  <2>. QED
    BY <2>5
<1>. HIDE DEF T
<1>3. n \in T
  BY <1>1, <1>2, NatInd
<1>. USE DEF T
<1>4. PICK f : Up(n, f)
  BY <1>3
<1>5. f = [k \in 0..n |-> f[k]]
  BY <1>4
<1>6. [k \in 0..n |-> f[k]] = [k \in 0..n |-> IF k = 0 THEN a ELSE G[k][f[k - 1]]]
  BY <1>4
<1>7. Iterated(f, n, a, G)
  BY <1>5, <1>6 DEF Iterated
<1>. QED
  BY <1>4, <1>7

\* Releases are finitely many naturals.
LEMMA ReleaseSets ==
    ASSUME NEW R \in SUBSET Releases
    PROVE  IsFiniteSet(R) /\ R \subseteq Nat /\ Cardinality(R) \in Nat
BY RunnersConstants, FS_Subset, FS_CardinalityType

\* Every set of releases can be listed from the furthest down.
LEMMA FurthestFirstLists ==
    ASSUME NEW R \in SUBSET Releases
    PROVE  /\ FurthestFirst(R) \in Seq(R) /\ FurthestFirst(R) \in Seq(Releases)
           /\ \A v \in R : \E i \in 1..Len(FurthestFirst(R)) : FurthestFirst(R)[i] = v
           /\ \A i, k \in 1..Len(FurthestFirst(R)) : FurthestFirst(R)[i] = FurthestFirst(R)[k] => i = k
<1>. DEFINE n == Cardinality(R)
            Above(v) == {x \in R : x > v}
            rank == [v \in R |-> Cardinality(Above(v)) + 1]
<1>1. IsFiniteSet(R) /\ R \subseteq Nat /\ n \in Nat
  BY ReleaseSets
<1>2. ASSUME NEW v \in R
      PROVE  IsFiniteSet(Above(v)) /\ Cardinality(Above(v)) \in Nat /\ Cardinality(Above(v)) < n
  <2>1. Above(v) \subseteq R /\ v \in R \ Above(v)
    BY <1>1
  <2>. QED
    BY <2>1, <1>1, FS_Subset, FS_CardinalityType
<1>3. ASSUME NEW v \in R, NEW w \in R, v < w
      PROVE  Cardinality(Above(w)) < Cardinality(Above(v))
  <2>0. v \in Nat /\ w \in Nat /\ \A x \in R : x \in Nat
    BY <1>1
  <2>1. (\A x \in R : x > w => x > v) /\ w > v /\ ~(w > w)
    BY <2>0, <1>3
  <2>2. Above(w) \subseteq Above(v) /\ w \in Above(v) \ Above(w)
    BY <2>1
  <2>. HIDE DEF Above
  <2>. QED
    BY <2>2, <1>2, FS_Subset
<1>4. rank \in [R -> 1..n]
  <2>. HIDE DEF Above, n
  <2>. QED
    BY <1>1, <1>2
<1>5. \A v, w \in R : v < w => rank[v] > rank[w]
  <2>. HIDE DEF Above
  <2>. QED
    BY <1>2, <1>3
<1>. HIDE DEF rank, Above
<1>6. rank \in Injection(R, 1..n)
  <2>1. ASSUME NEW v \in R, NEW w \in R, rank[v] = rank[w] PROVE v = w
    <3>1. v \in Nat /\ w \in Nat /\ rank[v] \in Nat
      BY <1>1, <1>4
    <3>. QED
      BY <2>1, <3>1, <1>5
  <2>. QED
    BY <2>1, <1>4 DEF Injection, IsInjective
<1>7. rank \in Surjection(R, 1..n)
  <2>1. IsFiniteSet(1..n) /\ Cardinality(1..n) = n
    BY <1>1, FS_Interval
  <2>. QED
    BY <2>1, <1>6, FS_Injection
<1>8. \A i \in 1..n : \E v \in R : rank[v] = i
  BY <1>7 DEF Surjection
<1>. DEFINE p == [i \in 1..n |-> CHOOSE v \in R : rank[v] = i]
<1>9. \A i \in 1..n : p[i] \in R /\ rank[p[i]] = i
  BY <1>8
<1>10. p \in [1..n -> R]
  BY <1>9
<1>11. ASSUME NEW i \in 1..n, NEW k \in 1..n, i < k PROVE p[i] > p[k]
  <2>. HIDE DEF p
  <2>1. p[i] \in Nat /\ p[k] \in Nat /\ p[i] \in R /\ p[k] \in R
    BY <1>9, <1>1
  <2>2. rank[p[i]] = i /\ rank[p[k]] = k
    BY <1>9
  <2>3. ~(p[i] < p[k]) /\ p[i] # p[k]
    BY <2>1, <2>2, <1>5, <1>11
  <2>. QED
    BY <2>1, <2>3
<1>12. \E q \in [1..n -> R] : \A i, k \in DOMAIN q : i < k => q[i] > q[k]
  <2>. HIDE DEF p
  <2>. QED
    BY <1>10, <1>11
<1>. DEFINE F == FurthestFirst(R)
<1>13. F \in [1..n -> R] /\ \A i, k \in DOMAIN F : i < k => F[i] > F[k]
  <2>. HIDE DEF n
  <2>1. PICK q \in [1..n -> R] : \A i, k \in DOMAIN q : i < k => q[i] > q[k]
    BY <1>12
  <2>2. F = CHOOSE f \in [1..n -> R] : \A i, k \in DOMAIN f : i < k => f[i] > f[k]
    BY DEF FurthestFirst, n
  <2>. HIDE DEF F
  <2>. QED
    BY <2>1, <2>2
<1>. HIDE DEF F, n
<1>14. F \in Seq(R) /\ F \in Seq(Releases) /\ Len(F) = n
  <2>1. F \in Seq(R)
    BY <1>1, <1>13, SeqDef
  <2>2. DOMAIN F = 1..n /\ DOMAIN F = 1..Len(F) /\ Len(F) \in Nat
    BY <2>1, <1>13, LenProperties
  <2>3. Len(F) = n
    BY <2>2, <1>1
  <2>. QED
    BY <2>1, <2>3, SeqMonotonic
<1>15. \A i, k \in 1..n : F[i] = F[k] => i = k
  <2>1. \A i \in 1..n : F[i] \in Nat
    BY <1>13, <1>1
  <2>. QED
    BY <2>1, <1>13, <1>1
<1>16. F \in Injection(1..n, R)
  BY <1>13, <1>15 DEF Injection, IsInjective
<1>17. F \in Surjection(1..n, R)
  <2>1. IsFiniteSet(1..n) /\ Cardinality(1..n) = Cardinality(R)
    BY <1>1, FS_Interval DEF n
  <2>. QED
    BY <2>1, <1>1, <1>16, FS_Injection
<1>18. \A v \in R : \E i \in 1..n : F[i] = v
  BY <1>17 DEF Surjection
<1>. QED
  BY <1>14, <1>15, <1>18 DEF F

-------------------------------------------------------------------------------
(* The search for a path *)

\* What the search holds: the queue, what was seen and from where.
SearchState == [queue: Seq(Releases), seen: SUBSET Releases, prev: [Releases -> Releases \cup {0}]]

\* The search is over.
Ended(s, target) == s.queue = <<>> \/ Head(s.queue) = target

\* A release is seen once it is queued, queued once, and done once it is taken.
Queued(s, done) ==
    /\ done \subseteq s.seen
    /\ \A i \in 1..Len(s.queue) : s.queue[i] \in s.seen \ done
    /\ \A v \in s.seen : v \in done \/ \E i \in 1..Len(s.queue) : s.queue[i] = v
    /\ \A i, k \in 1..Len(s.queue) : s.queue[i] = s.queue[k] => i = k

\* Each release that was seen is a step further than the one it was reached from.
Reached(from, s, depth, done) ==
    /\ from \in s.seen /\ depth[from] = 0 /\ s.prev[from] = 0
    /\ \A v \in s.seen \ {from} : /\ s.prev[v] \in done /\ s.prev[v] \in images[v] /\ v > s.prev[v]
                                  /\ depth[v] = depth[s.prev[v]] + 1
    /\ \A v \in s.seen : depth[v] <= Cardinality(done)

\* The queue is ordered by the number of steps, which differs by one at most.
Level(s, depth, done) ==
    /\ \A i, k \in 1..Len(s.queue) : /\ i <= k => depth[s.queue[i]] <= depth[s.queue[k]]
                                     /\ depth[s.queue[k]] <= depth[s.queue[i]] + 1
    /\ \A v \in done, i \in 1..Len(s.queue) : depth[v] <= depth[s.queue[i]]

\* What is done has been followed to every release it leads to.
Followed(target, s, depth, done) ==
    \A n \in done, v \in Releases : n \in images[v] /\ v > n /\ v <= target => v \in s.seen /\ depth[v] <= depth[n] + 1

\* The invariant of the search: depth counts the steps to a release.
Breadth(from, target, s, depth, done) ==
    /\ s \in SearchState /\ depth \in [Releases -> Nat] /\ done \subseteq Releases \ {target}
    /\ Queued(s, done) /\ Reached(from, s, depth, done) /\ Level(s, depth, done) /\ Followed(target, s, depth, done)

\* It holds at the start.
LEMMA SearchStarts ==
    ASSUME images \in Catalogs, NEW from \in Releases, NEW target \in Releases
    PROVE  Breadth(from, target, SearchStart(from), [v \in Releases |-> 0], {})
<1>. DEFINE s == SearchStart(from)
            depth == [v \in Releases |-> 0]
<1>1. s.queue = <<from>> /\ s.seen = {from} /\ s.prev = [v \in Releases |-> 0] /\ s \in SearchState
  BY DEF SearchStart, SearchState
<1>2. Len(s.queue) = 1 /\ s.queue[1] = from
  BY <1>1
<1>3. depth \in [Releases -> Nat] /\ \A v \in Releases : depth[v] = 0
  OBVIOUS
<1>4. Cardinality({}) = 0
  BY FS_EmptySet
<1>. HIDE DEF s, depth
<1>5. Queued(s, {})
  BY <1>1, <1>2 DEF Queued
<1>6. Reached(from, s, depth, {})
  BY <1>1, <1>3, <1>4 DEF Reached
<1>7. Level(s, depth, {})
  BY <1>1, <1>2, <1>3 DEF Level
<1>8. Followed(target, s, depth, {})
  BY DEF Followed
<1>. QED
  BY <1>1, <1>3, <1>5, <1>6, <1>7, <1>8 DEF Breadth, s, depth

\* A step of the search takes the head of the queue and lists what it leads to.
LEMMA SearchSteps ==
    ASSUME images \in Catalogs, NEW from \in Releases, NEW target \in Releases, from < target,
           NEW s, NEW depth, NEW done, Breadth(from, target, s, depth, done), ~Ended(s, target)
    PROVE  \E deeper : /\ Breadth(from, target, SearchStep(s, target), deeper, done \cup {Head(s.queue)})
                       /\ Cardinality(done \cup {Head(s.queue)}) = Cardinality(done) + 1
<1>. DEFINE n == Head(s.queue)
            next == NextImages(n, s.seen, target)
            list == FurthestFirst(next)
            t == SearchStep(s, target)
            deeper == [v \in Releases |-> IF v \in next THEN depth[n] + 1 ELSE depth[v]]
            after == done \cup {n}
            L == Len(s.queue)
            M == Len(list)
<1>1. /\ s \in SearchState /\ depth \in [Releases -> Nat] /\ done \subseteq Releases \ {target}
      /\ Queued(s, done) /\ Reached(from, s, depth, done) /\ Level(s, depth, done) /\ Followed(target, s, depth, done)
  BY DEF Breadth
<1>2. s.queue \in Seq(Releases) /\ s.seen \subseteq Releases /\ s.prev \in [Releases -> Releases \cup {0}] /\ s.queue # <<>> /\ n # target
  BY <1>1 DEF SearchState, Ended
<1>3. L \in Nat /\ L >= 1 /\ n = s.queue[1] /\ n \in Releases
  BY <1>2, EmptySeq, HeadTailProperties, ElementOfSeq
<1>4. n \in s.seen /\ n \notin done
  BY <1>1, <1>3 DEF Queued
<1>5. next \subseteq Releases /\ next \cap s.seen = {} /\ \A v \in next : n \in images[v] /\ v > n /\ v <= target
  BY DEF NextImages
<1>6. /\ list \in Seq(Releases) /\ list \in Seq(next) /\ M \in Nat
      /\ \A v \in next : \E i \in 1..M : list[i] = v
      /\ \A i, k \in 1..M : list[i] = list[k] => i = k
      /\ \A i \in 1..M : list[i] \in next
  <2>. HIDE DEF next
  <2>1. /\ list \in Seq(Releases) /\ list \in Seq(next)
        /\ \A v \in next : \E i \in 1..M : list[i] = v
        /\ \A i, k \in 1..M : list[i] = list[k] => i = k
    BY <1>5, FurthestFirstLists
  <2>. HIDE DEF list
  <2>2. M \in Nat
    BY <2>1, LenProperties
  <2>3. \A i \in 1..M : list[i] \in next
    BY <2>1, ElementOfSeq
  <2>. QED
    BY <2>1, <2>2, <2>3
<1>7. /\ t.queue = Tail(s.queue) \o list /\ t.seen = s.seen \cup next
      /\ t.prev = [v \in Releases |-> IF v \in next THEN n ELSE s.prev[v]]
      /\ t = [queue |-> t.queue, seen |-> t.seen, prev |-> t.prev]
  <2>. HIDE DEF n, next
  <2>1. t = [queue |-> Tail(s.queue) \o list, seen |-> s.seen \cup next,
             prev |-> [v \in Releases |-> IF v \in next THEN n ELSE s.prev[v]]]
    <3>. HIDE DEF list
    <3>. QED
      BY <1>2 DEF SearchStep, list, n, next
  <2>. HIDE DEF t, list
  <2>. QED
    BY <2>1
<1>. HIDE DEF n, next, list, t
<1>8. Tail(s.queue) \in Seq(Releases) /\ Len(Tail(s.queue)) = L - 1 /\ \A i \in 1..(L - 1) : Tail(s.queue)[i] = s.queue[i + 1]
  BY <1>2, HeadTailProperties
<1>9. /\ t.queue \in Seq(Releases) /\ Len(t.queue) = (L - 1) + M
      /\ \A i \in 1..((L - 1) + M) : t.queue[i] = IF i <= L - 1 THEN s.queue[i + 1] ELSE list[i - (L - 1)]
  <2>1. /\ t.queue \in Seq(Releases) /\ Len(t.queue) = (L - 1) + M
        /\ \A i \in 1..((L - 1) + M) : t.queue[i] = IF i <= L - 1 THEN Tail(s.queue)[i] ELSE list[i - (L - 1)]
    <3>. DEFINE rest == Tail(s.queue)
    <3>1. rest \in Seq(Releases) /\ Len(rest) = L - 1 /\ list \in Seq(Releases) /\ t.queue = rest \o list
      BY <1>6, <1>7, <1>8
    <3>. HIDE DEF rest, L
    <3>2. /\ rest \o list \in Seq(Releases) /\ Len(rest \o list) = Len(rest) + M
          /\ \A i \in 1..(Len(rest) + M) : (rest \o list)[i] = IF i <= Len(rest) THEN rest[i] ELSE list[i - Len(rest)]
      BY <3>1, ConcatProperties
    <3>. QED
      BY <3>1, <3>2 DEF rest
  <2>2. \A i \in 1..((L - 1) + M) : i <= L - 1 => i \in 1..(L - 1)
    BY <1>3, <1>6
  <2>. QED
    BY <2>1, <2>2, <1>8
<1>. HIDE DEF M, L
<1>10. \A i \in 1..Len(t.queue) : \/ i + 1 \in 2..L /\ t.queue[i] = s.queue[i + 1]
                                  \/ i - (L - 1) \in 1..M /\ t.queue[i] = list[i - (L - 1)] /\ i > L - 1
  <2>1. L \in Nat /\ L # 0 /\ M \in Nat
    BY <1>3, <1>6
  <2>2. \A i \in 1..((L - 1) + M) : (i <= L - 1 /\ i + 1 \in 2..L) \/ (~(i <= L - 1) /\ i - (L - 1) \in 1..M /\ i > L - 1)
    BY <2>1
  <2>. QED
    BY <2>2, <1>9
<1>11. t \in SearchState /\ deeper \in [Releases -> Nat] /\ after \subseteq Releases \ {target}
  <2>1. t.prev \in [Releases -> Releases \cup {0}] /\ t.seen \subseteq Releases
    BY <1>2, <1>3, <1>5, <1>7
  <2>2. deeper \in [Releases -> Nat]
    BY <1>1, <1>3
  <2>. QED
    BY <2>1, <2>2, <1>7, <1>9, <1>1, <1>2, <1>3 DEF SearchState
<1>12. /\ \A v \in next : deeper[v] = depth[n] + 1 /\ t.prev[v] = n
       /\ \A v \in s.seen : deeper[v] = depth[v] /\ t.prev[v] = s.prev[v]
       /\ \A v \in s.seen : depth[v] \in Nat
  BY <1>1, <1>2, <1>5, <1>7
<1>. HIDE DEF deeper
<1>13. Queued(t, after)
  <2>1. after \subseteq t.seen
    BY <1>1, <1>4, <1>7 DEF Queued
  <2>2. \A i \in 2..L : s.queue[i] \in s.seen \ done /\ s.queue[i] # n
    BY <1>1, <1>3 DEF Queued, L
  <2>3. \A i \in 1..Len(t.queue) : t.queue[i] \in t.seen \ after
    <3>1. \A v \in next : v \notin after
      BY <1>1, <1>4, <1>5 DEF Queued
    <3>. QED
      <4>. SUFFICES ASSUME NEW i \in 1..Len(t.queue) PROVE t.queue[i] \in t.seen /\ t.queue[i] \notin after
        OBVIOUS
      <4>1. CASE i + 1 \in 2..L /\ t.queue[i] = s.queue[i + 1]
        <5>1. s.queue[i + 1] \in s.seen /\ s.queue[i + 1] \notin done /\ s.queue[i + 1] # n
          BY <4>1, <2>2
        <5>. QED
          BY <4>1, <5>1, <1>7
      <4>2. CASE i - (L - 1) \in 1..M /\ t.queue[i] = list[i - (L - 1)]
        BY <4>2, <3>1, <1>6, <1>7
      <4>. QED
        BY <4>1, <4>2, <1>10
  <2>4. ASSUME NEW v \in t.seen PROVE v \in after \/ \E i \in 1..Len(t.queue) : t.queue[i] = v
    <3>1. CASE v \in next
      <4>1. PICK i \in 1..M : list[i] = v
        BY <3>1, <1>6
      <4>2. i + (L - 1) \in 1..Len(t.queue) /\ ~(i + (L - 1) <= L - 1) /\ (i + (L - 1)) - (L - 1) = i
        BY <4>1, <1>3, <1>6, <1>9
      <4>. QED
        BY <4>1, <4>2, <1>9
    <3>2. CASE v \notin next
      <4>1. v \in s.seen
        BY <3>2, <1>7
      <4>2. CASE v \in done
        BY <4>2
      <4>3. CASE v \notin done
        <5>1. PICK i \in 1..L : s.queue[i] = v
          BY <4>1, <4>3, <1>1 DEF Queued, L
        <5>2. CASE i = 1
          BY <5>1, <5>2, <1>3
        <5>3. CASE i # 1
          <6>1. i - 1 \in 1..Len(t.queue) /\ i - 1 <= L - 1 /\ (i - 1) + 1 = i
            BY <5>1, <5>3, <1>3, <1>6, <1>9
          <6>. QED
            BY <5>1, <6>1, <1>9
        <5>. QED
          BY <5>2, <5>3
      <4>. QED
        BY <4>2, <4>3
    <3>. QED
      BY <3>1, <3>2
  <2>5. ASSUME NEW i \in 1..Len(t.queue), NEW k \in 1..Len(t.queue), t.queue[i] = t.queue[k] PROVE i = k
    <3>1. \A a \in 2..L, b \in 1..M : s.queue[a] # list[b]
      BY <2>2, <1>5, <1>6
    <3>2. \A a, b \in 2..L : s.queue[a] = s.queue[b] => a = b
      BY <1>1, <1>3 DEF Queued, L
    <3>3. CASE i + 1 \in 2..L /\ t.queue[i] = s.queue[i + 1]
      <4>1. k + 1 \in 2..L /\ t.queue[k] = s.queue[k + 1]
        BY <3>1, <3>3, <2>5, <1>10
      <4>2. i + 1 = k + 1
        BY <3>2, <3>3, <4>1, <2>5
      <4>. QED
        BY <4>2, <1>3, <1>6, <1>9
    <3>4. CASE i - (L - 1) \in 1..M /\ t.queue[i] = list[i - (L - 1)]
      <4>1. k - (L - 1) \in 1..M /\ t.queue[k] = list[k - (L - 1)]
        BY <3>1, <3>4, <2>5, <1>10
      <4>2. i - (L - 1) = k - (L - 1)
        BY <3>4, <4>1, <2>5, <1>6
      <4>. QED
        BY <4>2, <1>3, <1>6, <1>9
    <3>. QED
      BY <3>3, <3>4, <1>10
  <2>. QED
    BY <2>1, <2>3, <2>4, <2>5 DEF Queued
<1>14. IsFiniteSet(done) /\ Cardinality(after) = Cardinality(done) + 1 /\ Cardinality(done) \in Nat
  BY <1>1, <1>4, ReleaseSets, FS_AddElement
<1>. HIDE DEF after
<1>15. Reached(from, t, deeper, after)
  <2>1. from \in t.seen /\ deeper[from] = 0 /\ t.prev[from] = 0
    BY <1>1, <1>7, <1>12 DEF Reached
  <2>2. ASSUME NEW v \in t.seen \ {from}
        PROVE  /\ t.prev[v] \in after /\ t.prev[v] \in images[v] /\ v > t.prev[v] /\ deeper[v] = deeper[t.prev[v]] + 1
    <3>1. CASE v \in next
      BY <3>1, <1>4, <1>5, <1>12 DEF after
    <3>2. CASE v \in s.seen
      <4>1. s.prev[v] \in done /\ s.prev[v] \in images[v] /\ v > s.prev[v] /\ depth[v] = depth[s.prev[v]] + 1
        BY <3>2, <1>1 DEF Reached
      <4>2. s.prev[v] \in s.seen
        BY <4>1, <1>1 DEF Queued
      <4>. QED
        BY <3>2, <4>1, <4>2, <1>12 DEF after
    <3>. QED
      BY <3>1, <3>2, <1>7
  <2>3. ASSUME NEW v \in t.seen PROVE deeper[v] <= Cardinality(after)
    <3>1. \A x \in s.seen : depth[x] <= Cardinality(done) /\ depth[x] \in Nat
      BY <1>1, <1>12 DEF Reached
    <3>2. CASE v \in next
      BY <3>1, <3>2, <1>4, <1>12, <1>14
    <3>3. CASE v \in s.seen
      BY <3>1, <3>3, <1>12, <1>14
    <3>. QED
      BY <3>2, <3>3, <1>7
  <2>. QED
    BY <2>1, <2>2, <2>3 DEF Reached
<1>16. /\ \A i \in 2..L : s.queue[i] \in s.seen /\ depth[s.queue[i]] \in Nat /\ depth[n] <= depth[s.queue[i]] /\ depth[s.queue[i]] <= depth[n] + 1
       /\ \A i, k \in 2..L : /\ i <= k => depth[s.queue[i]] <= depth[s.queue[k]]
                             /\ depth[s.queue[k]] <= depth[s.queue[i]] + 1
       /\ \A v \in done : depth[v] \in Nat /\ depth[v] <= depth[n]
       /\ depth[n] \in Nat
  <2>1. \A i \in 2..L : i \in 1..L /\ 1 <= i
    BY <1>3
  <2>2. 1 \in 1..L
    BY <1>3
  <2>3. \A i \in 1..L : s.queue[i] \in s.seen
    BY <1>1 DEF Queued, L
  <2>4. \A i, k \in 1..L : /\ i <= k => depth[s.queue[i]] <= depth[s.queue[k]]
                           /\ depth[s.queue[k]] <= depth[s.queue[i]] + 1
    BY <1>1 DEF Level, L
  <2>5. \A v \in done : depth[v] \in Nat /\ depth[v] <= depth[n]
    BY <1>1, <1>3, <1>12, <2>2 DEF Level, L, Queued
  <2>. QED
    BY <2>1, <2>2, <2>3, <2>4, <2>5, <1>3, <1>4, <1>12
<1>17. \A i \in 1..Len(t.queue) :
          \/ i + 1 \in 2..L /\ t.queue[i] = s.queue[i + 1] /\ deeper[t.queue[i]] = depth[s.queue[i + 1]]
          \/ i > L - 1 /\ deeper[t.queue[i]] = depth[n] + 1
  BY <1>6, <1>10, <1>12, <1>16
<1>18. Level(t, deeper, after)
  <2>1. ASSUME NEW i \in 1..Len(t.queue), NEW k \in 1..Len(t.queue)
        PROVE  /\ i <= k => deeper[t.queue[i]] <= deeper[t.queue[k]]
               /\ deeper[t.queue[k]] <= deeper[t.queue[i]] + 1
    <3>1. i \in Int /\ k \in Int /\ L \in Int
      BY <1>3
    <3>2. CASE /\ i + 1 \in 2..L /\ deeper[t.queue[i]] = depth[s.queue[i + 1]]
               /\ k + 1 \in 2..L /\ deeper[t.queue[k]] = depth[s.queue[k + 1]]
      BY <3>1, <3>2, <1>16
    <3>3. CASE /\ i + 1 \in 2..L /\ deeper[t.queue[i]] = depth[s.queue[i + 1]]
               /\ k > L - 1 /\ deeper[t.queue[k]] = depth[n] + 1
      BY <3>1, <3>3, <1>16
    <3>4. CASE /\ i > L - 1 /\ deeper[t.queue[i]] = depth[n] + 1
               /\ k + 1 \in 2..L /\ deeper[t.queue[k]] = depth[s.queue[k + 1]]
      BY <3>1, <3>4, <1>16
    <3>5. CASE /\ i > L - 1 /\ deeper[t.queue[i]] = depth[n] + 1
               /\ k > L - 1 /\ deeper[t.queue[k]] = depth[n] + 1
      BY <3>1, <3>5, <1>16
    <3>. QED
      BY <1>17, <3>2, <3>3, <3>4, <3>5
  <2>2. ASSUME NEW v \in after, NEW i \in 1..Len(t.queue) PROVE deeper[v] <= deeper[t.queue[i]]
    <3>1. deeper[v] \in Nat /\ deeper[v] <= depth[n]
      BY <1>1, <1>4, <1>12, <1>16 DEF after, Queued
    <3>2. deeper[t.queue[i]] \in Nat /\ depth[n] <= deeper[t.queue[i]]
      BY <1>16, <1>17
    <3>. QED
      BY <3>1, <3>2, <1>16
  <2>. QED
    BY <2>1, <2>2 DEF Level
<1>19. Followed(target, t, deeper, after)
  <2>1. ASSUME NEW m \in after, NEW v \in Releases, m \in images[v], v > m, v <= target
        PROVE  v \in t.seen /\ deeper[v] <= deeper[m] + 1
    <3>1. CASE m \in done
      <4>1. v \in s.seen /\ depth[v] <= depth[m] + 1 /\ m \in s.seen
        BY <2>1, <3>1, <1>1 DEF Followed, Queued
      <4>. QED
        BY <4>1, <1>7, <1>12
    <3>2. CASE m = n
      <4>1. CASE v \in s.seen
        <5>1. depth[v] <= depth[n] + 1
          <6>1. CASE v \in done
            BY <6>1, <1>16
          <6>2. CASE v \notin done
            <7>1. PICK i \in 1..L : s.queue[i] = v
              BY <4>1, <6>2, <1>1 DEF Queued, L
            <7>2. i = 1 \/ i \in 2..L
              BY <7>1, <1>3
            <7>. QED
              BY <7>1, <7>2, <1>3, <1>16
          <6>. QED
            BY <6>1, <6>2
        <5>. QED
          BY <4>1, <5>1, <3>2, <1>4, <1>7, <1>12
      <4>2. CASE v \notin s.seen
        <5>1. v \in next
          <6>1. v \in Releases \ s.seen /\ n \in images[v] /\ v > n /\ v <= target
            BY <2>1, <3>2, <4>2
          <6>. QED
            BY <6>1 DEF NextImages, next
        <5>. QED
          <6>1. deeper[n] = depth[n] /\ deeper[v] = depth[n] + 1 /\ depth[n] \in Nat
            BY <5>1, <1>4, <1>12, <1>16
          <6>2. v \in t.seen
            BY <5>1, <1>7
          <6>. QED
            BY <6>1, <6>2, <3>2
      <4>. QED
        BY <4>1, <4>2
    <3>. QED
      BY <3>1, <3>2 DEF after
  <2>. QED
    BY <2>1 DEF Followed
<1>20. Breadth(from, target, t, deeper, after)
  BY <1>11, <1>13, <1>15, <1>18, <1>19 DEF Breadth, after
<1>. QED
  BY <1>14, <1>20 DEF after, t, n

\* The states of the search are those of a recursion over 0..Cardinality(Releases).
LEMMA SearchRuns ==
    ASSUME images \in Catalogs, NEW from \in Releases, NEW target \in Releases, from < target
    PROVE  \E f : /\ f[0] = SearchStart(from)
                  /\ \A k \in 1..Cardinality(Releases) : f[k] = SearchStep(f[k - 1], target)
                  /\ Search(from, target) = f[Cardinality(Releases)]
<1>. DEFINE N == Cardinality(Releases)
            V == {s \in SearchState : \E depth, done : Breadth(from, target, s, depth, done)}
            G == [k \in 1..N |-> [s \in V |-> SearchStep(s, target)]]
            F == CHOOSE step : step = [k \in 0..N |-> IF k = 0 THEN SearchStart(from) ELSE SearchStep(step[k - 1], target)]
<1>1. N \in Nat
  BY ReleaseSets
<1>2. SearchStart(from) \in V
  BY SearchStarts DEF Breadth
<1>3. ASSUME NEW s \in V PROVE SearchStep(s, target) \in V
  <2>1. PICK depth, done : Breadth(from, target, s, depth, done)
    OBVIOUS
  <2>2. CASE Ended(s, target)
    BY <2>2 DEF Ended, SearchStep
  <2>3. CASE ~Ended(s, target)
    <3>1. PICK deeper : Breadth(from, target, SearchStep(s, target), deeper, done \cup {Head(s.queue)})
      BY <2>1, <2>3, SearchSteps
    <3>2. SearchStep(s, target) \in SearchState
      BY <3>1 DEF Breadth
    <3>. QED
      BY <3>1, <3>2
  <2>. QED
    BY <2>2, <2>3
<1>4. G \in [1..N -> [V -> V]]
  BY <1>3
<1>. HIDE DEF V
<1>5. PICK f \in [0..N -> V] : Iterated(f, N, SearchStart(from), G)
  <2>. HIDE DEF G, N
  <2>. QED
    BY <1>1, <1>2, <1>4, Iterates
<1>6. f = [k \in 0..N |-> IF k = 0 THEN SearchStart(from) ELSE SearchStep(f[k - 1], target)]
  <2>1. \A k \in 0..N : k # 0 => k - 1 \in 0..N /\ k \in 1..N
    BY <1>1
  <2>2. \A k \in 0..N : k # 0 => G[k][f[k - 1]] = SearchStep(f[k - 1], target)
    BY <2>1, <1>5
  <2>. QED
    BY <2>2, <1>5 DEF Iterated
<1>. HIDE DEF G, N
<1>7. F = [k \in 0..N |-> IF k = 0 THEN SearchStart(from) ELSE SearchStep(F[k - 1], target)]
  BY <1>6, Zenon
<1>8. Search(from, target) = F[N]
  BY DEF Search, N
<1>. HIDE DEF F
<1>9. F[0] = SearchStart(from) /\ \A k \in 1..N : F[k] = SearchStep(F[k - 1], target)
  <2>1. 0 \in 0..N /\ \A k \in 1..N : k \in 0..N /\ k # 0
    BY <1>1
  <2>. QED
    BY <2>1, <1>7
<1>. QED
  BY <1>8, <1>9 DEF N

\* The search ends with nothing queued, or at the target.
LEMMA SearchEnds ==
    ASSUME images \in Catalogs, NEW from \in Releases, NEW target \in Releases, from < target
    PROVE  \E depth, done : Breadth(from, target, Search(from, target), depth, done) /\ Ended(Search(from, target), target)
<1>. DEFINE N == Cardinality(Releases)
<1>1. N \in Nat /\ IsFiniteSet(Releases)
  BY ReleaseSets
<1>2. PICK f : /\ f[0] = SearchStart(from)
               /\ \A k \in 1..N : f[k] = SearchStep(f[k - 1], target)
               /\ Search(from, target) = f[N]
  BY SearchRuns
<1>. DEFINE Goes(k) == \E depth, done : /\ Breadth(from, target, f[k], depth, done)
                                        /\ Ended(f[k], target) \/ Cardinality(done) = k
            T == {k \in Nat : k <= N => Goes(k)}
<1>3. 0 \in T
  <2>1. Breadth(from, target, f[0], [v \in Releases |-> 0], {}) /\ Cardinality({}) = 0
    BY <1>2, SearchStarts, FS_EmptySet
  <2>. QED
    BY <2>1
<1>4. ASSUME NEW k \in Nat, k \in T PROVE k + 1 \in T
  <2>. SUFFICES ASSUME k + 1 <= N PROVE Goes(k + 1)
    OBVIOUS
  <2>1. Goes(k) /\ k + 1 \in 1..N /\ (k + 1) - 1 = k
    BY <1>1, <1>4
  <2>2. PICK depth, done : /\ Breadth(from, target, f[k], depth, done)
                           /\ Ended(f[k], target) \/ Cardinality(done) = k
    BY <2>1
  <2>3. f[k + 1] = SearchStep(f[k], target)
    BY <2>1, <1>2
  <2>4. CASE Ended(f[k], target)
    <3>1. f[k + 1] = f[k]
      BY <2>3, <2>4 DEF Ended, SearchStep
    <3>. QED
      BY <2>2, <2>4, <3>1
  <2>5. CASE ~Ended(f[k], target)
    <3>1. \E deeper : /\ Breadth(from, target, f[k + 1], deeper, done \cup {Head(f[k].queue)})
                      /\ Cardinality(done \cup {Head(f[k].queue)}) = Cardinality(done) + 1
      BY <2>2, <2>3, <2>5, SearchSteps
    <3>. QED
      BY <3>1, <2>2, <2>5
  <2>. QED
    BY <2>4, <2>5
<1>. HIDE DEF Goes
<1>5. N \in T
  <2>. HIDE DEF T, N
  <2>. QED
    BY <1>1, <1>3, <1>4, NatInd
<1>6. PICK depth, done : /\ Breadth(from, target, f[N], depth, done)
                         /\ Ended(f[N], target) \/ Cardinality(done) = N
  BY <1>1, <1>5 DEF Goes
<1>7. done \subseteq Releases /\ target \notin done
  BY <1>6 DEF Breadth
<1>8. Cardinality(done) # N
  BY <1>1, <1>7, FS_Subset
<1>. QED
  BY <1>2, <1>6, <1>8

\* w leads from one release to another along the images.
Way(from, target, w, n) ==
    /\ w \in [1..n -> Releases] /\ w[n] = target
    /\ \A i \in 1..n : w[i] > (IF i = 1 THEN from ELSE w[i - 1]) /\ (IF i = 1 THEN from ELSE w[i - 1]) \in images[w[i]]

\* No step of a way is past its target.
LEMMA WaysClimb ==
    ASSUME images \in Catalogs, NEW from \in Releases, NEW target \in Releases, NEW n \in Nat \ {0}, NEW w, Way(from, target, w, n)
    PROVE  \A i \in 1..n : w[i] <= target
<1>1. w \in [1..n -> Releases] /\ w[n] = target /\ \A i \in 1..n : w[i] \in Nat
  BY RunnersConstants DEF Way
<1>2. target \in Nat
  BY RunnersConstants
<1>. DEFINE T == {m \in Nat : m < n => w[n - m] <= target}
<1>3. 0 \in T
  BY <1>1, <1>2
<1>4. ASSUME NEW m \in Nat, m \in T PROVE m + 1 \in T
  <2>. SUFFICES ASSUME m + 1 < n PROVE w[n - (m + 1)] <= target
    OBVIOUS
  <2>1. n - m \in 1..n /\ n - (m + 1) \in 1..n /\ n - m # 1 /\ (n - m) - 1 = n - (m + 1) /\ m < n
    OBVIOUS
  <2>2. w[n - m] > w[n - (m + 1)]
    BY <2>1 DEF Way
  <2>3. w[n - m] <= target
    BY <2>1, <1>4
  <2>. QED
    BY <2>1, <2>2, <2>3, <1>1, <1>2
<1>. HIDE DEF T
<1>5. \A m \in Nat : m \in T
  BY <1>3, <1>4, NatInd
<1>6. ASSUME NEW i \in 1..n PROVE w[i] <= target
  <2>1. n - i \in Nat /\ n - i < n /\ n - (n - i) = i
    OBVIOUS
  <2>2. n - i \in T
    BY <2>1, <1>5
  <2>. QED
    BY <2>1, <2>2 DEF T
<1>. QED
  BY <1>6

\* A way finds the target seen, in no more steps than its own.
LEMMA SearchIsShortest ==
    ASSUME images \in Catalogs, NEW from \in Releases, NEW target \in Releases, from < target, NEW s, NEW depth, NEW done,
           Breadth(from, target, s, depth, done), Ended(s, target), NEW n \in Nat \ {0}, NEW w, Way(from, target, w, n)
    PROVE  target \in s.seen /\ depth[target] <= n
<1>1. /\ s \in SearchState /\ depth \in [Releases -> Nat] /\ done \subseteq Releases \ {target}
      /\ Queued(s, done) /\ Reached(from, s, depth, done) /\ Level(s, depth, done) /\ Followed(target, s, depth, done)
  BY DEF Breadth
<1>2. \A i \in 1..n : w[i] <= target /\ w[i] \in Releases
  BY WaysClimb DEF Way
<1>. DEFINE at(i) == IF i = 0 THEN from ELSE w[i]
            Known(i) == (at(i) \in s.seen /\ depth[at(i)] <= i) \/ (target \in s.seen /\ depth[target] <= i)
            T == {i \in Nat : i <= n => Known(i)}
<1>3. 0 \in T
  BY <1>1 DEF Reached
<1>4. ASSUME NEW i \in Nat, i \in T PROVE i + 1 \in T
  <2>. SUFFICES ASSUME i + 1 <= n PROVE Known(i + 1)
    OBVIOUS
  <2>1. Known(i) /\ i + 1 \in 1..n /\ (i + 1) - 1 = i /\ (i + 1 = 1 <=> i = 0) /\ i + 1 # 0
    BY <1>4
  <2>2. at(i + 1) \in Releases /\ at(i + 1) <= target /\ at(i + 1) > at(i) /\ at(i) \in images[at(i + 1)]
    BY <2>1, <1>2 DEF Way
  <2>. HIDE DEF at
  <2>3. CASE target \in s.seen /\ depth[target] <= i
    BY <2>3, <1>1
  <2>4. CASE at(i) \in s.seen /\ depth[at(i)] <= i
    <3>0. s.seen \subseteq Releases /\ depth[at(i)] \in Nat
      BY <2>4, <1>1 DEF SearchState
    <3>1. CASE at(i) \in done
      <4>1. at(i + 1) \in s.seen /\ depth[at(i + 1)] <= depth[at(i)] + 1
        BY <3>1, <2>2, <1>1 DEF Followed
      <4>2. depth[at(i + 1)] \in Nat
        BY <2>2, <1>1
      <4>. QED
        BY <4>1, <4>2, <2>4, <3>0
    <3>2. CASE at(i) \notin done
      <4>1. PICK k \in 1..Len(s.queue) : s.queue[k] = at(i)
        BY <3>2, <2>4, <1>1 DEF Queued
      <4>2. s.queue \in Seq(Releases) /\ s.queue # <<>> /\ Len(s.queue) \in Nat
        BY <4>1, <1>1, LenProperties, EmptySeq DEF SearchState
      <4>3. Head(s.queue) = target /\ Head(s.queue) = s.queue[1] /\ 1 \in 1..Len(s.queue)
        BY <4>1, <4>2 DEF Ended
      <4>4. target \in s.seen /\ depth[target] <= depth[at(i)]
        BY <4>1, <4>3, <1>1 DEF Queued, Level
      <4>. QED
        BY <4>4, <2>4, <3>0, <1>1
    <3>. QED
      BY <3>1, <3>2
  <2>. QED
    BY <2>1, <2>3, <2>4
<1>. HIDE DEF Known
<1>5. n \in T
  <2>. HIDE DEF T
  <2>. QED
    BY <1>3, <1>4, NatInd
<1>6. Known(n) /\ at(n) = target
  BY <1>5 DEF Way
<1>. QED
  BY <1>6 DEF Known

\* The end of a way to the target, as long as depth says.
Ending(target, s, depth, w) ==
    /\ w \in Seq(Releases) /\ Len(w) \in Nat \ {0} /\ w[1] \in s.seen /\ w[Len(w)] = target
    /\ \A i \in 1..(Len(w) - 1) : w[i + 1] > w[i] /\ w[i] \in images[w[i + 1]]
    /\ Len(w) + depth[w[1]] = depth[target] + 1

\* A step back lengthens the end of a way, up to its start.
LEMMA BackSteps ==
    ASSUME images \in Catalogs, NEW from \in Releases, NEW target \in Releases, NEW s, NEW depth, NEW done,
           Breadth(from, target, s, depth, done), NEW w, Ending(target, s, depth, w)
    PROVE  /\ Ending(target, s, depth, BackStep(w, s.prev))
           /\ Len(BackStep(w, s.prev)) = Len(w) + 1 \/ (BackStep(w, s.prev) = w /\ w[1] = from)
           /\ depth[w[1]] = 0 => w[1] = from
<1>1. /\ s.seen \subseteq Releases /\ s.prev \in [Releases -> Releases \cup {0}] /\ depth \in [Releases -> Nat] /\ done \subseteq Releases
      /\ Queued(s, done) /\ Reached(from, s, depth, done)
  BY DEF Breadth, SearchState
<1>2. w \in Seq(Releases) /\ Len(w) \in Nat \ {0} /\ w[1] \in s.seen /\ w[Len(w)] = target /\ Head(w) = w[1]
  BY DEF Ending
<1>3. CASE w[1] = from
  <2>1. BackStep(w, s.prev) = w
    BY <1>1, <1>2, <1>3 DEF BackStep, Reached
  <2>. QED
    BY <2>1, <1>3
<1>4. CASE w[1] # from
  <2>. DEFINE p == s.prev[w[1]]
              b == <<p>> \o w
  <2>1. /\ p \in done /\ p \in images[w[1]] /\ w[1] > p /\ depth[w[1]] = depth[p] + 1
    BY <1>1, <1>2, <1>4 DEF Reached
  <2>2. p \in Releases /\ p # 0 /\ p \in s.seen /\ depth[p] \in Nat
    <3>. HIDE DEF p
    <3>1. p \in Releases /\ p \in s.seen
      BY <2>1, <1>1 DEF Queued
    <3>2. p # 0
      BY <3>1, RunnersConstants
    <3>. QED
      BY <3>1, <3>2, <1>1
  <2>3. BackStep(w, s.prev) = b
    BY <2>2, <1>2 DEF BackStep
  <2>. HIDE DEF p
  <2>4. <<p>> \in Seq(Releases) /\ Len(<<p>>) = 1 /\ <<p>>[1] = p
    BY <2>2
  <2>5. b \in Seq(Releases) /\ Len(b) = 1 + Len(w) /\ \A i \in 1..(1 + Len(w)) : b[i] = IF i <= 1 THEN <<p>>[i] ELSE w[i - 1]
    <3>. DEFINE a == <<p>>
    <3>1. a \in Seq(Releases) /\ Len(a) = 1
      BY <2>4
    <3>. HIDE DEF a
    <3>2. /\ a \o w \in Seq(Releases) /\ Len(a \o w) = Len(a) + Len(w)
          /\ \A i \in 1..(Len(a) + Len(w)) : (a \o w)[i] = IF i <= Len(a) THEN a[i] ELSE w[i - Len(a)]
      BY <3>1, <1>2, ConcatProperties
    <3>. QED
      BY <3>1, <3>2 DEF a
  <2>6. b[1] = p /\ \A i \in 2..(1 + Len(w)) : b[i] = w[i - 1]
    BY <2>4, <2>5, <1>2
  <2>. HIDE DEF b
  <2>7. b[Len(b)] = target
    <3>1. Len(b) \in 2..(1 + Len(w)) /\ Len(b) - 1 = Len(w)
      BY <2>5, <1>2
    <3>. QED
      BY <3>1, <2>6, <1>2
  <2>8. ASSUME NEW i \in 1..(Len(b) - 1) PROVE b[i + 1] > b[i] /\ b[i] \in images[b[i + 1]]
    <3>1. CASE i = 1
      <4>1. 2 \in 2..(1 + Len(w)) /\ 2 - 1 = 1
        BY <1>2
      <4>2. b[2] = w[1] /\ b[1] = p
        BY <4>1, <2>6
      <4>. QED
        BY <3>1, <4>2, <2>1
    <3>2. CASE i # 1
      <4>1. i \in 2..(1 + Len(w)) /\ i + 1 \in 2..(1 + Len(w)) /\ (i + 1) - 1 = (i - 1) + 1 /\ i - 1 \in 1..(Len(w) - 1)
        BY <3>2, <2>5, <1>2
      <4>2. b[i + 1] = w[(i - 1) + 1] /\ b[i] = w[i - 1]
        BY <4>1, <2>6
      <4>. QED
        BY <4>1, <4>2 DEF Ending
    <3>. QED
      BY <3>1, <3>2
  <2>9. Len(b) + depth[b[1]] = depth[target] + 1
    <3>1. Len(w) + depth[w[1]] = depth[target] + 1
      BY DEF Ending
    <3>. QED
      BY <3>1, <2>1, <2>2, <2>5, <2>6, <1>2
  <2>10. Ending(target, s, depth, b)
    BY <2>2, <2>5, <2>6, <2>7, <2>8, <2>9, <1>2 DEF Ending
  <2>11. Len(b) = Len(w) + 1 /\ depth[w[1]] # 0
    BY <2>1, <2>2, <2>5, <1>2
  <2>. QED
    BY <2>3, <2>10, <2>11
<1>. QED
  BY <1>3, <1>4

\* The way back reaches the start.
LEMMA BackLeads ==
    ASSUME images \in Catalogs, NEW from \in Releases, NEW target \in Releases, from < target, NEW depth, NEW done,
           Breadth(from, target, Search(from, target), depth, done), target \in Search(from, target).seen
    PROVE  \E w : /\ Ending(target, Search(from, target), depth, w) /\ w[1] = from
                  /\ Path(from, target) = Tail(w)
<1>. DEFINE s == Search(from, target)
            N == Cardinality(Releases)
            V == {w \in Seq(Releases) : Ending(target, s, depth, w)}
            G == [k \in 1..N |-> [w \in V |-> BackStep(w, s.prev)]]
            F == CHOOSE back : back = [k \in 0..N |-> IF k = 0 THEN <<target>> ELSE BackStep(back[k - 1], s.prev)]
<1>0. target \in Nat /\ from \in Nat
  BY RunnersConstants
<1>1. N \in Nat
  BY ReleaseSets
<1>2. depth \in [Releases -> Nat] /\ depth[target] <= N
  <2>1. depth \in [Releases -> Nat] /\ depth[target] <= Cardinality(done) /\ done \subseteq Releases
    BY DEF Breadth, Reached
  <2>2. Cardinality(done) <= N /\ Cardinality(done) \in Nat
    BY <2>1, FS_Subset, ReleaseSets
  <2>. QED
    BY <2>1, <2>2, <1>1
<1>3. <<target>> \in V
  <2>. DEFINE w == <<target>>
  <2>1. w \in Seq(Releases) /\ Len(w) = 1 /\ w[1] = target
    OBVIOUS
  <2>. HIDE DEF w
  <2>2. Ending(target, s, depth, w)
    BY <2>1, <1>2 DEF Ending
  <2>. QED
    BY <2>1, <2>2 DEF w
<1>. HIDE DEF s
<1>4. ASSUME NEW w \in V
      PROVE  /\ BackStep(w, s.prev) \in V
             /\ Len(BackStep(w, s.prev)) = Len(w) + 1 \/ (BackStep(w, s.prev) = w /\ w[1] = from)
             /\ depth[w[1]] = 0 => w[1] = from
  <2>1. Breadth(from, target, s, depth, done) /\ Ending(target, s, depth, w)
    BY DEF s
  <2>2. /\ Ending(target, s, depth, BackStep(w, s.prev))
        /\ Len(BackStep(w, s.prev)) = Len(w) + 1 \/ (BackStep(w, s.prev) = w /\ w[1] = from)
        /\ depth[w[1]] = 0 => w[1] = from
    BY <2>1, BackSteps
  <2>. QED
    BY <2>2 DEF Ending
<1>5. G \in [1..N -> [V -> V]]
  BY <1>4
<1>6. \A w \in V : Ending(target, s, depth, w)
  OBVIOUS
<1>. HIDE DEF V
<1>7. PICK f \in [0..N -> V] : Iterated(f, N, <<target>>, G)
  <2>. HIDE DEF G, N
  <2>. QED
    BY <1>1, <1>3, <1>5, Iterates
<1>8. f = [k \in 0..N |-> IF k = 0 THEN <<target>> ELSE BackStep(f[k - 1], s.prev)]
  <2>1. \A k \in 0..N : k # 0 => k - 1 \in 0..N /\ k \in 1..N
    BY <1>1
  <2>2. \A k \in 0..N : k # 0 => G[k][f[k - 1]] = BackStep(f[k - 1], s.prev)
    BY <2>1, <1>7
  <2>. QED
    BY <2>2, <1>7 DEF Iterated
<1>. HIDE DEF G, N
<1>9. F = [k \in 0..N |-> IF k = 0 THEN <<target>> ELSE BackStep(F[k - 1], s.prev)]
  BY <1>8, Zenon
<1>10. Path(from, target) = Tail(F[N])
  <2>1. ~(target <= from) /\ target \in s.seen
    BY <1>0 DEF s
  <2>2. Path(from, target) = IF target <= from \/ target \notin s.seen THEN <<>> ELSE Tail(F[N])
    BY DEF Path, N, s
  <2>. QED
    BY <2>1, <2>2
<1>. HIDE DEF F
<1>11. F[0] = <<target>> /\ \A k \in 1..N : F[k] = BackStep(F[k - 1], s.prev)
  <2>1. 0 \in 0..N /\ \A k \in 1..N : k \in 0..N /\ k # 0
    BY <1>1
  <2>. QED
    BY <2>1, <1>9
<1>. DEFINE T == {k \in Nat : k <= N => F[k] \in V /\ (Len(F[k]) = k + 1 \/ F[k][1] = from)}
<1>12. 0 \in T
  BY <1>3, <1>11
<1>13. ASSUME NEW k \in Nat, k \in T PROVE k + 1 \in T
  <2>. SUFFICES ASSUME k + 1 <= N PROVE F[k + 1] \in V /\ (Len(F[k + 1]) = (k + 1) + 1 \/ F[k + 1][1] = from)
    OBVIOUS
  <2>1. F[k] \in V /\ (Len(F[k]) = k + 1 \/ F[k][1] = from) /\ k + 1 \in 1..N /\ (k + 1) - 1 = k
    BY <1>1, <1>13
  <2>. DEFINE w == F[k]
  <2>2. F[k + 1] = BackStep(w, s.prev) /\ w \in V
    BY <2>1, <1>11
  <2>. HIDE DEF w
  <2>3. /\ BackStep(w, s.prev) \in V
        /\ Len(BackStep(w, s.prev)) = Len(w) + 1 \/ (BackStep(w, s.prev) = w /\ w[1] = from)
    BY <2>2, <1>4
  <2>4. CASE BackStep(w, s.prev) = w /\ w[1] = from
    BY <2>2, <2>3, <2>4
  <2>5. CASE Len(BackStep(w, s.prev)) = Len(w) + 1 /\ Len(w) = k + 1
    BY <2>2, <2>3, <2>5
  <2>6. CASE Len(BackStep(w, s.prev)) = Len(w) + 1 /\ w[1] = from
    <3>1. Ending(target, s, depth, w) /\ Ending(target, s, depth, BackStep(w, s.prev))
      BY <2>2, <2>3, <1>6
    <3>2. depth[from] = 0
      BY DEF Breadth, Reached
    <3>3. Len(w) + 0 = depth[target] + 1
      BY <3>1, <3>2, <2>6 DEF Ending
    <3>4. BackStep(w, s.prev)[1] \in Releases
      BY <3>1, ElementOfSeq DEF Ending
    <3>5. depth[BackStep(w, s.prev)[1]] \in Nat /\ depth[target] \in Nat
      BY <3>4, <1>2
    <3>6. (Len(w) + 1) + depth[BackStep(w, s.prev)[1]] = depth[target] + 1
      BY <3>1, <2>6 DEF Ending
    <3>. QED
      BY <3>3, <3>5, <3>6
  <2>. QED
    BY <2>1, <2>3, <2>4, <2>5, <2>6 DEF w
<1>. HIDE DEF T
<1>14. F[N] \in V /\ (Len(F[N]) = N + 1 \/ F[N][1] = from)
  <2>1. N \in T
    BY <1>1, <1>12, <1>13, NatInd
  <2>. QED
    BY <2>1, <1>1 DEF T
<1>. DEFINE z == F[N]
<1>15. z \in V /\ (Len(z) = N + 1 \/ z[1] = from) /\ Path(from, target) = Tail(z)
  BY <1>14, <1>10
<1>. HIDE DEF z
<1>16. z[1] = from
  <2>1. CASE Len(z) = N + 1
    <3>1. z \in Seq(Releases) /\ Len(z) \in Nat \ {0} /\ Len(z) + depth[z[1]] = depth[target] + 1
      BY <1>6, <1>15 DEF Ending
    <3>2. depth[z[1]] \in Nat /\ depth[target] \in Nat
      BY <3>1, <1>2, ElementOfSeq
    <3>3. depth[z[1]] = 0
      BY <2>1, <3>1, <3>2, <1>1, <1>2
    <3>. QED
      BY <3>3, <1>4, <1>15
  <2>. QED
    BY <2>1, <1>15
<1>. QED
  BY <1>6, <1>15, <1>16 DEF s

\* Path is a way with the fewest steps, or there is none.
LEMMA PathLeads ==
    ASSUME images \in Catalogs, NEW from \in Releases, NEW target \in Releases, from < target
    PROVE  /\ Path(from, target) \in Seq(Releases)
           /\ IF Path(from, target) = <<>> THEN \A n \in Nat \ {0} : \A w : ~Way(from, target, w, n)
              ELSE /\ Len(Path(from, target)) \in 1..Cardinality(Releases)
                   /\ Way(from, target, Path(from, target), Len(Path(from, target)))
                   /\ \A n \in Nat \ {0} : \A w : Way(from, target, w, n) => Len(Path(from, target)) <= n
<1>. DEFINE s == Search(from, target)
            p == Path(from, target)
<1>0. target \in Nat /\ from \in Nat
  BY RunnersConstants
<1>1. PICK depth, done : Breadth(from, target, s, depth, done) /\ Ended(s, target)
  BY SearchEnds
<1>2. \A n \in Nat \ {0} : \A w : Way(from, target, w, n) => target \in s.seen /\ depth[target] <= n
  <2>. HIDE DEF s
  <2>. QED
    BY <1>1, SearchIsShortest
<1>3. CASE target \notin s.seen
  <2>1. p = <<>>
    BY <1>3 DEF Path
  <2>. HIDE DEF p, s
  <2>2. p \in Seq(Releases)
    BY <2>1
  <2>. QED
    BY <2>1, <2>2, <1>2, <1>3 DEF p
<1>4. CASE target \in s.seen
  <2>1. PICK w : Ending(target, s, depth, w) /\ w[1] = from /\ p = Tail(w)
    BY <1>1, <1>4, BackLeads
  <2>. HIDE DEF p, s
  <2>2. w \in Seq(Releases) /\ Len(w) \in Nat \ {0} /\ w # <<>> /\ w[Len(w)] = target
    BY <2>1, EmptySeq DEF Ending
  <2>3. depth[from] = 0 /\ depth[target] \in Nat /\ depth[target] <= Cardinality(Releases)
    <3>1. depth \in [Releases -> Nat] /\ depth[from] = 0 /\ depth[target] <= Cardinality(done) /\ done \subseteq Releases
      BY <1>1, <1>4 DEF Breadth, Reached
    <3>2. Cardinality(done) <= Cardinality(Releases) /\ Cardinality(done) \in Nat /\ Cardinality(Releases) \in Nat
      BY <3>1, FS_Subset, ReleaseSets
    <3>. QED
      BY <3>1, <3>2
  <2>4. Len(w) = depth[target] + 1
    BY <2>1, <2>2, <2>3 DEF Ending
  <2>5. p \in Seq(Releases) /\ Len(p) = Len(w) - 1 /\ \A i \in 1..Len(p) : p[i] = w[i + 1]
    BY <2>1, <2>2, HeadTailProperties
  <2>6. Len(w) # 1
    BY <2>1, <2>2, <1>0
  <2>7. Len(p) \in 1..Cardinality(Releases) /\ p # <<>> /\ Len(p) = depth[target]
    <3>1. Len(p) = depth[target] /\ Len(p) >= 1
      BY <2>2, <2>4, <2>5, <2>6, <2>3
    <3>2. Cardinality(Releases) \in Nat
      BY ReleaseSets
    <3>. QED
      BY <3>1, <3>2, <2>3, <2>5, EmptySeq
  <2>8. Way(from, target, p, Len(p))
    <3>. DEFINE n == Len(p)
    <3>1. n \in Nat \ {0} /\ Len(w) = n + 1
      BY <2>2, <2>5, <2>7
    <3>2. p \in [1..n -> Releases]
      BY <2>5, LenProperties
    <3>3. p[n] = target
      BY <3>1, <2>2, <2>5
    <3>4. ASSUME NEW i \in 1..n
          PROVE  p[i] > (IF i = 1 THEN from ELSE p[i - 1]) /\ (IF i = 1 THEN from ELSE p[i - 1]) \in images[p[i]]
      <4>1. i \in 1..(Len(w) - 1)
        BY <3>1
      <4>2. w[i + 1] > w[i] /\ w[i] \in images[w[i + 1]]
        BY <2>1, <4>1 DEF Ending
      <4>3. p[i] = w[i + 1]
        BY <2>5
      <4>4. CASE i = 1
        BY <4>2, <4>3, <4>4, <2>1
      <4>5. CASE i # 1
        <5>1. i - 1 \in 1..Len(p) /\ (i - 1) + 1 = i
          BY <4>5, <3>1
        <5>2. p[i - 1] = w[i]
          BY <5>1, <2>5
        <5>. QED
          BY <4>2, <4>3, <4>5, <5>2
      <4>. QED
        BY <4>4, <4>5
    <3>. QED
      BY <3>2, <3>3, <3>4 DEF Way
  <2>9. \A n \in Nat \ {0} : \A v : Way(from, target, v, n) => Len(p) <= n
    BY <2>7, <1>2
  <2>. QED
    BY <2>5, <2>7, <2>8, <2>9 DEF p
<1>. QED
  BY <1>3, <1>4

\* PathIsShortest says the same of every pair of releases.
LEMMA PathsAreShortest ==
    ASSUME images \in Catalogs
    PROVE  PathIsShortest
<1>. SUFFICES ASSUME NEW from \in Releases, NEW target \in Releases, from < target
              PROVE  LET ways == {w \in UNION {[1..n -> Releases] : n \in 1..Cardinality(Releases)} :
                                    /\ w[Len(w)] = target
                                    /\ \A i \in 1..Len(w) :
                                          LET n == IF i = 1 THEN from ELSE w[i - 1] IN w[i] > n /\ n \in images[w[i]]}
                         p == Path(from, target)
                     IN  IF ways = {} THEN p = <<>> ELSE p \in ways /\ \A w \in ways : Len(p) <= Len(w)
  BY DEF PathIsShortest
<1>. DEFINE ways == {w \in UNION {[1..n -> Releases] : n \in 1..Cardinality(Releases)} :
                       /\ w[Len(w)] = target
                       /\ \A i \in 1..Len(w) : LET n == IF i = 1 THEN from ELSE w[i - 1] IN w[i] > n /\ n \in images[w[i]]}
            p == Path(from, target)
<1>1. Cardinality(Releases) \in Nat
  BY ReleaseSets
<1>2. ASSUME NEW w \in ways PROVE Len(w) \in Nat \ {0} /\ Way(from, target, w, Len(w))
  <2>1. PICK n \in 1..Cardinality(Releases) : w \in [1..n -> Releases]
    OBVIOUS
  <2>2. w \in Seq(Releases) /\ n \in Nat \ {0}
    BY <2>1, <1>1, SeqDef
  <2>3. Len(w) = n
    <3>1. DOMAIN w = 1..n /\ DOMAIN w = 1..Len(w) /\ Len(w) \in Nat
      BY <2>1, <2>2, LenProperties
    <3>. QED
      BY <3>1, <2>2
  <2>4. w[n] = target /\ \A i \in 1..n : w[i] > (IF i = 1 THEN from ELSE w[i - 1]) /\ (IF i = 1 THEN from ELSE w[i - 1]) \in images[w[i]]
    BY <2>3
  <2>. QED
    BY <2>1, <2>2, <2>3, <2>4 DEF Way
<1>3. ASSUME NEW w \in Seq(Releases), Len(w) \in 1..Cardinality(Releases), Way(from, target, w, Len(w)) PROVE w \in ways
  <2>1. w \in UNION {[1..n -> Releases] : n \in 1..Cardinality(Releases)}
    BY <1>3 DEF Way
  <2>2. w[Len(w)] = target /\ \A i \in 1..Len(w) : w[i] > (IF i = 1 THEN from ELSE w[i - 1]) /\ (IF i = 1 THEN from ELSE w[i - 1]) \in images[w[i]]
    BY <1>3 DEF Way
  <2>. QED
    BY <2>1, <2>2
<1>. HIDE DEF ways
<1>4. /\ p \in Seq(Releases)
      /\ p = <<>> => \A n \in Nat \ {0} : \A w : ~Way(from, target, w, n)
      /\ p # <<>> => /\ Len(p) \in 1..Cardinality(Releases)
                     /\ Way(from, target, p, Len(p))
                     /\ \A n \in Nat \ {0} : \A w : Way(from, target, w, n) => Len(p) <= n
  BY PathLeads
<1>. HIDE DEF p
<1>5. CASE p = <<>>
  <2>1. ways = {}
    BY <1>2, <1>4, <1>5
  <2>. QED
    BY <2>1, <1>5 DEF ways, p
<1>6. CASE p # <<>>
  <2>1. p \in ways
    BY <1>3, <1>4, <1>6
  <2>2. \A w \in ways : Len(p) <= Len(w)
    BY <1>2, <1>4, <1>6
  <2>. QED
    BY <2>1, <2>2 DEF ways, p
<1>. QED
  BY <1>5, <1>6

-------------------------------------------------------------------------------
(* The variables of a script *)

\* The rank of a scope.
LEMMA Ranks ==
    /\ Rank("global") = 0 /\ Rank("group") = 1 /\ Rank("device") = 2
    /\ \A s \in Scopes : Rank(s) \in Nat /\ s # Unset
BY DEF Rank, Scopes, Unset

\* Scopes are finitely many.
LEMMA ScopeSets ==
    ASSUME NEW rows \in SUBSET Scopes
    PROVE  IsFiniteSet(rows) /\ Cardinality(rows) \in Nat
<1>1. IsFiniteSet({"global"})
  BY FS_Singleton
<1>2. IsFiniteSet({"global"} \cup {"group"})
  BY <1>1, FS_AddElement
<1>3. IsFiniteSet(({"global"} \cup {"group"}) \cup {"device"})
  BY <1>2, FS_AddElement
<1>4. Scopes = ({"global"} \cup {"group"}) \cup {"device"}
  BY DEF Scopes
<1>. QED
  BY <1>3, <1>4, FS_Subset, FS_CardinalityType

\* The highest scope of a set.
Highest(rows) == IF "device" \in rows THEN "device" ELSE IF "group" \in rows THEN "group"
                 ELSE IF "global" \in rows THEN "global" ELSE Unset

\* Whatever the order, the winner is the highest scope there is.
LEMMA WinnerIsHighest ==
    ASSUME NEW rows \in SUBSET Scopes, NEW q \in Orders(rows)
    PROVE  Winner(q) = Highest(rows)
<1>. DEFINE n == Cardinality(rows)
            V == Scopes \cup {Unset}
            G == [k \in 1..n |-> [w \in V |-> IF Outranks(q[k], w) THEN q[k] ELSE w]]
            F == CHOOSE entry : entry = [k \in 0..n |->
                   IF k = 0 THEN Unset ELSE IF Outranks(q[k], entry[k - 1]) THEN q[k] ELSE entry[k - 1]]
<1>1. IsFiniteSet(rows) /\ n \in Nat
  BY ScopeSets
<1>2. q \in [1..n -> rows] /\ \A i, k \in 1..n : q[i] = q[k] => i = k
  BY DEF Orders
<1>3. Len(q) = n
  <2>1. q \in Seq(rows)
    BY <1>1, <1>2, SeqDef
  <2>2. DOMAIN q = 1..n /\ DOMAIN q = 1..Len(q) /\ Len(q) \in Nat
    BY <2>1, <1>2, LenProperties
  <2>. QED
    BY <2>2, <1>1
<1>4. \A s \in rows : \E i \in 1..n : q[i] = s
  <2>1. q \in Injection(1..n, rows)
    BY <1>2 DEF Injection, IsInjective
  <2>2. Cardinality(1..n) = Cardinality(rows)
    BY <1>1, FS_Interval
  <2>3. q \in Surjection(1..n, rows)
    BY <2>1, <2>2, <1>1, FS_Injection
  <2>. QED
    BY <2>3 DEF Surjection
<1>5. G \in [1..n -> [V -> V]]
  BY <1>2
<1>. HIDE DEF n
<1>6. PICK f \in [0..n -> V] : Iterated(f, n, Unset, G)
  <2>1. Unset \in V
    OBVIOUS
  <2>. HIDE DEF G, V
  <2>. QED
    BY <2>1, <1>1, <1>5, Iterates
<1>7. f = [k \in 0..n |-> IF k = 0 THEN Unset ELSE IF Outranks(q[k], f[k - 1]) THEN q[k] ELSE f[k - 1]]
  <2>1. \A k \in 0..n : k # 0 => k - 1 \in 0..n /\ k \in 1..n
    BY <1>1
  <2>. HIDE DEF V
  <2>2. \A k \in 0..n : k # 0 => G[k][f[k - 1]] = IF Outranks(q[k], f[k - 1]) THEN q[k] ELSE f[k - 1]
    BY <2>1, <1>6
  <2>. QED
    BY <2>2, <1>6 DEF Iterated
<1>. HIDE DEF G
<1>8. F = [k \in 0..n |-> IF k = 0 THEN Unset ELSE IF Outranks(q[k], F[k - 1]) THEN q[k] ELSE F[k - 1]]
  BY <1>7, Zenon
<1>9. Winner(q) = F[n]
  BY <1>3 DEF Winner
<1>. HIDE DEF F
<1>10. F[0] = Unset /\ \A k \in 1..n : F[k] = IF Outranks(q[k], F[k - 1]) THEN q[k] ELSE F[k - 1]
  <2>1. 0 \in 0..n /\ \A k \in 1..n : k \in 0..n /\ k # 0
    BY <1>1
  <2>. QED
    BY <2>1, <1>8
<1>. DEFINE Tops(k) == IF k = 0 THEN F[k] = Unset
                       ELSE F[k] \in rows /\ \A i \in 1..k : Rank(q[i]) <= Rank(F[k])
            T == {k \in Nat : k <= n => Tops(k)}
<1>11. 0 \in T
  BY <1>10
<1>12. ASSUME NEW k \in Nat, k \in T PROVE k + 1 \in T
  <2>. SUFFICES ASSUME k + 1 <= n PROVE Tops(k + 1)
    OBVIOUS
  <2>1. Tops(k) /\ k + 1 \in 1..n /\ (k + 1) - 1 = k
    BY <1>1, <1>12
  <2>2. F[k + 1] = IF Outranks(q[k + 1], F[k]) THEN q[k + 1] ELSE F[k]
    BY <2>1, <1>10
  <2>3. q[k + 1] \in rows /\ \A i \in 1..k : q[i] \in rows
    BY <2>1, <1>1, <1>2
  <2>4. \A s \in rows : Rank(s) \in Nat /\ s # Unset
    BY Ranks
  <2>5. CASE k = 0
    <3>1. F[k + 1] = q[k + 1]
      BY <2>1, <2>2, <2>5 DEF Outranks
    <3>. QED
      BY <3>1, <2>3, <2>4, <2>5
  <2>6. CASE k # 0
    <3>1. F[k] \in rows /\ \A i \in 1..k : Rank(q[i]) <= Rank(F[k])
      BY <2>1, <2>6
    <3>2. Rank(q[k + 1]) <= Rank(F[k + 1]) /\ Rank(F[k]) <= Rank(F[k + 1]) /\ F[k + 1] \in rows
      BY <3>1, <2>2, <2>3, <2>4 DEF Outranks
    <3>3. \A i \in 1..(k + 1) : i = k + 1 \/ i \in 1..k
      OBVIOUS
    <3>. QED
      BY <3>1, <3>2, <3>3, <2>3, <2>4
  <2>. QED
    BY <2>5, <2>6
<1>. HIDE DEF T, Tops
<1>13. Tops(n)
  <2>1. n \in T
    BY <1>1, <1>11, <1>12, NatInd
  <2>. QED
    BY <2>1, <1>1 DEF T
<1>14. CASE n = 0
  <2>1. rows = {}
    BY <1>4, <1>14
  <2>. QED
    BY <2>1, <1>9, <1>13, <1>14 DEF Tops, Highest
<1>15. CASE n # 0
  <2>1. Winner(q) \in rows /\ \A s \in rows : Rank(s) <= Rank(Winner(q))
    BY <1>4, <1>9, <1>13, <1>15 DEF Tops
  <2>2. Winner(q) \in {"global", "group", "device"}
    BY <2>1 DEF Scopes
  <2>3. CASE Winner(q) = "device"
    BY <2>1, <2>3 DEF Highest
  <2>4. CASE Winner(q) = "group"
    BY <2>1, <2>4, Ranks DEF Highest
  <2>5. CASE Winner(q) = "global"
    BY <2>1, <2>5, Ranks DEF Highest
  <2>. QED
    BY <2>2, <2>3, <2>4, <2>5
<1>. QED
  BY <1>14, <1>15

\* There is an order of the rows.
LEMMA RowsHaveOrder ==
    ASSUME NEW rows \in SUBSET Scopes
    PROVE  Orders(rows) # {}
<1>1. IsFiniteSet(rows)
  BY ScopeSets
<1>2. PICK q : q \in Bijection(1..Cardinality(rows), rows)
  BY <1>1, FS_CardinalityType DEF ExistsBijection
<1>3. q \in [1..Cardinality(rows) -> rows] /\ \A i, k \in DOMAIN q : q[i] = q[k] => i = k
  BY <1>2 DEF Bijection, Injection, IsInjective
<1>4. q \in Orders(rows)
  BY <1>3 DEF Orders
<1>. QED
  BY <1>4

\* The value of the highest scope that defines one, for a device in the group or not.
ByRank(member) ==
    IF variable["device"] # Unset THEN variable["device"]
    ELSE IF member /\ variable["group"] # Unset THEN variable["group"] ELSE variable["global"]

\* The rows in any order give the value of the highest scope.
LEMMA OrdersAgree ==
    ASSUME NEW member, NEW q \in Orders(Rows(member))
    PROVE  ValueOf(Winner(q)) = ByRank(member)
<1>1. Rows(member) \in SUBSET Scopes
  BY DEF Rows
<1>2. Winner(q) = Highest(Rows(member))
  BY <1>1, WinnerIsHighest
<1>. QED
  BY <1>2 DEF Highest, Rows, Scopes, ValueOf, Unset, ByRank

\* The value that is merged is that of the highest scope.
LEMMA MergedIs ==
    ASSUME NEW member
    PROVE  Merged(member) = ByRank(member)
<1>1. (CHOOSE q \in Orders(Rows(member)) : TRUE) \in Orders(Rows(member))
  <2>1. Rows(member) \in SUBSET Scopes
    BY DEF Rows
  <2>. QED
    BY <2>1, RowsHaveOrder
<1>2. ValueOf(Winner(CHOOSE q \in Orders(Rows(member)) : TRUE)) = ByRank(member)
  BY <1>1, OrdersAgree
<1>. QED
  BY <1>2 DEF Merged

\* The text of a body for a device, by these values.
TextOf(body, dev) ==
    <<body, CASE body = "uses" -> ByRank(dev.member) [] body = "device" -> dev.data [] OTHER -> Unset>>

\* Render is that text.
LEMMA RenderIs ==
    ASSUME NEW body, NEW dev
    PROVE  Render(body, dev) = TextOf(body, dev)
<1>1. Merged(dev.member) = ByRank(dev.member)
  BY MergedIs
<1>. QED
  BY <1>1 DEF Render, Filled, TextOf

-------------------------------------------------------------------------------
(* The runners *)

\* The types of the runners, beside those of the catalogue.
RunnerTypes ==
    /\ <<story, tale>> \in Plots /\ images \in Catalogs
    /\ change.pc \in {"none", "planned", "install", "pull", "verify", "reboot", "script", "ok", "failed"}
    /\ change.list \subseteq Contents /\ change.todo \subseteq change.list
    /\ change.path \in Seq(Releases) /\ change.target \in Releases \cup {0}
    /\ device.got \subseteq Contents /\ device.fw \in Releases /\ recorded \in Releases
    /\ script \in Bodies /\ readonly \in Bodies \cup {"none"}
    /\ variable \in [Scopes -> Values \cup {Unset}] /\ listed \in Listed
    /\ grant.file \subseteq Contents /\ session.file \subseteq Contents /\ transfer \subseteq Contents
    /\ clock \in 0..MaxClock /\ strokes \in 0..tale.events
    /\ grant.active <=> change.pc = "pull"

\* A record with the fields of a change.
IsChange(r) ==
    r = [pc |-> r.pc, verify |-> r.verify, want |-> r.want, latest |-> r.latest, target |-> r.target, body |-> r.body,
         text |-> r.text, dev |-> r.dev, list |-> r.list, todo |-> r.todo, cur |-> r.cur, path |-> r.path]

\* The fields of the records, and the two sets of texts.
Fields ==
    /\ IsChange(change)
    /\ device = [fw |-> device.fw, got |-> device.got, other |-> device.other]
    /\ ran = <<ran[1], ran[2]>>

\* Who is at which step.
StepsOfKind ==
    /\ change.pc \in {"pull", "verify"} => tale.kind = "signatures"
    /\ change.pc = "install" => tale.kind \in {"signatures", "firmware"}
    /\ change.pc = "reboot" => tale.kind = "firmware"
    /\ change.pc = "script" => tale.kind = "script"
    /\ tale.kind = "signatures" /\ change.pc = "ok" => change.todo = {}

\* The version of c is reported, by c or by something else on the device.
Shown(c) == c \in device.got \/ device.other = Version[c] \/ \E x \in device.got \ {c} : Version[x] = Version[c]

\* What a deployment with verification has behind it was seen on the device.
DoneIsShown ==
    tale.kind = "signatures" /\ change.verify /\ change.pc \in {"install", "pull", "verify", "ok"} =>
       \A c \in change.list \ change.todo : Shown(c)

\* A grant, and the one of the session, ends no later than the file was granted.
GrantsAreKnown ==
    /\ granted \in [Contents -> Int] /\ grant.until \in Nat /\ session.until \in Nat
    /\ \A c \in Contents : granted[c] <= clock + TTL
    /\ \A c \in grant.file : grant.until <= granted[c]
    /\ \A c \in session.file : session.until <= granted[c]

\* The images left lead from the device to the target, one upgrading from the other.
OnPath ==
    tale.kind = "firmware" =>
       /\ change.pc \in {"install", "reboot"} =>
             /\ change.path # <<>> /\ change.path[Len(change.path)] = change.target
             /\ \A i \in 1..(Len(change.path) - 1) : change.path[i] \in images[change.path[i + 1]]
       /\ change.pc = "install" /\ ~foreign => device.fw \in images[change.path[1]]
       /\ change.pc = "ok" /\ ~foreign => device.fw = change.target

\* A planned script is what its approvers saw, with the device as it is; one that
\* has begun, with the device as it was read.
TextIsApproved ==
    tale.kind = "script" /\ ~foreign =>
       /\ change.pc = "planned" => change.text = TextOf(change.body, listed)
       /\ change.pc = "script" => change.text = TextOf(change.body, change.dev)

\* The inductive invariant of the runners.
RunnersInv ==
    /\ RunnerTypes /\ Fields /\ StepsOfKind /\ DoneIsShown /\ GrantsAreKnown /\ OnPath /\ TextIsApproved /\ OutsideOnlyReads

\* Types of the runners, by name.
LEMMA RunnersByName == (RunnersTypeOK <=> TypeOK /\ RunnerTypes)
BY DEF RunnersTypeOK, RunnerTypes

\* The step of a run becomes x and nothing else of the change.
StepTo(x) ==
    /\ change'.pc = x /\ change'.verify = change.verify /\ change'.target = change.target /\ change'.body = change.body
    /\ change'.text = change.text /\ change'.list = change.list /\ change'.todo = change.todo /\ change'.path = change.path
    /\ IsChange(change')

\* Became does that.
LEMMA BecameStep ==
    ASSUME Fields, NEW x, Became(x)
    PROVE  StepTo(x)
BY DEF Fields, Became, StepTo, IsChange

\* A change that is settled, or gone, has nothing to keep.
LEMMA SettledKeeps ==
    ASSUME change'.pc \in {"failed", "none"}
    PROVE  StepsOfKind' /\ DoneIsShown' /\ OnPath' /\ TextIsApproved'
BY DEF StepsOfKind, DoneIsShown, OnPath, TextIsApproved

\* What is planned stays approved while the variables and the device's row stand.
LEMMA ApprovalKeeps ==
    ASSUME TextIsApproved, UNCHANGED <<tale, variable, listed, foreign, change>>
    PROVE  TextIsApproved'
BY DEF TextIsApproved, TextOf, ByRank

\* A step that leaves the run, its device and the variables alone.
LEMMA RunKeeps ==
    ASSUME RunnersInv, UNCHANGED <<tale, images, variable, listed, change, device, foreign>>
    PROVE  StepsOfKind' /\ DoneIsShown' /\ OnPath' /\ TextIsApproved'
<1>1. TextIsApproved'
  BY ApprovalKeeps DEF RunnersInv
<1>. QED
  BY <1>1 DEF RunnersInv, StepsOfKind, DoneIsShown, Shown, OnPath

\* A step that leaves the grants alone.
LEMMA GrantsKeep ==
    ASSUME RunnersInv, UNCHANGED <<granted, grant, session, clock>>
    PROVE  GrantsAreKnown'
BY DEF RunnersInv, GrantsAreKnown

\* A step that runs no text.
LEMMA TextsKeep ==
    ASSUME RunnersInv, UNCHANGED ran
    PROVE  OutsideOnlyReads'
BY DEF RunnersInv, OutsideOnlyReads

-------------------------------------------------------------------------------
(* Deployments *)

\* A deployment is previewed.
LEMMA CreateSignaturesKeeps ==
    ASSUME RunnersInv, NEW want \in SUBSET Contents, NEW latest \in BOOLEAN, NEW verify \in BOOLEAN,
           CreateSignatures(want, latest, verify)
    PROVE  RunnersInv'
<1>1. /\ tale.kind = "signatures" /\ change.pc = "none"
      /\ change' = [NoChange EXCEPT !.pc = "planned", !.want = want, !.latest = latest, !.verify = verify]
      /\ UNCHANGED <<story, tale, images, device, recorded, script, variable, listed, readonly, grant, session, transfer, clock, strokes, ran, granted>>
  BY DEF CreateSignatures, vars
<1>2. IsChange(change') /\ change'.pc = "planned" /\ change'.list = {} /\ change'.todo = {} /\ change'.path = <<>> /\ change'.target = 0
  <2>1. change' = [pc |-> "planned", verify |-> verify, want |-> want, latest |-> latest, target |-> 0, body |-> "none",
                   text |-> <<>>, dev |-> Unprobed, list |-> {}, todo |-> {}, cur |-> {}, path |-> <<>>]
    BY <1>1 DEF NoChange
  <2>2. change'.pc = "planned" /\ change'.list = {} /\ change'.todo = {} /\ change'.path = <<>> /\ change'.target = 0
    BY <2>1
  <2>3. IsChange(change')
    BY <2>1, Zenon DEF IsChange
  <2>. QED
    BY <2>2, <2>3
<1>3. RunnerTypes'
  <2>1. change'.path \in Seq(Releases)
    BY <1>2, EmptySeq
  <2>. QED
    BY <1>1, <1>2, <2>1 DEF RunnersInv, RunnerTypes
<1>4. Fields'
  BY <1>1, <1>2 DEF RunnersInv, Fields
<1>5. StepsOfKind' /\ DoneIsShown' /\ OnPath' /\ TextIsApproved'
  BY <1>1, <1>2 DEF StepsOfKind, DoneIsShown, OnPath, TextIsApproved
<1>. QED
  BY <1>1, <1>3, <1>4, <1>5, GrantsKeep, TextsKeep DEF RunnersInv

\* A deployment resolves its packages again.
LEMMA RunSignaturesKeeps ==
    ASSUME RunnersInv, RunSignatures
    PROVE  RunnersInv'
<1>1. /\ tale.kind = "signatures" /\ change.pc = "planned"
      /\ UNCHANGED <<story, tale, images, script, variable, listed, readonly, ran, device, recorded, grant, session, transfer, clock, strokes, foreign, granted>>
  BY DEF RunSignatures, Rest, vars
<1>2. Fields /\ RunnerTypes
  BY DEF RunnersInv
<1>3. CASE Became("failed")
  <2>1. StepTo("failed")
    BY <1>2, <1>3, BecameStep
  <2>2. RunnerTypes'
    BY <1>1, <1>2, <2>1 DEF RunnerTypes, StepTo
  <2>3. Fields' /\ change'.pc = "failed"
    BY <1>1, <1>2, <2>1 DEF Fields, StepTo
  <2>. QED
    BY <1>1, <2>2, <2>3, SettledKeeps, GrantsKeep, TextsKeep DEF RunnersInv
<1>4. ASSUME NEW list \in SUBSET Contents, change' = [change EXCEPT !.pc = "install", !.list = list, !.todo = list]
      PROVE  RunnersInv'
  <2>1. /\ IsChange(change') /\ change'.pc = "install" /\ change'.list = list /\ change'.todo = list
        /\ change'.path = change.path /\ change'.target = change.target
    BY <1>2, <1>4 DEF Fields, IsChange
  <2>2. RunnerTypes'
    BY <1>1, <1>2, <2>1 DEF RunnerTypes
  <2>3. Fields'
    BY <1>1, <1>2, <2>1 DEF Fields
  <2>4. StepsOfKind' /\ DoneIsShown' /\ OnPath' /\ TextIsApproved'
    BY <1>1, <2>1 DEF StepsOfKind, DoneIsShown, OnPath, TextIsApproved
  <2>. QED
    BY <1>1, <2>2, <2>3, <2>4, GrantsKeep, TextsKeep DEF RunnersInv
<1>5. Became("failed") \/ \E list \in SUBSET Contents : change' = [change EXCEPT !.pc = "install", !.list = list, !.todo = list]
  <2>1. PICK newest \in SUBSET Latest :
           IF ~Resolvable(change.want) \/ Resolved(change.want, newest) = {} THEN Became("failed")
           ELSE change' = [change EXCEPT !.pc = "install", !.list = Resolved(change.want, newest), !.todo = Resolved(change.want, newest)]
    BY DEF RunSignatures
  <2>2. Resolved(change.want, newest) \subseteq Contents
    BY RunnersConstants DEF Resolved, Latest
  <2>. QED
    BY <2>1, <2>2
<1>. QED
  BY <1>3, <1>4, <1>5

\* The install cannot begin.
LEMMA InstallFailsKeeps ==
    ASSUME RunnersInv, InstallFails
    PROVE  RunnersInv'
<1>1. /\ change.pc = "install" /\ Became("failed")
      /\ UNCHANGED <<story, tale, images, script, variable, listed, readonly, ran, device, recorded, grant, session, transfer, clock, strokes, foreign, granted>>
  BY DEF InstallFails, Rest, vars
<1>2. Fields /\ RunnerTypes
  BY DEF RunnersInv
<1>3. StepTo("failed")
  BY <1>1, <1>2, BecameStep
<1>4. RunnerTypes'
  BY <1>1, <1>2, <1>3 DEF RunnerTypes, StepTo
<1>5. Fields' /\ change'.pc = "failed"
  BY <1>1, <1>2, <1>3 DEF Fields, StepTo
<1>. QED
  BY <1>1, <1>4, <1>5, SettledKeeps, GrantsKeep, TextsKeep DEF RunnersInv

\* What a deployment becomes once package c is installed, or seen on the device.
Onward(c) ==
    /\ IsChange(change') /\ change'.verify = change.verify /\ change'.target = change.target
    /\ change'.list = change.list /\ change'.path = change.path
    /\ \/ change.verify /\ change'.pc = "verify" /\ change'.todo = change.todo
       \/ /\ change'.todo = change.todo \ {c}
          /\ change'.pc = IF change.todo = {c} THEN "ok" ELSE "install"

\* AfterPackage and Installed.
LEMMA OnwardFields ==
    ASSUME Fields, NEW c, change' = AfterPackage(c) \/ change' = Installed(c)
    PROVE  /\ Onward(c)
           /\ change' = Installed(c) /\ change.verify => change'.pc = "verify" /\ change'.todo = change.todo
<1>0. IsChange(change)
  BY DEF Fields
<1>1. CASE change' = AfterPackage(c)
  <2>1. Onward(c) /\ change'.pc # "verify"
    BY <1>0, <1>1 DEF AfterPackage, Onward, IsChange
  <2>2. change.verify => Installed(c).pc = "verify"
    BY <1>0 DEF Installed, IsChange
  <2>. QED
    BY <2>1, <2>2
<1>2. CASE change' = Installed(c) /\ change.verify
  BY <1>0, <1>2 DEF Installed, Onward, IsChange
<1>3. CASE change' = Installed(c) /\ ~change.verify
  BY <1>0, <1>3 DEF Installed, AfterPackage, Onward, IsChange
<1>. QED
  BY <1>1, <1>2, <1>3

\* A deployment that goes on keeps its invariant, if c was seen or is not asked for.
LEMMA OnwardKeeps ==
    ASSUME RunnersInv, NEW c \in Contents, Onward(c), tale.kind = "signatures", change.pc \in {"install", "pull", "verify"},
           UNCHANGED <<tale, images, variable, listed, foreign>>,
           device'.got = device.got \/ device'.got = device.got \cup {c}, device'.other = device.other,
           change'.pc = "verify" \/ ~change.verify \/ Shown(c)
    PROVE  StepsOfKind' /\ DoneIsShown' /\ OnPath' /\ TextIsApproved'
<1>1. \A x \in Contents : Shown(x) => Shown(x)'
  BY DEF Shown
<1>2. StepsOfKind'
  BY DEF StepsOfKind, Onward
<1>3. DoneIsShown'
  <2>. SUFFICES ASSUME change.verify, NEW x \in change.list, x \notin change'.todo PROVE Shown(x)'
    BY DEF DoneIsShown, Onward
  <2>1. x \in Contents
    BY DEF RunnersInv, RunnerTypes
  <2>2. CASE x \notin change.todo
    BY <1>1, <2>1, <2>2 DEF RunnersInv, DoneIsShown
  <2>3. CASE x \in change.todo
    <3>1. x = c /\ change'.pc # "verify"
      BY <2>3 DEF Onward
    <3>. QED
      BY <1>1, <2>1, <3>1
  <2>. QED
    BY <2>2, <2>3
<1>4. OnPath' /\ TextIsApproved'
  BY DEF OnPath, TextIsApproved
<1>. QED
  BY <1>2, <1>3, <1>4

\* The API takes the file, or not.
LEMMA InstallAPIKeeps ==
    ASSUME RunnersInv, NEW c \in Contents, NEW took \in BOOLEAN, NEW err \in BOOLEAN, InstallAPI(c, took, err)
    PROVE  RunnersInv'
<1>1. /\ tale.kind = "signatures" /\ change.pc = "install" /\ c \in change.todo /\ (took \/ err)
      /\ device' = IF took THEN [device EXCEPT !.got = @ \cup {c}] ELSE device
      /\ change' = IF err THEN [change EXCEPT !.pc = "failed"] ELSE Installed(c)
      /\ UNCHANGED <<story, tale, images, script, variable, listed, readonly, ran, recorded, grant, session, transfer, clock, strokes, foreign, granted>>
  BY DEF InstallAPI, Rest, vars
<1>2. Fields /\ RunnerTypes
  BY DEF RunnersInv
<1>3. /\ device' = [fw |-> device'.fw, got |-> device'.got, other |-> device'.other] /\ device'.fw = device.fw
      /\ device'.other = device.other /\ device'.got = IF took THEN device.got \cup {c} ELSE device.got
  BY <1>1, <1>2 DEF Fields
<1>4. CASE err
  <2>1. StepTo("failed")
    BY <1>1, <1>2, <1>4, BecameStep DEF Became
  <2>2. RunnerTypes'
    BY <1>1, <1>2, <1>3, <2>1 DEF RunnerTypes, StepTo
  <2>3. Fields' /\ change'.pc = "failed"
    BY <1>1, <1>2, <1>3, <2>1 DEF Fields, StepTo
  <2>. QED
    BY <1>1, <2>2, <2>3, SettledKeeps, GrantsKeep, TextsKeep DEF RunnersInv
<1>5. CASE ~err
  <2>1. Onward(c) /\ (change.verify => change'.pc = "verify")
    BY <1>1, <1>2, <1>5, OnwardFields
  <2>2. RunnerTypes'
    BY <1>1, <1>2, <1>3, <2>1 DEF RunnerTypes, Onward
  <2>3. Fields'
    BY <1>1, <1>2, <1>3, <2>1 DEF Fields, Onward
  <2>4. StepsOfKind' /\ DoneIsShown' /\ OnPath' /\ TextIsApproved'
    BY <1>1, <1>3, <2>1, OnwardKeeps
  <2>. QED
    BY <1>1, <2>2, <2>3, <2>4, GrantsKeep, TextsKeep DEF RunnersInv
<1>. QED
  BY <1>4, <1>5

\* The device is granted a file.
LEMMA GrantKeeps ==
    ASSUME RunnersInv, NEW c \in Contents, Grant(c)
    PROVE  RunnersInv'
<1>1. /\ tale.kind = "signatures" /\ change.pc = "install" /\ c \in change.todo
      /\ grant' = [active |-> TRUE, file |-> {c}, until |-> clock + TTL]
      /\ change' = [change EXCEPT !.pc = "pull", !.cur = {c}]
      /\ granted' = [granted EXCEPT ![c] = clock + TTL]
      /\ UNCHANGED <<story, tale, images, script, variable, listed, readonly, ran, device, recorded, session, transfer, clock, strokes, foreign>>
  BY DEF Grant, Rest, vars
<1>2. Fields /\ RunnerTypes /\ DoneIsShown /\ GrantsAreKnown
  BY DEF RunnersInv
<1>3. /\ IsChange(change') /\ change'.pc = "pull" /\ change'.verify = change.verify /\ change'.target = change.target
      /\ change'.list = change.list /\ change'.todo = change.todo /\ change'.path = change.path
  BY <1>1, <1>2 DEF Fields, IsChange
<1>4. clock \in Nat /\ TTL \in Nat
  BY <1>2, RunnersConstants DEF RunnerTypes
<1>5. RunnerTypes'
  BY <1>1, <1>2, <1>3 DEF RunnerTypes
<1>6. Fields'
  BY <1>1, <1>2, <1>3 DEF Fields
<1>7. StepsOfKind' /\ DoneIsShown' /\ OnPath' /\ TextIsApproved'
  BY <1>1, <1>2, <1>3 DEF StepsOfKind, DoneIsShown, Shown, OnPath, TextIsApproved
<1>8. GrantsAreKnown'
  <2>1. /\ granted' \in [Contents -> Int] /\ \A x \in Contents : granted'[x] = IF x = c THEN clock + TTL ELSE granted[x]
    BY <1>1, <1>2, <1>4 DEF GrantsAreKnown
  <2>2. \A x \in Contents : granted[x] \in Int /\ granted[x] <= granted'[x] /\ granted'[x] <= clock + TTL
    BY <2>1, <1>2, <1>4 DEF GrantsAreKnown
  <2>3. \A x \in session.file : session.until <= granted'[x]
    <3>1. \A x \in session.file : x \in Contents /\ session.until <= granted[x] /\ session.until \in Nat
      BY <1>2 DEF RunnerTypes, GrantsAreKnown
    <3>. QED
      BY <3>1, <2>1, <2>2
  <2>4. grant'.until = clock + TTL /\ grant'.file = {c} /\ grant'.until \in Nat
    BY <1>1, <1>4
  <2>5. \A x \in grant'.file : grant'.until <= granted'[x]
    BY <2>1, <2>4
  <2>. QED
    BY <1>1, <1>2, <2>1, <2>2, <2>3, <2>4, <2>5 DEF GrantsAreKnown
<1>. QED
  BY <1>1, <1>5, <1>6, <1>7, <1>8, TextsKeep DEF RunnersInv

\* The pull is over and its grant is gone.
LEMMA PullReturnsKeeps ==
    ASSUME RunnersInv, NEW err \in BOOLEAN, PullReturns(err)
    PROVE  RunnersInv'
<1>1. /\ change.pc = "pull" /\ grant' = NoGrant
      /\ UNCHANGED <<story, tale, images, script, variable, listed, readonly, ran, device, recorded, session, transfer, clock, strokes, foreign, granted>>
  BY DEF PullReturns, Rest, vars, Revoke
<1>2. Fields /\ RunnerTypes /\ GrantsAreKnown /\ tale.kind = "signatures"
  BY <1>1 DEF RunnersInv, StepsOfKind
<1>3. PICK c \in grant.file : change' = IF err THEN [change EXCEPT !.pc = "failed"] ELSE Installed(c)
  BY DEF PullReturns
<1>4. c \in Contents
  BY <1>2 DEF RunnerTypes
<1>5. NoGrant.file = {} /\ NoGrant.until = 0 /\ NoGrant.active = FALSE
  BY DEF NoGrant
<1>6. GrantsAreKnown'
  BY <1>1, <1>2, <1>5 DEF GrantsAreKnown
<1>7. CASE err
  <2>1. StepTo("failed")
    BY <1>2, <1>3, <1>7, BecameStep DEF Became
  <2>2. RunnerTypes'
    BY <1>1, <1>2, <1>5, <2>1 DEF RunnerTypes, StepTo
  <2>3. Fields' /\ change'.pc = "failed"
    BY <1>1, <1>2, <2>1 DEF Fields, StepTo
  <2>. QED
    BY <1>1, <1>6, <2>2, <2>3, SettledKeeps, TextsKeep DEF RunnersInv
<1>8. CASE ~err
  <2>1. Onward(c) /\ (change.verify => change'.pc = "verify")
    BY <1>2, <1>3, <1>8, OnwardFields
  <2>2. RunnerTypes'
    BY <1>1, <1>2, <1>5, <2>1 DEF RunnerTypes, Onward
  <2>3. Fields'
    BY <1>1, <1>2, <2>1 DEF Fields, Onward
  <2>4. StepsOfKind' /\ DoneIsShown' /\ OnPath' /\ TextIsApproved'
    BY <1>1, <1>2, <1>4, <2>1, OnwardKeeps
  <2>. QED
    BY <1>1, <1>6, <2>2, <2>3, <2>4, TextsKeep DEF RunnersInv
<1>. QED
  BY <1>7, <1>8

\* The version is reported, or the tries run out.
LEMMA VerifyKeeps ==
    ASSUME RunnersInv, NEW c \in Contents, Verify(c)
    PROVE  RunnersInv'
<1>1. /\ change.pc = "verify"
      /\ UNCHANGED <<story, tale, images, script, variable, listed, readonly, ran, device, recorded, grant, session, transfer, clock, strokes, foreign, granted>>
  BY DEF Verify, Rest, vars
<1>2. Fields /\ RunnerTypes /\ tale.kind = "signatures"
  BY <1>1 DEF RunnersInv, StepsOfKind
<1>3. CASE Became("failed")
  <2>1. StepTo("failed")
    BY <1>2, <1>3, BecameStep
  <2>2. RunnerTypes'
    BY <1>1, <1>2, <2>1 DEF RunnerTypes, StepTo
  <2>3. Fields' /\ change'.pc = "failed"
    BY <1>1, <1>2, <2>1 DEF Fields, StepTo
  <2>. QED
    BY <1>1, <2>2, <2>3, SettledKeeps, GrantsKeep, TextsKeep DEF RunnersInv
<1>4. CASE Reports(c) /\ change' = AfterPackage(c)
  <2>1. Onward(c)
    BY <1>2, <1>4, OnwardFields
  <2>2. Shown(c)
    BY <1>4 DEF Reports, Shown
  <2>3. RunnerTypes'
    BY <1>1, <1>2, <2>1 DEF RunnerTypes, Onward
  <2>4. Fields'
    BY <1>1, <1>2, <2>1 DEF Fields, Onward
  <2>5. StepsOfKind' /\ DoneIsShown' /\ OnPath' /\ TextIsApproved'
    BY <1>1, <1>2, <2>1, <2>2, OnwardKeeps
  <2>. QED
    BY <1>1, <2>3, <2>4, <2>5, GrantsKeep, TextsKeep DEF RunnersInv
<1>. QED
  BY <1>3, <1>4 DEF Verify

-------------------------------------------------------------------------------
(* The file server and the device *)

\* A file is sent under the grant, or in the session.
LEMMA SendsKeeps ==
    ASSUME RunnersInv, NEW c \in Contents, Sends(c)
    PROVE  RunnersInv'
<1>1. /\ transfer' = transfer \cup {c}
      /\ UNCHANGED <<story, tale, images, script, variable, listed, readonly, ran, change, device, recorded, grant, session, clock, strokes, foreign, granted>>
  BY DEF Sends, Rest, vars
<1>2. RunnerTypes' /\ Fields'
  BY <1>1 DEF RunnersInv, RunnerTypes, Fields, IsChange
<1>. QED
  BY <1>1, <1>2, RunKeeps, GrantsKeep, TextsKeep DEF RunnersInv

\* A session begins under the grant.
LEMMA FtpLoginKeeps ==
    ASSUME RunnersInv, FtpLogin
    PROVE  RunnersInv'
<1>1. /\ session' = grant
      /\ UNCHANGED <<story, tale, images, script, variable, listed, readonly, ran, change, device, recorded, grant, transfer, clock, strokes, foreign, granted>>
  BY DEF FtpLogin, Rest, vars
<1>2. RunnerTypes' /\ Fields'
  BY <1>1 DEF RunnersInv, RunnerTypes, Fields, IsChange
<1>3. GrantsAreKnown'
  BY <1>1 DEF RunnersInv, GrantsAreKnown
<1>. QED
  BY <1>1, <1>2, <1>3, RunKeeps, TextsKeep DEF RunnersInv

\* The device takes what has arrived.
LEMMA DeviceInstallsKeeps ==
    ASSUME RunnersInv, NEW c \in Contents, NEW ok \in BOOLEAN, DeviceInstalls(c, ok)
    PROVE  RunnersInv'
<1>1. /\ c \in transfer /\ transfer' = transfer \ {c}
      /\ device' = IF ok THEN [device EXCEPT !.got = @ \cup {c}] ELSE device
      /\ UNCHANGED <<story, tale, images, script, variable, listed, readonly, ran, change, recorded, grant, session, clock, strokes, foreign, granted>>
  BY DEF DeviceInstalls, Rest, vars
<1>2. Fields /\ RunnerTypes /\ StepsOfKind /\ DoneIsShown /\ OnPath /\ TextIsApproved
  BY DEF RunnersInv
<1>3. /\ device' = [fw |-> device'.fw, got |-> device'.got, other |-> device'.other] /\ device'.fw = device.fw
      /\ device'.other = device.other /\ device'.got = IF ok THEN device.got \cup {c} ELSE device.got
  BY <1>1, <1>2 DEF Fields
<1>4. RunnerTypes' /\ Fields'
  BY <1>1, <1>2, <1>3 DEF RunnerTypes, Fields, IsChange
<1>5. DoneIsShown'
  BY <1>1, <1>2, <1>3 DEF DoneIsShown, Shown
<1>6. StepsOfKind' /\ OnPath' /\ TextIsApproved'
  BY <1>1, <1>2, <1>3, ApprovalKeeps DEF StepsOfKind, OnPath
<1>. QED
  BY <1>1, <1>4, <1>5, <1>6, GrantsKeep, TextsKeep DEF RunnersInv

\* Time passes.
LEMMA TickKeeps ==
    ASSUME RunnersInv, Tick
    PROVE  RunnersInv'
<1>1. /\ clock < MaxClock /\ clock' = clock + 1
      /\ UNCHANGED <<story, tale, images, script, variable, listed, readonly, ran, change, device, recorded, grant, session, transfer, strokes, foreign, granted>>
  BY DEF Tick, Rest, vars
<1>2. RunnerTypes /\ GrantsAreKnown /\ clock \in Nat /\ MaxClock \in Nat /\ TTL \in Nat
  BY RunnersConstants DEF RunnersInv, RunnerTypes
<1>3. clock' \in 0..MaxClock
  BY <1>1, <1>2
<1>4. RunnerTypes' /\ Fields'
  BY <1>1, <1>3 DEF RunnersInv, RunnerTypes, Fields, IsChange
<1>5. GrantsAreKnown'
  <2>1. \A c \in Contents : granted[c] \in Int /\ granted[c] <= (clock + 1) + TTL
    BY <1>2 DEF GrantsAreKnown
  <2>. QED
    BY <1>1, <1>2, <2>1 DEF GrantsAreKnown
<1>. QED
  BY <1>1, <1>4, <1>5, RunKeeps, TextsKeep DEF RunnersInv

\* The monitor notes the device's release.
LEMMA ProbeKeeps ==
    ASSUME RunnersInv, Probe
    PROVE  RunnersInv'
<1>1. /\ recorded' = device.fw
      /\ UNCHANGED <<story, tale, images, script, variable, listed, readonly, ran, change, device, grant, session, transfer, clock, strokes, foreign, granted>>
  BY DEF Probe, Rest, vars
<1>2. RunnerTypes' /\ Fields'
  BY <1>1 DEF RunnersInv, RunnerTypes, Fields, IsChange
<1>. QED
  BY <1>1, <1>2, RunKeeps, GrantsKeep, TextsKeep DEF RunnersInv

-------------------------------------------------------------------------------
(* Upgrades *)

\* A path leads from the release to the target, or is empty.
LEMMA PathFollowsImages ==
    ASSUME images \in Catalogs, NEW from \in Releases, NEW target \in Releases \cup {0}
    PROVE  /\ Path(from, target) \in Seq(Releases)
           /\ Path(from, target) # <<>> =>
                 /\ Path(from, target)[Len(Path(from, target))] = target
                 /\ from \in images[Path(from, target)[1]]
                 /\ \A i \in 1..(Len(Path(from, target)) - 1) : Path(from, target)[i] \in images[Path(from, target)[i + 1]]
<1>. DEFINE p == Path(from, target)
<1>0. target \in Nat /\ from \in Nat /\ from > 0 /\ Cardinality(Releases) \in Nat
  BY RunnersConstants, ReleaseSets
<1>1. CASE target <= from
  <2>1. p = <<>>
    BY <1>1 DEF Path
  <2>. HIDE DEF p
  <2>. QED
    BY <2>1, EmptySeq DEF p
<1>2. CASE ~(target <= from)
  <2>1. from < target /\ target \in Releases
    BY <1>0, <1>2
  <2>2. /\ p \in Seq(Releases)
        /\ p # <<>> => Len(p) \in 1..Cardinality(Releases) /\ Way(from, target, p, Len(p))
    BY <2>1, PathLeads
  <2>. HIDE DEF p
  <2>3. ASSUME p # <<>>
        PROVE  p[Len(p)] = target /\ from \in images[p[1]] /\ \A i \in 1..(Len(p) - 1) : p[i] \in images[p[i + 1]]
    <3>. DEFINE n == Len(p)
    <3>1. n \in Nat \ {0} /\ Way(from, target, p, n)
      BY <2>2, <2>3, <1>0
    <3>. HIDE DEF n
    <3>2. p[n] = target /\ from \in images[p[1]]
      BY <3>1 DEF Way
    <3>3. ASSUME NEW i \in 1..(n - 1) PROVE p[i] \in images[p[i + 1]]
      <4>1. i + 1 \in 1..n /\ i + 1 # 1 /\ (i + 1) - 1 = i
        BY <3>1
      <4>. QED
        BY <3>1, <4>1 DEF Way
    <3>. QED
      BY <3>2, <3>3 DEF n
  <2>. QED
    BY <2>2, <2>3 DEF p
<1>. QED
  BY <1>1, <1>2

\* An upgrade is previewed.
LEMMA CreateFirmwareKeeps ==
    ASSUME RunnersInv, NEW target \in Releases, CreateFirmware(target)
    PROVE  RunnersInv'
<1>1. /\ tale.kind = "firmware" /\ change.pc = "none" /\ change' = [NoChange EXCEPT !.pc = "planned", !.target = target]
      /\ UNCHANGED <<story, tale, images, device, recorded, script, variable, listed, readonly, grant, session, transfer, clock, strokes, ran, foreign, granted>>
  BY DEF CreateFirmware, vars
<1>2. IsChange(change') /\ change'.pc = "planned" /\ change'.list = {} /\ change'.todo = {} /\ change'.path = <<>> /\ change'.target = target
  <2>1. change' = [pc |-> "planned", verify |-> FALSE, want |-> {}, latest |-> FALSE, target |-> target, body |-> "none",
                   text |-> <<>>, dev |-> Unprobed, list |-> {}, todo |-> {}, cur |-> {}, path |-> <<>>]
    BY <1>1 DEF NoChange
  <2>2. change'.pc = "planned" /\ change'.list = {} /\ change'.todo = {} /\ change'.path = <<>> /\ change'.target = target
    BY <2>1
  <2>3. IsChange(change')
    BY <2>1, Zenon DEF IsChange
  <2>. QED
    BY <2>2, <2>3
<1>3. RunnerTypes'
  <2>1. change'.path \in Seq(Releases)
    BY <1>2, EmptySeq
  <2>. QED
    BY <1>1, <1>2, <2>1 DEF RunnersInv, RunnerTypes
<1>4. Fields'
  BY <1>1, <1>2 DEF RunnersInv, Fields
<1>5. StepsOfKind' /\ DoneIsShown' /\ OnPath' /\ TextIsApproved'
  BY <1>1, <1>2 DEF StepsOfKind, DoneIsShown, OnPath, TextIsApproved
<1>. QED
  BY <1>1, <1>3, <1>4, <1>5, GrantsKeep, TextsKeep DEF RunnersInv

\* An upgrade begins: the path is computed again, from the recorded release.
LEMMA RunFirmwareKeeps ==
    ASSUME RunnersInv, NEW healthy \in BOOLEAN, RunFirmware(healthy)
    PROVE  RunnersInv'
<1>. DEFINE path == Path(recorded, change.target)
<1>1. /\ tale.kind = "firmware" /\ change.pc = "planned"
      /\ IF path = <<>> \/ ~healthy THEN Became("failed") ELSE change' = [change EXCEPT !.pc = "install", !.path = path]
      /\ foreign' = (recorded # device.fw)
      /\ UNCHANGED <<story, tale, images, script, variable, listed, readonly, ran, device, recorded, grant, session, transfer, clock, strokes, granted>>
  BY DEF RunFirmware, Rest, vars
<1>2. Fields /\ RunnerTypes
  BY DEF RunnersInv
<1>3. /\ path \in Seq(Releases)
      /\ path # <<>> => /\ path[Len(path)] = change.target /\ recorded \in images[path[1]]
                        /\ \A i \in 1..(Len(path) - 1) : path[i] \in images[path[i + 1]]
  BY <1>2, PathFollowsImages DEF RunnerTypes
<1>. HIDE DEF path
<1>4. CASE Became("failed")
  <2>1. StepTo("failed")
    BY <1>2, <1>4, BecameStep
  <2>2. RunnerTypes'
    BY <1>1, <1>2, <2>1 DEF RunnerTypes, StepTo
  <2>3. Fields' /\ change'.pc = "failed"
    BY <1>1, <1>2, <2>1 DEF Fields, StepTo
  <2>. QED
    BY <1>1, <2>2, <2>3, SettledKeeps, GrantsKeep, TextsKeep DEF RunnersInv
<1>5. CASE path # <<>> /\ change' = [change EXCEPT !.pc = "install", !.path = path]
  <2>1. /\ IsChange(change') /\ change'.pc = "install" /\ change'.list = change.list /\ change'.todo = change.todo
        /\ change'.path = path /\ change'.target = change.target
    BY <1>2, <1>5 DEF Fields, IsChange
  <2>2. RunnerTypes'
    BY <1>1, <1>2, <1>3, <2>1 DEF RunnerTypes
  <2>3. Fields'
    BY <1>1, <1>2, <2>1 DEF Fields
  <2>4. OnPath'
    BY <1>1, <1>3, <1>5, <2>1 DEF OnPath
  <2>5. StepsOfKind' /\ DoneIsShown' /\ TextIsApproved'
    BY <1>1, <2>1 DEF StepsOfKind, DoneIsShown, TextIsApproved
  <2>. QED
    BY <1>1, <2>2, <2>3, <2>4, <2>5, GrantsKeep, TextsKeep DEF RunnersInv
<1>. QED
  BY <1>1, <1>4, <1>5

\* The device takes an image, or not, and an error is reported, or not.
LEMMA InstallImageKeeps ==
    ASSUME RunnersInv, NEW took \in BOOLEAN, NEW err \in BOOLEAN, InstallImage(took, err)
    PROVE  RunnersInv'
<1>1. /\ tale.kind = "firmware" /\ change.pc = "install" /\ Became(IF err THEN "failed" ELSE "reboot")
      /\ device' = IF took THEN [device EXCEPT !.fw = Head(change.path)] ELSE device
      /\ UNCHANGED <<story, tale, images, script, variable, listed, readonly, ran, recorded, grant, session, transfer, clock, strokes, foreign, granted>>
  BY DEF InstallImage, Rest, vars
<1>2. Fields /\ RunnerTypes /\ OnPath
  BY DEF RunnersInv
<1>3. Head(change.path) \in Releases
  BY <1>1, <1>2, HeadTailProperties DEF OnPath, RunnerTypes
<1>4. /\ device' = [fw |-> device'.fw, got |-> device'.got, other |-> device'.other] /\ device'.fw \in Releases
      /\ device'.other = device.other /\ device'.got = device.got
  BY <1>1, <1>2, <1>3 DEF Fields, RunnerTypes
<1>5. StepTo(IF err THEN "failed" ELSE "reboot")
  BY <1>1, <1>2, BecameStep
<1>6. RunnerTypes'
  BY <1>1, <1>2, <1>4, <1>5 DEF RunnerTypes, StepTo
<1>7. Fields'
  BY <1>1, <1>2, <1>4, <1>5 DEF Fields, StepTo
<1>8. StepsOfKind' /\ DoneIsShown' /\ OnPath' /\ TextIsApproved'
  BY <1>1, <1>2, <1>5 DEF StepsOfKind, DoneIsShown, OnPath, TextIsApproved, StepTo
<1>. QED
  BY <1>1, <1>6, <1>7, <1>8, GrantsKeep, TextsKeep DEF RunnersInv

\* The device is back on the image; the next one, or the end.
LEMMA WaitForKeeps ==
    ASSUME RunnersInv, WaitFor
    PROVE  RunnersInv'
<1>1. /\ change.pc = "reboot" /\ device.fw = Head(change.path) /\ recorded' = device.fw
      /\ change' = [change EXCEPT !.path = Tail(@), !.pc = IF Len(change.path) = 1 THEN "ok" ELSE "install"]
      /\ UNCHANGED <<story, tale, images, script, variable, listed, readonly, ran, device, grant, session, transfer, clock, strokes, foreign, granted>>
  BY DEF WaitFor, BackOn, Rest, vars
<1>2. Fields /\ RunnerTypes /\ OnPath /\ tale.kind = "firmware"
  BY <1>1 DEF RunnersInv, StepsOfKind
<1>. DEFINE p == change.path
            n == Len(p)
<1>3. /\ p \in Seq(Releases) /\ p # <<>> /\ p[n] = change.target
      /\ \A i \in 1..(n - 1) : p[i] \in images[p[i + 1]]
  BY <1>1, <1>2 DEF OnPath, RunnerTypes
<1>4. /\ IsChange(change') /\ change'.pc = (IF n = 1 THEN "ok" ELSE "install") /\ change'.list = change.list
      /\ change'.todo = change.todo /\ change'.path = Tail(p) /\ change'.target = change.target
  BY <1>1, <1>2 DEF Fields, IsChange
<1>. HIDE DEF p
<1>5. /\ Tail(p) \in Seq(Releases) /\ n \in Nat /\ n # 0 /\ Len(Tail(p)) = n - 1 /\ Head(p) = p[1]
      /\ \A i \in 1..(n - 1) : Tail(p)[i] = p[i + 1]
  BY <1>3, HeadTailProperties, EmptySeq
<1>6. RunnerTypes'
  BY <1>1, <1>2, <1>4, <1>5 DEF RunnerTypes
<1>7. Fields'
  BY <1>1, <1>2, <1>4 DEF Fields
<1>8. OnPath'
  <2>1. CASE n = 1
    BY <1>1, <1>2, <1>3, <1>4, <1>5, <2>1 DEF OnPath, p
  <2>2. CASE n # 1
    <3>. DEFINE t == Tail(p)
    <3>0. /\ t \in Seq(Releases) /\ Len(t) = n - 1 /\ change'.path = t
          /\ \A i \in 1..(n - 1) : t[i] = p[i + 1]
      BY <1>4, <1>5
    <3>6. n \in Nat /\ n # 0
      BY <1>5
    <3>7. p[n] = change.target /\ \A i \in 1..(n - 1) : p[i] \in images[p[i + 1]]
      BY <1>3
    <3>8. device.fw = p[1]
      BY <1>1, <1>5 DEF p
    <3>. HIDE DEF t, n
    <3>1. t # <<>>
      <4>1. Len(t) # 0
        BY <2>2, <3>0, <3>6
      <4>. QED
        BY <4>1, EmptySeq
    <3>2. t[Len(t)] = change.target
      <4>1. n - 1 \in 1..(n - 1) /\ (n - 1) + 1 = n
        BY <2>2, <3>6
      <4>2. t[n - 1] = p[(n - 1) + 1]
        BY <4>1, <3>0
      <4>. QED
        BY <4>1, <4>2, <3>0, <3>7
    <3>3. ASSUME NEW i \in 1..(Len(t) - 1) PROVE t[i] \in images[t[i + 1]]
      <4>1. i \in 1..(n - 1) /\ i + 1 \in 1..(n - 1)
        BY <3>0, <3>6
      <4>2. t[i] = p[i + 1] /\ t[i + 1] = p[(i + 1) + 1]
        BY <4>1, <3>0
      <4>. QED
        BY <4>1, <4>2, <3>7
    <3>4. device.fw \in images[t[1]]
      <4>1. 1 \in 1..(n - 1)
        BY <2>2, <3>6
      <4>2. t[1] = p[1 + 1] /\ p[1] \in images[p[1 + 1]]
        BY <4>1, <3>0, <3>7
      <4>. QED
        BY <4>2, <3>8
    <3>5. change'.path = t /\ change'.pc = "install"
      BY <1>4, <2>2 DEF t
    <3>. QED
      BY <1>1, <1>4, <3>0, <3>1, <3>2, <3>3, <3>4, <3>5 DEF OnPath
  <2>. QED
    BY <2>1, <2>2
<1>9. StepsOfKind' /\ DoneIsShown' /\ TextIsApproved'
  BY <1>1, <1>2, <1>4 DEF StepsOfKind, DoneIsShown, TextIsApproved
<1>. QED
  BY <1>1, <1>6, <1>7, <1>8, <1>9, GrantsKeep, TextsKeep DEF RunnersInv

\* The deadline passes.
LEMMA WaitEndsKeeps ==
    ASSUME RunnersInv, NEW answered \in BOOLEAN, WaitEnds(answered)
    PROVE  RunnersInv'
<1>1. /\ change.pc = "reboot" /\ recorded' = (IF answered THEN device.fw ELSE recorded) /\ Became("failed")
      /\ UNCHANGED <<story, tale, images, script, variable, listed, readonly, ran, device, grant, session, transfer, clock, strokes, foreign, granted>>
  BY DEF WaitEnds, Rest, vars
<1>2. Fields /\ RunnerTypes
  BY DEF RunnersInv
<1>3. StepTo("failed")
  BY <1>1, <1>2, BecameStep
<1>4. RunnerTypes'
  BY <1>1, <1>2, <1>3 DEF RunnerTypes, StepTo
<1>5. Fields' /\ change'.pc = "failed"
  BY <1>1, <1>2, <1>3 DEF Fields, StepTo
<1>. QED
  BY <1>1, <1>4, <1>5, SettledKeeps, GrantsKeep, TextsKeep DEF RunnersInv

\* A stroke is counted.
LEMMA StrokeCounts ==
    ASSUME RunnersInv, Stroke, tale' = tale
    PROVE  strokes' \in 0..tale'.events
<1>1. tale.events \in Nat /\ strokes \in 0..tale.events
  BY RunnersConstants DEF RunnersInv, RunnerTypes, Tale
<1>2. strokes < tale.events /\ strokes' = strokes + 1
  BY DEF Stroke
<1>. QED
  BY <1>1, <1>2

\* Somebody upgrades the device by hand.
LEMMA MeddleKeeps ==
    ASSUME RunnersInv, NEW v \in Releases, Meddle(v)
    PROVE  RunnersInv'
<1>1. /\ Stroke /\ tale.kind = "firmware" /\ device' = [device EXCEPT !.fw = v] /\ foreign' = TRUE
      /\ UNCHANGED <<story, tale, images, script, variable, listed, readonly, ran, change, recorded, grant, session, transfer, clock, granted>>
  BY DEF Meddle, Rest, vars
<1>2. strokes' \in 0..tale'.events
  BY <1>1, StrokeCounts
<1>3. Fields /\ RunnerTypes /\ StepsOfKind /\ OnPath
  BY DEF RunnersInv
<1>4. /\ device' = [fw |-> device'.fw, got |-> device'.got, other |-> device'.other] /\ device'.fw = v
      /\ device'.other = device.other /\ device'.got = device.got
  BY <1>1, <1>3 DEF Fields
<1>5. RunnerTypes' /\ Fields'
  BY <1>1, <1>2, <1>3, <1>4 DEF RunnerTypes, Fields, IsChange
<1>6. StepsOfKind' /\ DoneIsShown' /\ OnPath' /\ TextIsApproved'
  BY <1>1, <1>3, <1>4 DEF StepsOfKind, DoneIsShown, OnPath, TextIsApproved
<1>. QED
  BY <1>1, <1>5, <1>6, GrantsKeep, TextsKeep DEF RunnersInv

-------------------------------------------------------------------------------
(* Scripts *)

\* A script change is previewed: its text is the one of the body it keeps.
LEMMA CreateScriptKeeps ==
    ASSUME RunnersInv, CreateScript
    PROVE  RunnersInv'
<1>1. /\ tale.kind = "script" /\ foreign' = FALSE
      /\ change' = [NoChange EXCEPT !.pc = "planned", !.body = script, !.text = Render(script, listed)]
      /\ UNCHANGED <<story, tale, images, device, recorded, script, variable, listed, readonly, grant, session, transfer, clock, strokes, ran, granted>>
      /\ change.pc = "none"
  BY DEF CreateScript, vars
<1>. DEFINE t == Render(script, listed)
<1>2. /\ IsChange(change') /\ change'.pc = "planned" /\ change'.list = {} /\ change'.todo = {} /\ change'.path = <<>> /\ change'.target = 0
      /\ change'.body = script /\ change'.text = t
  <2>. HIDE DEF t
  <2>1. change' = [pc |-> "planned", verify |-> FALSE, want |-> {}, latest |-> FALSE, target |-> 0, body |-> script,
                   text |-> t, dev |-> Unprobed, list |-> {}, todo |-> {}, cur |-> {}, path |-> <<>>]
    BY <1>1 DEF NoChange, t
  <2>2. change'.pc = "planned" /\ change'.list = {} /\ change'.todo = {} /\ change'.path = <<>> /\ change'.target = 0
        /\ change'.body = script /\ change'.text = t
    BY <2>1
  <2>3. IsChange(change')
    BY <2>1, Zenon DEF IsChange
  <2>. QED
    BY <2>2, <2>3
<1>3. RunnerTypes'
  <2>1. change'.path \in Seq(Releases)
    BY <1>2, EmptySeq
  <2>. HIDE DEF t
  <2>. QED
    BY <1>1, <1>2, <2>1 DEF RunnersInv, RunnerTypes
<1>4. Fields'
  BY <1>1, <1>2 DEF RunnersInv, Fields
<1>5. TextIsApproved'
  <2>1. t = TextOf(script, listed)
    BY RenderIs
  <2>. HIDE DEF t
  <2>. QED
    BY <1>1, <1>2, <2>1 DEF TextIsApproved, TextOf, ByRank
<1>6. StepsOfKind' /\ DoneIsShown' /\ OnPath'
  <2>. HIDE DEF t
  <2>. QED
    BY <1>1, <1>2 DEF StepsOfKind, DoneIsShown, OnPath
<1>. QED
  BY <1>1, <1>3, <1>4, <1>5, <1>6, GrantsKeep, TextsKeep DEF RunnersInv

\* A set of texts grows, the other one stays.
LEMMA TextRan ==
    ASSUME Fields, NEW k \in {1, 2}, NEW t, ran' = [ran EXCEPT ![k] = @ \cup {t}]
    PROVE  /\ ran' = <<ran'[1], ran'[2]>>
           /\ ran'[k] = ran[k] \cup {t} /\ \A j \in {1, 2} \ {k} : ran'[j] = ran[j]
<1>1. ran = <<ran[1], ran[2]>>
  BY DEF Fields
<1>. QED
  BY <1>1

\* A script change begins: the device is read.
LEMMA BeginScriptKeeps ==
    ASSUME RunnersInv, BeginScript
    PROVE  RunnersInv'
<1>1. /\ tale.kind = "script" /\ change.pc = "planned" /\ change' = [change EXCEPT !.pc = "script", !.dev = listed]
      /\ UNCHANGED <<story, tale, images, script, variable, listed, readonly, ran, device, recorded, grant, session, transfer, clock, strokes, foreign, granted>>
  BY DEF BeginScript, Rest, vars
<1>2. Fields /\ RunnerTypes /\ TextIsApproved
  BY DEF RunnersInv
<1>3. /\ IsChange(change') /\ change'.pc = "script" /\ change'.dev = listed /\ change'.body = change.body /\ change'.text = change.text
      /\ change'.list = change.list /\ change'.todo = change.todo /\ change'.path = change.path /\ change'.target = change.target
  BY <1>1, <1>2 DEF Fields, IsChange
<1>4. RunnerTypes' /\ Fields'
  BY <1>1, <1>2, <1>3 DEF RunnerTypes, Fields
<1>5. StepsOfKind' /\ DoneIsShown' /\ OnPath'
  BY <1>1, <1>3 DEF StepsOfKind, DoneIsShown, OnPath
<1>6. TextIsApproved'
  BY <1>1, <1>2, <1>3 DEF TextIsApproved, TextOf, ByRank
<1>. QED
  BY <1>1, <1>4, <1>5, <1>6, GrantsKeep, TextsKeep DEF RunnersInv

\* A script change runs.
LEMMA RunScriptKeeps ==
    ASSUME RunnersInv, NEW err \in BOOLEAN, RunScript(err)
    PROVE  RunnersInv'
<1>1. /\ change.pc = "script"
      /\ UNCHANGED <<story, tale, images, device, recorded, script, variable, listed, readonly, grant, session, transfer, clock, strokes, foreign, granted>>
      /\ \E x \in {"ok", "failed"} : Became(x)
      /\ UNCHANGED ran \/ \E t : ran' = [ran EXCEPT ![1] = @ \cup {t}]
  BY DEF RunScript, vars
<1>2. Fields /\ RunnerTypes /\ OutsideOnlyReads
  BY DEF RunnersInv
<1>3. PICK x \in {"ok", "failed"} : StepTo(x)
  BY <1>1, <1>2, BecameStep
<1>4. RunnerTypes'
  BY <1>1, <1>2, <1>3 DEF RunnerTypes, StepTo
<1>5. ran' = <<ran'[1], ran'[2]>> /\ ran'[2] = ran[2]
  BY <1>1, <1>2, TextRan DEF Fields
<1>6. Fields'
  BY <1>1, <1>2, <1>3, <1>5 DEF Fields, StepTo
<1>7. StepsOfKind' /\ DoneIsShown' /\ OnPath' /\ TextIsApproved'
  <2>1. tale.kind = "script"
    BY <1>1 DEF RunnersInv, StepsOfKind
  <2>. QED
    BY <1>1, <1>3, <2>1 DEF StepsOfKind, DoneIsShown, OnPath, TextIsApproved, StepTo
<1>8. OutsideOnlyReads'
  BY <1>2, <1>5 DEF OutsideOnlyReads
<1>. QED
  BY <1>1, <1>4, <1>6, <1>7, <1>8, GrantsKeep DEF RunnersInv

\* A script is read to be run outside of a change.
LEMMA ReadOnlyBeginKeeps ==
    ASSUME RunnersInv, ReadOnlyBegin
    PROVE  RunnersInv'
<1>1. /\ readonly' = script
      /\ UNCHANGED <<story, tale, images, script, variable, listed, ran, change, device, recorded, grant, session, transfer, clock, strokes, foreign, granted>>
  BY DEF ReadOnlyBegin, vars
<1>2. RunnerTypes' /\ Fields'
  BY <1>1 DEF RunnersInv, RunnerTypes, Fields, IsChange
<1>. QED
  BY <1>1, <1>2, RunKeeps, GrantsKeep, TextsKeep DEF RunnersInv

\* Its text is checked, whatever the variables became, and run.
LEMMA ReadOnlyRunKeeps ==
    ASSUME RunnersInv, ReadOnlyRun
    PROVE  RunnersInv'
<1>1. /\ readonly' = "none"
      /\ UNCHANGED <<story, tale, images, script, variable, listed, change, device, recorded, grant, session, transfer, clock, strokes, foreign, granted>>
  BY DEF ReadOnlyRun, vars
<1>2. UNCHANGED ran \/ \E t : ReadOnlyText(t) /\ ran' = [ran EXCEPT ![2] = @ \cup {t}]
  BY DEF ReadOnlyRun
<1>3. Fields /\ RunnerTypes /\ OutsideOnlyReads
  BY DEF RunnersInv
<1>4. ran' = <<ran'[1], ran'[2]>> /\ OutsideOnlyReads'
  <2>1. CASE UNCHANGED ran
    BY <1>3, <2>1 DEF Fields, OutsideOnlyReads
  <2>2. ASSUME NEW t, ReadOnlyText(t), ran' = [ran EXCEPT ![2] = @ \cup {t}]
        PROVE  ran' = <<ran'[1], ran'[2]>> /\ OutsideOnlyReads'
    <3>1. ran' = <<ran'[1], ran'[2]>> /\ ran'[2] = ran[2] \cup {t}
      BY <1>3, <2>2, TextRan
    <3>2. t[1] # "writes" /\ t[2] \notin Writes
      BY <2>2 DEF ReadOnlyText, ReadOnlyBody
    <3>. QED
      BY <1>3, <3>1, <3>2 DEF OutsideOnlyReads
  <2>. QED
    BY <1>2, <2>1, <2>2
<1>5. RunnerTypes' /\ Fields'
  BY <1>1, <1>3, <1>4 DEF RunnerTypes, Fields, IsChange
<1>. QED
  BY <1>1, <1>4, <1>5, RunKeeps, GrantsKeep DEF RunnersInv

-------------------------------------------------------------------------------
(* The panel and restarts *)

\* A variable is set or deleted; what was planned need no longer be what was approved.
LEMMA SetVariableKeeps ==
    ASSUME RunnersInv, NEW scope \in Scopes, NEW v \in Values \cup {Unset}, SetVariable(scope, v)
    PROVE  RunnersInv'
<1>1. /\ Stroke /\ tale.kind = "script" /\ variable' = [variable EXCEPT ![scope] = v] /\ foreign' = TRUE
      /\ UNCHANGED <<story, tale, images, script, listed, readonly, ran, change, device, recorded, grant, session, transfer, clock, granted>>
  BY DEF SetVariable, vars
<1>2. strokes' \in 0..tale'.events
  BY <1>1, StrokeCounts
<1>3. Fields /\ RunnerTypes /\ StepsOfKind /\ DoneIsShown
  BY DEF RunnersInv
<1>4. RunnerTypes' /\ Fields'
  BY <1>1, <1>2, <1>3 DEF RunnerTypes, Fields, IsChange
<1>5. StepsOfKind' /\ DoneIsShown' /\ OnPath' /\ TextIsApproved'
  BY <1>1, <1>3 DEF StepsOfKind, DoneIsShown, OnPath, TextIsApproved
<1>. QED
  BY <1>1, <1>4, <1>5, GrantsKeep, TextsKeep DEF RunnersInv

\* The device's row is edited, or probed.
LEMMA EditDeviceKeeps ==
    ASSUME RunnersInv, NEW dev \in Listed, EditDevice(dev)
    PROVE  RunnersInv'
<1>1. /\ Stroke /\ tale.kind = "script" /\ listed' = dev /\ foreign' = TRUE
      /\ UNCHANGED <<story, tale, images, script, variable, readonly, ran, change, device, recorded, grant, session, transfer, clock, granted>>
  BY DEF EditDevice, vars
<1>2. strokes' \in 0..tale'.events
  BY <1>1, StrokeCounts
<1>3. Fields /\ RunnerTypes /\ StepsOfKind /\ DoneIsShown
  BY DEF RunnersInv
<1>4. RunnerTypes' /\ Fields'
  BY <1>1, <1>2, <1>3 DEF RunnerTypes, Fields, IsChange
<1>5. StepsOfKind' /\ DoneIsShown' /\ OnPath' /\ TextIsApproved'
  BY <1>1, <1>3 DEF StepsOfKind, DoneIsShown, OnPath, TextIsApproved
<1>. QED
  BY <1>1, <1>4, <1>5, GrantsKeep, TextsKeep DEF RunnersInv

\* The script of the library is edited.
LEMMA SaveScriptKeeps ==
    ASSUME RunnersInv, NEW body \in Bodies, SaveScript(body)
    PROVE  RunnersInv'
<1>1. /\ Stroke /\ script' = body
      /\ UNCHANGED <<story, tale, images, variable, listed, readonly, ran, change, device, recorded, grant, session, transfer, clock, foreign, granted>>
  BY DEF SaveScript, vars
<1>2. strokes' \in 0..tale'.events
  BY <1>1, StrokeCounts
<1>3. RunnerTypes' /\ Fields'
  BY <1>1, <1>2 DEF RunnersInv, RunnerTypes, Fields, IsChange
<1>. QED
  BY <1>1, <1>3, RunKeeps, GrantsKeep, TextsKeep DEF RunnersInv

\* Without a grant nothing is known to be granted.
LEMMA NoGrantIs == NoGrant.active = FALSE /\ NoGrant.file = {} /\ NoGrant.until = 0
BY DEF NoGrant

\* The process ends.
LEMMA CrashKeeps ==
    ASSUME RunnersInv, Crash
    PROVE  RunnersInv'
<1>1. /\ Stroke /\ Became("failed") /\ grant' = NoGrant /\ session' = NoGrant /\ readonly' = "none"
      /\ UNCHANGED <<story, tale, images, script, variable, listed, ran, device, recorded, transfer, clock, foreign, granted>>
  BY DEF Crash, vars
<1>2. strokes' \in 0..tale'.events
  BY <1>1, StrokeCounts
<1>3. Fields /\ RunnerTypes /\ GrantsAreKnown
  BY DEF RunnersInv
<1>4. StepTo("failed")
  BY <1>1, <1>3, BecameStep
<1>5. RunnerTypes'
  BY <1>1, <1>2, <1>3, <1>4, NoGrantIs DEF RunnerTypes, StepTo
<1>6. Fields' /\ change'.pc = "failed"
  BY <1>1, <1>3, <1>4 DEF Fields, StepTo
<1>7. GrantsAreKnown'
  BY <1>1, <1>3, NoGrantIs DEF GrantsAreKnown
<1>. QED
  BY <1>1, <1>5, <1>6, <1>7, SettledKeeps, TextsKeep DEF RunnersInv

\* Another change may be made.
LEMMA NoChangeIs ==
    /\ IsChange(NoChange) /\ NoChange.pc = "none" /\ NoChange.list = {} /\ NoChange.todo = {}
    /\ NoChange.path = <<>> /\ NoChange.target = 0 /\ NoChange.path \in Seq(Releases)
<1>1. NoChange.path = <<>>
  BY DEF NoChange
<1>2. IsChange(NoChange)
  BY DEF NoChange, IsChange
<1>. QED
  BY <1>1, <1>2, EmptySeq DEF NoChange

\* The change is settled.
LEMMA AgainKeeps ==
    ASSUME RunnersInv, Again
    PROVE  RunnersInv'
<1>1. /\ Stroke /\ change.pc \in {"ok", "failed"} /\ change' = NoChange
      /\ UNCHANGED <<story, tale, images, script, variable, listed, readonly, ran, device, recorded, grant, session, transfer, clock, foreign, granted>>
  BY DEF Again, Rest, vars
<1>2. strokes' \in 0..tale'.events
  BY <1>1, StrokeCounts
<1>3. Fields /\ RunnerTypes
  BY DEF RunnersInv
<1>4. RunnerTypes'
  BY <1>1, <1>2, <1>3, NoChangeIs DEF RunnerTypes
<1>5. Fields' /\ change'.pc = "none"
  BY <1>1, <1>3, NoChangeIs DEF Fields
<1>. QED
  BY <1>1, <1>4, <1>5, SettledKeeps, GrantsKeep, TextsKeep DEF RunnersInv

-------------------------------------------------------------------------------
(* The specification *)

\* A step of the catalogue does not touch what the runners keep.
LEMMA CatalogueKeeps ==
    ASSUME RunnersInv, UNCHANGED <<story, tale, images, runner>>
    PROVE  RunnersInv'
<1>1. UNCHANGED <<story, tale, images, change, device, recorded, script, variable, listed, readonly, grant, session, transfer, clock, strokes, foreign, ran, granted>>
  BY DEF runner
<1>2. RunnerTypes' /\ Fields'
  BY <1>1 DEF RunnersInv, RunnerTypes, Fields, IsChange
<1>. QED
  BY <1>1, <1>2, RunKeeps, GrantsKeep, TextsKeep DEF RunnersInv

\* A step of the catalogue keeps the story.
LEMMA StoryStays ==
    ASSUME Next
    PROVE  story' = story
<1>1. ASSUME World PROVE story' = story
  BY <1>1 DEF World, Restart, DeleteSource, Publish
<1>2. ASSUME NEW j \in Jobs, NEW kind, NEW f, Start(j, kind, f) PROVE story' = story
  BY <1>2 DEF Start
<1>3. ASSUME NEW j \in Jobs, Job(j) PROVE story' = story
  <2>1. CASE \E s \in Sources : SyncStart(j, s) \/ \E h \in Hosts : SaveSource(j, s, h)
    BY <1>2, <2>1 DEF SyncStart, SaveSource
  <2>2. CASE \E B \in SUBSET Contents : ImportBundle(j, B)
    BY <1>2, <2>2 DEF ImportBundle
  <2>3. CASE SyncConnect(j) \/ SyncList(j) \/ SyncFails(j) \/ FetchFails(j) \/ Withdraw(j) \/ Finish(j) \/ SaveSourceRow(j)
    BY <2>3 DEF SyncConnect, SyncList, SyncFails, FetchFails, Withdraw, Finish, SaveSourceRow
  <2>4. CASE \E c \in Contents : Upload(j, c) \/ Delete(j, c) \/ Update(j, c)
    BY <1>2, <2>4 DEF Upload, Delete, Update
  <2>5. CASE \E c \in Contents : Check(j, c) \/ upsert(j, c) \/ DeleteRow(j, c) \/ DeleteFile(j, c) \/ UpdateRow(j, c)
    BY <2>5 DEF Check, upsert, DeleteRow, DeleteFile, UpdateRow
  <2>6. CASE \E c, y \in Contents : Fetch(j, c, y)
    BY <2>6 DEF Fetch
  <2>. QED
    BY <1>3, <2>1, <2>2, <2>3, <2>4, <2>5, <2>6 DEF Job
<1>. QED
  BY <1>1, <1>3 DEF Next

\* The runners at the start.
LEMMA RunnersStart == RunnersInit => RunnersInv
<1>. SUFFICES ASSUME RunnersInit PROVE RunnersInv
  OBVIOUS
<1>1. /\ change = NoChange /\ device = [fw |-> 1, got |-> {}, other |-> tale.other]
      /\ recorded = 1 /\ script = "uses" /\ readonly = "none" /\ variable = [s \in Scopes |-> Unset]
      /\ listed = Unprobed /\ grant = NoGrant /\ session = NoGrant /\ transfer = {} /\ clock = 0 /\ strokes = 0 /\ ran = <<{}, {}>>
      /\ granted = [c \in Contents |-> -1]
  BY DEF RunnersInit
<1>2. <<story, tale>> \in Plots
  <2>1. PICK p \in Plots : story = p[1] /\ tale = p[2]
    BY DEF RunnersInit
  <2>2. p = <<p[1], p[2]>>
    BY RunnersConstants
  <2>. QED
    BY <2>1, <2>2
<1>3. images \in Catalogs
  <2>1. CASE tale.kind = "firmware"
    BY <2>1 DEF RunnersInit
  <2>2. CASE tale.kind # "firmware"
    <3>1. (CHOOSE k \in Catalogs : TRUE) \in Catalogs
      BY RunnersConstants
    <3>. QED
      BY <2>2, <3>1 DEF RunnersInit
  <2>. QED
    BY <2>1, <2>2
<1>4. device.fw = 1 /\ device.got = {} /\ device = [fw |-> device.fw, got |-> device.got, other |-> device.other]
  BY <1>1
<1>5. RunnerTypes
  <2>1. tale.events \in Nat /\ MaxClock \in Nat /\ 1 \in Releases
    BY <1>2, RunnersConstants DEF Tale
  <2>2. /\ variable \in [Scopes -> Values \cup {Unset}] /\ listed \in Listed
        /\ script \in Bodies /\ readonly \in Bodies \cup {"none"}
    BY <1>1 DEF Bodies, Listed, Unprobed
  <2>3. clock \in 0..MaxClock /\ strokes \in 0..tale.events
    BY <1>1, <2>1
  <2>4. grant.file \subseteq Contents /\ session.file \subseteq Contents /\ (grant.active <=> change.pc = "pull")
    BY <1>1, NoGrantIs, NoChangeIs
  <2>5. /\ change.pc = "none" /\ change.list \subseteq Contents /\ change.todo \subseteq change.list
        /\ change.path \in Seq(Releases) /\ change.target \in Releases \cup {0}
    BY <1>1, NoChangeIs
  <2>. QED
    BY <1>1, <1>2, <1>3, <1>4, <2>1, <2>2, <2>3, <2>4, <2>5 DEF RunnerTypes
<1>6. Fields
  BY <1>1, <1>4, NoChangeIs DEF Fields
<1>7. change.pc = "none"
  BY <1>1, NoChangeIs
<1>8. StepsOfKind /\ DoneIsShown /\ OnPath /\ TextIsApproved
  BY <1>7 DEF StepsOfKind, DoneIsShown, OnPath, TextIsApproved
<1>9. GrantsAreKnown
  <2>1. granted \in [Contents -> Int] /\ \A c \in Contents : granted[c] = -1
    BY <1>1
  <2>. QED
    BY <1>1, <2>1, NoGrantIs, RunnersConstants DEF GrantsAreKnown
<1>10. OutsideOnlyReads
  BY <1>1 DEF OutsideOnlyReads
<1>. QED
  BY <1>5, <1>6, <1>8, <1>9, <1>10 DEF RunnersInv

\* Every action keeps the invariant of the runners.
LEMMA RunnersStep ==
    ASSUME RunnersInv, RunnersNext
    PROVE  RunnersInv'
<1>1. CASE Next /\ UNCHANGED <<tale, images, runner>>
  BY <1>1, StoryStays, CatalogueKeeps
<1>2. CASE Deploy
  <2>1. CASE \E want \in SUBSET Contents, latest, verify \in BOOLEAN : CreateSignatures(want, latest, verify)
    BY <2>1, CreateSignaturesKeeps
  <2>2. CASE RunSignatures \/ InstallFails \/ FtpLogin
    BY <2>2, RunSignaturesKeeps, InstallFailsKeeps, FtpLoginKeeps
  <2>3. CASE \E c \in Contents : Grant(c) \/ Verify(c)
    BY <2>3, GrantKeeps, VerifyKeeps
  <2>4. CASE \E c \in Contents : TftpRead(c) \/ FtpRetr(c)
    BY <2>4, SendsKeeps DEF TftpRead, FtpRetr
  <2>5. CASE \E c \in Contents, x, y \in BOOLEAN : InstallAPI(c, x, y)
    BY <2>5, InstallAPIKeeps
  <2>6. CASE \E c \in Contents, x \in BOOLEAN : DeviceInstalls(c, x)
    BY <2>6, DeviceInstallsKeeps
  <2>7. CASE \E err \in BOOLEAN : PullReturns(err)
    BY <2>7, PullReturnsKeeps
  <2>. QED
    BY <1>2, <2>1, <2>2, <2>3, <2>4, <2>5, <2>6, <2>7 DEF Deploy
<1>3. CASE Upgrade
  <2>1. CASE \E v \in Releases : CreateFirmware(v) \/ Meddle(v)
    BY <2>1, CreateFirmwareKeeps, MeddleKeeps
  <2>2. CASE WaitFor \/ Probe
    BY <2>2, WaitForKeeps, ProbeKeeps
  <2>3. CASE \E x, y \in BOOLEAN : RunFirmware(x) \/ InstallImage(x, y) \/ WaitEnds(x)
    BY <2>3, RunFirmwareKeeps, InstallImageKeeps, WaitEndsKeeps
  <2>. QED
    BY <1>3, <2>1, <2>2, <2>3 DEF Upgrade
<1>4. CASE Scripted
  <2>1. CASE CreateScript \/ BeginScript \/ ReadOnlyBegin \/ ReadOnlyRun \/ \E err \in BOOLEAN : RunScript(err)
    BY <2>1, CreateScriptKeeps, BeginScriptKeeps, ReadOnlyBeginKeeps, ReadOnlyRunKeeps, RunScriptKeeps
  <2>2. CASE \E s \in Scopes, v \in Values \cup {Unset} : SetVariable(s, v)
    BY <2>2, SetVariableKeeps
  <2>3. CASE \E b \in Bodies : SaveScript(b)
    BY <2>3, SaveScriptKeeps
  <2>4. CASE \E dev \in Listed : EditDevice(dev)
    BY <2>4, EditDeviceKeeps
  <2>. QED
    BY <1>4, <2>1, <2>2, <2>3, <2>4 DEF Scripted
<1>5. CASE Crash \/ Again \/ Tick
  BY <1>5, CrashKeeps, AgainKeeps, TickKeeps
<1>. QED
  BY <1>1, <1>2, <1>3, <1>4, <1>5 DEF RunnersNext

\* The invariant of the runners.
LEMMA RunnersHold == RunnersSpec => []RunnersInv
<1>1. ASSUME RunnersInv, UNCHANGED allvars PROVE RunnersInv'
  <2>1. UNCHANGED <<story, tale, images, runner>>
    BY <1>1 DEF allvars, vars
  <2>. QED
    BY <1>1, <2>1, CatalogueKeeps
<1>2. RunnersInv /\ [RunnersNext]_allvars => RunnersInv'
  BY <1>1, RunnersStep
<1>. QED
  BY <1>2, RunnersStart, PTL DEF RunnersSpec

\* The runners, and what happens to devices, variables and scripts, take only
\* steps the catalogue may take, or none of its own: a run reads the catalogue
\* and never writes it.
THEOREM RunnersReadTheCatalogue == RunnersSpec => Spec
<1>1. RunnersInit => Init
  BY DEF RunnersInit
<1>2. ASSUME RunnersNext PROVE Next \/ UNCHANGED vars
  <2>1. CASE Deploy
    BY <2>1 DEF Deploy, CreateSignatures, RunSignatures, InstallFails, FtpLogin, Grant, Verify, TftpRead, FtpRetr, Sends,
                InstallAPI, DeviceInstalls, PullReturns, Rest
  <2>2. CASE Upgrade
    BY <2>2 DEF Upgrade, CreateFirmware, Meddle, WaitFor, Probe, RunFirmware, InstallImage, WaitEnds, Rest
  <2>3. CASE Scripted
    BY <2>3 DEF Scripted, CreateScript, BeginScript, ReadOnlyBegin, ReadOnlyRun, RunScript, SetVariable, EditDevice, SaveScript, Rest
  <2>4. CASE Crash \/ Again \/ Tick
    BY <2>4 DEF Crash, Again, Tick, Rest
  <2>. QED
    BY <1>2, <2>1, <2>2, <2>3, <2>4 DEF RunnersNext
<1>3. [RunnersNext]_allvars => [Next]_vars
  BY <1>2 DEF allvars
<1>. QED
  BY <1>1, <1>3, PTL DEF RunnersSpec, Spec
\* The invariant of the catalogue holds under the runners.
LEMMA CatalogueHolds == RunnersSpec => []PackagesInv
BY RunnersReadTheCatalogue, PackagesHold, PTL

\* What a run computes and reports is true: the path is the shortest one, the
\* scope of the highest rank gives a variable its value, a package reported as
\* verified was seen on the device, and texts run outside of a change only read.
THEOREM RunsAreTrue == RunnersSpec => []RunsTellTheTruth
<1>1. ASSUME RunnersInv, PackagesInv PROVE RunsTellTheTruth
  <2>1. RunnersTypeOK
    BY <1>1, RunnersByName DEF RunnersInv, PackagesInv, CatalogueInv, CatalogueIsSound
  <2>2. PathIsShortest
    BY <1>1, PathsAreShortest DEF RunnersInv, RunnerTypes
  <2>3. MergeIsByRank
    BY OrdersAgree DEF MergeIsByRank, ByRank
  <2>4. VerifiedIsInstalled
    <3>. SUFFICES ASSUME tale.kind = "signatures", change.pc = "ok", change.verify, NEW c \in change.list
                  PROVE  Shown(c)
      BY DEF VerifiedIsInstalled, Shown
    <3>. QED
      BY <1>1 DEF RunnersInv, StepsOfKind, DoneIsShown
  <2>5. OutsideOnlyReads
    BY <1>1 DEF RunnersInv
  <2>. QED
    BY <2>1, <2>2, <2>3, <2>4, <2>5 DEF RunsTellTheTruth
<1>2. RunnersInv /\ PackagesInv => RunsTellTheTruth
  BY <1>1
<1>. QED
  BY <1>2, RunnersHold, CatalogueHolds, PTL

-------------------------------------------------------------------------------
(* What a run does *)

\* Nothing is on its way to the device but what the file server sends.
LEMMA WhoSends ==
    ASSUME RunnersNext
    PROVE  transfer' \subseteq transfer \/ \E c \in Contents : TftpRead(c) \/ FtpRetr(c)
<1>1. CASE Next /\ UNCHANGED <<tale, images, runner>>
  BY <1>1 DEF runner
<1>2. CASE Deploy
  <2>1. CASE \E want \in SUBSET Contents, latest, verify \in BOOLEAN : CreateSignatures(want, latest, verify)
    BY <2>1 DEF CreateSignatures
  <2>2. CASE RunSignatures \/ InstallFails \/ FtpLogin
    BY <2>2 DEF RunSignatures, InstallFails, FtpLogin
  <2>3. CASE \E c \in Contents : Grant(c) \/ Verify(c)
    BY <2>3 DEF Grant, Verify
  <2>4. CASE \E c \in Contents, x, y \in BOOLEAN : InstallAPI(c, x, y) \/ DeviceInstalls(c, x)
    BY <2>4 DEF InstallAPI, DeviceInstalls
  <2>5. CASE \E err \in BOOLEAN : PullReturns(err)
    BY <2>5 DEF PullReturns
  <2>. QED
    BY <1>2, <2>1, <2>2, <2>3, <2>4, <2>5 DEF Deploy
<1>3. CASE Upgrade
  BY <1>3 DEF Upgrade, CreateFirmware, Meddle, WaitFor, Probe, RunFirmware, InstallImage, WaitEnds
<1>4. CASE Scripted
  BY <1>4 DEF Scripted, CreateScript, BeginScript, ReadOnlyBegin, ReadOnlyRun, RunScript, SetVariable, EditDevice, SaveScript
<1>5. CASE Crash \/ Again \/ Tick
  BY <1>5 DEF Crash, Again, Tick
<1>. QED
  BY <1>1, <1>2, <1>3, <1>4, <1>5 DEF RunnersNext

\* What is sent was granted for long enough.
LEMMA SentInTime ==
    ASSUME RunnersInv, RunnersNext, NEW c \in transfer' \ transfer
    PROVE  clock <= granted[c]
<1>1. PICK x \in Contents : TftpRead(x) \/ FtpRetr(x)
  BY WhoSends
<1>2. c = x
  BY <1>1 DEF TftpRead, FtpRetr, Sends
<1>3. /\ granted \in [Contents -> Int] /\ grant.until \in Nat /\ session.until \in Nat /\ clock \in Nat
      /\ \A y \in grant.file : grant.until <= granted[y]
      /\ \A y \in session.file : session.until <= granted[y]
  BY RunnersConstants DEF RunnersInv, GrantsAreKnown, RunnerTypes
<1>4. (x \in grant.file /\ clock <= grant.until) \/ (x \in session.file /\ clock < session.until)
  BY <1>1 DEF TftpRead, InForce, FtpRetr, SessionServes
<1>. QED
  BY <1>2, <1>3, <1>4

\* The device's firmware is changed by an install or by somebody else.
LEMMA WhoUpgrades ==
    ASSUME RunnersInv, RunnersNext, device'.fw # device.fw
    PROVE  foreign' \/ \E x, y \in BOOLEAN : InstallImage(x, y)
<1>0. device = [fw |-> device.fw, got |-> device.got, other |-> device.other]
  BY DEF RunnersInv, Fields
<1>1. CASE Next /\ UNCHANGED <<tale, images, runner>>
  BY <1>1 DEF runner
<1>2. CASE Deploy
  <2>1. CASE \E want \in SUBSET Contents, latest, verify \in BOOLEAN : CreateSignatures(want, latest, verify)
    BY <2>1 DEF CreateSignatures
  <2>2. CASE RunSignatures \/ InstallFails \/ FtpLogin
    BY <2>2 DEF RunSignatures, InstallFails, FtpLogin
  <2>3. CASE \E c \in Contents : Grant(c) \/ Verify(c) \/ TftpRead(c) \/ FtpRetr(c)
    BY <2>3 DEF Grant, Verify, TftpRead, FtpRetr, Sends
  <2>4. CASE \E c \in Contents, x, y \in BOOLEAN : InstallAPI(c, x, y) \/ DeviceInstalls(c, x)
    <3>1. PICK c \in Contents : device' = device \/ device' = [device EXCEPT !.got = @ \cup {c}]
      BY <2>4 DEF InstallAPI, DeviceInstalls
    <3>. QED
      BY <1>0, <3>1
  <2>5. CASE \E err \in BOOLEAN : PullReturns(err)
    BY <2>5 DEF PullReturns
  <2>. QED
    BY <1>2, <2>1, <2>2, <2>3, <2>4, <2>5 DEF Deploy
<1>3. CASE Upgrade
  BY <1>3 DEF Upgrade, CreateFirmware, Meddle, WaitFor, Probe, RunFirmware, WaitEnds
<1>4. CASE Scripted
  BY <1>4 DEF Scripted, CreateScript, BeginScript, ReadOnlyBegin, ReadOnlyRun, RunScript, SetVariable, EditDevice, SaveScript
<1>5. CASE Crash \/ Again \/ Tick
  BY <1>5 DEF Crash, Again, Tick
<1>. QED
  BY <1>1, <1>2, <1>3, <1>4, <1>5 DEF RunnersNext

\* A change that is previewed is planned.
LEMMA Planned ==
    ASSUME (\E want, latest, verify : CreateSignatures(want, latest, verify)) \/ (\E v : CreateFirmware(v)) \/ CreateScript
    PROVE  change'.pc = "planned"
<1>1. ASSUME NEW want, NEW latest, NEW verify, CreateSignatures(want, latest, verify) PROVE change'.pc = "planned"
  BY <1>1 DEF CreateSignatures, NoChange
<1>2. ASSUME NEW v, CreateFirmware(v) PROVE change'.pc = "planned"
  BY <1>2 DEF CreateFirmware, NoChange
<1>3. ASSUME CreateScript PROVE change'.pc = "planned"
  <2>. DEFINE t == Render(script, listed)
  <2>1. change' = [NoChange EXCEPT !.pc = "planned", !.body = script, !.text = t]
    BY <1>3 DEF CreateScript
  <2>. HIDE DEF t
  <2>. QED
    BY <2>1 DEF NoChange
<1>. QED
  BY <1>1, <1>2, <1>3

\* A change has succeeded before, or its last step was one of these.
LEMMA WhoSucceeds ==
    ASSUME RunnersInv, RunnersNext, change'.pc = "ok"
    PROVE  \/ change' = change /\ (foreign' = foreign \/ foreign')
           \/ WaitFor \/ tale.kind = "signatures" \/ \E err \in BOOLEAN : RunScript(err)
<1>0. Fields /\ StepsOfKind
  BY DEF RunnersInv
<1>1. CASE Next /\ UNCHANGED <<tale, images, runner>>
  BY <1>1 DEF runner
<1>2. CASE Deploy
  <2>1. CASE \E want \in SUBSET Contents, latest, verify \in BOOLEAN : CreateSignatures(want, latest, verify)
    BY <2>1 DEF CreateSignatures
  <2>2. CASE RunSignatures \/ FtpLogin
    BY <2>2 DEF RunSignatures, FtpLogin
  <2>3. CASE InstallFails
    <3>1. StepTo("failed")
      BY <1>0, <2>3, BecameStep DEF InstallFails
    <3>. QED
      BY <3>1 DEF StepTo
  <2>4. CASE \E c \in Contents : Grant(c) \/ Verify(c) \/ TftpRead(c) \/ FtpRetr(c)
    BY <1>0, <2>4 DEF StepsOfKind, Grant, Verify, TftpRead, FtpRetr, Sends
  <2>5. CASE \E c \in Contents, x, y \in BOOLEAN : InstallAPI(c, x, y) \/ DeviceInstalls(c, x)
    BY <2>5 DEF InstallAPI, DeviceInstalls
  <2>6. CASE \E err \in BOOLEAN : PullReturns(err)
    BY <1>0, <2>6 DEF StepsOfKind, PullReturns
  <2>. QED
    BY <1>2, <2>1, <2>2, <2>3, <2>4, <2>5, <2>6 DEF Deploy
<1>3. CASE Upgrade
  <2>1. CASE \E v \in Releases : CreateFirmware(v)
    BY <2>1, Planned
  <2>2. CASE (\E v \in Releases : Meddle(v)) \/ Probe
    BY <2>2 DEF Meddle, Probe
  <2>3. CASE WaitFor
    BY <2>3
  <2>4. CASE \E x, y \in BOOLEAN : InstallImage(x, y) \/ WaitEnds(x)
    <3>1. \E pc \in {"failed", "reboot"} : Became(pc)
      BY <2>4 DEF InstallImage, WaitEnds
    <3>2. \E pc \in {"failed", "reboot"} : StepTo(pc)
      BY <1>0, <3>1, BecameStep
    <3>. QED
      BY <3>2 DEF StepTo
  <2>5. CASE \E x \in BOOLEAN : RunFirmware(x)
    <3>. DEFINE p == Path(recorded, change.target)
    <3>1. Became("failed") \/ change' = [change EXCEPT !.pc = "install", !.path = p]
      BY <2>5 DEF RunFirmware
    <3>. HIDE DEF p
    <3>2. StepTo("failed") \/ change'.pc = "install"
      BY <1>0, <3>1, BecameStep DEF Fields, IsChange
    <3>. QED
      BY <3>2 DEF StepTo
  <2>. QED
    BY <1>3, <2>1, <2>2, <2>3, <2>4, <2>5 DEF Upgrade
<1>4. CASE Scripted
  <2>1. CASE CreateScript
    BY <2>1, Planned
  <2>2. CASE \E err \in BOOLEAN : RunScript(err)
    BY <2>2
  <2>3. CASE ReadOnlyBegin \/ ReadOnlyRun
    BY <2>3 DEF ReadOnlyBegin, ReadOnlyRun
  <2>4. CASE \/ \E s \in Scopes, v \in Values \cup {Unset} : SetVariable(s, v)
             \/ \E dev \in Listed : EditDevice(dev)
             \/ \E b \in Bodies : SaveScript(b)
    BY <2>4 DEF SetVariable, EditDevice, SaveScript
  <2>5. CASE BeginScript
    BY <1>0, <2>5 DEF BeginScript, Fields, IsChange
  <2>. QED
    BY <1>4, <2>1, <2>2, <2>3, <2>4, <2>5 DEF Scripted
<1>5. CASE Crash
  <2>1. StepTo("failed")
    BY <1>0, <1>5, BecameStep DEF Crash
  <2>. QED
    BY <2>1 DEF StepTo
<1>6. CASE Again \/ Tick
  BY <1>6, NoChangeIs DEF Again, Tick
<1>. QED
  BY <1>1, <1>2, <1>3, <1>4, <1>5, <1>6 DEF RunnersNext

\* The image that is installed upgrades from what the device runs.
LEMMA ImageFollows ==
    ASSUME RunnersInv, RunnersNext, tale.kind = "firmware", ~foreign', device'.fw # device.fw
    PROVE  device.fw \in images[device'.fw]
<1>1. PICK x, y \in BOOLEAN : InstallImage(x, y)
  BY WhoUpgrades
<1>2. /\ change.pc = "install" /\ foreign' = foreign
      /\ device' = [device EXCEPT !.fw = Head(change.path)]
  BY <1>1 DEF InstallImage
<1>3. device'.fw = Head(change.path)
  BY <1>2 DEF RunnersInv, Fields
<1>4. change.path # <<>> /\ change.path \in Seq(Releases) /\ device.fw \in images[change.path[1]]
  BY <1>2 DEF RunnersInv, RunnerTypes, OnPath
<1>. QED
  BY <1>3, <1>4, HeadTailProperties

\* An upgrade that succeeds has reached its target.
LEMMA TargetReached ==
    ASSUME RunnersInv, RunnersNext, tale.kind = "firmware", ~foreign', change'.pc = "ok"
    PROVE  device.fw = change.target
<1>1. CASE change' = change /\ foreign' = foreign
  BY <1>1 DEF RunnersInv, OnPath
<1>2. CASE WaitFor
  <2>1. /\ change.pc = "reboot" /\ device.fw = Head(change.path)
        /\ change' = [change EXCEPT !.path = Tail(@), !.pc = IF Len(change.path) = 1 THEN "ok" ELSE "install"]
    BY <1>2 DEF WaitFor, BackOn
  <2>2. change'.pc = IF Len(change.path) = 1 THEN "ok" ELSE "install"
    BY <2>1 DEF RunnersInv, Fields, IsChange
  <2>3. change.path # <<>> /\ change.path[Len(change.path)] = change.target /\ change.path \in Seq(Releases)
    BY <2>1 DEF RunnersInv, RunnerTypes, OnPath
  <2>. QED
    BY <2>1, <2>2, <2>3, HeadTailProperties
<1>3. CASE \E err \in BOOLEAN : RunScript(err)
  BY <1>3 DEF RunScript, RunnersInv, StepsOfKind
<1>. QED
  BY <1>1, <1>2, <1>3, WhoSucceeds

\* The text that runs is the one that was approved.
LEMMA ApprovedRuns ==
    ASSUME RunnersInv, RunnersNext, tale.kind = "script", change'.pc = "ok", change.pc # "ok", ~foreign
    PROVE  ran'[1] \subseteq ran[1] \cup {change.text}
<1>1. PICK err \in BOOLEAN : RunScript(err)
  <2>1. ~WaitFor
    BY DEF WaitFor, RunnersInv, StepsOfKind
  <2>. QED
    BY <2>1, WhoSucceeds
<1>2. Fields /\ change.text = Render(change.body, change.dev)
  <2>1. Fields /\ change.text = TextOf(change.body, change.dev)
    BY <1>1 DEF RunScript, RunnersInv, TextIsApproved
  <2>. QED
    BY <2>1, RenderIs
<1>3. UNCHANGED ran \/ ran' = [ran EXCEPT ![1] = @ \cup {change.text}]
  <2>. DEFINE t == Render(change.body, change.dev)
  <2>1. UNCHANGED ran \/ ran' = [ran EXCEPT ![1] = @ \cup {t}]
    BY <1>1 DEF RunScript, BodyOfChange
  <2>. HIDE DEF t
  <2>. QED
    BY <1>2, <2>1 DEF t
<1>4. CASE UNCHANGED ran
  BY <1>4
<1>5. CASE ran' = [ran EXCEPT ![1] = @ \cup {change.text}]
  <2>1. 1 \in {1, 2}
    OBVIOUS
  <2>2. ran'[1] = ran[1] \cup {change.text}
    BY <1>2, <1>5, <2>1, TextRan
  <2>. QED
    BY <2>2
<1>. QED
  BY <1>3, <1>4, <1>5

\* A run does what was approved, whatever the catalogue, the variables, the
\* library and other hands do in between: it sends a file only within its grant,
\* installs each image on a release it upgrades from, and runs the approved text.
THEOREM RunsKeepTheirApproval == RunnersSpec => RunsAsApproved
<1>. DEFINE Timely == \A c \in transfer' \ transfer : clock <= granted[c]
            Along == tale.kind = "firmware" /\ ~foreign' =>
                        /\ change.pc = "install" /\ device'.fw # device.fw => device.fw \in images[device'.fw]
                        /\ change'.pc = "ok" => device.fw = change.target
            Approved == tale.kind = "script" /\ change'.pc = "ok" /\ change.pc # "ok" /\ ~foreign =>
                           ran'[1] \subseteq ran[1] \cup {change.text}
<1>1. RunnersInv /\ [RunnersNext]_allvars => [Timely]_allvars
  BY SentInTime
<1>2. RunnersInv /\ [RunnersNext]_allvars => [Along]_allvars
  BY ImageFollows, TargetReached
<1>3. RunnersInv /\ [RunnersNext]_allvars => [Approved]_allvars
  BY ApprovedRuns
<1>4. (RunnersSpec => [][Timely]_allvars) /\ (RunnersSpec => [][Along]_allvars) /\ (RunnersSpec => [][Approved]_allvars)
  <2>. HIDE DEF Timely, Along, Approved
  <2>. QED
    BY <1>1, <1>2, <1>3, RunnersHold, PTL DEF RunnersSpec
<1>. QED
  BY <1>4 DEF RunsAsApproved, ServedInTime, UpgradeKeepsPath, ApprovedTextRuns
===============================================================================
