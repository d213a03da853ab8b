------------------------- MODULE ProjectFilesProofs -------------------------
(***************************************************************************)
(* Proofs about ProjectFiles, for any items, names and files and any       *)
(* number of workers, changes of view and changes by the user.             *)
(***************************************************************************)
EXTENDS ProjectFiles, TLAPS

Callback == Job \cup {Changed}

\* Facts about single jobs: one that has written its temporary file knows the
\* item, and only an import has a step after its work.
JobsOK ==
  \A j \in jobs : /\ j.step = "create" => j.item \in Items
                  /\ j.step = "post" => j.kind = "import"

\* Jobs and callbacks that a worker makes out of its own job are jobs.
LEMMA NewJobType ==
  ASSUME TypeOK, NEW kind \in Kinds, NEW p \in Projects \cup {None},
         NEW v \in Views \cup {None}, NEW todo \in SUBSET Items, NEW i \in Link,
         ProjectFits(kind, p)
  PROVE  NewJob(kind, p, v, todo, i) \in Job
BY DEF TypeOK, NewJob, Job, NoFiles, Link

LEMMA InitType == Init => TypeOK /\ JobsOK
<1> SUFFICES ASSUME Init PROVE TypeOK /\ JobsOK
  OBVIOUS
<1> USE ConstantsAssumption DEF Init, Link, Projects, Views
<1>1. owner \in [Files -> Projects \cup {None}] /\ made \subseteq Files
  OBVIOUS
<1>2. bndb \in [Views -> Link]
  <2>1. PICK l \in Link : bndb = [v \in Views |-> IF v \in made THEN l ELSE None]
    OBVIOUS
  <2> QED
    BY <2>1
<1>3. /\ DOMAIN rows \subseteq Files
      /\ \A f \in DOMAIN rows : rows[f] \in Link
  BY DEF NoRows
<1>4. /\ bytes \in [Files -> Link]
      /\ link \in [Projects -> [Files -> Link]] /\ server \subseteq Projects
      /\ temp \in [Names -> Link]
      /\ context \in Projects \cup {None} /\ view \in Views \cup {None}
      /\ watched \in Projects \cup {None} /\ timer \in BOOLEAN
  BY Zenon
<1>5. /\ jobs \subseteq Job /\ started \in 0..MaxJobs /\ turns \in 0..MaxTurns
      /\ queue \in Seq(Job \cup {Changed})
      /\ added \subseteq Files /\ cleared \subseteq Files
      /\ raced \subseteq Items /\ shared \subseteq Names
  OBVIOUS
<1>6. emptied \in BOOLEAN
  BY Zenon
<1> QED
  BY <1>1, <1>2, <1>3, <1>4, <1>5, <1>6 DEF TypeOK, JobsOK

LEMMA CurrentType == TypeOK => CurrentOpenProject \in Projects \cup {None}
BY DEF TypeOK, CurrentOpenProject, ProjectForView

\* The worker's side of type correctness: a job that is advanced is still a
\* job, in the set or in the queue.
LEMMA AdvanceType ==
  ASSUME TypeOK, JobsOK, NEW j \in jobs, NEW i \in Link, NEW got \in [Files -> Link],
         NEW q \in Seq(Callback), Advance(j, i, got, q)
  PROVE  jobs' \subseteq Job /\ queue' \in Seq(Callback) /\ JobsOK'
<1> DEFINE k == [j EXCEPT !.todo = @ \ {i}, !.item = None, !.step = "run", !.got = got]
<1>1. k \in Job /\ k.step = "run"
  BY Zenon DEF TypeOK, Job, Link
<1>2. jobs' \subseteq jobs \cup {k}
  BY DEF Advance, Replace
<1>3. queue' \in {q, Append(q, k)}
  BY DEF Advance
<1> HIDE DEF k
<1>4. queue' \in Seq(Callback)
  BY <1>1, <1>3 DEF Callback
<1> QED
  BY <1>1, <1>2, <1>4 DEF TypeOK, JobsOK

LEMMA EnqueueType ==
  ASSUME TypeOK, JobsOK, NEW kind \in Kinds, NEW p \in Projects \cup {None},
         NEW v \in Views \cup {None}, NEW todo \in SUBSET Items, NEW i \in Link,
         ProjectFits(kind, p), Enqueue(kind, p, v, todo, i)
  PROVE  jobs' \subseteq Job /\ started' \in 0..MaxJobs /\ JobsOK'
<1>1. NewJob(kind, p, v, todo, i) \in Job
  BY NewJobType
<1>2. NewJob(kind, p, v, todo, i).step = "run"
  BY DEF NewJob
<1> QED
  BY <1>1, <1>2, ConstantsAssumption DEF Enqueue, TypeOK, JobsOK

LEMMA RequestType ==
  ASSUME TypeOK, JobsOK, Request, UNCHANGED turns
  PROVE  TypeOK' /\ JobsOK'
<1>1. CurrentOpenProject \in Projects \cup {None}
  BY CurrentType
<1>2. ASSUME NEW kind \in {"add", "bulk"}, NEW s \in SUBSET Items, AddItems(kind, s)
      PROVE  TypeOK' /\ JobsOK'
  <2> DEFINE todo == Missing(CurrentOpenProject, s)
  <2>1. todo \in SUBSET Items
    BY DEF Missing
  <2>2. jobs' \subseteq Job /\ started' \in 0..MaxJobs /\ JobsOK'
    BY <1>1, <1>2, <2>1, EnqueueType, Zenon DEF AddItems, ProjectFits, Kinds, Adds, Link
  <2>3. raced' \subseteq Items
    BY <1>2, <2>1 DEF AddItems, TypeOK
  <2> QED
    BY <1>2, <2>2, <2>3 DEF AddItems, TypeOK, meta, disk, panel, shows
<1>3. ASSUME NEW i \in Items, AddItemToProject(i) PROVE TypeOK' /\ JobsOK'
  BY <1>2, <1>3 DEF AddItemToProject
<1>4. ASSUME NEW s \in Selections, BulkAddItemsToProject(s) PROVE TypeOK' /\ JobsOK'
  BY <1>2, <1>4, ConstantsAssumption DEF BulkAddItemsToProject
<1>5. ASSUME NEW i \in Items, ImportItem(i) PROVE TypeOK' /\ JobsOK'
  <2>1. jobs' \subseteq Job /\ started' \in 0..MaxJobs /\ JobsOK'
    BY <1>5, EnqueueType, Zenon DEF ImportItem, ProjectFits, Kinds, Adds, Link, TypeOK
  <2> QED
    BY <1>5, <2>1 DEF ImportItem, TypeOK, meta, disk, panel, shows, history
<1>6. ASSUME NEW i \in Items, DeleteItem(i) PROVE TypeOK' /\ JobsOK'
  <2>1. jobs' \subseteq Job /\ started' \in 0..MaxJobs /\ JobsOK'
    BY <1>6, EnqueueType DEF DeleteItem, ProjectFits, Kinds, Adds, Link
  <2> QED
    BY <1>6, <2>1 DEF DeleteItem, TypeOK, meta, disk, panel, shows, history
<1>7. CASE CreateProjectFromNode
  <2>1. jobs' \subseteq Job /\ started' \in 0..MaxJobs /\ JobsOK'
    BY <1>7, EnqueueType, Zenon DEF CreateProjectFromNode, ProjectFits, Kinds, Adds, Link
  <2> QED
    BY <1>7, <2>1 DEF CreateProjectFromNode, TypeOK, meta, disk, panel, shows, history
<1>9. CASE OnDisconnectClicked
  <2>1. jobs' \subseteq Job /\ started' \in 0..MaxJobs /\ JobsOK'
    BY <1>9, EnqueueType DEF OnDisconnectClicked, ProjectFits, Kinds, Adds, Link
  <2> QED
    BY <1>9, <2>1 DEF OnDisconnectClicked, TypeOK, meta, disk, panel, shows, history
<1>8. ASSUME NEW f \in Files, NEW i \in Items, UploadToGhidra(f, i)
      PROVE  TypeOK' /\ JobsOK'
  <2>1. jobs' \subseteq Job /\ started' \in 0..MaxJobs /\ JobsOK'
    BY <1>1, <1>8, EnqueueType, Zenon DEF UploadToGhidra, ProjectFits, Kinds, Adds, Link, Views
  <2> QED
    BY <1>8, <2>1 DEF UploadToGhidra, TypeOK, meta, disk, panel, shows, history
<1> QED
  BY <1>3, <1>4, <1>5, <1>6, <1>7, <1>8, <1>9 DEF Request

LEMMA WorkerType ==
  ASSUME TypeOK, JobsOK, UNCHANGED turns, NEW j \in jobs, Worker(j)
  PROVE  TypeOK' /\ JobsOK'
<1>0. j \in Job /\ j.got \in [Files -> Link] /\ queue \in Seq(Callback)
  BY DEF TypeOK, Job, Callback
<1>1. CASE Enumerates(j)
  <2>1. queue' \in Seq(Callback) /\ jobs' \subseteq Job /\ JobsOK'
    BY <1>0, <1>1 DEF Enumerates, TypeOK, JobsOK, Callback
  <2> QED
    BY <1>1, <2>1 DEF Enumerates, TypeOK, meta, disk, panel, shows, history, Callback
<1>2. ASSUME NEW i \in Items, AddSkips(j, i) PROVE TypeOK' /\ JobsOK'
  <2>1. jobs' \subseteq Job /\ queue' \in Seq(Callback) /\ JobsOK'
    BY <1>0, <1>2, AdvanceType DEF AddSkips, Link
  <2> QED
    BY <1>2, <2>1 DEF AddSkips, TypeOK, meta, disk, panel, shows, history, Callback
<1>3. ASSUME NEW i \in Items, AddWrites(j, i) PROVE TypeOK' /\ JobsOK'
  <2> DEFINE k == [j EXCEPT !.step = "create", !.item = i]
  <2>1. k \in Job /\ k.step = "create" /\ k.item = i
    BY <1>0, Zenon DEF Job, Link
  <2>2. jobs' = (jobs \ {j}) \cup {k}
    BY <1>3 DEF AddWrites, Replace
  <2> HIDE DEF k
  <2>3. jobs' \subseteq Job /\ JobsOK'
    BY <2>1, <2>2 DEF TypeOK, JobsOK
  <2>4. temp' \in [Names -> Link] /\ shared' \subseteq Names
    BY <1>3, ConstantsAssumption DEF AddWrites, TypeOK, TempPath, Link
  <2> QED
    BY <1>3, <2>3, <2>4 DEF AddWrites, TypeOK, meta, disk, panel, shows, history
<1>4. ASSUME NEW f \in Files, AddCreates(j, f) PROVE TypeOK' /\ JobsOK'
  <2>1. j.item \in Items /\ TempPath(j.item) \in Names
    BY <1>4, ConstantsAssumption DEF AddCreates, JobsOK, TempPath
  <2>2. [j.got EXCEPT ![f] = j.item] \in [Files -> Link]
    BY <1>0, <2>1 DEF Link
  <2>3. Notified(j.project) \in Seq(Callback)
    BY <1>0 DEF Notified, Callback
  <2>4. jobs' \subseteq Job /\ queue' \in Seq(Callback) /\ JobsOK'
    BY <1>4, <2>1, <2>2, <2>3, AdvanceType DEF AddCreates, Link
  <2>5. /\ made' \subseteq Files /\ owner' \in [Files -> Projects \cup {None}]
        /\ bytes' \in [Files -> Link] /\ temp' \in [Names -> Link]
    BY <1>0, <1>4, <2>1 DEF AddCreates, TypeOK, Link, Job
  <2> QED
    BY <1>4, <2>4, <2>5 DEF AddCreates, TypeOK, meta, panel, shows, history, Callback
<1>5. CASE AddCreateFails(j)
  <2>1. j.item \in Link
    BY <1>0, Zenon DEF Job
  <2>2. jobs' \subseteq Job /\ queue' \in Seq(Callback) /\ JobsOK'
    BY <1>0, <1>5, <2>1, AdvanceType DEF AddCreateFails
  <2>3. temp' \in [Names -> Link]
    BY <1>5, Zenon DEF AddCreateFails, TypeOK, Link
  <2> QED
    BY <1>5, <2>2, <2>3 DEF AddCreateFails, TypeOK, meta, disk, panel, shows, history, Callback
<1>6. CASE WorkerFails(j)
  BY <1>6 DEF WorkerFails, TypeOK, JobsOK, meta, disk, panel, shows, history
<1>7. CASE ImportStores(j)
  <2> DEFINE k == [j EXCEPT !.step = "post"]
  <2>1. k \in Job /\ k.step = "post" /\ k.kind = "import"
    BY <1>0, <1>7 DEF Job, ImportStores
  <2>2. jobs' = (jobs \ {j}) \cup {k}
    BY <1>7 DEF ImportStores, Replace
  <2> HIDE DEF k
  <2>3. jobs' \subseteq Job /\ JobsOK'
    BY <2>1, <2>2 DEF TypeOK, JobsOK
  <2>4. j.item \in Link /\ j.file \in Views \cup {None}
    BY <1>0 DEF Job
  <2> DEFINE p == ProjectForView(j.file)
  <2>7. p \in Projects \cup {None}
    BY DEF ProjectForView, TypeOK
  <2> HIDE DEF p
  <2>5. /\ link' \in [Projects -> [Files -> Link]] /\ server' \subseteq Projects
        /\ added' \subseteq Files /\ cleared' \subseteq Files
    <3>1. CASE p = None
      BY <1>7, <3>1, Zenon DEF ImportStores, p, TypeOK
    <3>2. CASE p # None
      <4>1. StoreLink(p, j.file, j.item) /\ p \in Projects
        BY <1>7, <2>7, <3>2, Zenon DEF ImportStores, p
      <4> QED
        BY <2>4, <4>1, Zenon DEF StoreLink, StoreServer, TypeOK
    <3> QED
      BY <3>1, <3>2
  <2>6. bndb' \in [Views -> Link]
    BY <1>7, <2>4 DEF ImportStores, TypeOK
  <2> QED
    BY <1>7, <2>3, <2>5, <2>6 DEF ImportStores, TypeOK, disk, panel, shows
<1>8. CASE WorkerPosts(j)
  <2>1. queue' \in Seq(Callback) /\ jobs' \subseteq Job /\ JobsOK'
    BY <1>0, <1>8 DEF WorkerPosts, TypeOK, JobsOK, Callback
  <2> QED
    BY <1>8, <2>1 DEF WorkerPosts, TypeOK, meta, disk, panel, shows, history, Callback
<1> QED
  BY <1>1, <1>2, <1>3, <1>4, <1>5, <1>6, <1>7, <1>8 DEF Worker

LEMMA CallbackType ==
  ASSUME TypeOK, JobsOK, UNCHANGED turns, RunCallback
  PROVE  TypeOK' /\ JobsOK'
<1> DEFINE c == Head(queue)
<1>0. c \in Callback /\ queue' \in Seq(Callback)
  BY DEF RunCallback, TypeOK, Callback
<1>1. CurrentOpenProject \in Projects \cup {None}
  BY CurrentType
<1>2. ASSUME c.kind # "changed" PROVE c \in Job
  BY <1>0, <1>2 DEF Callback, Changed
<1> HIDE DEF c
<1> USE DEF RunCallback, TypeOK, disk, Callback
<1>3. CASE LinkCallback(c) /\ UNCHANGED shows
  <2>1. c \in Job
    BY <1>2, <1>3, Zenon DEF LinkCallback, Adds
  <2>2. c.got \in [Files -> Link] /\ c.project \in Projects /\ Gotten(c) \subseteq Files
    BY <1>3, <2>1, Zenon DEF Job, Gotten, LinkCallback, ProjectFits
  <2>4. server' \subseteq Projects
    BY <1>3, <2>2, Zenon DEF LinkCallback, StoreServer
  <2>5. link' \in [Projects -> [Files -> Link]]
    BY <1>3, <2>2, Zenon DEF LinkCallback
  <2>6. added' \subseteq Files /\ cleared' \subseteq Files
    BY <1>3, <2>2 DEF LinkCallback
  <2>7. context' \in Projects \cup {None} /\ timer' \in BOOLEAN
    BY <1>3, Zenon DEF LinkCallback, ScheduleRefreshProjectFiles, Projects
  <2> QED
    BY <1>0, <1>3, <2>4, <2>5, <2>6, <2>7, Zenon DEF LinkCallback, JobsOK, panel, shows, work
<1>4. CASE EnumerateCallback(c) /\ UNCHANGED shows
  <2>1. jobs' \subseteq Job /\ started' \in 0..MaxJobs /\ JobsOK'
    <3>1. CASE UNCHANGED work
      BY <3>1 DEF work, JobsOK
    <3>2. ASSUME NEW s \in Selections, PopulateProjectWithItems(s)
          PROVE  jobs' \subseteq Job /\ started' \in 0..MaxJobs /\ JobsOK'
      <4> HIDE DEF TypeOK
      <4> QED
        BY <3>2, EnqueueType, ConstantsAssumption, Zenon
        DEF PopulateProjectWithItems, ProjectFits, Kinds, Adds, Projects, Link, None, New
    <3> QED
      BY <1>4, <3>1, <3>2 DEF EnumerateCallback
  <2> QED
    BY <1>0, <1>4, <2>1 DEF EnumerateCallback, meta, panel, shows
<1>5. CASE ImportCallback(c) /\ UNCHANGED shows
  BY <1>0, <1>5, Zenon DEF ImportCallback, ScheduleRefreshProjectFiles, JobsOK, meta, panel, shows, work
<1>6. CASE UploadCallback(c) /\ UNCHANGED shows
  <2>1. c \in Job
    BY <1>2, <1>6 DEF UploadCallback
  <2>2. c.project \in Projects \cup {None} /\ c.item \in Link
    BY <2>1 DEF Job
  <2>3. /\ link' \in [Projects -> [Files -> Link]] /\ server' \subseteq Projects
        /\ added' \subseteq Files /\ cleared' \subseteq Files
    <3>1. CASE c.project = None
      BY <1>6, <3>1, Zenon DEF UploadCallback
    <3>2. CASE c.project # None
      <4>1. StoreLink(c.project, c.file, c.item) /\ c.project \in Projects
        BY <1>6, <2>2, <3>2, Zenon DEF UploadCallback
      <4> QED
        BY <2>2, <4>1, Zenon DEF StoreLink, StoreServer
    <3> QED
      BY <3>1, <3>2
  <2> QED
    BY <1>0, <1>6, <2>3
    DEF UploadCallback, ScheduleRefreshProjectFiles, JobsOK, panel, shows, work
<1>7. CASE DeleteCallback(c) /\ UNCHANGED shows
  <2>1. link' \in [Projects -> [Files -> Link]]
    BY <1>7 DEF DeleteCallback, Link
  <2>2. bndb' \in [Views -> Link]
    BY <1>7 DEF DeleteCallback, Link
  <2>3. added' \subseteq Files /\ cleared' \subseteq Files
    BY <1>7, Zenon DEF DeleteCallback, Touched, FilesOf
  <2> QED
    BY <1>0, <1>7, <2>1, <2>2, <2>3
    DEF DeleteCallback, ScheduleRefreshProjectFiles, JobsOK, panel, shows, work
<1>8. CASE ChangedCallback(c) /\ UNCHANGED shows
  BY <1>0, <1>8 DEF ChangedCallback, ScheduleRefreshProjectFiles, JobsOK, meta, panel, shows, work
<1>9. CASE DisconnectCallback(c)
  BY <1>0, <1>9 DEF DisconnectCallback, NoRows, JobsOK, meta, panel, work
<1> QED
  BY <1>3, <1>4, <1>5, <1>6, <1>7, <1>8, <1>9, Zenon DEF c

LEMMA RefreshType ==
  ASSUME TypeOK, JobsOK, UNCHANGED turns, RefreshProjectFiles
  PROVE  TypeOK' /\ JobsOK'
<1>1. DOMAIN rows' \subseteq Files /\ \A f \in DOMAIN rows' : rows'[f] \in Link
  BY DEF RefreshProjectFiles, RowsOf, NoRows, FilesOf, ProjectForView, TypeOK
<1> QED
  BY <1>1, Zenon DEF RefreshProjectFiles, TypeOK, JobsOK, meta, disk, panel, shows, work, history

LEMMA TurnType ==
  ASSUME TypeOK, JobsOK, Turn, turns < MaxTurns, turns' = turns + 1
  PROVE  TypeOK' /\ JobsOK'
<1>0. turns' \in 0..MaxTurns /\ queue \in Seq(Callback)
  BY ConstantsAssumption DEF TypeOK, Callback
<1>1. CurrentOpenProject \in Projects \cup {None}
  BY CurrentType
<1>2. ASSUME NEW p PROVE Notified(p) \in Seq(Callback)
  BY <1>0 DEF Notified, Callback
<1> USE DEF TypeOK, JobsOK, work, Callback
<1>3. ASSUME NEW v \in Views \cup {None}, NotifyViewChanged(v) PROVE TypeOK' /\ JobsOK'
  <2>1. /\ link' \in [Projects -> [Files -> Link]] /\ server' \subseteq Projects
        /\ watched' \in Projects \cup {None} /\ timer' \in BOOLEAN
    <3>1. CASE v = None
      BY <1>3, <3>1 DEF NotifyViewChanged
    <3>2. CASE v # None
      <4>1. ReadLink(v) /\ v \in Views /\ ProjectForView(v) \in Projects \cup {None}
        BY <1>3, <3>2, Zenon DEF NotifyViewChanged, ProjectForView
      <4>2. link' \in [Projects -> [Files -> Link]] /\ server' \subseteq Projects
        <5> DEFINE p == ProjectForView(v)
        <5>1. CASE UNCHANGED <<server, link>>
          BY <5>1
        <5>2. CASE /\ p # None /\ StoreServer(p)
                   /\ link' = [link EXCEPT ![p][v] = bndb[v]]
          <6>1. p \in Projects /\ v \in Files /\ bndb[v] \in Link
            BY <4>1, <5>2 DEF ProjectForView
          <6> HIDE DEF p
          <6> QED
            BY <5>2, <6>1 DEF StoreServer
        <5> QED
          BY <4>1, <5>1, <5>2 DEF ReadLink, MigrateStandaloneMetadata
      <4>3. watched' \in Projects \cup {None} /\ timer' \in BOOLEAN
        BY <1>3, <3>2, Zenon
        DEF NotifyViewChanged, WatchProject, ScheduleRefreshProjectFiles, ProjectForView
      <4> QED
        BY <4>2, <4>3
    <3> QED
      BY <3>1, <3>2
  <2> QED
    BY <1>0, <1>3, <2>1 DEF NotifyViewChanged, disk, shows, history
<1>4. ASSUME NEW f \in Files, ClearGhidraLink(f) PROVE TypeOK' /\ JobsOK'
  <2>1. link' \in [Projects -> [Files -> Link]]
    BY <1>4, Zenon DEF ClearGhidraLink, Link
  <2>2. bndb' \in [Views -> Link]
    BY <1>4, Zenon DEF ClearGhidraLink, ClearDatabase, Link
  <2>3. cleared' \subseteq Files /\ added' \subseteq Files /\ timer' \in BOOLEAN
    BY <1>4, Zenon DEF ClearGhidraLink, ScheduleRefreshProjectFiles
  <2> QED
    BY <1>0, <1>4, <2>1, <2>2, <2>3 DEF ClearGhidraLink, disk, panel, shows
<1>5. ASSUME NEW f \in Files, UserDeletesFile(f) PROVE TypeOK' /\ JobsOK'
  <2>1. owner' \in [Files -> Projects \cup {None}] /\ queue' \in Seq(Callback)
    BY <1>2, <1>5 DEF UserDeletesFile
  <2> QED
    BY <1>0, <1>5, <2>1, Zenon DEF UserDeletesFile, meta, panel, shows, history
<1>6. ASSUME NEW f \in Files, UserAddsFile(f) PROVE TypeOK' /\ JobsOK'
  <2>1. /\ owner' \in [Files -> Projects \cup {None}] /\ queue' \in Seq(Callback)
        /\ made' \subseteq Files
    BY <1>2, <1>6 DEF UserAddsFile, Projects
  <2> QED
    BY <1>0, <1>6, <2>1 DEF UserAddsFile, meta, panel, shows, history
<1>7. ASSUME NEW i \in Items, EventReceived(i) PROVE TypeOK' /\ JobsOK'
  BY <1>0, <1>7
  DEF EventReceived, ScheduleRefreshProjectFiles, meta, disk, panel, shows, history
<1> QED
  BY <1>3, <1>4, <1>5, <1>6, <1>7, Zenon DEF Turn

LEMMA StepType == TypeOK /\ JobsOK /\ [Next]_vars => TypeOK' /\ JobsOK'
<1> SUFFICES ASSUME TypeOK, JobsOK, [Next]_vars PROVE TypeOK' /\ JobsOK'
  OBVIOUS
<1>1. CASE UNCHANGED vars
  BY <1>1 DEF vars, meta, disk, panel, shows, work, history, TypeOK, JobsOK
<1> QED
  BY <1>1, RequestType, WorkerType, CallbackType, RefreshType, TurnType DEF Next

\* Every variable of the panel, the projects and the workers keeps its type.
THEOREM TypeCorrect == Spec => []TypeOK
<1>1. Init => TypeOK /\ JobsOK
  BY InitType
<1>2. TypeOK /\ JobsOK /\ [Next]_vars => TypeOK' /\ JobsOK'
  BY StepType
<1> QED
  BY <1>1, <1>2, PTL DEF Spec


-----------------------------------------------------------------------------
(* The invariants *)

\* The jobs and callbacks of a project that is being created.
Making(c) == c.kind \in {"enumerate", "populate"}

\* One project is created at a time, and none once the new one is open.
OneMaking(js, q, c) ==
  /\ c = New => (\A j \in js : ~Making(j)) /\ (\A a \in 1..Len(q) : ~Making(q[a]))
  /\ \A j, k \in js : Making(j) /\ Making(k) => j = k
  /\ \A a, b \in 1..Len(q) : Making(q[a]) /\ Making(q[b]) => a = b
  /\ \A j \in js, a \in 1..Len(q) : ~(Making(j) /\ Making(q[a]))

MakingOK == OneMaking(jobs, queue, context)

\* The files of projects and rows exist; the file of the current view belongs
\* to a project that is open and watched.
FilesOK ==
  /\ \A f \in Files : owner[f] # None => f \in made
  /\ DOMAIN rows \subseteq made
  /\ view \in Files =>
       owner[view] # None /\ watched = owner[view] /\ (owner[view] = New => context = New)

\* A link that was cleared from its own view is in neither store.
ClearedOK ==
  \A f \in cleared :
    f \in made /\ (owner[f] # None => link[owner[f]][f] = None /\ bndb[f] = None)

\* The callbacks that do not start the timer.
Silent(c) == Making(c) \/ c.kind = "disconnect"

\* A refresh of the rows is due: the timer runs, a callback that starts it is
\* in the queue, or an import is about to post its own.
Due(js, q, t) ==
  \/ t
  \/ \E a \in 1..Len(q) : ~Silent(q[a])
  \/ \E j \in js : j.step = "post"

\* The rows a disconnect leaves.
Blank == emptied /\ rows = NoRows

RowsOK == view \in Files => rows = RowsOf(owner[view]) \/ Blank \/ Due(jobs, queue, timer)


-----------------------------------------------------------------------------
(* One project is created at a time *)

LEMMA MakingNotified ==
  ASSUME NEW js, NEW c, NEW q \in Seq(Callback), OneMaking(js, q, c)
  PROVE  OneMaking(js, Append(q, Changed), c)
<1> DEFINE r == Append(q, Changed)
<1>1. /\ Len(r) = Len(q) + 1 /\ Len(q) \in Nat /\ ~Making(r[Len(r)])
      /\ \A a \in 1..Len(q) : r[a] = q[a]
  BY DEF Making, Changed
<1> HIDE DEF r
<1>2. \A a \in 1..Len(r) : Making(r[a]) => a \in 1..Len(q) /\ Making(q[a])
  BY <1>1
<1> QED
  BY <1>2, Zenon DEF OneMaking, r

\* A job turns into another of its kind, goes into the queue, or ends.
LEMMA MakingMoves ==
  ASSUME NEW js, NEW c, NEW q \in Seq(Callback), OneMaking(js, q, c), NEW j \in js,
         NEW k \in Callback, k.kind = j.kind
  PROVE  /\ OneMaking((js \ {j}) \cup {k}, q, c)
         /\ OneMaking(js \ {j}, q, c)
         /\ OneMaking(js \ {j}, Append(q, k), c)
<1>0. Making(k) <=> Making(j)
  BY DEF Making
<1>1. OneMaking((js \ {j}) \cup {k}, q, c) /\ OneMaking(js \ {j}, q, c)
  BY <1>0 DEF OneMaking
<1> DEFINE r == Append(q, k)
<1>2. /\ Len(r) = Len(q) + 1 /\ Len(q) \in Nat /\ r[Len(r)] = k
      /\ \A a \in 1..Len(q) : r[a] = q[a]
  OBVIOUS
<1> HIDE DEF r
<1>3. \A a \in 1..Len(r) : \/ a \in 1..Len(q) /\ r[a] = q[a]
                           \/ a = Len(r) /\ r[a] = k
  BY <1>2
<1>4. OneMaking(js \ {j}, r, c)
  BY <1>0, <1>3 DEF OneMaking
<1> QED
  BY <1>1, <1>4 DEF r

LEMMA MakingStarts ==
  ASSUME NEW js, NEW c, NEW q \in Seq(Callback), OneMaking(js, q, c), NEW k,
         Making(k) => /\ c # New /\ \A j \in js : ~Making(j)
                      /\ \A a \in 1..Len(q) : ~Making(q[a])
  PROVE  OneMaking(js \cup {k}, q, c)
BY Zenon DEF OneMaking

\* The first callback leaves the queue.
LEMMA MakingRuns ==
  ASSUME NEW js, NEW c, NEW q \in Seq(Callback), OneMaking(js, q, c), q # <<>>
  PROVE  /\ OneMaking(js, Tail(q), c)
         /\ Making(Head(q)) => /\ c # New /\ \A j \in js : ~Making(j)
                               /\ \A a \in 1..Len(Tail(q)) : ~Making(Tail(q)[a])
<1> DEFINE r == Tail(q)
<1>1. /\ Len(q) \in Nat /\ Len(q) >= 1 /\ Len(r) = Len(q) - 1 /\ Head(q) = q[1]
      /\ \A a \in 1..Len(r) : r[a] = q[a + 1]
  OBVIOUS
<1> HIDE DEF r
<1>2. \A a \in 1..Len(r) : a + 1 \in 1..Len(q) /\ a + 1 # 1
  BY <1>1
<1>3. OneMaking(js, r, c)
  <2>1. \A a, b \in 1..Len(r) : Making(r[a]) /\ Making(r[b]) => a = b
    <3> TAKE a, b \in 1..Len(r)
    <3> QED
      BY <1>1, <1>2 DEF OneMaking
  <2> QED
    BY <1>1, <1>2, <2>1 DEF OneMaking
<1>4. ASSUME Making(Head(q))
      PROVE  c # New /\ (\A j \in js : ~Making(j)) /\ \A a \in 1..Len(r) : ~Making(r[a])
  <2>1. 1 \in 1..Len(q) /\ Making(q[1])
    BY <1>1, <1>4
  <2> QED
    BY <1>1, <1>2, <2>1 DEF OneMaking
<1> QED
  BY <1>3, <1>4 DEF r


LEMMA MakingAdvances ==
  ASSUME TypeOK, NEW j \in jobs, NEW i \in Link, NEW got \in [Files -> Link],
         NEW q \in Seq(Callback), OneMaking(jobs, q, context), Advance(j, i, got, q)
  PROVE  OneMaking(jobs', queue', context)
<1> DEFINE k == [j EXCEPT !.todo = @ \ {i}, !.item = None, !.step = "run", !.got = got]
<1>0. j \in Job
  BY DEF TypeOK
<1>1. k \in Callback /\ k.kind = j.kind
  <2>1. k \in Job
    BY <1>0, Zenon DEF Job, Link, ProjectFits
  <2>2. k.kind = j.kind
    BY <1>0 DEF Job
  <2> QED
    BY <2>1, <2>2 DEF Callback
<1>2. \/ jobs' = (jobs \ {j}) \cup {k} /\ queue' = q
      \/ jobs' = jobs \ {j} /\ queue' \in {q, Append(q, k)}
  BY DEF Advance, Replace
<1> HIDE DEF k
<1>3. /\ OneMaking((jobs \ {j}) \cup {k}, q, context)
      /\ OneMaking(jobs \ {j}, q, context)
      /\ OneMaking(jobs \ {j}, Append(q, k), context)
  BY <1>1, MakingMoves, Zenon
<1> QED
  BY <1>2, <1>3, Zenon

LEMMA MakingRequest ==
  ASSUME TypeOK, MakingOK, Request PROVE MakingOK'
<1>0. queue \in Seq(Callback)
  BY DEF TypeOK, Callback
<1>1. ASSUME NEW kind \in {"add", "bulk", "import", "upload", "delete", "disconnect"},
             NEW p, NEW v, NEW todo, NEW i, Enqueue(kind, p, v, todo, i),
             UNCHANGED <<queue, context>>
      PROVE  MakingOK'
  <2>1. ~Making(NewJob(kind, p, v, todo, i))
    BY DEF Making, NewJob
  <2> QED
    BY <1>0, <1>1, <2>1, MakingStarts, Zenon DEF MakingOK, Enqueue
<1>2. CASE CreateProjectFromNode
  <2>1. context # New /\ \A j \in jobs : ~Making(j)
    BY <1>2, Zenon DEF CreateProjectFromNode, Making
  <2>2. \A a \in 1..Len(queue) : ~Making(queue[a])
    BY <1>0, <1>2 DEF CreateProjectFromNode, Making, Queued
  <2> QED
    BY <1>0, <1>2, <2>1, <2>2, MakingStarts, Zenon DEF MakingOK, Enqueue, CreateProjectFromNode
<1> QED
  BY <1>1, <1>2, Zenon
  DEF Request, AddItemToProject, BulkAddItemsToProject, AddItems, ImportItem, DeleteItem,
      UploadToGhidra, OnDisconnectClicked

LEMMA MakingWorker ==
  ASSUME TypeOK, JobsOK, MakingOK, NEW j \in jobs, Worker(j) PROVE MakingOK'
<1>0. j \in Job /\ j \in Callback /\ j.got \in [Files -> Link] /\ queue \in Seq(Callback)
  BY DEF TypeOK, Job, Callback
<1>1. ASSUME NEW i \in Items, AddSkips(j, i) PROVE MakingOK'
  BY <1>0, <1>1, MakingAdvances, Zenon DEF MakingOK, AddSkips, Link
<1>2. ASSUME NEW i \in Items, AddWrites(j, i) PROVE MakingOK'
  <2> DEFINE k == [j EXCEPT !.step = "create", !.item = i]
  <2>1. k \in Callback /\ k.kind = j.kind
    BY <1>0, Zenon DEF Job, Link, Callback
  <2>2. jobs' = (jobs \ {j}) \cup {k} /\ UNCHANGED <<queue, context>>
    BY <1>2 DEF AddWrites, Replace
  <2> HIDE DEF k
  <2> QED
    BY <1>0, <2>1, <2>2, MakingMoves, Zenon DEF MakingOK
<1>3. ASSUME NEW f \in Files, AddCreates(j, f) PROVE MakingOK'
  <2>1. j.item \in Link /\ [j.got EXCEPT ![f] = j.item] \in [Files -> Link]
    BY <1>0 DEF Job
  <2>2. Notified(j.project) \in Seq(Callback) /\ OneMaking(jobs, Notified(j.project), context)
    <3>1. Changed \in Callback
      BY DEF Callback
    <3>2. Append(queue, Changed) \in Seq(Callback)
      BY <1>0, <3>1
    <3>3. OneMaking(jobs, queue, context)
      BY Zenon DEF MakingOK
    <3>4. OneMaking(jobs, Append(queue, Changed), context)
      BY <1>0, <3>3, MakingNotified
    <3>5. Notified(j.project) \in {queue, Append(queue, Changed)}
      BY DEF Notified
    <3> QED
      BY <1>0, <3>2, <3>3, <3>4, <3>5, Zenon
  <2> QED
    BY <1>3, <2>1, <2>2, MakingAdvances DEF MakingOK, AddCreates
<1>4. CASE AddCreateFails(j)
  <2>1. j.item \in Link
    BY <1>0 DEF Job
  <2> QED
    BY <1>0, <1>4, <2>1, MakingAdvances, Zenon DEF MakingOK, AddCreateFails
<1>5. CASE ImportStores(j)
  <2> DEFINE k == [j EXCEPT !.step = "post"]
  <2>1. k \in Callback /\ k.kind = j.kind
    BY <1>0 DEF Job, Callback
  <2>2. jobs' = (jobs \ {j}) \cup {k} /\ UNCHANGED <<queue, context>>
    BY <1>5 DEF ImportStores, Replace
  <2> HIDE DEF k
  <2> QED
    BY <1>0, <2>1, <2>2, MakingMoves, Zenon DEF MakingOK
<1>6. CASE WorkerFails(j) \/ WorkerPosts(j) \/ Enumerates(j)
  <2>1. OneMaking(jobs \ {j}, queue, context) /\ OneMaking(jobs \ {j}, Append(queue, j), context)
    BY <1>0, MakingMoves, Zenon DEF MakingOK
  <2>2. jobs' = jobs \ {j} /\ queue' \in {queue, Append(queue, j)} /\ context' = context
    BY <1>6, Zenon DEF WorkerFails, WorkerPosts, Enumerates
  <2> QED
    BY <2>1, <2>2, Zenon DEF MakingOK
<1> QED
  BY <1>1, <1>2, <1>3, <1>4, <1>5, <1>6, Zenon DEF Worker

LEMMA MakingCallback ==
  ASSUME TypeOK, MakingOK, RunCallback PROVE MakingOK'
<1> DEFINE c == Head(queue)
<1>0. queue \in Seq(Callback) /\ queue # <<>> /\ queue' = Tail(queue) /\ Tail(queue) \in Seq(Callback)
  BY DEF TypeOK, Callback, RunCallback
<1>1. /\ OneMaking(jobs, Tail(queue), context)
      /\ Making(c) => /\ context # New /\ \A j \in jobs : ~Making(j)
                      /\ \A a \in 1..Len(Tail(queue)) : ~Making(Tail(queue)[a])
  BY <1>0, MakingRuns, Zenon DEF MakingOK
<1> HIDE DEF c
<1>2. CASE LinkCallback(c)
  <2>1. UNCHANGED jobs /\ (context' = context \/ Making(c))
    BY <1>2 DEF LinkCallback, work, Making
  <2> QED
    BY <1>0, <1>1, <2>1 DEF MakingOK, OneMaking
<1>3. CASE EnumerateCallback(c)
  <2>1. Making(c) /\ UNCHANGED context
    BY <1>3 DEF EnumerateCallback, Making
  <2>2. jobs' = jobs \/ \E k : jobs' = jobs \cup {k}
    BY <1>3, Zenon DEF EnumerateCallback, work, PopulateProjectWithItems, Enqueue
  <2>3. ASSUME NEW k, jobs' = jobs \cup {k} PROVE MakingOK'
    <3>1. OneMaking(jobs \cup {k}, Tail(queue), context)
      BY <1>0, <1>1, <2>1, MakingStarts, Zenon
    <3> QED
      BY <1>0, <2>1, <2>3, <3>1 DEF MakingOK
  <2> QED
    BY <1>0, <1>1, <2>1, <2>2, <2>3, Zenon DEF MakingOK
<1>4. CASE UNCHANGED <<context, work>>
  BY <1>0, <1>1, <1>4 DEF MakingOK, work
<1> QED
  BY <1>2, <1>3, <1>4
  DEF RunCallback, c, ImportCallback, UploadCallback, DeleteCallback, ChangedCallback,
      DisconnectCallback

LEMMA MakingTurn ==
  ASSUME TypeOK, MakingOK, Turn PROVE MakingOK'
<1>0. queue \in Seq(Callback)
  BY DEF TypeOK, Callback
<1>1. UNCHANGED <<jobs, context>> /\ queue' \in {queue, Append(queue, Changed)}
  BY DEF Turn, NotifyViewChanged, ClearGhidraLink, UserDeletesFile, UserAddsFile, EventReceived,
         Notified, work
<1> QED
  BY <1>0, <1>1, MakingNotified, Zenon DEF MakingOK

LEMMA MakingStep == TypeOK /\ JobsOK /\ MakingOK /\ [Next]_vars => MakingOK'
<1> SUFFICES ASSUME TypeOK, JobsOK, MakingOK, [Next]_vars PROVE MakingOK'
  OBVIOUS
<1>1. CASE RefreshProjectFiles \/ UNCHANGED vars
  BY <1>1 DEF RefreshProjectFiles, vars, work, MakingOK
<1> QED
  BY <1>1, MakingRequest, MakingWorker, MakingCallback, MakingTurn DEF Next


-----------------------------------------------------------------------------
(* Files, rows and the current view *)

LEMMA FilesStep == TypeOK /\ JobsOK /\ FilesOK /\ [Next]_vars => FilesOK'
<1> SUFFICES ASSUME TypeOK, JobsOK, FilesOK, [Next]_vars PROVE FilesOK'
  OBVIOUS
<1> USE DEF TypeOK, FilesOK, disk, panel, shows
<1>1. CASE UNCHANGED <<disk, panel, shows, context>>
  BY <1>1
<1>2. ASSUME NEW j \in jobs, NEW f \in Files, AddCreates(j, f) PROVE FilesOK'
  BY <1>2, Zenon DEF AddCreates
<1>3. ASSUME NEW f \in Files, UserAddsFile(f) PROVE FilesOK'
  BY <1>3 DEF UserAddsFile
<1>4. ASSUME NEW f \in Files, UserDeletesFile(f) PROVE FilesOK'
  BY <1>4, Zenon DEF UserDeletesFile
<1>5. CASE RefreshProjectFiles
  BY <1>5, Zenon DEF RefreshProjectFiles, RowsOf, NoRows, FilesOf, ProjectForView
<1>6. ASSUME NEW v \in Views \cup {None}, NotifyViewChanged(v) PROVE FilesOK'
  <2>1. CASE v \in Files
    <3>1. v # None /\ owner[v] # None /\ (owner[v] = New => context = New)
      BY <1>6, <2>1, ConstantsAssumption, Zenon DEF NotifyViewChanged, Old, New, None
    <3>2. watched' = owner[v]
      BY <1>6, <2>1, <3>1, Zenon DEF NotifyViewChanged, WatchProject, ProjectForView
    <3> QED
      BY <1>6, <2>1, <3>1, <3>2, Zenon DEF NotifyViewChanged
  <2>2. CASE v \notin Files
    BY <1>6, <2>2, Zenon DEF NotifyViewChanged
  <2> QED
    BY <2>1, <2>2, Zenon
<1>7. CASE RunCallback
  <2>1. context' = context \/ context' = New
    BY <1>7, Zenon DEF RunCallback, LinkCallback, EnumerateCallback, ImportCallback, UploadCallback,
                DeleteCallback, ChangedCallback, DisconnectCallback
  <2>2. UNCHANGED <<disk, panel>> /\ (UNCHANGED shows \/ rows' = NoRows)
    BY <1>7, Zenon DEF RunCallback, LinkCallback, EnumerateCallback, ImportCallback, UploadCallback,
                DeleteCallback, ChangedCallback, DisconnectCallback
  <2>3. DOMAIN rows' \subseteq made
    BY <2>2 DEF NoRows
  <2> QED
    BY <2>1, <2>2, <2>3
<1>8. CASE Request
  BY <1>1, <1>8, Zenon DEF Request, AddItemToProject, BulkAddItemsToProject, AddItems, ImportItem,
                    DeleteItem, UploadToGhidra, CreateProjectFromNode, OnDisconnectClicked
<1>9. ASSUME NEW j \in jobs, Worker(j) PROVE FilesOK'
  BY <1>1, <1>2, <1>9, Zenon DEF Worker, Enumerates, AddSkips, AddWrites, AddCreateFails, WorkerFails,
                          ImportStores, WorkerPosts
<1>10. CASE Turn
  BY <1>1, <1>3, <1>4, <1>6, <1>10, Zenon DEF Turn, ClearGhidraLink, EventReceived
<1>11. CASE UNCHANGED vars
  BY <1>1, <1>11, Zenon DEF vars
<1> QED
  BY <1>5, <1>7, <1>8, <1>9, <1>10, <1>11, Zenon DEF Next

\* The steps that change a link, or what a cleared link depends on.
LEMMA LinkSteps ==
  ASSUME [Next]_vars
  PROVE  \/ \E j \in jobs : ImportStores(j) \/ \E f \in Files : AddCreates(j, f)
         \/ RunCallback /\ (LinkCallback(Head(queue)) \/ UploadCallback(Head(queue))
                            \/ DeleteCallback(Head(queue)))
         \/ \E v \in Views \cup {None} : NotifyViewChanged(v)
         \/ \E f \in Files : ClearGhidraLink(f) \/ UserDeletesFile(f) \/ UserAddsFile(f)
         \/ UNCHANGED <<meta, disk, cleared>>
<1>1. CASE Request
  BY <1>1, Zenon DEF Request, AddItemToProject, BulkAddItemsToProject, AddItems, ImportItem,
              DeleteItem, UploadToGhidra, CreateProjectFromNode, OnDisconnectClicked, history
<1>2. ASSUME NEW j \in jobs, Worker(j)
      PROVE  \/ ImportStores(j) \/ \E f \in Files : AddCreates(j, f)
             \/ UNCHANGED <<meta, disk, cleared>>
  BY <1>2, Zenon DEF Worker, Enumerates, AddSkips, AddWrites, AddCreateFails, WorkerFails,
              WorkerPosts, history
<1>3. CASE RunCallback
  BY <1>3 DEF RunCallback, EnumerateCallback, ImportCallback, ChangedCallback, DisconnectCallback
<1>4. CASE Turn
  BY <1>4 DEF Turn, EventReceived, history
<1>5. CASE RefreshProjectFiles \/ UNCHANGED vars
  BY <1>5, Zenon DEF RefreshProjectFiles, vars, history
<1> QED
  BY <1>1, <1>2, <1>3, <1>4, <1>5 DEF Next


\* What a view that is opened can do to the links: promote that of its own
\* database, and store the server with it.
LEMMA ReadLinkCases ==
  ASSUME TypeOK, NEW v \in Views, ReadLink(v)
  PROVE  \/ UNCHANGED <<server, link>>
         \/ /\ v \in Files /\ owner[v] \in Projects /\ bndb[v] # None
            /\ link[owner[v]][v] = None /\ server' = server \cup {owner[v]}
            /\ link' = [link EXCEPT ![owner[v]][v] = bndb[v]]
BY Zenon DEF TypeOK, ReadLink, MigrateStandaloneMetadata, StoreServer, ProjectForView

LEMMA CallbackIsJob ==
  ASSUME TypeOK, RunCallback, Head(queue).kind # "changed"
  PROVE  Head(queue) \in Job
<1>1. Head(queue) \in Job \cup {Changed}
  BY DEF TypeOK, RunCallback
<1> QED
  BY <1>1 DEF Changed

LEMMA ServerStep == TypeOK /\ JobsOK /\ LinkHasServer /\ [Next]_vars => LinkHasServer'
<1> SUFFICES ASSUME TypeOK, JobsOK, LinkHasServer, [Next]_vars,
                    NEW p \in Projects, NEW f \in Files, link'[p][f] # None
             PROVE  p \in server'
  BY DEF LinkHasServer
<1> DEFINE c == Head(queue)
<1> USE DEF TypeOK, LinkHasServer
<1>1. CASE UNCHANGED <<link, server>>
  BY <1>1
<1>2. ASSUME NEW q \in Projects \cup {None}, NEW g, NEW i, q # None, StoreLink(q, g, i)
      PROVE  p \in server'
  BY <1>2 DEF StoreLink, StoreServer
<1>3. ASSUME NEW j \in jobs, ImportStores(j) PROVE p \in server'
  <2>1. ProjectForView(j.file) \in Projects \cup {None}
    BY Zenon DEF ProjectForView
  <2> QED
    BY <1>1, <1>2, <1>3, <2>1, Zenon DEF ImportStores
<1>4. CASE RunCallback /\ LinkCallback(c)
  <2>1. c \in Job
    BY <1>4, CallbackIsJob, Zenon DEF LinkCallback, Adds
  <2>2. c.project \in Projects /\ c.got \in [Files -> Link] /\ c.kind \in Adds
    BY <1>4, <2>1, Zenon DEF Job, ProjectFits, LinkCallback
  <2> HIDE DEF c
  <2>3. CASE c.got = NoFiles
    <3>1. Gotten(c) = {}
      BY <2>3 DEF Gotten, NoFiles
    <3>2. link'[p][f] = link[p][f] /\ UNCHANGED server
      BY <1>4, <2>2, <2>3, <3>1, Zenon DEF LinkCallback
    <3> QED
      BY <3>2, Zenon
  <2>4. CASE c.got # NoFiles
    BY <1>4, <2>2, <2>4, Zenon DEF LinkCallback, StoreServer
  <2> QED
    BY <2>3, <2>4
<1>5. CASE RunCallback /\ UploadCallback(c)
  <2>1. c \in Job
    BY <1>5, CallbackIsJob DEF UploadCallback
  <2>2. c.project \in Projects \cup {None}
    BY <2>1, Zenon DEF Job
  <2> HIDE DEF c
  <2> QED
    BY <1>1, <1>2, <1>5, <2>2, Zenon DEF UploadCallback
<1>6. CASE RunCallback /\ DeleteCallback(c)
  BY <1>6 DEF DeleteCallback
<1>7. ASSUME NEW v \in Views \cup {None}, NotifyViewChanged(v) PROVE p \in server'
  <2>1. CASE v = None
    BY <1>1, <1>7, <2>1 DEF NotifyViewChanged
  <2>2. CASE v # None
    <3>1. v \in Views /\ ReadLink(v)
      BY <1>7, <2>2, Zenon DEF NotifyViewChanged
    <3> QED
      BY <1>1, <3>1, ReadLinkCases, Zenon
  <2> QED
    BY <2>1, <2>2, Zenon
<1>8. ASSUME NEW g \in Files, ClearGhidraLink(g) PROVE p \in server'
  <2>1. link'[p][f] # None => link[p][f] # None
    BY <1>8 DEF ClearGhidraLink
  <2> QED
    BY <1>8, <2>1, Zenon DEF ClearGhidraLink
<1>9. CASE \/ \E j \in jobs, g \in Files : AddCreates(j, g)
           \/ \E g \in Files : UserDeletesFile(g) \/ UserAddsFile(g)
           \/ UNCHANGED <<meta, disk, cleared>>
  BY <1>1, <1>9, Zenon DEF AddCreates, UserDeletesFile, UserAddsFile, meta
<1> HIDE DEF c, TypeOK, LinkHasServer
<1> QED
  BY <1>3, <1>4, <1>5, <1>6, <1>7, <1>8, <1>9, LinkSteps DEF c

\* notifyViewChanged() takes a link from the project only if the project has
\* a server too: whoever stores a link (adds, imports, uploads, the promotion
\* from the database) stores the server in the same step.
THEOREM LinksCanBeUsed == Spec => []LinkHasServer
<1>1. Init => LinkHasServer
  BY DEF Init, LinkHasServer
<1>2. TypeOK /\ JobsOK /\ LinkHasServer /\ [Next]_vars => LinkHasServer'
  BY ServerStep
<1> QED
  BY <1>1, <1>2, InitType, StepType, PTL DEF Spec


-----------------------------------------------------------------------------
(* A cleared link stays cleared *)

LEMMA ClearedStep ==
  TypeOK /\ JobsOK /\ FilesOK /\ ClearedOK /\ [Next]_vars => ClearedOK'
<1> SUFFICES ASSUME TypeOK, JobsOK, FilesOK, ClearedOK, [Next]_vars, NEW f \in cleared'
             PROVE  /\ f \in made'
                    /\ owner'[f] # None => link'[owner'[f]][f] = None /\ bndb'[f] = None
  BY Zenon DEF ClearedOK
<1> DEFINE c == Head(queue)
<1> USE DEF TypeOK, ClearedOK, disk, meta
<1> DEFINE Goal == /\ f \in made'
                   /\ owner'[f] # None => link'[owner'[f]][f] = None /\ bndb'[f] = None
<1> SUFFICES Goal
  OBVIOUS
<1>1. ASSUME f \in cleared, UNCHANGED disk,
             owner[f] # None => \/ link'[owner[f]][f] = link[owner[f]][f]
                                \/ link'[owner[f]][f] = None,
             owner[f] # None => bndb'[f] = bndb[f] \/ bndb'[f] = None
      PROVE  Goal
  BY <1>1, Zenon
<1>2. ASSUME NEW q \in Projects, NEW g, NEW i, StoreLink(q, g, i)
      PROVE  f \in cleared /\ f # g /\ \A p \in Projects : link'[p][f] = link[p][f]
  BY <1>2 DEF StoreLink
<1>3. ASSUME NEW j \in jobs, ImportStores(j) PROVE Goal
  <2> DEFINE q == ProjectForView(j.file)
  <2>1. q \in Projects \cup {None}
    BY Zenon DEF ProjectForView
  <2>2. CASE q # None
    <3>1. f \in cleared /\ f # j.file /\ \A p \in Projects : link'[p][f] = link[p][f]
      BY <1>2, <1>3, <2>1, <2>2 DEF ImportStores
    <3>2. bndb'[f] = bndb[f] /\ UNCHANGED disk
      BY <1>3, <3>1 DEF ImportStores
    <3> QED
      BY <1>1, <3>1, <3>2, Zenon
  <2>3. CASE q = None
    <3>1. f \in cleared /\ UNCHANGED <<link, disk>>
      BY <1>3, <2>3, Zenon DEF ImportStores
    <3>2. owner[f] # None => f # j.file
      BY <2>3, <3>1 DEF ProjectForView
    <3>3. owner[f] # None => bndb'[f] = bndb[f]
      BY <1>3, <3>2 DEF ImportStores
    <3> QED
      BY <1>1, <3>1, <3>3, Zenon
  <2> QED
    BY <2>2, <2>3, Zenon
<1>4. CASE RunCallback /\ LinkCallback(c)
  <2>1. c \in Job
    BY <1>4, CallbackIsJob, Zenon DEF LinkCallback, Adds
  <2>2. c.project \in Projects
    BY <1>4, <2>1, Zenon DEF Job, ProjectFits, LinkCallback
  <2> HIDE DEF c
  <2>3. f \in cleared /\ f \notin Gotten(c) /\ UNCHANGED <<disk, bndb>>
    BY <1>4, Zenon DEF LinkCallback, RunCallback
  <2>4. \A p \in Projects : link'[p][f] = link[p][f]
    BY <1>4, <2>2, <2>3, Zenon DEF LinkCallback
  <2> QED
    BY <1>1, <2>3, <2>4, Zenon
<1>5. CASE RunCallback /\ UploadCallback(c)
  <2>1. c \in Job
    BY <1>5, CallbackIsJob, Zenon DEF UploadCallback
  <2>2. c.project \in Projects \cup {None}
    BY <2>1, Zenon DEF Job
  <2> HIDE DEF c
  <2>3. UNCHANGED <<disk, bndb>>
    BY <1>5, Zenon DEF UploadCallback, RunCallback
  <2>4. CASE c.project # None
    <3>1. f \in cleared /\ \A p \in Projects : link'[p][f] = link[p][f]
      BY <1>2, <1>5, <2>2, <2>4, Zenon DEF UploadCallback
    <3> QED
      BY <1>1, <2>3, <3>1, Zenon
  <2>5. CASE c.project = None
    BY <1>1, <1>5, <2>3, <2>5 DEF UploadCallback
  <2> QED
    BY <2>4, <2>5, Zenon
<1>6. CASE RunCallback /\ DeleteCallback(c)
  <2> DEFINE p == CurrentOpenProject
             hit == IF p = None THEN {} ELSE Touched(p, c.item)
  <2>1. UNCHANGED disk /\ hit \subseteq Files
    BY <1>6, Zenon DEF RunCallback, Touched, FilesOf
  <2>2. /\ link' = [q \in Projects |->
                     IF q = p THEN [g \in Files |-> IF g \in hit THEN None ELSE link[q][g]]
                              ELSE link[q]]
        /\ bndb' = IF hit # {} /\ view # None THEN [bndb EXCEPT ![view] = None] ELSE bndb
        /\ cleared' = cleared \cup (hit \cap {view})
    BY <1>6, Zenon DEF DeleteCallback
  <2>5. hit # {} => p # None
    BY Zenon
  <2>6. f \in hit => p # None /\ f \in FilesOf(p)
    BY Zenon DEF Touched
  <2> HIDE DEF p, hit
  <2>7. f \in Files
    BY <2>1, <2>2, Zenon
  <2>8. /\ \A q \in Projects : link'[q][f] \in {link[q][f], None}
        /\ bndb'[f] \in {bndb[f], None}
    BY <2>2, <2>7, Zenon DEF Views
  <2>3. CASE f \in cleared
    BY <1>1, <2>1, <2>3, <2>8, Zenon
  <2>4. CASE f \notin cleared
    <3>1. f = view /\ f \in hit
      BY <2>2, <2>4, Zenon
    <3>2. owner[f] = p /\ f \in made /\ p \in Projects
      BY <2>6, <3>1, Zenon DEF FilesOf, FilesOK
    <3>3. link'[p][f] = None
      BY <2>2, <2>7, <3>1, <3>2, Zenon
    <3>4. view # None
      BY <2>7, <3>1, ConstantsAssumption, Zenon
    <3>5. bndb'[f] = None
      BY <2>2, <2>7, <3>1, <3>4 DEF Views
    <3> QED
      BY <2>1, <3>2, <3>3, <3>5, Zenon
  <2> QED
    BY <2>3, <2>4, Zenon
<1>7. ASSUME NEW v \in Views \cup {None}, NotifyViewChanged(v) PROVE Goal
  <2>1. f \in cleared /\ UNCHANGED <<disk, bndb>>
    BY <1>7, Zenon DEF NotifyViewChanged, history
  <2>2. CASE UNCHANGED link
    BY <1>1, <2>1, <2>2, Zenon
  <2>3. CASE v # None
    <3>1. v \in Views /\ ReadLink(v)
      BY <1>7, <2>3, Zenon DEF NotifyViewChanged
    <3>2. CASE /\ v \in Files /\ owner[v] \in Projects /\ bndb[v] # None
               /\ link' = [link EXCEPT ![owner[v]][v] = bndb[v]]
      <4>1. owner[f] # None => f # v
        BY <2>1, <3>2, Zenon
      <4>2. owner[f] # None => link'[owner[f]][f] = link[owner[f]][f]
        BY <2>1, <3>2, <4>1, Zenon
      <4> QED
        BY <1>1, <2>1, <4>2, Zenon
    <3> QED
      BY <2>2, <3>1, <3>2, ReadLinkCases, Zenon
  <2> QED
    BY <1>7, <2>2, <2>3, Zenon DEF NotifyViewChanged
<1>8. ASSUME NEW g \in Files, ClearGhidraLink(g) PROVE Goal
  <2>1. UNCHANGED disk
    BY <1>8, Zenon DEF ClearGhidraLink
  <2>2. /\ \A q \in Projects : link'[q][f] \in {link[q][f], None}
        /\ \A v \in Views : bndb'[v] \in {bndb[v], None}
    BY <1>8, Zenon DEF ClearGhidraLink, ClearDatabase
  <2>3. CASE f \in cleared
    BY <1>1, <2>1, <2>2, <2>3, Zenon DEF Views
  <2>4. CASE f \notin cleared
    <3>1. f = view /\ f = g /\ f \in made
      BY <1>8, <2>4, Zenon DEF ClearGhidraLink, FilesOK
    <3>2. owner[f] # None /\ CurrentOpenProject = owner[f]
      BY <3>1 DEF FilesOK, CurrentOpenProject, ProjectForView
    <3>3. link'[owner[f]][f] = None
      BY <1>8, <3>1, <3>2, Zenon DEF ClearGhidraLink
    <3>4. bndb'[f] = None
      BY <1>8, <3>1, Zenon DEF ClearGhidraLink, ClearDatabase, Views
    <3> QED
      BY <2>1, <3>1, <3>3, <3>4, Zenon
  <2> QED
    BY <2>3, <2>4, Zenon
<1>9. ASSUME NEW g \in Files, UNCHANGED <<meta, cleared>>, g \notin made, made' = made \cup {g},
             NEW q, owner' = [owner EXCEPT ![g] = q]
      PROVE  Goal
  BY <1>9, Zenon
<1>10. ASSUME NEW g \in Files, UserDeletesFile(g) PROVE Goal
  BY <1>10, Zenon DEF UserDeletesFile, history
<1>11. CASE UNCHANGED <<meta, disk, cleared>>
  BY <1>11, Zenon
<1>12. ASSUME NEW j \in jobs, NEW g \in Files, AddCreates(j, g) PROVE Goal
  BY <1>9, <1>12, Zenon DEF AddCreates, history
<1>13. ASSUME NEW g \in Files, UserAddsFile(g) PROVE Goal
  BY <1>9, <1>13, Zenon DEF UserAddsFile, history
<1> HIDE DEF c, Goal, TypeOK, ClearedOK, disk, meta
<1>14. CASE \E j \in jobs : ImportStores(j) \/ \E g \in Files : AddCreates(j, g)
  BY <1>3, <1>12, <1>14
<1>15. CASE \E v \in Views \cup {None} : NotifyViewChanged(v)
  BY <1>7, <1>15
<1>16. CASE \E g \in Files : ClearGhidraLink(g) \/ UserDeletesFile(g) \/ UserAddsFile(g)
  BY <1>8, <1>10, <1>13, <1>16
<1> QED
  BY <1>4, <1>5, <1>6, <1>11, <1>14, <1>15, <1>16, LinkSteps DEF c

\* "Clear Ghidra Link..." on the file of the current view clears both stores
\* "so notifyViewChanged stops auto-retrying": whatever views are opened later,
\* the link does not come back until an import, an upload or an add stores one.
THEOREM ClearedForGood == Spec => []ClearedStaysCleared
<1>1. Init => FilesOK /\ ClearedOK
  BY ConstantsAssumption, Zenon DEF Init, FilesOK, ClearedOK, NoRows
<1>2. FilesOK /\ TypeOK /\ JobsOK /\ [Next]_vars => FilesOK'
  BY FilesStep
<1>3. TypeOK /\ JobsOK /\ FilesOK /\ ClearedOK /\ [Next]_vars => ClearedOK'
  BY ClearedStep
<1>4. ClearedOK => ClearedStaysCleared
  BY DEF ClearedOK, ClearedStaysCleared
<1> QED
  BY <1>1, <1>2, <1>3, <1>4, InitType, StepType, PTL DEF Spec


-----------------------------------------------------------------------------
(* The panel is in sync *)

LEMMA DueAppended ==
  ASSUME NEW js, NEW t \in BOOLEAN, NEW q \in Seq(Callback), NEW k \in Callback,
         Due(js, q, t) \/ ~Silent(k)
  PROVE  Due(js, Append(q, k), t)
<1> DEFINE r == Append(q, k)
<1>1. /\ Len(r) = Len(q) + 1 /\ Len(q) \in Nat /\ r[Len(r)] = k
      /\ \A a \in 1..Len(q) : a \in 1..Len(r) /\ r[a] = q[a]
      /\ Len(r) \in 1..Len(r)
  OBVIOUS
<1> HIDE DEF r
<1>2. Due(js, r, t)
  BY <1>1 DEF Due
<1> QED
  BY <1>2 DEF r

LEMMA DueNotified ==
  ASSUME NEW p, queue \in Seq(Callback), timer \in BOOLEAN
  PROVE  Notified(p) \in Seq(Callback) /\ (Due(jobs, queue, timer) => Due(jobs, Notified(p), timer))
<1>1. CASE watched = p
  <2>1. Notified(p) = Append(queue, Changed) /\ Changed \in Callback
    BY <1>1 DEF Notified, Callback
  <2>2. Append(queue, Changed) \in Seq(Callback)
    BY <2>1
  <2>3. ASSUME Due(jobs, queue, timer) PROVE Due(jobs, Append(queue, Changed), timer)
    BY <2>1, <2>3, DueAppended
  <2> QED
    BY <2>1, <2>2, <2>3
<1>2. CASE watched # p
  BY <1>2 DEF Notified
<1> QED
  BY <1>1, <1>2

\* After a callback that does not start the timer, what was due still is.
LEMMA DueTail ==
  ASSUME NEW js, NEW t \in BOOLEAN, NEW q \in Seq(Callback), q # <<>>, Silent(Head(q)),
         Due(js, q, t)
  PROVE  Due(js, Tail(q), t)
<1> DEFINE r == Tail(q)
<1>1. /\ Len(q) \in Nat /\ Len(r) = Len(q) - 1 /\ Head(q) = q[1]
      /\ \A a \in 1..Len(r) : r[a] = q[a + 1]
  OBVIOUS
<1> HIDE DEF r
<1>2. ASSUME NEW a \in 1..Len(q), ~Silent(q[a]) PROVE Due(js, r, t)
  <2>1. a # 1
    BY <1>1, <1>2
  <2>2. a - 1 \in 1..Len(r)
    BY <1>1, <2>1
  <2>3. r[a - 1] = q[a]
    BY <1>1, <2>2
  <2> QED
    BY <1>2, <2>2, <2>3 DEF Due
<1>3. Due(js, r, t)
  BY <1>2 DEF Due
<1> QED
  BY <1>3 DEF r

LEMMA DueAdvances ==
  ASSUME TypeOK, NEW j \in jobs, j.step # "post", NEW i \in Link, NEW got \in [Files -> Link],
         NEW q \in Seq(Callback), Advance(j, i, got, q), Due(jobs, q, timer)
  PROVE  Due(jobs', queue', timer)
<1> DEFINE k == [j EXCEPT !.todo = @ \ {i}, !.item = None, !.step = "run", !.got = got]
<1>1. k \in Callback
  BY ZenonT(30) DEF TypeOK, Job, Link, Callback
<1>2. jobs \ {j} \subseteq jobs' /\ queue' \in {q, Append(q, k)}
  BY DEF Advance, Replace
<1> HIDE DEF k
<1>3. Due(jobs', q, timer) /\ timer \in BOOLEAN
  BY <1>2 DEF Due, TypeOK
<1> QED
  BY <1>1, <1>2, <1>3, DueAppended, Zenon

\* A file other than that of the current view joins or leaves a project.  If
\* it is the one shown, the watcher's notification is in the queue.
LEMMA RowsOfChangedFile ==
  ASSUME TypeOK, FilesOK, RowsOK, view \in Files, NEW f \in Files, f # view,
         NEW o \in Projects \cup {None}, owner' = [owner EXCEPT ![f] = o],
         UNCHANGED <<meta, panel, timer, shows>>
  PROVE  /\ owner'[view] = owner[view]
         /\ \/ rows' = RowsOf(owner[view])' \/ Blank'
            \/ Due(jobs, queue, timer)
            \/ owner[f] = watched
            \/ o = watched
<1>1. owner'[view] = owner[view] /\ view' = view /\ watched = owner[view] /\ owner[view] # None
  BY DEF TypeOK, FilesOK, panel, shows
<1>2. CASE owner[f] # owner[view] /\ o # owner[view]
  <2>1. FilesOf(owner[view])' = FilesOf(owner[view])
    BY <1>1, <1>2, Zenon DEF FilesOf, TypeOK
  <2>2. RowsOf(owner[view])' = RowsOf(owner[view])
    BY <1>1, <2>1 DEF RowsOf, meta
  <2> QED
    BY <1>1, <2>2 DEF RowsOK, Blank, shows
<1> QED
  BY <1>1, <1>2


\* Nothing that the rows show changes, and what was due still is.
LEMMA RowsKept ==
  ASSUME RowsOK, UNCHANGED <<link, owner, view, shows>>,
         Due(jobs, queue, timer) => Due(jobs', queue', timer')
  PROVE  RowsOK'
BY Zenon DEF RowsOK, Blank, RowsOf, FilesOf, shows

LEMMA RowsRequest ==
  ASSUME TypeOK, RowsOK, Request PROVE RowsOK'
<1>1. jobs \subseteq jobs' /\ UNCHANGED <<link, owner, view, shows, queue, timer>>
  BY Zenon DEF Request, AddItemToProject, BulkAddItemsToProject, AddItems, ImportItem, DeleteItem,
         UploadToGhidra, CreateProjectFromNode, OnDisconnectClicked, Enqueue, meta, disk, panel, shows
<1> QED
  BY <1>1, RowsKept DEF Due

LEMMA RowsWorker ==
  ASSUME TypeOK, JobsOK, FilesOK, RowsOK, NEW j \in jobs, Worker(j) PROVE RowsOK'
<1>0. /\ j \in Job /\ j \in Callback /\ j.got \in [Files -> Link] /\ j.item \in Link
      /\ queue \in Seq(Callback) /\ timer \in BOOLEAN
  BY DEF TypeOK, Job, Callback
<1>1. j.step = "post" => j.kind = "import"
  BY DEF JobsOK
<1>2. CASE Enumerates(j)
  <2>1. j.step # "post"
    BY <1>1, <1>2 DEF Enumerates
  <2>2. Due(jobs, queue, timer) => Due(jobs', queue, timer)
    BY <1>2, <2>1 DEF Due, Enumerates
  <2> QED
    BY <1>0, <1>2, <2>2, DueAppended, RowsKept, Zenon DEF Enumerates, meta, disk, panel, shows
<1>3. ASSUME NEW i \in Items, AddSkips(j, i) PROVE RowsOK'
  <2>1. Due(jobs, queue, timer) => Due(jobs', queue', timer)
    BY <1>0, <1>3, DueAdvances, Zenon DEF AddSkips, Link
  <2> QED
    BY <1>3, <2>1, RowsKept, Zenon DEF AddSkips, meta, disk, panel, shows
<1>4. ASSUME NEW i \in Items, AddWrites(j, i) PROVE RowsOK'
  <2>1. jobs \ {j} \subseteq jobs' /\ j.step # "post" /\ UNCHANGED <<queue, timer>>
    BY <1>4 DEF AddWrites, Replace
  <2> QED
    BY <1>4, <2>1, RowsKept DEF AddWrites, meta, disk, panel, shows, Due
<1>5. CASE AddCreateFails(j)
  <2>1. Due(jobs, queue, timer) => Due(jobs', queue', timer)
    BY <1>0, <1>5, DueAdvances, Zenon DEF AddCreateFails
  <2> QED
    BY <1>5, <2>1, RowsKept DEF AddCreateFails, meta, disk, panel, shows
<1>6. CASE WorkerFails(j)
  BY <1>6, RowsKept DEF WorkerFails, meta, disk, panel, shows, Due
<1>7. CASE ImportStores(j)
  <2>1. [j EXCEPT !.step = "post"] \in jobs' /\ [j EXCEPT !.step = "post"].step = "post"
    BY <1>0, <1>7 DEF ImportStores, Replace, Job
  <2> QED
    BY <2>1, Zenon DEF RowsOK, Due
<1>8. CASE WorkerPosts(j)
  <2>1. queue' = Append(queue, j) /\ timer' = timer /\ jobs' = jobs \ {j}
    BY <1>8 DEF WorkerPosts
  <2>2. CASE j.kind = "disconnect"
    <3>1. Due(jobs, queue, timer) => Due(jobs', queue, timer)
      BY <1>1, <2>1, <2>2 DEF Due
    <3>2. Due(jobs, queue, timer) => Due(jobs', queue', timer')
      BY <1>0, <2>1, <3>1, DueAppended, Zenon
    <3> QED
      BY <1>8, <3>2, RowsKept, Zenon DEF WorkerPosts, meta, disk, panel
  <2>3. CASE j.kind # "disconnect"
    <3>1. ~Silent(j)
      BY <1>8, <2>3 DEF WorkerPosts, Silent, Making
    <3>2. Due(jobs', queue', timer')
      BY <1>0, <2>1, <3>1, DueAppended, Zenon
    <3> QED
      BY <3>2 DEF RowsOK
  <2> QED
    BY <2>2, <2>3
<1>9. ASSUME NEW f \in Files, AddCreates(j, f) PROVE RowsOK'
  <2> SUFFICES ASSUME view \in Files PROVE RowsOK'
    BY <1>9, Zenon DEF AddCreates, panel, shows, RowsOK
  <2> DEFINE q == Notified(j.project)
  <2>1. j.step # "post" /\ [j.got EXCEPT ![f] = j.item] \in [Files -> Link]
    BY <1>0, <1>9, Zenon DEF AddCreates
  <2>2. q \in Seq(Callback) /\ (Due(jobs, queue, timer) => Due(jobs, q, timer))
    BY <1>0, DueNotified, Zenon
  <2>3. Due(jobs, q, timer) => Due(jobs', queue', timer')
    BY <1>0, <1>9, <2>1, <2>2, DueAdvances, Zenon DEF AddCreates
  <2>4. f # view /\ owner[f] = None /\ watched # None /\ j.project \in Projects \cup {None}
    BY <1>0, <1>9, Zenon DEF AddCreates, FilesOK, TypeOK, Job
  <2>5. CASE j.project = watched
    <3>1. q = Append(queue, Changed) /\ ~Silent(Changed) /\ Changed \in Callback
      BY <2>5 DEF Notified, Silent, Making, Changed, Callback
    <3>2. Due(jobs', queue', timer')
      BY <1>0, <2>3, <3>1, DueAppended, Zenon
    <3> QED
      BY <3>2 DEF RowsOK
  <2>6. CASE j.project # watched
    <3>1. rows' = RowsOf(owner[view])' \/ Blank' \/ Due(jobs, queue, timer)
      BY <1>9, <2>4, <2>6, RowsOfChangedFile, Zenon DEF AddCreates
    <3> QED
      BY <2>2, <2>3, <3>1 DEF RowsOK
  <2> QED
    BY <2>5, <2>6
<1> QED
  BY <1>2, <1>3, <1>4, <1>5, <1>6, <1>7, <1>8, <1>9, Zenon DEF Worker


LEMMA RowsCallback ==
  ASSUME TypeOK, MakingOK, FilesOK, RowsOK, RunCallback PROVE RowsOK'
<1> DEFINE c == Head(queue)
<1>0. /\ queue \in Seq(Callback) /\ queue # <<>> /\ queue' = Tail(queue) /\ timer \in BOOLEAN
      /\ UNCHANGED owner
  BY Zenon DEF TypeOK, Callback, RunCallback, disk
<1>1. CASE timer' = TRUE
  BY <1>1 DEF RowsOK, Due
<1>2. ASSUME Silent(c), jobs \subseteq jobs', UNCHANGED timer
      PROVE  Due(jobs, queue, timer) => Due(jobs', queue', timer')
  <2>1. Due(jobs, queue, timer) => Due(jobs, Tail(queue), timer)
    BY <1>0, <1>2, DueTail
  <2> QED
    BY <1>0, <1>2, <2>1 DEF Due
<1>3. CASE LinkCallback(c) /\ c.kind = "populate" /\ UNCHANGED shows
  <2>1. Making(c) /\ Silent(c) /\ jobs' = jobs /\ UNCHANGED <<timer, view>>
    BY <1>3, Zenon DEF LinkCallback, Silent, Making, work, panel
  <2>2. context # New
    BY <1>0, <2>1, MakingRuns, Zenon DEF MakingOK
  <2>3. c \in Job
    BY <1>3, CallbackIsJob
  <2>4. c.project = New
    BY <1>3, <2>3 DEF Job, ProjectFits
  <2> HIDE DEF c
  <2>5. view \in Files => link'[owner[view]] = link[owner[view]]
    BY <1>3, <2>2, <2>4, Zenon DEF LinkCallback, FilesOK, TypeOK
  <2>6. view \in Files => RowsOf(owner[view])' = RowsOf(owner[view])
    BY <1>0, <2>1, <2>5, Zenon DEF RowsOf, FilesOf
  <2> QED
    BY <1>0, <1>2, <1>3, <2>1, <2>6, Zenon DEF RowsOK, Blank, shows
<1>4. CASE EnumerateCallback(c) /\ UNCHANGED shows
  <2>1. Silent(c) /\ jobs \subseteq jobs' /\ UNCHANGED <<timer, view, link>>
    BY <1>4, Zenon DEF EnumerateCallback, PopulateProjectWithItems, Enqueue, Silent, Making, work, panel, meta
  <2> QED
    BY <1>0, <1>2, <1>4, <2>1, RowsKept
<1>5. CASE LinkCallback(c) /\ c.kind # "populate"
  BY <1>1, <1>5 DEF LinkCallback, ScheduleRefreshProjectFiles
<1>6. CASE ImportCallback(c) \/ UploadCallback(c) \/ DeleteCallback(c) \/ ChangedCallback(c)
  BY <1>1, <1>6, Zenon DEF ImportCallback, UploadCallback, DeleteCallback, ChangedCallback,
                    ScheduleRefreshProjectFiles
<1>7. CASE DisconnectCallback(c)
  <2>1. Blank'
    BY <1>7 DEF DisconnectCallback, Blank
  <2> QED
    BY <2>1 DEF RowsOK
<1> QED
  BY <1>3, <1>4, <1>5, <1>6, <1>7 DEF RunCallback

LEMMA RowsTurn ==
  ASSUME TypeOK, FilesOK, RowsOK, Turn PROVE RowsOK'
<1>0. queue \in Seq(Callback) /\ timer \in BOOLEAN /\ Changed \in Callback /\ ~Silent(Changed)
  BY DEF TypeOK, Callback, Silent, Making, Changed
<1>1. CASE timer' = TRUE
  BY <1>1 DEF RowsOK, Due
<1>2. ASSUME NEW v \in Views \cup {None}, NotifyViewChanged(v) PROVE RowsOK'
  <2>1. CASE v = None
    BY <1>2, <2>1, ConstantsAssumption, Zenon DEF NotifyViewChanged, RowsOK
  <2>2. CASE v # None
    BY <1>1, <1>2, <2>2 DEF NotifyViewChanged, ScheduleRefreshProjectFiles
  <2> QED
    BY <2>1, <2>2
<1>3. ASSUME NEW f \in Files, f # view, NEW o \in Projects \cup {None},
             owner' = [owner EXCEPT ![f] = o], UNCHANGED <<meta, panel, timer, shows, work>>,
             queue' \in {queue, Append(queue, Changed)},
             owner[f] = watched \/ o = watched => queue' = Append(queue, Changed)
      PROVE  RowsOK'
  <2> SUFFICES ASSUME view \in Files PROVE RowsOK'
    BY <1>3 DEF RowsOK, panel, shows
  <2>1. Due(jobs, queue, timer) \/ owner[f] = watched \/ o = watched
          => Due(jobs', queue', timer')
    BY <1>0, <1>3, DueAppended, Zenon DEF work
  <2>2. rows' = RowsOf(owner[view])' \/ Blank' \/ Due(jobs, queue, timer) \/ owner[f] = watched \/ o = watched
    BY <1>3, RowsOfChangedFile, Zenon
  <2> QED
    BY <2>1, <2>2, Zenon DEF RowsOK
<1>4. ASSUME NEW f \in Files, UserAddsFile(f) PROVE RowsOK'
  <2> SUFFICES ASSUME view \in Files PROVE RowsOK'
    BY <1>4, Zenon DEF RowsOK, UserAddsFile, panel, shows
  <2>1. f # view /\ owner[f] = None /\ watched # None
    BY <1>4, Zenon DEF UserAddsFile, FilesOK
  <2> QED
    BY <1>3, <1>4, <2>1, Zenon DEF UserAddsFile, Notified, Projects
<1>5. ASSUME NEW f \in Files, UserDeletesFile(f) PROVE RowsOK'
  <2> SUFFICES ASSUME view \in Files PROVE RowsOK'
    BY <1>5 DEF RowsOK, UserDeletesFile, panel, shows
  <2>1. f # view /\ watched # None
    BY <1>5 DEF UserDeletesFile, FilesOK
  <2> QED
    BY <1>3, <1>5, <2>1, Zenon DEF UserDeletesFile, Notified, Projects
<1>6. ASSUME NEW f \in Files, ClearGhidraLink(f) PROVE RowsOK'
  BY <1>1, <1>6 DEF ClearGhidraLink, ScheduleRefreshProjectFiles
<1>7. ASSUME NEW i \in Items, EventReceived(i) PROVE RowsOK'
  BY <1>1, <1>7 DEF EventReceived, ScheduleRefreshProjectFiles
<1> QED
  BY <1>2, <1>4, <1>5, <1>6, <1>7, Zenon DEF Turn

LEMMA RowsStep ==
  TypeOK /\ JobsOK /\ MakingOK /\ FilesOK /\ RowsOK /\ [Next]_vars => RowsOK'
<1> SUFFICES ASSUME TypeOK, JobsOK, MakingOK, FilesOK, RowsOK, [Next]_vars PROVE RowsOK'
  BY Zenon
<1>1. CASE RefreshProjectFiles
  <2>1. UNCHANGED <<link, owner, view>> /\ rows' = RowsOf(ProjectForView(view))
    BY <1>1, Zenon DEF RefreshProjectFiles, meta, disk, panel, shows
  <2> QED
    BY <2>1 DEF RowsOK, RowsOf, FilesOf, ProjectForView
<1>2. CASE UNCHANGED vars
  BY <1>2, RowsKept DEF vars, meta, disk, panel, shows, work
<1> QED
  BY <1>1, <1>2, RowsRequest, RowsWorker, RowsCallback, RowsTurn DEF Next

\* ProjectFileWatcher keeps the panel "in sync without requiring a view
\* change": whatever adds, imports, uploads, deletions and project browser do,
\* the rows are the files and the links of the project of the current view
\* once no refresh is due, or none after a disconnect that no refresh has
\* followed.  Nobody asks for one when the new project gets its
\* links; it has no view before that.
THEOREM PanelStaysInSync == Spec => []PanelInSync
<1>1. Init => MakingOK /\ FilesOK /\ RowsOK
  BY ConstantsAssumption
  DEF Init, MakingOK, OneMaking, FilesOK, RowsOK, NoRows
<1>2. TypeOK /\ JobsOK /\ MakingOK /\ FilesOK /\ RowsOK /\ [Next]_vars
        => MakingOK' /\ FilesOK' /\ RowsOK'
  BY MakingStep, FilesStep, RowsStep, Zenon
<1>3. TypeOK /\ FilesOK /\ RowsOK => PanelInSync
  BY DEF FilesOK, RowsOK, Blank, PanelInSync, ProjectForView, Due
<1> QED
  BY <1>1, <1>2, <1>3, InitType, StepType, PTL DEF Spec

=============================================================================
