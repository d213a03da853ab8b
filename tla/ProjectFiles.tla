---------------------------- MODULE ProjectFiles ----------------------------
(***************************************************************************)
(* The files of a Binary Ninja project and their Ghidra links              *)
(* (plugin/src/ui/ProjectPanel.cpp).  Workers download items, pass each    *)
(* through a file in the temporary directory and create the project file;  *)
(* a callback on the UI thread stores the link later.  Links are also      *)
(* stored by imports and uploads, promoted from the file's own database    *)
(* when its view is opened, and cleared by the user from the panel, whose  *)
(* rows are rebuilt a while after they were asked for.  Which server a     *)
(* project's "ghidra.server" names is left out: only whether it is stored. *)
(***************************************************************************)
EXTENDS Integers, Sequences

CONSTANTS Items,    \* items of a repository: folder and name
          Names,    \* names of items
          NameOf,   \* the name of each item; two folders may hold the same name
          Selections, \* the sets of items the user may pick together
          Files,    \* the ids of project files
          MaxJobs,  \* bound on the worker jobs ever started
          MaxTurns  \* bound on changes of view, events and the user's own changes

None == "none"
Alone == "alone"    \* a view of a file outside any project
Old == "old"        \* a project of the user
New == "new"        \* the project createProjectFromNode() makes

Projects == {Old, New}
Views == Files \cup {Alone}
Link == Items \cup {None}

ASSUME ConstantsAssumption ==
  /\ NameOf \in [Items -> Names]
  /\ Selections \subseteq SUBSET Items
  /\ Files # {} /\ MaxJobs \in Nat /\ MaxTurns \in Nat
  /\ None \notin Items \cup Files /\ Alone \notin Files

VARIABLES
  owner,     \* the project of each file; None: not created, or deleted
  made,      \* files ever created
  bytes,     \* the item whose bytes a file holds
  link,      \* "ghidra.link.<id>" of each project
  server,    \* the projects that hold "ghidra.server"
  bndb,      \* "ghidra.link" in the database of each view's file
  temp,      \* the temporary directory: the bytes under each name
  context,   \* UIContext::getProject()
  view, watched, \* m_currentView, m_watchedProject
  timer,     \* m_refreshTimer is running
  rows,      \* m_projectTree: the link each row shows; none while its section is hidden
  jobs, started, turns,
  queue,     \* callbacks posted to the UI thread
  added,     \* files whose link was stored by an add (history)
  raced,     \* items asked for while they were being added (history)
  shared,    \* names two workers used at once (history)
  cleared,   \* files whose link was cleared from their own view (history)
  emptied    \* a disconnect emptied the rows after the last refresh (history)

meta == <<link, server, bndb>>
disk == <<owner, made, bytes>>
panel == <<view, watched>>
shows == <<rows, emptied>>
work == <<jobs, started>>
history == <<added, raced, shared, cleared>>
vars == <<meta, disk, temp, context, panel, timer, shows, work, turns, queue, history>>

Adds == {"add", "bulk", "populate"}
Kinds == Adds \cup {"enumerate", "import", "upload", "delete", "disconnect"}

\* Items are added to a project, and the new one is populated.
ProjectFits(kind, p) == (kind \in Adds => p # None) /\ (kind = "populate" => p = New)

Job ==
  {j \in [n : Nat, kind : Kinds, project : Projects \cup {None}, file : Views \cup {None},
          todo : SUBSET Items, item : Link, step : {"run", "create", "post"},
          got : [Files -> Link]] : ProjectFits(j.kind, j.project)}
Changed == [kind |-> "changed"]   \* the watcher's notification

TypeOK ==
  /\ owner \in [Files -> Projects \cup {None}] /\ made \subseteq Files
  /\ bytes \in [Files -> Link]
  /\ link \in [Projects -> [Files -> Link]] /\ server \subseteq Projects
  /\ bndb \in [Views -> Link] /\ temp \in [Names -> Link]
  /\ context \in Projects \cup {None} /\ view \in Views \cup {None}
  /\ watched \in Projects \cup {None} /\ timer \in BOOLEAN
  /\ DOMAIN rows \subseteq Files /\ \A f \in DOMAIN rows : rows[f] \in Link
  /\ jobs \subseteq Job /\ started \in 0..MaxJobs /\ turns \in 0..MaxTurns
  /\ queue \in Seq(Job \cup {Changed})
  /\ added \subseteq Files /\ cleared \subseteq Files
  /\ raced \subseteq Items /\ shared \subseteq Names /\ emptied \in BOOLEAN

NoRows == [f \in {} |-> None]

\* The user's project is open and still empty; or it holds one file, which is
\* opened by itself and whose database may carry a link from earlier on.
Init ==
  /\ made \in {{}} \cup {{f} : f \in Files}
  /\ owner = [f \in Files |-> IF f \in made THEN Old ELSE None]
  /\ bytes = [f \in Files |-> None]
  /\ link = [p \in Projects |-> [f \in Files |-> None]] /\ server = {}
  /\ \E l \in Link : bndb = [v \in Views |-> IF v \in made THEN l ELSE None]
  /\ temp = [n \in Names |-> None]
  /\ context = IF made = {} THEN Old ELSE None
  /\ view = None /\ watched = None
  /\ timer = FALSE /\ rows = NoRows
  /\ jobs = {} /\ started = 0 /\ turns = 0 /\ queue = <<>>
  /\ added = {} /\ raced = {} /\ shared = {} /\ cleared = {} /\ emptied = FALSE

-----------------------------------------------------------------------------
(* Helpers *)

ProjectForView(v) == IF v \in Files THEN owner[v] ELSE None

CurrentOpenProject == IF ProjectForView(view) # None THEN owner[view] ELSE context

FilesOf(p) == {f \in Files : owner[f] = p}

RowsOf(p) == IF p = None THEN NoRows ELSE [f \in FilesOf(p) |-> link[p][f]]

ScheduleRefreshProjectFiles == timer' = TRUE

\* The queue after ProjectFileWatcher::notify(), for a change of a file of
\* project p.
Notified(p) == IF watched = p THEN Append(queue, Changed) ELSE queue

NoFiles == [f \in Files |-> None]

\* A worker for the items todo, or for a single item of the server.
NewJob(kind, p, v, todo, i) ==
  [n |-> started + 1, kind |-> kind, project |-> p, file |-> v, todo |-> todo, item |-> i,
   step |-> "run", got |-> NoFiles]

Enqueue(kind, p, v, todo, i) ==
  /\ started < MaxJobs
  /\ started' = started + 1
  /\ jobs' = jobs \cup {NewJob(kind, p, v, todo, i)}

Replace(j, k) == jobs' = (jobs \ {j}) \cup {k}

\* Mutant: every download goes through the same temporary file.
TempPathFixed(i) == CHOOSE n \in Names : TRUE

\* The temporary file an item's bytes pass through is named after it.
TempPath(i) == NameOf[i]

\* Jobs whose worker has ended and whose callback has still to run.
Queued == {queue[k] : k \in 1..Len(queue)}

\* Items that an add to project p has still to download or to link.
InFlight(p) ==
  {i \in Items : \E j \in jobs \cup Queued :
     j.kind \in Adds /\ j.project = p /\ (i \in j.todo \/ \E f \in Files : j.got[f] = i)}

-----------------------------------------------------------------------------
(* Adding items to a project *)

\* Mutant: what is in the project already is not looked at.
MissingAll(p, s) == s

\* Those of the items s to which no file of project p is linked.
Missing(p, s) == {i \in s : \A f \in FilesOf(p) : link[p][f] # i}

AddItems(kind, s) ==
  LET p == CurrentOpenProject IN
  /\ p # None /\ Missing(p, s) # {}
  /\ Enqueue(kind, p, None, Missing(p, s), None)
  /\ raced' = raced \cup (Missing(p, s) \cap InFlight(p))
  /\ UNCHANGED <<meta, disk, temp, context, panel, timer, shows, queue, added, shared, cleared>>

\* addItemToProject(), from a double click: an item that is in the project is
\* only opened.
AddItemToProject(i) == AddItems("add", {i})

BulkAddItemsToProject(s) == AddItems("bulk", s)

\* createProjectFromNode(): a worker lists the items of a folder.
CreateProjectFromNode ==
  /\ \A j \in jobs \cup Queued : j.kind \notin {"enumerate", "populate"}
  /\ context # New /\ FilesOf(New) = {}
  /\ Enqueue("enumerate", None, None, {}, None)
  /\ UNCHANGED <<meta, disk, temp, context, panel, timer, shows, queue, history>>

Enumerates(j) ==
  /\ j.kind = "enumerate"
  /\ jobs' = jobs \ {j} /\ queue' = Append(queue, j)
  /\ UNCHANGED <<meta, disk, temp, context, panel, timer, shows, started, history>>

\* The worker is through with item i: it takes up another one, or posts its
\* callback.  A single add that made no file only reports an error.
Advance(j, i, got, q) ==
  LET k == [j EXCEPT !.todo = @ \ {i}, !.item = None, !.step = "run", !.got = got] IN
  IF k.todo # {} THEN Replace(j, k) /\ queue' = q
  ELSE /\ jobs' = jobs \ {j}
       /\ queue' = IF j.kind = "add" /\ got = NoFiles THEN q ELSE Append(q, k)

\* The download failed, or the temporary file cannot be written.
AddSkips(j, i) ==
  /\ j.kind \in Adds /\ j.step = "run" /\ i \in j.todo
  /\ Advance(j, i, j.got, queue)
  /\ UNCHANGED <<meta, disk, temp, context, panel, timer, shows, started, history>>

AddWrites(j, i) ==
  /\ j.kind \in Adds /\ j.step = "run" /\ i \in j.todo
  /\ temp' = [temp EXCEPT ![TempPath(i)] = i]
  /\ shared' = IF \E k \in jobs : k.step = "create" /\ NameOf[k.item] = NameOf[i]
                 THEN shared \cup {NameOf[i]} ELSE shared
  /\ Replace(j, [j EXCEPT !.step = "create", !.item = i])
  /\ UNCHANGED <<meta, disk, context, panel, timer, shows, started, queue, added, raced, cleared>>

\* CreateFileFromPath() copies whatever the temporary file holds by now; then
\* the temporary file is removed.  (All that removing it later could do is to
\* make the copy of another worker fail.)
AddCreates(j, f) ==
  /\ j.kind \in Adds /\ j.step = "create"
  /\ f \notin made /\ temp[TempPath(j.item)] # None
  /\ made' = made \cup {f}
  /\ owner' = [owner EXCEPT ![f] = j.project]
  /\ bytes' = [bytes EXCEPT ![f] = temp[TempPath(j.item)]]
  /\ temp' = [temp EXCEPT ![TempPath(j.item)] = None]
  /\ Advance(j, j.item, [j.got EXCEPT ![f] = j.item], Notified(j.project))
  /\ UNCHANGED <<meta, context, panel, timer, shows, started, history>>

\* It returned nothing: the temporary file is gone, or the copy failed.
AddCreateFails(j) ==
  /\ j.kind \in Adds /\ j.step = "create"
  /\ temp' = [temp EXCEPT ![TempPath(j.item)] = None]
  /\ Advance(j, j.item, j.got, queue)
  /\ UNCHANGED <<meta, disk, context, panel, timer, shows, started, history>>

\* Mutant: the server goes to whatever project is open by now.
StoreServerCurrent(p) == server' = server \cup {CurrentOpenProject}

\* Mutant: the links are stored, "ghidra.server" is not.
StoreServerNever(p) == server' = server

\* "ghidra.server" is stored unless the project has one.
StoreServer(p) == server' = server \cup {p}

Gotten(c) == {f \in Files : c.got[f] # None}

\* The links of the files just added; a new project is then opened.
LinkCallback(c) ==
  /\ c.kind \in Adds
  /\ IF c.got # NoFiles THEN StoreServer(c.project) ELSE UNCHANGED server
  /\ link' = [link EXCEPT ![c.project] =
               [f \in Files |-> IF f \in Gotten(c) THEN c.got[f] ELSE @[f]]]
  /\ added' = added \cup Gotten(c)
  /\ cleared' = cleared \ Gotten(c)
  /\ IF c.kind = "populate" THEN context' = New /\ UNCHANGED timer
                            ELSE ScheduleRefreshProjectFiles /\ UNCHANGED context
  /\ UNCHANGED <<bndb, panel, work>>

PopulateProjectWithItems(s) == Enqueue("populate", New, None, s, None)

\* The user ticks some of the items found, and names the new project; or not.
EnumerateCallback(c) ==
  /\ c.kind = "enumerate"
  /\ \/ \E s \in Selections : PopulateProjectWithItems(s)
     \/ UNCHANGED work
  /\ UNCHANGED <<meta, context, panel, timer, added, cleared>>

-----------------------------------------------------------------------------
(* Imports and uploads *)

\* importItem() into the current view: "Check Out..." in the repository tree,
\* or "Sync from Ghidra" on a row of the panel, whichever file that is.
ImportItem(i) ==
  /\ view # None \/ \E f \in DOMAIN rows : rows[f] = i
  /\ Enqueue("import", None, view, {}, i)
  /\ UNCHANGED <<meta, disk, temp, context, panel, timer, shows, queue, history>>

\* uploadToGhidra() of a file whose row shows no link.
UploadToGhidra(f, i) ==
  /\ f \in DOMAIN rows /\ rows[f] = None
  /\ Enqueue("upload", CurrentOpenProject, f, {}, i)
  /\ UNCHANGED <<meta, disk, temp, context, panel, timer, shows, queue, history>>

\* "Delete from Server..." was confirmed.
DeleteItem(i) ==
  /\ Enqueue("delete", None, None, {}, i)
  /\ UNCHANGED <<meta, disk, temp, context, panel, timer, shows, queue, history>>

OnDisconnectClicked ==
  /\ Enqueue("disconnect", None, None, {}, None)
  /\ UNCHANGED <<meta, disk, temp, context, panel, timer, shows, queue, history>>

\* Nothing but a message is posted.
WorkerFails(j) ==
  /\ j.kind \in {"import", "upload", "delete"} /\ j.step = "run"
  /\ jobs' = jobs \ {j}
  /\ UNCHANGED <<meta, disk, temp, context, panel, timer, shows, started, queue, history>>

\* The project's link to the item, in place of any other.
StoreLink(p, f, i) ==
  /\ StoreServer(p)
  /\ link' = [link EXCEPT ![p][f] = i]
  /\ added' = added \ {f}
  /\ cleared' = cleared \ {f}

\* The import's worker stores the link, in the project and in the database.
ImportStores(j) ==
  LET p == ProjectForView(j.file) IN
  /\ j.kind = "import" /\ j.step = "run"
  /\ IF p # None THEN StoreLink(p, j.file, j.item)
                 ELSE UNCHANGED <<server, link, added, cleared>>
  /\ bndb' = IF j.file = None THEN bndb ELSE [bndb EXCEPT ![j.file] = j.item]
  /\ Replace(j, [j EXCEPT !.step = "post"])
  /\ UNCHANGED <<disk, temp, context, panel, timer, shows, started, queue, raced, shared>>

WorkerPosts(j) ==
  /\ j.kind \in {"upload", "delete", "disconnect"} \/ (j.kind = "import" /\ j.step = "post")
  /\ jobs' = jobs \ {j} /\ queue' = Append(queue, j)
  /\ UNCHANGED <<meta, disk, temp, context, panel, timer, shows, started, history>>

ImportCallback(c) ==
  /\ c.kind = "import"
  /\ ScheduleRefreshProjectFiles
  /\ UNCHANGED <<meta, context, panel, work, added, cleared>>

UploadCallback(c) ==
  /\ c.kind = "upload"
  /\ IF c.project # None THEN StoreLink(c.project, c.file, c.item)
                         ELSE UNCHANGED <<server, link, added, cleared>>
  /\ ScheduleRefreshProjectFiles
  /\ UNCHANGED <<bndb, context, panel, work>>

\* The files of project p that a change or the removal of item i on the server
\* is taken to be about: their item has its name, in whatever folder.
Touched(p, i) == {f \in FilesOf(p) : link[p][f] # None /\ NameOf[link[p][f]] = NameOf[i]}

\* The links to the deleted item go, and so does that of the current view's
\* database, whether or not it is one of those files.
DeleteCallback(c) ==
  LET p == CurrentOpenProject
      hit == IF p = None THEN {} ELSE Touched(p, c.item)
  IN
  /\ c.kind = "delete"
  /\ link' = [q \in Projects |->
               IF q = p THEN [f \in Files |-> IF f \in hit THEN None ELSE link[q][f]]
                        ELSE link[q]]
  /\ bndb' = IF hit # {} /\ view # None THEN [bndb EXCEPT ![view] = None] ELSE bndb
  /\ cleared' = cleared \cup (hit \cap {view})
  /\ added' = added \ hit
  /\ ScheduleRefreshProjectFiles
  /\ UNCHANGED <<server, context, panel, work>>

\* ProjectFileWatcher::notify(), on the UI thread.
ChangedCallback(c) ==
  /\ c = Changed
  /\ ScheduleRefreshProjectFiles
  /\ UNCHANGED <<meta, context, panel, work, added, cleared>>

\* The rows go and their section is hidden; no refresh is asked for.
DisconnectCallback(c) ==
  /\ c.kind = "disconnect"
  /\ rows' = NoRows /\ emptied' = TRUE
  /\ UNCHANGED <<meta, context, panel, timer, work, added, cleared>>

RunCallback ==
  /\ queue # <<>>
  /\ queue' = Tail(queue)
  /\ LET c == Head(queue) IN
       \/ DisconnectCallback(c)
       \/ /\ \/ LinkCallback(c) \/ EnumerateCallback(c) \/ ImportCallback(c)
             \/ UploadCallback(c) \/ DeleteCallback(c) \/ ChangedCallback(c)
          /\ UNCHANGED shows
  /\ UNCHANGED <<disk, temp, raced, shared>>

-----------------------------------------------------------------------------
(* Views, rows and the user's own changes to the project *)

\* migrateStandaloneMetadata(): a link that only the database has is promoted
\* into the project.
MigrateStandaloneMetadata(v) ==
  LET p == ProjectForView(v) IN
  IF p # None /\ link[p][v] = None
    THEN StoreServer(p) /\ link' = [link EXCEPT ![p][v] = bndb[v]]
    ELSE UNCHANGED <<server, link>>

\* The link of the view comes from the project, or else from the database.
ReadLink(v) ==
  LET p == ProjectForView(v)
      ofProject == p # None /\ p \in server /\ link[p][v] # None
  IN
  IF ~ofProject /\ bndb[v] # None THEN MigrateStandaloneMetadata(v)
                                  ELSE UNCHANGED <<server, link>>

\* Mutant: the watcher stays with the first project.
WatchProjectOnce(p) == watched' = IF watched = None THEN p ELSE watched

\* watchProject()
WatchProject(p) == watched' = p

NotifyViewChanged(v) ==
  /\ v \in Files => owner[v] = Old \/ (owner[v] = New /\ context = New)
  /\ view' = v
  /\ IF v = None
       THEN UNCHANGED <<server, link, watched, timer>>
       ELSE /\ ReadLink(v)
            /\ WatchProject(IF ProjectForView(v) # None THEN owner[v] ELSE context)
            /\ ScheduleRefreshProjectFiles
  /\ UNCHANGED <<bndb, disk, temp, context, shows, work, queue, history>>

\* Mutant: only the project's link goes.
ClearDatabaseNever(f) == bndb' = bndb

\* The database is cleared when it is that of the current view.
ClearDatabase(f) == bndb' = IF view = f THEN [bndb EXCEPT ![f] = None] ELSE bndb

\* "Clear Ghidra Link...", on a row that shows one.
ClearGhidraLink(f) ==
  LET p == CurrentOpenProject IN
  /\ f \in DOMAIN rows /\ rows[f] # None
  /\ link' = IF p = None THEN link ELSE [link EXCEPT ![p][f] = None]
  /\ ClearDatabase(f)
  /\ cleared' = IF view = f THEN cleared \cup {f} ELSE cleared
  /\ added' = added \ {f}
  /\ ScheduleRefreshProjectFiles
  /\ UNCHANGED <<server, disk, temp, context, panel, shows, work, queue, raced, shared>>

\* refreshProjectFiles(): m_refreshTimer went off.  With no project the section
\* is hidden; the rows in it are cleared before it shows again.
RefreshProjectFiles ==
  /\ timer
  /\ timer' = FALSE
  /\ rows' = RowsOf(ProjectForView(view)) /\ emptied' = FALSE
  /\ UNCHANGED <<meta, disk, temp, context, panel, work, queue, history>>

\* onEventReceived()
EventReceived(i) ==
  /\ CurrentOpenProject # None /\ Touched(CurrentOpenProject, i) # {}
  /\ ScheduleRefreshProjectFiles
  /\ UNCHANGED <<meta, disk, temp, context, panel, shows, work, queue, history>>

\* A file of the user's, added in Binary Ninja's own project browser.
UserAddsFile(f) ==
  /\ f \notin made
  /\ made' = made \cup {f} /\ owner' = [owner EXCEPT ![f] = Old]
  /\ queue' = Notified(Old)
  /\ UNCHANGED <<meta, bytes, temp, context, panel, timer, shows, work, history>>

\* A file that is not open is deleted in the project browser.
UserDeletesFile(f) ==
  /\ owner[f] # None /\ f # view
  /\ \A j \in jobs : j.kind = "import" => j.file # f
  /\ owner' = [owner EXCEPT ![f] = None]
  /\ queue' = Notified(owner[f])
  /\ UNCHANGED <<meta, made, bytes, temp, context, panel, timer, shows, work, history>>

-----------------------------------------------------------------------------
Request ==
  \/ \E i \in Items : AddItemToProject(i) \/ ImportItem(i) \/ DeleteItem(i)
  \/ \E s \in Selections : BulkAddItemsToProject(s)
  \/ CreateProjectFromNode \/ OnDisconnectClicked
  \/ \E f \in Files, i \in Items : UploadToGhidra(f, i)

Worker(j) ==
  \/ Enumerates(j) \/ (\E i \in Items : AddSkips(j, i) \/ AddWrites(j, i))
  \/ (\E f \in Files : AddCreates(j, f)) \/ AddCreateFails(j) \/ WorkerFails(j) \/ ImportStores(j) \/ WorkerPosts(j)

Turn ==
  \/ \E v \in Views \cup {None} : NotifyViewChanged(v)
  \/ \E f \in Files : ClearGhidraLink(f) \/ UserDeletesFile(f) \/ UserAddsFile(f)
  \/ \E i \in Items : EventReceived(i)

Next ==
  \/ (Request \/ (\E j \in jobs : Worker(j)) \/ RunCallback \/ RefreshProjectFiles)
     /\ UNCHANGED turns
  \/ Turn /\ turns < MaxTurns /\ turns' = turns + 1

Spec == Init /\ [][Next]_vars

-----------------------------------------------------------------------------
(* Properties *)

\* ProjectFileWatcher keeps the panel "in sync without requiring a view
\* change": once no refresh and no callback is due, and no import has stored
\* a link it has yet to report, the rows are the files and the links of the
\* project of the current view, whichever way they came about; or there are
\* none, because a disconnect came after the last refresh.
PanelInSync ==
  (ProjectForView(view) # None /\ ~timer /\ queue = <<>> /\ \A j \in jobs : j.step # "post")
    => rows = RowsOf(ProjectForView(view)) \/ (emptied /\ rows = NoRows)

\* bulkAddItemsToProject() "skips items already present" and
\* addItemToProject() opens them: no two files of a project are added for one
\* item, unless it was asked for again while its first add was on the way.
AddedOnce ==
  \A f, g \in added :
    (f # g /\ owner[f] # None /\ owner[f] = owner[g] /\ link[owner[f]][f] = link[owner[g]][g])
      => link[owner[f]][f] \in raced

\* A file that was added for an item holds that item's bytes, however many
\* items are on the way, unless two workers used a temporary file of the same
\* name at once.
HoldsItsItem ==
  \A f \in added :
    owner[f] # None =>
      LET i == link[owner[f]][f] IN i = bytes[f] \/ NameOf[i] \in shared

\* notifyViewChanged() takes a link from the project only if the project has
\* a server too: every link that was stored can be used.
LinkHasServer == \A p \in Projects, f \in Files : link[p][f] # None => p \in server

\* "Clear Ghidra Link..." on the file of the current view clears both stores
\* "so notifyViewChanged stops auto-retrying": the link does not come back
\* until an import, an upload or an add stores one.
ClearedStaysCleared ==
  \A f \in cleared : owner[f] # None => link[owner[f]][f] = None

\* ProjectPanel.cpp:1405: "Items already in the project are skipped."
OneFilePerItem ==
  \A f, g \in added :
    (f # g /\ owner[f] # None /\ owner[f] = owner[g]) => link[owner[f]][f] # link[owner[g]][g]

\* ProjectPanel.cpp:553: "Clear any BN project file Ghidra links that pointed
\* to the deleted item": no other link goes.
DeleteSparesOthers ==
  [][\A p \in Projects, f \in Files :
       (queue # <<>> /\ queue' = Tail(queue) /\ Head(queue).kind = "delete")
         => link'[p][f] = link[p][f] \/ link[p][f] = Head(queue).item]_vars
=============================================================================
