# A TLA+ model of the Binary Ninja – Ghidra Server bridge

This directory holds TLA+ specifications of the plugin and the bridge of this
repository, TLC configurations that check them on small instances, and proofs,
checked by TLAPS, of the properties that matter most. Every definition is
translated from the source; `PROJECT.json` maps each one to its lines.

Paths are relative to the repository: `plugin/` is the C++ plugin, `bridge/` the
Java bridge (`bridge/src/main/java/com/ghidra_svr/bridge/`).

## The system

    Binary Ninja                      bridge (JVM)                 Ghidra Server
    ------------                      ------------                 -------------
    ProjectPanel (UI thread)          BridgeServer
      | jobs, callbacks                 | one per client
    worker threads                    BridgeConnection  --RMI-->   repositories,
      |                                 |  GhidraSession            items, versions,
    GhidraConnection                    |  EventStreamer x n        checkouts
      | BridgeProcess (child JVM)       |  ProgramApplier
    BridgeClient  <--lines of JSON-->   |  DatabaseExporter

The plugin starts a bridge as a child process (local mode) or connects to one
(remote mode). The panel starts worker threads; each makes blocking calls
through the one `GhidraConnection` and posts a callback to the UI thread. The
bridge serves one client per thread, with one more thread for each repository
whose events it streams. Other bridges and interactive Ghidra clients use the
same server.

### Inventory

| Part | State | Operations | What is hard about it |
|---|---|---|---|
| `BridgeClient` | socket, `m_pending`, `m_nextId`, `m_running` | `connect`, `disconnect`, `sendAsync`, `sendSync`, `receiveLoop`, `dispatch` | three threads want the same callback; timeouts and late answers; join of a blocked thread |
| `GhidraConnection` (lifecycle), `BridgeProcess` | `m_process`, `m_client`, `m_serverConnected`, `m_pid` | start, attach, connect, disconnect, list | pointers shared by workers without a lock; the JVM may die anywhere |
| `BridgeConnection`, `GhidraSession`, `EventStreamer` | session, open handles, streamers | connect, disconnect, open and close repository, `getEvents` loop | stop races a push; a session replaced under its streamers; failing closes |
| `BridgeConnection.opCheckin` and the checkout operations | checkouts on the server, `coId`, `ownedCheckout` | list, reuse, acquire, write, terminate | several remote calls, each may fail or lose its answer; others move in between |
| Repository tree of `ProjectPanel` | nodes, `m_treeGeneration`, buttons | connect, refresh, expand, disconnect, upload | callbacks in any order hold addresses of nodes |
| Check-in workflow of `ProjectPanel` | `m_currentView`, `m_linkedGhidra`, `m_checkedOut`, the check-in state | import, check in, review, terminate, view change, upload | one check-in state for all views, written by workers |
| Project files of `ProjectPanel` | files, metadata of projects and databases, the watcher, the rows | add, bulk add, new project, import, upload, delete, clear link | two stores of each link; rows that are a copy; adds under way together |
| `SyncEngine`, `collectCheckinChanges`, `checkin`, `ProgramApplier`, `DatabaseExporter` | the view, the program, a baseline for each kind of annotation | export, import, compare, send, apply, move the baseline | four conversions that have to agree; what was refused has to come back, what landed has not |
| Change events in the panel | `m_eventHandler` | set, call, clear | several panels, one handler; panel destruction |
| `BridgeServer`, `BridgeMain`, `GhidraJson`, dialogs, settings | none to speak of | | |

## Modules

| Module | Models | Run module |
|---|---|---|
| `RequestService` | abstract: each request is answered at most once, by its own response or a local failure | |
| `BridgeClient`, `BridgeClientProofs` | `plugin/src/BridgeClient.cpp` | `MCBridgeClient` |
| `Checkout`, `CheckoutProofs` | checkouts in `BridgeConnection.java` | `MCCheckout` |
| `BridgeSession`, `BridgeSessionProofs` | `BridgeConnection.java` (connection state), `GhidraSession.java`, `EventStreamer.java` | `MCBridgeSession` |
| `BridgeLink`, `BridgeLinkProofs` | `GhidraConnection.cpp:130-292`, `BridgeProcess.cpp` (POSIX) | `MCBridgeLink` |
| `RepoTree`, `RepoTreeProofs` | repository tree in `ProjectPanel.cpp` | `MCRepoTree` |
| `CheckinFlow`, `CheckinFlowProofs` | check-out and check-in in `ProjectPanel.cpp`, check-in state of `GhidraConnection.cpp` | `MCCheckinFlow` |
| `ProjectFiles`, `ProjectFilesProofs`, `ProjectAddsProofs` | project files and links in `ProjectPanel.cpp`, `ProjectFileWatcher` | `MCProjectFiles` |
| `Annotations` | the two address spaces and the two spellings of type names | |
| `SyncSymbols`, `SyncComments`, `SyncMarks`, `SyncTypes`, `SyncFuncs` | one kind of annotation each (names; comments; bookmarks and equates; types and data items; parameters, locals and signatures): `DatabaseExporter`, `SyncEngine`, `GhidraConnection.cpp` (baseline, diff), `ProgramApplier` | |
| `WriteBack` | the round trip of all kinds: import, edits, review, check-in, lost answer, restart | `MCWriteBack` |

**BridgeClient.** Each caller runs `sendSync`, one step per critical section or
system call; the receive thread and a controlling thread that connects and
disconnects run beside them. Lines on the wire carry the id of a request and,
as history, the call it belongs to. The bridge's end may answer, send an event or
drop the connection. `CloseWakesRecv` says whether `close()` wakes a blocked
`recv()`, which depends on the platform.

**Checkout.** One item, several bridges, several interactive clients. `opCheckin`
is one action per remote call, with a failure and a lost answer of each where
the code handles them, and crashes. `asked`, `stray` and `endedBy` are history.

**BridgeSession.** One client connection. The handler thread runs one operation
at a time; each streamer is a loop of its own with the flag `running`.

**BridgeLink.** Worker threads run `startLocalBridge`, `connectToServer`,
`disconnectFromServer` and `listRepos` in steps; objects are numbered, so that a
use after free is a use of a number in `freedP` or `freedC`. `misuse` records
what went wrong; a crash ends the behaviour.

**RepoTree.** Jobs are answered by the bridge and posted to the UI thread's queue
in any order; callbacks run in queue order. Nodes are numbered in the same way.

**CheckinFlow.** The check-in state has no lock. It is kept in the three parts that
`storeCheckinState()` and `clearCheckinState()` write one after the other (`keys`,
`rest`, the item), and each access to a part is a step: a worker may be between two
of them while the UI thread collects changes or another worker builds a request.
A part is known by the item and the view it was filled for. `mixed` and the fields
`clean` and `over` are history: a review or a request is `clean` if no worker was
writing over a state that had an item while it was made. Reading a map that another
thread is writing is undefined behaviour, so the properties speak of clean ones.
The menus are taken to act on what they showed: the time a context menu is open is
not modelled.

**ProjectFiles.** Two projects, one of them not there until the user creates it.
Workers download, pass the bytes through a file of the item's name in the
temporary directory, and create the project file; their callbacks store the
link, which may also come from an import, an upload or the file's own database.
Rows are rebuilt by a timer and emptied by a disconnect. `rows` are those the user
can see: while `m_projectSection` is hidden there are none, and the refresh that
shows it again clears `m_projectTree` first. Whether the plugin is connected is left
out: any operation may be started, and may fail. `added`, `raced`, `shared`,
`cleared` and `emptied` are history.

**WriteBack and the Sync modules.** A program is a record of symbols, comments,
bookmarks, equates, types, items, variables and signatures, a view a record of
what Binary Ninja keeps for them, a baseline the maps of the check-in state. For
each kind a Sync module has operators named after the direction they work in:
`Export…` (`DatabaseExporter`), `Import…` (`SyncEngine::applyToView`),
`…Baseline` (`buildWritebackMaps`, `storeCheckinState`), `Collect…`
(`collectCheckinChanges`), `Apply…` (`ProgramApplier.apply`), `Advance…` (the
baseline after `checkin`). `WriteBack` puts them together in the order of the
code. Names, texts and types are small sets; texts are sequences of tokens
where the code splits or joins them. A *place* (`<<"comment", a>>`, `<<"type",
n>>`…) is what an edit or an entry of a preview is about; the history variables
are sets of places, so that a property can say which places a preview may,
must or must not show.

## Runs

Passing runs:

| Run | Shows | Bounds |
|---|---|---|
| `bridge_client` | callbacks run at most once, with their own answer; nothing pending outlives its connection; `RequestService` is implemented | 2 callers, 2 calls, 3 connects, 1 event: a call pending across a reconnect, beside another one; callers are symmetric |
| `bridge_client_live` | `disconnect()` returns and fails what is pending, where `close()` wakes `recv()` | 2 callers, 2 calls, 2 connects |
| `checkout` | a check-in ends no interactive checkout, leaks none, and a sole user's writer keeps its own | 2 bridges, 1 interactive client of a bridge's user, 3 checkouts: a stale id can be overtaken by a new grant |
| `bridge_session` | no two running streamers per repository, at most one late event, all threads end | 2 repositories, 3 handles, 2 streamers, batches of 2 |
| `bridge_link` | one worker: no orphaned JVM | 3 processes and 3 clients: two failed starts and a good one |
| `repo_tree` | no write into a node a rebuild deleted; one fetch per expansion | 1 repository, 4 nodes, 4 jobs: connect, listing, fetch and one that overlaps it |
| `checkin_flow` | a clean review compares with one whole baseline, that of its item; a clean request names an item and has that item's image base; workers that follow each other leave nothing of an earlier baseline | 2 items, a view in a project, 3 jobs: import, check-in and one that overlaps them at any step; items are symmetric |
| `project_files` | the panel's rows catch up with the project, or were emptied by a disconnect; items are added once, with their own bytes; stored links can be used; cleared ones stay cleared | 2 items, 2 files, 2 jobs, 3 changes of view, events or changes by the user: two adds that overlap, an import across a change of view; items and files are symmetric |
| `write_back` | previews show what was touched, and everything that differs; a check-in does what was shown and nothing else; the next preview is empty | 3 addresses, the last wrapping around; 7 programs; 2 edits by the user or a colleague, 2 imports, any number of reviews, check-ins, lost answers and restarts |

The seven programs of `MCWriteBack` differ in the kinds they bring out, so that
each edit is one that matters to the program: `Plain` (one function, one comment),
`Crowded` (two symbols at an address, several comment columns), `Marked`
(bookmarks, equates), `Typed` and `Shaped` (structs, enums, typedefs, items and
what refers to what), `Called` (parameters, locals, signatures) and `Damaged`
(variables that earlier versions of the bridge stored in the wrong place). Each comes
with one or two sets of inputs, twelve scenes in all: kinds of annotation that no
operation mixes are edited in scenes of their own, and some of them together
(`Erasing`, `Recalling`). Two
edits are enough for an edit of the same place before and after a check-in, and for
an edit that races a colleague's.

The properties of `write_back` have exceptions, each a named set of places with a
comment. They are the cases in which the code is known not to hold to the
statement, and each was met as a counterexample: `Lossy` (what a view cannot
represent), `Coarse` (what a check-in writes otherwise than shown), `Unexported`
(what the export leaves out and the diff sends again), `beside` (what the bridge
passed over, or changed along with a removed type) and `Undetected` (what the diff
does not look for).

Runs that end in a violation, each of a statement the repository makes:

| Run | Statement | What the code does |
|---|---|---|
| `bridge_client_linux` | "Closing the socket wakes up the blocking recv()" | not on Linux: `disconnect()` may wait for ever |
| `bridge_link_overlap` | "safe to call repeatedly" | not by two workers: the second frees the process the first is starting |
| `write_back_noedits` | "A fresh checkout with ZERO user edits must produce an empty preview" | not with an unnamed struct member, a member of a type that is exported later, or an item of a built-in type |

The modules state more of what the repository says and the code does not keep
to. These have no run of their own; TLC refutes each one when it replaces the
properties in the configuration named here:

| Property | Configuration | Statement | What the code does |
|---|---|---|---|
| `BridgeClient!SyncThrowsOnDisconnect` | `BridgeClientLive.cfg` | `sendSync` "Throws std::runtime_error on timeout or disconnect" | it returns the error object on disconnect |
| `Checkout!AppliesUnderExclusive` | `Checkout.cfg` | "The caller must hold an exclusive checkout" | a kept NORMAL checkout is reused |
| `Checkout!ReusesOnlyItsOwn` | `Checkout.cfg`, `UserOf <- SameUser` | "only ever reuse ... checkouts that THIS bridge created" | a second bridge of the user on the machine matches too |
| `BridgeSession!StreamerPerOpenRepo` | `BridgeSession.cfg` | "EventStreamer per open repo" | after a second connect the old streamer keeps the place |
| `BridgeLink!ClientNeverNull` | `BridgeLink.cfg` | `connectBridge` is "called automatically" | `listRepos()` after a view change meets a null `m_client` |
| `BridgeLink!StopsOnlyItsChild` | `BridgeLink.cfg` | `stop()` will "terminate the bridge process" | it signals a pid that `isRunning()` has reaped |
| `BridgeLink!ServerConnectedIsTrue` | `BridgeLink.cfg` | banner "hidden once we are connected" | `m_serverConnected` survives a failed reconnect |
| `RepoTree!NoDanglingNode` | `RepoTree.cfg` | "bail out before touching any tree nodes" | a disconnect deletes the nodes without a new generation |
| `RepoTree!NoDuplicateEntries` | `RepoTree.cfg`, `MaxJobs = 5` | "preventing stale callbacks from writing into a freshly-rebuilt tree" | an upload refetches a node and the stale fetch is added too |
| `CheckinFlow!CheckinGoesToCapturedItem` | `CheckinFlow.cfg` | "Capture item coords before the lambda runs" | the captured item is not the one used |
| `CheckinFlow!SendsToAnItem` | `CheckinFlow.cfg` | "No import — import first" | the item is tested before it is sent, and a termination clears it in between |
| `CheckinFlow!ReviewComparesOwnView` | `CheckinFlow.cfg`, a second view | "we went through importItem/checkout" | the review compares whatever view is current |
| `CheckinFlow!ReleasedIsNotCheckedOut` | `CheckinFlow.cfg` | "cleared after a successful check-in or explicit checkout termination" | an import's callback, or a change of view, sets it again |
| `CheckinFlow!LinkIsOfCurrentView` | `CheckinFlow.cfg` | "Ghidra link stored in the current .bndb's metadata" | an import's callback sets the link of another view |
| `ProjectFiles!OneFilePerItem` | `ProjectFiles.cfg` | "Items already in the project are skipped" | not one whose first add is still on the way |
| `ProjectFiles!DeleteSparesOthers` | `ProjectFiles.cfg`, `NameOf <- OneName`, without symmetry | "Clear any BN project file Ghidra links that pointed to the deleted item" | links to an item of the same name in another folder go too |

`SyncThrowsOnDisconnect` is checked as an INVARIANT, `DeleteSparesOthers` as a
PROPERTY. `CHECK_DEADLOCK FALSE` is set throughout: every component may be left
idle, and the bounds stop the environment.

### Other disagreements met on the way

What follows was read in the code while it was modelled. It is part of the models
(as an exception of a property, or in what an action does) and has no property
of its own.

- Comments that are removed, names that are removed and the new type of an
  existing item are never collected; references to an equate are not once its
  label has changed; stack locals without a key and register locals are not.
- A parameter stored in Ghidra's variable space is never exported, so new
  parameters, register locals and calling conventions are shown again after every
  import; a parameter whose name begins with "arg" is never sent and the import
  overwrites it; one beyond the last is appended at a lower ordinal.
- An address comment and a function comment at one address end up in one entry,
  and the address comment can overwrite the plate comment.
- After a check-in whose answer was lost, an edit that is taken back stays hidden.
- "Sync from Ghidra" on a row imports into the current view; the upload takes its
  annotations from the current view; an event is matched by repository and name
  only; a link cleared for a file that is not current comes back from its
  database when it is opened.

### Fairness

`BridgeClient!FairSpec` is weakly fair to the steps of the threads, which the
operating system schedules, and assumes nothing of the bridge.
`BridgeSession!FairSpec` is weakly fair to each streamer: its thread runs, and
`getEvents()` returns now and then, if only with the server's keepalive or an
exception. The handler thread and the client are under no fairness.

The other specifications have no fairness: their properties are safety
properties, and what the server, the user or a colleague does is never promised.

## What is assumed of the rest of the world

This is modelled from how `src/` uses it; a definition that models nothing else is
marked `external` in `PROJECT.json`.

- **Ghidra Server.** Checkout ids are never reused; an exclusive checkout needs an
  item nobody else has checked out; a call may fail, or take effect and lose its
  answer. `getEvents()` on a closed handle throws.
- **Ghidra's database.** No two symbols of an address, and no two variables of a
  function, have the same name; removing a type removes the typedefs of it and
  leaves undefined bytes where it was used; `createEquate` makes a new key.
- **Binary Ninja.** A type the user has defined is not replaced by `DefineType`, and an
  equate's enum whose label the user edited is such a type, still found by its type
  id; a project
  notifies its watcher when a file is created or deleted; a file that is open in a
  view is not deleted; what is stored in or removed from the metadata of a view's
  database is still so when the file is opened again, which for a `.bndb` is true
  only if the view is saved (`ClearedStaysCleared` is about files that are). Whether
  an imported return type displaces the user's own is left open: both happen.
- **Qt.** Callbacks posted to the UI thread run in the order they were posted; a
  modal dialog of the project panel is one step, the review dialog is not.
- **The operating system.** `CloseWakesRecv` is a constant; a child may exit at any
  time; a pid that has been reaped may belong to another process.

## Proofs

The theorems hold for all values of the constants, under the assumptions stated
in the component's module: the bounds are natural numbers, (`Checkout`) no client
is both a bridge and interactive, (`BridgeSession`) there is a repository,
(`CheckinFlow`) the views of project files are views, (`ProjectFiles`) items have
names, and (both) the special values (`None`, `Various`, `Alone`) are no items, views
or files.

**BridgeClientProofs.** `AtMostOnce` is not inductive: nothing in it says that a
callback about to run has not run. The invariant `IInv` adds `IdsInv` (calls have
different ids, below `m_nextId`), `TagsInv` (an id travels with the call it was
given to), `OneHolderInv` (the callback of a call that has not been answered is in
one place only: the map, the receive thread, the drained map of `disconnect`, or
the caller whose send failed) and `OrphanInv`. Each part has a lemma with one step
per action. `TypeCorrect`, `CallbackAtMostOnce`, `ResponseIsOwn` and
`NothingOrphaned` follow, and `Refinement`: every step is a step of
`RequestService` or a stutter.

**CheckoutProofs.** `FreshInv` (the server never grants an id twice) and `UseInv` (a
handler has an id in `coId` exactly where it needs one, of a bridge of its own
user) make the properties inductive. They give `TypeCorrect`, `InteractiveSpared`,
`NoLeak` and `WriterHolds`.

**BridgeSessionProofs.** A running streamer is the one the map holds for its
repository (`MapInv`), because the map forgets a streamer only when it tells it
to stop; streamers above `started` have not run (`FreshInv`); and a streamer that
wrote a late line is past `pushEvent` and has to look at the flag before it comes
back (`PushInv`). They give `TypeCorrect`, `EventsNotDoubled` and `StreamCutOff`.

**RepoTreeProofs.** A fetch of the current generation has a node that is in the
tree or detached from it, unless a disconnect emptied the tree (`JobsOK`,
`QueueOK`); this survives every step because the generation only grows, and
within one a node goes only with the whole tree (`Grows`). `NodesOK` keeps the
detached nodes apart from those of the tree. They give `RebuildIsSafe`.
`TypeCorrect` needs a free number for each worker that starts: no more numbers are
in use than workers were ever started (`NumbersOK`), so below `MaxJobs` there is
one. `FetchedOnce` is made inductive by counting (`FetchOK`): what was added to a
node, and what is on the way to it among the workers and in the queue, is at most
one fetch and one per upload, and one less while the node shows its placeholder;
a node that has not been made yet still has it. Each action does one of four
things to a node (`Fetched`), and `NodesFetchedOnce` follows.

**BridgeLinkProofs.** `TypeCorrect` is for any number of threads, overlapping or not.
`NoOrphanBridge` is not true of overlapping threads, and nothing in the code keeps
workers apart (the run `bridge_link_overlap` shows what comes of it).
`NoBridgeLeftBehind` therefore has the hypothesis `[]NoOverlap`: any number of
threads, with at most one inside an operation at a time. It holds of every
behaviour of a single worker, which is the instance the run checks. The invariant
`LinkInv` says what the thread that is inside an operation has already tested and
made (`Stage`), and that an object that is still to be made has no child and
`m_process` does not point to it (`PointersOK`).

**CheckinFlowProofs.** Workers carry what they were started with (`Proper`): an import
or a restore its view, a termination or a check-in that was sent its item. What
makes the other properties inductive is `StateInv`: a clean writer is the only
writer, and has written the parts before its step and left the others as they were;
until a first baseline is complete there is no item, so nobody collects or sends;
a state nobody writes is whole unless two workers wrote it at once; and whoever is
clean and has read a part has read it from a state that still is. With the types
they make up `FlowInv`, and give `TypeCorrect`, `ReviewsAreWhole`,
`RequestsAreWhole` and `SettledStatesAreWhole`.

**ProjectFilesProofs.** `PanelInSync` speaks only of quiet states. The invariant says
why it will hold in them: the rows are current, or a disconnect emptied them, or a
refresh is due (`RowsOK`), the project of the current view is the one watched, and
files and rows exist (`FilesOK`), at most one project is being created (`MakingOK`), and a cleared file
has a link in neither store (`ClearedOK`). They give `TypeCorrect`,
`PanelStaysInSync`, `LinksCanBeUsed` and `ClearedForGood`.

**ProjectAddsProofs.** `AddedOnce` speaks of files that have their link; the argument
has to follow an item from the request on. An item is *claimed* in a project by a
file that was added for it, by a file that waits for its link in a worker or a
callback (`FileClaim`), or by a worker that has still to download it (`JobClaim`):
an item that was not asked for twice at once has one claim (`ClaimsOK`). The new
project has no files before it is populated (`NewOK`), so its first worker claims
nothing twice. For `HoldsItsItem`, the temporary file of a worker holds its item, or
the name was shared (`TempOK`), and the files made from it do (`GotOK`, `AddedOK`).
A step is one of five shapes (`Quiet`, `Starts`, `Moves`, `Makes`, `Links`), each with a
lemma. They give `NoItemAddedTwice` and `FilesHoldTheirItems`.

**Only model-checked.** Liveness (`DisconnectReturns`, `DisconnectFailsPending`,
`StreamersEnd`): fairness and ENABLED are beyond the prover. All properties of
`WriteBack`: the Sync modules fold over sequences and sets, and what a fold
computes for every input needs induction over data, which is beyond the prover too.
The safety properties of every other passing run are proved.

## Not modelled

- Windows code of `BridgeProcess` and `BridgeClient`, remote mode, the search for
  the JAR and for Ghidra: the platform's own calls, and file lookups.
- `GhidraJson` parsing, dialogs, settings, logging: conversions and forms without
  state. What the check-in request carries is in the `Apply…` operators.
- `BridgeServer`, `BridgeMain`: an accept loop whose connections are independent.
- `BinaryExtractor` and the table layouts in `DatabaseExporter`: reads of a file
  format, without state to go wrong; the exporter is modelled by what it exports.
- The record writers of `DatabaseImporter`, which only tests use.
- Function flags, the memory map and the creation of functions that Binary Ninja
  missed: they go into the view and nothing reads them back.
- Calling conventions in the export of databases older than Ghidra 11.
- Open into a new view, download to disk, history: one read of the server and a
  file the user picks.
- The event handler shared by several panels, and the lifetime of a panel behind
  its workers: destruction of a Qt object is undefined behaviour without a
  statement to check.
- Data races on single words and on containers (`m_eventHandler`, the maps of the
  check-in state): the order of the accesses is modelled, what a map that is read
  while it is written looks like is not, for the same reason.
- Which server `ghidra.server` of a project names, when its files come from two.
