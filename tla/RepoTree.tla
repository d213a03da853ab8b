------------------------------ MODULE RepoTree ------------------------------
(***************************************************************************)
(* The repository tree of the sidebar (plugin/src/ui/ProjectPanel.cpp).    *)
(* The UI thread owns the nodes.  Listing repositories, fetching a folder  *)
(* and disconnecting run on worker threads, which finish in any order and  *)
(* post a callback to the UI thread's queue.  The callback of expandFolder *)
(* keeps the address of a node; m_treeGeneration is there to tell it that  *)
(* the node has been deleted.  Nodes are numbered as they are made: one    *)
(* that is neither in the tree nor detached from it is a dangling pointer. *)
(***************************************************************************)
EXTENDS Integers, Sequences

CONSTANTS Repos,     \* repositories the server lists
          MaxNodes,  \* bound on the tree nodes ever made
          MaxJobs    \* bound on the worker jobs ever started

ASSUME BoundsAssumption == MaxNodes \in Nat /\ MaxJobs \in Nat

Nodes == 1..MaxNodes
None == 0

VARIABLES
  server,   \* the bridge is connected to the Ghidra server
  buttons,  \* which of the panel's buttons are enabled
  gen,      \* m_treeGeneration
  alive,    \* nodes in the tree
  detached, \* nodes taken out of the tree with takeChildren(), never deleted
  nodes,    \* nodes made so far
  top,      \* top-level nodes, one per repository
  repoOf,   \* repoOf[n]: the repository n belongs to
  content,  \* content[n]: "loading" (placeholder child), "taken", "filled"
  copies,   \* copies[n]: how often n shows its content
  fills,    \* fills[n]: how often content was added to n (history)
  refetched,\* refetched[n]: how often an upload made n load again (history)
  jobs,     \* worker jobs in progress
  started,  \* jobs started so far
  queue,    \* callbacks posted to the UI thread
  cleared,  \* the tree was emptied without being rebuilt (history)
  dangling  \* what touched a deleted node (history)

vars == <<server, buttons, gen, alive, detached, nodes, top, repoOf, content, copies, fills,
          refetched, jobs, started, queue, cleared, dangling>>

panel == <<buttons, gen, alive, detached, nodes, top, repoOf, content, copies, fills,
           refetched, cleared, dangling>>

NoRepo == "none"
Buttons == {"connect", "disconnect", "refresh"}
Kinds == {"connect", "status", "refresh", "disconnect", "expand", "upload"}
Job == [n : Nat, kind : Kinds, node : Nodes \cup {None}, gen : Nat, again : SUBSET Repos,
        answer : {"none", "ok", "error"}]

TypeOK ==
  /\ server \in BOOLEAN
  /\ buttons \in SUBSET Buttons
  /\ gen \in Nat
  /\ alive \in SUBSET Nodes /\ detached \in SUBSET Nodes /\ top \in SUBSET alive
  /\ nodes \in 0..MaxNodes
  /\ repoOf \in [Nodes -> Repos \cup {NoRepo}]
  /\ content \in [Nodes -> {"loading", "taken", "filled"}]
  /\ copies \in [Nodes -> Nat] /\ fills \in [Nodes -> Nat] /\ refetched \in [Nodes -> Nat]
  /\ jobs \in SUBSET Job
  /\ started \in 0..MaxJobs
  /\ queue \in Seq(Job)
  /\ cleared \in BOOLEAN
  /\ dangling \in SUBSET {"rebuilt", "cleared"}

UpdateConnectionButtons(connected) ==
  IF connected THEN {"disconnect", "refresh"} ELSE {"connect"}

Init ==
  /\ server = FALSE
  /\ buttons = UpdateConnectionButtons(FALSE)
  /\ gen = 0 /\ alive = {} /\ detached = {} /\ top = {} /\ nodes = 0
  /\ repoOf = [n \in Nodes |-> NoRepo]
  /\ content = [n \in Nodes |-> "loading"]
  /\ copies = [n \in Nodes |-> 0]
  /\ fills = [n \in Nodes |-> 0]
  /\ refetched = [n \in Nodes |-> 0]
  /\ jobs = {} /\ started = 0 /\ queue = <<>>
  /\ cleared = TRUE /\ dangling = {}

-----------------------------------------------------------------------------
(* Worker jobs *)

\* Workers start; one for each of a set of nodes when folders are fetched.
\* The number tells a job from the others in progress.
Enqueue(kind, N, again, g) ==
  LET number == CHOOSE k \in 1..MaxJobs : \A j \in jobs : j.n # k IN
  /\ started < MaxJobs \/ N = {}
  /\ started' = IF N = {} THEN started ELSE started + 1
  /\ jobs' = jobs \cup {[n |-> number, kind |-> kind, node |-> n, gen |-> g,
                         again |-> again, answer |-> "none"] : n \in N}

\* The bridge answers a worker's requests.  A failed connect may or may not
\* leave a connection behind; everything else needs one to succeed.
Answer(j) ==
  /\ j \in jobs /\ j.answer = "none"
  /\ \E answer \in {"ok", "error"} :
       /\ jobs' = (jobs \ {j}) \cup {[j EXCEPT !.answer = answer]}
       /\ \/ j.kind = "connect" /\ server' \in {TRUE, answer = "ok"}
          \/ j.kind = "disconnect" /\ server' = FALSE
          \/ /\ j.kind \in {"status", "refresh", "expand", "upload"}
             /\ answer = "ok" => server
             /\ UNCHANGED server
  /\ UNCHANGED <<panel, started, queue>>

\* invokeMethod(..., Qt::QueuedConnection): the worker posts its callback.
Post(j) ==
  /\ j \in jobs /\ j.answer # "none"
  /\ jobs' = jobs \ {j}
  /\ queue' = Append(queue, [j EXCEPT !.n = 0])
  /\ UNCHANGED <<panel, server, started>>

-----------------------------------------------------------------------------
(* What the user and the panel start *)

\* onConnectClicked(), and connectAndCheckLinked() from the banner, which
\* is shown whenever the open view is linked to another server.
OnConnectClicked ==
  /\ Enqueue("connect", {None}, {}, 0)
  /\ buttons' = buttons \ {"connect"}
  /\ UNCHANGED <<server, gen, alive, detached, nodes, top, repoOf, content, copies, fills,
                 refetched, queue, cleared, dangling>>

\* refreshStatus() after a view change or a delete, whatever the buttons say.
RefreshStatus ==
  /\ Enqueue("status", {None}, Repos, 0)
  /\ UNCHANGED <<panel, server, queue>>

\* onRefreshClicked(): remembers which repositories are expanded.  The button
\* calls it, and so do the callbacks of a check-in, a termination or a delete,
\* whatever the buttons say.
OnRefreshClicked ==
  /\ \E again \in SUBSET {repoOf[n] : n \in {m \in top : content[m] # "loading"}} :
       Enqueue("refresh", {None}, again, 0)
  /\ buttons' = buttons \ {"refresh"}
  /\ UNCHANGED <<server, gen, alive, detached, nodes, top, repoOf, content, copies, fills,
                 refetched, queue, cleared, dangling>>

\* onDisconnectClicked(); the button stays enabled until the callback.
OnDisconnectClicked ==
  /\ "disconnect" \in buttons
  /\ Enqueue("disconnect", {None}, {}, 0)
  /\ UNCHANGED <<panel, server, queue>>

\* uploadToGhidra() into one of the repositories.
UploadToGhidra ==
  /\ \E r \in Repos : Enqueue("upload", {None}, {r}, 0)
  /\ UNCHANGED <<panel, server, queue>>

\* Mutant: the placeholder stays until the content arrives.
TakeChildrenLate(n) == UNCHANGED content

\* takeChildren(): the placeholder goes before the fetch starts.
TakeChildren(n) == content' = [content EXCEPT ![n] = "taken"]

\* onRepoItemExpanded() and expandFolder() on a node that still shows the
\* placeholder; expanding any other node does nothing.
OnRepoItemExpanded(n) ==
  /\ n \in alive /\ content[n] = "loading"
  /\ TakeChildren(n)
  /\ Enqueue("expand", {n}, {}, gen)
  /\ UNCHANGED <<server, buttons, gen, alive, detached, nodes, top, repoOf, copies, fills,
                 refetched, queue, cleared, dangling>>

-----------------------------------------------------------------------------
(* Callbacks on the UI thread *)

NoEffect ==
  UNCHANGED <<gen, alive, detached, nodes, top, repoOf, content, copies, fills, refetched,
              jobs, started, cleared, dangling>>

\* Mutant: the generation is not advanced when the tree is rebuilt.
NextGenerationSame == gen

\* Mutant: the generation runs backwards.
NextGenerationBack == gen - 1

\* ++m_treeGeneration
NextGeneration == gen + 1

\* populateRepos() and the setExpanded() calls that follow: a new node per
\* repository, and at once a fetch for each of those in `again'.
PopulateRepos(again) ==
  \E node \in [Repos -> Nodes] :
    LET fetched == {node[r] : r \in again} IN
    /\ \A r, q \in Repos : r # q => node[r] # node[q]
    /\ \A r \in Repos : node[r] > nodes
    /\ \A r \in Repos : \A k \in (nodes + 1)..node[r] : \E q \in Repos : node[q] = k
    /\ gen' = NextGeneration
    /\ alive' = {node[r] : r \in Repos}
    /\ top' = alive'
    /\ nodes' \in alive' /\ \A n \in alive' : n <= nodes'
    /\ repoOf' = [n \in Nodes |-> IF \E r \in Repos : node[r] = n
                                    THEN CHOOSE r \in Repos : node[r] = n ELSE repoOf[n]]
    /\ content' = [n \in Nodes |-> IF n \in fetched THEN "taken" ELSE content[n]]
    /\ Enqueue("expand", fetched, {}, gen')
    /\ cleared' = FALSE
    /\ UNCHANGED <<detached, copies, fills, refetched, dangling>>

\* The disconnect callback empties the tree and leaves the generation alone.
ClearTree ==
  /\ alive' = {} /\ top' = {} /\ cleared' = TRUE
  /\ UNCHANGED <<gen, detached, nodes, repoOf, content, copies, fills, refetched, jobs, started,
                 dangling>>

\* The folder's content is added below the node; at most one subfolder, a
\* node that can be expanded in its turn, is modelled.
FillNode(n) ==
  /\ fills' = [fills EXCEPT ![n] = @ + 1]
  /\ copies' = [copies EXCEPT ![n] = @ + 1]
  /\ content' = [content EXCEPT ![n] = "filled"]
  /\ \/ UNCHANGED <<alive, nodes, repoOf>>
     \/ /\ nodes < MaxNodes /\ n \in alive
        /\ nodes' = nodes + 1
        /\ alive' = alive \cup {nodes + 1}
        /\ repoOf' = [repoOf EXCEPT ![nodes + 1] = repoOf[n]]
  /\ UNCHANGED <<gen, detached, top, refetched, jobs, started, cleared, dangling>>

\* A node that has been deleted is written to.
Dangle ==
  /\ dangling' = dangling \cup {IF cleared THEN "cleared" ELSE "rebuilt"}
  /\ UNCHANGED <<gen, alive, detached, nodes, top, repoOf, content, copies, fills, refetched,
                 jobs, started, cleared>>

\* The callback of expandFolder(): nothing for an older generation, an
\* error or an empty folder.
ExpandCallback(c) ==
  \/ NoEffect
  \/ /\ c.gen = gen /\ c.answer = "ok"
     /\ IF c.node \in alive \cup detached THEN FillNode(c.node) ELSE Dangle

\* The callback of a connect: on success the tree is listed.
ConnectCallback(c) ==
  /\ buttons' = UpdateConnectionButtons(c.answer = "ok")
  /\ IF c.answer = "ok" THEN Enqueue("status", {None}, Repos, 0) ELSE UNCHANGED <<jobs, started>>
  /\ UNCHANGED <<gen, alive, detached, nodes, top, repoOf, content, copies, fills, refetched,
                 cleared, dangling>>

\* The callback of a listing; that of onRefreshClicked also enables its button.
ListCallback(c) ==
  /\ buttons' = IF c.kind = "refresh" THEN buttons \cup {"refresh"} ELSE buttons
  /\ IF c.answer = "ok" THEN PopulateRepos(c.again) ELSE NoEffect

\* The callback of an upload: the node of the repository is emptied, gets the
\* placeholder back and is expanded, which fetches it again.
UploadCallback(c) ==
  IF c.answer = "ok" /\ \E n \in top : repoOf[n] \in c.again
    THEN \E n \in top :
           /\ repoOf[n] \in c.again
           /\ detached' = detached \cup {m \in alive \ top : repoOf[m] = repoOf[n]}
           /\ alive' = alive \ detached'
           /\ copies' = [copies EXCEPT ![n] = 0]
           /\ refetched' = [refetched EXCEPT ![n] = @ + 1]
           /\ content' = [content EXCEPT ![n] = "taken"]
           /\ Enqueue("expand", {n}, {}, gen)
           /\ UNCHANGED <<gen, nodes, top, repoOf, fills, cleared, dangling>>
    ELSE NoEffect

RunCallback ==
  /\ queue # <<>>
  /\ queue' = Tail(queue)
  /\ UNCHANGED server
  /\ LET c == Head(queue) IN
       \/ c.kind = "connect" /\ ConnectCallback(c)
       \/ c.kind \in {"status", "refresh"} /\ ListCallback(c)
       \/ c.kind = "expand" /\ ExpandCallback(c) /\ UNCHANGED buttons
       \/ c.kind = "upload" /\ UploadCallback(c) /\ UNCHANGED buttons
       \/ c.kind = "disconnect" /\ ClearTree /\ buttons' = UpdateConnectionButtons(FALSE)

-----------------------------------------------------------------------------
Next ==
  \/ OnConnectClicked \/ RefreshStatus \/ OnRefreshClicked \/ OnDisconnectClicked
  \/ UploadToGhidra
  \/ \E n \in Nodes : OnRepoItemExpanded(n)
  \/ \E j \in jobs : Answer(j) \/ Post(j)
  \/ RunCallback

Spec == Init /\ [][Next]_vars

-----------------------------------------------------------------------------
(* Properties *)

\* ProjectPanel.h:82-85: a callback of expandFolder never writes through a
\* node that a rebuild of the tree has deleted, in whatever order listings,
\* fetches and rebuilds finish.
NoWriteAfterRebuild == "rebuilt" \notin dangling

\* Expanding a node again while its folder is being fetched starts no second
\* fetch (onRepoItemExpanded): its content is added once, and once more for
\* each upload that had it fetched again.
FetchedOnce == \A n \in Nodes : fills[n] <= 1 + refetched[n]

\* ProjectPanel.cpp:1222: "If the tree was rebuilt while we were fetching,
\* our `parent` pointer is dangling - bail out before touching any tree
\* nodes."  No callback touches a deleted node.
NoDanglingNode == dangling = {}

\* ProjectPanel.h:82-85: the generation is there for "preventing stale
\* callbacks from writing into a freshly-rebuilt tree".  No node of the tree
\* shows its content twice.
NoDuplicateEntries == \A n \in alive : copies[n] <= 1
=============================================================================
