--------------------------- MODULE RepoTreeProofs ---------------------------
(***************************************************************************)
(* Proofs that no fetch writes into a node that a rebuild of the tree has  *)
(* deleted, that the state keeps its type, and that a node's content is    *)
(* added once for each reason to fetch it, for any number of repositories, *)
(* nodes and worker jobs.                                                  *)
(***************************************************************************)
EXTENDS RepoTree, FiniteSetTheorems, TLAPS

\* A job as it is posted, without the number it had among the workers.
Callback == [n : {0}, kind : Kinds, node : Nodes \cup {None}, gen : Nat,
             again : SUBSET Repos, answer : {"none", "ok", "error"}]

Posted(j) == [j EXCEPT !.n = 0]

\* The types the argument needs.
TreeTypes ==
  /\ gen \in Nat /\ nodes \in 0..MaxNodes
  /\ alive \in SUBSET Nodes /\ top \in SUBSET alive
  /\ repoOf \in [Nodes -> Repos \cup {NoRepo}]
  /\ \A n \in alive : repoOf[n] \in Repos
  /\ cleared \in BOOLEAN
  /\ detached \in SUBSET Nodes

\* Nodes are numbered as they are made, and a detached one never comes back.
NodesOK ==
  /\ \A n \in alive \cup detached : n <= nodes
  /\ alive \cap detached = {}

\* A fetch started for generation g or an earlier one; if for g, then it has
\* one of the nodes N, unless the tree was emptied by a disconnect.
Current(c, g, emptied, N) ==
  c.kind = "expand" => c.gen <= g /\ (c.gen = g /\ ~emptied => c.node \in N)

Later(c) == Posted(c) \in Callback /\ Current(c, gen', cleared', alive' \cup detached')

JobsOK == \A j \in jobs : Posted(j) \in Callback /\ Current(j, gen, cleared, alive \cup detached)

QueueOK ==
  /\ queue \in Seq(Callback)
  /\ \A k \in 1..Len(queue) : Current(queue[k], gen, cleared, alive \cup detached)

\* The inductive invariant.
IInv == TreeTypes /\ NodesOK /\ JobsOK /\ QueueOK /\ NoWriteAfterRebuild

\* The panel starts with an empty tree and nothing in progress.
LEMMA InitIInv == Init => IInv
BY BoundsAssumption
   DEF Init, IInv, TreeTypes, NodesOK, JobsOK, QueueOK, NoWriteAfterRebuild, Nodes

\* The generation only grows, and within one generation a node goes only with
\* the whole tree, which stays empty.
Grows ==
  /\ gen' \in Nat /\ gen' >= gen
  /\ gen' = gen => cleared' \/ (~cleared /\ alive \cup detached \subseteq alive' \cup detached')

\* A job's fields are those of the callback it becomes.
LEMMA Fields ==
  ASSUME NEW c, Posted(c) \in Callback
  PROVE  /\ c.kind \in Kinds /\ c.node \in Nodes \cup {None} /\ c.gen \in Nat
         /\ c.again \in SUBSET Repos
         /\ Posted(c).kind = c.kind /\ Posted(c).node = c.node /\ Posted(c).gen = c.gen
BY DEF Posted, Callback

\* A fetch stays current as long as the tree grows.
LEMMA StaysCurrent ==
  ASSUME TreeTypes, Grows, NEW c, c.gen \in Nat, Current(c, gen, cleared, alive \cup detached)
  PROVE  Current(c, gen', cleared', alive' \cup detached')
BY DEF TreeTypes, Grows, Current

\* The jobs that were there stay current.
LEMMA JobsStay ==
  ASSUME TreeTypes, JobsOK, Grows, NEW j \in jobs
  PROVE  Later(j)
BY StaysCurrent, Fields, Zenon DEF JobsOK, Later

\* A queue that is not touched stays current.
LEMMA QueueStays ==
  ASSUME TreeTypes, QueueOK, Grows, UNCHANGED queue
  PROVE  QueueOK'
<1>1. \A k \in 1..Len(queue) : queue[k] \in Callback
  BY DEF QueueOK
<1>2. \A c \in Callback : c.gen \in Nat
  BY DEF Callback
<1> QED
  BY <1>1, <1>2, StaysCurrent, Zenon DEF QueueOK

\* Taking the first callback from the queue.
LEMMA QueueTaken ==
  ASSUME TreeTypes, QueueOK, queue # <<>>, queue' = Tail(queue)
  PROVE  /\ Head(queue) \in Callback
         /\ Current(Head(queue), gen, cleared, alive \cup detached)
         /\ Grows => QueueOK'
<1>1. /\ queue \in Seq(Callback) /\ Len(queue) \in Nat /\ Len(queue) >= 1
      /\ Head(queue) = queue[1] /\ queue' \in Seq(Callback) /\ Len(queue') = Len(queue) - 1
      /\ \A k \in 1..Len(queue') : k + 1 \in 1..Len(queue) /\ queue'[k] = queue[k + 1]
  BY DEF QueueOK
<1>2. \A k \in 1..Len(queue) : queue[k] \in Callback
  BY <1>1
<1>3. \A c \in Callback : c.gen \in Nat
  BY DEF Callback
<1>4. Grows => \A k \in 1..Len(queue) : Current(queue[k], gen', cleared', alive' \cup detached')
  BY <1>2, <1>3, StaysCurrent, Zenon DEF QueueOK
<1>5. Grows => QueueOK'
  BY <1>1, <1>4 DEF QueueOK
<1>6. Head(queue) = queue[1] /\ 1 \in 1..Len(queue)
  BY <1>1
<1>7. Current(queue[1], gen, cleared, alive \cup detached)
  BY <1>6, Zenon DEF QueueOK
<1> QED
  BY <1>2, <1>5, <1>6, <1>7

\* New workers: for a fetch, on nodes of the tree as it is after the step.
LEMMA Enqueued ==
  ASSUME TreeTypes, JobsOK, Grows,
         NEW kind \in Kinds, NEW N \in SUBSET (Nodes \cup {None}),
         NEW again \in SUBSET Repos, NEW g \in Nat,
         Enqueue(kind, N, again, g),
         kind = "expand" => g = gen' /\ N \subseteq alive' \cup detached'
  PROVE  JobsOK'
<1> DEFINE number == CHOOSE k \in 1..MaxJobs : \A j \in jobs : j.n # k
<1>1. jobs' = jobs \cup {[n |-> number, kind |-> kind, node |-> n, gen |-> g,
                          again |-> again, answer |-> "none"] : n \in N}
  BY DEF Enqueue
<1> HIDE DEF number
<1>2. ASSUME NEW n \in N
      PROVE  Later([n |-> number, kind |-> kind, node |-> n, gen |-> g,
                    again |-> again, answer |-> "none"])
  BY <1>2 DEF Later, Posted, Callback, Current, Grows
<1>3. \A j \in jobs' : Later(j)
  BY <1>1, <1>2, JobsStay
<1> QED
  BY <1>3 DEF JobsOK, Later

\* Jobs that are not touched stay current.
LEMMA JobsKept ==
  ASSUME TreeTypes, JobsOK, Grows, jobs' \subseteq jobs
  PROVE  JobsOK'
BY JobsStay DEF JobsOK, Later

\* A step that leaves the tree alone: the tree grows, trivially.
LEMMA TreeKept ==
  ASSUME TreeTypes, UNCHANGED <<gen, alive, detached, nodes, top, repoOf, cleared>>
  PROVE  TreeTypes' /\ Grows /\ (NodesOK => NodesOK')
BY DEF TreeTypes, NodesOK, Grows

\* What the user and the panel start adds a job and leaves the tree alone.
LEMMA StartKeeps ==
  ASSUME IInv,
         \/ OnConnectClicked \/ RefreshStatus \/ OnRefreshClicked \/ OnDisconnectClicked
         \/ UploadToGhidra \/ \E n \in Nodes : OnRepoItemExpanded(n)
  PROVE  IInv'
<1> USE DEF IInv
<1>1. UNCHANGED <<gen, alive, detached, nodes, top, repoOf, cleared, queue, dangling>>
  BY Zenon DEF OnConnectClicked, RefreshStatus, OnRefreshClicked, OnDisconnectClicked, UploadToGhidra,
         OnRepoItemExpanded, panel
<1>2. TreeTypes' /\ NodesOK' /\ Grows /\ QueueOK' /\ NoWriteAfterRebuild'
  BY <1>1, TreeKept, QueueStays DEF NoWriteAfterRebuild
<1>3. /\ 0 \in Nat /\ {None} \in SUBSET (Nodes \cup {None})
      /\ {} \in SUBSET Repos /\ Repos \in SUBSET Repos
      /\ \A r \in Repos : {r} \in SUBSET Repos
  OBVIOUS
<1>4. CASE OnConnectClicked
  BY <1>2, <1>3, <1>4, Enqueued DEF OnConnectClicked, Kinds
<1>5. CASE RefreshStatus
  BY <1>2, <1>3, <1>5, Enqueued DEF RefreshStatus, Kinds
<1>6. CASE OnRefreshClicked
  <2>1. PICK again \in SUBSET {repoOf[n] : n \in {m \in top : content[m] # "loading"}} :
          Enqueue("refresh", {None}, again, 0)
    BY <1>6 DEF OnRefreshClicked
  <2>2. again \in SUBSET Repos
    BY DEF TreeTypes
  <2> QED
    BY <1>2, <1>3, <2>1, <2>2, Enqueued DEF Kinds
<1>7. CASE OnDisconnectClicked
  BY <1>2, <1>3, <1>7, Enqueued DEF OnDisconnectClicked, Kinds
<1>8. CASE UploadToGhidra
  BY <1>2, <1>3, <1>8, Enqueued DEF UploadToGhidra, Kinds
<1>9. ASSUME NEW n \in Nodes, OnRepoItemExpanded(n) PROVE IInv'
  BY <1>1, <1>2, <1>3, <1>9, Enqueued DEF OnRepoItemExpanded, Kinds, TreeTypes
<1> QED
  BY <1>4, <1>5, <1>6, <1>7, <1>8, <1>9

\* The workers change neither the tree nor the fetch they work for.
LEMMA WorkersKeep ==
  ASSUME IInv, NEW j \in jobs, Answer(j) \/ Post(j)
  PROVE  IInv'
<1> USE DEF IInv
<1>1. UNCHANGED panel
  BY Zenon DEF Answer, Post
<1>2. TreeTypes' /\ NodesOK' /\ Grows /\ NoWriteAfterRebuild'
  BY <1>1, TreeKept DEF NoWriteAfterRebuild, panel
<1>3. Posted(j) \in Callback /\ Later(j)
  BY <1>2, JobsStay DEF Later
<1>4. CASE Answer(j)
  <2>1. PICK answer \in {"ok", "error"} :
          jobs' = (jobs \ {j}) \cup {[j EXCEPT !.answer = answer]}
    BY <1>4 DEF Answer
  <2>2. Later([j EXCEPT !.answer = answer])
    BY <1>3, Zenon DEF Later, Posted, Callback, Current
  <2>3. JobsOK'
    BY <1>2, <2>1, <2>2, JobsStay, Zenon DEF JobsOK, Later
  <2> QED
    BY <1>2, <1>4, <2>3, QueueStays DEF Answer
<1>5. CASE Post(j)
  <2>1. JobsOK'
    BY <1>2, <1>5, JobsKept DEF Post
  <2>2. queue' = Append(queue, Posted(j))
    BY <1>5 DEF Post, Posted
  <2>3. Current(Posted(j), gen, cleared, alive \cup detached)
    BY <1>3, Fields DEF JobsOK, Current
  <2>4. queue' \in Seq(Callback) /\ \A k \in 1..Len(queue') : Current(queue'[k], gen, cleared, alive \cup detached)
    <3>1. queue \in Seq(Callback) /\ Posted(j) \in Callback
      BY <1>3 DEF QueueOK
    <3>2. /\ queue' \in Seq(Callback) /\ Len(queue) \in Nat /\ Len(queue') = Len(queue) + 1
          /\ \A k \in 1..Len(queue) : queue'[k] = queue[k]
          /\ queue'[Len(queue) + 1] = Posted(j)
      BY <2>2, <3>1
    <3>3. ASSUME NEW k \in 1..Len(queue')
          PROVE  Current(queue'[k], gen, cleared, alive \cup detached)
      <4>1. CASE k \in 1..Len(queue)
        BY <3>2, <4>1, Zenon DEF QueueOK
      <4>2. CASE k = Len(queue) + 1
        BY <2>3, <3>2, <4>2
      <4> QED
        BY <3>2, <4>1, <4>2
    <3> QED
      BY <3>2, <3>3, Zenon
  <2>5. QueueOK'
    BY <1>1, <2>4, Zenon DEF QueueOK, panel
  <2> QED
    BY <1>2, <2>1, <2>5
<1> QED
  BY <1>4, <1>5

\* populateRepos() begins a generation: the fetches it starts are on new
\* nodes, and all the others belong to an earlier one.
LEMMA PopulateKeeps ==
  ASSUME IInv, NEW again \in SUBSET Repos, PopulateRepos(again)
  PROVE  TreeTypes' /\ NodesOK' /\ Grows /\ JobsOK' /\ NoWriteAfterRebuild'
<1> USE DEF IInv
<1>1. PICK node \in [Repos -> Nodes] :
        /\ \A r \in Repos : node[r] > nodes
        /\ gen' = gen + 1
        /\ alive' = {node[r] : r \in Repos}
        /\ top' = alive'
        /\ nodes' \in alive' /\ \A n \in alive' : n <= nodes'
        /\ repoOf' = [n \in Nodes |-> IF \E r \in Repos : node[r] = n
                                        THEN CHOOSE r \in Repos : node[r] = n ELSE repoOf[n]]
        /\ Enqueue("expand", {node[r] : r \in again}, {}, gen')
        /\ cleared' = FALSE
        /\ UNCHANGED <<detached, dangling>>
  BY Zenon DEF PopulateRepos, NextGeneration
<1>2. Grows
  BY <1>1 DEF Grows, TreeTypes
<1>3. TreeTypes'
  <2>1. alive' \in SUBSET Nodes
    BY <1>1
  <2>2. gen' \in Nat /\ nodes' \in 0..MaxNodes /\ top' \in SUBSET alive' /\ cleared' \in BOOLEAN
    <3>1. nodes' \in Nodes
      BY <1>1, <2>1
    <3>2. \A n \in Nodes : n \in 0..MaxNodes
      BY BoundsAssumption DEF Nodes
    <3>3. gen' \in Nat
      BY <1>1 DEF TreeTypes
    <3>4. top' \in SUBSET alive' /\ cleared' \in BOOLEAN
      BY Zenon, <1>1
    <3> QED
      BY <3>1, <3>2, <3>3, <3>4
  <2>3. repoOf' \in [Nodes -> Repos \cup {NoRepo}]
    BY Zenon, <1>1 DEF TreeTypes
  <2>4. \A n \in alive' : repoOf'[n] \in Repos
    BY Zenon, <1>1, <2>1
  <2>5. detached' \in SUBSET Nodes
    BY <1>1 DEF TreeTypes
  <2> QED
    BY <2>1, <2>2, <2>3, <2>4, <2>5 DEF TreeTypes
<1>4. JobsOK'
  <2>1. {node[r] : r \in again} \in SUBSET (Nodes \cup {None}) /\ {node[r] : r \in again} \subseteq alive'
    BY <1>1
  <2>2. "expand" \in Kinds /\ {} \in SUBSET Repos /\ gen' \in Nat
    BY <1>3 DEF Kinds, TreeTypes
  <2> QED
    BY <1>1, <1>2, <2>1, <2>2, Enqueued
<1>5. NodesOK'
  <2>1. \A n \in alive' : n \in Int /\ n > nodes /\ n <= nodes'
    BY <1>1 DEF Nodes
  <2>2. nodes' > nodes /\ nodes' \in Int
    BY <1>1, <2>1
  <2>3. \A n \in detached : n \in Int /\ n <= nodes
    BY DEF TreeTypes, Nodes, NodesOK
  <2> QED
    BY <1>1, <2>1, <2>2, <2>3 DEF NodesOK, TreeTypes
<1> QED
  BY <1>1, <1>2, <1>3, <1>4, <1>5 DEF NoWriteAfterRebuild

\* An upload takes nodes out of the tree, but keeps them; the one it fetches
\* again is a top-level node.
LEMMA UploadKeeps ==
  ASSUME IInv, NEW c \in Callback, UploadCallback(c)
  PROVE  TreeTypes' /\ NodesOK' /\ Grows /\ JobsOK' /\ NoWriteAfterRebuild'
<1> USE DEF IInv
<1>1. CASE NoEffect
  BY <1>1, TreeKept, JobsKept DEF NoEffect, NoWriteAfterRebuild
<1>2. CASE ~NoEffect
  <2>1. PICK n \in top :
          /\ detached' = detached \cup {m \in alive \ top : repoOf[m] = repoOf[n]}
          /\ alive' = alive \ detached'
          /\ Enqueue("expand", {n}, {}, gen)
          /\ UNCHANGED <<gen, nodes, top, repoOf, cleared, dangling>>
    BY <1>2, Zenon DEF UploadCallback
  <2>2. Grows
    BY <2>1 DEF Grows, TreeTypes
  <2>3. TreeTypes'
    <3>1. alive' \in SUBSET Nodes /\ \A m \in alive' : repoOf'[m] \in Repos
      BY <2>1 DEF TreeTypes
    <3>2. top' \in SUBSET alive' /\ detached' \in SUBSET Nodes
      BY <2>1 DEF TreeTypes, NodesOK
    <3> QED
      BY <2>1, <3>1, <3>2 DEF TreeTypes
  <2>4. JobsOK'
    <3>1. {n} \in SUBSET (Nodes \cup {None}) /\ {n} \subseteq alive' \cup detached'
      BY <2>1 DEF TreeTypes
    <3>2. "expand" \in Kinds /\ {} \in SUBSET Repos /\ gen \in Nat /\ gen' = gen
      BY <2>1 DEF Kinds, TreeTypes
    <3> QED
      BY <2>1, <2>2, <3>1, <3>2, Enqueued
  <2>5. NodesOK'
    BY <2>1 DEF NodesOK
  <2> QED
    BY <2>1, <2>2, <2>3, <2>4, <2>5 DEF NoWriteAfterRebuild
<1> QED
  BY <1>1, <1>2

\* The callback of a fetch fills its node; it can meet a deleted one only
\* when the tree was emptied.
LEMMA ExpandKeeps ==
  ASSUME IInv, NEW c \in Callback, c.kind = "expand",
         Current(c, gen, cleared, alive \cup detached), ExpandCallback(c)
  PROVE  TreeTypes' /\ NodesOK' /\ Grows /\ JobsOK' /\ NoWriteAfterRebuild'
<1> USE DEF IInv
<1>1. CASE NoEffect
  BY <1>1, TreeKept, JobsKept DEF NoEffect, NoWriteAfterRebuild
<1>2. CASE FillNode(c.node)
  <2>1. /\ \/ UNCHANGED <<alive, nodes, repoOf>>
           \/ /\ nodes < MaxNodes /\ c.node \in alive
              /\ nodes' = nodes + 1
              /\ alive' = alive \cup {nodes + 1}
              /\ repoOf' = [repoOf EXCEPT ![nodes + 1] = repoOf[c.node]]
        /\ UNCHANGED <<gen, detached, top, jobs, cleared, dangling>>
    BY <1>2 DEF FillNode
  <2>2. Grows
    BY <2>1 DEF Grows, TreeTypes
  <2>3. TreeTypes'
    <3>1. CASE UNCHANGED <<alive, nodes, repoOf>>
      BY <2>1, <3>1 DEF TreeTypes
    <3>2. CASE ~UNCHANGED <<alive, nodes, repoOf>>
      <4>1. /\ nodes + 1 \in Nodes /\ nodes' = nodes + 1 /\ nodes' \in 0..MaxNodes
            /\ c.node \in alive /\ alive' = alive \cup {nodes'}
            /\ repoOf' = [repoOf EXCEPT ![nodes'] = repoOf[c.node]]
        BY <2>1, <3>2, BoundsAssumption DEF TreeTypes, Nodes
      <4> QED
        BY <2>1, <4>1 DEF TreeTypes
    <3> QED
      BY <3>1, <3>2
  <2>4. NodesOK'
    <3>1. \A n \in alive \cup detached : n \in Int /\ n <= nodes /\ nodes \in Int
      BY DEF TreeTypes, Nodes, NodesOK
    <3> QED
      BY <2>1, <3>1 DEF NodesOK
  <2> QED
    BY <2>1, <2>2, <2>3, <2>4, JobsKept DEF NoWriteAfterRebuild
<1>3. CASE c.gen = gen /\ c.node \notin alive \cup detached /\ Dangle
  <2>1. cleared
    BY <1>3 DEF Current, TreeTypes
  <2> QED
    BY <1>3, <2>1, TreeKept, JobsKept DEF Dangle, NoWriteAfterRebuild
<1> QED
  BY <1>1, <1>2, <1>3 DEF ExpandCallback

\* Whatever callback the UI thread runs next keeps the invariant.
LEMMA CallbackKeeps == IInv /\ RunCallback => IInv'
<1> SUFFICES ASSUME IInv, RunCallback PROVE IInv'
  OBVIOUS
<1> DEFINE c == Head(queue)
<1>1. /\ c \in Callback /\ Current(c, gen, cleared, alive \cup detached)
      /\ Grows => QueueOK'
  BY QueueTaken DEF IInv, RunCallback
<1>2. SUFFICES TreeTypes' /\ NodesOK' /\ Grows /\ JobsOK' /\ NoWriteAfterRebuild'
  BY <1>1 DEF IInv
<1>3. \/ c.kind = "connect" /\ ConnectCallback(c)
      \/ c.kind \in {"status", "refresh"} /\ ListCallback(c)
      \/ c.kind = "expand" /\ ExpandCallback(c)
      \/ c.kind = "upload" /\ UploadCallback(c)
      \/ ClearTree
  BY Zenon DEF RunCallback
<1> HIDE DEF c
<1>4. CASE ConnectCallback(c)
  <2>1. /\ TreeTypes' /\ NodesOK' /\ Grows /\ NoWriteAfterRebuild'
    BY <1>4, TreeKept DEF ConnectCallback, IInv, NoWriteAfterRebuild
  <2>2. CASE UNCHANGED <<jobs, started>>
    BY <2>1, <2>2, JobsKept DEF IInv
  <2>3. CASE Enqueue("status", {None}, Repos, 0)
    BY <2>1, <2>3, Enqueued DEF IInv, Kinds
  <2> QED
    BY <1>4, <2>1, <2>2, <2>3 DEF ConnectCallback
<1>5. CASE ListCallback(c)
  <2>1. CASE NoEffect
    BY <2>1, TreeKept, JobsKept DEF NoEffect, NoWriteAfterRebuild, IInv
  <2>2. CASE PopulateRepos(c.again)
    BY <1>1, <2>2, PopulateKeeps DEF Callback
  <2> QED
    BY <1>5, <2>1, <2>2 DEF ListCallback
<1>6. CASE c.kind = "expand" /\ ExpandCallback(c)
  BY <1>1, <1>6, ExpandKeeps
<1>7. CASE UploadCallback(c)
  BY <1>1, <1>7, UploadKeeps
<1>8. CASE ClearTree
  <2>1. Grows /\ TreeTypes' /\ NodesOK' /\ NoWriteAfterRebuild'
    BY <1>8 DEF ClearTree, Grows, TreeTypes, NodesOK, IInv, NoWriteAfterRebuild
  <2> QED
    BY <1>8, <2>1, JobsKept DEF ClearTree, IInv
<1> QED
  BY <1>3, <1>4, <1>5, <1>6, <1>7, <1>8

\* Every step keeps the invariant.
LEMMA NextIInv == IInv /\ [Next]_vars => IInv'
<1> SUFFICES ASSUME IInv, [Next]_vars PROVE IInv'
  OBVIOUS
<1>1. CASE UNCHANGED vars
  BY <1>1, Zenon DEF vars, IInv, TreeTypes, NodesOK, JobsOK, QueueOK, NoWriteAfterRebuild
<1>2. CASE Next
  BY <1>2, StartKeeps, WorkersKeep, CallbackKeeps DEF Next
<1> QED
  BY <1>1, <1>2

\* In whatever order listings, fetches, uploads and rebuilds finish, no
\* callback of expandFolder writes through a node that a rebuild has deleted:
\* m_treeGeneration does what ProjectPanel.h:82-85 says it is for.
THEOREM RebuildIsSafe == Spec => []NoWriteAfterRebuild
<1>1. IInv => NoWriteAfterRebuild
  BY DEF IInv
<1> QED
  BY InitIInv, NextIInv, <1>1, PTL DEF Spec

-----------------------------------------------------------------------------
(* Types.  A new worker gets a number none of the others has: there is one,  *)
(* as no more numbers are in use than workers were ever started.             *)

Numbers == {j.n : j \in jobs}
NumbersOK == Numbers \subseteq 1..MaxJobs /\ Cardinality(Numbers) <= started

WorkTypes == jobs \subseteq Job /\ started \in 0..MaxJobs /\ NumbersOK

NodeTypes ==
  /\ content \in [Nodes -> {"loading", "taken", "filled"}]
  /\ copies \in [Nodes -> Nat] /\ fills \in [Nodes -> Nat] /\ refetched \in [Nodes -> Nat]

PanelTypes ==
  server \in BOOLEAN /\ buttons \subseteq Buttons /\ dangling \subseteq {"rebuilt", "cleared"}

LEMMA NumbersFinite == WorkTypes => IsFiniteSet(Numbers)
<1> SUFFICES ASSUME WorkTypes PROVE IsFiniteSet(Numbers)
  OBVIOUS
<1>1. 1 \in Int /\ MaxJobs \in Int
  BY BoundsAssumption
<1>2. IsFiniteSet(1..MaxJobs)
  BY <1>1, FS_Interval
<1>3. Numbers \in SUBSET (1..MaxJobs)
  BY DEF WorkTypes, NumbersOK
<1> HIDE DEF Numbers
<1> QED
  BY <1>2, <1>3, FS_Subset, Zenon

\* Enqueue() finds a free number as long as a worker may start.
LEMMA FreeNumber ==
  ASSUME WorkTypes, started < MaxJobs
  PROVE  (CHOOSE k \in 1..MaxJobs : \A j \in jobs : j.n # k) \in (1..MaxJobs) \ Numbers
<1>1. MaxJobs \in Nat /\ MaxJobs >= 1 /\ started \in Nat
  BY BoundsAssumption DEF WorkTypes
<1>2. IsFiniteSet(1..MaxJobs) /\ Cardinality(1..MaxJobs) = MaxJobs
  BY <1>1, FS_Interval
<1>3. Numbers # 1..MaxJobs
  BY <1>1, <1>2 DEF WorkTypes, NumbersOK
<1>4. \E k \in 1..MaxJobs : k \notin Numbers
  BY <1>3, Zenon DEF WorkTypes, NumbersOK
<1>5. \E k \in 1..MaxJobs : \A j \in jobs : j.n # k
  BY <1>4, Zenon DEF Numbers
<1> QED
  BY <1>5, Zenon DEF Numbers

\* Workers that end, or are answered, free numbers and take none.
LEMMA FewerNumbers ==
  ASSUME WorkTypes, Numbers' \subseteq Numbers, started' = started, jobs' \subseteq Job
  PROVE  WorkTypes'
<1>1. IsFiniteSet(Numbers)
  BY NumbersFinite
<1>2. Cardinality(Numbers') <= Cardinality(Numbers) /\ IsFiniteSet(Numbers')
  BY <1>1, FS_Subset
<1>3. Cardinality(Numbers') \in Nat /\ Cardinality(Numbers) \in Nat
  BY <1>1, <1>2, FS_CardinalityType
<1>4. started \in Nat /\ Cardinality(Numbers) <= started
  BY BoundsAssumption DEF WorkTypes, NumbersOK
<1>5. Cardinality(Numbers') <= started'
  BY <1>2, <1>3, <1>4
<1> QED
  BY <1>5 DEF WorkTypes, NumbersOK

LEMMA EnqueueTypes ==
  ASSUME WorkTypes, NEW kind \in Kinds, NEW N \in SUBSET (Nodes \cup {None}),
         NEW again \in SUBSET Repos, NEW g \in Nat, Enqueue(kind, N, again, g)
  PROVE  WorkTypes'
<1> DEFINE number == CHOOSE k \in 1..MaxJobs : \A j \in jobs : j.n # k
           new(n) == [n |-> number, kind |-> kind, node |-> n, gen |-> g,
                      again |-> again, answer |-> "none"]
<1>1. /\ started < MaxJobs \/ N = {}
      /\ started' = IF N = {} THEN started ELSE started + 1
      /\ jobs' = jobs \cup {new(n) : n \in N}
  BY DEF Enqueue
<1>2. started < MaxJobs => number \in 1..MaxJobs
  BY FreeNumber
<1>3. \A n \in N : new(n).n = number
  OBVIOUS
<1> HIDE DEF number
<1>4. number \in 1..MaxJobs => \A n \in N : new(n) \in Job
  BY BoundsAssumption DEF Job
<1> HIDE DEF new
<1>5. CASE N = {}
  <2>1. jobs' = jobs /\ started' = started
    BY <1>1, <1>5
  <2> QED
    BY <2>1, FewerNumbers DEF WorkTypes, Numbers
<1>6. CASE N # {}
  <2>1. /\ number \in 1..MaxJobs /\ started' = started + 1 /\ started < MaxJobs
        /\ \A n \in N : new(n) \in Job
    BY <1>1, <1>2, <1>4, <1>6
  <2>2. Numbers' \subseteq Numbers \cup {number}
    BY <1>1, <1>3 DEF Numbers
  <2>3. IsFiniteSet(Numbers) /\ Numbers \subseteq 1..MaxJobs /\ Cardinality(Numbers) <= started
    BY NumbersFinite DEF WorkTypes, NumbersOK
  <2>4. /\ IsFiniteSet(Numbers \cup {number})
        /\ Cardinality(Numbers \cup {number}) \in {Cardinality(Numbers), Cardinality(Numbers) + 1}
    BY <2>3, FS_AddElement
  <2>5. IsFiniteSet(Numbers') /\ Cardinality(Numbers') <= Cardinality(Numbers \cup {number})
    BY <2>2, <2>4, FS_Subset
  <2>6. Cardinality(Numbers) \in Nat /\ Cardinality(Numbers') \in Nat /\ started \in Nat
    BY <2>3, <2>5, FS_CardinalityType, BoundsAssumption DEF WorkTypes
  <2>7. Cardinality(Numbers') <= started'
    BY <2>1, <2>3, <2>4, <2>5, <2>6
  <2>8. Numbers' \subseteq 1..MaxJobs
    BY <2>1, <2>2, <2>3
  <2>9. started' \in 0..MaxJobs
    BY <2>1, <2>6, BoundsAssumption
  <2>10. jobs' \subseteq Job
    BY <1>1, <2>1 DEF WorkTypes
  <2> QED
    BY <2>7, <2>8, <2>9, <2>10 DEF WorkTypes, NumbersOK
<1> QED
  BY <1>5, <1>6

MoreTypes == WorkTypes /\ NodeTypes /\ PanelTypes

LEMMA StartTypes ==
  ASSUME IInv, MoreTypes,
         \/ OnConnectClicked \/ RefreshStatus \/ OnRefreshClicked \/ OnDisconnectClicked
         \/ UploadToGhidra \/ \E n \in Nodes : OnRepoItemExpanded(n)
  PROVE  MoreTypes'
<1>0. None \in Nodes \cup {None} /\ 0 \in Nat /\ gen \in Nat
  BY DEF IInv, TreeTypes
<1>1. WorkTypes'
  <2>1. CASE OnConnectClicked \/ RefreshStatus \/ OnDisconnectClicked
    BY <1>0, <2>1, EnqueueTypes
    DEF OnConnectClicked, RefreshStatus, OnDisconnectClicked, Kinds, MoreTypes
  <2>2. CASE OnRefreshClicked
    <3>1. PICK again \in SUBSET {repoOf[n] : n \in {m \in top : content[m] # "loading"}} :
            Enqueue("refresh", {None}, again, 0)
      BY <2>2 DEF OnRefreshClicked
    <3>2. again \in SUBSET Repos
      BY DEF IInv, TreeTypes
    <3> QED
      BY <1>0, <3>1, <3>2, EnqueueTypes DEF Kinds, MoreTypes
  <2>3. CASE UploadToGhidra
    BY <1>0, <2>3, EnqueueTypes DEF UploadToGhidra, Kinds, MoreTypes
  <2>4. ASSUME NEW n \in Nodes, OnRepoItemExpanded(n) PROVE WorkTypes'
    BY <1>0, <2>4, EnqueueTypes DEF OnRepoItemExpanded, Kinds, MoreTypes
  <2> QED
    BY <2>1, <2>2, <2>3, <2>4
<1>2. NodeTypes'
  <2>1. ASSUME NEW n \in Nodes, OnRepoItemExpanded(n) PROVE NodeTypes'
    BY <2>1 DEF OnRepoItemExpanded, TakeChildren, MoreTypes, NodeTypes
  <2> QED
    BY <2>1 DEF OnConnectClicked, RefreshStatus, OnRefreshClicked, OnDisconnectClicked,
                UploadToGhidra, panel, MoreTypes, NodeTypes
<1>3. PanelTypes'
  BY Zenon DEF OnConnectClicked, RefreshStatus, OnRefreshClicked, OnDisconnectClicked,
         UploadToGhidra, OnRepoItemExpanded, panel, MoreTypes, PanelTypes
<1> QED
  BY <1>1, <1>2, <1>3 DEF MoreTypes

LEMMA WorkerTypes ==
  ASSUME IInv, MoreTypes, NEW j \in jobs, Answer(j) \/ Post(j)
  PROVE  MoreTypes'
<1>0. j \in Job
  BY DEF MoreTypes, WorkTypes
<1>1. CASE Answer(j)
  <2>1. PICK answer \in {"ok", "error"} :
          /\ jobs' = (jobs \ {j}) \cup {[j EXCEPT !.answer = answer]}
          /\ \/ j.kind = "connect" /\ server' \in {TRUE, answer = "ok"}
             \/ j.kind = "disconnect" /\ server' = FALSE
             \/ UNCHANGED server
    BY <1>1, Zenon DEF Answer
  <2> DEFINE k == [j EXCEPT !.answer = answer]
  <2>2. k \in Job /\ k.n = j.n
    BY <1>0 DEF Job
  <2> HIDE DEF k
  <2>3. jobs' \subseteq Job
    BY <2>1, <2>2 DEF MoreTypes, WorkTypes, k
  <2>4. Numbers' \subseteq Numbers
    BY <2>1, <2>2, Zenon DEF Numbers, k
  <2>5. WorkTypes'
    BY <1>1, <2>3, <2>4, FewerNumbers DEF Answer, MoreTypes
  <2>6. server' \in BOOLEAN
    BY <2>1, Zenon DEF MoreTypes, PanelTypes
  <2> QED
    BY <1>1, <2>5, <2>6 DEF Answer, panel, MoreTypes, NodeTypes, PanelTypes
<1>2. CASE Post(j)
  <2>1. jobs' \subseteq jobs /\ started' = started
    BY <1>2 DEF Post
  <2>2. WorkTypes'
    BY <2>1, FewerNumbers DEF Numbers, MoreTypes, WorkTypes
  <2> QED
    BY <1>2, <2>2 DEF Post, panel, MoreTypes, NodeTypes, PanelTypes
<1> QED
  BY <1>1, <1>2

LEMMA CallbackTypes ==
  ASSUME IInv, MoreTypes, RunCallback
  PROVE  MoreTypes'
<1> DEFINE c == Head(queue)
<1>0. c \in Callback
  BY QueueTaken DEF IInv, RunCallback
<1>1. /\ c.node \in Nodes \cup {None} /\ c.again \in SUBSET Repos /\ gen \in Nat
      /\ 0 \in Nat /\ None \in Nodes \cup {None}
  BY <1>0 DEF Callback, IInv, TreeTypes
<1>2. server' = server
  BY DEF RunCallback
<1> HIDE DEF c
<1>3. ASSUME NoEffect \/ ClearTree \/ Dangle, buttons' \subseteq Buttons PROVE MoreTypes'
  <2>1. WorkTypes'
    BY <1>3, FewerNumbers DEF NoEffect, ClearTree, Dangle, MoreTypes, WorkTypes, Numbers
  <2> QED
    BY <1>2, <1>3, <2>1, Zenon DEF NoEffect, ClearTree, Dangle, MoreTypes, NodeTypes, PanelTypes
<1>4. CASE c.kind = "connect" /\ ConnectCallback(c)
  <2>1. WorkTypes'
    <3>1. CASE c.answer = "ok"
      BY <1>1, <1>4, <3>1, EnqueueTypes DEF ConnectCallback, Kinds, MoreTypes
    <3>2. CASE c.answer # "ok"
      BY <1>4, <3>2, FewerNumbers DEF ConnectCallback, MoreTypes, WorkTypes, Numbers
    <3> QED
      BY <3>1, <3>2
  <2>2. buttons' \subseteq Buttons
    BY <1>4 DEF ConnectCallback, UpdateConnectionButtons, Buttons
  <2> QED
    BY <1>2, <1>4, <2>1, <2>2 DEF ConnectCallback, MoreTypes, NodeTypes, PanelTypes
<1>5. CASE c.kind \in {"status", "refresh"} /\ ListCallback(c)
  <2>1. buttons' \subseteq Buttons
    BY <1>5 DEF ListCallback, Buttons, MoreTypes, PanelTypes
  <2>2. ASSUME PopulateRepos(c.again) PROVE MoreTypes'
    <3>1. PICK node \in [Repos -> Nodes] :
            /\ gen' = gen + 1
            /\ content' = [n \in Nodes |-> IF n \in {node[r] : r \in c.again} THEN "taken"
                                           ELSE content[n]]
            /\ Enqueue("expand", {node[r] : r \in c.again}, {}, gen')
            /\ UNCHANGED <<copies, fills, refetched, dangling>>
      BY <2>2, Zenon DEF PopulateRepos, NextGeneration
    <3>2. {node[r] : r \in c.again} \in SUBSET (Nodes \cup {None}) /\ gen' \in Nat
      BY <1>1, <3>1
    <3>3. WorkTypes'
      BY <3>1, <3>2, EnqueueTypes DEF Kinds, MoreTypes
    <3>4. NodeTypes'
      BY <3>1 DEF MoreTypes, NodeTypes
    <3> QED
      BY <1>2, <2>1, <3>1, <3>3, <3>4 DEF MoreTypes, PanelTypes
  <2> QED
    BY <1>3, <1>5, <2>1, <2>2 DEF ListCallback
<1>6. CASE c.kind = "expand" /\ ExpandCallback(c) /\ UNCHANGED buttons
  <2>1. buttons' \subseteq Buttons
    BY <1>6 DEF MoreTypes, PanelTypes
  <2>2. ASSUME c.node \in alive \cup detached, FillNode(c.node) PROVE MoreTypes'
    <3>1. WorkTypes'
      BY <2>2, FewerNumbers DEF FillNode, MoreTypes, WorkTypes, Numbers
    <3>2. NodeTypes'
      BY <2>2 DEF FillNode, MoreTypes, NodeTypes, IInv, TreeTypes
    <3> QED
      BY <1>2, <2>1, <2>2, <3>1, <3>2 DEF FillNode, MoreTypes, PanelTypes
  <2>3. CASE Dangle
    <3>1. WorkTypes'
      BY <2>3, FewerNumbers DEF Dangle, MoreTypes, WorkTypes, Numbers
    <3> QED
      BY <1>2, <2>1, <2>3, <3>1 DEF Dangle, MoreTypes, NodeTypes, PanelTypes
  <2> QED
    BY <1>3, <1>6, <2>1, <2>2, <2>3 DEF ExpandCallback
<1>7. CASE c.kind = "upload" /\ UploadCallback(c) /\ UNCHANGED buttons
  <2>1. buttons' \subseteq Buttons
    BY <1>7 DEF MoreTypes, PanelTypes
  <2>2. ASSUME NEW n \in top,
               copies' = [copies EXCEPT ![n] = 0], refetched' = [refetched EXCEPT ![n] = @ + 1],
               content' = [content EXCEPT ![n] = "taken"], Enqueue("expand", {n}, {}, gen),
               UNCHANGED <<fills, dangling>>
        PROVE  MoreTypes'
    <3>1. n \in Nodes
      BY DEF IInv, TreeTypes
    <3>2. WorkTypes'
      BY <1>1, <2>2, <3>1, EnqueueTypes DEF Kinds, MoreTypes
    <3>3. NodeTypes'
      BY <2>2, <3>1 DEF MoreTypes, NodeTypes
    <3> QED
      BY <1>2, <2>1, <2>2, <3>2, <3>3 DEF MoreTypes, PanelTypes
  <2> QED
    BY <1>3, <1>7, <2>1, <2>2, Zenon DEF UploadCallback
<1>8. CASE c.kind = "disconnect" /\ ClearTree /\ buttons' = UpdateConnectionButtons(FALSE)
  BY <1>3, <1>8 DEF UpdateConnectionButtons, Buttons
<1> QED
  BY <1>4, <1>5, <1>6, <1>7, <1>8, Zenon DEF RunCallback, c

LEMMA MoreInit == Init => MoreTypes
<1> SUFFICES ASSUME Init PROVE MoreTypes
  OBVIOUS
<1>1. Numbers = {}
  BY DEF Init, Numbers
<1>2. WorkTypes
  BY <1>1, FS_EmptySet, BoundsAssumption DEF Init, WorkTypes, NumbersOK
<1>3. NodeTypes /\ PanelTypes
  BY Zenon DEF Init, NodeTypes, PanelTypes, UpdateConnectionButtons, Buttons
<1> QED
  BY <1>2, <1>3 DEF MoreTypes

LEMMA MoreStep == IInv /\ MoreTypes /\ [Next]_vars => MoreTypes'
<1> SUFFICES ASSUME IInv, MoreTypes, [Next]_vars PROVE MoreTypes'
  OBVIOUS
<1>1. CASE UNCHANGED vars
  BY <1>1 DEF vars, MoreTypes, WorkTypes, NumbersOK, Numbers, NodeTypes, PanelTypes
<1>2. CASE Next
  BY <1>2, StartTypes, WorkerTypes, CallbackTypes DEF Next
<1> QED
  BY <1>1, <1>2

\* The panel's state keeps its type with any number of repositories, nodes
\* and workers; in particular every worker that starts finds a number that
\* tells it from those still in progress.
THEOREM TypeCorrect == Spec => []TypeOK
<1>1. IInv /\ MoreTypes => TypeOK
  <2> SUFFICES ASSUME IInv, MoreTypes PROVE TypeOK
    OBVIOUS
  <2>1. Callback \subseteq Job
    BY DEF Callback, Job
  <2>2. queue \in Seq(Job)
    BY <2>1 DEF IInv, QueueOK
  <2> QED
    BY <2>2 DEF IInv, TreeTypes, MoreTypes, WorkTypes, NodeTypes, PanelTypes, TypeOK
<1> QED
  BY <1>1, InitIInv, NextIInv, MoreInit, MoreStep, PTL DEF Spec

-----------------------------------------------------------------------------
(* Fetches.  What was added to a node, and what is still on the way to it,   *)
(* is one fetch and one for each upload; one less while the node shows its   *)
(* placeholder, as it is then that a fetch may start.                        *)

Fetching(n) == {j \in jobs : j.kind = "expand" /\ j.node = n}
Waiting(q, n) == {a \in 1..Len(q) : q[a].kind = "expand" /\ q[a].node = n}

InJobs(n) == Cardinality(Fetching(n))
InQueue(n) == Cardinality(Waiting(queue, n))

FetchOK ==
  \A n \in Nodes :
    /\ IsFiniteSet(Fetching(n))
    /\ fills[n] + InJobs(n) + InQueue(n) <= 1 + refetched[n]
    /\ content[n] = "loading" => fills[n] + InJobs(n) + InQueue(n) <= refetched[n]
    /\ n > nodes => content[n] = "loading"

LEMMA WaitingFinite ==
  ASSUME NEW q \in Seq(Callback), NEW n
  PROVE  IsFiniteSet(Waiting(q, n)) /\ Cardinality(Waiting(q, n)) \in Nat
<1>1. Len(q) \in Int /\ 1 \in Int
  OBVIOUS
<1>2. IsFiniteSet(1..Len(q))
  BY <1>1, FS_Interval
<1>3. Waiting(q, n) \in SUBSET (1..Len(q))
  BY DEF Waiting
<1>4. IsFiniteSet(Waiting(q, n))
  BY <1>2, <1>3, FS_Subset
<1> QED
  BY <1>4, FS_CardinalityType

LEMMA Counts ==
  ASSUME IInv, FetchOK, NEW n \in Nodes
  PROVE  InJobs(n) \in Nat /\ InQueue(n) \in Nat
BY WaitingFinite, FS_CardinalityType DEF IInv, QueueOK, FetchOK, InJobs, InQueue

\* A callback that is posted adds one to its node's, and to no other's.
LEMMA WaitingAppend ==
  ASSUME NEW q \in Seq(Callback), NEW c \in Callback, NEW n
  PROVE  Cardinality(Waiting(Append(q, c), n))
           = Cardinality(Waiting(q, n)) + (IF c.kind = "expand" /\ c.node = n THEN 1 ELSE 0)
<1> DEFINE r == Append(q, c)
           W == Waiting(q, n)
           V == Waiting(r, n)
<1>1. /\ Len(q) \in Nat /\ Len(r) = Len(q) + 1 /\ r[Len(q) + 1] = c
      /\ \A a \in 1..Len(q) : r[a] = q[a]
  OBVIOUS
<1>2. IsFiniteSet(W) /\ Cardinality(W) \in Nat
  BY WaitingFinite
<1> HIDE DEF r
<1>3. Len(q) + 1 \notin W
  BY <1>1 DEF Waiting
<1>4. CASE c.kind = "expand" /\ c.node = n
  <2>1. V = W \cup {Len(q) + 1}
    BY <1>1, <1>4 DEF Waiting
  <2> HIDE DEF V, W
  <2>2. Cardinality(V) = Cardinality(W) + 1
    BY <1>2, <1>3, <2>1, FS_AddElement, Zenon
  <2> QED
    BY <1>4, <2>2 DEF V, W, r
<1>5. CASE ~(c.kind = "expand" /\ c.node = n)
  <2>1. V = W
    BY <1>1, <1>5 DEF Waiting
  <2> HIDE DEF V, W
  <2>2. Cardinality(V) = Cardinality(W) + 0
    BY <1>2, <2>1
  <2> QED
    BY <1>5, <2>2 DEF V, W, r
<1> QED
  BY <1>4, <1>5

\* A callback that runs takes one from its node's.
LEMMA WaitingTail ==
  ASSUME NEW q \in Seq(Callback), q # <<>>, NEW n
  PROVE  Cardinality(Waiting(Tail(q), n))
           <= Cardinality(Waiting(q, n))
                - (IF Head(q).kind = "expand" /\ Head(q).node = n THEN 1 ELSE 0)
<1> DEFINE r == Tail(q)
           W == Waiting(q, n)
           V == Waiting(r, n)
           f == [a \in W \ {1} |-> a - 1]
<1>1. /\ Len(q) \in Nat /\ Len(q) >= 1 /\ Len(r) = Len(q) - 1 /\ Head(q) = q[1]
      /\ \A a \in 1..Len(r) : r[a] = q[a + 1]
  OBVIOUS
<1>2. IsFiniteSet(W) /\ Cardinality(W) \in Nat
  BY WaitingFinite
<1> HIDE DEF r
<1>3. \A a \in W \ {1} : a \in 2..Len(q) /\ a - 1 \in 1..Len(r) /\ r[a - 1] = q[a]
  BY <1>1 DEF Waiting
<1>4. \A a \in W \ {1} : a - 1 \in V
  BY <1>3 DEF Waiting
<1>5. \A b \in V : b + 1 \in W \ {1} /\ (b + 1) - 1 = b
  BY <1>1 DEF Waiting
<1>6. 1 \in W <=> Head(q).kind = "expand" /\ Head(q).node = n
  BY <1>1 DEF Waiting
<1> HIDE DEF V, W
<1>7. f \in Surjection(W \ {1}, V)
  <2>1. f \in [W \ {1} -> V]
    BY <1>4
  <2>2. \A b \in V : \E a \in W \ {1} : f[a] = b
    BY <1>5
  <2> QED
    BY <2>1, <2>2 DEF Surjection
<1> HIDE DEF f
<1>8. /\ IsFiniteSet(W \ {1})
      /\ Cardinality(W \ {1}) = IF 1 \in W THEN Cardinality(W) - 1 ELSE Cardinality(W)
  BY <1>2, FS_RemoveElement
<1>9. Cardinality(V) <= Cardinality(W \ {1})
  BY <1>7, <1>8, FS_Surjection
<1>10. Cardinality(V) <= Cardinality(W) - (IF 1 \in W THEN 1 ELSE 0)
  BY <1>2, <1>8, <1>9
<1> QED
  BY <1>6, <1>10 DEF V, W, r

\* New workers: one more for each node that is fetched.
LEMMA FetchingStarts ==
  ASSUME FetchOK, NEW n \in Nodes, NEW kind, NEW N, NEW again, NEW g,
         Enqueue(kind, N, again, g)
  PROVE  /\ IsFiniteSet(Fetching(n)')
         /\ InJobs(n)' <= InJobs(n) + 1
         /\ kind # "expand" \/ n \notin N => InJobs(n)' = InJobs(n)
<1> DEFINE number == CHOOSE k \in 1..MaxJobs : \A j \in jobs : j.n # k
           new(m) == [n |-> number, kind |-> kind, node |-> m, gen |-> g,
                      again |-> again, answer |-> "none"]
<1>1. jobs' = jobs \cup {new(m) : m \in N}
  BY DEF Enqueue
<1>2. \A m : new(m).kind = kind /\ new(m).node = m
  OBVIOUS
<1>3. IsFiniteSet(Fetching(n)) /\ InJobs(n) \in Nat
  BY FS_CardinalityType DEF FetchOK, InJobs
<1> HIDE DEF number, new
<1>4. CASE kind # "expand" \/ n \notin N
  <2>1. Fetching(n)' = Fetching(n)
    BY <1>1, <1>2, <1>4 DEF Fetching
  <2> QED
    BY <1>3, <2>1 DEF InJobs
<1>5. CASE kind = "expand" /\ n \in N
  <2>1. Fetching(n)' = Fetching(n) \cup {new(n)}
    BY <1>1, <1>2, <1>5 DEF Fetching
  <2>2. /\ IsFiniteSet(Fetching(n) \cup {new(n)})
        /\ Cardinality(Fetching(n) \cup {new(n)}) \in {InJobs(n), InJobs(n) + 1}
    BY <1>3, FS_AddElement DEF InJobs
  <2>3. InJobs(n)' \in {InJobs(n), InJobs(n) + 1} /\ IsFiniteSet(Fetching(n)')
    BY <2>1, <2>2 DEF InJobs
  <2> QED
    BY <1>3, <1>5, <2>3
<1> QED
  BY <1>4, <1>5

\* What a step may do to node n: nothing that adds a fetch, a fetch in place
\* of the placeholder, a fetch after an upload, or the content of a fetch.
OnTheWay(n) == InJobs(n) + InQueue(n)

Fetched(n) ==
  /\ IsFiniteSet(Fetching(n)')
  /\ \/ /\ content'[n] = content[n] \/ content'[n] # "loading"
        /\ OnTheWay(n)' <= OnTheWay(n)
        /\ fills'[n] = fills[n] /\ refetched'[n] = refetched[n]
     \/ /\ content[n] = "loading" /\ content'[n] # "loading"
        /\ OnTheWay(n)' <= OnTheWay(n) + 1
        /\ fills'[n] = fills[n] /\ refetched'[n] = refetched[n]
     \/ /\ content'[n] # "loading"
        /\ OnTheWay(n)' <= OnTheWay(n) + 1
        /\ fills'[n] = fills[n] /\ refetched'[n] = refetched[n] + 1
     \/ /\ content'[n] # "loading"
        /\ OnTheWay(n)' <= OnTheWay(n) - 1
        /\ fills'[n] = fills[n] + 1 /\ refetched'[n] = refetched[n]
  /\ n > nodes' => n > nodes /\ content'[n] = content[n]

LEMMA FetchedKeeps ==
  ASSUME IInv, IInv', MoreTypes, FetchOK, \A n \in Nodes : Fetched(n)
  PROVE  FetchOK'
<1> SUFFICES ASSUME NEW n \in Nodes
             PROVE  /\ IsFiniteSet(Fetching(n)')
                    /\ fills'[n] + InJobs(n)' + InQueue(n)' <= 1 + refetched'[n]
                    /\ content'[n] = "loading"
                         => fills'[n] + InJobs(n)' + InQueue(n)' <= refetched'[n]
                    /\ n > nodes' => content'[n] = "loading"
  BY DEF FetchOK, Fetching, InJobs, InQueue, Waiting
<1>1. Fetched(n)
  OBVIOUS
<1>2. fills[n] \in Nat /\ refetched[n] \in Nat /\ InJobs(n) \in Nat /\ InQueue(n) \in Nat
  BY Counts DEF MoreTypes, NodeTypes
<1>3. InJobs(n)' \in Nat
  BY <1>1, FS_CardinalityType DEF Fetched, InJobs
<1>4. InQueue(n)' \in Nat
  <2>1. queue' \in Seq(Callback)
    BY DEF IInv, QueueOK
  <2> QED
    BY <2>1, WaitingFinite, Zenon DEF InQueue, Waiting
<1>5. /\ fills[n] + InJobs(n) + InQueue(n) <= 1 + refetched[n]
      /\ content[n] = "loading" => fills[n] + InJobs(n) + InQueue(n) <= refetched[n]
      /\ n > nodes => content[n] = "loading"
  BY DEF FetchOK
<1>6. OnTheWay(n) = InJobs(n) + InQueue(n) /\ OnTheWay(n)' = InJobs(n)' + InQueue(n)'
  BY DEF OnTheWay
<1> QED
  BY <1>1, <1>2, <1>3, <1>4, <1>5, <1>6 DEF Fetched

\* A start that is not a fetch of n leaves what is on the way to it alone.
LEMMA FetchedStart ==
  ASSUME IInv, MoreTypes, FetchOK,
         \/ OnConnectClicked \/ RefreshStatus \/ OnRefreshClicked \/ OnDisconnectClicked
         \/ UploadToGhidra \/ \E n \in Nodes : OnRepoItemExpanded(n),
         NEW n \in Nodes
  PROVE  Fetched(n)
<1>0. /\ InQueue(n)' = InQueue(n) /\ UNCHANGED <<nodes, fills, refetched>>
      /\ InJobs(n) \in Nat /\ InQueue(n) \in Nat
  BY Counts, Zenon
  DEF InQueue, OnConnectClicked, RefreshStatus, OnRefreshClicked, OnDisconnectClicked,
      UploadToGhidra, OnRepoItemExpanded, panel
<1>1. ASSUME NEW kind, NEW N, NEW again, NEW g, Enqueue(kind, N, again, g), kind # "expand",
             UNCHANGED content
      PROVE  Fetched(n)
  <2>1. IsFiniteSet(Fetching(n)') /\ InJobs(n)' = InJobs(n)
    BY <1>1, FetchingStarts
  <2> QED
    BY <1>0, <1>1, <2>1 DEF Fetched, OnTheWay
<1>2. ASSUME NEW m \in Nodes, OnRepoItemExpanded(m) PROVE Fetched(n)
  <2>1. /\ content[m] = "loading" /\ content' = [content EXCEPT ![m] = "taken"]
        /\ Enqueue("expand", {m}, {}, gen) /\ m \in alive
    BY <1>2 DEF OnRepoItemExpanded, TakeChildren
  <2>2. /\ IsFiniteSet(Fetching(n)') /\ InJobs(n)' <= InJobs(n) + 1
        /\ n # m => InJobs(n)' = InJobs(n)
    BY <2>1, FetchingStarts
  <2>3. content'[n] = IF n = m THEN "taken" ELSE content[n]
    BY <2>1 DEF MoreTypes, NodeTypes
  <2>4. InJobs(n)' \in Nat
    BY <2>2, FS_CardinalityType DEF InJobs
  <2>5. m <= nodes /\ m \in Int /\ nodes \in Int
    BY <2>1, BoundsAssumption DEF IInv, NodesOK, TreeTypes, Nodes
  <2>6. CASE n = m
    BY <1>0, <2>1, <2>2, <2>3, <2>4, <2>5, <2>6 DEF Fetched, OnTheWay
  <2>7. CASE n # m
    BY <1>0, <2>2, <2>3, <2>4, <2>7 DEF Fetched, OnTheWay
  <2> QED
    BY <2>6, <2>7
<1>3. CASE OnConnectClicked \/ RefreshStatus \/ OnDisconnectClicked
  BY <1>1, <1>3 DEF OnConnectClicked, RefreshStatus, OnDisconnectClicked, panel
<1>4. CASE OnRefreshClicked \/ UploadToGhidra
  BY <1>1, <1>4, Zenon DEF OnRefreshClicked, UploadToGhidra, panel
<1> QED
  BY <1>2, <1>3, <1>4

\* A fetch that is answered is still on the way, and so is one whose callback
\* has been posted.
LEMMA FetchedWorker ==
  ASSUME IInv, MoreTypes, FetchOK, NEW j \in jobs, Answer(j) \/ Post(j), NEW n \in Nodes
  PROVE  Fetched(n)
<1>0. /\ UNCHANGED <<nodes, fills, refetched, content>> /\ queue \in Seq(Callback)
      /\ InJobs(n) \in Nat /\ InQueue(n) \in Nat /\ IsFiniteSet(Fetching(n)) /\ j \in Job
  BY Counts, Zenon DEF Answer, Post, panel, IInv, QueueOK, FetchOK, MoreTypes, WorkTypes
<1>1. /\ IsFiniteSet(Fetching(n) \ {j})
      /\ Cardinality(Fetching(n) \ {j}) = IF j \in Fetching(n) THEN InJobs(n) - 1 ELSE InJobs(n)
  BY <1>0, FS_RemoveElement DEF InJobs
<1>2. SUFFICES IsFiniteSet(Fetching(n)') /\ OnTheWay(n)' <= OnTheWay(n)
  BY <1>0 DEF Fetched
<1>3. CASE Answer(j)
  <2>1. PICK answer \in {"ok", "error"} :
          jobs' = (jobs \ {j}) \cup {[j EXCEPT !.answer = answer]}
    BY <1>3 DEF Answer
  <2> DEFINE k == [j EXCEPT !.answer = answer]
             F == Fetching(n) \ {j}
  <2>2. k.kind = j.kind /\ k.node = j.node
    BY <1>0 DEF Job
  <2> HIDE DEF k
  <2>3. Fetching(n)' = IF j \in Fetching(n) THEN F \cup {k} ELSE F
    BY <2>1, <2>2, Zenon DEF Fetching, k
  <2> HIDE DEF F
  <2>4. IsFiniteSet(F \cup {k}) /\ Cardinality(F \cup {k}) \in {Cardinality(F), Cardinality(F) + 1}
    BY <1>1, FS_AddElement DEF F
  <2>5. IsFiniteSet(Fetching(n)') /\ InJobs(n)' <= InJobs(n)
    BY <1>0, <1>1, <2>3, <2>4 DEF InJobs, F
  <2>6. InJobs(n)' \in Nat
    BY <2>5, FS_CardinalityType DEF InJobs
  <2>7. InQueue(n)' = InQueue(n)
    BY <1>3 DEF Answer, InQueue
  <2> QED
    BY <1>0, <2>5, <2>6, <2>7 DEF OnTheWay
<1>4. CASE Post(j)
  <2> DEFINE k == [j EXCEPT !.n = 0]
  <2>1. k.kind = j.kind /\ k.node = j.node /\ k \in Callback
    BY <1>0 DEF Job, Callback
  <2>2. jobs' = jobs \ {j} /\ queue' = Append(queue, k)
    BY <1>4 DEF Post
  <2> HIDE DEF k
  <2>3. Fetching(n)' = Fetching(n) \ {j}
    BY <2>2 DEF Fetching
  <2>4. j \in Fetching(n) <=> k.kind = "expand" /\ k.node = n
    BY <2>1 DEF Fetching
  <2>5. InQueue(n)' = InQueue(n) + (IF k.kind = "expand" /\ k.node = n THEN 1 ELSE 0)
    BY <1>0, <2>1, <2>2, WaitingAppend DEF InQueue
  <2>6. InJobs(n)' = (IF j \in Fetching(n) THEN InJobs(n) - 1 ELSE InJobs(n))
    BY <1>1, <2>3 DEF InJobs
  <2>7. OnTheWay(n)' = OnTheWay(n)
    BY <1>0, <2>4, <2>5, <2>6 DEF OnTheWay
  <2>8. OnTheWay(n) \in Nat
    BY <1>0 DEF OnTheWay
  <2> QED
    BY <1>1, <2>3, <2>7, <2>8
<1> QED
  BY <1>3, <1>4

\* A callback takes itself from what is on the way.  A listing has new nodes
\* fetched, which still have their placeholder; an upload has one fetched
\* again; and only the callback of a fetch adds content.
LEMMA FetchedCallback ==
  ASSUME IInv, MoreTypes, FetchOK, RunCallback, NEW n \in Nodes
  PROVE  Fetched(n)
<1> DEFINE c == Head(queue)
<1>0. /\ queue \in Seq(Callback) /\ queue # <<>> /\ queue' = Tail(queue)
      /\ InJobs(n) \in Nat /\ InQueue(n) \in Nat /\ IsFiniteSet(Fetching(n))
  BY Counts, Zenon DEF RunCallback, IInv, QueueOK, FetchOK
<1>1. /\ InQueue(n)' <= InQueue(n) /\ InQueue(n)' \in Nat
      /\ c.kind = "expand" /\ c.node = n => InQueue(n)' <= InQueue(n) - 1
  <2>1. Tail(queue) \in Seq(Callback)
    BY <1>0
  <2>2. Cardinality(Waiting(Tail(queue), n)) \in Nat
    BY <2>1, WaitingFinite, Zenon
  <2>3. Cardinality(Waiting(Tail(queue), n))
          <= Cardinality(Waiting(queue, n)) - (IF c.kind = "expand" /\ c.node = n THEN 1 ELSE 0)
    BY <1>0, WaitingTail
  <2>4. InQueue(n)' = Cardinality(Waiting(Tail(queue), n))
    BY <1>0 DEF InQueue, Waiting
  <2> HIDE DEF c
  <2> QED
    BY <1>0, <2>2, <2>3, <2>4 DEF InQueue
<1>2. nodes \in Int /\ n \in Int /\ \A m \in alive \cup detached : m \in Int /\ m <= nodes
  BY BoundsAssumption DEF IInv, TreeTypes, NodesOK, Nodes
<1>3. fills[n] \in Nat /\ refetched[n] \in Nat
  BY DEF MoreTypes, NodeTypes
<1> HIDE DEF c
<1>4. ASSUME UNCHANGED <<nodes, content, fills, refetched, jobs>> PROVE Fetched(n)
  <2>1. Fetching(n)' = Fetching(n) /\ InJobs(n)' = InJobs(n)
    BY <1>4 DEF Fetching, InJobs
  <2> QED
    BY <1>0, <1>1, <1>4, <2>1 DEF Fetched, OnTheWay
<1>5. CASE ConnectCallback(c)
  <2>1. CASE c.answer = "ok"
    <3>1. Enqueue("status", {None}, Repos, 0) /\ UNCHANGED <<nodes, content, fills, refetched>>
      BY <1>5, <2>1 DEF ConnectCallback
    <3>2. IsFiniteSet(Fetching(n)') /\ InJobs(n)' = InJobs(n)
      BY <3>1, FetchingStarts
    <3> QED
      BY <1>0, <1>1, <3>1, <3>2 DEF Fetched, OnTheWay
  <2>2. CASE c.answer # "ok"
    BY <1>4, <1>5, <2>2 DEF ConnectCallback
  <2> QED
    BY <2>1, <2>2
<1>6. CASE ListCallback(c)
  <2>1. ASSUME PopulateRepos(c.again) PROVE Fetched(n)
    <3>0. c.again \in SUBSET Repos
      BY QueueTaken DEF IInv, RunCallback, Callback, c
    <3>1. PICK node \in [Repos -> Nodes] :
            /\ \A r \in Repos : node[r] > nodes
            /\ alive' = {node[r] : r \in Repos}
            /\ nodes' \in alive' /\ \A m \in alive' : m <= nodes'
            /\ content' = [m \in Nodes |-> IF m \in {node[r] : r \in c.again} THEN "taken"
                                           ELSE content[m]]
            /\ Enqueue("expand", {node[r] : r \in c.again}, {}, gen')
            /\ UNCHANGED <<fills, refetched>>
      BY <2>1, Zenon DEF PopulateRepos
    <3> DEFINE N == {node[r] : r \in c.again}
    <3>2. \A m \in N : m > nodes /\ m <= nodes'
      BY <3>0, <3>1
    <3>3. nodes' \in Int /\ nodes' > nodes
      BY <3>1 DEF Nodes
    <3>4. content'[n] = IF n \in N THEN "taken" ELSE content[n]
      BY <3>1
    <3>5. Enqueue("expand", N, {}, gen')
      BY <3>1
    <3> HIDE DEF N
    <3>6. /\ IsFiniteSet(Fetching(n)') /\ InJobs(n)' <= InJobs(n) + 1
          /\ n \notin N => InJobs(n)' = InJobs(n)
      BY <3>5, FetchingStarts
    <3>7. InJobs(n)' \in Nat
      BY <3>6, FS_CardinalityType DEF InJobs
    <3>8. n > nodes' => n > nodes /\ content'[n] = content[n]
      BY <1>2, <3>2, <3>3, <3>4
    <3>9. CASE n \in N
      <4>1. content[n] = "loading" /\ content'[n] # "loading"
        BY <3>2, <3>4, <3>9 DEF FetchOK
      <4>2. OnTheWay(n)' <= OnTheWay(n) + 1
        BY <1>0, <1>1, <3>6, <3>7 DEF OnTheWay
      <4> QED
        BY <3>1, <3>6, <3>8, <4>1, <4>2 DEF Fetched
    <3>10. CASE n \notin N
      <4>1. OnTheWay(n)' <= OnTheWay(n)
        BY <1>0, <1>1, <3>6, <3>7, <3>10 DEF OnTheWay
      <4> QED
        BY <3>1, <3>4, <3>6, <3>8, <3>10, <4>1 DEF Fetched
    <3> QED
      BY <3>9, <3>10
  <2> QED
    BY <1>4, <1>6, <2>1 DEF ListCallback, NoEffect
<1>7. CASE c.kind = "expand" /\ ExpandCallback(c)
  <2>1. ASSUME c.node \in alive \cup detached, FillNode(c.node) PROVE Fetched(n)
    <3> DEFINE m == c.node
    <3>1. /\ fills' = [fills EXCEPT ![m] = @ + 1] /\ content' = [content EXCEPT ![m] = "filled"]
          /\ nodes' \in {nodes, nodes + 1} /\ UNCHANGED <<refetched, jobs>>
      BY <2>1 DEF FillNode
    <3>2. m \in Nodes /\ m <= nodes /\ m \in Int
      BY <1>2, <2>1, Zenon DEF IInv, TreeTypes
    <3>3. Fetching(n)' = Fetching(n) /\ InJobs(n)' = InJobs(n)
      BY <3>1 DEF Fetching, InJobs
    <3>4. /\ fills'[n] = IF n = m THEN fills[n] + 1 ELSE fills[n]
          /\ content'[n] = IF n = m THEN "filled" ELSE content[n]
      BY <3>1, <3>2 DEF MoreTypes, NodeTypes
    <3>5. n = m => InQueue(n)' <= InQueue(n) - 1
      BY <1>1, <1>7
    <3> HIDE DEF m
    <3>6. n > nodes' => n > nodes /\ content'[n] = content[n]
      BY <1>2, <3>1, <3>2, <3>4
    <3>7. CASE n = m
      <4>1. OnTheWay(n)' <= OnTheWay(n) - 1
        BY <1>0, <1>1, <3>3, <3>5, <3>7 DEF OnTheWay
      <4> QED
        BY <1>0, <3>1, <3>3, <3>4, <3>6, <3>7, <4>1 DEF Fetched
    <3>8. CASE n # m
      <4>1. OnTheWay(n)' <= OnTheWay(n)
        BY <1>0, <1>1, <3>3 DEF OnTheWay
      <4> QED
        BY <1>0, <3>1, <3>3, <3>4, <3>6, <3>8, <4>1 DEF Fetched
    <3> QED
      BY <3>7, <3>8
  <2> QED
    BY <1>4, <1>7, <2>1 DEF ExpandCallback, NoEffect, Dangle
<1>8. CASE UploadCallback(c)
  <2>1. ASSUME NEW m \in top, refetched' = [refetched EXCEPT ![m] = @ + 1],
               content' = [content EXCEPT ![m] = "taken"], Enqueue("expand", {m}, {}, gen),
               UNCHANGED <<nodes, fills>>
        PROVE  Fetched(n)
    <3>1. m \in Nodes /\ m <= nodes /\ m \in Int
      BY <1>2 DEF IInv, TreeTypes
    <3>2. /\ IsFiniteSet(Fetching(n)') /\ InJobs(n)' <= InJobs(n) + 1
          /\ n # m => InJobs(n)' = InJobs(n)
      BY <2>1, FetchingStarts
    <3>3. InJobs(n)' \in Nat
      BY <3>2, FS_CardinalityType DEF InJobs
    <3>4. /\ refetched'[n] = IF n = m THEN refetched[n] + 1 ELSE refetched[n]
          /\ content'[n] = IF n = m THEN "taken" ELSE content[n]
      BY <2>1, <3>1 DEF MoreTypes, NodeTypes
    <3>5. n > nodes' => n > nodes /\ content'[n] = content[n]
      BY <1>2, <2>1, <3>1, <3>4
    <3>6. CASE n = m
      <4>1. OnTheWay(n)' <= OnTheWay(n) + 1
        BY <1>0, <1>1, <3>2, <3>3 DEF OnTheWay
      <4> QED
        BY <2>1, <3>2, <3>4, <3>5, <3>6, <4>1 DEF Fetched
    <3>7. CASE n # m
      <4>1. OnTheWay(n)' <= OnTheWay(n)
        BY <1>0, <1>1, <3>2, <3>3, <3>7 DEF OnTheWay
      <4> QED
        BY <2>1, <3>2, <3>4, <3>5, <3>7, <4>1 DEF Fetched
    <3> QED
      BY <3>6, <3>7
  <2> QED
    BY <1>4, <1>8, <2>1, Zenon DEF UploadCallback, NoEffect
<1>9. CASE ClearTree
  BY <1>4, <1>9 DEF ClearTree
<1> QED
  BY <1>5, <1>6, <1>7, <1>8, <1>9, Zenon DEF RunCallback, c

LEMMA FetchInit == Init => FetchOK
<1> SUFFICES ASSUME Init, NEW n \in Nodes
             PROVE  /\ IsFiniteSet(Fetching(n))
                    /\ fills[n] + InJobs(n) + InQueue(n) <= 1 + refetched[n]
                    /\ fills[n] + InJobs(n) + InQueue(n) <= refetched[n]
                    /\ content[n] = "loading"
  BY Zenon DEF FetchOK
<1>1. Fetching(n) = {} /\ Waiting(queue, n) = {}
  BY DEF Init, Fetching, Waiting
<1>2. IsFiniteSet(Fetching(n)) /\ InJobs(n) = 0 /\ InQueue(n) = 0
  BY <1>1, FS_EmptySet DEF InJobs, InQueue
<1>3. fills[n] = 0 /\ refetched[n] = 0 /\ content[n] = "loading"
  BY DEF Init
<1> QED
  BY <1>2, <1>3

LEMMA FetchStep == IInv /\ MoreTypes /\ FetchOK /\ [Next]_vars => FetchOK'
<1> SUFFICES ASSUME IInv, MoreTypes, FetchOK, [Next]_vars PROVE FetchOK'
  OBVIOUS
<1>1. CASE UNCHANGED vars
  BY <1>1, Zenon DEF vars, FetchOK, Fetching, InJobs, InQueue, Waiting
<1>2. CASE Next
  <2>1. IInv'
    BY NextIInv
  <2>2. \A n \in Nodes : Fetched(n)
    BY <1>2, FetchedStart, FetchedWorker, FetchedCallback DEF Next
  <2> QED
    BY <2>1, <2>2, FetchedKeeps
<1> QED
  BY <1>1, <1>2

\* onRepoItemExpanded() starts a fetch only in place of the placeholder, which
\* takeChildren() removes first: with any number of listings, uploads and
\* fetches in progress, a node's content is added once, and once more for
\* each upload that had it fetched again.
THEOREM NodesFetchedOnce == Spec => []FetchedOnce
<1>1. IInv /\ MoreTypes /\ FetchOK => FetchedOnce
  <2> SUFFICES ASSUME IInv, MoreTypes, FetchOK, NEW n \in Nodes
               PROVE  fills[n] <= 1 + refetched[n]
    BY DEF FetchedOnce
  <2>1. /\ InJobs(n) \in Nat /\ InQueue(n) \in Nat /\ fills[n] \in Nat /\ refetched[n] \in Nat
        /\ fills[n] + InJobs(n) + InQueue(n) <= 1 + refetched[n]
    BY Counts DEF FetchOK, MoreTypes, NodeTypes
  <2> QED
    BY <2>1
<1> QED
  BY <1>1, InitIInv, NextIInv, MoreInit, MoreStep, FetchInit, FetchStep, PTL DEF Spec
=============================================================================
