------------------------- MODULE ProjectAddsProofs -------------------------
(***************************************************************************)
(* Proofs about what is added to a project: no item twice, and every file  *)
(* with its own item's bytes, for any items, names and files and any       *)
(* number of workers.                                                      *)
(***************************************************************************)
EXTENDS ProjectFilesProofs

Elems(q) == {q[a] : a \in 1..Len(q)}

\* The workers that add items, and with them the callbacks such workers have
\* posted.
Adding == {j \in jobs : j.kind \in Adds}
Pending == {c \in jobs \cup Elems(queue) : c.kind \in Adds}

\* File f holds item i, unless two workers shared a temporary file.
Holds(f, i) == bytes[f] = i \/ NameOf[i] \in shared

\* A worker between the download and CreateFileFromPath(): nobody else has
\* put another item under the name it used, unless the name was shared.
TempOK ==
  \A j \in Adding :
    j.step = "create" =>
      /\ j.item \in j.todo
      /\ temp[NameOf[j.item]] \in {j.item, None} \/ NameOf[j.item] \in shared

\* A file that waits for its link was made for the project and the item of
\* its job; so was a file that was linked.
GotOK ==
  \A c \in Pending, f \in Files :
    c.got[f] # None =>
      f \in made /\ owner[f] \in {c.project, None} /\ Holds(f, c.got[f])

AddedOK ==
  \A f \in added :
    /\ f \in made
    /\ owner[f] # None => link[owner[f]][f] # None /\ Holds(f, link[owner[f]][f])

\* Nothing is added to the new project before it is populated.
NewOK ==
  /\ \A c \in Pending : c.project = New /\ c.kind # "populate" => context = New
  /\ (\E c \in jobs \cup Elems(queue) : c.kind = "enumerate") => FilesOf(New) = {}

\* File f of project p is there for item i, or about to be.
FileClaim(f, p, i) ==
  \/ f \in added /\ owner[f] = p /\ link[p][f] = i
  \/ \E c \in Pending : c.project = p /\ c.got[f] = i

\* Worker j has still to add item i to project p.
JobClaim(j, p, i) == j \in Adding /\ j.project = p /\ i \in j.todo

\* Only one file or worker stands for an item of a project, unless the item
\* was asked for while it was being added.
ClaimsOK ==
  \A p \in Projects, i \in Items :
    i \in raced \/
      /\ \A f, g \in Files : FileClaim(f, p, i) /\ FileClaim(g, p, i) => f = g
      /\ \A f \in Files, j \in jobs : ~(FileClaim(f, p, i) /\ JobClaim(j, p, i))
      /\ \A j, k \in jobs : JobClaim(j, p, i) /\ JobClaim(k, p, i) => j = k

AddsInv == TempOK /\ GotOK /\ AddedOK /\ NewOK /\ ClaimsOK

-----------------------------------------------------------------------------
(* The queue *)

LEMMA ElemsAppend ==
  ASSUME NEW q \in Seq(Callback), NEW x \in Callback
  PROVE  Elems(Append(q, x)) = Elems(q) \cup {x}
<1> DEFINE r == Append(q, x)
<1>1. /\ Len(r) = Len(q) + 1 /\ Len(q) \in Nat /\ r[Len(r)] = x
      /\ \A a \in 1..Len(q) : a \in 1..Len(r) /\ r[a] = q[a]
      /\ Len(r) \in 1..Len(r)
  OBVIOUS
<1> HIDE DEF r
<1>2. \A a \in 1..Len(r) : r[a] = x \/ (a \in 1..Len(q) /\ r[a] = q[a])
  BY <1>1
<1>3. Elems(r) \subseteq Elems(q) \cup {x}
  BY <1>2 DEF Elems
<1>4. Elems(q) \cup {x} \subseteq Elems(r)
  BY <1>1 DEF Elems
<1> QED
  BY <1>3, <1>4 DEF r

LEMMA ElemsTail ==
  ASSUME NEW q \in Seq(Callback), q # <<>>
  PROVE  Elems(Tail(q)) \subseteq Elems(q) /\ Head(q) \in Elems(q)
<1> DEFINE r == Tail(q)
<1>1. /\ Len(q) \in Nat /\ Len(q) >= 1 /\ Len(r) = Len(q) - 1 /\ Head(q) = q[1]
      /\ \A a \in 1..Len(r) : r[a] = q[a + 1]
  OBVIOUS
<1> HIDE DEF r
<1>2. \A a \in 1..Len(r) : a + 1 \in 1..Len(q)
  BY <1>1
<1>3. Elems(r) \subseteq Elems(q)
  BY <1>1, <1>2 DEF Elems
<1>4. Head(q) \in Elems(q)
  BY <1>1 DEF Elems
<1> QED
  BY <1>3, <1>4 DEF r

LEMMA ElemsType ==
  ASSUME TypeOK PROVE queue \in Seq(Callback) /\ Elems(queue) \subseteq Callback /\ jobs \subseteq Job
<1>1. queue \in Seq(Callback) /\ jobs \subseteq Job
  BY DEF TypeOK, Callback
<1>2. \A a \in 1..Len(queue) : queue[a] \in Callback
  BY <1>1
<1> QED
  BY <1>1, <1>2 DEF Elems

LEMMA PendingType ==
  ASSUME TypeOK, NEW c \in Pending
  PROVE  /\ c \in Job /\ c.got \in [Files -> Link] /\ c.project \in Projects
         /\ c.todo \in SUBSET Items /\ c.kind \in Adds
<1>1. c \in Callback /\ c.kind \in Adds
  BY ElemsType DEF Pending, Callback
<1>2. c \in Job
  BY <1>1 DEF Callback, Changed, Adds
<1> QED
  BY <1>1, <1>2 DEF Job, ProjectFits

LEMMA AddingPending == Adding \subseteq Pending
BY DEF Adding, Pending

-----------------------------------------------------------------------------
(* Steps of one shape *)

\* Nothing new is added: jobs and callbacks only go, files that were made
\* only leave their project, and what was linked by an add keeps its link or
\* is no longer counted.
Quiet ==
  /\ Adding' \subseteq Adding /\ Pending' \subseteq Pending
  /\ UNCHANGED <<temp, shared, raced, bytes>>
  /\ made \subseteq made'
  /\ \A f \in made : owner'[f] \in {owner[f], None}
  /\ added' \subseteq added
  /\ \A f \in added' : owner[f] # None => link'[owner[f]][f] = link[owner[f]][f]

LEMMA QuietKeeps ==
  ASSUME TypeOK, TypeOK', TempOK, GotOK, AddedOK, ClaimsOK, Quiet
  PROVE  TempOK' /\ GotOK' /\ AddedOK' /\ ClaimsOK'
<1>1. TempOK'
  BY DEF Quiet, TempOK
<1>2. GotOK'
  <2> SUFFICES ASSUME NEW c \in Pending', NEW f \in Files, c.got[f] # None
               PROVE  /\ f \in made' /\ owner'[f] \in {c.project, None}
                      /\ bytes'[f] = c.got[f] \/ NameOf[c.got[f]] \in shared'
    BY DEF GotOK, Holds
  <2>1. /\ f \in made /\ owner[f] \in {c.project, None}
        /\ bytes[f] = c.got[f] \/ NameOf[c.got[f]] \in shared
    BY DEF Quiet, GotOK, Holds
  <2> QED
    BY <2>1 DEF Quiet
<1>3. AddedOK'
  <2> SUFFICES ASSUME NEW f \in added'
               PROVE  /\ f \in made'
                      /\ owner'[f] # None =>
                           /\ link'[owner'[f]][f] # None
                           /\ \/ bytes'[f] = link'[owner'[f]][f]
                              \/ NameOf[link'[owner'[f]][f]] \in shared'
    BY DEF AddedOK, Holds
  <2>1. /\ f \in added /\ f \in made /\ f \in made'
        /\ owner[f] # None => /\ link[owner[f]][f] # None
                              /\ \/ bytes[f] = link[owner[f]][f]
                                 \/ NameOf[link[owner[f]][f]] \in shared
    BY DEF Quiet, AddedOK, Holds
  <2>2. owner'[f] # None => owner'[f] = owner[f] /\ link'[owner[f]][f] = link[owner[f]][f]
    BY <2>1 DEF Quiet
  <2> QED
    BY <2>1, <2>2 DEF Quiet
<1>4. ASSUME NEW f \in Files, NEW p \in Projects, NEW i \in Items, FileClaim(f, p, i)'
      PROVE  FileClaim(f, p, i)
  <2>1. CASE f \in added' /\ owner'[f] = p /\ link'[p][f] = i
    <3>1. f \in added /\ f \in made /\ p # None
      BY <2>1 DEF Quiet, AddedOK, Projects, None, Old, New
    <3>2. owner[f] = p /\ link[p][f] = i
      BY <2>1, <3>1 DEF Quiet
    <3> QED
      BY <3>1, <3>2 DEF FileClaim
  <2>2. CASE \E c \in Pending' : c.project = p /\ c.got[f] = i
    BY <2>2 DEF Quiet, FileClaim
  <2> QED
    BY <1>4, <2>1, <2>2 DEF FileClaim
<1>5. ASSUME NEW j \in jobs', NEW p \in Projects, NEW i \in Items, JobClaim(j, p, i)'
      PROVE  j \in jobs /\ JobClaim(j, p, i)
  BY <1>5 DEF Quiet, JobClaim, Adding
<1>6. raced' = raced
  BY DEF Quiet
<1>7. ClaimsOK'
  BY <1>4, <1>5, <1>6 DEF ClaimsOK
<1> QED
  BY <1>1, <1>2, <1>3, <1>7

\* A worker k is started for items that nothing stands for yet, or that
\* count as asked for twice.
Starts(k) ==
  /\ k.got = NoFiles /\ k.step = "run"
  /\ Adding' \subseteq Adding \cup {k} /\ Pending' \subseteq Pending \cup {k}
  /\ UNCHANGED <<temp, shared, disk, link, added>>
  /\ raced \subseteq raced'
  /\ \A i \in Items : i \in k.todo /\ i \notin raced' =>
       /\ \A f \in Files : ~FileClaim(f, k.project, i)
       /\ \A j \in jobs : ~JobClaim(j, k.project, i)

LEMMA StartKeeps ==
  ASSUME TypeOK, TempOK, GotOK, AddedOK, ClaimsOK, NEW k, Starts(k)
  PROVE  TempOK' /\ GotOK' /\ AddedOK' /\ ClaimsOK'
<1>0. \A f \in Files : k.got[f] = None
  BY DEF Starts, NoFiles
<1>1. TempOK'
  BY DEF Starts, TempOK
<1>2. GotOK'
  BY <1>0 DEF Starts, GotOK, Holds, disk
<1>3. AddedOK'
  BY DEF Starts, AddedOK, Holds, disk
<1>4. ASSUME NEW f \in Files, NEW p \in Projects, NEW i \in Items, FileClaim(f, p, i)'
      PROVE  FileClaim(f, p, i)
  <2>1. i # None
    BY ConstantsAssumption
  <2> QED
    BY <1>0, <1>4, <2>1 DEF Starts, FileClaim, disk
<1>5. ASSUME NEW j \in jobs', NEW p \in Projects, NEW i \in Items, JobClaim(j, p, i)'
      PROVE  \/ j \in jobs /\ JobClaim(j, p, i)
             \/ j = k /\ p = k.project /\ i \in k.todo
  BY <1>5 DEF Starts, JobClaim, Adding
<1>6. ASSUME NEW p \in Projects, NEW i \in Items, i \notin raced'
      PROVE  /\ \A f, g \in Files : FileClaim(f, p, i)' /\ FileClaim(g, p, i)' => f = g
             /\ \A f \in Files, j \in jobs' : ~(FileClaim(f, p, i)' /\ JobClaim(j, p, i)')
             /\ \A j, l \in jobs' : JobClaim(j, p, i)' /\ JobClaim(l, p, i)' => j = l
  <2>1. i \notin raced
    BY <1>6 DEF Starts
  <2>2. /\ \A f, g \in Files : FileClaim(f, p, i) /\ FileClaim(g, p, i) => f = g
        /\ \A f \in Files, j \in jobs : ~(FileClaim(f, p, i) /\ JobClaim(j, p, i))
        /\ \A j, l \in jobs : JobClaim(j, p, i) /\ JobClaim(l, p, i) => j = l
    BY <2>1 DEF ClaimsOK
  <2>3. p = k.project /\ i \in k.todo =>
          /\ \A f \in Files : ~FileClaim(f, p, i)
          /\ \A j \in jobs : ~JobClaim(j, p, i)
    BY <1>6 DEF Starts
  <2> QED
    BY <1>4, <1>5, <2>2, <2>3
<1>7. ClaimsOK'
  BY <1>6 DEF ClaimsOK
<1> QED
  BY <1>1, <1>2, <1>3, <1>7

\* Worker j goes on as k, which has made the same files and has no more to
\* do.
Moves(j, k) ==
  /\ j \in Adding /\ k.project = j.project /\ k.got = j.got /\ k.todo \subseteq j.todo
  /\ Adding' \subseteq (Adding \ {j}) \cup {k} /\ Pending' \subseteq Pending \cup {k}
  /\ UNCHANGED <<disk, link, added, raced>>
  /\ shared \subseteq shared'

LEMMA MoveKeeps ==
  ASSUME TypeOK, GotOK, AddedOK, ClaimsOK, NEW j, NEW k, Moves(j, k)
  PROVE  GotOK' /\ AddedOK' /\ ClaimsOK'
<1>0. j \in Pending /\ j \in jobs
  BY AddingPending DEF Moves, Adding
<1>1. GotOK'
  BY <1>0 DEF Moves, GotOK, Holds, disk
<1>2. AddedOK'
  BY DEF Moves, AddedOK, Holds, disk
<1>3. ASSUME NEW f \in Files, NEW p \in Projects, NEW i \in Items, FileClaim(f, p, i)'
      PROVE  FileClaim(f, p, i)
  BY <1>0, <1>3 DEF Moves, FileClaim, disk
<1>4. ASSUME NEW l \in jobs', NEW p \in Projects, NEW i \in Items, JobClaim(l, p, i)'
      PROVE  \/ l \in jobs /\ l # j /\ JobClaim(l, p, i)
             \/ l = k /\ JobClaim(j, p, i)
  BY <1>0, <1>4 DEF Moves, JobClaim, Adding
<1>5. ASSUME NEW p \in Projects, NEW i \in Items, i \notin raced'
      PROVE  /\ \A f, g \in Files : FileClaim(f, p, i)' /\ FileClaim(g, p, i)' => f = g
             /\ \A f \in Files, l \in jobs' : ~(FileClaim(f, p, i)' /\ JobClaim(l, p, i)')
             /\ \A l, m \in jobs' : JobClaim(l, p, i)' /\ JobClaim(m, p, i)' => l = m
  <2>1. /\ \A f, g \in Files : FileClaim(f, p, i) /\ FileClaim(g, p, i) => f = g
        /\ \A f \in Files, l \in jobs : ~(FileClaim(f, p, i) /\ JobClaim(l, p, i))
        /\ \A l, m \in jobs : JobClaim(l, p, i) /\ JobClaim(m, p, i) => l = m
    BY <1>5 DEF ClaimsOK, Moves
  <2> QED
    BY <1>0, <1>3, <1>4, <2>1
<1>6. ClaimsOK'
  BY <1>5 DEF ClaimsOK
<1> QED
  BY <1>1, <1>2, <1>6

\* Worker j goes on as k, which has made file f for item i.
Makes(j, k, f, i) ==
  /\ j \in Adding /\ k.project = j.project /\ k.got = [j.got EXCEPT ![f] = i]
  /\ i \in j.todo /\ k.todo = j.todo \ {i}
  /\ Adding' \subseteq (Adding \ {j}) \cup {k} /\ Pending' \subseteq Pending \cup {k}
  /\ f \in Files \ made /\ made' = made \cup {f}
  /\ owner' = [owner EXCEPT ![f] = j.project]
  /\ \A g \in Files \ {f} : bytes'[g] = bytes[g]
  /\ bytes'[f] = i \/ NameOf[i] \in shared
  /\ UNCHANGED <<link, added, raced, shared>>

LEMMA MakeKeeps ==
  ASSUME TypeOK, GotOK, AddedOK, ClaimsOK, NEW j, NEW k, NEW f, NEW i \in Items,
         Makes(j, k, f, i)
  PROVE  GotOK' /\ AddedOK' /\ ClaimsOK'
<1>0. j \in Pending /\ j \in jobs /\ f \in Files /\ f \notin made
  BY AddingPending DEF Makes, Adding
<1>a. j.got \in [Files -> Link] /\ j.project \in Projects
  BY <1>0, PendingType
<1>b. \A g \in Files : k.got[g] = IF g = f THEN i ELSE j.got[g]
  BY <1>0, <1>a, Zenon DEF Makes
<1>c. \A g \in Files : owner'[g] = IF g = f THEN j.project ELSE owner[g]
  BY <1>0 DEF Makes, TypeOK
<1>1. GotOK'
  <2> SUFFICES ASSUME NEW c \in Pending', NEW g \in Files, c.got[g] # None
               PROVE  /\ g \in made' /\ owner'[g] \in {c.project, None}
                      /\ bytes'[g] = c.got[g] \/ NameOf[c.got[g]] \in shared'
    BY DEF GotOK, Holds
  <2>1. CASE c = k /\ g = f
    BY <1>0, <1>b, <1>c, <2>1, Zenon DEF Makes
  <2>2. ASSUME NEW d \in Pending, d.project = c.project, d.got[g] = c.got[g]
        PROVE  /\ g \in made' /\ owner'[g] \in {c.project, None}
               /\ bytes'[g] = c.got[g] \/ NameOf[c.got[g]] \in shared'
    <3>1. /\ g \in made /\ owner[g] \in {c.project, None}
          /\ bytes[g] = c.got[g] \/ NameOf[c.got[g]] \in shared
      BY <2>2 DEF GotOK, Holds
    <3>2. g # f
      BY <1>0, <3>1
    <3> QED
      BY <1>c, <3>1, <3>2 DEF Makes
  <2>3. CASE c = k /\ g # f
    BY <1>0, <1>b, <2>2, <2>3, Zenon DEF Makes
  <2>4. CASE c \in Pending
    BY <2>2, <2>4
  <2> QED
    BY <2>1, <2>3, <2>4 DEF Makes
<1>2. \A g \in added : g # f
  BY <1>0 DEF AddedOK
<1>3. AddedOK'
  <2> SUFFICES ASSUME NEW g \in added
               PROVE  /\ g \in made'
                      /\ owner'[g] # None =>
                           /\ link'[owner'[g]][g] # None
                           /\ \/ bytes'[g] = link'[owner'[g]][g]
                              \/ NameOf[link'[owner'[g]][g]] \in shared'
    BY DEF AddedOK, Holds, Makes
  <2>1. g # f /\ g \in Files /\ owner'[g] = owner[g] /\ bytes'[g] = bytes[g]
    BY <1>2, <1>c, Zenon DEF Makes, TypeOK
  <2> QED
    BY <2>1 DEF AddedOK, Holds, Makes
<1>4. ASSUME NEW g \in Files, NEW p \in Projects, NEW h \in Items, FileClaim(g, p, h)'
      PROVE  FileClaim(g, p, h) \/ (g = f /\ p = j.project /\ h = i)
  <2>1. CASE g \in added' /\ owner'[g] = p /\ link'[p][g] = h
    <3>1. g \in added /\ g # f /\ link[p][g] = h
      BY <1>2, <2>1 DEF Makes
    <3>2. owner[g] = p
      BY <1>c, <2>1, <3>1
    <3> QED
      BY <3>1, <3>2 DEF FileClaim
  <2>2. ASSUME NEW c \in Pending', c.project = p, c.got[g] = h
        PROVE  FileClaim(g, p, h) \/ (g = f /\ p = j.project /\ h = i)
    <3>1. CASE c \in Pending
      BY <2>2, <3>1 DEF FileClaim
    <3>2. CASE c = k /\ g # f
      <4>1. j.project = p /\ j.got[g] = h
        BY <1>b, <2>2, <3>2, Zenon DEF Makes
      <4> QED
        BY <1>0, <4>1 DEF FileClaim
    <3>3. CASE c = k /\ g = f
      BY <1>b, <2>2, <3>3, Zenon DEF Makes
    <3> QED
      BY <3>1, <3>2, <3>3 DEF Makes
  <2> QED
    BY <1>4, <2>1, <2>2 DEF FileClaim
<1>5. ASSUME NEW l \in jobs', NEW p \in Projects, NEW h \in Items, JobClaim(l, p, h)'
      PROVE  \/ l \in jobs /\ l # j /\ JobClaim(l, p, h)
             \/ l = k /\ JobClaim(j, p, h) /\ h # i
  BY <1>0, <1>5 DEF Makes, JobClaim, Adding
<1>6. JobClaim(j, j.project, i)
  BY DEF JobClaim, Makes
<1>7. ASSUME NEW p \in Projects, NEW h \in Items, h \notin raced'
      PROVE  /\ \A g, e \in Files : FileClaim(g, p, h)' /\ FileClaim(e, p, h)' => g = e
             /\ \A g \in Files, l \in jobs' : ~(FileClaim(g, p, h)' /\ JobClaim(l, p, h)')
             /\ \A l, m \in jobs' : JobClaim(l, p, h)' /\ JobClaim(m, p, h)' => l = m
  <2>1. /\ \A g, e \in Files : FileClaim(g, p, h) /\ FileClaim(e, p, h) => g = e
        /\ \A g \in Files, l \in jobs : ~(FileClaim(g, p, h) /\ JobClaim(l, p, h))
        /\ \A l, m \in jobs : JobClaim(l, p, h) /\ JobClaim(m, p, h) => l = m
    BY <1>7 DEF ClaimsOK, Makes
  <2>2. CASE p = j.project /\ h = i
    BY <1>0, <1>4, <1>5, <1>6, <2>1, <2>2
  <2>3. CASE ~(p = j.project /\ h = i)
    BY <1>0, <1>4, <1>5, <2>1, <2>3
  <2> QED
    BY <2>2, <2>3, Zenon
<1>8. ClaimsOK'
  BY <1>7 DEF ClaimsOK
<1> QED
  BY <1>1, <1>3, <1>8

\* The links of the files that callback c brings are stored.
Links(c) ==
  /\ c \in Pending
  /\ Adding' \subseteq Adding /\ Pending' \subseteq Pending
  /\ UNCHANGED <<disk, temp, shared, raced>>
  /\ link' = [link EXCEPT ![c.project] =
               [f \in Files |-> IF f \in Gotten(c) THEN c.got[f] ELSE @[f]]]
  /\ added' = added \cup Gotten(c)

LEMMA LinkKeeps ==
  ASSUME TypeOK, TempOK, GotOK, AddedOK, ClaimsOK, NEW c, Links(c)
  PROVE  TempOK' /\ GotOK' /\ AddedOK' /\ ClaimsOK'
<1>0. c \in Pending /\ c.got \in [Files -> Link] /\ c.project \in Projects
  BY PendingType DEF Links
<1>a. \A f \in Files : f \in Gotten(c) <=> c.got[f] # None
  BY Zenon DEF Gotten
<1>b. /\ \A f \in Files, p \in Projects :
            link'[p][f] = IF p = c.project /\ f \in Gotten(c) THEN c.got[f] ELSE link[p][f]
  BY <1>0 DEF Links, TypeOK
<1>c. \A f \in Gotten(c) : f \in Files /\ f \in made /\ owner[f] \in {c.project, None}
                               /\ (bytes[f] = c.got[f] \/ NameOf[c.got[f]] \in shared)
  BY <1>0 DEF Gotten, GotOK, Holds
<1>1. TempOK' /\ GotOK'
  BY Zenon DEF Links, TempOK, GotOK, Holds, disk
<1>2. AddedOK'
  <2> SUFFICES ASSUME NEW f \in added'
               PROVE  /\ f \in made
                      /\ owner[f] # None =>
                           /\ link'[owner[f]][f] # None
                           /\ \/ bytes[f] = link'[owner[f]][f]
                              \/ NameOf[link'[owner[f]][f]] \in shared
    BY DEF AddedOK, Holds, Links, disk
  <2>1. CASE f \in Gotten(c)
    BY <1>0, <1>a, <1>b, <1>c, <2>1 DEF Projects
  <2>2. CASE f \notin Gotten(c)
    <3>1. f \in added /\ f \in Files
      BY <2>2, Zenon DEF Links, TypeOK
    <3>2. owner[f] # None => link'[owner[f]][f] = link[owner[f]][f]
      BY <1>b, <2>2, <3>1, Zenon DEF TypeOK
    <3> QED
      BY <3>1, <3>2 DEF AddedOK, Holds
  <2> QED
    BY <2>1, <2>2, Zenon
<1>3. ASSUME NEW f \in Files, NEW p \in Projects, NEW i \in Items, FileClaim(f, p, i)'
      PROVE  FileClaim(f, p, i)
  <2>1. CASE f \in added' /\ owner'[f] = p /\ link'[p][f] = i
    <3>1. owner[f] = p /\ p # None
      BY <2>1 DEF Links, disk, Projects, None, Old, New
    <3>2. CASE f \in Gotten(c)
      <4>1. c.project = p /\ c.got[f] = i
        BY <1>b, <1>c, <2>1, <3>1, <3>2
      <4> QED
        BY <1>0, <4>1, Zenon DEF FileClaim
    <3>3. CASE f \notin Gotten(c)
      BY <1>b, <2>1, <3>1, <3>3 DEF Links, FileClaim
    <3> QED
      BY <3>2, <3>3
  <2>2. CASE \E d \in Pending' : d.project = p /\ d.got[f] = i
    BY <2>2 DEF Links, FileClaim
  <2> QED
    BY <1>3, <2>1, <2>2 DEF FileClaim
<1>4. ASSUME NEW j \in jobs', NEW p \in Projects, NEW i \in Items, JobClaim(j, p, i)'
      PROVE  j \in jobs /\ JobClaim(j, p, i)
  BY <1>4 DEF Links, JobClaim, Adding
<1>5. raced' = raced
  BY DEF Links
<1>6. ClaimsOK'
  BY <1>3, <1>4, <1>5 DEF ClaimsOK
<1> QED
  BY <1>1, <1>2, <1>6

-----------------------------------------------------------------------------
(* Jobs and callbacks *)

Carriers == jobs \cup Elems(queue)

\* No listing of a folder is begun.
NoNewEnumerate == \A c \in Carriers' : c.kind = "enumerate" => c \in Carriers

LEMMA OnlyGo ==
  ASSUME Carriers' \subseteq Carriers \cup {Changed}, jobs' \subseteq jobs
  PROVE  Adding' \subseteq Adding /\ Pending' \subseteq Pending /\ NoNewEnumerate
BY DEF Carriers, Adding, Pending, NoNewEnumerate, Changed, Adds

LEMMA OneComes ==
  ASSUME NEW k, Carriers' \subseteq Carriers \cup {k}, jobs' \subseteq jobs \cup {k}
  PROVE  /\ Adding' \subseteq Adding \cup {k} /\ Pending' \subseteq Pending \cup {k}
         /\ k.kind \notin Adds => Adding' \subseteq Adding /\ Pending' \subseteq Pending
         /\ k.kind # "enumerate" => NoNewEnumerate
BY DEF Carriers, Adding, Pending, NoNewEnumerate

\* The new project.
LEMMA NewKeeps ==
  ASSUME NewOK, context' \in {context, New}, NoNewEnumerate,
         FilesOf(New)' \subseteq FilesOf(New) \/ \A c \in Carriers : c.kind # "enumerate",
         \A c \in Pending' :
           \/ c \in Pending \/ c.project # New \/ c.kind = "populate" \/ context = New
           \/ \E d \in Pending : d.kind = c.kind /\ d.project = c.project
  PROVE  NewOK'
<1>1. \A c \in Pending' : c.project = New /\ c.kind # "populate" => context' = New
  BY DEF NewOK
<1>2. (\E c \in Carriers' : c.kind = "enumerate") => FilesOf(New)' = {}
  BY DEF NewOK, NoNewEnumerate, Carriers
<1> QED
  BY <1>1, <1>2 DEF NewOK, Carriers

\* The worker as it is once it is through with an item.
Advanced(j, i, got) ==
  [j EXCEPT !.todo = @ \ {i}, !.item = None, !.step = "run", !.got = got]

LEMMA AdvanceShape ==
  ASSUME TypeOK, NEW j \in Adding, NEW i \in Link, NEW got \in [Files -> Link],
         NEW q \in {queue, Append(queue, Changed)}, Advance(j, i, got, q),
         NEW k, k = Advanced(j, i, got)
  PROVE  /\ k.project = j.project /\ k.kind = j.kind /\ k.got = got /\ k.todo = j.todo \ {i}
         /\ k.step = "run"
         /\ Adding' \subseteq (Adding \ {j}) \cup {k} /\ Pending' \subseteq Pending \cup {k}
         /\ NoNewEnumerate
<1>0. j \in Job /\ j.kind \in Adds /\ j \in jobs
  BY ElemsType DEF Adding
<1>1. /\ k \in Callback /\ k.project = j.project /\ k.kind = j.kind /\ k.got = got
      /\ k.todo = j.todo \ {i} /\ k.step = "run"
  BY <1>0, Zenon DEF Advanced, Job, Link, Callback
<1>2. /\ jobs' \subseteq (jobs \ {j}) \cup {k}
      /\ queue' \in {q, Append(q, k)}
  BY DEF Advance, Advanced, Replace
<1>3. queue \in Seq(Callback) /\ Changed \in Callback /\ q \in Seq(Callback)
  BY ElemsType DEF Callback
<1>4. Elems(q) \subseteq Elems(queue) \cup {Changed}
  BY <1>3, ElemsAppend, Zenon
<1>5. Elems(queue') \subseteq Elems(queue) \cup {Changed, k}
  <2>1. Elems(Append(q, k)) = Elems(q) \cup {k}
    BY <1>1, <1>3, ElemsAppend
  <2> QED
    BY <1>2, <1>4, <2>1, Zenon
<1>6. Changed.kind \notin Adds /\ Changed.kind # "enumerate"
  BY DEF Changed, Adds
<1>7. Adding' \subseteq (Adding \ {j}) \cup {k}
  BY <1>2 DEF Adding
<1>8. Pending' \subseteq Pending \cup {k}
  BY <1>2, <1>5, <1>6, Zenon DEF Pending
<1>9. k.kind # "enumerate"
  BY <1>0, <1>1 DEF Adds
<1>10. NoNewEnumerate
  BY <1>2, <1>5, <1>6, <1>9 DEF NoNewEnumerate, Carriers
<1> QED
  BY <1>1, <1>7, <1>8, <1>10

-----------------------------------------------------------------------------
(* Requests *)

LEMMA NoClaims ==
  ASSUME TypeOK, NEW p \in Projects, NEW i \in Items, i \notin InFlight(p)
  PROVE  /\ \A c \in Pending, f \in Files : ~(c.project = p /\ c.got[f] = i)
         /\ \A j \in jobs : ~JobClaim(j, p, i)
BY DEF InFlight, Pending, Elems, Queued, JobClaim, Adding

LEMMA AddItemsKeeps ==
  ASSUME TypeOK, FilesOK, AddsInv, NEW kind \in {"add", "bulk"}, NEW s \in SUBSET Items,
         AddItems(kind, s)
  PROVE  AddsInv'
<1> DEFINE p == CurrentOpenProject
           k == NewJob(kind, p, None, Missing(p, s), None)
<1>0. p \in Projects
  BY CurrentType DEF AddItems
<1>1. /\ k.kind = kind /\ k.project = p /\ k.todo = Missing(p, s) /\ k.step = "run"
      /\ k.got = NoFiles
  BY DEF NewJob
<1>2. /\ jobs' = jobs \cup {k} /\ raced' = raced \cup (Missing(p, s) \cap InFlight(p))
      /\ UNCHANGED <<queue, context, temp, shared, disk, link, added>>
  BY DEF AddItems, Enqueue, meta
<1>3. p = New => context = New
  BY Zenon DEF CurrentOpenProject, ProjectForView, FilesOK, New, None
<1>4. ASSUME NEW i \in Items, i \in Missing(p, s), i \notin raced'
      PROVE  /\ \A f \in Files : ~FileClaim(f, p, i)
             /\ \A j \in jobs : ~JobClaim(j, p, i)
  <2>1. i \notin InFlight(p)
    BY <1>2, <1>4
  <2>2. \A f \in Files : owner[f] = p => link[p][f] # i
    BY <1>4 DEF Missing, FilesOf
  <2> HIDE DEF p
  <2> QED
    BY <1>0, <2>1, <2>2, NoClaims DEF FileClaim
<1> HIDE DEF k, p
<1>5. /\ Adding' \subseteq Adding \cup {k} /\ Pending' \subseteq Pending \cup {k}
      /\ NoNewEnumerate
  BY <1>1, <1>2, OneComes, Zenon DEF Carriers
<1>6. Starts(k)
  BY <1>1, <1>2, <1>4, <1>5 DEF Starts
<1>7. TempOK' /\ GotOK' /\ AddedOK' /\ ClaimsOK'
  BY <1>6, StartKeeps DEF AddsInv
<1>8. FilesOf(New)' = FilesOf(New)
  BY <1>2 DEF FilesOf, disk
<1>9. NewOK'
  BY <1>1, <1>2, <1>3, <1>5, <1>8, NewKeeps DEF AddsInv
<1> QED
  BY <1>7, <1>9 DEF AddsInv

LEMMA AddsRequest ==
  ASSUME TypeOK, TypeOK', FilesOK, AddsInv, Request
  PROVE  AddsInv'
<1>1. ASSUME NEW i \in Items, AddItemToProject(i) PROVE AddsInv'
  BY <1>1, AddItemsKeeps DEF AddItemToProject
<1>2. ASSUME NEW s \in Selections, BulkAddItemsToProject(s) PROVE AddsInv'
  BY <1>2, AddItemsKeeps, ConstantsAssumption DEF BulkAddItemsToProject
<1>3. ASSUME NEW kind \in {"import", "delete", "upload", "enumerate", "disconnect"}, NEW p, NEW v, NEW i,
             Enqueue(kind, p, v, {}, i), kind = "enumerate" => FilesOf(New) = {},
             UNCHANGED <<meta, disk, temp, context, queue, history>>
      PROVE  AddsInv'
  <2> DEFINE k == NewJob(kind, p, v, {}, i)
  <2>1. k.kind = kind /\ k.kind \notin Adds
    BY DEF NewJob, Adds
  <2>2. jobs' = jobs \cup {k}
    BY <1>3 DEF Enqueue
  <2> HIDE DEF k
  <2>3. /\ Adding' \subseteq Adding /\ Pending' \subseteq Pending
        /\ k.kind # "enumerate" => NoNewEnumerate
    BY <1>3, <2>1, <2>2, OneComes DEF Carriers
  <2>4. Quiet
    BY <1>3, <2>3 DEF Quiet, meta, disk, history
  <2>5. TempOK' /\ GotOK' /\ AddedOK' /\ ClaimsOK'
    BY <2>4, QuietKeeps DEF AddsInv
  <2>6. FilesOf(New)' = FilesOf(New)
    BY <1>3 DEF FilesOf, disk
  <2>7. NewOK'
    <3>1. CASE kind = "enumerate"
      BY <1>3, <2>3, <2>6, <3>1 DEF AddsInv, NewOK
    <3>2. CASE kind # "enumerate"
      BY <1>3, <2>1, <2>3, <2>6, <3>2, NewKeeps DEF AddsInv
    <3> QED
      BY <3>1, <3>2
  <2> QED
    BY <2>5, <2>7 DEF AddsInv
<1>4. ASSUME NEW i \in Items, ImportItem(i) PROVE AddsInv'
  BY <1>3, <1>4 DEF ImportItem
<1>5. ASSUME NEW i \in Items, DeleteItem(i) PROVE AddsInv'
  BY <1>3, <1>5 DEF DeleteItem
<1>6. CASE CreateProjectFromNode
  BY <1>3, <1>6 DEF CreateProjectFromNode
<1>7. ASSUME NEW f \in Files, NEW i \in Items, UploadToGhidra(f, i) PROVE AddsInv'
  BY <1>3, <1>7 DEF UploadToGhidra
<1>8. CASE OnDisconnectClicked
  BY <1>3, <1>8 DEF OnDisconnectClicked
<1> QED
  BY <1>1, <1>2, <1>4, <1>5, <1>6, <1>7, <1>8 DEF Request

-----------------------------------------------------------------------------
(* Workers *)

\* A step that adds nothing and begins no listing.
LEMMA QuietStep ==
  ASSUME TypeOK, TypeOK', AddsInv, Quiet, NoNewEnumerate, context' \in {context, New},
         FilesOf(New)' \subseteq FilesOf(New)
  PROVE  AddsInv'
<1>1. NewOK'
  BY NewKeeps, Zenon DEF Quiet, AddsInv
<1> QED
  BY <1>1, QuietKeeps, Zenon DEF AddsInv

\* A link is stored by an import or an upload: the file no longer counts as
\* added.
LEMMA StoredLink ==
  ASSUME TypeOK, NEW p \in Projects, NEW g, NEW i, StoreLink(p, g, i)
  PROVE  /\ added' \subseteq added
         /\ \A f \in added' : owner[f] # None => link'[owner[f]][f] = link[owner[f]][f]
BY DEF StoreLink, TypeOK

\* While the new project is being filled, no folder is being listed.
LEMMA NotBoth ==
  ASSUME TypeOK, MakingOK, NewOK, NEW j \in Adding, j.project = New, NEW c \in Carriers
  PROVE  c.kind # "enumerate"
<1>1. j \in jobs /\ j \in Pending
  BY AddingPending DEF Adding
<1>2. CASE context = New
  <2>1. ~Making(c)
    BY <1>2 DEF MakingOK, OneMaking, Carriers, Elems
  <2> QED
    BY <2>1, Zenon DEF Making
<1>3. CASE j.kind = "populate"
  <2> SUFFICES ASSUME c.kind = "enumerate" PROVE FALSE
    OBVIOUS
  <2>1. Making(c) /\ Making(j) /\ c # j
    BY <1>3 DEF Making
  <2> QED
    BY <1>1, <2>1 DEF MakingOK, OneMaking, Carriers, Elems
<1> QED
  BY <1>1, <1>2, <1>3 DEF NewOK

LEMMA AddsWorker ==
  ASSUME TypeOK, TypeOK', JobsOK, MakingOK, AddsInv, NEW j \in jobs, Worker(j)
  PROVE  AddsInv'
<1>0. /\ j \in Job /\ j \in Callback /\ j.got \in [Files -> Link] /\ j.item \in Link
      /\ queue \in Seq(Callback)
  BY ElemsType DEF Job, Callback
<1>1. CASE Enumerates(j) \/ WorkerFails(j) \/ WorkerPosts(j)
  <2>1. /\ jobs' = jobs \ {j} /\ queue' \in {queue, Append(queue, j)}
        /\ UNCHANGED <<meta, disk, temp, context, history>>
    BY <1>1 DEF Enumerates, WorkerFails, WorkerPosts
  <2>2. Elems(queue') \subseteq Elems(queue) \cup {j}
    BY <1>0, <2>1, ElemsAppend, Zenon
  <2>3. Adding' \subseteq Adding /\ Pending' \subseteq Pending /\ NoNewEnumerate
    BY <2>1, <2>2, OnlyGo, Zenon DEF Carriers
  <2>4. Quiet /\ FilesOf(New)' = FilesOf(New)
    BY <2>1, <2>3 DEF Quiet, meta, disk, history, FilesOf
  <2> QED
    BY <2>1, <2>3, <2>4, QuietStep
<1>2. CASE ImportStores(j)
  <2> DEFINE k == [j EXCEPT !.step = "post"]
             p == ProjectForView(j.file)
  <2>1. k.kind = "import"
    BY <1>0, <1>2 DEF ImportStores, Job
  <2>2. jobs' = (jobs \ {j}) \cup {k} /\ UNCHANGED <<disk, temp, context, queue, raced, shared>>
    BY <1>2, Zenon DEF ImportStores, Replace
  <2>3. p \in Projects \cup {None}
    BY DEF ProjectForView, TypeOK
  <2>4. IF p # None THEN StoreLink(p, j.file, j.item) ELSE UNCHANGED <<server, link, added, cleared>>
    BY <1>2 DEF ImportStores
  <2> HIDE DEF k, p
  <2>5. Adding' \subseteq Adding /\ Pending' \subseteq Pending /\ NoNewEnumerate
    BY <2>1, <2>2, OneComes, Zenon DEF Carriers, Adds
  <2>6. /\ added' \subseteq added
        /\ \A f \in added' : owner[f] # None => link'[owner[f]][f] = link[owner[f]][f]
    BY <2>3, <2>4, StoredLink, Zenon
  <2>7. Quiet /\ FilesOf(New)' = FilesOf(New)
    BY <2>2, <2>5, <2>6, Zenon DEF Quiet, disk, FilesOf
  <2> QED
    BY <2>2, <2>5, <2>7, QuietStep
<1>3. ASSUME NEW k, Moves(j, k), k.kind = j.kind, NoNewEnumerate, TempOK', UNCHANGED context
      PROVE  AddsInv'
  <2>1. GotOK' /\ AddedOK' /\ ClaimsOK'
    BY <1>3, MoveKeeps, Zenon DEF AddsInv
  <2>2. FilesOf(New)' = FilesOf(New) /\ j \in Pending
    BY <1>3, AddingPending, Zenon DEF FilesOf, disk, Moves
  <2>3. \A c \in Pending' : c \in Pending \/ (j.kind = c.kind /\ j.project = c.project)
    BY <1>3 DEF Moves
  <2>4. NewOK'
    BY <1>3, <2>2, <2>3, NewKeeps, Zenon DEF AddsInv
  <2> QED
    BY <1>3, <2>1, <2>4 DEF AddsInv
<1>4. ASSUME NEW i \in Items, AddSkips(j, i) PROVE AddsInv'
  <2> DEFINE k == Advanced(j, i, j.got)
  <2>1. /\ j \in Adding /\ i \in Link /\ Advance(j, i, j.got, queue)
        /\ UNCHANGED <<meta, disk, temp, context, history>>
    BY <1>4, Zenon DEF AddSkips, Adding, Link
  <2> HIDE DEF k
  <2>2. /\ k.project = j.project /\ k.kind = j.kind /\ k.got = j.got /\ k.todo = j.todo \ {i}
        /\ k.step = "run"
        /\ Adding' \subseteq (Adding \ {j}) \cup {k} /\ Pending' \subseteq Pending \cup {k}
        /\ NoNewEnumerate
    BY <1>0, <2>1, AdvanceShape, Zenon DEF k
  <2>3. Moves(j, k)
    BY <2>1, <2>2, Zenon DEF Moves, meta, history
  <2>4. TempOK'
    BY <2>1, <2>2, Zenon DEF AddsInv, TempOK, history
  <2> QED
    BY <1>3, <2>1, <2>2, <2>3, <2>4, Zenon
<1>5. ASSUME NEW i \in Items, AddWrites(j, i) PROVE AddsInv'
  <2> DEFINE k == [j EXCEPT !.step = "create", !.item = i]
  <2>1. /\ k.kind = j.kind /\ k.project = j.project /\ k.got = j.got /\ k.todo = j.todo
        /\ k.item = i /\ k.step = "create"
    BY <1>0 DEF Job
  <2>2. /\ j.step = "run" /\ i \in j.todo /\ j.kind \in Adds /\ j \in Adding
        /\ jobs' = (jobs \ {j}) \cup {k}
        /\ temp' = [temp EXCEPT ![NameOf[i]] = i] /\ NameOf[i] \in Names
        /\ UNCHANGED <<meta, disk, context, queue, added, raced>>
    BY <1>5, ConstantsAssumption DEF AddWrites, Replace, TempPath, Adding
  <2>3. /\ shared \subseteq shared'
        /\ \A l \in jobs : l.step = "create" /\ NameOf[l.item] = NameOf[i] => NameOf[i] \in shared'
    BY <1>5, Zenon DEF AddWrites
  <2> HIDE DEF k
  <2>4. /\ Adding' \subseteq (Adding \ {j}) \cup {k} /\ Pending' \subseteq Pending \cup {k}
        /\ NoNewEnumerate
    <3>1. Pending' \subseteq Pending \cup {k} /\ NoNewEnumerate
      BY <2>1, <2>2, OneComes, Zenon DEF Carriers, Adds
    <3> QED
      BY <2>2, <3>1, Zenon DEF Adding
  <2>5. Moves(j, k)
    BY <2>1, <2>2, <2>3, <2>4, Zenon DEF Moves, meta
  <2>6. TempOK'
    <3> SUFFICES ASSUME NEW l \in Adding', l.step = "create"
                 PROVE  /\ l.item \in l.todo
                        /\ temp'[NameOf[l.item]] \in {l.item, None} \/ NameOf[l.item] \in shared'
      BY DEF TempOK
    <3>1. CASE l = k
      BY <2>1, <2>2, <3>1, Zenon DEF TypeOK
    <3>2. CASE l \in Adding
      <4>1. /\ l.item \in l.todo /\ l \in jobs
            /\ temp[NameOf[l.item]] \in {l.item, None} \/ NameOf[l.item] \in shared
        BY <3>2, Zenon DEF AddsInv, TempOK, Adding
      <4>2. CASE NameOf[l.item] = NameOf[i]
        BY <2>3, <4>1, <4>2, Zenon
      <4>3. CASE NameOf[l.item] # NameOf[i]
        <5>1. temp'[NameOf[l.item]] = temp[NameOf[l.item]]
          <6>1. NameOf[l.item] \in Names
            BY <3>2, <4>1, ConstantsAssumption, PendingType, AddingPending
          <6> QED
            BY <2>2, <4>3, <6>1, Zenon DEF TypeOK
        <5> QED
          BY <2>3, <4>1, <5>1, Zenon
      <4> QED
        BY <4>2, <4>3
    <3> QED
      BY <2>4, <3>1, <3>2, Zenon
  <2> QED
    BY <1>3, <2>1, <2>2, <2>4, <2>5, <2>6
\* The temporary file of j goes.
<1>6. ASSUME j \in Adding, j.step = "create", NEW k, k.step = "run", UNCHANGED shared,
             Adding' \subseteq (Adding \ {j}) \cup {k}, temp' = [temp EXCEPT ![NameOf[j.item]] = None]
      PROVE  TempOK'
  <2> SUFFICES ASSUME NEW l \in Adding, l.step = "create"
               PROVE  /\ l.item \in l.todo
                      /\ temp'[NameOf[l.item]] \in {l.item, None} \/ NameOf[l.item] \in shared
    BY <1>6 DEF TempOK
  <2>1. /\ l.item \in l.todo
        /\ temp[NameOf[l.item]] \in {l.item, None} \/ NameOf[l.item] \in shared
    BY Zenon DEF AddsInv, TempOK
  <2>2. NameOf[l.item] \in Names
    BY <2>1, ConstantsAssumption, PendingType, AddingPending, Zenon
  <2>3. temp'[NameOf[l.item]] \in {temp[NameOf[l.item]], None}
    BY <1>6, <2>2, Zenon DEF TypeOK
  <2> QED
    BY <2>1, <2>3, Zenon
<1>7. CASE AddCreateFails(j)
  <2> DEFINE k == Advanced(j, j.item, j.got)
  <2>1. /\ j \in Adding /\ j.step = "create" /\ Advance(j, j.item, j.got, queue)
        /\ UNCHANGED <<meta, disk, context, history>>
        /\ temp' = [temp EXCEPT ![NameOf[j.item]] = None]
    BY <1>7, Zenon DEF AddCreateFails, Adding, TempPath
  <2> HIDE DEF k
  <2>2. /\ k.project = j.project /\ k.kind = j.kind /\ k.got = j.got /\ k.todo = j.todo \ {j.item}
        /\ k.step = "run"
        /\ Adding' \subseteq (Adding \ {j}) \cup {k} /\ Pending' \subseteq Pending \cup {k}
        /\ NoNewEnumerate
    BY <1>0, <2>1, AdvanceShape, Zenon DEF k
  <2>3. Moves(j, k)
    BY <2>1, <2>2, Zenon DEF Moves, meta, history
  <2>4. TempOK'
    BY <1>6, <2>1, <2>2 DEF history
  <2> QED
    BY <1>3, <2>1, <2>2, <2>3, <2>4, Zenon
<1>8. ASSUME NEW f \in Files, AddCreates(j, f) PROVE AddsInv'
  <2> DEFINE got == [j.got EXCEPT ![f] = j.item]
             k == Advanced(j, j.item, got)
  <2>1. /\ j \in Adding /\ j.step = "create" /\ Advance(j, j.item, got, Notified(j.project))
        /\ UNCHANGED <<meta, context, history>>
        /\ temp' = [temp EXCEPT ![NameOf[j.item]] = None]
        /\ f \notin made /\ made' = made \cup {f} /\ owner' = [owner EXCEPT ![f] = j.project]
        /\ temp[NameOf[j.item]] # None
        /\ bytes' = [bytes EXCEPT ![f] = temp[NameOf[j.item]]]
    BY <1>8 DEF AddCreates, Adding, TempPath
  <2>2. got \in [Files -> Link] /\ Notified(j.project) \in {queue, Append(queue, Changed)}
    BY <1>0, Zenon DEF Notified
  <2>3. j.item \in Items /\ j.item \in j.todo
        /\ (temp[NameOf[j.item]] = j.item \/ NameOf[j.item] \in shared)
    BY <2>1 DEF AddsInv, TempOK, JobsOK
  <2> HIDE DEF k, got
  <2>4. /\ k.project = j.project /\ k.kind = j.kind /\ k.got = got /\ k.todo = j.todo \ {j.item}
        /\ k.step = "run"
        /\ Adding' \subseteq (Adding \ {j}) \cup {k} /\ Pending' \subseteq Pending \cup {k}
        /\ NoNewEnumerate
    BY <1>0, <2>1, <2>2, AdvanceShape, Zenon DEF k
  <2>5. /\ \A g \in Files \ {f} : bytes'[g] = bytes[g]
        /\ bytes'[f] = j.item \/ NameOf[j.item] \in shared
    BY <2>1, <2>3, Zenon DEF TypeOK
  <2>6. Makes(j, k, f, j.item)
    BY <2>1, <2>3, <2>4, <2>5, Zenon DEF Makes, meta, history, got
  <2>7. TempOK'
    BY <1>6, <2>1, <2>4, Zenon DEF history
  <2>8. GotOK' /\ AddedOK' /\ ClaimsOK'
    BY <2>3, <2>6, MakeKeeps DEF AddsInv
  <2>9. FilesOf(New)' \subseteq FilesOf(New) \/ \A c \in Carriers : c.kind # "enumerate"
    <3>1. CASE j.project = New
      BY <2>1, <3>1, NotBoth, Zenon DEF AddsInv
    <3>2. CASE j.project # New
      BY <2>1, <3>2, Zenon DEF FilesOf, TypeOK
    <3> QED
      BY <3>1, <3>2, Zenon
  <2>10. j \in Pending
         /\ \A c \in Pending' : c \in Pending \/ (j.kind = c.kind /\ j.project = c.project)
    <3>1. j \in Pending
      BY <2>1, AddingPending, Zenon
    <3>2. \A c \in Pending' : c \in Pending \/ c = k
      BY <2>4, Zenon
    <3> QED
      BY <2>4, <3>1, <3>2, Zenon
  <2>11. NewOK'
    BY <2>1, <2>4, <2>9, <2>10, NewKeeps, Zenon DEF AddsInv
  <2> QED
    BY <2>7, <2>8, <2>11, Zenon DEF AddsInv
<1> QED
  BY <1>1, <1>2, <1>4, <1>5, <1>7, <1>8 DEF Worker

-----------------------------------------------------------------------------
(* Callbacks *)

LEMMA AddsCallback ==
  ASSUME TypeOK, TypeOK', MakingOK, AddsInv, RunCallback
  PROVE  AddsInv'
<1> DEFINE c == Head(queue)
<1>0. /\ queue \in Seq(Callback) /\ queue # <<>> /\ queue' = Tail(queue)
      /\ UNCHANGED <<disk, temp, raced, shared>>
  BY ElemsType DEF RunCallback
<1>1. Elems(queue') \subseteq Elems(queue) /\ c \in Elems(queue)
  BY <1>0, ElemsTail
<1>2. FilesOf(New)' = FilesOf(New)
  BY <1>0 DEF FilesOf, disk
<1>3. c.kind # "changed" => c \in Job
  BY CallbackIsJob
<1>4. Making(c) => /\ context # New /\ \A j \in jobs : ~Making(j)
                   /\ \A a \in 1..Len(Tail(queue)) : ~Making(Tail(queue)[a])
  BY <1>0, MakingRuns, Zenon DEF MakingOK
<1> HIDE DEF c
<1>5. ASSUME UNCHANGED jobs
      PROVE  Adding' \subseteq Adding /\ Pending' \subseteq Pending /\ NoNewEnumerate
  BY <1>1, <1>5, OnlyGo DEF Carriers
<1>6. ASSUME UNCHANGED <<jobs, context>>, added' \subseteq added,
             \A f \in added' : owner[f] # None => link'[owner[f]][f] = link[owner[f]][f]
      PROVE  AddsInv'
  <2>1. Quiet
    BY <1>0, <1>5, <1>6 DEF Quiet, disk
  <2> QED
    BY <1>2, <1>5, <1>6, <2>1, QuietStep, Zenon
<1>7. CASE LinkCallback(c)
  <2>1. c \in Pending
    BY <1>1, <1>7 DEF LinkCallback, Pending
  <2>2. UNCHANGED jobs /\ context' \in {context, New}
    BY <1>7, Zenon DEF LinkCallback, work
  <2>3. Links(c)
    BY <1>0, <1>5, <1>7, <2>1, <2>2 DEF Links, LinkCallback
  <2>4. TempOK' /\ GotOK' /\ AddedOK' /\ ClaimsOK'
    BY <2>3, LinkKeeps DEF AddsInv
  <2>5. NewOK'
    BY <1>2, <1>5, <2>2, NewKeeps DEF AddsInv
  <2> QED
    BY <2>4, <2>5 DEF AddsInv
<1>8. CASE EnumerateCallback(c)
  <2>1. UNCHANGED <<context, link, added>>
    BY <1>8 DEF EnumerateCallback, meta
  <2>2. CASE UNCHANGED work
    BY <1>6, <2>1, <2>2 DEF work
  <2>3. ASSUME NEW s \in Selections, PopulateProjectWithItems(s) PROVE AddsInv'
    <3> DEFINE k == NewJob("populate", New, None, s, None)
    <3>1. /\ k.kind = "populate" /\ k.project = New /\ k.todo = s /\ k.step = "run"
          /\ k.got = NoFiles
      BY DEF NewJob
    <3>2. jobs' = jobs \cup {k}
      BY <2>3 DEF PopulateProjectWithItems, Enqueue
    <3> HIDE DEF k
    <3>3. c.kind = "enumerate" /\ Making(c)
      BY <1>8 DEF EnumerateCallback, Making
    <3>4. FilesOf(New) = {}
      BY <1>1, <3>3, Zenon DEF AddsInv, NewOK
    <3>5. \A d \in Carriers : d.kind = "populate" => FALSE
      <4> SUFFICES ASSUME NEW d \in Carriers, d.kind = "populate" PROVE FALSE
        OBVIOUS
      <4>1. Making(d) /\ d # c
        BY <3>3, Zenon DEF Making
      <4> QED
        BY <1>1, <3>3, <4>1 DEF MakingOK, OneMaking, Carriers, Elems
    <3>6. \A d \in Pending : d.project # New
      BY <1>4, <3>3, <3>5, Zenon DEF AddsInv, NewOK, Carriers, Pending
    <3>7. ASSUME NEW i \in Items
          PROVE  /\ \A f \in Files : ~FileClaim(f, New, i)
                 /\ \A j \in jobs : ~JobClaim(j, New, i)
      BY <3>4, <3>6, AddingPending, Zenon DEF FileClaim, JobClaim, FilesOf
    <3>8. /\ Adding' \subseteq Adding \cup {k} /\ Pending' \subseteq Pending \cup {k}
          /\ NoNewEnumerate
      BY <1>1, <3>1, <3>2, OneComes, Zenon DEF Carriers
    <3>9. Starts(k)
      BY <1>0, <2>1, <3>1, <3>7, <3>8 DEF Starts
    <3>10. TempOK' /\ GotOK' /\ AddedOK' /\ ClaimsOK'
      BY <3>9, StartKeeps DEF AddsInv
    <3>11. NewOK'
      BY <1>2, <2>1, <3>1, <3>8, NewKeeps, Zenon DEF AddsInv
    <3> QED
      BY <3>10, <3>11, Zenon DEF AddsInv
  <2> QED
    BY <1>8, <2>2, <2>3 DEF EnumerateCallback
<1>9. CASE ImportCallback(c) \/ ChangedCallback(c) \/ DisconnectCallback(c)
  BY <1>6, <1>9, Zenon DEF ImportCallback, ChangedCallback, DisconnectCallback, meta, work
<1>10. CASE UploadCallback(c)
  <2>1. c.project \in Projects \cup {None}
    BY <1>3, <1>10 DEF UploadCallback, Job
  <2>2. IF c.project # None THEN StoreLink(c.project, c.file, c.item)
                            ELSE UNCHANGED <<server, link, added, cleared>>
    BY <1>10, Zenon DEF UploadCallback
  <2>3. /\ added' \subseteq added
        /\ \A f \in added' : owner[f] # None => link'[owner[f]][f] = link[owner[f]][f]
    BY <2>1, <2>2, StoredLink, Zenon
  <2> QED
    BY <1>6, <1>10, <2>3 DEF UploadCallback, work
<1>11. CASE DeleteCallback(c)
  <2> DEFINE p == CurrentOpenProject
             hit == IF p = None THEN {} ELSE Touched(p, c.item)
  <2>1. /\ link' = [q \in Projects |->
                     IF q = p THEN [g \in Files |-> IF g \in hit THEN None ELSE link[q][g]]
                              ELSE link[q]]
        /\ added' = added \ hit
    BY <1>11, Zenon DEF DeleteCallback
  <2> HIDE DEF p, hit
  <2>2. \A f \in added' : owner[f] # None => link'[owner[f]][f] = link[owner[f]][f]
    BY <2>1, Zenon DEF TypeOK
  <2> QED
    BY <1>6, <1>11, <2>1, <2>2, Zenon DEF DeleteCallback, work
<1> QED
  BY <1>7, <1>8, <1>9, <1>10, <1>11 DEF RunCallback, c

-----------------------------------------------------------------------------
(* Views, rows and the user's own changes *)

LEMMA AddsTurn ==
  ASSUME TypeOK, TypeOK', AddsInv, Turn
  PROVE  AddsInv'
<1>0. UNCHANGED <<jobs, context>> /\ queue' \in {queue, Append(queue, Changed)}
  BY Zenon DEF Turn, NotifyViewChanged, ClearGhidraLink, UserDeletesFile, UserAddsFile, EventReceived,
         Notified, work
<1>1. UNCHANGED <<temp, shared, raced, bytes>>
  BY DEF Turn, NotifyViewChanged, ClearGhidraLink, UserDeletesFile, UserAddsFile, EventReceived,
         disk, history
<1>2. Elems(queue') \subseteq Elems(queue) \cup {Changed}
  <2>1. queue \in Seq(Callback) /\ Changed \in Callback
    BY ElemsType DEF Callback
  <2> QED
    BY <1>0, <2>1, ElemsAppend, Zenon
<1>3. Adding' \subseteq Adding /\ Pending' \subseteq Pending /\ NoNewEnumerate
  BY <1>0, <1>2, OnlyGo, Zenon DEF Carriers
<1>4. ASSUME made \subseteq made', \A f \in made : owner'[f] \in {owner[f], None},
             added' \subseteq added, FilesOf(New)' \subseteq FilesOf(New),
             \A f \in added' : owner[f] # None => link'[owner[f]][f] = link[owner[f]][f]
      PROVE  AddsInv'
  <2>1. Quiet
    BY <1>1, <1>3, <1>4 DEF Quiet
  <2> QED
    BY <1>0, <1>3, <1>4, <2>1, QuietStep, Zenon
<1>5. UNCHANGED disk => FilesOf(New)' = FilesOf(New) /\ made' = made /\ owner' = owner
  BY DEF FilesOf, disk
<1>6. ASSUME NEW v \in Views \cup {None}, NotifyViewChanged(v) PROVE AddsInv'
  <2>1. UNCHANGED <<disk, added>>
    BY <1>6 DEF NotifyViewChanged, history
  <2>2. CASE UNCHANGED link
    BY <1>4, <1>5, <2>1, <2>2
  <2>3. CASE v # None
    <3>1. v \in Views /\ ReadLink(v)
      BY <1>6, <2>3, Zenon DEF NotifyViewChanged
    <3>2. CASE /\ v \in Files /\ owner[v] \in Projects /\ link[owner[v]][v] = None
               /\ link' = [link EXCEPT ![owner[v]][v] = bndb[v]]
      <4>1. \A f \in added : owner[f] # None => link[owner[f]][f] # None /\ f \in Files
        BY Zenon DEF AddsInv, AddedOK, TypeOK
      <4>2. \A f \in added : owner[f] # None => f # v
        BY <3>2, <4>1
      <4>3. \A f \in added : owner[f] # None => link'[owner[f]][f] = link[owner[f]][f]
        BY <3>2, <4>1, <4>2, Zenon DEF TypeOK
      <4> QED
        BY <1>4, <1>5, <2>1, <4>3
    <3> QED
      BY <2>2, <3>1, <3>2, ReadLinkCases
  <2> QED
    BY <1>6, <2>2, <2>3 DEF NotifyViewChanged
<1>7. ASSUME NEW g \in Files, ClearGhidraLink(g) PROVE AddsInv'
  <2>1. UNCHANGED disk /\ added' = added \ {g}
    BY <1>7 DEF ClearGhidraLink
  <2>2. \A f \in added' : owner[f] # None => link'[owner[f]][f] = link[owner[f]][f]
    BY <1>7, <2>1, Zenon DEF ClearGhidraLink, TypeOK
  <2> QED
    BY <1>4, <1>5, <2>1, <2>2
<1>8. ASSUME NEW g \in Files, UserDeletesFile(g) PROVE AddsInv'
  <2>1. owner' = [owner EXCEPT ![g] = None] /\ UNCHANGED <<link, added, made>>
    BY <1>8, Zenon DEF UserDeletesFile, meta, history
  <2>2. \A f \in Files : owner'[f] \in {owner[f], None}
    BY <2>1 DEF TypeOK
  <2>3. FilesOf(New)' \subseteq FilesOf(New)
    BY <2>2 DEF FilesOf, New, None
  <2> QED
    BY <1>4, <2>1, <2>2, <2>3, Zenon DEF TypeOK
<1>9. ASSUME NEW g \in Files, UserAddsFile(g) PROVE AddsInv'
  <2>1. /\ g \notin made /\ made' = made \cup {g} /\ owner' = [owner EXCEPT ![g] = Old]
        /\ UNCHANGED <<link, added>>
    BY <1>9, Zenon DEF UserAddsFile, meta, history
  <2>2. \A f \in Files : owner'[f] = IF f = g THEN Old ELSE owner[f]
    BY <2>1, Zenon DEF TypeOK
  <2>3. FilesOf(New)' \subseteq FilesOf(New)
    BY <2>2, Zenon DEF FilesOf, New, Old
  <2> QED
    BY <1>4, <2>1, <2>2, <2>3, Zenon DEF TypeOK
<1>10. ASSUME NEW i \in Items, EventReceived(i) PROVE AddsInv'
  <2>1. UNCHANGED <<disk, link, added>>
    BY <1>10 DEF EventReceived, meta, history
  <2> QED
    BY <1>4, <1>5, <2>1
<1> QED
  BY <1>6, <1>7, <1>8, <1>9, <1>10 DEF Turn

-----------------------------------------------------------------------------
LEMMA AddsStep ==
  TypeOK /\ JobsOK /\ MakingOK /\ FilesOK /\ AddsInv /\ [Next]_vars => AddsInv'
<1> SUFFICES ASSUME TypeOK, JobsOK, MakingOK, FilesOK, AddsInv, [Next]_vars PROVE AddsInv'
  OBVIOUS
<1>0. TypeOK'
  BY StepType
<1>1. CASE RefreshProjectFiles \/ UNCHANGED vars
  <2>1. UNCHANGED <<jobs, queue, context, temp, meta, disk, history>>
    BY <1>1 DEF RefreshProjectFiles, vars, work
  <2>2. Adding' \subseteq Adding /\ Pending' \subseteq Pending /\ NoNewEnumerate
    BY <2>1, OnlyGo, Zenon DEF Carriers
  <2>3. Quiet /\ FilesOf(New)' = FilesOf(New)
    BY <2>1, <2>2 DEF Quiet, meta, disk, history, FilesOf
  <2> QED
    BY <1>0, <2>1, <2>2, <2>3, QuietStep, Zenon
<1> QED
  BY <1>0, <1>1, AddsRequest, AddsWorker, AddsCallback, AddsTurn DEF Next

LEMMA AddsInit == Init => MakingOK /\ FilesOK /\ AddsInv
<1> SUFFICES ASSUME Init PROVE MakingOK /\ FilesOK /\ AddsInv
  BY Zenon
<1>1. MakingOK /\ FilesOK
  BY ConstantsAssumption DEF Init, MakingOK, OneMaking, FilesOK, NoRows
<1>2. Elems(queue) = {} /\ jobs = {} /\ added = {}
  BY DEF Init, Elems
<1>3. Pending = {} /\ Adding = {}
  BY <1>2 DEF Pending, Adding
<1>4. TempOK /\ GotOK /\ AddedOK
  BY <1>2, <1>3, Zenon DEF TempOK, GotOK, AddedOK
<1>5. NewOK
  BY <1>2, <1>3, ZenonT(30) DEF NewOK
<1>6. ClaimsOK
  BY <1>2, <1>3 DEF ClaimsOK, FileClaim, JobClaim
<1> QED
  BY <1>1, <1>4, <1>5, <1>6 DEF AddsInv

\* bulkAddItemsToProject() skips and addItemToProject() opens what is in the
\* project: however adds, the creation of a project, imports, uploads and
\* deletions interleave, no two files of a project are added for one item
\* that was not asked for again while its first add was on the way.
THEOREM NoItemAddedTwice == Spec => []AddedOnce
<1>1. TypeOK /\ JobsOK /\ MakingOK /\ FilesOK /\ AddsInv /\ [Next]_vars
        => MakingOK' /\ FilesOK' /\ AddsInv'
  BY MakingStep, FilesStep, AddsStep
<1>2. TypeOK /\ AddsInv => AddedOnce
  <2> SUFFICES ASSUME TypeOK, AddsInv, NEW f \in added, NEW g \in added,
                      f # g, owner[f] # None, owner[f] = owner[g],
                      link[owner[f]][f] = link[owner[g]][g]
               PROVE  link[owner[f]][f] \in raced
    BY Zenon DEF AddedOnce
  <2> DEFINE p == owner[f]
             i == link[p][f]
  <2>1. f \in Files /\ g \in Files /\ p \in Projects /\ i \in Items
    BY DEF TypeOK, AddsInv, AddedOK, Link
  <2>2. FileClaim(f, p, i) /\ FileClaim(g, p, i)
    BY Zenon DEF FileClaim
  <2> QED
    BY <2>1, <2>2, Zenon DEF AddsInv, ClaimsOK
<1> QED
  BY <1>1, <1>2, InitType, StepType, AddsInit, PTL DEF Spec

\* A file added for an item holds that item's bytes, with any number of
\* workers passing their downloads through the temporary directory, unless
\* two of them used a temporary file of the same name at once.
THEOREM FilesHoldTheirItems == Spec => []HoldsItsItem
<1>1. TypeOK /\ JobsOK /\ MakingOK /\ FilesOK /\ AddsInv /\ [Next]_vars
        => MakingOK' /\ FilesOK' /\ AddsInv'
  BY MakingStep, FilesStep, AddsStep
<1>2. AddsInv => HoldsItsItem
  BY DEF AddsInv, AddedOK, Holds, HoldsItsItem
<1> QED
  BY <1>1, <1>2, InitType, StepType, AddsInit, PTL DEF Spec
=============================================================================
