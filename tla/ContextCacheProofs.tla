-------------------------- MODULE ContextCacheProofs --------------------------
(***************************************************************************)
(* Theorems about the index of the symbols of a workspace: whatever is       *)
(* copied, merged, published, committed or restored, and however edits fall  *)
(* between the steps of the processes that fill it, for any number of tasks, *)
(* repositories, commits and files.                                          *)
(***************************************************************************)
EXTENDS ContextCache, TLAPS

Fillers == Workers \cup {Prewarmer}
Inodes == {Inode(p, n) : p \in Fillers, n \in CacheNames}
Own(t) == {<<t, r>> : r \in InTask(t)}
Fields == {"pc", "into", "scope", "seen", "todo", "queue", "copied", "name", "tool", "cur", "held",
           "touched", "refused", "answer"}

\* A row is a lie only while its time is that of the file and its tags are not.
\* Tags read after the scan are of a later content, and that time never comes back.
GoodRow(f, m, o) == m \in 1..stamp /\ (m # o => disk[f] # m)

\* The files have stamps that were given.
FileTypes ==
    /\ stamp \in Nat /\ DOMAIN disk = Paths
    /\ \A f \in Paths : disk[f] \in 0..stamp

\* The names of shared caches are bound to files made for caches.
CacheTypes ==
    /\ \A n \in DOMAIN tmp : tmp[n] \in Inodes
    /\ \A n \in DOMAIN published : published[n] \in Inodes
    /\ head \in [Tasks -> [RepoSet -> Commits]]

\* Workers and the prewarmer fill the index of a directory or a cache of their own, a context
\* server fills its own index.
FillerOK(p, s) ==
    /\ s.into \in Databases /\ s.into.kind \in {"local", "cache"}
    /\ s.scope \subseteq RepoSet /\ s.queue \in Seq(RepoSet)
    /\ p = Prewarmer /\ s.pc # "idle" => s.name \in CacheNames
ServerOK(p, s) ==
    s.pc # "idle" => /\ s.into = Served(RootOf(p)) /\ s.scope = InTask(RootOf(p))
                     /\ s.tool \in {"search", "load"}
ProcOK(p, s) ==
    /\ DOMAIN s = Fields
    /\ p \in Fillers => FillerOK(p, s)
    /\ p \in Servers => ServerOK(p, s)
ProcTypes ==
    /\ DOMAIN procs = Procs
    /\ \A p \in Procs : ProcOK(p, procs[p])

\* Every row of every database is a good one of a path.
RowsGood ==
    /\ DOMAIN rows = Databases
    /\ \A d \in Databases : \A f \in DOMAIN rows[d] :
          f \in Paths /\ GoodRow(f, rows[d][f].mtime, rows[d][f].of)

\* What a process has seen was there, and the row it is about to save is a good one.
WorkGood(s) ==
    /\ s.pc \in {"index", "save"} =>
         /\ DOMAIN s.seen \subseteq Paths /\ s.todo \subseteq DOMAIN s.seen
         /\ \A f \in DOMAIN s.seen : s.seen[f] \in 1..stamp
    /\ s.pc = "save" => s.cur \in DOMAIN s.seen /\ GoodRow(s.cur, s.seen[s.cur], s.held[s.cur])

CacheTypeOK == FileTypes /\ CacheTypes /\ ProcTypes
CacheInv == CacheTypeOK /\ RowsGood /\ \A p \in Procs : WorkGood(procs[p])

-----------------------------------------------------------------------------
\* Names of processes and databases

LEMMA ProcNames ==
    /\ \A p \in Servers : /\ p \in Procs /\ p \notin Fillers
                          /\ RootOf(p) \in Tasks /\ p = <<"server", RootOf(p)>>
    /\ \A p \in Fillers : p \in Procs /\ p \notin Servers /\ RootOf(p) \in Roots
    /\ \A t \in Tasks : <<"server", t>> \in Servers /\ RootOf(<<"server", t>>) = t
    /\ \A t \in Tasks : <<"worker", t>> \in Fillers /\ <<"worker", t>> # Prewarmer
    /\ \A t, u \in Tasks : <<"server", t>> = <<"server", u>> => t = u
    /\ Prewarmer \in Fillers /\ Prewarmer = <<"worker", "clone">>
    /\ \A p \in Procs : p \in Fillers \/ p \in Servers
  BY ContextCacheAssumption DEF Servers, Fillers, Workers, Prewarmer, Procs, RootOf, Roots

LEMMA DatabaseNames ==
    /\ \A r \in Roots : Local(r) \in Databases /\ Local(r).kind = "local"
    /\ \A t \in Tasks : Served(t) \in Databases /\ Served(t).kind = "server"
    /\ \A t \in Tasks : Committed(t) \in Databases /\ Committed(t).kind = "git"
    /\ \A p \in Fillers, n \in CacheNames : Inode(p, n) \in Inodes
    /\ \A d \in Inodes : d \in Databases /\ d.kind = "cache"
    /\ \A t, u \in Tasks : Served(t) = Served(u) => t = u
    /\ \A t, u \in Tasks : Committed(t) = Committed(u) => t = u
    /\ \A t \in Tasks : t \in Roots
    /\ "clone" \in Roots
<1>1. /\ \A r \in Roots : Local(r) \in Databases
      /\ \A t \in Tasks : Served(t) \in Databases /\ Committed(t) \in Databases
      /\ \A d \in Inodes : d \in Databases
  BY DEF Databases, Inodes, Fillers
<1>2. \A d \in Inodes : d.kind = "cache"
  BY DEF Inodes, Inode
<1>3. \A r : Local(r).kind = "local" /\ Served(r).kind = "server" /\ Committed(r).kind = "git"
             /\ Served(r).of = r /\ Committed(r).of = r
  BY DEF Local, Served, Committed
<1>4. \A p \in Fillers, n \in CacheNames : Inode(p, n) \in Inodes
  BY DEF Inodes
<1> QED
  BY <1>1, <1>2, <1>3, <1>4 DEF Roots

LEMMA PathNames ==
    /\ \A t \in Tasks : InTask(t) \subseteq RepoSet /\ Own(t) \subseteq Paths
    /\ \A p \in Procs, r \in RepoSet : <<RootOf(p), r>> \in Paths
    /\ \A t \in Tasks : ReposOf[t] \in Seq(RepoSet)
<1>1. \A t \in Tasks : InTask(t) \subseteq RepoSet
  BY DEF RepoSet
<1>2. \A t \in Tasks : Own(t) \subseteq Paths
  BY <1>1 DEF Own, Paths, Roots
<1>3. \A p \in Procs : RootOf(p) \in Roots
  BY DEF Procs, Servers, Workers, Prewarmer, RootOf, Roots
<1>4. \A t \in Tasks : ReposOf[t] \in Seq(InTask(t))
  BY ContextCacheAssumption DEF InTask
<1>5. \A t \in Tasks : ReposOf[t] \in Seq(RepoSet)
  BY <1>1, <1>4
<1> QED
  BY <1>2, <1>3, <1>5, <1>1 DEF Paths

-----------------------------------------------------------------------------
\* What a step does to one process and to the others

\* Only the record of p changes.
Only(p, s) == DOMAIN procs' = Procs /\ procs'[p] = s /\ \A q \in Procs \ {p} : procs'[q] = procs[q]
\* A record changes at most in the files noted as touched.
SameWork(q) == DOMAIN procs'[q] = Fields /\ \A x \in Fields \ {"touched"} : procs'[q][x] = procs[q][x]

LEMMA SetOnly ==
    ASSUME ProcTypes, NEW p \in Procs, NEW s, Set(p, s)
    PROVE  Only(p, s)
  BY DEF Set, Only, ProcTypes

LEMMA TouchSame ==
    ASSUME ProcTypes, NEW P, Touch(P)
    PROVE  /\ DOMAIN procs' = Procs
           /\ \A q \in Procs : SameWork(q)
           /\ \A q \in Procs : procs'[q].touched = IF q \in Servers /\ procs[q].pc # "idle"
                                                   THEN procs[q].touched \cup P ELSE procs[q].touched
  BY DEF Touch, SameWork, ProcTypes, ProcOK, Fields

-----------------------------------------------------------------------------
\* Files and rows

\* A file keeps its stamp, loses it or gets a new one.
FilesMove ==
    /\ FileTypes' /\ stamp <= stamp'
    /\ \A f \in Paths : disk'[f] = disk[f] \/ disk'[f] = 0 \/ disk'[f] > stamp

\* The steps that index a directory touch no file, no checkout and no shared cache, and
\* only SaveTags writes rows.
LEMMA IndexingLeaves ==
    ASSUME NEW p, IndexSteps(p) \/ Stop(p)
    PROVE  /\ UNCHANGED disk /\ UNCHANGED stamp /\ UNCHANGED head
           /\ UNCHANGED published /\ UNCHANGED tmp
           /\ UNCHANGED rows \/ SaveTags(p)
<1>1. CASE ScanRepository(p)
  BY <1>1 DEF ScanRepository
<1>2. CASE SaveTags(p)
  BY <1>2 DEF SaveTags
<1>3. CASE Stop(p)
  BY <1>3 DEF Stop
<1>4. ASSUME NEW f, SkipFile(p, f)
      PROVE  /\ UNCHANGED disk /\ UNCHANGED stamp /\ UNCHANGED head
             /\ UNCHANGED published /\ UNCHANGED tmp /\ UNCHANGED rows
  BY <1>4 DEF SkipFile
<1>5. ASSUME NEW f, ExtractTags(p, f)
      PROVE  /\ UNCHANGED disk /\ UNCHANGED stamp /\ UNCHANGED head
             /\ UNCHANGED published /\ UNCHANGED tmp /\ UNCHANGED rows
  BY <1>5 DEF ExtractTags
<1> QED
  BY <1>1, <1>2, <1>3, <1>4, <1>5 DEF IndexSteps

\* The requests of a context server touch none of them either.
LEMMA RequestsLeave ==
    ASSUME NEW t, SearchTags(t) \/ Answer(t) \/ \E tool \in {"search", "load"} : Call(t, tool)
    PROVE  /\ UNCHANGED disk /\ UNCHANGED stamp /\ UNCHANGED head
           /\ UNCHANGED published /\ UNCHANGED tmp /\ UNCHANGED rows
<1>1. CASE SearchTags(t)
  BY <1>1 DEF SearchTags
<1>2. CASE Answer(t)
  BY <1>2 DEF Answer
<1>3. ASSUME NEW tool, Call(t, tool)
      PROVE  /\ UNCHANGED disk /\ UNCHANGED stamp /\ UNCHANGED head
             /\ UNCHANGED published /\ UNCHANGED tmp /\ UNCHANGED rows
  BY <1>3 DEF Call
<1> QED
  BY <1>1, <1>2, <1>3

LEMMA FilesStep ==
    ASSUME FileTypes, [CacheNext]_cacheVars
    PROVE  FilesMove
<1>1. CASE UNCHANGED <<disk, stamp>>
  BY <1>1 DEF FileTypes, FilesMove
<1>2. ASSUME NEW t, NEW r \in InTask(t), Edit(t, r)
      PROVE  FilesMove
  BY <1>2 DEF Edit, FileTypes, FilesMove
<1>3. ASSUME NEW t, RestoreCheckout(t)
      PROVE  FilesMove
  BY <1>3 DEF RestoreCheckout, FileTypes, FilesMove
<1>4. ASSUME NEW r, NEW c, PrewarmClone(r, c)
      PROVE  FilesMove
  BY <1>4 DEF PrewarmClone, FileTypes, FilesMove
<1>5. CASE PrewarmPublish
  BY <1>5 DEF PrewarmPublish, FileTypes, FilesMove
<1>6. ASSUME NEW p, IndexSteps(p) \/ Stop(p)
      PROVE  UNCHANGED <<disk, stamp>>
  BY <1>6, IndexingLeaves
<1>7. ASSUME NEW t, Reindex(t) \/ FromGlobal(t) \/ BuildGlobalCache(t) \/ CopyGlobal(t) \/ IndexWorkspace(t)
      PROVE  UNCHANGED <<disk, stamp>>
  BY <1>7 DEF Reindex, FromGlobal, BuildGlobalCache, CopyGlobal, IndexWorkspace
<1>8. CASE PrewarmCopy \/ GarbageCollect
  BY <1>1, <1>8 DEF PrewarmCopy, GarbageCollect
<1>9. ASSUME NEW t, \/ \E tool \in {"search", "load"} : Call(t, tool)
                    \/ SearchTags(t) \/ Answer(t) \/ CheckpointCheckout(t)
      PROVE  UNCHANGED <<disk, stamp>>
  BY <1>9, RequestsLeave DEF CheckpointCheckout
<1>10. CASE UNCHANGED cacheVars
  BY <1>1, <1>10 DEF cacheVars
<1>11. CASE CachesNext
  BY <1>1, <1>2, <1>4, <1>5, <1>6, <1>7, <1>8, <1>11 DEF CachesNext
<1>12. ASSUME NEW t \in Tasks, ServerNext(t)
       PROVE  FilesMove
  BY <1>1, <1>2, <1>3, <1>6, <1>9, <1>12 DEF ServerNext
<1> QED
  BY <1>10, <1>11, <1>12 DEF CacheNext

\* A row that is good stays good: no file gets an old stamp back.
LEMMA GoodForGood ==
    ASSUME FileTypes, FilesMove, NEW f \in Paths, NEW m, NEW o, GoodRow(f, m, o)
    PROVE  GoodRow(f, m, o)'
<1>1. m \in 1..stamp /\ disk[f] \in 0..stamp /\ stamp \in Nat /\ stamp' \in Nat /\ stamp <= stamp'
  BY DEF FileTypes, FilesMove, GoodRow
<1>2. m \in 1..stamp'
  BY <1>1
<1>3. ASSUME m # o PROVE disk'[f] # m
  BY <1>1, <1>3 DEF FilesMove, GoodRow
<1> QED
  BY <1>2, <1>3 DEF GoodRow

\* Every row after the step was a row before it, of the same file in some database.
RowsCopied ==
    /\ DOMAIN rows' = Databases
    /\ \A d \in Databases : \A f \in DOMAIN rows'[d] :
          \E e \in Databases : f \in DOMAIN rows[e] /\ rows'[d][f] = rows[e][f]

LEMMA CopiedAreGood ==
    ASSUME FileTypes, FilesMove, RowsGood, RowsCopied
    PROVE  RowsGood'
  BY GoodForGood DEF RowsGood, RowsCopied

LEMMA RowsStep ==
    ASSUME ProcTypes, CacheTypes, RowsGood, [CacheNext]_cacheVars,
           ~ \E p \in Procs : SaveTags(p)
    PROVE  RowsCopied
<1>0. DOMAIN rows = Databases
  BY DEF RowsGood
<1>1. CASE UNCHANGED rows
  BY <1>0, <1>1 DEF RowsCopied
<1>2. ASSUME NEW d \in Databases, NEW db, rows' = [rows EXCEPT ![d] = db],
             \A f \in DOMAIN db : \E e \in Databases : f \in DOMAIN rows[e] /\ db[f] = rows[e][f]
      PROVE  RowsCopied
  <2>1. DOMAIN rows' = Databases /\ rows'[d] = db /\ \A c \in Databases \ {d} : rows'[c] = rows[c]
    BY <1>0, <1>2
  <2> QED
    BY <1>2, <2>1 DEF RowsCopied
<1>3. \A f \in DOMAIN NoRows : FALSE
  BY DEF NoRows
<1>4. ASSUME NEW p \in Procs, IndexSteps(p) \/ Stop(p)
      PROVE  UNCHANGED rows
  BY <1>4, IndexingLeaves
<1>5. ASSUME NEW t \in Tasks, Reindex(t)
      PROVE  RowsCopied
  BY <1>2, <1>3, <1>5, DatabaseNames DEF Reindex
<1>6. ASSUME NEW t \in Tasks, FromGlobal(t)
      PROVE  RowsCopied
  <2> DEFINE p == <<"worker", t>>
             name == [repo |-> Head(procs[p].queue), commit |-> head[t][Head(procs[p].queue)]]
  <2>1. procs[p].queue \in Seq(RepoSet) /\ procs[p].queue # <<>>
    BY <1>6, ProcNames DEF FromGlobal, ProcTypes, ProcOK, FillerOK
  <2>2. Head(procs[p].queue) \in RepoSet
    BY <2>1
  <2>3. name \in CacheNames
    BY <2>2 DEF CacheNames, CacheTypes
  <2>4. Inode(p, name) \in Databases
    BY <2>3, ProcNames, DatabaseNames
  <2>5. UNCHANGED rows \/ rows' = [rows EXCEPT ![Inode(p, name)] = NoRows]
    BY <1>6 DEF FromGlobal
  <2> HIDE DEF p, name
  <2> QED
    BY <1>1, <1>2, <1>3, <2>4, <2>5
<1>7. ASSUME NEW t \in Tasks, CopyGlobal(t)
      PROVE  RowsCopied
  <2> DEFINE s == procs[<<"worker", t>>]
             file == published[s.name]
  <2>1. CASE s.name \notin DOMAIN published
    BY <1>1, <1>7, <2>1 DEF CopyGlobal
  <2>2. CASE s.name \in DOMAIN published
    <3>1. file \in Databases
      BY <2>2, DatabaseNames DEF CacheTypes
    <3>2. PICK content : /\ content \in {rows[file], NoRows}
                         /\ rows' = [rows EXCEPT ![Local(t)] =
                                       IF s.copied THEN Merge(rows[Local(t)], content) ELSE content]
      BY <1>7, <2>2 DEF CopyGlobal
    <3>3. \A f \in DOMAIN content : f \in DOMAIN rows[file] /\ content[f] = rows[file][f]
      BY <3>2, <1>3
    <3>4. Local(t) \in Databases
      BY DatabaseNames
    <3>5. \A f \in DOMAIN Merge(rows[Local(t)], content) :
             \E e \in Databases : f \in DOMAIN rows[e] /\ Merge(rows[Local(t)], content)[f] = rows[e][f]
      BY <3>1, <3>3, <3>4 DEF Merge
    <3> DEFINE db == IF s.copied THEN Merge(rows[Local(t)], content) ELSE content
    <3>6. \A f \in DOMAIN db : \E e \in Databases : f \in DOMAIN rows[e] /\ db[f] = rows[e][f]
      BY <3>1, <3>3, <3>5
    <3>7. rows' = [rows EXCEPT ![Local(t)] = db]
      BY <3>2
    <3> HIDE DEF db
    <3> QED
      BY <1>2, <3>4, <3>6, <3>7
  <2> QED
    BY <2>1, <2>2
<1>8. ASSUME NEW r, NEW c, PrewarmClone(r, c)
      PROVE  RowsCopied
  BY <1>2, <1>3, <1>8, DatabaseNames DEF PrewarmClone
<1>9. CASE PrewarmCopy
  <2> DEFINE s == procs[Prewarmer]
             file == IF s.name \in DOMAIN tmp THEN tmp[s.name] ELSE Inode(Prewarmer, s.name)
  <2>1. s.pc # "idle"
    BY <1>9 DEF PrewarmCopy, Indexed
  <2>2. s.name \in CacheNames
    BY <2>1, ProcNames DEF ProcTypes, ProcOK, FillerOK
  <2>3. file \in Databases
    BY <2>2, ProcNames, DatabaseNames DEF CacheTypes
  <2>4. Local("clone") \in Databases
    BY DatabaseNames
  <2>5. rows' = [rows EXCEPT ![file] = rows[Local("clone")]]
    BY <1>9 DEF PrewarmCopy
  <2> HIDE DEF s, file
  <2> QED
    BY <1>2, <2>3, <2>4, <2>5
<1>10. CASE PrewarmPublish
  BY <1>2, <1>3, <1>10, DatabaseNames DEF PrewarmPublish
<1>11. ASSUME NEW t \in Tasks, CheckpointCheckout(t) \/ RestoreCheckout(t)
       PROVE  RowsCopied
  BY <1>2, <1>11, DatabaseNames DEF CheckpointCheckout, RestoreCheckout
<1>12. ASSUME NEW t \in Tasks, \/ BuildGlobalCache(t) \/ IndexWorkspace(t) \/ SearchTags(t) \/ Answer(t)
                               \/ \E tool \in {"search", "load"} : Call(t, tool)
                               \/ \E r \in InTask(t) : Edit(t, r)
       PROVE  UNCHANGED rows
  BY <1>12, RequestsLeave DEF BuildGlobalCache, IndexWorkspace, Edit
<1>13. CASE GarbageCollect \/ UNCHANGED cacheVars
  BY <1>1, <1>13 DEF GarbageCollect, cacheVars
<1>14. CASE CachesNext
  BY <1>1, <1>4, <1>5, <1>6, <1>7, <1>8, <1>9, <1>10, <1>12, <1>13, <1>14, ProcNames DEF CachesNext, Fillers
<1>15. ASSUME NEW t \in Tasks, ServerNext(t)
       PROVE  RowsCopied
  BY <1>1, <1>4, <1>11, <1>12, <1>15, ProcNames DEF ServerNext
<1> QED
  BY <1>13, <1>14, <1>15 DEF CacheNext

-----------------------------------------------------------------------------
\* The processes

\* A process that moves stays in its shape, and has seen and read what it may save.
Moves(p) ==
    \E s : /\ Only(p, s) /\ ProcOK(p, s)
           /\ s.pc \in {"index", "save"} => UNCHANGED <<disk, stamp>> /\ WorkGood(s)

LEMMA IdleOK == Idle.pc = "idle" /\ \A p : ProcOK(p, Idle)
  BY DatabaseNames DEF Idle, ProcOK, FillerOK, ServerOK, Fields

LEMMA IndexingMoves ==
    ASSUME CacheInv, NEW p \in Procs, IndexSteps(p) \/ Stop(p)
    PROVE  Moves(p)
<1> DEFINE s == procs[p]
<1>0. ProcTypes /\ ProcOK(p, s) /\ WorkGood(s) /\ FileTypes
  BY DEF CacheInv, CacheTypeOK, ProcTypes
<1>1. DOMAIN s = Fields
  BY <1>0 DEF ProcOK
<1>2. ASSUME ScanRepository(p)
      PROVE  Moves(p)
  <2> DEFINE here == {<<RootOf(p), r>> : r \in s.scope}
             found == {f \in here : disk[f] # 0}
             next == [s EXCEPT !.pc = "index", !.seen = [f \in found |-> disk[f]], !.todo = found]
  <2>1. s.pc = "scan" /\ Only(p, next) /\ UNCHANGED <<disk, stamp>>
    BY <1>0, <1>2, SetOnly DEF ScanRepository
  <2>2. s.scope \subseteq RepoSet
    <3>1. CASE p \in Fillers
      BY <1>0, <3>1 DEF ProcOK, FillerOK
    <3>2. CASE p \in Servers
      BY <1>0, <2>1, <3>2, ProcNames, PathNames DEF ProcOK, ServerOK
    <3> QED
      BY <3>1, <3>2, ProcNames
  <2>3. found \subseteq Paths
    BY <2>2, PathNames
  <2>4. \A f \in found : disk[f] \in 1..stamp
    BY <1>0, <2>3 DEF FileTypes
  <2>5. /\ DOMAIN next = Fields /\ next.pc = "index" /\ next.seen = [f \in found |-> disk[f]]
        /\ next.todo = found /\ next.into = s.into /\ next.scope = s.scope /\ next.queue = s.queue
        /\ next.name = s.name /\ next.tool = s.tool
    BY <1>1 DEF Fields
  <2> HIDE DEF found, next
  <2>6. ProcOK(p, next)
    BY <1>0, <2>1, <2>5 DEF ProcOK, FillerOK, ServerOK
  <2>7. WorkGood(next)
    BY <2>3, <2>4, <2>5 DEF WorkGood
  <2> QED
    BY <2>1, <2>6, <2>7 DEF Moves
<1>3. ASSUME NEW f \in Paths, SkipFile(p, f)
      PROVE  Moves(p)
  <2>1. PICK h : /\ s.pc = "index" /\ UNCHANGED <<disk, stamp>>
                 /\ Set(p, [s EXCEPT !.todo = s.todo \ {f}, !.held = h])
    BY <1>3 DEF SkipFile
  <2> DEFINE next == [s EXCEPT !.todo = s.todo \ {f}, !.held = h]
  <2>2. Only(p, next)
    BY <1>0, <2>1, SetOnly
  <2>3. /\ DOMAIN next = Fields /\ next.pc = s.pc /\ next.seen = s.seen /\ next.todo = s.todo \ {f}
        /\ next.into = s.into /\ next.scope = s.scope /\ next.queue = s.queue
        /\ next.name = s.name /\ next.tool = s.tool
    BY <1>1 DEF Fields
  <2> HIDE DEF next
  <2>4. ProcOK(p, next)
    BY <1>0, <2>3 DEF ProcOK, FillerOK, ServerOK
  <2>5. WorkGood(next)
    BY <1>0, <2>1, <2>3 DEF WorkGood
  <2> QED
    BY <2>1, <2>2, <2>4, <2>5 DEF Moves
<1>4. ASSUME NEW f \in Paths, ExtractTags(p, f)
      PROVE  Moves(p)
  <2> DEFINE next == [s EXCEPT !.pc = "save", !.cur = f, !.todo = s.todo \ {f},
                               !.held = Put(s.held, f, disk[f])]
  <2>1. s.pc = "index" /\ f \in s.todo /\ UNCHANGED <<disk, stamp>> /\ Only(p, next)
    BY <1>0, <1>4, SetOnly DEF ExtractTags
  <2>2. /\ DOMAIN next = Fields /\ next.pc = "save" /\ next.seen = s.seen /\ next.todo = s.todo \ {f}
        /\ next.into = s.into /\ next.scope = s.scope /\ next.queue = s.queue
        /\ next.name = s.name /\ next.tool = s.tool /\ next.cur = f
        /\ next.held = Put(s.held, f, disk[f])
    BY <1>1 DEF Fields
  <2> HIDE DEF next
  <2>3. next.held[f] = disk[f]
    BY <2>2 DEF Put
  <2>4. ProcOK(p, next)
    BY <1>0, <2>1, <2>2 DEF ProcOK, FillerOK, ServerOK
  <2>5. WorkGood(next)
    BY <1>0, <2>1, <2>2, <2>3 DEF WorkGood, GoodRow
  <2> QED
    BY <2>1, <2>4, <2>5 DEF Moves
<1>5. ASSUME SaveTags(p)
      PROVE  Moves(p)
  <2>1. PICK h, R : /\ s.pc = "save" /\ UNCHANGED <<disk, stamp>>
                    /\ Set(p, [s EXCEPT !.pc = "index", !.cur = <<>>, !.held = h, !.refused = R])
    <3> DEFINE h == IF s.tool = "load" THEN s.held ELSE NoRows
               next == [s EXCEPT !.pc = "index", !.cur = <<>>, !.held = h]
    <3>1. s.pc = "save" /\ UNCHANGED <<disk, stamp>>
      BY <1>5 DEF SaveTags
    <3>2. Set(p, next) \/ Set(p, [next EXCEPT !.refused = s.refused \cup {s.cur}])
      BY <1>1, <1>5 DEF SaveTags, Fields
    <3>3. next = [s EXCEPT !.pc = "index", !.cur = <<>>, !.held = h, !.refused = s.refused]
      BY <1>1 DEF Fields
    <3>4. [next EXCEPT !.refused = s.refused \cup {s.cur}] =
            [s EXCEPT !.pc = "index", !.cur = <<>>, !.held = h, !.refused = s.refused \cup {s.cur}]
      OBVIOUS
    <3> HIDE DEF h, next
    <3> QED
      BY <3>1, <3>2, <3>3, <3>4
  <2> DEFINE next == [s EXCEPT !.pc = "index", !.cur = <<>>, !.held = h, !.refused = R]
  <2>2. Only(p, next)
    BY <1>0, <2>1, SetOnly
  <2>3. /\ DOMAIN next = Fields /\ next.pc = "index" /\ next.seen = s.seen /\ next.todo = s.todo
        /\ next.into = s.into /\ next.scope = s.scope /\ next.queue = s.queue
        /\ next.name = s.name /\ next.tool = s.tool
    BY <1>1 DEF Fields
  <2> HIDE DEF next
  <2>4. ProcOK(p, next)
    BY <1>0, <2>1, <2>3 DEF ProcOK, FillerOK, ServerOK
  <2>5. WorkGood(next)
    BY <1>0, <2>1, <2>3 DEF WorkGood
  <2> QED
    BY <2>1, <2>2, <2>4, <2>5 DEF Moves
<1>6. ASSUME Stop(p)
      PROVE  Moves(p)
  <2>1. Only(p, Idle)
    BY <1>0, <1>6, SetOnly DEF Stop
  <2> QED
    BY <2>1, IdleOK DEF Moves
<1> QED
  BY <1>2, <1>3, <1>4, <1>5, <1>6 DEF IndexSteps

\* The record of a process that neither indexes nor saves.
LEMMA RestingMoves ==
    ASSUME ProcTypes, NEW p \in Procs, NEW s, Set(p, s), ProcOK(p, s), s.pc \notin {"index", "save"}
    PROVE  Moves(p)
  BY SetOnly DEF Moves

LEMMA WorkersMove ==
    ASSUME CacheInv, NEW t \in Tasks,
           Reindex(t) \/ FromGlobal(t) \/ BuildGlobalCache(t) \/ CopyGlobal(t) \/ IndexWorkspace(t)
    PROVE  Moves(<<"worker", t>>)
<1> DEFINE p == <<"worker", t>>
           s == procs[p]
<1>0. /\ ProcTypes /\ p \in Procs /\ p \in Fillers /\ p \notin Servers /\ p # Prewarmer
      /\ DOMAIN s = Fields /\ FillerOK(p, s) /\ CacheTypes
  BY ProcNames DEF CacheInv, CacheTypeOK, ProcTypes, ProcOK
<1>1. CASE Reindex(t)
  <2> DEFINE next == [Idle EXCEPT !.pc = "repo", !.queue = ReposOf[t]]
  <2>1. Set(p, next)
    BY <1>1 DEF Reindex
  <2>2. /\ DOMAIN next = Fields /\ next.pc = "repo" /\ next.queue = ReposOf[t]
        /\ next.into = Local("clone") /\ next.scope = {}
    BY DEF Idle, Fields
  <2> HIDE DEF next
  <2>3. ProcOK(p, next)
    BY <1>0, <2>2, DatabaseNames, PathNames DEF ProcOK, FillerOK
  <2> QED
    BY <1>0, <2>1, <2>2, <2>3, RestingMoves
<1>2. CASE FromGlobal(t)
  <2> DEFINE repo == Head(s.queue)
             name == [repo |-> repo, commit |-> head[t][repo]]
             copy == [s EXCEPT !.pc = "copy", !.name = name]
             build == [s EXCEPT !.pc = "scan", !.name = name, !.into = Inode(p, name), !.scope = {repo}]
  <2>1. s.queue # <<>> /\ (Set(p, copy) \/ Set(p, build))
    BY <1>2 DEF FromGlobal
  <2>2. repo \in RepoSet
    <3>1. s.queue \in Seq(RepoSet)
      BY <1>0 DEF FillerOK
    <3> QED
      BY <2>1, <3>1
  <2>3. name \in CacheNames
    BY <1>0, <2>2 DEF CacheNames, CacheTypes
  <2>4. Inode(p, name) \in Databases /\ Inode(p, name).kind = "cache"
    BY <1>0, <2>3, DatabaseNames
  <2>5. /\ DOMAIN copy = Fields /\ copy.pc = "copy" /\ copy.queue = s.queue
        /\ copy.into = s.into /\ copy.scope = s.scope
    BY <1>0 DEF Fields
  <2>6. /\ DOMAIN build = Fields /\ build.pc = "scan" /\ build.queue = s.queue
        /\ build.into = Inode(p, name) /\ build.scope = {repo}
    BY <1>0 DEF Fields
  <2> HIDE DEF repo, name, copy, build
  <2>7. ProcOK(p, copy) /\ ProcOK(p, build)
    BY <1>0, <2>2, <2>4, <2>5, <2>6 DEF ProcOK, FillerOK
  <2> QED
    BY <1>0, <2>1, <2>5, <2>6, <2>7, RestingMoves
<1>3. CASE BuildGlobalCache(t)
  <2> DEFINE next == [s EXCEPT !.pc = "copy"]
  <2>1. Set(p, next)
    BY <1>3 DEF BuildGlobalCache
  <2>2. /\ DOMAIN next = Fields /\ next.pc = "copy" /\ next.queue = s.queue
        /\ next.into = s.into /\ next.scope = s.scope
    BY <1>0 DEF Fields
  <2> HIDE DEF next
  <2>3. ProcOK(p, next)
    BY <1>0, <2>2 DEF ProcOK, FillerOK
  <2> QED
    BY <1>0, <2>1, <2>2, <2>3, RestingMoves
<1>4. CASE CopyGlobal(t)
  <2>1. PICK c : Set(p, [s EXCEPT !.pc = "repo", !.queue = Tail(s.queue), !.copied = c])
    <3>1. [s EXCEPT !.pc = "repo", !.queue = Tail(s.queue)] =
            [s EXCEPT !.pc = "repo", !.queue = Tail(s.queue), !.copied = s.copied]
      BY <1>0 DEF Fields
    <3>2. \/ Set(p, [s EXCEPT !.pc = "repo", !.queue = Tail(s.queue), !.copied = TRUE])
          \/ Set(p, [s EXCEPT !.pc = "repo", !.queue = Tail(s.queue)])
      BY <1>4 DEF CopyGlobal
    <3> QED
      BY <3>1, <3>2
  <2> DEFINE next == [s EXCEPT !.pc = "repo", !.queue = Tail(s.queue), !.copied = c]
  <2>2. /\ DOMAIN next = Fields /\ next.pc = "repo" /\ next.queue = Tail(s.queue)
        /\ next.into = s.into /\ next.scope = s.scope
    BY <1>0 DEF Fields
  <2>3. Tail(s.queue) \in Seq(RepoSet)
    <3>1. s.queue \in Seq(RepoSet)
      BY <1>0 DEF FillerOK
    <3>2. CASE s.queue # <<>>
      BY <3>1, <3>2
    <3>3. CASE s.queue = <<>>
      BY <3>1, <3>3
    <3> QED
      BY <3>2, <3>3
  <2> HIDE DEF next
  <2>4. ProcOK(p, next)
    BY <1>0, <2>2, <2>3 DEF ProcOK, FillerOK
  <2> QED
    BY <1>0, <2>1, <2>2, <2>4, RestingMoves DEF next
<1>5. CASE IndexWorkspace(t)
  <2> DEFINE next == [s EXCEPT !.pc = "scan", !.into = Local(t), !.scope = InTask(t)]
  <2>1. Set(p, next) \/ Set(p, Idle)
    BY <1>5 DEF IndexWorkspace
  <2>2. /\ DOMAIN next = Fields /\ next.pc = "scan" /\ next.queue = s.queue
        /\ next.into = Local(t) /\ next.scope = InTask(t)
    BY <1>0 DEF Fields
  <2> HIDE DEF next
  <2>3. ProcOK(p, next)
    BY <1>0, <2>2, DatabaseNames, PathNames DEF ProcOK, FillerOK
  <2> QED
    BY <1>0, <2>1, <2>2, <2>3, RestingMoves, IdleOK
<1> QED
  BY <1>1, <1>2, <1>3, <1>4, <1>5

LEMMA PrewarmerMoves ==
    ASSUME CacheInv,
           PrewarmCopy \/ PrewarmPublish \/ \E r \in RepoSet, c \in Commits : PrewarmClone(r, c)
    PROVE  Moves(Prewarmer)
<1> DEFINE s == procs[Prewarmer]
<1>0. /\ ProcTypes /\ Prewarmer \in Procs /\ Prewarmer \in Fillers /\ Prewarmer \notin Servers
      /\ DOMAIN s = Fields /\ FillerOK(Prewarmer, s)
  BY ProcNames DEF CacheInv, CacheTypeOK, ProcTypes, ProcOK
<1>1. ASSUME NEW r \in RepoSet, NEW c \in Commits, PrewarmClone(r, c)
      PROVE  Moves(Prewarmer)
  <2> DEFINE name == [repo |-> r, commit |-> c]
             next == [Idle EXCEPT !.pc = "scan", !.name = name, !.into = Local("clone"), !.scope = {r}]
  <2>1. Set(Prewarmer, next) /\ name \in CacheNames
    BY <1>1 DEF PrewarmClone, CacheNames
  <2>2. /\ DOMAIN next = Fields /\ next.pc = "scan" /\ next.queue = <<>> /\ next.name = name
        /\ next.into = Local("clone") /\ next.scope = {r}
    BY DEF Idle, Fields
  <2> HIDE DEF name, next
  <2>3. ProcOK(Prewarmer, next)
    BY <1>0, <2>1, <2>2, DatabaseNames DEF ProcOK, FillerOK
  <2> QED
    BY <1>0, <2>1, <2>2, <2>3, RestingMoves
<1>2. CASE PrewarmCopy
  <2> DEFINE next == [s EXCEPT !.pc = "rename"]
  <2>1. Set(Prewarmer, next) /\ s.pc # "idle"
    BY <1>2 DEF PrewarmCopy, Indexed
  <2>2. /\ DOMAIN next = Fields /\ next.pc = "rename" /\ next.queue = s.queue /\ next.name = s.name
        /\ next.into = s.into /\ next.scope = s.scope
    BY <1>0 DEF Fields
  <2> HIDE DEF next
  <2>3. ProcOK(Prewarmer, next)
    BY <1>0, <2>1, <2>2 DEF ProcOK, FillerOK
  <2> QED
    BY <1>0, <2>1, <2>2, <2>3, RestingMoves
<1>3. CASE PrewarmPublish
  BY <1>0, <1>3, RestingMoves, IdleOK DEF PrewarmPublish
<1> QED
  BY <1>1, <1>2, <1>3

LEMMA RequestsMove ==
    ASSUME CacheInv, NEW t \in Tasks,
           SearchTags(t) \/ Answer(t) \/ \E tool \in {"search", "load"} : Call(t, tool)
    PROVE  Moves(<<"server", t>>)
<1> DEFINE p == <<"server", t>>
           s == procs[p]
<1>0. /\ ProcTypes /\ p \in Procs /\ p \notin Fillers /\ p \in Servers /\ RootOf(p) = t
      /\ DOMAIN s = Fields /\ ServerOK(p, s)
  BY ProcNames DEF CacheInv, CacheTypeOK, ProcTypes, ProcOK
<1>1. ASSUME NEW tool \in {"search", "load"}, Call(t, tool)
      PROVE  Moves(p)
  <2> DEFINE next == [Idle EXCEPT !.pc = "scan", !.tool = tool, !.into = Served(t), !.scope = InTask(t)]
  <2>1. Set(p, next)
    BY <1>1 DEF Call
  <2>2. /\ DOMAIN next = Fields /\ next.pc = "scan" /\ next.tool = tool
        /\ next.into = Served(t) /\ next.scope = InTask(t)
    BY DEF Idle, Fields
  <2> HIDE DEF next
  <2>3. ProcOK(p, next)
    BY <1>0, <2>2 DEF ProcOK, ServerOK
  <2> QED
    BY <1>0, <2>1, <2>2, <2>3, RestingMoves
<1>2. CASE SearchTags(t)
  <2>1. PICK h : s.pc = "index" /\ Set(p, [s EXCEPT !.pc = "read", !.held = h])
    BY <1>2 DEF SearchTags, Indexed
  <2> DEFINE next == [s EXCEPT !.pc = "read", !.held = h]
  <2>2. /\ DOMAIN next = Fields /\ next.pc = "read" /\ next.tool = s.tool
        /\ next.into = s.into /\ next.scope = s.scope
    BY <1>0 DEF Fields
  <2> HIDE DEF next
  <2>3. ProcOK(p, next)
    BY <1>0, <2>1, <2>2 DEF ProcOK, ServerOK
  <2> QED
    BY <1>0, <2>1, <2>2, <2>3, RestingMoves DEF next
<1>3. CASE Answer(t)
  <2> DEFINE next(a) == [s EXCEPT !.pc = "answered", !.answer = a]
  <2>1. CASE s.pc = "answered" /\ Set(p, Idle)
    BY <1>0, <2>1, RestingMoves, IdleOK
  <2>2. \A a : /\ DOMAIN next(a) = Fields /\ next(a).pc = "answered" /\ next(a).tool = s.tool
               /\ next(a).into = s.into /\ next(a).scope = s.scope
    BY <1>0 DEF Fields
  <2>3. \/ s.pc \in {"read", "index"} /\ Set(p, next(Snippets(s.held)))
        \/ s.pc \in {"read", "index"} /\ Set(p, next(s.held))
        \/ s.pc = "answered" /\ Set(p, Idle)
    BY <1>3 DEF Answer, Indexed
  <2> HIDE DEF next
  <2>4. ASSUME NEW a, s.pc \in {"read", "index"}, Set(p, next(a))
        PROVE  Moves(p)
    <3>1. ProcOK(p, next(a))
      BY <1>0, <2>2, <2>4 DEF ProcOK, ServerOK
    <3> QED
      BY <1>0, <2>2, <2>4, <3>1, RestingMoves
  <2> QED
    BY <2>1, <2>3, <2>4
<1> QED
  BY <1>1, <1>2, <1>3

\* In every step one process moves, or none does and the others note what was edited.
NoteEdits ==
    /\ DOMAIN procs' = Procs
    /\ \A q \in Procs : SameWork(q)

LEMMA ProcsStep ==
    ASSUME CacheInv, [CacheNext]_cacheVars
    PROVE  NoteEdits \/ \E p \in Procs : Moves(p)
<1>0. ProcTypes /\ (\A q \in Procs : DOMAIN procs[q] = Fields) /\ DOMAIN procs = Procs
  BY DEF CacheInv, CacheTypeOK, ProcTypes, ProcOK
<1>1. CASE UNCHANGED procs
  <2>1. \A q \in Procs : SameWork(q)
    BY <1>0, <1>1 DEF SameWork
  <2> QED
    BY <1>0, <1>1, <2>1 DEF NoteEdits
<1>2. ASSUME NEW P, Touch(P)
      PROVE  NoteEdits
  BY <1>0, <1>2, TouchSame DEF NoteEdits
<1>3. ASSUME NEW t \in Tasks, RestoreCheckout(t) \/ \E r \in InTask(t) : Edit(t, r)
      PROVE  NoteEdits
  BY <1>2, <1>3 DEF RestoreCheckout, Edit
<1>4. CASE GarbageCollect \/ UNCHANGED cacheVars \/ \E t \in Tasks : CheckpointCheckout(t)
  <2>1. ASSUME NEW t, CheckpointCheckout(t) PROVE UNCHANGED procs
    BY <2>1 DEF CheckpointCheckout
  <2>2. ASSUME GarbageCollect PROVE UNCHANGED procs
    BY <2>2 DEF GarbageCollect
  <2>3. ASSUME UNCHANGED cacheVars PROVE UNCHANGED procs
    BY <2>3 DEF cacheVars
  <2> QED
    BY <1>1, <1>4, <2>1, <2>2, <2>3
<1>5. CASE CachesNext
  BY <1>3, <1>4, <1>5, IndexingMoves, WorkersMove, PrewarmerMoves, ProcNames DEF CachesNext, Fillers
<1>6. ASSUME NEW t \in Tasks, ServerNext(t)
      PROVE  NoteEdits \/ \E p \in Procs : Moves(p)
  BY <1>3, <1>4, <1>6, IndexingMoves, RequestsMove, ProcNames DEF ServerNext
<1> QED
  BY <1>4, <1>5, <1>6 DEF CacheNext

\* A process that did not move is as good after the step as before it.
LEMMA OthersStayGood ==
    ASSUME CacheInv, FilesMove, NEW q \in Procs, SameWork(q)
    PROVE  ProcOK(q, procs'[q]) /\ WorkGood(procs[q])'
<1> DEFINE s == procs[q]
           u == procs'[q]
<1>0. ProcOK(q, s) /\ WorkGood(s) /\ FileTypes
  BY DEF CacheInv, CacheTypeOK, ProcTypes
<1>1. /\ DOMAIN u = Fields /\ u.pc = s.pc /\ u.into = s.into /\ u.scope = s.scope /\ u.seen = s.seen
      /\ u.todo = s.todo /\ u.queue = s.queue /\ u.name = s.name /\ u.tool = s.tool /\ u.cur = s.cur
      /\ u.held = s.held
  BY DEF SameWork, Fields
<1>2. ProcOK(q, u)
  <2> HIDE DEF s, u
  <2> QED
    BY <1>0, <1>1 DEF ProcOK, FillerOK, ServerOK
<1>3. u.pc \in {"index", "save"} =>
        /\ DOMAIN u.seen \subseteq Paths /\ u.todo \subseteq DOMAIN u.seen
        /\ \A f \in DOMAIN u.seen : u.seen[f] \in 1..stamp'
  <2> HIDE DEF s, u
  <2> QED
    BY <1>0, <1>1 DEF WorkGood, FilesMove, FileTypes
<1>4. u.pc = "save" => /\ u.cur \in DOMAIN u.seen /\ u.seen[u.cur] \in 1..stamp'
                       /\ u.seen[u.cur] # u.held[u.cur] => disk'[u.cur] # u.seen[u.cur]
  <2> SUFFICES ASSUME s.pc = "save"
               PROVE  /\ s.cur \in DOMAIN s.seen /\ s.seen[s.cur] \in 1..stamp'
                      /\ s.seen[s.cur] # s.held[s.cur] => disk'[s.cur] # s.seen[s.cur]
    BY <1>1
  <2>1. /\ s.cur \in DOMAIN s.seen /\ s.cur \in Paths
        /\ GoodRow(s.cur, s.seen[s.cur], s.held[s.cur])
    BY <1>0 DEF WorkGood
  <2>2. \A f \in Paths : \A m, o : GoodRow(f, m, o) => m \in 1..stamp' /\ (m # o => disk'[f] # m)
    BY <1>0, GoodForGood DEF GoodRow
  <2> HIDE DEF s
  <2> QED
    BY <2>1, <2>2
<1> QED
  BY <1>2, <1>3, <1>4 DEF WorkGood, GoodRow

LEMMA ProcsStayGood ==
    ASSUME CacheInv, FilesMove, NoteEdits \/ \E p \in Procs : Moves(p)
    PROVE  ProcTypes' /\ (\A q \in Procs : WorkGood(procs[q])')
<1>1. CASE NoteEdits
  <2>1. \A q \in Procs : ProcOK(q, procs'[q]) /\ WorkGood(procs[q])'
    BY <1>1, OthersStayGood DEF NoteEdits
  <2> QED
    BY <1>1, <2>1 DEF NoteEdits, ProcTypes
<1>2. ASSUME NEW p \in Procs, Moves(p)
      PROVE  ProcTypes' /\ (\A q \in Procs : WorkGood(procs[q])')
  <2>1. PICK s : /\ Only(p, s) /\ ProcOK(p, s)
                 /\ s.pc \in {"index", "save"} => UNCHANGED <<disk, stamp>> /\ WorkGood(s)
    BY <1>2 DEF Moves
  <2>2. DOMAIN procs' = Procs /\ procs'[p] = s
    BY <2>1 DEF Only
  <2>3. ASSUME NEW q \in Procs, q # p
        PROVE  ProcOK(q, procs'[q]) /\ WorkGood(procs[q])'
    <3>1. procs'[q] = procs[q] /\ DOMAIN procs[q] = Fields
      BY <2>1, <2>3 DEF Only, CacheInv, CacheTypeOK, ProcTypes, ProcOK
    <3>2. SameWork(q)
      BY <3>1 DEF SameWork
    <3> QED
      BY <3>2, OthersStayGood
  <2>4. WorkGood(procs[p])'
    BY <2>1, <2>2 DEF WorkGood, GoodRow
  <2>5. \A q \in Procs : ProcOK(q, procs'[q]) /\ WorkGood(procs[q])'
    BY <2>1, <2>2, <2>3, <2>4
  <2> QED
    BY <2>2, <2>5 DEF ProcTypes
<1> QED
  BY <1>1, <1>2

\* Rows stay good: those that are copied, and the one that SaveTags writes.
LEMMA RowsStayGood ==
    ASSUME CacheInv, FilesMove, [CacheNext]_cacheVars
    PROVE  RowsGood'
<1>0. FileTypes /\ CacheTypes /\ ProcTypes /\ RowsGood
  BY DEF CacheInv, CacheTypeOK
<1>1. CASE ~ \E p \in Procs : SaveTags(p)
  BY <1>0, <1>1, RowsStep, CopiedAreGood
<1>2. ASSUME NEW p \in Procs, SaveTags(p)
      PROVE  RowsGood'
  <2> DEFINE s == procs[p]
             row == [mtime |-> s.seen[s.cur], of |-> s.held[s.cur]]
             db == Put(rows[s.into], s.cur, row)
  <2>1. /\ s.pc = "save" /\ UNCHANGED <<disk, stamp>>
        /\ UNCHANGED rows \/ rows' = [rows EXCEPT ![s.into] = db]
    BY <1>2 DEF SaveTags, RowOf
  <2>2. s.cur \in Paths /\ GoodRow(s.cur, s.seen[s.cur], s.held[s.cur])
    BY <2>1 DEF CacheInv, WorkGood
  <2>3. ASSUME NEW f \in DOMAIN db, s.into \in Databases
        PROVE  f \in Paths /\ GoodRow(f, db[f].mtime, db[f].of)
    <3>1. CASE f = s.cur
      <4>1. db[f] = row
        BY <3>1 DEF Put
      <4> QED
        BY <2>2, <3>1, <4>1
    <3>2. CASE f # s.cur
      <4>1. f \in DOMAIN rows[s.into] /\ db[f] = rows[s.into][f]
        BY <3>2 DEF Put
      <4> QED
        BY <1>0, <2>3, <4>1 DEF RowsGood
    <3> QED
      BY <3>1, <3>2
  <2> HIDE DEF db
  <2>4. ASSUME NEW d \in Databases, NEW f \in DOMAIN rows'[d]
        PROVE  f \in Paths /\ GoodRow(f, rows'[d][f].mtime, rows'[d][f].of)
    <3>1. CASE rows'[d] = rows[d]
      BY <1>0, <3>1, <2>4 DEF RowsGood
    <3>2. CASE d = s.into /\ rows'[d] = db
      BY <2>3, <2>4, <3>2
    <3> QED
      BY <1>0, <2>1, <2>4, <3>1, <3>2 DEF RowsGood
  <2> QED
    BY <1>0, <2>1, <2>4 DEF RowsGood, GoodRow
<1> QED
  BY <1>1, <1>2

\* Shared caches stay bound to the files made for them.
LEMMA CacheTypesStep ==
    ASSUME CacheInv, [CacheNext]_cacheVars
    PROVE  CacheTypes'
<1>0. CacheTypes /\ ProcTypes
  BY DEF CacheInv, CacheTypeOK
<1>1. ASSUME UNCHANGED head, UNCHANGED published, UNCHANGED tmp
      PROVE  CacheTypes'
  BY <1>0, <1>1 DEF CacheTypes
<1>2. ASSUME NEW f, NEW n, NEW m \in DOMAIN DropOthers(f, n)
      PROVE  m \in DOMAIN f /\ DropOthers(f, n)[m] = f[m]
  BY <1>2 DEF DropOthers
<1>3. ASSUME NEW f, NEW K, NEW m \in DOMAIN Drop(f, K)
      PROVE  m \in DOMAIN f /\ Drop(f, K)[m] = f[m]
  BY <1>3 DEF Drop
<1>4. ASSUME NEW f, NEW k, NEW v, NEW m \in DOMAIN Put(f, k, v)
      PROVE  IF m = k THEN Put(f, k, v)[m] = v ELSE m \in DOMAIN f /\ Put(f, k, v)[m] = f[m]
  BY <1>4 DEF Put
<1>5. ASSUME NEW name, Publish(name), UNCHANGED head
      PROVE  CacheTypes'
  <2>1. \A m \in DOMAIN published' : published'[m] \in Inodes
    BY <1>0, <1>2, <1>4, <1>5 DEF Publish, CacheTypes
  <2>2. \A m \in DOMAIN tmp' : tmp'[m] \in Inodes
    BY <1>0, <1>2, <1>3, <1>5 DEF Publish, CacheTypes
  <2> QED
    BY <1>0, <1>5, <2>1, <2>2 DEF CacheTypes
<1>6. ASSUME NEW name, NEW d \in Inodes, tmp' = Put(tmp, name, d), UNCHANGED head, UNCHANGED published
      PROVE  CacheTypes'
  BY <1>0, <1>4, <1>6 DEF CacheTypes
<1>7. ASSUME NEW t \in Tasks, FromGlobal(t)
      PROVE  CacheTypes'
  <2> DEFINE p == <<"worker", t>>
             name == [repo |-> Head(procs[p].queue), commit |-> head[t][Head(procs[p].queue)]]
  <2>1. procs[p].queue \in Seq(RepoSet) /\ procs[p].queue # <<>>
    BY <1>0, <1>7, ProcNames DEF FromGlobal, ProcTypes, ProcOK, FillerOK
  <2>2. Head(procs[p].queue) \in RepoSet
    BY <2>1
  <2>3. name \in CacheNames
    BY <1>0, <2>2 DEF CacheNames, CacheTypes
  <2>4. Inode(p, name) \in Inodes
    BY <2>3, ProcNames, DatabaseNames
  <2>5. /\ UNCHANGED head /\ UNCHANGED published
        /\ UNCHANGED tmp \/ tmp' = Put(tmp, name, Inode(p, name))
    BY <1>7 DEF FromGlobal
  <2> HIDE DEF p, name
  <2> QED
    BY <1>1, <1>6, <2>4, <2>5
<1>8. ASSUME NEW t \in Tasks, BuildGlobalCache(t)
      PROVE  CacheTypes'
  BY <1>1, <1>5, <1>8 DEF BuildGlobalCache
<1>9. CASE PrewarmCopy
  <2> DEFINE s == procs[Prewarmer]
             file == IF s.name \in DOMAIN tmp THEN tmp[s.name] ELSE Inode(Prewarmer, s.name)
  <2>1. s.name \in CacheNames
    BY <1>0, <1>9, ProcNames DEF PrewarmCopy, Indexed, ProcTypes, ProcOK, FillerOK
  <2>2. file \in Inodes
    BY <1>0, <2>1, ProcNames, DatabaseNames DEF CacheTypes
  <2>3. tmp' = Put(tmp, s.name, file) /\ UNCHANGED head /\ UNCHANGED published
    BY <1>9 DEF PrewarmCopy
  <2> HIDE DEF s, file
  <2> QED
    BY <1>6, <2>2, <2>3
<1>10. CASE PrewarmPublish
  BY <1>1, <1>5, <1>10 DEF PrewarmPublish
<1>11. CASE GarbageCollect
  <2>1. PICK dead : published' = Drop(published, dead) /\ UNCHANGED head /\ UNCHANGED tmp
    BY <1>11 DEF GarbageCollect
  <2> QED
    BY <1>0, <1>3, <2>1 DEF CacheTypes
<1>12. ASSUME NEW t \in Tasks, CheckpointCheckout(t)
       PROVE  CacheTypes'
  <2>1. \E r \in InTask(t), c \in Commits : head' = [head EXCEPT ![t][r] = c]
    BY <1>12 DEF CheckpointCheckout
  <2>2. UNCHANGED published /\ UNCHANGED tmp
    BY <1>12 DEF CheckpointCheckout
  <2>3. head' \in [Tasks -> [RepoSet -> Commits]]
    BY <1>0, <2>1, PathNames DEF CacheTypes
  <2> QED
    BY <1>0, <2>2, <2>3 DEF CacheTypes
<1>13. ASSUME NEW t \in Tasks, \/ Reindex(t) \/ CopyGlobal(t) \/ IndexWorkspace(t) \/ RestoreCheckout(t)
                               \/ \E r \in InTask(t) : Edit(t, r)
       PROVE  UNCHANGED head /\ UNCHANGED published /\ UNCHANGED tmp
  BY <1>13 DEF Reindex, CopyGlobal, IndexWorkspace, RestoreCheckout, Edit
<1>14. ASSUME NEW r, NEW c, PrewarmClone(r, c)
       PROVE  UNCHANGED head /\ UNCHANGED published /\ UNCHANGED tmp
  BY <1>14 DEF PrewarmClone
<1>15. CASE UNCHANGED cacheVars
  BY <1>1, <1>15 DEF cacheVars
<1>16. CASE CachesNext
  BY <1>1, <1>7, <1>8, <1>9, <1>10, <1>11, <1>13, <1>14, <1>16, IndexingLeaves DEF CachesNext
<1>17. ASSUME NEW t \in Tasks, ServerNext(t)
       PROVE  CacheTypes'
  BY <1>1, <1>12, <1>13, <1>17, IndexingLeaves, RequestsLeave DEF ServerNext
<1> QED
  BY <1>15, <1>16, <1>17 DEF CacheNext

LEMMA CacheInvariant == CacheSpec => []CacheInv
<1>1. CacheInit => CacheInv
  <2> SUFFICES ASSUME CacheInit PROVE CacheInv
    OBVIOUS
  <2>1. FileTypes
    BY DEF CacheInit, FileTypes
  <2>2. CacheTypes
    BY DEF CacheInit, CacheTypes, NoRows
  <2>3. ProcTypes /\ \A p \in Procs : WorkGood(procs[p])
    BY IdleOK DEF CacheInit, ProcTypes, WorkGood
  <2>4. RowsGood
    BY DEF CacheInit, RowsGood, NoRows
  <2> QED
    BY <2>1, <2>2, <2>3, <2>4 DEF CacheInv, CacheTypeOK
<1>2. CacheInv /\ [CacheNext]_cacheVars => CacheInv'
  <2> SUFFICES ASSUME CacheInv, [CacheNext]_cacheVars PROVE CacheInv'
    OBVIOUS
  <2>1. FilesMove
    BY FilesStep DEF CacheInv, CacheTypeOK
  <2> QED
    BY <2>1, ProcsStep, ProcsStayGood, RowsStayGood, CacheTypesStep DEF CacheInv, CacheTypeOK, FilesMove
<1> QED
  BY <1>1, <1>2, PTL DEF CacheSpec

\* For any number of files, edits and processes, no index keeps old tags under the time of
\* new content, wherever its rows were copied from (SaveTags, cache.go).
THEOREM CachesAreHonest == CacheSpec => []CachesHonest
<1>1. CacheInv => CachesHonest
  BY DEF CacheInv, RowsGood, GoodRow, CachesHonest
<1> QED
  BY <1>1, CacheInvariant, PTL

-----------------------------------------------------------------------------
\* The answers of a context server

\* The index of a server and its copy in the checkpoint are about files of its workspace.
OwnRows(t) ==
    /\ DOMAIN rows[Served(t)] \subseteq Own(t)
    /\ DOMAIN rows[Committed(t)] \subseteq Own(t)

\* While a server indexes, it knows all there is of what nobody has touched since the request,
\* and has in hand, or in its index unless a save was refused, the tags of what it did already.
IndexFresh(t) ==
    LET s == procs[<<"server", t>>] IN
    /\ DOMAIN s.seen \subseteq Own(t) /\ DOMAIN s.held \subseteq Own(t)
    /\ \A f \in DOMAIN s.seen \ s.touched : s.seen[f] = disk[f]
    /\ \A f \in Own(t) \ s.touched : disk[f] # 0 => f \in DOMAIN s.seen
    /\ \A f \in DOMAIN s.held \ s.touched : disk[f] # 0 /\ s.held[f] = disk[f]
    /\ s.tool = "search" =>
         \A f \in DOMAIN s.seen \ (s.todo \cup s.touched \cup s.refused) :
             \/ s.pc = "save" /\ f = s.cur
             \/ Fresh(rows[Served(t)], f, disk[f])

\* What a search found is of the present, unless it is of a file that is gone.
FoundFresh(t) ==
    LET s == procs[<<"server", t>>] IN
    /\ s.tool = "search" /\ DOMAIN s.held \subseteq Own(t)
    /\ \A f \in DOMAIN s.held \ (s.touched \cup s.refused) : disk[f] = 0 \/ s.held[f] = disk[f]

AnswerFresh(t) ==
    LET s == procs[<<"server", t>>] IN
    /\ DOMAIN s.answer \subseteq Own(t)
    /\ \A f \in DOMAIN s.answer \ s.touched :
          (s.tool = "load" \/ f \notin s.refused) => disk[f] # 0 /\ s.answer[f] = disk[f]

ServerFresh(t) ==
    LET s == procs[<<"server", t>>] IN
    /\ s.pc \in {"idle", "scan", "index", "save", "read", "answered"}
    /\ s.pc = "scan" => DOMAIN s.held = {}
    /\ s.pc \in {"index", "save"} => IndexFresh(t)
    /\ s.pc = "read" => FoundFresh(t)
    /\ s.pc = "answered" => AnswerFresh(t)

\* The steps of the server of t, and what the others leave of its request.
ServerStep(t) ==
    \/ IndexSteps(<<"server", t>>) \/ Stop(<<"server", t>>)
    \/ SearchTags(t) \/ Answer(t) \/ \E tool \in {"search", "load"} : Call(t, tool)

Quiet(t) ==
    LET p == <<"server", t>> IN
    /\ SameWork(p) /\ procs[p].touched \subseteq procs'[p].touched
    /\ procs[p].pc # "idle" =>
         /\ rows'[Served(t)] = rows[Served(t)]
         /\ \A f \in Own(t) : disk'[f] = disk[f] \/ f \in procs'[p].touched

\* The index of a server is written by its own saves and by the restore of its checkout, the copy
\* in the checkpoint by the commit of the checkout.
LEMMA ServedRows ==
    ASSUME CacheInv, [CacheNext]_cacheVars, NEW t \in Tasks
    PROVE  /\ \/ rows'[Served(t)] = rows[Served(t)]
              \/ SaveTags(<<"server", t>>)
              \/ RestoreCheckout(t)
           /\ rows'[Committed(t)] = rows[Committed(t)] \/ CheckpointCheckout(t)
<1>0. /\ ProcTypes /\ CacheTypes /\ DOMAIN rows = Databases
      /\ Served(t) \in Databases /\ Committed(t) \in Databases
      /\ Served(t).kind = "server" /\ Committed(t).kind = "git"
  BY DatabaseNames DEF CacheInv, CacheTypeOK, RowsGood
<1>1. ASSUME NEW d, NEW db, d.kind \in {"local", "cache"}, rows' = [rows EXCEPT ![d] = db]
      PROVE  rows'[Served(t)] = rows[Served(t)] /\ rows'[Committed(t)] = rows[Committed(t)]
  <2>1. d # Served(t) /\ d # Committed(t)
    BY <1>0, <1>1
  <2> QED
    BY <1>0, <1>1, <2>1
<1>2. ASSUME NEW u \in Tasks, NEW db, rows' = [rows EXCEPT ![Served(u)] = db]
      PROVE  /\ u # t => rows'[Served(t)] = rows[Served(t)]
             /\ rows'[Committed(t)] = rows[Committed(t)]
  <2>1. Served(u) # Committed(t) /\ (u # t => Served(u) # Served(t))
    BY <1>0, DatabaseNames
  <2> QED
    BY <1>0, <1>2, <2>1
<1>3. ASSUME NEW p \in Procs, SaveTags(p)
      PROVE  /\ rows'[Served(t)] = rows[Served(t)] \/ SaveTags(<<"server", t>>)
             /\ rows'[Committed(t)] = rows[Committed(t)]
  <2> DEFINE s == procs[p]
  <2>1. \/ UNCHANGED rows
        \/ rows' = [rows EXCEPT ![s.into] = Put(rows[s.into], s.cur, RowOf(s.seen[s.cur], s.cur, s.held[s.cur]))]
    BY <1>3 DEF SaveTags
  <2>2. CASE p \in Fillers
    <3>1. s.into.kind \in {"local", "cache"}
      BY <1>0, <2>2 DEF ProcTypes, ProcOK, FillerOK
    <3> QED
      BY <1>1, <2>1, <3>1
  <2>3. CASE p \in Servers
    <3>1. RootOf(p) \in Tasks /\ p = <<"server", RootOf(p)>>
      BY <2>3, ProcNames
    <3>2. s.into = Served(RootOf(p))
      BY <1>0, <1>3, <2>3 DEF SaveTags, ProcTypes, ProcOK, ServerOK
    <3> QED
      BY <1>2, <1>3, <2>1, <3>1, <3>2
  <2> QED
    BY <2>2, <2>3, ProcNames
<1>4. CASE UNCHANGED rows
  BY <1>4
<1>5. ASSUME NEW p \in Procs, IndexSteps(p) \/ Stop(p)
      PROVE  UNCHANGED rows \/ SaveTags(p)
  BY <1>5, IndexingLeaves
<1>6. ASSUME NEW u \in Tasks, Reindex(u) \/ CopyGlobal(u)
      PROVE  rows'[Served(t)] = rows[Served(t)] /\ rows'[Committed(t)] = rows[Committed(t)]
  <2>1. Local(u).kind = "local"
    BY DatabaseNames
  <2>2. UNCHANGED rows \/ \E db : rows' = [rows EXCEPT ![Local(u)] = db]
    BY <1>6 DEF Reindex, CopyGlobal
  <2> QED
    BY <1>1, <1>4, <2>1, <2>2
<1>7. ASSUME NEW u \in Tasks, FromGlobal(u)
      PROVE  rows'[Served(t)] = rows[Served(t)] /\ rows'[Committed(t)] = rows[Committed(t)]
  <2>1. \A p, n : Inode(p, n).kind = "cache"
    BY DEF Inode
  <2>2. UNCHANGED rows \/ \E p, n : rows' = [rows EXCEPT ![Inode(p, n)] = NoRows]
    BY <1>7 DEF FromGlobal
  <2> QED
    BY <1>1, <1>4, <2>1, <2>2
<1>8. ASSUME PrewarmPublish \/ \E r \in RepoSet, c \in Commits : PrewarmClone(r, c)
      PROVE  rows'[Served(t)] = rows[Served(t)] /\ rows'[Committed(t)] = rows[Committed(t)]
  <2>1. rows' = [rows EXCEPT ![Local("clone")] = NoRows]
    BY <1>8 DEF PrewarmPublish, PrewarmClone
  <2> QED
    BY <1>1, <2>1, DatabaseNames
<1>9. ASSUME PrewarmCopy
      PROVE  rows'[Served(t)] = rows[Served(t)] /\ rows'[Committed(t)] = rows[Committed(t)]
  <2> DEFINE s == procs[Prewarmer]
             file == IF s.name \in DOMAIN tmp THEN tmp[s.name] ELSE Inode(Prewarmer, s.name)
  <2>1. file.kind = "cache"
    BY <1>0, DatabaseNames DEF CacheTypes, Inode
  <2>2. rows' = [rows EXCEPT ![file] = rows[Local("clone")]]
    BY <1>9 DEF PrewarmCopy
  <2> HIDE DEF file, s
  <2>3. file # Served(t) /\ file # Committed(t)
    BY <1>0, <2>1
  <2> QED
    BY <1>0, <2>2, <2>3
<1>10. ASSUME NEW u \in Tasks, CheckpointCheckout(u)
       PROVE  /\ rows'[Served(t)] = rows[Served(t)]
              /\ rows'[Committed(t)] = rows[Committed(t)] \/ CheckpointCheckout(t)
  <2>1. Committed(u) # Served(t) /\ (u # t => Committed(u) # Committed(t))
    BY <1>0, DatabaseNames
  <2>2. rows' = [rows EXCEPT ![Committed(u)] = rows[Served(u)]]
    BY <1>10 DEF CheckpointCheckout
  <2>3. rows'[Served(t)] = rows[Served(t)]
    BY <1>0, <2>1, <2>2
  <2>4. u # t => rows'[Committed(t)] = rows[Committed(t)]
    BY <1>0, <2>1, <2>2
  <2> QED
    BY <1>10, <2>3, <2>4
<1>11. ASSUME NEW u \in Tasks, RestoreCheckout(u)
       PROVE  /\ rows'[Served(t)] = rows[Served(t)] \/ RestoreCheckout(t)
              /\ rows'[Committed(t)] = rows[Committed(t)]
  <2>1. rows' = [rows EXCEPT ![Served(u)] = rows[Committed(u)]]
    BY <1>11 DEF RestoreCheckout
  <2>2. /\ u # t => rows'[Served(t)] = rows[Served(t)]
        /\ rows'[Committed(t)] = rows[Committed(t)]
    BY <1>2, <2>1
  <2> QED
    BY <1>11, <2>2
<1>12. ASSUME NEW u \in Tasks, \/ BuildGlobalCache(u) \/ IndexWorkspace(u)
                               \/ SearchTags(u) \/ Answer(u) \/ \E tool \in {"search", "load"} : Call(u, tool)
                               \/ \E r \in InTask(u) : Edit(u, r)
       PROVE  UNCHANGED rows
  BY <1>12, RequestsLeave DEF BuildGlobalCache, IndexWorkspace, Edit
<1>13. CASE GarbageCollect \/ UNCHANGED cacheVars
  BY <1>4, <1>13 DEF GarbageCollect, cacheVars
<1>14. CASE CachesNext
  <2>1. CASE \E u \in Tasks : \/ Reindex(u) \/ FromGlobal(u) \/ BuildGlobalCache(u) \/ CopyGlobal(u)
                              \/ IndexWorkspace(u) \/ \E r \in InTask(u) : Edit(u, r)
    BY <1>4, <1>6, <1>7, <1>12, <2>1
  <2>2. CASE \/ PrewarmCopy \/ PrewarmPublish \/ GarbageCollect
             \/ \E r \in RepoSet, c \in Commits : PrewarmClone(r, c)
    BY <1>8, <1>9, <1>13, <2>2
  <2>3. ASSUME NEW p \in Fillers, IndexSteps(p) \/ Stop(p)
        PROVE  \/ rows'[Served(t)] = rows[Served(t)] /\ rows'[Committed(t)] = rows[Committed(t)]
               \/ SaveTags(<<"server", t>>) /\ rows'[Committed(t)] = rows[Committed(t)]
    BY <1>3, <1>5, <2>3, ProcNames
  <2> QED
    BY <1>14, <2>1, <2>2, <2>3 DEF CachesNext, Fillers
<1>15. ASSUME NEW u \in Tasks, ServerNext(u)
       PROVE  /\ \/ rows'[Served(t)] = rows[Served(t)]
                 \/ SaveTags(<<"server", t>>)
                 \/ RestoreCheckout(t)
              /\ rows'[Committed(t)] = rows[Committed(t)] \/ CheckpointCheckout(t)
  BY <1>3, <1>4, <1>5, <1>10, <1>11, <1>12, <1>15, ProcNames DEF ServerNext
<1> QED
  BY <1>13, <1>14, <1>15 DEF CacheNext

\* A step of another process, and an edit, leave the request of a server as it was but for the
\* files it notes as touched.
LEMMA QuietStep ==
    ASSUME CacheInv, [CacheNext]_cacheVars, NEW t \in Tasks, ~ ServerStep(t)
    PROVE  Quiet(t)
<1> DEFINE p == <<"server", t>>
           Calm == /\ procs'[p] = procs[p]
                   /\ \A f \in Own(t) : disk'[f] = disk[f]
           Noted == /\ SameWork(p) /\ procs[p].touched \subseteq procs'[p].touched
                    /\ procs[p].pc # "idle" =>
                         \A f \in Own(t) : disk'[f] = disk[f] \/ f \in procs'[p].touched
<1>0. /\ ProcTypes /\ FileTypes /\ p \in Procs /\ p \in Servers /\ p \notin Fillers
      /\ DOMAIN procs = Procs /\ DOMAIN procs[p] = Fields
  BY ProcNames DEF CacheInv, CacheTypeOK, ProcTypes, ProcOK
<1>1. ASSUME Calm PROVE Noted
  BY <1>0, <1>1 DEF SameWork
<1>2. ASSUME NEW q \in Procs, q # p, Moves(q), UNCHANGED disk
      PROVE  Calm
  BY <1>0, <1>2 DEF Moves, Only
<1>3. \A f \in Own(t) : f \in Paths /\ f[1] # "clone" /\ f[1] \in Tasks
  BY PathNames, ContextCacheAssumption DEF Own
<1>4. ASSUME NEW q \in Procs, q # p, IndexSteps(q) \/ Stop(q)
      PROVE  Calm
  BY <1>2, <1>4, IndexingMoves, IndexingLeaves
<1>5. ASSUME NEW u \in Tasks,
             Reindex(u) \/ FromGlobal(u) \/ BuildGlobalCache(u) \/ CopyGlobal(u) \/ IndexWorkspace(u)
      PROVE  Calm
  <2>1. UNCHANGED disk
    BY <1>5 DEF Reindex, FromGlobal, BuildGlobalCache, CopyGlobal, IndexWorkspace
  <2>2. <<"worker", u>> \in Procs /\ <<"worker", u>> # p
    BY <1>0, ProcNames
  <2> QED
    BY <1>2, <1>5, <2>1, <2>2, WorkersMove
<1>6. ASSUME PrewarmCopy \/ PrewarmPublish \/ \E r \in RepoSet, c \in Commits : PrewarmClone(r, c)
      PROVE  Calm
  <2>1. Prewarmer \in Procs /\ Prewarmer # p
    BY <1>0, ProcNames
  <2>2. procs'[p] = procs[p]
    BY <1>0, <1>6, <2>1, PrewarmerMoves DEF Moves, Only
  <2>3. ASSUME NEW f \in Own(t) PROVE disk'[f] = disk[f]
    <3>1. f \in Paths /\ f[1] # "clone"
      BY <1>3, <2>3
    <3>2. CASE PrewarmCopy
      BY <3>2 DEF PrewarmCopy
    <3>3. CASE PrewarmPublish
      BY <3>1, <3>3 DEF PrewarmPublish
    <3>4. ASSUME NEW r \in RepoSet, NEW c \in Commits, PrewarmClone(r, c)
          PROVE  disk'[f] = disk[f]
      <4>1. f # <<"clone", r>>
        BY <3>1
      <4>2. disk' = [disk EXCEPT ![<<"clone", r>>] = stamp + 1]
        BY <3>4 DEF PrewarmClone
      <4> QED
        BY <1>0, <3>1, <4>1, <4>2 DEF FileTypes
    <3> QED
      BY <1>6, <3>2, <3>3, <3>4
  <2> QED
    BY <2>2, <2>3
<1>7. ASSUME NEW u \in Tasks, SearchTags(u) \/ Answer(u) \/ \E tool \in {"search", "load"} : Call(u, tool)
      PROVE  Calm
  <2>1. u # t
    BY <1>7 DEF ServerStep
  <2>2. <<"server", u>> \in Procs /\ <<"server", u>> # p
    BY <2>1, ProcNames
  <2> QED
    BY <1>2, <1>7, <2>2, RequestsMove, RequestsLeave
<1>8. ASSUME NEW P, Touch(P), \A f \in Own(t) \ P : disk'[f] = disk[f]
      PROVE  Noted
  <2>1. /\ SameWork(p)
        /\ procs'[p].touched = IF procs[p].pc # "idle" THEN procs[p].touched \cup P ELSE procs[p].touched
    BY <1>0, <1>8, TouchSame
  <2> QED
    BY <1>8, <2>1
<1>9. ASSUME NEW u \in Tasks, NEW r \in InTask(u), Edit(u, r)
      PROVE  Noted
  <2>1. Touch({<<u, r>>}) /\ \E s : disk' = [disk EXCEPT ![<<u, r>>] = s]
    BY <1>9 DEF Edit
  <2>2. \A f \in Own(t) \ {<<u, r>>} : disk'[f] = disk[f]
    BY <1>0, <1>3, <2>1 DEF FileTypes
  <2> QED
    BY <1>8, <2>1, <2>2
<1>10. ASSUME NEW u \in Tasks, RestoreCheckout(u)
       PROVE  Noted
  <2>1. PICK R : /\ disk' = [f \in Paths |-> IF f[1] = u /\ f[2] \in R THEN stamp + 1 ELSE disk[f]]
                 /\ Touch({<<u, r>> : r \in R})
    BY <1>10 DEF RestoreCheckout
  <2>2. \A f \in Own(t) \ {<<u, r>> : r \in R} : disk'[f] = disk[f]
    <3> SUFFICES ASSUME NEW f \in Own(t), f \notin {<<u, r>> : r \in R}
                 PROVE  disk'[f] = disk[f]
      OBVIOUS
    <3>1. f \in Paths /\ f = <<f[1], f[2]>>
      BY <1>3 DEF Own
    <3>2. ~ (f[1] = u /\ f[2] \in R)
      BY <3>1
    <3> QED
      BY <2>1, <3>1, <3>2
  <2> QED
    BY <1>8, <2>1, <2>2
<1>11. ASSUME NEW u \in Tasks, CheckpointCheckout(u)
       PROVE  Calm
  BY <1>11 DEF CheckpointCheckout
<1>12. ASSUME GarbageCollect PROVE Calm
  BY <1>12 DEF GarbageCollect
<1>13. ASSUME UNCHANGED cacheVars PROVE Calm
  BY <1>13 DEF cacheVars
<1>14. Noted
  <2> HIDE DEF Calm, Noted
  <2>1. CASE CachesNext
    <3>1. CASE \E q \in Fillers : IndexSteps(q) \/ Stop(q)
      BY <1>0, <1>1, <1>4, <3>1, ProcNames
    <3>2. CASE \E u \in Tasks : \/ Reindex(u) \/ FromGlobal(u) \/ BuildGlobalCache(u) \/ CopyGlobal(u)
                                \/ IndexWorkspace(u) \/ \E r \in InTask(u) : Edit(u, r)
      BY <1>1, <1>5, <1>9, <3>2
    <3>3. CASE \/ PrewarmCopy \/ PrewarmPublish \/ GarbageCollect
               \/ \E r \in RepoSet, c \in Commits : PrewarmClone(r, c)
      BY <1>1, <1>6, <1>12, <3>3
    <3> QED
      BY <2>1, <3>1, <3>2, <3>3 DEF CachesNext, Fillers
  <2>2. ASSUME NEW u \in Tasks, ServerNext(u)
        PROVE  Noted
    <3>1. CASE u # t
      <4>1. <<"server", u>> \in Procs /\ <<"server", u>> # p
        BY <3>1, ProcNames
      <4> QED
        BY <1>1, <1>4, <1>7, <1>9, <1>10, <1>11, <2>2, <4>1 DEF ServerNext
    <3>2. CASE u = t
      BY <1>1, <1>9, <1>10, <1>11, <2>2, <3>2 DEF ServerNext, ServerStep
    <3> QED
      BY <3>1, <3>2
  <2> QED
    BY <1>1, <1>13, <2>1, <2>2 DEF CacheNext
<1>15. procs[p].pc # "idle" => rows'[Served(t)] = rows[Served(t)]
  <2>1. ~ SaveTags(p)
    BY DEF ServerStep, IndexSteps
  <2> QED
    BY <2>1, ServedRows DEF RestoreCheckout
<1> QED
  BY <1>14, <1>15 DEF Quiet

LEMMA QuietKeeps ==
    ASSUME CacheInv, NEW t \in Tasks, ServerFresh(t), Quiet(t)
    PROVE  ServerFresh(t)'
<1> DEFINE p == <<"server", t>>
           s == procs[p]
           u == procs'[p]
<1>0. /\ u.pc = s.pc /\ u.seen = s.seen /\ u.todo = s.todo /\ u.tool = s.tool /\ u.cur = s.cur
      /\ u.held = s.held /\ u.refused = s.refused /\ u.answer = s.answer
      /\ s.touched \subseteq u.touched
  BY DEF Quiet, SameWork, Fields
<1>1. s.pc # "idle" => /\ rows'[Served(t)] = rows[Served(t)]
                       /\ \A f \in Own(t) : f \notin u.touched => disk'[f] = disk[f]
  BY DEF Quiet
<1>2. s.pc \in {"index", "save"} => IndexFresh(t)'
  <2> SUFFICES ASSUME s.pc \in {"index", "save"} PROVE IndexFresh(t)'
    OBVIOUS
  <2>1. /\ DOMAIN s.seen \subseteq Own(t) /\ DOMAIN s.held \subseteq Own(t)
        /\ \A f \in DOMAIN s.seen \ s.touched : s.seen[f] = disk[f]
        /\ \A f \in Own(t) \ s.touched : disk[f] # 0 => f \in DOMAIN s.seen
        /\ \A f \in DOMAIN s.held \ s.touched : disk[f] # 0 /\ s.held[f] = disk[f]
        /\ s.tool = "search" =>
             \A f \in DOMAIN s.seen \ (s.todo \cup s.touched \cup s.refused) :
                 \/ s.pc = "save" /\ f = s.cur
                 \/ Fresh(rows[Served(t)], f, disk[f])
    BY DEF ServerFresh, IndexFresh
  <2> HIDE DEF s, u
  <2>2. /\ DOMAIN u.seen \subseteq Own(t) /\ DOMAIN u.held \subseteq Own(t)
        /\ \A f \in DOMAIN u.seen \ u.touched : u.seen[f] = disk'[f]
        /\ \A f \in Own(t) \ u.touched : disk'[f] # 0 => f \in DOMAIN u.seen
        /\ \A f \in DOMAIN u.held \ u.touched : disk'[f] # 0 /\ u.held[f] = disk'[f]
    BY <1>0, <1>1, <2>1
  <2>3. u.tool = "search" =>
             \A f \in DOMAIN u.seen \ (u.todo \cup u.touched \cup u.refused) :
                 \/ u.pc = "save" /\ f = u.cur
                 \/ Fresh(rows'[Served(t)], f, disk'[f])
    BY <1>0, <1>1, <2>1
  <2> QED
    BY <2>2, <2>3 DEF IndexFresh, u, Fresh
<1>3. s.pc = "read" => FoundFresh(t)'
  <2> SUFFICES ASSUME s.pc = "read" PROVE FoundFresh(t)'
    OBVIOUS
  <2>1. /\ s.tool = "search" /\ DOMAIN s.held \subseteq Own(t)
        /\ \A f \in DOMAIN s.held \ (s.touched \cup s.refused) : disk[f] = 0 \/ s.held[f] = disk[f]
    BY DEF ServerFresh, FoundFresh
  <2> HIDE DEF s, u
  <2>2. /\ u.tool = "search" /\ DOMAIN u.held \subseteq Own(t)
        /\ \A f \in DOMAIN u.held \ (u.touched \cup u.refused) : disk'[f] = 0 \/ u.held[f] = disk'[f]
    BY <1>0, <1>1, <2>1
  <2> QED
    BY <2>2 DEF FoundFresh, u
<1>4. s.pc = "answered" => AnswerFresh(t)'
  <2> SUFFICES ASSUME s.pc = "answered" PROVE AnswerFresh(t)'
    OBVIOUS
  <2>1. /\ DOMAIN s.answer \subseteq Own(t)
        /\ \A f \in DOMAIN s.answer \ s.touched :
              (s.tool = "load" \/ f \notin s.refused) => disk[f] # 0 /\ s.answer[f] = disk[f]
    BY DEF ServerFresh, AnswerFresh
  <2> HIDE DEF s, u
  <2>2. /\ DOMAIN u.answer \subseteq Own(t)
        /\ \A f \in DOMAIN u.answer \ u.touched :
              (u.tool = "load" \/ f \notin u.refused) => disk'[f] # 0 /\ u.answer[f] = disk'[f]
    BY <1>0, <1>1, <2>1
  <2> QED
    BY <2>2 DEF AnswerFresh, u
<1>5. /\ s.pc \in {"idle", "scan", "index", "save", "read", "answered"}
      /\ s.pc = "scan" => DOMAIN s.held = {}
  BY DEF ServerFresh
<1>6. u.pc = s.pc /\ u.held = s.held
  BY <1>0
<1> QED
  BY <1>2, <1>3, <1>4, <1>5, <1>6 DEF ServerFresh

\* The steps of a request keep what the server knows of the untouched files true.
LEMMA RequestKeeps ==
    ASSUME CacheInv, NEW t \in Tasks, OwnRows(t), ServerFresh(t), ServerStep(t)
    PROVE  ServerFresh(t)'
<1> DEFINE p == <<"server", t>>
           s == procs[p]
           u == procs'[p]
<1>0. /\ ProcTypes /\ p \in Procs /\ p \in Servers /\ RootOf(p) = t /\ FileTypes /\ RowsGood
      /\ DOMAIN s = Fields /\ ServerOK(p, s) /\ WorkGood(s)
      /\ Own(t) \subseteq Paths /\ Served(t) \in Databases /\ DOMAIN rows = Databases
  BY ProcNames, PathNames, DatabaseNames DEF CacheInv, CacheTypeOK, ProcTypes, ProcOK, RowsGood
<1>1. ASSUME NEW n, Set(p, n) PROVE u = n
  BY <1>0, <1>1, SetOnly DEF Only
<1>2. \A f \in DOMAIN rows[Served(t)] :
          /\ f \in Own(t) /\ rows[Served(t)][f].mtime # 0
          /\ rows[Served(t)][f].mtime = disk[f] => rows[Served(t)][f].of = disk[f]
  BY <1>0 DEF OwnRows, RowsGood, GoodRow
<1>3. s.pc \in {"index", "save"} =>
        /\ DOMAIN s.seen \subseteq Own(t) /\ DOMAIN s.held \subseteq Own(t)
        /\ \A f \in DOMAIN s.seen \ s.touched : s.seen[f] = disk[f] /\ disk[f] # 0
        /\ \A f \in Own(t) \ s.touched : disk[f] # 0 => f \in DOMAIN s.seen
        /\ \A f \in DOMAIN s.held \ s.touched : disk[f] # 0 /\ s.held[f] = disk[f]
        /\ s.todo \subseteq DOMAIN s.seen
        /\ s.tool = "search" =>
             \A f \in DOMAIN s.seen \ (s.todo \cup s.touched \cup s.refused) :
                 \/ s.pc = "save" /\ f = s.cur
                 \/ Fresh(rows[Served(t)], f, disk[f])
  BY <1>0 DEF ServerFresh, IndexFresh, WorkGood
<1>4. s.pc # "idle" => s.into = Served(t) /\ s.scope = InTask(t) /\ s.tool \in {"search", "load"}
  BY <1>0 DEF ServerOK
<1>5. ASSUME u.pc \in {"index", "save"},
             /\ DOMAIN u.seen \subseteq Own(t) /\ DOMAIN u.held \subseteq Own(t)
             /\ \A f \in DOMAIN u.seen \ u.touched : u.seen[f] = disk'[f]
             /\ \A f \in Own(t) \ u.touched : disk'[f] # 0 => f \in DOMAIN u.seen
             /\ \A f \in DOMAIN u.held \ u.touched : disk'[f] # 0 /\ u.held[f] = disk'[f]
             /\ u.tool = "search" =>
                  \A f \in DOMAIN u.seen \ (u.todo \cup u.touched \cup u.refused) :
                      \/ u.pc = "save" /\ f = u.cur
                      \/ Fresh(rows'[Served(t)], f, disk'[f])
      PROVE  ServerFresh(t)'
  BY <1>5 DEF ServerFresh, IndexFresh, Fresh
<1>6. CASE ScanRepository(p)
  <2> DEFINE here == {<<RootOf(p), r>> : r \in s.scope}
             found == {f \in here : disk[f] # 0}
             next == [s EXCEPT !.pc = "index", !.seen = [f \in found |-> disk[f]], !.todo = found]
  <2>1. s.pc = "scan" /\ u = next /\ UNCHANGED disk
    BY <1>1, <1>6 DEF ScanRepository
  <2>2. /\ u.pc = "index" /\ u.seen = [f \in found |-> disk[f]] /\ u.todo = found
        /\ u.held = s.held
    BY <1>0, <2>1 DEF Fields
  <2>3. here = Own(t)
    BY <1>0, <1>4, <2>1 DEF Own
  <2>4. DOMAIN u.held = {}
    BY <2>1, <2>2 DEF ServerFresh
  <2> HIDE DEF s, u, next
  <2> QED
    BY <1>5, <2>1, <2>2, <2>3, <2>4
<1>7. ASSUME NEW f \in Paths, SkipFile(p, f)
      PROVE  ServerFresh(t)'
  <2> DEFINE fresh == Fresh(rows[s.into], f, s.seen[f])
             h == IF fresh /\ s.tool = "load" THEN Put(s.held, f, rows[s.into][f].of) ELSE s.held
             next == [s EXCEPT !.todo = s.todo \ {f}, !.held = h]
  <2>1. /\ s.pc = "index" /\ f \in s.todo /\ (fresh \/ disk[f] = 0)
        /\ u = next /\ UNCHANGED disk /\ UNCHANGED rows
    BY <1>1, <1>7 DEF SkipFile
  <2>2. /\ u.pc = "index" /\ u.seen = s.seen /\ u.todo = s.todo \ {f} /\ u.held = h
        /\ u.touched = s.touched /\ u.refused = s.refused /\ u.tool = s.tool
    BY <1>0, <2>1 DEF Fields
  <2>3. s.into = Served(t)
    BY <1>4, <2>1
  <2>4. f \in DOMAIN s.seen /\ f \in Own(t)
    BY <1>3, <2>1
  <2>5. f \notin s.touched => fresh /\ s.seen[f] = disk[f] /\ disk[f] # 0
    BY <1>3, <2>1, <2>4
  <2>6. DOMAIN h \subseteq Own(t) /\ \A g \in DOMAIN h \ s.touched : disk[g] # 0 /\ h[g] = disk[g]
    <3>1. CASE ~ (fresh /\ s.tool = "load")
      BY <1>3, <2>1, <3>1
    <3>2. CASE fresh /\ s.tool = "load"
      <4>1. h = Put(s.held, f, rows[Served(t)][f].of)
        BY <2>3, <3>2
      <4>2. f \notin s.touched => rows[Served(t)][f].of = disk[f]
        BY <1>2, <2>3, <2>5, <3>2 DEF Fresh
      <4> HIDE DEF h, s
      <4> QED
        BY <1>3, <2>1, <2>4, <2>5, <4>1, <4>2 DEF Put
    <3> QED
      BY <3>1, <3>2
  <2>7. s.tool = "search" =>
          \A g \in DOMAIN s.seen \ ((s.todo \ {f}) \cup s.touched \cup s.refused) :
              Fresh(rows[Served(t)], g, disk[g])
    BY <1>3, <2>1, <2>3, <2>5
  <2> HIDE DEF s, u, next, h, fresh
  <2> QED
    BY <1>3, <1>5, <2>1, <2>2, <2>6, <2>7
<1>8. ASSUME NEW f \in Paths, ExtractTags(p, f)
      PROVE  ServerFresh(t)'
  <2> DEFINE next == [s EXCEPT !.pc = "save", !.cur = f, !.todo = s.todo \ {f},
                               !.held = Put(s.held, f, disk[f])]
  <2>1. /\ s.pc = "index" /\ f \in s.todo /\ disk[f] # 0
        /\ u = next /\ UNCHANGED disk /\ UNCHANGED rows
    BY <1>1, <1>8 DEF ExtractTags
  <2>2. /\ u.pc = "save" /\ u.seen = s.seen /\ u.todo = s.todo \ {f} /\ u.held = Put(s.held, f, disk[f])
        /\ u.touched = s.touched /\ u.refused = s.refused /\ u.tool = s.tool /\ u.cur = f
    BY <1>0, <2>1 DEF Fields
  <2>3. f \in Own(t)
    BY <1>3, <2>1
  <2> HIDE DEF s, u, next
  <2>4. DOMAIN u.held \subseteq Own(t) /\ \A g \in DOMAIN u.held \ u.touched : disk[g] # 0 /\ u.held[g] = disk[g]
    BY <1>3, <2>1, <2>2, <2>3 DEF Put
  <2>5. u.tool = "search" =>
          \A g \in DOMAIN u.seen \ (u.todo \cup u.touched \cup u.refused) :
              \/ u.pc = "save" /\ g = u.cur
              \/ Fresh(rows[Served(t)], g, disk[g])
    BY <1>3, <2>1, <2>2
  <2> QED
    BY <1>3, <1>5, <2>1, <2>2, <2>4, <2>5
<1>9. CASE SaveTags(p)
  <2> DEFINE h == IF s.tool = "load" THEN s.held ELSE NoRows
             next == [s EXCEPT !.pc = "index", !.cur = <<>>, !.held = h]
             db == Put(rows[s.into], s.cur, RowOf(s.seen[s.cur], s.cur, s.held[s.cur]))
  <2>1. /\ s.pc = "save" /\ UNCHANGED disk
        /\ \/ rows' = [rows EXCEPT ![s.into] = db] /\ u = next
           \/ UNCHANGED rows /\ u = [next EXCEPT !.refused = s.refused \cup {s.cur}]
    <3>1. next.refused = s.refused
      BY <1>0 DEF Fields
    <3> QED
      BY <1>1, <1>9, <3>1 DEF SaveTags
  <2>2. /\ u.pc = "index" /\ u.seen = s.seen /\ u.todo = s.todo /\ u.held = h
        /\ u.touched = s.touched /\ u.tool = s.tool
        /\ \/ rows' = [rows EXCEPT ![s.into] = db] /\ u.refused = s.refused
           \/ UNCHANGED rows /\ u.refused = s.refused \cup {s.cur}
    BY <1>0, <2>1 DEF Fields
  <2>3. s.into = Served(t)
    BY <1>4, <2>1
  <2>4. DOMAIN h \subseteq Own(t) /\ \A g \in DOMAIN h \ s.touched : disk[g] # 0 /\ h[g] = disk[g]
    BY <1>3, <2>1 DEF NoRows
  <2>5. \A g : g # s.cur => (Fresh(db, g, disk[g]) <=> Fresh(rows[Served(t)], g, disk[g]))
    BY <2>3 DEF Fresh, Put
  <2>6. s.cur \in DOMAIN s.seen /\ (s.cur \notin s.touched => Fresh(db, s.cur, disk[s.cur]))
    <3>1. s.cur \in DOMAIN s.seen
      BY <1>0, <2>1 DEF WorkGood
    <3>2. s.cur \notin s.touched => s.seen[s.cur] = disk[s.cur]
      BY <1>3, <2>1, <3>1
    <3>3. db[s.cur].mtime = s.seen[s.cur] /\ s.cur \in DOMAIN db
      BY DEF Put, RowOf
    <3> QED
      BY <3>1, <3>2, <3>3 DEF Fresh
  <2>7. CASE rows' = [rows EXCEPT ![s.into] = db] /\ u.refused = s.refused
    <3>1. rows'[Served(t)] = db
      BY <1>0, <2>3, <2>7
    <3> HIDE DEF db, s, u, h
    <3>2. s.tool = "search" =>
            \A g \in DOMAIN s.seen \ (s.todo \cup s.touched \cup s.refused) : Fresh(db, g, disk[g])
      BY <1>3, <2>1, <2>5, <2>6
    <3> QED
      BY <1>3, <1>5, <2>1, <2>2, <2>4, <2>7, <3>1, <3>2
  <2>8. CASE UNCHANGED rows /\ u.refused = s.refused \cup {s.cur}
    <3> HIDE DEF db, s, u, h
    <3>1. s.tool = "search" =>
            \A g \in DOMAIN s.seen \ (s.todo \cup s.touched \cup (s.refused \cup {s.cur})) :
                Fresh(rows[Served(t)], g, disk[g])
      BY <1>3, <2>1
    <3> QED
      BY <1>3, <1>5, <2>1, <2>2, <2>4, <2>8, <3>1
  <2> QED
    BY <2>2, <2>7, <2>8
<1>10. ASSUME NEW n, Set(p, n), n.pc = "idle" \/ (n.pc = "scan" /\ DOMAIN n.held = {})
       PROVE  ServerFresh(t)'
  <2>1. u = n
    BY <1>1, <1>10
  <2> QED
    BY <1>10, <2>1 DEF ServerFresh
<1>11. CASE Stop(p)
  BY <1>10, <1>11, IdleOK DEF Stop
<1>12. ASSUME NEW tool, Call(t, tool)
       PROVE  ServerFresh(t)'
  <2> DEFINE next == [Idle EXCEPT !.pc = "scan", !.tool = tool, !.into = Served(t), !.scope = InTask(t)]
  <2>1. Set(p, next)
    BY <1>12 DEF Call
  <2>2. next.pc = "scan" /\ DOMAIN next.held = {}
    BY DEF Idle, NoRows
  <2> HIDE DEF next
  <2> QED
    BY <1>10, <2>1, <2>2
<1>13. CASE SearchTags(t)
  <2> DEFINE db == rows[Served(t)]
             next(F) == [s EXCEPT !.pc = "read", !.held = [f \in F |-> db[f].of]]
  <2>1. PICK F \in SUBSET DOMAIN db : Set(p, next(F))
    BY <1>13 DEF SearchTags
  <2>2. Indexed(p) /\ s.tool = "search" /\ UNCHANGED disk
    BY <1>13 DEF SearchTags
  <2>3. u = next(F)
    BY <1>1, <2>1
  <2>4. /\ u.pc = "read" /\ u.tool = s.tool /\ u.held = [f \in F |-> db[f].of]
        /\ u.touched = s.touched /\ u.refused = s.refused
    BY <1>0, <2>3 DEF Fields
  <2>5. s.pc = "index" /\ s.todo = {}
    BY <2>2 DEF Indexed
  <2>6. ASSUME NEW f \in F, f \notin s.touched, f \notin s.refused, disk[f] # 0
        PROVE  db[f].of = disk[f]
    <3>1. f \in DOMAIN db /\ f \in Own(t)
      BY <1>2, <2>1, <2>6
    <3>2. f \in DOMAIN s.seen
      BY <1>3, <2>5, <2>6, <3>1
    <3>3. Fresh(db, f, disk[f])
      BY <1>3, <2>2, <2>5, <2>6, <3>2
    <3> QED
      BY <1>2, <3>1, <3>3 DEF Fresh
  <2>7. F \subseteq Own(t)
    BY <1>2, <2>1
  <2> HIDE DEF s, u, db, next
  <2>8. /\ u.tool = "search" /\ DOMAIN u.held \subseteq Own(t)
        /\ \A f \in DOMAIN u.held \ (u.touched \cup u.refused) : disk'[f] = 0 \/ u.held[f] = disk'[f]
    BY <2>2, <2>4, <2>6, <2>7
  <2> QED
    BY <2>4, <2>8 DEF ServerFresh, FoundFresh, u
<1>14. CASE Answer(t)
  <2> DEFINE next(a) == [s EXCEPT !.pc = "answered", !.answer = a]
  <2>1. /\ UNCHANGED disk
        /\ \/ s.pc = "read" /\ u = next(Snippets(s.held))
           \/ Indexed(p) /\ s.tool = "load" /\ u = next(s.held)
           \/ Set(p, Idle)
    BY <1>1, <1>14 DEF Answer
  <2>2. ASSUME NEW a, u = next(a)
        PROVE  /\ u.pc = "answered" /\ u.answer = a /\ u.tool = s.tool
               /\ u.touched = s.touched /\ u.refused = s.refused
    BY <1>0, <2>2 DEF Fields
  <2>3. ASSUME u.pc = "answered",
               /\ DOMAIN u.answer \subseteq Own(t)
               /\ \A f \in DOMAIN u.answer \ u.touched :
                     (u.tool = "load" \/ f \notin u.refused) => disk'[f] # 0 /\ u.answer[f] = disk'[f]
        PROVE  ServerFresh(t)'
    BY <2>3 DEF ServerFresh, AnswerFresh
  <2> HIDE DEF next
  <2>4. CASE s.pc = "read" /\ u = next(Snippets(s.held))
    <3>1. /\ s.tool = "search" /\ DOMAIN s.held \subseteq Own(t)
          /\ \A f \in DOMAIN s.held \ (s.touched \cup s.refused) : disk[f] = 0 \/ s.held[f] = disk[f]
      BY <2>4 DEF ServerFresh, FoundFresh
    <3> DEFINE a == Snippets(s.held)
    <3>2. \A f \in DOMAIN a : f \in DOMAIN s.held /\ disk[f] # 0 /\ a[f] = s.held[f]
      BY DEF Snippets
    <3>3. /\ u.pc = "answered" /\ u.answer = a /\ u.tool = s.tool
          /\ u.touched = s.touched /\ u.refused = s.refused
      BY <2>2, <2>4
    <3> HIDE DEF a, s, u
    <3> QED
      BY <2>1, <2>3, <3>1, <3>2, <3>3
  <2>5. CASE Indexed(p) /\ s.tool = "load" /\ u = next(s.held)
    <3>1. /\ DOMAIN s.held \subseteq Own(t)
          /\ \A f \in DOMAIN s.held \ s.touched : disk[f] # 0 /\ s.held[f] = disk[f]
      BY <1>3, <2>5 DEF Indexed
    <3>2. u.pc = "answered" /\ u.answer = s.held /\ u.touched = s.touched
      BY <2>2, <2>5
    <3> HIDE DEF s, u
    <3> QED
      BY <2>1, <2>3, <3>1, <3>2
  <2> QED
    BY <1>10, <2>1, <2>4, <2>5, IdleOK
<1> QED
  BY <1>6, <1>7, <1>8, <1>9, <1>11, <1>12, <1>13, <1>14 DEF ServerStep, IndexSteps

\* The index of a server stays about its own files, through commits and restores too.
LEMMA OwnRowsStep ==
    ASSUME CacheInv, [CacheNext]_cacheVars, NEW t \in Tasks, OwnRows(t), ServerFresh(t)
    PROVE  OwnRows(t)'
<1>0. /\ ProcTypes /\ <<"server", t>> \in Procs /\ <<"server", t>> \in Servers
      /\ RootOf(<<"server", t>>) = t
      /\ Served(t) \in Databases /\ Committed(t) \in Databases /\ DOMAIN rows = Databases
      /\ Served(t) # Committed(t)
  BY ProcNames, DatabaseNames DEF CacheInv, CacheTypeOK, RowsGood
<1>1. ASSUME SaveTags(<<"server", t>>)
      PROVE  DOMAIN rows'[Served(t)] \subseteq Own(t)
  <2> DEFINE s == procs[<<"server", t>>]
             db == Put(rows[s.into], s.cur, RowOf(s.seen[s.cur], s.cur, s.held[s.cur]))
  <2>1. s.pc = "save" /\ (UNCHANGED rows \/ rows' = [rows EXCEPT ![s.into] = db])
    BY <1>1 DEF SaveTags
  <2>2. s.into = Served(t)
    BY <1>0, <2>1 DEF ProcTypes, ProcOK, ServerOK
  <2>3. s.cur \in Own(t)
    <3>1. s.cur \in DOMAIN s.seen
      BY <1>0, <2>1 DEF CacheInv, WorkGood
    <3> QED
      BY <2>1, <3>1 DEF ServerFresh, IndexFresh
  <2>4. DOMAIN db \subseteq Own(t)
    BY <2>2, <2>3 DEF Put, OwnRows
  <2> HIDE DEF db, s
  <2> QED
    BY <1>0, <2>1, <2>2, <2>4 DEF OwnRows
<1>2. ASSUME RestoreCheckout(t)
      PROVE  DOMAIN rows'[Served(t)] \subseteq Own(t)
  BY <1>0, <1>2 DEF RestoreCheckout, OwnRows
<1>3. ASSUME CheckpointCheckout(t)
      PROVE  DOMAIN rows'[Committed(t)] \subseteq Own(t)
  BY <1>0, <1>3 DEF CheckpointCheckout, OwnRows
<1> QED
  BY <1>1, <1>2, <1>3, ServedRows DEF OwnRows

\* For any number of tasks and edits, an answer about a file that nobody touched during the
\* request is about the file as it is, unless a save of its tags was refused to a search.
THEOREM AnswersAreFresh == CacheSpec => []AnswersFresh
<1> DEFINE ServersFresh == \A t \in Tasks : OwnRows(t) /\ ServerFresh(t)
<1>1. CacheInit => ServersFresh
  <2> SUFFICES ASSUME CacheInit, NEW t \in Tasks PROVE OwnRows(t) /\ ServerFresh(t)
    OBVIOUS
  <2>1. OwnRows(t)
    BY DatabaseNames DEF CacheInit, OwnRows, NoRows
  <2>2. procs[<<"server", t>>] = Idle
    BY ProcNames DEF CacheInit
  <2> QED
    BY <2>1, <2>2, IdleOK DEF ServerFresh
<1>2. CacheInv /\ ServersFresh /\ [CacheNext]_cacheVars => ServersFresh'
  <2> SUFFICES ASSUME CacheInv, ServersFresh, [CacheNext]_cacheVars, NEW t \in Tasks
               PROVE  OwnRows(t)' /\ ServerFresh(t)'
    OBVIOUS
  <2>1. OwnRows(t) /\ ServerFresh(t)
    OBVIOUS
  <2>2. OwnRows(t)'
    BY <2>1, OwnRowsStep
  <2>3. ServerFresh(t)'
    BY <2>1, RequestKeeps, QuietKeeps, QuietStep
  <2> QED
    BY <2>2, <2>3
<1>3. ServersFresh => AnswersFresh
  <2> SUFFICES ASSUME ServersFresh, NEW p \in Servers, procs[p].pc = "answered",
                      NEW f \in DOMAIN procs[p].answer \ procs[p].touched,
                      procs[p].tool = "load" \/ f \notin procs[p].refused
               PROVE  disk[f] # 0 /\ procs[p].answer[f] = disk[f]
    BY DEF AnswersFresh
  <2>1. RootOf(p) \in Tasks /\ p = <<"server", RootOf(p)>>
    BY ProcNames
  <2>2. ServerFresh(RootOf(p))
    BY <2>1
  <2> QED
    BY <2>1, <2>2 DEF ServerFresh, AnswerFresh
<1> HIDE DEF ServersFresh
<1> QED
  BY <1>1, <1>2, <1>3, CacheInvariant, PTL DEF CacheSpec

===============================================================================
