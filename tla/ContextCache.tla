------------------------------ MODULE ContextCache ------------------------------
(***************************************************************************)
(* The index of the symbols of a workspace and the caches it is filled from. *)
(*                                                                           *)
(* An index is a database with one row for every file: the modification time *)
(* the file had when the directory was scanned and the tags of what the      *)
(* parser read a little later, while agents edit the files.  Three kinds of  *)
(* process fill one: the worker that re-indexes the restored workspace of a  *)
(* task, the prewarmer that indexes a fresh clone of each repository, and    *)
(* the context server beside the agent of a task, before each answer.        *)
(* Workers and the prewarmer also build the shared caches, one file for a    *)
(* repository and commit, through a temporary file whose name they share,    *)
(* and copy them into the index of a workspace.                              *)
(*                                                                           *)
(* Each repository has one file in each directory.  A stamp stands for both  *)
(* the modification time of a file and its content: every write gets a new   *)
(* one.  Scores, ranks and texts of the answers are left out: a search may   *)
(* pick any rows.                                                            *)
(***************************************************************************)
EXTENDS Naturals, FiniteSets, Sequences

CONSTANTS
    Tasks,        \* tasks, each with a workspace, a worker and a context server
    ReposOf,      \* the repositories of each task, in the order of metadata.json
    Commits,      \* their commits
    MaxStamp,     \* bound: writes of files
    SearchLimit,  \* rows a search returns at most (10)
    MaxBuilds,    \* bound: workspaces and clones indexed
    MaxCacheFaults \* bound: refused saves and crashes

ASSUME ContextCacheAssumption ==
    /\ DOMAIN ReposOf = Tasks /\ {MaxStamp, MaxBuilds, MaxCacheFaults, SearchLimit} \subseteq Nat
    /\ \A t \in Tasks : ReposOf[t] \in Seq({ReposOf[t][i] : i \in DOMAIN ReposOf[t]})
    /\ "clone" \notin Tasks

InTask(t) == {ReposOf[t][i] : i \in DOMAIN ReposOf[t]}
RepoSet == UNION {InTask(t) : t \in Tasks}
Roots == Tasks \cup {"clone"}                         \* workspaces, and the clone of the prewarmer
Paths == Roots \X RepoSet                             \* the file of a repository in a directory
CacheNames == [repo : RepoSet, commit : Commits]
Servers == {<<"server", t>> : t \in Tasks}
Workers == {<<"worker", t>> : t \in Tasks}
Prewarmer == <<"worker", "clone">>
Procs == Servers \cup Workers \cup {Prewarmer}
RootOf(p) == p[2]

(***************************************************************************)
(* Databases: the index of a directory, the index of a context server, its   *)
(* copy in the checkpoint of the task, and the files made for shared caches. *)
(***************************************************************************)
Local(root) == [kind |-> "local", of |-> root]
Served(t) == [kind |-> "server", of |-> t]
Committed(t) == [kind |-> "git", of |-> t]
Inode(p, name) == [kind |-> "cache", of |-> p, name |-> name]
Databases ==
    {Local(r) : r \in Roots} \cup {Served(t) : t \in Tasks} \cup {Committed(t) : t \in Tasks}
    \cup {Inode(p, n) : p \in Workers \cup {Prewarmer}, n \in CacheNames}

NoRows == [p \in {} |-> 0]
Merge(f, g) == [p \in DOMAIN f \cup DOMAIN g |-> IF p \in DOMAIN f THEN f[p] ELSE g[p]]

VARIABLES
    disk,      \* the stamp of the file at each path, 0: none
    stamp,     \* last stamp given
    head,      \* the commit each workspace has checked out of each repository
    rows,      \* the rows of each database
    published, \* shared caches: the file under each name
    tmp,       \* the file under the temporary name of a cache
    procs,     \* what each process does
    builds,    \* workspaces and clones indexed so far
    cacheFaults

cacheVars == <<disk, stamp, head, rows, published, tmp, procs, builds, cacheFaults>>

Idle == [pc |-> "idle", into |-> Local("clone"), scope |-> {}, seen |-> NoRows, todo |-> {}, queue |-> <<>>,
         copied |-> FALSE, name |-> [repo |-> "", commit |-> ""], tool |-> "", cur |-> <<>>, held |-> NoRows,
         touched |-> {}, refused |-> {}, answer |-> NoRows]

CacheInit ==
    /\ stamp \in {1, 2}     \* a later write may be of a file that is gone
    /\ disk = [p \in Paths |-> IF p[1] # "clone" /\ p[2] \in InTask(p[1]) THEN 1 ELSE 0]
    /\ \E h \in [Tasks -> Commits] : head = [t \in Tasks |-> [r \in RepoSet |-> h[t]]]
    /\ rows = [d \in Databases |-> NoRows]
    /\ published = NoRows /\ tmp = NoRows
    /\ procs = [p \in Procs |-> Idle] /\ builds = 0 /\ cacheFaults = 0

Put(f, k, v) == [x \in DOMAIN f \cup {k} |-> IF x = k THEN v ELSE f[x]]
Drop(f, K) == [x \in DOMAIN f \ K |-> f[x]]
Set(p, s) == procs' = [procs EXCEPT ![p] = s]
CacheFault == cacheFaults < MaxCacheFaults /\ cacheFaults' = cacheFaults + 1
NoCacheFault == UNCHANGED cacheFaults

--------------------------------------------------------------------------------
\* The agents and their checkouts

\* Every server remembers, for the properties, which files changed during its request.
Touch(P) ==
    procs' = [q \in Procs |-> IF q \in Servers /\ procs[q].pc # "idle"
                             THEN [procs[q] EXCEPT !.touched = @ \cup P] ELSE procs[q]]

\* A file is written with a new stamp, or deleted.
Edit(t, r) ==
    /\ stamp < MaxStamp /\ stamp' = stamp + 1
    /\ \E s \in {0, stamp + 1} : disk' = [disk EXCEPT ![<<t, r>>] = s]
    /\ Touch({<<t, r>>})
    /\ UNCHANGED <<head, rows, published, tmp, builds, cacheFaults>>

\* CreateGitCheckpoint: the database of the context server is a file of the checkout.
CheckpointCheckout(t) ==
    /\ procs[<<"server", t>>].pc = "idle"
    /\ \E r \in InTask(t), c \in Commits : head' = [head EXCEPT ![t][r] = c]
    /\ rows' = [rows EXCEPT ![Committed(t)] = rows[Served(t)]]
    /\ UNCHANGED <<disk, stamp, published, tmp, procs, builds, cacheFaults>>

\* RestoreGitCheckpoint: it comes back as it was committed, the files that differ are
\* written anew.
RestoreCheckout(t) ==
    /\ procs[<<"server", t>>].pc = "idle" /\ procs[<<"worker", t>>].pc = "idle"
    /\ stamp < MaxStamp /\ stamp' = stamp + 1
    /\ rows' = [rows EXCEPT ![Served(t)] = rows[Committed(t)]]
    /\ \E R \in SUBSET InTask(t) :
         /\ disk' = [p \in Paths |-> IF p[1] = t /\ p[2] \in R THEN stamp + 1 ELSE disk[p]]
         /\ Touch({<<t, r>> : r \in R})
    /\ UNCHANGED <<head, published, tmp, builds, cacheFaults>>

--------------------------------------------------------------------------------
\* Indexing a directory: the loop of IndexWorkspace, IndexAll, loadCachedTags and buildGlobalCache

\* A row that is there is taken for fresh.
AnyRow(db, path, mtime) == path \in DOMAIN db
\* GetTagsIfFresh
Fresh(db, path, mtime) == path \in DOMAIN db /\ db[path].mtime = mtime

\* The time is read again when the row is saved.
RowOfNow(mtime, path, read) == [mtime |-> disk[path], of |-> read]
\* SaveTags: the time is the one of the scan.
RowOf(mtime, path, read) == [mtime |-> mtime, of |-> read]

\* ScanRepository: the files that are there and their times.
ScanRepository(p) ==
    LET here == {<<RootOf(p), r>> : r \in procs[p].scope}
        found == {f \in here : disk[f] # 0}
    IN  /\ procs[p].pc = "scan"
        /\ Set(p, [procs[p] EXCEPT !.pc = "index", !.seen = [f \in found |-> disk[f]], !.todo = found])
        /\ UNCHANGED <<disk, stamp, head, rows, published, tmp, builds, cacheFaults>>

\* A row that is fresh is not parsed again; a file that is gone cannot be parsed.
\* loadCachedTags keeps the tags in hand for its caller.
SkipFile(p, f) ==
    LET s == procs[p]
        fresh == Fresh(rows[s.into], f, s.seen[f])
    IN  /\ s.pc = "index" /\ f \in s.todo
        /\ fresh \/ disk[f] = 0
        /\ Set(p, [s EXCEPT !.todo = @ \ {f},
                            !.held = IF fresh /\ s.tool = "load" THEN Put(@, f, rows[s.into][f].of) ELSE @])
        /\ UNCHANGED <<disk, stamp, head, rows, published, tmp, builds, cacheFaults>>

\* ExtractTags reads the file as it is now.
ExtractTags(p, f) ==
    LET s == procs[p]
    IN  /\ s.pc = "index" /\ f \in s.todo
        /\ ~Fresh(rows[s.into], f, s.seen[f]) /\ disk[f] # 0
        /\ Set(p, [s EXCEPT !.pc = "save", !.cur = f, !.todo = @ \ {f}, !.held = Put(@, f, disk[f])])
        /\ UNCHANGED <<disk, stamp, head, rows, published, tmp, builds, cacheFaults>>

\* SaveTags, whose error is ignored.
SaveTags(p) ==
    LET s == procs[p]
        next == [s EXCEPT !.pc = "index", !.cur = <<>>,
                          !.held = IF s.tool = "load" THEN @ ELSE NoRows]
    IN  /\ s.pc = "save"
        /\ \/ /\ rows' = [rows EXCEPT ![s.into] = Put(@, s.cur, RowOf(s.seen[s.cur], s.cur, s.held[s.cur]))]
              /\ Set(p, next) /\ NoCacheFault
           \/ Set(p, [next EXCEPT !.refused = @ \cup {s.cur}]) /\ CacheFault /\ UNCHANGED rows
        /\ UNCHANGED <<disk, stamp, head, published, tmp, builds>>

Indexed(p) == procs[p].pc = "index" /\ procs[p].todo = {}

--------------------------------------------------------------------------------
\* Shared caches

\* The caches of a repository other than the one just published are deleted, the
\* temporary files of other commits too.
DropOthers(f, name) == [n \in {m \in DOMAIN f : m.repo # name.repo \/ m = name} |-> f[n]]

\* os.Rename of the temporary file, whoever made it, to the name of the cache.
Publish(name) ==
    /\ name \in DOMAIN tmp
    /\ published' = Put(DropOthers(published, name), name, tmp[name])
    /\ tmp' = Drop(DropOthers(tmp, name), {name})

\* The worker restored the checkouts of a task: it deletes the index of the workspace and
\* indexes it again, from the caches of its repositories.
Reindex(t) ==
    LET p == <<"worker", t>>
    IN  /\ procs[p].pc = "idle"
        /\ builds < MaxBuilds /\ builds' = builds + 1
        /\ rows' = [rows EXCEPT ![Local(t)] = NoRows]
        /\ Set(p, [Idle EXCEPT !.pc = "repo", !.queue = ReposOf[t]])
        /\ UNCHANGED <<disk, stamp, head, published, tmp, cacheFaults>>

\* initLocalCacheFromGlobal, the next repository: its cache is copied, or built first.
FromGlobal(t) ==
    LET p == <<"worker", t>>
        s == procs[p]
        repo == Head(s.queue)
        name == [repo |-> repo, commit |-> head[t][repo]]
    IN  /\ s.pc = "repo" /\ s.queue # <<>>
        /\ \/ /\ name \in DOMAIN published
              /\ Set(p, [s EXCEPT !.pc = "copy", !.name = name]) /\ UNCHANGED <<rows, tmp>>
           \/ /\ name \notin DOMAIN published
              /\ tmp' = Put(tmp, name, Inode(p, name))
              /\ rows' = [rows EXCEPT ![Inode(p, name)] = NoRows]
              /\ Set(p, [s EXCEPT !.pc = "scan", !.name = name, !.into = Inode(p, name), !.scope = {repo}])
        /\ UNCHANGED <<disk, stamp, head, published, builds, cacheFaults>>

\* The end of buildGlobalCache: the rename, which fails when the temporary file is gone,
\* and the removal of the temporary name.
BuildGlobalCache(t) ==
    LET p == <<"worker", t>>
        s == procs[p]
    IN  /\ Indexed(p) /\ s.into.kind = "cache"
        /\ Set(p, [s EXCEPT !.pc = "copy"])
        /\ Publish(s.name) \/ (s.name \notin DOMAIN tmp /\ UNCHANGED <<published, tmp>>)
        /\ UNCHANGED <<disk, stamp, head, rows, builds, cacheFaults>>

\* The first cache is copied over the index, the next ones are merged into it; a file
\* some process is writing may be copied without its rows.
CopyGlobal(t) ==
    LET p == <<"worker", t>>
        s == procs[p]
    IN  /\ s.pc = "copy"
        /\ IF s.name \in DOMAIN published
           THEN LET file == published[s.name]
                    writing == \E q \in Procs : procs[q].pc = "save" /\ procs[q].into = file
                IN  /\ \E content \in {rows[file]} \cup (IF writing THEN {NoRows} ELSE {}) :
                         rows' = [rows EXCEPT ![Local(t)] = IF s.copied THEN Merge(@, content) ELSE content]
                    /\ Set(p, [s EXCEPT !.pc = "repo", !.queue = Tail(@), !.copied = TRUE])
           ELSE Set(p, [s EXCEPT !.pc = "repo", !.queue = Tail(@)]) /\ UNCHANGED rows
        /\ UNCHANGED <<disk, stamp, head, published, tmp, builds, cacheFaults>>

\* IndexWorkspace goes on with the whole workspace, and ends.
IndexWorkspace(t) ==
    LET p == <<"worker", t>>
        s == procs[p]
    IN  /\ \/ /\ s.pc = "repo" /\ s.queue = <<>>
              /\ Set(p, [s EXCEPT !.pc = "scan", !.into = Local(t), !.scope = InTask(t)])
           \/ Indexed(p) /\ s.into = Local(t) /\ Set(p, Idle)
        /\ UNCHANGED <<disk, stamp, head, rows, published, tmp, builds, cacheFaults>>

\* prewarmAllCaches, one repository: a fresh clone of the commit its remote has, indexed
\* unless its cache is there.
PrewarmClone(r, c) ==
    LET name == [repo |-> r, commit |-> c]
    IN  /\ procs[Prewarmer].pc = "idle" /\ stamp < MaxStamp
        /\ name \notin DOMAIN published
        /\ stamp' = stamp + 1 /\ disk' = [disk EXCEPT ![<<"clone", r>>] = stamp + 1]
        /\ Set(Prewarmer, [Idle EXCEPT !.pc = "scan", !.name = name, !.into = Local("clone"), !.scope = {r}])
        /\ builds < MaxBuilds /\ builds' = builds + 1
        /\ rows' = [rows EXCEPT ![Local("clone")] = NoRows]
        /\ UNCHANGED <<head, published, tmp, cacheFaults>>

\* The index is copied to the temporary file: os.Create writes over the file that is there.
PrewarmCopy ==
    LET s == procs[Prewarmer]
        file == IF s.name \in DOMAIN tmp THEN tmp[s.name] ELSE Inode(Prewarmer, s.name)
    IN  /\ Indexed(Prewarmer)
        /\ tmp' = Put(tmp, s.name, file)
        /\ rows' = [rows EXCEPT ![file] = rows[Local("clone")]]
        /\ Set(Prewarmer, [s EXCEPT !.pc = "rename"])
        /\ UNCHANGED <<disk, stamp, head, published, builds, cacheFaults>>

\* It is renamed, and the clone is removed with its index.
PrewarmPublish ==
    LET s == procs[Prewarmer]
    IN  /\ s.pc = "rename"
        /\ Publish(s.name) \/ (s.name \notin DOMAIN tmp /\ UNCHANGED <<published, tmp>>)
        /\ disk' = [p \in Paths |-> IF p[1] = "clone" THEN 0 ELSE disk[p]]
        /\ rows' = [rows EXCEPT ![Local("clone")] = NoRows]
        /\ Set(Prewarmer, Idle)
        /\ UNCHANGED <<stamp, head, builds, cacheFaults>>

\* runGarbageCollection: of the caches of a repository the newest stays, a file in the
\* making counting as one, and so do those a workspace refers to and those of the last
\* week, which may be any.
GarbageCollect ==
    LET referenced == {[repo |-> r, commit |-> head[t][r]] : t \in Tasks, r \in RepoSet}
        newest(n) == n.repo \notin {m.repo : m \in DOMAIN tmp}
    IN  /\ \E dead \in SUBSET {n \in DOMAIN published : n \notin referenced /\ ~newest(n)} :
             dead # {} /\ published' = Drop(published, dead)
        /\ UNCHANGED <<disk, stamp, head, rows, tmp, procs, builds, cacheFaults>>

--------------------------------------------------------------------------------
\* The context server of a task: one request at a time

\* tools/call of repo.search or ast.query, which index first and then search, and of
\* architecture.query or dependency.impact, which load the tags of every file.
Call(t, tool) ==
    LET p == <<"server", t>>
    IN  /\ procs[p].pc = "idle"
        /\ Set(p, [Idle EXCEPT !.pc = "scan", !.tool = tool, !.into = Served(t), !.scope = InTask(t)])
        /\ UNCHANGED <<disk, stamp, head, rows, published, tmp, builds, cacheFaults>>

\* SearchTags or FindExactSymbol: the best rows of all of the database, at most the limit.
SearchTags(t) ==
    LET p == <<"server", t>>
        db == rows[Served(t)]
    IN  /\ Indexed(p) /\ procs[p].tool = "search"
        /\ \E F \in SUBSET DOMAIN db :
             /\ Cardinality(F) <= SearchLimit
             /\ Set(p, [procs[p] EXCEPT !.pc = "read", !.held = [f \in F |-> db[f].of]])
        /\ UNCHANGED <<disk, stamp, head, rows, published, tmp, builds, cacheFaults>>

\* snippetsFromScoredTags: a file that cannot be read is left out.
Snippets(held) == [f \in {g \in DOMAIN held : disk[g] # 0} |-> held[f]]

Answer(t) ==
    LET p == <<"server", t>>
        s == procs[p]
    IN  /\ \/ s.pc = "read" /\ Set(p, [s EXCEPT !.pc = "answered", !.answer = Snippets(s.held)])
           \/ Indexed(p) /\ s.tool = "load" /\ Set(p, [s EXCEPT !.pc = "answered", !.answer = s.held])
           \/ s.pc = "answered" /\ Set(p, Idle)
        /\ UNCHANGED <<disk, stamp, head, rows, published, tmp, builds, cacheFaults>>

--------------------------------------------------------------------------------
\* A process is killed; what it wrote stays.
Stop(p) ==
    /\ procs[p].pc # "idle" /\ CacheFault /\ Set(p, Idle)
    /\ UNCHANGED <<disk, stamp, head, rows, published, tmp, builds>>

IndexSteps(p) ==
    \/ ScanRepository(p)
    \/ \E f \in Paths : SkipFile(p, f) \/ ExtractTags(p, f)
    \/ SaveTags(p)

CachesNext ==
    \/ \E t \in Tasks : Reindex(t) \/ FromGlobal(t) \/ BuildGlobalCache(t) \/ CopyGlobal(t) \/ IndexWorkspace(t)
    \/ \E r \in RepoSet, c \in Commits : PrewarmClone(r, c)
    \/ PrewarmCopy \/ PrewarmPublish
    \/ GarbageCollect
    \/ \E p \in Workers \cup {Prewarmer} : IndexSteps(p) \/ Stop(p)
    \/ \E t \in Tasks : \E r \in InTask(t) : Edit(t, r)

ServerNext(t) ==
    \/ \E tool \in {"search", "load"} : Call(t, tool)
    \/ SearchTags(t) \/ Answer(t) \/ CheckpointCheckout(t) \/ RestoreCheckout(t)
    \/ IndexSteps(<<"server", t>>) \/ Stop(<<"server", t>>)
    \/ \E r \in InTask(t) : Edit(t, r)

CacheNext == CachesNext \/ \E t \in Tasks : ServerNext(t)
CacheSpec == CacheInit /\ [][CacheNext]_cacheVars

--------------------------------------------------------------------------------
(***************************************************************************)
(* CachesHonest: a row that passes for fresh is the tags of the file as it   *)
(* is, in every database: whatever was copied, merged or brought back, and   *)
(* however an edit falls between the scan of a directory and the reading of  *)
(* a file, no index keeps old tags under the time of the new content         *)
(* (cache.go:46, provider.go:427).                                           *)
(***************************************************************************)
CachesHonest ==
    \A d \in Databases : \A f \in DOMAIN rows[d] :
        rows[d][f].mtime = disk[f] => rows[d][f].of = disk[f]

(***************************************************************************)
(* AnswersFresh: an answer of the context server about a file that was not   *)
(* edited during the request is about its present content and the file is    *)
(* there; the one exception is a search after a save that was refused        *)
(* (handlers.go:156-158 "a modified file is re-parsed either way").          *)
(***************************************************************************)
AnswersFresh ==
    \A p \in Servers : LET s == procs[p] IN
        s.pc = "answered" =>
            \A f \in DOMAIN s.answer \ s.touched :
                (s.tool = "load" \/ f \notin s.refused) => disk[f] # 0 /\ s.answer[f] = disk[f]
================================================================================
