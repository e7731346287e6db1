-------------------------------- MODULE Patches --------------------------------
(***************************************************************************)
(* How a patch written by an agent reaches the files of a workspace.         *)
(*                                                                            *)
(* ApplyPatch splits a unified diff by repository, checks every file against  *)
(* the task's execution boundaries and then patches the repositories one by   *)
(* one with git apply and, when that refuses, GNU patch; a repository that    *)
(* fails is reverted.  The caller may call it again with the same patch.      *)
(* A hunk is "old" where its context stands in the file, "new" where its      *)
(* result does, "alien" where neither does.                                   *)
(*                                                                            *)
(* Two pure parts are run on inputs a step picks: the attribution of paths to *)
(* repositories, and search/replace blocks with their tiers of fuzzy matching.*)
(***************************************************************************)
EXTENDS Integers, FiniteSets, Sequences

CONSTANTS
    PatchRepos,      \* repositories the patch touches
    Files,           \* per repository: file -> [path, kind, critical, new, hunks]
    Analyses,        \* analyses: sequence of boundaries and set of affected paths
    MaxAttempts,     \* bound: calls of ApplyPatch
    MaxFixes,        \* bound: hunks the agent makes fit between two calls
    Contents,        \* file contents tried for search/replace: sequences of lines
    Searches,        \* search blocks tried
    RelPaths         \* repository-relative paths tried

ASSUME PatchAssumption ==
    /\ IsFiniteSet(PatchRepos) /\ {MaxAttempts, MaxFixes} \subseteq Nat
    /\ \A r \in PatchRepos : \A f \in DOMAIN Files[r] : Files[r][f].hunks \in Nat \ {0}

\* A line that is not blank: its indentation, the character of it, its text and whether
\* white space follows.
Line == [ind : Nat, chr : {" ", "tab"}, body : STRING \ {""}, trail : BOOLEAN]

\* nl: the last line ends with a newline.
ASSUME EditAssumption ==
    /\ Contents \subseteq [lines : Seq(Line), nl : BOOLEAN]
    /\ Searches \subseteq Seq(Line) \ {<<>>}

VARIABLES
    hunk,     \* per repository and file: the state of each of its hunks
    call,     \* the call under way: pc, analysis, restore, repositories left, result
    calls,    \* calls so far, hunks made to fit so far, files the task's boundaries were expanded by
    without,  \* history: the files as they would be without the patch
    probe     \* the last input of a pure part and what came out

patchVars == <<hunk, call, calls, without, probe>>

--------------------------------------------------------------------------------
\* Paths: sequences of segments, without the leading "/" and cleaned.

IsPrefixOf(p, s) == Len(p) <= Len(s) /\ SubSeq(s, 1, Len(p)) = p
IsSuffixOf(p, s) == Len(p) <= Len(s) /\ SubSeq(s, Len(s) - Len(p) + 1, Len(s)) = p
Rest(s, n) == SubSeq(s, n + 1, Len(s))
StripPrefix(p, prefix) == IF IsPrefixOf(prefix, p) THEN Rest(p, Len(prefix)) ELSE p

ReposDirName == <<"code", "repos">>

\* The directory of the main checkout; "main" is stripped as well when it is another.
MainBranchDirFor(repo) == IF repo.main # "" THEN repo.main
                          ELSE IF repo.defaultBranch # "" THEN repo.defaultBranch ELSE "main"

\* Mutant: only the worktree of the role at work is known.
StripOwnPrefix(rem, repo, role) ==
    IF role # "" /\ IsPrefixOf(<<"worktrees", role>>, rem) THEN Rest(rem, 2)
    ELSE IF IsPrefixOf(<<MainBranchDirFor(repo)>>, rem) THEN Rest(rem, 1)
    ELSE StripPrefix(rem, <<"main">>)

StripWorktreeAndBranchPrefix(rem, repo, role) ==
    IF \/ role # "" /\ IsPrefixOf(<<"worktrees", role>>, rem)
       \/ IsPrefixOf(<<"worktrees">>, rem) /\ Len(rem) >= 3
    THEN Rest(rem, 2)
    ELSE IF IsPrefixOf(<<MainBranchDirFor(repo)>>, rem) THEN Rest(rem, 1)
    ELSE StripPrefix(rem, <<"main">>)

StripDiffPrefix(p) == IF Len(p) > 1 /\ p[1] \in {"a", "b"} THEN Rest(p, 1) ELSE p

\* Repository and relative path of a path in a diff.  ws is the sequence of the
\* workspace's repositories; the only one takes every path that names none.
NormalizePatchPath(p, ws, role) ==
    LET q == StripPrefix(StripDiffPrefix(p), ReposDirName)
        named == {i \in DOMAIN ws : IsPrefixOf(<<ws[i].name>>, q)}
        first == CHOOSE i \in named : \A j \in named : i <= j
    IN  CASE named # {} -> <<ws[first].name, StripWorktreeAndBranchPrefix(Rest(q, 1), ws[first], role)>>
          [] named = {} /\ Len(ws) = 1 ->
               <<ws[1].name, StripWorktreeAndBranchPrefix(StripPrefix(q, <<role>>), ws[1], role)>>
          [] Len(ws) = 0 /\ Len(q) > 1 -> <<q[1], Rest(q, 1)>>
          [] OTHER -> <<"", q>>

\* The same for a repository known from its "--- Repository:" line.
RepoRelPathForKnownRepo(p, name, ws, role) ==
    LET q == StripPrefix(StripPrefix(StripDiffPrefix(p), ReposDirName), <<name>>)
        known == {i \in DOMAIN ws : ws[i].name = name}
        repo == IF known = {} THEN [name |-> name, main |-> "", defaultBranch |-> ""]
                ELSE ws[CHOOSE i \in known : \A j \in known : i <= j]
    IN  StripWorktreeAndBranchPrefix(q, repo, role)

\* The path the block carries afterwards: what stands before rel is cut off.
CleanPatchBlock(p, name, rel) == IF IsSuffixOf(rel, p) THEN rel ELSE StripPrefix(p, <<name>>)

\* SplitPatchByRepoWithWorkspace: a header wins over the path.
SplitPatchByRepo(p, header, ws, role) ==
    LET split == IF header # "" THEN <<header, RepoRelPathForKnownRepo(p, header, ws, role)>>
                 ELSE NormalizePatchPath(p, ws, role)
    IN  IF split[1] = "" THEN <<"", p>> ELSE <<split[1], CleanPatchBlock(p, split[1], split[2])>>

--------------------------------------------------------------------------------
\* The policy.  A boundary is [root, repo, caps], a file's path starts with its repository.

\* Some of the critical patterns are anchored at the start of the path, where the
\* name of the repository stands.
IsCritical(f) == f.critical = "named"

InBoundary(b, f) ==
    \/ IsPrefixOf(b.root, f.path)
    \/ b.repo # "" /\ IsPrefixOf(<<b.repo>> \o b.root, f.path)

PreApproved(an, f) == \E a \in an.affected : IsSuffixOf(a, f.path) \/ IsSuffixOf(f.path, a)

HasInfraCap(an, f) ==
    \E i \in DOMAIN an.boundaries : LET b == an.boundaries[i] IN
        /\ InBoundary(b, f)
        /\ \/ PreApproved(an, f)
           \/ b.caps \cap {"modify_infrastructure", "modify_sensitive"} # {}
           \/ b.root # <<>> /\ b.caps \cap {"modify_existing", "create_helper"} # {}

RequiredCap(f) ==
    CASE f.kind = "test"   -> "create_test"
      [] f.kind = "mock"   -> "generate_mock"
      [] f.kind = "export" -> "modify_exports"
      [] OTHER             -> IF f.new THEN "create_helper" ELSE "modify_existing"

DependencyPolicy(f, an) ==
    IF PreApproved(an, f) \/ \E i \in DOMAIN an.boundaries : "add_dependency" \in an.boundaries[i].caps
    THEN "info" ELSE "warning"

\* The first boundary that holds the file decides.
BoundaryPolicy(f, an) ==
    LET matched == {i \in DOMAIN an.boundaries : InBoundary(an.boundaries[i], f)}
        first == an.boundaries[CHOOSE i \in matched : \A j \in matched : i <= j]
    IN  IF matched = {} THEN IF PreApproved(an, f) THEN "warning" ELSE "error"
        ELSE IF RequiredCap(f) \in first.caps \cup {"create_test", "create_helper", "generate_mock"}
        THEN "info" ELSE "warning"

EvaluatePolicy(f, an) ==
    IF IsCritical(f) /\ ~HasInfraCap(an, f) THEN "critical"
    ELSE IF f.kind = "config" THEN DependencyPolicy(f, an)
    ELSE BoundaryPolicy(f, an)

\* Without boundaries the directories of the affected files stand in for them.
WithBoundaries(an) ==
    IF an.boundaries # <<>> THEN an
    ELSE [an EXCEPT !.boundaries =
            LET dirs == {SubSeq(a, 1, Len(a) - 1) : a \in an.affected}
            IN  IF dirs = {} THEN <<>>
                ELSE CHOOSE s \in [1..Cardinality(dirs) ->
                                     {[root |-> d, repo |-> "",
                                       caps |-> {"modify_existing", "create_test", "create_helper"}] : d \in dirs}] :
                        \A d \in dirs : \E i \in DOMAIN s : s[i].root = d]

AllFiles == UNION {{Files[r][f] : f \in DOMAIN Files[r]} : r \in PatchRepos}
Refused(an) == {f \in AllFiles : EvaluatePolicy(f, WithBoundaries(an)) \in {"critical", "error"}}

--------------------------------------------------------------------------------
\* git apply and GNU patch on the files of one repository (h: file -> hunk states).

AllHunks(h, st) == \A f \in DOMAIN h : \A i \in DOMAIN h[f] : h[f][i] = st
Flip(st) == IF st = "new" THEN "old" ELSE "new"

\* patch --batch decides at the first hunk of a file whether the patch is reversed.
GnuPatch(h, from) ==
    [f \in DOMAIN h |->
       LET seek == IF h[f][1] = Flip(from) THEN Flip(from) ELSE from
       IN  [i \in DOMAIN h[f] |-> IF h[f][i] = seek THEN Flip(seek) ELSE h[f][i]]]

GnuPatchFails(h, from) ==
    \E f \in DOMAIN h : \E i \in DOMAIN h[f] :
        h[f][i] # (IF h[f][1] = Flip(from) THEN Flip(from) ELSE from)

\* Nothing when the patch can be taken out whole; else all of it or, by hunks, what fits.
ApplyCommand(h) ==
    IF AllHunks(h, "new") THEN h
    ELSE IF AllHunks(h, "old") THEN [f \in DOMAIN h |-> [i \in DOMAIN h[f] |-> "new"]]
    ELSE GnuPatch(h, "old")

ApplyCommandFails(h) == ~AllHunks(h, "new") /\ ~AllHunks(h, "old") /\ GnuPatchFails(h, "old")

\* Mutant: a failed repository is reverted with git only, which wants all of the patch.
RevertGitOnly(h) == h

\* The check that comes first asks whether all of the patch is in, and then does nothing.
RevertCommand(h) == IF AllHunks(h, "new") THEN h ELSE GnuPatch(h, "new")

--------------------------------------------------------------------------------
\* ApplyPatch

NoProbe == [kind |-> "none"]
IdleCall == [pc |-> "idle", restore |-> FALSE, todo |-> {}, repo |-> "", result |-> "none"]

PatchInit ==
    /\ hunk = [r \in PatchRepos |-> [f \in DOMAIN Files[r] |-> [i \in 1..Files[r][f].hunks |-> "old"]]]
    /\ call = IdleCall /\ calls = [made |-> 0, fixed |-> 0, expanded |-> {}] /\ without = hunk /\ probe = NoProbe

\* The workspace the first call finds: any hunk may not fit.
WorkspaceFound ==
    /\ calls.made = 0 /\ call.pc = "idle" /\ probe = NoProbe
    /\ hunk' \in [PatchRepos -> UNION {[DOMAIN Files[r] -> UNION {[1..Files[r][f].hunks -> {"old", "alien"}] :
                                                              f \in DOMAIN Files[r]}] : r \in PatchRepos}]
    /\ \A r \in PatchRepos : /\ DOMAIN hunk'[r] = DOMAIN Files[r]
                             /\ \A f \in DOMAIN Files[r] : Len(hunk'[r][f]) = Files[r][f].hunks
    /\ without' = hunk' /\ calls' = [calls EXCEPT !.made = 1]
    /\ UNCHANGED <<call, probe>>

\* Every file of every repository is checked before the first is changed; a security
\* review or a path outside the workspace refuses the patch as well.  The files that
\* pass are recorded as expansions of the boundaries.  The restore of a workspace asks
\* no policy.
ApplyPatch ==
    /\ call.pc = "idle" /\ calls.made \in 1..MaxAttempts
    /\ \E an \in Analyses, restore \in BOOLEAN :
         LET refused == ~restore /\ Refused(an) # {}
         IN  /\ call' = [pc |-> "apply", restore |-> restore, todo |-> PatchRepos, repo |-> "",
                         result |-> IF refused THEN "refused" ELSE "none"]
             /\ calls' = [calls EXCEPT !.made = @ + 1,
                                       !.expanded = IF restore \/ refused THEN @
                                                    ELSE {f.path : f \in AllFiles}]
    /\ UNCHANGED <<hunk, without, probe>>

PolicyError ==
    /\ call.pc = "apply"
    /\ call.result = "refused" \/ call.todo = PatchRepos
    /\ call' = [call EXCEPT !.pc = "idle", !.result = "refused", !.todo = {}]
    /\ UNCHANGED <<hunk, calls, without, probe>>

\* The repositories are taken in any order (the range over a map).
ApplyRepo ==
    /\ call.pc = "apply" /\ call.result = "none"
    /\ \E r \in call.todo :
         /\ hunk' = [hunk EXCEPT ![r] = ApplyCommand(@)]
         /\ call' = IF ApplyCommandFails(hunk[r]) THEN [call EXCEPT !.pc = "revert", !.repo = r]
                    ELSE [call EXCEPT !.todo = @ \ {r}]
    /\ UNCHANGED <<calls, without, probe>>

RevertRepo ==
    /\ call.pc = "revert"
    /\ hunk' = [hunk EXCEPT ![call.repo] = RevertCommand(@)]
    /\ call' = [call EXCEPT !.pc = "idle", !.result = "failed", !.todo = {}]
    /\ UNCHANGED <<calls, without, probe>>

ApplyDone ==
    /\ call.pc = "apply" /\ call.result = "none" /\ call.todo = {}
    /\ call' = [call EXCEPT !.pc = "idle", !.result = "ok"]
    /\ UNCHANGED <<hunk, calls, without, probe>>

\* Between two calls the agent makes the context of a hunk fit.
FixContext ==
    /\ call.pc = "idle" /\ calls.made > 1 /\ calls.fixed < MaxFixes
    /\ \E r \in PatchRepos : \E f \in DOMAIN hunk[r] : \E i \in DOMAIN hunk[r][f] :
         /\ hunk[r][f][i] = "alien"
         /\ hunk' = [hunk EXCEPT ![r][f][i] = "old"]
         /\ without' = [without EXCEPT ![r][f][i] = "old"]
    /\ calls' = [calls EXCEPT !.fixed = @ + 1]
    /\ UNCHANGED <<call, probe>>

--------------------------------------------------------------------------------
\* Search/replace.

SameText(l, m) == l.body = m.body
TrailingWSEqual(l, m) == l.ind = m.ind /\ l.chr = m.chr /\ SameText(l, m)

Windows(c, s) == 1..(Len(c.lines) - Len(s) + 1)

\* The first line of the search text may be the end of a line of the file.
ExactWindows(c, s) ==
    {i \in Windows(c, s) :
        /\ LET l == c.lines[i] IN
              SameText(l, s[1]) /\ l.trail = s[1].trail
              /\ (s[1].ind = 0 \/ (s[1].chr = l.chr /\ s[1].ind <= l.ind))
        /\ \A j \in 2..Len(s) : c.lines[i + j - 1] = s[j]
        /\ i + Len(s) - 1 = Len(c.lines) => c.nl}

\* strings.Count: matches that do not overlap, from the left.
CountExact(c, s) ==
    LET hits == ExactWindows(c, s)
        n[i \in 1..(Len(c.lines) + Len(s))] ==
            IF i > Len(c.lines) THEN 0
            ELSE IF i \in hits THEN 1 + n[i + Len(s)] ELSE n[i + 1]
    IN  n[1]

TrailingWSMatch(c, s) ==
    {i \in Windows(c, s) : \A j \in 1..Len(s) : TrailingWSEqual(c.lines[i + j - 1], s[j])}

\* Indentation relative to the line before; the first line has none.
RelativeIndent(lines, j) == IF j = 1 THEN 0 ELSE lines[j].ind - lines[j - 1].ind

RelativeIndentMatch(c, s) ==
    {i \in Windows(c, s) : LET w == SubSeq(c.lines, i, i + Len(s) - 1) IN
        \A j \in 1..Len(s) : /\ SameText(w[j], s[j]) /\ w[j].trail = s[j].trail
                              /\ RelativeIndent(w, j) = RelativeIndent(s, j)}

TrimmedLineMatch(c, s) ==
    {i \in Windows(c, s) : \A j \in 1..Len(s) : SameText(c.lines[i + j - 1], s[j])}

\* Mutant: the shift of the first line is used for all of them.
FirstDelta(c, s, i, j) == c.lines[i].ind - s[1].ind

IndentDelta(c, s, i, j) == c.lines[i + j - 1].ind - s[j].ind

DetectIndentChar(c, s, i) ==
    LET indented == {j \in i..(i + Len(s) - 1) : c.lines[j].ind > 0}
    IN  IF indented = {} THEN " " ELSE c.lines[CHOOSE j \in indented : \A k \in indented : j <= k].chr

\* Every line of the new text is shifted as its counterpart in the search text is in
\* the file, lines beyond that as the last one.
ReindentReplace(c, s, i, r) ==
    [j \in DOMAIN r |->
        LET d == IndentDelta(c, s, i, IF j < Len(s) THEN j ELSE Len(s))
            ind == IF r[j].ind + d > 0 THEN r[j].ind + d ELSE 0
        IN  [r[j] EXCEPT !.ind = ind, !.chr = IF ind = 0 THEN " " ELSE DetectIndentChar(c, s, i)]]

\* What stands before an exact match on its first line stays.
SpliceExact(c, s, i, r) ==
    LET l == c.lines[i]
        first == [r[1] EXCEPT !.ind = r[1].ind + l.ind - s[1].ind,
                              !.chr = IF l.ind > s[1].ind THEN l.chr ELSE r[1].chr]
    IN  [r EXCEPT ![1] = first]

Splice(c, s, i, text) ==
    [lines |-> SubSeq(c.lines, 1, i - 1) \o text \o Rest(c.lines, i + Len(s) - 1),
     nl |-> c.nl \/ i + Len(s) - 1 = Len(c.lines)]

The(S) == CHOOSE i \in S : \A j \in S : i <= j

\* One block: an exact place, or the first tier that has a place, if it has only one.
ApplySearchReplace(c, s, r) ==
    LET tiers == <<TrailingWSMatch(c, s), RelativeIndentMatch(c, s), TrimmedLineMatch(c, s)>>
        some == {t \in 1..3 : tiers[t] # {}}
    IN  CASE CountExact(c, s) = 1 ->
               [ok |-> TRUE, out |-> Splice(c, s, The(ExactWindows(c, s)), SpliceExact(c, s, The(ExactWindows(c, s)), r))]
          [] CountExact(c, s) = 0 /\ some # {} /\ Cardinality(tiers[The(some)]) = 1 ->
               LET i == The(tiers[The(some)])
               IN  [ok |-> TRUE, out |-> Splice(c, s, i, ReindentReplace(c, s, i, r))]
          [] OTHER -> [ok |-> FALSE, out |-> c]

ValidateSearchReplace(c, s) == CountExact(c, s) = 1

--------------------------------------------------------------------------------
\* Inputs for the pure parts.

\* The replaced text is the search text itself, or repeats its last line.
ProbeEdit ==
    /\ calls.made = 0 /\ probe = NoProbe
    /\ \E c \in Contents, s \in Searches, more \in BOOLEAN :
         LET r == IF more THEN Append(s, s[Len(s)]) ELSE s
             res == ApplySearchReplace(c, s, r)
         IN  probe' = [kind |-> "edit", content |-> c, valid |-> ValidateSearchReplace(c, s),
                       more |-> more, ok |-> res.ok, out |-> res.out]
    /\ UNCHANGED <<hunk, call, calls, without>>

RepoNames == {"app", "lib"}
Roles == {"backend", ""}
MainDirs == {"", "trunk"}

\* A path that begins with a name that is stripped is cut further than it should.
ASSUME PathAssumption ==
    \A rel \in RelPaths :
        /\ rel \in Seq(STRING) \ {<<>>}
        /\ rel[1] \notin {"a", "b", "code", "worktrees", "main"} \cup RepoNames \cup Roles \cup MainDirs

\* A path as the diffs of a workspace carry it: relative, under the repository's name,
\* or under its checkout or worktree.
Rendered(name, main, role, rel) ==
    {[header |-> name, path |-> rel], [header |-> "", path |-> <<name>> \o rel],
     [header |-> "", path |-> <<"a", name>> \o rel],
     [header |-> "", path |-> ReposDirName \o <<name, IF main = "" THEN "main" ELSE main>> \o rel],
     [header |-> name, path |-> ReposDirName \o <<name, "main">> \o rel]}
    \cup UNION {{[header |-> h, path |-> ReposDirName \o <<name, "worktrees", w>> \o rel] : h \in {"", name}} :
                   w \in {"frontend", role} \ {""}}

ProbePath ==
    /\ calls.made = 0 /\ probe = NoProbe
    /\ \E name \in RepoNames, rel \in RelPaths, role \in Roles, main \in MainDirs, single \in BOOLEAN :
         LET repo(n) == [name |-> n, main |-> main, defaultBranch |-> ""]
             ws == IF single THEN <<repo(name)>> ELSE <<repo("app"), repo("lib")>>
         IN  \E p \in Rendered(name, main, role, rel)
                      \cup (IF single THEN {[header |-> "", path |-> rel]} ELSE {}) :
                probe' = [kind |-> "path", name |-> name, rel |-> rel,
                          out |-> SplitPatchByRepo(p.path, p.header, ws, role)]
    /\ UNCHANGED <<hunk, call, calls, without>>

PatchNext ==
    \/ WorkspaceFound \/ ApplyPatch \/ PolicyError \/ ApplyRepo \/ RevertRepo \/ ApplyDone \/ FixContext
    \/ ProbeEdit \/ ProbePath

PatchSpec == PatchInit /\ [][PatchNext]_patchVars

--------------------------------------------------------------------------------
\* After every call, each repository holds all of the patch or none of it, whatever
\* fitted and however often the patch was tried (git apply, patch --batch, the revert
\* and the check for a patch that is in already); a call that returned nil left all of
\* it in all of them.
PatchAllOrNothing ==
    call.pc = "idle" =>
        /\ \A r \in PatchRepos : AllHunks(hunk[r], "new") \/ hunk[r] = without[r]
        /\ call.result = "ok" => \A r \in PatchRepos : AllHunks(hunk[r], "new")

Same(l, m) == SameText(l, m) /\ l.ind = m.ind

\* Replacing a text by itself changes no line's text and no line's indentation, and a
\* line repeated at a place found by a fuzzy tier is put at the depth of the one it
\* repeats; an edit that validation accepts is applied.
EditKeepsIndentation ==
    probe.kind = "edit" =>
        /\ probe.valid => probe.ok
        /\ probe.ok =>
             LET was == probe.content.lines
                 is == probe.out.lines
             IN  IF probe.more
                 THEN probe.valid \/ \E k \in DOMAIN was :
                         /\ Len(is) = Len(was) + 1
                         /\ \A j \in DOMAIN is : Same(is[j], was[IF j <= k THEN j ELSE j - 1])
                 ELSE Len(is) = Len(was) /\ \A j \in DOMAIN is : Same(is[j], was[j])

\* A path of any form the diffs carry is attributed to its repository and becomes the
\* path relative to it, unless that begins with one of the names that are stripped.
PathFound ==
    probe.kind = "path" => probe.out = <<probe.name, probe.rel>>
================================================================================
