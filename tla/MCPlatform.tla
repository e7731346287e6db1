------------------------------- MODULE MCPlatform ------------------------------
(***************************************************************************)
(* The parts around the runs of a task that share no state with each other:  *)
(* the delivery of its code, the patches of an agent, the live feed, and      *)
(* what agents remember, where sessions append suggestions and reviews only   *)
(* change those that are there, the prompts, and the index of the symbols.    *)
(* Each is explored by itself while the others rest.                          *)
(***************************************************************************)
EXTENDS GitDelivery, Patches, LiveFeed, Knowledge, Prompts, ContextCache, Attestations,
        ReviewCycle, TLC

VARIABLE part   \* which of them is explored
platformVars == <<part, gitVars, patchVars, feedVars, knowVars, prompt, cacheVars, attestVars, reviewVars>>

FilesOfPatch ==
    "app" :> ("f" :> [path |-> <<"app", "core", "f">>, kind |-> "plain", critical |-> "no",
                      new |-> FALSE, hunks |-> 1]
              @@ "d" :> [path |-> <<"app", "Dockerfile">>, kind |-> "plain", critical |-> "named",
                         new |-> FALSE, hunks |-> 2])
    @@ "lib" :> ("g" :> [path |-> <<"lib", "g">>, kind |-> "plain", critical |-> "no",
                         new |-> TRUE, hunks |-> 2])

\* Everything allowed, the Dockerfile refused, and affected files without boundaries.
AnalysesOfPatch ==
    {[boundaries |-> <<[root |-> <<>>, repo |-> "", caps |-> {"modify_infrastructure"}]>>, affected |-> {}],
     [boundaries |-> <<[root |-> <<>>, repo |-> "", caps |-> {"modify_existing"}]>>, affected |-> {}],
     [boundaries |-> <<>>, affected |-> {<<"app", "core", "f">>, <<"app", "Dockerfile">>, <<"lib", "g">>}]}

LinesTried ==
    {[ind |-> 0, chr |-> " ", body |-> b, trail |-> t] : b \in {"x", "y"}, t \in BOOLEAN}
    \cup {[ind |-> i, chr |-> c, body |-> "x", trail |-> FALSE] : i \in {1, 2}, c \in {" ", "tab"}}
SeqsUpTo(n) == UNION {[1..k -> LinesTried] : k \in 1..n}
ContentsTried == [lines : SeqsUpTo(3), nl : BOOLEAN]
SearchesTried == SeqsUpTo(2)
PathsTried == {<<"x.go">>, <<"src", "x.go">>, <<"src", "main", "app">>}

LinesOfOutput ==
    {[type |-> t, out |-> o, err |-> 6, failed |-> TRUE, escape |-> e, inStep |-> i] :
       t \in {"plain", "reasoning", "tool_call", "command_finished", "test_result"},
       o \in {1, 9}, e \in {1, 6}, i \in BOOLEAN}

EventsOfRun == {<<"code", "failed">>, <<"done", "success">>}
AttemptsOfRuns == "s1" :> 2 @@ "s2" :> 3

LowerOf == 1 :> "api patterns" @@ 2 :> "api_patterns" @@ 3 :> "deploy" @@ 4 :> "deploy" @@ 5 :> "x"
SlugOf == 1 :> <<"api">> @@ 2 :> <<"api">> @@ 3 :> <<"deploy">> @@ 4 :> <<"deploy">> @@ 5 :> <<"x">>
Sk(n, s) == [name |-> n, size |-> s]
SkillWorlds ==
    [workspace : {<<>>, <<Sk(1, 3), Sk(3, 0)>>, <<Sk(2, 4)>>},
     fallback : {<<>>, <<Sk(4, 1), Sk(5, 5)>>},
     global : {<<>>, <<[id |-> "api_patterns", skill |-> Sk(2, 3)], [id |-> "other", skill |-> Sk(1, 2)]>>},
     disk : {[registry |-> r,
              entries |-> <<[id |-> "api_patterns", file |-> "z", skill |-> Sk(2, n)],
                            [id |-> "deploy", file |-> "deploy", skill |-> Sk(3, 2)]>>] :
             r \in BOOLEAN, n \in {1, 6}}]
TaskTexts ==
    [required : {{}, {"deploy"}, {"x", "api_patterns"}}, title : {{}, {"api patterns", "deploy"}},
     desc : {{"api_patterns"}}, step : {{}}, rules : {0, 1}, learned : {<<>>, <<1>>, <<2, 2, 1>>}]

ReposOfTasks == "t1" :> <<"app", "lib">> @@ "t2" :> <<"app">>

Ax(f, i) == [there |-> TRUE, fail |-> f, items |-> i]
NoAx == [there |-> FALSE, fail |-> FALSE, items |-> {}]
\* No verdict, two wordings of one violation, another one, a quality issue, and a pass.
WritingsOfReviewers ==
    {[spec |-> NoAx, quality |-> NoAx], [spec |-> Ax(FALSE, {}), quality |-> Ax(FALSE, {})],
     [spec |-> NoAx, quality |-> Ax(TRUE, {{7}})]}
    \cup {[spec |-> Ax(TRUE, {v}), quality |-> NoAx] : v \in {{1, 2, 3}, {1, 2, 3, 4}, {3, 4, 5}}}

Parts == {"git", "patches", "feed", "sessions", "reviews", "prompts", "caches", "server", "attestations", "cycles"}
PlatformInit ==
    /\ part \in Parts
    /\ GitInit /\ PatchInit /\ FeedInit /\ KnowInit /\ PromptInit /\ CacheInit /\ AttestInit /\ ReviewInit
    /\ part # "git" => TRUE \notin {line.easy, line.parallel, line.child}
    /\ part # "feed" => feed = "event"
    /\ part = "reviews" <=> suggestions # <<>>
    /\ head["t1"]["app"] = "c1" /\ (part # "caches" => head["t2"]["app"] = "c1")
    /\ part = "caches" <=> stamp = 2
PlatformNext ==
    \/ part = "git" /\ GitNext /\ UNCHANGED <<part, patchVars, feedVars, knowVars, prompt, cacheVars, attestVars, reviewVars>>
    \/ part = "patches" /\ PatchNext /\ UNCHANGED <<part, gitVars, feedVars, knowVars, prompt, cacheVars, attestVars, reviewVars>>
    \/ part = "feed" /\ FeedNext /\ UNCHANGED <<part, gitVars, patchVars, knowVars, prompt, cacheVars, attestVars, reviewVars>>
    \/ part = "sessions" /\ SessionsNext /\ UNCHANGED <<part, gitVars, patchVars, feedVars, prompt, cacheVars, attestVars, reviewVars>>
    \/ part = "reviews" /\ ReviewsNext /\ UNCHANGED <<part, gitVars, patchVars, feedVars, prompt, cacheVars, attestVars, reviewVars>>
    \/ part = "prompts" /\ PromptNext /\ UNCHANGED <<part, gitVars, patchVars, feedVars, knowVars, cacheVars, attestVars, reviewVars>>
    \/ part = "caches" /\ CachesNext /\ UNCHANGED <<part, gitVars, patchVars, feedVars, knowVars, prompt, attestVars, reviewVars>>
    \/ part = "server" /\ ServerNext("t1") /\ UNCHANGED <<part, gitVars, patchVars, feedVars, knowVars, prompt, attestVars, reviewVars>>
    \/ part = "attestations" /\ AttestNext
       /\ UNCHANGED <<part, gitVars, patchVars, feedVars, knowVars, prompt, cacheVars, reviewVars>>
    \/ part = "cycles" /\ ReviewNext
       /\ UNCHANGED <<part, gitVars, patchVars, feedVars, knowVars, prompt, cacheVars, attestVars>>
PlatformSpec == PlatformInit /\ [][PlatformNext]_platformVars
================================================================================
