--------------------------------- MODULE Prompts ---------------------------------
(***************************************************************************)
(* What a step gives a CLI agent besides its task: the prompt of the step,    *)
(* the prompt of a role, and the files of the context directory, where the    *)
(* skills that fit the task are written within a budget.                      *)
(*                                                                            *)
(* A skill's name is a number, its rank in the order of strings; Lower and    *)
(* Slug give its lower-case form and its slug, a sequence of words, to which  *)
(* a number may be appended.                                                  *)
(***************************************************************************)
EXTENDS Integers, FiniteSets, Sequences
LOCAL INSTANCE SequencesExt

CONSTANTS
    SkillNames,    \* names of skills, natural numbers
    Lower, Slug,   \* lower-case form and slug of a name
    Worlds,        \* skills found: in the task's workspace, in ./skills, in the registry of the user, in the project
    Texts,         \* tasks: required skills of the role, names in title, description and step, rules, learned skills
    PromptFiles,   \* sets of step prompts that exist
    MaxJITSkills,  \* skills chosen at most (5)
    ContextBudget, \* characters for skills and learned skills (12000)
    LearnedBudget  \* characters for learned skills (8000)

ASSUME PromptAssumption ==
    /\ SkillNames \subseteq Nat /\ {MaxJITSkills, ContextBudget, LearnedBudget} \subseteq Nat

VARIABLE prompt   \* the instruction of a step: nothing yet, failed, or what was built

AgentRoles == {"backend", "frontend", "planner", "reviewer"}
PromptSteps == {"cli_analyze", "cli_spec", "cli_implement"}

--------------------------------------------------------------------------------
\* Skills

\* Files of a directory in order: the first of a name wins.
AddUnseen(merged, found) ==
    FoldLeft(LAMBDA acc, sk : IF \E i \in DOMAIN acc : Lower[acc[i].name] = Lower[sk.name] THEN acc ELSE Append(acc, sk),
             merged, found)

\* A registry entry is skipped when its own name was seen, and the skill goes by the name
\* in its file.
AddRegistered(merged, entries) ==
    FoldLeft(LAMBDA acc, e : IF \E i \in DOMAIN acc : Lower[acc[i].name] = e.id THEN acc ELSE Append(acc, e.skill),
             merged, entries)

\* loadProjectDiskSkills: the registry of the project, or the files of its directory
\* under their own names.
ProjectDiskSkills(w) ==
    IF w.disk.registry THEN w.disk.entries
    ELSE [i \in DOMAIN w.disk.entries |-> [id |-> w.disk.entries[i].file, skill |-> w.disk.entries[i].skill]]

\* Workspace first, ./skills when it had none, then the user's registry, then the project.
LoadAllSkills(w) ==
    LET here == AddUnseen(<<>>, w.workspace)
        locals == IF here = <<>> THEN AddUnseen(here, w.fallback) ELSE here
    IN  AddRegistered(AddRegistered(locals, w.global), ProjectDiskSkills(w))

Bonus(cond, n) == IF cond THEN n ELSE 0

Score(sk, t) ==
    LET low == Lower[sk.name]
    IN  Bonus(low \in t.required, 15) + Bonus(low \in t.title, 5) + Bonus(low \in t.desc, 3) + Bonus(low \in t.step, 2)

\* The skills with a score, best first and then by name; equal names come in any order.
SkillOrders(w, t) ==
    LET all == LoadAllSkills(w)
        scored == {i \in DOMAIN all : Score(all[i], t) > 0}
        Before(a, b) == \/ Score(a, t) > Score(b, t)
                        \/ Score(a, t) = Score(b, t) /\ a.name <= b.name
        sorted == {s \in SetToSeqs(scored) : \A i, j \in DOMAIN s : i < j => Before(all[s[i]], all[s[j]])}
    IN  {[i \in DOMAIN s |-> all[s[i]]] : s \in sorted}

ResolveSkills(order) == SubSeq(order, 1, IF Len(order) < MaxJITSkills THEN Len(order) ELSE MaxJITSkills)

--------------------------------------------------------------------------------
\* The context directory

\* RenderLearnedSkillsSection: sections while they fit.
RenderLearnedSkills(sizes) ==
    FoldLeft(LAMBDA acc, n : IF acc.full \/ acc.len + n > LearnedBudget THEN [acc EXCEPT !.full = TRUE]
                             ELSE [acc EXCEPT !.len = @ + n],
             [len |-> 1, full |-> FALSE], sizes).len

\* Mutant: skills with one slug share a file.
SamePath(slug, seen) == slug

\* The file of a skill: its slug, numbered when an earlier skill had the same.
SkillPath(slug, seen) ==
    LET n == Cardinality({i \in DOMAIN seen : seen[i] = slug}) + 1
    IN  IF n > 1 THEN Append(slug, n) ELSE slug

\* Skills in order until one does not fit; empty ones are passed over.
WriteSkills(skills) ==
    FoldLeft(LAMBDA acc, sk :
                IF acc.full \/ sk.size = 0 THEN acc
                ELSE LET slug == Slug[sk.name]
                         path == SkillPath(slug, acc.slugs)
                     IN  IF sk.size > acc.budget THEN [acc EXCEPT !.full = TRUE]
                         ELSE [acc EXCEPT !.slugs = Append(@, slug), !.budget = @ - sk.size,
                                          !.files = [p \in DOMAIN @ \cup {path} |-> IF p = path THEN sk ELSE @[p]],
                                          !.included = @ + 1],
             [slugs |-> <<>>, budget |-> ContextBudget, files |-> <<>>, included |-> 0, full |-> FALSE], skills)

\* MaterializeCLIContext: skills, learned skills when they fit as a whole, and the rules
\* of the task, which no budget limits; no manifest when there is nothing.
MaterializeCLIContext(skills, t) ==
    LET written == WriteSkills(skills)
        learned == IF t.learned = <<>> THEN 0 ELSE RenderLearnedSkills(t.learned)
        fits == learned > 0 /\ learned <= written.budget
    IN  [skills |-> written.files, included |-> written.included,
         learned |-> IF fits THEN learned ELSE 0, rules |-> t.rules,
         manifest |-> written.included > 0 \/ fits \/ t.rules > 0]

--------------------------------------------------------------------------------
\* Prompts of steps and roles

CoderRoleForTask(category) == IF category \in {"frontend", "ui", "ux"} THEN "frontend" ELSE "backend"

EffectiveRoleForStep(step, a) ==
    IF step # "cli_implement" \/ a.role \in {"backend", "frontend"} THEN a.role ELSE CoderRoleForTask(a.category)

LoadRolePrompt(step, a) ==
    LET role == EffectiveRoleForStep(step, a) IN IF role \in {"backend", "frontend"} THEN "coder" ELSE role

\* The prompt of the step, or of the first word of its name.
LoadStepPrompt(step, existing) ==
    IF step \in existing THEN step ELSE IF "cli" \in existing THEN "cli" ELSE "error"

PromptInit == prompt = [pc |-> "none"]

BuildInstruction ==
    /\ prompt.pc = "none"
    /\ \E w \in Worlds, t \in Texts :
         \E order \in SkillOrders(w, t) :
           LET files == MaterializeCLIContext(ResolveSkills(order), t)
           IN  \E step \in PromptSteps, existing \in PromptFiles, a \in [role : AgentRoles, category : {"", "ui", "api"}] :
                 LET base == LoadStepPrompt(step, existing)
                 IN  prompt' = IF base = "error" THEN [pc |-> "failed"]
                               ELSE [pc |-> "built", step |-> step, base |-> base, order |-> order, files |-> files,
                                     role |-> IF step = "cli_implement" THEN LoadRolePrompt(step, a) ELSE ""]

PromptNext == BuildInstruction
PromptSpec == PromptInit /\ [][PromptNext]_prompt

--------------------------------------------------------------------------------
SizeOf(files) == FoldSet(LAMBDA p, acc : acc + files[p].size, 0, DOMAIN files)

\* The context of a step stays within its budget, every skill it counts has a file of its
\* own, and a skill is missing only when it scored lower than all of the others, when it
\* did not fit into what the better ones left, or when the limit was reached
\* (MaterializeCLIContext, resolveSkills); a step that writes code never gets the prompt
\* of a role that only reads (LoadRolePrompt).  No skill's own name ends in a number here.
ContextMaterialized ==
    prompt.pc = "built" =>
        LET f == prompt.files
            kept == {f.skills[p] : p \in DOMAIN f.skills}
        IN  /\ SizeOf(f.skills) + f.learned <= ContextBudget
            /\ Cardinality(DOMAIN f.skills) = f.included
            /\ \A i \in DOMAIN prompt.order :
                 LET sk == prompt.order[i]
                     better == {j \in 1..(i - 1) : prompt.order[j] \in kept}
                 IN  \/ sk \in kept \/ sk.size = 0 \/ i > MaxJITSkills
                     \/ \E j \in 1..i : FoldSet(LAMBDA k, acc : acc + prompt.order[k].size, 0, better)
                                          + prompt.order[j].size > ContextBudget
            /\ prompt.step = "cli_implement" => prompt.role = "coder"
================================================================================
