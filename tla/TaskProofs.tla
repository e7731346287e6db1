------------------------------- MODULE TaskProofs -------------------------------
(***************************************************************************)
(* Theorems about the task rows: whatever requests, runs, guardrails and the  *)
(* sync do to them, statement by statement and in any order.                  *)
(*                                                                          *)
(* The first part is about one task: merged means merged.  The second is about  *)
(* a family, a parent split into children: they are started in their order and  *)
(* the parent is merged after the last of them.                                *)
(***************************************************************************)
EXTENDS TaskLifecycle, SequenceTheorems, WellFoundedInduction, TLAPS

-----------------------------------------------------------------------------
(***************************************************************************)
(* What may stand in an agenda.                                             *)
(***************************************************************************)
\* Tasks with a merged pull request, and a parent that has been split: the ones that
\* may become merged.
Backed == {t \in Tasks : pr[t] \in {"merged", "reopened"} \/ (t = Parent /\ task[Parent].split)}

\* A statement asks for merged only where a member of B is concerned, and leaves the
\* mark of a split alone.
Allowed(s, B) ==
    /\ s.op = "status" => (s.v = "merged" => s.t \in B)
    /\ s.op = "list" => Parent \in B
    /\ s.op \in {"approve", "sync"} => s.t \in Tasks
    /\ s.op = "update" => "split" \notin DOMAIN s.v
    /\ s.op = "write" =>
         /\ "split" \in DOMAIN s.v.fields /\ s.t = Parent => s.v.fields.split
         /\ s.v.tracked /\ "status" \in DOMAIN s.v.fields => (s.v.fields.status = "merged" => s.t \in B)

IsSeq(q) == q \in Seq({q[i] : i \in DOMAIN q})

\* A list of statements.  In a list that is not itself a handler (deep) a catch may
\* have one.
Fits(s, B, deep) ==
    /\ Allowed(s, B)
    /\ s.op = "catch" =>
         IF deep THEN /\ IsSeq(s.v)
                      /\ \A k \in DOMAIN s.v : Allowed(s.v[k], B) /\ (s.v[k].op = "catch" => s.v[k].v = <<>>)
         ELSE s.v = <<>>

Plan(q, B, deep) == IsSeq(q) /\ \A i \in DOMAIN q : Fits(q[i], B, deep)

\* The end of ApproveSplit: the children's rows, the parent's mark, the first child.
SplitPlan(q) ==
    /\ IsSeq(q) /\ Len(q) >= 2
    /\ q[Len(q)] = S("list", Parent, None)
    /\ q[Len(q) - 1] = Put(Parent, [split |-> TRUE])
    /\ \A i \in 1..(Len(q) - 2) : q[i].op = "write" /\ q[i].t \in Kids /\ ~q[i].v.tracked

-----------------------------------------------------------------------------
(***************************************************************************)
(* Lists of statements.                                                     *)
(***************************************************************************)
LEMMA SeqIsSeq == ASSUME NEW T, NEW q \in Seq(T) PROVE IsSeq(q)
BY DEF IsSeq

\* A list is a plan when all its statements come from plans.
LEMMA PlanFrom ==
    ASSUME NEW B, NEW deep, NEW T, NEW q \in Seq(T), \A s \in T : Fits(s, B, deep)
    PROVE  Plan(q, B, deep)
<1>1. IsSeq(q)
    BY SeqIsSeq
<1>2. \A i \in DOMAIN q : q[i] \in T
    OBVIOUS
<1> QED  BY <1>1, <1>2 DEF Plan

LEMMA PlanEmpty == ASSUME NEW B, NEW deep PROVE Plan(<<>>, B, deep)
BY DEF Plan, IsSeq

LEMMA PlanOne == ASSUME NEW B, NEW deep, NEW s, Fits(s, B, deep) PROVE Plan(<<s>>, B, deep)
<1> DEFINE q == <<s>>
           T == {s}
<1>1. q \in Seq(T)
    OBVIOUS
<1>2. \A x \in T : Fits(x, B, deep)
    OBVIOUS
<1> HIDE DEF q, T
<1>3. Plan(q, B, deep)
    BY <1>1, <1>2, PlanFrom
<1> QED  BY <1>3 DEF q

\* The statements of a plan, as a set.
LEMMA PlanSet ==
    ASSUME NEW B, NEW deep, NEW q, Plan(q, B, deep)
    PROVE  \E T : q \in Seq(T) /\ \A s \in T : Fits(s, B, deep)
<1> DEFINE T == {q[i] : i \in DOMAIN q}
<1>1. q \in Seq(T)
    BY DEF Plan, IsSeq
<1>2. \A s \in T : Fits(s, B, deep)
    BY DEF Plan
<1> HIDE DEF T
<1> QED  BY <1>1, <1>2

LEMMA PlanConcat ==
    ASSUME NEW B, NEW deep, NEW p, NEW q, Plan(p, B, deep), Plan(q, B, deep)
    PROVE  Plan(p \o q, B, deep)
<1>1. PICK T : p \in Seq(T) /\ \A s \in T : Fits(s, B, deep)
    BY PlanSet
<1>2. PICK U : q \in Seq(U) /\ \A s \in U : Fits(s, B, deep)
    BY PlanSet
<1>3. p \in Seq(T \cup U) /\ q \in Seq(T \cup U)
    BY <1>1, <1>2, SeqMonotonic
<1>4. p \o q \in Seq(T \cup U)
    BY <1>3, ConcatProperties
<1>5. \A s \in T \cup U : Fits(s, B, deep)
    BY <1>1, <1>2
<1> DEFINE r == p \o q
           V == T \cup U
<1> HIDE DEF r, V
<1>6. Plan(r, B, deep)
    BY <1>4, <1>5, PlanFrom DEF r, V
<1> QED  BY <1>6 DEF r

LEMMA PlanTwo ==
    ASSUME NEW B, NEW deep, NEW s, NEW r, Fits(s, B, deep), Fits(r, B, deep)
    PROVE  Plan(<<s, r>>, B, deep)
<1> DEFINE q == <<s, r>>
           T == {s, r}
<1>1. q \in Seq(T)
    OBVIOUS
<1>2. \A x \in T : Fits(x, B, deep)
    OBVIOUS
<1> HIDE DEF q, T
<1>3. Plan(q, B, deep)
    BY <1>1, <1>2, PlanFrom
<1> QED  BY <1>3 DEF q

LEMMA PlanThree ==
    ASSUME NEW B, NEW deep, NEW s, NEW r, NEW u, Fits(s, B, deep), Fits(r, B, deep), Fits(u, B, deep)
    PROVE  Plan(<<s, r, u>>, B, deep)
<1> DEFINE q == <<s, r, u>>
           T == {s, r, u}
<1>1. q \in Seq(T)
    OBVIOUS
<1>2. \A x \in T : Fits(x, B, deep)
    OBVIOUS
<1> HIDE DEF q, T
<1>3. Plan(q, B, deep)
    BY <1>1, <1>2, PlanFrom
<1> QED  BY <1>3 DEF q

LEMMA PlanTail ==
    ASSUME NEW B, NEW deep, NEW q, Plan(q, B, deep), q # <<>>
    PROVE  Plan(Tail(q), B, deep) /\ Fits(Head(q), B, deep)
<1>1. PICK T : q \in Seq(T) /\ \A s \in T : Fits(s, B, deep)
    BY PlanSet
<1>2. Tail(q) \in Seq(T) /\ Head(q) \in T
    BY <1>1, HeadTailProperties
<1> QED  BY <1>1, <1>2, PlanFrom

LEMMA LeastNatural ==
    ASSUME NEW T, T \subseteq Nat, T # {}
    PROVE  Min(T) \in T /\ \A k \in T : Min(T) <= k
<1>1. PICK x \in T : \A y \in T : ~(<<y, x>> \in OpToRel(<, Nat))
    BY NatLessThanWellFounded, WFMin
<1>2. \A y \in T : ~(y < x)
    BY <1>1 DEF OpToRel
<1>3. \A y \in T : x <= y
    BY <1>2
<1> QED  BY <1>3 DEF Min

\* The rest of a plan from a position on.
LEMMA PlanRest ==
    ASSUME NEW B, NEW deep, NEW q, Plan(q, B, deep), NEW n \in Nat \ {0}
    PROVE  Plan(SubSeq(q, n, Len(q)), B, deep)
<1>1. PICK T : q \in Seq(T) /\ \A s \in T : Fits(s, B, deep)
    BY PlanSet
<1>2. Len(q) \in Nat /\ DOMAIN q = 1..Len(q) /\ \A i \in 1..Len(q) : q[i] \in T
    BY <1>1
<1>3. \A i \in n..Len(q) : q[i] \in T
    BY <1>2
<1>4. SubSeq(q, n, Len(q)) \in Seq(T)
    BY <1>2, <1>3, SubSeqProperties
<1> QED  BY <1>1, <1>4, PlanFrom

LEMMA PlanSettle ==
    ASSUME NEW B, NEW deep, NEW q, Plan(q, B, deep)
    PROVE  Plan(Settle(q), B, deep)
<1> DEFINE busy == {i \in 1..Len(q) : q[i].op # "catch"}
<1>1. CASE busy = {}
  <2>1. Settle(q) = <<>>
      BY <1>1 DEF Settle
  <2> QED  BY <2>1, PlanEmpty
<1>2. CASE busy # {}
  <2>1. busy \subseteq Nat
      OBVIOUS
  <2>2. Min(busy) \in busy
      BY <1>2, <2>1, LeastNatural
  <2>3. Min(busy) \in Nat \ {0}
      BY <2>2
  <2>4. Settle(q) = SubSeq(q, Min(busy), Len(q))
      BY <1>2 DEF Settle
  <2> HIDE DEF busy
  <2> QED  BY <2>3, <2>4, PlanRest
<1> QED  BY <1>1, <1>2

LEMMA ShallowIsDeep == ASSUME NEW B, NEW q, Plan(q, B, FALSE) PROVE Plan(q, B, TRUE)
<1>1. \A s : Fits(s, B, FALSE) => Fits(s, B, TRUE)
  <2> SUFFICES ASSUME NEW s, Fits(s, B, FALSE) PROVE Fits(s, B, TRUE)
      OBVIOUS
  <2>1. IsSeq(<<>>) /\ DOMAIN <<>> = {}
      BY DEF IsSeq
  <2>2. CASE s.op = "catch"
    <3>1. Allowed(s, B) /\ s.v = <<>>
        BY <2>2 DEF Fits
    <3>2. IsSeq(s.v) /\ DOMAIN s.v = {}
        BY <2>1, <3>1
    <3> QED  BY <3>1, <3>2 DEF Fits
  <2>3. CASE s.op # "catch"
      BY <2>3 DEF Fits
  <2> QED  BY <2>2, <2>3
<1> QED  BY <1>1 DEF Plan

\* An error leaves a handler and what follows it.
LEMMA PlanUnwind ==
    ASSUME NEW B, NEW q, Plan(q, B, TRUE)
    PROVE  Plan(Unwind(q), B, TRUE)
<1> DEFINE caught == {i \in 1..Len(q) : q[i].op = "catch"}
<1>1. CASE caught = {}
  <2>1. Unwind(q) = <<>>
      BY <1>1 DEF Unwind
  <2> QED  BY <2>1, PlanEmpty
<1>2. CASE caught # {}
  <2> DEFINE n == Min(caught)
  <2>1. caught \subseteq Nat
      OBVIOUS
  <2>2. n \in caught
      BY <1>2, <2>1, LeastNatural
  <2>3. n \in Nat /\ n \in 1..Len(q) /\ q[n].op = "catch"
      BY <2>2
  <2>4. Unwind(q) = q[n].v \o SubSeq(q, n + 1, Len(q))
      BY <1>2 DEF Unwind
  <2> HIDE DEF n, caught
  <2>5. Fits(q[n], B, TRUE)
    <3>1. PICK T : q \in Seq(T) /\ \A s \in T : Fits(s, B, TRUE)
        BY PlanSet
    <3>2. q[n] \in T
        BY <2>3, <3>1
    <3> QED  BY <3>1, <3>2
  <2>6. Plan(q[n].v, B, FALSE)
      BY <2>3, <2>5 DEF Fits, Plan
  <2>7. Plan(q[n].v, B, TRUE)
      BY <2>6, ShallowIsDeep
  <2>8. n + 1 \in Nat \ {0}
      BY <2>3
  <2>9. Plan(SubSeq(q, n + 1, Len(q)), B, TRUE)
      BY <2>8, PlanRest
  <2> QED  BY <2>4, <2>7, <2>9, PlanConcat
<1> QED  BY <1>1, <1>2

\* More tasks are backed as time goes on.
LEMMA PlanGrows ==
    ASSUME NEW B, NEW C, B \subseteq C, NEW deep, NEW q, Plan(q, B, deep)
    PROVE  Plan(q, C, deep)
<1>1. \A s : Allowed(s, B) => Allowed(s, C)
    BY DEF Allowed
<1>2. \A s : Fits(s, B, deep) => Fits(s, C, deep)
    BY <1>1 DEF Fits
<1> QED  BY <1>2 DEF Plan

-----------------------------------------------------------------------------
(***************************************************************************)
(* Statements.                                                              *)
(***************************************************************************)
\* A statement that asks for no status and lists no children.
LEMMA PlainFits ==
    ASSUME NEW B, NEW deep, NEW op, NEW t, NEW v,
           op \notin {"status", "list", "approve", "sync", "update", "write", "catch"}
    PROVE  Fits(S(op, t, v), B, deep)
BY DEF Fits, Allowed, S

LEMMA StatusFits ==
    ASSUME NEW B, NEW deep, NEW t, NEW v, v = "merged" => t \in B
    PROVE  Fits(S("status", t, v), B, deep)
BY DEF Fits, Allowed, S

LEMMA PutFits ==
    ASSUME NEW B, NEW deep, NEW t, NEW fields, "split" \notin DOMAIN fields
    PROVE  Fits(Put(t, fields), B, deep)
BY DEF Fits, Allowed, S, Put

LEMMA UpdateFits ==
    ASSUME NEW B, NEW deep, NEW t, NEW fields, "split" \notin DOMAIN fields
    PROVE  Fits(S("update", t, fields), B, deep)
BY DEF Fits, Allowed, S

LEMMA CatchFits == ASSUME NEW B, NEW deep PROVE Fits(S("catch", None, <<>>), B, deep)
<1>1. IsSeq(<<>>) /\ DOMAIN <<>> = {}
    BY DEF IsSeq
<1> DEFINE h == <<>>
<1> HIDE DEF h
<1>2. Fits(S("catch", None, h), B, deep)
    BY <1>1 DEF Fits, Allowed, S, h
<1> QED  BY <1>2 DEF h

LEMMA HandlerFits ==
    ASSUME NEW B, NEW h, Plan(h, B, FALSE)
    PROVE  Fits(S("catch", None, h), B, TRUE)
BY DEF Fits, Allowed, S, Plan

\* Try and OrElse make plans of plans.
LEMMA TryPlan ==
    ASSUME NEW B, NEW deep, NEW q, Plan(q, B, deep)
    PROVE  Plan(Try(q), B, deep)
BY CatchFits, PlanOne, PlanConcat DEF Try, Catch

LEMMA OrElsePlan ==
    ASSUME NEW B, NEW q, NEW h, Plan(q, B, TRUE), Plan(h, B, FALSE)
    PROVE  Plan(OrElse(q, h), B, TRUE)
BY HandlerFits, PlanOne, PlanConcat DEF OrElse

\* Every way of giving up is a plan: fail and pause only write failed and paused.
LEMMA FailsPlan == ASSUME NEW B, NEW deep, NEW t PROVE Plan(Fails(t), B, deep)
<1>1. Plan(Try(<<S("status", t, "failed")>>), B, deep)
    BY StatusFits, PlanOne, TryPlan
<1>2. Plan(Try(<<S("job", t, [job |-> run[t], status |-> "failed"])>>), B, deep)
    BY PlainFits, PlanOne, TryPlan
<1>3. Plan(<<S("end", t, "failed")>>, B, deep)
    BY PlainFits, PlanOne
<1> QED  BY <1>1, <1>2, <1>3, PlanConcat DEF Fails

LEMMA PausesPlan == ASSUME NEW B, NEW deep, NEW t PROVE Plan(Pauses(t), B, deep)
<1>1. Plan(Try(<<S("job", t, [job |-> run[t], status |-> "paused"])>>), B, deep)
    BY PlainFits, PlanOne, TryPlan
<1>2. Plan(<<S("end", t, "paused")>>, B, deep)
    BY PlainFits, PlanOne
<1> QED  BY <1>1, <1>2, PlanConcat DEF Pauses

LEMMA AdvancesPlan == ASSUME NEW B, NEW deep, NEW t, NEW n PROVE Plan(Advances(t, n), B, deep)
BY PlainFits, PlanOne DEF Advances

\* A pull request that was merged lets its task become merged.
LEMMA MergedPlan == ASSUME NEW B, NEW t \in B PROVE Plan(Merged(t), B, TRUE)
BY StatusFits, PlainFits, PlanTwo DEF Merged

-----------------------------------------------------------------------------
(***************************************************************************)
(* The invariant.                                                           *)
(***************************************************************************)
RowsOK ==
    /\ \A t \in Tasks : {"status", "split"} \subseteq DOMAIN task[t]
    /\ DOMAIN task = Tasks /\ DOMAIN agenda = Actors
    /\ pr \in [Tasks -> {"none", "open", "merged", "reopened"}]

PlansOK ==
    \A a \in Actors : Plan(agenda[a], Backed, TRUE) \/ (a = Parent /\ SplitPlan(agenda[a]))

MergesBacked == \A t \in Tasks : task[t].status = "merged" => t \in astray \cup Backed

MergeInv == RowsOK /\ PlansOK /\ MergesBacked

\* The next statement of an actor that is not a write stands in a plan.
LEMMA NextStatement ==
    ASSUME MergeInv, NEW a \in Actors, NEW op, Doing(a, op), op # "write"
    PROVE  /\ Plan(Tail(agenda[a]), Backed, TRUE) /\ Fits(It(a), Backed, TRUE)
           /\ It(a).op = op
<1>1. agenda[a] # <<>> /\ Head(agenda[a]).op = op
    BY DEF Doing
<1>2. ~SplitPlan(agenda[a])
  <2> SUFFICES ASSUME SplitPlan(agenda[a]) PROVE FALSE
      OBVIOUS
  <2> DEFINE q == agenda[a]
  <2>1. IsSeq(q) /\ Len(q) \in Nat /\ Len(q) >= 2
      BY DEF SplitPlan, IsSeq
  <2>2. q[1].op = "write"
    <3>1. CASE Len(q) = 2
        BY <3>1 DEF SplitPlan, Put, S
    <3>2. CASE Len(q) > 2
      <4>1. 1 \in 1..(Len(q) - 2)
          BY <2>1, <3>2
      <4> QED  BY <4>1 DEF SplitPlan
    <3>3. Len(q) = 2 \/ Len(q) > 2
      <4> DEFINE n == Len(q)
      <4>1. n \in Nat /\ n >= 2
          BY <2>1
      <4> HIDE DEF n
      <4>2. n = 2 \/ n > 2
          BY <4>1
      <4> QED  BY <4>2 DEF n
    <3> QED  BY <3>1, <3>2, <3>3
  <2>3. Head(q) = q[1]
    <3> HIDE DEF q
    <3> QED  BY <2>1 DEF IsSeq
  <2> QED  BY <1>1, <2>2, <2>3
<1>3. Plan(agenda[a], Backed, TRUE)
    BY <1>2 DEF MergeInv, PlansOK
<1> QED  BY <1>1, <1>3, PlanTail DEF It

\* What is backed stays backed.
LEMMA BackedStays ==
    ASSUME RowsOK, UNCHANGED <<task, pr>>
    PROVE  Backed' = Backed
BY DEF Backed

\* An actor that takes a statement off its agenda, and puts others or none, keeps plans.
LEMMA AgendaMoves ==
    ASSUME MergeInv, NEW a \in Actors, NEW q, Plan(q, Backed', TRUE), Backed \subseteq Backed',
           agenda' = [agenda EXCEPT ![a] = q]
    PROVE  PlansOK' /\ DOMAIN agenda' = Actors
<1>1. DOMAIN agenda' = Actors /\ agenda'[a] = q /\ \A b \in Actors : b # a => agenda'[b] = agenda[b]
    BY DEF MergeInv, RowsOK
<1>2. \A b \in Actors : Plan(agenda'[b], Backed', TRUE) \/ (b = Parent /\ SplitPlan(agenda'[b]))
  <2> TAKE b \in Actors
  <2>1. CASE b = a
      BY <1>1, <2>1
  <2>2. CASE b # a
    <3>1. Plan(agenda[b], Backed, TRUE) \/ (b = Parent /\ SplitPlan(agenda[b]))
        BY DEF MergeInv, PlansOK
    <3>2. Plan(agenda[b], Backed, TRUE) => Plan(agenda[b], Backed', TRUE)
        BY PlanGrows
    <3> QED  BY <1>1, <2>2, <3>1, <3>2
  <2> QED  BY <2>1, <2>2
<1>3. PlansOK'
    BY <1>2 DEF PlansOK, SplitPlan, Put
<1> QED  BY <1>1, <1>3

\* A statement other than a write that changes no task and no pull request.
LEMMA Proceeds ==
    ASSUME MergeInv, NEW a \in Actors, NEW op, Doing(a, op), op # "write",
           UNCHANGED <<task, pr, astray>>, NEW stmts, Plan(stmts, Backed, TRUE),
           Then(a, stmts) \/ Raise(a)
    PROVE  MergeInv'
<1>1. Backed' = Backed
    BY BackedStays DEF MergeInv
<1>2. Plan(Tail(agenda[a]), Backed, TRUE)
    BY NextStatement
<1>3. \E q : Plan(q, Backed, TRUE) /\ agenda' = [agenda EXCEPT ![a] = q]
  <2>1. CASE Then(a, stmts)
    <3>1. Plan(Settle(stmts \o Tail(agenda[a])), Backed, TRUE)
        BY <1>2, PlanConcat, PlanSettle
    <3> QED  BY <2>1, <3>1 DEF Then
  <2>2. CASE Raise(a)
    <3>1. Plan(Settle(Unwind(Tail(agenda[a]))), Backed, TRUE)
        BY <1>2, PlanUnwind, PlanSettle
    <3> QED  BY <2>2, <3>1 DEF Raise
  <2> QED  BY <2>1, <2>2
<1>4. PICK q : Plan(q, Backed, TRUE) /\ agenda' = [agenda EXCEPT ![a] = q]
    BY <1>3
<1>5. PlansOK' /\ DOMAIN agenda' = Actors
    BY <1>1, <1>4, AgendaMoves
<1> QED  BY <1>1, <1>5 DEF MergeInv, RowsOK, MergesBacked


-----------------------------------------------------------------------------
(***************************************************************************)
(* One lemma for each statement.                                            *)
(***************************************************************************)
LEMMA ReadStatusMerges == ASSUME MergeInv, NEW a \in Actors, ReadStatus(a) PROVE MergeInv'
<1> DEFINE t == It(a).t
           w == ApplyGuardrails(task[t], It(a).v)
           stmts == <<Write(t, w, TRUE)>>
<1>1. Doing(a, "status") /\ UNCHANGED <<task, pr, astray>>
    BY DEF ReadStatus, OnlyAgenda, rows, hist
<1>2. Fits(It(a), Backed, TRUE) /\ It(a).op = "status"
    BY <1>1, NextStatement
<1>3. It(a).v = "merged" => t \in Backed
    BY <1>2 DEF Fits, Allowed
<1>4. "split" \notin DOMAIN w /\ (w.status = "merged" => It(a).v = "merged")
    BY DEF ApplyGuardrails, Updated
<1>5. Fits(Write(t, w, TRUE), Backed, TRUE)
  <2> HIDE DEF t, w
  <2> QED  BY <1>3, <1>4 DEF Fits, Allowed, Write, S
<1>6. Plan(stmts, Backed, TRUE)
  <2> HIDE DEF t, w
  <2> QED  BY <1>5, PlanOne
<1>7. Then(a, stmts) \/ Raise(a)
    BY DEF ReadStatus, Check
<1> HIDE DEF stmts
<1> QED  BY <1>1, <1>6, <1>7, Proceeds

LEMMA ReadValidatedMerges == ASSUME MergeInv, NEW a \in Actors, ReadValidated(a) PROVE MergeInv'
<1> DEFINE stmts == <<Write(It(a).t, It(a).v, FALSE)>>
<1>1. Doing(a, "update") /\ UNCHANGED <<task, pr, astray>>
    BY DEF ReadValidated, OnlyAgenda, rows, hist
<1>2. Fits(It(a), Backed, TRUE) /\ It(a).op = "update"
    BY <1>1, NextStatement
<1>3. Fits(Write(It(a).t, It(a).v, FALSE), Backed, TRUE)
    BY <1>2 DEF Fits, Allowed, Write, S
<1>4. Plan(stmts, Backed, TRUE)
    BY <1>3, PlanOne
<1>5. Then(a, stmts) \/ Raise(a)
    BY DEF ReadValidated, Check
<1> HIDE DEF stmts
<1> QED  BY <1>1, <1>4, <1>5, Proceeds

\* Statements that put nothing in front of the rest.
LEMMA SilentMerges ==
    ASSUME MergeInv, NEW a \in Actors,
           \/ UpdateJob(a) \/ Enqueue(a) \/ SaveMark(a) \/ ClearCheckpointsForRepair(a) \/ ReturnError(a)
           \/ Record(a) \/ SaveStage(a) \/ StepRefused(a) \/ EndRun(a)
    PROVE  MergeInv'
<1> DEFINE stmts == <<>>
<1>1. \E op : Doing(a, op) /\ op # "write"
  <2>1. CASE UpdateJob(a)
      BY <2>1 DEF UpdateJob
  <2>2. CASE Enqueue(a)
      BY <2>2 DEF Enqueue
  <2>3. CASE SaveMark(a)
      BY <2>3 DEF SaveMark
  <2>4. CASE ClearCheckpointsForRepair(a)
      BY <2>4 DEF ClearCheckpointsForRepair
  <2>5. CASE ReturnError(a)
      BY <2>5 DEF ReturnError
  <2>6. CASE Record(a)
      BY <2>6 DEF Record
  <2>7. CASE SaveStage(a)
      BY <2>7 DEF SaveStage
  <2>8. CASE StepRefused(a)
      BY <2>8 DEF StepRefused
  <2>9. CASE EndRun(a)
      BY <2>9 DEF EndRun
  <2> QED  BY <2>1, <2>2, <2>3, <2>4, <2>5, <2>6, <2>7, <2>8, <2>9
<1>2. PICK op : Doing(a, op) /\ op # "write"
    BY <1>1
<1>3. UNCHANGED <<task, pr, astray>>
    BY DEF UpdateJob, Enqueue, SaveMark, ClearCheckpointsForRepair, ReturnError, Record, SaveStage, StepRefused,
           EndRun, OnlyAgenda, rows, hist
<1>4. Then(a, stmts) \/ Raise(a)
    BY DEF UpdateJob, Enqueue, SaveMark, ClearCheckpointsForRepair, ReturnError, Record, SaveStage, StepRefused,
           EndRun, Check
<1>5. Plan(stmts, Backed, TRUE)
    BY PlanEmpty
<1> HIDE DEF stmts
<1> QED  BY <1>2, <1>3, <1>4, <1>5, Proceeds

LEMMA SetJobPlan == ASSUME NEW B, NEW deep, NEW t, NEW s PROVE Plan(<<SetJob(t, s)>>, B, deep)
BY PlainFits, PlanOne DEF SetJob

LEMMA KillPlan == ASSUME NEW B, NEW deep, NEW t PROVE Plan(<<Kill(t)>>, B, deep)
BY PlainFits, PlanOne DEF Kill

LEMMA StatusPlan ==
    ASSUME NEW B, NEW deep, NEW t, NEW s, s = "merged" => t \in B PROVE Plan(<<S("status", t, s)>>, B, deep)
BY StatusFits, PlanOne

LEMMA PlainPlan ==
    ASSUME NEW B, NEW deep, NEW op, NEW t, NEW v,
           op \notin {"status", "list", "approve", "sync", "update", "write", "catch"}
    PROVE  Plan(<<S(op, t, v)>>, B, deep)
BY PlainFits, PlanOne

LEMMA ExecuteMerges == ASSUME MergeInv, NEW a \in Actors, Execute(a) PROVE MergeInv'
<1> DEFINE t == It(a).t
           resume == IF Latest(t) = "paused" THEN <<SetJob(t, "queued")>> ELSE <<>>
           status == IF task[t].status \in {"todo", "failed"} THEN <<S("status", t, "context_loading")>> ELSE <<>>
           queue == IF Latest(t) = "paused" THEN <<>> ELSE <<S("enqueue", t, None)>>
           stmts == ExecuteBody(t)
<1>1. Doing(a, "execute") /\ UNCHANGED <<task, pr, astray>> /\ Then(a, stmts)
    BY DEF Execute, OnlyAgenda, rows, hist
<1>2. Plan(resume, Backed, TRUE)
    BY SetJobPlan, PlanEmpty
<1>3. Plan(status, Backed, TRUE)
    BY StatusPlan, PlanEmpty
<1>4. Plan(queue, Backed, TRUE)
    BY PlainPlan, PlanEmpty
<1>5. Plan(resume \o status \o queue, Backed, TRUE)
  <2> HIDE DEF resume, status, queue
  <2> QED  BY <1>2, <1>3, <1>4, PlanConcat
<1>6. stmts = <<>> \/ stmts = resume \o status \o queue
    BY DEF ExecuteBody
<1>7. Plan(stmts, Backed, TRUE)
  <2> HIDE DEF resume, status, queue, stmts
  <2> QED  BY <1>5, <1>6, PlanEmpty
<1> HIDE DEF stmts
<1> QED  BY <1>1, <1>7, Proceeds

LEMMA RetryMerges == ASSUME MergeInv, NEW a \in Actors, RetryFromLastStep(a) PROVE MergeInv'
<1> DEFINE t == It(a).t
           close == IF IsOpen(t) THEN <<Kill(t)>> \o Try(<<SetJob(t, "failed")>>) ELSE <<>>
           again == <<S("status", t, "analyzing"), S("enqueue", t, None)>>
           stmts == close \o again
<1>1. Doing(a, "retry") /\ UNCHANGED <<task, pr, astray>> /\ (Then(a, stmts) \/ Raise(a))
    BY DEF RetryFromLastStep, Check, OnlyAgenda, rows, hist
<1>2. Plan(<<Kill(t)>>, Backed, TRUE) /\ Plan(Try(<<SetJob(t, "failed")>>), Backed, TRUE)
    BY KillPlan, SetJobPlan, TryPlan
<1>3. Plan(close, Backed, TRUE)
    BY <1>2, PlanConcat, PlanEmpty
<1>4. Fits(S("status", t, "analyzing"), Backed, TRUE) /\ Fits(S("enqueue", t, None), Backed, TRUE)
    BY StatusFits, PlainFits
<1>5. Plan(again, Backed, TRUE)
    BY <1>4, PlanTwo
<1>6. Plan(stmts, Backed, TRUE)
  <2> HIDE DEF close, again
  <2> QED  BY <1>3, <1>5, PlanConcat
<1> HIDE DEF stmts
<1> QED  BY <1>1, <1>6, Proceeds

LEMMA PauseMerges == ASSUME MergeInv, NEW a \in Actors, PauseJob(a) PROVE MergeInv'
<1> DEFINE stmts == <<SetJob(It(a).t, "paused"), Kill(It(a).t)>>
<1>1. Doing(a, "pause") /\ UNCHANGED <<task, pr, astray>> /\ (Then(a, stmts) \/ Raise(a))
    BY DEF PauseJob, Check, OnlyAgenda, rows, hist
<1>2. Fits(SetJob(It(a).t, "paused"), Backed, TRUE) /\ Fits(Kill(It(a).t), Backed, TRUE)
    BY PlainFits DEF SetJob, Kill
<1>3. Plan(stmts, Backed, TRUE)
    BY <1>2, PlanTwo
<1> HIDE DEF stmts
<1> QED  BY <1>1, <1>3, Proceeds

LEMMA CancelMerges == ASSUME MergeInv, NEW a \in Actors, CancelJob(a) PROVE MergeInv'
<1> DEFINE t == It(a).t
           stmts == <<SetJob(t, "failed"), S("status", t, "failed"), Kill(t)>>
<1>1. Doing(a, "cancel") /\ UNCHANGED <<task, pr, astray>> /\ (Then(a, stmts) \/ Raise(a))
    BY DEF CancelJob, Check, OnlyAgenda, rows, hist
<1>2. /\ Fits(SetJob(t, "failed"), Backed, TRUE) /\ Fits(Kill(t), Backed, TRUE)
      /\ Fits(S("status", t, "failed"), Backed, TRUE)
    BY PlainFits, StatusFits DEF SetJob, Kill
<1>3. Plan(stmts, Backed, TRUE)
    BY <1>2, PlanThree
<1> HIDE DEF stmts
<1> QED  BY <1>1, <1>3, Proceeds

LEMMA LimitMerges == ASSUME MergeInv, NEW a \in Actors, CheckLoopLimit(a) PROVE MergeInv'
<1> DEFINE t == It(a).t
           over == Try(<<S("status", t, "failed")>>) \o <<S("raise", None, None)>>
           stmts == IF marks[t][It(a).v] < MaxReviewFixCycles THEN <<>> ELSE over
<1>1. Doing(a, "limit") /\ UNCHANGED <<task, pr, astray>> /\ Then(a, stmts)
    BY DEF CheckLoopLimit, OnlyAgenda, rows, hist
<1>2. Plan(Try(<<S("status", t, "failed")>>), Backed, TRUE) /\ Plan(<<S("raise", None, None)>>, Backed, TRUE)
    BY StatusPlan, TryPlan, PlainPlan
<1>3. Plan(over, Backed, TRUE)
    BY <1>2, PlanConcat
<1>4. Plan(stmts, Backed, TRUE)
  <2> HIDE DEF over
  <2> QED  BY <1>3, PlanEmpty
<1> HIDE DEF stmts
<1> QED  BY <1>1, <1>4, Proceeds

\* The cancel function of a run empties the agenda of its task.
LEMMA CancelRunMerges == ASSUME MergeInv, NEW a \in Actors, CancelRun(a) PROVE MergeInv'
<1> DEFINE t == It(a).t
           failing == \E i \in 1..Len(agenda[t]) : agenda[t][i].op = "end" /\ agenda[t][i].v = "failed"
           hit == run[t] = It(a).v /\ ~failing
           q == Settle(Tail(agenda[a]))
<1>1. Doing(a, "kill") /\ UNCHANGED <<task, pr, astray>>
    BY DEF CancelRun, rows, hist
<1>2. agenda' = [agenda EXCEPT ![a] = q, ![t] = IF hit THEN <<>> ELSE @]
    BY DEF CancelRun
<1>3. Backed' = Backed
    BY <1>1, BackedStays DEF MergeInv
<1>4. Plan(q, Backed, TRUE)
    BY <1>1, NextStatement, PlanSettle
<1>5. DOMAIN agenda = Actors
    BY DEF MergeInv, RowsOK
<1> HIDE DEF q, failing, hit, t
<1>6. DOMAIN agenda' = Actors /\ \A b \in Actors : agenda'[b] \in {agenda[b], <<>>} \/ (b = a /\ agenda'[b] = q)
    BY <1>2, <1>5
<1>7. \A b \in Actors : Plan(agenda'[b], Backed', TRUE) \/ (b = Parent /\ SplitPlan(agenda'[b]))
  <2> TAKE b \in Actors
  <2>1. CASE agenda'[b] = agenda[b]
      BY <1>3, <2>1 DEF MergeInv, PlansOK
  <2>2. CASE agenda'[b] = <<>>
      BY <2>2, PlanEmpty
  <2>3. CASE b = a /\ agenda'[b] = q
      BY <1>3, <1>4, <2>3
  <2> QED  BY <1>6, <2>1, <2>2, <2>3
<1>8. PlansOK'
    BY <1>7 DEF PlansOK, SplitPlan, Put
<1> QED  BY <1>1, <1>3, <1>6, <1>8 DEF MergeInv, RowsOK, MergesBacked

\* A failing child blocks the parent that was split; a child that was merged has the
\* family listed.
LEMMA TerminalMerges == ASSUME MergeInv, NEW a \in Actors, ChildTerminal(a) PROVE MergeInv'
<1> DEFINE c == It(a).t
           blocks == <<Put(Parent, [blockedChild |-> c])>> \o Try(<<S("status", Parent, "blocked")>>)
           lists == <<S("list", Parent, None)>>
           stmts == OnChildTaskTerminal(c, It(a).v)
<1>1. Doing(a, "terminal") /\ UNCHANGED <<task, pr, astray>> /\ Then(a, stmts)
    BY DEF ChildTerminal, OnlyAgenda, rows, hist
<1>2. Plan(blocks, Backed, TRUE)
  <2>1. Plan(<<Put(Parent, [blockedChild |-> c])>>, Backed, TRUE)
      BY PutFits, PlanOne
  <2>2. Plan(Try(<<S("status", Parent, "blocked")>>), Backed, TRUE)
      BY StatusPlan, TryPlan
  <2> QED  BY <2>1, <2>2, PlanConcat
<1>3. task[Parent].split => Plan(lists, Backed, TRUE)
  <2> SUFFICES ASSUME task[Parent].split PROVE Plan(lists, Backed, TRUE)
      OBVIOUS
  <2>1. Parent \in Backed
      BY DEF Backed, Tasks
  <2>2. Fits(S("list", Parent, None), Backed, TRUE)
      BY <2>1 DEF Fits, Allowed, S
  <2> QED  BY <2>2, PlanOne
<1>4. \/ stmts = <<>>
      \/ stmts = blocks
      \/ task[Parent].split /\ stmts = lists
    BY DEF OnChildTaskTerminal
<1> HIDE DEF stmts, blocks, lists
<1>5. Plan(stmts, Backed, TRUE)
    BY <1>2, <1>3, <1>4, PlanEmpty
<1> QED  BY <1>1, <1>5, Proceeds

\* The parent becomes merged in the place of its children.
LEMMA ListMerges == ASSUME MergeInv, NEW a \in Actors, ListChildren(a) PROVE MergeInv'
<1> DEFINE c == Children[Min(Unmerged)]
           starts == Try(<<S("execute", c, None)>>)
           completes == Try(<<S("status", Parent, "merged")>>)
           stmts == DispatchNextChildOrReduce
<1>1. Doing(a, "list") /\ UNCHANGED <<task, pr, astray>> /\ Then(a, stmts)
    BY DEF ListChildren, OnlyAgenda, rows, hist
<1>2. Parent \in Backed
    BY <1>1, NextStatement DEF Fits, Allowed
<1>3. Plan(starts, Backed, TRUE)
    BY PlainPlan, TryPlan
<1>4. Plan(completes, Backed, TRUE)
    BY <1>2, StatusPlan, TryPlan
<1>5. stmts \in {<<>>, starts, completes}
    BY DEF DispatchNextChildOrReduce
<1> HIDE DEF stmts, starts, completes
<1>6. Plan(stmts, Backed, TRUE)
    BY <1>3, <1>4, <1>5, PlanEmpty
<1> QED  BY <1>1, <1>6, Proceeds

LEMMA RetryParentMerges == ASSUME MergeInv, NEW a \in Actors, RetryBlockedParent(a) PROVE MergeInv'
<1> DEFINE c == task[Parent].blockedChild
           stmts == ResumeParent(c)
<1>1. Doing(a, "retryParent") /\ UNCHANGED <<task, pr, astray>> /\ (Then(a, stmts) \/ Raise(a))
    BY DEF RetryBlockedParent, Check, OnlyAgenda, rows, hist
<1>2. /\ Fits(S("status", Parent, "coding"), Backed, TRUE)
      /\ Fits(Put(Parent, [blockedChild |-> None]), Backed, TRUE)
      /\ Fits(S("retry", c, None), Backed, TRUE)
    BY StatusFits, PutFits, PlainFits
<1>3. Plan(stmts, Backed, TRUE)
    BY <1>2, PlanThree DEF ResumeParent
<1> HIDE DEF stmts
<1> QED  BY <1>1, <1>3, Proceeds

LEMMA FinishMerges == ASSUME MergeInv, NEW a \in Actors, FinishJob(a) PROVE MergeInv'
<1> DEFINE done == Try(<<SetJob(It(a).t, "done")>>)
           stmts == IF Latest(It(a).t) = "paused" THEN done ELSE <<>>
<1>1. Doing(a, "finish") /\ UNCHANGED <<task, pr, astray>> /\ Then(a, stmts)
    BY DEF FinishJob, OnlyAgenda, rows, hist
<1>2. Plan(done, Backed, TRUE)
    BY SetJobPlan, TryPlan
<1> HIDE DEF done
<1>3. Plan(stmts, Backed, TRUE)
    BY <1>2, PlanEmpty
<1> HIDE DEF stmts
<1> QED  BY <1>1, <1>3, Proceeds

LEMMA ReviewMerges == ASSUME MergeInv, NEW a \in Actors, StartReview(a) PROVE MergeInv'
<1> DEFINE stmts == <<S("status", It(a).t, "human_review")>>
<1>1. Doing(a, "review") /\ UNCHANGED <<task, pr, astray>> /\ (Then(a, stmts) \/ Raise(a))
    BY DEF StartReview, Check, OnlyAgenda, rows, hist
<1>2. Plan(stmts, Backed, TRUE)
    BY StatusPlan
<1> HIDE DEF stmts
<1> QED  BY <1>1, <1>2, Proceeds

\* The sync writes merged for a pull request that it has seen merged.
LEMMA SyncMerges == ASSUME MergeInv, NEW a \in Actors, SyncMerged(a) PROVE MergeInv'
<1> DEFINE t == It(a).t
           ok == task[t].status \in {"pr_ready", "human_review"} /\ pr[t] = "merged"
<1>1. Doing(a, "sync") /\ UNCHANGED <<task, pr, astray>> /\ Check(a, ok, Merged(t))
    BY DEF SyncMerged, OnlyAgenda, rows, hist
<1>2. t \in Tasks
    BY <1>1, NextStatement DEF Fits, Allowed
<1>3. CASE ok
  <2>1. t \in Backed
      BY <1>2, <1>3 DEF Backed
  <2>2. Plan(Merged(t), Backed, TRUE)
      BY <2>1, MergedPlan
  <2>3. Then(a, Merged(t))
      BY <1>1, <1>3 DEF Check
  <2> HIDE DEF t, ok
  <2> QED  BY <1>1, <2>2, <2>3, Proceeds
<1>4. CASE ~ok
  <2>1. Raise(a)
      BY <1>1, <1>4 DEF Check
  <2>2. Plan(<<>>, Backed, TRUE)
      BY PlanEmpty
  <2> HIDE DEF t, ok
  <2> QED  BY <1>1, <2>1, <2>2, Proceeds
<1> QED  BY <1>3, <1>4

-----------------------------------------------------------------------------
(***************************************************************************)
(* The provider merges; rows are written.                                   *)
(***************************************************************************)
\* A pull request that was merged stays so, also when a second one is opened.
LEMMA BackedByProvider ==
    ASSUME RowsOK, UNCHANGED task, NEW t,
           \/ pr' = pr
           \/ pr' = [pr EXCEPT ![t] = "merged"]
           \/ pr' = [pr EXCEPT ![t] = IF @ \in {"merged", "reopened"} THEN "reopened" ELSE "open"]
    PROVE  Backed \subseteq Backed' /\ pr' \in [Tasks -> {"none", "open", "merged", "reopened"}]
<1>1. pr' \in [Tasks -> {"none", "open", "merged", "reopened"}]
    BY DEF RowsOK
<1>2. \A u \in Tasks : pr[u] \in {"merged", "reopened"} => pr'[u] \in {"merged", "reopened"}
    BY DEF RowsOK
<1> QED  BY <1>1, <1>2 DEF Backed

\* As Proceeds, for a statement that hears of the provider.
LEMMA ProviderProceeds ==
    ASSUME MergeInv, NEW a \in Actors, NEW op, Doing(a, op), op # "write", UNCHANGED <<task, astray>>,
           Backed \subseteq Backed', pr' \in [Tasks -> {"none", "open", "merged", "reopened"}],
           NEW stmts, Plan(stmts, Backed', TRUE), Then(a, stmts) \/ Raise(a)
    PROVE  MergeInv'
<1>1. Plan(Tail(agenda[a]), Backed', TRUE)
    BY NextStatement, PlanGrows
<1>2. \E q : Plan(q, Backed', TRUE) /\ agenda' = [agenda EXCEPT ![a] = q]
  <2>1. CASE Then(a, stmts)
    <3>1. Plan(Settle(stmts \o Tail(agenda[a])), Backed', TRUE)
        BY <1>1, PlanConcat, PlanSettle
    <3> QED  BY <2>1, <3>1 DEF Then
  <2>2. CASE Raise(a)
    <3>1. Plan(Settle(Unwind(Tail(agenda[a]))), Backed', TRUE)
        BY <1>1, PlanUnwind, PlanSettle
    <3> QED  BY <2>2, <3>1 DEF Raise
  <2> QED  BY <2>1, <2>2
<1>3. PICK q : Plan(q, Backed', TRUE) /\ agenda' = [agenda EXCEPT ![a] = q]
    BY <1>2
<1>4. PlansOK' /\ DOMAIN agenda' = Actors
    BY <1>3, AgendaMoves
<1> QED  BY <1>4 DEF MergeInv, RowsOK, MergesBacked

LEMMA ApproveMerges == ASSUME MergeInv, NEW a \in Actors, ApproveMerge(a) PROVE MergeInv'
<1> DEFINE t == It(a).t
<1>1. Doing(a, "approve") /\ UNCHANGED <<task, astray>>
    BY DEF ApproveMerge, rows, hist
<1>2. t \in Tasks
    BY <1>1, NextStatement DEF Fits, Allowed
<1>3. CASE ProviderMerges(t) /\ Then(a, Merged(t))
  <2>1. pr' = [pr EXCEPT ![t] = "merged"]
      BY <1>3 DEF ProviderMerges
  <2>2. Backed \subseteq Backed' /\ pr' \in [Tasks -> {"none", "open", "merged", "reopened"}]
      BY <1>1, <2>1, BackedByProvider DEF MergeInv
  <2>3. t \in Backed'
      BY <1>2, <2>1 DEF Backed, MergeInv, RowsOK
  <2>4. Plan(Merged(t), Backed', TRUE)
      BY <2>3, MergedPlan
  <2> QED  BY <1>1, <1>3, <2>2, <2>4, ProviderProceeds
<1>4. CASE pr' = pr /\ Raise(a)
  <2>1. Backed \subseteq Backed' /\ pr' \in [Tasks -> {"none", "open", "merged", "reopened"}]
      BY <1>1, <1>4, BackedByProvider DEF MergeInv
  <2>2. Plan(<<>>, Backed', TRUE)
      BY PlanEmpty
  <2> QED  BY <1>1, <1>4, <2>1, <2>2, ProviderProceeds
<1> QED  BY <1>3, <1>4 DEF ApproveMerge

LEMMA OpenMerges == ASSUME MergeInv, NEW a \in Actors, OpenPullRequest(a) PROVE MergeInv'
<1>1. Doing(a, "open") /\ UNCHANGED <<task, astray>> /\ Then(a, <<>>)
    BY DEF OpenPullRequest, rows, hist
<1>2. Backed \subseteq Backed' /\ pr' \in [Tasks -> {"none", "open", "merged", "reopened"}]
  <2> DEFINE t == It(a).t
  <2>1. \/ pr' = pr
        \/ pr' = [pr EXCEPT ![t] = IF @ \in {"merged", "reopened"} THEN "reopened" ELSE "open"]
      BY DEF OpenPullRequest
  <2> HIDE DEF t
  <2> QED  BY <1>1, <2>1, BackedByProvider DEF MergeInv
<1>3. Plan(<<>>, Backed', TRUE)
    BY PlanEmpty
<1> QED  BY <1>1, <1>2, <1>3, ProviderProceeds

LEMMA RemoteMerges == ASSUME MergeInv, NEW t \in Tasks, RemoteMerge(t) PROVE MergeInv'
<1>1. UNCHANGED <<task, astray, agenda>> /\ pr' = [pr EXCEPT ![t] = "merged"]
    BY DEF RemoteMerge, rows, hist
<1>2. Backed \subseteq Backed' /\ pr' \in [Tasks -> {"none", "open", "merged", "reopened"}]
    BY <1>1, BackedByProvider DEF MergeInv
<1>3. \A q : Plan(q, Backed, TRUE) => Plan(q, Backed', TRUE)
    BY <1>2, PlanGrows
<1>4. PlansOK'
    BY <1>1, <1>3 DEF MergeInv, PlansOK, SplitPlan, Put
<1> QED  BY <1>1, <1>2, <1>4 DEF MergeInv, RowsOK, MergesBacked

\* The first statement of a split, and what is left of it.
LEMMA SplitHead ==
    ASSUME LifecycleAssumption, NEW q, SplitPlan(q)
    PROVE  /\ q \in Seq({q[i] : i \in DOMAIN q}) /\ q # <<>> /\ Head(q) = q[1]
           /\ Len(q) \in Nat
           /\ Head(q).op = "write" /\ ~Head(q).v.tracked
           /\ \/ Len(q) > 2 /\ Head(q).t \in Kids
              \/ Len(q) = 2 /\ Head(q) = Put(Parent, [split |-> TRUE])
<1>1. IsSeq(q) /\ Len(q) \in Nat /\ Len(q) >= 2
    BY DEF SplitPlan, IsSeq
<1>2. q \in Seq({q[i] : i \in DOMAIN q}) /\ q # <<>> /\ Head(q) = q[1]
    BY <1>1 DEF IsSeq
<1>3. Len(q) = 2 \/ Len(q) > 2
  <2> DEFINE n == Len(q)
  <2>1. n \in Nat /\ n >= 2
      BY <1>1
  <2> HIDE DEF n
  <2>2. n = 2 \/ n > 2
      BY <2>1
  <2> QED  BY <2>2 DEF n
<1>4. CASE Len(q) = 2
  <2>1. q[1] = Put(Parent, [split |-> TRUE])
      BY <1>4 DEF SplitPlan
  <2>2. Put(Parent, [split |-> TRUE]).op = "write" /\ ~Put(Parent, [split |-> TRUE]).v.tracked
      BY DEF Put, S
  <2> QED  BY <1>1, <1>2, <1>4, <2>1, <2>2
<1>5. CASE Len(q) > 2
  <2>1. 1 \in 1..(Len(q) - 2)
      BY <1>1, <1>5
  <2>2. q[1].op = "write" /\ q[1].t \in Kids /\ ~q[1].v.tracked
      BY <2>1 DEF SplitPlan
  <2> QED  BY <1>1, <1>2, <1>5, <2>2
<1> QED  BY <1>3, <1>4, <1>5

LEMMA WriteAllowed ==
    ASSUME MergeInv, LifecycleAssumption, NEW a \in Actors, Doing(a, "write")
    PROVE  Allowed(It(a), Backed)
<1>1. CASE Plan(agenda[a], Backed, TRUE)
    BY <1>1, PlanTail DEF Doing, It, Fits
<1>2. CASE SplitPlan(agenda[a])
  <2> DEFINE s == Head(agenda[a])
  <2>1. s.op = "write" /\ ~s.v.tracked /\ (s.t \in Kids \/ s = Put(Parent, [split |-> TRUE]))
      BY <1>2, SplitHead
  <2>2. CASE s.t \in Kids
    <3>1. s.t # Parent
        BY <2>2 DEF LifecycleAssumption
    <3> HIDE DEF s
    <3>2. Allowed(s, Backed)
        BY <2>1, <3>1 DEF Allowed
    <3> QED  BY <3>2 DEF s, It
  <2>3. CASE s = Put(Parent, [split |-> TRUE])
    <3> HIDE DEF s
    <3>1. Allowed(s, Backed)
        BY <2>3 DEF Allowed, Put, S
    <3> QED  BY <3>1 DEF s, It
  <2> QED  BY <2>1, <2>2, <2>3
<1> QED  BY <1>1, <1>2 DEF MergeInv, PlansOK

\* A write leaves every row its fields, what is backed stays backed, and a task becomes
\* merged only when it is backed or the write is astray.
LEMMA WriteRows ==
    ASSUME MergeInv, LifecycleAssumption, NEW a \in Actors, WriteTask(a)
    PROVE  /\ \A t \in Tasks : {"status", "split"} \subseteq DOMAIN task'[t]
           /\ DOMAIN task' = Tasks /\ pr' = pr
           /\ Backed \subseteq Backed' /\ MergesBacked'
<1> DEFINE t == It(a).t
           w == It(a).v
           row == Updated(task[t], w.fields)
           stray == /\ "status" \in DOMAIN w.fields
                    /\ \/ Outlived(a)
                       \/ w.read \notin {None, task[t].status}
                       \/ ~w.tracked /\ row.status \in {"merged", "failed"}
<1>1. Doing(a, "write") /\ pr' = pr
    BY DEF WriteTask
<1>2. task' = [task EXCEPT ![t] = row]
    BY DEF WriteTask
<1>3. astray' = IF stray THEN astray \cup {t} ELSE astray
    BY DEF WriteTask
<1>4. Allowed(It(a), Backed) /\ It(a).op = "write"
    BY <1>1, WriteAllowed DEF Doing, It
<1>5. "split" \in DOMAIN w.fields /\ t = Parent => w.fields.split
    BY <1>4 DEF Allowed
<1>6. w.tracked /\ "status" \in DOMAIN w.fields => (w.fields.status = "merged" => t \in Backed)
    BY <1>4 DEF Allowed
<1>7. DOMAIN task = Tasks /\ \A u \in Tasks : {"status", "split"} \subseteq DOMAIN task[u]
    BY DEF MergeInv, RowsOK
<1>8. t \in Tasks =>
         /\ {"status", "split"} \subseteq DOMAIN row
         /\ row.split = IF "split" \in DOMAIN w.fields THEN w.fields.split ELSE task[t].split
         /\ row.status = IF "status" \in DOMAIN w.fields THEN w.fields.status ELSE task[t].status
    BY <1>7 DEF Updated
<1> HIDE DEF t, w, row
<1>9. DOMAIN task' = Tasks /\ \A u \in Tasks : task'[u] = IF u = t THEN row ELSE task[u]
    BY <1>2, <1>7
<1>10. \A u \in Tasks : {"status", "split"} \subseteq DOMAIN task'[u]
    BY <1>7, <1>8, <1>9
<1>11. Backed \subseteq Backed'
  <2> SUFFICES ASSUME NEW u \in Backed PROVE u \in Backed'
      OBVIOUS
  <2>1. u \in Tasks /\ (pr[u] \in {"merged", "reopened"} \/ (u = Parent /\ task[Parent].split))
      BY DEF Backed
  <2>2. CASE pr[u] \in {"merged", "reopened"}
      BY <1>1, <2>1, <2>2 DEF Backed
  <2>3. CASE u = Parent /\ task[Parent].split
    <3>1. CASE t = Parent
      <4>1. task'[Parent].split = row.split
          BY <1>9, <2>1, <2>3, <3>1
      <4>2. row.split
        <5>1. CASE "split" \in DOMAIN w.fields
            BY <1>5, <1>8, <2>1, <2>3, <3>1, <5>1
        <5>2. CASE "split" \notin DOMAIN w.fields
            BY <1>8, <2>1, <2>3, <3>1, <5>2
        <5> QED  BY <5>1, <5>2
      <4> QED  BY <2>1, <2>3, <4>1, <4>2 DEF Backed
    <3>2. CASE t # Parent
      <4>1. task'[Parent] = task[Parent]
          BY <1>9, <2>1, <2>3, <3>2
      <4> QED  BY <2>1, <2>3, <4>1 DEF Backed
    <3> QED  BY <3>1, <3>2
  <2> QED  BY <2>1, <2>2, <2>3
<1>12. \A u \in Tasks : task'[u].status = "merged" => u \in astray' \cup Backed'
  <2> SUFFICES ASSUME NEW u \in Tasks, task'[u].status = "merged" PROVE u \in astray' \cup Backed'
      OBVIOUS
  <2>1. task[u].status = "merged" => u \in astray \cup Backed
      BY DEF MergeInv, MergesBacked
  <2>2. astray \subseteq astray'
    <3> HIDE DEF stray
    <3> QED  BY <1>3
  <2>3. CASE u # t
      BY <1>9, <1>11, <2>1, <2>2, <2>3
  <2>4. CASE u = t
    <3>1. row.status = "merged"
        BY <1>9, <2>4
    <3>2. CASE "status" \notin DOMAIN w.fields
        BY <1>8, <1>11, <2>1, <2>2, <2>4, <3>1, <3>2
    <3>3. CASE "status" \in DOMAIN w.fields /\ w.tracked
        BY <1>6, <1>8, <1>11, <2>4, <3>1, <3>3
    <3>4. CASE "status" \in DOMAIN w.fields /\ ~w.tracked
      <4>1. stray
          BY <3>1, <3>4
      <4> QED  BY <1>3, <2>4, <4>1
    <3> QED  BY <3>2, <3>3, <3>4
  <2> QED  BY <2>3, <2>4
<1> QED  BY <1>1, <1>9, <1>10, <1>11, <1>12 DEF MergesBacked

\* What is left of a split after its first statement: the same with a child less, or,
\* once the parent is marked, the listing of its children.
LEMMA SplitTail ==
    ASSUME LifecycleAssumption, NEW q, SplitPlan(q), NEW B, Len(q) = 2 => Parent \in B
    PROVE  Plan(Settle(<<>> \o Tail(q)), B, TRUE) \/ SplitPlan(Settle(<<>> \o Tail(q)))
<1> DEFINE T == {q[i] : i \in DOMAIN q}
           r == Tail(q)
<1>1. q \in Seq(T) /\ q # <<>> /\ Len(q) \in Nat /\ Len(q) >= 2 /\ (Len(q) > 2 \/ Len(q) = 2)
    BY SplitHead DEF SplitPlan
<1> HIDE DEF T
<1>2. r \in Seq(T) /\ Len(r) = Len(q) - 1 /\ \A i \in 1..Len(r) : r[i] = q[i + 1]
    BY <1>1, HeadTailProperties
<1>3. <<>> \o r = r
    BY <1>2
<1>4. CASE Len(q) = 2
  <2>1. q[2] = S("list", Parent, None)
      BY <1>4 DEF SplitPlan
  <2>2. Fits(S("list", Parent, None), B, TRUE)
      BY <1>4 DEF Fits, Allowed, S
  <2>3. IsSeq(r)
      BY <1>2, SeqIsSeq
  <2>4. DOMAIN r = {1} /\ r[1] = q[2]
    <3>1. Len(r) = 1
        BY <1>2, <1>4
    <3> HIDE DEF r
    <3>2. r[1] = q[1 + 1]
      <4>1. 1 \in 1..Len(r)
          BY <3>1
      <4>2. \A i \in 1..Len(r) : r[i] = q[i + 1]
          BY <1>2
      <4> QED  BY <4>1, <4>2
    <3>3. DOMAIN r = 1..Len(r)
        BY <1>2
    <3>4. 1..1 = {1} /\ 1 + 1 = 2
        OBVIOUS
    <3>5. DOMAIN r = {1}
        BY <3>1, <3>3, <3>4
    <3>6. r[1] = q[2]
        BY <3>2, <3>4
    <3> QED  BY <3>5, <3>6
  <2> HIDE DEF r
  <2>5. Plan(r, B, TRUE)
      BY <2>1, <2>2, <2>3, <2>4 DEF Plan
  <2> QED  BY <1>3, <2>5, PlanSettle DEF r
<1>5. CASE Len(q) > 2
  <2> DEFINE n == Len(q)
  <2>1. n \in Nat /\ n > 2 /\ Len(r) = n - 1
      BY <1>1, <1>2, <1>5
  <2>2. \A i \in 1..(n - 2) : q[i].op = "write" /\ q[i].t \in Kids /\ ~q[i].v.tracked
      BY DEF SplitPlan
  <2>3. q[n] = S("list", Parent, None) /\ q[n - 1] = Put(Parent, [split |-> TRUE])
      BY DEF SplitPlan
  <2> HIDE DEF n, r
  <2>4. \A i \in 1..(n - 1) : r[i] = q[i + 1]
      BY <1>2, <2>1
  <2>5. r[n - 1] = q[n] /\ r[n - 2] = q[n - 1]
      BY <2>1, <2>4, SMTT(30)
  <2>6. \A i \in 1..(n - 3) : r[i].op = "write" /\ r[i].t \in Kids /\ ~r[i].v.tracked
    <3> TAKE i \in 1..(n - 3)
    <3>1. i \in 1..(n - 1) /\ i + 1 \in 1..(n - 2)
        BY <2>1
    <3> QED  BY <2>2, <2>4, <3>1
  <2>7. SplitPlan(r)
    <3>1. IsSeq(r)
        BY <1>2, SeqIsSeq
    <3>2. Len(r) >= 2 /\ Len(r) - 1 = n - 2 /\ Len(r) - 2 = n - 3
        BY <2>1
    <3> QED  BY <2>1, <2>3, <2>5, <2>6, <3>1, <3>2 DEF SplitPlan
  <2>8. r[1].op # "catch"
    <3>1. Head(r) = r[1] /\ Head(r).op = "write"
        BY <2>7, SplitHead
    <3> QED  BY <3>1
  <2>9. Settle(r) = r
    <3> DEFINE busy == {i \in 1..Len(r) : r[i].op # "catch"}
    <3>1. 1 \in busy /\ busy \subseteq Nat /\ \A i \in busy : 1 <= i
        BY <2>1, <2>8
    <3>2. Min(busy) \in busy /\ \A i \in busy : Min(busy) <= i
        BY <3>1, LeastNatural
    <3>3. Min(busy) = 1
      <4> DEFINE m == Min(busy)
      <4>1. m \in Nat /\ m <= 1 /\ 1 <= m
          BY <3>1, <3>2
      <4> HIDE DEF m
      <4>2. m = 1
          BY <4>1
      <4> QED  BY <4>2 DEF m
    <3>4. Settle(r) = SubSeq(r, Min(busy), Len(r))
        BY <3>1 DEF Settle
    <3> HIDE DEF busy
    <3>5. SubSeq(r, 1, Len(r)) = r
        BY <1>2, SubSeqFull
    <3> QED  BY <3>3, <3>4, <3>5
  <2> QED  BY <1>3, <2>7, <2>9 DEF r
<1> QED  BY <1>1, <1>4, <1>5

LEMMA WriteTaskMerges == ASSUME MergeInv, LifecycleAssumption, NEW a \in Actors, WriteTask(a) PROVE MergeInv'
<1>1. /\ \A t \in Tasks : {"status", "split"} \subseteq DOMAIN task'[t]
      /\ DOMAIN task' = Tasks /\ pr' = pr
      /\ Backed \subseteq Backed' /\ MergesBacked'
    BY WriteRows
<1> DEFINE s == It(a)
           told == s.v.tracked /\ s.t \in Kids /\ Updated(task[s.t], s.v.fields).status \in {"merged", "failed"}
           stmts == IF told THEN <<S("terminal", s.t, Updated(task[s.t], s.v.fields).status)>> ELSE <<>>
<1>2. Doing(a, "write") /\ agenda' = [agenda EXCEPT ![a] = Settle(stmts \o Tail(agenda[a]))]
    BY DEF WriteTask, Then
<1>3. Plan(stmts, Backed', TRUE)
    BY PlainPlan, PlanEmpty
<1>4. CASE Plan(agenda[a], Backed, TRUE)
  <2>1. Plan(Tail(agenda[a]), Backed, TRUE)
      BY <1>2, <1>4, PlanTail DEF Doing
  <2>2. Plan(Tail(agenda[a]), Backed', TRUE)
      BY <1>1, <2>1, PlanGrows
  <2> HIDE DEF stmts
  <2>3. Plan(Settle(stmts \o Tail(agenda[a])), Backed', TRUE)
      BY <1>3, <2>2, PlanConcat, PlanSettle
  <2>4. PlansOK' /\ DOMAIN agenda' = Actors
      BY <1>1, <1>2, <2>3, AgendaMoves
  <2> QED  BY <1>1, <2>4 DEF MergeInv, RowsOK
<1>5. CASE a = Parent /\ SplitPlan(agenda[a])
  <2> DEFINE q == agenda[a]
  <2>1. s = Head(q) /\ ~s.v.tracked /\ (Len(q) = 2 => s = Put(Parent, [split |-> TRUE]))
    <3> DEFINE n == Len(q)
    <3>1. /\ ~Head(q).v.tracked
          /\ n > 2 \/ Head(q) = Put(Parent, [split |-> TRUE])
        BY <1>5, SplitHead
    <3>2. s = Head(q)
        BY DEF It
    <3> HIDE DEF q, n, s
    <3>3. ~(n > 2 /\ n = 2)
        OBVIOUS
    <3>4. n = 2 => Head(q) = Put(Parent, [split |-> TRUE])
        BY <3>1, <3>3
    <3> QED  BY <3>1, <3>2, <3>4 DEF n
  <2>2. stmts = <<>>
      BY <2>1
  <2>3. Len(q) = 2 => Parent \in Backed'
    <3> SUFFICES ASSUME Len(q) = 2 PROVE Parent \in Backed'
        OBVIOUS
    <3>1. s.t = Parent /\ s.v.fields = [split |-> TRUE]
      <4>1. s = Put(Parent, [split |-> TRUE])
          BY <2>1
      <4> HIDE DEF s
      <4> QED  BY <4>1 DEF Put, S
    <3>2. Parent \in Tasks /\ Parent \in DOMAIN task
        BY DEF Tasks, MergeInv, RowsOK
    <3>3. task'[Parent] = Updated(task[Parent], [split |-> TRUE])
        BY <3>1, <3>2 DEF WriteTask
    <3>4. task'[Parent].split
        BY <3>3 DEF Updated
    <3> QED  BY <3>2, <3>4 DEF Backed
  <2>4. \/ Plan(Settle(<<>> \o Tail(q)), Backed', TRUE)
        \/ SplitPlan(Settle(<<>> \o Tail(q)))
      BY <1>5, <2>3, SplitTail
  <2> DEFINE n == Settle(<<>> \o Tail(q))
  <2>5. agenda' = [agenda EXCEPT ![a] = n]
      BY <1>2, <2>2
  <2> HIDE DEF n, q
  <2>6. DOMAIN agenda' = Actors /\ \A b \in Actors : agenda'[b] = IF b = a THEN n ELSE agenda[b]
      BY <2>5 DEF MergeInv, RowsOK
  <2>7. \A b \in Actors : Plan(agenda'[b], Backed', TRUE) \/ (b = Parent /\ SplitPlan(agenda'[b]))
    <3> TAKE b \in Actors
    <3>1. CASE b = a
        BY <1>5, <2>4, <2>6, <3>1 DEF n
    <3>2. CASE b # a
      <4>1. Plan(agenda[b], Backed, TRUE) \/ (b = Parent /\ SplitPlan(agenda[b]))
          BY DEF MergeInv, PlansOK
      <4> QED  BY <1>1, <1>5, <2>6, <3>2, <4>1, PlanGrows
    <3> QED  BY <3>1, <3>2
  <2>8. PlansOK'
      BY <2>7 DEF PlansOK, SplitPlan, Put
  <2> QED  BY <1>1, <2>6, <2>8 DEF MergeInv, RowsOK
<1> QED  BY <1>4, <1>5 DEF MergeInv, PlansOK

\* A guardrail blocks a task, or its time is up.
LEMMA DisturbedMerges ==
    ASSUME MergeInv, NEW t \in Tasks, TimeLimitPasses(t) \/ EventVolumeTrips(t) PROVE MergeInv'
<1>1. UNCHANGED <<pr, astray, agenda>>
    BY DEF TimeLimitPasses, EventVolumeTrips, hist
<1>2. \A u \in Tasks : {"status", "split"} \subseteq DOMAIN task[u]
    BY DEF MergeInv, RowsOK
<1>3. /\ DOMAIN task' = Tasks
      /\ \A u \in Tasks : /\ DOMAIN task'[u] = DOMAIN task[u] /\ task'[u].split = task[u].split
                          /\ task'[u].status \in {task[u].status, "blocked"}
  <2>1. CASE TimeLimitPasses(t)
      BY <1>2, <2>1 DEF TimeLimitPasses, MergeInv, RowsOK
  <2>2. CASE EventVolumeTrips(t)
      BY <1>2, <2>2 DEF EventVolumeTrips, MergeInv, RowsOK
  <2> QED  BY <2>1, <2>2
<1>4. Backed' = Backed
    BY <1>1, <1>3 DEF Backed
<1>5. RowsOK'
    BY <1>1, <1>2, <1>3 DEF MergeInv, RowsOK
<1>6. PlansOK'
    BY <1>1, <1>4 DEF MergeInv, PlansOK, SplitPlan, Put
<1>7. MergesBacked'
  <2> SUFFICES ASSUME NEW u \in Tasks, task'[u].status = "merged" PROVE u \in astray' \cup Backed'
      BY DEF MergesBacked
  <2>1. task[u].status = "merged"
      BY <1>3
  <2> QED  BY <1>1, <1>4, <2>1 DEF MergeInv, MergesBacked
<1> QED  BY <1>5, <1>6, <1>7 DEF MergeInv

-----------------------------------------------------------------------------
(***************************************************************************)
(* Requests and runs.                                                       *)
(***************************************************************************)
LEMMA UpdatePlan ==
    ASSUME NEW B, NEW deep, NEW t, NEW fields, "split" \notin DOMAIN fields
    PROVE  Plan(<<S("update", t, fields)>>, B, deep)
BY UpdateFits, PlanOne

LEMMA PutPlan ==
    ASSUME NEW B, NEW deep, NEW t, NEW fields, "split" \notin DOMAIN fields
    PROVE  Plan(<<Put(t, fields)>>, B, deep)
BY PutFits, PlanOne

LEMMA SpecChangesPlan == ASSUME NEW B, NEW deep, NEW t PROVE Plan(SpecChanges(t), B, deep)
BY UpdatePlan DEF SpecChanges

LEMMA ActionPlan ==
    ASSUME NEW t, NEW status, NEW action \in AvailableActions(status)
    PROVE  Plan(ActionBody(t, action), Backed, TRUE)
<1>1. action \in {"approve_spec", "request_changes", "cancel", "retry_blocked", "retry", "execute", "pause"}
    BY DEF AvailableActions
<1>2. CASE action = "approve_spec"
  <2>1. /\ Fits(S("update", t, [status |-> "coding", spec |-> "approved"]), Backed, TRUE)
        /\ Fits(S("execute", t, None), Backed, TRUE)
      BY UpdateFits, PlainFits
  <2>2. Plan(<<S("update", t, [status |-> "coding", spec |-> "approved"]), S("execute", t, None)>>, Backed, TRUE)
      BY <2>1, PlanTwo
  <2> QED  BY <1>2, <2>2 DEF ActionBody
<1>3. CASE action = "request_changes"
  <2>1. Plan(<<S("limit", t, "cycles")>>, Backed, TRUE) /\ Plan(SpecChanges(t), Backed, TRUE)
      BY PlainPlan, SpecChangesPlan
  <2>2. Plan(<<S("mark", t, "cycles"), S("execute", t, None)>>, Backed, TRUE)
      BY PlainFits, PlanTwo
  <2>3. Plan(<<S("limit", t, "cycles")>> \o SpecChanges(t) \o <<S("mark", t, "cycles"), S("execute", t, None)>>,
             Backed, TRUE)
      BY <2>1, <2>2, PlanConcat
  <2> QED  BY <1>3, <2>3 DEF ActionBody
<1>4. CASE action = "retry_blocked"
  <2> DEFINE op == IF task[t].blockedChild # None THEN "retryParent" ELSE "retry"
  <2>1. op \in {"retryParent", "retry"}
      OBVIOUS
  <2>2. ActionBody(t, action) = <<S(op, t, None)>>
      BY <1>4 DEF ActionBody
  <2> HIDE DEF op
  <2>3. Plan(<<S(op, t, None)>>, Backed, TRUE)
      BY <2>1, PlainPlan
  <2> QED  BY <2>2, <2>3
<1>5. CASE action \in {"cancel", "retry", "execute", "pause"}
  <2>1. ActionBody(t, action) = <<S(action, t, None)>>
      BY <1>5 DEF ActionBody
  <2>2. Plan(<<S(action, t, None)>>, Backed, TRUE)
      BY <1>5, PlainPlan
  <2> QED  BY <2>1, <2>2
<1> QED  BY <1>1, <1>2, <1>3, <1>4, <1>5

LEMMA DispatchMerges == ASSUME MergeInv, NEW a \in Actors, Dispatch(a) PROVE MergeInv'
<1> DEFINE t == It(a).t
           action == It(a).v.action
           record == <<S("record", t, It(a).v.key)>>
           stmts == ActionBody(t, action) \o record
<1>1. Doing(a, "dispatch") /\ UNCHANGED <<task, pr, astray>>
    BY DEF Dispatch, OnlyAgenda, rows, hist
<1>2. Plan(<<>>, Backed, TRUE)
    BY PlanEmpty
<1>3. CASE Then(a, <<>>) \/ Raise(a)
    BY <1>1, <1>2, <1>3, Proceeds
<1>4. CASE action \in AvailableActions(task[t].status) /\ Then(a, stmts)
  <2>1. Plan(ActionBody(t, action), Backed, TRUE)
      BY <1>4, ActionPlan
  <2>2. Plan(record, Backed, TRUE)
      BY PlainPlan
  <2>3. Plan(stmts, Backed, TRUE)
    <3> HIDE DEF record, action, t
    <3> QED  BY <2>1, <2>2, PlanConcat
  <2> HIDE DEF stmts
  <2> QED  BY <1>1, <1>4, <2>3, Proceeds
<1> QED  BY <1>3, <1>4 DEF Dispatch

\* A request that arrives.
LEMMA ArrivesMerges ==
    ASSUME MergeInv, NEW c \in Callers, NEW stmts, Plan(stmts, Backed, TRUE), Arrives(c, stmts)
    PROVE  MergeInv'
<1>1. UNCHANGED <<task, pr, astray>> /\ agenda' = [agenda EXCEPT ![c] = stmts] /\ c \in Actors
    BY DEF Arrives, rows, hist, Actors
<1>2. Backed' = Backed
    BY <1>1, BackedStays DEF MergeInv
<1>3. PlansOK' /\ DOMAIN agenda' = Actors
    BY <1>1, <1>2, AgendaMoves
<1> QED  BY <1>1, <1>2, <1>3 DEF MergeInv, RowsOK, MergesBacked

LEMMA RequestMerges ==
    ASSUME MergeInv, NEW c \in Callers, NEW t \in Tasks, NEW request,
           request \in {"execute", "retry", "approve", "sync", "review", "cancel", "retryParent"},
           RequestArrives(c, t, request)
    PROVE  MergeInv'
<1> DEFINE stmts == <<S(request, t, None)>>
<1>1. Arrives(c, stmts)
    BY DEF RequestArrives
<1>2. Fits(S(request, t, None), Backed, TRUE)
    BY DEF Fits, Allowed, S
<1>3. Plan(stmts, Backed, TRUE)
    BY <1>2, PlanOne
<1> HIDE DEF stmts
<1> QED  BY <1>1, <1>3, ArrivesMerges

LEMMA RejectMerges == ASSUME MergeInv, NEW c \in Callers, NEW t, RejectArrives(c, t) PROVE MergeInv'
<1> DEFINE first == <<S("limit", t, "rejections"), S("update", t, [status |-> "fixing"]), S("mark", t, "rejections")>>
           last == <<S("clear", t, None), S("execute", t, None)>>
           stmts == RejectBody(t)
<1>1. Arrives(c, stmts)
    BY DEF RejectArrives
<1>2. Plan(first, Backed, TRUE)
    BY PlainFits, UpdateFits, PlanThree
<1>3. Plan(last, Backed, TRUE)
    BY PlainFits, PlanTwo
<1>4. stmts = first \o last
    BY DEF RejectBody
<1> HIDE DEF first, last, stmts
<1>5. Plan(stmts, Backed, TRUE)
    BY <1>2, <1>3, <1>4, PlanConcat
<1> QED  BY <1>1, <1>5, ArrivesMerges

LEMMA ClarifyMerges == ASSUME MergeInv, NEW c \in Callers, NEW t, ClarifyArrives(c, t) PROVE MergeInv'
<1> DEFINE stmts == ClarifyBody(t)
<1>1. Arrives(c, stmts)
    BY DEF ClarifyArrives
<1> DEFINE fields == [spec |-> "none", pausedStep |-> "",
                      status |-> IF task[t].pausedStep = "implement" THEN "coding" ELSE "analyzing"]
<1>2. "split" \notin DOMAIN fields /\ stmts = <<Put(t, fields), S("execute", t, None)>>
    BY DEF ClarifyBody
<1> HIDE DEF fields, stmts
<1>3. Fits(Put(t, fields), Backed, TRUE) /\ Fits(S("execute", t, None), Backed, TRUE)
    BY <1>2, PutFits, PlainFits
<1>4. Plan(stmts, Backed, TRUE)
    BY <1>2, <1>3, PlanTwo
<1> QED  BY <1>1, <1>4, ArrivesMerges

LEMMA ChangesMerges == ASSUME MergeInv, NEW c \in Callers, NEW t, ChangesArrive(c, t) PROVE MergeInv'
<1> DEFINE stmts == SpecChanges(t) \o <<S("execute", t, None)>>
<1>1. Arrives(c, stmts)
    BY DEF ChangesArrive
<1>2. Plan(stmts, Backed, TRUE)
    BY SpecChangesPlan, PlainPlan, PlanConcat
<1> HIDE DEF stmts
<1> QED  BY <1>1, <1>2, ArrivesMerges

LEMMA UpdateMerges == ASSUME MergeInv, NEW c \in Callers, NEW t, NEW s, UpdateArrives(c, t, s) PROVE MergeInv'
<1> DEFINE stmts == <<S("update", t, [status |-> s])>>
<1>1. Arrives(c, stmts)
    BY DEF UpdateArrives
<1>2. Plan(stmts, Backed, TRUE)
    BY UpdatePlan
<1> HIDE DEF stmts
<1> QED  BY <1>1, <1>2, ArrivesMerges

LEMMA AnalyzeMerges ==
    ASSUME MergeInv, NEW c \in Callers, NEW t, NEW gate, AnalyzeArrives(c, t, gate) PROVE MergeInv'
<1> DEFINE stmts == AnalyzeBody(t, gate)
<1>1. Arrives(c, stmts)
    BY DEF AnalyzeArrives
<1>2. /\ \A g, s : Fits(Put(t, [spec |-> g, status |-> s]), Backed, TRUE)
      /\ Fits(S("execute", t, None), Backed, TRUE)
    BY PutFits, PlainFits
<1>3. /\ Plan(<<Put(t, [spec |-> gate, status |-> "coding"]), S("execute", t, None)>>, Backed, TRUE)
      /\ Plan(<<Put(t, [spec |-> gate, status |-> "coding"])>>, Backed, TRUE)
      /\ Plan(<<Put(t, [spec |-> gate, status |-> "spec_review"])>>, Backed, TRUE)
    BY <1>2, PlanOne, PlanTwo
<1>4. Plan(stmts, Backed, TRUE)
    BY <1>3 DEF AnalyzeBody
<1> HIDE DEF stmts
<1> QED  BY <1>1, <1>4, ArrivesMerges

LEMMA ActionMerges ==
    ASSUME MergeInv, NEW c \in Callers, NEW t, NEW action, NEW r, ActionArrives(c, t, action, r) PROVE MergeInv'
<1> DEFINE stmts == <<S("dispatch", t, [key |-> r, action |-> action])>>
<1>1. Arrives(c, stmts)
    BY DEF ActionArrives
<1>2. Plan(stmts, Backed, TRUE)
    BY PlainPlan
<1> HIDE DEF stmts
<1> QED  BY <1>1, <1>2, ArrivesMerges

\* A run that takes up statements, with a handler for what is refused.
LEMMA RunMoves ==
    ASSUME MergeInv, NEW t \in Tasks, UNCHANGED <<task, pr, astray>>, NEW q, Plan(q, Backed, TRUE),
           agenda' = [agenda EXCEPT ![t] = q]
    PROVE  MergeInv'
<1>1. Backed' = Backed
    BY BackedStays DEF MergeInv
<1>2. t \in Actors
    BY DEF Actors
<1>3. PlansOK' /\ DOMAIN agenda' = Actors
    BY <1>1, <1>2, AgendaMoves
<1> QED  BY <1>1, <1>3 DEF MergeInv, RowsOK, MergesBacked

LEMMA StepsMerge ==
    ASSUME MergeInv, NEW t \in Tasks, NEW stmts, Plan(stmts, Backed, TRUE), Steps(t, stmts)
    PROVE  MergeInv'
<1> DEFINE handler == <<S("refused", t, None)>> \o Fails(t)
           q == Settle(OrElse(stmts, handler))
<1>1. Plan(handler, Backed, FALSE)
    BY PlainPlan, FailsPlan, PlanConcat
<1>2. UNCHANGED <<task, pr, astray>> /\ agenda' = [agenda EXCEPT ![t] = q]
    BY DEF Steps, rows, hist
<1>3. Plan(q, Backed, TRUE)
  <2> HIDE DEF handler
  <2> QED  BY <1>1, OrElsePlan, PlanSettle
<1> HIDE DEF q
<1> QED  BY <1>2, <1>3, RunMoves

LEMMA SpecStepMerges == ASSUME MergeInv, NEW t \in Tasks, SpecStep(t) PROVE MergeInv'
<1> DEFINE entry == IF task[t].status \in {"context_loading", "todo"}
                    THEN <<Put(t, [status |-> "analyzing"])>> ELSE <<>>
           auto == <<Put(t, [spec |-> "auto_approved"])>>
           gate == <<Put(t, [spec |-> "pending_review", status |-> "spec_review"])>>
<1>1. Plan(entry, Backed, TRUE)
    BY PutPlan, PlanEmpty
<1>2. Plan(auto, Backed, TRUE) /\ Plan(gate, Backed, TRUE)
    BY PutPlan
<1>3. Plan(Advances(t, 1), Backed, TRUE) /\ Plan(Pauses(t), Backed, TRUE)
    BY AdvancesPlan, PausesPlan
<1>4. \/ Steps(t, entry \o Advances(t, 1))
      \/ Steps(t, entry \o auto \o Advances(t, 1))
      \/ Steps(t, entry \o gate \o Pauses(t))
    BY DEF SpecStep
<1> HIDE DEF entry, auto, gate
<1>5. /\ Plan(entry \o Advances(t, 1), Backed, TRUE)
      /\ Plan(entry \o auto \o Advances(t, 1), Backed, TRUE)
      /\ Plan(entry \o gate \o Pauses(t), Backed, TRUE)
    BY <1>1, <1>2, <1>3, PlanConcat
<1> QED  BY <1>4, <1>5, StepsMerge

LEMMA ClarificationMerges == ASSUME MergeInv, NEW t \in Tasks, ClarificationStep(t) PROVE MergeInv'
<1> DEFINE fields == [spec |-> "clarification_required",
                      pausedStep |-> IF stage[t] = 0 THEN "spec" ELSE "implement"]
           asks == <<Put(t, fields)>>
<1>1. Steps(t, asks \o Pauses(t))
    BY DEF ClarificationStep
<1>2. "split" \notin DOMAIN fields
    OBVIOUS
<1>3. Plan(asks, Backed, TRUE)
  <2> HIDE DEF fields
  <2> QED  BY <1>2, PutPlan
<1> HIDE DEF asks
<1>4. Plan(asks \o Pauses(t), Backed, TRUE)
    BY <1>3, PausesPlan, PlanConcat
<1> QED  BY <1>1, <1>4, StepsMerge

LEMMA ImplementMerges == ASSUME MergeInv, NEW t \in Tasks, ImplementStep(t) PROVE MergeInv'
<1> DEFINE entry == IF flow[t].parallel THEN <<S("status", t, "reviewing")>> ELSE <<>>
           n == IF flow[t].reviewed THEN 2 ELSE 3
<1>1. Steps(t, entry \o Advances(t, n))
    BY DEF ImplementStep
<1>2. Plan(entry, Backed, TRUE)
    BY StatusPlan, PlanEmpty
<1> HIDE DEF entry, n
<1>3. Plan(entry \o Advances(t, n), Backed, TRUE)
    BY <1>2, AdvancesPlan, PlanConcat
<1> QED  BY <1>1, <1>3, StepsMerge

LEMMA CrossReviewMerges == ASSUME MergeInv, NEW t \in Tasks, CrossReviewStep(t) PROVE MergeInv'
<1> DEFINE passes == <<S("status", t, "human_review")>>
           returns == <<S("status", t, "coding")>>
<1>1. Steps(t, passes \o Advances(t, 3)) \/ Steps(t, returns \o Advances(t, 1))
    BY DEF CrossReviewStep
<1>2. Plan(passes, Backed, TRUE) /\ Plan(returns, Backed, TRUE)
    BY StatusPlan
<1> HIDE DEF passes, returns
<1>3. Plan(passes \o Advances(t, 3), Backed, TRUE) /\ Plan(returns \o Advances(t, 1), Backed, TRUE)
    BY <1>2, AdvancesPlan, PlanConcat
<1> QED  BY <1>1, <1>3, StepsMerge

LEMMA MergeRequestMerges == ASSUME MergeInv, NEW t \in Tasks, MergeRequestStep(t) PROVE MergeInv'
<1> DEFINE opens == <<S("open", t, None), S("status", t, "pr_ready")>>
<1>1. Steps(t, opens \o Pauses(t))
    BY DEF MergeRequestStep
<1>2. Plan(opens, Backed, TRUE)
    BY PlainFits, StatusFits, PlanTwo
<1> HIDE DEF opens
<1>3. Plan(opens \o Pauses(t), Backed, TRUE)
    BY <1>2, PausesPlan, PlanConcat
<1> QED  BY <1>1, <1>3, StepsMerge

LEMMA StepFailsMerges == ASSUME MergeInv, NEW t \in Tasks, StepFails(t) PROVE MergeInv'
<1>1. UNCHANGED <<task, pr, astray>> /\ agenda' = [agenda EXCEPT ![t] = Fails(t)]
    BY DEF StepFails, rows, hist
<1>2. Plan(Fails(t), Backed, TRUE)
    BY FailsPlan
<1> QED  BY <1>1, <1>2, RunMoves

LEMMA ClaimMerges == ASSUME MergeInv, NEW t \in Tasks, Claim(t) PROVE MergeInv'
<1>1. UNCHANGED <<task, pr, astray>>
    BY DEF Claim, rows, hist
<1> DEFINE starts == IF task[t].status \in {"todo", "failed"} THEN <<S("status", t, "context_loading")>> ELSE <<>>
           handler(j) == Try(<<S("status", t, "failed")>>)
                         \o Try(<<S("job", t, [job |-> j, status |-> "failed"])>>) \o <<S("end", t, "failed")>>
           q(j) == Settle(OrElse(starts, handler(j)) \o ResumeStatus(t))
<1>2. PICK j : agenda' = [agenda EXCEPT ![t] = q(j)]
    BY DEF Claim
<1>3. Plan(starts, Backed, TRUE)
    BY StatusPlan, PlanEmpty
<1>4. Plan(handler(j), Backed, FALSE)
  <2>1. Plan(Try(<<S("status", t, "failed")>>), Backed, FALSE)
      BY StatusPlan, TryPlan
  <2>2. Plan(Try(<<S("job", t, [job |-> j, status |-> "failed"])>>), Backed, FALSE)
      BY PlainPlan, TryPlan
  <2>3. Plan(<<S("end", t, "failed")>>, Backed, FALSE)
      BY PlainPlan
  <2> QED  BY <2>1, <2>2, <2>3, PlanConcat
<1>5. Plan(ResumeStatus(t), Backed, TRUE)
  <2>1. /\ Plan(Try(<<S("status", t, "reviewing")>>), Backed, TRUE)
        /\ Plan(Try(<<S("status", t, "coding")>>), Backed, TRUE)
      BY StatusPlan, TryPlan
  <2>2. ResumeStatus(t) \in {Try(<<S("status", t, "reviewing")>>), Try(<<S("status", t, "coding")>>), <<>>}
      BY DEF ResumeStatus
  <2> QED  BY <2>1, <2>2, PlanEmpty
<1>6. Plan(q(j), Backed, TRUE)
  <2> DEFINE h == handler(j)
  <2>1. Plan(h, Backed, FALSE)
      BY <1>4
  <2> HIDE DEF starts, h, handler
  <2>2. Plan(OrElse(starts, h), Backed, TRUE)
      BY <1>3, <2>1, OrElsePlan
  <2>3. Plan(Settle(OrElse(starts, h) \o ResumeStatus(t)), Backed, TRUE)
      BY <1>5, <2>2, PlanConcat, PlanSettle
  <2> QED  BY <2>3 DEF h
<1> HIDE DEF q
<1> QED  BY <1>1, <1>2, <1>6, RunMoves

-----------------------------------------------------------------------------
(***************************************************************************)
(* The theorem.                                                             *)
(***************************************************************************)
LEMMA TwoMore ==
    ASSUME NEW T, NEW p \in Seq(T), NEW q \in Seq(T), Len(q) = 2
    PROVE  /\ p \o q \in Seq(T) /\ Len(p \o q) = Len(p) + 2
           /\ \A i \in 1..(Len(p) + 2) : (p \o q)[i] = IF i <= Len(p) THEN p[i] ELSE q[i - Len(p)]
<1>1. /\ p \o q \in Seq(T) /\ Len(p \o q) = Len(p) + Len(q)
      /\ \A i \in 1 .. Len(p) + Len(q) : (p \o q)[i] = IF i <= Len(p) THEN p[i] ELSE q[i - Len(p)]
    BY ConcatProperties
<1> QED  BY <1>1

\* The statements of a split, one by one.
LEMMA SplitBodyIs ==
    ASSUME LifecycleAssumption
    PROVE  /\ IsSeq(SplitBody) /\ Len(Children) \in Nat /\ Len(SplitBody) = Len(Children) + 2
           /\ \A i \in 1..Len(Children) :
                 Children[i] \in Kids /\ SplitBody[i] = Put(Children[i], Created("todo"))
           /\ SplitBody[Len(Children) + 1] = Put(Parent, [split |-> TRUE])
           /\ SplitBody[Len(Children) + 2] = S("list", Parent, None)
<1> DEFINE n == Len(Children)
           kids == [i \in 1..n |-> Put(Children[i], Created("todo"))]
           T == {kids[i] : i \in 1..n} \cup {Put(Parent, [split |-> TRUE]), S("list", Parent, None)}
           end == <<Put(Parent, [split |-> TRUE]), S("list", Parent, None)>>
<1>1. n \in Nat /\ \A i \in 1..n : Children[i] \in Kids
  <2>1. Children \in Seq(Kids)
      BY DEF LifecycleAssumption
  <2> QED  BY <2>1
<1>2. \A i \in 1..n : kids[i] = Put(Children[i], Created("todo"))
    OBVIOUS
<1>3. end \in Seq(T) /\ Len(end) = 2 /\ end[1] = Put(Parent, [split |-> TRUE]) /\ end[2] = S("list", Parent, None)
    OBVIOUS
<1>4. SplitBody = kids \o end
    BY DEF SplitBody
<1> HIDE DEF n
<1>5. kids \in Seq(T) /\ Len(kids) = n
    BY <1>1, SMTT(30)
<1> HIDE DEF kids, end, T
<1>6. /\ kids \o end \in Seq(T) /\ Len(kids \o end) = n + 2
      /\ \A i \in 1..(n + 2) : (kids \o end)[i] = IF i <= n THEN kids[i] ELSE end[i - n]
  <2>1. /\ kids \o end \in Seq(T) /\ Len(kids \o end) = Len(kids) + 2
        /\ \A i \in 1..(Len(kids) + 2) :
              (kids \o end)[i] = IF i <= Len(kids) THEN kids[i] ELSE end[i - Len(kids)]
      BY <1>3, <1>5, TwoMore, ZenonT(60)
  <2> QED  BY <1>5, <2>1
<1> DEFINE q == kids \o end
<1> HIDE DEF q
<1>7. /\ q \in Seq(T) /\ Len(q) = n + 2
      /\ \A i \in 1..(n + 2) : q[i] = IF i <= n THEN kids[i] ELSE end[i - n]
    BY <1>6 DEF q
<1>8. q[n + 2] = end[2] /\ q[n + 1] = end[1] /\ \A i \in 1..n : q[i] = kids[i]
  <2>1. n + 2 \in 1..(n + 2) /\ ~(n + 2 <= n) /\ (n + 2) - n = 2
      BY <1>1
  <2>2. n + 1 \in 1..(n + 2) /\ ~(n + 1 <= n) /\ (n + 1) - n = 1
      BY <1>1
  <2>3. \A i \in 1..n : i \in 1..(n + 2) /\ i <= n
      BY <1>1
  <2>4. q[n + 2] = end[2]
      BY <1>7, <2>1
  <2>5. q[n + 1] = end[1]
      BY <1>7, <2>2
  <2> QED  BY <1>7, <2>3, <2>4, <2>5
<1>9. IsSeq(q)
    BY <1>7, SeqIsSeq
<1>10. SplitBody = q
    BY <1>4 DEF q
<1>11. \A i \in 1..n : Children[i] \in Kids /\ SplitBody[i] = Put(Children[i], Created("todo"))
    BY <1>1, <1>2, <1>8, <1>10
<1>12. SplitBody[n + 1] = Put(Parent, [split |-> TRUE]) /\ SplitBody[n + 2] = S("list", Parent, None)
    BY <1>3, <1>8, <1>10
<1>13. IsSeq(SplitBody) /\ n \in Nat /\ Len(SplitBody) = n + 2
    BY <1>1, <1>7, <1>9, <1>10
<1> QED  BY <1>11, <1>12, <1>13 DEF n

\* A parent that is to be split starts with the plan of its split.
LEMMA SplitStarts == ASSUME LifecycleAssumption PROVE SplitPlan(SplitBody)
<1> DEFINE n == Len(Children)
           q == SplitBody
<1>1. IsSeq(q) /\ n \in Nat /\ Len(q) = n + 2
    BY SplitBodyIs
<1>2. \A i \in 1..n : q[i].op = "write" /\ q[i].t \in Kids /\ ~q[i].v.tracked
  <2> TAKE i \in 1..n
  <2>1. Children[i] \in Kids /\ q[i] = Put(Children[i], Created("todo"))
      BY SplitBodyIs
  <2> HIDE DEF q
  <2> QED  BY <2>1 DEF Put, S
<1>3. q[n + 1] = Put(Parent, [split |-> TRUE]) /\ q[n + 2] = S("list", Parent, None)
    BY SplitBodyIs
<1> HIDE DEF n, q
<1>4. Len(q) >= 2 /\ Len(q) - 1 = n + 1 /\ Len(q) - 2 = n
    BY <1>1
<1>5. SplitPlan(q)
    BY <1>1, <1>2, <1>3, <1>4 DEF SplitPlan
<1> QED  BY <1>5 DEF q

LEMMA MergeInit == ASSUME LifecycleAssumption, LifecycleInit PROVE MergeInv
<1>1. \A s : /\ {"status", "split"} \subseteq DOMAIN Created(s) /\ Created(s).status = s /\ ~Created(s).split
    BY DEF Created
<1>2. \A t \in Tasks : {"status", "split"} \subseteq DOMAIN task[t] /\ task[t].status # "merged"
  <2>1. PICK first \in {Created("todo"), Analyzed, Created("coding"), Created("spec_review")} :
           task = [t \in Tasks |-> IF t = Parent THEN first ELSE [Created("todo") EXCEPT !.exists = FALSE]]
      BY DEF LifecycleInit
  <2>2. {"status", "split"} \subseteq DOMAIN first /\ first.status # "merged"
    <3>1. {"status", "split"} \subseteq DOMAIN Analyzed /\ Analyzed.status = "spec_review"
        BY <1>1 DEF Analyzed
    <3>2. \A s \in {"todo", "coding", "spec_review"} :
             {"status", "split"} \subseteq DOMAIN Created(s) /\ Created(s).status # "merged"
        BY <1>1
    <3> QED  BY <3>1, <3>2
  <2>3. /\ {"status", "split"} \subseteq DOMAIN [Created("todo") EXCEPT !.exists = FALSE]
        /\ [Created("todo") EXCEPT !.exists = FALSE].status # "merged"
      BY <1>1
  <2> QED  BY <2>1, <2>2, <2>3
<1>3. RowsOK
    BY <1>2 DEF LifecycleInit, RowsOK
<1>4. \A a \in Actors : agenda[a] = <<>> \/ (a = Parent /\ agenda[a] = SplitBody)
    BY DEF LifecycleInit
<1>5. PlansOK
    BY <1>4, PlanEmpty, SplitStarts, ZenonT(60) DEF PlansOK
<1> QED  BY <1>2, <1>3, <1>5 DEF MergeInv, MergesBacked

LEMMA StatementMerges == ASSUME MergeInv, LifecycleAssumption, NEW a \in Actors, Statement(a) PROVE MergeInv'
BY ReadStatusMerges, WriteTaskMerges, ReadValidatedMerges, SilentMerges, ExecuteMerges, RetryMerges, PauseMerges,
   CancelMerges, LimitMerges, TerminalMerges, ListMerges, RetryParentMerges, FinishMerges, ApproveMerges,
   ReviewMerges, SyncMerges, CancelRunMerges, DispatchMerges, OpenMerges DEF Statement

LEMMA RunStepMerges == ASSUME MergeInv, NEW t \in Tasks, RunStep(t) PROVE MergeInv'
BY ClaimMerges, SpecStepMerges, ClarificationMerges, ImplementMerges, CrossReviewMerges, MergeRequestMerges,
   StepFailsMerges DEF RunStep

LEMMA SoloMerges == ASSUME MergeInv, NEW c \in Callers, SoloRequest(c) PROVE MergeInv'
<1>1. Parent \in Tasks
    BY DEF Tasks
<1>2. ASSUME NEW r \in RequestIds, NEW action, ActionArrives(c, Parent, action, r) PROVE MergeInv'
    BY <1>2, ActionMerges
<1>3. ASSUME NEW request \in {"execute", "retry", "approve", "sync"}, RequestArrives(c, Parent, request)
      PROVE  MergeInv'
    BY <1>1, <1>3, RequestMerges
<1>4. CASE ReviewArrives(c, Parent)
    BY <1>1, <1>4, RequestMerges DEF ReviewArrives
<1>5. CASE RejectArrives(c, Parent)
    BY <1>5, RejectMerges
<1>6. CASE ClarifyArrives(c, Parent)
    BY <1>6, ClarifyMerges
<1>7. CASE ChangesArrive(c, Parent)
    BY <1>7, ChangesMerges
<1>8. ASSUME NEW s, UpdateArrives(c, Parent, s) PROVE MergeInv'
    BY <1>8, UpdateMerges
<1>9. ASSUME NEW gate, AnalyzeArrives(c, Parent, gate) PROVE MergeInv'
    BY <1>9, AnalyzeMerges
<1> QED  BY <1>2, <1>3, <1>4, <1>5, <1>6, <1>7, <1>8, <1>9 DEF SoloRequest

LEMMA FamilyMerges == ASSUME MergeInv, NEW c \in Callers, FamilyRequest(c) PROVE MergeInv'
<1>1. Kids \subseteq Tasks /\ Parent \in Tasks
    BY DEF Tasks
<1>2. ASSUME NEW k \in Kids, NEW request \in {"execute", "retry", "cancel", "approve"}, RequestArrives(c, k, request)
      PROVE  MergeInv'
    BY <1>1, <1>2, RequestMerges
<1>3. CASE RequestArrives(c, Parent, "retryParent")
    BY <1>1, <1>3, RequestMerges
<1> QED  BY <1>2, <1>3 DEF FamilyRequest

LEMMA MergeStep == ASSUME MergeInv, LifecycleAssumption, [LifecycleNext]_lifeVars PROVE MergeInv'
<1>1. ASSUME NEW a \in Actors, Statement(a) PROVE MergeInv'
    BY <1>1, StatementMerges
<1>2. ASSUME NEW t \in Tasks, RunStep(t) \/ RemoteMerge(t) \/ TimeLimitPasses(t) \/ EventVolumeTrips(t)
      PROVE  MergeInv'
    BY <1>2, RunStepMerges, RemoteMerges, DisturbedMerges
<1>3. ASSUME NEW c \in Callers, SoloRequest(c) \/ FamilyRequest(c) PROVE MergeInv'
    BY <1>3, SoloMerges, FamilyMerges
<1>4. CASE UNCHANGED lifeVars
  <2>1. UNCHANGED <<task, pr, astray, agenda>>
      BY <1>4 DEF lifeVars, rows, hist
  <2>2. Backed' = Backed
      BY <2>1, BackedStays DEF MergeInv
  <2> QED  BY <2>1, <2>2, ZenonT(60) DEF MergeInv, RowsOK, PlansOK, MergesBacked, SplitPlan, Put
<1> QED  BY <1>1, <1>2, <1>3, <1>4 DEF LifecycleNext

\* Whatever requests, runs, the sync and the guardrails do, and however their statements
\* interleave, a task that is merged has a pull request that was merged, or has been split
\* and stands for its children, or its status was written past the checks, by a run whose
\* job had ended or on a person's word (updateTaskStatus, Approve, SyncPRMerged).
THEOREM MergedIsMerged == LifecycleSpec => []MergedMeansMerged
<1>1. LifecycleInit => MergeInv
    BY MergeInit, LifecycleAssumption
<1>2. MergeInv /\ [LifecycleNext]_lifeVars => MergeInv'
    BY MergeStep, LifecycleAssumption
<1>3. MergeInv => MergedMeansMerged
    BY DEF MergeInv, MergesBacked, Backed, MergedMeansMerged
<1> QED  BY <1>1, <1>2, <1>3, PTL DEF LifecycleSpec

-----------------------------------------------------------------------------
(***************************************************************************)
(* A family: what may stand in an agenda, given what is known so far.        *)
(***************************************************************************)
KidStatus == TaskStatus \ {"todo"}
ParentStatus == {"coding", "blocked", "merged"}
Begun(k) == task[k].status # "todo"

\* What no step takes back: the children that have left todo, those whose run has ended a
\* step, and what may be asked of a parent (one in spec review is never blocked, nor
\* then resumed).
Known == [begun  |-> {k \in Kids : Begun(k)},
          staged |-> {k \in Kids : stage[k] # 0},
          asked  |-> IF task[Parent].status = "spec_review" THEN ParentStatus \ {"coding"} ELSE ParentStatus]
Grows(K, L) == K.begun \subseteq L.begun /\ K.staged \subseteq L.staged /\ K.asked \subseteq L.asked

\* A status asked for: only a request merges a child, and only a request moves the parent
\* to anything but blocked.
MayAsk(t, v, a, K) ==
    IF t = Parent THEN v \in K.asked /\ (a \in Kids => v = "blocked")
    ELSE t \in Kids /\ v \in KidStatus /\ (v = "merged" => a \notin Kids /\ t \in K.staged)

\* The write that follows, and a write of other fields.
MayTrack(t, w, a, K) ==
    /\ w.tracked /\ "status" \in DOMAIN w.fields /\ "blockedChild" \notin DOMAIN w.fields
    /\ w.read \in TaskStatus /\ w.fields.status \in TaskStatus
    /\ ValidateTaskTransition(w.read, w.fields.status)
    /\ IF t = Parent THEN w.fields.status \in ParentStatus /\ w.read # "spec_review"
       ELSE w.fields.status # "todo" /\ (w.fields.status = "merged" => a \notin Kids /\ t \in K.staged)

MayPut(w) ==
    /\ ~w.tracked /\ DOMAIN w.fields \cap {"status", "started", "retries"} = {}
    /\ "blockedChild" \in DOMAIN w.fields => w.fields.blockedChild \in Kids \cup {None}

MayWrite(t, w, a, K) ==
    t \in Tasks /\ DOMAIN w.fields \cap {"split", "exists"} = {} /\ (MayTrack(t, w, a, K) \/ MayPut(w))

Kin(s, a, K) ==
    \/ s.op \in {"execute", "retry", "cancel", "approve", "kill", "finish"} /\ s.t \in Kids /\ a \notin Kids
    \/ s.op \in {"list", "retryParent"} /\ a \notin Kids
    \/ s.op \in {"job", "enqueue"} /\ s.t \in K.begun
    \/ s.op = "terminal" /\ s.t \in Kids /\ s.v \in {"failed", "merged"} /\ (s.v = "merged" => a \notin Kids)
    \/ s.op \in {"end", "refused"} /\ s.t = a /\ a \in Kids
    \/ s.op = "stage" /\ s.t = a /\ a \in Kids /\ s.v # 0
    \/ s.op = "open" /\ s.t = a /\ a \in K.staged
    \/ s.op = "status" /\ MayAsk(s.t, s.v, a, K)
    \/ s.op = "write" /\ MayWrite(s.t, s.v, a, K)

\* In a handler (not deep) a catch has none.
Sure(s, a, K) ==
    \/ Kin(s, a, K)
    \/ /\ s.op = "catch" /\ IsSeq(s.v)
       /\ \A i \in DOMAIN s.v : Kin(s.v[i], a, K) \/ (s.v[i].op = "catch" /\ s.v[i].v = <<>>)

\* The first write of cli_analyze and cli_spec, made whatever the status is by then: the
\* run has ended no step yet.
Entry(s, a, K) ==
    /\ a \in Kids \ K.staged
    /\ s.op = "write" /\ s.t = a /\ ~s.v.tracked /\ s.v.fields = [status |-> "analyzing"]

\* A job is queued when its task has left todo, or right after the statement that moves it.
Queues(r, s) ==
    /\ s.op = "enqueue" /\ s.t \in Kids /\ r.t = s.t
    /\ r.op = "status" \/ (r.op = "write" /\ "status" \in DOMAIN r.v.fields)

SurePlan(q, a, K) == IsSeq(q) /\ \A i \in DOMAIN q : Sure(q[i], a, K)

KinPlan(q, a, K) ==
    /\ IsSeq(q)
    /\ \A i \in DOMAIN q : \/ Sure(q[i], a, K)
                           \/ i = 1 /\ Entry(q[1], a, K)
                           \/ i = 2 /\ Queues(q[1], q[2])

\* What is left of an agenda whose first statement was s.
RestPlan(r, s, a, K) ==
    /\ IsSeq(r)
    /\ \A i \in DOMAIN r : Sure(r[i], a, K) \/ (i = 1 /\ Queues(s, r[1]))

-----------------------------------------------------------------------------
(***************************************************************************)
(* Lists of a family's statements.                                           *)
(***************************************************************************)
LEMMA SureFrom ==
    ASSUME NEW a, NEW K, NEW T, NEW q \in Seq(T), \A s \in T : Sure(s, a, K)
    PROVE  SurePlan(q, a, K)
<1>1. IsSeq(q)
    BY SeqIsSeq
<1>2. \A i \in DOMAIN q : q[i] \in T
    OBVIOUS
<1> QED  BY <1>1, <1>2 DEF SurePlan

LEMMA SureSet ==
    ASSUME NEW a, NEW K, NEW q, SurePlan(q, a, K)
    PROVE  \E T : q \in Seq(T) /\ \A s \in T : Sure(s, a, K)
<1> DEFINE T == {q[i] : i \in DOMAIN q}
<1>1. q \in Seq(T)
    BY DEF SurePlan, IsSeq
<1>2. \A s \in T : Sure(s, a, K)
    BY DEF SurePlan
<1> HIDE DEF T
<1> QED  BY <1>1, <1>2

LEMMA SureEmpty == ASSUME NEW a, NEW K PROVE SurePlan(<<>>, a, K)
BY DEF SurePlan, IsSeq

LEMMA SureOne == ASSUME NEW a, NEW K, NEW s, Sure(s, a, K) PROVE SurePlan(<<s>>, a, K)
<1> DEFINE q == <<s>>
           T == {s}
<1>1. q \in Seq(T)
    OBVIOUS
<1>2. \A x \in T : Sure(x, a, K)
    OBVIOUS
<1> HIDE DEF q, T
<1>3. SurePlan(q, a, K)
    BY <1>1, <1>2, SureFrom
<1> QED  BY <1>3 DEF q

LEMMA SureConcat ==
    ASSUME NEW a, NEW K, NEW p, NEW q, SurePlan(p, a, K), SurePlan(q, a, K)
    PROVE  SurePlan(p \o q, a, K)
<1>1. PICK T : p \in Seq(T) /\ \A s \in T : Sure(s, a, K)
    BY SureSet
<1>2. PICK U : q \in Seq(U) /\ \A s \in U : Sure(s, a, K)
    BY SureSet
<1>3. p \in Seq(T \cup U) /\ q \in Seq(T \cup U)
    BY <1>1, <1>2, SeqMonotonic
<1>4. p \o q \in Seq(T \cup U)
    BY <1>3, ConcatProperties
<1>5. \A s \in T \cup U : Sure(s, a, K)
    BY <1>1, <1>2
<1> DEFINE r == p \o q
           V == T \cup U
<1> HIDE DEF r, V
<1>6. SurePlan(r, a, K)
    BY <1>4, <1>5, SureFrom DEF r, V
<1> QED  BY <1>6 DEF r

LEMMA SureTwo ==
    ASSUME NEW a, NEW K, NEW s, NEW r, Sure(s, a, K), Sure(r, a, K)
    PROVE  SurePlan(<<s, r>>, a, K)
<1> DEFINE q == <<s, r>>
           T == {s, r}
<1>1. q \in Seq(T)
    OBVIOUS
<1>2. \A x \in T : Sure(x, a, K)
    OBVIOUS
<1> HIDE DEF q, T
<1>3. SurePlan(q, a, K)
    BY <1>1, <1>2, SureFrom
<1> QED  BY <1>3 DEF q

LEMMA SureThree ==
    ASSUME NEW a, NEW K, NEW s, NEW r, NEW u, Sure(s, a, K), Sure(r, a, K), Sure(u, a, K)
    PROVE  SurePlan(<<s, r, u>>, a, K)
<1> DEFINE q == <<s, r, u>>
           T == {s, r, u}
<1>1. q \in Seq(T)
    OBVIOUS
<1>2. \A x \in T : Sure(x, a, K)
    OBVIOUS
<1> HIDE DEF q, T
<1>3. SurePlan(q, a, K)
    BY <1>1, <1>2, SureFrom
<1> QED  BY <1>3 DEF q

\* Settle drops leading catches, of any list.
LEMMA SettleIn == ASSUME NEW T, NEW q \in Seq(T) PROVE Settle(q) \in Seq(T)
<1> DEFINE busy == {i \in 1..Len(q) : q[i].op # "catch"}
<1>1. CASE busy = {}
    BY <1>1 DEF Settle
<1>2. CASE busy # {}
  <2>1. busy \subseteq Nat
      OBVIOUS
  <2>2. Min(busy) \in busy
      BY <1>2, <2>1, LeastNatural
  <2>3. Min(busy) \in 1..Len(q)
      BY <2>2
  <2>4. Settle(q) = SubSeq(q, Min(busy), Len(q))
      BY <1>2 DEF Settle
  <2> DEFINE n == Min(busy)
  <2> HIDE DEF busy, n
  <2>5. \A i \in n..Len(q) : q[i] \in T
    <3>1. n \in 1..Len(q)
        BY <2>3 DEF n
    <3> QED  BY <3>1
  <2>6. SubSeq(q, n, Len(q)) \in Seq(T)
      BY <2>3, <2>5, SubSeqProperties DEF n
  <2> QED  BY <2>4, <2>6 DEF n
<1> QED  BY <1>1, <1>2

LEMMA SureSettle == ASSUME NEW a, NEW K, NEW q, SurePlan(q, a, K) PROVE SurePlan(Settle(q), a, K)
BY SureSet, SettleIn, SureFrom

\* A list that does not begin with a catch is settled.
LEMMA Settled ==
    ASSUME NEW T, NEW q \in Seq(T), q # <<>>, q[1].op # "catch"
    PROVE  Settle(q) = q
<1> DEFINE busy == {i \in 1..Len(q) : q[i].op # "catch"}
<1>1. 1 \in busy /\ busy \subseteq Nat /\ \A i \in busy : 1 <= i
    OBVIOUS
<1>2. Min(busy) \in busy /\ \A i \in busy : Min(busy) <= i
    BY <1>1, LeastNatural
<1>3. Min(busy) = 1
  <2> DEFINE m == Min(busy)
  <2>1. m \in Nat /\ m <= 1 /\ 1 <= m
      BY <1>1, <1>2
  <2> HIDE DEF m
  <2>2. m = 1
      BY <2>1
  <2> QED  BY <2>2 DEF m
<1>4. Settle(q) = SubSeq(q, Min(busy), Len(q))
    BY <1>1 DEF Settle
<1> HIDE DEF busy
<1>5. SubSeq(q, 1, Len(q)) = q
    BY SubSeqFull
<1> QED  BY <1>3, <1>4, <1>5

\* What an error leaves: a handler and what follows it, or nothing.
LEMMA Unwound ==
    ASSUME NEW T, NEW q \in Seq(T)
    PROVE  \/ Unwind(q) = <<>>
           \/ \E c \in 1..Len(q) : q[c].op = "catch" /\ Unwind(q) = q[c].v \o SubSeq(q, c + 1, Len(q))
<1> DEFINE caught == {i \in 1..Len(q) : q[i].op = "catch"}
<1>1. CASE caught = {}
    BY <1>1 DEF Unwind
<1>2. CASE caught # {}
  <2>1. caught \subseteq Nat
      OBVIOUS
  <2>2. Min(caught) \in caught
      BY <1>2, <2>1, LeastNatural
  <2>3. Unwind(q) = q[Min(caught)].v \o SubSeq(q, Min(caught) + 1, Len(q))
      BY <1>2 DEF Unwind
  <2>4. Min(caught) \in 1..Len(q) /\ q[Min(caught)].op = "catch"
      BY <2>2
  <2> HIDE DEF caught
  <2> QED  BY <2>3, <2>4
<1> QED  BY <1>1, <1>2

LEMMA HandlerSure ==
    ASSUME NEW a, NEW K, NEW s, Sure(s, a, K), s.op = "catch"
    PROVE  SurePlan(s.v, a, K)
<1>1. ~Kin(s, a, K)
    BY DEF Kin
<1>2. IsSeq(s.v) /\ \A i \in DOMAIN s.v : Kin(s.v[i], a, K) \/ (s.v[i].op = "catch" /\ s.v[i].v = <<>>)
    BY <1>1 DEF Sure
<1>3. IsSeq(<<>>) /\ DOMAIN <<>> = {}
    BY DEF IsSeq
<1>4. \A r : Kin(r, a, K) \/ (r.op = "catch" /\ r.v = <<>>) => Sure(r, a, K)
  <2> TAKE r
  <2>1. CASE Kin(r, a, K)
      BY <2>1 DEF Sure
  <2>2. CASE r.op = "catch" /\ r.v = <<>>
    <3>1. IsSeq(r.v) /\ DOMAIN r.v = {}
        BY <1>3, <2>2
    <3> QED  BY <2>2, <3>1 DEF Sure
  <2> QED  BY <2>1, <2>2
<1> QED  BY <1>2, <1>4 DEF SurePlan

\* The first statement of an agenda, and the rest.
LEMMA KinHead ==
    ASSUME NEW a, NEW K, NEW q, KinPlan(q, a, K), q # <<>>
    PROVE  /\ RestPlan(Tail(q), Head(q), a, K)
           /\ Sure(Head(q), a, K) \/ Entry(Head(q), a, K)
<1> DEFINE T == {q[i] : i \in DOMAIN q}
           r == Tail(q)
<1>1. q \in Seq(T)
    BY DEF KinPlan, IsSeq
<1> HIDE DEF T
<1>2. r \in Seq(T) /\ Len(r) = Len(q) - 1 /\ \A i \in 1..Len(r) : r[i] = q[i + 1]
    BY <1>1, HeadTailProperties
<1>3. Head(q) = q[1] /\ 1 \in DOMAIN q
    BY <1>1
<1>4. Sure(Head(q), a, K) \/ Entry(Head(q), a, K)
    BY <1>3 DEF KinPlan
<1>5. \A i \in DOMAIN r : i + 1 \in DOMAIN q /\ i \in Nat /\ i > 0 /\ r[i] = q[i + 1]
    BY <1>1, <1>2
<1>6. IsSeq(r)
    BY <1>2, SeqIsSeq
<1> HIDE DEF r
<1>7. \A i \in DOMAIN r : Sure(r[i], a, K) \/ (i = 1 /\ Queues(Head(q), r[1]))
  <2> TAKE i \in DOMAIN r
  <2>1. i + 1 \in DOMAIN q /\ i \in Nat /\ i > 0 /\ r[i] = q[i + 1]
      BY <1>5
  <2>2. i + 1 # 1 /\ (i + 1 = 2 => i = 1)
      BY <2>1
  <2>3. Sure(q[i + 1], a, K) \/ (i + 1 = 2 /\ Queues(q[1], q[2]))
      BY <2>1, <2>2 DEF KinPlan
  <2>4. CASE Sure(q[i + 1], a, K)
      BY <2>1, <2>4
  <2>5. CASE i + 1 = 2 /\ Queues(q[1], q[2])
    <3>1. i = 1 /\ r[1] = q[2]
        BY <2>1, <2>2, <2>5
    <3> QED  BY <1>3, <2>5, <3>1
  <2> QED  BY <2>3, <2>4, <2>5
<1> QED  BY <1>4, <1>6, <1>7 DEF RestPlan, r

LEMMA SureIsKin == ASSUME NEW a, NEW K, NEW q, SurePlan(q, a, K) PROVE KinPlan(q, a, K)
BY DEF SurePlan, KinPlan

LEMMA PlainRest ==
    ASSUME NEW a, NEW K, NEW r, NEW s, RestPlan(r, s, a, K), s.op \notin {"status", "write"}
    PROVE  SurePlan(r, a, K)
BY DEF RestPlan, SurePlan, Queues

LEMMA RestUnwinds ==
    ASSUME NEW a, NEW K, NEW r, NEW s, RestPlan(r, s, a, K)
    PROVE  SurePlan(Unwind(r), a, K)
<1> DEFINE T == {r[i] : i \in DOMAIN r}
<1>1. r \in Seq(T)
    BY DEF RestPlan, IsSeq
<1> HIDE DEF T
<1>2. CASE Unwind(r) = <<>>
    BY <1>2, SureEmpty
<1>3. CASE \E c \in 1..Len(r) : r[c].op = "catch" /\ Unwind(r) = r[c].v \o SubSeq(r, c + 1, Len(r))
  <2>1. PICK c \in 1..Len(r) : r[c].op = "catch" /\ Unwind(r) = r[c].v \o SubSeq(r, c + 1, Len(r))
      BY <1>3
  <2>2. Sure(r[c], a, K)
      BY <1>1, <2>1 DEF RestPlan, Queues
  <2>3. SurePlan(r[c].v, a, K)
      BY <2>1, <2>2, HandlerSure
  <2> DEFINE U == {s2 \in T : Sure(s2, a, K)}
  <2>4. \A i \in (c + 1)..Len(r) : r[i] \in U
    <3> TAKE i \in (c + 1)..Len(r)
    <3>1. i \in 1..Len(r) /\ i # 1
        BY <1>1
    <3>2. r[i] \in T /\ i \in DOMAIN r
        BY <1>1, <3>1
    <3> QED  BY <3>1, <3>2 DEF RestPlan
  <2>5. \A s2 \in U : Sure(s2, a, K)
      OBVIOUS
  <2>6. c + 1 \in 1..(Len(r) + 1)
      BY <1>1
  <2> HIDE DEF U
  <2>7. SubSeq(r, c + 1, Len(r)) \in Seq(U)
      BY <1>1, <2>4, <2>6, SubSeqProperties
  <2>8. SurePlan(SubSeq(r, c + 1, Len(r)), a, K)
      BY <2>5, <2>7, SureFrom
  <2> QED  BY <2>1, <2>3, <2>8, SureConcat
<1> QED  BY <1>1, <1>2, <1>3, Unwound

\* The read of a status makes room for the write.
LEMMA WriteInFront ==
    ASSUME NEW a, NEW K, NEW r, NEW s, RestPlan(r, s, a, K), s.op = "status",
           NEW w, Sure(w, a, K), w.op = "write", w.t = s.t, "status" \in DOMAIN w.v.fields
    PROVE  KinPlan(Settle(<<w>> \o r), a, K) /\ Settle(<<w>> \o r) # <<>> /\ Head(Settle(<<w>> \o r)) = w
<1> DEFINE T == {r[i] : i \in DOMAIN r} \cup {w}
           q == <<w>> \o r
<1>1. r \in Seq({r[i] : i \in DOMAIN r})
    BY DEF RestPlan, IsSeq
<1>2. r \in Seq(T)
    BY <1>1, SeqMonotonic
<1> HIDE DEF T
<1>3. w \in T
    BY DEF T
<1>4. /\ q \in Seq(T) /\ Len(q) = Len(r) + 1
      /\ q[1] = w /\ \A i \in 2..Len(q) : q[i] = r[i - 1]
  <2>1. <<w>> \in Seq(T) /\ Len(<<w>>) = 1 /\ <<w>>[1] = w
      BY <1>3
  <2> DEFINE p == <<w>>
  <2>2. p \in Seq(T) /\ Len(p) = 1 /\ p[1] = w /\ q = p \o r
      BY <2>1
  <2> HIDE DEF p, q
  <2>3. /\ q \in Seq(T) /\ Len(q) = Len(p) + Len(r)
        /\ \A i \in 1..(Len(p) + Len(r)) : q[i] = IF i <= Len(p) THEN p[i] ELSE r[i - Len(p)]
    <3>1. p \o r \in Seq(T) /\ Len(p \o r) = Len(p) + Len(r)
        BY <1>2, <2>2, ConcatProperties
    <3>2. \A i \in 1..(Len(p) + Len(r)) : (p \o r)[i] = IF i <= Len(p) THEN p[i] ELSE r[i - Len(p)]
        BY <1>2, <2>2, ConcatProperties, Zenon
    <3> QED  BY <2>2, <3>1, <3>2
  <2>4. Len(r) \in Nat
      BY <1>2
  <2>5. Len(q) = Len(r) + 1 /\ q[1] = w
      BY <2>2, <2>3, <2>4
  <2>6. \A i \in 2..Len(q) : q[i] = r[i - 1]
      BY <2>2, <2>3, <2>4
  <2> QED  BY <2>3, <2>5, <2>6
<1> HIDE DEF q
<1>5. q # <<>> /\ Head(q) = w /\ Settle(q) = q
    BY <1>4, Settled
<1>6. \A i \in DOMAIN q : Sure(q[i], a, K) \/ (i = 2 /\ Queues(q[1], q[2]))
  <2> TAKE i \in DOMAIN q
  <2>1. CASE i = 1
      BY <1>4, <2>1
  <2>2. CASE i # 1
    <3>1. i \in 2..Len(q) /\ i - 1 \in DOMAIN r /\ q[i] = r[i - 1] /\ (i - 1 = 1 => i = 2)
        BY <1>2, <1>4, <2>2
    <3>2. Sure(r[i - 1], a, K) \/ (i - 1 = 1 /\ Queues(s, r[1]))
        BY <3>1 DEF RestPlan
    <3>3. CASE Sure(r[i - 1], a, K)
        BY <3>1, <3>3
    <3>4. CASE i - 1 = 1 /\ Queues(s, r[1])
      <4>1. i = 2 /\ q[2] = r[1]
          BY <3>1, <3>4
      <4>2. Queues(w, r[1])
          BY <3>4 DEF Queues
      <4> QED  BY <1>4, <4>1, <4>2
    <3> QED  BY <3>2, <3>3, <3>4
  <2> QED  BY <2>1, <2>2
<1>7. IsSeq(q)
    BY <1>4, SeqIsSeq
<1> QED  BY <1>5, <1>6, <1>7 DEF KinPlan, q

\* Once the status is written, the job may be queued.
LEMMA RestBegun ==
    ASSUME NEW a, NEW K, NEW r, NEW s, RestPlan(r, s, a, K), s.t \in Kids => s.t \in K.begun
    PROVE  SurePlan(r, a, K)
<1>1. \A i \in DOMAIN r : Sure(r[i], a, K)
    BY DEF RestPlan, Queues, Sure, Kin
<1> QED  BY <1>1 DEF RestPlan, SurePlan

\* What is known only grows, and what stands in an agenda may stay there.
LEMMA SureGrows ==
    ASSUME NEW K, NEW L, Grows(K, L), NEW a, NEW s, Sure(s, a, K)
    PROVE  Sure(s, a, L)
<1>1. \A t, v : MayAsk(t, v, a, K) => MayAsk(t, v, a, L)
    BY DEF MayAsk, Grows
<1>2. \A t, w : MayTrack(t, w, a, K) => MayTrack(t, w, a, L)
    BY DEF MayTrack, Grows
<1>3. \A t, w : MayWrite(t, w, a, K) => MayWrite(t, w, a, L)
    BY <1>2 DEF MayWrite
<1>4. \A x : Kin(x, a, K) => Kin(x, a, L)
    BY <1>1, <1>3 DEF Kin, Grows
<1> QED  BY <1>4 DEF Sure

LEMMA SurePlanGrows ==
    ASSUME NEW K, NEW L, Grows(K, L), NEW a, NEW q, SurePlan(q, a, K)
    PROVE  SurePlan(q, a, L)
BY SureGrows DEF SurePlan

LEMMA KinPlanGrows ==
    ASSUME NEW K, NEW L, Grows(K, L), NEW a, a \in L.staged => a \in K.staged, NEW q, KinPlan(q, a, K)
    PROVE  KinPlan(q, a, L)
<1>1. \A s : Entry(s, a, K) => Entry(s, a, L)
    BY DEF Entry
<1> QED  BY <1>1, SureGrows DEF KinPlan

-----------------------------------------------------------------------------
(***************************************************************************)
(* A family: the invariant.                                                  *)
(***************************************************************************)
First == Children[Min(Left)]

\* A statement that has the family looked at, one that starts the child f, and one that
\* merges the parent.
Tells(s) == s.op = "list" \/ (s.op = "terminal" /\ s.v = "merged")
Starts(s, f) ==
    \/ Tells(s)
    \/ s.op = "execute" /\ s.t = f
    \/ s.op = "status" /\ s.t = f /\ s.v = "context_loading"
    \/ s.op = "write" /\ s.t = f /\ "status" \in DOMAIN s.v.fields
Completes(s) ==
    \/ Tells(s)
    \/ s.op = "status" /\ s.t = Parent /\ s.v = "merged"
    \/ s.op = "write" /\ s.t = Parent /\ "status" \in DOMAIN s.v.fields /\ s.v.fields.status = "merged"

\* Those that are never cut short: the requests, and the handler of the split.
Others == Actors \ Kids
Next1st(q, f) == q # <<>> /\ Starts(Head(q), f)
LastOne(q) == q # <<>> /\ Completes(Head(q))
Closed == task[Parent].status \in {"merged", "spec_review"}

\* The first child that is not merged has left todo, or somebody is about to start it.
GoesOn == Left # {} /\ ~Begun(First) => \E a \in Others : Next1st(agenda[a], First)
\* When all are merged the parent is, or somebody is about to merge it.
Closes == Left = {} => Closed \/ \E a \in Others : LastOne(agenda[a])

FamilyShape ==
    /\ DOMAIN task = Tasks /\ DOMAIN agenda = Actors
    /\ DOMAIN jobs = Tasks /\ DOMAIN run = Tasks /\ DOMAIN stage = Tasks /\ DOMAIN pr = Tasks
    /\ \A t \in Tasks : {"status", "split", "exists", "blockedChild", "started", "retries"} \subseteq DOMAIN task[t]
KidRow(k) ==
    /\ task[k].status \in TaskStatus
    /\ ~Begun(k) => jobs[k] = <<>> /\ run[k] = 0 /\ task[k].started = "no" /\ task[k].retries = 0
    /\ task[k].status = "merged" \/ pr[k] # "none" => stage[k] # 0
    /\ ~flow[k].gated
ParentRow ==
    /\ task[Parent].blockedChild \in Kids \cup {None} /\ task[Parent].status \in ParentStatus \cup {"spec_review"}
    /\ run[Parent] = 0 /\ jobs[Parent] = <<"paused">> /\ pr[Parent] = "none"
Undisturbed == "disturbances" \in DOMAIN budget /\ budget.disturbances = 0
FamilyRows == FamilyShape /\ (\A k \in Kids : KidRow(k)) /\ ParentRow /\ Undisturbed

\* ApproveSplit makes the children, while nobody knows of them yet.
Splitting ==
    /\ ~task[Parent].split
    /\ \A k \in Kids : ~Begun(k)
    /\ \A a \in Actors \ {Parent} : agenda[a] = <<>>
    /\ \E m \in 1..(Len(Children) + 1) :
          /\ agenda[Parent] = SubSeq(SplitBody, m, Len(SplitBody))
          /\ \A i \in 1..(m - 1) : task[Children[i]].exists

Grown ==
    /\ task[Parent].split
    /\ \A k \in Kids : task[k].exists
    /\ \A a \in Actors : KinPlan(agenda[a], a, Known)
    /\ GoesOn /\ Closes

Steady == FamilyRows /\ Grown
FamilyInv == scenario = "family" /\ astray = {} => FamilyRows /\ (Splitting \/ Grown)

-----------------------------------------------------------------------------
LEMMA TaskStatuses ==
    TaskStatus = {"todo", "context_loading", "analyzing", "spec_review", "coding", "reviewing", "fixing",
                  "testing", "pr_ready", "human_review", "merged", "failed", "blocked"}
BY DEF TaskStatus, ValidTaskTransitions

\* The rows of the table that matter to a family.
LEMMA FamilyTransitions ==
    /\ \A s : ValidateTaskTransition("merged", s) => s = "merged"
    /\ ~ValidateTaskTransition("spec_review", "merged") /\ ~ValidateTaskTransition("spec_review", "blocked")
    /\ ValidateTaskTransition("todo", "context_loading")
    /\ \A s \in ParentStatus : ValidateTaskTransition(s, "merged")
BY DEF ValidateTaskTransition, ValidTaskTransitions, ParentStatus

LEMMA KidsAndParent ==
    /\ Parent \notin Kids /\ Parent \in Tasks /\ Parent \in Others
    /\ Kids \subseteq Tasks /\ Tasks \subseteq Actors /\ Others \subseteq Actors
    /\ \A i \in 1..Len(Children) : Children[i] \in Kids
BY LifecycleAssumption DEF Tasks, Actors, Others, Kids

LEMMA FirstIsKid == ASSUME Left # {} PROVE First \in Kids /\ Min(Left) \in Left
<1>1. Left \subseteq Nat /\ Left \subseteq 1..Len(Children)
    BY DEF Left
<1>2. Min(Left) \in Left
    BY <1>1, LeastNatural
<1> QED  BY <1>1, <1>2, KidsAndParent DEF First

\* An agenda moves on, and what stands in the others may stay there.
LEMMA KinPlansMove ==
    ASSUME \A b \in Actors : KinPlan(agenda[b], b, Known), DOMAIN agenda = Actors,
           NEW a \in Actors, NEW q, KinPlan(q, a, Known'), agenda' = [agenda EXCEPT ![a] = q],
           Grows(Known, Known'), \A b \in Actors \ {a} : b \in Known'.staged => b \in Known.staged
    PROVE  \A b \in Actors : KinPlan(agenda'[b], b, Known')
<1> TAKE b \in Actors
<1>1. CASE b = a
    BY <1>1
<1>2. CASE b # a
  <2>1. agenda'[b] = agenda[b] /\ KinPlan(agenda[b], b, Known)
      BY <1>2
  <2>2. b \in Known'.staged => b \in Known.staged
      BY <1>2
  <2>3. KinPlan(agenda[b], b, Known')
      BY <2>1, <2>2, KinPlanGrows
  <2> QED  BY <2>1, <2>3
<1> QED  BY <1>1, <1>2

\* A step that changes no task keeps a family going, when it passes on what it was about to do.
LEMMA KeepsGoing ==
    ASSUME GoesOn, Closes, DOMAIN agenda = Actors, task' = task,
           NEW a \in Actors, NEW q, agenda' = [agenda EXCEPT ![a] = q],
           ASSUME a \in Others, Left # {}, ~Begun(First), Next1st(agenda[a], First) PROVE Next1st(q, First),
           ASSUME a \in Others, Left = {}, ~Closed, LastOne(agenda[a]) PROVE LastOne(q)
    PROVE  GoesOn' /\ Closes'
<1>1. Left' = Left /\ First' = First /\ (Begun(First))' = Begun(First) /\ Closed' = Closed
    BY DEF Left, First, Begun, Closed
<1>2. \A b \in Actors : agenda'[b] = IF b = a THEN q ELSE agenda[b]
    OBVIOUS
<1>3. Others \subseteq Actors
    BY DEF Others
<1>4. GoesOn'
  <2> SUFFICES ASSUME Left # {}, ~Begun(First) PROVE \E b \in Others : Next1st(agenda'[b], First)
      BY <1>1 DEF GoesOn
  <2>1. PICK b \in Others : Next1st(agenda[b], First)
      BY DEF GoesOn
  <2>2. Next1st(agenda'[b], First)
    <3>1. CASE b = a
        BY <1>2, <1>3, <2>1, <3>1
    <3>2. CASE b # a
        BY <1>2, <1>3, <2>1, <3>2
    <3> QED  BY <3>1, <3>2
  <2> QED  BY <2>2
<1>5. Closes'
  <2> SUFFICES ASSUME Left = {}, ~Closed PROVE \E b \in Others : LastOne(agenda'[b])
      BY <1>1 DEF Closes
  <2>1. PICK b \in Others : LastOne(agenda[b])
      BY DEF Closes
  <2>2. LastOne(agenda'[b])
    <3>1. CASE b = a
        BY <1>2, <1>3, <2>1, <3>1
    <3>2. CASE b # a
        BY <1>2, <1>3, <2>1, <3>2
    <3> QED  BY <3>1, <3>2
  <2> QED  BY <2>2
<1> QED  BY <1>4, <1>5

LEMMA FamilyProceeds ==
    ASSUME Steady, FamilyRows', task' = task, Grows(Known, Known'),
           NEW a \in Actors, \A b \in Actors \ {a} : b \in Known'.staged => b \in Known.staged,
           NEW q, agenda' = [agenda EXCEPT ![a] = q], KinPlan(q, a, Known'),
           ASSUME a \in Others, Left # {}, ~Begun(First), Next1st(agenda[a], First) PROVE Next1st(q, First),
           ASSUME a \in Others, Left = {}, ~Closed, LastOne(agenda[a]) PROVE LastOne(q)
    PROVE  Steady'
<1>1. DOMAIN agenda = Actors
    BY DEF Steady, FamilyRows, FamilyShape
<1>2. GoesOn' /\ Closes'
    BY <1>1, KeepsGoing DEF Steady, Grown
<1>3. \A b \in Actors : KinPlan(agenda'[b], b, Known')
    BY <1>1, KinPlansMove DEF Steady, Grown
<1> QED  BY <1>2, <1>3 DEF Steady, Grown

\* The next statement of an actor, and the rest of its agenda.
LEMMA FamilyHead ==
    ASSUME Steady, NEW a \in Actors, NEW op, Doing(a, op)
    PROVE  /\ agenda[a] # <<>> /\ It(a).op = op
           /\ RestPlan(Tail(agenda[a]), It(a), a, Known)
           /\ Sure(It(a), a, Known) \/ Entry(It(a), a, Known)
<1>1. agenda[a] # <<>> /\ Head(agenda[a]).op = op
    BY DEF Doing
<1>2. KinPlan(agenda[a], a, Known)
    BY DEF Steady, Grown
<1> QED  BY <1>1, <1>2, KinHead DEF It

LEMMA KinOf ==
    ASSUME NEW s, NEW a, NEW K, Sure(s, a, K) \/ Entry(s, a, K), s.op \notin {"catch", "write"}
    PROVE  Kin(s, a, K)
BY DEF Sure, Entry

\* Statements that neither read nor write a status, nor have the family looked at.
LEMMA FamilySilent ==
    ASSUME Steady, FamilyRows', task' = task, Grows(Known, Known'),
           NEW a \in Actors, \A b \in Actors \ {a} : b \in Known'.staged => b \in Known.staged,
           NEW op, Doing(a, op), op \notin {"status", "write", "list", "terminal", "execute"},
           NEW stmts, SurePlan(stmts, a, Known'), Then(a, stmts) \/ Raise(a)
    PROVE  Steady'
<1>1. It(a).op = op /\ RestPlan(Tail(agenda[a]), It(a), a, Known)
    BY FamilyHead
<1>2. SurePlan(Tail(agenda[a]), a, Known) /\ SurePlan(Unwind(Tail(agenda[a])), a, Known)
    BY <1>1, PlainRest, RestUnwinds
<1>3. SurePlan(Tail(agenda[a]), a, Known') /\ SurePlan(Unwind(Tail(agenda[a])), a, Known')
    BY <1>2, SurePlanGrows
<1>4. \E q : KinPlan(q, a, Known') /\ agenda' = [agenda EXCEPT ![a] = q]
  <2>1. CASE Then(a, stmts)
    <3>1. KinPlan(Settle(stmts \o Tail(agenda[a])), a, Known')
        BY <1>3, SureConcat, SureSettle, SureIsKin
    <3> QED  BY <2>1, <3>1 DEF Then
  <2>2. CASE Raise(a)
    <3>1. KinPlan(Settle(Unwind(Tail(agenda[a]))), a, Known')
        BY <1>3, SureSettle, SureIsKin
    <3> QED  BY <2>2, <3>1 DEF Raise
  <2> QED  BY <2>1, <2>2
<1>5. PICK q : KinPlan(q, a, Known') /\ agenda' = [agenda EXCEPT ![a] = q]
    BY <1>4
<1>6. ~Next1st(agenda[a], First) /\ ~LastOne(agenda[a])
    BY <1>1 DEF Next1st, LastOne, Starts, Completes, Tells, It
<1> QED  BY <1>5, <1>6, FamilyProceeds

\* A step that changes the agenda alone.
LEMMA SameRows ==
    ASSUME FamilyRows, UNCHANGED <<task, jobs, stage, pr, run, conf, budget>>, DOMAIN agenda' = Actors
    PROVE  FamilyRows' /\ Known' = Known /\ Grows(Known, Known')
<1>1. Known' = Known
    BY DEF Known, Begun
<1>2. FamilyShape' /\ ParentRow' /\ Undisturbed'
    BY DEF FamilyRows, FamilyShape, ParentRow, Undisturbed
<1>3. \A k \in Kids : KidRow(k)'
    BY DEF FamilyRows, KidRow, Begun, conf
<1> QED  BY <1>1, <1>2, <1>3 DEF FamilyRows, Grows

LEMMA AgendaDomain ==
    ASSUME Steady, NEW a, NEW stmts, Then(a, stmts) \/ Raise(a) PROVE DOMAIN agenda' = Actors
BY DEF Steady, FamilyRows, FamilyShape, Then, Raise

LEMMA FamilyQuiet ==
    ASSUME Steady, NEW a \in Actors, OnlyAgenda,
           NEW op, Doing(a, op), op \notin {"status", "write", "list", "terminal", "execute"},
           NEW stmts, SurePlan(stmts, a, Known), Then(a, stmts) \/ Raise(a)
    PROVE  Steady'
<1>1. UNCHANGED <<task, jobs, stage, pr, run, conf, budget>>
    BY DEF OnlyAgenda, rows
<1>2. DOMAIN agenda' = Actors
    BY AgendaDomain
<1>3. FamilyRows' /\ Known' = Known /\ Grows(Known, Known') /\ task' = task
    BY <1>1, <1>2, SameRows DEF Steady
<1>4. SurePlan(stmts, a, Known')
    BY <1>3
<1> QED  BY <1>3, <1>4, FamilySilent

-----------------------------------------------------------------------------
(***************************************************************************)
(* Statements of a family that fit.                                          *)
(***************************************************************************)
LEMMA RequestSure ==
    ASSUME NEW a, NEW K, a \notin Kids, NEW k \in Kids, NEW v,
           NEW op \in {"execute", "retry", "cancel", "approve", "kill", "finish"}
    PROVE  Sure(S(op, k, v), a, K)
BY DEF Sure, Kin, S

LEMMA JobSure ==
    ASSUME NEW a, NEW K, NEW k \in K.begun, NEW v, NEW op \in {"job", "enqueue"}
    PROVE  Sure(S(op, k, v), a, K)
BY DEF Sure, Kin, S

LEMMA KidStatusSure ==
    ASSUME NEW a, NEW K, NEW k \in Kids, NEW v \in KidStatus, v = "merged" => a \notin Kids /\ k \in K.staged
    PROVE  Sure(S("status", k, v), a, K)
BY KidsAndParent DEF Sure, Kin, S, MayAsk

LEMMA ParentStatusSure ==
    ASSUME NEW a, NEW K, NEW v \in K.asked, a \in Kids => v = "blocked"
    PROVE  Sure(S("status", Parent, v), a, K)
BY DEF Sure, Kin, S, MayAsk

LEMMA RunSure ==
    ASSUME NEW a \in Kids, NEW K, NEW v, NEW op \in {"end", "refused"}
    PROVE  Sure(S(op, a, v), a, K)
BY DEF Sure, Kin, S

LEMMA CatchSure == ASSUME NEW a, NEW K PROVE Sure(S("catch", None, <<>>), a, K)
<1> DEFINE h == <<>>
<1>1. IsSeq(h) /\ DOMAIN h = {}
    BY DEF IsSeq
<1> HIDE DEF h
<1>2. Sure(S("catch", None, h), a, K)
    BY <1>1 DEF Sure, S
<1> QED  BY <1>2 DEF h

LEMMA SureTry == ASSUME NEW a, NEW K, NEW q, SurePlan(q, a, K) PROVE SurePlan(Try(q), a, K)
BY CatchSure, SureOne, SureConcat DEF Try, Catch

LEMMA PutSure ==
    ASSUME NEW a, NEW K, NEW t \in Tasks, NEW f,
           DOMAIN f \cap {"split", "exists", "status", "started", "retries"} = {},
           "blockedChild" \in DOMAIN f => f.blockedChild \in Kids \cup {None}
    PROVE  Sure(Put(t, f), a, K)
<1> DEFINE s == Put(t, f)
<1>1. s.op = "write" /\ s.t = t /\ ~s.v.tracked /\ s.v.fields = f
    BY DEF Put, S
<1> HIDE DEF s
<1>2. MayWrite(s.t, s.v, a, K)
    BY <1>1 DEF MayWrite, MayPut
<1> QED  BY <1>1, <1>2 DEF Sure, Kin, s

\* A task with a job has left todo.
LEMMA KnownBegun ==
    ASSUME Steady, NEW k \in Kids
    PROVE  /\ k \in Known.begun <=> Begun(k)
           /\ k \in Known.staged <=> stage[k] # 0
           /\ IsOpen(k) \/ Latest(k) # "none" => k \in Known.begun
BY DEF Known, Steady, FamilyRows, KidRow, IsOpen, Latest

-----------------------------------------------------------------------------
(***************************************************************************)
(* A family: one lemma for each statement.                                   *)
(***************************************************************************)
LEMMA RetryKeeps == ASSUME Steady, NEW a \in Actors, RetryFromLastStep(a) PROVE Steady'
<1> DEFINE t == It(a).t
           close == IF IsOpen(t) THEN <<Kill(t)>> \o Try(<<SetJob(t, "failed")>>) ELSE <<>>
           again == <<S("status", t, "analyzing"), S("enqueue", t, None)>>
           stmts == close \o again
           ok == task[t].status \in {"failed", "spec_review", "analyzing"}
<1>1. Doing(a, "retry") /\ OnlyAgenda /\ Check(a, ok, stmts)
    BY DEF RetryFromLastStep
<1>2. It(a).op = "retry" /\ Kin(It(a), a, Known)
    BY <1>1, FamilyHead, KinOf
<1>3. t \in Kids /\ a \notin Kids
    BY <1>2 DEF Kin
<1>4. CASE ~ok
  <2>1. Raise(a)
      BY <1>1, <1>4 DEF Check
  <2> QED  BY <1>1, <2>1, SureEmpty, FamilyQuiet
<1>5. CASE ok
  <2>1. t \in Known.begun
      BY <1>3, <1>5, KnownBegun DEF Begun
  <2>2. Then(a, stmts)
      BY <1>1, <1>5 DEF Check
  <2> HIDE DEF t
  <2>3. SurePlan(<<Kill(t)>>, a, Known)
      BY <1>3, RequestSure, SureOne DEF Kill
  <2>4. SurePlan(Try(<<SetJob(t, "failed")>>), a, Known)
      BY <2>1, JobSure, SureOne, SureTry DEF SetJob
  <2>5. SurePlan(close, a, Known)
      BY <2>3, <2>4, SureConcat, SureEmpty
  <2>6. Sure(S("status", t, "analyzing"), a, Known) /\ Sure(S("enqueue", t, None), a, Known)
    <3>1. "analyzing" \in KidStatus
        BY TaskStatuses DEF KidStatus
    <3> QED  BY <1>3, <2>1, <3>1, KidStatusSure, JobSure
  <2>7. SurePlan(again, a, Known)
      BY <2>6, SureTwo
  <2>8. SurePlan(stmts, a, Known)
    <3> HIDE DEF close, again
    <3> QED  BY <2>5, <2>7, SureConcat
  <2> HIDE DEF stmts
  <2> QED  BY <1>1, <2>2, <2>8, FamilyQuiet
<1> QED  BY <1>4, <1>5

LEMMA CancelKeeps == ASSUME Steady, NEW a \in Actors, CancelJob(a) PROVE Steady'
<1> DEFINE t == It(a).t
           stmts == <<SetJob(t, "failed"), S("status", t, "failed"), Kill(t)>>
<1>1. Doing(a, "cancel") /\ OnlyAgenda /\ Check(a, IsOpen(t), stmts)
    BY DEF CancelJob
<1>2. It(a).op = "cancel" /\ Kin(It(a), a, Known)
    BY <1>1, FamilyHead, KinOf
<1>3. t \in Kids /\ a \notin Kids
    BY <1>2 DEF Kin
<1>4. CASE ~IsOpen(t)
  <2>1. Raise(a)
      BY <1>1, <1>4 DEF Check
  <2> QED  BY <1>1, <2>1, SureEmpty, FamilyQuiet
<1>5. CASE IsOpen(t)
  <2>1. t \in Known.begun
      BY <1>3, <1>5, KnownBegun
  <2>2. Then(a, stmts)
      BY <1>1, <1>5 DEF Check
  <2> HIDE DEF t
  <2>3. "failed" \in KidStatus
      BY TaskStatuses DEF KidStatus
  <2>4. Sure(SetJob(t, "failed"), a, Known) /\ Sure(S("status", t, "failed"), a, Known) /\ Sure(Kill(t), a, Known)
      BY <1>3, <2>1, <2>3, JobSure, KidStatusSure, RequestSure DEF SetJob, Kill
  <2>5. SurePlan(stmts, a, Known)
      BY <2>4, SureThree
  <2> HIDE DEF stmts
  <2> QED  BY <1>1, <2>2, <2>5, FamilyQuiet
<1> QED  BY <1>4, <1>5

LEMMA RetryParentKeeps == ASSUME Steady, NEW a \in Actors, RetryBlockedParent(a) PROVE Steady'
<1> DEFINE c == task[Parent].blockedChild
           ok == task[Parent].status = "blocked" /\ c # None
           stmts == ResumeParent(c)
<1>1. Doing(a, "retryParent") /\ OnlyAgenda /\ Check(a, ok, stmts)
    BY DEF RetryBlockedParent
<1>2. It(a).op = "retryParent" /\ Kin(It(a), a, Known)
    BY <1>1, FamilyHead, KinOf
<1>3. a \notin Kids
    BY <1>2 DEF Kin
<1>4. CASE ~ok
  <2>1. Raise(a)
      BY <1>1, <1>4 DEF Check
  <2> QED  BY <1>1, <2>1, SureEmpty, FamilyQuiet
<1>5. CASE ok
  <2>1. Then(a, stmts)
      BY <1>1, <1>5 DEF Check
  <2>2. c \in Kids /\ Parent \in Tasks
      BY <1>5, KidsAndParent DEF Steady, FamilyRows, ParentRow
  <2>3. "coding" \in Known.asked
      BY <1>5 DEF Known, ParentStatus
  <2> HIDE DEF c
  <2>4. Sure(S("status", Parent, "coding"), a, Known) /\ Sure(S("retry", c, None), a, Known)
      BY <1>3, <2>2, <2>3, ParentStatusSure, RequestSure
  <2>5. Sure(Put(Parent, [blockedChild |-> None]), a, Known)
      BY <2>2, PutSure
  <2>6. SurePlan(stmts, a, Known)
      BY <2>4, <2>5, SureThree DEF ResumeParent
  <2> HIDE DEF stmts
  <2> QED  BY <1>1, <2>1, <2>6, FamilyQuiet
<1> QED  BY <1>4, <1>5

LEMMA FinishKeeps == ASSUME Steady, NEW a \in Actors, FinishJob(a) PROVE Steady'
<1> DEFINE t == It(a).t
           stmts == IF Latest(t) = "paused" THEN Try(<<SetJob(t, "done")>>) ELSE <<>>
<1>1. Doing(a, "finish") /\ OnlyAgenda /\ Then(a, stmts)
    BY DEF FinishJob
<1>2. It(a).op = "finish" /\ Kin(It(a), a, Known)
    BY <1>1, FamilyHead, KinOf
<1>3. t \in Kids
    BY <1>2 DEF Kin
<1>4. CASE Latest(t) = "paused"
  <2>1. t \in Known.begun
      BY <1>3, <1>4, KnownBegun
  <2> HIDE DEF t
  <2>2. SurePlan(Try(<<SetJob(t, "done")>>), a, Known)
      BY <2>1, JobSure, SureOne, SureTry DEF SetJob
  <2>3. SurePlan(stmts, a, Known)
      BY <1>4, <2>2
  <2> HIDE DEF stmts
  <2> QED  BY <1>1, <2>3, FamilyQuiet
<1>5. CASE Latest(t) # "paused"
  <2>1. SurePlan(stmts, a, Known)
      BY <1>5, SureEmpty
  <2> HIDE DEF stmts
  <2> QED  BY <1>1, <2>1, FamilyQuiet
<1> QED  BY <1>4, <1>5

LEMMA RefusedKeeps == ASSUME Steady, NEW a \in Actors, StepRefused(a) PROVE Steady'
<1>1. Doing(a, "refused") /\ Then(a, <<>>) /\ UNCHANGED <<task, jobs, stage, pr, run, conf, budget>>
    BY DEF StepRefused, rows
<1>2. FamilyRows' /\ Known' = Known /\ Grows(Known, Known') /\ task' = task
    BY <1>1, AgendaDomain, SameRows DEF Steady
<1> QED  BY <1>1, <1>2, SureEmpty, FamilySilent

\* Statements that change a job: only those of children that have left todo.
LEMMA UpdateJobKeeps == ASSUME Steady, NEW a \in Actors, UpdateJob(a) PROVE Steady'
<1> DEFINE t == It(a).t
<1>1. Doing(a, "job") /\ UNCHANGED <<task, stage, pr, run, conf, budget>> /\ (Then(a, <<>>) \/ Raise(a))
    BY DEF UpdateJob, Check
<1>2. It(a).op = "job" /\ Kin(It(a), a, Known)
    BY <1>1, FamilyHead, KinOf
<1>3. t \in Known.begun
    BY <1>2 DEF Kin
<1>4. t \in Kids /\ Begun(t)
    BY <1>3 DEF Known
<1>5. DOMAIN jobs' = Tasks /\ \A u \in Tasks : u # t => jobs'[u] = jobs[u]
  <2>1. DOMAIN jobs = Tasks
      BY DEF Steady, FamilyRows, FamilyShape
  <2> QED  BY <2>1 DEF UpdateJob
<1> HIDE DEF t
<1>6. Known' = Known /\ Grows(Known, Known')
  <2>1. Known' = Known
      BY <1>1 DEF Known, Begun
  <2> QED  BY <2>1 DEF Grows
<1>7. FamilyRows'
  <2>1. FamilyShape' /\ Undisturbed'
      BY <1>1, <1>5, AgendaDomain DEF Steady, FamilyRows, FamilyShape, Undisturbed
  <2>2. ParentRow'
      BY <1>1, <1>4, <1>5, KidsAndParent DEF Steady, FamilyRows, ParentRow
  <2>3. \A k \in Kids : KidRow(k)'
      BY <1>1, <1>4, <1>5, KidsAndParent DEF Steady, FamilyRows, KidRow, Begun, conf
  <2> QED  BY <2>1, <2>2, <2>3 DEF FamilyRows
<1> QED  BY <1>1, <1>6, <1>7, SureEmpty, FamilySilent

LEMMA EnqueueKeeps == ASSUME Steady, NEW a \in Actors, Enqueue(a) PROVE Steady'
<1> DEFINE t == It(a).t
<1>1. Doing(a, "enqueue") /\ UNCHANGED <<task, stage, pr, run, conf, budget>> /\ Then(a, <<>>)
    BY DEF Enqueue
<1>2. It(a).op = "enqueue" /\ Kin(It(a), a, Known)
    BY <1>1, FamilyHead, KinOf
<1>3. t \in Known.begun
    BY <1>2 DEF Kin
<1>4. t \in Kids /\ Begun(t)
    BY <1>3 DEF Known
<1>5. DOMAIN jobs' = Tasks /\ \A u \in Tasks : u # t => jobs'[u] = jobs[u]
  <2>1. DOMAIN jobs = Tasks
      BY DEF Steady, FamilyRows, FamilyShape
  <2> QED  BY <2>1 DEF Enqueue
<1> HIDE DEF t
<1>6. Known' = Known /\ Grows(Known, Known')
  <2>1. Known' = Known
      BY <1>1 DEF Known, Begun
  <2> QED  BY <2>1 DEF Grows
<1>7. FamilyRows'
  <2>1. FamilyShape' /\ Undisturbed'
      BY <1>1, <1>5, AgendaDomain DEF Steady, FamilyRows, FamilyShape, Undisturbed
  <2>2. ParentRow'
      BY <1>1, <1>4, <1>5, KidsAndParent DEF Steady, FamilyRows, ParentRow
  <2>3. \A k \in Kids : KidRow(k)'
      BY <1>1, <1>4, <1>5, KidsAndParent DEF Steady, FamilyRows, KidRow, Begun, conf
  <2> QED  BY <2>1, <2>2, <2>3 DEF FamilyRows
<1> QED  BY <1>1, <1>6, <1>7, SureEmpty, FamilySilent

\* A pull request is opened by a run that has ended a step, and merged once it is there.
LEMMA PullRequestRows ==
    ASSUME Steady, NEW a, NEW stmts, Then(a, stmts) \/ Raise(a), UNCHANGED <<task, jobs, stage, run, conf, budget>>,
           NEW t \in Kids, stage[t] # 0, pr' = pr \/ (\E v : pr' = [pr EXCEPT ![t] = v])
    PROVE  FamilyRows' /\ Known' = Known /\ Grows(Known, Known')
<1>1. Known' = Known
    BY DEF Known, Begun
<1>2. DOMAIN pr' = Tasks /\ \A u \in Tasks : u # t => pr'[u] = pr[u]
    BY DEF Steady, FamilyRows, FamilyShape
<1>3. FamilyShape' /\ Undisturbed'
    BY <1>2, AgendaDomain DEF Steady, FamilyRows, FamilyShape, Undisturbed
<1>4. ParentRow'
    BY <1>2, KidsAndParent DEF Steady, FamilyRows, ParentRow
<1>5. \A k \in Kids : KidRow(k)'
    BY <1>2, KidsAndParent DEF Steady, FamilyRows, KidRow, Begun, conf
<1> QED  BY <1>1, <1>3, <1>4, <1>5 DEF FamilyRows, Grows

LEMMA OpenKeeps == ASSUME Steady, NEW a \in Actors, OpenPullRequest(a) PROVE Steady'
<1> DEFINE t == It(a).t
<1>1. Doing(a, "open") /\ UNCHANGED <<task, jobs, stage, run, conf, budget>> /\ Then(a, <<>>)
    BY DEF OpenPullRequest, rows
<1>2. It(a).op = "open" /\ Kin(It(a), a, Known)
    BY <1>1, FamilyHead, KinOf
<1>3. t = a /\ t \in Known.staged
    BY <1>2 DEF Kin
<1>4. t \in Kids /\ stage[t] # 0
    BY <1>3 DEF Known
<1>5. pr' = pr \/ (\E v : pr' = [pr EXCEPT ![t] = v])
    BY DEF OpenPullRequest
<1> HIDE DEF t
<1>6. FamilyRows' /\ Known' = Known /\ Grows(Known, Known')
    BY <1>1, <1>4, <1>5, PullRequestRows
<1> QED  BY <1>1, <1>6, SureEmpty, FamilySilent

LEMMA ApproveKeeps == ASSUME Steady, NEW a \in Actors, ApproveMerge(a) PROVE Steady'
<1> DEFINE t == It(a).t
<1>1. Doing(a, "approve") /\ UNCHANGED <<task, jobs, stage, run, conf, budget>>
    BY DEF ApproveMerge, rows
<1>2. It(a).op = "approve" /\ Kin(It(a), a, Known)
    BY <1>1, FamilyHead, KinOf
<1>3. t \in Kids /\ a \notin Kids
    BY <1>2 DEF Kin
<1>4. \/ pr[t] # "none" /\ pr' = [pr EXCEPT ![t] = "merged"] /\ Then(a, Merged(t))
      \/ pr' = pr /\ Raise(a)
    BY DEF ApproveMerge, ProviderMerges
<1> HIDE DEF t
<1>5. CASE pr[t] # "none" /\ pr' = [pr EXCEPT ![t] = "merged"] /\ Then(a, Merged(t))
  <2>1. stage[t] # 0 /\ t \in Known.staged
      BY <1>3, <1>5 DEF Steady, FamilyRows, KidRow, Known
  <2>2. FamilyRows' /\ Known' = Known /\ Grows(Known, Known')
      BY <1>1, <1>3, <1>5, <2>1, PullRequestRows
  <2>3. "merged" \in KidStatus
      BY TaskStatuses DEF KidStatus
  <2>4. Sure(S("status", t, "merged"), a, Known) /\ Sure(S("finish", t, None), a, Known)
      BY <1>3, <2>1, <2>3, KidStatusSure, RequestSure
  <2>5. SurePlan(Merged(t), a, Known)
      BY <2>4, SureTwo DEF Merged
  <2> QED  BY <1>1, <1>5, <2>2, <2>5, FamilySilent
<1>6. CASE pr' = pr /\ Raise(a)
  <2>1. FamilyRows' /\ Known' = Known /\ Grows(Known, Known')
      BY <1>1, <1>6, SameRows, AgendaDomain DEF Steady
  <2> QED  BY <1>1, <1>6, <2>1, SureEmpty, FamilySilent
<1> QED  BY <1>4, <1>5, <1>6

\* A run has ended a step: its first write is behind it.
LEMMA StageKeeps == ASSUME Steady, NEW a \in Actors, SaveStage(a) PROVE Steady'
<1> DEFINE t == It(a).t
           v == It(a).v
<1>1. Doing(a, "stage") /\ UNCHANGED <<task, jobs, pr, run, conf, budget>> /\ Then(a, <<>>)
    BY DEF SaveStage, rows
<1>2. It(a).op = "stage" /\ Kin(It(a), a, Known)
    BY <1>1, FamilyHead, KinOf
<1>3. t = a /\ a \in Kids /\ v # 0
    BY <1>2 DEF Kin
<1>4. stage' = [stage EXCEPT ![t] = v]
    BY DEF SaveStage
<1> HIDE DEF t, v
<1>5. DOMAIN stage' = Tasks /\ stage'[a] # 0 /\ \A u \in Tasks : u # a => stage'[u] = stage[u]
    BY <1>3, <1>4, KidsAndParent DEF Steady, FamilyRows, FamilyShape
<1>6. \A k \in Kids : stage[k] # 0 => stage'[k] # 0
    BY <1>5, KidsAndParent
<1>7. /\ Known'.begun = Known.begun /\ Known'.asked = Known.asked
      /\ Known.staged \subseteq Known'.staged /\ Known'.staged \subseteq Known.staged \cup {a}
  <2>1. Known.begun = {k \in Kids : Begun(k)} /\ Known'.begun = {k \in Kids : Begun(k)}
      BY <1>1 DEF Known, Begun
  <2>2. Known'.asked = Known.asked
      BY <1>1 DEF Known
  <2>3. Known.staged = {k \in Kids : stage[k] # 0} /\ Known'.staged = {k \in Kids : stage'[k] # 0}
      BY DEF Known
  <2>4. Known.staged \subseteq Known'.staged /\ Known'.staged \subseteq Known.staged \cup {a}
      BY <1>5, <1>6, <2>3, KidsAndParent
  <2> QED  BY <2>1, <2>2, <2>4
<1>8. Grows(Known, Known') /\ \A b \in Actors \ {a} : b \in Known'.staged => b \in Known.staged
    BY <1>7 DEF Grows
<1>9. FamilyRows'
  <2>1. FamilyShape' /\ Undisturbed'
      BY <1>1, <1>5, AgendaDomain DEF Steady, FamilyRows, FamilyShape, Undisturbed
  <2>2. ParentRow'
      BY <1>1 DEF Steady, FamilyRows, ParentRow
  <2>3. \A k \in Kids : KidRow(k)'
      BY <1>1, <1>6 DEF Steady, FamilyRows, KidRow, Begun, conf
  <2> QED  BY <2>1, <2>2, <2>3 DEF FamilyRows
<1> QED  BY <1>1, <1>8, <1>9, SureEmpty, FamilySilent

\* A run goes away, on its own or cut short.
LEMMA RunRows ==
    ASSUME Steady, UNCHANGED <<task, jobs, stage, pr, conf, budget>>, DOMAIN agenda' = Actors,
           run' = run \/ \E t : run' = [run EXCEPT ![t] = 0]
    PROVE  FamilyRows' /\ Known' = Known /\ Grows(Known, Known')
<1>1. Known' = Known
    BY DEF Known, Begun
<1>2. DOMAIN run' = Tasks /\ \A u \in Tasks : run[u] = 0 => run'[u] = 0
    BY DEF Steady, FamilyRows, FamilyShape
<1>3. FamilyShape' /\ Undisturbed'
    BY <1>2 DEF Steady, FamilyRows, FamilyShape, Undisturbed
<1>4. ParentRow'
    BY <1>2, KidsAndParent DEF Steady, FamilyRows, ParentRow
<1>5. \A k \in Kids : KidRow(k)'
    BY <1>2, KidsAndParent DEF Steady, FamilyRows, KidRow, Begun, conf
<1> QED  BY <1>1, <1>3, <1>4, <1>5 DEF FamilyRows, Grows

LEMMA EndRunKeeps == ASSUME Steady, NEW a \in Actors, EndRun(a) PROVE Steady'
<1>1. Doing(a, "end") /\ UNCHANGED <<task, jobs, stage, pr, conf, budget>> /\ Then(a, <<>>)
    BY DEF EndRun, rows
<1>2. \E t : run' = [run EXCEPT ![t] = 0]
    BY DEF EndRun
<1>3. FamilyRows' /\ Known' = Known /\ Grows(Known, Known')
    BY <1>1, <1>2, RunRows, AgendaDomain
<1> QED  BY <1>1, <1>3, SureEmpty, FamilySilent

\* The cancel function of a run: only the run of a child is cut short, never a request.
LEMMA CancelRunKeeps == ASSUME Steady, NEW a \in Actors, CancelRun(a) PROVE Steady'
<1> DEFINE t == It(a).t
           rest == Settle(Tail(agenda[a]))
<1>1. Doing(a, "kill") /\ UNCHANGED <<task, jobs, stage, pr, conf, budget>>
    BY DEF CancelRun, rows
<1>2. It(a).op = "kill" /\ Kin(It(a), a, Known) /\ RestPlan(Tail(agenda[a]), It(a), a, Known)
    BY <1>1, FamilyHead, KinOf
<1>3. t \in Kids /\ a \notin Kids
    BY <1>2 DEF Kin
<1>4. \E cut : agenda' = [agenda EXCEPT ![a] = rest, ![t] = IF cut THEN <<>> ELSE @]
    BY DEF CancelRun
<1>5. run' = run \/ \E u : run' = [run EXCEPT ![u] = 0]
    BY DEF CancelRun
<1>6. KinPlan(rest, a, Known)
  <2>1. SurePlan(Tail(agenda[a]), a, Known)
      BY <1>2, PlainRest
  <2> QED  BY <2>1, SureSettle, SureIsKin
<1> HIDE DEF t, rest
<1>7. PICK cut : agenda' = [agenda EXCEPT ![a] = rest, ![t] = IF cut THEN <<>> ELSE @]
    BY <1>4
<1>8. DOMAIN agenda = Actors /\ \A b \in Actors : KinPlan(agenda[b], b, Known)
    BY DEF Steady, FamilyRows, FamilyShape, Grown
<1>9. /\ DOMAIN agenda' = Actors /\ agenda'[a] = rest
      /\ \A b \in Actors : b # a => agenda'[b] = agenda[b] \/ (agenda'[b] = <<>> /\ b = t)
    BY <1>3, <1>7, <1>8
<1>10. FamilyRows' /\ Known' = Known
    BY <1>1, <1>5, <1>9, RunRows
<1>11. \A b \in Actors : KinPlan(agenda'[b], b, Known')
    BY <1>6, <1>8, <1>9, <1>10, SureEmpty, SureIsKin
<1>12. ~Next1st(agenda[a], First) /\ ~LastOne(agenda[a])
    BY <1>2 DEF Next1st, LastOne, Starts, Completes, Tells, It
<1>13. \A b \in Others : b # a => agenda'[b] = agenda[b]
    BY <1>3, <1>9 DEF Others
<1>14. Left' = Left /\ First' = First /\ (Begun(First))' = Begun(First) /\ Closed' = Closed
    BY <1>1 DEF Left, First, Begun, Closed
<1>15. GoesOn'
  <2> SUFFICES ASSUME Left # {}, ~Begun(First) PROVE \E b \in Others : Next1st(agenda'[b], First)
      BY <1>14 DEF GoesOn
  <2>1. PICK b \in Others : Next1st(agenda[b], First)
      BY DEF GoesOn, Steady, Grown
  <2>2. agenda'[b] = agenda[b]
      BY <1>12, <1>13, <2>1
  <2> QED  BY <2>1, <2>2
<1>16. Closes'
  <2> SUFFICES ASSUME Left = {}, ~Closed PROVE \E b \in Others : LastOne(agenda'[b])
      BY <1>14 DEF Closes
  <2>1. PICK b \in Others : LastOne(agenda[b])
      BY DEF Closes, Steady, Grown
  <2>2. agenda'[b] = agenda[b]
      BY <1>12, <1>13, <2>1
  <2> QED  BY <2>1, <2>2
<1> QED  BY <1>1, <1>10, <1>11, <1>15, <1>16 DEF Steady, Grown

\* A step that changes the agenda alone, with a statement that has something to pass on.
LEMMA FamilyPasses ==
    ASSUME Steady, NEW a \in Actors, OnlyAgenda,
           NEW q, agenda' = [agenda EXCEPT ![a] = q], KinPlan(q, a, Known),
           ASSUME a \in Others, Left # {}, ~Begun(First), Next1st(agenda[a], First) PROVE Next1st(q, First),
           ASSUME a \in Others, Left = {}, ~Closed, LastOne(agenda[a]) PROVE LastOne(q)
    PROVE  Steady'
<1>1. UNCHANGED <<task, jobs, stage, pr, run, conf, budget>>
    BY DEF OnlyAgenda, rows
<1>2. DOMAIN agenda' = Actors
    BY DEF Steady, FamilyRows, FamilyShape
<1>3. FamilyRows' /\ Known' = Known /\ Grows(Known, Known') /\ task' = task
    BY <1>1, <1>2, SameRows DEF Steady
<1>4. KinPlan(q, a, Known')
    BY <1>3
<1>5. \A b \in Actors \ {a} : b \in Known'.staged => b \in Known.staged
    BY <1>3
<1> QED  BY <1>3, <1>4, <1>5, FamilyProceeds

\* A list put in front begins the agenda.
LEMMA FrontSettles ==
    ASSUME NEW T, NEW p \in Seq(T), NEW r \in Seq(T), p # <<>>, p[1].op # "catch"
    PROVE  Settle(p \o r) # <<>> /\ Head(Settle(p \o r)) = p[1]
<1> DEFINE q == p \o r
<1>1. q \in Seq(T) /\ Len(q) = Len(p) + Len(r)
    BY ConcatProperties
<1>2. Len(p) \in Nat /\ Len(p) > 0 /\ Len(r) \in Nat
    BY EmptySeq
<1>3. q[1] = p[1]
  <2>1. \A i \in 1..(Len(p) + Len(r)) : q[i] = IF i <= Len(p) THEN p[i] ELSE r[i - Len(p)]
      BY ConcatProperties, Zenon
  <2>2. 1 \in 1..(Len(p) + Len(r)) /\ 1 <= Len(p)
      BY <1>2
  <2> QED  BY <2>1, <2>2
<1> HIDE DEF q
<1>4. q # <<>>
    BY <1>1, <1>2
<1>5. Settle(q) = q
    BY <1>1, <1>3, <1>4, Settled
<1> QED  BY <1>1, <1>3, <1>4, <1>5 DEF q

LEMMA SureFront ==
    ASSUME NEW a, NEW K, NEW p, NEW r, SurePlan(p, a, K), SurePlan(r, a, K), p # <<>>, p[1].op # "catch"
    PROVE  /\ KinPlan(Settle(p \o r), a, K)
           /\ Settle(p \o r) # <<>> /\ Head(Settle(p \o r)) = p[1]
<1>1. PICK T : p \in Seq(T) /\ \A s \in T : Sure(s, a, K)
    BY SureSet
<1>2. PICK U : r \in Seq(U) /\ \A s \in U : Sure(s, a, K)
    BY SureSet
<1>3. p \in Seq(T \cup U) /\ r \in Seq(T \cup U)
    BY <1>1, <1>2, SeqMonotonic
<1>4. Settle(p \o r) # <<>> /\ Head(Settle(p \o r)) = p[1]
    BY <1>3, FrontSettles
<1>5. KinPlan(Settle(p \o r), a, K)
    BY SureConcat, SureSettle, SureIsKin
<1> QED  BY <1>4, <1>5

\* A child ends: a merge has the family looked at, a failure blocks the parent.
LEMMA ChildTerminalKeeps == ASSUME Steady, NEW a \in Actors, ChildTerminal(a) PROVE Steady'
<1> DEFINE c == It(a).t
           v == It(a).v
           stmts == OnChildTaskTerminal(c, v)
           rest == Tail(agenda[a])
           q == Settle(stmts \o rest)
<1>1. Doing(a, "terminal") /\ OnlyAgenda /\ agenda' = [agenda EXCEPT ![a] = q]
    BY DEF ChildTerminal, Then
<1>2. It(a).op = "terminal" /\ Kin(It(a), a, Known) /\ RestPlan(rest, It(a), a, Known) /\ agenda[a] # <<>>
    BY <1>1, FamilyHead, KinOf
<1>3. c \in Kids /\ v \in {"failed", "merged"} /\ (v = "merged" => a \notin Kids)
    BY <1>2 DEF Kin
<1>4. SurePlan(rest, a, Known)
    BY <1>2, PlainRest
<1>5. task[Parent].split
    BY DEF Steady, Grown
<1>6. v # "merged" => ~Next1st(agenda[a], First) /\ ~LastOne(agenda[a])
    BY <1>2 DEF Next1st, LastOne, Starts, Completes, Tells, It
<1> HIDE DEF c, v, rest
<1>7. CASE v = "merged"
  <2>1. stmts = <<S("list", Parent, None)>>
      BY <1>5, <1>7 DEF OnChildTaskTerminal
  <2> DEFINE l == S("list", Parent, None)
             p == <<l>>
  <2>2. l.op = "list"
      BY DEF S
  <2>3. Sure(l, a, Known)
      BY <1>3, <1>7, <2>2 DEF Sure, Kin
  <2>4. SurePlan(p, a, Known) /\ p # <<>> /\ p[1] = l
    <3> HIDE DEF l
    <3> QED  BY <2>3, SureOne
  <2>5. stmts = p
      BY <2>1
  <2> HIDE DEF l, p, stmts
  <2>6. KinPlan(q, a, Known) /\ q # <<>> /\ Head(q) = l
      BY <1>4, <2>2, <2>4, <2>5, SureFront
  <2>7. Next1st(q, First) /\ LastOne(q)
      BY <2>2, <2>6 DEF Next1st, LastOne, Starts, Completes, Tells
  <2> HIDE DEF q
  <2> QED  BY <1>1, <2>6, <2>7, FamilyPasses
<1>8. CASE v # "merged"
  <2>1. v = "failed"
      BY <1>3, <1>8
  <2> DEFINE put == Put(Parent, [blockedChild |-> c])
             ask == S("status", Parent, "blocked")
  <2>2. stmts = <<put>> \o Try(<<ask>>)
      BY <1>5, <2>1 DEF OnChildTaskTerminal
  <2>3. Sure(put, a, Known)
      BY <1>3, KidsAndParent, PutSure
  <2>4. Sure(ask, a, Known)
    <3>1. "blocked" \in Known.asked
        BY DEF Known, ParentStatus
    <3> QED  BY <3>1, ParentStatusSure
  <2> HIDE DEF put, ask, stmts
  <2>5. SurePlan(stmts, a, Known)
      BY <2>2, <2>3, <2>4, SureOne, SureTry, SureConcat
  <2>6. KinPlan(q, a, Known)
      BY <1>4, <2>5, SureConcat, SureSettle, SureIsKin
  <2> HIDE DEF q
  <2> QED  BY <1>1, <1>6, <1>8, <2>6, FamilyPasses
<1> QED  BY <1>7, <1>8

\* The family is looked at: the first child that is not merged is started, or the parent merged.
LEMMA ListKeeps == ASSUME Steady, NEW a \in Actors, ListChildren(a) PROVE Steady'
<1> DEFINE rest == Tail(agenda[a])
           q == Settle(DispatchNextChildOrReduce \o rest)
<1>1. Doing(a, "list") /\ OnlyAgenda /\ agenda' = [agenda EXCEPT ![a] = q]
    BY DEF ListChildren, Then
<1>2. It(a).op = "list" /\ Kin(It(a), a, Known) /\ RestPlan(rest, It(a), a, Known) /\ agenda[a] # <<>>
    BY <1>1, FamilyHead, KinOf
<1>3. a \notin Kids
    BY <1>2 DEF Kin
<1>4. SurePlan(rest, a, Known)
    BY <1>2, PlainRest
<1>5. Siblings = 1..Len(Children) /\ Siblings # {} /\ Unmerged = Left
  <2>1. Siblings = 1..Len(Children)
      BY KidsAndParent DEF Siblings, Steady, Grown
  <2>2. 1 \in Siblings
      BY <2>1, LifecycleAssumption
  <2> QED  BY <2>1, <2>2 DEF Unmerged, Left
<1> HIDE DEF rest
<1>6. CASE Left # {} /\ ~Begun(First)
  <2> DEFINE s == S("execute", First, None)
             p == Try(<<s>>)
  <2>1. DispatchNextChildOrReduce = p
      BY <1>5, <1>6 DEF DispatchNextChildOrReduce, First, Begun
  <2>2. First \in Kids
      BY <1>6, FirstIsKid
  <2>3. Sure(s, a, Known)
      BY <1>3, <2>2, RequestSure
  <2>4. s.op = "execute" /\ s.t = First
      BY DEF S
  <2> HIDE DEF s
  <2>5. SurePlan(p, a, Known)
      BY <2>3, SureOne, SureTry
  <2>6. p # <<>> /\ p[1] = s
      BY DEF Try, Catch
  <2> HIDE DEF p
  <2>7. KinPlan(q, a, Known) /\ q # <<>> /\ Head(q) = s
      BY <1>4, <2>1, <2>4, <2>5, <2>6, SureFront
  <2> HIDE DEF q
  <2>8. Next1st(q, First)
      BY <2>4, <2>7 DEF Next1st, Starts
  <2> QED  BY <1>1, <1>6, <2>7, <2>8, FamilyPasses
<1>7. CASE Left # {} /\ Begun(First)
  <2>1. DispatchNextChildOrReduce = <<>>
      BY <1>5, <1>7 DEF DispatchNextChildOrReduce, First, Begun
  <2>2. KinPlan(q, a, Known)
      BY <1>4, <2>1, SureEmpty, SureConcat, SureSettle, SureIsKin
  <2> HIDE DEF q
  <2> QED  BY <1>1, <1>7, <2>2, FamilyPasses
<1>8. CASE Left = {}
  <2> DEFINE s == S("status", Parent, "merged")
             p == Try(<<s>>)
  <2>1. DispatchNextChildOrReduce = p
      BY <1>5, <1>8 DEF DispatchNextChildOrReduce
  <2>2. "merged" \in Known.asked
      BY DEF Known, ParentStatus
  <2>3. Sure(s, a, Known)
      BY <1>3, <2>2, ParentStatusSure
  <2>4. s.op = "status" /\ s.t = Parent /\ s.v = "merged"
      BY DEF S
  <2> HIDE DEF s
  <2>5. SurePlan(p, a, Known)
      BY <2>3, SureOne, SureTry
  <2>6. p # <<>> /\ p[1] = s
      BY DEF Try, Catch
  <2> HIDE DEF p
  <2>7. KinPlan(q, a, Known) /\ q # <<>> /\ Head(q) = s
      BY <1>4, <2>1, <2>4, <2>5, <2>6, SureFront
  <2> HIDE DEF q
  <2>8. LastOne(q)
      BY <2>4, <2>7 DEF LastOne, Completes
  <2> QED  BY <1>1, <1>8, <2>7, <2>8, FamilyPasses
<1> QED  BY <1>6, <1>7, <1>8

\* A task leaves todo, then its job is queued.
LEMMA QueueInFront ==
    ASSUME NEW a, NEW K, NEW r, SurePlan(r, a, K), NEW s, Sure(s, a, K), s.op = "status", NEW e, Queues(s, e)
    PROVE  KinPlan(Settle(<<s, e>> \o r), a, K) /\ Settle(<<s, e>> \o r) # <<>> /\ Head(Settle(<<s, e>> \o r)) = s
<1>1. PICK U : r \in Seq(U) /\ \A x \in U : Sure(x, a, K)
    BY SureSet
<1> DEFINE T == U \cup {s, e}
           p == <<s, e>>
           q == p \o r
<1>2. p \in Seq(T) /\ Len(p) = 2 /\ p[1] = s /\ p[2] = e
    OBVIOUS
<1>3. r \in Seq(T) /\ Len(r) \in Nat
    BY <1>1, SeqMonotonic
<1> HIDE DEF p, T
<1>4. q \in Seq(T) /\ Len(q) = 2 + Len(r)
  <2>1. p \o r \in Seq(T) /\ Len(p \o r) = Len(p) + Len(r)
      BY <1>2, <1>3, ConcatProperties
  <2> QED  BY <1>2, <2>1
<1>5. \A i \in 1..(Len(p) + Len(r)) : q[i] = IF i <= Len(p) THEN p[i] ELSE r[i - Len(p)]
    BY <1>2, <1>3, ConcatProperties, Zenon
<1> HIDE DEF q
<1>6. q[1] = s /\ q[2] = e /\ \A i \in 3..Len(q) : q[i] = r[i - 2] /\ i - 2 \in 1..Len(r)
    BY <1>2, <1>3, <1>4, <1>5
<1>7. q # <<>> /\ Head(q) = s /\ Settle(q) = q
    BY <1>3, <1>4, <1>6, Settled
<1>8. \A i \in DOMAIN q : Sure(q[i], a, K) \/ (i = 2 /\ Queues(q[1], q[2]))
  <2> TAKE i \in DOMAIN q
  <2>1. i = 1 \/ i = 2 \/ i \in 3..Len(q)
      BY <1>4
  <2>2. CASE i \in 3..Len(q)
      BY <1>1, <1>6, <2>2
  <2> QED  BY <1>6, <2>1, <2>2
<1>9. IsSeq(q)
    BY <1>4, SeqIsSeq
<1> QED  BY <1>7, <1>8, <1>9 DEF KinPlan, q, p

LEMMA TwoConcat == ASSUME NEW x, NEW y PROVE (<<>> \o <<x>>) \o <<y>> = <<x, y>>
<1> DEFINE T == {x, y}
<1>1. <<x>> \in Seq(T) /\ <<y>> \in Seq(T)
    OBVIOUS
<1>2. <<>> \o <<x>> = <<x>>
  <2> DEFINE p == <<x>>
  <2>1. p \in Seq(T)
      BY <1>1
  <2> HIDE DEF p
  <2>2. <<>> \o p = p
      BY <2>1, ConcatEmptySeq
  <2> QED  BY <2>2 DEF p
<1> DEFINE p == <<x>>
           r == <<y>>
           q == <<x, y>>
           u == p \o r
<1>3. p \in Seq(T) /\ r \in Seq(T) /\ q \in Seq(T) /\ Len(p) = 1 /\ Len(r) = 1 /\ Len(q) = 2
    OBVIOUS
<1>4. p[1] = x /\ r[1] = y /\ q[1] = x /\ q[2] = y
    OBVIOUS
<1> HIDE DEF p, q, r, T
<1>5. u \in Seq(T) /\ Len(u) = 2 /\ u[1] = x /\ u[2] = y
  <2>1. u \in Seq(T) /\ Len(u) = Len(p) + Len(r)
      BY <1>3, ConcatProperties
  <2>2. \A i \in 1..(Len(p) + Len(r)) : u[i] = IF i <= Len(p) THEN p[i] ELSE r[i - Len(p)]
      BY <1>3, ConcatProperties, Zenon
  <2> QED  BY <1>3, <1>4, <2>1, <2>2
<1> HIDE DEF u
<1>6. \A i \in 1..Len(u) : u[i] = q[i]
    BY <1>4, <1>5
<1>7. u = q
    BY <1>3, <1>5, <1>6, SeqEqual
<1> QED  BY <1>2, <1>7 DEF u, p, q, r

\* A child is executed, by hand or by the family.
LEMMA ExecuteKeeps == ASSUME Steady, NEW a \in Actors, Execute(a) PROVE Steady'
<1> DEFINE t == It(a).t
           rest == Tail(agenda[a])
           body == ExecuteBody(t)
           q == Settle(body \o rest)
<1>1. Doing(a, "execute") /\ OnlyAgenda /\ agenda' = [agenda EXCEPT ![a] = q]
    BY DEF Execute, Then
<1>2. It(a).op = "execute" /\ Kin(It(a), a, Known) /\ RestPlan(rest, It(a), a, Known) /\ agenda[a] # <<>>
    BY <1>1, FamilyHead, KinOf
<1>3. t \in Kids /\ a \notin Kids
    BY <1>2 DEF Kin
<1>4. SurePlan(rest, a, Known)
    BY <1>2, PlainRest
<1>5. ~LastOne(agenda[a]) /\ (Next1st(agenda[a], First) => t = First)
    BY <1>2 DEF Next1st, LastOne, Starts, Completes, Tells, It
<1>6. "context_loading" \in KidStatus
    BY TaskStatuses DEF KidStatus
<1> HIDE DEF t, rest
<1>7. CASE Begun(t)
  <2>1. t \in Known.begun
      BY <1>3, <1>7, KnownBegun
  <2>2. SurePlan(<<SetJob(t, "queued")>>, a, Known)
      BY <2>1, JobSure, SureOne DEF SetJob
  <2>3. SurePlan(<<S("status", t, "context_loading")>>, a, Known)
      BY <1>3, <1>6, KidStatusSure, SureOne
  <2>4. SurePlan(<<S("enqueue", t, None)>>, a, Known)
      BY <2>1, JobSure, SureOne
  <2> DEFINE again == IF Latest(t) = "paused" THEN <<SetJob(t, "queued")>> ELSE <<>>
             move == IF task[t].status \in {"todo", "failed"} THEN <<S("status", t, "context_loading")>> ELSE <<>>
             new == IF Latest(t) = "paused" THEN <<>> ELSE <<S("enqueue", t, None)>>
  <2>5. SurePlan(again, a, Known) /\ SurePlan(move, a, Known) /\ SurePlan(new, a, Known)
      BY <2>2, <2>3, <2>4, SureEmpty
  <2>6. body = <<>> \/ body = again \o move \o new
      BY DEF ExecuteBody
  <2> HIDE DEF again, move, new, body
  <2>7. SurePlan(body, a, Known)
    <3>1. SurePlan(again \o move, a, Known)
        BY <2>5, SureConcat
    <3>2. SurePlan(again \o move \o new, a, Known)
        BY <2>5, <3>1, SureConcat
    <3> QED  BY <2>6, <3>2, SureEmpty
  <2>8. KinPlan(q, a, Known)
      BY <1>4, <2>7, SureConcat, SureSettle, SureIsKin
  <2> HIDE DEF q
  <2> QED  BY <1>1, <1>5, <1>7, <2>8, FamilyPasses
<1>8. CASE ~Begun(t)
  <2> DEFINE s == S("status", t, "context_loading")
             e == S("enqueue", t, None)
  <2>1. jobs[t] = <<>> /\ Latest(t) = "none" /\ task[t].status = "todo"
      BY <1>3, <1>8 DEF Steady, FamilyRows, KidRow, Latest, Begun
  <2>2. body = <<s, e>>
    <3>1. body = (<<>> \o <<s>>) \o <<e>>
        BY <2>1 DEF ExecuteBody
    <3> HIDE DEF s, e, body
    <3> QED  BY <3>1, TwoConcat
  <2>3. s.op = "status" /\ s.t = t /\ s.v = "context_loading" /\ Queues(s, e)
      BY <1>3 DEF S, Queues
  <2>4. Sure(s, a, Known)
      BY <1>3, <1>6, KidStatusSure
  <2> HIDE DEF s, e, body
  <2>5. KinPlan(q, a, Known) /\ q # <<>> /\ Head(q) = s
      BY <1>4, <2>2, <2>3, <2>4, QueueInFront
  <2> HIDE DEF q
  <2>6. t = First => Next1st(q, First)
      BY <2>3, <2>5 DEF Next1st, Starts
  <2> QED  BY <1>1, <1>5, <2>5, <2>6, FamilyPasses
<1> QED  BY <1>7, <1>8

-----------------------------------------------------------------------------
(***************************************************************************)
(* A family: the status of a task.                                           *)
(***************************************************************************)
\* What applyGuardrails makes of a request.
LEMMA GuardedStatus ==
    ASSUME NEW row, NEW s
    PROVE  /\ "status" \in DOMAIN ApplyGuardrails(row, s)
           /\ DOMAIN ApplyGuardrails(row, s) \subseteq {"status", "reason", "retries", "started"}
           /\ ApplyGuardrails(row, s).status \in {s, "blocked"}
           /\ s = "merged" => ApplyGuardrails(row, s).status = "merged"
           /\ row.status = "todo" /\ row.started = "no" /\ row.retries = 0 /\ s = "context_loading"
                 => ApplyGuardrails(row, s).status = "context_loading"
<1> DEFINE retries == IF s = "fixing" /\ row.status \in {"testing", "reviewing"} THEN row.retries + 1
                      ELSE IF row.status = "testing" /\ s \in {"pr_ready", "merged", "human_review"} THEN 0
                      ELSE row.retries
           started == IF row.status = "todo" /\ row.started = "no" THEN "yes" ELSE row.started
           trips == s \notin {"blocked", "failed", "merged"} /\ (retries >= 5 \/ started = "late")
           st == IF trips THEN "blocked" ELSE s
           re == IF trips THEN "guardrail" ELSE ""
           w == ApplyGuardrails(row, s)
<1>1. st \in {s, "blocked"} /\ (s = "merged" => st = "merged")
    OBVIOUS
<1>2. row.status = "todo" /\ row.started = "no" /\ row.retries = 0 /\ s = "context_loading" => st = s
  <2> SUFFICES ASSUME row.status = "todo", row.started = "no", row.retries = 0, s = "context_loading"
               PROVE  ~trips
      OBVIOUS
  <2>1. retries = 0 /\ started = "yes"
      OBVIOUS
  <2> QED  BY <2>1
<1>3. \/ w = [status |-> st, reason |-> re, retries |-> retries]
      \/ w = Updated([status |-> st, reason |-> re, retries |-> retries], [started |-> started])
    BY DEF ApplyGuardrails
<1> HIDE DEF retries, started, trips, st, re, w
<1>4. CASE w = [status |-> st, reason |-> re, retries |-> retries]
  <2>1. DOMAIN w = {"status", "reason", "retries"} /\ w.status = st
      BY <1>4
  <2> QED  BY <1>1, <1>2, <2>1 DEF w
<1>5. CASE w = Updated([status |-> st, reason |-> re, retries |-> retries], [started |-> started])
  <2> DEFINE r == [status |-> st, reason |-> re, retries |-> retries]
             u == [started |-> started]
  <2>1. DOMAIN r = {"status", "reason", "retries"} /\ DOMAIN u = {"started"} /\ r.status = st
      OBVIOUS
  <2> HIDE DEF r, u
  <2>2. w = [f \in DOMAIN r \cup DOMAIN u |-> IF f \in DOMAIN u THEN u[f] ELSE r[f]]
      BY <1>5 DEF Updated, r, u
  <2>3. DOMAIN w = {"status", "reason", "retries", "started"} /\ w.status = st
      BY <2>1, <2>2
  <2> QED  BY <1>1, <1>2, <2>3 DEF w
<1> QED  BY <1>3, <1>4, <1>5

LEMMA AskedStatuses == Known.asked \subseteq ParentStatus /\ ParentStatus \subseteq TaskStatus
BY TaskStatuses DEF Known, ParentStatus

\* updateTaskStatus up to the validation: what follows is a write of the family.
LEMMA ReadStatusKeeps == ASSUME Steady, NEW a \in Actors, ReadStatus(a) PROVE Steady'
<1> DEFINE t == It(a).t
           v == It(a).v
           w == ApplyGuardrails(task[t], v)
           rest == Tail(agenda[a])
           ok == ValidateTaskTransition(task[t].status, w.status)
           wr == Write(t, w, TRUE)
<1>1. Doing(a, "status") /\ OnlyAgenda /\ Check(a, ok, <<wr>>)
    BY DEF ReadStatus
<1>2. It(a).op = "status" /\ Kin(It(a), a, Known) /\ RestPlan(rest, It(a), a, Known) /\ agenda[a] # <<>>
    BY <1>1, FamilyHead, KinOf
<1>3. MayAsk(t, v, a, Known)
    BY <1>2 DEF Kin
<1>4. /\ Next1st(agenda[a], First) => t = First /\ v = "context_loading"
      /\ LastOne(agenda[a]) => t = Parent /\ v = "merged"
    BY <1>2 DEF Next1st, LastOne, Starts, Completes, Tells, It
<1>5. /\ "status" \in DOMAIN w /\ DOMAIN w \subseteq {"status", "reason", "retries", "started"}
      /\ w.status \in {v, "blocked"}
      /\ v = "merged" => w.status = "merged"
      /\ task[t].status = "todo" /\ task[t].started = "no" /\ task[t].retries = 0 /\ v = "context_loading"
            => w.status = "context_loading"
    BY GuardedStatus
<1>6. Left # {} => First \in Kids
    BY FirstIsKid
<1>7. t \in Tasks /\ task[t].status \in TaskStatus
    BY <1>3, AskedStatuses, KidsAndParent, TaskStatuses
       DEF MayAsk, Steady, FamilyRows, KidRow, ParentRow, ParentStatus
<1> HIDE DEF t, v, w, rest
<1>8. CASE ~ok
  <2>1. agenda' = [agenda EXCEPT ![a] = Settle(Unwind(rest))]
      BY <1>1, <1>8 DEF Check, Raise, rest
  <2>2. KinPlan(Settle(Unwind(rest)), a, Known)
      BY <1>2, RestUnwinds, SureSettle, SureIsKin
  <2>3. ASSUME Left # {}, ~Begun(First), Next1st(agenda[a], First) PROVE FALSE
    <3>1. t = First /\ v = "context_loading" /\ First \in Kids
        BY <1>4, <1>6, <2>3
    <3>2. task[t].status = "todo" /\ task[t].started = "no" /\ task[t].retries = 0
        BY <2>3, <3>1 DEF Begun, Steady, FamilyRows, KidRow
    <3> QED  BY <1>5, <1>8, <3>1, <3>2, FamilyTransitions
  <2>4. ASSUME Left = {}, ~Closed, LastOne(agenda[a]) PROVE FALSE
    <3>1. t = Parent /\ v = "merged" /\ w.status = "merged"
        BY <1>4, <1>5, <2>4
    <3>2. task[Parent].status \in ParentStatus
        BY <2>4 DEF Closed, Steady, FamilyRows, ParentRow
    <3> QED  BY <1>8, <3>1, <3>2, FamilyTransitions
  <2> HIDE DEF ok
  <2> QED  BY <1>1, <2>1, <2>2, <2>3, <2>4, FamilyPasses
<1>9. CASE ok
  <2>1. agenda' = [agenda EXCEPT ![a] = Settle(<<wr>> \o rest)]
      BY <1>1, <1>9 DEF Check, Then, rest
  <2>2. wr.op = "write" /\ wr.t = t /\ wr.v.fields = w /\ wr.v.tracked /\ wr.v.read = task[t].status
      BY DEF Write, S
  <2> HIDE DEF wr
  <2>3. MayTrack(t, wr.v, a, Known)
    <3>1. w.status \in TaskStatus
        BY <1>3, <1>5, AskedStatuses, TaskStatuses DEF MayAsk, KidStatus
    <3>2. CASE t = Parent
      <4>1. w.status \in ParentStatus
          BY <1>3, <1>5, <3>2, AskedStatuses DEF MayAsk, ParentStatus
      <4>2. task[t].status # "spec_review"
        <5> SUFFICES ASSUME task[t].status = "spec_review" PROVE FALSE
            OBVIOUS
        <5>1. v \in {"blocked", "merged"}
            BY <1>3, <3>2 DEF MayAsk, Known, ParentStatus
        <5> QED  BY <1>5, <1>9, <5>1, FamilyTransitions
      <4> QED  BY <1>5, <1>7, <1>9, <2>2, <3>1, <3>2, <4>1, <4>2 DEF MayTrack
    <3>3. CASE t # Parent
      <4>1. w.status # "todo" /\ (w.status = "merged" => a \notin Kids /\ t \in Known.staged)
          BY <1>3, <1>5, <3>3 DEF MayAsk, KidStatus
      <4> QED  BY <1>5, <1>7, <1>9, <2>2, <3>1, <3>3, <4>1 DEF MayTrack
    <3> QED  BY <3>2, <3>3
  <2>4. Sure(wr, a, Known)
    <3>1. MayWrite(wr.t, wr.v, a, Known)
        BY <1>5, <1>7, <2>2, <2>3 DEF MayWrite
    <3> QED  BY <2>2, <3>1 DEF Sure, Kin
  <2> DEFINE q == Settle(<<wr>> \o rest)
  <2>5. KinPlan(q, a, Known) /\ q # <<>> /\ Head(q) = wr
    <3>1. It(a).t = t
        BY DEF t
    <3> QED  BY <1>2, <1>5, <2>2, <2>4, <3>1, WriteInFront
  <2> HIDE DEF q, ok
  <2>6. Next1st(agenda[a], First) => Next1st(q, First)
      BY <1>4, <1>5, <2>2, <2>5 DEF Next1st, Starts
  <2>7. LastOne(agenda[a]) => LastOne(q)
      BY <1>4, <1>5, <2>2, <2>5 DEF LastOne, Completes
  <2> QED  BY <1>1, <2>1, <2>5, <2>6, <2>7, FamilyPasses DEF q
<1> QED  BY <1>8, <1>9

\* An update of a row changes that row, in the fields given.
LEMMA RowUpdated ==
    ASSUME FamilyShape, NEW t \in Tasks, NEW f, task' = [task EXCEPT ![t] = Updated(@, f)]
    PROVE  /\ DOMAIN task' = Tasks /\ \A u \in Tasks : u # t => task'[u] = task[u]
           /\ {"status", "split", "exists", "blockedChild", "started", "retries"} \subseteq DOMAIN task'[t]
           /\ task'[t].status = IF "status" \in DOMAIN f THEN f.status ELSE task[t].status
           /\ task'[t].split = IF "split" \in DOMAIN f THEN f.split ELSE task[t].split
           /\ task'[t].exists = IF "exists" \in DOMAIN f THEN f.exists ELSE task[t].exists
           /\ task'[t].blockedChild = IF "blockedChild" \in DOMAIN f THEN f.blockedChild ELSE task[t].blockedChild
           /\ task'[t].started = IF "started" \in DOMAIN f THEN f.started ELSE task[t].started
           /\ task'[t].retries = IF "retries" \in DOMAIN f THEN f.retries ELSE task[t].retries
<1> DEFINE r == task[t]
           u == Updated(r, f)
<1>1. DOMAIN task = Tasks /\ {"status", "split", "exists", "blockedChild", "started", "retries"} \subseteq DOMAIN r
    BY DEF FamilyShape
<1>2. DOMAIN task' = Tasks /\ task'[t] = u /\ \A x \in Tasks : x # t => task'[x] = task[x]
    BY <1>1
<1> HIDE DEF r
<1>3. /\ DOMAIN u = DOMAIN r \cup DOMAIN f
      /\ \A x \in DOMAIN r : u[x] = IF x \in DOMAIN f THEN f[x] ELSE r[x]
    BY DEF Updated
<1> HIDE DEF u
<1>4. /\ u.status = IF "status" \in DOMAIN f THEN f.status ELSE r.status
      /\ u.split = IF "split" \in DOMAIN f THEN f.split ELSE r.split
      /\ u.exists = IF "exists" \in DOMAIN f THEN f.exists ELSE r.exists
      /\ u.blockedChild = IF "blockedChild" \in DOMAIN f THEN f.blockedChild ELSE r.blockedChild
      /\ u.started = IF "started" \in DOMAIN f THEN f.started ELSE r.started
      /\ u.retries = IF "retries" \in DOMAIN f THEN f.retries ELSE r.retries
    BY <1>1, <1>3
<1> QED  BY <1>1, <1>2, <1>3, <1>4 DEF r

\* One that sets the status, and none of the fields a family rests on.
MovedRow(new, old, f) ==
    /\ new.status = f.status /\ new.split = old.split /\ new.exists = old.exists
    /\ new.blockedChild = old.blockedChild

LEMMA RowMoved ==
    ASSUME FamilyShape, NEW t \in Tasks, NEW f, task' = [task EXCEPT ![t] = Updated(@, f)],
           DOMAIN f \cap {"split", "exists", "blockedChild"} = {}, "status" \in DOMAIN f
    PROVE  /\ DOMAIN task' = Tasks /\ \A u \in Tasks : u # t => task'[u] = task[u]
           /\ {"status", "split", "exists", "blockedChild", "started", "retries"} \subseteq DOMAIN task'[t]
           /\ MovedRow(task'[t], task[t], f)
<1>1. "split" \notin DOMAIN f /\ "exists" \notin DOMAIN f /\ "blockedChild" \notin DOMAIN f
    OBVIOUS
<1>2. /\ DOMAIN task' = Tasks /\ \A u \in Tasks : u # t => task'[u] = task[u]
      /\ {"status", "split", "exists", "blockedChild", "started", "retries"} \subseteq DOMAIN task'[t]
    BY RowUpdated
<1>3. task'[t].status = IF "status" \in DOMAIN f THEN f.status ELSE task[t].status
    BY RowUpdated
<1>4. task'[t].split = IF "split" \in DOMAIN f THEN f.split ELSE task[t].split
    BY RowUpdated
<1>5. task'[t].exists = IF "exists" \in DOMAIN f THEN f.exists ELSE task[t].exists
    BY RowUpdated
<1>6. task'[t].blockedChild = IF "blockedChild" \in DOMAIN f THEN f.blockedChild ELSE task[t].blockedChild
    BY RowUpdated
<1>7. MovedRow(task'[t], task[t], f)
    BY <1>1, <1>3, <1>4, <1>5, <1>6 DEF MovedRow
<1> QED  BY <1>2, <1>7

LEMMA RestGrows ==
    ASSUME NEW K, NEW L, Grows(K, L), NEW a, NEW r, NEW s, RestPlan(r, s, a, K)
    PROVE  RestPlan(r, s, a, L)
BY SureGrows DEF RestPlan

LEMMA PlainWriteRest ==
    ASSUME NEW a, NEW K, NEW r, NEW s, RestPlan(r, s, a, K), s.op = "write", "status" \notin DOMAIN s.v.fields
    PROVE  SurePlan(r, a, K)
BY DEF RestPlan, SurePlan, Queues

\* The write of a task, in a family.
Writes(a, t, f, stmts) ==
    /\ task' = [task EXCEPT ![t] = Updated(@, f)]
    /\ agenda' = [agenda EXCEPT ![a] = Settle(stmts \o Tail(agenda[a]))]
    /\ UNCHANGED <<jobs, stage, pr, run, conf, budget>>

\* One that leaves the status alone.
LEMMA PutKeeps ==
    ASSUME Steady, NEW a \in Actors, Doing(a, "write"), It(a).t \in Tasks, Writes(a, It(a).t, It(a).v.fields, <<>>),
           DOMAIN It(a).v.fields \cap {"split", "exists"} = {}, MayPut(It(a).v)
    PROVE  Steady'
<1> DEFINE t == It(a).t
           f == It(a).v.fields
           rest == Tail(agenda[a])
           q == Settle(<<>> \o rest)
<1>1. /\ task' = [task EXCEPT ![t] = Updated(@, f)] /\ agenda' = [agenda EXCEPT ![a] = q]
      /\ UNCHANGED <<jobs, stage, pr, run, conf, budget>>
    BY DEF Writes
<1>2. /\ DOMAIN f \cap {"status", "started", "retries", "split", "exists"} = {}
      /\ "blockedChild" \in DOMAIN f => f.blockedChild \in Kids \cup {None}
    BY DEF MayPut
<1>3. It(a).op = "write" /\ agenda[a] # <<>> /\ RestPlan(rest, It(a), a, Known)
    BY FamilyHead
<1>4. SurePlan(rest, a, Known)
    BY <1>2, <1>3, PlainWriteRest
<1>5. KinPlan(q, a, Known)
    BY <1>4, SureEmpty, SureConcat, SureSettle, SureIsKin
<1>6. ~Next1st(agenda[a], First) /\ ~LastOne(agenda[a])
    BY <1>2, <1>3 DEF Next1st, LastOne, Starts, Completes, Tells, It
<1>7. FamilyShape /\ t \in Tasks
    BY DEF Steady, FamilyRows
<1> HIDE DEF t, f, q, rest
<1>8. /\ DOMAIN task' = Tasks /\ \A u \in Tasks : u # t => task'[u] = task[u]
      /\ {"status", "split", "exists", "blockedChild", "started", "retries"} \subseteq DOMAIN task'[t]
      /\ task'[t].status = task[t].status /\ task'[t].split = task[t].split /\ task'[t].exists = task[t].exists
      /\ task'[t].started = task[t].started /\ task'[t].retries = task[t].retries
      /\ task'[t].blockedChild = IF "blockedChild" \in DOMAIN f THEN f.blockedChild ELSE task[t].blockedChild
    BY <1>1, <1>2, <1>7, RowUpdated
<1>9. \A u \in Tasks : /\ task'[u].status = task[u].status /\ task'[u].split = task[u].split
                       /\ task'[u].exists = task[u].exists /\ task'[u].started = task[u].started
                       /\ task'[u].retries = task[u].retries
    BY <1>8
<1>10. \A k \in Kids : Begun(k)' = Begun(k)
    BY <1>9, KidsAndParent DEF Begun
<1>11. Known' = Known
    BY <1>1, <1>9, <1>10, KidsAndParent DEF Known
<1>12. Left' = Left /\ First' = First /\ Closed' = Closed
  <2>1. Left' = Left
      BY <1>9, KidsAndParent DEF Left
  <2> QED  BY <1>9, <2>1, KidsAndParent DEF First, Closed
<1>13. FamilyRows'
  <2>1. FamilyShape' /\ Undisturbed'
      BY <1>1, <1>8 DEF Steady, FamilyRows, FamilyShape, Undisturbed
  <2>2. ParentRow'
      BY <1>1, <1>2, <1>8, <1>9, KidsAndParent DEF Steady, FamilyRows, ParentRow
  <2>3. \A k \in Kids : KidRow(k)'
      BY <1>1, <1>9, <1>10, KidsAndParent DEF Steady, FamilyRows, KidRow, conf
  <2> QED  BY <2>1, <2>2, <2>3 DEF FamilyRows
<1>14. DOMAIN agenda = Actors /\ \A b \in Actors : agenda'[b] = IF b = a THEN q ELSE agenda[b]
    BY <1>1 DEF Steady, FamilyRows, FamilyShape
<1>15. \A b \in Actors : KinPlan(agenda'[b], b, Known')
    BY <1>5, <1>11, <1>14 DEF Steady, Grown
<1>16. GoesOn'
  <2> SUFFICES ASSUME Left # {}, ~(Begun(First))' PROVE \E b \in Others : Next1st(agenda'[b], First)
      BY <1>12 DEF GoesOn
  <2>1. First \in Kids
      BY FirstIsKid
  <2>2. ~Begun(First)
      BY <1>9, <1>12, <2>1, KidsAndParent DEF Begun
  <2>3. PICK b \in Others : Next1st(agenda[b], First)
      BY <2>2 DEF GoesOn, Steady, Grown
  <2> QED  BY <1>6, <1>14, <2>3, KidsAndParent
<1>17. Closes'
  <2> SUFFICES ASSUME Left = {}, ~Closed PROVE \E b \in Others : LastOne(agenda'[b])
      BY <1>12 DEF Closes
  <2>1. PICK b \in Others : LastOne(agenda[b])
      BY DEF Closes, Steady, Grown
  <2> QED  BY <1>6, <1>14, <2>1, KidsAndParent
<1>18. task'[Parent].split /\ \A k \in Kids : task'[k].exists
    BY <1>9, KidsAndParent DEF Steady, Grown
<1> QED  BY <1>13, <1>15, <1>16, <1>17, <1>18 DEF Steady, Grown

\* The parent moves: to blocked when a child failed, to coding or merged on request.
LEMMA ParentMoves ==
    ASSUME Steady, NEW a \in Actors, Doing(a, "write"), It(a).t = Parent, Writes(a, Parent, It(a).v.fields, <<>>),
           DOMAIN It(a).v.fields \cap {"split", "exists"} = {}, MayTrack(Parent, It(a).v, a, Known),
           It(a).v.read = task[Parent].status
    PROVE  Steady'
<1> DEFINE f == It(a).v.fields
           rest == Tail(agenda[a])
           q == Settle(<<>> \o rest)
<1>1. /\ task' = [task EXCEPT ![Parent] = Updated(@, f)] /\ agenda' = [agenda EXCEPT ![a] = q]
      /\ UNCHANGED <<jobs, stage, pr, run, conf, budget>>
    BY DEF Writes
<1>2. /\ "status" \in DOMAIN f /\ "blockedChild" \notin DOMAIN f /\ f.status \in ParentStatus
      /\ DOMAIN f \cap {"split", "exists"} = {}
      /\ ValidateTaskTransition(task[Parent].status, f.status) /\ task[Parent].status # "spec_review"
    BY DEF MayTrack
<1>3. It(a).op = "write" /\ agenda[a] # <<>> /\ RestPlan(rest, It(a), a, Known)
    BY FamilyHead
<1>4. SurePlan(rest, a, Known)
    BY <1>3, KidsAndParent, RestBegun
<1>5. KinPlan(q, a, Known)
    BY <1>4, SureEmpty, SureConcat, SureSettle, SureIsKin
<1>6. /\ Left # {} => ~Next1st(agenda[a], First)
      /\ LastOne(agenda[a]) => f.status = "merged"
  <2>1. Left # {} => First # Parent
      BY FirstIsKid, KidsAndParent
  <2> QED  BY <1>3, <2>1 DEF Next1st, LastOne, Starts, Completes, Tells, It
<1>7. FamilyShape /\ Parent \in Tasks /\ Parent \notin Kids /\ Kids \subseteq Tasks
    BY KidsAndParent DEF Steady, FamilyRows
<1> HIDE DEF f, q, rest
<1>8. /\ DOMAIN task' = Tasks /\ \A u \in Tasks : u # Parent => task'[u] = task[u]
      /\ {"status", "split", "exists", "blockedChild", "started", "retries"} \subseteq DOMAIN task'[Parent]
      /\ task'[Parent].status = f.status /\ task'[Parent].split = task[Parent].split
      /\ task'[Parent].blockedChild = task[Parent].blockedChild
  <2>1. FamilyShape /\ Parent \in Tasks /\ task' = [task EXCEPT ![Parent] = Updated(@, f)]
      BY <1>1, <1>7
  <2>2. DOMAIN f \cap {"split", "exists", "blockedChild"} = {} /\ "status" \in DOMAIN f
      BY <1>2
  <2>3. /\ DOMAIN task' = Tasks /\ \A u \in Tasks : u # Parent => task'[u] = task[u]
        /\ {"status", "split", "exists", "blockedChild", "started", "retries"} \subseteq DOMAIN task'[Parent]
      BY <2>1, <2>2, RowMoved
  <2>4. MovedRow(task'[Parent], task[Parent], f)
      BY <2>1, <2>2, RowMoved
  <2> QED  BY <2>3, <2>4 DEF MovedRow
<1>9. \A k \in Kids : task'[k] = task[k] /\ Begun(k)' = Begun(k)
    BY <1>7, <1>8 DEF Begun
<1>10. Known' = Known
  <2>1. Known.asked = ParentStatus /\ Known'.asked = ParentStatus
      BY <1>2, <1>8 DEF Known, ParentStatus
  <2>2. Known'.begun = Known.begun /\ Known'.staged = Known.staged
      BY <1>1, <1>9 DEF Known
  <2> QED  BY <2>1, <2>2 DEF Known
<1>11. Left' = Left /\ First' = First
  <2>1. Left' = Left
      BY <1>9, KidsAndParent DEF Left
  <2> QED  BY <2>1 DEF First
<1>12. FamilyRows'
  <2>1. FamilyShape' /\ Undisturbed'
      BY <1>1, <1>8 DEF Steady, FamilyRows, FamilyShape, Undisturbed
  <2>2. ParentRow'
      BY <1>1, <1>2, <1>8 DEF Steady, FamilyRows, ParentRow
  <2>3. \A k \in Kids : KidRow(k)'
      BY <1>1, <1>9 DEF Steady, FamilyRows, KidRow, conf
  <2> QED  BY <2>1, <2>2, <2>3 DEF FamilyRows
<1>13. DOMAIN agenda = Actors /\ \A b \in Actors : agenda'[b] = IF b = a THEN q ELSE agenda[b]
    BY <1>1 DEF Steady, FamilyRows, FamilyShape
<1>14. \A b \in Actors : KinPlan(agenda'[b], b, Known')
    BY <1>5, <1>10, <1>13 DEF Steady, Grown
<1>15. GoesOn'
  <2> SUFFICES ASSUME Left # {}, ~(Begun(First))' PROVE \E b \in Others : Next1st(agenda'[b], First)
      BY <1>11 DEF GoesOn
  <2>1. ~Begun(First)
      BY <1>9, <1>11, FirstIsKid DEF Begun
  <2>2. PICK b \in Others : Next1st(agenda[b], First)
      BY <2>1 DEF GoesOn, Steady, Grown
  <2> QED  BY <1>6, <1>13, <2>2, KidsAndParent
<1>16. Closes'
  <2> SUFFICES ASSUME Left = {}, ~Closed' PROVE \E b \in Others : LastOne(agenda'[b])
      BY <1>11 DEF Closes
  <2>1. f.status # "merged"
      BY <1>8 DEF Closed
  <2>2. ~Closed
      BY <1>2, <2>1, FamilyTransitions DEF Closed
  <2>3. PICK b \in Others : LastOne(agenda[b])
      BY <2>2 DEF Closes, Steady, Grown
  <2> QED  BY <1>6, <1>13, <2>1, <2>3, KidsAndParent
<1>17. task'[Parent].split /\ \A k \in Kids : task'[k].exists
    BY <1>8, <1>9 DEF Steady, Grown
<1> QED  BY <1>12, <1>14, <1>15, <1>16, <1>17 DEF Steady, Grown

\* A child moves: never back to todo, never out of merged, and to merged only by a request.
LEMMA KidMoves ==
    ASSUME Steady, NEW a \in Actors, Doing(a, "write"), NEW t \in Kids, t = It(a).t,
           NEW f, f = It(a).v.fields, NEW stmts, Writes(a, t, f, stmts),
           DOMAIN f \cap {"split", "exists", "blockedChild"} = {}, "status" \in DOMAIN f,
           f.status \in TaskStatus, f.status # "todo", task[t].status = "merged" => f.status = "merged",
           f.status = "merged" => a \notin Kids /\ t \in Known.staged,
           stmts = IF f.status \in {"merged", "failed"} THEN <<S("terminal", t, f.status)>> ELSE <<>>
    PROVE  Steady'
<1> DEFINE rest == Tail(agenda[a])
           q == Settle(stmts \o rest)
           done == f.status \in {"merged", "failed"}
           l == S("terminal", t, f.status)
<1>1. /\ task' = [task EXCEPT ![t] = Updated(@, f)] /\ agenda' = [agenda EXCEPT ![a] = q]
      /\ UNCHANGED <<jobs, stage, pr, run, conf, budget>>
    BY DEF Writes
<1>2. It(a).op = "write" /\ agenda[a] # <<>> /\ RestPlan(rest, It(a), a, Known)
    BY FamilyHead
<1>3. Next1st(agenda[a], First) => First = t
    BY <1>2 DEF Next1st, Starts, Tells, It
<1>4. ~LastOne(agenda[a])
    BY <1>2, KidsAndParent DEF LastOne, Completes, Tells, It
<1>5. FamilyShape /\ t \in Tasks /\ t # Parent /\ Parent \in Tasks /\ Kids \subseteq Tasks
    BY KidsAndParent DEF Steady, FamilyRows
<1>6. l.op = "terminal" /\ l.t = t /\ l.v = f.status
    BY DEF S
<1> HIDE DEF q, rest, l
<1>7. /\ DOMAIN task' = Tasks /\ \A u \in Tasks : u # t => task'[u] = task[u]
      /\ {"status", "split", "exists", "blockedChild", "started", "retries"} \subseteq DOMAIN task'[t]
      /\ task'[t].status = f.status /\ task'[t].exists = task[t].exists
  <2>1. FamilyShape /\ t \in Tasks /\ task' = [task EXCEPT ![t] = Updated(@, f)]
      BY <1>1, <1>5
  <2>2. DOMAIN f \cap {"split", "exists", "blockedChild"} = {} /\ "status" \in DOMAIN f
      OBVIOUS
  <2>3. /\ DOMAIN task' = Tasks /\ \A u \in Tasks : u # t => task'[u] = task[u]
        /\ {"status", "split", "exists", "blockedChild", "started", "retries"} \subseteq DOMAIN task'[t]
      BY <2>1, <2>2, RowMoved
  <2>4. MovedRow(task'[t], task[t], f)
      BY ONLY <2>1, <2>2, RowMoved
  <2> QED  BY <2>3, <2>4 DEF MovedRow
<1>8. task'[Parent] = task[Parent] /\ \A k \in Kids : k # t => task'[k] = task[k] /\ Begun(k)' = Begun(k)
    BY <1>5, <1>7 DEF Begun
<1>9. Begun(t)'
    BY <1>7 DEF Begun
<1>10. Known'.asked = Known.asked /\ Known'.staged = Known.staged /\ Known'.begun = Known.begun \cup {t}
  <2>1. Known'.asked = Known.asked /\ Known'.staged = Known.staged
      BY <1>1, <1>8 DEF Known
  <2>2. Known.begun = {k \in Kids : Begun(k)} /\ Known'.begun = {k \in Kids : (Begun(k))'}
      BY DEF Known
  <2>3. Known'.begun = Known.begun \cup {t}
      BY <1>8, <1>9, <2>2
  <2> QED  BY <2>1, <2>3
<1>11. Grows(Known, Known')
    BY <1>10 DEF Grows
<1>12. SurePlan(rest, a, Known')
  <2>1. RestPlan(rest, It(a), a, Known')
      BY <1>2, <1>11, RestGrows
  <2>2. It(a).t \in Known'.begun
      BY <1>10
  <2> QED  BY <2>1, <2>2, RestBegun
<1>13. done => Sure(l, a, Known')
    BY <1>6 DEF Sure, Kin
<1>14. KinPlan(q, a, Known') /\ (done => q # <<>> /\ Head(q) = l)
  <2>1. CASE done
    <3> DEFINE p == <<l>>
    <3>1. SurePlan(p, a, Known') /\ p # <<>> /\ p[1] = l
        BY <1>13, <2>1, SureOne
    <3>2. stmts = p
        BY <2>1 DEF l
    <3> HIDE DEF p
    <3>3. l.op # "catch"
        BY <1>6
    <3>4. KinPlan(Settle(p \o rest), a, Known') /\ Settle(p \o rest) # <<>> /\ Head(Settle(p \o rest)) = l
        BY <1>12, <3>1, <3>3, SureFront
    <3> QED  BY <3>2, <3>4 DEF q
  <2>2. CASE ~done
    <3>1. stmts = <<>>
        BY <2>2
    <3>2. KinPlan(q, a, Known')
        BY <1>12, <3>1, SureEmpty, SureConcat, SureSettle, SureIsKin DEF q
    <3> QED  BY <2>2, <3>2
  <2> QED  BY <2>1, <2>2
<1>15. f.status = "merged" => a \in Others /\ Completes(l) /\ \A x : Starts(l, x)
    BY <1>6 DEF Others, Completes, Starts, Tells
<1>16. f.status = "merged" => a \in Others /\ LastOne(q) /\ \A x : Next1st(q, x)
    BY <1>14, <1>15 DEF LastOne, Next1st
<1>17. DOMAIN agenda = Actors /\ \A b \in Actors : agenda'[b] = IF b = a THEN q ELSE agenda[b]
    BY <1>1 DEF Steady, FamilyRows, FamilyShape
<1> HIDE DEF done
<1>18. \A b \in Actors : KinPlan(agenda'[b], b, Known')
  <2>1. \A b \in Actors \ {a} : b \in Known'.staged => b \in Known.staged
      BY <1>10
  <2>2. \A b \in Actors : KinPlan(agenda[b], b, Known)
      BY DEF Steady, Grown
  <2> QED  BY <1>1, <1>11, <1>14, <1>17, <2>1, <2>2, KinPlansMove
<1>19. FamilyRows'
  <2>1. FamilyShape' /\ Undisturbed'
    <3>1. \A u \in Tasks : {"status", "split", "exists", "blockedChild", "started", "retries"} \subseteq DOMAIN task'[u]
        BY <1>5, <1>7 DEF FamilyShape
    <3> QED  BY <1>1, <1>7, <1>17, <3>1 DEF Steady, FamilyRows, FamilyShape, Undisturbed
  <2>2. ParentRow'
      BY <1>1, <1>8 DEF Steady, FamilyRows, ParentRow
  <2>3. \A k \in Kids : KidRow(k)'
    <3> TAKE k \in Kids
    <3>1. KidRow(k)
        BY DEF Steady, FamilyRows
    <3>2. CASE k # t
        BY <1>1, <1>8, <3>1, <3>2 DEF KidRow, conf
    <3>3. CASE k = t
      <4>1. f.status = "merged" => stage[t] # 0
          BY DEF Known
      <4> QED  BY <1>1, <1>7, <1>9, <3>1, <3>3, <4>1 DEF KidRow, conf
    <3> QED  BY <3>2, <3>3
  <2> QED  BY <2>1, <2>2, <2>3 DEF FamilyRows
<1>20. f.status # "merged" => Left' = Left /\ First' = First /\ Left # {}
  <2> SUFFICES ASSUME f.status # "merged" PROVE Left' = Left /\ First' = First /\ Left # {}
      OBVIOUS
  <2>1. \A k \in Kids : task'[k].status = "merged" <=> task[k].status = "merged"
      BY <1>7, <1>8
  <2>2. Left' = Left
      BY <2>1, KidsAndParent DEF Left
  <2>3. PICK i \in 1..Len(Children) : Children[i] = t
      BY DEF Kids
  <2>4. task[t].status # "merged"
      OBVIOUS
  <2>5. i \in Left
      BY <2>3, <2>4 DEF Left
  <2> QED  BY <2>2, <2>5 DEF First
<1>21. GoesOn'
  <2>1. CASE f.status = "merged"
      BY <1>16, <1>17, <2>1, KidsAndParent DEF GoesOn
  <2>2. CASE f.status # "merged"
    <3>1. Left' = Left /\ First' = First /\ Left # {} /\ First \in Kids
        BY <1>20, <2>2, FirstIsKid
    <3> SUFFICES ASSUME ~(Begun(First))' PROVE \E b \in Others : Next1st(agenda'[b], First)
        BY <3>1 DEF GoesOn
    <3>2. First # t
      <4> SUFFICES ASSUME First = t PROVE FALSE
          OBVIOUS
      <4>1. task'[First].status # "todo"
          BY <1>7
      <4> QED  BY <3>1, <4>1 DEF Begun
    <3>3. ~Begun(First)
        BY <1>8, <3>1, <3>2 DEF Begun
    <3>4. PICK b \in Others : Next1st(agenda[b], First)
        BY <3>1, <3>3 DEF GoesOn, Steady, Grown
    <3>5. b # a
        BY <1>3, <3>2, <3>4
    <3> QED  BY <1>17, <3>4, <3>5, KidsAndParent
  <2> QED  BY <2>1, <2>2
<1>22. Closes'
  <2>1. CASE f.status = "merged"
      BY <1>16, <1>17, <2>1, KidsAndParent DEF Closes
  <2>2. CASE f.status # "merged"
      BY <1>20, <2>2 DEF Closes
  <2> QED  BY <2>1, <2>2
<1>23. task'[Parent].split /\ \A k \in Kids : task'[k].exists
    BY <1>5, <1>7, <1>8 DEF Steady, Grown
<1> QED  BY <1>18, <1>19, <1>21, <1>22, <1>23 DEF Steady, Grown

\* A write by somebody who read the status that is still there, or read none.
LEMMA WriteKeeps == ASSUME Steady, astray' = {}, NEW a \in Actors, WriteTask(a) PROVE Steady'
<1> DEFINE t == It(a).t
           w == It(a).v
           f == w.fields
           st == Updated(task[t], f).status
           told == w.tracked /\ t \in Kids /\ st \in {"merged", "failed"}
           stmts == IF told THEN <<S("terminal", t, st)>> ELSE <<>>
<1>1. Doing(a, "write") /\ Writes(a, t, f, stmts)
    BY DEF WriteTask, Writes, Then
<1>2. "status" \in DOMAIN f => st = f.status
    BY DEF Updated
<1>3. "status" \in DOMAIN f => w.read \in {None, task[t].status}
  <2> SUFFICES ASSUME "status" \in DOMAIN f, w.read \notin {None, task[t].status} PROVE FALSE
      OBVIOUS
  <2>1. astray' = astray \cup {t}
      BY DEF WriteTask
  <2> QED  BY <2>1
<1>4. It(a).op = "write" /\ (Sure(It(a), a, Known) \/ Entry(It(a), a, Known))
    BY <1>1, FamilyHead
<1>5. MayWrite(t, w, a, Known) \/ Entry(It(a), a, Known)
    BY <1>4 DEF Sure, Kin
<1>6. CASE MayWrite(t, w, a, Known) /\ MayPut(w)
  <2>1. t \in Tasks /\ DOMAIN f \cap {"split", "exists"} = {} /\ ~w.tracked
      BY <1>6 DEF MayWrite, MayPut
  <2>2. Writes(a, t, f, <<>>)
      BY <1>1, <2>1
  <2> QED  BY <1>1, <1>6, <2>1, <2>2, PutKeeps
<1>7. CASE MayWrite(t, w, a, Known) /\ MayTrack(t, w, a, Known)
  <2>1. /\ t \in Tasks /\ DOMAIN f \cap {"split", "exists"} = {} /\ "status" \in DOMAIN f
        /\ "blockedChild" \notin DOMAIN f /\ w.tracked /\ w.read \in TaskStatus /\ f.status \in TaskStatus
        /\ ValidateTaskTransition(w.read, f.status)
      BY <1>7 DEF MayWrite, MayTrack
  <2>2. w.read = task[t].status
      BY <1>3, <2>1, NoneAssumption
  <2>3. CASE t = Parent
    <3>1. Writes(a, Parent, f, <<>>)
        BY <1>1, <2>3, KidsAndParent
    <3> QED  BY <1>1, <1>7, <2>1, <2>2, <2>3, <3>1, ParentMoves
  <2>4. CASE t # Parent
    <3>1. t \in Kids
        BY <2>1, <2>4 DEF Tasks
    <3>2. f.status # "todo" /\ (f.status = "merged" => a \notin Kids /\ t \in Known.staged)
        BY <1>7, <2>4 DEF MayTrack
    <3>3. task[t].status = "merged" => f.status = "merged"
        BY <2>1, <2>2, FamilyTransitions
    <3>4. DOMAIN f \cap {"split", "exists", "blockedChild"} = {}
        BY <2>1
    <3>5. stmts = IF f.status \in {"merged", "failed"} THEN <<S("terminal", t, f.status)>> ELSE <<>>
        BY <1>2, <2>1, <3>1
    <3> HIDE DEF t, f, w, stmts, st
    <3>6. t = It(a).t /\ f = It(a).v.fields
        BY DEF t, f, w
    <3> QED  BY <1>1, <2>1, <3>1, <3>2, <3>3, <3>4, <3>5, <3>6, KidMoves
  <2> QED  BY <2>3, <2>4
<1>8. CASE Entry(It(a), a, Known)
  <2>1. a \in Kids \ Known.staged /\ t = a /\ ~w.tracked /\ f = [status |-> "analyzing"]
      BY <1>8 DEF Entry
  <2>2. DOMAIN f = {"status"} /\ f.status = "analyzing"
      BY <2>1
  <2>3. t \in Kids /\ task[t].status # "merged"
      BY <2>1 DEF Known, Steady, FamilyRows, KidRow
  <2>4. f.status \in TaskStatus
      BY <2>2, TaskStatuses
  <2>5. stmts = IF f.status \in {"merged", "failed"} THEN <<S("terminal", t, f.status)>> ELSE <<>>
      BY <2>1, <2>2
  <2> HIDE DEF t, f, w, stmts, st
  <2>6. t = It(a).t /\ f = It(a).v.fields
      BY DEF t, f, w
  <2> QED  BY <1>1, <2>2, <2>3, <2>4, <2>5, <2>6, KidMoves
<1> QED  BY <1>5, <1>6, <1>7, <1>8 DEF MayWrite

-----------------------------------------------------------------------------
(***************************************************************************)
(* A family: the runs of its children.                                       *)
(***************************************************************************)
\* What may stand in a handler.
Plain(h, a, K) ==
    IsSeq(h) /\ \A i \in DOMAIN h : Kin(h[i], a, K) \/ (h[i].op = "catch" /\ h[i].v = <<>>)

LEMMA PlainFrom ==
    ASSUME NEW a, NEW K, NEW T, NEW q \in Seq(T), \A s \in T : Kin(s, a, K) \/ (s.op = "catch" /\ s.v = <<>>)
    PROVE  Plain(q, a, K)
<1>1. IsSeq(q)
    BY SeqIsSeq
<1>2. \A i \in DOMAIN q : q[i] \in T
    OBVIOUS
<1> QED  BY <1>1, <1>2 DEF Plain

LEMMA PlainSet ==
    ASSUME NEW a, NEW K, NEW q, Plain(q, a, K)
    PROVE  \E T : q \in Seq(T) /\ \A s \in T : Kin(s, a, K) \/ (s.op = "catch" /\ s.v = <<>>)
<1> DEFINE T == {q[i] : i \in DOMAIN q}
<1>1. q \in Seq(T)
    BY DEF Plain, IsSeq
<1>2. \A s \in T : Kin(s, a, K) \/ (s.op = "catch" /\ s.v = <<>>)
    BY DEF Plain
<1> HIDE DEF T
<1> QED  BY <1>1, <1>2

LEMMA PlainOne ==
    ASSUME NEW a, NEW K, NEW s, Sure(s, a, K), s.op # "catch"
    PROVE  Plain(<<s>>, a, K)
<1> DEFINE q == <<s>>
           T == {s}
<1>1. q \in Seq(T)
    OBVIOUS
<1>2. \A x \in T : Kin(x, a, K)
    BY DEF Sure
<1> HIDE DEF q, T
<1>3. Plain(q, a, K)
    BY <1>1, <1>2, PlainFrom
<1> QED  BY <1>3 DEF q

LEMMA PlainConcat ==
    ASSUME NEW a, NEW K, NEW p, NEW q, Plain(p, a, K), Plain(q, a, K)
    PROVE  Plain(p \o q, a, K)
<1>1. PICK T : p \in Seq(T) /\ \A s \in T : Kin(s, a, K) \/ (s.op = "catch" /\ s.v = <<>>)
    BY PlainSet
<1>2. PICK U : q \in Seq(U) /\ \A s \in U : Kin(s, a, K) \/ (s.op = "catch" /\ s.v = <<>>)
    BY PlainSet
<1>3. p \in Seq(T \cup U) /\ q \in Seq(T \cup U)
    BY <1>1, <1>2, SeqMonotonic
<1>4. p \o q \in Seq(T \cup U)
    BY <1>3, ConcatProperties
<1>5. \A s \in T \cup U : Kin(s, a, K) \/ (s.op = "catch" /\ s.v = <<>>)
    BY <1>1, <1>2
<1> DEFINE r == p \o q
           V == T \cup U
<1> HIDE DEF r, V
<1>6. Plain(r, a, K)
    BY <1>4, <1>5, PlainFrom DEF r, V
<1> QED  BY <1>6 DEF r

LEMMA PlainTry == ASSUME NEW a, NEW K, NEW q, Plain(q, a, K) PROVE Plain(Try(q), a, K)
<1> DEFINE c == S("catch", None, <<>>)
           p == <<c>>
           T == {c}
<1>1. p \in Seq(T)
    OBVIOUS
<1>2. \A x \in T : x.op = "catch" /\ x.v = <<>>
    BY DEF S
<1> HIDE DEF c, T, p
<1>3. Plain(p, a, K)
    BY <1>1, <1>2, PlainFrom
<1> QED  BY <1>3, PlainConcat DEF Try, Catch, c, p

LEMMA PlainIsSure == ASSUME NEW a, NEW K, NEW q, Plain(q, a, K) PROVE SurePlan(q, a, K)
<1> DEFINE s == S("catch", None, q)
<1>1. s.op = "catch" /\ s.v = q
    BY DEF S
<1> HIDE DEF s
<1>2. Sure(s, a, K)
    BY <1>1 DEF Sure, Plain
<1> QED  BY <1>1, <1>2, HandlerSure

LEMMA OrElseSure ==
    ASSUME NEW a, NEW K, NEW h, Plain(h, a, K)
    PROVE  SurePlan(<<S("catch", None, h)>>, a, K)
<1> DEFINE s == S("catch", None, h)
<1>1. s.op = "catch" /\ s.v = h
    BY DEF S
<1> HIDE DEF s
<1>2. Sure(s, a, K)
    BY <1>1 DEF Sure, Plain
<1> QED  BY <1>2, SureOne DEF s

\* A longer list begins in the same way.
LEMMA KinConcat ==
    ASSUME NEW a, NEW K, NEW p, NEW r, KinPlan(p, a, K), SurePlan(r, a, K), p # <<>>
    PROVE  KinPlan(p \o r, a, K) /\ p \o r # <<>> /\ (p \o r)[1] = p[1]
<1> DEFINE q == p \o r
           T == {p[i] : i \in DOMAIN p} \cup {r[i] : i \in DOMAIN r}
<1>1. p \in Seq({p[i] : i \in DOMAIN p}) /\ r \in Seq({r[i] : i \in DOMAIN r})
    BY DEF KinPlan, SurePlan, IsSeq
<1>2. p \in Seq(T) /\ r \in Seq(T)
    BY <1>1, SeqMonotonic
<1> HIDE DEF T
<1>3. q \in Seq(T) /\ Len(q) = Len(p) + Len(r)
    BY <1>2, ConcatProperties
<1>4. \A i \in 1..(Len(p) + Len(r)) : q[i] = IF i <= Len(p) THEN p[i] ELSE r[i - Len(p)]
    BY <1>2, ConcatProperties, Zenon
<1>5. Len(p) \in Nat /\ Len(p) > 0 /\ Len(r) \in Nat
    BY <1>2, EmptySeq
<1> HIDE DEF q
<1>6. q # <<>> /\ q[1] = p[1] /\ \A i \in 1..Len(p) : q[i] = p[i]
    BY <1>3, <1>4, <1>5
<1>7. \A i \in DOMAIN q : \/ Sure(q[i], a, K)
                          \/ i = 1 /\ Entry(q[1], a, K)
                          \/ i = 2 /\ Queues(q[1], q[2])
  <2> TAKE i \in DOMAIN q
  <2>1. CASE i \in 1..Len(p)
    <3>1. i \in DOMAIN p /\ q[i] = p[i]
        BY <1>2, <1>6, <2>1
    <3>2. Sure(p[i], a, K) \/ (i = 1 /\ Entry(p[1], a, K)) \/ (i = 2 /\ Queues(p[1], p[2]))
        BY <3>1 DEF KinPlan
    <3> QED  BY <1>6, <3>1, <3>2
  <2>2. CASE i \notin 1..Len(p)
    <3>1. i \in 1..(Len(p) + Len(r)) /\ ~(i <= Len(p)) /\ i - Len(p) \in DOMAIN r
        BY <1>2, <1>3, <1>5, <2>2
    <3>2. q[i] = r[i - Len(p)]
        BY <1>4, <3>1
    <3> QED  BY <3>1, <3>2 DEF SurePlan
  <2> QED  BY <2>1, <2>2
<1>8. IsSeq(q)
    BY <1>3, SeqIsSeq
<1> QED  BY <1>6, <1>7, <1>8 DEF KinPlan, q

LEMMA KinSettled ==
    ASSUME NEW a, NEW K, NEW q, KinPlan(q, a, K), q # <<>>, q[1].op # "catch"
    PROVE  KinPlan(Settle(q), a, K)
<1> DEFINE T == {q[i] : i \in DOMAIN q}
<1>1. q \in Seq(T)
    BY DEF KinPlan, IsSeq
<1> HIDE DEF T
<1> QED  BY <1>1, Settled

-----------------------------------------------------------------------------
\* The end of a run, and what it does when a step is refused.
LEMMA FailsPlain ==
    ASSUME NEW a \in Kids, NEW K, a \in K.begun
    PROVE  Plain(Fails(a), a, K)
<1>1. "failed" \in KidStatus
    BY TaskStatuses DEF KidStatus
<1> DEFINE s == S("status", a, "failed")
           j == S("job", a, [job |-> run[a], status |-> "failed"])
           e == S("end", a, "failed")
<1>2. Sure(s, a, K) /\ s.op # "catch"
    BY <1>1, KidStatusSure DEF S
<1>3. Sure(j, a, K) /\ j.op # "catch"
    BY JobSure DEF S
<1>4. Sure(e, a, K) /\ e.op # "catch"
    BY RunSure DEF S
<1> HIDE DEF s, j, e
<1>5. Plain(Try(<<s>>), a, K) /\ Plain(Try(<<j>>), a, K) /\ Plain(<<e>>, a, K)
    BY <1>2, <1>3, <1>4, PlainOne, PlainTry
<1>6. Plain(Try(<<s>>) \o Try(<<j>>), a, K)
    BY <1>5, PlainConcat
<1>7. Plain(Try(<<s>>) \o Try(<<j>>) \o <<e>>, a, K)
    BY <1>5, <1>6, PlainConcat
<1> QED  BY <1>7 DEF Fails, s, j, e

LEMMA PausesSure ==
    ASSUME NEW a \in Kids, NEW K, a \in K.begun
    PROVE  SurePlan(Pauses(a), a, K)
<1> DEFINE j == S("job", a, [job |-> run[a], status |-> "paused"])
           e == S("end", a, "paused")
<1>1. Sure(j, a, K) /\ Sure(e, a, K)
    BY JobSure, RunSure
<1> HIDE DEF j, e
<1>2. SurePlan(Try(<<j>>), a, K) /\ SurePlan(<<e>>, a, K)
    BY <1>1, SureOne, SureTry
<1>3. SurePlan(Try(<<j>>) \o <<e>>, a, K)
    BY <1>2, SureConcat
<1> QED  BY <1>3 DEF Pauses, j, e

LEMMA AdvancesSure == ASSUME NEW a \in Kids, NEW K, NEW n, n # 0 PROVE SurePlan(Advances(a, n), a, K)
<1> DEFINE s == S("stage", a, n)
<1>1. s.op = "stage" /\ s.t = a /\ s.v = n
    BY DEF S
<1> HIDE DEF s
<1>2. Sure(s, a, K)
    BY <1>1 DEF Sure, Kin
<1> QED  BY <1>2, SureOne DEF Advances, s

\* A run moves: its agenda was empty, and its child has left todo.
LEMMA ChildRunMoves ==
    ASSUME Steady, NEW t \in Kids, agenda[t] = <<>>, Begun(t), UNCHANGED <<task, stage, pr, conf>>, Undisturbed',
           DOMAIN jobs' = Tasks, \A u \in Tasks : u # t => jobs'[u] = jobs[u],
           DOMAIN run' = Tasks, \A u \in Tasks : u # t => run'[u] = run[u],
           NEW q, agenda' = [agenda EXCEPT ![t] = q], KinPlan(q, t, Known)
    PROVE  Steady'
<1>1. t \in Actors /\ t # Parent /\ Parent \in Tasks /\ Kids \subseteq Tasks
    BY KidsAndParent
<1>2. DOMAIN agenda = Actors
    BY DEF Steady, FamilyRows, FamilyShape
<1>3. Known' = Known /\ Grows(Known, Known')
  <2>1. Known' = Known
      BY DEF Known, Begun
  <2> QED  BY <2>1 DEF Grows
<1>4. FamilyRows'
  <2>1. FamilyShape'
      BY <1>2 DEF Steady, FamilyRows, FamilyShape
  <2>2. ParentRow'
      BY <1>1 DEF Steady, FamilyRows, ParentRow
  <2>3. \A k \in Kids : KidRow(k)'
      BY <1>1 DEF Steady, FamilyRows, KidRow, Begun, conf
  <2> QED  BY <2>1, <2>2, <2>3 DEF FamilyRows
<1>5. KinPlan(q, t, Known')
    BY <1>3
<1>6. ~Next1st(agenda[t], First) /\ ~LastOne(agenda[t])
    BY DEF Next1st, LastOne
<1>7. \A b \in Actors \ {t} : b \in Known'.staged => b \in Known.staged
    BY <1>3
<1>8. task' = task
    OBVIOUS
<1> QED  BY <1>1, <1>3, <1>4, <1>5, <1>6, <1>7, <1>8, FamilyProceeds

LEMMA AtWork ==
    ASSUME Steady, NEW t \in Tasks, Working(t)
    PROVE  t \in Kids /\ Begun(t) /\ t \in Known.begun /\ agenda[t] = <<>>
<1>1. run[t] # 0 /\ agenda[t] = <<>>
    BY DEF Working
<1>2. t \in Kids
    BY <1>1 DEF Steady, FamilyRows, ParentRow, Tasks
<1>3. Begun(t)
    BY <1>1, <1>2 DEF Steady, FamilyRows, KidRow
<1> QED  BY <1>1, <1>2, <1>3 DEF Known

LEMMA StepsKeep ==
    ASSUME Steady, NEW t \in Tasks, Working(t), NEW stmts, Steps(t, stmts), Undisturbed',
           \/ SurePlan(stmts, t, Known)
           \/ KinPlan(stmts, t, Known) /\ stmts # <<>> /\ stmts[1].op # "catch"
    PROVE  Steady'
<1> DEFINE r == S("refused", t, None)
           h == <<r>> \o Fails(t)
           c == <<S("catch", None, h)>>
           q == Settle(stmts \o c)
<1>1. t \in Kids /\ Begun(t) /\ t \in Known.begun /\ agenda[t] = <<>>
    BY AtWork
<1>2. agenda' = [agenda EXCEPT ![t] = q] /\ UNCHANGED <<task, jobs, stage, pr, run, conf>>
    BY DEF Steps, OrElse, rows
<1>3. SurePlan(c, t, Known)
  <2>1. Sure(r, t, Known) /\ r.op # "catch"
      BY <1>1, RunSure DEF S
  <2> HIDE DEF r
  <2>2. Plain(<<r>>, t, Known) /\ Plain(Fails(t), t, Known)
      BY <1>1, <2>1, PlainOne, FailsPlain
  <2>3. Plain(h, t, Known)
      BY <2>2, PlainConcat
  <2> HIDE DEF h
  <2> QED  BY <2>3, OrElseSure
<1> HIDE DEF c
<1>4. KinPlan(q, t, Known)
  <2>1. CASE SurePlan(stmts, t, Known)
      BY <1>3, <2>1, SureConcat, SureSettle, SureIsKin
  <2>2. CASE KinPlan(stmts, t, Known) /\ stmts # <<>> /\ stmts[1].op # "catch"
    <3> DEFINE p == stmts \o c
    <3>1. KinPlan(p, t, Known) /\ p # <<>> /\ p[1] = stmts[1]
        BY <1>3, <2>2, KinConcat
    <3> HIDE DEF p
    <3>2. KinPlan(Settle(p), t, Known)
        BY <2>2, <3>1, KinSettled
    <3> QED  BY <3>2 DEF p
  <2> QED  BY <2>1, <2>2
<1> HIDE DEF q
<1>5. DOMAIN jobs' = Tasks /\ DOMAIN run' = Tasks
    BY <1>2 DEF Steady, FamilyRows, FamilyShape
<1>6. UNCHANGED <<task, stage, pr, conf>> /\ jobs' = jobs /\ run' = run
    BY <1>2
<1>7. agenda' = [agenda EXCEPT ![t] = q]
    BY <1>2
<1>8. (\A u \in Tasks : u # t => jobs'[u] = jobs[u]) /\ (\A u \in Tasks : u # t => run'[u] = run[u])
    BY <1>6
<1> QED  BY ONLY <1>1, <1>4, <1>5, <1>6, <1>7, <1>8, Steady, Undisturbed', ChildRunMoves

\* cli_analyze and cli_spec: the only ones whose first write asks nothing.
LEMMA SpecStepKeeps == ASSUME Steady, NEW t \in Tasks, SpecStep(t) PROVE Steady'
<1> DEFINE first == Put(t, [status |-> "analyzing"])
           entry == IF task[t].status \in {"context_loading", "todo"} THEN <<first>> ELSE <<>>
           auto == Put(t, [spec |-> "auto_approved"])
           go == Advances(t, 1)
<1>1. Working(t) /\ stage[t] = 0
    BY DEF SpecStep
<1>2. t \in Kids /\ t \notin Known.staged /\ t \in Known.begun
    BY <1>1, AtWork DEF Known
<1>3. ~flow[t].gated
    BY <1>2 DEF Steady, FamilyRows, KidRow
<1>4. /\ budget' = budget
      /\ Steps(t, entry \o go) \/ Steps(t, entry \o <<auto>> \o go)
    BY <1>3 DEF SpecStep
<1>5. Undisturbed'
    BY <1>4 DEF Undisturbed, Steady, FamilyRows
<1>6. SurePlan(go, t, Known) /\ SurePlan(<<auto>>, t, Known)
  <2>1. SurePlan(go, t, Known)
      BY <1>2, AdvancesSure
  <2> DEFINE f == [spec |-> "auto_approved"]
  <2>2. DOMAIN f = {"spec"}
      OBVIOUS
  <2> HIDE DEF f
  <2>3. Sure(Put(t, f), t, Known)
      BY <2>2, PutSure
  <2>4. Sure(auto, t, Known)
      BY <2>3 DEF f
  <2> HIDE DEF auto
  <2> QED  BY <2>1, <2>4, SureOne
<1>7. Entry(first, t, Known) /\ first.op = "write"
    BY <1>2 DEF Entry, Put, S
<1> HIDE DEF first, auto, go
<1>8. CASE entry = <<>>
  <2>1. SurePlan(entry, t, Known)
      BY <1>8, SureEmpty
  <2> HIDE DEF entry
  <2>2. SurePlan(entry \o go, t, Known) /\ SurePlan(entry \o <<auto>>, t, Known)
      BY <1>6, <2>1, SureConcat
  <2>3. SurePlan(entry \o <<auto>> \o go, t, Known)
      BY <1>6, <2>2, SureConcat
  <2> QED  BY <1>1, <1>4, <1>5, <2>2, <2>3, StepsKeep
<1>9. CASE entry # <<>>
  <2>1. entry = <<first>>
      BY <1>9
  <2> HIDE DEF entry
  <2> DEFINE p == <<first>>
  <2>2. p \in Seq({first}) /\ DOMAIN p = {1} /\ p[1] = first /\ p # <<>>
      OBVIOUS
  <2>3. entry = p
      BY <2>1
  <2> HIDE DEF p
  <2>4. IsSeq(p)
      BY <2>2, SeqIsSeq
  <2>5. KinPlan(p, t, Known)
      BY <1>7, <2>2, <2>4 DEF KinPlan
  <2> DEFINE u == p \o go
             v == p \o <<auto>>
             w == v \o go
  <2>6. KinPlan(u, t, Known) /\ u # <<>> /\ u[1] = first
      BY <1>6, <2>2, <2>5, KinConcat
  <2>7. KinPlan(v, t, Known) /\ v # <<>> /\ v[1] = first
      BY <1>6, <2>2, <2>5, KinConcat
  <2>8. Steps(t, u) \/ Steps(t, w)
      BY <1>4, <2>3
  <2> HIDE DEF u, v
  <2>9. KinPlan(w, t, Known) /\ w # <<>> /\ w[1] = first
      BY <1>6, <2>7, KinConcat
  <2> HIDE DEF w
  <2>10. CASE Steps(t, u)
      BY <1>1, <1>5, <1>7, <2>6, <2>10, StepsKeep
  <2>11. CASE Steps(t, w)
      BY <1>1, <1>5, <1>7, <2>9, <2>11, StepsKeep
  <2> QED  BY <2>8, <2>10, <2>11
<1> QED  BY <1>8, <1>9

LEMMA ClarificationKeeps == ASSUME Steady, NEW t \in Tasks, ClarificationStep(t) PROVE Steady'
<1> DEFINE f == [spec |-> "clarification_required", pausedStep |-> IF stage[t] = 0 THEN "spec" ELSE "implement"]
           p == Put(t, f)
           stmts == <<p>> \o Pauses(t)
<1>1. Working(t) /\ Steps(t, stmts)
    BY DEF ClarificationStep
<1>2. t \in Kids /\ t \in Known.begun
    BY <1>1, AtWork
<1>3. Undisturbed'
    BY DEF ClarificationStep, Undisturbed, Steady, FamilyRows
<1>4. DOMAIN f = {"spec", "pausedStep"}
    OBVIOUS
<1> HIDE DEF f
<1>5. Sure(p, t, Known)
    BY <1>4, PutSure
<1> HIDE DEF p
<1>6. SurePlan(<<p>>, t, Known) /\ SurePlan(Pauses(t), t, Known)
    BY <1>2, <1>5, SureOne, PausesSure
<1>7. SurePlan(stmts, t, Known)
    BY <1>6, SureConcat
<1> HIDE DEF stmts
<1> QED  BY <1>1, <1>3, <1>7, StepsKeep

\* The steps after the first: their statuses ask no merge.
LEMMA LaterStepKeeps ==
    ASSUME Steady, NEW t \in Tasks, Working(t), Undisturbed', NEW s \in KidStatus, s # "merged",
           NEW n, n # 0, Steps(t, <<S("status", t, s)>> \o Advances(t, n)) \/ Steps(t, <<>> \o Advances(t, n))
    PROVE  Steady'
<1> DEFINE x == S("status", t, s)
           go == Advances(t, n)
           u == <<x>> \o go
           v == <<>> \o go
<1>1. t \in Kids
    BY AtWork
<1>2. Sure(x, t, Known)
    BY <1>1, KidStatusSure
<1>3. SurePlan(go, t, Known)
    BY <1>1, AdvancesSure
<1>4. Steps(t, u) \/ Steps(t, v)
    OBVIOUS
<1> HIDE DEF x, go
<1>5. SurePlan(u, t, Known)
    BY <1>2, <1>3, SureOne, SureConcat
<1>6. SurePlan(v, t, Known)
    BY <1>3, SureEmpty, SureConcat
<1> HIDE DEF u, v
<1>7. CASE Steps(t, u)
    BY ONLY <1>5, <1>7, Steady, t \in Tasks, Working(t), Undisturbed', StepsKeep
<1>8. CASE Steps(t, v)
    BY ONLY <1>6, <1>8, Steady, t \in Tasks, Working(t), Undisturbed', StepsKeep
<1> QED  BY <1>4, <1>7, <1>8

LEMMA ImplementKeeps == ASSUME Steady, NEW t \in Tasks, ImplementStep(t) PROVE Steady'
<1> DEFINE n == IF flow[t].reviewed THEN 2 ELSE 3
<1>1. Working(t) /\ n # 0
    BY DEF ImplementStep
<1>2. Steps(t, <<S("status", t, "reviewing")>> \o Advances(t, n)) \/ Steps(t, <<>> \o Advances(t, n))
    BY DEF ImplementStep
<1>3. Undisturbed'
    BY DEF ImplementStep, Undisturbed, Steady, FamilyRows
<1>4. "reviewing" \in KidStatus
    BY TaskStatuses DEF KidStatus
<1> HIDE DEF n
<1> QED  BY <1>1, <1>2, <1>3, <1>4, LaterStepKeeps

LEMMA CrossReviewKeeps == ASSUME Steady, NEW t \in Tasks, CrossReviewStep(t) PROVE Steady'
<1>1. Working(t)
    BY DEF CrossReviewStep
<1>2. \/ Steps(t, <<S("status", t, "human_review")>> \o Advances(t, 3))
      \/ Steps(t, <<S("status", t, "coding")>> \o Advances(t, 1))
    BY DEF CrossReviewStep
<1>3. Undisturbed'
    BY DEF CrossReviewStep, Undisturbed, Steady, FamilyRows
<1>4. "human_review" \in KidStatus /\ "coding" \in KidStatus
    BY TaskStatuses DEF KidStatus
<1>5. CASE Steps(t, <<S("status", t, "human_review")>> \o Advances(t, 3))
    BY <1>1, <1>3, <1>4, <1>5, LaterStepKeeps
<1>6. CASE Steps(t, <<S("status", t, "coding")>> \o Advances(t, 1))
    BY <1>1, <1>3, <1>4, <1>6, LaterStepKeeps
<1> QED  BY <1>2, <1>5, <1>6

LEMMA MergeRequestKeeps == ASSUME Steady, NEW t \in Tasks, MergeRequestStep(t) PROVE Steady'
<1> DEFINE o == S("open", t, None)
           x == S("status", t, "pr_ready")
           stmts == <<o, x>> \o Pauses(t)
<1>1. Working(t) /\ stage[t] = 3 /\ Steps(t, stmts)
    BY DEF MergeRequestStep
<1>2. t \in Kids /\ t \in Known.begun /\ t \in Known.staged
    BY <1>1, AtWork DEF Known
<1>3. Undisturbed'
    BY DEF MergeRequestStep, Undisturbed, Steady, FamilyRows
<1>4. "pr_ready" \in KidStatus
    BY TaskStatuses DEF KidStatus
<1>5. Sure(o, t, Known)
  <2>1. o.op = "open" /\ o.t = t
      BY DEF S
  <2> HIDE DEF o
  <2> QED  BY <1>2, <2>1 DEF Sure, Kin
<1>6. Sure(x, t, Known)
    BY <1>2, <1>4, KidStatusSure
<1> HIDE DEF o, x
<1>7. SurePlan(<<o, x>>, t, Known) /\ SurePlan(Pauses(t), t, Known)
    BY <1>2, <1>5, <1>6, SureTwo, PausesSure
<1>8. SurePlan(stmts, t, Known)
    BY <1>7, SureConcat
<1> HIDE DEF stmts
<1> QED  BY <1>1, <1>3, <1>8, StepsKeep

LEMMA FailKeeps == ASSUME Steady, NEW t \in Tasks, StepFails(t) PROVE Steady'
<1>1. Working(t) /\ agenda' = [agenda EXCEPT ![t] = Fails(t)]
      /\ UNCHANGED <<task, stage, pr, conf>> /\ jobs' = jobs /\ run' = run
    BY DEF StepFails, rows
<1>2. t \in Kids /\ Begun(t) /\ t \in Known.begun /\ agenda[t] = <<>>
    BY <1>1, AtWork
<1>3. Undisturbed'
    BY DEF StepFails, Undisturbed, Steady, FamilyRows
<1>4. KinPlan(Fails(t), t, Known)
    BY <1>2, FailsPlain, PlainIsSure, SureIsKin
<1>5. DOMAIN jobs' = Tasks /\ DOMAIN run' = Tasks
    BY <1>1 DEF Steady, FamilyRows, FamilyShape
<1>6. (\A u \in Tasks : u # t => jobs'[u] = jobs[u]) /\ (\A u \in Tasks : u # t => run'[u] = run[u])
    BY <1>1
<1> QED  BY ONLY <1>1, <1>2, <1>3, <1>4, <1>5, <1>6, Steady, ChildRunMoves

\* A worker takes up a child's job: there is one, so the child has left todo.
LEMMA ClaimKeeps == ASSUME Steady, NEW t \in Tasks, Claim(t) PROVE Steady'
<1> DEFINE stmts == IF task[t].status \in {"todo", "failed"} THEN <<S("status", t, "context_loading")>> ELSE <<>>
<1>1. PICK j \in 1..Len(jobs[t]) :
         /\ jobs[t][j] = "queued"
         /\ jobs' = [jobs EXCEPT ![t][j] = "running"]
         /\ run' = [run EXCEPT ![t] = j]
         /\ agenda' = [agenda EXCEPT ![t] =
                Settle(OrElse(stmts, Try(<<S("status", t, "failed")>>)
                                     \o Try(<<S("job", t, [job |-> j, status |-> "failed"])>>) \o <<S("end", t, "failed")>>)
                       \o ResumeStatus(t))]
    BY DEF Claim
<1>2. agenda[t] = <<>> /\ UNCHANGED <<task, stage, pr, conf, budget>>
    BY DEF Claim
<1>3. t \in Kids
  <2> SUFFICES ASSUME t \notin Kids PROVE FALSE
      OBVIOUS
  <2>1. t = Parent
      BY DEF Tasks
  <2>2. jobs[t] = <<"paused">>
      BY <2>1 DEF Steady, FamilyRows, ParentRow
  <2>3. jobs[t][1] = "paused" /\ Len(jobs[t]) = 1
      BY <2>2
  <2>4. j = 1
      BY <1>1, <2>3
  <2> QED  BY <1>1, <2>3, <2>4
<1>4. Begun(t) /\ t \in Known.begun
  <2>1. jobs[t] # <<>>
      BY <1>1
  <2> QED  BY <1>3, <2>1 DEF Known, Steady, FamilyRows, KidRow
<1>5. "context_loading" \in KidStatus /\ "failed" \in KidStatus /\ "reviewing" \in KidStatus /\ "coding" \in KidStatus
    BY TaskStatuses DEF KidStatus
<1> DEFINE s == S("status", t, "failed")
           b == S("job", t, [job |-> j, status |-> "failed"])
           e == S("end", t, "failed")
           h == Try(<<s>>) \o Try(<<b>>) \o <<e>>
           c == <<S("catch", None, h)>>
           m == ResumeStatus(t)
           q == Settle(stmts \o c \o m)
<1>6. SurePlan(stmts, t, Known)
  <2>1. SurePlan(<<S("status", t, "context_loading")>>, t, Known)
      BY <1>3, <1>5, KidStatusSure, SureOne
  <2> QED  BY <2>1, SureEmpty
<1>7. SurePlan(m, t, Known)
  <2>1. SurePlan(Try(<<S("status", t, "reviewing")>>), t, Known)
      BY <1>3, <1>5, KidStatusSure, SureOne, SureTry
  <2>2. SurePlan(Try(<<S("status", t, "coding")>>), t, Known)
      BY <1>3, <1>5, KidStatusSure, SureOne, SureTry
  <2> QED  BY <2>1, <2>2, SureEmpty DEF ResumeStatus
<1>8. Plain(h, t, Known)
  <2>1. Sure(s, t, Known) /\ s.op # "catch"
      BY <1>3, <1>5, KidStatusSure DEF S
  <2>2. Sure(b, t, Known) /\ b.op # "catch"
      BY <1>4, JobSure DEF S
  <2>3. Sure(e, t, Known) /\ e.op # "catch"
      BY <1>3, RunSure DEF S
  <2> HIDE DEF s, b, e
  <2>4. Plain(Try(<<s>>), t, Known) /\ Plain(Try(<<b>>), t, Known) /\ Plain(<<e>>, t, Known)
      BY <2>1, <2>2, <2>3, PlainOne, PlainTry
  <2>5. Plain(Try(<<s>>) \o Try(<<b>>), t, Known)
      BY <2>4, PlainConcat
  <2> QED  BY <2>4, <2>5, PlainConcat
<1>9. agenda' = [agenda EXCEPT ![t] = q]
    BY <1>1 DEF OrElse
<1> HIDE DEF stmts, h, m
<1>10. KinPlan(q, t, Known)
  <2>1. SurePlan(c, t, Known)
      BY <1>8, OrElseSure
  <2> HIDE DEF c
  <2>2. SurePlan(stmts \o c, t, Known)
      BY <1>6, <2>1, SureConcat
  <2>3. SurePlan(stmts \o c \o m, t, Known)
      BY <1>7, <2>2, SureConcat
  <2> QED  BY <2>3, SureSettle, SureIsKin
<1> HIDE DEF q
<1>11. Undisturbed'
    BY <1>2 DEF Undisturbed, Steady, FamilyRows
<1>12. /\ DOMAIN jobs' = Tasks /\ \A u \in Tasks : u # t => jobs'[u] = jobs[u]
       /\ DOMAIN run' = Tasks /\ \A u \in Tasks : u # t => run'[u] = run[u]
    BY <1>1 DEF Steady, FamilyRows, FamilyShape
<1>13. UNCHANGED <<task, stage, pr, conf>>
    BY <1>2
<1> QED  BY ONLY <1>2, <1>3, <1>4, <1>9, <1>10, <1>11, <1>12, <1>13, Steady, ChildRunMoves

\* Somebody merges the pull request of a child at the provider.
LEMMA RemoteMergeKeeps == ASSUME Steady, NEW t \in Tasks, RemoteMerge(t) PROVE Steady'
<1>1. pr[t] \in {"open", "reopened"} /\ pr' = [pr EXCEPT ![t] = "merged"]
      /\ UNCHANGED <<task, jobs, stage, run, agenda, conf, budget>>
    BY DEF RemoteMerge, rows
<1>2. t \in Kids
    BY <1>1 DEF Steady, FamilyRows, ParentRow, Tasks
<1>3. stage[t] # 0
    BY <1>1, <1>2 DEF Steady, FamilyRows, KidRow
<1>4. Known' = Known
    BY <1>1 DEF Known, Begun
<1>5. DOMAIN pr' = Tasks /\ \A u \in Tasks : u # t => pr'[u] = pr[u]
    BY <1>1 DEF Steady, FamilyRows, FamilyShape
<1>6. FamilyRows'
  <2>1. FamilyShape' /\ Undisturbed'
      BY <1>1, <1>5 DEF Steady, FamilyRows, FamilyShape, Undisturbed
  <2>2. ParentRow'
      BY <1>1, <1>2, <1>5, KidsAndParent DEF Steady, FamilyRows, ParentRow
  <2>3. \A k \in Kids : KidRow(k)'
      BY <1>1, <1>3, <1>5, KidsAndParent DEF Steady, FamilyRows, KidRow, Begun, conf
  <2> QED  BY <2>1, <2>2, <2>3 DEF FamilyRows
<1>7. Left' = Left /\ First' = First /\ (Begun(First))' = Begun(First) /\ Closed' = Closed
    BY <1>1 DEF Left, First, Begun, Closed
<1>8. GoesOn'
    BY <1>1, <1>7 DEF GoesOn, Steady, Grown
<1>9. Closes'
    BY <1>1, <1>7 DEF Closes, Steady, Grown
<1>10. \A a \in Actors : KinPlan(agenda'[a], a, Known')
    BY <1>1, <1>4 DEF Steady, Grown
<1> QED  BY <1>1, <1>6, <1>8, <1>9, <1>10 DEF Steady, Grown

\* A request about a child or the parent.
LEMMA RequestKeeps == ASSUME Steady, NEW c \in Callers, FamilyRequest(c) PROVE Steady'
<1> DEFINE Asks(s) == \/ s.op \in {"execute", "retry", "cancel", "approve"} /\ s.t \in Kids
                   \/ s.op = "retryParent"
<1>1. \E s : Asks(s) /\ Arrives(c, <<s>>)
  <2>1. CASE \E k \in Kids, request \in {"execute", "retry", "cancel", "approve"} : RequestArrives(c, k, request)
    <3>1. PICK k \in Kids : \E request \in {"execute", "retry", "cancel", "approve"} : RequestArrives(c, k, request)
        BY <2>1
    <3>2. PICK request \in {"execute", "retry", "cancel", "approve"} : RequestArrives(c, k, request)
        BY <3>1
    <3> DEFINE s == S(request, k, None)
    <3>3. s.op = request /\ s.t = k /\ Arrives(c, <<s>>)
        BY <3>2 DEF S, RequestArrives
    <3> HIDE DEF s
    <3> QED  BY <3>3
  <2>2. CASE RequestArrives(c, Parent, "retryParent")
    <3> DEFINE s == S("retryParent", Parent, None)
    <3>1. s.op = "retryParent" /\ Arrives(c, <<s>>)
        BY <2>2 DEF S, RequestArrives
    <3> HIDE DEF s
    <3> QED  BY <3>1
  <2> QED  BY <2>1, <2>2 DEF FamilyRequest
<1>2. PICK s : Asks(s) /\ Arrives(c, <<s>>)
    BY <1>1
<1> DEFINE q == <<s>>
<1>3. /\ agenda[c] = <<>> /\ agenda' = [agenda EXCEPT ![c] = q] /\ budget' = [budget EXCEPT !.requests = @ - 1]
      /\ UNCHANGED <<task, jobs, stage, pr, run, conf>>
    BY <1>2 DEF Arrives, rows
<1>4. c \in Actors /\ c \notin Kids
    BY LifecycleAssumption DEF Actors, Tasks
<1>5. KinPlan(q, c, Known)
  <2>1. Sure(s, c, Known)
      BY <1>2, <1>4 DEF Sure, Kin
  <2> QED  BY <2>1, SureOne, SureIsKin
<1> HIDE DEF q
<1>6. Known' = Known /\ Grows(Known, Known') /\ task' = task
  <2>1. Known' = Known
      BY <1>3 DEF Known, Begun
  <2> QED  BY <1>3, <2>1 DEF Grows
<1>7. FamilyRows'
  <2>1. FamilyShape'
      BY <1>3 DEF Steady, FamilyRows, FamilyShape
  <2>2. Undisturbed'
      BY <1>3 DEF Steady, FamilyRows, Undisturbed
  <2>3. ParentRow'
      BY <1>3 DEF Steady, FamilyRows, ParentRow
  <2>4. \A k \in Kids : KidRow(k)'
      BY <1>3 DEF Steady, FamilyRows, KidRow, Begun, conf
  <2> QED  BY <2>1, <2>2, <2>3, <2>4 DEF FamilyRows
<1>8. ~Next1st(agenda[c], First) /\ ~LastOne(agenda[c])
    BY <1>3 DEF Next1st, LastOne
<1>9. KinPlan(q, c, Known') /\ \A b \in Actors \ {c} : b \in Known'.staged => b \in Known.staged
    BY <1>5, <1>6
<1> QED  BY <1>3, <1>4, <1>6, <1>7, <1>8, <1>9, FamilyProceeds

\* The statements of a task on its own have no place here.
LEMMA StatementKeeps == ASSUME Steady, astray' = {}, NEW a \in Actors, Statement(a) PROVE Steady'
<1>1. ASSUME NEW op \in {"update", "pause", "mark", "clear", "limit", "raise", "review", "sync", "dispatch", "record"},
             Doing(a, op)
      PROVE  FALSE
  <2>1. It(a).op = op /\ Kin(It(a), a, Known)
      BY <1>1, FamilyHead, KinOf
  <2> QED  BY <2>1 DEF Kin
<1>2. ~(ReadValidated(a) \/ PauseJob(a) \/ SaveMark(a) \/ ClearCheckpointsForRepair(a) \/ CheckLoopLimit(a))
    BY <1>1 DEF ReadValidated, PauseJob, SaveMark, ClearCheckpointsForRepair, CheckLoopLimit
<1>3. ~(ReturnError(a) \/ StartReview(a) \/ SyncMerged(a) \/ Dispatch(a) \/ Record(a))
    BY <1>1 DEF ReturnError, StartReview, SyncMerged, Dispatch, Record
<1>4. \/ ReadStatus(a) \/ WriteTask(a) \/ UpdateJob(a) \/ Enqueue(a) \/ Execute(a) \/ RetryFromLastStep(a)
      \/ CancelJob(a) \/ ChildTerminal(a) \/ ListChildren(a) \/ RetryBlockedParent(a) \/ FinishJob(a)
      \/ ApproveMerge(a) \/ CancelRun(a) \/ OpenPullRequest(a) \/ SaveStage(a) \/ StepRefused(a) \/ EndRun(a)
    BY <1>2, <1>3 DEF Statement
<1>5. CASE ReadStatus(a) \/ WriteTask(a) \/ UpdateJob(a) \/ Enqueue(a) \/ Execute(a) \/ RetryFromLastStep(a)
    BY <1>5, ReadStatusKeeps, WriteKeeps, UpdateJobKeeps, EnqueueKeeps, ExecuteKeeps, RetryKeeps
<1>6. CASE CancelJob(a) \/ ChildTerminal(a) \/ ListChildren(a) \/ RetryBlockedParent(a) \/ FinishJob(a)
    BY <1>6, CancelKeeps, ChildTerminalKeeps, ListKeeps, RetryParentKeeps, FinishKeeps
<1>7. CASE \/ ApproveMerge(a) \/ CancelRun(a) \/ OpenPullRequest(a) \/ SaveStage(a) \/ StepRefused(a) \/ EndRun(a)
    BY <1>7, ApproveKeeps, CancelRunKeeps, OpenKeeps, StageKeeps, RefusedKeeps, EndRunKeeps
<1> QED  BY <1>4, <1>5, <1>6, <1>7

LEMMA SteadyStep == ASSUME Steady, scenario = "family", astray' = {}, LifecycleNext PROVE Steady'
<1>1. ASSUME NEW a \in Actors, Statement(a) PROVE Steady'
    BY <1>1, StatementKeeps
<1>2. ASSUME NEW t \in Tasks, RunStep(t) PROVE Steady'
    BY <1>2, ClaimKeeps, SpecStepKeeps, ClarificationKeeps, ImplementKeeps, CrossReviewKeeps, MergeRequestKeeps,
       FailKeeps DEF RunStep
<1>3. ASSUME NEW t \in Tasks, RemoteMerge(t) PROVE Steady'
    BY <1>3, RemoteMergeKeeps
<1>4. ~(\E t \in Tasks : TimeLimitPasses(t) \/ EventVolumeTrips(t))
    BY DEF TimeLimitPasses, EventVolumeTrips, Steady, FamilyRows, Undisturbed
<1>5. ASSUME NEW c \in Callers, FamilyRequest(c) PROVE Steady'
    BY <1>5, RequestKeeps
<1>6. ~(\E c \in Callers : SoloRequest(c))
    BY DEF SoloRequest
<1> QED  BY <1>1, <1>2, <1>3, <1>4, <1>5, <1>6 DEF LifecycleNext

-----------------------------------------------------------------------------
(***************************************************************************)
(* A family: while it is split.                                              *)
(***************************************************************************)
\* The statements from the m-th on.
LEMMA ListFrom ==
    ASSUME NEW T, NEW B \in Seq(T), NEW m \in 1..Len(B)
    PROVE  /\ SubSeq(B, m, Len(B)) # <<>> /\ Head(SubSeq(B, m, Len(B))) = B[m]
           /\ Tail(SubSeq(B, m, Len(B))) = SubSeq(B, m + 1, Len(B))
<1> DEFINE L == Len(B)
           q == SubSeq(B, m, L)
           r == SubSeq(B, m + 1, L)
<1>1. L \in Nat /\ m \in Int /\ L \in Int /\ m + 1 \in Int
    OBVIOUS
<1>2. \A i \in m..L : B[i] \in T
    OBVIOUS
<1>3. \A i \in (m + 1)..L : B[i] \in T
    OBVIOUS
<1>4. q \in Seq(T) /\ Len(q) = (IF m <= L THEN L - m + 1 ELSE 0) /\ \A i \in 1..(L - m + 1) : q[i] = B[m + i - 1]
    BY <1>1, <1>2, SubSeqProperties
<1>5. r \in Seq(T) /\ Len(r) = (IF m + 1 <= L THEN L - (m + 1) + 1 ELSE 0)
      /\ \A i \in 1..(L - (m + 1) + 1) : r[i] = B[(m + 1) + i - 1]
    BY <1>1, <1>3, SubSeqProperties
<1> HIDE DEF q, r
<1>6. Len(q) = L - m + 1 /\ Len(r) = L - m /\ q # <<>>
    BY <1>1, <1>4, <1>5
<1>7. Head(q) = B[m]
  <2>1. q[1] = B[m + 1 - 1]
      BY <1>1, <1>4, <1>6
  <2> QED  BY <1>4, <1>6, <2>1
<1> DEFINE u == Tail(q)
<1>8. u \in Seq(T) /\ Len(u) = Len(q) - 1 /\ \A i \in 1..Len(u) : u[i] = q[i + 1]
    BY <1>4, <1>6, HeadTailProperties
<1> HIDE DEF u
<1>9. \A i \in 1..Len(u) : u[i] = r[i]
  <2> TAKE i \in 1..Len(u)
  <2>1. i \in Nat /\ i + 1 \in 1..(L - m + 1) /\ i \in 1..(L - (m + 1) + 1)
      BY <1>1, <1>6, <1>8
  <2>2. u[i] = B[m + (i + 1) - 1] /\ r[i] = B[(m + 1) + i - 1]
      BY <1>4, <1>5, <1>8, <2>1
  <2>3. m + (i + 1) - 1 = (m + 1) + i - 1
      BY <1>1, <2>1
  <2> QED  BY <2>2, <2>3
<1>10. Len(u) = Len(r)
    BY <1>1, <1>6, <1>8
<1>11. u = r
    BY <1>5, <1>8, <1>9, <1>10, SeqEqual
<1> QED  BY <1>6, <1>7, <1>11 DEF q, r, u

\* One child after the other, then the mark of the parent, then the first child.
LEMMA SplitGoesOn ==
    ASSUME NEW m \in 1..(Len(Children) + 1), agenda[Parent] = SubSeq(SplitBody, m, Len(SplitBody))
    PROVE  /\ agenda[Parent] # <<>> /\ It(Parent) = SplitBody[m] /\ It(Parent).op = "write"
           /\ Settle(<<>> \o Tail(agenda[Parent])) = SubSeq(SplitBody, m + 1, Len(SplitBody))
<1> DEFINE n == Len(Children)
           B == SplitBody
           T == {B[i] : i \in DOMAIN B}
           r == SubSeq(B, m + 1, Len(B))
<1>1. n \in Nat /\ Len(B) = n + 2 /\ IsSeq(B)
    BY LifecycleAssumption, SplitBodyIs
<1>2. \A i \in 1..n : B[i].op = "write"
  <2> TAKE i \in 1..n
  <2>1. B[i] = Put(Children[i], Created("todo"))
      BY LifecycleAssumption, SplitBodyIs
  <2> HIDE DEF B
  <2> QED  BY <2>1 DEF Put, S
<1>3. B[n + 1].op = "write" /\ B[n + 2].op = "list"
  <2>1. B[n + 1] = Put(Parent, [split |-> TRUE]) /\ B[n + 2] = S("list", Parent, None)
      BY LifecycleAssumption, SplitBodyIs
  <2> HIDE DEF B
  <2> QED  BY <2>1 DEF Put, S
<1> HIDE DEF n
<1>4. B \in Seq(T)
    BY <1>1 DEF IsSeq
<1> HIDE DEF B, T
<1>5. m \in 1..(n + 1) /\ m \in 1..Len(B) /\ m + 1 \in 1..Len(B)
    BY <1>1 DEF n
<1>6. /\ SubSeq(B, m, Len(B)) # <<>> /\ Head(SubSeq(B, m, Len(B))) = B[m]
      /\ Tail(SubSeq(B, m, Len(B))) = r
    BY <1>4, <1>5, ListFrom
<1>7. r # <<>> /\ Head(r) = B[m + 1]
    BY <1>4, <1>5, ListFrom
<1>8. r \in Seq(T)
  <2>1. \A i \in (m + 1)..Len(B) : B[i] \in T
      BY <1>4, <1>5
  <2> QED  BY <1>4, <1>5, <2>1, SubSeqProperties
<1> HIDE DEF r
<1>9. m + 1 \in 1..n \/ m + 1 = n + 1 \/ m + 1 = n + 2
    BY <1>1, <1>5
<1>10. r[1].op # "catch"
  <2>1. r[1] = B[m + 1]
      BY <1>7, <1>8
  <2>2. B[m + 1].op \in {"write", "list"}
      BY <1>2, <1>3, <1>9
  <2> QED  BY <2>1, <2>2
<1>11. Settle(<<>> \o r) = r
  <2>1. <<>> \o r = r
      BY <1>8, ConcatEmptySeq
  <2>2. Settle(r) = r
      BY <1>7, <1>8, <1>10, Settled
  <2> QED  BY <2>1, <2>2
<1>12. agenda[Parent] # <<>> /\ It(Parent) = B[m] /\ Tail(agenda[Parent]) = r
    BY <1>6 DEF It, B
<1>13. B[m].op = "write"
  <2>1. m \in 1..n \/ m = n + 1
      BY <1>1, <1>5
  <2> QED  BY <1>2, <1>3, <2>1
<1> QED  BY <1>11, <1>12, <1>13 DEF B, r

\* One more statement of the split: a child's row, or the mark, which lets the family go.
LEMMA SplitWrites == ASSUME FamilyRows, Splitting, WriteTask(Parent) PROVE FamilyRows' /\ (Splitting' \/ Grown')
<1> DEFINE n == Len(Children)
           s == It(Parent)
           t == s.t
           f == s.v.fields
<1>1. PICK m \in 1..(n + 1) : /\ agenda[Parent] = SubSeq(SplitBody, m, Len(SplitBody))
                              /\ \A i \in 1..(m - 1) : task[Children[i]].exists
    BY DEF Splitting
<1> DEFINE r == SubSeq(SplitBody, m + 1, Len(SplitBody))
<1>2. s = SplitBody[m] /\ Settle(<<>> \o Tail(agenda[Parent])) = r
    BY <1>1, SplitGoesOn
<1>3. n \in Nat /\ \A i \in 1..n : Children[i] \in Kids /\ SplitBody[i] = Put(Children[i], Created("todo"))
    BY LifecycleAssumption, SplitBodyIs
<1>4. SplitBody[n + 1] = Put(Parent, [split |-> TRUE])
    BY LifecycleAssumption, SplitBodyIs
<1> HIDE DEF n
<1>5. m \in 1..n \/ m = n + 1
    BY <1>1, <1>3
<1> HIDE DEF s
<1>0. m \in 1..n => s = Put(Children[m], Created("todo"))
    BY <1>2, <1>3
<1>14. m = n + 1 => s = Put(Parent, [split |-> TRUE])
    BY <1>2, <1>4
<1>6. ~s.v.tracked
    BY <1>0, <1>14, <1>5 DEF Put, S
<1> USE DEF s
<1>7. task' = [task EXCEPT ![t] = Updated(@, f)] /\ UNCHANGED <<jobs, stage, pr, run, conf, budget>>
    BY DEF WriteTask
<1>8. agenda' = [agenda EXCEPT ![Parent] = r]
  <2>1. agenda' = [agenda EXCEPT ![Parent] = Settle(<<>> \o Tail(agenda[Parent]))]
      BY <1>6 DEF WriteTask, Then
  <2> QED  BY <1>2, <2>1
<1>9. FamilyShape /\ (\A k \in Kids : KidRow(k)) /\ ParentRow /\ Undisturbed
    BY DEF FamilyRows
<1>10. ~task[Parent].split /\ (\A k \in Kids : ~Begun(k)) /\ \A a \in Actors \ {Parent} : agenda[a] = <<>>
    BY DEF Splitting
<1> HIDE DEF s, t, f, r
<1>11. DOMAIN agenda' = Actors /\ agenda'[Parent] = r /\ \A a \in Actors \ {Parent} : agenda'[a] = <<>>
    BY <1>8, <1>9, <1>10, KidsAndParent DEF FamilyShape
<1>12. CASE m \in 1..n
  <2>1. s = Put(Children[m], Created("todo")) /\ t \in Kids
      BY <1>2, <1>3, <1>12 DEF Put, S, t
  <2>2. t = Children[m] /\ f = Created("todo")
      BY <2>1 DEF Put, S, t, f
  <2>3. /\ DOMAIN f = {"status", "spec", "pausedStep", "reason", "blockedChild", "split", "exists", "retries", "started"}
        /\ f.status = "todo" /\ f.started = "no" /\ f.retries = 0 /\ f.exists
      BY <2>2 DEF Created
  <2>4. t \in Tasks /\ t # Parent /\ Parent \in Tasks /\ Kids \subseteq Tasks
      BY <2>1, KidsAndParent
  <2>5. /\ DOMAIN task' = Tasks /\ \A u \in Tasks : u # t => task'[u] = task[u]
        /\ {"status", "split", "exists", "blockedChild", "started", "retries"} \subseteq DOMAIN task'[t]
    <3>1. task' = [task EXCEPT ![t] = Updated(@, f)]
        BY <1>7
    <3> QED  BY <1>9, <2>4, <3>1, RowUpdated
  <2>6. task'[t].status = "todo" /\ task'[t].started = "no" /\ task'[t].retries = 0 /\ task'[t].exists
    <3>1. task'[t] = Updated(task[t], f)
        BY <1>7, <1>9, <2>4 DEF FamilyShape
    <3>2. {"status", "split", "exists", "blockedChild", "started", "retries"} \subseteq DOMAIN task[t]
        BY <1>9, <2>4 DEF FamilyShape
    <3> QED  BY <2>3, <3>1, <3>2 DEF Updated
  <2>7. FamilyRows'
    <3>1. FamilyShape' /\ Undisturbed'
      <4>1. \A u \in Tasks : {"status", "split", "exists", "blockedChild", "started", "retries"} \subseteq DOMAIN task'[u]
          BY <1>9, <2>5 DEF FamilyShape
      <4> QED  BY <1>7, <1>9, <1>11, <2>5, <4>1 DEF FamilyShape, Undisturbed
    <3>2. ParentRow'
        BY <1>7, <1>9, <2>4, <2>5 DEF ParentRow
    <3>3. \A k \in Kids : KidRow(k)'
      <4> TAKE k \in Kids
      <4>1. KidRow(k) /\ ~Begun(k)
          BY <1>9, <1>10
      <4>2. CASE k # t
          BY <1>7, <2>4, <2>5, <4>1, <4>2 DEF KidRow, Begun, conf
      <4>3. CASE k = t
        <5>1. "todo" \in TaskStatus
            BY TaskStatuses
        <5> QED  BY <1>7, <2>6, <4>1, <4>3, <5>1 DEF KidRow, Begun, conf
      <4> QED  BY <4>2, <4>3
    <3> QED  BY <3>1, <3>2, <3>3 DEF FamilyRows
  <2>8. Splitting'
    <3>1. ~task'[Parent].split
        BY <1>10, <2>4, <2>5
    <3>2. \A k \in Kids : ~(Begun(k))'
        BY <1>10, <2>4, <2>5, <2>6 DEF Begun
    <3>3. m + 1 \in 1..(n + 1) /\ (m + 1) - 1 = m
        BY <1>3, <1>12
    <3>4. \A i \in 1..((m + 1) - 1) : task'[Children[i]].exists
      <4> TAKE i \in 1..((m + 1) - 1)
      <4>1. i \in 1..n /\ (i = m \/ i \in 1..(m - 1))
          BY <1>3, <1>12, <3>3
      <4>2. Children[i] \in Kids
          BY <1>3, <4>1
      <4>3. CASE Children[i] = t
          BY <2>6, <4>3
      <4>4. CASE Children[i] # t
        <5>1. i \in 1..(m - 1)
            BY <2>2, <4>1, <4>4
        <5> QED  BY <1>1, <2>4, <2>5, <4>2, <4>4, <5>1
      <4> QED  BY <4>3, <4>4
    <3>5. agenda'[Parent] = SubSeq(SplitBody, m + 1, Len(SplitBody))
        BY <1>11 DEF r
    <3> QED  BY <1>11, <3>1, <3>2, <3>3, <3>4, <3>5 DEF Splitting, n
  <2> QED  BY <2>7, <2>8
<1>13. CASE m = n + 1
  <2>1. t = Parent /\ f = [split |-> TRUE]
    <3>1. s = Put(Parent, [split |-> TRUE])
        BY <1>13, <1>14
    <3> QED  BY <3>1 DEF Put, S, t, f
  <2>2. DOMAIN f = {"split"} /\ f.split
      BY <2>1
  <2>3. Parent \in Tasks /\ Parent \notin Kids /\ Kids \subseteq Tasks /\ Parent \in Others /\ Parent \in Actors
      BY KidsAndParent
  <2>4. task'[Parent] = Updated(task[Parent], f) /\ \A k \in Kids : task'[k] = task[k]
      BY <1>7, <1>9, <2>1, <2>3 DEF FamilyShape
  <2>5. /\ DOMAIN task' = Tasks
        /\ {"status", "split", "exists", "blockedChild", "started", "retries"} \subseteq DOMAIN task'[Parent]
        /\ task'[Parent].status = task[Parent].status /\ task'[Parent].blockedChild = task[Parent].blockedChild
        /\ task'[Parent].split
    <3>1. {"status", "split", "exists", "blockedChild", "started", "retries"} \subseteq DOMAIN task[Parent]
        BY <1>9, <2>3 DEF FamilyShape
    <3>2. DOMAIN task' = Tasks
        BY <1>7, <1>9 DEF FamilyShape
    <3> QED  BY <2>2, <2>4, <3>1, <3>2 DEF Updated
  <2>6. FamilyRows'
    <3>1. FamilyShape' /\ Undisturbed'
      <4>1. \A u \in Tasks : {"status", "split", "exists", "blockedChild", "started", "retries"} \subseteq DOMAIN task'[u]
          BY <1>9, <2>4, <2>5 DEF FamilyShape, Tasks
      <4> QED  BY <1>7, <1>9, <1>11, <2>5, <4>1 DEF FamilyShape, Undisturbed
    <3>2. ParentRow'
        BY <1>7, <1>9, <2>5 DEF ParentRow
    <3>3. \A k \in Kids : KidRow(k)'
        BY <1>7, <1>9, <2>4 DEF KidRow, Begun, conf
    <3> QED  BY <3>1, <3>2, <3>3 DEF FamilyRows
  <2>7. \A k \in Kids : task'[k].exists
    <3> TAKE k \in Kids
    <3>1. PICK i \in 1..n : Children[i] = k
        BY DEF Kids, n
    <3>2. i \in 1..(m - 1)
        BY <1>3, <1>13, <3>1
    <3> QED  BY <1>1, <2>4, <3>1, <3>2
  <2>8. r # <<>> /\ Head(r).op = "list" /\ KinPlan(r, Parent, Known')
    <3> DEFINE B == SplitBody
               T == {B[i] : i \in DOMAIN B}
               l == S("list", Parent, None)
    <3>1. IsSeq(B) /\ Len(B) = n + 2 /\ B[n + 2] = l
        BY LifecycleAssumption, SplitBodyIs DEF n
    <3>2. B \in Seq(T)
        BY <3>1 DEF IsSeq
    <3>3. l.op = "list"
        BY DEF S
    <3> HIDE DEF B, T, l
    <3>4. m + 1 \in Int /\ Len(B) \in Int /\ m + 1 = Len(B)
        BY <1>3, <1>13, <3>1
    <3>5. \A i \in (m + 1)..Len(B) : B[i] \in {l}
        BY <1>13, <3>1, <3>4
    <3> DEFINE q == SubSeq(B, m + 1, Len(B))
    <3>6. q \in Seq({l}) /\ Len(q) = (IF m + 1 <= Len(B) THEN Len(B) - (m + 1) + 1 ELSE 0)
        BY <3>4, <3>5, SubSeqProperties
    <3> HIDE DEF q
    <3>7. Len(q) = 1
        BY <3>4, <3>6
    <3>8. q # <<>> /\ Head(q) = l
        BY <3>6, <3>7
    <3>9. Sure(l, Parent, Known')
        BY <2>3, <3>3 DEF Sure, Kin
    <3>10. KinPlan(q, Parent, Known')
      <4>1. \A x \in {l} : Sure(x, Parent, Known')
          BY <3>9
      <4>2. SurePlan(q, Parent, Known')
          BY <3>6, <4>1, SureFrom
      <4> QED  BY <4>2, SureIsKin
    <3>11. r = q
        BY DEF r, q, B
    <3> QED  BY <3>3, <3>8, <3>10, <3>11
  <2>9. \A a \in Actors : KinPlan(agenda'[a], a, Known')
    <3> TAKE a \in Actors
    <3>1. CASE a = Parent
        BY <1>11, <2>8, <3>1
    <3>2. CASE a # Parent
        BY <1>11, <3>2, SureEmpty, SureIsKin
    <3> QED  BY <3>1, <3>2
  <2>10. (\A x : Next1st(r, x)) /\ LastOne(r)
      BY <2>8 DEF Next1st, LastOne, Starts, Completes, Tells
  <2>11. GoesOn' /\ Closes'
      BY <1>11, <2>3, <2>10 DEF GoesOn, Closes
  <2> QED  BY <2>5, <2>6, <2>7, <2>9, <2>11 DEF Grown
<1> QED  BY <1>5, <1>12, <1>13

\* Nothing else can happen before the family is whole: nobody knows of it, no child has
\* a job, and the parent's is paused.
LEMMA SplitRemoteMerge ==
    ASSUME FamilyRows, Splitting, NEW t \in Tasks, RemoteMerge(t) PROVE FamilyRows' /\ Splitting'
<1>1. pr[t] \in {"open", "reopened"} /\ pr' = [pr EXCEPT ![t] = "merged"]
      /\ UNCHANGED <<task, jobs, stage, run, agenda, conf, budget>>
    BY DEF RemoteMerge, rows
<1>2. t \in Kids
    BY <1>1 DEF FamilyRows, ParentRow, Tasks
<1>3. stage[t] # 0
    BY <1>1, <1>2 DEF FamilyRows, KidRow
<1>4. DOMAIN pr' = Tasks /\ \A u \in Tasks : u # t => pr'[u] = pr[u]
    BY <1>1 DEF FamilyRows, FamilyShape
<1>5. FamilyShape' /\ Undisturbed'
    BY <1>1, <1>4 DEF FamilyRows, FamilyShape, Undisturbed
<1>6. ParentRow'
    BY <1>1, <1>2, <1>4, KidsAndParent DEF FamilyRows, ParentRow
<1>7. \A k \in Kids : KidRow(k)'
    BY <1>1, <1>3, <1>4, KidsAndParent DEF FamilyRows, KidRow, Begun, conf
<1>8. Splitting'
    BY <1>1 DEF Splitting, Begun
<1> QED  BY <1>5, <1>6, <1>7, <1>8 DEF FamilyRows

LEMMA SplitRuns == ASSUME FamilyRows, Splitting, NEW t \in Tasks PROVE ~RunStep(t)
<1>1. run[t] = 0
    BY DEF FamilyRows, Splitting, KidRow, ParentRow, Tasks
<1>2. ~Working(t)
    BY <1>1 DEF Working
<1>3. ~Claim(t)
  <2>1. CASE t = Parent
    <3>1. jobs[t] = <<"paused">>
        BY <2>1 DEF FamilyRows, ParentRow
    <3>2. \A j \in 1..Len(jobs[t]) : jobs[t][j] # "queued"
      <4>1. Len(jobs[t]) = 1 /\ jobs[t][1] = "paused"
          BY <3>1
      <4> QED  BY <4>1
    <3> QED  BY <3>2 DEF Claim
  <2>2. CASE t \in Kids
    <3>1. jobs[t] = <<>>
        BY <2>2 DEF FamilyRows, Splitting, KidRow
    <3>2. Len(jobs[t]) = 0
        BY <3>1
    <3> QED  BY <3>2 DEF Claim
  <2> QED  BY <2>1, <2>2 DEF Tasks
<1> QED  BY <1>2, <1>3 DEF RunStep, SpecStep, ClarificationStep, ImplementStep, CrossReviewStep, MergeRequestStep,
                          StepFails

LEMMA SplitStep ==
    ASSUME FamilyRows, Splitting, scenario = "family", LifecycleNext
    PROVE  FamilyRows' /\ (Splitting' \/ Grown')
<1>1. \A a \in Actors \ {Parent} : agenda[a] = <<>>
    BY DEF Splitting
<1>2. It(Parent).op = "write"
    BY SplitGoesOn DEF Splitting
<1>3. ASSUME NEW a \in Actors, Statement(a) PROVE FamilyRows' /\ (Splitting' \/ Grown')
  <2>1. \A op : Doing(a, op) => a = Parent /\ op = "write"
      BY <1>1, <1>2 DEF Doing, It
  <2>2. WriteTask(a)
    <3>1. ~(ReadStatus(a) \/ ReadValidated(a) \/ UpdateJob(a) \/ Enqueue(a) \/ Execute(a) \/ RetryFromLastStep(a)
            \/ PauseJob(a) \/ CancelJob(a) \/ SaveMark(a))
        BY <2>1 DEF ReadStatus, ReadValidated, UpdateJob, Enqueue, Execute, RetryFromLastStep, PauseJob, CancelJob,
                    SaveMark
    <3>2. ~(ClearCheckpointsForRepair(a) \/ CheckLoopLimit(a) \/ ReturnError(a) \/ ChildTerminal(a)
            \/ ListChildren(a) \/ RetryBlockedParent(a) \/ FinishJob(a) \/ ApproveMerge(a) \/ StartReview(a))
        BY <2>1 DEF ClearCheckpointsForRepair, CheckLoopLimit, ReturnError, ChildTerminal, ListChildren,
                    RetryBlockedParent, FinishJob, ApproveMerge, StartReview
    <3>3. ~(SyncMerged(a) \/ CancelRun(a) \/ Dispatch(a) \/ Record(a) \/ OpenPullRequest(a) \/ SaveStage(a)
            \/ StepRefused(a) \/ EndRun(a))
        BY <2>1 DEF SyncMerged, CancelRun, Dispatch, Record, OpenPullRequest, SaveStage, StepRefused, EndRun
    <3> QED  BY <1>3, <3>1, <3>2, <3>3 DEF Statement
  <2>3. a = Parent
      BY <2>1, <2>2 DEF WriteTask
  <2> QED  BY <2>2, <2>3, SplitWrites
<1>4. ~(\E t \in Tasks : RunStep(t) \/ TimeLimitPasses(t) \/ EventVolumeTrips(t))
    BY SplitRuns DEF TimeLimitPasses, EventVolumeTrips, FamilyRows, Undisturbed
<1>5. ~(\E c \in Callers : SoloRequest(c) \/ FamilyRequest(c))
    BY DEF SoloRequest, FamilyRequest, Splitting
<1>6. ASSUME NEW t \in Tasks, RemoteMerge(t) PROVE FamilyRows' /\ Splitting'
    BY <1>6, SplitRemoteMerge
<1> QED  BY <1>3, <1>4, <1>5, <1>6 DEF LifecycleNext

-----------------------------------------------------------------------------
(***************************************************************************)
(* A family, from the request that splits it on.                             *)
(***************************************************************************)
LEMMA FamilyInit == ASSUME LifecycleInit, scenario = "family" PROVE FamilyRows /\ Splitting
<1> DEFINE hidden == [Created("todo") EXCEPT !.exists = FALSE]
<1>1. \A s : /\ {"status", "split", "exists", "blockedChild", "started", "retries"} \subseteq DOMAIN Created(s)
             /\ Created(s).status = s /\ ~Created(s).split /\ Created(s).blockedChild = None
             /\ Created(s).retries = 0 /\ (s = "todo" => Created(s).started = "no")
    BY DEF Created
<1>2. /\ {"status", "split", "exists", "blockedChild", "started", "retries"} \subseteq DOMAIN hidden
      /\ hidden.status = "todo" /\ hidden.started = "no" /\ hidden.retries = 0
    BY <1>1
<1>3. PICK first \in {Created("coding"), Created("spec_review")} :
         task = [t \in Tasks |-> IF t = Parent THEN first ELSE hidden]
    BY DEF LifecycleInit
<1>4. /\ jobs = [t \in Tasks |-> IF t = Parent THEN <<"paused">> ELSE <<>>]
      /\ stage = [t \in Tasks |-> 0] /\ pr = [t \in Tasks |-> "none"] /\ run = [t \in Tasks |-> 0]
      /\ agenda = [a \in Actors |-> IF a = Parent THEN SplitBody ELSE <<>>]
    BY DEF LifecycleInit
<1> HIDE DEF hidden
<1>5. Parent \in Tasks /\ Parent \in Actors /\ Parent \notin Kids /\ Kids \subseteq Tasks
    BY KidsAndParent
<1>6. task[Parent] = first /\ \A k \in Kids : task[k] = hidden
    BY <1>3, <1>5
<1>7. FamilyShape
  <2>1. \A t \in Tasks : {"status", "split", "exists", "blockedChild", "started", "retries"} \subseteq DOMAIN task[t]
      BY <1>1, <1>2, <1>3
  <2>2. DOMAIN task = Tasks
      BY <1>3
  <2> QED  BY <1>4, <2>1, <2>2 DEF FamilyShape
<1>8. \A k \in Kids : KidRow(k) /\ ~Begun(k)
  <2> TAKE k \in Kids
  <2>1. ~flow[k].gated
    <3>1. flow[k] = [parallel |-> FALSE, reviewed |-> FALSE, gated |-> FALSE]
        BY <1>5 DEF LifecycleInit
    <3> QED  BY <3>1
  <2>2. task[k].status = "todo" /\ task[k].started = "no" /\ task[k].retries = 0
      BY <1>2, <1>6
  <2>3. jobs[k] = <<>> /\ run[k] = 0 /\ pr[k] = "none"
      BY <1>4, <1>5
  <2>4. "todo" \in TaskStatus
      BY TaskStatuses
  <2> QED  BY <2>1, <2>2, <2>3, <2>4 DEF KidRow, Begun
<1>9. ParentRow
  <2>1. first.blockedChild = None /\ first.status \in {"coding", "spec_review"}
      BY <1>1
  <2> QED  BY <1>4, <1>5, <1>6, <2>1 DEF ParentRow, ParentStatus
<1>10. Undisturbed
  <2>1. /\ budget.disturbances = 0 /\ "disturbances" \in DOMAIN budget
      BY DEF LifecycleInit
  <2> QED  BY <2>1 DEF Undisturbed
<1>11. Splitting
  <2>1. ~task[Parent].split
      BY <1>1, <1>6
  <2>2. agenda[Parent] = SplitBody /\ \A a \in Actors \ {Parent} : agenda[a] = <<>>
      BY <1>4, <1>5
  <2> DEFINE B == SplitBody
             T == {B[i] : i \in DOMAIN B}
  <2>3. B = SubSeq(B, 1, Len(B))
    <3>1. IsSeq(B)
        BY LifecycleAssumption, SplitBodyIs
    <3>2. B \in Seq(T)
        BY <3>1 DEF IsSeq
    <3> HIDE DEF B, T
    <3> QED  BY <3>2, SubSeqFull
  <2>4. 1 \in 1..(Len(Children) + 1) /\ \A i \in 1..(1 - 1) : task[Children[i]].exists
    <3>1. Len(Children) \in Nat
        BY LifecycleAssumption, SplitBodyIs
    <3> QED  BY <3>1
  <2> QED  BY <1>8, <2>1, <2>2, <2>3, <2>4 DEF Splitting
<1> QED  BY <1>7, <1>8, <1>9, <1>10, <1>11 DEF FamilyRows

\* Nothing makes a family of a task on its own, and what went astray stays so.
LEMMA HistoryGrows == ASSUME LifecycleNext PROVE scenario' = scenario /\ astray \subseteq astray'
<1> USE DEF OnlyAgenda, conf, hist
<1>1. ASSUME NEW a \in Actors, Statement(a) PROVE scenario' = scenario /\ astray \subseteq astray'
  <2>1. CASE WriteTask(a)
      BY <2>1 DEF WriteTask
  <2>2. CASE ReadStatus(a) \/ ReadValidated(a) \/ UpdateJob(a) \/ Enqueue(a) \/ Execute(a) \/ RetryFromLastStep(a)
             \/ PauseJob(a) \/ CancelJob(a) \/ SaveMark(a)
      BY <2>2 DEF ReadStatus, ReadValidated, UpdateJob, Enqueue, Execute, RetryFromLastStep, PauseJob, CancelJob,
                  SaveMark
  <2>3. CASE ClearCheckpointsForRepair(a) \/ CheckLoopLimit(a) \/ ReturnError(a) \/ ChildTerminal(a)
             \/ ListChildren(a) \/ RetryBlockedParent(a) \/ FinishJob(a) \/ ApproveMerge(a) \/ StartReview(a)
      BY <2>3 DEF ClearCheckpointsForRepair, CheckLoopLimit, ReturnError, ChildTerminal, ListChildren,
                  RetryBlockedParent, FinishJob, ApproveMerge, StartReview
  <2>4. CASE SyncMerged(a) \/ CancelRun(a) \/ Dispatch(a) \/ Record(a) \/ OpenPullRequest(a) \/ SaveStage(a)
             \/ StepRefused(a) \/ EndRun(a)
      BY <2>4 DEF SyncMerged, CancelRun, Dispatch, Record, OpenPullRequest, SaveStage, StepRefused, EndRun
  <2> QED  BY <1>1, <2>1, <2>2, <2>3, <2>4 DEF Statement
<1>2. ASSUME NEW t \in Tasks, RunStep(t) \/ RemoteMerge(t) \/ TimeLimitPasses(t) \/ EventVolumeTrips(t)
      PROVE  scenario' = scenario /\ astray \subseteq astray'
    BY <1>2 DEF RunStep, Claim, SpecStep, ClarificationStep, ImplementStep, CrossReviewStep, MergeRequestStep,
                StepFails, Steps, RemoteMerge, TimeLimitPasses, EventVolumeTrips
<1>3. ASSUME NEW c \in Callers, SoloRequest(c) \/ FamilyRequest(c) PROVE scenario' = scenario /\ astray \subseteq astray'
  <2>1. \A q : Arrives(c, q) => scenario' = scenario /\ astray \subseteq astray'
      BY DEF Arrives
  <2> QED  BY <1>3, <2>1 DEF SoloRequest, FamilyRequest, ActionArrives, RequestArrives, ReviewArrives, RejectArrives,
                             ClarifyArrives, ChangesArrive, UpdateArrives, AnalyzeArrives
<1> QED  BY <1>1, <1>2, <1>3 DEF LifecycleNext

LEMMA FamilyStands == ASSUME FamilyInv, UNCHANGED lifeVars PROVE FamilyInv'
<1>1. UNCHANGED <<task, jobs, stage, pr, run, conf, budget>> /\ agenda' = agenda
      /\ scenario' = scenario /\ astray' = astray
    BY DEF lifeVars, rows, conf, hist
<1> SUFFICES ASSUME scenario' = "family", astray' = {} PROVE FamilyRows' /\ (Splitting' \/ Grown')
    BY DEF FamilyInv
<1>2. FamilyRows /\ (Splitting \/ Grown)
    BY <1>1 DEF FamilyInv
<1>3. FamilyRows' /\ Known' = Known
  <2>1. DOMAIN agenda' = Actors
      BY <1>1, <1>2 DEF FamilyRows, FamilyShape
  <2> QED  BY <1>1, <1>2, <2>1, SameRows
<1>4. CASE Splitting
  <2>1. Splitting'
      BY <1>1, <1>4 DEF Splitting, Begun
  <2> QED  BY <1>3, <2>1
<1>5. CASE Grown
  <2>1. Left' = Left /\ First' = First /\ (Begun(First))' = Begun(First) /\ Closed' = Closed
      BY <1>1 DEF Left, First, Begun, Closed
  <2>2. GoesOn' /\ Closes'
      BY <1>1, <1>5, <2>1 DEF GoesOn, Closes, Grown
  <2>3. \A a \in Actors : KinPlan(agenda'[a], a, Known')
      BY <1>1, <1>3, <1>5 DEF Grown
  <2>4. Grown'
      BY <1>1, <1>5, <2>2, <2>3 DEF Grown
  <2> QED  BY <1>3, <2>4
<1> QED  BY <1>2, <1>4, <1>5

LEMMA FamilyStep == ASSUME FamilyInv, [LifecycleNext]_lifeVars PROVE FamilyInv'
<1>1. CASE LifecycleNext
  <2> SUFFICES ASSUME scenario' = "family", astray' = {} PROVE FamilyRows' /\ (Splitting' \/ Grown')
      BY DEF FamilyInv
  <2>1. scenario = "family" /\ astray = {}
      BY <1>1, HistoryGrows
  <2>2. FamilyRows /\ (Splitting \/ Grown)
      BY <2>1 DEF FamilyInv
  <2>3. CASE Splitting
      BY <1>1, <2>1, <2>2, <2>3, SplitStep
  <2>4. CASE Grown
    <3>1. Steady
        BY <2>2, <2>4 DEF Steady
    <3>2. Steady'
        BY <1>1, <2>1, <3>1, SteadyStep
    <3> QED  BY <3>2 DEF Steady
  <2> QED  BY <2>2, <2>3, <2>4
<1>2. CASE UNCHANGED lifeVars
    BY <1>2, FamilyStands
<1> QED  BY <1>1, <1>2

LEMMA FamilyHolds == LifecycleSpec => []FamilyInv
<1>1. LifecycleInit => FamilyInv
    BY FamilyInit DEF FamilyInv
<1>2. FamilyInv /\ [LifecycleNext]_lifeVars => FamilyInv'
    BY FamilyStep
<1> QED  BY <1>1, <1>2, PTL DEF LifecycleSpec

\* However the runs of the children end and whatever is asked meanwhile, a parent whose
\* children are all merged is merged once nothing is under way: the last child to list the
\* family finds it complete (dispatchNextChildOrReduce, completeDecomposedParent), unless
\* the parent's status does not allow it.  Writes decided on a status that was gone are set
\* apart: updateTaskStatus does not lock.
THEOREM FamiliesComplete == LifecycleSpec => []ParentCompletes
<1>1. FamilyInv => ParentCompletes
  <2> SUFFICES ASSUME FamilyInv, Quiet, Family, Left = {}
               PROVE  task[Parent].status = "merged" \/ ~ValidateTaskTransition(task[Parent].status, "merged")
      BY DEF ParentCompletes
  <2>1. Grown
      BY DEF FamilyInv, Family, Splitting
  <2>2. ~(\E a \in Others : LastOne(agenda[a]))
      BY KidsAndParent DEF Quiet, LastOne
  <2>3. Closed
      BY <2>1, <2>2 DEF Grown, Closes
  <2>4. ~ValidateTaskTransition("spec_review", "merged")
      BY DEF ValidateTaskTransition, ValidTaskTransitions
  <2> QED  BY <2>3, <2>4 DEF Closed
<1> QED  BY <1>1, FamilyHolds, PTL

\* The children of a split are run in their order: with nothing under way, the first that
\* is not merged has left todo, because whoever merged the one before it lists the family
\* after its own write and executes what it finds (onChildTaskTerminal,
\* dispatchNextChildOrReduce).
THEOREM ChildrenAreStarted == LifecycleSpec => []NoChildForgotten
<1>1. FamilyInv => NoChildForgotten
  <2> SUFFICES ASSUME FamilyInv, Quiet, Family, Left # {} PROVE Begun(First)
      BY DEF NoChildForgotten, Begun, First
  <2>1. Grown
      BY DEF FamilyInv, Family, Splitting
  <2>2. \A a \in Others : ~Next1st(agenda[a], First)
      BY KidsAndParent DEF Quiet, Next1st
  <2> QED  BY <2>1, <2>2 DEF Grown, GoesOn
<1> QED  BY <1>1, FamilyHolds, PTL

================================================================================
