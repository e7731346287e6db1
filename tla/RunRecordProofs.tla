---------------------------- MODULE RunRecordProofs ----------------------------
(***************************************************************************)
(* What is kept of a run: what its agent remembers and what becomes of the    *)
(* suggestions learnt from it (Knowledge), and what a browser sees of its      *)
(* events and logs (LiveFeed), for any number of overlapping sessions,         *)
(* reviewers and entries, and any limits.                                      *)
(***************************************************************************)
EXTENDS Knowledge, LiveFeed, SequenceTheorems, FiniteSetTheorems, TLAPS

-----------------------------------------------------------------------------
(***************************************************************************)
(* Sublists.                                                                *)
(***************************************************************************)
\* Places count from one to the size of the set and grow with the members.
LEMMA PlaceGrows ==
    ASSUME NEW S, IsFiniteSet(S), S \subseteq Int
    PROVE  /\ \A i \in S : Place(S, i) \in 1..Cardinality(S)
           /\ \A i, j \in S : i < j => Place(S, i) < Place(S, j)
<1> DEFINE upto(i) == {j \in S : j <= i}
<1>1. \A i \in S : IsFiniteSet(upto(i)) /\ Cardinality(upto(i)) \in Nat
                   /\ Cardinality(upto(i)) <= Cardinality(S)
  <2> TAKE i \in S
  <2>1. upto(i) \in SUBSET S
      OBVIOUS
  <2> HIDE DEF upto
  <2> QED  BY <2>1, FS_Subset, FS_CardinalityType
<1>2. \A i \in S : Cardinality(upto(i)) # 0
  <2> TAKE i \in S
  <2>1. i \in upto(i)
      OBVIOUS
  <2> HIDE DEF upto
  <2> QED  BY <1>1, <2>1, FS_EmptySet
<1>3. \A i, j \in S : i < j => Cardinality(upto(i)) < Cardinality(upto(j))
  <2> SUFFICES ASSUME NEW i \in S, NEW j \in S, i < j
               PROVE  Cardinality(upto(i)) < Cardinality(upto(j))
      OBVIOUS
  <2>0. i \in Int /\ j \in Int /\ \A k \in S : k \in Int
      OBVIOUS
  <2>1. upto(i) \in SUBSET upto(j) /\ j \in upto(j) /\ j \notin upto(i)
    <3>1. \A k \in upto(i) : k \in upto(j)
        BY <2>0
    <3>2. j \in upto(j) /\ j \notin upto(i)
        BY <2>0
    <3> QED  BY <3>1, <3>2
  <2> HIDE DEF upto
  <2>2. upto(i) # upto(j)
      BY <2>1
  <2>3. Cardinality(upto(i)) <= Cardinality(upto(j)) /\ Cardinality(upto(i)) # Cardinality(upto(j))
      BY <1>1, <2>1, <2>2, FS_Subset
  <2> QED  BY <1>1, <2>3
<1>4. \A i \in S : Place(S, i) = Cardinality(upto(i))
    BY DEF Place
<1>5. Cardinality(S) \in Nat
    BY FS_CardinalityType
<1> HIDE DEF upto
<1> QED  BY <1>1, <1>2, <1>3, <1>4, <1>5

\* Every place is taken, by one member.
LEMMA PlaceTaken ==
    ASSUME NEW S, IsFiniteSet(S), S \subseteq Int, NEW k \in 1..Cardinality(S)
    PROVE  \E i \in S : Place(S, i) = k
<1> DEFINE n == Cardinality(S)
           T == 1..n
           f == [i \in S |-> Place(S, i)]
<1>1. n \in Nat
    BY FS_CardinalityType
<1>2. \A i \in S : Place(S, i) \in T
    BY PlaceGrows
<1>9. \A i, j \in S : i < j => Place(S, i) < Place(S, j)
    BY PlaceGrows
<1>3. \A i, j \in S : Place(S, i) = Place(S, j) => i = j
  <2> SUFFICES ASSUME NEW i \in S, NEW j \in S, Place(S, i) = Place(S, j) PROVE i = j
      OBVIOUS
  <2>1. i \in Int /\ j \in Int /\ Place(S, i) \in Int /\ Place(S, j) \in Int
      BY <1>1, <1>2
  <2>2. ~(i < j) /\ ~(j < i)
      BY <2>1, <1>9
  <2> QED  BY <2>1, <2>2
<1>4. f \in Injection(S, T)
  <2>1. f \in [S -> T]
      BY <1>2
  <2>2. \A i, j \in S : f[i] = f[j] => i = j
      BY <1>3
  <2> HIDE DEF f, T
  <2> QED  BY <2>1, <2>2 DEF Injection, IsInjective
<1>5. IsFiniteSet(T) /\ Cardinality(T) = n
    BY <1>1, FS_Interval
<1> HIDE DEF f, T
<1>6. f \in Surjection(S, T)
    BY <1>4, <1>5, FS_Injection DEF n
<1>7. k \in T
    BY DEF T, n
<1>8. \E i \in S : f[i] = k
    BY <1>6, <1>7 DEF Surjection
<1> QED  BY <1>8 DEF f

\* InOrder enumerates the set, the smallest member first.
LEMMA InOrderProperties ==
    ASSUME NEW S, IsFiniteSet(S), S \subseteq Int
    PROVE  /\ Cardinality(S) \in Nat
           /\ InOrder(S) \in [1..Cardinality(S) -> S]
           /\ \A k, l \in 1..Cardinality(S) : k < l => InOrder(S)[k] < InOrder(S)[l]
           /\ \A i \in S : \E k \in 1..Cardinality(S) : InOrder(S)[k] = i
<1>1. Cardinality(S) \in Nat
    BY FS_CardinalityType
<1>6. \A i, j \in S : i < j => Place(S, i) < Place(S, j)
    BY PlaceGrows
<1>2. \A k \in 1..Cardinality(S) : InOrder(S)[k] \in S /\ Place(S, InOrder(S)[k]) = k
  <2> TAKE k \in 1..Cardinality(S)
  <2>1. InOrder(S)[k] = CHOOSE i \in S : Place(S, i) = k
      BY DEF InOrder
  <2>2. \E i \in S : Place(S, i) = k
      BY PlaceTaken
  <2> QED  BY <2>1, <2>2
<1>3. InOrder(S) \in [1..Cardinality(S) -> S]
    BY <1>2 DEF InOrder
<1>4. \A k, l \in 1..Cardinality(S) : k < l => InOrder(S)[k] < InOrder(S)[l]
  <2> SUFFICES ASSUME NEW k \in 1..Cardinality(S), NEW l \in 1..Cardinality(S), k < l
               PROVE  InOrder(S)[k] < InOrder(S)[l]
      OBVIOUS
  <2> DEFINE a == InOrder(S)[k]
             b == InOrder(S)[l]
  <2>1. a \in S /\ b \in S /\ Place(S, a) = k /\ Place(S, b) = l
      BY <1>2
  <2> HIDE DEF a, b
  <2>2. a # b /\ ~(b < a)
      BY <1>1, <1>6, <2>1
  <2>3. a < b
      BY <2>1, <2>2
  <2> QED  BY <2>3 DEF a, b
<1>5. \A i \in S : \E k \in 1..Cardinality(S) : InOrder(S)[k] = i
  <2> TAKE i \in S
  <2> DEFINE k == Place(S, i)
  <2>1. k \in 1..Cardinality(S)
      BY PlaceGrows
  <2> DEFINE a == InOrder(S)[k]
  <2>2. a \in S /\ Place(S, a) = Place(S, i)
      BY <1>2, <2>1
  <2>3. k \in Int
      BY <2>1
  <2> HIDE DEF a
  <2>4. ~(a < i) /\ ~(i < a)
      BY <1>6, <2>2, <2>3
  <2>5. a = i
      BY <2>2, <2>4
  <2> QED  BY <2>1, <2>5 DEF a
<1> QED  BY <1>1, <1>3, <1>4, <1>5

\* A sublist holds the entries at the chosen positions, and no others.
LEMMA SublistProperties ==
    ASSUME NEW T, NEW list \in Seq(T), NEW P \in SUBSET DOMAIN list
    PROVE  /\ Sublist(list, P) \in Seq(T)
           /\ Len(Sublist(list, P)) = Cardinality(P)
           /\ \A k \in DOMAIN Sublist(list, P) : \E i \in P : Sublist(list, P)[k] = list[i]
           /\ \A i \in P : \E k \in DOMAIN Sublist(list, P) : Sublist(list, P)[k] = list[i]
<1>1. DOMAIN list = 1..Len(list) /\ Len(list) \in Nat
    OBVIOUS
<1>2. IsFiniteSet(P) /\ P \subseteq Int
  <2>1. IsFiniteSet(1..Len(list))
      BY <1>1, FS_Interval
  <2> QED  BY <1>1, <2>1, FS_Subset
<1> DEFINE n == Cardinality(P)
           o == InOrder(P)
           sub == Sublist(list, P)
<1>3. /\ n \in Nat
      /\ \A k \in 1..n : o[k] \in P
      /\ \A i \in P : \E k \in 1..n : o[k] = i
    BY <1>2, InOrderProperties
<1>4. sub = [k \in 1..n |-> list[o[k]]]
    BY DEF Sublist
<1> HIDE DEF n, o, sub
<1>5. \A i \in P : list[i] \in T
    BY <1>1
<1>6. sub \in Seq(T) /\ Len(sub) = n /\ DOMAIN sub = 1..n
  <2>1. sub \in [1..n -> T]
      BY <1>3, <1>4, <1>5
  <2> QED  BY <1>3, <2>1
<1>7. \A k \in 1..n : sub[k] = list[o[k]]
    BY <1>4
<1>8. \A k \in DOMAIN sub : \E i \in P : sub[k] = list[i]
    BY <1>3, <1>6, <1>7
<1>9. \A i \in P : \E k \in DOMAIN sub : sub[k] = list[i]
  <2> TAKE i \in P
  <2>1. PICK k \in 1..n : o[k] = i
      BY <1>3
  <2> QED  BY <1>6, <1>7, <2>1
<1> QED  BY <1>6, <1>8, <1>9 DEF sub, n
-----------------------------------------------------------------------------
(***************************************************************************)
(* Knowledge: the types.                                                    *)
(***************************************************************************)
Finals == {"", "done", "failed", "paused"}
Contents == Events \cup ({"summary", "evaluation"} \X Finals)

Memory == [id : Nat, content : Contents, session : Sessions \cup {""},
           tier : {"working", "episodic"},
           category : {"error", "success", "decision", "observation"}]

Session == [pc : {"idle", "running", "list", "cleanup", "evaluate", "learn", "ended", "dead"},
            successes : Nat, final : Finals, todo : Seq(Memory)]

SuggestionTypes == {"rule", "prompt_patch", "pattern"}

Suggestion == [type : SuggestionTypes, status : {"pending", "approved", "rejected", "applied"},
               rules : Nat, overlap : BOOLEAN]

Review == [pc : {"idle", "read", "apply", "mark"}, on : Nat, verdict : {"", "approved", "rejected"}]

MemoriesOK == memories \in Seq(Memory) /\ recorded \in Nat

SessionsOK == sessions \in [Sessions -> Session]

SuggestionsOK ==
    /\ suggestions \in Seq(Suggestion)
    /\ reviews \in [Users -> Review]
    /\ \A u \in Users : reviews[u].pc # "idle" => reviews[u].on \in DOMAIN suggestions
                                                  /\ reviews[u].verdict # ""

-----------------------------------------------------------------------------
(***************************************************************************)
(* Memories.                                                                *)
(***************************************************************************)
\* A memory is recorded, or the call fails or finds a duplicate.
OneMore(session, tier, category) ==
    \/ UNCHANGED <<memories, recorded>>
    \/ /\ \E m \in Memory : /\ m.session = session /\ m.tier = tier /\ m.category = category
                            /\ memories' = Append(memories, m)
       /\ recorded' \in Nat

LEMMA Successor == \A n \in Nat : n + 1 \in Nat
OBVIOUS

LEMMA Recorded ==
    ASSUME MemoriesOK, NEW content \in Contents, NEW session \in Sessions \cup {""},
           NEW tier \in {"working", "episodic"},
           NEW category \in {"error", "success", "decision", "observation"},
           RecordObservation(content, session, tier, category)
    PROVE  OneMore(session, tier, category)
<1> DEFINE m == [id |-> recorded + 1, content |-> content, session |-> session, tier |-> tier,
                 category |-> category]
<1>0. recorded \in Nat
    BY DEF MemoriesOK
<1>1. recorded + 1 \in Nat
    BY <1>0, Successor
<1>2. m \in Memory /\ m.session = session /\ m.tier = tier /\ m.category = category
    BY <1>1 DEF Memory
<1> HIDE DEF m
<1>3. UNCHANGED <<memories, recorded>> \/ (memories' = Append(memories, m) /\ recorded' = recorded + 1)
    BY DEF RecordObservation, m
<1> QED  BY <1>1, <1>2, <1>3 DEF OneMore

\* What the agent holds.
Held == {memories[i] : i \in DOMAIN memories}
Ids(list) == {list[i].id : i \in DOMAIN list}

LEMMA NoIds == Ids(<<>>) = {}
<1>1. DOMAIN <<>> = {}
    OBVIOUS
<1> QED  BY <1>1 DEF Ids

LEMMA OneMoreHeld ==
    ASSUME MemoriesOK, NEW session, NEW tier, NEW category, OneMore(session, tier, category)
    PROVE  /\ MemoriesOK'
           /\ \A m \in Held' : m \in Held \/ (m.session = session /\ m.tier = tier /\ m.category = category)
<1>1. CASE UNCHANGED <<memories, recorded>>
    BY <1>1 DEF MemoriesOK, Held
<1>2. CASE /\ \E m \in Memory : /\ m.session = session /\ m.tier = tier /\ m.category = category
                                /\ memories' = Append(memories, m)
           /\ recorded' \in Nat
  <2>1. PICK x \in Memory : /\ x.session = session /\ x.tier = tier /\ x.category = category
                            /\ memories' = Append(memories, x)
      BY <1>2
  <2>2. MemoriesOK'
      BY <1>2, <2>1, AppendProperties DEF MemoriesOK
  <2>3. \A i \in DOMAIN memories' : memories'[i] = x \/ (i \in DOMAIN memories /\ memories'[i] = memories[i])
      BY <2>1, AppendProperties DEF MemoriesOK
  <2> QED  BY <2>1, <2>2, <2>3 DEF Held
<1> QED  BY <1>1, <1>2 DEF OneMore

\* The memories at some positions are kept: no other appears.
LEMMA SublistHeld ==
    ASSUME MemoriesOK, NEW P \in SUBSET DOMAIN memories, memories' = Sublist(memories, P),
           recorded' = recorded
    PROVE  MemoriesOK' /\ Held' \subseteq Held
<1>1. memories \in Seq(Memory)
    BY DEF MemoriesOK
<1>2. /\ memories' \in Seq(Memory)
      /\ \A k \in DOMAIN memories' : \E i \in P : memories'[k] = memories[i]
    BY <1>1, SublistProperties
<1> QED  BY <1>1, <1>2 DEF MemoriesOK, Held

\* A memory that matters is still to be promoted by its session, has been, or is
\* among those whose promotion failed.
Kept(m) ==
    m.tier = "working" /\ m.category \in Important =>
        /\ m.session \in Sessions
        /\ sessions[m.session].pc = "cleanup" => m.id \in unpromoted \cup Ids(sessions[m.session].todo)
        /\ sessions[m.session].pc \in {"evaluate", "learn", "ended"} => m.id \in unpromoted

MemoriesKept == \A m \in Held : Kept(m)

MemoryInv ==
    /\ MemoriesOK
    /\ SessionsOK
    /\ MemoriesKept
    /\ forgotten = {}

\* A session that changes its program counter before its memories are listed, or
\* after they are promoted, takes nothing from them.
LEMMA PcKeeps ==
    ASSUME SessionsOK, NEW m, Kept(m), NEW s \in Sessions,
           unpromoted \subseteq unpromoted',
           \A r \in Sessions : r # s => sessions'[r] = sessions[r],
           \/ sessions'[s].pc \notin {"cleanup", "evaluate", "learn", "ended"}
           \/ /\ sessions[s].pc \in {"evaluate", "learn", "ended"}
              /\ sessions'[s].pc \in {"evaluate", "learn", "ended"}
           \/ sessions'[s].pc = sessions[s].pc /\ sessions'[s].todo = sessions[s].todo
    PROVE  Kept(m)'
BY DEF Kept

LEMMA StartKeepsMemories == ASSUME MemoryInv, NEW s \in Sessions, StartSession(s) PROVE MemoryInv'
<1> USE DEF StartSession
<1>1. MemoriesOK' /\ Held' = Held
    BY DEF MemoryInv, MemoriesOK, Held
<1>2. SessionsOK'
    BY DEF MemoryInv, SessionsOK, Session
<1>3. sessions'[s].pc = "running" /\ \A r \in Sessions : r # s => sessions'[r] = sessions[r]
    BY DEF MemoryInv, SessionsOK, Session
<1>4. \A m \in Held : Kept(m)'
    BY <1>3, PcKeeps DEF MemoryInv, MemoriesKept
<1> QED  BY <1>1, <1>2, <1>4 DEF MemoryInv, MemoriesKept

LEMMA StepKeepsMemories == ASSUME MemoryInv, NEW s \in Sessions, PostStepRecord(s) PROVE MemoryInv'
<1>1. PICK e \in Events :
         /\ RecordObservation(e, s, "working", StepCategory(e[1], e[2]))
         /\ sessions' = IF e[2] = "success"
                        THEN [sessions EXCEPT ![s].successes = (sessions[s].successes + 1) % NudgeInterval]
                        ELSE sessions
    BY DEF PostStepRecord
<1>2. sessions[s].pc = "running" /\ UNCHANGED <<unpromoted, forgotten>>
    BY DEF PostStepRecord
<1>3. e \in Contents /\ StepCategory(e[1], e[2]) \in {"error", "success", "decision", "observation"}
    BY DEF Contents, StepCategory
<1>4. OneMore(s, "working", StepCategory(e[1], e[2]))
    BY <1>1, <1>3, Recorded DEF MemoryInv
<1>5. /\ MemoriesOK'
      /\ \A m \in Held' : m \in Held \/ m.session = s
    BY <1>4, OneMoreHeld DEF MemoryInv
<1>6. SessionsOK'
  <2>1. sessions[s].successes \in Nat
      BY DEF MemoryInv, SessionsOK, Session
  <2>2. NudgeInterval \in Nat /\ NudgeInterval > 0
    <3>1. NudgeInterval \in Nat \ {0}
        BY KnowledgeAssumption DEF KnowledgeAssumption
    <3> QED  BY <3>1
  <2>3. (sessions[s].successes + 1) % NudgeInterval \in Nat
      BY <2>1, <2>2
  <2> QED  BY <1>1, <2>3 DEF MemoryInv, SessionsOK, Session
<1>7. /\ \A r \in Sessions : r # s => sessions'[r] = sessions[r]
      /\ sessions'[s].pc = "running"
    BY <1>1, <1>2 DEF MemoryInv, SessionsOK, Session
<1>8. \A m \in Held : Kept(m)'
    BY <1>2, <1>7, PcKeeps DEF MemoryInv, MemoriesKept
<1>9. \A m : m.session = s => Kept(m)'
    BY <1>7 DEF Kept
<1> QED  BY <1>2, <1>5, <1>6, <1>8, <1>9 DEF MemoryInv, MemoriesKept

LEMMA EndKeepsMemories == ASSUME MemoryInv, NEW s \in Sessions, SessionEnd(s) PROVE MemoryInv'
<1>1. PICK final \in {"done", "failed", "paused"} :
         /\ RecordObservation(<<"summary", final>>, s, "episodic",
                              IF final = "failed" THEN "error" ELSE "success")
         /\ sessions' = [sessions EXCEPT ![s].pc = "list", ![s].final = final]
    BY DEF SessionEnd
<1>2. UNCHANGED <<unpromoted, forgotten>>
    BY DEF SessionEnd
<1>3. <<"summary", final>> \in Contents
    BY DEF Contents, Finals
<1>4. OneMore(s, "episodic", IF final = "failed" THEN "error" ELSE "success")
    BY <1>1, <1>3, Recorded DEF MemoryInv
<1>5. /\ MemoriesOK'
      /\ \A m \in Held' : m \in Held \/ m.tier = "episodic"
    BY <1>4, OneMoreHeld DEF MemoryInv
<1>6. SessionsOK'
    BY <1>1, ZenonT(60) DEF MemoryInv, SessionsOK, Session, Finals
<1>7. /\ \A r \in Sessions : r # s => sessions'[r] = sessions[r]
      /\ sessions'[s].pc = "list"
    BY <1>1 DEF MemoryInv, SessionsOK, Session
<1>8. \A m \in Held : Kept(m)'
    BY <1>2, <1>7, PcKeeps DEF MemoryInv, MemoriesKept
<1>9. \A m : m.tier = "episodic" => Kept(m)'
    BY DEF Kept
<1> QED  BY <1>2, <1>5, <1>6, <1>8, <1>9 DEF MemoryInv, MemoriesKept

\* What a session has to promote is listed, or all of its memories are given up.
LEMMA ListKeepsMemories == ASSUME MemoryInv, NEW s \in Sessions, ListBySession(s) PROVE MemoryInv'
<1> DEFINE own == {i \in DOMAIN memories : memories[i].session = s}
           matters == {i \in own : memories[i].category \in Important}
           list == Sublist(memories, matters)
<1>1. /\ UNCHANGED <<memories, recorded, forgotten>>
      /\ \/ /\ sessions' = [sessions EXCEPT ![s].pc = "cleanup", ![s].todo = list]
            /\ UNCHANGED unpromoted
         \/ /\ sessions' = [sessions EXCEPT ![s].pc = "evaluate"]
            /\ unpromoted' = unpromoted \cup {memories[i].id : i \in own}
    BY DEF ListBySession
<1>2. MemoriesOK' /\ Held' = Held
    BY <1>1 DEF MemoryInv, MemoriesOK, Held
<1>3. memories \in Seq(Memory) /\ matters \in SUBSET DOMAIN memories
    BY DEF MemoryInv, MemoriesOK
<1>4. list \in Seq(Memory) /\ \A i \in matters : memories[i].id \in Ids(list)
  <2> HIDE DEF matters
  <2>1. list \in Seq(Memory) /\ \A i \in matters : \E k \in DOMAIN list : list[k] = memories[i]
      BY <1>3, SublistProperties
  <2> QED  BY <2>1 DEF Ids
<1>5. \A m \in Held : m.session = s => \E i \in own : m = memories[i]
    BY DEF Held
<1>6. \A m \in Held : m.session = s /\ m.category \in Important => m.id \in Ids(list)
  <2>1. \A m \in Held : m.session = s /\ m.category \in Important => \E i \in matters : m = memories[i]
      BY DEF Held
  <2> HIDE DEF matters, list
  <2> QED  BY <1>4, <2>1
<1> HIDE DEF list, matters
<1>7. CASE /\ sessions' = [sessions EXCEPT ![s].pc = "cleanup", ![s].todo = list]
           /\ UNCHANGED unpromoted
  <2>1. SessionsOK'
      BY <1>4, <1>7 DEF MemoryInv, SessionsOK, Session
  <2>2. /\ sessions'[s].pc = "cleanup" /\ sessions'[s].todo = list
        /\ \A r \in Sessions : r # s => sessions'[r] = sessions[r]
      BY <1>7 DEF MemoryInv, SessionsOK, Session
  <2>3. \A m \in Held : Kept(m)'
      BY <1>6, <1>7, <2>2 DEF MemoryInv, MemoriesKept, Kept
  <2> QED  BY <1>1, <1>2, <2>1, <2>3 DEF MemoryInv, MemoriesKept
<1>8. CASE /\ sessions' = [sessions EXCEPT ![s].pc = "evaluate"]
           /\ unpromoted' = unpromoted \cup {memories[i].id : i \in own}
  <2>1. SessionsOK'
      BY <1>8 DEF MemoryInv, SessionsOK, Session
  <2>2. /\ sessions'[s].pc = "evaluate"
        /\ \A r \in Sessions : r # s => sessions'[r] = sessions[r]
      BY <1>8 DEF MemoryInv, SessionsOK, Session
  <2>3. \A m \in Held : m.session = s => m.id \in unpromoted'
      BY <1>5, <1>8
  <2>4. unpromoted \subseteq unpromoted'
      BY <1>8
  <2>5. \A m \in Held : Kept(m)'
      BY <2>2, <2>3, <2>4 DEF MemoryInv, MemoriesKept, Kept
  <2> QED  BY <1>1, <1>2, <2>1, <2>5 DEF MemoryInv, MemoriesKept
<1> QED  BY <1>1, <1>7, <1>8

\* One memory of the list is promoted, or counted as given up.
LEMMA PromoteKeepsMemories == ASSUME MemoryInv, NEW s \in Sessions, PromoteToEpisodic(s) PROVE MemoryInv'
<1> DEFINE todo == sessions[s].todo
           id == Head(todo).id
<1>1. /\ sessions[s].pc = "cleanup" /\ todo # <<>>
      /\ sessions' = [sessions EXCEPT ![s].todo = Tail(todo)]
      /\ UNCHANGED <<recorded, forgotten>>
      /\ \/ /\ memories' = [i \in DOMAIN memories |->
                              IF memories[i].id = id /\ memories[i].tier = "working"
                              THEN [memories[i] EXCEPT !.tier = "episodic"] ELSE memories[i]]
            /\ UNCHANGED unpromoted
         \/ unpromoted' = unpromoted \cup {id} /\ UNCHANGED memories
    BY DEF PromoteToEpisodic
<1>2. todo \in Seq(Memory)
    BY DEF MemoryInv, SessionsOK, Session
<1> HIDE DEF todo
<1>3. Tail(todo) \in Seq(Memory) /\ Ids(todo) \subseteq {id} \cup Ids(Tail(todo))
  <2>1. Tail(todo) \in Seq(Memory) /\ Len(Tail(todo)) = Len(todo) - 1
        /\ \A j \in 1..Len(todo) : j = 1 \/ (j - 1 \in 1..Len(Tail(todo)) /\ Tail(todo)[j - 1] = todo[j])
      BY <1>1, <1>2, HeadTailProperties
  <2>2. \A j \in DOMAIN todo : todo[j].id = id \/ todo[j].id \in Ids(Tail(todo))
    <3> TAKE j \in DOMAIN todo
    <3>1. CASE j = 1
        BY <1>1, <1>2, <3>1
    <3>2. CASE j # 1
      <4>1. j - 1 \in DOMAIN Tail(todo) /\ Tail(todo)[j - 1] = todo[j]
          BY <1>2, <2>1, <3>2
      <4> QED  BY <4>1 DEF Ids
    <3> QED  BY <3>1, <3>2
  <2> QED  BY <2>1, <2>2 DEF Ids
<1>4. SessionsOK'
    BY <1>1, <1>3 DEF MemoryInv, SessionsOK, Session
<1>5. /\ sessions'[s].pc = "cleanup" /\ sessions'[s].todo = Tail(todo)
      /\ \A r \in Sessions : r # s => sessions'[r] = sessions[r]
    BY <1>1 DEF MemoryInv, SessionsOK, Session
<1> HIDE DEF id
<1>6. \A m : Kept(m) /\ m.id # id /\ unpromoted \subseteq unpromoted' => Kept(m)'
    BY <1>1, <1>3, <1>5 DEF Kept, todo
<1>7. CASE /\ memories' = [i \in DOMAIN memories |->
                             IF memories[i].id = id /\ memories[i].tier = "working"
                             THEN [memories[i] EXCEPT !.tier = "episodic"] ELSE memories[i]]
           /\ UNCHANGED unpromoted
  <2>1. memories \in Seq(Memory)
      BY DEF MemoryInv, MemoriesOK
  <2>2. \A i \in DOMAIN memories : memories[i] \in Memory
      BY <2>1
  <2>3. \A i \in DOMAIN memories :
          /\ memories'[i] \in Memory
          /\ \/ memories'[i].tier = "episodic"
             \/ memories'[i] = memories[i] /\ memories[i].id # id
      BY <1>7, <2>2 DEF Memory
  <2>4. MemoriesOK'
    <3>1. memories' \in [1..Len(memories) -> Memory]
        BY <1>7, <2>1, <2>3
    <3>2. Len(memories) \in Nat
        BY <2>1
    <3>3. memories' \in Seq(Memory)
        BY <3>1, <3>2
    <3> QED  BY <1>1, <3>3 DEF MemoryInv, MemoriesOK
  <2>5. \A m \in Held' : m.tier = "episodic" \/ (m \in Held /\ m.id # id)
      BY <1>7, <2>3 DEF Held
  <2>6. \A m \in Held' : Kept(m)'
    <3> TAKE m \in Held'
    <3>1. CASE m.tier = "episodic"
        BY <3>1 DEF Kept
    <3>2. CASE m \in Held /\ m.id # id
        BY <1>6, <1>7, <3>2 DEF MemoryInv, MemoriesKept
    <3> QED  BY <2>5, <3>1, <3>2
  <2> QED  BY <1>1, <1>4, <2>4, <2>6 DEF MemoryInv, MemoriesKept
<1>8. CASE unpromoted' = unpromoted \cup {id} /\ UNCHANGED memories
  <2>1. MemoriesOK' /\ Held' = Held
      BY <1>1, <1>8 DEF MemoryInv, MemoriesOK, Held
  <2>2. \A m \in Held : Kept(m)'
    <3> TAKE m \in Held
    <3>1. CASE m.id = id
        BY <1>5, <1>8, <3>1 DEF MemoryInv, MemoriesKept, Kept
    <3>2. CASE m.id # id
        BY <1>6, <1>8, <3>2 DEF MemoryInv, MemoriesKept
    <3> QED  BY <3>1, <3>2
  <2> QED  BY <1>1, <1>4, <2>1, <2>2 DEF MemoryInv, MemoriesKept
<1> QED  BY <1>1, <1>7, <1>8

\* A prune takes working memories only; of those that matter it takes only what a
\* session has not listed yet, or what could not be promoted.
LEMMA CleanupKeepsMemories == ASSUME MemoryInv, NEW s \in Sessions, CleanupSession(s) PROVE MemoryInv'
<1>1. /\ sessions[s].pc = "cleanup" /\ sessions[s].todo = <<>>
      /\ sessions' = [sessions EXCEPT ![s].pc = "evaluate"]
      /\ UNCHANGED <<recorded, unpromoted>>
    BY DEF CleanupSession
<1>2. SessionsOK'
    BY <1>1 DEF MemoryInv, SessionsOK, Session
<1>3. /\ sessions'[s].pc = "evaluate"
      /\ \A r \in Sessions : r # s => sessions'[r] = sessions[r]
    BY <1>1 DEF MemoryInv, SessionsOK, Session
<1>4. Ids(sessions[s].todo) = {}
    BY <1>1 DEF Ids
<1>5. \A m \in Held : Kept(m)'
    BY <1>1, <1>3, <1>4 DEF MemoryInv, MemoriesKept, Kept
<1>6. MemoriesOK' /\ Held' \subseteq Held
  <2>1. CASE memories' = Sublist(memories, DOMAIN memories \ OldestWorking)
      BY <1>1, <2>1, SublistHeld DEF MemoryInv
  <2>2. CASE UNCHANGED memories
      BY <1>1, <2>2 DEF MemoryInv, MemoriesOK, Held
  <2> QED  BY <2>1, <2>2 DEF CleanupSession
<1>7. forgotten' = {}
  <2>1. \A j \in OldestWorking :
          ~ /\ memories[j].category \in Important
            /\ memories[j].session = "" \/ HasKept(memories[j].session)
            /\ memories[j].id \notin unpromoted
    <3> SUFFICES ASSUME NEW j \in OldestWorking, memories[j].category \in Important,
                        memories[j].session = "" \/ HasKept(memories[j].session)
                 PROVE  memories[j].id \in unpromoted
        OBVIOUS
    <3> DEFINE m == memories[j]
    <3>1. m \in Held /\ m.tier = "working"
        BY DEF OldestWorking, Held
    <3>2. Kept(m)
        BY <3>1 DEF MemoryInv, MemoriesKept
    <3> HIDE DEF m
    <3>3. m.session \in Sessions /\ m.session # ""
        BY <3>1, <3>2, KnowledgeAssumption DEF Kept, KnowledgeAssumption, m
    <3>4. HasKept(m.session)
        BY <3>3 DEF m
    <3>5. /\ sessions[m.session].todo = <<>>
          /\ sessions[m.session].pc \in {"cleanup", "evaluate", "learn", "ended"}
        BY <3>4 DEF HasKept
    <3>7. Ids(sessions[m.session].todo) = {}
        BY <3>5, NoIds
    <3>8. m.category \in Important
        BY DEF m
    <3>6. m.id \in unpromoted
        BY <3>1, <3>2, <3>5, <3>7, <3>8 DEF Kept
    <3> QED  BY <3>6 DEF m
  <2>2. forgotten = {}
      BY DEF MemoryInv
  <2>3. \/ forgotten' = forgotten
        \/ forgotten' = forgotten \cup
             {memories[i].id : i \in {j \in OldestWorking :
                   /\ memories[j].category \in Important
                   /\ memories[j].session = "" \/ HasKept(memories[j].session)
                   /\ memories[j].id \notin unpromoted}}
      BY DEF CleanupSession
  <2> QED  BY <2>1, <2>2, <2>3
<1> QED  BY <1>2, <1>5, <1>6, <1>7 DEF MemoryInv, MemoriesKept

LEMMA CrashKeepsMemories == ASSUME MemoryInv, NEW s \in Sessions, Crash(s) PROVE MemoryInv'
<1>1. /\ sessions[s].pc \notin {"idle", "ended", "dead"}
      /\ sessions' = [sessions EXCEPT
                        ![s].pc = IF sessions[s].pc \in {"running", "list", "cleanup"} THEN "dead" ELSE "ended",
                        ![s].todo = <<>>]
      /\ UNCHANGED <<memories, recorded, unpromoted, forgotten>>
    BY DEF Crash
<1>2. MemoriesOK' /\ Held' = Held
    BY <1>1 DEF MemoryInv, MemoriesOK, Held
<1>3. <<>> \in Seq(Memory)
    OBVIOUS
<1>4. SessionsOK'
  <2> DEFINE pc == IF sessions[s].pc \in {"running", "list", "cleanup"} THEN "dead" ELSE "ended"
  <2>1. sessions \in [Sessions -> Session] /\ sessions[s] \in Session
      BY DEF MemoryInv, SessionsOK
  <2>2. pc \in {"dead", "ended"}
      OBVIOUS
  <2>3. sessions' = [sessions EXCEPT ![s].pc = pc, ![s].todo = <<>>]
      BY <1>1
  <2> HIDE DEF pc
  <2>4. [sessions[s] EXCEPT !.pc = pc, !.todo = <<>>] \in Session
      BY <1>3, <2>1, <2>2 DEF Session
  <2>5. sessions' = [sessions EXCEPT ![s] = [sessions[s] EXCEPT !.pc = pc, !.todo = <<>>]]
      BY <2>1, <2>3
  <2> QED  BY <2>1, <2>4, <2>5 DEF SessionsOK
<1>5. /\ \A r \in Sessions : r # s => sessions'[r] = sessions[r]
      /\ sessions'[s].pc = IF sessions[s].pc \in {"running", "list", "cleanup"} THEN "dead" ELSE "ended"
      /\ sessions[s].pc \in {"idle", "running", "list", "cleanup", "evaluate", "learn", "ended", "dead"}
    BY <1>1 DEF MemoryInv, SessionsOK, Session
<1>6. \A m \in Held : Kept(m)'
  <2> TAKE m \in Held
  <2>1. SessionsOK /\ Kept(m) /\ unpromoted \subseteq unpromoted'
      BY <1>1 DEF MemoryInv, MemoriesKept
  <2>2. CASE sessions[s].pc \in {"running", "list", "cleanup"}
    <3>1. sessions'[s].pc \notin {"cleanup", "evaluate", "learn", "ended"}
        BY <1>5, <2>2
    <3> QED  BY <1>5, <2>1, <3>1, PcKeeps
  <2>3. CASE sessions[s].pc \notin {"running", "list", "cleanup"}
    <3>1. sessions'[s].pc = "ended" /\ sessions[s].pc \in {"evaluate", "learn"}
        BY <1>1, <1>5, <2>3
    <3> QED  BY <1>5, <2>1, <3>1, PcKeeps
  <2> QED  BY <2>2, <2>3
<1> QED  BY <1>1, <1>2, <1>4, <1>6 DEF MemoryInv, MemoriesKept

LEMMA DeleteKeepsMemories == ASSUME MemoryInv, DeleteMemory PROVE MemoryInv'
<1>1. PICK i \in DOMAIN memories : memories' = Sublist(memories, DOMAIN memories \ {i})
    BY DEF DeleteMemory
<1>2. UNCHANGED <<recorded, sessions, unpromoted, forgotten>>
    BY DEF DeleteMemory
<1>3. MemoriesOK' /\ Held' \subseteq Held
    BY <1>1, <1>2, SublistHeld DEF MemoryInv
<1> QED  BY <1>2, <1>3 DEF MemoryInv, MemoriesKept, Kept, SessionsOK

\* The evaluation belongs to no session and is episodic from the start.
LEMMA EvaluateKeepsMemories == ASSUME MemoryInv, NEW s \in Sessions, EvaluateOutcome(s) PROVE MemoryInv'
<1>1. /\ sessions[s].pc = "evaluate"
      /\ UNCHANGED <<unpromoted, forgotten>>
    BY DEF EvaluateOutcome
<1>2. PICK final \in Finals : final = sessions[s].final
    BY DEF MemoryInv, SessionsOK, Session
<1>3. CASE final = "paused"
  <2>1. /\ sessions' = [sessions EXCEPT ![s].pc = "ended"]
        /\ UNCHANGED <<memories, recorded>>
      BY <1>2, <1>3 DEF EvaluateOutcome
  <2>2. MemoriesOK' /\ Held' = Held
      BY <2>1 DEF MemoryInv, MemoriesOK, Held
  <2>3. SessionsOK'
      BY <2>1 DEF MemoryInv, SessionsOK, Session
  <2>4. /\ \A r \in Sessions : r # s => sessions'[r] = sessions[r]
        /\ sessions'[s].pc = "ended"
      BY <2>1 DEF MemoryInv, SessionsOK, Session
  <2>5. \A m \in Held : Kept(m)'
      BY <1>1, <2>4, PcKeeps DEF MemoryInv, MemoriesKept
  <2> QED  BY <1>1, <2>2, <2>3, <2>5 DEF MemoryInv, MemoriesKept
<1>4. CASE final # "paused"
  <2>1. /\ sessions' = [sessions EXCEPT ![s].pc = "learn"]
        /\ \/ UNCHANGED <<memories, recorded>>
           \/ /\ memories' = Append(memories,
                    [id |-> recorded + 1, content |-> <<"evaluation", final>>, session |-> "",
                     tier |-> "episodic", category |-> OutcomeCategory(final)])
              /\ recorded' = recorded + 1
      BY <1>2, <1>4 DEF EvaluateOutcome, RecordObservation
  <2>2. OneMore("", "episodic", OutcomeCategory(final))
    <3> DEFINE m == [id |-> recorded + 1, content |-> <<"evaluation", final>>, session |-> "",
                     tier |-> "episodic", category |-> OutcomeCategory(final)]
    <3>1. recorded \in Nat
        BY DEF MemoryInv, MemoriesOK
    <3>2. recorded + 1 \in Nat
        BY <3>1, Successor
    <3>3. m \in Memory /\ m.session = "" /\ m.tier = "episodic" /\ m.category = OutcomeCategory(final)
        BY <3>2 DEF Memory, Contents, OutcomeCategory
    <3> HIDE DEF m
    <3>4. UNCHANGED <<memories, recorded>> \/ (memories' = Append(memories, m) /\ recorded' = recorded + 1)
        BY <2>1 DEF m
    <3> QED  BY <3>2, <3>3, <3>4 DEF OneMore
  <2>3. /\ MemoriesOK'
        /\ \A m \in Held' : m \in Held \/ m.tier = "episodic"
      BY <2>2, OneMoreHeld DEF MemoryInv
  <2>4. SessionsOK'
      BY <2>1 DEF MemoryInv, SessionsOK, Session
  <2>5. /\ \A r \in Sessions : r # s => sessions'[r] = sessions[r]
        /\ sessions'[s].pc = "learn"
      BY <2>1 DEF MemoryInv, SessionsOK, Session
  <2>6. \A m \in Held : Kept(m)'
      BY <1>1, <2>5, PcKeeps DEF MemoryInv, MemoriesKept
  <2>7. \A m : m.tier = "episodic" => Kept(m)'
      BY DEF Kept
  <2> QED  BY <1>1, <2>3, <2>4, <2>6, <2>7 DEF MemoryInv, MemoriesKept
<1> QED  BY <1>3, <1>4

LEMMA LearnKeepsMemories == ASSUME MemoryInv, NEW s \in Sessions, Learn(s) PROVE MemoryInv'
<1>1. /\ sessions[s].pc = "learn" /\ sessions' = [sessions EXCEPT ![s].pc = "ended"]
      /\ UNCHANGED <<memories, recorded, unpromoted, forgotten>>
    BY DEF Learn
<1>2. MemoriesOK' /\ Held' = Held
    BY <1>1 DEF MemoryInv, MemoriesOK, Held
<1>3. SessionsOK'
    BY <1>1 DEF MemoryInv, SessionsOK, Session
<1>4. /\ \A r \in Sessions : r # s => sessions'[r] = sessions[r]
      /\ sessions'[s].pc = "ended"
    BY <1>1 DEF MemoryInv, SessionsOK, Session
<1>5. \A m \in Held : Kept(m)'
    BY <1>1, <1>4, PcKeeps DEF MemoryInv, MemoriesKept
<1> QED  BY <1>1, <1>2, <1>3, <1>5 DEF MemoryInv, MemoriesKept

\* Scans and reviews only read memories.
LEMMA OthersKeepMemories ==
    ASSUME MemoryInv, UNCHANGED <<memories, recorded, sessions, unpromoted, forgotten>>
    PROVE  MemoryInv'
BY DEF MemoryInv, MemoriesOK, SessionsOK, MemoriesKept, Kept, Held

LEMMA InitMemories == KnowInit => MemoryInv
<1> SUFFICES ASSUME KnowInit PROVE MemoryInv
    OBVIOUS
<1>0. <<>> \in Seq(Memory)
    OBVIOUS
<1>3. memories = <<>> /\ recorded = 0
    BY DEF KnowInit
<1>4. 0 \in Nat
    OBVIOUS
<1>1. MemoriesOK /\ Held = {}
    BY <1>0, <1>3, <1>4 DEF MemoriesOK, Held
<1>2. SessionsOK
    BY <1>0 DEF KnowInit, SessionsOK, Session, Finals
<1> QED  BY <1>1, <1>2 DEF KnowInit, MemoryInv, MemoriesKept

LEMMA NextMemories == MemoryInv /\ [KnowNext]_knowVars => MemoryInv'
<1> SUFFICES ASSUME MemoryInv, [KnowNext]_knowVars PROVE MemoryInv'
    OBVIOUS
<1>1. CASE \E s \in Sessions : StartSession(s) \/ PostStepRecord(s) \/ SessionEnd(s)
    BY <1>1, StartKeepsMemories, StepKeepsMemories, EndKeepsMemories
<1>2. CASE \E s \in Sessions : ListBySession(s) \/ PromoteToEpisodic(s) \/ CleanupSession(s)
    BY <1>2, ListKeepsMemories, PromoteKeepsMemories, CleanupKeepsMemories
<1>3. CASE \E s \in Sessions : Crash(s) \/ EvaluateOutcome(s) \/ Learn(s)
    BY <1>3, CrashKeepsMemories, EvaluateKeepsMemories, LearnKeepsMemories
<1>4. CASE DeleteMemory
    BY <1>4, DeleteKeepsMemories
<1>5. CASE Nudge \/ ReviewsNext \/ UNCHANGED knowVars
  <2>1. UNCHANGED <<memories, recorded, sessions, unpromoted, forgotten>>
      BY <1>5 DEF Nudge, ReviewsNext, ReviewRead, UpdateSuggestion, ApplySuggestion, MarkApplied, knowVars
  <2> QED  BY <2>1, OthersKeepMemories
<1> QED  BY <1>1, <1>2, <1>3, <1>4, <1>5 DEF KnowNext, SessionsNext

\* However sessions overlap, crash and fail, no prune deletes a failure, a success or a
\* decision that its session has kept (CleanupSession, PruneWorkingMemory).
THEOREM MemoriesSurvive == KnowSpec => []ErrorsRemembered
<1>1. MemoryInv => ErrorsRemembered
    BY DEF MemoryInv, ErrorsRemembered
<1> QED  BY <1>1, InitMemories, NextMemories, PTL DEF KnowSpec
-----------------------------------------------------------------------------
(***************************************************************************)
(* Suggestions.                                                             *)
(***************************************************************************)
\* What is on record of one suggestion.
Honoured(s) ==
    /\ s.status = "applied" => s.rules > 0
    /\ ~s.overlap => s.rules <= 1 /\ (s.status \in {"pending", "rejected"} => s.rules = 0)

\* How far a review has come with its suggestion.
InStep(r, s) ==
    /\ r.pc = "mark" => s.rules > 0
    /\ ~s.overlap => /\ r.pc = "read" => s.status = "pending"
                     /\ r.pc = "apply" => s.status = "approved" /\ s.rules = 0
                     /\ r.pc = "mark" => s.status = "approved"

\* A suggestion without overlapping reviews has one reviewer at a time.
OneReviewer ==
    \A u, v \in Users :
        /\ reviews[u].pc # "idle" /\ reviews[v].pc # "idle" /\ reviews[u].on = reviews[v].on
        /\ ~suggestions[reviews[u].on].overlap
        => u = v

SuggestionInv ==
    /\ SuggestionsOK
    /\ \A i \in DOMAIN suggestions : Honoured(suggestions[i])
    /\ \A u \in Users : reviews[u].pc # "idle" => InStep(reviews[u], suggestions[reviews[u].on])
    /\ OneReviewer

\* Steps that add suggestions, if any, and touch no review.
OnlyMore ==
    /\ suggestions' \in Seq(Suggestion) /\ reviews' = reviews
    /\ \A i \in DOMAIN suggestions : i \in DOMAIN suggestions' /\ suggestions'[i] = suggestions[i]
    /\ \A i \in DOMAIN suggestions' \ DOMAIN suggestions : Honoured(suggestions'[i])

LEMMA OnlyMoreHonours == ASSUME SuggestionInv, OnlyMore PROVE SuggestionInv'
<1>1. SuggestionsOK'
    BY DEF SuggestionInv, SuggestionsOK, OnlyMore
<1>2. \A i \in DOMAIN suggestions' : Honoured(suggestions'[i])
    BY DEF SuggestionInv, OnlyMore
<1>3. \A u \in Users : reviews[u].pc # "idle" =>
                         suggestions'[reviews[u].on] = suggestions[reviews[u].on]
    BY DEF SuggestionInv, SuggestionsOK, OnlyMore
<1>4. reviews' = reviews
    BY DEF OnlyMore
<1>5. \A u \in Users : reviews'[u].pc # "idle" => InStep(reviews'[u], suggestions'[reviews'[u].on])
    BY <1>3, <1>4 DEF SuggestionInv
<1>6. OneReviewer'
    BY <1>3, <1>4 DEF SuggestionInv, OneReviewer
<1> QED  BY <1>1, <1>2, <1>5, <1>6 DEF SuggestionInv, Honoured, InStep

LEMMA FirstOfTypes ==
    ASSUME NEW types \in Seq(SuggestionTypes), NEW k \in Int
    PROVE  /\ [i \in 1..(IF Len(types) > k THEN k ELSE Len(types)) |-> New(types[i])] \in Seq(Suggestion)
           /\ \A i \in 1..(IF Len(types) > k THEN k ELSE Len(types)) : Honoured(New(types[i]))
<1> DEFINE n == IF Len(types) > k THEN k ELSE Len(types)
<1>1. Len(types) \in Nat /\ \A i \in 1..Len(types) : types[i] \in SuggestionTypes
    OBVIOUS
<1>2. n \in Int /\ n <= Len(types)
    BY <1>1
<1>3. \A i \in 1..n : types[i] \in SuggestionTypes
    BY <1>1, <1>2
<1>4. 0 \in Nat
    OBVIOUS
<1>5. \A t \in SuggestionTypes : New(t) \in Suggestion /\ Honoured(New(t))
    BY <1>4 DEF New, Suggestion, Honoured
<1> DEFINE new == [i \in 1..n |-> New(types[i])]
<1> HIDE DEF n
<1>6. new \in [1..n -> Suggestion]
    BY <1>3, <1>5
<1>7. new \in Seq(Suggestion)
  <2>1. \E l \in Nat : 1..n = 1..l
    <3>1. CASE n \in Nat
        BY <3>1
    <3>2. CASE n < 0
        BY <1>2, <1>4, <3>2
    <3> QED  BY <1>2, <3>1, <3>2
  <2>2. PICK l \in Nat : 1..n = 1..l
      BY <2>1
  <2>3. new \in [1..l -> Suggestion]
      BY <1>6, <2>2
  <2> HIDE DEF new
  <2> QED  BY <2>3
<1> QED  BY <1>3, <1>5, <1>7 DEF n

LEMMA CreatedSuggestions ==
    ASSUME suggestions \in Seq(Suggestion), NEW types \in Seq(SuggestionTypes),
           CreateSuggestions(types), reviews' = reviews
    PROVE  OnlyMore
<1> DEFINE room == MaxSuggestions - Len(suggestions)
           Made(t) == suggestions \o [i \in 1..(IF Len(t) > room THEN room ELSE Len(t)) |-> New(t[i])]
<1>1. MaxSuggestions \in Nat
    BY KnowledgeAssumption DEF KnowledgeAssumption
<1>6. Len(suggestions) \in Nat
    OBVIOUS
<1>2. room \in Int
    BY <1>1, <1>6
<1> HIDE DEF room
<1>3. ASSUME NEW t \in Seq(SuggestionTypes), suggestions' = Made(t) PROVE OnlyMore
  <2> DEFINE new == [i \in 1..(IF Len(t) > room THEN room ELSE Len(t)) |-> New(t[i])]
  <2>1. new \in Seq(Suggestion) /\ \A i \in DOMAIN new : new[i] \in Suggestion /\ Honoured(new[i])
    <3>1. new \in Seq(Suggestion)
        BY <1>2, FirstOfTypes
    <3>2. \A i \in DOMAIN new : Honoured(new[i])
        BY <1>2, FirstOfTypes
    <3> HIDE DEF new
    <3> QED  BY <3>1, <3>2
  <2>2. suggestions' = suggestions \o new
      BY <1>3
  <2> HIDE DEF new
  <2>3. /\ suggestions' \in Seq(Suggestion)
        /\ Len(suggestions') = Len(suggestions) + Len(new)
        /\ \A i \in 1..(Len(suggestions) + Len(new)) :
              suggestions'[i] = IF i <= Len(suggestions) THEN suggestions[i] ELSE new[i - Len(suggestions)]
      BY <2>1, <2>2, ConcatProperties
  <2>4. \A i \in DOMAIN suggestions : i \in DOMAIN suggestions' /\ suggestions'[i] = suggestions[i]
      BY <2>1, <2>3
  <2>5. \A i \in DOMAIN suggestions' \ DOMAIN suggestions : Honoured(suggestions'[i])
    <3> TAKE i \in DOMAIN suggestions' \ DOMAIN suggestions
    <3>1. i - Len(suggestions) \in DOMAIN new /\ suggestions'[i] = new[i - Len(suggestions)]
        BY <2>1, <2>3
    <3> QED  BY <2>1, <3>1
  <2> QED  BY <2>3, <2>4, <2>5 DEF OnlyMore
<1>4. \A i \in DOMAIN types : Sublist(types, DOMAIN types \ {i}) \in Seq(SuggestionTypes)
    BY SublistProperties
<1>5. suggestions' = Made(types) \/ \E i \in DOMAIN types : suggestions' = Made(Sublist(types, DOMAIN types \ {i}))
    BY DEF CreateSuggestions, room
<1> HIDE DEF Made
<1> QED  BY <1>3, <1>4, <1>5

\* Only finitely many things repeat in what a scan reads.
LEMMA PatternTypes == ASSUME MemoriesOK PROVE DetectPatterns \in Seq(SuggestionTypes)
<1> DEFINE working == Sublist(memories, {i \in DOMAIN memories : memories[i].tier = "working"})
           scanned == {i \in DOMAIN working : i > Len(working) - PatternWindow}
           Of(c)   == {i \in scanned : working[i].content = c}
           seen    == {working[i].content : i \in scanned}
           found   == {c \in seen : Cardinality(Of(c)) >= PatternThreshold}
<1>1. working \in Seq(Memory)
    BY SublistProperties DEF MemoriesOK
<1> HIDE DEF working
<1>2. IsFiniteSet(scanned)
  <2>1. IsFiniteSet(1..Len(working))
      BY <1>1, FS_Interval
  <2> QED  BY <1>1, <2>1, FS_Subset
<1> HIDE DEF scanned
<1>3. IsFiniteSet(seen)
  <2> DEFINE f == [i \in scanned |-> working[i].content]
  <2>1. f \in Surjection(scanned, seen)
      BY DEF Surjection
  <2> HIDE DEF f, seen
  <2> QED  BY <1>2, <2>1, FS_Surjection
<1>4. Cardinality(found) \in Nat
  <2>1. found \in SUBSET seen
      OBVIOUS
  <2> HIDE DEF found
  <2> QED  BY <1>3, <2>1, FS_Subset, FS_CardinalityType
<1>5. DetectPatterns = [i \in 1..Cardinality(found) |-> "pattern"]
    BY DEF DetectPatterns, scanned, working
<1> DEFINE n == Cardinality(found)
<1> HIDE DEF n, found
<1>6. [i \in 1..n |-> "pattern"] \in [1..n -> SuggestionTypes]
    BY DEF SuggestionTypes
<1>7. [i \in 1..n |-> "pattern"] \in Seq(SuggestionTypes)
    BY <1>4, <1>6 DEF n
<1> QED  BY <1>5, <1>7 DEF n

LEMMA LearningOnlyAdds ==
    ASSUME MemoriesOK, SuggestionInv, Nudge \/ \E s \in Sessions : Learn(s)
    PROVE  OnlyMore
<1>1. suggestions \in Seq(Suggestion)
    BY DEF SuggestionInv, SuggestionsOK
<1>2. DetectPatterns \in Seq(SuggestionTypes)
    BY PatternTypes
<1>3. CASE Nudge
    BY <1>1, <1>2, <1>3, CreatedSuggestions DEF Nudge
<1>4. CASE \E s \in Sessions : Learn(s)
  <2>1. PICK s \in Sessions : Learn(s)
      BY <1>4
  <2>2. reviews' = reviews
      BY <2>1 DEF Learn
  <2>3. \/ \E rule \in SuggestRuleFromErrors : CreateSuggestions(DetectPatterns \o rule)
        \/ CreateSuggestions(SuggestPromptPatch(s))
      BY <2>1 DEF Learn
  <2>4. \A rule \in SuggestRuleFromErrors : DetectPatterns \o rule \in Seq(SuggestionTypes)
    <3>1. <<>> \in Seq(SuggestionTypes) /\ <<"rule">> \in Seq(SuggestionTypes)
        BY DEF SuggestionTypes
    <3>2. SuggestRuleFromErrors \subseteq {<<>>, <<"rule">>}
        BY DEF SuggestRuleFromErrors
    <3>3. \A rule \in SuggestRuleFromErrors : rule \in Seq(SuggestionTypes)
        BY <3>1, <3>2
    <3> QED  BY <1>2, <3>3, ConcatProperties
  <2>5. SuggestPromptPatch(s) \in Seq(SuggestionTypes)
    <3>1. <<>> \in Seq(SuggestionTypes) /\ <<"prompt_patch">> \in Seq(SuggestionTypes)
        BY DEF SuggestionTypes
    <3>2. SuggestPromptPatch(s) \in {<<>>, <<"prompt_patch">>}
        BY DEF SuggestPromptPatch
    <3> QED  BY <3>1, <3>2
  <2> QED  BY <1>1, <2>2, <2>3, <2>4, <2>5, CreatedSuggestions
<1> QED  BY <1>3, <1>4

\* One suggestion changes: the list keeps its type, and the others stay.
LEMMA OneChanges ==
    ASSUME SuggestionInv, NEW i \in DOMAIN suggestions, NEW e \in Suggestion,
           suggestions' = [suggestions EXCEPT ![i] = e]
    PROVE  /\ suggestions' \in Seq(Suggestion) /\ DOMAIN suggestions' = DOMAIN suggestions
           /\ suggestions'[i] = e
           /\ \A j \in DOMAIN suggestions : j # i => suggestions'[j] = suggestions[j]
<1>1. suggestions \in Seq(Suggestion)
    BY DEF SuggestionInv, SuggestionsOK
<1> QED  BY <1>1

\* A user's review changes, and with it the suggestion it is about.
LEMMA OneReviewMoves ==
    ASSUME SuggestionInv, NEW u \in Users, NEW i \in DOMAIN suggestions, NEW e \in Suggestion,
           NEW r \in Review,
           suggestions' = [suggestions EXCEPT ![i] = e],
           reviews' = [reviews EXCEPT ![u] = r],
           Honoured(e),
           r.pc # "idle" => r.on = i /\ r.verdict # "" /\ InStep(r, e),
           \* the other reviews of the suggestion overlap with this one
           \A v \in Users : v # u /\ reviews[v].pc # "idle" /\ reviews[v].on = i =>
               e.overlap /\ (reviews[v].pc = "mark" => e.rules > 0)
    PROVE  SuggestionInv'
<1>1. /\ suggestions' \in Seq(Suggestion) /\ DOMAIN suggestions' = DOMAIN suggestions
      /\ suggestions'[i] = e
      /\ \A j \in DOMAIN suggestions : j # i => suggestions'[j] = suggestions[j]
    BY OneChanges
<1>2. /\ reviews' \in [Users -> Review] /\ reviews'[u] = r
      /\ \A v \in Users : v # u => reviews'[v] = reviews[v]
    BY DEF SuggestionInv, SuggestionsOK
<1>3. \A v \in Users : reviews[v].pc # "idle" => reviews[v].on \in DOMAIN suggestions /\ reviews[v].verdict # ""
    BY DEF SuggestionInv, SuggestionsOK
<1>4. SuggestionsOK'
    BY <1>1, <1>2, <1>3, ZenonT(60) DEF SuggestionsOK
<1>5. \A j \in DOMAIN suggestions' : Honoured(suggestions'[j])
    BY <1>1 DEF SuggestionInv
<1>6. \A v \in Users : reviews'[v].pc # "idle" => InStep(reviews'[v], suggestions'[reviews'[v].on])
  <2> SUFFICES ASSUME NEW v \in Users, reviews'[v].pc # "idle"
               PROVE  InStep(reviews'[v], suggestions'[reviews'[v].on])
      OBVIOUS
  <2>1. CASE v = u
      BY <1>1, <1>2, <2>1
  <2>2. CASE v # u /\ reviews[v].on = i
      BY <1>1, <1>2, <2>2 DEF InStep
  <2>3. CASE v # u /\ reviews[v].on # i
      BY <1>1, <1>2, <1>3, <2>3 DEF SuggestionInv
  <2> QED  BY <2>1, <2>2, <2>3
<1>7. OneReviewer'
  <2> SUFFICES ASSUME NEW v \in Users, NEW w \in Users, v # w,
                      reviews'[v].pc # "idle", reviews'[w].pc # "idle",
                      reviews'[v].on = reviews'[w].on
               PROVE  suggestions'[reviews'[v].on].overlap
      BY DEF OneReviewer
  <2>1. CASE reviews'[v].on = i
    <3>1. PICK x \in {v, w} : x # u
        OBVIOUS
    <3>2. reviews[x].pc # "idle" /\ reviews[x].on = i
        BY <1>2, <2>1, <3>1
    <3> QED  BY <1>1, <2>1, <3>1, <3>2
  <2>2. CASE reviews'[v].on # i
    <3>1. v # u /\ w # u
        BY <1>2, <2>2
    <3>2. suggestions[reviews[v].on].overlap
        BY <1>2, <3>1 DEF SuggestionInv, OneReviewer
    <3> QED  BY <1>1, <1>2, <1>3, <2>2, <3>1, <3>2
  <2> QED  BY <2>1, <2>2
<1> QED  BY <1>4, <1>5, <1>6, <1>7 DEF SuggestionInv, Honoured, InStep

LEMMA SuggestionsTyped ==
    ASSUME SuggestionInv
    PROVE  suggestions \in Seq(Suggestion) /\ \A i \in DOMAIN suggestions : suggestions[i] \in Suggestion
<1>1. suggestions \in Seq(Suggestion)
    BY DEF SuggestionInv, SuggestionsOK
<1> QED  BY <1>1

LEMMA Idle ==
    /\ IdleReview \in Review /\ IdleReview.pc = "idle"
<1>1. 0 \in Nat
    OBVIOUS
<1> QED  BY <1>1 DEF IdleReview, Review

\* What is known of the review of a user that is not idle and of its suggestion.
LEMMA InReview ==
    ASSUME SuggestionInv, NEW u \in Users, reviews[u].pc # "idle"
    PROVE  /\ reviews[u].on \in DOMAIN suggestions /\ reviews[u] \in Review
           /\ reviews[u].verdict \in {"approved", "rejected"}
           /\ suggestions[reviews[u].on] \in Suggestion
           /\ Honoured(suggestions[reviews[u].on])
           /\ InStep(reviews[u], suggestions[reviews[u].on])
           /\ \A v \in Users : v # u /\ reviews[v].pc # "idle" /\ reviews[v].on = reviews[u].on =>
                /\ suggestions[reviews[u].on].overlap
                /\ reviews[v].pc = "mark" => suggestions[reviews[u].on].rules > 0
<1>0. SuggestionsOK
    BY DEF SuggestionInv
<1>6. reviews[u] \in Review
    BY <1>0 DEF SuggestionsOK
<1>7. reviews[u].on \in DOMAIN suggestions /\ reviews[u].verdict # ""
    BY <1>0 DEF SuggestionsOK
<1>1. reviews[u].on \in DOMAIN suggestions /\ reviews[u].verdict # "" /\ reviews[u] \in Review
    BY <1>6, <1>7
<1>2. suggestions[reviews[u].on] \in Suggestion
    BY <1>1, SuggestionsTyped
<1>3. reviews[u].verdict \in {"approved", "rejected"}
    BY <1>1 DEF Review
<1>4. Honoured(suggestions[reviews[u].on]) /\ InStep(reviews[u], suggestions[reviews[u].on])
    BY <1>1 DEF SuggestionInv
<1>5. \A v \in Users : v # u /\ reviews[v].pc # "idle" /\ reviews[v].on = reviews[u].on =>
                /\ suggestions[reviews[u].on].overlap
                /\ reviews[v].pc = "mark" => suggestions[reviews[u].on].rules > 0
    BY DEF SuggestionInv, OneReviewer, InStep
<1> QED  BY <1>1, <1>2, <1>3, <1>4, <1>5

LEMMA ReadHonours == ASSUME SuggestionInv, NEW u \in Users, ReviewRead(u) PROVE SuggestionInv'
<1>1. reviews[u].pc = "idle"
    BY DEF ReviewRead
<1>2. PICK i \in DOMAIN suggestions, verdict \in {"approved", "rejected"} :
         /\ suggestions[i].status = "pending"
         /\ reviews' = [reviews EXCEPT ![u] = [pc |-> "read", on |-> i, verdict |-> verdict]]
         /\ suggestions' = IF \E v \in Users : reviews[v].pc # "idle" /\ reviews[v].on = i
                           THEN [suggestions EXCEPT ![i].overlap = TRUE] ELSE suggestions
    BY DEF ReviewRead, IsPending
<1> DEFINE r == [pc |-> "read", on |-> i, verdict |-> verdict]
           s == suggestions[i]
           shared == \E v \in Users : reviews[v].pc # "idle" /\ reviews[v].on = i
           e == IF shared THEN [s EXCEPT !.overlap = TRUE] ELSE s
<1>3. suggestions \in Seq(Suggestion) /\ s \in Suggestion
    BY SuggestionsTyped
<1>4. i \in Nat
    BY <1>3
<1>5. r \in Review
    BY <1>4 DEF Review
<1>6. e \in Suggestion /\ Honoured(e) /\ e.status = "pending" /\ (shared => e.overlap) /\ e.rules = s.rules
  <2>1. Honoured(s) /\ s.status = "pending"
      BY <1>2 DEF SuggestionInv
  <2> HIDE DEF s, shared
  <2> QED  BY <1>3, <2>1 DEF Suggestion, Honoured
<1>7. suggestions' = [suggestions EXCEPT ![i] = e]
  <2>1. CASE shared
      BY <1>2, <2>1
  <2>2. CASE ~shared
    <3>1. suggestions' = suggestions /\ e = s
        BY <1>2, <2>2
    <3> QED  BY <1>3, <3>1
  <2> QED  BY <2>1, <2>2
<1>8. InStep(r, e)
    BY <1>6 DEF InStep
<1>9. \A v \in Users : v # u /\ reviews[v].pc # "idle" /\ reviews[v].on = i =>
               e.overlap /\ (reviews[v].pc = "mark" => e.rules > 0)
  <2> TAKE v \in Users
  <2> HAVE v # u /\ reviews[v].pc # "idle" /\ reviews[v].on = i
  <2>1. shared
      OBVIOUS
  <2>2. InStep(reviews[v], s)
      BY DEF SuggestionInv
  <2> HIDE DEF e, shared
  <2> QED  BY <1>6, <2>1, <2>2 DEF InStep
<1>10. r.on = i /\ r.verdict # ""
    BY <1>2
<1> HIDE DEF e, r
<1>11. reviews' = [reviews EXCEPT ![u] = r]
    BY <1>2 DEF r
<1> QED  BY <1>5, <1>6, <1>7, <1>8, <1>9, <1>10, <1>11, OneReviewMoves

\* A user's review ends and its suggestion stays.
LEMMA ReviewEnds ==
    ASSUME SuggestionInv, NEW u \in Users, reviews[u].pc # "idle",
           reviews' = [reviews EXCEPT ![u] = IdleReview], suggestions' = suggestions
    PROVE  SuggestionInv'
<1> DEFINE i == reviews[u].on
<1>1. /\ i \in DOMAIN suggestions /\ suggestions[i] \in Suggestion /\ Honoured(suggestions[i])
      /\ InStep(reviews[u], suggestions[i])
      /\ \A v \in Users : v # u /\ reviews[v].pc # "idle" /\ reviews[v].on = i =>
           /\ suggestions[i].overlap
           /\ reviews[v].pc = "mark" => suggestions[i].rules > 0
    BY InReview
<1>2. suggestions \in Seq(Suggestion)
    BY DEF SuggestionInv, SuggestionsOK
<1> HIDE DEF i
<1>3. suggestions' = [suggestions EXCEPT ![i] = suggestions[i]]
    BY <1>1, <1>2
<1> QED  BY <1>1, <1>3, Idle, OneReviewMoves, ZenonT(60)

LEMMA UpdateHonours == ASSUME SuggestionInv, NEW u \in Users, UpdateSuggestion(u) PROVE SuggestionInv'
<1> DEFINE i == reviews[u].on
           s == suggestions[i]
           e == [s EXCEPT !.status = reviews[u].verdict]
           r == IF reviews[u].verdict = "approved" THEN [reviews[u] EXCEPT !.pc = "apply"] ELSE IdleReview
<1>1. reviews[u].pc = "read"
    BY DEF UpdateSuggestion
<1>2. /\ i \in DOMAIN suggestions /\ reviews[u] \in Review
      /\ reviews[u].verdict \in {"approved", "rejected"}
      /\ s \in Suggestion /\ Honoured(s) /\ InStep(reviews[u], s)
      /\ \A v \in Users : v # u /\ reviews[v].pc # "idle" /\ reviews[v].on = i =>
           s.overlap /\ (reviews[v].pc = "mark" => s.rules > 0)
    BY <1>1, InReview
<1>3. CASE /\ suggestions' = [suggestions EXCEPT ![i].status = reviews[u].verdict]
           /\ reviews' = IF reviews[u].verdict = "approved" THEN [reviews EXCEPT ![u].pc = "apply"]
                         ELSE [reviews EXCEPT ![u] = IdleReview]
  <2>1. suggestions' = [suggestions EXCEPT ![i] = e]
      BY <1>3
  <2>2. reviews' = [reviews EXCEPT ![u] = r]
      BY <1>3
  <2>3. e \in Suggestion /\ e.rules = s.rules /\ e.overlap = s.overlap /\ e.status = reviews[u].verdict
    <3> HIDE DEF i, s
    <3> QED  BY <1>2 DEF Suggestion
  <2>4. r \in Review /\ (r.pc # "idle" => r.pc = "apply" /\ r.on = i /\ r.verdict # "" /\ e.status = "approved")
    <3>1. CASE reviews[u].verdict = "approved"
        BY <1>2, <2>3, <3>1 DEF Review
    <3>2. CASE reviews[u].verdict # "approved"
        BY <3>2, Idle
    <3> QED  BY <3>1, <3>2
  <2>5. ~s.overlap => s.rules = 0
      BY <1>1, <1>2 DEF InStep, Honoured
  <2> HIDE DEF e, s, r, i
  <2>6. 0 <= 1
      OBVIOUS
  <2>7. Honoured(e)
      BY <1>2, <2>3, <2>5, <2>6 DEF Honoured
  <2>8. r.pc # "idle" => InStep(r, e)
      BY <2>3, <2>4, <2>5 DEF InStep
  <2>9. \A v \in Users : v # u /\ reviews[v].pc # "idle" /\ reviews[v].on = i =>
           e.overlap /\ (reviews[v].pc = "mark" => e.rules > 0)
      BY <1>2, <2>3
  <2> QED  BY <1>2, <2>1, <2>2, <2>3, <2>4, <2>7, <2>8, <2>9, OneReviewMoves
<1>4. CASE reviews' = [reviews EXCEPT ![u] = IdleReview] /\ UNCHANGED suggestions
    BY <1>1, <1>4, ReviewEnds
<1> QED  BY <1>3, <1>4 DEF UpdateSuggestion

LEMMA ApplyHonours == ASSUME SuggestionInv, NEW u \in Users, ApplySuggestion(u) PROVE SuggestionInv'
<1> DEFINE i == reviews[u].on
           s == suggestions[i]
           e == [s EXCEPT !.rules = s.rules + 1]
           r == [reviews[u] EXCEPT !.pc = "mark"]
<1>1. reviews[u].pc = "apply"
    BY DEF ApplySuggestion
<1>2. /\ i \in DOMAIN suggestions /\ reviews[u] \in Review
      /\ reviews[u].verdict \in {"approved", "rejected"}
      /\ s \in Suggestion /\ Honoured(s) /\ InStep(reviews[u], s)
      /\ \A v \in Users : v # u /\ reviews[v].pc # "idle" /\ reviews[v].on = i =>
           s.overlap /\ (reviews[v].pc = "mark" => s.rules > 0)
    BY <1>1, InReview
<1>3. CASE /\ suggestions' = [suggestions EXCEPT ![i].rules = @ + 1]
           /\ reviews' = [reviews EXCEPT ![u].pc = "mark"]
  <2>1. suggestions' = [suggestions EXCEPT ![i] = e]
      BY <1>3
  <2>2. reviews' = [reviews EXCEPT ![u] = r]
      BY <1>3
  <2>3. s.rules \in Nat
      BY <1>2 DEF Suggestion
  <2>4. e \in Suggestion /\ e.rules = s.rules + 1 /\ e.overlap = s.overlap /\ e.status = s.status
    <3>1. s.rules + 1 \in Nat
        BY <2>3, Successor
    <3> HIDE DEF i, s
    <3> QED  BY <1>2, <3>1 DEF Suggestion
  <2>5. r \in Review /\ r.pc = "mark" /\ r.on = i /\ r.verdict # ""
      BY <1>2 DEF Review
  <2>6. ~s.overlap => s.rules = 0 /\ s.status = "approved"
      BY <1>1, <1>2 DEF InStep
  <2> HIDE DEF e, s, r, i
  <2>7. e.rules > 0 /\ (s.rules = 0 => e.rules = 1)
      BY <2>3, <2>4
  <2>8. Honoured(e)
    <3>1. 1 <= 1
        OBVIOUS
    <3> QED  BY <2>4, <2>6, <2>7, <3>1 DEF Honoured
  <2>9. InStep(r, e)
      BY <2>4, <2>5, <2>6, <2>7 DEF InStep
  <2>10. \A v \in Users : v # u /\ reviews[v].pc # "idle" /\ reviews[v].on = i =>
           e.overlap /\ (reviews[v].pc = "mark" => e.rules > 0)
      BY <1>2, <2>4, <2>7
  <2> QED  BY <1>2, <2>1, <2>2, <2>4, <2>5, <2>8, <2>9, <2>10, OneReviewMoves
<1>4. CASE reviews' = [reviews EXCEPT ![u] = IdleReview] /\ UNCHANGED suggestions
    BY <1>1, <1>4, ReviewEnds
<1> QED  BY <1>3, <1>4 DEF ApplySuggestion

LEMMA MarkHonours == ASSUME SuggestionInv, NEW u \in Users, MarkApplied(u) PROVE SuggestionInv'
<1> DEFINE i == reviews[u].on
           s == suggestions[i]
           e == [s EXCEPT !.status = "applied"]
<1>1. reviews[u].pc = "mark" /\ reviews' = [reviews EXCEPT ![u] = IdleReview]
    BY DEF MarkApplied
<1>2. /\ i \in DOMAIN suggestions
      /\ s \in Suggestion /\ Honoured(s) /\ InStep(reviews[u], s)
      /\ \A v \in Users : v # u /\ reviews[v].pc # "idle" /\ reviews[v].on = i =>
           s.overlap /\ (reviews[v].pc = "mark" => s.rules > 0)
    BY <1>1, InReview
<1>3. CASE suggestions' = [suggestions EXCEPT ![i].status = "applied"]
  <2>1. suggestions' = [suggestions EXCEPT ![i] = e]
      BY <1>3
  <2>2. e \in Suggestion /\ e.rules = s.rules /\ e.overlap = s.overlap /\ e.status = "applied"
    <3> HIDE DEF i, s
    <3> QED  BY <1>2 DEF Suggestion
  <2> HIDE DEF e, s, i
  <2>3. Honoured(e)
      BY <1>1, <1>2, <2>2 DEF Honoured, InStep
  <2>4. \A v \in Users : v # u /\ reviews[v].pc # "idle" /\ reviews[v].on = i =>
           e.overlap /\ (reviews[v].pc = "mark" => e.rules > 0)
      BY <1>2, <2>2
  <2> QED  BY <1>1, <1>2, <2>1, <2>2, <2>3, <2>4, Idle, OneReviewMoves
<1>4. CASE UNCHANGED suggestions
    BY <1>1, <1>4, ReviewEnds
<1> QED  BY <1>3, <1>4 DEF MarkApplied

LEMMA InitSuggestions == KnowInit => SuggestionInv
<1> SUFFICES ASSUME KnowInit PROVE SuggestionInv
    OBVIOUS
<1>1. 0 \in Nat
    OBVIOUS
<1>2. \A t \in SuggestionTypes : New(t) \in Suggestion /\ Honoured(New(t))
    BY <1>1 DEF New, Suggestion, Honoured
<1>3. suggestions \in Seq(Suggestion) /\ \A i \in DOMAIN suggestions : Honoured(suggestions[i])
  <2>1. CASE suggestions = <<>>
      BY <2>1
  <2>2. CASE \E t \in SuggestionTypes : suggestions = <<New(t)>>
      BY <1>2, <2>2
  <2> QED  BY <2>1, <2>2 DEF KnowInit, SuggestionTypes
<1>4. \A u \in Users : reviews[u] = IdleReview
    BY DEF KnowInit
<1>5. reviews \in [Users -> Review]
    BY Idle DEF KnowInit
<1> QED  BY <1>3, <1>4, <1>5, Idle DEF SuggestionInv, SuggestionsOK, OneReviewer

LEMMA NextSuggestions == MemoryInv /\ SuggestionInv /\ [KnowNext]_knowVars => SuggestionInv'
<1> SUFFICES ASSUME MemoryInv, SuggestionInv, [KnowNext]_knowVars PROVE SuggestionInv'
    OBVIOUS
<1>1. CASE Nudge \/ \E s \in Sessions : Learn(s)
    BY <1>1, LearningOnlyAdds, OnlyMoreHonours DEF MemoryInv
<1>2. CASE ReviewsNext
    BY <1>2, ReadHonours, UpdateHonours, ApplyHonours, MarkHonours DEF ReviewsNext
<1>3. CASE UNCHANGED <<suggestions, reviews>>
    BY <1>3 DEF SuggestionInv, SuggestionsOK, OneReviewer, Honoured, InStep
<1>4. CASE \E s \in Sessions : StartSession(s) \/ PostStepRecord(s) \/ SessionEnd(s)
    BY <1>3, <1>4 DEF StartSession, PostStepRecord, SessionEnd
<1>5. CASE \E s \in Sessions : ListBySession(s) \/ PromoteToEpisodic(s) \/ CleanupSession(s)
    BY <1>3, <1>5 DEF ListBySession, PromoteToEpisodic, CleanupSession
<1>6. CASE (\E s \in Sessions : Crash(s) \/ EvaluateOutcome(s)) \/ DeleteMemory \/ UNCHANGED knowVars
    BY <1>3, <1>6 DEF Crash, EvaluateOutcome, DeleteMemory, knowVars
<1> QED  BY <1>1, <1>2, <1>4, <1>5, <1>6 DEF KnowNext, SessionsNext

\* However many users review a suggestion and whatever write fails, one that is marked
\* applied has become a rule, and one that a single user reviewed at a time has become at
\* most one, and none when it was rejected (ApproveSuggestion, RejectSuggestion).
THEOREM ReviewsAreHonoured == KnowSpec => []ReviewHonoured
<1>1. SuggestionInv => ReviewHonoured
    BY DEF SuggestionInv, ReviewHonoured, Honoured
<1> QED  BY <1>1, InitMemories, NextMemories, InitSuggestions, NextSuggestions, PTL DEF KnowSpec

\* Where a stream is, and what is typed.
Stream == [pc : {"off", "catchup", "history", "stopping", "buffer", "live"},
           ch : Seq(Nat), buf : Seq(Nat), hist : Seq(Nat), maxSeq : Int, after : Nat]
Page == [pc : {"loading", "connect", "connected", "ended"}, shown : Seq(Nat), cursor : Nat, first : Nat,
         dropped : Nat, breaks : Nat, read : Nat]
FeedTypeOK ==
    /\ feed \in {"event", "db", "file"} /\ stored \in Nat /\ lines \in Nat
    /\ unsent \subseteq 1..stored
    /\ stream \in Stream /\ wire \in Seq(Nat) /\ page \in Page

\* A later entry was broadcast before this one was.
Overtaken == {e \in unsent : \E f \in 1..stored : f > e /\ f \notin unsent}

\* Entries the timeline shows, or may miss.
Safe == ShownIn(page.shown) \cup excused \cup Overtaken

\* Entries the next read of the history returns.
Coming == {e \in 1..stored : \/ stream.pc = "off" /\ e > page.cursor
                             \/ stream.pc = "catchup" /\ e > stream.after}

\* Whoever receives the list in its order has, with each entry, everything after n up to it.
Tight(list, n, fine) ==
    \A i \in DOMAIN list : \A e \in (n + 1)..list[i] : e \in fine \/ \E j \in 1..i : list[j] = e

Sent == Safe \cup ShownIn(wire)
Queued == Sent \cup ShownIn(stream.hist) \cup Coming
OnTheWay == Queued \cup ShownIn(stream.buf)

\* What a stream holds at each of its places.
StreamShape ==
    /\ page.pc = "loading" => stream.pc = "off"
    /\ stream.pc = "off" => stream = NoStream
    /\ stream.pc \in {"off", "catchup"} => wire = <<>>
    /\ stream.pc = "catchup" => stream.after = page.cursor
    /\ stream.pc # "history" => stream.hist = <<>>
    /\ stream.pc = "live" => stream.buf = <<>>
    /\ Len(stream.ch) <= ChanCap

\* Every event since the first page is shown, may be missed, or is somewhere on its way,
\* and no event is ahead of one it would make the browser skip.
Flow ==
    /\ \A e \in (page.first + 1)..page.cursor : e \in Safe
    /\ \A e \in (page.first + 1)..stream.maxSeq : e \in Sent
    /\ Tight(wire, page.first, Safe)
    /\ Tight(stream.hist, page.first, Sent)
    /\ Tight(stream.buf, page.first, Queued)
    /\ Tight(stream.ch, page.first, OnTheWay)
    /\ \A e \in (page.first + 1)..stored : e \in unsent \cup OnTheWay \cup ShownIn(stream.ch)

Rising(list) == \A i, j \in DOMAIN list : i < j => list[i] < list[j]
Unlike(list) == \A i, j \in DOMAIN list : i # j => list[i] # list[j]

TimelineInv == feed = "event" => stored = lines /\ Rising(page.shown) /\ StreamShape /\ Flow
LogsInv ==
    feed # "event" =>
        /\ page.pc # "loading" /\ Unlike(page.shown)
        /\ (1..page.read \subseteq ShownIn(page.shown) \/ page.dropped > 0)
FeedInv == FeedTypeOK /\ TimelineInv /\ LogsInv

-----------------------------------------------------------------------------
\* Lists of entries

LEMMA GreaterOfTwo ==
    ASSUME NEW a \in Int, NEW b \in Int
    PROVE  MaxOfSet({a, b}) = IF a <= b THEN b ELSE a
<1> DEFINE m == IF a <= b THEN b ELSE a
<1>1. m \in {a, b} /\ \A y \in {a, b} : y <= m
    OBVIOUS
<1>2. \A x \in {a, b} : (\A y \in {a, b} : y <= x) => x = m
    OBVIOUS
<1>3. (CHOOSE x \in {a, b} : \A y \in {a, b} : y <= x) = m
    BY <1>1, <1>2
<1> QED  BY <1>3 DEF MaxOfSet

LEMMA NothingShown == ShownIn(<<>>) = {}
BY DEF ShownIn

LEMMA OneMoreShown ==
    ASSUME NEW list \in Seq(Nat), NEW x \in Nat
    PROVE  Append(list, x) \in Seq(Nat) /\ ShownIn(Append(list, x)) = ShownIn(list) \cup {x}
<1>1. /\ Append(list, x) \in Seq(Nat) /\ Len(Append(list, x)) = Len(list) + 1
      /\ \A i \in 1..Len(list) : Append(list, x)[i] = list[i]
      /\ Append(list, x)[Len(list) + 1] = x
    BY AppendProperties
<1>2. DOMAIN list = 1..Len(list) /\ DOMAIN Append(list, x) = 1..(Len(list) + 1) /\ Len(list) \in Nat
    BY <1>1
<1> QED  BY <1>1, <1>2 DEF ShownIn

LEMMA FirstShown ==
    ASSUME NEW list \in Seq(Nat), list # <<>>
    PROVE  /\ Head(list) \in Nat /\ Tail(list) \in Seq(Nat) /\ Len(Tail(list)) = Len(list) - 1
           /\ Head(list) = list[1] /\ Len(list) \in Nat \ {0}
           /\ \A i \in DOMAIN Tail(list) : i + 1 \in DOMAIN list /\ Tail(list)[i] = list[i + 1]
           /\ ShownIn(list) = ShownIn(Tail(list)) \cup {Head(list)}
<1>1. Head(list) \in Nat /\ Tail(list) \in Seq(Nat) /\ Len(Tail(list)) = Len(list) - 1
    BY HeadTailProperties
<1>2. Len(list) \in Nat \ {0} /\ DOMAIN list = 1..Len(list) /\ Head(list) = list[1]
    BY EmptySeq
<1>3. DOMAIN Tail(list) = 1..(Len(list) - 1) /\ \A i \in 1..(Len(list) - 1) : Tail(list)[i] = list[i + 1]
    BY <1>1, <1>2
<1>4. \A i \in DOMAIN Tail(list) : i + 1 \in DOMAIN list
    BY <1>2, <1>3
<1>5. ASSUME NEW i \in DOMAIN list PROVE i = 1 \/ (i - 1 \in DOMAIN Tail(list) /\ Tail(list)[i - 1] = list[i])
    BY <1>2, <1>3
<1>6. ShownIn(list) \subseteq ShownIn(Tail(list)) \cup {Head(list)}
    BY <1>2, <1>5, ZenonT(60) DEF ShownIn
<1>7. ShownIn(Tail(list)) \cup {Head(list)} \subseteq ShownIn(list)
    BY <1>2, <1>3, <1>4 DEF ShownIn
<1> QED  BY <1>1, <1>2, <1>3, <1>4, <1>6, <1>7

LEMMA TightEmpty == ASSUME NEW n, NEW fine PROVE Tight(<<>>, n, fine)
BY DEF Tight

LEMMA TightMore ==
    ASSUME NEW list, NEW n \in Nat, NEW fine, NEW more, Tight(list, n, fine),
           \A e \in fine : e \in more \/ e \in 0..n
    PROVE  Tight(list, n, more)
<1> SUFFICES ASSUME NEW i \in DOMAIN list, NEW e \in (n + 1)..list[i], e \notin more
             PROVE  \E j \in 1..i : list[j] = e
    BY DEF Tight
<1>1. e \in fine => e \in 0..n
    OBVIOUS
<1>2. e \notin 0..n
    OBVIOUS
<1> QED  BY <1>1, <1>2 DEF Tight

\* The first of a list needs nothing but itself; the rest needs it.
LEMMA TightTail ==
    ASSUME NEW list \in Seq(Nat), list # <<>>, NEW n \in Nat, NEW fine, Tight(list, n, fine)
    PROVE  /\ \A e \in (n + 1)..Head(list) : e \in fine \cup {Head(list)}
           /\ Tight(Tail(list), n, fine \cup {Head(list)})
<1>1. /\ Head(list) = list[1] /\ Len(list) \in Nat \ {0} /\ DOMAIN list = 1..Len(list)
      /\ Tail(list) \in Seq(Nat) /\ Len(Tail(list)) = Len(list) - 1
      /\ \A i \in DOMAIN Tail(list) : i + 1 \in DOMAIN list /\ Tail(list)[i] = list[i + 1]
    BY FirstShown
<1>2. \A e \in (n + 1)..Head(list) : e \in fine \cup {Head(list)}
  <2> TAKE e \in (n + 1)..Head(list)
  <2>1. 1 \in DOMAIN list /\ e \in (n + 1)..list[1]
      BY <1>1
  <2>2. e \in fine \/ \E j \in 1..1 : list[j] = e
      BY <2>1 DEF Tight
  <2> QED  BY <1>1, <2>2
<1>3. ASSUME NEW i \in DOMAIN Tail(list), NEW e \in (n + 1)..Tail(list)[i]
      PROVE  e \in fine \cup {Head(list)} \/ \E j \in 1..i : Tail(list)[j] = e
  <2>0. i \in Nat \ {0} /\ DOMAIN Tail(list) = 1..(Len(list) - 1)
      BY <1>1
  <2>1. e \in fine \/ \E j \in 1..(i + 1) : list[j] = e
      BY <1>1 DEF Tight
  <2>2. ASSUME NEW j \in 1..(i + 1), list[j] = e PROVE e = Head(list) \/ \E k \in 1..i : Tail(list)[k] = e
    <3>1. CASE j = 1
        BY <1>1, <2>2, <3>1
    <3>2. CASE j # 1
      <4>1. j - 1 \in 1..i /\ j - 1 \in DOMAIN Tail(list)
          BY <1>1, <2>0, <3>2
      <4>2. Tail(list)[j - 1] = list[j]
          BY <1>1, <4>1
      <4> QED  BY <2>2, <4>1, <4>2
    <3> QED  BY <3>1, <3>2
  <2> QED  BY <2>1, <2>2
<1> QED  BY <1>2, <1>3 DEF Tight

LEMMA TightAppend ==
    ASSUME NEW list \in Seq(Nat), NEW n \in Nat, NEW fine, Tight(list, n, fine), NEW x \in Nat,
           \A e \in (n + 1)..x : e \in fine \cup ShownIn(list) \cup {x}
    PROVE  Tight(Append(list, x), n, fine)
<1> DEFINE new == Append(list, x)
           m == Len(list)
<1>1. /\ m \in Nat /\ DOMAIN list = 1..m /\ new \in Seq(Nat) /\ DOMAIN new = 1..(m + 1)
      /\ \A i \in 1..m : new[i] = list[i]
      /\ new[m + 1] = x
    BY AppendProperties
<1> HIDE DEF new, m
<1>2. ASSUME NEW i \in DOMAIN new, NEW e \in (n + 1)..new[i]
      PROVE  e \in fine \/ \E j \in 1..i : new[j] = e
  <2>1. CASE i \in 1..m
    <3>1. e \in fine \/ \E j \in 1..i : list[j] = e
        BY <1>1, <2>1 DEF Tight
    <3>2. \A j \in 1..i : new[j] = list[j]
        BY <1>1, <2>1
    <3> QED  BY <3>1, <3>2
  <2>2. CASE i = m + 1
    <3>1. e \in fine \cup ShownIn(list) \cup {x}
        BY <1>1, <2>2
    <3>2. ASSUME e \in ShownIn(list) PROVE \E j \in 1..i : new[j] = e
      <4>1. PICK j \in 1..m : list[j] = e
          BY <1>1, <3>2 DEF ShownIn
      <4> QED  BY <1>1, <2>2, <4>1
    <3>3. e = x => \E j \in 1..i : new[j] = e
        BY <1>1, <2>2
    <3> QED  BY <3>1, <3>2, <3>3
  <2> QED  BY <1>1, <2>1, <2>2
<1> QED  BY <1>2 DEF Tight, new

\* Numbers in a row.
LEMMA TightRow ==
    ASSUME NEW a \in Nat, NEW b \in Int, NEW n \in Nat, NEW fine, \A e \in (n + 1)..a : e \in fine
    PROVE  LET row == [i \in 1..(b - a) |-> a + i]
           IN  row \in Seq(Nat) /\ Rising(row) /\ ShownIn(row) = (a + 1)..b /\ Tight(row, n, fine)
<1> DEFINE row == [i \in 1..(b - a) |-> a + i]
<1>1. row \in Seq(Nat)
  <2>1. CASE b - a \in Nat
      BY <2>1
  <2>2. CASE b - a \notin Nat
    <3>1. 1..(b - a) = 1..0
        BY <2>2
    <3> QED  BY <3>1
  <2> QED  BY <2>1, <2>2
<1>2. DOMAIN row = 1..(b - a) /\ \A i \in 1..(b - a) : row[i] = a + i
    OBVIOUS
<1> HIDE DEF row
<1>3. Rising(row)
    BY <1>2 DEF Rising
<1>4. ShownIn(row) = (a + 1)..b
  <2>1. ASSUME NEW e \in (a + 1)..b PROVE e - a \in 1..(b - a) /\ row[e - a] = e
      BY <1>2
  <2>2. ASSUME NEW i \in 1..(b - a) PROVE row[i] \in (a + 1)..b
      BY <1>2
  <2> QED  BY <1>2, <2>1, <2>2 DEF ShownIn
<1>5. ASSUME NEW i \in DOMAIN row, NEW e \in (n + 1)..row[i]
      PROVE  e \in fine \/ \E j \in 1..i : row[j] = e
  <2>1. CASE e <= a
      BY <2>1
  <2>2. CASE e > a
    <3>1. e - a \in 1..i /\ i \in 1..(b - a) /\ row[e - a] = e
        BY <1>2, <2>2
    <3> QED  BY <3>1
  <2> QED  BY <2>1, <2>2
<1> QED  BY <1>1, <1>3, <1>4, <1>5 DEF Tight, row

-----------------------------------------------------------------------------
\* What the browser shows

\* The timeline stays in order and takes the event in.
LEMMA MergeProperties ==
    ASSUME NEW shown \in Seq(Nat), Rising(shown), NEW e \in Nat
    PROVE  /\ MergeEvents(shown, e) \in Seq(Nat) /\ Rising(MergeEvents(shown, e))
           /\ ShownIn(MergeEvents(shown, e)) = ShownIn(shown) \cup {e}
<1> DEFINE n == Len(shown)
<1>1. n \in Nat /\ DOMAIN shown = 1..n /\ (\A i \in 1..n : shown[i] \in Nat) /\ (shown = <<>> => n = 0)
    OBVIOUS
<1> HIDE DEF n
<1>2. CASE shown = <<>> \/ e > shown[n]
  <2> DEFINE new == Append(shown, e)
  <2>1. MergeEvents(shown, e) = new
      BY <1>2 DEF MergeEvents, n
  <2>2. new \in Seq(Nat) /\ DOMAIN new = 1..(n + 1) /\ (\A i \in 1..n : new[i] = shown[i]) /\ new[n + 1] = e
      BY AppendProperties DEF n
  <2>3. \A i \in 1..n : shown[i] < e
    <3> TAKE i \in 1..n
    <3>1. n \in 1..n /\ e > shown[n] /\ shown[n] \in Nat /\ shown[i] \in Nat
        BY <1>1, <1>2
    <3>2. i = n \/ i < n
        BY <1>1
    <3>3. i < n => shown[i] < shown[n]
        BY <1>1, <3>1 DEF Rising
    <3> QED  BY <3>1, <3>2, <3>3
  <2> HIDE DEF new
  <2>4. Rising(new)
    <3> SUFFICES ASSUME NEW i \in 1..(n + 1), NEW j \in 1..(n + 1), i < j PROVE new[i] < new[j]
        BY <2>2 DEF Rising
    <3>1. CASE j = n + 1
      <4>1. i \in 1..n
          BY <1>1, <3>1
      <4> QED  BY <2>2, <2>3, <3>1, <4>1
    <3>2. CASE j # n + 1
      <4>1. i \in 1..n /\ j \in 1..n
          BY <1>1, <3>2
      <4>2. shown[i] < shown[j]
          BY <1>1, <4>1 DEF Rising
      <4> QED  BY <2>2, <4>1, <4>2
    <3> QED  BY <3>1, <3>2
  <2>5. ShownIn(new) = ShownIn(shown) \cup {e}
      BY OneMoreShown DEF new
  <2> QED  BY <2>1, <2>2, <2>4, <2>5
<1>3. CASE ~(shown = <<>> \/ e > shown[n])
  <2> DEFINE S == ShownIn(shown) \cup {e}
             m == Cardinality(S)
             new == InOrder(S)
  <2>1. MergeEvents(shown, e) = new
      BY <1>3 DEF MergeEvents, n
  <2>2. IsFiniteSet(S) /\ S \subseteq Nat
    <3>1. IsFiniteSet(1..n)
        BY <1>1, FS_Interval
    <3>2. ShownIn(shown) = {shown[i] : i \in 1..n}
        BY <1>1 DEF ShownIn
    <3>3. IsFiniteSet(ShownIn(shown))
      <4> DEFINE f == [i \in 1..n |-> shown[i]]
      <4>1. f \in Surjection(1..n, ShownIn(shown))
          BY <3>2 DEF Surjection
      <4> QED  BY <3>1, <4>1, FS_Surjection
    <3>4. IsFiniteSet(S)
        BY <3>3, FS_AddElement
    <3> QED  BY <1>1, <3>2, <3>4
  <2>3. /\ m \in Nat /\ new \in [1..m -> S]
        /\ \A k, l \in 1..m : k < l => new[k] < new[l]
        /\ \A i \in S : \E k \in 1..m : new[k] = i
    <3>1. S \subseteq Int
        BY <2>2
    <3> HIDE DEF S
    <3> QED  BY <2>2, <3>1, InOrderProperties
  <2> HIDE DEF S, m, new
  <2>4. new \in Seq(Nat) /\ DOMAIN new = 1..m
    <3>1. new \in [1..m -> Nat] /\ m \in Nat
        BY <2>2, <2>3
    <3>2. DOMAIN new = 1..m
        BY <3>1
    <3>3. \A f \in [1..m -> Nat] : f \in Seq(Nat)
        BY <3>1
    <3> QED  BY <3>1, <3>2, <3>3
  <2>5. Rising(new)
      BY <2>3, <2>4 DEF Rising
  <2>6. ShownIn(new) = S
    <3>1. ShownIn(new) = {new[k] : k \in 1..m}
        BY <2>4 DEF ShownIn
    <3> QED  BY <2>3, <3>1
  <2> QED  BY <2>1, <2>4, <2>5, <2>6 DEF S
<1> QED  BY <1>2, <1>3

\* The console takes every log once, and says how many it cut off.
LEMMA AppendLogsProperties ==
    ASSUME NEW shown \in Seq(Nat), Unlike(shown), NEW new \in Seq(Nat), Unlike(new)
    PROVE  LET added == AppendUniqueLogs(shown, new)
           IN  /\ added.shown \in Seq(Nat) /\ Unlike(added.shown) /\ added.over \in Nat
               /\ added.over = 0 => ShownIn(added.shown) = ShownIn(shown) \cup ShownIn(new)
<1> DEFINE P == {i \in DOMAIN new : new[i] \notin ShownIn(shown)}
           sub == Sublist(new, P)
           all == shown \o sub
           over == MaxOfSet({0, Len(all) - MaxBufferedLogs})
           cut == SubSeq(all, over + 1, Len(all))
<1>1. AppendUniqueLogs(shown, new) = [shown |-> cut, over |-> over]
    BY DEF AppendUniqueLogs
<1>2. /\ sub \in Seq(Nat) /\ Len(sub) = Cardinality(P)
      /\ \A k \in DOMAIN sub : \E i \in P : sub[k] = new[i]
      /\ \A i \in P : \E k \in DOMAIN sub : sub[k] = new[i]
  <2>1. P \in SUBSET DOMAIN new
      OBVIOUS
  <2> HIDE DEF P
  <2> QED  BY <2>1, SublistProperties
<1>3. Unlike(sub)
  <2> DEFINE o == InOrder(P)
             c == Cardinality(P)
  <2>1. IsFiniteSet(P) /\ P \subseteq Int
    <3>1. DOMAIN new = 1..Len(new) /\ Len(new) \in Nat
        OBVIOUS
    <3>2. IsFiniteSet(1..Len(new))
        BY <3>1, FS_Interval
    <3> QED  BY <3>1, <3>2, FS_Subset
  <2>2. c \in Nat /\ o \in [1..c -> P] /\ \A k, l \in 1..c : k < l => o[k] < o[l]
      BY <2>1, InOrderProperties
  <2>3. sub = [k \in 1..c |-> new[o[k]]]
      BY DEF Sublist
  <2>4. P \subseteq DOMAIN new
      OBVIOUS
  <2> HIDE DEF o, c, P, sub
  <2> SUFFICES ASSUME NEW k \in 1..c, NEW l \in 1..c, k # l PROVE sub[k] # sub[l]
      BY <2>3 DEF Unlike
  <2>5. o[k] # o[l] /\ o[k] \in DOMAIN new /\ o[l] \in DOMAIN new
    <3>1. k < l \/ l < k
        BY <2>2
    <3>2. o[k] \in Int /\ o[l] \in Int /\ o[k] \in P /\ o[l] \in P
        BY <2>1, <2>2
    <3> QED  BY <2>2, <2>4, <3>1, <3>2
  <2> QED  BY <2>3, <2>5 DEF Unlike
<1>4. \A k \in DOMAIN sub : sub[k] \notin ShownIn(shown) /\ sub[k] \in ShownIn(new)
    BY <1>2 DEF ShownIn
<1>5. ShownIn(new) \subseteq ShownIn(shown) \cup ShownIn(sub)
  <2> SUFFICES ASSUME NEW i \in DOMAIN new PROVE new[i] \in ShownIn(shown) \cup ShownIn(sub)
      BY DEF ShownIn
  <2>1. CASE i \in P
      BY <1>2, <2>1 DEF ShownIn
  <2>2. CASE i \notin P
      BY <2>2
  <2> QED  BY <2>1, <2>2
<1> HIDE DEF sub, P
<1> DEFINE a == Len(shown)
           b == Len(sub)
<1> HIDE DEF a, b
<1>6. /\ a \in Nat /\ b \in Nat /\ DOMAIN shown = 1..a /\ DOMAIN sub = 1..b
      /\ all \in Seq(Nat) /\ Len(all) = a + b /\ DOMAIN all = 1..(a + b)
      /\ \A i \in 1..(a + b) : all[i] = IF i <= a THEN shown[i] ELSE sub[i - a]
  <2>1. a \in Nat /\ DOMAIN shown = 1..a
      BY DEF a
  <2>2. b \in Nat /\ DOMAIN sub = 1..b
      BY <1>2 DEF b
  <2>3. /\ all \in Seq(Nat) /\ Len(all) = a + b
        /\ \A i \in 1..(a + b) : all[i] = IF i <= a THEN shown[i] ELSE sub[i - a]
      BY <1>2, ConcatProperties DEF a, b
  <2> HIDE DEF all
  <2>4. DOMAIN all = 1..(a + b)
      BY <2>3
  <2> QED  BY <2>1, <2>2, <2>3, <2>4
<1> HIDE DEF all
<1>7. Unlike(all)
  <2> SUFFICES ASSUME NEW i \in 1..(a + b), NEW j \in 1..(a + b), i < j PROVE all[i] # all[j]
      BY <1>6 DEF Unlike
  <2>1. CASE j <= a
    <3>1. i \in DOMAIN shown /\ j \in DOMAIN shown /\ i # j /\ all[i] = shown[i] /\ all[j] = shown[j]
        BY <1>6, <2>1
    <3> QED  BY <3>1 DEF Unlike
  <2>2. CASE i <= a /\ j > a
    <3>1. all[i] \in ShownIn(shown) /\ j - a \in DOMAIN sub /\ all[j] = sub[j - a]
      <4>1. i \in DOMAIN shown /\ all[i] = shown[i] /\ j - a \in DOMAIN sub /\ all[j] = sub[j - a]
          BY <1>6, <2>2
      <4> QED  BY <4>1 DEF ShownIn
    <3> QED  BY <1>4, <3>1
  <2>3. CASE i > a
    <3>1. i - a \in DOMAIN sub /\ j - a \in DOMAIN sub /\ i - a # j - a
        BY <1>6, <2>3
    <3>2. all[i] = sub[i - a] /\ all[j] = sub[j - a]
        BY <1>6, <2>3
    <3> QED  BY <1>3, <3>1, <3>2 DEF Unlike
  <2> QED  BY <1>6, <2>1, <2>2, <2>3
<1>8. ShownIn(all) = ShownIn(shown) \cup ShownIn(sub)
  <2>1. ASSUME NEW i \in 1..(a + b) PROVE all[i] \in ShownIn(shown) \cup ShownIn(sub)
    <3>1. CASE i <= a
      <4>1. i \in DOMAIN shown /\ all[i] = shown[i]
          BY <1>6, <3>1
      <4> QED  BY <4>1 DEF ShownIn
    <3>2. CASE i > a
      <4>1. i - a \in DOMAIN sub /\ all[i] = sub[i - a]
          BY <1>6, <3>2
      <4> QED  BY <4>1 DEF ShownIn
    <3> QED  BY <1>6, <3>1, <3>2
  <2>2. ASSUME NEW i \in 1..a PROVE shown[i] \in ShownIn(all)
    <3>1. i \in 1..(a + b) /\ all[i] = shown[i]
        BY <1>6
    <3> QED  BY <1>6, <3>1 DEF ShownIn
  <2>3. ASSUME NEW i \in 1..b PROVE sub[i] \in ShownIn(all)
    <3>1. a + i \in 1..(a + b) /\ all[a + i] = sub[i]
        BY <1>6
    <3> QED  BY <1>6, <3>1 DEF ShownIn
  <2>4. ShownIn(all) = {all[i] : i \in 1..(a + b)}
      BY <1>6 DEF ShownIn
  <2>5. ShownIn(shown) = {shown[i] : i \in 1..a} /\ ShownIn(sub) = {sub[i] : i \in 1..b}
      BY <1>6 DEF ShownIn
  <2> QED  BY <2>1, <2>2, <2>3, <2>4, <2>5
<1>9. MaxBufferedLogs \in Nat \ {0}
    BY FeedAssumption DEF FeedAssumption
<1>10. over \in 0..Len(all)
  <2>1. Len(all) \in Nat /\ Len(all) - MaxBufferedLogs \in Int /\ Len(all) - MaxBufferedLogs <= Len(all)
      BY <1>6, <1>9
  <2>2. over = IF 0 <= Len(all) - MaxBufferedLogs THEN Len(all) - MaxBufferedLogs ELSE 0
      BY <2>1, GreaterOfTwo, SMTT(30)
  <2> HIDE DEF over
  <2> QED  BY <2>1, <2>2
<1> HIDE DEF over
<1>11. /\ cut \in Seq(Nat) /\ Len(cut) = Len(all) - over
       /\ \A i \in 1..(Len(all) - over) : cut[i] = all[over + i]
  <2>1. \A i \in (over + 1)..Len(all) : all[i] \in Nat
      BY <1>6, <1>10
  <2>2. /\ cut \in Seq(Nat)
        /\ Len(cut) = IF over + 1 <= Len(all) THEN Len(all) - (over + 1) + 1 ELSE 0
        /\ \A i \in 1..(Len(all) - (over + 1) + 1) : cut[i] = all[(over + 1) + i - 1]
      BY <1>6, <1>10, <2>1, SubSeqProperties
  <2>3. Len(all) \in Nat
      BY <1>6
  <2>4. \A i \in 1..(Len(all) - over) : (over + 1) + i - 1 = over + i /\ Len(all) - (over + 1) + 1 = Len(all) - over
      BY <1>10, <2>3
  <2> QED  BY <1>10, <2>2, <2>3, <2>4
<1>12. DOMAIN cut = 1..(Len(all) - over)
    BY <1>11
<1> HIDE DEF cut
<1>13. Unlike(cut)
  <2> SUFFICES ASSUME NEW i \in 1..(Len(all) - over), NEW j \in 1..(Len(all) - over), i # j PROVE cut[i] # cut[j]
      BY <1>12 DEF Unlike
  <2>1. over + i \in DOMAIN all /\ over + j \in DOMAIN all /\ over + i # over + j
      BY <1>6, <1>10
  <2> QED  BY <1>7, <1>11, <2>1 DEF Unlike
<1>14. over = 0 => ShownIn(cut) = ShownIn(all)
  <2> SUFFICES ASSUME over = 0 PROVE ShownIn(cut) = ShownIn(all)
      OBVIOUS
  <2>1. DOMAIN cut = DOMAIN all /\ \A i \in DOMAIN all : cut[i] = all[i]
      BY <1>6, <1>11, <1>12
  <2> QED  BY <2>1 DEF ShownIn
<1>15. ShownIn(sub) \subseteq ShownIn(new)
    BY <1>4 DEF ShownIn
<1>16. over \in Nat
    BY <1>6, <1>10
<1> QED  BY <1>1, <1>5, <1>8, <1>11, <1>13, <1>14, <1>15, <1>16

-----------------------------------------------------------------------------
\* The feed, step by step

\* A step that leaves the console alone keeps what is said of it.
LEMMA LogsStay ==
    ASSUME LogsInv, feed' = feed, page'.shown = page.shown, page'.read = page.read, page'.dropped = page.dropped,
           page.pc # "loading" => page'.pc # "loading"
    PROVE  LogsInv'
BY DEF LogsInv

\* Where an event is, it or a place nearer the browser keeps it: what stood before an
\* event in a list still does.
LEMMA FlowGrows ==
    ASSUME FeedTypeOK, Flow, wire' = wire, stream'.hist = stream.hist, stream'.buf = stream.buf,
           stream'.maxSeq = stream.maxSeq, page'.first = page.first, page'.cursor = page.cursor,
           Safe \subseteq Safe', Coming \subseteq Coming'
    PROVE  /\ Sent \subseteq Sent' /\ Queued \subseteq Queued' /\ OnTheWay \subseteq OnTheWay'
           /\ \A e \in (page'.first + 1)..page'.cursor : e \in Safe'
           /\ \A e \in (page'.first + 1)..stream'.maxSeq : e \in Sent'
           /\ Tight(wire', page'.first, Safe')
           /\ Tight(stream'.hist, page'.first, Sent')
           /\ Tight(stream'.buf, page'.first, Queued')
           /\ Tight(stream.ch, page'.first, OnTheWay')
<1>1. Sent \subseteq Sent' /\ Queued \subseteq Queued' /\ OnTheWay \subseteq OnTheWay'
    BY DEF Sent, Queued, OnTheWay
<1>2. page.first \in Nat
    BY DEF FeedTypeOK, Page
<1>3. /\ Tight(wire, page.first, Safe) /\ Tight(stream.hist, page.first, Sent)
      /\ Tight(stream.buf, page.first, Queued) /\ Tight(stream.ch, page.first, OnTheWay)
    BY DEF Flow
<1>4. Tight(wire, page.first, Safe')
    BY <1>2, <1>3, TightMore
<1>5. Tight(stream.hist, page.first, Sent')
    BY <1>1, <1>2, <1>3, TightMore
<1>6. Tight(stream.buf, page.first, Queued')
    BY <1>1, <1>2, <1>3, TightMore
<1>7. Tight(stream.ch, page.first, OnTheWay')
    BY <1>1, <1>2, <1>3, TightMore
<1>8. /\ \A e \in (page.first + 1)..page.cursor : e \in Safe'
      /\ \A e \in (page.first + 1)..stream.maxSeq : e \in Sent'
    BY <1>1 DEF Flow
<1> QED  BY <1>1, <1>4, <1>5, <1>6, <1>7, <1>8

\* The parts of the flow, taken together.
LEMMA FlowParts ==
    ASSUME \A e \in (page'.first + 1)..page'.cursor : e \in Safe',
           \A e \in (page'.first + 1)..stream'.maxSeq : e \in Sent',
           Tight(wire', page'.first, Safe'),
           Tight(stream'.hist, page'.first, Sent'),
           Tight(stream'.buf, page'.first, Queued'),
           Tight(stream'.ch, page'.first, OnTheWay'),
           \A e \in (page'.first + 1)..stored' : e \in unsent' \cup OnTheWay' \cup ShownIn(stream'.ch)
    PROVE  Flow'
BY DEF Flow

\* A payload is cut to the limit, or replaced by a remark.
LEMMA EveryLineEmitted == ASSUME NEW l \in Lines PROVE Emitted(l)
<1>1. MaxPayloadBytes \in Nat \ {0} /\ MaxTailBytes \in Nat /\ l.out \in Nat /\ l.err \in Nat /\ l.escape \in Nat
    BY FeedAssumption DEF FeedAssumption
<1>2. \A a, b \in Nat : a * b \in Nat /\ a + b \in Nat
    OBVIOUS
<1>3. TruncateTail(l.out) \in Nat /\ TruncateTail(l.err) \in Nat
    BY <1>1 DEF TruncateTail
<1>4. /\ TruncateTail(l.out) * l.escape \in Nat /\ l.out * l.escape \in Nat
      /\ (TruncateTail(l.out) + TruncateTail(l.err)) * l.escape \in Nat
    BY <1>1, <1>2, <1>3
<1>5. PayloadSize(l) \in Nat
  <2> DEFINE x == TruncateTail(l.out) * l.escape
             y == (TruncateTail(l.out) + TruncateTail(l.err)) * l.escape
             z == l.out * l.escape
  <2>1. x \in Nat /\ y \in Nat /\ z \in Nat
      BY <1>4
  <2>2. PayloadSize(l) = CASE l.inStep \/ l.type \in {"plain", "other"} -> x
                           [] ~l.inStep /\ l.type = "reasoning"          -> x
                           [] ~l.inStep /\ l.type = "command_finished"   -> y
                           [] ~l.inStep /\ l.type = "test_result"        -> 1
                           [] OTHER                                      -> z
      BY DEF PayloadSize
  <2> HIDE DEF x, y, z
  <2> QED  BY <2>1, <2>2
<1> QED  BY <1>1, <1>5 DEF Emitted, EmitSimple

\* The rest of a stream's types are not touched by taking an entry in.
LEMMA OfferedTyped ==
    ASSUME stream \in Stream, NEW e \in Nat
    PROVE  Offered(e) \in Stream
<1>1. Append(stream.ch, e) \in Seq(Nat)
    BY DEF Stream
<1> QED  BY <1>1 DEF Offered, Stream

LEMMA CreateLogKeeps == ASSUME FeedInv, CreateLog PROVE FeedInv'
<1>1. stored + 1 \in Nat /\ stream \in Stream /\ unsent \subseteq 1..stored /\ stored \in Nat /\ lines \in Nat
    BY DEF FeedInv, FeedTypeOK
<1>2. stored' = stored + 1 /\ lines' = lines + 1 /\ feed' = feed /\ wire' = wire /\ page' = page /\ feed # "event"
    BY DEF CreateLog
<1>3. stream' \in Stream
    BY <1>1, OfferedTyped DEF CreateLog
<1>4. unsent' \subseteq 1..(stored + 1)
  <2>1. unsent' \subseteq unsent \cup {stored + 1}
      BY DEF CreateLog
  <2> QED  BY <1>1, <2>1
<1>5. FeedTypeOK'
    BY <1>1, <1>2, <1>3, <1>4 DEF FeedInv, FeedTypeOK
<1> QED  BY <1>2, <1>5, LogsStay DEF FeedInv, TimelineInv

LEMMA CreateEventKeeps == ASSUME FeedInv, CreateEvent PROVE FeedInv'
<1>1. /\ stored \in Nat /\ lines \in Nat /\ unsent \subseteq 1..stored /\ page.first \in Nat
      /\ stored = lines /\ Rising(page.shown) /\ StreamShape /\ Flow
    BY DEF FeedInv, FeedTypeOK, TimelineInv, CreateEvent, Page
<1>2. /\ stored' = stored + 1 /\ unsent' = unsent \cup {stored + 1} /\ lines' = lines + 1
      /\ feed' = feed /\ stream' = stream /\ wire' = wire /\ page' = page /\ excused' = excused
    BY EveryLineEmitted DEF CreateEvent
<1>3. FeedTypeOK'
    BY <1>1, <1>2 DEF FeedInv, FeedTypeOK
<1>4. Safe \subseteq Safe'
  <2>1. Overtaken \subseteq Overtaken'
      BY <1>1, <1>2 DEF Overtaken
  <2> QED  BY <1>2, <2>1 DEF Safe
<1>5. Coming \subseteq Coming'
    BY <1>1, <1>2 DEF Coming
<1>6. Flow'
  <2>1. /\ OnTheWay \subseteq OnTheWay'
        /\ \A e \in (page'.first + 1)..page'.cursor : e \in Safe'
        /\ \A e \in (page'.first + 1)..stream'.maxSeq : e \in Sent'
        /\ Tight(wire', page'.first, Safe') /\ Tight(stream'.hist, page'.first, Sent')
        /\ Tight(stream'.buf, page'.first, Queued') /\ Tight(stream'.ch, page'.first, OnTheWay')
      BY <1>1, <1>2, <1>4, <1>5, FlowGrows DEF FeedInv
  <2>2. \A e \in (page'.first + 1)..stored' : e \in unsent' \cup OnTheWay' \cup ShownIn(stream'.ch)
    <3> TAKE e \in (page'.first + 1)..stored'
    <3>1. e = stored + 1 \/ e \in (page.first + 1)..stored
        BY <1>1, <1>2
    <3> QED  BY <1>1, <1>2, <2>1, <3>1 DEF Flow
  <2> QED  BY <2>1, <2>2, FlowParts
<1>7. StreamShape'
    BY <1>1, <1>2 DEF StreamShape
<1> QED  BY <1>1, <1>2, <1>3, <1>6, <1>7, LogsStay DEF FeedInv, TimelineInv

\* An event handed to the hub is in the channel, or may be missed, or will be read.
LEMMA BroadcastKeeps == ASSUME FeedInv, Broadcast PROVE FeedInv'
<1>1. PICK x \in unsent : unsent' = unsent \ {x} /\ stream' = Offered(x) /\ excused' = excused \cup Excused(x)
    BY DEF Broadcast
<1>2. /\ feed' = feed /\ stored' = stored /\ lines' = lines /\ wire' = wire /\ page' = page
      /\ stored \in Nat /\ unsent \subseteq 1..stored /\ stream \in Stream /\ page \in Page
    BY DEF Broadcast, FeedInv, FeedTypeOK
<1>3. x \in Nat /\ x \in 1..stored
    BY <1>2
<1>4. stream' \in Stream
    BY <1>1, <1>2, <1>3, OfferedTyped
<1>5. FeedTypeOK'
    BY <1>1, <1>2, <1>4 DEF FeedInv, FeedTypeOK
<1>6. CASE feed # "event"
    BY <1>2, <1>5, <1>6, LogsStay DEF FeedInv, TimelineInv
<1>7. CASE feed = "event"
  <2>1. stored = lines /\ Rising(page.shown) /\ StreamShape /\ Flow
      BY <1>7 DEF FeedInv, TimelineInv
  <2>2. page.first \in Nat /\ page.cursor \in Nat /\ stream.ch \in Seq(Nat) /\ Len(stream.ch) \in Nat /\ ChanCap \in Nat
      BY <1>2, FeedAssumption DEF Page, Stream, FeedAssumption
  <2>3. /\ stream'.pc = stream.pc /\ stream'.buf = stream.buf /\ stream'.hist = stream.hist
        /\ stream'.maxSeq = stream.maxSeq /\ stream'.after = stream.after
      BY <1>1, <1>2 DEF Offered, Stream
  <2>4. \/ stream' = stream /\ (stream.pc = "off" \/ ~(Len(stream.ch) < ChanCap))
        \/ stream.pc # "off" /\ Len(stream.ch) < ChanCap /\ stream' = [stream EXCEPT !.ch = Append(@, x)]
      BY <1>1 DEF Offered
  <2>5. x \in Overtaken => x \in excused'
      BY <1>1, <1>2 DEF Overtaken, Excused
  <2>6. Safe \subseteq Safe'
    <3>1. ASSUME NEW y \in Overtaken PROVE y \in Overtaken' \cup excused'
      <4>1. CASE y = x
          BY <2>5, <3>1, <4>1
      <4>2. CASE y # x
          BY <1>1, <1>2, <3>1, <4>2 DEF Overtaken
      <4> QED  BY <4>1, <4>2
    <3> QED  BY <1>1, <1>2, <3>1 DEF Safe
  <2>7. Coming' = Coming
      BY <1>2, <2>3 DEF Coming
  <2>8. /\ OnTheWay \subseteq OnTheWay'
        /\ \A e \in (page'.first + 1)..page'.cursor : e \in Safe'
        /\ \A e \in (page'.first + 1)..stream'.maxSeq : e \in Sent'
        /\ Tight(wire', page'.first, Safe') /\ Tight(stream'.hist, page'.first, Sent')
        /\ Tight(stream'.buf, page'.first, Queued') /\ Tight(stream.ch, page'.first, OnTheWay')
      BY <1>2, <2>1, <2>3, <2>6, <2>7, FlowGrows DEF FeedInv
  <2>9. Overtaken' \subseteq OnTheWay' /\ Coming' \subseteq OnTheWay' /\ excused' \subseteq OnTheWay' /\ Safe' \subseteq OnTheWay'
      BY DEF Safe, Sent, Queued, OnTheWay
  <2>10. ASSUME NEW y \in (page.first + 1)..stored, y # x
         PROVE  y \in unsent' \cup OnTheWay' \cup ShownIn(stream.ch)
      BY <1>1, <2>1, <2>8, <2>10 DEF Flow
  <2>11. ASSUME NEW y \in (page.first + 1)..x, y # x
         PROVE  y \in OnTheWay' \cup ShownIn(stream.ch)
    <3>1. y \in (page.first + 1)..stored /\ y < x
        BY <1>2, <1>3, <2>2, <2>11
    <3>2. y \in unsent' => y \in Overtaken'
        BY <1>1, <1>2, <1>3, <3>1 DEF Overtaken
    <3> QED  BY <2>9, <2>10, <2>11, <3>1, <3>2
  <2>12. Tight(stream'.ch, page'.first, OnTheWay') /\ ShownIn(stream.ch) \subseteq ShownIn(stream'.ch)
         /\ Len(stream'.ch) <= ChanCap
         /\ (stream'.ch = stream.ch \/ x \in ShownIn(stream'.ch))
    <3>1. CASE stream' = stream
        BY <2>1, <2>8, <3>1 DEF StreamShape
    <3>2. CASE stream.pc # "off" /\ Len(stream.ch) < ChanCap /\ stream' = [stream EXCEPT !.ch = Append(@, x)]
      <4>1. stream'.ch = Append(stream.ch, x)
          BY <1>2, <3>2 DEF Stream
      <4>2. Tight(Append(stream.ch, x), page.first, OnTheWay')
          BY <1>2, <1>3, <2>2, <2>8, <2>11, TightAppend
      <4>3. ShownIn(Append(stream.ch, x)) = ShownIn(stream.ch) \cup {x} /\ Len(Append(stream.ch, x)) = Len(stream.ch) + 1
          BY <1>3, <2>2, OneMoreShown
      <4>4. Tight(stream'.ch, page'.first, OnTheWay')
          BY <1>2, <4>1, <4>2
      <4>5. Len(stream'.ch) <= ChanCap
          BY <2>2, <3>2, <4>1, <4>3
      <4>6. ShownIn(stream.ch) \subseteq ShownIn(stream'.ch) /\ x \in ShownIn(stream'.ch)
          BY <4>1, <4>3
      <4> QED  BY <4>4, <4>5, <4>6
    <3> QED  BY <2>4, <3>1, <3>2
  <2>13. x \in (page.first + 1)..stored => x \in OnTheWay' \cup ShownIn(stream'.ch)
    <3> SUFFICES ASSUME x \in (page.first + 1)..stored, x \notin ShownIn(stream'.ch) PROVE x \in OnTheWay'
        OBVIOUS
    <3>1. stream' = stream /\ (stream.pc = "off" \/ ~(Len(stream.ch) < ChanCap))
      <4>1. CASE stream.pc # "off" /\ Len(stream.ch) < ChanCap /\ stream' = [stream EXCEPT !.ch = Append(@, x)]
        <5>1. stream'.ch = Append(stream.ch, x)
            BY <1>2, <4>1 DEF Stream
        <5> QED  BY <1>3, <2>2, <5>1, OneMoreShown
      <4> QED  BY <2>4, <4>1
    <3>2. CASE stream.pc # "off"
      <4>1. Len(stream.ch) = ChanCap
          BY <2>1, <2>2, <3>1, <3>2 DEF StreamShape
      <4>2. x \in Excused(x)
          BY <3>2, <4>1 DEF Excused
      <4> QED  BY <1>1, <2>9, <4>2
    <3>3. CASE stream.pc = "off" /\ x > page.cursor
        BY <1>3, <2>7, <2>9, <3>3 DEF Coming
    <3>4. CASE ~(x > page.cursor)
      <4>1. x \in (page.first + 1)..page.cursor
          BY <1>3, <2>2, <3>4
      <4> QED  BY <1>2, <2>8, <2>9, <4>1
    <3> QED  BY <3>2, <3>3, <3>4
  <2>14. \A e \in (page'.first + 1)..stored' : e \in unsent' \cup OnTheWay' \cup ShownIn(stream'.ch)
      BY <1>2, <2>10, <2>12, <2>13
  <2>15. Flow'
      BY <2>8, <2>12, <2>14, FlowParts
  <2>16. StreamShape'
    <3>1. stream.pc # "off" \/ stream' = stream
        BY <2>4
    <3> QED  BY <1>2, <2>1, <2>3, <2>12, <3>1 DEF StreamShape
  <2> QED  BY <1>2, <1>5, <1>7, <2>1, <2>15, <2>16, LogsStay DEF FeedInv, TimelineInv
<1> QED  BY <1>6, <1>7

\* A stream starts where the browser stopped.
LEMMA SubscribeKeeps == ASSUME FeedInv, Subscribe PROVE FeedInv'
<1>1. /\ stream.pc = "off" /\ page.pc = "connect"
      /\ stream' = [NoStream EXCEPT !.pc = "catchup", !.after = page.cursor]
      /\ page' = [page EXCEPT !.pc = "connected"]
      /\ feed' = feed /\ stored' = stored /\ lines' = lines /\ wire' = wire /\ unsent' = unsent /\ excused' = excused
    BY DEF Subscribe
<1>2. stream \in Stream /\ page \in Page /\ page.cursor \in Nat
    BY DEF FeedInv, FeedTypeOK, Page
<1>3. /\ stream' = [pc |-> "catchup", ch |-> <<>>, buf |-> <<>>, hist |-> <<>>, maxSeq |-> -1, after |-> page.cursor]
    BY <1>1 DEF NoStream
<1>4. page' \in Page /\ page'.pc = "connected" /\ page'.shown = page.shown /\ page'.cursor = page.cursor
      /\ page'.first = page.first /\ page'.read = page.read /\ page'.dropped = page.dropped
    BY <1>1, <1>2 DEF Page
<1>5. stream' \in Stream
    BY <1>2, <1>3 DEF Stream
<1>6. FeedTypeOK'
    BY <1>1, <1>4, <1>5 DEF FeedInv, FeedTypeOK
<1>7. CASE feed # "event"
    BY <1>1, <1>4, <1>6, <1>7, LogsStay DEF FeedInv, TimelineInv
<1>8. CASE feed = "event"
  <2>1. stored = lines /\ Rising(page.shown) /\ StreamShape /\ Flow /\ stream = NoStream
      BY <1>1, <1>8 DEF FeedInv, TimelineInv, StreamShape
  <2>2. stream.hist = <<>> /\ stream.buf = <<>> /\ stream.ch = <<>> /\ stream.maxSeq = -1
      BY <2>1 DEF NoStream
  <2>3. Safe' = Safe
      BY <1>1, <1>4 DEF Safe, Overtaken
  <2>4. Coming' = Coming
      BY <1>1, <1>3 DEF Coming
  <2>5. /\ OnTheWay \subseteq OnTheWay'
        /\ \A e \in (page'.first + 1)..page'.cursor : e \in Safe'
        /\ \A e \in (page'.first + 1)..stream'.maxSeq : e \in Sent'
        /\ Tight(wire', page'.first, Safe') /\ Tight(stream'.hist, page'.first, Sent')
        /\ Tight(stream'.buf, page'.first, Queued') /\ Tight(stream'.ch, page'.first, OnTheWay')
      BY <1>1, <1>3, <1>4, <2>1, <2>2, <2>3, <2>4, FlowGrows DEF FeedInv
  <2>6. \A e \in (page'.first + 1)..stored' : e \in unsent' \cup OnTheWay' \cup ShownIn(stream'.ch)
      BY <1>1, <1>3, <1>4, <2>1, <2>2, <2>5 DEF Flow
  <2>7. Flow'
      BY <2>5, <2>6, FlowParts
  <2>8. Len(<<>>) = 0 /\ 0 <= ChanCap
      BY FeedAssumption DEF FeedAssumption
  <2>9. StreamShape'
      BY <1>1, <1>3, <1>4, <2>1, <2>8 DEF StreamShape
  <2> QED  BY <1>1, <1>4, <1>6, <1>8, <2>1, <2>7, <2>9, LogsStay DEF FeedInv, TimelineInv
<1> QED  BY <1>7, <1>8

\* What a read of the stored entries returns.
LEMMA ListProperties ==
    ASSUME stored \in Nat, NEW after \in Nat, NEW n \in Nat, NEW fine, \A e \in (n + 1)..after : e \in fine
    PROVE  /\ ListByTaskIDAfter(after) \in Seq(Nat) /\ Rising(ListByTaskIDAfter(after))
           /\ ShownIn(ListByTaskIDAfter(after)) = (after + 1)..stored
           /\ Tight(ListByTaskIDAfter(after), n, fine)
<1> DEFINE row == [i \in 1..(stored - after) |-> after + i]
<1>1. stored \in Int
    OBVIOUS
<1>2. row \in Seq(Nat) /\ Rising(row) /\ ShownIn(row) = (after + 1)..stored /\ Tight(row, n, fine)
    BY <1>1, TightRow
<1>3. ListByTaskIDAfter(after) = row
    BY DEF ListByTaskIDAfter
<1> QED  BY <1>2, <1>3

LEMMA TailProperties ==
    ASSUME stored \in Nat, NEW limit \in Nat
    PROVE  /\ TailLogs(limit) \in Seq(Nat) /\ Rising(TailLogs(limit))
           /\ ShownIn(TailLogs(limit)) = (stored - Len(TailLogs(limit)) + 1)..stored
           /\ Len(TailLogs(limit)) \in 0..stored
<1> DEFINE a == MaxOfSet({0, stored - limit})
<1>1. a \in 0..stored
  <2>1. stored - limit \in Int /\ stored - limit <= stored
      OBVIOUS
  <2>2. a = IF 0 <= stored - limit THEN stored - limit ELSE 0
      BY <2>1, GreaterOfTwo
  <2> QED  BY <2>1, <2>2
<1>2. TailLogs(limit) = ListByTaskIDAfter(a)
    BY DEF TailLogs
<1> HIDE DEF a
<1>3. \A e \in (stored + 1)..a : e \in {}
    BY <1>1
<1>4. /\ ListByTaskIDAfter(a) \in Seq(Nat) /\ Rising(ListByTaskIDAfter(a))
      /\ ShownIn(ListByTaskIDAfter(a)) = (a + 1)..stored
    BY <1>1, <1>3, ListProperties
<1>5. DOMAIN ListByTaskIDAfter(a) = 1..(stored - a)
    BY DEF ListByTaskIDAfter
<1>6. stored - a \in Nat /\ stored - (stored - a) = a
    BY <1>1
<1>7. Len(ListByTaskIDAfter(a)) = stored - a
    BY <1>4, <1>5, <1>6
<1> QED  BY <1>1, <1>2, <1>4, <1>6, <1>7

\* The stream reads what came after the browser's cursor: nothing in between is lost.
LEMMA CatchupKeeps == ASSUME FeedInv, Catchup PROVE FeedInv'
<1>1. /\ stream.pc = "catchup"
      /\ stream' = [stream EXCEPT !.pc = "history",
                                  !.hist = IF feed = "event" THEN ListByTaskIDAfter(stream.after) ELSE TailLogs(TailLimit)]
      /\ feed' = feed /\ stored' = stored /\ lines' = lines /\ wire' = wire /\ unsent' = unsent
      /\ excused' = excused /\ page' = page
    BY DEF Catchup
<1>2. stream \in Stream /\ page \in Page /\ stored \in Nat /\ stream.after \in Nat /\ page.first \in Nat /\ TailLimit \in Nat
    BY FeedAssumption DEF FeedInv, FeedTypeOK, Page, Stream, FeedAssumption
<1>3. stream'.hist = IF feed = "event" THEN ListByTaskIDAfter(stream.after) ELSE TailLogs(TailLimit)
    BY <1>1, <1>2 DEF Stream
<1>4. stream'.hist \in Seq(Nat)
  <2>1. ListByTaskIDAfter(stream.after) \in Seq(Nat)
    <3>1. \A e \in (stream.after + 1)..stream.after : e \in {}
        BY <1>2
    <3> QED  BY <1>2, <3>1, ListProperties
  <2>2. TailLogs(TailLimit) \in Seq(Nat)
      BY <1>2, TailProperties
  <2> QED  BY <1>3, <2>1, <2>2
<1>5. /\ stream' \in Stream /\ stream'.pc = "history" /\ stream'.ch = stream.ch /\ stream'.buf = stream.buf
      /\ stream'.maxSeq = stream.maxSeq /\ stream'.after = stream.after
    BY <1>1, <1>2, <1>3, <1>4 DEF Stream
<1>6. FeedTypeOK'
    BY <1>1, <1>5 DEF FeedInv, FeedTypeOK
<1>7. CASE feed # "event"
    BY <1>1, <1>6, <1>7, LogsStay DEF FeedInv, TimelineInv
<1>8. CASE feed = "event"
  <2>1. stored = lines /\ Rising(page.shown) /\ StreamShape /\ Flow
      BY <1>8 DEF FeedInv, TimelineInv
  <2>2. wire = <<>> /\ stream.hist = <<>> /\ stream.after = page.cursor /\ page.pc # "loading" /\ Len(stream.ch) <= ChanCap
      BY <1>1, <2>1 DEF StreamShape
  <2>3. Safe' = Safe /\ Sent' = Sent
      BY <1>1 DEF Safe, Overtaken, Sent
  <2>4. \A e \in (page.first + 1)..stream.after : e \in Sent
      BY <2>1, <2>2 DEF Flow, Sent
  <2>5. ShownIn(stream'.hist) = (stream.after + 1)..stored /\ Tight(stream'.hist, page.first, Sent)
      BY <1>2, <1>3, <1>8, <2>4, ListProperties
  <2>6. Coming = (stream.after + 1)..stored
      BY <1>1, <1>2 DEF Coming
  <2>7. Queued \subseteq Queued' /\ OnTheWay \subseteq OnTheWay'
    <3>1. ShownIn(stream.hist) = {}
        BY <2>2, NothingShown
    <3> QED  BY <1>5, <2>3, <2>5, <2>6, <3>1 DEF Queued, OnTheWay
  <2>8. /\ Tight(wire, page.first, Safe) /\ Tight(stream.buf, page.first, Queued) /\ Tight(stream.ch, page.first, OnTheWay)
      BY <2>1 DEF Flow
  <2>9. Tight(stream.buf, page.first, Queued') /\ Tight(stream.ch, page.first, OnTheWay')
    <3>1. Tight(stream.buf, page.first, Queued')
        BY <1>2, <2>7, <2>8, TightMore
    <3>2. Tight(stream.ch, page.first, OnTheWay')
        BY <1>2, <2>7, <2>8, TightMore
    <3> QED  BY <3>1, <3>2
  <2>10. \A e \in (page'.first + 1)..stored' : e \in unsent' \cup OnTheWay' \cup ShownIn(stream'.ch)
      BY <1>1, <1>5, <2>1, <2>7 DEF Flow
  <2>11. /\ \A e \in (page'.first + 1)..page'.cursor : e \in Safe'
         /\ \A e \in (page'.first + 1)..stream'.maxSeq : e \in Sent'
      BY <1>1, <1>5, <2>1, <2>3 DEF Flow
  <2>12. Flow'
      BY <1>1, <1>5, <2>3, <2>5, <2>8, <2>9, <2>10, <2>11, FlowParts
  <2>13. StreamShape'
      BY <1>1, <1>5, <2>1, <2>2 DEF StreamShape
  <2> QED  BY <1>1, <1>6, <1>8, <2>1, <2>12, <2>13, LogsStay DEF FeedInv, TimelineInv
<1> QED  BY <1>7, <1>8

\* An entry of the channel goes behind the buffer.
LEMMA BufferReceiveKeeps == ASSUME FeedInv, BufferReceive PROVE FeedInv'
<1> DEFINE x == Head(stream.ch)
<1>1. /\ stream.pc \in {"catchup", "history", "stopping"} /\ stream.ch # <<>>
      /\ stream' = [stream EXCEPT !.buf = Append(stream.buf, x), !.ch = Tail(stream.ch)]
      /\ feed' = feed /\ stored' = stored /\ lines' = lines /\ wire' = wire /\ unsent' = unsent
      /\ excused' = excused /\ page' = page
    BY DEF BufferReceive
<1>2. /\ stream \in Stream /\ page \in Page /\ stored \in Nat /\ page.first \in Nat
      /\ stream.ch \in Seq(Nat) /\ stream.buf \in Seq(Nat)
    BY DEF FeedInv, FeedTypeOK, Page, Stream
<1>3. /\ x \in Nat /\ Tail(stream.ch) \in Seq(Nat) /\ Len(Tail(stream.ch)) = Len(stream.ch) - 1
      /\ Len(stream.ch) \in Nat /\ ShownIn(stream.ch) = ShownIn(Tail(stream.ch)) \cup {x}
    BY <1>1, <1>2, FirstShown
<1>4. Append(stream.buf, x) \in Seq(Nat) /\ ShownIn(Append(stream.buf, x)) = ShownIn(stream.buf) \cup {x}
    BY <1>2, <1>3, OneMoreShown
<1> HIDE DEF x
<1>5. /\ stream' \in Stream /\ stream'.pc = stream.pc /\ stream'.ch = Tail(stream.ch)
      /\ stream'.buf = Append(stream.buf, x) /\ stream'.hist = stream.hist
      /\ stream'.maxSeq = stream.maxSeq /\ stream'.after = stream.after
    BY <1>1, <1>2, <1>3, <1>4 DEF Stream
<1>6. FeedTypeOK'
    BY <1>1, <1>5 DEF FeedInv, FeedTypeOK
<1>7. CASE feed # "event"
    BY <1>1, <1>6, <1>7, LogsStay DEF FeedInv, TimelineInv
<1>8. CASE feed = "event"
  <2>1. stored = lines /\ Rising(page.shown) /\ StreamShape /\ Flow
      BY <1>8 DEF FeedInv, TimelineInv
  <2>2. Safe' = Safe /\ Sent' = Sent /\ Coming' = Coming /\ Queued' = Queued
      BY <1>1, <1>5 DEF Safe, Overtaken, Sent, Coming, Queued
  <2>3. OnTheWay' = OnTheWay \cup {x}
      BY <1>4, <1>5, <2>2 DEF OnTheWay
  <2>4. /\ \A e \in (page.first + 1)..x : e \in OnTheWay \cup {x}
        /\ Tight(Tail(stream.ch), page.first, OnTheWay \cup {x})
      BY <1>1, <1>2, <2>1, TightTail DEF Flow, x
  <2>5. Tight(Append(stream.buf, x), page.first, Queued)
    <3>1. \A e \in (page.first + 1)..x : e \in Queued \cup ShownIn(stream.buf) \cup {x}
        BY <2>4 DEF OnTheWay
    <3> QED  BY <1>2, <1>3, <2>1, <3>1, TightAppend DEF Flow
  <2>6. \A e \in (page'.first + 1)..stored' : e \in unsent' \cup OnTheWay' \cup ShownIn(stream'.ch)
      BY <1>1, <1>3, <1>5, <2>1, <2>3 DEF Flow
  <2>7. /\ \A e \in (page'.first + 1)..page'.cursor : e \in Safe'
        /\ \A e \in (page'.first + 1)..stream'.maxSeq : e \in Sent'
        /\ Tight(wire', page'.first, Safe') /\ Tight(stream'.hist, page'.first, Sent')
      BY <1>1, <1>5, <2>1, <2>2 DEF Flow
  <2>8. Flow'
      BY <1>1, <1>5, <2>2, <2>3, <2>4, <2>5, <2>6, <2>7, FlowParts
  <2>9. Len(stream'.ch) <= ChanCap
      BY <1>3, <1>5, <2>1, FeedAssumption DEF StreamShape, FeedAssumption
  <2>10. StreamShape'
      BY <1>1, <1>5, <2>1, <2>9 DEF StreamShape
  <2> QED  BY <1>1, <1>6, <1>8, <2>1, <2>8, <2>10, LogsStay DEF FeedInv, TimelineInv
<1> QED  BY <1>7, <1>8

\* What is sent takes its place on the wire behind what was sent before.
LEMMA WireGrows ==
    ASSUME FeedTypeOK, Flow, NEW x \in Nat, wire' = Append(wire, x), Safe' = Safe, page'.first = page.first,
           \A e \in (page.first + 1)..x : e \in Sent \cup {x}
    PROVE  wire' \in Seq(Nat) /\ Sent' = Sent \cup {x} /\ Tight(wire', page'.first, Safe')
<1>1. wire \in Seq(Nat) /\ page.first \in Nat /\ Tight(wire, page.first, Safe)
    BY DEF FeedTypeOK, Page, Flow
<1>2. Append(wire, x) \in Seq(Nat) /\ ShownIn(Append(wire, x)) = ShownIn(wire) \cup {x}
    BY <1>1, OneMoreShown
<1>3. \A e \in (page.first + 1)..x : e \in Safe \cup ShownIn(wire) \cup {x}
    BY DEF Sent
<1>4. Tight(Append(wire, x), page.first, Safe)
    BY <1>1, <1>3, TightAppend
<1>5. Sent' = Sent \cup {x}
    BY <1>2 DEF Sent
<1> QED  BY <1>2, <1>4, <1>5

\* The first entry of the history goes on the wire.
LEMMA EmitHistoryKeeps == ASSUME FeedInv, EmitHistory PROVE FeedInv'
<1>1. /\ stream.pc = "history" /\ feed' = feed /\ stored' = stored /\ lines' = lines /\ unsent' = unsent
      /\ excused' = excused /\ page' = page
    BY DEF EmitHistory
<1>2. /\ stream \in Stream /\ page \in Page /\ stored \in Nat /\ page.first \in Nat /\ wire \in Seq(Nat)
      /\ stream.hist \in Seq(Nat) /\ stream.maxSeq \in Int
    BY DEF FeedInv, FeedTypeOK, Page, Stream
<1>3. CASE stream.hist = <<>>
  <2>1. stream' = [stream EXCEPT !.pc = "stopping"] /\ wire' = wire
      BY <1>3 DEF EmitHistory
  <2>2. /\ stream' \in Stream /\ stream'.pc = "stopping" /\ stream'.ch = stream.ch /\ stream'.buf = stream.buf
        /\ stream'.hist = stream.hist /\ stream'.maxSeq = stream.maxSeq /\ stream'.after = stream.after
      BY <1>2, <2>1 DEF Stream
  <2>3. FeedTypeOK'
      BY <1>1, <2>1, <2>2 DEF FeedInv, FeedTypeOK
  <2>4. CASE feed # "event"
      BY <1>1, <2>3, <2>4, LogsStay DEF FeedInv, TimelineInv
  <2>5. CASE feed = "event"
    <3>1. stored = lines /\ Rising(page.shown) /\ StreamShape /\ Flow
        BY <2>5 DEF FeedInv, TimelineInv
    <3>2. Safe' = Safe /\ Coming' = Coming
        BY <1>1, <2>2 DEF Safe, Overtaken, Coming
    <3>3. Sent' = Sent /\ Queued' = Queued /\ OnTheWay' = OnTheWay
        BY <2>1, <2>2, <3>2 DEF Sent, Queued, OnTheWay
    <3>4. Flow'
        BY <1>1, <2>1, <2>2, <3>1, <3>2, <3>3 DEF Flow
    <3>5. StreamShape'
        BY <1>1, <1>3, <2>1, <2>2, <3>1 DEF StreamShape
    <3> QED  BY <1>1, <2>3, <2>5, <3>1, <3>4, <3>5, LogsStay DEF FeedInv, TimelineInv
  <2> QED  BY <2>4, <2>5
<1>4. CASE stream.hist # <<>>
  <2> DEFINE x == Head(stream.hist)
             m == MaxOfSet({stream.maxSeq, x})
  <2>1. stream' = [stream EXCEPT !.hist = Tail(stream.hist), !.maxSeq = m] /\ wire' = Append(wire, x)
      BY <1>4 DEF EmitHistory
  <2>2. x \in Nat /\ Tail(stream.hist) \in Seq(Nat) /\ ShownIn(stream.hist) = ShownIn(Tail(stream.hist)) \cup {x}
      BY <1>2, <1>4, FirstShown
  <2>3. m = IF stream.maxSeq <= x THEN x ELSE stream.maxSeq
    <3> HIDE DEF x
    <3>1. x \in Int
        BY <2>2
    <3> QED  BY <1>2, <3>1, GreaterOfTwo
  <2>4. Append(wire, x) \in Seq(Nat)
      BY <1>2, <2>2, OneMoreShown
  <2>5. Tight(stream.hist, page.first, Sent) => /\ \A e \in (page.first + 1)..x : e \in Sent \cup {x}
                                                /\ Tight(Tail(stream.hist), page.first, Sent \cup {x})
      BY <1>2, <1>4, TightTail
  <2> HIDE DEF x, m
  <2>6. /\ stream' \in Stream /\ stream'.pc = stream.pc /\ stream'.ch = stream.ch /\ stream'.buf = stream.buf
        /\ stream'.hist = Tail(stream.hist) /\ stream'.maxSeq = m /\ stream'.after = stream.after
    <3>1. m \in Int
        BY <1>2, <2>2, <2>3
    <3> QED  BY <1>2, <2>1, <2>2, <3>1 DEF Stream
  <2>7. FeedTypeOK'
      BY <1>1, <2>1, <2>4, <2>6 DEF FeedInv, FeedTypeOK
  <2>8. CASE feed # "event"
      BY <1>1, <2>7, <2>8, LogsStay DEF FeedInv, TimelineInv
  <2>9. CASE feed = "event"
    <3>1. stored = lines /\ Rising(page.shown) /\ StreamShape /\ Flow
        BY <2>9 DEF FeedInv, TimelineInv
    <3>2. Safe' = Safe /\ Coming' = Coming
        BY <1>1, <2>6 DEF Safe, Overtaken, Coming
    <3>3. (\A e \in (page.first + 1)..x : e \in Sent \cup {x}) /\ Tight(Tail(stream.hist), page.first, Sent \cup {x})
        BY <2>5, <3>1 DEF Flow
    <3>4. Sent' = Sent \cup {x} /\ Tight(wire', page'.first, Safe')
        BY <1>1, <2>1, <2>2, <3>1, <3>2, <3>3, WireGrows DEF FeedInv
    <3>5. Queued' = Queued /\ OnTheWay' = OnTheWay
        BY <2>2, <2>6, <3>2, <3>4 DEF Queued, OnTheWay
    <3>6. Tight(stream'.hist, page'.first, Sent')
        BY <1>1, <2>6, <3>3, <3>4
    <3>7. Tight(stream'.buf, page'.first, Queued') /\ Tight(stream'.ch, page'.first, OnTheWay')
        BY <1>1, <2>6, <3>1, <3>5 DEF Flow
    <3>8. \A e \in (page'.first + 1)..page'.cursor : e \in Safe'
        BY <1>1, <3>1, <3>2 DEF Flow
    <3>9. \A e \in (page'.first + 1)..stream'.maxSeq : e \in Sent'
      <4>1. \A e \in (page.first + 1)..stream.maxSeq : e \in Sent
          BY <3>1 DEF Flow
      <4>2. \A e \in (page.first + 1)..m : e \in Sent \cup {x}
          BY <2>3, <3>3, <4>1
      <4> QED  BY <1>1, <2>6, <3>4, <4>2
    <3>10. \A e \in (page'.first + 1)..stored' : e \in unsent' \cup OnTheWay' \cup ShownIn(stream'.ch)
        BY <1>1, <2>6, <3>1, <3>5 DEF Flow
    <3>11. Flow'
        BY <3>4, <3>6, <3>7, <3>8, <3>9, <3>10, FlowParts
    <3>12. StreamShape'
        BY <1>1, <2>6, <3>1 DEF StreamShape
    <3> QED  BY <1>1, <2>7, <2>9, <3>1, <3>11, <3>12, LogsStay DEF FeedInv, TimelineInv
  <2> QED  BY <2>8, <2>9
<1> QED  BY <1>3, <1>4

\* The buffer is closed with the channel.
LEMMA BufferDetachedKeeps == ASSUME FeedInv, BufferDetached PROVE FeedInv'
<1>1. /\ stream.pc = "stopping" /\ stream' = [stream EXCEPT !.pc = "buffer"]
      /\ feed' = feed /\ stored' = stored /\ lines' = lines /\ wire' = wire /\ unsent' = unsent
      /\ excused' = excused /\ page' = page
    BY DEF BufferDetached
<1>2. stream \in Stream
    BY DEF FeedInv, FeedTypeOK
<1>3. /\ stream' \in Stream /\ stream'.pc = "buffer" /\ stream'.ch = stream.ch /\ stream'.buf = stream.buf
      /\ stream'.hist = stream.hist /\ stream'.maxSeq = stream.maxSeq /\ stream'.after = stream.after
    BY <1>1, <1>2 DEF Stream
<1>4. FeedTypeOK'
    BY <1>1, <1>3 DEF FeedInv, FeedTypeOK
<1>5. CASE feed # "event"
    BY <1>1, <1>4, <1>5, LogsStay DEF FeedInv, TimelineInv
<1>6. CASE feed = "event"
  <2>1. stored = lines /\ Rising(page.shown) /\ StreamShape /\ Flow
      BY <1>6 DEF FeedInv, TimelineInv
  <2>2. Safe' = Safe /\ Coming' = Coming
      BY <1>1, <1>3 DEF Safe, Overtaken, Coming
  <2>3. Sent' = Sent /\ Queued' = Queued /\ OnTheWay' = OnTheWay
      BY <1>1, <1>3, <2>2 DEF Sent, Queued, OnTheWay
  <2>4. Flow'
      BY <1>1, <1>3, <2>1, <2>2, <2>3 DEF Flow
  <2>5. StreamShape'
      BY <1>1, <1>3, <2>1 DEF StreamShape
  <2> QED  BY <1>1, <1>4, <1>6, <2>1, <2>4, <2>5, LogsStay DEF FeedInv, TimelineInv
<1> QED  BY <1>5, <1>6

\* An entry of the buffer goes on the wire unless the history had it.
LEMMA EmitBufferKeeps == ASSUME FeedInv, EmitBuffer PROVE FeedInv'
<1>1. /\ stream.pc = "buffer" /\ feed' = feed /\ stored' = stored /\ lines' = lines /\ unsent' = unsent
      /\ excused' = excused /\ page' = page
    BY DEF EmitBuffer
<1>2. /\ stream \in Stream /\ page \in Page /\ stored \in Nat /\ page.first \in Nat /\ wire \in Seq(Nat)
      /\ stream.buf \in Seq(Nat) /\ stream.ch \in Seq(Nat) /\ stream.maxSeq \in Int
    BY DEF FeedInv, FeedTypeOK, Page, Stream
<1>3. CASE stream.buf = <<>>
  <2>1. stream' = [stream EXCEPT !.pc = "live"] /\ wire' = wire
      BY <1>3 DEF EmitBuffer
  <2>2. /\ stream' \in Stream /\ stream'.pc = "live" /\ stream'.ch = stream.ch /\ stream'.buf = stream.buf
        /\ stream'.hist = stream.hist /\ stream'.maxSeq = stream.maxSeq /\ stream'.after = stream.after
      BY <1>2, <2>1 DEF Stream
  <2>3. FeedTypeOK'
      BY <1>1, <2>1, <2>2 DEF FeedInv, FeedTypeOK
  <2>4. CASE feed # "event"
      BY <1>1, <2>3, <2>4, LogsStay DEF FeedInv, TimelineInv
  <2>5. CASE feed = "event"
    <3>1. stored = lines /\ Rising(page.shown) /\ StreamShape /\ Flow
        BY <2>5 DEF FeedInv, TimelineInv
    <3>2. Safe' = Safe /\ Coming' = Coming
        BY <1>1, <2>2 DEF Safe, Overtaken, Coming
    <3>3. Sent' = Sent /\ Queued' = Queued /\ OnTheWay' = OnTheWay
        BY <2>1, <2>2, <3>2 DEF Sent, Queued, OnTheWay
    <3>4. Flow'
        BY <1>1, <2>1, <2>2, <3>1, <3>2, <3>3 DEF Flow
    <3>5. StreamShape'
        BY <1>1, <1>3, <2>1, <2>2, <3>1 DEF StreamShape
    <3> QED  BY <1>1, <2>3, <2>5, <3>1, <3>4, <3>5, LogsStay DEF FeedInv, TimelineInv
  <2> QED  BY <2>4, <2>5
<1>4. CASE stream.buf # <<>>
  <2> DEFINE x == Head(stream.buf)
             send == feed # "event" \/ x > stream.maxSeq
  <2>1. /\ stream' = [stream EXCEPT !.buf = Tail(stream.buf), !.maxSeq = IF send THEN x ELSE stream.maxSeq]
        /\ wire' = IF send THEN Append(wire, x) ELSE wire
      BY <1>4 DEF EmitBuffer
  <2>2. x \in Nat /\ Tail(stream.buf) \in Seq(Nat) /\ ShownIn(stream.buf) = ShownIn(Tail(stream.buf)) \cup {x}
      BY <1>2, <1>4, FirstShown
  <2>3. Append(wire, x) \in Seq(Nat)
      BY <1>2, <2>2, OneMoreShown
  <2>4. Tight(stream.buf, page.first, Queued) => /\ \A e \in (page.first + 1)..x : e \in Queued \cup {x}
                                                 /\ Tight(Tail(stream.buf), page.first, Queued \cup {x})
      BY <1>2, <1>4, TightTail
  <2> HIDE DEF x
  <2>5. /\ stream'.pc = stream.pc /\ stream'.ch = stream.ch
        /\ stream'.buf = Tail(stream.buf) /\ stream'.hist = stream.hist
        /\ stream'.maxSeq = (IF send THEN x ELSE stream.maxSeq) /\ stream'.after = stream.after
      BY <1>2, <2>1 DEF Stream
  <2>6. stream' \in Stream /\ wire' \in Seq(Nat)
    <3>1. (IF send THEN x ELSE stream.maxSeq) \in Int
        BY <1>2, <2>2
    <3> HIDE DEF send
    <3> QED  BY <1>2, <2>1, <2>2, <2>3, <3>1 DEF Stream
  <2>7. FeedTypeOK'
      BY <1>1, <2>6 DEF FeedInv, FeedTypeOK
  <2>8. CASE feed # "event"
      BY <1>1, <2>7, <2>8, LogsStay DEF FeedInv, TimelineInv
  <2>9. CASE feed = "event"
    <3>1. stored = lines /\ Rising(page.shown) /\ StreamShape /\ Flow
        BY <2>9 DEF FeedInv, TimelineInv
    <3>2. Safe' = Safe /\ Coming' = {} /\ Coming = {} /\ stream.hist = <<>>
        BY <1>1, <2>5, <3>1 DEF Safe, Overtaken, Coming, StreamShape
    <3>3. Queued = Sent /\ Queued' = Sent'
        BY <2>5, <3>2, NothingShown DEF Queued
    <3>4. /\ \A e \in (page.first + 1)..x : e \in Sent \cup {x}
          /\ Tight(Tail(stream.buf), page.first, Sent \cup {x})
          /\ Tight(stream.hist, page.first, Sent) /\ Tight(stream.ch, page.first, OnTheWay)
          /\ \A e \in (page.first + 1)..stream.maxSeq : e \in Sent
        BY <2>4, <3>1, <3>3 DEF Flow
    <3>5. Sent \subseteq Sent' /\ (\A e \in Sent \cup {x} : e \in Sent' \/ e \in 0..page.first)
          /\ Tight(wire', page'.first, Safe')
          /\ \A e \in (page'.first + 1)..stream'.maxSeq : e \in Sent'
      <4>1. CASE send
        <5>1. wire' = Append(wire, x) /\ stream'.maxSeq = x
            BY <2>1, <2>5, <4>1
        <5>2. Sent' = Sent \cup {x} /\ Tight(wire', page'.first, Safe')
            BY <1>1, <2>2, <3>1, <3>2, <3>4, <5>1, WireGrows DEF FeedInv
        <5> QED  BY <1>1, <3>4, <5>1, <5>2
      <4>2. CASE ~send
        <5>1. wire' = wire /\ stream'.maxSeq = stream.maxSeq /\ ~(x > stream.maxSeq)
            BY <2>1, <2>5, <4>2
        <5>2. Sent' = Sent
            BY <3>2, <5>1 DEF Sent
        <5>3. x \in Sent \/ x \in 0..page.first
            BY <1>2, <2>2, <3>4, <5>1, SMTT(30)
        <5>4. Tight(wire', page'.first, Safe')
            BY <1>1, <3>1, <3>2, <5>1 DEF Flow
        <5> QED  BY <1>1, <3>4, <5>1, <5>2, <5>3, <5>4
      <4> QED  BY <4>1, <4>2
    <3>6. Tight(stream'.hist, page'.first, Sent') /\ Tight(stream'.buf, page'.first, Queued')
      <4>1. Tight(stream.hist, page.first, Sent')
          BY <3>2, TightEmpty
      <4>2. Tight(Tail(stream.buf), page.first, Sent')
          BY <1>2, <3>4, <3>5, TightMore
      <4> QED  BY <1>1, <2>5, <3>3, <4>1, <4>2
    <3>7. \A e \in OnTheWay : e \in OnTheWay' \/ e \in 0..page.first
        BY <2>2, <2>5, <3>3, <3>5 DEF OnTheWay
    <3>8. Tight(stream'.ch, page'.first, OnTheWay')
      <4>1. Tight(stream.ch, page.first, OnTheWay')
          BY <1>2, <3>4, <3>7, TightMore
      <4> QED  BY <1>1, <2>5, <4>1
    <3>9. \A e \in (page'.first + 1)..page'.cursor : e \in Safe'
        BY <1>1, <3>1, <3>2 DEF Flow
    <3>10. \A e \in (page'.first + 1)..stored' : e \in unsent' \cup OnTheWay' \cup ShownIn(stream'.ch)
      <4>1. \A e \in (page.first + 1)..stored : e \in unsent \cup OnTheWay \cup ShownIn(stream.ch) /\ e \notin 0..page.first
          BY <1>2, <3>1 DEF Flow
      <4> QED  BY <1>1, <2>5, <3>7, <4>1
    <3>11. Flow'
        BY <3>5, <3>6, <3>8, <3>9, <3>10, FlowParts
    <3>12. StreamShape'
        BY <1>1, <2>5, <3>1 DEF StreamShape
    <3> QED  BY <1>1, <2>7, <2>9, <3>1, <3>11, <3>12, LogsStay DEF FeedInv, TimelineInv
  <2> QED  BY <2>8, <2>9
<1> QED  BY <1>3, <1>4

\* An entry of the channel goes on the wire.
LEMMA EmitLiveKeeps == ASSUME FeedInv, EmitLive PROVE FeedInv'
<1> DEFINE x == Head(stream.ch)
<1>1. /\ stream.pc = "live" /\ stream.ch # <<>>
      /\ stream' = [stream EXCEPT !.ch = Tail(stream.ch)] /\ wire' = Append(wire, x)
      /\ feed' = feed /\ stored' = stored /\ lines' = lines /\ unsent' = unsent
      /\ excused' = excused /\ page' = page
    BY DEF EmitLive
<1>2. /\ stream \in Stream /\ page \in Page /\ stored \in Nat /\ page.first \in Nat /\ wire \in Seq(Nat)
      /\ stream.ch \in Seq(Nat)
    BY DEF FeedInv, FeedTypeOK, Page, Stream
<1>3. /\ x \in Nat /\ Tail(stream.ch) \in Seq(Nat) /\ Len(Tail(stream.ch)) = Len(stream.ch) - 1
      /\ Len(stream.ch) \in Nat /\ ShownIn(stream.ch) = ShownIn(Tail(stream.ch)) \cup {x}
    BY <1>1, <1>2, FirstShown
<1>4. Append(wire, x) \in Seq(Nat)
    BY <1>2, <1>3, OneMoreShown
<1>5. Tight(stream.ch, page.first, OnTheWay) => /\ \A e \in (page.first + 1)..x : e \in OnTheWay \cup {x}
                                            /\ Tight(Tail(stream.ch), page.first, OnTheWay \cup {x})
    BY <1>1, <1>2, TightTail
<1> HIDE DEF x
<1>6. /\ stream' \in Stream /\ stream'.pc = stream.pc /\ stream'.ch = Tail(stream.ch)
      /\ stream'.buf = stream.buf /\ stream'.hist = stream.hist
      /\ stream'.maxSeq = stream.maxSeq /\ stream'.after = stream.after
    BY <1>1, <1>2, <1>3 DEF Stream
<1>7. FeedTypeOK'
    BY <1>1, <1>4, <1>6 DEF FeedInv, FeedTypeOK
<1>8. CASE feed # "event"
    BY <1>1, <1>7, <1>8, LogsStay DEF FeedInv, TimelineInv
<1>9. CASE feed = "event"
  <2>1. stored = lines /\ Rising(page.shown) /\ StreamShape /\ Flow
      BY <1>9 DEF FeedInv, TimelineInv
  <2>2. /\ Safe' = Safe /\ Coming' = {} /\ Coming = {} /\ stream.hist = <<>> /\ stream.buf = <<>>
        /\ stream'.hist = <<>> /\ stream'.buf = <<>>
      BY <1>1, <1>6, <2>1 DEF Safe, Overtaken, Coming, StreamShape
  <2>3. OnTheWay = Sent /\ Queued' = Sent' /\ OnTheWay' = Sent'
      BY <2>2, NothingShown DEF Queued, OnTheWay
  <2>4. (\A e \in (page.first + 1)..x : e \in Sent \cup {x}) /\ Tight(Tail(stream.ch), page.first, Sent \cup {x})
      BY <1>5, <2>1, <2>3 DEF Flow
  <2>5. Sent' = Sent \cup {x} /\ Tight(wire', page'.first, Safe')
      BY <1>1, <1>3, <2>1, <2>2, <2>4, WireGrows DEF FeedInv
  <2>6. Tight(stream'.hist, page'.first, Sent') /\ Tight(stream'.buf, page'.first, Queued')
      BY <2>2, TightEmpty
  <2>7. Tight(stream'.ch, page'.first, OnTheWay')
      BY <1>1, <1>6, <2>3, <2>4, <2>5
  <2>8. /\ \A e \in (page'.first + 1)..page'.cursor : e \in Safe'
        /\ \A e \in (page'.first + 1)..stream'.maxSeq : e \in Sent'
      BY <1>1, <1>6, <2>1, <2>2, <2>5 DEF Flow
  <2>9. \A e \in (page'.first + 1)..stored' : e \in unsent' \cup OnTheWay' \cup ShownIn(stream'.ch)
      BY <1>1, <1>3, <1>6, <2>1, <2>3, <2>5 DEF Flow
  <2>10. Flow'
      BY <2>5, <2>6, <2>7, <2>8, <2>9, FlowParts
  <2>11. Len(stream'.ch) <= ChanCap
      BY <1>3, <1>6, <2>1, FeedAssumption DEF StreamShape, FeedAssumption
  <2>12. StreamShape'
      BY <1>1, <1>6, <2>1, <2>11 DEF StreamShape
  <2> QED  BY <1>1, <1>7, <1>9, <2>1, <2>10, <2>12, LogsStay DEF FeedInv, TimelineInv
<1> QED  BY <1>8, <1>9

\* What was on its way is read again from the browser's cursor.
LEMMA DisconnectKeeps == ASSUME FeedInv, Disconnect PROVE FeedInv'
<1>1. /\ page.pc = "connected" /\ stream' = NoStream /\ wire' = <<>>
      /\ page' = [page EXCEPT !.pc = "connect", !.breaks = @ + 1]
      /\ feed' = feed /\ stored' = stored /\ lines' = lines /\ unsent' = unsent /\ excused' = excused
    BY DEF Disconnect
<1>2. page \in Page /\ page.first \in Nat /\ page.cursor \in Nat /\ stored \in Nat
    BY DEF FeedInv, FeedTypeOK, Page
<1>3. page' \in Page /\ page'.pc = "connect" /\ page'.shown = page.shown /\ page'.cursor = page.cursor
      /\ page'.first = page.first /\ page'.read = page.read /\ page'.dropped = page.dropped
  <2>1. page.breaks + 1 \in Nat
      BY <1>2 DEF Page
  <2> QED  BY <1>1, <1>2, <2>1 DEF Page
<1>4. /\ stream' \in Stream /\ stream'.pc = "off" /\ stream'.ch = <<>> /\ stream'.buf = <<>> /\ stream'.hist = <<>>
      /\ stream'.maxSeq = -1
    BY <1>1 DEF NoStream, Stream
<1>5. FeedTypeOK'
    BY <1>1, <1>3, <1>4 DEF FeedInv, FeedTypeOK
<1>6. CASE feed # "event"
    BY <1>1, <1>3, <1>5, <1>6, LogsStay DEF FeedInv, TimelineInv
<1>7. CASE feed = "event"
  <2>1. stored = lines /\ Rising(page.shown) /\ Flow
      BY <1>7 DEF FeedInv, TimelineInv
  <2>2. Safe' = Safe
      BY <1>1, <1>3 DEF Safe, Overtaken
  <2>3. \A e \in (page'.first + 1)..page'.cursor : e \in Safe'
      BY <1>3, <2>1, <2>2 DEF Flow
  <2>4. \A e \in (page'.first + 1)..stream'.maxSeq : e \in Sent'
      BY <1>2, <1>3, <1>4
  <2>5. /\ Tight(wire', page'.first, Safe') /\ Tight(stream'.hist, page'.first, Sent')
        /\ Tight(stream'.buf, page'.first, Queued') /\ Tight(stream'.ch, page'.first, OnTheWay')
      BY <1>1, <1>4, TightEmpty
  <2>6. \A e \in (page'.first + 1)..stored' : e \in unsent' \cup OnTheWay' \cup ShownIn(stream'.ch)
    <3> TAKE e \in (page'.first + 1)..stored'
    <3>1. e \in (page'.first + 1)..page'.cursor \/ e > page'.cursor
        BY <1>1, <1>2, <1>3
    <3>2. e > page'.cursor => e \in Coming'
        BY <1>1, <1>2, <1>3, <1>4 DEF Coming
    <3>3. Safe' \subseteq OnTheWay' /\ Coming' \subseteq OnTheWay'
        BY DEF Sent, Queued, OnTheWay
    <3> QED  BY <2>3, <3>1, <3>2, <3>3
  <2>7. Flow'
      BY <2>3, <2>4, <2>5, <2>6, FlowParts
  <2>8. Len(<<>>) = 0 /\ 0 <= ChanCap
      BY FeedAssumption DEF FeedAssumption
  <2>9. StreamShape'
      BY <1>1, <1>3, <1>4, <2>8 DEF StreamShape
  <2> QED  BY <1>1, <1>3, <1>5, <1>7, <2>1, <2>7, <2>9, LogsStay DEF FeedInv, TimelineInv
<1> QED  BY <1>6, <1>7

\* The first page is the end of the history, and the stream starts after it.
LEMMA LoadTimelineKeeps == ASSUME FeedInv, LoadTimeline PROVE FeedInv'
<1> DEFINE latest == ListByTaskIDPaginated(TailLimit)
<1>1. /\ page.pc = "loading" /\ stream' = stream /\ wire' = wire
      /\ feed' = feed /\ stored' = stored /\ lines' = lines /\ unsent' = unsent /\ excused' = excused
      /\ \/ page' = [page EXCEPT !.pc = "connect", !.first = stored - Len(latest), !.cursor = stored, !.shown = latest]
         \/ page' = [page EXCEPT !.pc = "connect"]
    BY DEF LoadTimeline
<1>2. page \in Page /\ page.first \in Nat /\ page.cursor \in Nat /\ stored \in Nat
    BY DEF FeedInv, FeedTypeOK, Page
<1>3. /\ latest \in Seq(Nat) /\ Rising(latest) /\ Len(latest) \in 0..stored
      /\ ShownIn(latest) = (stored - Len(latest) + 1)..stored
    BY <1>2, TailProperties, FeedAssumption DEF ListByTaskIDPaginated, FeedAssumption
<1> HIDE DEF latest
<1>4. page' \in Page /\ page'.pc = "connect"
  <2>1. stored - Len(latest) \in Nat
      BY <1>2, <1>3
  <2>2. CASE page' = [page EXCEPT !.pc = "connect"]
      BY <1>2, <2>2 DEF Page
  <2>3. CASE page' = [page EXCEPT !.pc = "connect", !.first = stored - Len(latest), !.cursor = stored, !.shown = latest]
      BY <1>2, <1>3, <2>1, <2>3 DEF Page
  <2> QED  BY <1>1, <2>2, <2>3
<1>5. FeedTypeOK'
    BY <1>1, <1>4 DEF FeedInv, FeedTypeOK
<1>6. CASE feed = "event"
  <2>1. stored = lines /\ Rising(page.shown) /\ StreamShape /\ Flow /\ stream = NoStream /\ wire = <<>>
      BY <1>1, <1>6 DEF FeedInv, TimelineInv, StreamShape
  <2>2. /\ stream.pc = "off" /\ stream.hist = <<>> /\ stream.buf = <<>> /\ stream.ch = <<>> /\ stream.maxSeq = -1
      BY <2>1 DEF NoStream
  <2>3. Rising(page'.shown) /\ Flow'
    <3>1. CASE page' = [page EXCEPT !.pc = "connect"]
      <4>1. page'.shown = page.shown /\ page'.cursor = page.cursor /\ page'.first = page.first
          BY <1>2, <3>1 DEF Page
      <4>2. Safe' = Safe /\ Coming' = Coming
          BY <1>1, <4>1 DEF Safe, Overtaken, Coming
      <4>3. Sent' = Sent /\ Queued' = Queued /\ OnTheWay' = OnTheWay
          BY <1>1, <4>2 DEF Sent, Queued, OnTheWay
      <4> QED  BY <1>1, <2>1, <4>1, <4>2, <4>3 DEF Flow
    <3>2. CASE page' = [page EXCEPT !.pc = "connect", !.first = stored - Len(latest), !.cursor = stored, !.shown = latest]
      <4>1. page'.shown = latest /\ page'.cursor = stored /\ page'.first = stored - Len(latest) /\ page'.first \in Nat
          BY <1>2, <1>3, <3>2 DEF Page
      <4>2. \A e \in (page'.first + 1)..stored : e \in Safe' /\ e \in OnTheWay'
        <5>1. \A e \in (page'.first + 1)..stored : e \in ShownIn(page'.shown)
            BY <1>3, <4>1
        <5> QED  BY <5>1 DEF Safe, Sent, Queued, OnTheWay
      <4>3. \A e \in (page'.first + 1)..stream'.maxSeq : e \in Sent'
          BY <1>1, <2>2, <4>1
      <4>4. /\ Tight(wire', page'.first, Safe') /\ Tight(stream'.hist, page'.first, Sent')
            /\ Tight(stream'.buf, page'.first, Queued') /\ Tight(stream'.ch, page'.first, OnTheWay')
          BY <1>1, <2>1, <2>2, TightEmpty
      <4>5. Flow'
          BY <1>1, <4>1, <4>2, <4>3, <4>4, FlowParts
      <4> QED  BY <1>3, <4>1, <4>5
    <3> QED  BY <1>1, <3>1, <3>2
  <2>4. StreamShape'
      BY <1>1, <1>4, <2>1 DEF StreamShape
  <2> QED  BY <1>1, <1>5, <1>6, <2>1, <2>3, <2>4 DEF FeedInv, TimelineInv, LogsInv
<1>7. CASE feed # "event"
    BY <1>1, <1>7 DEF FeedInv, LogsInv
<1> QED  BY <1>6, <1>7

\* The logs appended, and how many that cut off.
LEMMA WithLogsProperties ==
    ASSUME page \in Page, Unlike(page.shown), NEW new \in Seq(Nat), Unlike(new)
    PROVE  /\ WithLogs(new) \in Page /\ Unlike(WithLogs(new).shown)
           /\ WithLogs(new).pc = page.pc /\ WithLogs(new).read = page.read
           /\ \/ WithLogs(new).dropped = page.dropped /\ ShownIn(WithLogs(new).shown) = ShownIn(page.shown) \cup ShownIn(new)
              \/ WithLogs(new).dropped > 0
<1> DEFINE added == AppendUniqueLogs(page.shown, new)
<1>1. /\ added.shown \in Seq(Nat) /\ Unlike(added.shown) /\ added.over \in Nat
      /\ added.over = 0 => ShownIn(added.shown) = ShownIn(page.shown) \cup ShownIn(new)
  <2>1. page.shown \in Seq(Nat)
      BY DEF Page
  <2> QED  BY <2>1, AppendLogsProperties
<1> HIDE DEF added
<1>2. WithLogs(new) = [page EXCEPT !.shown = added.shown, !.dropped = @ + added.over]
    BY DEF WithLogs, added
<1>3. page.dropped \in Nat
    BY DEF Page
<1>4. /\ WithLogs(new) \in Page /\ WithLogs(new).shown = added.shown /\ WithLogs(new).pc = page.pc
      /\ WithLogs(new).read = page.read /\ WithLogs(new).dropped = page.dropped + added.over
  <2>1. page.dropped + added.over \in Nat
      BY <1>1, <1>3
  <2> QED  BY <1>1, <1>2, <2>1 DEF Page
<1>5. added.over = 0 \/ page.dropped + added.over > 0
    BY <1>1, <1>3
<1> QED  BY <1>1, <1>3, <1>4, <1>5

LEMMA ListLogsProperties ==
    ASSUME stored \in Nat
    PROVE  ListLogs \in Seq(Nat) /\ Unlike(ListLogs) /\ ShownIn(ListLogs) = 1..stored
<1>1. \A e \in (stored + 1)..0 : e \in {}
    OBVIOUS
<1>2. ListLogs \in Seq(Nat) /\ Rising(ListLogs) /\ ShownIn(ListLogs) = (0 + 1)..stored
    BY <1>1, ListProperties DEF ListLogs
<1>3. Unlike(ListLogs)
  <2> SUFFICES ASSUME NEW i \in DOMAIN ListLogs, NEW j \in DOMAIN ListLogs, i # j PROVE ListLogs[i] # ListLogs[j]
      BY DEF Unlike
  <2>1. i \in Nat /\ j \in Nat /\ ListLogs[i] \in Nat /\ ListLogs[j] \in Nat
      BY <1>2
  <2>2. i < j \/ j < i
      BY <2>1
  <2> QED  BY <1>2, <2>1, <2>2 DEF Rising
<1> QED  BY <1>2, <1>3

\* What arrives is shown.
LEMMA ReceiveKeeps == ASSUME FeedInv, Receive PROVE FeedInv'
<1> DEFINE x == Head(wire)
<1>1. /\ page.pc = "connected" /\ wire # <<>> /\ wire' = Tail(wire) /\ stream' = stream
      /\ feed' = feed /\ stored' = stored /\ lines' = lines /\ unsent' = unsent /\ excused' = excused
      /\ page' = IF feed = "event" THEN [page EXCEPT !.shown = MergeEvents(page.shown, x), !.cursor = x]
                                   ELSE WithLogs(<<x>>)
    BY DEF Receive
<1>2. page \in Page /\ wire \in Seq(Nat) /\ page.shown \in Seq(Nat) /\ page.first \in Nat /\ stored \in Nat
    BY DEF FeedInv, FeedTypeOK, Page
<1>3. x \in Nat /\ Tail(wire) \in Seq(Nat) /\ ShownIn(wire) = ShownIn(Tail(wire)) \cup {x}
    BY <1>1, <1>2, FirstShown
<1>4. Tight(wire, page.first, Safe) => /\ \A e \in (page.first + 1)..x : e \in Safe \cup {x}
                                       /\ Tight(Tail(wire), page.first, Safe \cup {x})
    BY <1>1, <1>2, TightTail
<1> HIDE DEF x
<1>5. CASE feed # "event"
  <2>1. Unlike(<<x>>) /\ <<x>> \in Seq(Nat)
      BY <1>3 DEF Unlike
  <2>2. page' = WithLogs(<<x>>) /\ LogsInv /\ Unlike(page.shown)
      BY <1>1, <1>5 DEF FeedInv, LogsInv
  <2>3. /\ page' \in Page /\ Unlike(page'.shown) /\ page'.read = page.read /\ page'.pc = page.pc
        /\ \/ page'.dropped = page.dropped /\ ShownIn(page'.shown) = ShownIn(page.shown) \cup ShownIn(<<x>>)
           \/ page'.dropped > 0
      BY <1>2, <2>1, <2>2, WithLogsProperties
  <2>4. FeedTypeOK'
      BY <1>1, <1>3, <2>3 DEF FeedInv, FeedTypeOK
  <2>5. LogsInv'
      BY <1>1, <1>5, <2>2, <2>3 DEF LogsInv
  <2> QED  BY <1>1, <1>5, <2>4, <2>5 DEF FeedInv, TimelineInv
<1>6. CASE feed = "event"
  <2>1. stored = lines /\ Rising(page.shown) /\ StreamShape /\ Flow
      BY <1>6 DEF FeedInv, TimelineInv
  <2>2. /\ MergeEvents(page.shown, x) \in Seq(Nat) /\ Rising(MergeEvents(page.shown, x))
        /\ ShownIn(MergeEvents(page.shown, x)) = ShownIn(page.shown) \cup {x}
      BY <1>2, <1>3, <2>1, MergeProperties
  <2>3. page' \in Page /\ page'.pc = page.pc /\ page'.shown = MergeEvents(page.shown, x) /\ page'.cursor = x
        /\ page'.first = page.first
      BY <1>1, <1>2, <1>3, <1>6, <2>2 DEF Page
  <2>4. FeedTypeOK'
      BY <1>1, <1>3, <2>3 DEF FeedInv, FeedTypeOK
  <2>5. stream.pc \notin {"off", "catchup"}
      BY <1>1, <2>1 DEF StreamShape
  <2>6. Safe' = Safe \cup {x}
      BY <1>1, <2>2, <2>3 DEF Safe, Overtaken
  <2>7. Sent' = Sent
      BY <1>1, <1>3, <2>6 DEF Sent
  <2>8. Coming = {} /\ Coming' = {}
      BY <1>1, <2>5 DEF Coming
  <2>9. Queued' = Queued /\ OnTheWay' = OnTheWay
      BY <1>1, <2>7, <2>8 DEF Queued, OnTheWay
  <2>10. /\ \A e \in (page.first + 1)..x : e \in Safe'
         /\ Tight(wire', page.first, Safe')
      BY <1>1, <1>4, <2>1, <2>6 DEF Flow
  <2>11. Flow'
    <3>1. /\ \A e \in (page'.first + 1)..page'.cursor : e \in Safe'
          /\ Tight(wire', page'.first, Safe')
        BY <2>3, <2>10
    <3>2. /\ \A e \in (page'.first + 1)..stream'.maxSeq : e \in Sent'
          /\ Tight(stream'.hist, page'.first, Sent')
          /\ Tight(stream'.buf, page'.first, Queued') /\ Tight(stream'.ch, page'.first, OnTheWay')
        BY <1>1, <2>1, <2>3, <2>7, <2>9 DEF Flow
    <3>3. \A e \in (page'.first + 1)..stored' : e \in unsent' \cup OnTheWay' \cup ShownIn(stream'.ch)
        BY <1>1, <2>1, <2>3, <2>9 DEF Flow
    <3> QED  BY <3>1, <3>2, <3>3, FlowParts
  <2>12. StreamShape'
      BY <1>1, <2>1, <2>3, <2>5 DEF StreamShape
  <2> QED  BY <1>1, <1>6, <2>1, <2>2, <2>3, <2>4, <2>11, <2>12 DEF FeedInv, TimelineInv, LogsInv
<1> QED  BY <1>5, <1>6

\* All logs are read when the job has ended.
LEMMA TerminalLogsKeeps == ASSUME FeedInv, TerminalLogs PROVE FeedInv'
<1>1. /\ feed # "event" /\ stream' = NoStream /\ wire' = <<>>
      /\ page' = [WithLogs(ListLogs) EXCEPT !.pc = "ended", !.read = stored]
      /\ feed' = feed /\ stored' = stored /\ lines' = lines /\ unsent' = unsent /\ excused' = excused
    BY DEF TerminalLogs
<1>2. page \in Page /\ stored \in Nat /\ Unlike(page.shown)
    BY <1>1 DEF FeedInv, FeedTypeOK, LogsInv
<1>3. ListLogs \in Seq(Nat) /\ Unlike(ListLogs) /\ ShownIn(ListLogs) = 1..stored
    BY <1>2, ListLogsProperties
<1>4. /\ WithLogs(ListLogs) \in Page /\ Unlike(WithLogs(ListLogs).shown)
      /\ \/ ShownIn(WithLogs(ListLogs).shown) = ShownIn(page.shown) \cup ShownIn(ListLogs)
         \/ WithLogs(ListLogs).dropped > 0
    BY <1>2, <1>3, WithLogsProperties
<1>5. /\ page' \in Page /\ page'.pc = "ended" /\ page'.shown = WithLogs(ListLogs).shown /\ page'.read = stored
      /\ page'.dropped = WithLogs(ListLogs).dropped
    BY <1>1, <1>2, <1>4 DEF Page
<1>6. stream' \in Stream /\ wire' \in Seq(Nat)
    BY <1>1 DEF NoStream, Stream
<1>7. FeedTypeOK'
    BY <1>1, <1>5, <1>6 DEF FeedInv, FeedTypeOK
<1>8. LogsInv'
    BY <1>3, <1>4, <1>5 DEF LogsInv
<1> QED  BY <1>1, <1>7, <1>8 DEF FeedInv, TimelineInv

LEMMA RunsAgainKeeps == ASSUME FeedInv, RunsAgain PROVE FeedInv'
<1>1. /\ page.pc = "ended" /\ page' = [page EXCEPT !.pc = "connect", !.breaks = @ + 1] /\ stream' = stream /\ wire' = wire
      /\ feed' = feed /\ stored' = stored /\ lines' = lines /\ unsent' = unsent /\ excused' = excused
    BY DEF RunsAgain
<1>2. page \in Page
    BY DEF FeedInv, FeedTypeOK
<1>3. page' \in Page /\ page'.pc = "connect" /\ page'.shown = page.shown /\ page'.cursor = page.cursor
      /\ page'.first = page.first /\ page'.read = page.read /\ page'.dropped = page.dropped
  <2>1. page.breaks + 1 \in Nat
      BY <1>2 DEF Page
  <2> QED  BY <1>1, <1>2, <2>1 DEF Page
<1>4. FeedTypeOK'
    BY <1>1, <1>3 DEF FeedInv, FeedTypeOK
<1>5. CASE feed # "event"
    BY <1>1, <1>3, <1>4, <1>5, LogsStay DEF FeedInv, TimelineInv
<1>6. CASE feed = "event"
  <2>1. stored = lines /\ Rising(page.shown) /\ StreamShape /\ Flow
      BY <1>6 DEF FeedInv, TimelineInv
  <2>2. Safe' = Safe /\ Coming' = Coming
      BY <1>1, <1>3 DEF Safe, Overtaken, Coming
  <2>3. Sent' = Sent /\ Queued' = Queued /\ OnTheWay' = OnTheWay
      BY <1>1, <2>2 DEF Sent, Queued, OnTheWay
  <2>4. Flow'
      BY <1>1, <1>3, <2>1, <2>2, <2>3 DEF Flow
  <2>5. StreamShape'
      BY <1>1, <1>3, <2>1 DEF StreamShape
  <2> QED  BY <1>1, <1>3, <1>4, <1>6, <2>1, <2>4, <2>5, LogsStay DEF FeedInv, TimelineInv
<1> QED  BY <1>5, <1>6

LEMMA ReloadFullLogsKeeps == ASSUME FeedInv, ReloadFullLogs PROVE FeedInv'
<1>1. /\ feed # "event" /\ page' = [page EXCEPT !.shown = ListLogs, !.dropped = 0, !.read = stored]
      /\ stream' = stream /\ wire' = wire
      /\ feed' = feed /\ stored' = stored /\ lines' = lines /\ unsent' = unsent /\ excused' = excused
    BY DEF ReloadFullLogs
<1>2. page \in Page /\ stored \in Nat
    BY DEF FeedInv, FeedTypeOK
<1>3. ListLogs \in Seq(Nat) /\ Unlike(ListLogs) /\ ShownIn(ListLogs) = 1..stored
    BY <1>2, ListLogsProperties
<1>4. page' \in Page /\ page'.shown = ListLogs /\ page'.read = stored /\ page'.pc = page.pc
    BY <1>1, <1>2, <1>3 DEF Page
<1>5. FeedTypeOK'
    BY <1>1, <1>4 DEF FeedInv, FeedTypeOK
<1>6. LogsInv'
    BY <1>1, <1>3, <1>4 DEF LogsInv, FeedInv
<1> QED  BY <1>1, <1>5, <1>6 DEF FeedInv, TimelineInv

\* The feed's invariant holds at the start and is kept by every step.
LEMMA FeedStarts == FeedInit => FeedInv
<1> SUFFICES ASSUME FeedInit PROVE FeedInv
    OBVIOUS
<1>1. /\ feed \in {"event", "db", "file"} /\ stored = 0 /\ lines = 0 /\ unsent = {} /\ wire = <<>> /\ stream = NoStream
      /\ page = [pc |-> IF feed = "event" THEN "loading" ELSE "connect", shown |-> <<>>, cursor |-> 0,
                 first |-> 0, dropped |-> 0, breaks |-> 0, read |-> 0]
    BY DEF FeedInit
<1>2. stream \in Stream /\ stream.pc = "off" /\ stream.ch = <<>> /\ stream.buf = <<>> /\ stream.hist = <<>> /\ stream.maxSeq = -1
    BY <1>1 DEF NoStream, Stream
<1>3. page \in Page /\ (feed # "event" => page.pc # "loading") /\ page.shown = <<>> /\ page.cursor = 0 /\ page.first = 0 /\ page.read = 0
    BY <1>1 DEF Page
<1>4. FeedTypeOK
    BY <1>1, <1>2, <1>3 DEF FeedTypeOK
<1>5. Rising(<<>>) /\ Unlike(<<>>) /\ Len(<<>>) = 0 /\ 0 <= ChanCap
    BY FeedAssumption DEF Rising, Unlike, FeedAssumption
<1>6. Flow
  <2>1. /\ Tight(wire, page.first, Safe) /\ Tight(stream.hist, page.first, Sent)
        /\ Tight(stream.buf, page.first, Queued) /\ Tight(stream.ch, page.first, OnTheWay)
      BY <1>1, <1>2, TightEmpty
  <2> QED  BY <1>1, <1>2, <1>3, <2>1 DEF Flow
<1>7. StreamShape
    BY <1>1, <1>2, <1>5 DEF StreamShape
<1>8. LogsInv
    BY <1>3, <1>5 DEF LogsInv
<1> QED  BY <1>1, <1>3, <1>4, <1>5, <1>6, <1>7, <1>8 DEF FeedInv, TimelineInv

LEMMA FeedStays == FeedInv /\ [FeedNext]_feedVars => FeedInv'
<1> SUFFICES ASSUME FeedInv, [FeedNext]_feedVars PROVE FeedInv'
    OBVIOUS
<1>1. CASE CreateLog \/ CreateEvent \/ Broadcast \/ Subscribe
    BY <1>1, CreateLogKeeps, CreateEventKeeps, BroadcastKeeps, SubscribeKeeps
<1>2. CASE Catchup \/ BufferReceive \/ EmitHistory \/ BufferDetached
    BY <1>2, CatchupKeeps, BufferReceiveKeeps, EmitHistoryKeeps, BufferDetachedKeeps
<1>3. CASE EmitBuffer \/ EmitLive \/ Disconnect \/ LoadTimeline
    BY <1>3, EmitBufferKeeps, EmitLiveKeeps, DisconnectKeeps, LoadTimelineKeeps
<1>4. CASE Receive \/ TerminalLogs \/ RunsAgain \/ ReloadFullLogs
    BY <1>4, ReceiveKeeps, TerminalLogsKeeps, RunsAgainKeeps, ReloadFullLogsKeeps
<1>5. CASE UNCHANGED feedVars
  <2>1. Safe' = Safe /\ Coming' = Coming
      BY <1>5 DEF feedVars, Safe, Overtaken, Coming
  <2>2. Sent' = Sent /\ Queued' = Queued /\ OnTheWay' = OnTheWay
      BY <1>5, <2>1 DEF feedVars, Sent, Queued, OnTheWay
  <2>3. Flow => Flow'
      BY <1>5, <2>1, <2>2 DEF feedVars, Flow
  <2>4. FeedTypeOK'
      BY <1>5 DEF feedVars, FeedInv, FeedTypeOK
  <2>5. LogsInv'
      BY <1>5, LogsStay DEF feedVars, FeedInv
  <2>6. StreamShape => StreamShape'
      BY <1>5 DEF feedVars, StreamShape
  <2>7. TimelineInv'
      BY <1>5, <2>3, <2>6 DEF feedVars, FeedInv, TimelineInv
  <2> QED  BY <2>4, <2>5, <2>7 DEF FeedInv
<1> QED  BY <1>1, <1>2, <1>3, <1>4, <1>5 DEF FeedNext

\* Every line logged has become an event, the timeline shows its events in order and once
\* each, and when nothing is under way it shows every event since its first page but
\* those dropped at a full channel or broadcast after a later one.
THEOREM TimelineIsComplete == FeedSpec => []TimelineComplete
<1>1. FeedInv => TimelineComplete
  <2> SUFFICES ASSUME FeedInv, feed = "event" PROVE TimelineComplete
      BY DEF TimelineComplete
  <2>1. stored = lines /\ Rising(page.shown) /\ StreamShape /\ Flow
      BY DEF FeedInv, TimelineInv
  <2>2. ASSUME Quiet PROVE (page.first + 1)..stored \subseteq ShownIn(page.shown) \cup excused
    <3>1. stream.pc = "live" /\ stream.ch = <<>> /\ wire = <<>> /\ unsent = {}
        BY <2>2 DEF Quiet
    <3>2. stream.hist = <<>> /\ stream.buf = <<>> /\ Coming = {} /\ Overtaken = {}
        BY <2>1, <3>1 DEF StreamShape, Coming, Overtaken
    <3>3. OnTheWay = ShownIn(page.shown) \cup excused
        BY <3>1, <3>2, NothingShown DEF OnTheWay, Queued, Sent, Safe
    <3> QED  BY <2>1, <3>1, <3>3, NothingShown DEF Flow
  <2> QED  BY <2>1, <2>2 DEF TimelineComplete, Rising
<1> QED  BY <1>1, FeedStarts, FeedStays, PTL DEF FeedSpec

\* The console shows no log twice, and every log of the last full read unless it says
\* that some were cut off.
THEOREM ConsoleIsComplete == FeedSpec => []LogsComplete
<1>1. FeedInv => LogsComplete
    BY DEF FeedInv, LogsInv, LogsComplete, Unlike
<1> QED  BY <1>1, FeedStarts, FeedStays, PTL DEF FeedSpec

================================================================================
