----------------------------- MODULE PlatformProofs -----------------------------
(***************************************************************************)
(* Theorems about the parts around the runs of a task: the attestations of   *)
(* delivered commits, the cycles of implementation and review, the patches    *)
(* that are applied to the repositories, and the delivery of the commits to   *)
(* the pull requests.                                                          *)
(***************************************************************************)
EXTENDS Integers, Attestations, ReviewCycle, Patches, GitDelivery, WellFoundedInduction, FiniteSetTheorems, TLAPS

\* A non-empty set of naturals up to n has a greatest element.
LEMMA GreatestNatural ==
    ASSUME NEW n \in Nat, NEW S, S \subseteq 0..n, S # {}
    PROVE  \E m \in S : \A k \in S : k <= m
<1> DEFINE Room == {n - k : k \in S}
<1>1. Room \subseteq Nat /\ Room # {}
  <2>1. \A k \in S : n - k \in Nat
    OBVIOUS
  <2>2. Room # {}
    OBVIOUS
  <2> QED
    BY <2>1, <2>2
<1>2. PICK r \in Room : \A q \in Room : ~(<<q, r>> \in OpToRel(<, Nat))
  BY <1>1, NatLessThanWellFounded, WFMin
<1>3. \A q \in Room : <<q, r>> \in OpToRel(<, Nat) <=> q < r
  BY <1>1 DEF OpToRel
<1>4. \A q \in Room : ~(q < r)
  BY <1>2, <1>3, Zenon
<1>5. PICK m \in S : r = n - m
  BY <1>2
<1>6. \A k \in S : ~(n - k < n - m)
  BY <1>4, <1>5
<1> QED
  BY <1>6

-----------------------------------------------------------------------------
\* Attestations

SignerStates == {"idle", "key", "generate", "store"}

\* What makes AttestedForGood inductive: a signer that is about to store its
\* record, and every record, names a key that was created; keys are retired and
\* never removed.
AttestTypeOK ==
    /\ keys \in Seq({"active", "retired"})
    /\ signers \in [Signers -> [pc : SignerStates, commit : Hashes \cup {""}, key : Nat]]
SignersHoldKeys ==
    \A s \in Signers : signers[s].pc = "store" => signers[s].key \in DOMAIN keys
RecordsVerify ==
    \A c \in DOMAIN records :
        records[c].keyID \in DOMAIN keys /\ records[c].sig = records[c].keyID
AttestInv == AttestTypeOK /\ SignersHoldKeys /\ RecordsVerify /\ signed \subseteq DOMAIN records

\* The newest active key is one of the keys.
LEMMA NewestActive ==
    ASSUME AttestTypeOK, Active # {}
    PROVE  Newest(Active) \in DOMAIN keys /\ Newest(Active) \in Nat
<1>1. Active \subseteq 0..Len(keys) /\ Len(keys) \in Nat
  <2>1. keys \in Seq({"active", "retired"})
    BY DEF AttestTypeOK
  <2>2. Len(keys) \in Nat /\ DOMAIN keys = 1..Len(keys)
    BY <2>1
  <2> QED
    BY <2>2 DEF Active
<1>2. \E i \in Active : \A j \in Active : j <= i
  BY <1>1, GreatestNatural
<1>3. Newest(Active) \in Active
  BY <1>2, Zenon DEF Newest
<1> QED
  BY <1>1, <1>3 DEF Active

\* Keys are created or retired, never removed: what named a key still does.
LEMMA KeysStay ==
    ASSUME AttestTypeOK, [AttestNext]_attestVars
    PROVE  keys' \in Seq({"active", "retired"}) /\ DOMAIN keys \subseteq DOMAIN keys'
<1> DEFINE K == {"active", "retired"}
<1>0. keys \in Seq(K)
  BY DEF AttestTypeOK
<1>1. \/ keys' = keys
      \/ keys' = Append(keys, "active")
      \/ keys' = [i \in DOMAIN keys |-> "retired"]
  BY DEF AttestNext, GetActive, GenerateKey, Store, SigningFails, SignCommit, RotateKey, attestVars
<1>2. CASE keys' = keys
  BY <1>0, <1>2
<1>3. CASE keys' = Append(keys, "active")
  BY <1>0, <1>3
<1>4. CASE keys' = [i \in DOMAIN keys |-> "retired"]
  BY <1>0, <1>4
<1> QED
  BY <1>1, <1>2, <1>3, <1>4

\* One signer moves: the others hold what they held.
LEMMA SignerMoves ==
    ASSUME AttestTypeOK, SignersHoldKeys, DOMAIN keys \subseteq DOMAIN keys',
           keys' \in Seq({"active", "retired"}),
           NEW s \in Signers, NEW pc \in SignerStates, NEW c \in Hashes \cup {""},
           NEW k \in Nat, pc = "store" => k \in DOMAIN keys', Go(s, pc, c, k)
    PROVE  AttestTypeOK' /\ SignersHoldKeys'
<1>1. AttestTypeOK'
  BY DEF AttestTypeOK, Go
<1>2. SignersHoldKeys'
  BY DEF AttestTypeOK, SignersHoldKeys, Go
<1> QED
  BY <1>1, <1>2

\* Every step of a signer or of a rotation preserves the invariant.
LEMMA AttestNextInv == AttestInv /\ [AttestNext]_attestVars => AttestInv'
<1> SUFFICES ASSUME AttestInv, [AttestNext]_attestVars PROVE AttestInv'
  OBVIOUS
<1>0. keys' \in Seq({"active", "retired"}) /\ DOMAIN keys \subseteq DOMAIN keys'
  BY KeysStay DEF AttestInv
<1>1. \A s \in Signers : /\ signers[s].pc \in SignerStates
                         /\ signers[s].commit \in Hashes \cup {""}
  BY DEF AttestInv, AttestTypeOK
<1>2. (AttestTypeOK /\ SignersHoldKeys)'
  <2> USE DEF AttestInv
  <2>1. ASSUME NEW s \in Signers, NEW c \in Hashes, SignCommit(s, c)
        PROVE  (AttestTypeOK /\ SignersHoldKeys)'
    <3>1. CASE UNCHANGED signers
      BY <1>0, <3>1 DEF AttestTypeOK, SignersHoldKeys
    <3>2. CASE Go(s, "key", c, 0)
      BY <1>0, <3>2, SignerMoves DEF SignerStates
    <3> QED
      BY <2>1, <3>1, <3>2 DEF SignCommit
  <2>2. ASSUME NEW s \in Signers, GetActive(s) PROVE (AttestTypeOK /\ SignersHoldKeys)'
    <3>1. CASE Active # {}
      <4>1. Newest(Active) \in DOMAIN keys' /\ Newest(Active) \in Nat
        BY <1>0, <3>1, NewestActive
      <4> QED
        BY <1>0, <1>1, <2>2, <3>1, <4>1, SignerMoves DEF GetActive, SignerStates
    <3>2. CASE Active = {}
      BY <1>0, <1>1, <2>2, <3>2, SignerMoves DEF GetActive, SignerStates
    <3> QED
      BY <3>1, <3>2
  <2>3. ASSUME NEW s \in Signers, GenerateKey(s) PROVE (AttestTypeOK /\ SignersHoldKeys)'
    <3>1. Len(keys) + 1 \in DOMAIN keys' /\ Len(keys) + 1 \in Nat
      <4>1. keys \in Seq({"active", "retired"}) /\ keys' = Append(keys, "active")
        BY <2>3 DEF GenerateKey, AttestTypeOK
      <4> QED
        BY <4>1
    <3> QED
      BY <1>0, <1>1, <2>3, <3>1, SignerMoves DEF GenerateKey, SignerStates
  <2>4. ASSUME NEW s \in Signers, Leave(s) PROVE (AttestTypeOK /\ SignersHoldKeys)'
    <3>1. Go(s, "idle", "", 0)
      BY <2>4 DEF Leave, Resting, Go
    <3> QED
      BY <1>0, <3>1, SignerMoves DEF SignerStates
  <2>5. CASE UNCHANGED signers
    BY <1>0, <2>5 DEF AttestTypeOK, SignersHoldKeys
  <2> QED
    BY <2>1, <2>2, <2>3, <2>4, <2>5 DEF AttestNext, Store, SigningFails, RotateKey, attestVars
<1>3. (RecordsVerify /\ signed \subseteq DOMAIN records)'
  <2>1. ASSUME NEW s \in Signers, Store(s)
        PROVE  (RecordsVerify /\ signed \subseteq DOMAIN records)'
    <3>1. signers[s].key \in DOMAIN keys'
      BY <1>0, <2>1 DEF Store, AttestInv, SignersHoldKeys
    <3>2. CASE UNCHANGED <<records, signed>>
      BY <1>0, <3>2 DEF AttestInv, RecordsVerify
    <3>3. CASE ~UNCHANGED <<records, signed>>
      <4> DEFINE c == signers[s].commit
                 k == signers[s].key
      <4>1. /\ signed' = signed \cup {c}
            /\ records' = [x \in DOMAIN records \cup {c} |->
                             IF x = c THEN [keyID |-> k, sig |-> k] ELSE records[x]]
        BY <2>1, <3>3 DEF Store
      <4> HIDE DEF c, k
      <4>2. signed' \subseteq DOMAIN records'
        BY <4>1 DEF AttestInv
      <4>3. RecordsVerify'
        BY <1>0, <3>1, <4>1 DEF AttestInv, RecordsVerify, k
      <4> QED
        BY <4>2, <4>3
    <3> QED
      BY <3>2, <3>3
  <2>2. CASE UNCHANGED records /\ (signed' = signed \/ \E c \in DOMAIN records : signed' = signed \cup {c})
    BY <1>0, <2>2 DEF AttestInv, RecordsVerify
  <2>3. ASSUME NEW s \in Signers, NEW c, SignCommit(s, c)
        PROVE  (RecordsVerify /\ signed \subseteq DOMAIN records)'
    BY <2>2, <2>3 DEF SignCommit
  <2> QED
    BY <2>1, <2>2, <2>3
       DEF AttestNext, GetActive, GenerateKey, SigningFails, RotateKey, attestVars
<1> QED
  BY <1>2, <1>3 DEF AttestInv

\* For any number of signers and commits, a commit whose signing SignCommit
\* reported as done has a record that VerifyByCommitHash accepts, through every
\* race for the first key and every rotation.
THEOREM AttestationsHold == AttestSpec => []AttestedForGood
<1>1. AttestInit => AttestInv
  <2> SUFFICES ASSUME AttestInit PROVE AttestInv
    OBVIOUS
  <2>1. AttestTypeOK
    <3>1. keys \in Seq({"active", "retired"})
      BY DEF AttestInit
    <3> QED
      BY <3>1 DEF AttestInit, AttestTypeOK, Resting, SignerStates
  <2> QED
    BY <2>1 DEF AttestInit, AttestInv, SignersHoldKeys, RecordsVerify, Resting
<1>2. AttestInv => AttestedForGood
  BY DEF AttestInv, RecordsVerify, AttestedForGood, Verifies
<1> QED
  BY <1>1, <1>2, AttestNextInv, PTL DEF AttestSpec

-----------------------------------------------------------------------------
\* The cycles of implementation and review

\* A review file that is left in the checkout is about the code that is there,
\* and the job will not implement again before a review has consumed it: it was
\* left by a server that stopped during a review, so the job is claimed at the
\* review or at none, and cli_implement has its checkpoint.
LeftFileIsCurrent ==
    leftFile # {} =>
        /\ built
        /\ at # "cli_implement"
        /\ claimed # "cli_implement"
        /\ \A f \in leftFile : f.of = code

ReviewInv ==
    /\ at = "cross_review" => built
    /\ LeftFileIsCurrent
    /\ VerdictAboutThisCode

\* Every captured file is about the code the review looks at.
LEMMA CapturedIsCurrent ==
    ASSUME LeftFileIsCurrent, NEW file \in Captured
    PROVE  \A f \in file : f.of = code
<1>1. CASE file \in (IF leftFile = {} THEN {{}} ELSE {leftFile})
  BY <1>1 DEF LeftFileIsCurrent
<1>2. CASE file \in {{[of |-> code, text |-> t]} : t \in Writings}
  BY <1>2
<1> QED
  BY <1>1, <1>2 DEF Captured

\* Every step of the cycles preserves the invariant.
LEMMA ReviewNextInv == ReviewInv /\ [ReviewNext]_reviewVars => ReviewInv'
<1> SUFFICES ASSUME ReviewInv, [ReviewNext]_reviewVars PROVE ReviewInv'
  OBVIOUS
<1> USE DEF ReviewInv
<1>1. CASE CLIImplement
  <2>1. leftFile' = {} /\ acted' = acted /\ claimed' = claimed
    BY <1>1 DEF CLIImplement, Cleaned
  <2>2. at' \in {"cross_review", "cli_implement", "failed"} /\ (at' = "cross_review" => built')
    BY <1>1 DEF CLIImplement, AttemptFails
  <2> QED
    BY <2>1, <2>2 DEF LeftFileIsCurrent, VerdictAboutThisCode
<1>2. CASE CrossReview
  <2>1. PICK file \in Captured :
           /\ acted' = {[of |-> f.of, on |-> code] : f \in file}
           /\ leftFile' = Cleaned(file)
    BY <1>2 DEF CrossReview
  <2>2. VerdictAboutThisCode'
    BY <2>1, CapturedIsCurrent DEF VerdictAboutThisCode
  <2>3. leftFile' = {} /\ built' = built
    BY <1>2, <2>1 DEF CrossReview, Cleaned
  <2>4. at' \in {"paused", "cli_implement", "cli_mr"}
    BY <1>2 DEF CrossReview, Succeeds
  <2> QED
    BY <2>2, <2>3, <2>4 DEF LeftFileIsCurrent
<1>3. CASE SkipReview
  BY <1>3 DEF SkipReview, Succeeds, LeftFileIsCurrent, VerdictAboutThisCode
<1>4. CASE ReviewFails
  <2>1. /\ at = "cross_review" /\ UNCHANGED <<claimed, code, built, acted>>
        /\ leftFile' \in {leftFile, {}}
        /\ at' \in {IF claimed = "cli_implement" THEN "cli_implement" ELSE "cross_review", "failed"}
    BY <1>4 DEF ReviewFails, AttemptFails, Cleaned
  <2> QED
    BY <2>1 DEF LeftFileIsCurrent, VerdictAboutThisCode
<1>5. CASE CLIMR
  <2>1. /\ UNCHANGED <<claimed, code, built, leftFile, acted>>
        /\ at' \in {"done", "failed", FirstStep(claimed)}
    BY <1>5 DEF CLIMR, AttemptFails
  <2> QED
    BY <2>1 DEF FirstStep, LeftFileIsCurrent, VerdictAboutThisCode
<1>6. CASE ServerStops
  <2>1. CASE at = "cross_review"
    <3>1. /\ leftFile' \in Captured /\ claimed' = "cross_review" /\ at' = "crashed"
          /\ UNCHANGED <<code, built, acted>>
      BY <1>6, <2>1 DEF ServerStops
    <3>2. \A f \in leftFile' : f.of = code
      BY <3>1, CapturedIsCurrent
    <3> QED
      BY <2>1, <3>1, <3>2 DEF LeftFileIsCurrent, VerdictAboutThisCode
  <2>2. CASE at = "cli_implement"
    <3>1. /\ UNCHANGED <<leftFile, built, acted>> /\ claimed' = "cli_implement"
          /\ at' = "crashed" /\ leftFile = {}
      BY <1>6, <2>2 DEF ServerStops, LeftFileIsCurrent
    <3> QED
      BY <3>1 DEF LeftFileIsCurrent, VerdictAboutThisCode
  <2> QED
    BY <1>6, <2>1, <2>2 DEF ServerStops
<1>7. CASE Claim
  <2>1. /\ at' = FirstStep(claimed') /\ UNCHANGED <<code, built, leftFile, acted>>
        /\ claimed' \in {claimed, "none", "cross_review"}
    BY <1>7 DEF Claim
  <2>2. at' = "cross_review" => built'
    BY <2>1 DEF FirstStep
  <2>3. LeftFileIsCurrent'
    BY <2>1 DEF FirstStep, LeftFileIsCurrent
  <2> QED
    BY <2>1, <2>2, <2>3 DEF VerdictAboutThisCode
<1>8. CASE UNCHANGED reviewVars
  BY <1>8 DEF reviewVars, LeftFileIsCurrent, VerdictAboutThisCode
<1> QED
  BY <1>1, <1>2, <1>3, <1>4, <1>5, <1>6, <1>7, <1>8 DEF ReviewNext

\* For any limits and any reviewer, the review that cross_review decides on is
\* about the code it looks at, whatever crashed, failed or was claimed again.
THEOREM ReviewsAreCurrent == ReviewSpec => []VerdictAboutThisCode
<1>1. ReviewInit => ReviewInv
  BY DEF ReviewInit, ReviewInv, LeftFileIsCurrent, VerdictAboutThisCode
<1>2. ReviewInv => VerdictAboutThisCode
  BY DEF ReviewInv
<1> QED
  BY <1>1, <1>2, ReviewNextInv, PTL DEF ReviewSpec

\* What a review checkpoints: a verdict is parsed from something the reviewer
\* may write.
Verdicts == {[spec |-> Axis(w.spec), quality |-> Axis(w.quality)] : w \in Writings}
Outputs == [of : Nat, verdict : SUBSET Verdicts, limit : BOOLEAN]
ReviewTypeOK ==
    /\ code \in Nat
    /\ leftFile \subseteq [of : Nat, text : Writings]
    /\ accepted \in Seq(Outputs)

\* The checkpoints among the first n whose verdict lists a violation.
Violations(n) == {i \in 1..n : \E v \in accepted[i].verdict : v.spec.items # {}}

\* The last of them is one of them.
LEMMA LastViolation ==
    ASSUME NEW n \in Nat, Violations(n) # {}
    PROVE  Max(Violations(n)) \in Violations(n)
<1>1. Violations(n) \subseteq 0..n
  BY DEF Violations
<1>2. PICK m \in Violations(n) : \A k \in Violations(n) : k <= m
  BY <1>1, GreatestNatural
<1>3. \E x \in Violations(n) : \A k \in Violations(n) : x >= k
  BY <1>1, <1>2
<1> QED
  BY <1>3, Zenon DEF Max

\* PreviousReviewViolations in terms of them.
PreviousIsLast ==
    \A n \in Nat :
        PreviousReviewViolations(n) =
            IF Violations(n) = {} THEN {}
            ELSE UNION {v.spec.items : v \in accepted[Max(Violations(n))].verdict}

\* The look-up of the previous violations takes the last checkpoint that has any.
LEMMA PreviousLookup == PreviousIsLast
<1> SUFFICES ASSUME NEW n \in Nat
             PROVE  PreviousReviewViolations(n) =
                      IF Violations(n) = {} THEN {}
                      ELSE UNION {v.spec.items : v \in accepted[Max(Violations(n))].verdict}
  BY DEF PreviousIsLast
<1>1. Violations(n) # {} => Max(Violations(n)) # 0
  BY LastViolation DEF Violations
<1> DEFINE last == SelectLastInSubSeq(accepted, 1, n, LAMBDA r : \E v \in r.verdict : v.spec.items # {})
<1>2. last = IF Violations(n) # {} THEN Max(Violations(n)) ELSE 0
  BY DEF SelectLastInSubSeq, Violations
<1>3. PreviousReviewViolations(n) =
         IF last = 0 THEN {} ELSE UNION {v.spec.items : v \in accepted[last].verdict}
  BY DEF PreviousReviewViolations
<1> HIDE DEF last
<1> QED
  BY <1>1, <1>2, <1>3

\* A new checkpoint does not change what was on record before the earlier ones.
LEMMA PreviousStays ==
    ASSUME accepted \in Seq(Outputs), NEW x \in Outputs, accepted' = Append(accepted, x),
           NEW n \in Nat, n <= Len(accepted)
    PROVE  PreviousReviewViolations(n)' = PreviousReviewViolations(n)
<1>1. \A i \in 1..n : accepted'[i] = accepted[i]
  OBVIOUS
<1>2. Violations(n)' = Violations(n)
  BY <1>1 DEF Violations
<1>3. Violations(n) # {} =>
         accepted'[Max(Violations(n))] = accepted[Max(Violations(n))]
  BY <1>1, LastViolation DEF Violations
<1>4. PreviousIsLast'
  BY PreviousLookup, PTL
<1> QED
  BY <1>2, <1>3, <1>4, PreviousLookup DEF PreviousIsLast

\* What a review may capture is something a reviewer may write.
LEMMA CapturedType ==
    ASSUME ReviewTypeOK, NEW file \in Captured
    PROVE  file \subseteq [of : Nat, text : Writings]
<1>1. CASE file \in (IF leftFile = {} THEN {{}} ELSE {leftFile})
  BY <1>1 DEF ReviewTypeOK
<1>2. CASE file \in {{[of |-> code, text |-> t]} : t \in Writings}
  BY <1>2 DEF ReviewTypeOK
<1> QED
  BY <1>1, <1>2 DEF Captured

\* The checkpoints grow by one output at a time, and one that is accepted at the
\* limit of cycles does not repeat what is on record before it.
Grows ==
    \/ accepted' = accepted
    \/ \E x \in Outputs : /\ accepted' = Append(accepted, x)
                          /\ x.limit => ~Repeats(x.verdict, Len(accepted))

\* Every step of the cycles does so.
LEMMA CheckpointsGrow == ReviewTypeOK /\ [ReviewNext]_reviewVars => Grows
<1> SUFFICES ASSUME ReviewTypeOK, [ReviewNext]_reviewVars PROVE Grows
  OBVIOUS
<1> USE DEF Grows
<1>1. CASE CrossReview
  <2>1. PICK file \in Captured :
           \/ accepted' = accepted
           \/ LET verdict == ParseReviewVerdict(file)
              IN  accepted' = Append(accepted, [of |-> code, verdict |-> verdict,
                                                limit |-> Decided(verdict) = "limit"])
    BY <1>1 DEF CrossReview, Succeeds
  <2> DEFINE verdict == ParseReviewVerdict(file)
             x == [of |-> code, verdict |-> verdict, limit |-> Decided(verdict) = "limit"]
  <2>2. verdict \subseteq Verdicts
    BY <2>1, CapturedType DEF ParseReviewVerdict, Verdicts
  <2>3. Decided(verdict) = "limit" => ~Repeats(verdict, Len(accepted))
    BY DEF Decided
  <2> HIDE DEF verdict
  <2>4. x \in Outputs
    BY <2>2 DEF Outputs, ReviewTypeOK
  <2>5. x.limit => ~Repeats(x.verdict, Len(accepted))
    BY <2>3
  <2>6. accepted' = accepted \/ accepted' = Append(accepted, x)
    BY <2>1 DEF verdict
  <2> HIDE DEF x
  <2> QED
    BY <2>4, <2>5, <2>6
<1>2. CASE SkipReview
  <2> DEFINE x == [of |-> code, verdict |-> {}, limit |-> FALSE]
  <2>1. x \in Outputs /\ ~x.limit /\ accepted' = Append(accepted, x)
    BY <1>2 DEF SkipReview, Succeeds, Outputs, ReviewTypeOK
  <2> HIDE DEF x
  <2> QED
    BY <2>1
<1>3. CASE ~CrossReview /\ ~SkipReview
  BY <1>3 DEF ReviewNext, CLIImplement, ReviewFails, CLIMR, ServerStops, Claim, reviewVars
<1> QED
  BY <1>1, <1>2, <1>3

\* Every step keeps the types.
LEMMA ReviewTypeInv == ReviewTypeOK /\ [ReviewNext]_reviewVars => ReviewTypeOK'
<1> SUFFICES ASSUME ReviewTypeOK, [ReviewNext]_reviewVars PROVE ReviewTypeOK'
  OBVIOUS
<1>1. code' \in Nat
  BY DEF ReviewTypeOK, ReviewNext, CLIImplement, CrossReview, SkipReview, ReviewFails, CLIMR,
         ServerStops, Claim, reviewVars
<1>2. leftFile' \subseteq [of : Nat, text : Writings]
  BY CapturedType DEF ReviewTypeOK, ReviewNext, CLIImplement, CrossReview, SkipReview, ReviewFails,
         CLIMR, ServerStops, Claim, reviewVars, Cleaned
<1>3. accepted' \in Seq(Outputs)
  <2>1. accepted \in Seq(Outputs)
    BY DEF ReviewTypeOK
  <2>2. accepted' = accepted \/ \E x \in Outputs : accepted' = Append(accepted, x)
    <3>1. Grows
      BY CheckpointsGrow
    <3> QED
      BY <3>1 DEF Grows
  <2> QED
    BY <2>1, <2>2
<1> QED
  BY <1>1, <1>2, <1>3 DEF ReviewTypeOK

\* A repeated violation is never accepted at the limit: nothing that is appended
\* later changes what was on record when a review was accepted.
LEMMA RepeatsEscalateInv ==
    ReviewTypeOK /\ RepeatsEscalate /\ [ReviewNext]_reviewVars => RepeatsEscalate'
<1> SUFFICES ASSUME ReviewTypeOK, RepeatsEscalate, [ReviewNext]_reviewVars
             PROVE  RepeatsEscalate'
  OBVIOUS
<1>1. CASE accepted' = accepted
  <2>1. \A n : PreviousReviewViolations(n)' = PreviousReviewViolations(n)
    BY <1>1 DEF PreviousReviewViolations, SelectLastInSubSeq
  <2> QED
    BY <1>1, <2>1 DEF RepeatsEscalate, Repeats, HasRepeatViolation, SameRequirement
<1>2. ASSUME NEW x \in Outputs, accepted' = Append(accepted, x),
             x.limit => ~Repeats(x.verdict, Len(accepted))
      PROVE  RepeatsEscalate'
  <2>1. accepted \in Seq(Outputs) /\ accepted' \in Seq(Outputs)
    BY <1>2 DEF ReviewTypeOK
  <2>2. /\ DOMAIN accepted = 1..Len(accepted) /\ DOMAIN accepted' = 1..(Len(accepted) + 1)
        /\ Len(accepted) \in Nat /\ accepted'[Len(accepted) + 1] = x
        /\ \A i \in DOMAIN accepted : accepted'[i] = accepted[i]
    BY <1>2, <2>1
  <2>3. ASSUME NEW i \in DOMAIN accepted', accepted'[i].limit
        PROVE  ~(\E v \in accepted'[i].verdict :
                    v.spec.fail /\ HasRepeatViolation(PreviousReviewViolations(i - 1), v.spec.items))
    <3>1. CASE i \in DOMAIN accepted
      BY <2>2, <2>3, <3>1 DEF RepeatsEscalate, Repeats
    <3>2. CASE i = Len(accepted) + 1
      BY <1>2, <2>2, <2>3, <3>2 DEF Repeats
    <3> QED
      BY <2>2, <3>1, <3>2
  <2>4. \A i \in DOMAIN accepted' :
           PreviousReviewViolations(i - 1)' = PreviousReviewViolations(i - 1)
    <3> TAKE i \in DOMAIN accepted'
    <3>1. i - 1 \in Nat /\ i - 1 <= Len(accepted)
      BY <2>2
    <3> QED
      BY <1>2, <2>1, <3>1, PreviousStays
  <2> QED
    BY <2>3, <2>4 DEF RepeatsEscalate, Repeats, HasRepeatViolation, SameRequirement
<1>3. Grows
  BY CheckpointsGrow
<1> QED
  BY <1>1, <1>2, <1>3 DEF Grows

\* For any limits and any reviewer, a spec violation that comes back is put
\* before a human: hasRepeatViolation is asked before the limit of cycles.
THEOREM RepeatsReachAHuman == ReviewSpec => []RepeatsEscalate
<1>1. ReviewInit => ReviewTypeOK /\ RepeatsEscalate
  <2> SUFFICES ASSUME ReviewInit PROVE ReviewTypeOK /\ RepeatsEscalate
    OBVIOUS
  <2>1. accepted = <<>> /\ code = 0 /\ leftFile = {}
    BY DEF ReviewInit
  <2>2. accepted \in Seq(Outputs) /\ DOMAIN accepted = {}
    BY <2>1
  <2> QED
    BY <2>1, <2>2 DEF ReviewTypeOK, RepeatsEscalate
<1> QED
  BY <1>1, ReviewTypeInv, RepeatsEscalateInv, PTL DEF ReviewSpec

-----------------------------------------------------------------------------
\* Patches

\* The hunks of a repository's files, each in one of these states.
HunksOf(h, r, states) ==
    /\ h = [f \in DOMAIN Files[r] |-> [i \in 1..Files[r][f].hunks |-> h[f][i]]]
    /\ \A f \in DOMAIN Files[r] : \A i \in 1..Files[r][f].hunks : h[f][i] \in states

\* The files when every hunk that fits is in.
AllThatFits(h) == [f \in DOMAIN h |-> [i \in DOMAIN h[f] |-> IF h[f][i] = "old" THEN "new" ELSE h[f][i]]]

PatchTypeOK ==
    /\ call.pc \in {"idle", "apply", "revert"} /\ call.todo \subseteq PatchRepos
    /\ DOMAIN call = {"pc", "restore", "todo", "repo", "result"}
    /\ call = [pc |-> call.pc, restore |-> call.restore, todo |-> call.todo, repo |-> call.repo, result |-> call.result]
    /\ calls = [made |-> calls.made, fixed |-> calls.fixed, expanded |-> calls.expanded]
    /\ calls.made \in Nat
    /\ hunk = [r \in PatchRepos |-> hunk[r]] /\ without = [r \in PatchRepos |-> without[r]]
    /\ \A r \in PatchRepos : HunksOf(hunk[r], r, {"old", "new", "alien"}) /\ HunksOf(without[r], r, {"old", "alien"})

\* A repository that holds neither all of the patch nor none of it is about to be
\* reverted, and holds what fits; what the call has done with is all in.
PatchInv ==
    /\ PatchTypeOK
    /\ calls.made = 0 => call = IdleCall
    /\ \A r \in PatchRepos : (call.pc = "revert" /\ call.repo = r) \/ AllHunks(hunk[r], "new") \/ hunk[r] = without[r]
    /\ call.pc = "revert" => /\ call.repo \in PatchRepos /\ ~AllHunks(hunk[call.repo], "new")
                             /\ hunk[call.repo] = AllThatFits(without[call.repo])
    /\ call.pc = "apply" /\ call.result = "none" => \A r \in PatchRepos \ call.todo : AllHunks(hunk[r], "new")
    /\ call.result = "ok" => call.pc = "idle" /\ \A r \in PatchRepos : AllHunks(hunk[r], "new")

LEMMA HunkShape ==
    ASSUME NEW r, NEW states, NEW h, HunksOf(h, r, states)
    PROVE  DOMAIN h = DOMAIN Files[r] /\ \A f \in DOMAIN Files[r] : DOMAIN h[f] = 1..Files[r][f].hunks
<1> DEFINE g == [f \in DOMAIN Files[r] |-> [i \in 1..Files[r][f].hunks |-> h[f][i]]]
<1>1. h = g
    BY DEF HunksOf
<1>2. DOMAIN g = DOMAIN Files[r] /\ \A f \in DOMAIN Files[r] : DOMAIN g[f] = 1..Files[r][f].hunks
    OBVIOUS
<1> HIDE DEF g
<1> QED  BY <1>1, <1>2

LEMMA HunkStates ==
    ASSUME NEW r, NEW states, NEW h, HunksOf(h, r, states)
    PROVE  \A f \in DOMAIN Files[r] : \A i \in 1..Files[r][f].hunks : h[f][i] \in states
BY DEF HunksOf

LEMMA SameHunks ==
    ASSUME NEW r, NEW g, NEW h, NEW someStates, NEW otherStates, HunksOf(g, r, someStates), HunksOf(h, r, otherStates),
           \A f \in DOMAIN Files[r] : \A i \in 1..Files[r][f].hunks : g[f][i] = h[f][i]
    PROVE  g = h
<1>1. /\ g = [f \in DOMAIN Files[r] |-> [i \in 1..Files[r][f].hunks |-> g[f][i]]]
      /\ h = [f \in DOMAIN Files[r] |-> [i \in 1..Files[r][f].hunks |-> h[f][i]]]
    BY DEF HunksOf
<1>2. \A f \in DOMAIN Files[r] : [i \in 1..Files[r][f].hunks |-> g[f][i]] = [i \in 1..Files[r][f].hunks |-> h[f][i]]
    OBVIOUS
<1> QED  BY <1>1, <1>2

LEMMA AllHunksIn ==
    ASSUME NEW r, NEW states, NEW h, HunksOf(h, r, states), NEW st
    PROVE  AllHunks(h, st) <=> \A f \in DOMAIN Files[r] : \A i \in 1..Files[r][f].hunks : h[f][i] = st
<1>1. DOMAIN h = DOMAIN Files[r] /\ \A f \in DOMAIN Files[r] : DOMAIN h[f] = 1..Files[r][f].hunks
    BY HunkShape
<1> QED  BY <1>1 DEF AllHunks

\* Where no hunk of a repository is in, as many are taken in as fit.
LEMMA FitsProperties ==
    ASSUME NEW r, NEW h, HunksOf(h, r, {"old", "alien"})
    PROVE  /\ HunksOf(AllThatFits(h), r, {"new", "alien"})
           /\ \A f \in DOMAIN Files[r] : \A i \in 1..Files[r][f].hunks :
                 AllThatFits(h)[f][i] = IF h[f][i] = "old" THEN "new" ELSE h[f][i]
<1> DEFINE g == [f \in DOMAIN Files[r] |-> [i \in 1..Files[r][f].hunks |-> IF h[f][i] = "old" THEN "new" ELSE h[f][i]]]
<1>1. AllThatFits(h) = g
  <2>1. DOMAIN h = DOMAIN Files[r] /\ \A f \in DOMAIN Files[r] : DOMAIN h[f] = 1..Files[r][f].hunks
      BY HunkShape
  <2> QED  BY <2>1 DEF AllThatFits
<1>2. \A f \in DOMAIN Files[r] : \A i \in 1..Files[r][f].hunks : g[f][i] = IF h[f][i] = "old" THEN "new" ELSE h[f][i]
    OBVIOUS
<1>3. g = [f \in DOMAIN Files[r] |-> [i \in 1..Files[r][f].hunks |-> g[f][i]]]
    OBVIOUS
<1> HIDE DEF g
<1>4. \A f \in DOMAIN Files[r] : \A i \in 1..Files[r][f].hunks : h[f][i] \in {"old", "alien"}
    BY HunkStates
<1>5. HunksOf(g, r, {"new", "alien"})
    BY <1>2, <1>3, <1>4, ZenonT(60) DEF HunksOf
<1> QED  BY <1>1, <1>2, <1>5

\* GNU patch looks for what it is asked for when the first hunks do not say otherwise.
LEMMA GnuPatchProperties ==
    ASSUME NEW r, NEW h, NEW states, HunksOf(h, r, states), NEW from,
           \A f \in DOMAIN Files[r] : h[f][1] # Flip(from)
    PROVE  /\ GnuPatch(h, from) = [f \in DOMAIN Files[r] |-> [i \in 1..Files[r][f].hunks |->
                                     IF h[f][i] = from THEN Flip(from) ELSE h[f][i]]]
           /\ GnuPatchFails(h, from) <=> \E f \in DOMAIN Files[r] : \E i \in 1..Files[r][f].hunks : h[f][i] # from
<1>1. DOMAIN h = DOMAIN Files[r] /\ \A f \in DOMAIN Files[r] : DOMAIN h[f] = 1..Files[r][f].hunks
    BY HunkShape
<1>2. \A f \in DOMAIN Files[r] : (IF h[f][1] = Flip(from) THEN Flip(from) ELSE from) = from
    OBVIOUS
<1> QED  BY <1>1, <1>2 DEF GnuPatch, GnuPatchFails

\* A repository that has all of the patch keeps it.
LEMMA ApplyWhereAllIs ==
    ASSUME NEW h, AllHunks(h, "new")
    PROVE  ApplyCommand(h) = h /\ ~ApplyCommandFails(h)
BY DEF ApplyCommand, ApplyCommandFails

\* A repository that has none of it gets all of it, or the call fails and it gets what fits.
LEMMA ApplyWhereNoneIs ==
    ASSUME NEW r \in PatchRepos, NEW h, HunksOf(h, r, {"old", "alien"})
    PROVE  /\ HunksOf(ApplyCommand(h), r, {"new", "alien"})
           /\ ApplyCommandFails(h) => ApplyCommand(h) = AllThatFits(h) /\ ~AllHunks(AllThatFits(h), "new")
           /\ ~ApplyCommandFails(h) => AllHunks(ApplyCommand(h), "new")
<1>1. /\ \A f \in DOMAIN Files[r] : Files[r][f].hunks \in Nat \ {0} /\ 1 \in 1..Files[r][f].hunks
      /\ \A f \in DOMAIN Files[r] : \A i \in 1..Files[r][f].hunks : h[f][i] \in {"old", "alien"}
    BY HunkStates, PatchAssumption DEF PatchAssumption
<1>2. DOMAIN h = DOMAIN Files[r] /\ \A f \in DOMAIN Files[r] : DOMAIN h[f] = 1..Files[r][f].hunks
    BY HunkShape
<1>3. CASE AllHunks(h, "new")
  <2>1. DOMAIN Files[r] = {}
      BY <1>1, <1>3, AllHunksIn
  <2> QED  BY <1>3, <2>1, ApplyWhereAllIs DEF HunksOf
<1>4. CASE ~AllHunks(h, "new") /\ AllHunks(h, "old")
  <2> DEFINE g == [f \in DOMAIN Files[r] |-> [i \in 1..Files[r][f].hunks |-> "new"]]
  <2>1. ApplyCommand(h) = g
      BY <1>2, <1>4 DEF ApplyCommand
  <2>2. HunksOf(g, r, {"new", "alien"}) /\ AllHunks(g, "new")
      BY DEF HunksOf, AllHunks
  <2> QED  BY <1>4, <2>1, <2>2 DEF ApplyCommandFails
<1>5. CASE ~AllHunks(h, "new") /\ ~AllHunks(h, "old")
  <2>1. \A f \in DOMAIN Files[r] : h[f][1] # Flip("old")
      BY <1>1 DEF Flip
  <2>2. /\ GnuPatch(h, "old") = [f \in DOMAIN Files[r] |-> [i \in 1..Files[r][f].hunks |->
                                   IF h[f][i] = "old" THEN Flip("old") ELSE h[f][i]]]
        /\ GnuPatchFails(h, "old") <=> \E f \in DOMAIN Files[r] : \E i \in 1..Files[r][f].hunks : h[f][i] # "old"
      BY <2>1, GnuPatchProperties
  <2>3. Flip("old") = "new"
      BY DEF Flip
  <2>4. AllThatFits(h) = [f \in DOMAIN Files[r] |-> [i \in 1..Files[r][f].hunks |->
                            IF h[f][i] = "old" THEN "new" ELSE h[f][i]]]
      BY <1>2 DEF AllThatFits
  <2>5. ApplyCommand(h) = AllThatFits(h) /\ ApplyCommandFails(h)
    <3>1. ApplyCommand(h) = GnuPatch(h, "old")
        BY <1>5 DEF ApplyCommand
    <3>2. \E f \in DOMAIN Files[r] : \E i \in 1..Files[r][f].hunks : h[f][i] # "old"
        BY <1>5, AllHunksIn
    <3> QED  BY <1>5, <2>2, <2>3, <2>4, <3>1, <3>2 DEF ApplyCommandFails
  <2>6a. PICK f \in DOMAIN Files[r] : \E i \in 1..Files[r][f].hunks : h[f][i] # "old"
      BY <1>5, AllHunksIn
  <2>6. PICK i \in 1..Files[r][f].hunks : h[f][i] # "old"
      BY <2>6a
  <2>7. AllThatFits(h)[f][i] # "new"
      BY <1>1, <2>6, FitsProperties
  <2>8. ~AllHunks(AllThatFits(h), "new")
      BY <2>7, FitsProperties, AllHunksIn
  <2> QED  BY <2>5, <2>8, FitsProperties
<1> QED  BY <1>3, <1>4, <1>5

\* Taking out what fitted leaves the files as they were.
LEMMA RevertWhatFits ==
    ASSUME NEW r \in PatchRepos, NEW h, HunksOf(h, r, {"old", "alien"}), ~AllHunks(AllThatFits(h), "new")
    PROVE  RevertCommand(AllThatFits(h)) = h
<1> DEFINE g == AllThatFits(h)
           back == [f \in DOMAIN Files[r] |-> [i \in 1..Files[r][f].hunks |-> IF g[f][i] = "new" THEN "old" ELSE g[f][i]]]
<1>1. /\ \A f \in DOMAIN Files[r] : Files[r][f].hunks \in Nat \ {0} /\ 1 \in 1..Files[r][f].hunks
      /\ \A f \in DOMAIN Files[r] : \A i \in 1..Files[r][f].hunks : h[f][i] \in {"old", "alien"}
    BY HunkStates, PatchAssumption DEF PatchAssumption
<1>2. /\ HunksOf(g, r, {"new", "alien"})
      /\ \A f \in DOMAIN Files[r] : \A i \in 1..Files[r][f].hunks : g[f][i] = IF h[f][i] = "old" THEN "new" ELSE h[f][i]
    BY FitsProperties
<1>3. RevertCommand(g) = GnuPatch(g, "new")
    BY DEF RevertCommand
<1> HIDE DEF g
<1>4. Flip("new") = "old"
    BY DEF Flip
<1>5. \A f \in DOMAIN Files[r] : g[f][1] # Flip("new")
    BY <1>1, <1>2, <1>4
<1>6. GnuPatch(g, "new") = [f \in DOMAIN Files[r] |-> [i \in 1..Files[r][f].hunks |->
                               IF g[f][i] = "new" THEN Flip("new") ELSE g[f][i]]]
    BY <1>2, <1>5, GnuPatchProperties
<1>7. RevertCommand(g) = back
    BY <1>3, <1>4, <1>6
<1>8. /\ \A f \in DOMAIN Files[r] : \A i \in 1..Files[r][f].hunks : back[f][i] = IF g[f][i] = "new" THEN "old" ELSE g[f][i]
      /\ back = [f \in DOMAIN Files[r] |-> [i \in 1..Files[r][f].hunks |-> back[f][i]]]
    OBVIOUS
<1> HIDE DEF back
<1>9. \A f \in DOMAIN Files[r] : \A i \in 1..Files[r][f].hunks : back[f][i] = h[f][i]
  <2> TAKE f \in DOMAIN Files[r]
  <2> TAKE i \in 1..Files[r][f].hunks
  <2>1. back[f][i] = IF g[f][i] = "new" THEN "old" ELSE g[f][i]
      BY <1>8
  <2>2. g[f][i] = IF h[f][i] = "old" THEN "new" ELSE h[f][i]
      BY <1>2
  <2>3. h[f][i] \in {"old", "alien"}
      BY <1>1
  <2> QED  BY <2>1, <2>2, <2>3
<1>10. HunksOf(back, r, {"old", "alien"})
    BY <1>1, <1>8, <1>9 DEF HunksOf
<1>11. back = h
    BY <1>9, <1>10, SameHunks
<1> QED  BY <1>7, <1>11 DEF g

\* The patches, step by step

\* A repository keeps what is said of it when its hunks stay and no call is to revert it.
LEMMA OnlyCallMoves ==
    ASSUME PatchInv, UNCHANGED <<hunk, without>>, calls'.made \in Nat, calls'.made # 0,
           calls' = [made |-> calls'.made, fixed |-> calls'.fixed, expanded |-> calls'.expanded],
           call' = [pc |-> call'.pc, restore |-> call'.restore, todo |-> call'.todo, repo |-> call'.repo, result |-> call'.result],
           call.pc # "revert", call'.pc \in {"idle", "apply"}, call'.todo \subseteq PatchRepos,
           call'.pc = "apply" /\ call'.result = "none" => \A r \in PatchRepos \ call'.todo : AllHunks(hunk[r], "new"),
           call'.result = "ok" => call'.pc = "idle" /\ \A r \in PatchRepos : AllHunks(hunk[r], "new")
    PROVE  PatchInv'
<1>1. PatchTypeOK'
    BY DEF PatchInv, PatchTypeOK
<1> QED  BY <1>1 DEF PatchInv

LEMMA WorkspaceFoundKeeps == ASSUME PatchInv, WorkspaceFound PROVE PatchInv'
<1>1. /\ calls.made = 0 /\ call = IdleCall /\ call' = call /\ without' = hunk' /\ calls' = [calls EXCEPT !.made = 1]
      /\ calls = [made |-> calls.made, fixed |-> calls.fixed, expanded |-> calls.expanded]
    BY DEF WorkspaceFound, PatchInv, PatchTypeOK
<1>2. /\ calls'.made = 1 /\ calls' = [made |-> calls'.made, fixed |-> calls'.fixed, expanded |-> calls'.expanded]
    BY <1>1
<1>3. hunk' = [r \in PatchRepos |-> hunk'[r]]
    BY DEF WorkspaceFound
<1>4. \A r \in PatchRepos : HunksOf(hunk'[r], r, {"old", "alien"})
  <2> SUFFICES ASSUME NEW r \in PatchRepos PROVE HunksOf(hunk'[r], r, {"old", "alien"})
      OBVIOUS
  <2> DEFINE h == hunk'[r]
  <2>1. hunk' \in [PatchRepos -> UNION {[DOMAIN Files[q] -> UNION {[1..Files[q][f].hunks -> {"old", "alien"}] :
                                                            f \in DOMAIN Files[q]}] : q \in PatchRepos}]
      BY DEF WorkspaceFound
  <2>2. PICK q \in PatchRepos : h \in [DOMAIN Files[q] -> UNION {[1..Files[q][f].hunks -> {"old", "alien"}] : f \in DOMAIN Files[q]}]
      BY <2>1
  <2>3. DOMAIN h = DOMAIN Files[r] /\ \A f \in DOMAIN Files[r] : Len(h[f]) = Files[r][f].hunks
      BY DEF WorkspaceFound
  <2>4. \A f \in DOMAIN Files[q] : Files[q][f].hunks \in Nat
      BY PatchAssumption DEF PatchAssumption
  <2> HIDE DEF h
  <2>5. \A f \in DOMAIN Files[r] : h[f] \in [1..Files[r][f].hunks -> {"old", "alien"}]
    <3> TAKE f \in DOMAIN Files[r]
    <3>1. h[f] \in UNION {[1..Files[q][e].hunks -> {"old", "alien"}] : e \in DOMAIN Files[q]}
        BY <2>2, <2>3
    <3>2. PICK e \in DOMAIN Files[q] : h[f] \in [1..Files[q][e].hunks -> {"old", "alien"}]
        BY <3>1
    <3> DEFINE m == Files[q][e].hunks
               list == h[f]
    <3>3. m \in Nat
        BY <2>4
    <3>4. list \in [1..m -> {"old", "alien"}]
        BY <3>2
    <3>5. Len(list) = Files[r][f].hunks
        BY <2>3
    <3> HIDE DEF m, list
    <3>6. Len(list) = m
        BY <3>3, <3>4
    <3> QED  BY <3>4, <3>5, <3>6 DEF list
  <2>6. h \in [DOMAIN Files[r] -> UNION {[1..Files[q][f].hunks -> {"old", "alien"}] : f \in DOMAIN Files[q]}]
      BY <2>2, <2>3
  <2>7. h = [f \in DOMAIN Files[r] |-> h[f]]
      BY <2>6
  <2>8. \A f \in DOMAIN Files[r] : h[f] = [i \in 1..Files[r][f].hunks |-> h[f][i]]
      BY <2>5
  <2>9. h = [f \in DOMAIN Files[r] |-> [i \in 1..Files[r][f].hunks |-> h[f][i]]]
      BY <2>7, <2>8
  <2>10. \A f \in DOMAIN Files[r] : \A i \in 1..Files[r][f].hunks : h[f][i] \in {"old", "alien"}
      BY <2>5
  <2>11. HunksOf(h, r, {"old", "alien"})
      BY <2>9, <2>10 DEF HunksOf
  <2> QED  BY <2>11 DEF h
<1>5. \A r \in PatchRepos : HunksOf(hunk'[r], r, {"old", "new", "alien"})
    BY <1>4 DEF HunksOf
<1>6. PatchTypeOK'
    BY <1>1, <1>2, <1>3, <1>4, <1>5 DEF PatchInv, PatchTypeOK
<1>7. call'.pc = "idle" /\ call'.result = "none"
    BY <1>1 DEF IdleCall
<1>8. calls'.made # 0
    BY <1>2
<1> QED  BY <1>1, <1>6, <1>7, <1>8 DEF PatchInv

LEMMA ApplyPatchKeeps == ASSUME PatchInv, ApplyPatch PROVE PatchInv'
<1>1. PICK restore \in BOOLEAN, refused \in BOOLEAN :
        /\ call' = [pc |-> "apply", restore |-> restore, todo |-> PatchRepos, repo |-> "",
                    result |-> IF refused THEN "refused" ELSE "none"]
        /\ \E expanded : calls' = [calls EXCEPT !.made = @ + 1, !.expanded = expanded]
    BY DEF ApplyPatch
<1>2. /\ calls.made \in Nat /\ calls = [made |-> calls.made, fixed |-> calls.fixed, expanded |-> calls.expanded]
      /\ call.pc = "idle" /\ UNCHANGED <<hunk, without>>
    BY DEF PatchInv, PatchTypeOK, ApplyPatch
<1>3. /\ calls'.made = calls.made + 1 /\ calls'.made \in Nat /\ calls'.made # 0
      /\ calls' = [made |-> calls'.made, fixed |-> calls'.fixed, expanded |-> calls'.expanded]
  <2>1. PICK expanded : calls' = [calls EXCEPT !.made = @ + 1, !.expanded = expanded]
      BY <1>1
  <2>2. calls' = [made |-> calls.made + 1, fixed |-> calls.fixed, expanded |-> expanded]
      BY <1>2, <2>1
  <2> QED  BY <1>2, <2>2
<1>4. call'.pc = "apply" /\ call'.todo = PatchRepos /\ call'.result # "ok"
      /\ call' = [pc |-> call'.pc, restore |-> call'.restore, todo |-> call'.todo, repo |-> call'.repo, result |-> call'.result]
    BY <1>1
<1> QED  BY <1>2, <1>3, <1>4, OnlyCallMoves

LEMMA CallMade == PatchInv /\ call.pc # "idle" => calls.made # 0
<1>1. IdleCall.pc = "idle"
    BY DEF IdleCall
<1> QED  BY <1>1, Zenon DEF PatchInv

LEMMA PolicyErrorKeeps == ASSUME PatchInv, PolicyError PROVE PatchInv'
<1>1. /\ call.pc = "apply" /\ call' = [call EXCEPT !.pc = "idle", !.result = "refused", !.todo = {}]
      /\ UNCHANGED <<hunk, calls, without>> /\ PatchTypeOK
    BY DEF PolicyError, PatchInv
<1>2. /\ call'.pc = "idle" /\ call'.result = "refused" /\ call'.todo = {}
      /\ call' = [pc |-> call'.pc, restore |-> call'.restore, todo |-> call'.todo, repo |-> call'.repo, result |-> call'.result]
    BY <1>1 DEF PatchTypeOK
<1> QED  BY <1>1, <1>2, OnlyCallMoves, CallMade DEF PatchTypeOK

LEMMA ApplyDoneKeeps == ASSUME PatchInv, ApplyDone PROVE PatchInv'
<1>1. /\ call.pc = "apply" /\ call.result = "none" /\ call.todo = {} /\ call' = [call EXCEPT !.pc = "idle", !.result = "ok"]
      /\ UNCHANGED <<hunk, calls, without>> /\ PatchTypeOK
    BY DEF ApplyDone, PatchInv
<1>2. /\ call'.pc = "idle" /\ call'.result = "ok" /\ call'.todo = {}
      /\ call' = [pc |-> call'.pc, restore |-> call'.restore, todo |-> call'.todo, repo |-> call'.repo, result |-> call'.result]
    BY <1>1 DEF PatchTypeOK
<1>3. \A r \in PatchRepos : AllHunks(hunk[r], "new")
    BY <1>1 DEF PatchInv
<1> QED  BY <1>1, <1>2, <1>3, OnlyCallMoves, CallMade DEF PatchTypeOK

\* A repository takes in the patch, or what fits of it before it is reverted.
LEMMA ApplyRepoKeeps == ASSUME PatchInv, ApplyRepo PROVE PatchInv'
<1>1. PICK r \in call.todo :
         /\ hunk' = [hunk EXCEPT ![r] = ApplyCommand(@)]
         /\ call' = IF ApplyCommandFails(hunk[r]) THEN [call EXCEPT !.pc = "revert", !.repo = r]
                    ELSE [call EXCEPT !.todo = @ \ {r}]
    BY DEF ApplyRepo
<1>2. call.pc = "apply" /\ call.result = "none" /\ UNCHANGED <<calls, without>> /\ PatchTypeOK /\ calls.made # 0 /\ r \in PatchRepos
    BY CallMade DEF ApplyRepo, PatchInv, PatchTypeOK
<1>3. hunk' = [q \in PatchRepos |-> IF q = r THEN ApplyCommand(hunk[r]) ELSE hunk[q]]
    BY <1>1, <1>2 DEF PatchTypeOK
<1>4. hunk'[r] = ApplyCommand(hunk[r]) /\ (\A q \in PatchRepos : q # r => hunk'[q] = hunk[q]) /\ hunk' = [q \in PatchRepos |-> hunk'[q]]
    BY <1>2, <1>3
<1>5. HunksOf(hunk[r], r, {"old", "new", "alien"}) /\ HunksOf(without[r], r, {"old", "alien"})
    BY <1>2 DEF PatchTypeOK
<1>6. AllHunks(hunk[r], "new") \/ hunk[r] = without[r]
    BY <1>2 DEF PatchInv
<1>7. /\ HunksOf(hunk'[r], r, {"old", "new", "alien"})
      /\ ~ApplyCommandFails(hunk[r]) => AllHunks(hunk'[r], "new")
      /\ ApplyCommandFails(hunk[r]) => hunk'[r] = AllThatFits(without[r]) /\ ~AllHunks(hunk'[r], "new")
  <2>1. CASE AllHunks(hunk[r], "new")
      BY <1>4, <1>5, <2>1, ApplyWhereAllIs
  <2>2. CASE hunk[r] = without[r]
    <3>1. HunksOf(ApplyCommand(hunk[r]), r, {"new", "alien"}) => HunksOf(ApplyCommand(hunk[r]), r, {"old", "new", "alien"})
        BY DEF HunksOf
    <3>2. HunksOf(hunk[r], r, {"old", "alien"})
        BY <1>5, <2>2
    <3> QED  BY <1>2, <1>4, <2>2, <3>1, <3>2, ApplyWhereNoneIs
  <2> QED  BY <1>6, <2>1, <2>2
<1>8. PatchTypeOK'
    BY <1>1, <1>2, <1>4, <1>7 DEF PatchTypeOK
<1>9. CASE ApplyCommandFails(hunk[r])
  <2>1. call' = [call EXCEPT !.pc = "revert", !.repo = r]
      BY <1>1, <1>9
  <2>2. call'.pc = "revert" /\ call'.repo = r /\ call'.result = "none"
      BY <1>2, <2>1 DEF PatchTypeOK
  <2> QED  BY <1>2, <1>4, <1>7, <1>8, <1>9, <2>2 DEF PatchInv
<1>10. CASE ~ApplyCommandFails(hunk[r])
  <2>1. call' = [call EXCEPT !.todo = @ \ {r}]
      BY <1>1, <1>10
  <2>2. call'.pc = "apply" /\ call'.todo = call.todo \ {r} /\ call'.result = "none"
      BY <1>2, <2>1 DEF PatchTypeOK
  <2> QED  BY <1>2, <1>4, <1>7, <1>8, <1>10, <2>2 DEF PatchInv
<1> QED  BY <1>9, <1>10

\* The repository that failed is as it was before the call.
LEMMA RevertRepoKeeps == ASSUME PatchInv, RevertRepo PROVE PatchInv'
<1> DEFINE r == call.repo
<1>1. /\ call.pc = "revert" /\ hunk' = [hunk EXCEPT ![r] = RevertCommand(@)]
      /\ call' = [call EXCEPT !.pc = "idle", !.result = "failed", !.todo = {}]
      /\ UNCHANGED <<calls, without>> /\ PatchTypeOK /\ calls.made # 0
    BY CallMade DEF RevertRepo, PatchInv
<1>2. r \in PatchRepos /\ hunk[r] = AllThatFits(without[r]) /\ ~AllHunks(hunk[r], "new")
    BY <1>1 DEF PatchInv
<1> HIDE DEF r
<1>3. hunk' = [q \in PatchRepos |-> IF q = r THEN RevertCommand(hunk[r]) ELSE hunk[q]]
    BY <1>1, <1>2 DEF PatchTypeOK
<1>4. hunk'[r] = RevertCommand(hunk[r]) /\ (\A q \in PatchRepos : q # r => hunk'[q] = hunk[q]) /\ hunk' = [q \in PatchRepos |-> hunk'[q]]
    BY <1>2, <1>3
<1>5. HunksOf(without[r], r, {"old", "alien"})
    BY <1>1, <1>2 DEF PatchTypeOK
<1>6. hunk'[r] = without[r]
    BY <1>2, <1>4, <1>5, RevertWhatFits
<1>7. HunksOf(without[r], r, {"old", "new", "alien"})
    BY <1>5 DEF HunksOf
<1>8. call'.pc = "idle" /\ call'.result = "failed" /\ call'.todo = {}
      /\ call' = [pc |-> call'.pc, restore |-> call'.restore, todo |-> call'.todo, repo |-> call'.repo, result |-> call'.result]
    BY <1>1 DEF PatchTypeOK
<1>9. \A q \in PatchRepos : HunksOf(hunk'[q], q, {"old", "new", "alien"})
    BY <1>1, <1>4, <1>6, <1>7 DEF PatchTypeOK
<1>10. PatchTypeOK'
    BY <1>1, <1>4, <1>8, <1>9 DEF PatchTypeOK
<1>11. \A q \in PatchRepos : AllHunks(hunk'[q], "new") \/ hunk'[q] = without[q]
    BY <1>1, <1>4, <1>6 DEF PatchInv, r
<1> QED  BY <1>1, <1>8, <1>10, <1>11 DEF PatchInv

\* A hunk made to fit is in none of the repositories that have the patch.
LEMMA FixContextKeeps == ASSUME PatchInv, FixContext PROVE PatchInv'
<1>1. /\ call.pc = "idle" /\ calls' = [calls EXCEPT !.fixed = @ + 1] /\ call' = call /\ PatchTypeOK /\ calls.made # 0
    BY DEF FixContext, PatchInv
<1>2. PICK r \in PatchRepos : \E f \in DOMAIN hunk[r] : \E i \in DOMAIN hunk[r][f] :
         /\ hunk[r][f][i] = "alien"
         /\ hunk' = [hunk EXCEPT ![r][f][i] = "old"] /\ without' = [without EXCEPT ![r][f][i] = "old"]
    BY DEF FixContext
<1>3. PICK f \in DOMAIN hunk[r] : \E i \in DOMAIN hunk[r][f] :
         /\ hunk[r][f][i] = "alien"
         /\ hunk' = [hunk EXCEPT ![r][f][i] = "old"] /\ without' = [without EXCEPT ![r][f][i] = "old"]
    BY <1>2
<1>4. PICK i \in DOMAIN hunk[r][f] :
         /\ hunk[r][f][i] = "alien"
         /\ hunk' = [hunk EXCEPT ![r][f][i] = "old"] /\ without' = [without EXCEPT ![r][f][i] = "old"]
    BY <1>3
<1>5. HunksOf(hunk[r], r, {"old", "new", "alien"}) /\ HunksOf(without[r], r, {"old", "alien"})
    BY <1>1 DEF PatchTypeOK
<1>6. f \in DOMAIN Files[r] /\ i \in 1..Files[r][f].hunks
    BY <1>5, HunkShape, ZenonT(60)
<1>7. ~AllHunks(hunk[r], "new")
    BY <1>4, <1>5, <1>6, AllHunksIn
<1>8. hunk[r] = without[r] /\ call.result # "ok"
    BY <1>1, <1>7 DEF PatchInv
<1> DEFINE fixed == [hunk[r] EXCEPT ![f][i] = "old"]
<1>9. /\ hunk' = [q \in PatchRepos |-> IF q = r THEN fixed ELSE hunk[q]]
      /\ without' = [q \in PatchRepos |-> IF q = r THEN fixed ELSE without[q]]
    BY <1>1, <1>4, <1>8 DEF PatchTypeOK
<1>10. HunksOf(fixed, r, {"old", "alien"})
  <2>1. fixed = [e \in DOMAIN Files[r] |-> [k \in 1..Files[r][e].hunks |-> IF e = f /\ k = i THEN "old" ELSE hunk[r][e][k]]]
    <3>1. hunk[r] = [e \in DOMAIN Files[r] |-> [k \in 1..Files[r][e].hunks |-> hunk[r][e][k]]]
        BY <1>5 DEF HunksOf
    <3> QED  BY <1>6, <3>1
  <2> DEFINE g == [e \in DOMAIN Files[r] |-> [k \in 1..Files[r][e].hunks |-> IF e = f /\ k = i THEN "old" ELSE hunk[r][e][k]]]
  <2>2. g = [e \in DOMAIN Files[r] |-> [k \in 1..Files[r][e].hunks |-> g[e][k]]]
      OBVIOUS
  <2>3. \A e \in DOMAIN Files[r] : \A k \in 1..Files[r][e].hunks : hunk[r][e][k] \in {"old", "alien"}
      BY <1>5, <1>8, HunkStates
  <2>4. \A e \in DOMAIN Files[r] : \A k \in 1..Files[r][e].hunks : g[e][k] \in {"old", "alien"}
      BY <2>3
  <2>5. HunksOf(g, r, {"old", "alien"})
    <3> HIDE DEF g
    <3> QED  BY <2>2, <2>4 DEF HunksOf
  <2> QED  BY <2>1, <2>5
<1> HIDE DEF fixed
<1>11. HunksOf(fixed, r, {"old", "new", "alien"})
    BY <1>10 DEF HunksOf
<1>12. /\ hunk'[r] = fixed /\ without'[r] = fixed
       /\ \A q \in PatchRepos : q # r => hunk'[q] = hunk[q] /\ without'[q] = without[q]
       /\ hunk' = [q \in PatchRepos |-> hunk'[q]] /\ without' = [q \in PatchRepos |-> without'[q]]
    BY <1>9
<1>13. calls'.made = calls.made /\ calls' = [made |-> calls'.made, fixed |-> calls'.fixed, expanded |-> calls'.expanded]
    BY <1>1 DEF PatchTypeOK
<1>14. PatchTypeOK'
    BY <1>1, <1>10, <1>11, <1>12, <1>13 DEF PatchTypeOK
<1>15. \A q \in PatchRepos : AllHunks(hunk'[q], "new") \/ hunk'[q] = without'[q]
    BY <1>1, <1>12 DEF PatchInv
<1> QED  BY <1>1, <1>8, <1>13, <1>14, <1>15 DEF PatchInv

LEMMA PatchStarts == PatchInit => PatchInv
<1> SUFFICES ASSUME PatchInit PROVE PatchInv
    OBVIOUS
<1>1. /\ hunk = [r \in PatchRepos |-> [f \in DOMAIN Files[r] |-> [i \in 1..Files[r][f].hunks |-> "old"]]]
      /\ call = IdleCall /\ calls = [made |-> 0, fixed |-> 0, expanded |-> {}] /\ without = hunk
    BY DEF PatchInit
<1>2. \A r \in PatchRepos : HunksOf(hunk[r], r, {"old", "new", "alien"}) /\ HunksOf(hunk[r], r, {"old", "alien"})
    BY <1>1 DEF HunksOf
<1>3. PatchTypeOK
    BY <1>1, <1>2 DEF PatchTypeOK, IdleCall
<1> QED  BY <1>1, <1>3 DEF PatchInv, IdleCall

LEMMA PatchStays == PatchInv /\ [PatchNext]_patchVars => PatchInv'
<1> SUFFICES ASSUME PatchInv, [PatchNext]_patchVars PROVE PatchInv'
    OBVIOUS
<1>1. CASE WorkspaceFound \/ ApplyPatch \/ PolicyError \/ ApplyRepo
    BY <1>1, WorkspaceFoundKeeps, ApplyPatchKeeps, PolicyErrorKeeps, ApplyRepoKeeps
<1>2. CASE RevertRepo \/ ApplyDone \/ FixContext
    BY <1>2, RevertRepoKeeps, ApplyDoneKeeps, FixContextKeeps
<1>3. CASE UNCHANGED <<hunk, call, calls, without>>
    BY <1>3 DEF PatchInv, PatchTypeOK
<1>4. CASE ProbeEdit \/ ProbePath \/ UNCHANGED patchVars
    BY <1>3, <1>4 DEF ProbeEdit, ProbePath, patchVars
<1> QED  BY <1>1, <1>2, <1>4 DEF PatchNext

\* After every call each repository holds all of the patch or none of it, whatever fitted
\* and however often it was tried, and a call that succeeded left all of it in all of them
\* (ApplyPatch, ApplyCommand, RevertCommand).
THEOREM PatchesAreWhole == PatchSpec => []PatchAllOrNothing
<1>1. PatchInv => PatchAllOrNothing
    BY DEF PatchInv, PatchAllOrNothing
<1> QED  BY <1>1, PatchStarts, PatchStays, PTL DEF PatchSpec

-----------------------------------------------------------------------------
\* Search/replace

Content == [lines : Seq(Line), nl : BOOLEAN]
Block == Seq(Line) \ {<<>>}

LEMMA LeastNatural ==
    ASSUME NEW S, S \subseteq Nat, S # {}
    PROVE  \E m \in S : \A k \in S : m <= k
<1>1. PICK r \in S : \A q \in S : ~(<<q, r>> \in OpToRel(<, Nat))
  BY NatLessThanWellFounded, WFMin
<1>2. \A q \in S : <<q, r>> \in OpToRel(<, Nat) <=> q < r
  BY <1>1 DEF OpToRel
<1>3. \A q \in S : ~(q < r)
  BY <1>1, <1>2, Zenon
<1> QED
  BY <1>3

\* The place that is taken is one of those found.
LEMMA TheIsLeast ==
    ASSUME NEW S, S \subseteq Nat, S # {}
    PROVE  The(S) \in S
BY LeastNatural DEF The

\* Without an exact place none is counted: going up from the last line, every count is zero.
LEMMA CountedIsFound ==
    ASSUME NEW c \in Content, NEW s \in Block, CountExact(c, s) = 1
    PROVE  ExactWindows(c, s) # {}
<1> SUFFICES ASSUME ExactWindows(c, s) = {} PROVE FALSE
  OBVIOUS
<1> DEFINE L == Len(c.lines)
           Spots == 1..(L + Len(s))
           Count(n) == n = [i \in Spots |->
                        IF i > L THEN 0
                        ELSE IF i \in ExactWindows(c, s) THEN 1 + n[i + Len(s)] ELSE n[i + 1]]
           n == CHOOSE n : Count(n)
<1>1. L \in Nat /\ Len(s) \in Nat \ {0}
  BY DEF Content, Block
<1>2. Count([i \in Spots |-> 0])
  BY <1>1
<1> HIDE DEF Count
<1>3. Count(n)
  BY <1>2
<1>4. CountExact(c, s) = n[1]
  BY DEF CountExact, Count
<1> HIDE DEF n
<1>5. \A i \in Spots : n[i] = IF i > L THEN 0 ELSE n[i + 1]
  BY <1>3 DEF Count
<1> DEFINE Left == {k \in 0..L : n[L + 1 - k] # 0}
<1>6. L \in Left
  BY <1>1, <1>4
<1>7. PICK k \in Left : \A j \in Left : k <= j
  <2>1. Left \subseteq Nat /\ Left # {}
    BY <1>1, <1>6
  <2> HIDE DEF Left
  <2> QED  BY <2>1, LeastNatural
<1>8. k # 0
  BY <1>1, <1>5, <1>7
<1>9. k - 1 \in Left
  <2>1. L + 1 - k \in Spots /\ L + 1 - k <= L /\ L + 1 - k + 1 = L + 1 - (k - 1)
    BY <1>1, <1>7, <1>8
  <2>2. n[L + 1 - k] = n[L + 1 - (k - 1)]
    BY <1>1, <1>5, <2>1
  <2> QED  BY <1>1, <1>7, <1>8, <2>2
<1> QED  BY <1>7, <1>9

LEMMA ListOf ==
    ASSUME NEW S, NEW n \in Nat, NEW f, f = [k \in 1..n |-> f[k]], \A k \in 1..n : f[k] \in S
    PROVE  f \in Seq(S) /\ Len(f) = n
<1>1. f \in [1..n -> S]
  OBVIOUS
<1> QED  BY <1>1

LEMMA Joined ==
    ASSUME NEW S, NEW p \in Seq(S), NEW q \in Seq(S)
    PROVE  /\ p \o q \in Seq(S) /\ Len(p \o q) = Len(p) + Len(q)
           /\ DOMAIN (p \o q) = 1..(Len(p) + Len(q))
           /\ \A j \in 1..(Len(p) + Len(q)) :
                 (p \o q)[j] = IF j <= Len(p) THEN p[j] ELSE q[j - Len(p)]
OBVIOUS

\* What an edit leaves of the file.
LEMMA SpliceLines ==
    ASSUME NEW c \in Content, NEW s \in Block, NEW text \in Seq(Line), NEW i \in Windows(c, s)
    PROVE  LET out == Splice(c, s, i, text).lines
           IN  /\ Len(out) = Len(c.lines) - Len(s) + Len(text) /\ DOMAIN out = 1..Len(out)
               /\ \A j \in DOMAIN out :
                     out[j] = IF j < i THEN c.lines[j]
                              ELSE IF j < i + Len(text) THEN text[j - i + 1]
                              ELSE c.lines[j + Len(s) - Len(text)]
<1> DEFINE L == c.lines
           a == SubSeq(L, 1, i - 1)
           b == SubSeq(L, i + Len(s), Len(L))
           out == Splice(c, s, i, text).lines
<1>1. L \in Seq(Line) /\ Len(s) \in Nat \ {0} /\ Len(L) \in Nat /\ Len(text) \in Nat
  BY DEF Content, Block
<1>2. i \in Nat \ {0} /\ i + Len(s) <= Len(L) + 1
  BY <1>1 DEF Windows
<1>3. a \in Seq(Line) /\ Len(a) = i - 1 /\ \A j \in 1..(i - 1) : a[j] = L[j]
  BY <1>1, <1>2
<1>4. b \in Seq(Line) /\ Len(b) = Len(L) - i - Len(s) + 1
      /\ \A j \in 1..Len(b) : b[j] = L[i + Len(s) + j - 1]
  BY <1>1, <1>2
<1>5. out = a \o text \o b
  <2>1. i + Len(s) - 1 + 1 = i + Len(s)
    BY <1>1, <1>2
  <2> QED  BY <2>1 DEF Splice, Rest
<1> DEFINE head == a \o text
<1> HIDE DEF a, b, out, L
<1>6. head \in Seq(Line) /\ Len(head) = i - 1 + Len(text)
      /\ \A j \in 1..Len(head) : head[j] = IF j <= i - 1 THEN a[j] ELSE text[j - (i - 1)]
  <2>1. Len(a) = i - 1 /\ a \in Seq(Line) /\ text \in Seq(Line)
    BY <1>3
  <2> QED  BY <2>1, Joined
<1> HIDE DEF head
<1>7. Len(out) = Len(head) + Len(b) /\ DOMAIN out = 1..Len(out)
      /\ \A j \in 1..Len(out) : out[j] = IF j <= Len(head) THEN head[j] ELSE b[j - Len(head)]
  <2>1. out = head \o b /\ head \in Seq(Line) /\ b \in Seq(Line)
    BY <1>4, <1>5, <1>6 DEF head
  <2>2. Len(out) = Len(head) + Len(b) /\ DOMAIN out = 1..(Len(head) + Len(b))
        /\ \A j \in 1..(Len(head) + Len(b)) : out[j] = IF j <= Len(head) THEN head[j] ELSE b[j - Len(head)]
    <3> HIDE DEF out
    <3> QED  BY <2>1, Joined
  <2> QED  BY <2>2
<1>8. ASSUME NEW j \in 1..Len(out)
      PROVE  out[j] = IF j < i THEN L[j]
                              ELSE IF j < i + Len(text) THEN text[j - i + 1]
                              ELSE L[j + Len(s) - Len(text)]
  <2> HIDE DEF Windows
  <2>1. CASE j <= Len(head)
    <3>1. j \in 1..Len(head) /\ out[j] = head[j]
      BY <1>6, <1>7, <2>1
    <3>2. j <= i - 1 <=> j < i
      BY <1>2
    <3>3. j < i + Len(text)
      BY <1>1, <1>2, <1>6, <2>1
    <3>4. CASE j < i
      BY <1>2, <1>3, <1>6, <3>1, <3>4
    <3>5. CASE ~(j < i)
      <4>1. j - (i - 1) = j - i + 1
        BY <1>2
      <4> QED  BY <1>6, <3>1, <3>2, <3>3, <3>5, <4>1
    <3> QED  BY <3>4, <3>5
  <2>2. CASE j > Len(head)
    <3>1. j - Len(head) \in 1..Len(b)
      <4>1. Len(head) \in Nat /\ Len(b) \in Nat /\ j \in 1..(Len(head) + Len(b))
        BY <1>4, <1>6, <1>7
      <4> QED  BY <2>2, <4>1
    <3>2. i + Len(s) + (j - Len(head)) - 1 = j + Len(s) - Len(text)
      BY <1>1, <1>2, <1>6, <3>1
    <3>3. ~(j < i) /\ ~(j < i + Len(text))
      BY <1>1, <1>2, <1>6, <2>2
    <3> QED  BY <1>4, <1>7, <2>2, <3>1, <3>2, <3>3
  <2> QED  BY <1>1, <1>2, <1>6, <2>1, <2>2
<1>9. Len(out) = Len(L) - Len(s) + Len(text)
  BY <1>1, <1>2, <1>4, <1>6, <1>7
<1>10. DOMAIN out = 1..Len(out)
  BY <1>7
<1> SUFFICES /\ Len(out) = Len(L) - Len(s) + Len(text) /\ DOMAIN out = 1..Len(out)
             /\ \A j \in 1..Len(out) :
                   out[j] = IF j < i THEN L[j]
                            ELSE IF j < i + Len(text) THEN text[j - i + 1]
                            ELSE L[j + Len(s) - Len(text)]
  BY <1>10 DEF out, L
<1> QED  BY <1>8, <1>9, <1>10

\* The lines of the file an edit replaces, as they come back.
Back(c, s, i, text) ==
    \A j \in 1..Len(text) : LET was == c.lines[i + (IF j < Len(s) THEN j ELSE Len(s)) - 1]
                            IN  text[j].body = was.body /\ text[j].ind = was.ind

LEMMA LineAt ==
    ASSUME NEW c \in Content, NEW s \in Block, NEW i \in Windows(c, s), NEW k \in 1..Len(s)
    PROVE  /\ i \in Nat \ {0} /\ Len(s) \in Nat \ {0} /\ i + k - 1 \in 1..Len(c.lines)
           /\ c.lines[i + k - 1] \in Line /\ s[k] \in Line
BY DEF Content, Block, Windows

\* An exact match puts the text back as it stood, the end of a line to the end of that line.
LEMMA ExactText ==
    ASSUME NEW c \in Content, NEW s \in Block, NEW i \in ExactWindows(c, s)
    PROVE  LET text == SpliceExact(c, s, i, s)
           IN  text \in Seq(Line) /\ Len(text) = Len(s) /\ Back(c, s, i, text)
<1> DEFINE text == SpliceExact(c, s, i, s)
           l == c.lines[i]
           head == [s[1] EXCEPT !.ind = s[1].ind + l.ind - s[1].ind,
                                !.chr = IF l.ind > s[1].ind THEN l.chr ELSE s[1].chr]
<1>1. i \in Windows(c, s)
  BY DEF ExactWindows
<1>2. s \in Seq(Line) /\ Len(s) \in Nat \ {0} /\ l \in Line /\ s[1] \in Line /\ i \in Nat
  BY <1>1, LineAt DEF Block
<1>3. text = [s EXCEPT ![1] = head]
  BY DEF SpliceExact
<1>4. head \in Line /\ head.body = s[1].body /\ head.ind = l.ind
  <2> DEFINE x == s[1].ind + l.ind - s[1].ind
             y == IF l.ind > s[1].ind THEN l.chr ELSE s[1].chr
             f == s[1]
  <2>1. x = l.ind /\ x \in Nat /\ y \in {" ", "tab"} /\ f \in Line
    <3>1. l.ind \in Nat /\ f.ind \in Nat /\ {l.chr, f.chr} \subseteq {" ", "tab"} /\ f \in Line
      BY <1>2 DEF Line
    <3> DEFINE p == l.ind
               q == f.ind
    <3>2. x = q + p - q /\ p \in Nat /\ q \in Nat
      BY <3>1
    <3> HIDE DEF p, q, x
    <3>3. x = p /\ x \in Nat
      BY <3>2
    <3> QED  BY <3>1, <3>3 DEF p
  <2>2. head = [f EXCEPT !.ind = x, !.chr = y]
    OBVIOUS
  <2> HIDE DEF x, y, f, l, head
  <2>3. head \in Line /\ head.body = f.body /\ head.ind = x
    BY <2>1, <2>2 DEF Line
  <2> QED  BY <2>1, <2>3 DEF f
<1>5. s[1].body = l.body /\ \A j \in 2..Len(s) : c.lines[i + j - 1] = s[j]
  BY DEF ExactWindows, SameText
<1> HIDE DEF text, head
<1>6. text \in Seq(Line) /\ Len(text) = Len(s) /\ text[1] = head
      /\ \A j \in 2..Len(s) : text[j] = s[j]
  BY <1>2, <1>3, <1>4
<1>7. Back(c, s, i, text)
  <2> SUFFICES ASSUME NEW j \in 1..Len(s)
               PROVE  text[j].body = c.lines[i + j - 1].body /\ text[j].ind = c.lines[i + j - 1].ind
    BY <1>2, <1>6 DEF Back
  <2>1. CASE j = 1
    <3>1. i + j - 1 = i
      BY <1>2, <2>1
    <3>2. s[1].body = l.body /\ text[1] = head
      BY <1>5, <1>6 DEF l
    <3> QED  BY <1>4, <2>1, <3>1, <3>2 DEF l
  <2>2. CASE j # 1
    <3>1. j \in 2..Len(s)
      BY <1>2, <2>2
    <3> QED  BY <1>5, <1>6, <3>1
  <2> QED  BY <2>1, <2>2
<1> QED  BY <1>6, <1>7 DEF text

\* A fuzzy match shifts every line by as much as the file's differs from the search text's.
LEMMA FuzzyText ==
    ASSUME NEW c \in Content, NEW s \in Block, NEW i \in TrimmedLineMatch(c, s),
           NEW r \in {s, Append(s, s[Len(s)])}
    PROVE  LET text == ReindentReplace(c, s, i, r)
           IN  text \in Seq(Line) /\ Len(text) = Len(r) /\ Back(c, s, i, text)
<1> DEFINE text == ReindentReplace(c, s, i, r)
           At(j) == IF j < Len(s) THEN j ELSE Len(s)
           d(j) == IndentDelta(c, s, i, At(j))
           ind(j) == IF r[j].ind + d(j) > 0 THEN r[j].ind + d(j) ELSE 0
           chr(j) == IF ind(j) = 0 THEN " " ELSE DetectIndentChar(c, s, i)
<1>1. i \in Windows(c, s)
  BY DEF TrimmedLineMatch
<1>2. s \in Seq(Line) /\ Len(s) \in Nat \ {0} /\ s[Len(s)] \in Line
  BY DEF Block
<1>3. r \in Seq(Line) /\ Len(r) \in Nat \ {0} /\ DOMAIN r = 1..Len(r)
      /\ \A j \in DOMAIN r : At(j) \in 1..Len(s) /\ r[j] = s[At(j)]
  <2>1. CASE r = s
    BY <1>2, <2>1
  <2>2. CASE r = Append(s, s[Len(s)])
    BY <1>2, <2>2
  <2> QED  BY <2>1, <2>2
<1>4. DetectIndentChar(c, s, i) \in {" ", "tab"}
  <2> DEFINE indented == {j \in i..(i + Len(s) - 1) : c.lines[j].ind > 0}
             first == CHOOSE j \in indented : \A k \in indented : j <= k
  <2>1. CASE indented = {}
    <3>1. DetectIndentChar(c, s, i) = " "
      BY <2>1 DEF DetectIndentChar
    <3>2. " " \in {" ", "tab"}
      OBVIOUS
    <3> QED  BY <3>1, <3>2
  <2>2. CASE indented # {}
    <3>1. indented \subseteq Nat /\ indented \subseteq 1..Len(c.lines)
      BY <1>1, <1>2 DEF Windows, Content
    <3>2. first \in indented
      <4> HIDE DEF indented
      <4> QED  BY <2>2, <3>1, LeastNatural
    <3>3. first \in 1..Len(c.lines) /\ c.lines \in Seq(Line)
      BY <3>1, <3>2 DEF Content
    <3>4. DetectIndentChar(c, s, i) = c.lines[first].chr
      BY <2>2 DEF DetectIndentChar
    <3> HIDE DEF first, indented
    <3>5. c.lines[first] \in Line
      BY <3>3
    <3> QED  BY <3>4, <3>5 DEF Line
  <2> QED  BY <2>1, <2>2
<1>5. text = [j \in DOMAIN r |-> [r[j] EXCEPT !.ind = ind(j), !.chr = chr(j)]]
  BY DEF ReindentReplace
<1>6. ASSUME NEW j \in DOMAIN r
      PROVE  /\ ind(j) = c.lines[i + At(j) - 1].ind /\ ind(j) \in Nat /\ chr(j) \in {" ", "tab"}
             /\ r[j] \in Line /\ r[j].body = c.lines[i + At(j) - 1].body
  <2>1. At(j) \in 1..Len(s) /\ r[j] = s[At(j)]
    BY <1>3
  <2> HIDE DEF At
  <2>2. c.lines[i + At(j) - 1] \in Line /\ s[At(j)] \in Line
    BY <1>1, <2>1, LineAt
  <2>3. d(j) = c.lines[i + At(j) - 1].ind - s[At(j)].ind
    BY DEF IndentDelta
  <2>4. ind(j) = c.lines[i + At(j) - 1].ind /\ ind(j) \in Nat
    <3> DEFINE p == c.lines[i + At(j) - 1].ind
               q == s[At(j)].ind
    <3>1. p \in Nat /\ q \in Nat
      BY <2>2 DEF Line
    <3>2. r[j].ind = q /\ d(j) = p - q
      BY <2>1, <2>3
    <3> HIDE DEF p, q, d
    <3>3. ind(j) = p /\ p \in Nat
      BY <3>1, <3>2
    <3> QED  BY <3>3 DEF p
  <2>5. s[At(j)].body = c.lines[i + At(j) - 1].body
    BY <2>1 DEF TrimmedLineMatch, SameText
  <2>6. chr(j) \in {" ", "tab"}
    <3>1. " " \in {" ", "tab"}
      OBVIOUS
    <3> HIDE DEF ind
    <3> QED  BY <1>4, <3>1
  <2>7. r[j] \in Line /\ r[j].body = c.lines[i + At(j) - 1].body
    BY <2>1, <2>2, <2>5
  <2> HIDE DEF ind, chr, d
  <2> QED  BY <2>4, <2>6, <2>7
<1> HIDE DEF ind, chr
<1>7. ASSUME NEW j \in DOMAIN r
      PROVE  text[j] \in Line /\ text[j].body = r[j].body /\ text[j].ind = ind(j)
  <2> DEFINE x == ind(j)
             y == chr(j)
  <2>1. text[j] = [r[j] EXCEPT !.ind = x, !.chr = y]
    BY <1>5, <1>7
  <2>2. x \in Nat /\ y \in {" ", "tab"} /\ r[j] \in Line
    BY <1>6, <1>7
  <2> HIDE DEF x, y, text
  <2>3. text[j] \in Line /\ text[j].body = r[j].body /\ text[j].ind = x
    BY <2>1, <2>2 DEF Line
  <2> QED  BY <2>3 DEF x
<1>8. text \in Seq(Line) /\ Len(text) = Len(r)
  <2>1. DOMAIN text = 1..Len(r)
    BY <1>3, <1>5
  <2>2. \A j \in 1..Len(r) : text[j] \in Line
    BY <1>3, <1>7
  <2>3. text = [j \in 1..Len(r) |-> text[j]]
    <3> DEFINE e(j) == [r[j] EXCEPT !.ind = ind(j), !.chr = chr(j)]
    <3>1. text = [j \in 1..Len(r) |-> e(j)]
      BY <1>3, <1>5
    <3> HIDE DEF e, text
    <3> QED  BY <3>1
  <2> DEFINE n == Len(r)
  <2>4. n \in Nat
    BY <1>3
  <2> HIDE DEF text, n
  <2>5. text \in Seq(Line) /\ Len(text) = n
    BY <2>2, <2>3, <2>4, ListOf DEF n
  <2> QED  BY <2>5 DEF n
<1>9. Back(c, s, i, text)
  BY <1>3, <1>6, <1>7, <1>8 DEF Back
<1> QED  BY <1>8, <1>9

\* Every tier of fuzzy matching finds places where the texts of the lines agree.
LEMMA TiersAgree ==
    ASSUME NEW c \in Content, NEW s \in Block
    PROVE  TrailingWSMatch(c, s) \cup RelativeIndentMatch(c, s) \subseteq TrimmedLineMatch(c, s)
<1>1. TrailingWSMatch(c, s) \subseteq TrimmedLineMatch(c, s)
  BY DEF TrailingWSMatch, TrimmedLineMatch, TrailingWSEqual
<1>2. ASSUME NEW i \in RelativeIndentMatch(c, s) PROVE i \in TrimmedLineMatch(c, s)
  <2> DEFINE w == SubSeq(c.lines, i, i + Len(s) - 1)
  <2>1. i \in Windows(c, s) /\ \A j \in 1..Len(s) : SameText(w[j], s[j])
    BY <1>2 DEF RelativeIndentMatch
  <2>2. \A j \in 1..Len(s) : w[j] = c.lines[i + j - 1]
    BY <2>1 DEF Windows, Content, Block
  <2> QED  BY <2>1, <2>2 DEF TrimmedLineMatch
<1> QED  BY <1>1, <1>2

\* An edit is applied at an exact place or at one of a tier.
LEMMA EditPlace ==
    ASSUME NEW c \in Content, NEW s \in Block, NEW r
    PROVE  LET res == ApplySearchReplace(c, s, r)
           IN  /\ ValidateSearchReplace(c, s) =>
                     /\ res.ok
                     /\ \E i \in ExactWindows(c, s) : res.out = Splice(c, s, i, SpliceExact(c, s, i, r))
               /\ res.ok /\ ~ValidateSearchReplace(c, s) =>
                     \E i \in TrimmedLineMatch(c, s) : res.out = Splice(c, s, i, ReindentReplace(c, s, i, r))
<1> DEFINE res == ApplySearchReplace(c, s, r)
           tiers == <<TrailingWSMatch(c, s), RelativeIndentMatch(c, s), TrimmedLineMatch(c, s)>>
           some == {t \in 1..3 : tiers[t] # {}}
<1>1. Len(c.lines) \in Nat /\ Len(s) \in Nat
  BY DEF Content, Block
<1>2. ExactWindows(c, s) \subseteq Nat /\ TrimmedLineMatch(c, s) \subseteq Nat
  BY <1>1 DEF ExactWindows, TrimmedLineMatch, Windows
<1>3. CASE CountExact(c, s) = 1
  <2> DEFINE i == The(ExactWindows(c, s))
  <2>1. i \in ExactWindows(c, s)
    BY <1>2, <1>3, CountedIsFound, TheIsLeast
  <2>2. res = [ok |-> TRUE, out |-> Splice(c, s, i, SpliceExact(c, s, i, r))]
    BY <1>3 DEF ApplySearchReplace
  <2> HIDE DEF i
  <2> QED  BY <1>3, <2>1, <2>2 DEF ValidateSearchReplace
<1>4. CASE CountExact(c, s) # 1 /\ res.ok
  <2> DEFINE i == The(tiers[The(some)])
  <2>1. CASE CountExact(c, s) = 0 /\ some # {} /\ Cardinality(tiers[The(some)]) = 1
    <3>1. res = [ok |-> TRUE, out |-> Splice(c, s, i, ReindentReplace(c, s, i, r))]
      BY <1>4, <2>1 DEF ApplySearchReplace
    <3>2. The(some) \in some
      <4>1. some \subseteq Nat
        OBVIOUS
      <4> HIDE DEF some
      <4> QED  BY <2>1, <4>1, TheIsLeast
    <3>3. tiers[The(some)] # {} /\ tiers[The(some)] \subseteq TrimmedLineMatch(c, s)
      <4> DEFINE t == The(some)
      <4>1. t \in 1..3 /\ tiers[t] # {}
        BY <3>2
      <4> HIDE DEF t, some
      <4>2. tiers[t] # {} /\ tiers[t] \subseteq TrimmedLineMatch(c, s)
        BY <1>2, <4>1, TiersAgree
      <4> HIDE DEF tiers
      <4> QED  BY <4>2 DEF t
    <3>4. i \in TrimmedLineMatch(c, s)
      <4> DEFINE S == tiers[The(some)]
      <4> HIDE DEF S
      <4>1. S # {} /\ S \subseteq TrimmedLineMatch(c, s)
        BY <3>3 DEF S
      <4> QED  BY <1>2, <4>1, TheIsLeast DEF S
    <3> HIDE DEF i, res
    <3> QED  BY <1>4, <3>1, <3>4 DEF ValidateSearchReplace, res
  <2>2. CASE ~(CountExact(c, s) = 0 /\ some # {} /\ Cardinality(tiers[The(some)]) = 1)
    <3>1. res = [ok |-> FALSE, out |-> c]
      BY <1>4, <2>2 DEF ApplySearchReplace
    <3> QED  BY <1>4, <3>1
  <2> QED  BY <2>1, <2>2
<1>5. CASE CountExact(c, s) # 1 /\ ~res.ok
  BY <1>5 DEF ValidateSearchReplace
<1> QED  BY <1>3, <1>4, <1>5

\* A text that comes back as it was leaves every line where it was, or one further down.
LEMMA LinesStay ==
    ASSUME NEW c \in Content, NEW s \in Block, NEW i \in Windows(c, s), NEW text \in Seq(Line),
           Len(text) \in {Len(s), Len(s) + 1}, Back(c, s, i, text)
    PROVE  LET was == c.lines
               is == Splice(c, s, i, text).lines
               k == i + Len(s) - 1
           IN  /\ k \in DOMAIN was /\ Len(is) = Len(was) + Len(text) - Len(s)
               /\ \A j \in DOMAIN is :
                     Same(is[j], was[IF j <= k \/ Len(text) = Len(s) THEN j ELSE j - 1])
<1> DEFINE was == c.lines
           is == Splice(c, s, i, text).lines
           k == i + Len(s) - 1
           n == Len(s)
           m == Len(text)
<1>1. n \in Nat \ {0} /\ m \in {n, n + 1} /\ Len(was) \in Nat /\ was \in Seq(Line)
  BY DEF Content, Block
<1>2. i \in Nat \ {0} /\ i + n <= Len(was) + 1
  BY <1>1 DEF Windows
<1>3. /\ Len(is) = Len(was) - n + m /\ DOMAIN is = 1..Len(is)
      /\ \A j \in DOMAIN is : is[j] = IF j < i THEN was[j]
                                      ELSE IF j < i + m THEN text[j - i + 1] ELSE was[j + n - m]
  BY SpliceLines
<1>4. \A j \in 1..m : /\ text[j].body = was[i + (IF j < n THEN j ELSE n) - 1].body
                      /\ text[j].ind = was[i + (IF j < n THEN j ELSE n) - 1].ind
  BY DEF Back
<1> HIDE DEF was, is, n, m
<1>5. k \in DOMAIN was /\ Len(is) = Len(was) + m - n
  BY <1>1, <1>2, <1>3 DEF n
<1>6. ASSUME NEW j \in DOMAIN is
      PROVE  Same(is[j], was[IF j <= k \/ m = n THEN j ELSE j - 1])
  <2>1. j \in Nat
    BY <1>3
  <2>2. CASE j < i
    BY <1>1, <1>2, <1>3, <2>1, <2>2 DEF n, Same, SameText
  <2>3. CASE ~(j < i) /\ j < i + m
    <3> DEFINE x == j - i + 1
    <3>1. x \in 1..m /\ is[j] = text[x]
      BY <1>1, <1>2, <1>3, <2>1, <2>3, SMTT(30)
    <3>2. i + (IF x < n THEN x ELSE n) - 1 = IF j <= i + n - 1 \/ m = n THEN j ELSE j - 1
      <4>1. CASE x < n
        BY <1>1, <1>2, <2>1, <2>3, <4>1
      <4>2. CASE ~(x < n) /\ m = n
        BY <1>1, <1>2, <2>1, <2>3, <4>2
      <4>3. CASE ~(x < n) /\ m = n + 1
        <5>1. x = n \/ x = n + 1
          BY <1>1, <1>2, <2>1, <2>3, <4>3
        <5>2. CASE x = n
          BY <1>1, <1>2, <2>1, <4>3, <5>2
        <5>3. CASE x = n + 1
          <6>1. j = i + n /\ ~(j <= i + n - 1) /\ m # n /\ ~(x < n)
            BY <1>1, <1>2, <2>1, <4>3, <5>3
          <6> QED  BY <1>1, <1>2, <2>1, <6>1
        <5> QED  BY <5>1, <5>2, <5>3
      <4> QED  BY <1>1, <4>1, <4>2, <4>3
    <3> HIDE DEF x
    <3> QED  BY <1>4, <3>1, <3>2 DEF n, Same, SameText
  <2>4. CASE ~(j < i + m)
    <3>1. ~(j < i)
      BY <1>1, <1>2, <2>1, <2>4
    <3>2. is[j] = was[j + n - m]
      BY <1>3, <2>4, <3>1
    <3>3. j + n - m = IF j <= i + n - 1 \/ m = n THEN j ELSE j - 1
      BY <1>1, <1>2, <2>1, <2>4
    <3> QED  BY <3>2, <3>3 DEF n, Same, SameText
  <2> QED  BY <2>2, <2>3, <2>4
<1> QED  BY <1>5, <1>6 DEF was, is, n, m

\* One edit.
LEMMA EditStep == ASSUME ProbeEdit PROVE EditKeepsIndentation'
<1>1. PICK c \in Contents, s \in Searches, more \in BOOLEAN :
        LET r == IF more THEN Append(s, s[Len(s)]) ELSE s
            res == ApplySearchReplace(c, s, r)
        IN  probe' = [kind |-> "edit", content |-> c, valid |-> ValidateSearchReplace(c, s),
                      more |-> more, ok |-> res.ok, out |-> res.out]
  BY DEF ProbeEdit
<1> DEFINE r == IF more THEN Append(s, s[Len(s)]) ELSE s
           res == ApplySearchReplace(c, s, r)
           valid == ValidateSearchReplace(c, s)
           was == c.lines
           is == res.out.lines
<1>2. c \in Content /\ s \in Block
  BY EditAssumption DEF Content, Block
<1>3. probe' = [kind |-> "edit", content |-> c, valid |-> valid,
                more |-> more, ok |-> res.ok, out |-> res.out]
  BY <1>1
<1>4. valid => res.ok
  BY <1>2, EditPlace
<1>5. ASSUME res.ok, ~more
      PROVE  Len(is) = Len(was) /\ \A j \in DOMAIN is : Same(is[j], was[j])
  <2>1. PICK i \in Windows(c, s), text \in Seq(Line) :
          res.out = Splice(c, s, i, text) /\ Len(text) = Len(s) /\ Back(c, s, i, text)
    <3>1. r = s
      BY <1>5
    <3>2. CASE valid
      <4>1. PICK i \in ExactWindows(c, s) : res.out = Splice(c, s, i, SpliceExact(c, s, i, s))
        BY <1>2, <3>1, <3>2, EditPlace
      <4>2. i \in Windows(c, s)
        BY DEF ExactWindows
      <4> QED  BY <1>2, <4>1, <4>2, ExactText
    <3>3. CASE ~valid
      <4>1. PICK i \in TrimmedLineMatch(c, s) : res.out = Splice(c, s, i, ReindentReplace(c, s, i, s))
        BY <1>2, <1>5, <3>1, <3>3, EditPlace
      <4>2. i \in Windows(c, s)
        BY DEF TrimmedLineMatch
      <4> QED  BY <1>2, <4>1, <4>2, FuzzyText
    <3> QED  BY <3>2, <3>3
  <2>2. Len(was) \in Nat /\ Len(s) \in Nat
    BY <1>2 DEF Content, Block
  <2> HIDE DEF res
  <2> QED  BY <1>2, <2>1, <2>2, LinesStay
<1>6. ASSUME res.ok, more, ~valid
      PROVE  \E k \in DOMAIN was :
                /\ Len(is) = Len(was) + 1
                /\ \A j \in DOMAIN is : Same(is[j], was[IF j <= k THEN j ELSE j - 1])
  <2>1. PICK i \in TrimmedLineMatch(c, s) : res.out = Splice(c, s, i, ReindentReplace(c, s, i, r))
    BY <1>2, <1>6, EditPlace
  <2> DEFINE text == ReindentReplace(c, s, i, r)
  <2>2. i \in Windows(c, s)
    BY DEF TrimmedLineMatch
  <2>3. text \in Seq(Line) /\ Len(text) = Len(r) /\ Back(c, s, i, text)
    BY <1>2, <1>6, FuzzyText
  <2>4. Len(was) \in Nat /\ Len(s) \in Nat /\ Len(r) = Len(s) + 1
    BY <1>2, <1>6 DEF Content, Block
  <2> HIDE DEF res, text, r
  <2> DEFINE k == i + Len(s) - 1
  <2>5. k \in DOMAIN was /\ Len(is) = Len(was) + Len(text) - Len(s)
        /\ \A j \in DOMAIN is : Same(is[j], was[IF j <= k \/ Len(text) = Len(s) THEN j ELSE j - 1])
    BY <1>2, <2>1, <2>2, <2>3, <2>4, LinesStay, SMTT(30) DEF text
  <2>6. Len(is) = Len(was) + 1 /\ Len(text) # Len(s)
    BY <2>3, <2>4, <2>5, SMTT(30)
  <2> HIDE DEF k
  <2> QED  BY <2>5, <2>6
<1> HIDE DEF r, res, valid
<1> QED  BY <1>3, <1>4, <1>5, <1>6 DEF EditKeepsIndentation

\* Replacing a text by itself changes no line's text and no line's indentation, for every
\* file, every search text and every tier (ReindentReplace, spliceExact).
THEOREM EditsKeepIndentation == PatchSpec => []EditKeepsIndentation
<1>1. PatchInit => EditKeepsIndentation
  BY DEF PatchInit, NoProbe, EditKeepsIndentation
<1>2. EditKeepsIndentation /\ [PatchNext]_patchVars => EditKeepsIndentation'
  <2> SUFFICES ASSUME EditKeepsIndentation, [PatchNext]_patchVars PROVE EditKeepsIndentation'
    OBVIOUS
  <2>1. CASE probe' = probe
    BY <2>1 DEF EditKeepsIndentation
  <2>2. CASE ProbePath
    <3>1. PICK name, rel, out :
            probe' = [kind |-> "path", name |-> name, rel |-> rel, out |-> out]
      BY <2>2, ZenonT(60) DEF ProbePath
    <3> QED  BY <3>1 DEF EditKeepsIndentation
  <2>3. WorkspaceFound \/ ApplyPatch \/ PolicyError \/ ApplyRepo \/ RevertRepo \/ ApplyDone \/ FixContext
        \/ UNCHANGED patchVars => probe' = probe
    BY DEF WorkspaceFound, ApplyPatch, PolicyError, ApplyRepo, RevertRepo, ApplyDone, FixContext, patchVars
  <2> QED  BY <2>1, <2>2, <2>3, EditStep DEF PatchNext
<1> QED  BY <1>1, <1>2, PTL DEF PatchSpec

-----------------------------------------------------------------------------
\* Paths.

\* The segments of a path; the names the code strips are among them.
Segment == STRING \cup {"a", "b", "code", "repos", "worktrees", "main", "trunk", "frontend", "app", "lib",
                        "backend", ""}
Path == Seq(Segment)

\* A path behind a prefix: the prefix is found, and without it the path is left.
LEMMA Prefixed ==
    ASSUME NEW p \in Path, NEW q \in Path
    PROVE  /\ p \o q \in Path /\ Len(p \o q) = Len(p) + Len(q)
           /\ \A i \in 1..Len(p) : (p \o q)[i] = p[i]
           /\ IsPrefixOf(p, p \o q) /\ Rest(p \o q, Len(p)) = q
           /\ StripPrefix(p \o q, p) = q
<1>1. p \o q \in Path /\ Len(p \o q) = Len(p) + Len(q) /\ Len(p) \in Nat /\ Len(q) \in Nat
      /\ \A i \in 1..(Len(p) + Len(q)) : (p \o q)[i] = IF i <= Len(p) THEN p[i] ELSE q[i - Len(p)]
  BY DEF Path
<1>2. \A i \in 1..Len(p) : (p \o q)[i] = p[i]
  BY <1>1
<1>3. SubSeq(p \o q, 1, Len(p)) = p
  <2> DEFINE s == p \o q
             u == SubSeq(s, 1, Len(p))
  <2>1. s \in Path /\ Len(p) <= Len(s) /\ Len(p) \in Nat
    BY <1>1
  <2> HIDE DEF s
  <2>2. u \in Path /\ Len(u) = Len(p) /\ \A i \in 1..Len(p) : u[i] = s[i]
    BY <2>1 DEF Path
  <2> HIDE DEF u
  <2> QED  BY <1>2, <2>2 DEF Path, s, u
<1>4. SubSeq(p \o q, Len(p) + 1, Len(p \o q)) = q
  <2> DEFINE s == p \o q
             n == Len(p)
             u == SubSeq(s, n + 1, Len(s))
  <2>1. s \in Path /\ n \in Nat /\ Len(s) = n + Len(q) /\ Len(q) \in Nat
    BY <1>1
  <2>2. \A i \in 1..Len(q) : s[n + i] = q[i]
    <3> SUFFICES ASSUME NEW i \in 1..Len(q) PROVE s[n + i] = q[i]
      OBVIOUS
    <3>1. n + i \in 1..(n + Len(q)) /\ ~(n + i <= n) /\ n + i - n = i
      BY <2>1
    <3> QED  BY <1>1, <3>1
  <2> HIDE DEF s, n
  <2>3. u \in Path /\ Len(u) = Len(q) /\ \A i \in 1..Len(q) : u[i] = s[n + i]
    BY <2>1 DEF Path
  <2> HIDE DEF u
  <2> QED  BY <2>2, <2>3 DEF Path, s, n, u
<1>5. IsPrefixOf(p, p \o q) /\ Rest(p \o q, Len(p)) = q
  BY <1>1, <1>3, <1>4 DEF IsPrefixOf, Rest
<1> QED  BY <1>1, <1>2, <1>5 DEF StripPrefix

\* Segment by segment.
LEMMA Segments ==
    ASSUME NEW p \in Path, NEW q \in Path, NEW r \in Path
    PROVE  (p \o q) \o r = p \o (q \o r)
BY DEF Path

\* A prefix that differs in its first segment is no prefix.
LEMMA NoPrefix ==
    ASSUME NEW p \in Path \ {<<>>}, NEW q \in Path, q = <<>> \/ q[1] # p[1]
    PROVE  ~IsPrefixOf(p, q) /\ StripPrefix(q, p) = q
<1>1. Len(p) \in Nat \ {0} /\ Len(q) \in Nat
  BY DEF Path
<1>2. ASSUME IsPrefixOf(p, q) PROVE FALSE
  <2>1. Len(p) <= Len(q) /\ SubSeq(q, 1, Len(p)) = p
    BY <1>2 DEF IsPrefixOf
  <2>2. q # <<>>
    BY <1>1, <2>1
  <2>3. SubSeq(q, 1, Len(p))[1] = q[1]
    BY <1>1, <2>1 DEF Path
  <2> QED  BY <2>1, <2>2, <2>3
<1> QED  BY <1>2 DEF StripPrefix

LEMMA EndsWith ==
    ASSUME NEW p \in Path, NEW q \in Path
    PROVE  IsSuffixOf(q, p \o q) /\ IsSuffixOf(q, q)
<1>1. Len(p \o q) - Len(q) = Len(p) /\ Len(q) <= Len(p \o q)
  <2>1. Len(p \o q) = Len(p) + Len(q)
    BY Prefixed
  <2> QED  BY <2>1 DEF Path
<1>2. SubSeq(p \o q, Len(p) + 1, Len(p \o q)) = q
  BY Prefixed DEF Rest
<1>3. SubSeq(q, 1, Len(q)) = q /\ Len(q) - Len(q) + 1 = 1 /\ Len(q) <= Len(q)
  BY DEF Path
<1> QED  BY <1>1, <1>2, <1>3 DEF IsSuffixOf

\* The names of one workspace, and a path in a repository that begins with none of them.
Layout(name, main, role, rel) ==
    /\ name \in RepoNames /\ main \in MainDirs /\ role \in Roles
    /\ rel \in Path \ {<<>>}
    /\ rel[1] \notin {"a", "b", "code", "worktrees", "main"} \cup RepoNames \cup Roles \cup MainDirs
Checkout(main) == IF main = "" THEN "main" ELSE main

\* What a path may have in front of it within the directory of its repository.
Within(main, role, rel) ==
    {rel, <<Checkout(main)>> \o rel, <<"main">> \o rel}
    \cup {<<"worktrees", w>> \o rel : w \in {"frontend", role} \ {""}}
RepoOf(name, main) == [name |-> name, main |-> main, defaultBranch |-> ""]

LEMMA Named ==
    /\ {"a", "b", "code", "repos", "worktrees", "main", "trunk", "frontend"} \subseteq Segment
    /\ RepoNames \cup Roles \cup MainDirs \subseteq Segment
BY DEF Segment, RepoNames, Roles, MainDirs

LEMMA EqualPaths ==
    ASSUME NEW p \in Path, NEW q \in Path, Len(p) = Len(q), \A i \in 1..Len(p) : p[i] = q[i]
    PROVE  p = q
BY DEF Path

LEMMA Three == ASSUME NEW n \in Nat \ {0} PROVE 2 + n >= 3
OBVIOUS

LEMMA Tuples ==
    ASSUME NEW x \in Segment, NEW y \in Segment
    PROVE  /\ <<x>> \in Path \ {<<>>} /\ Len(<<x>>) = 1 /\ <<x>>[1] = x
           /\ <<x, y>> \in Path \ {<<>>} /\ Len(<<x, y>>) = 2 /\ <<x, y>>[1] = x
           /\ <<x, y>> = <<x>> \o <<y>>
<1>1. <<x>> \in Path \ {<<>>} /\ Len(<<x>>) = 1 /\ <<x>>[1] = x
  BY DEF Path
<1>2. <<x, y>> \in Path \ {<<>>} /\ Len(<<x, y>>) = 2 /\ <<x, y>>[1] = x
  BY DEF Path
<1>3. <<x, y>> = <<x>> \o <<y>>
  <2> DEFINE p == <<x>>
             r == <<y>>
             t == <<x, y>>
  <2>1. p \in Path /\ Len(p) = 1 /\ p[1] = x /\ r \in Path /\ Len(r) = 1 /\ r[1] = y
    BY DEF Path
  <2>2. t \in Path /\ Len(t) = 2 /\ t[1] = x /\ t[2] = y
    BY DEF Path
  <2> HIDE DEF p, r, t
  <2> DEFINE u == p \o r
  <2>3. u \in Path /\ Len(u) = 2 /\ u[1] = x /\ u[2] = y
    <3>1. /\ u \in Seq(Segment) /\ Len(u) = Len(p) + Len(r)
          /\ \A i \in 1..(Len(p) + Len(r)) : u[i] = IF i <= Len(p) THEN p[i] ELSE r[i - Len(p)]
      BY <2>1, Joined DEF Path
    <3> HIDE DEF u
    <3> QED  BY <2>1, <3>1 DEF Path
  <2> HIDE DEF u
  <2>4. t = u
    <3>1. Len(t) = Len(u) /\ \A i \in 1..Len(t) : t[i] = u[i]
      <4>1. 1..Len(t) = {1, 2}
        BY <2>2
      <4> QED  BY <2>2, <2>3, <4>1
    <3> QED  BY <2>2, <2>3, <3>1, EqualPaths
  <2> QED  BY <2>4 DEF p, r, t, u
<1> QED  BY <1>1, <1>2, <1>3

LEMMA NonEmpty == ASSUME NEW q \in Path \ {<<>>} PROVE Len(q) \in Nat \ {0}
BY DEF Path

LEMMA TwoSegments ==
    ASSUME NEW x \in Segment, NEW y \in Segment, NEW q \in Path
    PROVE  <<x, y>> \o q = <<x>> \o (<<y>> \o q)
<1> DEFINE p == <<x>>
           r == <<y>>
<1>1. p \in Path /\ r \in Path /\ <<x, y>> = p \o r
  BY Tuples
<1> HIDE DEF p, r
<1>2. (p \o r) \o q = p \o (r \o q)
  BY <1>1, Segments
<1> QED  BY <1>1, <1>2 DEF p, r

LEMMA HeadOf ==
    ASSUME NEW x \in Segment, NEW q \in Path
    PROVE  /\ <<x>> \o q \in Path \ {<<>>} /\ (<<x>> \o q)[1] = x /\ IsPrefixOf(<<x>>, <<x>> \o q)
           /\ Rest(<<x>> \o q, 1) = q /\ Len(<<x>> \o q) = 1 + Len(q) /\ StripPrefix(<<x>> \o q, <<x>>) = q
<1> DEFINE p == <<x>>
<1>1. p \in Path /\ Len(p) = 1 /\ p[1] = x /\ Len(q) \in Nat
  <2>1. Len(q) \in Nat
    BY DEF Path
  <2> QED  BY <2>1, Tuples
<1> HIDE DEF p
<1>2. p \o q \in Path /\ Len(p \o q) = Len(p) + Len(q) /\ (\A i \in 1..Len(p) : (p \o q)[i] = p[i])
      /\ IsPrefixOf(p, p \o q) /\ Rest(p \o q, Len(p)) = q /\ StripPrefix(p \o q, p) = q
  BY <1>1, Prefixed
<1>3. (p \o q)[1] = x /\ Rest(p \o q, 1) = q /\ Len(p \o q) = 1 + Len(q)
  BY <1>1, <1>2
<1>4. p \o q # <<>>
  BY <1>1, <1>3
<1> QED  BY <1>2, <1>3, <1>4 DEF p

LEMMA OtherHead ==
    ASSUME NEW x \in Segment, NEW q \in Path \ {<<>>}, q[1] # x
    PROVE  ~IsPrefixOf(<<x>>, q) /\ StripPrefix(q, <<x>>) = q
           /\ \A y \in Segment : ~IsPrefixOf(<<x, y>>, q) /\ StripPrefix(q, <<x, y>>) = q
<1>1. <<x>> \in Path \ {<<>>} /\ <<x>>[1] = x
  BY DEF Path
<1>2. \A y \in Segment : <<x, y>> \in Path \ {<<>>} /\ <<x, y>>[1] = x
  BY DEF Path
<1> QED  BY <1>1, <1>2, NoPrefix

\* Whatever it is, it is taken off.
LEMMA OwnPrefixStripped ==
    ASSUME NEW name, NEW main, NEW role, NEW rel, Layout(name, main, role, rel),
           NEW inside \in Within(main, role, rel)
    PROVE  StripWorktreeAndBranchPrefix(inside, RepoOf(name, main), role) = rel
<1> DEFINE M == Checkout(main)
           repo == RepoOf(name, main)
<1>1. M \in {"main", "trunk"} /\ MainBranchDirFor(repo) = M /\ M \in Segment
  <2>1. main \in {"", "trunk"}
    BY DEF Layout, MainDirs
  <2>2. M \in {"main", "trunk"} /\ MainBranchDirFor(repo) = M
    BY <2>1 DEF Checkout, RepoOf, MainBranchDirFor
  <2> QED  BY <2>2, Named
<1>2. rel \in Path \ {<<>>} /\ rel[1] \notin {"worktrees", "main", "trunk"} /\ role \in Segment
  BY Named DEF Layout, MainDirs, Roles
<1> HIDE DEF M, repo
<1>3. ASSUME NEW q \in Path \ {<<>>}, q[1] # "worktrees"
      PROVE  /\ ~IsPrefixOf(<<"worktrees", role>>, q) /\ ~IsPrefixOf(<<"worktrees">>, q)
  <2>1. "worktrees" \in Segment
    BY Named
  <2> QED  BY <1>2, <1>3, <2>1, OtherHead
<1>4. CASE inside = rel
  <2>1. ~IsPrefixOf(<<M>>, rel) /\ StripPrefix(rel, <<"main">>) = rel
    <3>1. "main" \in Segment /\ rel[1] # M
      BY <1>1, <1>2, Named
    <3> QED  BY <1>1, <1>2, <3>1, OtherHead
  <2> QED  BY <1>1, <1>2, <1>3, <1>4, <2>1 DEF StripWorktreeAndBranchPrefix, repo
<1>5. CASE inside = <<M>> \o rel
  <2>1. inside \in Path \ {<<>>} /\ inside[1] = M /\ IsPrefixOf(<<M>>, inside) /\ Rest(inside, 1) = rel
    BY <1>1, <1>2, <1>5, HeadOf
  <2>2. inside[1] # "worktrees"
    BY <1>1, <2>1
  <2> QED  BY <1>1, <1>3, <2>1, <2>2 DEF StripWorktreeAndBranchPrefix, repo
<1>6. CASE inside = <<"main">> \o rel /\ M # "main"
  <2>1. inside \in Path \ {<<>>} /\ inside[1] = "main" /\ StripPrefix(inside, <<"main">>) = rel
    <3>1. "main" \in Segment
      BY Named
    <3> QED  BY <1>2, <1>6, <3>1, HeadOf
  <2>2. ~IsPrefixOf(<<M>>, inside)
    BY <1>1, <1>6, <2>1, OtherHead
  <2>3. inside[1] # "worktrees"
    BY <2>1
  <2> QED  BY <1>1, <1>3, <2>1, <2>2, <2>3 DEF StripWorktreeAndBranchPrefix, repo
<1>7. ASSUME NEW w \in {"frontend", role} \ {""}, inside = <<"worktrees", w>> \o rel
      PROVE  StripWorktreeAndBranchPrefix(inside, repo, role) = rel
  <2>1. w \in Segment /\ <<"worktrees", w>> \in Path /\ Len(<<"worktrees", w>>) = 2 /\ Len(rel) \in Nat \ {0}
    <3>1. w \in Segment /\ "worktrees" \in Segment
      BY <1>2, Named
    <3>2. Len(rel) \in Nat \ {0}
      BY <1>2, NonEmpty
    <3> QED  BY <3>1, <3>2, Tuples
  <2>2. Rest(inside, 2) = rel /\ Len(inside) = 2 + Len(rel)
    BY <1>2, <1>7, <2>1, Prefixed
  <2>3. inside = <<"worktrees">> \o (<<w>> \o rel)
    <3>1. rel \in Path /\ "worktrees" \in Segment /\ w \in Segment
      BY <1>2, <2>1, Named
    <3>2. <<"worktrees", w>> \o rel = <<"worktrees">> \o (<<w>> \o rel)
      BY <3>1, TwoSegments
    <3> QED  BY <1>7, <3>2
  <2>4. <<w>> \o rel \in Path
    BY <1>2, <2>1, HeadOf
  <2>5. IsPrefixOf(<<"worktrees">>, inside)
    BY <2>3, <2>4, HeadOf, Named
  <2>6. Len(inside) >= 3
    <3>1. Len(rel) \in Nat \ {0}
      BY <2>1
    <3> QED  BY <2>2, <3>1, Three
  <2> QED  BY <2>2, <2>5, <2>6 DEF StripWorktreeAndBranchPrefix
<1> QED  BY <1>4, <1>5, <1>6, <1>7 DEF Within, M, repo

\* The heads of what may be in front.
LEMMA WithinIsPath ==
    ASSUME NEW name, NEW main, NEW role, NEW rel, Layout(name, main, role, rel),
           NEW inside \in Within(main, role, rel)
    PROVE  inside \in Path \ {<<>>}
<1>1. rel \in Path \ {<<>>} /\ role \in Segment /\ Checkout(main) \in Segment
  <2>1. Checkout(main) \in {"main", "trunk"}
    BY DEF Layout, Checkout, MainDirs
  <2> QED  BY <2>1, Named DEF Layout
<1>2. \A x \in Segment : <<x>> \o rel \in Path \ {<<>>}
  BY <1>1, HeadOf
<1>3. ASSUME NEW w \in {"frontend", role} \ {""}, inside = <<"worktrees", w>> \o rel
      PROVE  inside \in Path \ {<<>>}
  <2>1. w \in Segment /\ "worktrees" \in Segment
    BY <1>1, Named
  <2>2. inside = <<"worktrees">> \o (<<w>> \o rel)
    BY <1>1, <1>3, <2>1, TwoSegments
  <2>3. <<w>> \o rel \in Path
    BY <1>2, <2>1
  <2> QED  BY <2>1, <2>2, <2>3, HeadOf
<1>4. "main" \in Segment
  BY Named
<1> QED  BY <1>1, <1>2, <1>3, <1>4 DEF Within

\* "code/repos" and the name of the repository in front of that.
InCheckout(name, inside) == ReposDirName \o (<<name>> \o inside)

LEMMA CheckoutStripped ==
    ASSUME NEW name \in RepoNames, NEW inside \in Path \ {<<>>}
    PROVE  /\ StripDiffPrefix(InCheckout(name, inside)) = InCheckout(name, inside)
           /\ StripPrefix(InCheckout(name, inside), ReposDirName) = <<name>> \o inside
           /\ StripPrefix(<<name>> \o inside, <<name>>) = inside
<1>1. name \in Segment /\ "code" \in Segment /\ "repos" \in Segment
  BY Named
<1>2. <<name>> \o inside \in Path /\ StripPrefix(<<name>> \o inside, <<name>>) = inside
  BY <1>1, HeadOf
<1> DEFINE q == <<name>> \o inside
           d == ReposDirName
<1> HIDE DEF q, d
<1>3. d \in Path \ {<<>>} /\ d[1] = "code" /\ Len(d) = 2
  BY <1>1, Tuples DEF ReposDirName, d
<1>4. StripPrefix(d \o q, d) = q /\ (d \o q)[1] = "code"
  <2>1. \A i \in 1..Len(d) : (d \o q)[i] = d[i]
    BY <1>2, <1>3, Prefixed DEF q
  <2>2. StripPrefix(d \o q, d) = q
    BY <1>2, <1>3, Prefixed DEF q
  <2> QED  BY <1>3, <2>1, <2>2
<1>5. StripDiffPrefix(d \o q) = d \o q
  BY <1>4 DEF StripDiffPrefix
<1> QED  BY <1>2, <1>4, <1>5 DEF InCheckout, q, d

\* A path relative to its repository is stripped of nothing.
LEMMA RelativeKept ==
    ASSUME NEW name, NEW main, NEW role, NEW rel, Layout(name, main, role, rel)
    PROVE  /\ StripDiffPrefix(rel) = rel /\ StripPrefix(rel, ReposDirName) = rel
           /\ \A n \in RepoNames : ~IsPrefixOf(<<n>>, rel) /\ StripPrefix(rel, <<n>>) = rel
           /\ StripPrefix(rel, <<role>>) = rel
<1>1. rel \in Path \ {<<>>} /\ rel[1] \notin {"a", "b", "code"} \cup RepoNames \cup Roles /\ role \in Roles
  BY DEF Layout
<1>2. StripDiffPrefix(rel) = rel
  BY <1>1 DEF StripDiffPrefix
<1>3. "code" \in Segment /\ "repos" \in Segment /\ RepoNames \subseteq Segment /\ Roles \subseteq Segment
  BY Named
<1>4. StripPrefix(rel, ReposDirName) = rel
  <2>1. rel[1] # "code"
    BY <1>1
  <2> QED  BY <1>1, <1>3, <2>1, OtherHead DEF ReposDirName
<1>5. ASSUME NEW x \in RepoNames \cup Roles
      PROVE  ~IsPrefixOf(<<x>>, rel) /\ StripPrefix(rel, <<x>>) = rel
  <2>1. x \in Segment /\ rel[1] # x
    BY <1>1, <1>3
  <2> QED  BY <1>1, <2>1, OtherHead
<1> QED  BY <1>1, <1>2, <1>4, <1>5

Workspace(name, main, single) ==
    IF single THEN <<RepoOf(name, main)>> ELSE <<RepoOf("app", main), RepoOf("lib", main)>>

LEMMA WorkspaceShape ==
    ASSUME NEW name \in RepoNames, NEW main, NEW single \in BOOLEAN
    PROVE  LET ws == Workspace(name, main, single)
           IN  /\ Len(ws) # 0 /\ \A i \in DOMAIN ws : ws[i].name \in RepoNames
               /\ single => Len(ws) = 1 /\ ws[1] = RepoOf(name, main)
<1> DEFINE ws == Workspace(name, main, single)
<1>1. CASE single
  <2>1. ws = <<RepoOf(name, main)>>
    BY <1>1 DEF Workspace
  <2>2. RepoOf(name, main).name = name
    BY DEF RepoOf
  <2> HIDE DEF ws
  <2>3. DOMAIN ws = {1} /\ ws[1] = RepoOf(name, main) /\ Len(ws) = 1
    BY <2>1
  <2>4. \A i \in DOMAIN ws : ws[i].name \in RepoNames
    BY <2>2, <2>3
  <2> QED  BY <2>3, <2>4 DEF ws
<1>2. CASE ~single
  <2>1. ws = <<RepoOf("app", main), RepoOf("lib", main)>>
    BY <1>2 DEF Workspace
  <2>2. RepoOf("app", main).name = "app" /\ RepoOf("lib", main).name = "lib"
    BY DEF RepoOf
  <2> HIDE DEF ws
  <2>3. DOMAIN ws = {1, 2} /\ ws[1] = RepoOf("app", main) /\ ws[2] = RepoOf("lib", main) /\ Len(ws) = 2
    BY <2>1
  <2>4. \A i \in DOMAIN ws : ws[i].name \in RepoNames
    BY <2>2, <2>3 DEF RepoNames
  <2> QED  BY <1>2, <2>3, <2>4 DEF ws
<1> QED  BY <1>1, <1>2

\* The first repository of a workspace that has a name is the one of that name.
LEMMA FirstNamed ==
    ASSUME NEW name \in RepoNames, NEW main, NEW single \in BOOLEAN
    PROVE  LET ws == Workspace(name, main, single)
               known == {i \in DOMAIN ws : ws[i].name = name}
           IN  known # {} /\ ws[CHOOSE i \in known : \A j \in known : i <= j] = RepoOf(name, main)
<1> DEFINE ws == Workspace(name, main, single)
           known == {i \in DOMAIN ws : ws[i].name = name}
           k == IF single \/ name = "app" THEN 1 ELSE 2
<1>1. known = {k} /\ ws[k] = RepoOf(name, main)
  <2>1. CASE single
    <3>1. ws = <<RepoOf(name, main)>>
      BY <2>1 DEF Workspace
    <3> HIDE DEF ws
    <3>2. DOMAIN ws = {1} /\ ws[1] = RepoOf(name, main)
      BY <3>1
    <3>3. RepoOf(name, main).name = name
      BY DEF RepoOf
    <3> QED  BY <2>1, <3>2, <3>3
  <2>2. CASE ~single
    <3>1. ws = <<RepoOf("app", main), RepoOf("lib", main)>>
      BY <2>2 DEF Workspace
    <3> HIDE DEF ws
    <3>2. DOMAIN ws = {1, 2} /\ ws[1] = RepoOf("app", main) /\ ws[2] = RepoOf("lib", main)
      BY <3>1
    <3>3. RepoOf("app", main).name = "app" /\ RepoOf("lib", main).name = "lib"
      BY DEF RepoOf
    <3>4. name \in {"app", "lib"}
      BY DEF RepoNames
    <3> QED  BY <2>2, <3>2, <3>3, <3>4
  <2> QED  BY <2>1, <2>2
<1> HIDE DEF ws, known
<1>2. k \in Nat
  OBVIOUS
<1> HIDE DEF k
<1>3. (CHOOSE i \in known : \A j \in known : i <= j) = k
  BY <1>1, <1>2
<1> QED  BY <1>1, <1>3 DEF ws, known

\* With the repository named, and the path with anything in front that a checkout has.
LEMMA HeaderFound ==
    ASSUME NEW name, NEW main, NEW role, NEW rel, Layout(name, main, role, rel), NEW single \in BOOLEAN,
           NEW inside \in Within(main, role, rel), NEW path \in {rel, InCheckout(name, inside)}
    PROVE  RepoRelPathForKnownRepo(path, name, Workspace(name, main, single), role) = rel
<1> DEFINE ws == Workspace(name, main, single)
           q == StripPrefix(StripPrefix(StripDiffPrefix(path), ReposDirName), <<name>>)
<1>1. name \in RepoNames /\ rel \in Within(main, role, rel)
  BY DEF Layout, Within
<1>2. q \in Within(main, role, rel)
  <2>1. CASE path = rel
    <3>1. StripDiffPrefix(rel) = rel /\ StripPrefix(rel, ReposDirName) = rel
      BY RelativeKept
    <3>2. StripPrefix(rel, <<name>>) = rel
      BY <1>1, RelativeKept
    <3>3. q = rel
      BY <2>1, <3>1, <3>2
    <3> QED  BY <1>1, <3>3
  <2>2. CASE path = InCheckout(name, inside)
    <3>1. inside \in Path \ {<<>>}
      BY WithinIsPath
    <3>2. q = inside
      BY <1>1, <2>2, <3>1, CheckoutStripped
    <3> QED  BY <3>2
  <2> QED  BY <2>1, <2>2
<1>3. StripWorktreeAndBranchPrefix(q, RepoOf(name, main), role) = rel
  BY <1>2, OwnPrefixStripped
<1>4. LET known == {i \in DOMAIN ws : ws[i].name = name}
      IN  known # {} /\ ws[CHOOSE i \in known : \A j \in known : i <= j] = RepoOf(name, main)
  BY <1>1, FirstNamed
<1> HIDE DEF q, ws
<1>5. RepoRelPathForKnownRepo(path, name, ws, role) = StripWorktreeAndBranchPrefix(q, RepoOf(name, main), role)
  BY <1>4 DEF RepoRelPathForKnownRepo, q
<1> QED  BY <1>3, <1>5 DEF ws

\* Without: the path begins with the name, has a checkout in front, or there is one repository only.
Spelled(path, name, rel, inside, single) ==
    \/ path \in {<<name>> \o rel, <<"a", name>> \o rel, InCheckout(name, inside)}
    \/ single /\ path = rel

LEMMA PathNormalized ==
    ASSUME NEW name, NEW main, NEW role, NEW rel, Layout(name, main, role, rel), NEW single \in BOOLEAN,
           NEW inside \in Within(main, role, rel),
           NEW path, Spelled(path, name, rel, inside, single)
    PROVE  NormalizePatchPath(path, Workspace(name, main, single), role) = <<name, rel>>
<1> DEFINE ws == Workspace(name, main, single)
           q == StripPrefix(StripDiffPrefix(path), ReposDirName)
           named == {i \in DOMAIN ws : IsPrefixOf(<<ws[i].name>>, q)}
           first == CHOOSE i \in named : \A j \in named : i <= j
           known == {i \in DOMAIN ws : ws[i].name = name}
<1>1. name \in RepoNames /\ rel \in Within(main, role, rel) /\ rel \in Path \ {<<>>} /\ name \in Segment
  BY Named DEF Layout, Within
<1>2. inside \in Path \ {<<>>}
  BY WithinIsPath
<1>3. \A n \in Within(main, role, rel) : StripWorktreeAndBranchPrefix(n, RepoOf(name, main), role) = rel
  BY OwnPrefixStripped
<1>4. known # {} /\ ws[CHOOSE i \in known : \A j \in known : i <= j] = RepoOf(name, main)
  BY <1>1, FirstNamed
<1>5. \A i \in DOMAIN ws : ws[i].name \in RepoNames
  BY <1>1, WorkspaceShape
<1>6. ASSUME NEW x \in Within(main, role, rel), q = <<name>> \o x
      PROVE  NormalizePatchPath(path, ws, role) = <<name, rel>>
  <2>1. x \in Path \ {<<>>}
    BY WithinIsPath
  <2>2. q \in Path \ {<<>>} /\ q[1] = name /\ IsPrefixOf(<<name>>, q) /\ Rest(q, 1) = x
    BY <1>1, <1>6, <2>1, HeadOf
  <2>3. ASSUME NEW n \in RepoNames, n # name PROVE ~IsPrefixOf(<<n>>, q)
    <3>1. n \in Segment /\ q[1] # n
      BY <2>2, <2>3, Named
    <3> QED  BY <2>2, <3>1, OtherHead
  <2>4. named = known
    <3> HIDE DEF ws, q
    <3> QED  BY <1>5, <2>2, <2>3
  <2>5. named # {} /\ ws[first] = RepoOf(name, main)
    BY <1>4, <2>4
  <2>6. RepoOf(name, main).name = name
    BY DEF RepoOf
  <2>7. StripWorktreeAndBranchPrefix(Rest(q, 1), RepoOf(name, main), role) = rel
    BY <1>3, <1>6, <2>2
  <2>8. Len(ws) # 0
    BY <1>1, WorkspaceShape
  <2> HIDE DEF q, ws
  <2> DEFINE A == <<ws[first].name, StripWorktreeAndBranchPrefix(Rest(q, 1), ws[first], role)>>
             B == <<ws[1].name, StripWorktreeAndBranchPrefix(StripPrefix(q, <<role>>), ws[1], role)>>
             C == <<q[1], Rest(q, 1)>>
             D == <<"", q>>
  <2>9. NormalizePatchPath(path, ws, role) =
          CASE named # {} -> A [] named = {} /\ Len(ws) = 1 -> B
            [] Len(ws) = 0 /\ Len(q) > 1 -> C [] OTHER -> D
    BY DEF NormalizePatchPath, q
  <2>10. named # {} => NormalizePatchPath(path, ws, role) = A
    <3> HIDE DEF named, A, B, C, D
    <3> QED  BY <2>8, <2>9
  <2> HIDE DEF first, named
  <2> QED  BY <2>5, <2>6, <2>7, <2>10
<1>7. CASE path = <<name>> \o rel
  <2>1. path \in Path \ {<<>>} /\ path[1] = name
    BY <1>1, <1>7, HeadOf
  <2>2. name \notin {"a", "b", "code"}
    BY <1>1 DEF RepoNames
  <2>3. StripDiffPrefix(path) = path
    BY <2>1, <2>2 DEF StripDiffPrefix
  <2>4. StripPrefix(path, ReposDirName) = path
    <3>1. "code" \in Segment /\ "repos" \in Segment /\ path[1] # "code"
      BY <2>1, <2>2, Named
    <3> QED  BY <2>1, <3>1, OtherHead DEF ReposDirName
  <2> QED  BY <1>1, <1>6, <1>7, <2>3, <2>4
<1>8. CASE path = <<"a", name>> \o rel
  <2> DEFINE x == <<name>> \o rel
  <2>1. x \in Path \ {<<>>} /\ x[1] = name /\ "a" \in Segment
    BY <1>1, HeadOf, Named
  <2>2. path = <<"a">> \o x
    BY <1>1, <1>8, <2>1, TwoSegments
  <2> HIDE DEF x
  <2>3. path[1] = "a" /\ Rest(path, 1) = x /\ Len(path) = 1 + Len(x)
    BY <2>1, <2>2, HeadOf
  <2>4. Len(path) > 1
    <3>1. Len(x) \in Nat \ {0}
      BY <2>1, NonEmpty
    <3> QED  BY <2>3, <3>1
  <2>5. StripDiffPrefix(path) = x
    BY <2>3, <2>4 DEF StripDiffPrefix
  <2>6. StripPrefix(x, ReposDirName) = x
    <3>1. "code" \in Segment /\ "repos" \in Segment /\ x[1] # "code"
      BY <1>1, <2>1, Named DEF RepoNames
    <3> QED  BY <2>1, <3>1, OtherHead DEF ReposDirName
  <2> QED  BY <1>1, <1>6, <2>5, <2>6 DEF x
<1>9. CASE path = InCheckout(name, inside)
  BY <1>1, <1>2, <1>6, <1>9, CheckoutStripped
<1>10. CASE single /\ path = rel
  <2>1. q = rel
    BY <1>10, RelativeKept
  <2>2. ws[1] = RepoOf(name, main) /\ Len(ws) = 1
    BY <1>1, <1>10, WorkspaceShape
  <2>3. named = {}
    <3>1. \A n \in RepoNames : ~IsPrefixOf(<<n>>, rel)
      BY RelativeKept
    <3> HIDE DEF ws, q
    <3> QED  BY <1>5, <2>1, <3>1
  <2>4. StripPrefix(q, <<role>>) = rel
    BY <2>1, RelativeKept
  <2>5. RepoOf(name, main).name = name /\ StripWorktreeAndBranchPrefix(rel, RepoOf(name, main), role) = rel
    BY <1>1, <1>3 DEF RepoOf
  <2> HIDE DEF q, ws, first
  <2>6. named = {} /\ Len(ws) = 1 =>
          NormalizePatchPath(path, ws, role)
          = <<ws[1].name, StripWorktreeAndBranchPrefix(StripPrefix(q, <<role>>), ws[1], role)>>
    BY DEF NormalizePatchPath, q
  <2> QED  BY <2>2, <2>3, <2>4, <2>5, <2>6 DEF ws
<1> QED  BY <1>7, <1>8, <1>9, <1>10 DEF Spelled

LEMMA ThreeSegments ==
    ASSUME NEW x \in Segment, NEW y \in Segment, NEW z \in Segment, NEW q \in Path
    PROVE  <<x, y, z>> \in Path /\ <<x, y, z>> \o q = <<x>> \o (<<y, z>> \o q)
<1> DEFINE p == <<x>>
           r == <<y, z>>
           t == <<x, y, z>>
           u == p \o r
<1>1. p \in Path /\ Len(p) = 1 /\ p[1] = x
  BY Tuples
<1>2. r \in Path /\ Len(r) = 2 /\ r[1] = y /\ r[2] = z
  BY DEF Path
<1>3. t \in Path /\ Len(t) = 3 /\ t[1] = x /\ t[2] = y /\ t[3] = z
  BY DEF Path
<1> HIDE DEF p, r, t
<1>4. u \in Path /\ Len(u) = 3 /\ u[1] = x /\ u[2] = y /\ u[3] = z
  <2>1. /\ u \in Seq(Segment) /\ Len(u) = Len(p) + Len(r)
        /\ \A i \in 1..(Len(p) + Len(r)) : u[i] = IF i <= Len(p) THEN p[i] ELSE r[i - Len(p)]
    BY <1>1, <1>2, Joined DEF Path
  <2> HIDE DEF u
  <2> QED  BY <1>1, <1>2, <2>1 DEF Path
<1> HIDE DEF u
<1>5. t = u
  <2>1. Len(t) = Len(u) /\ \A i \in 1..Len(t) : t[i] = u[i]
    <3>1. 1..Len(t) = {1, 2, 3}
      BY <1>3
    <3> QED  BY <1>3, <1>4, <3>1
  <2> QED  BY <1>3, <1>4, <2>1, EqualPaths
<1>6. (p \o r) \o q = p \o (r \o q)
  BY <1>1, <1>2, Segments
<1> QED  BY <1>3, <1>5, <1>6 DEF p, r, t, u

\* Both spellings of a checkout end with the relative path.
LEMMA CheckoutForm ==
    ASSUME NEW rel \in Path, NEW pre \in Path
    PROVE  /\ ReposDirName \o pre \o rel = ReposDirName \o (pre \o rel)
           /\ IsSuffixOf(rel, ReposDirName \o pre \o rel)
<1>1. ReposDirName \in Path
  BY Named, Tuples DEF ReposDirName
<1>2. ReposDirName \o pre \o rel = ReposDirName \o (pre \o rel)
  BY <1>1, Segments
<1>3. ReposDirName \o pre \in Path
  BY <1>1, Prefixed
<1>4. IsSuffixOf(rel, (ReposDirName \o pre) \o rel)
  BY <1>3, EndsWith
<1> QED  BY <1>2, <1>4

LEMMA BranchForm ==
    ASSUME NEW name \in Segment, NEW x \in Segment, NEW rel \in Path
    PROVE  /\ ReposDirName \o <<name, x>> \o rel = InCheckout(name, <<x>> \o rel)
           /\ IsSuffixOf(rel, ReposDirName \o <<name, x>> \o rel)
<1> DEFINE pre == <<name, x>>
           inside == <<x>> \o rel
<1>1. pre \in Path
  BY Tuples
<1>2. pre \o rel = <<name>> \o inside
  BY TwoSegments
<1> HIDE DEF pre, inside
<1>3. /\ ReposDirName \o pre \o rel = ReposDirName \o (pre \o rel)
      /\ IsSuffixOf(rel, ReposDirName \o pre \o rel)
  BY <1>1, CheckoutForm
<1>4. ReposDirName \o (pre \o rel) = InCheckout(name, inside)
  BY <1>2, Zenon DEF InCheckout
<1> QED  BY <1>3, <1>4, Zenon DEF pre, inside

LEMMA WorktreeForm ==
    ASSUME NEW name \in Segment, NEW w \in Segment, NEW rel \in Path
    PROVE  /\ ReposDirName \o <<name, "worktrees", w>> \o rel = InCheckout(name, <<"worktrees", w>> \o rel)
           /\ IsSuffixOf(rel, ReposDirName \o <<name, "worktrees", w>> \o rel)
<1> DEFINE pre == <<name, "worktrees", w>>
           inside == <<"worktrees", w>> \o rel
<1>0. "worktrees" \in Segment
  BY Named
<1>1. pre \in Path
  BY <1>0, ThreeSegments
<1>2. pre \o rel = <<name>> \o inside
  BY <1>0, ThreeSegments, SMTT(30)
<1> HIDE DEF pre, inside
<1>3. /\ ReposDirName \o pre \o rel = ReposDirName \o (pre \o rel)
      /\ IsSuffixOf(rel, ReposDirName \o pre \o rel)
  BY <1>1, CheckoutForm
<1>4. ReposDirName \o (pre \o rel) = InCheckout(name, inside)
  BY <1>2, Zenon DEF InCheckout
<1> QED  BY <1>3, <1>4, Zenon DEF pre, inside

\* The paths of the diffs, and how they are found: with the repository named, or by the path alone.
Forms(name, main, role, rel, single) ==
    Rendered(name, main, role, rel) \cup (IF single THEN {[header |-> "", path |-> rel]} ELSE {})
FoundByHeader(header, path, name, main, role, rel) ==
    /\ header = name
    /\ path = rel \/ \E inside \in Within(main, role, rel) : path = InCheckout(name, inside)
FoundByPath(header, path, name, main, role, rel, single) ==
    /\ header = ""
    /\ \/ path \in {<<name>> \o rel, <<"a", name>> \o rel} \/ (single /\ path = rel)
       \/ \E inside \in Within(main, role, rel) : path = InCheckout(name, inside)

RenderedAs(p, name, main, role, rel) ==
    \/ p = [header |-> name, path |-> rel]
    \/ p = [header |-> "", path |-> <<name>> \o rel]
    \/ p = [header |-> "", path |-> <<"a", name>> \o rel]
    \/ p = [header |-> "", path |-> ReposDirName \o <<name, Checkout(main)>> \o rel]
    \/ p = [header |-> name, path |-> ReposDirName \o <<name, "main">> \o rel]
    \/ \E h \in {"", name}, w \in {"frontend", role} \ {""} :
          p = [header |-> h, path |-> ReposDirName \o <<name, "worktrees", w>> \o rel]

LEMMA RenderedSplit ==
    ASSUME NEW name, NEW main, NEW role, NEW rel, NEW p, p \in Rendered(name, main, role, rel)
    PROVE  RenderedAs(p, name, main, role, rel)
<1> DEFINE none == ""
           headers == {none, name}
           workers == {"frontend", role} \ {none}
           R1 == [header |-> name, path |-> rel]
           R2 == [header |-> "", path |-> <<name>> \o rel]
           R3 == [header |-> "", path |-> <<"a", name>> \o rel]
           R4 == [header |-> "", path |-> ReposDirName \o <<name, IF main = "" THEN "main" ELSE main>> \o rel]
           R5 == [header |-> name, path |-> ReposDirName \o <<name, "main">> \o rel]
           W(h, w) == [header |-> h, path |-> ReposDirName \o <<name, "worktrees", w>> \o rel]
<1>1. Rendered(name, main, role, rel)
      = {R1, R2, R3, R4, R5} \cup UNION {{W(h, w) : h \in headers} : w \in workers}
  BY Zenon DEF Rendered
<1>2. [header |-> "", path |-> ReposDirName \o <<name, Checkout(main)>> \o rel] = R4
  BY DEF Checkout
<1> HIDE DEF none, headers, workers, R1, R2, R3, R4, R5, W
<1>3. \/ p \in {R1, R2, R3, R4, R5}
      \/ \E h \in headers, w \in workers : p = W(h, w)
  <2>1. p \in {R1, R2, R3, R4, R5} \cup UNION {{W(h, w) : h \in headers} : w \in workers}
    BY <1>1, Zenon
  <2> QED  BY <2>1, Zenon
<1>4. p \in {R1, R2, R3, R4, R5} => p = R1 \/ p = R2 \/ p = R3 \/ p = R4 \/ p = R5
  OBVIOUS
<1> QED  BY <1>2, <1>3, <1>4, Zenon DEF RenderedAs, none, headers, workers, R1, R2, R3, R5, W

LEMMA RenderedForms ==
    ASSUME NEW name, NEW main, NEW role, NEW rel, Layout(name, main, role, rel),
           NEW single \in BOOLEAN, NEW p \in Forms(name, main, role, rel, single)
    PROVE  /\ IsSuffixOf(rel, p.path)
           /\ \/ FoundByHeader(p.header, p.path, name, main, role, rel)
              \/ FoundByPath(p.header, p.path, name, main, role, rel, single)
<1> DEFINE Goal == /\ IsSuffixOf(rel, p.path)
                   /\ \/ FoundByHeader(p.header, p.path, name, main, role, rel)
                      \/ FoundByPath(p.header, p.path, name, main, role, rel, single)
<1>1. rel \in Path \ {<<>>} /\ role \in Segment /\ Checkout(main) \in Segment /\ name \in Segment
  <2>1. Checkout(main) \in {"main", "trunk"}
    BY DEF Layout, Checkout, MainDirs
  <2> QED  BY <2>1, Named DEF Layout
<1>2. {"a", "main", "worktrees", "code", "repos", "frontend"} \subseteq Segment
  BY Named
<1>3. (\A d \in Path : IsSuffixOf(rel, d \o rel)) /\ IsSuffixOf(rel, rel)
  <2>1. ReposDirName \in Path
    BY <1>2, Tuples DEF ReposDirName
  <2> QED  BY <1>1, <2>1, EndsWith
<1>4. ASSUME NEW h, p = [header |-> h, path |-> rel], h = name \/ (h = "" /\ single) PROVE Goal
  <2>1. p.path = rel /\ p.header = h
    BY <1>4
  <2> QED  BY <1>3, <1>4, <2>1 DEF FoundByHeader, FoundByPath
<1>5. ASSUME NEW pre \in Path, p = [header |-> "", path |-> pre \o rel], pre \in {<<name>>, <<"a", name>>}
      PROVE  Goal
  <2> DEFINE path == pre \o rel
  <2> HIDE DEF path
  <2>1. p.path = path /\ p.header = ""
    BY <1>5 DEF path
  <2>2. path \in {<<name>> \o rel, <<"a", name>> \o rel}
    BY <1>5 DEF path
  <2>3. IsSuffixOf(rel, path)
    BY <1>3 DEF path
  <2> QED  BY <2>1, <2>2, <2>3 DEF FoundByPath
<1>6. ASSUME NEW h \in {"", name}, NEW path, p = [header |-> h, path |-> path], IsSuffixOf(rel, path),
             \E inside \in Within(main, role, rel) : path = InCheckout(name, inside)
      PROVE  Goal
  <2>1. p.path = path /\ p.header = h
    BY <1>6
  <2> QED  BY <1>6, <2>1 DEF FoundByHeader, FoundByPath
<1>7. ASSUME NEW x \in {"main", Checkout(main)}
      PROVE  /\ IsSuffixOf(rel, ReposDirName \o <<name, x>> \o rel)
             /\ \E inside \in Within(main, role, rel) :
                   ReposDirName \o <<name, x>> \o rel = InCheckout(name, inside)
  <2>1. x \in Segment
    BY <1>1, <1>2
  <2>2. <<x>> \o rel \in Within(main, role, rel)
    BY DEF Within
  <2>3. /\ ReposDirName \o <<name, x>> \o rel = InCheckout(name, <<x>> \o rel)
        /\ IsSuffixOf(rel, ReposDirName \o <<name, x>> \o rel)
    BY <1>1, <2>1, BranchForm
  <2> QED  BY <2>2, <2>3, Zenon
<1>8. ASSUME NEW w \in {"frontend", role} \ {""}
      PROVE  /\ IsSuffixOf(rel, ReposDirName \o <<name, "worktrees", w>> \o rel)
             /\ \E inside \in Within(main, role, rel) :
                   ReposDirName \o <<name, "worktrees", w>> \o rel = InCheckout(name, inside)
  <2>1. w \in Segment
    BY <1>1, <1>2
  <2>2. <<"worktrees", w>> \o rel \in Within(main, role, rel)
    BY DEF Within
  <2>3. /\ ReposDirName \o <<name, "worktrees", w>> \o rel = InCheckout(name, <<"worktrees", w>> \o rel)
        /\ IsSuffixOf(rel, ReposDirName \o <<name, "worktrees", w>> \o rel)
    BY <1>1, <2>1, WorktreeForm
  <2> QED  BY <2>2, <2>3, Zenon
<1> HIDE DEF Goal
<1>9. CASE p \in Rendered(name, main, role, rel)
  <2>1. p = [header |-> name, path |-> rel] => Goal
    BY <1>4
  <2>2. p = [header |-> "", path |-> <<name>> \o rel] => Goal
    BY <1>1, <1>5, Tuples
  <2>3. p = [header |-> "", path |-> <<"a", name>> \o rel] => Goal
    BY <1>1, <1>2, <1>5, Tuples
  <2>4. p = [header |-> "", path |-> ReposDirName \o <<name, Checkout(main)>> \o rel] => Goal
    BY <1>6, <1>7
  <2>5. p = [header |-> name, path |-> ReposDirName \o <<name, "main">> \o rel] => Goal
    BY <1>6, <1>7
  <2>6. ASSUME NEW h \in {"", name}, NEW w \in {"frontend", role} \ {""},
               p = [header |-> h, path |-> ReposDirName \o <<name, "worktrees", w>> \o rel]
        PROVE  Goal
    BY <1>6, <1>8, <2>6
  <2>7. RenderedAs(p, name, main, role, rel)
    BY <1>9, RenderedSplit
  <2>8. Goal
    BY <2>1, <2>2, <2>3, <2>4, <2>5, <2>6, <2>7, Zenon DEF RenderedAs
  <2> QED  BY <2>8 DEF Goal
<1>10. CASE single /\ p = [header |-> "", path |-> rel]
  <2>1. Goal
    BY <1>4, <1>10, Zenon
  <2> QED  BY <2>1 DEF Goal
<1>11. p \in Rendered(name, main, role, rel) \/ (single /\ p = [header |-> "", path |-> rel])
  <2>1. CASE single
    BY <2>1 DEF Forms
  <2>2. CASE ~single
    BY <2>2 DEF Forms
  <2> QED  BY <2>1, <2>2
<1> QED  BY <1>9, <1>10, <1>11 DEF Goal

\* Split and cut, it is the relative path in the repository.
LEMMA PathAttributed ==
    ASSUME NEW name, NEW main, NEW role, NEW rel, Layout(name, main, role, rel),
           NEW single \in BOOLEAN, NEW p \in Forms(name, main, role, rel, single)
    PROVE  SplitPatchByRepo(p.path, p.header, Workspace(name, main, single), role) = <<name, rel>>
<1> DEFINE ws == Workspace(name, main, single)
           split == IF p.header # "" THEN <<p.header, RepoRelPathForKnownRepo(p.path, p.header, ws, role)>>
                    ELSE NormalizePatchPath(p.path, ws, role)
<1>1. name \in {"app", "lib"} /\ rel \in Within(main, role, rel)
  BY DEF Layout, RepoNames, Within
<1>2. IsSuffixOf(rel, p.path)
  BY RenderedForms
<1>3. split = <<name, rel>>
  <2>1. CASE FoundByHeader(p.header, p.path, name, main, role, rel)
    <3>1. PICK inside \in Within(main, role, rel) : p.path \in {rel, InCheckout(name, inside)}
      BY <1>1, <2>1 DEF FoundByHeader
    <3>2. RepoRelPathForKnownRepo(p.path, name, ws, role) = rel
      BY <3>1, HeaderFound
    <3>3. p.header = name /\ name # ""
      BY <1>1, <2>1 DEF FoundByHeader
    <3> HIDE DEF ws
    <3> QED  BY <3>2, <3>3
  <2>2. CASE FoundByPath(p.header, p.path, name, main, role, rel, single)
    <3>1. PICK inside \in Within(main, role, rel) : Spelled(p.path, name, rel, inside, single)
      BY <1>1, <2>2 DEF FoundByPath, Spelled
    <3>2. NormalizePatchPath(p.path, ws, role) = <<name, rel>>
      BY <3>1, PathNormalized
    <3>3. p.header = ""
      BY <2>2 DEF FoundByPath
    <3> HIDE DEF ws
    <3> QED  BY <3>2, <3>3
  <2> QED  BY <2>1, <2>2, RenderedForms
<1>4. CleanPatchBlock(p.path, name, rel) = rel
  BY <1>2 DEF CleanPatchBlock
<1>5. SplitPatchByRepo(p.path, p.header, ws, role)
      = IF split[1] = "" THEN <<"", p.path>> ELSE <<split[1], CleanPatchBlock(p.path, split[1], split[2])>>
  BY DEF SplitPatchByRepo
<1> HIDE DEF split, ws
<1>6. split[1] = name /\ split[2] = rel /\ name # ""
  BY <1>1, <1>3
<1> QED  BY <1>4, <1>5, <1>6 DEF ws

LEMMA PathStep == ASSUME ProbePath PROVE PathFound'
<1>1. PICK name \in RepoNames, rel \in RelPaths, role \in Roles, main \in MainDirs, single \in BOOLEAN :
        LET repo(n) == [name |-> n, main |-> main, defaultBranch |-> ""]
            ws == IF single THEN <<repo(name)>> ELSE <<repo("app"), repo("lib")>>
        IN  \E p \in Rendered(name, main, role, rel)
                     \cup (IF single THEN {[header |-> "", path |-> rel]} ELSE {}) :
               probe' = [kind |-> "path", name |-> name, rel |-> rel,
                         out |-> SplitPatchByRepo(p.path, p.header, ws, role)]
  BY Zenon DEF ProbePath
<1>2. PICK p \in Forms(name, main, role, rel, single) :
        probe' = [kind |-> "path", name |-> name, rel |-> rel,
                  out |-> SplitPatchByRepo(p.path, p.header, Workspace(name, main, single), role)]
  BY <1>1, Zenon DEF Workspace, RepoOf, Forms
<1>3. Layout(name, main, role, rel)
  <2>1. rel \in Seq(STRING) \ {<<>>}
        /\ rel[1] \notin {"a", "b", "code", "worktrees", "main"} \cup RepoNames \cup Roles \cup MainDirs
    BY PathAssumption
  <2>2. rel \in Path
    <3>1. Len(rel) \in Nat /\ rel \in [1..Len(rel) -> STRING]
      BY <2>1
    <3> DEFINE n == Len(rel)
    <3> HIDE DEF n
    <3>2. n \in Nat /\ rel = [i \in 1..n |-> rel[i]] /\ \A i \in 1..n : rel[i] \in Segment
      BY <3>1 DEF Segment, n
    <3> QED  BY <3>2, ListOf DEF Path
  <2> QED  BY <2>1, <2>2 DEF Layout
<1> DEFINE out == SplitPatchByRepo(p.path, p.header, Workspace(name, main, single), role)
<1>4. out = <<name, rel>>
  BY <1>3, PathAttributed
<1> HIDE DEF out
<1>5. probe' = [kind |-> "path", name |-> name, rel |-> rel, out |-> out]
  BY <1>2 DEF out
<1> QED  BY <1>4, <1>5 DEF PathFound

\* A path of any form the diffs carry is attributed to its repository and becomes the path
\* relative to it (SplitPatchByRepoWithWorkspace).
THEOREM PathsFindTheirRepository == PatchSpec => []PathFound
<1>1. PatchInit => PathFound
  BY DEF PatchInit, NoProbe, PathFound
<1>2. PathFound /\ [PatchNext]_patchVars => PathFound'
  <2> SUFFICES ASSUME PathFound, [PatchNext]_patchVars PROVE PathFound'
    OBVIOUS
  <2>1. CASE probe' = probe
    BY <2>1 DEF PathFound
  <2>2. CASE ProbeEdit
    <3>1. PICK c, v, m, o, u :
            probe' = [kind |-> "edit", content |-> c, valid |-> v, more |-> m, ok |-> o, out |-> u]
      BY <2>2, ZenonT(60) DEF ProbeEdit
    <3> QED  BY <3>1 DEF PathFound
  <2>3. WorkspaceFound \/ ApplyPatch \/ PolicyError \/ ApplyRepo \/ RevertRepo \/ ApplyDone \/ FixContext
        \/ UNCHANGED patchVars => probe' = probe
    BY DEF WorkspaceFound, ApplyPatch, PolicyError, ApplyRepo, RevertRepo, ApplyDone, FixContext, patchVars
  <2> QED  BY <2>1, <2>2, <2>3, PathStep DEF PatchNext
<1> QED  BY <1>1, <1>2, PTL DEF PatchSpec

-----------------------------------------------------------------------------
\* Git delivery

Trunk(r) == branch[r][TrackBranch("int")]
Role(r, t) == branch[r][TrackBranch(t)]

\* The commits of a track, one after the other on the base.
Chain(c, t) ==
    LET n == Cardinality({i \in c.anc : i[1] = t})
    IN  /\ n \in Nat /\ c.anc = Root.anc \cup {<<t, k>> : k \in 1..n}
        /\ c.anc = Root.anc => c.edits = {}

GitTypeOK ==
    /\ DOMAIN line = {"easy", "parallel", "child", "urls", "meta", "status"}
    /\ line.easy \in BOOLEAN /\ line.parallel \in BOOLEAN /\ line.child \in BOOLEAN
    /\ DOMAIN work = {"step", "phase", "todo", "cur", "got", "changed", "conflict", "round"}
    /\ work.step \in {"implement", "merge", "review", "pr"} /\ work.todo \subseteq Repos /\ work.conflict \in BOOLEAN
    /\ track \in [Tracks -> {"setup", "run", "commit", "done"}]
    /\ DOMAIN branch = Repos /\ DOMAIN clone = Repos /\ DOMAIN origin = Repos
    /\ \A r \in Repos :
          /\ DOMAIN branch[r] = Names /\ \A n \in Names : DOMAIN branch[r][n] = {"anc", "edits"}
          /\ DOMAIN clone[r] = {"head", "staged", "merging"} /\ clone[r].head \in Names /\ clone[r].merging \in BOOLEAN
          /\ DOMAIN origin[r] = {"empty", "base", "task", "prs"}

\* Which steps a task takes, and when it is ready.
StepsOK ==
    /\ ~line.parallel => work.step # "merge" /\ \A t \in Tracks : track[t] = "setup"
    /\ line.parallel /\ work.step = "implement" => work.phase = "run"
    /\ line.parallel /\ work.step \in {"merge", "review"} => \A t \in Tracks : track[t] = "done"
    /\ line.status \in {"coding", "fixing", "pr_ready"}
    /\ line.status = "pr_ready" => work.step = "pr" /\ work.phase = "waiting"

\* A track's branch is its own chain, and what the trunk has of it came by a merge: that
\* the one is an ancestor of the other tells that its edits are there.
TrackOK(role, trunk, t) ==
    /\ role = NoCommit \/ (trunk # NoCommit /\ Chain(role, t))
    /\ \A i \in trunk.anc : i[1] = t => i \in role.anc
    /\ IsAncestor(role, trunk) => role.edits \subseteq trunk.edits
    /\ IsAncestor(trunk, role) => trunk.edits \subseteq role.edits

TracksOK ==
    line.parallel /\ work.step # "pr" =>
        /\ \A r \in Repos : \A t \in Tracks :
              /\ TrackOK(Role(r, t), Trunk(r), t)
              /\ track[t] # "setup" => Role(r, t) # NoCommit
              /\ Role(r, t) = NoCommit =>
                    Trunk(r) \in {NoCommit, Root} /\ clone[r].head = Base /\ branch[r][Base] = Root
        /\ \A r \in Repos : shipped[r] \subseteq Role(r, "be").edits \cup Role(r, "fe").edits
        /\ line.child => work.step \in {"implement", "merge"} /\ \A r \in Repos : branch[r][StepBranch("int")] = NoCommit

\* A repository whose merge is done.
MergedIn(r) ==
    /\ clone[r].head = StepBranch("int")
    /\ \A t \in Tracks : branch[r][StepBranch(t)].edits \subseteq branch[r][StepBranch("int")].edits

MergeOK ==
    work.step = "merge" =>
        /\ work.phase \in {"start", "checkout", "be", "fe", "commit", "error"}
        /\ work.phase = "start" => work.todo = Repos
        /\ work.phase \in {"checkout", "be", "fe", "commit"} => work.conflict \/ \A r \in Repos \ work.todo : MergedIn(r)
        /\ work.phase \in {"be", "fe", "commit"} =>
              LET r == work.cur
                  has(t) == branch[r][StepBranch(t)].edits \subseteq branch[r][StepBranch("int")].edits
              IN  /\ r \in work.todo /\ clone[r].head = StepBranch("int") /\ ~line.child
                  /\ work.phase = "be" => ~clone[r].merging
                  /\ work.phase = "fe" => has("be") \/ clone[r].merging
                  /\ work.phase = "commit" =>
                        has("be") /\ (has("fe") \/ (/\ clone[r].merging
                                                    /\ branch[r][StepBranch("fe")].edits \subseteq
                                                         branch[r][StepBranch("int")].edits \cup clone[r].staged))

\* What was implemented stands in the clone, and in the pushed branch of the repositories
\* the pull-request step is done with.
WorkOK ==
    ~line.parallel \/ work.step \in {"review", "pr"} =>
        \A r \in Repos : shipped[r] \subseteq HeadCommit(r).edits \cup clone[r].staged

PushedOK ==
    work.step = "pr" =>
        /\ work.phase \in {"start", "repos", "push", "create", "waiting", "error"}
        /\ work.phase = "start" => work.todo = Repos
        /\ work.phase = "waiting" => work.todo = {}
        /\ work.phase \in {"push", "create"} => work.cur \in work.todo /\ clone[work.cur].head = StepBranch("int")
        /\ work.phase \in {"repos", "push", "create", "waiting"} =>
              \A r \in Repos \ (work.todo \cup unread) : shipped[r] \subseteq origin[r].task
        /\ work.phase = "create" => shipped[work.cur] \subseteq origin[work.cur].task

GitRest == StepsOK /\ TracksOK /\ MergeOK /\ WorkOK /\ PushedOK
GitInv == GitTypeOK /\ (~line.easy => GitRest)

LEMMA NamesThere ==
    /\ Base \in Names /\ StepBranch("int") \in Names /\ \A t \in Tracks : StepBranch(t) \in Names
    /\ TrackBranch("int") \in Names /\ \A t \in Tracks : TrackBranch(t) \in Names
BY DEF Names, StepBranch, TrackBranch, Tracks, Base

LEMMA Goes ==
    ASSUME GitTypeOK, NEW step \in {"implement", "merge", "review", "pr"}, NEW phase, Goto(step, phase)
    PROVE  /\ DOMAIN work' = DOMAIN work /\ work'.step = step /\ work'.phase = phase /\ work'.todo = Repos
           /\ work'.conflict = FALSE
BY DEF Goto, GitTypeOK

LEMMA GivesUp ==
    ASSUME GitTypeOK, GiveUp
    PROVE  /\ DOMAIN work' = DOMAIN work /\ work'.step = work.step /\ work'.phase = "error" /\ work'.todo = work.todo
           /\ work'.conflict = work.conflict
BY DEF GiveUp, GitTypeOK

LEMMA OneBranchMoves ==
    ASSUME GitTypeOK, NEW r \in Repos, NEW n \in Names, NEW c, branch' = [branch EXCEPT ![r][n] = c]
    PROVE  /\ DOMAIN branch' = Repos /\ \A q \in Repos : DOMAIN branch'[q] = Names
           /\ branch'[r][n] = c
           /\ \A q \in Repos : \A m \in Names : q # r \/ m # n => branch'[q][m] = branch[q][m]
BY DEF GitTypeOK

LEMMA CommitShape ==
    ASSUME NEW c, NEW who, NEW more
    PROVE  /\ DOMAIN CommitOn(c, who, more) = {"anc", "edits"}
           /\ CommitOn(c, who, more).edits = c.edits \cup more
           /\ CommitOn(c, who, more).anc = c.anc \cup {<<who, Cardinality({i \in c.anc : i[1] = who}) + 1>>}
BY DEF CommitOn

LEMMA FixedCommits == DOMAIN Root = {"anc", "edits"} /\ DOMAIN NoCommit = {"anc", "edits"} /\ Root # NoCommit
BY DEF Root, NoCommit

\* What is committed on a track's chain is a chain, with an id that is new to it.
LEMMA ChainGrows ==
    ASSUME NEW c, NEW t \in Tracks, Chain(c, t), NEW more
    PROVE  /\ Chain(CommitOn(c, t, more), t)
           /\ \E k \in Nat : <<t, k>> \notin c.anc /\ CommitOn(c, t, more).anc = c.anc \cup {<<t, k>>}
<1> DEFINE n == Cardinality({i \in c.anc : i[1] = t})
           Ids(m) == {<<t, k>> : k \in 1..m}
           d == CommitOn(c, t, more)
<1>1. n \in Nat /\ n + 1 \in Nat /\ c.anc = Root.anc \cup Ids(n)
  <2>1. n \in Nat
    BY DEF Chain
  <2>2. c.anc = Root.anc \cup Ids(n)
    BY Zenon DEF Chain
  <2> QED
    BY <2>1, <2>2
<1>2. t # "root" /\ \A i \in Root.anc : i[1] # t
  BY DEF Tracks, Root
<1>3. <<t, n + 1>> \notin c.anc
  BY <1>1, <1>2
<1>4. d.anc = c.anc \cup {<<t, n + 1>>}
  BY CommitShape
<1>5. Ids(n + 1) = Ids(n) \cup {<<t, n + 1>>}
  <2>1. \A j \in Nat : 1..(j + 1) = 1..j \cup {j + 1}
    OBVIOUS
  <2> HIDE DEF n
  <2>2. 1..(n + 1) = 1..n \cup {n + 1}
    BY <1>1, <2>1
  <2> QED
    BY <2>2, Zenon
<1>6. d.anc = Root.anc \cup Ids(n + 1)
  BY <1>1, <1>4, <1>5
<1>7. {i \in c.anc : i[1] = t} = Ids(n) /\ {i \in d.anc : i[1] = t} = Ids(n + 1)
  BY <1>1, <1>2, <1>6
<1>8. IsFiniteSet(Ids(n))
  <2>1. IsFiniteSet(1..n)
    BY <1>1, FS_Interval
  <2>2. Ids(n) = {<<t, k>> : k \in 1..n}
    OBVIOUS
  <2> DEFINE f == [k \in 1..n |-> <<t, k>>]
  <2>3. f \in Surjection(1..n, Ids(n))
    BY DEF Surjection
  <2> HIDE DEF f
  <2> QED
    BY <2>1, <2>3, FS_Surjection
<1>9. <<t, n + 1>> \notin Ids(n)
  BY <1>1
<1>10. Cardinality(Ids(n + 1)) = Cardinality(Ids(n)) + 1
  BY <1>5, <1>8, <1>9, FS_AddElement
<1>11. Cardinality(Ids(n)) = n
  BY <1>7
<1>12. Cardinality({i \in d.anc : i[1] = t}) = n + 1
  BY <1>7, <1>10, <1>11
<1>13. d.anc # Root.anc
  <2>1. <<t, n + 1>> \in d.anc /\ <<t, n + 1>>[1] = t
    BY <1>4
  <2> QED
    BY <1>2, <2>1, Zenon
<1>14. Chain(d, t)
  BY <1>1, <1>6, <1>12, <1>13 DEF Chain
<1> QED
  BY <1>1, <1>3, <1>4, <1>14

LEMMA ChainIds ==
    ASSUME NEW c, NEW t \in Tracks, Chain(c, t)
    PROVE  /\ \A i \in c.anc : i[1] = t \/ i \in Root.anc
           /\ Root.anc \subseteq c.anc /\ c # NoCommit /\ c.anc # {}
           /\ (\A i \in c.anc : i[1] # t) => c.edits = {}
<1>1. t # "root" /\ \A i \in Root.anc : i[1] # t
  BY DEF Tracks, Root
<1>2. Root.anc # {} /\ NoCommit.anc = {}
  BY DEF Root, NoCommit
<1>3. ASSUME \A i \in c.anc : i[1] # t
      PROVE  c.edits = {}
  <2>1. c.anc = Root.anc
    BY <1>3 DEF Chain
  <2> QED
    BY <2>1 DEF Chain
<1> QED
  BY <1>1, <1>2, <1>3 DEF Chain

LEMMA RootChain == \A t \in Tracks : Chain(Root, t)
<1> SUFFICES ASSUME NEW t \in Tracks
             PROVE  Chain(Root, t)
  OBVIOUS
<1>1. {i \in Root.anc : i[1] = t} = {}
  BY DEF Tracks, Root
<1>2. Cardinality({i \in Root.anc : i[1] = t}) = 0
  BY <1>1, FS_EmptySet
<1>3. {<<t, k>> : k \in 1..0} = {}
  OBVIOUS
<1>4. Root.edits = {}
  BY DEF Root
<1> QED
  BY <1>2, <1>3, <1>4 DEF Chain

\* On a trunk that is the base commit every track is in order.
LEMMA TrackOnRoot ==
    ASSUME NEW t \in Tracks, NEW role, role = NoCommit \/ Chain(role, t)
    PROVE  TrackOK(role, Root, t)
<1>1. Root # NoCommit /\ Root.edits = {} /\ NoCommit.edits = {}
  BY DEF Root, NoCommit
<1>2. \A i \in Root.anc : i[1] # t
  BY DEF Root, Tracks
<1>3. IsAncestor(role, Root) => role.edits = {}
  BY <1>1, <1>2, ChainIds DEF IsAncestor
<1> QED
  BY <1>1, <1>2, <1>3 DEF TrackOK

LEMMA TrackCommits ==
    ASSUME NEW t \in Tracks, NEW role, NEW trunk, NEW more, TrackOK(role, trunk, t), role # NoCommit
    PROVE  TrackOK(CommitOn(role, t, more), trunk, t) /\ CommitOn(role, t, more) # NoCommit
<1> DEFINE d == CommitOn(role, t, more)
<1>1. Chain(role, t) /\ trunk # NoCommit
  BY DEF TrackOK
<1>2. PICK k \in Nat : <<t, k>> \notin role.anc /\ d.anc = role.anc \cup {<<t, k>>}
  BY <1>1, ChainGrows
<1>3. Chain(d, t)
  BY <1>1, ChainGrows
<1>4. d.edits = role.edits \cup more
  BY CommitShape
<1> HIDE DEF d
<1>5. <<t, k>> \notin trunk.anc
  BY <1>2 DEF TrackOK
<1>6. ~IsAncestor(d, trunk)
  BY <1>2, <1>5 DEF IsAncestor
<1>7. IsAncestor(trunk, d) => IsAncestor(trunk, role)
  BY <1>2, <1>5 DEF IsAncestor
<1>8. TrackOK(d, trunk, t)
  BY <1>1, <1>2, <1>3, <1>4, <1>6, <1>7 DEF TrackOK
<1>9. d # NoCommit
  BY <1>3, ChainIds
<1> QED
  BY <1>8, <1>9 DEF d

\* A trunk that is fast forwarded to a track is in order with both.
LEMMA TrackFastForward ==
    ASSUME NEW t \in Tracks, NEW u \in Tracks, NEW c, NEW role, Chain(c, t), Chain(role, u), u = t => role = c
    PROVE  TrackOK(role, c, u)
<1>1. CASE u = t
  BY <1>1, ChainIds DEF TrackOK, IsAncestor
<1>2. CASE u # t
  <2>1. \A i \in Root.anc : i[1] # t /\ i[1] # u
    BY DEF Root, Tracks
  <2>2. (\A i \in c.anc : i[1] # u) /\ (\A i \in role.anc : i[1] # t)
    BY <1>2, <2>1, ChainIds
  <2>3. IsAncestor(role, c) => role.edits = {}
    BY <2>2, ChainIds DEF IsAncestor
  <2>4. IsAncestor(c, role) => c.edits = {}
    BY <2>2, ChainIds DEF IsAncestor
  <2>5. c # NoCommit
    BY ChainIds
  <2> QED
    BY <2>2, <2>3, <2>4, <2>5 DEF TrackOK
<1> QED
  BY <1>1, <1>2

\* And so is one that takes in a merge commit with all its edits.
LEMMA TrackMerged ==
    ASSUME NEW u \in Tracks, NEW role, NEW trunk, NEW with, NEW staged,
           Chain(role, u), TrackOK(role, trunk, u), role.edits \subseteq trunk.edits \cup staged,
           \A i \in with.anc : i[1] = u => i \in role.anc,
           DOMAIN trunk = {"anc", "edits"}
    PROVE  LET new == CommitOn([trunk EXCEPT !.anc = @ \cup with.anc], "int", staged)
           IN  TrackOK(role, new, u) /\ role.edits \subseteq new.edits
<1> DEFINE mid == [trunk EXCEPT !.anc = @ \cup with.anc]
           new == CommitOn(mid, "int", staged)
<1>1. mid.anc = trunk.anc \cup with.anc /\ mid.edits = trunk.edits
  OBVIOUS
<1> HIDE DEF mid
<1>2. PICK k : new.anc = mid.anc \cup {<<"int", k>>}
  <2>1. new.anc = mid.anc \cup {<<"int", Cardinality({i \in mid.anc : i[1] = "int"}) + 1>>}
    BY DEF CommitOn
  <2> QED
    BY <2>1, Zenon
<1>3. new.edits = mid.edits \cup staged
  BY CommitShape
<1> HIDE DEF new
<1>4. u # "int" /\ \A i \in Root.anc : i[1] # "int"
  BY DEF Tracks, Root
<1>5. <<"int", k>> \notin role.anc /\ <<"int", k>>[1] # u
  BY <1>4, ChainIds
<1>6. new # NoCommit
  <2>1. NoCommit.anc = {} /\ <<"int", k>> \in new.anc
    BY <1>2 DEF NoCommit
  <2> QED
    BY <2>1
<1>7. ~IsAncestor(new, role)
  BY <1>2, <1>5 DEF IsAncestor
<1>8. \A i \in new.anc : i[1] = u => i \in role.anc
  BY <1>1, <1>2, <1>5 DEF TrackOK
<1>9. role.edits \subseteq new.edits
  BY <1>1, <1>3
<1>10. TrackOK(role, new, u)
  BY <1>6, <1>7, <1>8, <1>9 DEF TrackOK
<1> QED
  BY <1>9, <1>10 DEF new, mid

-----------------------------------------------------------------------------
\* Types

LEMMA StepFields ==
    ASSUME GitTypeOK, NEW s, NEW p, Goto(s, p)
    PROVE  DOMAIN work' = DOMAIN work
BY DEF Goto, GitTypeOK

LEMMA NextRepoFields ==
    ASSUME GitTypeOK, NEW conflict \in BOOLEAN, NextRepo(conflict)
    PROVE  /\ DOMAIN work' = DOMAIN work /\ work'.conflict \in BOOLEAN /\ work'.todo \subseteq Repos
           /\ work'.step \in {work.step, "review"}
<1>1. CASE work.todo # {work.cur}
  <2> DEFINE c == work.conflict \/ conflict
  <2>1. work' = [work EXCEPT !.todo = @ \ {work.cur}, !.cur = NoRepo, !.phase = "checkout", !.conflict = c]
    BY <1>1 DEF NextRepo
  <2>2. c \in BOOLEAN
    OBVIOUS
  <2> HIDE DEF c
  <2> QED
    BY <2>1, <2>2 DEF GitTypeOK
<1>2. CASE work.todo = {work.cur} /\ (work.conflict \/ conflict)
  BY <1>2, GivesUp DEF NextRepo, GitTypeOK
<1>3. CASE work.todo = {work.cur} /\ ~(work.conflict \/ conflict)
  BY <1>3, Goes DEF NextRepo, GitTypeOK
<1> QED
  BY <1>1, <1>2, <1>3

LEMMA InitTypes == GitInit => GitTypeOK
<1> SUFFICES ASSUME GitInit
             PROVE  GitTypeOK
  OBVIOUS
<1>1. PICK e \in BOOLEAN, p \in BOOLEAN, c \in BOOLEAN :
         line = [easy |-> e, parallel |-> p, child |-> c, urls |-> {}, meta |-> "none", status |-> "coding"]
  BY DEF GitInit
<1>2. /\ DOMAIN line = {"easy", "parallel", "child", "urls", "meta", "status"}
      /\ line.easy \in BOOLEAN /\ line.parallel \in BOOLEAN /\ line.child \in BOOLEAN
  BY <1>1
<1>3. /\ DOMAIN work = {"step", "phase", "todo", "cur", "got", "changed", "conflict", "round"}
      /\ work.step = "implement" /\ work.todo = {} /\ work.conflict = FALSE
  BY DEF GitInit
<1>4. track \in [Tracks -> {"setup", "run", "commit", "done"}]
  BY DEF GitInit
<1>5. DOMAIN branch = Repos /\ DOMAIN clone = Repos /\ DOMAIN origin = Repos
  BY DEF GitInit
<1>6. \A r \in Repos : /\ DOMAIN branch[r] = Names /\ \A n \in Names : DOMAIN branch[r][n] = {"anc", "edits"}
                       /\ DOMAIN clone[r] = {"head", "staged", "merging"} /\ clone[r].head \in Names
                       /\ clone[r].merging \in BOOLEAN
                       /\ DOMAIN origin[r] = {"empty", "base", "task", "prs"}
  BY NamesThere, FixedCommits DEF GitInit
<1> QED
  BY <1>2, <1>3, <1>4, <1>5, <1>6 DEF GitTypeOK

LEMMA ImplementTypes == ASSUME GitTypeOK, Implement PROVE GitTypeOK'
BY DEF Implement, GitTypeOK

LEMMA CheckpointTypes == ASSUME GitTypeOK, Checkpoint PROVE GitTypeOK'
<1>1. work'.step = "review" /\ work'.todo = Repos /\ work'.conflict = FALSE /\ DOMAIN work' = DOMAIN work
  BY Goes DEF Checkpoint
<1>2. PICK S \in SUBSET Repos :
         /\ branch' = [r \in Repos |-> IF r \in S
                          THEN [branch[r] EXCEPT ![clone[r].head] = CommitOn(@, "solo", clone[r].staged)]
                          ELSE branch[r]]
         /\ clone' = [r \in Repos |-> IF r \in S THEN [clone[r] EXCEPT !.staged = {}] ELSE clone[r]]
  BY DEF Checkpoint
<1>3. ASSUME NEW r \in Repos
      PROVE  /\ DOMAIN branch'[r] = Names /\ \A n \in Names : DOMAIN branch'[r][n] = {"anc", "edits"}
             /\ DOMAIN clone'[r] = {"head", "staged", "merging"} /\ clone'[r].head \in Names
             /\ clone'[r].merging \in BOOLEAN
  <2>1. DOMAIN CommitOn(branch[r][clone[r].head], "solo", clone[r].staged) = {"anc", "edits"}
    BY CommitShape
  <2> QED
    BY <1>2, <2>1 DEF GitTypeOK
<1>4. DOMAIN branch' = Repos /\ DOMAIN clone' = Repos /\ UNCHANGED <<line, track, origin>>
  BY <1>2 DEF Checkpoint
<1> QED
  BY <1>1, <1>3, <1>4 DEF GitTypeOK

LEMMA SetupTypes == ASSUME GitTypeOK, NEW t \in Tracks, SetupRoleWorktrees(t) PROVE GitTypeOK'
<1>1. \A r \in Repos : DOMAIN branch'[r] = Names /\ \A n \in Names : DOMAIN branch'[r][n] = {"anc", "edits"}
  <2> SUFFICES ASSUME NEW r \in Repos
               PROVE  DOMAIN branch'[r] = Names /\ \A n \in Names : DOMAIN branch'[r][n] = {"anc", "edits"}
    OBVIOUS
  <2> DEFINE int == IF HasBranch(r, TrackBranch("int")) THEN branch[r][TrackBranch("int")] ELSE HeadCommit(r)
  <2>1. DOMAIN int = {"anc", "edits"}
    BY NamesThere DEF GitTypeOK, HeadCommit
  <2>2. branch'[r] = [branch[r] EXCEPT ![TrackBranch("int")] = int, ![TrackBranch(t)] = IF @ = NoCommit THEN int ELSE @]
    BY DEF SetupRoleWorktrees, SetupRoleBranches
  <2> HIDE DEF int
  <2> QED
    BY <2>1, <2>2, NamesThere DEF GitTypeOK
<1>2. DOMAIN branch' = Repos /\ UNCHANGED <<line, work, clone, origin>>
  BY DEF SetupRoleWorktrees
<1>3. track' \in [Tracks -> {"setup", "run", "commit", "done"}]
  BY DEF SetupRoleWorktrees, GitTypeOK
<1> QED
  BY <1>1, <1>2, <1>3 DEF GitTypeOK

LEMMA ImplementTrackTypes == ASSUME GitTypeOK, NEW t \in Tracks, ImplementTrack(t) PROVE GitTypeOK'
BY DEF ImplementTrack, GitTypeOK

LEMMA CommitTrackTypes == ASSUME GitTypeOK, NEW t \in Tracks, CommitTrack(t) PROVE GitTypeOK'
<1>1. PICK S \in SUBSET Repos : branch' = CommitRoleWorktrees(t, S)
  BY DEF CommitTrack
<1>2. \A r \in Repos : DOMAIN branch'[r] = Names /\ \A n \in Names : DOMAIN branch'[r][n] = {"anc", "edits"}
  <2> SUFFICES ASSUME NEW r \in Repos
               PROVE  DOMAIN branch'[r] = Names /\ \A n \in Names : DOMAIN branch'[r][n] = {"anc", "edits"}
    OBVIOUS
  <2>1. DOMAIN CommitOn(branch[r][TrackBranch(t)], t, tree[r][t].dirty) = {"anc", "edits"}
    BY CommitShape
  <2> QED
    BY <1>1, <2>1, NamesThere DEF CommitRoleWorktrees, GitTypeOK
<1>3. DOMAIN branch' = Repos /\ UNCHANGED <<line, work, clone, origin>>
  BY <1>1 DEF CommitTrack, CommitRoleWorktrees
<1>4. track' \in [Tracks -> {"setup", "run", "commit", "done"}]
  BY DEF CommitTrack, GitTypeOK
<1> QED
  BY <1>2, <1>3, <1>4 DEF GitTypeOK

LEMMA TracksDoneTypes == ASSUME GitTypeOK, TracksDone PROVE GitTypeOK'
<1>1. work'.step = "merge" /\ work'.todo = Repos /\ work'.conflict = FALSE /\ DOMAIN work' = DOMAIN work
  BY Goes DEF TracksDone
<1> QED
  BY <1>1 DEF TracksDone, GitTypeOK

LEMMA MergeStartTypes == ASSUME GitTypeOK, MergeStart PROVE GitTypeOK'
<1>1. CASE line.easy
  <2>1. work'.step = "review" /\ work'.todo = Repos /\ work'.conflict = FALSE /\ DOMAIN work' = DOMAIN work
    BY <1>1, Goes DEF MergeStart
  <2> QED
    BY <2>1, ZenonT(60) DEF MergeStart, GitTypeOK
<1>2. CASE ~line.easy
  BY <1>2 DEF MergeStart, GitTypeOK
<1> QED
  BY <1>1, <1>2

LEMMA CheckoutTypes == ASSUME GitTypeOK, CheckoutBranch PROVE GitTypeOK'
<1>1. PICK r \in work.todo :
         IF ~HasBranch(r, StepBranch("int")) THEN GiveUp /\ UNCHANGED clone
         ELSE /\ clone' = [clone EXCEPT ![r].head = StepBranch("int"), ![r].merging = FALSE]
              /\ work' = [work EXCEPT !.cur = r, !.phase = "be"]
  BY DEF CheckoutBranch
<1>2. UNCHANGED <<line, track, branch, origin>>
  BY DEF CheckoutBranch
<1>3. CASE ~HasBranch(r, StepBranch("int"))
  BY <1>1, <1>2, <1>3, GivesUp DEF GitTypeOK
<1>4. CASE HasBranch(r, StepBranch("int"))
  <2>1. DOMAIN work' = DOMAIN work /\ work'.step = work.step /\ work'.todo = work.todo /\ work'.conflict = work.conflict
    BY <1>1, <1>4 DEF GitTypeOK
  <2>2. DOMAIN clone' = Repos /\ \A q \in Repos : /\ DOMAIN clone'[q] = {"head", "staged", "merging"}
                                                  /\ clone'[q].head \in Names /\ clone'[q].merging \in BOOLEAN
    BY <1>1, <1>4, NamesThere DEF GitTypeOK
  <2> QED
    BY <1>2, <2>1, <2>2 DEF GitTypeOK
<1> QED
  BY <1>1, <1>3, <1>4

LEMMA MergeBranchTypes == ASSUME GitTypeOK, NEW t \in Tracks, MergeBranch(t) PROVE GitTypeOK'
<1> DEFINE r == work.cur
           ours == branch[r][StepBranch("int")]
           theirs == branch[r][StepBranch(t)]
<1>1. UNCHANGED <<line, track, origin>>
  BY DEF MergeBranch
<1>2. DOMAIN work' = DOMAIN work /\ work'.conflict \in BOOLEAN /\ work'.todo \subseteq Repos
      /\ work'.step \in {work.step, "review"}
  <2>1. AfterMerge(t) \/ GiveUp \/ NextRepo(TRUE)
    BY DEF MergeBranch
  <2>2. CASE AfterMerge(t)
    BY <2>2 DEF AfterMerge, GitTypeOK
  <2>3. CASE GiveUp
    BY <2>3, GivesUp DEF GitTypeOK
  <2>4. CASE NextRepo(TRUE)
    BY <2>4, NextRepoFields
  <2> QED
    BY <2>1, <2>2, <2>3, <2>4
<1>3. /\ DOMAIN branch' = Repos
      /\ \A q \in Repos : DOMAIN branch'[q] = Names /\ \A n \in Names : DOMAIN branch'[q][n] = {"anc", "edits"}
  <2>1. branch' = branch \/ branch' = [branch EXCEPT ![r][StepBranch("int")] = theirs]
    BY DEF MergeBranch
  <2>2. r \in Repos => DOMAIN theirs = {"anc", "edits"}
    BY NamesThere DEF GitTypeOK
  <2> HIDE DEF theirs
  <2>3. CASE branch' = [branch EXCEPT ![r][StepBranch("int")] = theirs]
    BY <2>2, <2>3, NamesThere DEF GitTypeOK
  <2> QED
    BY <2>1, <2>3 DEF GitTypeOK
<1>4. /\ DOMAIN clone' = Repos
      /\ \A q \in Repos : /\ DOMAIN clone'[q] = {"head", "staged", "merging"} /\ clone'[q].head \in Names
                          /\ clone'[q].merging \in BOOLEAN
  <2>1. clone' = clone \/ clone' = [clone EXCEPT ![r].merging = TRUE, ![r].staged = theirs.edits \ ours.edits]
    BY DEF MergeBranch
  <2>2. CASE clone' = [clone EXCEPT ![r].merging = TRUE, ![r].staged = theirs.edits \ ours.edits]
    <3> DEFINE X == theirs.edits \ ours.edits
    <3>1. clone' = [clone EXCEPT ![r].merging = TRUE, ![r].staged = X]
      BY <2>2
    <3> HIDE DEF X
    <3> QED
      BY <3>1 DEF GitTypeOK
  <2>3. CASE clone' = clone
    BY <2>3 DEF GitTypeOK
  <2> QED
    BY <2>1, <2>2, <2>3
<1> QED
  BY <1>1, <1>2, <1>3, <1>4 DEF GitTypeOK

LEMMA CommitMergeTypes == ASSUME GitTypeOK, CommitMerge PROVE GitTypeOK'
<1> DEFINE r == work.cur
           int == StepBranch("int")
           with == IF clone[r].merging THEN branch[r][StepBranch("fe")] ELSE NoCommit
           new == CommitOn([branch[r][int] EXCEPT !.anc = @ \cup with.anc], "int", clone[r].staged)
<1>1. UNCHANGED <<line, track, origin>>
  BY DEF CommitMerge
<1>2. DOMAIN work' = DOMAIN work /\ work'.conflict \in BOOLEAN /\ work'.todo \subseteq Repos
      /\ work'.step \in {work.step, "review"}
  BY NextRepoFields DEF CommitMerge
<1>3. /\ DOMAIN branch' = Repos
      /\ \A q \in Repos : DOMAIN branch'[q] = Names /\ \A n \in Names : DOMAIN branch'[q][n] = {"anc", "edits"}
  <2>1. branch' = branch \/ branch' = [branch EXCEPT ![r][int] = new]
    <3>1. CASE Changed(clone[r])
      BY <3>1, Zenon DEF CommitMerge
    <3>2. CASE ~Changed(clone[r])
      BY <3>2 DEF CommitMerge
    <3> QED
      BY <3>1, <3>2
  <2>2. DOMAIN new = {"anc", "edits"} /\ int \in Names
    BY CommitShape, NamesThere
  <2> HIDE DEF new, int
  <2>3. CASE branch' = [branch EXCEPT ![r][int] = new]
    BY <2>2, <2>3 DEF GitTypeOK
  <2> QED
    BY <2>1, <2>3 DEF GitTypeOK
<1>4. /\ DOMAIN clone' = Repos
      /\ \A q \in Repos : /\ DOMAIN clone'[q] = {"head", "staged", "merging"} /\ clone'[q].head \in Names
                          /\ clone'[q].merging \in BOOLEAN
  <2>1. clone' = clone \/ clone' = [clone EXCEPT ![r].staged = {}, ![r].merging = FALSE]
    BY DEF CommitMerge
  <2> QED
    BY <2>1 DEF GitTypeOK
<1> QED
  BY <1>1, <1>2, <1>3, <1>4 DEF GitTypeOK

LEMMA ReviewTypes == ASSUME GitTypeOK, Review PROVE GitTypeOK'
<1>1. UNCHANGED <<line, branch, clone, origin>>
  BY DEF Review
<1>2. CASE Goto("pr", "start") /\ UNCHANGED track
  <2>1. DOMAIN work' = DOMAIN work /\ work'.step = "pr" /\ work'.todo = Repos /\ work'.conflict = FALSE
    BY <1>2, Goes
  <2> QED
    BY <1>1, <1>2, <2>1 DEF GitTypeOK
<1>3. CASE /\ work' = [work EXCEPT !.step = "implement", !.phase = "run", !.round = @ + 1]
           /\ track' = [t \in Tracks |-> "setup"]
  BY <1>1, <1>3 DEF GitTypeOK
<1> QED
  BY <1>2, <1>3 DEF Review

LEMMA PRStartTypes == ASSUME GitTypeOK, PRStart PROVE GitTypeOK'
BY DEF PRStart, GitTypeOK

LEMMA PrepareTypes == ASSUME GitTypeOK, PrepareBranch PROVE GitTypeOK'
<1>1. UNCHANGED <<line, track, origin>>
  BY DEF PrepareBranch
<1>2. PICK r \in work.todo :
        \/ work' = [work EXCEPT !.todo = @ \ {r}] /\ UNCHANGED <<branch, clone>>
        \/ /\ clone' = [clone EXCEPT ![r] =
                          [head |-> StepBranch("int"), merging |-> FALSE,
                           staged |-> (@.staged \cup HeadCommit(r).edits \cup {SpecEdit}) \ ResetSoft(r).edits]]
           /\ branch' = [branch EXCEPT ![r][StepBranch("int")] = ResetSoft(r)]
           /\ work' = [work EXCEPT !.cur = r, !.changed = Changed(clone[r]), !.phase = "push"]
  BY DEF PrepareBranch
<1>3. CASE work' = [work EXCEPT !.todo = @ \ {r}] /\ UNCHANGED <<branch, clone>>
  BY <1>1, <1>3 DEF GitTypeOK
<1>4. CASE /\ clone' = [clone EXCEPT ![r] =
                          [head |-> StepBranch("int"), merging |-> FALSE,
                           staged |-> (@.staged \cup HeadCommit(r).edits \cup {SpecEdit}) \ ResetSoft(r).edits]]
           /\ branch' = [branch EXCEPT ![r][StepBranch("int")] = ResetSoft(r)]
           /\ work' = [work EXCEPT !.cur = r, !.changed = Changed(clone[r]), !.phase = "push"]
  <2>1. DOMAIN ResetSoft(r) = {"anc", "edits"}
    BY NamesThere, FixedCommits DEF ResetSoft, GitTypeOK
  <2>2. /\ DOMAIN branch' = Repos
        /\ \A q \in Repos : DOMAIN branch'[q] = Names /\ \A n \in Names : DOMAIN branch'[q][n] = {"anc", "edits"}
    BY <1>4, <2>1, NamesThere DEF GitTypeOK
  <2>3. /\ DOMAIN clone' = Repos
        /\ \A q \in Repos : /\ DOMAIN clone'[q] = {"head", "staged", "merging"} /\ clone'[q].head \in Names
                            /\ clone'[q].merging \in BOOLEAN
    BY <1>4, NamesThere DEF GitTypeOK
  <2>4. DOMAIN work' = DOMAIN work /\ work'.step = work.step /\ work'.todo = work.todo /\ work'.conflict = work.conflict
    BY <1>4 DEF GitTypeOK
  <2> QED
    BY <1>1, <2>2, <2>3, <2>4 DEF GitTypeOK
<1> QED
  BY <1>2, <1>3, <1>4

LEMMA PushTypes == ASSUME GitTypeOK, CommitAndPush PROVE GitTypeOK'
<1> DEFINE r == work.cur
           int == StepBranch("int")
           new == CommitOn(branch[r][int], "pr", clone[r].staged)
<1>1. UNCHANGED <<line, track>>
  BY DEF CommitAndPush
<1>2. branch' = branch \/ branch' = [branch EXCEPT ![r][int] = new]
  BY DEF CommitAndPush
<1>3. DOMAIN new = {"anc", "edits"} /\ int \in Names
  BY CommitShape, NamesThere
<1>4. /\ DOMAIN branch' = Repos
      /\ \A q \in Repos : DOMAIN branch'[q] = Names /\ \A n \in Names : DOMAIN branch'[q][n] = {"anc", "edits"}
  <2> HIDE DEF new, int
  <2>1. CASE branch' = [branch EXCEPT ![r][int] = new]
    BY <1>3, <2>1 DEF GitTypeOK
  <2> QED
    BY <1>2, <2>1 DEF GitTypeOK
<1>5. /\ DOMAIN clone' = Repos /\ DOMAIN origin' = Repos
      /\ \A q \in Repos : /\ DOMAIN clone'[q] = {"head", "staged", "merging"} /\ clone'[q].head \in Names
                          /\ clone'[q].merging \in BOOLEAN /\ DOMAIN origin'[q] = {"empty", "base", "task", "prs"}
  BY DEF CommitAndPush, GitTypeOK
<1>6. DOMAIN work' = DOMAIN work /\ work'.step = work.step /\ work'.todo = work.todo /\ work'.conflict = work.conflict
  BY DEF CommitAndPush, GitTypeOK
<1> QED
  BY <1>1, <1>4, <1>5, <1>6 DEF GitTypeOK

LEMMA CreateTypes == ASSUME GitTypeOK, CreatePullRequest PROVE GitTypeOK'
<1>1. UNCHANGED <<line, track, branch, clone>>
  BY DEF CreatePullRequest
<1>2. DOMAIN origin' = Repos /\ \A q \in Repos : DOMAIN origin'[q] = {"empty", "base", "task", "prs"}
  BY DEF CreatePullRequest, GitTypeOK
<1>3. DOMAIN work' = DOMAIN work /\ work'.step = work.step /\ work'.todo \subseteq Repos /\ work'.conflict = work.conflict
  BY DEF CreatePullRequest, GitTypeOK
<1> QED
  BY <1>1, <1>2, <1>3 DEF GitTypeOK

LEMMA RecordTypes == ASSUME GitTypeOK, RecordPRs PROVE GitTypeOK'
<1>1. UNCHANGED <<track, branch, clone, origin>>
  BY DEF RecordPRs
<1>2. DOMAIN work' = DOMAIN work /\ work'.step = work.step /\ work'.todo = work.todo /\ work'.conflict = work.conflict
  BY DEF RecordPRs, GiveUp, GitTypeOK
<1>3. DOMAIN line' = DOMAIN line /\ line'.easy = line.easy /\ line'.parallel = line.parallel /\ line'.child = line.child
  BY ZenonT(60) DEF RecordPRs, GitTypeOK
<1> QED
  BY <1>1, <1>2, <1>3 DEF GitTypeOK

LEMMA RejectTypes == ASSUME GitTypeOK, Reject PROVE GitTypeOK'
<1>1. DOMAIN work' = DOMAIN work /\ work'.step = "pr" /\ work'.todo = Repos /\ work'.conflict = FALSE
  BY Goes DEF Reject
<1>2. UNCHANGED <<track, branch, clone, origin>> /\ line' = [line EXCEPT !.status = "fixing"]
  BY DEF Reject
<1> QED
  BY <1>1, <1>2 DEF GitTypeOK

LEMMA RetryTypes == ASSUME GitTypeOK, RetryStep PROVE GitTypeOK'
<1> DEFINE p == IF work.step = "implement" THEN "run" ELSE "start"
<1>1. Goto(work.step, p) /\ UNCHANGED <<line, branch, clone, origin>>
  BY DEF RetryStep
<1>2. DOMAIN work' = DOMAIN work /\ work'.step = work.step /\ work'.todo = Repos /\ work'.conflict = FALSE
  BY <1>1, Goes DEF GitTypeOK
<1>3. track' \in [Tracks -> {"setup", "run", "commit", "done"}]
  BY DEF RetryStep, GitTypeOK
<1> QED
  BY <1>1, <1>2, <1>3, ZenonT(60) DEF GitTypeOK

-----------------------------------------------------------------------------
\* What a step leaves alone

LEMMA SameTracks ==
    ASSUME TracksOK, UNCHANGED <<line, branch, shipped>>, work.step # "pr",
           \A r \in Repos : clone'[r].head = clone[r].head \/ \A t \in Tracks : Role(r, t) # NoCommit,
           \A t \in Tracks : track'[t] # "setup" => track[t] # "setup",
           line.child /\ line.parallel => work'.step \in {"implement", "merge", "pr"}
    PROVE  TracksOK'
<1> SUFFICES ASSUME line.parallel, work'.step # "pr"
             PROVE  TracksOK'
  BY DEF TracksOK
<1>1. \A r \in Repos : \A t \in Tracks : Role(r, t)' = Role(r, t) /\ Trunk(r)' = Trunk(r)
  BY DEF Role, Trunk, TrackBranch
<1>2. \A r \in Repos : branch[r][StepBranch("int")]' = branch[r][StepBranch("int")]
  BY DEF StepBranch
<1>3. ASSUME NEW r \in Repos, NEW t \in Tracks
      PROVE  /\ TrackOK(Role(r, t), Trunk(r), t)'
             /\ track'[t] # "setup" => Role(r, t)' # NoCommit
             /\ Role(r, t)' = NoCommit =>
                   Trunk(r)' \in {NoCommit, Root} /\ clone'[r].head = Base /\ branch'[r][Base] = Root
  <2>1. TrackOK(Role(r, t), Trunk(r), t)'
    BY <1>1, SMTT(30) DEF TracksOK, TrackOK, Chain, IsAncestor
  <2>2. track'[t] # "setup" => Role(r, t)' # NoCommit
    BY <1>1 DEF TracksOK
  <2>3. Role(r, t)' = NoCommit => Trunk(r)' \in {NoCommit, Root} /\ clone'[r].head = Base /\ branch'[r][Base] = Root
    BY <1>1 DEF TracksOK
  <2> QED
    BY <2>1, <2>2, <2>3
<1>4. \A r \in Repos : shipped'[r] \subseteq Role(r, "be")'.edits \cup Role(r, "fe")'.edits
  <2>1. {"be", "fe"} \subseteq Tracks
    BY DEF Tracks
  <2> QED
    BY <1>1, <2>1 DEF TracksOK
<1>5. line'.child => work'.step \in {"implement", "merge"} /\ \A r \in Repos : branch[r][StepBranch("int")]' = NoCommit
  BY <1>2 DEF TracksOK
<1> QED
  BY <1>3, <1>4, <1>5 DEF TracksOK

LEMMA SameWork ==
    ASSUME WorkOK, UNCHANGED <<line, branch, clone, shipped>>,
           ~line.parallel \/ work.step \in {"review", "pr"} \/ work'.step \notin {"review", "pr"}
    PROVE  WorkOK'
BY DEF WorkOK, HeadCommit

LEMMA NoMerge == ASSUME work'.step # "merge" PROVE MergeOK'
BY DEF MergeOK

LEMMA NoPush == ASSUME work'.step # "pr" PROVE PushedOK'
BY DEF PushedOK

LEMMA NotPRReady ==
    ASSUME StepsOK, ~(work.step = "pr" /\ work.phase = "waiting")
    PROVE  line.status \in {"coding", "fixing"}
BY DEF StepsOK

-----------------------------------------------------------------------------
\* The implement step

LEMMA ImplementKeeps == ASSUME GitTypeOK, GitRest, Implement PROVE GitRest'
<1> USE DEF GitRest
<1>0. UNCHANGED <<line, track, branch, shipped>> /\ ~line.parallel /\ work.step = "implement"
  BY DEF Implement
<1>1. work'.step = "implement"
  BY DEF Implement, GitTypeOK
<1>2. \A r \in Repos : clone'[r].head = clone[r].head /\ clone[r].staged \subseteq clone'[r].staged
  BY DEF Implement, GitTypeOK
<1>3. StepsOK'
  BY <1>0, <1>1 DEF StepsOK
<1>4. WorkOK'
  BY <1>0, <1>2 DEF WorkOK, HeadCommit
<1>5. TracksOK'
  BY <1>0 DEF TracksOK
<1> QED
  BY <1>1, <1>3, <1>4, <1>5, NoMerge, NoPush

LEMMA CheckpointKeeps == ASSUME GitTypeOK, GitRest, Checkpoint PROVE GitRest'
<1> USE DEF GitRest
<1>0. UNCHANGED <<line, track>> /\ work.step = "implement" /\ work.phase = "checkpoint"
  BY DEF Checkpoint
<1>1. ~line.parallel
  BY <1>0 DEF StepsOK
<1>2. work'.step = "review" /\ work'.phase = "start"
  BY Goes DEF Checkpoint
<1>3. StepsOK'
  BY <1>0, <1>1, <1>2 DEF StepsOK
<1>4. PICK S \in SUBSET Repos :
         /\ branch' = [r \in Repos |-> IF r \in S
                          THEN [branch[r] EXCEPT ![clone[r].head] = CommitOn(@, "solo", clone[r].staged)]
                          ELSE branch[r]]
         /\ clone' = [r \in Repos |-> IF r \in S THEN [clone[r] EXCEPT !.staged = {}] ELSE clone[r]]
  BY DEF Checkpoint
<1>5. \A r \in Repos : shipped'[r] = HeadCommit(r).edits \cup clone[r].staged
  BY DEF Checkpoint
<1>6. ASSUME NEW r \in Repos
      PROVE  shipped'[r] \subseteq HeadCommit(r)'.edits \cup clone'[r].staged
  <2>1. CASE r \in S
    <3> DEFINE new == CommitOn(HeadCommit(r), "solo", clone[r].staged)
    <3>1. clone'[r].head = clone[r].head
      BY <1>4, <2>1 DEF GitTypeOK
    <3>2. branch'[r][clone[r].head] = new
      BY <1>4, <2>1 DEF GitTypeOK, HeadCommit
    <3>3. new.edits = HeadCommit(r).edits \cup clone[r].staged
      BY CommitShape
    <3> HIDE DEF new
    <3> QED
      BY <1>5, <3>1, <3>2, <3>3 DEF HeadCommit
  <2>2. CASE r \notin S
    BY <1>4, <1>5, <2>2 DEF HeadCommit
  <2> QED
    BY <2>1, <2>2
<1>7. WorkOK'
  BY <1>6 DEF WorkOK
<1>8. TracksOK'
  BY <1>0, <1>1 DEF TracksOK
<1> QED
  BY <1>2, <1>3, <1>7, <1>8, NoMerge, NoPush

LEMMA SetupKeeps == ASSUME GitTypeOK, GitRest, NEW t \in Tracks, SetupRoleWorktrees(t) PROVE GitRest'
<1> USE DEF GitRest
<1>0. UNCHANGED <<line, work, clone, shipped>> /\ work.step = "implement" /\ line.parallel /\ track[t] = "setup"
  BY DEF SetupRoleWorktrees
<1>1. \A r \in Repos : branch'[r] = SetupRoleBranches(r, t)
  BY DEF SetupRoleWorktrees
<1>2. /\ \A u \in Tracks : u # t => track'[u] = track[u]
      /\ track'[t] = "run"
  BY DEF SetupRoleWorktrees, GitTypeOK
<1>3. StepsOK'
  BY <1>0 DEF StepsOK
<1>4. ASSUME NEW r \in Repos
      PROVE  /\ branch'[r][Base] = branch[r][Base]
             /\ line.child => branch'[r][StepBranch("int")] = branch[r][StepBranch("int")]
             /\ \A u \in Tracks : u # t => Role(r, u)' = Role(r, u)
             /\ Role(r, t) # NoCommit => Role(r, t)' = Role(r, t) /\ Trunk(r)' = Trunk(r)
             /\ Role(r, t) = NoCommit => Role(r, t)' = Root /\ Trunk(r)' = Root
             /\ Role(r, t)' # NoCommit
  <2> DEFINE int == IF HasBranch(r, TrackBranch("int")) THEN branch[r][TrackBranch("int")] ELSE HeadCommit(r)
  <2>1. branch'[r] = [branch[r] EXCEPT ![TrackBranch("int")] = int,
                                       ![TrackBranch(t)] = IF branch[r][TrackBranch(t)] = NoCommit THEN int ELSE branch[r][TrackBranch(t)]]
    <3>1. TrackBranch(t) # TrackBranch("int")
      BY DEF TrackBranch, Tracks
    <3> QED
      BY <1>1, <3>1, NamesThere DEF SetupRoleBranches
  <2>2. /\ TrackBranch(t) # TrackBranch("int") /\ Base # TrackBranch(t) /\ Base # TrackBranch("int")
        /\ \A u \in Tracks : u # t => TrackBranch(u) # TrackBranch(t)
        /\ \A u \in Tracks : TrackBranch(u) # TrackBranch("int")
        /\ line.child => StepBranch("int") # TrackBranch("int") /\ StepBranch("int") # TrackBranch(t)
    BY DEF TrackBranch, StepBranch, Tracks, Base
  <2>3. Role(r, t) = NoCommit => int = Root
    <3>1. Role(r, t) = NoCommit => Trunk(r) \in {NoCommit, Root} /\ clone[r].head = Base /\ branch[r][Base] = Root
      BY <1>0 DEF TracksOK
    <3> QED
      BY <3>1 DEF HasBranch, HeadCommit, Trunk
  <2>4. Role(r, t) # NoCommit => int = Trunk(r)
    <3>1. TrackOK(Role(r, t), Trunk(r), t)
      BY <1>0 DEF TracksOK
    <3> QED
      BY <3>1 DEF HasBranch, Trunk, TrackOK
  <2> HIDE DEF int
  <2>5. DOMAIN branch[r] = Names
    BY DEF GitTypeOK
  <2>6. /\ branch'[r][TrackBranch("int")] = int
        /\ branch'[r][TrackBranch(t)] = IF Role(r, t) = NoCommit THEN int ELSE Role(r, t)
    BY <2>1, <2>2, <2>5, NamesThere DEF Role
  <2>7. \A n \in Names : n # TrackBranch("int") /\ n # TrackBranch(t) => branch'[r][n] = branch[r][n]
    BY <2>1, <2>5
  <2>8. Trunk(r)' = int /\ Role(r, t)' = IF Role(r, t) = NoCommit THEN int ELSE Role(r, t)
    BY <1>0, <2>6 DEF Trunk, Role, TrackBranch
  <2>9. \A u \in Tracks : u # t => Role(r, u)' = Role(r, u)
    BY <1>0, <2>2, <2>7, NamesThere DEF Role, TrackBranch
  <2>10. branch'[r][Base] = branch[r][Base]
    BY <2>2, <2>7, NamesThere
  <2>11. line.child => branch'[r][StepBranch("int")] = branch[r][StepBranch("int")]
    BY <2>2, <2>7, NamesThere
  <2> QED
    BY <2>3, <2>4, <2>8, <2>9, <2>10, <2>11, FixedCommits
<1>5. ASSUME NEW r \in Repos, NEW u \in Tracks
      PROVE  /\ TrackOK(Role(r, u), Trunk(r), u)'
             /\ track'[u] # "setup" => Role(r, u)' # NoCommit
             /\ Role(r, u)' = NoCommit =>
                   Trunk(r)' \in {NoCommit, Root} /\ clone'[r].head = Base /\ branch'[r][Base] = Root
  <2>1. /\ TrackOK(Role(r, u), Trunk(r), u)
        /\ track[u] # "setup" => Role(r, u) # NoCommit
        /\ Role(r, u) = NoCommit =>
              Trunk(r) \in {NoCommit, Root} /\ clone[r].head = Base /\ branch[r][Base] = Root
        /\ Role(r, t) = NoCommit => clone[r].head = Base /\ branch[r][Base] = Root
    BY <1>0 DEF TracksOK
  <2>2. CASE Role(r, t) # NoCommit
    <3>1. Role(r, u)' = Role(r, u) /\ Trunk(r)' = Trunk(r)
      BY <1>4, <2>2
    <3>2. TrackOK(Role(r, u), Trunk(r), u)'
      BY <2>1, <3>1 DEF TrackOK, Chain, IsAncestor
    <3>3. track'[u] # "setup" => Role(r, u)' # NoCommit
      BY <1>2, <1>4, <2>1, <3>1
    <3> QED
      BY <1>0, <1>4, <2>1, <3>1, <3>2, <3>3
  <2>3. CASE Role(r, t) = NoCommit
    <3>1. Trunk(r)' = Root
      BY <1>4, <2>3
    <3>2. Role(r, u)' = NoCommit \/ Chain(Role(r, u)', u)
      <4>1. CASE u = t
        BY <1>4, <2>3, <4>1, RootChain
      <4>2. CASE u # t
        BY <1>4, <2>1, <4>2 DEF TrackOK
      <4> QED
        BY <4>1, <4>2
    <3>3. TrackOK(Role(r, u)', Root, u)
      BY <3>2, TrackOnRoot
    <3>4. TrackOK(Role(r, u), Trunk(r), u)'
      BY <3>1, <3>3 DEF TrackOK, Chain, IsAncestor
    <3>5. track'[u] # "setup" => Role(r, u)' # NoCommit
      BY <1>2, <1>4, <2>1
    <3> QED
      BY <1>0, <1>4, <2>1, <2>3, <3>1, <3>4, <3>5
  <2> QED
    BY <2>2, <2>3
<1>6. \A r \in Repos : shipped'[r] \subseteq Role(r, "be")'.edits \cup Role(r, "fe")'.edits
  <2> SUFFICES ASSUME NEW r \in Repos
               PROVE  shipped'[r] \subseteq Role(r, "be")'.edits \cup Role(r, "fe")'.edits
    OBVIOUS
  <2>1. \A u \in Tracks : Role(r, u).edits \subseteq Role(r, u)'.edits
    <3>1. NoCommit.edits = {}
      BY DEF NoCommit
    <3> QED
      BY <1>4, <3>1
  <2>2. shipped[r] \subseteq Role(r, "be").edits \cup Role(r, "fe").edits
    BY <1>0 DEF TracksOK
  <2> QED
    BY <1>0, <2>1, <2>2 DEF Tracks
<1>7. line'.child => work'.step \in {"implement", "merge"} /\ \A r \in Repos : branch[r][StepBranch("int")]' = NoCommit
  <2>1. \A r \in Repos : line.child => branch[r][StepBranch("int")]' = branch[r][StepBranch("int")]
    BY <1>0, <1>4 DEF StepBranch
  <2> QED
    BY <1>0, <2>1 DEF TracksOK
<1>8. TracksOK'
  BY <1>5, <1>6, <1>7 DEF TracksOK
<1>9. WorkOK'
  BY <1>0 DEF WorkOK
<1> QED
  BY <1>0, <1>3, <1>8, <1>9, NoMerge, NoPush

LEMMA ImplementTrackKeeps == ASSUME GitTypeOK, GitRest, NEW t \in Tracks, ImplementTrack(t) PROVE GitRest'
<1> USE DEF GitRest
<1>0. UNCHANGED <<line, work, branch, clone, shipped>> /\ work.step = "implement" /\ track[t] = "run"
  BY DEF ImplementTrack
<1>1. line.parallel
  BY <1>0 DEF StepsOK
<1>2. \A u \in Tracks : track'[u] # "setup" => track[u] # "setup"
  BY <1>0 DEF ImplementTrack, GitTypeOK
<1>3. StepsOK'
  BY <1>0, <1>1 DEF StepsOK
<1>4. TracksOK'
  BY <1>0, <1>2, SameTracks
<1>5. WorkOK'
  BY <1>0, SameWork
<1> QED
  BY <1>0, <1>3, <1>4, <1>5, NoMerge, NoPush

LEMMA CommitTrackKeeps == ASSUME GitTypeOK, GitRest, NEW t \in Tracks, CommitTrack(t) PROVE GitRest'
<1> USE DEF GitRest
<1>0. UNCHANGED <<line, work, clone>> /\ work.step = "implement" /\ track[t] = "commit"
  BY DEF CommitTrack
<1>1. line.parallel
  BY <1>0 DEF StepsOK
<1>2. \A u \in Tracks : track'[u] # "setup" => track[u] # "setup"
  BY <1>0 DEF CommitTrack, GitTypeOK
<1>3. StepsOK'
  BY <1>0, <1>1 DEF StepsOK
<1>4. PICK S \in SUBSET Repos : branch' = CommitRoleWorktrees(t, S)
  BY DEF CommitTrack
<1>5. ASSUME NEW r \in Repos
      PROVE  /\ \A n \in Names : n # TrackBranch(t) => branch'[r][n] = branch[r][n]
             /\ \/ Role(r, t)' = Role(r, t) /\ tree[r][t].dirty = {}
                \/ Role(r, t)' = CommitOn(Role(r, t), t, tree[r][t].dirty)
  <2> DEFINE new == CommitOn(branch[r][TrackBranch(t)], t, tree[r][t].dirty)
  <2>1. branch'[r] = IF r \in S \/ tree[r][t].dirty # {} THEN [branch[r] EXCEPT ![TrackBranch(t)] = new] ELSE branch[r]
    BY <1>4 DEF CommitRoleWorktrees
  <2>2. DOMAIN branch[r] = Names /\ TrackBranch(t) \in Names
    BY NamesThere DEF GitTypeOK
  <2>3. Role(r, t)' = branch'[r][TrackBranch(t)]
    BY <1>0 DEF Role, TrackBranch
  <2>4. new = CommitOn(Role(r, t), t, tree[r][t].dirty)
    BY DEF Role
  <2> HIDE DEF new
  <2> QED
    BY <2>1, <2>2, <2>3, <2>4 DEF Role
<1>6. ASSUME NEW r \in Repos
      PROVE  /\ Trunk(r)' = Trunk(r) /\ branch'[r][Base] = branch[r][Base]
             /\ line.child => branch'[r][StepBranch("int")] = branch[r][StepBranch("int")]
             /\ \A u \in Tracks : u # t => Role(r, u)' = Role(r, u)
  <2>1. /\ Base # TrackBranch(t) /\ TrackBranch(t) # TrackBranch("int")
        /\ \A u \in Tracks : u # t => TrackBranch(u) # TrackBranch(t)
        /\ line.child => StepBranch("int") # TrackBranch(t)
    BY DEF TrackBranch, StepBranch, Tracks, Base
  <2>2. Trunk(r)' = Trunk(r)
    BY <1>0, <1>5, <2>1, NamesThere DEF Trunk, TrackBranch
  <2>3. \A u \in Tracks : u # t => Role(r, u)' = Role(r, u)
    BY <1>0, <1>5, <2>1, NamesThere DEF Role, TrackBranch
  <2> QED
    BY <1>5, <2>1, <2>2, <2>3, NamesThere
<1>7. ASSUME NEW r \in Repos, NEW u \in Tracks
      PROVE  /\ TrackOK(Role(r, u), Trunk(r), u)'
             /\ track'[u] # "setup" => Role(r, u)' # NoCommit
             /\ Role(r, u)' = NoCommit =>
                   Trunk(r)' \in {NoCommit, Root} /\ clone'[r].head = Base /\ branch'[r][Base] = Root
             /\ Role(r, u).edits \cup (IF u = t THEN tree[r][t].dirty ELSE {}) \subseteq Role(r, u)'.edits
  <2>1. /\ TrackOK(Role(r, u), Trunk(r), u)
        /\ track[u] # "setup" => Role(r, u) # NoCommit
        /\ Role(r, u) = NoCommit =>
              Trunk(r) \in {NoCommit, Root} /\ clone[r].head = Base /\ branch[r][Base] = Root
        /\ Role(r, t) # NoCommit
    BY <1>0, <1>1 DEF TracksOK
  <2>2. CASE Role(r, u)' = Role(r, u) /\ (u = t => tree[r][t].dirty = {})
    <3>1. TrackOK(Role(r, u), Trunk(r), u)'
      BY <1>6, <2>1, <2>2 DEF TrackOK, Chain, IsAncestor
    <3>2. track'[u] # "setup" => Role(r, u)' # NoCommit
      BY <1>2, <2>1, <2>2
    <3> QED
      BY <1>0, <1>6, <2>1, <2>2, <3>1, <3>2
  <2>3. CASE u = t /\ Role(r, t)' = CommitOn(Role(r, t), t, tree[r][t].dirty)
    <3> DEFINE new == CommitOn(Role(r, t), t, tree[r][t].dirty)
    <3>1. TrackOK(new, Trunk(r), t) /\ new # NoCommit
      BY <2>1, <2>3, TrackCommits
    <3>2. new.edits = Role(r, t).edits \cup tree[r][t].dirty
      BY CommitShape
    <3> HIDE DEF new
    <3>3. Role(r, t)' = new
      BY <2>3 DEF new
    <3>4. TrackOK(Role(r, t), Trunk(r), t)'
      BY <1>6, <3>1, <3>3 DEF TrackOK, Chain, IsAncestor
    <3> QED
      BY <2>3, <3>1, <3>2, <3>3, <3>4
  <2> QED
    BY <1>5, <1>6, <2>2, <2>3
<1>8. ASSUME NEW r \in Repos
      PROVE  shipped'[r] \subseteq Role(r, "be")'.edits \cup Role(r, "fe")'.edits
  <2>1. shipped'[r] = shipped[r] \cup tree[r][t].dirty
    BY DEF CommitTrack
  <2>2. shipped[r] \subseteq Role(r, "be").edits \cup Role(r, "fe").edits
    BY <1>0, <1>1 DEF TracksOK
  <2>3. Role(r, "be").edits \subseteq Role(r, "be")'.edits /\ Role(r, "fe").edits \subseteq Role(r, "fe")'.edits
    BY <1>7 DEF Tracks
  <2>4. tree[r][t].dirty \subseteq Role(r, t)'.edits
    BY <1>7
  <2>5. CASE t = "be"
    BY <2>1, <2>2, <2>3, <2>4, <2>5
  <2>6. CASE t = "fe"
    BY <2>1, <2>2, <2>3, <2>4, <2>6
  <2> QED
    BY <2>5, <2>6 DEF Tracks
<1>9. line'.child => work'.step \in {"implement", "merge"} /\ \A r \in Repos : branch[r][StepBranch("int")]' = NoCommit
  <2>1. \A r \in Repos : line.child => branch[r][StepBranch("int")]' = branch[r][StepBranch("int")]
    BY <1>0, <1>6 DEF StepBranch
  <2> QED
    BY <1>0, <1>1, <2>1 DEF TracksOK
<1>10. TracksOK'
  BY <1>7, <1>8, <1>9 DEF TracksOK
<1>11. WorkOK'
  BY <1>0, <1>1 DEF WorkOK
<1> QED
  BY <1>0, <1>3, <1>10, <1>11, NoMerge, NoPush

LEMMA TracksDoneKeeps == ASSUME GitTypeOK, GitRest, TracksDone PROVE GitRest'
<1> USE DEF GitRest
<1>0. UNCHANGED <<line, track, branch, clone, shipped>> /\ work.step = "implement" /\ \A t \in Tracks : track[t] = "done"
  BY DEF TracksDone
<1>1. line.parallel
  BY <1>0 DEF StepsOK, Tracks
<1>2. work'.step = "merge" /\ work'.phase = "start" /\ work'.todo = Repos
  BY Goes DEF TracksDone
<1>3. StepsOK'
  BY <1>0, <1>1, <1>2 DEF StepsOK
<1>4. TracksOK'
  BY <1>0, <1>2, SameTracks
<1>5. WorkOK'
  BY <1>0, <1>1, <1>2 DEF WorkOK
<1>6. MergeOK'
  BY <1>2 DEF MergeOK
<1> QED
  BY <1>2, <1>3, <1>4, <1>5, <1>6, NoPush

-----------------------------------------------------------------------------
\* The merge step

\* In the merge step both tracks have their branches, which are chains.
LEMMA Merging ==
    ASSUME GitRest, work.step = "merge"
    PROVE  /\ line.parallel /\ \A t \in Tracks : track[t] = "done"
           /\ \A r \in Repos : \A t \in Tracks :
                 Role(r, t) # NoCommit /\ Chain(Role(r, t), t) /\ TrackOK(Role(r, t), Trunk(r), t)
<1>1. line.parallel /\ \A t \in Tracks : track[t] = "done"
  BY DEF GitRest, StepsOK
<1>2. ASSUME NEW r \in Repos, NEW t \in Tracks
      PROVE  Role(r, t) # NoCommit /\ Chain(Role(r, t), t) /\ TrackOK(Role(r, t), Trunk(r), t)
  <2>1. TrackOK(Role(r, t), Trunk(r), t) /\ Role(r, t) # NoCommit
    BY <1>1, <1>2 DEF GitRest, TracksOK
  <2> QED
    BY <2>1 DEF TrackOK
<1> QED
  BY <1>1, <1>2

LEMMA MergeStartKeeps == ASSUME GitTypeOK, GitRest, ~line.easy, MergeStart PROVE GitRest'
<1> USE DEF GitRest
<1>0. UNCHANGED <<line, track, branch, clone, shipped>> /\ work.step = "merge" /\ work.phase = "start"
  BY DEF MergeStart
<1>1. work'.step = "merge" /\ work'.phase = "checkout" /\ work'.todo = work.todo
  BY DEF MergeStart, GitTypeOK
<1>2. work.todo = Repos
  BY <1>0 DEF MergeOK
<1>3. StepsOK'
  BY <1>0, <1>1, Merging DEF StepsOK
<1>4. TracksOK'
  BY <1>0, <1>1, SameTracks
<1>5. WorkOK'
  BY <1>0, <1>1, SameWork
<1>6. MergeOK'
  BY <1>1, <1>2 DEF MergeOK
<1> QED
  BY <1>1, <1>3, <1>4, <1>5, <1>6, NoPush

LEMMA CheckoutKeeps == ASSUME GitTypeOK, GitRest, CheckoutBranch PROVE GitRest'
<1> USE DEF GitRest
<1>0. UNCHANGED <<line, track, branch, shipped>> /\ work.step = "merge" /\ work.phase = "checkout"
  BY DEF CheckoutBranch
<1>1. PICK r \in work.todo :
         IF ~HasBranch(r, StepBranch("int")) THEN GiveUp /\ UNCHANGED clone
         ELSE /\ clone' = [clone EXCEPT ![r].head = StepBranch("int"), ![r].merging = FALSE]
              /\ work' = [work EXCEPT !.cur = r, !.phase = "be"]
  BY DEF CheckoutBranch
<1>2. r \in Repos /\ \A q \in Repos : \A t \in Tracks : Role(q, t) # NoCommit
  BY <1>0, Merging DEF GitTypeOK
<1>3. CASE ~HasBranch(r, StepBranch("int"))
  <2>1. GiveUp /\ UNCHANGED clone
    BY <1>1, <1>3
  <2>2. work'.step = "merge" /\ work'.phase = "error"
    BY <1>0, <2>1, GivesUp
  <2>3. StepsOK'
    BY <1>0, <2>2, Merging DEF StepsOK
  <2>4. TracksOK'
    BY <1>0, <2>1, <2>2, SameTracks
  <2>5. WorkOK'
    BY <1>0, <2>1, <2>2, SameWork
  <2>6. MergeOK'
    BY <2>2 DEF MergeOK
  <2> QED
    BY <2>2, <2>3, <2>4, <2>5, <2>6, NoPush
<1>4. CASE HasBranch(r, StepBranch("int"))
  <2>1. work'.step = "merge" /\ work'.phase = "be" /\ work'.cur = r /\ work'.todo = work.todo /\ work'.conflict = work.conflict
    BY <1>0, <1>1, <1>4 DEF GitTypeOK
  <2>2. /\ clone'[r].head = StepBranch("int") /\ clone'[r].merging = FALSE
        /\ \A q \in Repos : q # r => clone'[q] = clone[q]
    BY <1>1, <1>2, <1>4 DEF GitTypeOK
  <2>3. ~line.child
    BY <1>0, <1>2, <1>4, Merging DEF TracksOK, HasBranch
  <2>4. StepsOK'
    BY <1>0, <2>1, Merging DEF StepsOK
  <2>5. TracksOK'
    BY <1>0, <1>2, <2>1, SameTracks
  <2>6. WorkOK'
    BY <1>0, <2>1, Merging DEF WorkOK
  <2>7. ASSUME NEW q \in Repos \ work.todo, MergedIn(q)
        PROVE  MergedIn(q)'
    BY <1>0, <2>2, <2>7 DEF MergedIn, StepBranch
  <2>8. MergeOK'
    <3>1. work'.conflict \/ \A q \in Repos \ work'.todo : MergedIn(q)'
      BY <1>0, <2>1, <2>7 DEF MergeOK
    <3>2. clone'[r].head = StepBranch("int")'
      BY <2>2 DEF StepBranch
    <3> QED
      BY <1>0, <2>1, <2>2, <2>3, <3>1, <3>2 DEF MergeOK
  <2> QED
    BY <2>1, <2>4, <2>5, <2>6, <2>8, NoPush
<1> QED
  BY <1>3, <1>4

\* The trunk after a step of the merge: the other repositories and the tracks are as before.
LEMMA TrunkMoves ==
    ASSUME GitTypeOK, UNCHANGED <<line, track, shipped>>, ~line.child, NEW r \in Repos, NEW c,
           branch' = [branch EXCEPT ![r][StepBranch("int")] = c]
    PROVE  /\ \A q \in Repos : \A t \in Tracks :
                Role(q, t)' = Role(q, t) /\ branch[q][StepBranch(t)]' = branch[q][StepBranch(t)]
           /\ \A q \in Repos : branch'[q][Base] = branch[q][Base]
           /\ Trunk(r)' = c /\ branch[r][StepBranch("int")]' = c
           /\ \A q \in Repos : q # r =>
                Trunk(q)' = Trunk(q) /\ branch[q][StepBranch("int")]' = branch[q][StepBranch("int")]
           /\ \A q \in Repos : \A n \in Names : q # r \/ n # StepBranch("int") => branch'[q][n] = branch[q][n]
<1>1. /\ branch'[r][StepBranch("int")] = c
      /\ \A q \in Repos : \A m \in Names : q # r \/ m # StepBranch("int") => branch'[q][m] = branch[q][m]
  <2> DEFINE n == StepBranch("int")
  <2>1. n \in Names
    BY NamesThere
  <2> HIDE DEF n
  <2>2. branch'[r][n] = c /\ \A q \in Repos : \A m \in Names : q # r \/ m # n => branch'[q][m] = branch[q][m]
    BY <2>1 DEF GitTypeOK, n
  <2> QED
    BY <2>2 DEF n
<1>2. /\ \A n : TrackBranch(n) = StepBranch(n)
      /\ Base # StepBranch("int") /\ \A t \in Tracks : StepBranch(t) # StepBranch("int")
  BY DEF TrackBranch, StepBranch, Tracks, Base
<1>3. \A n : TrackBranch(n)' = TrackBranch(n) /\ StepBranch(n)' = StepBranch(n)
  BY DEF TrackBranch, StepBranch
<1>4. ASSUME NEW q \in Repos, NEW t \in Tracks
      PROVE  Role(q, t)' = Role(q, t) /\ branch[q][StepBranch(t)]' = branch[q][StepBranch(t)]
  BY <1>1, <1>2, <1>3, NamesThere DEF Role
<1>5. \A q \in Repos : branch'[q][Base] = branch[q][Base]
  BY <1>1, <1>2, NamesThere
<1>6. Trunk(r)' = c /\ branch[r][StepBranch("int")]' = c
  BY <1>1, <1>2, <1>3 DEF Trunk
<1>7. \A q \in Repos : q # r => Trunk(q)' = Trunk(q) /\ branch[q][StepBranch("int")]' = branch[q][StepBranch("int")]
  BY <1>1, <1>2, <1>3, NamesThere DEF Trunk
<1> QED
  BY <1>1, <1>4, <1>5, <1>6, <1>7

\* The tracks stay in order when a trunk moves to a commit that is in order with both.
LEMMA TrunkKeepsTracks ==
    ASSUME GitTypeOK, GitRest, work.step = "merge", UNCHANGED <<line, track, shipped>>, ~line.child,
           NEW r \in Repos, NEW c, branch' = [branch EXCEPT ![r][StepBranch("int")] = c],
           \A t \in Tracks : TrackOK(Role(r, t), c, t)
    PROVE  TracksOK'
<1>0. line.parallel /\ \A t \in Tracks : track[t] = "done"
  BY Merging
<1>1. ASSUME NEW q \in Repos, NEW t \in Tracks
      PROVE  TrackOK(Role(q, t), Trunk(q), t)' /\ Role(q, t)' # NoCommit
  <2>1. Role(q, t)' = Role(q, t) /\ Role(q, t) # NoCommit
    BY TrunkMoves, Merging
  <2>2. TrackOK(Role(q, t), Trunk(q)', t)
    <3>1. CASE q = r
      <4>1. Trunk(r)' = c
        BY TrunkMoves
      <4>2. TrackOK(Role(r, t), c, t)
        OBVIOUS
      <4> QED
        BY <3>1, <4>1, <4>2
    <3>2. CASE q # r
      <4>1. Trunk(q)' = Trunk(q)
        BY <3>2, TrunkMoves
      <4>2. TrackOK(Role(q, t), Trunk(q), t)
        BY Merging
      <4> QED
        BY <4>1, <4>2
    <3> QED
      BY <3>1, <3>2
  <2> QED
    BY <2>1, <2>2 DEF TrackOK, Chain, IsAncestor
<1>2. \A q \in Repos : shipped'[q] \subseteq Role(q, "be")'.edits \cup Role(q, "fe")'.edits
  <2>1. \A q \in Repos : \A t \in Tracks : Role(q, t)' = Role(q, t)
    BY TrunkMoves
  <2>2. "be" \in Tracks /\ "fe" \in Tracks
    BY DEF Tracks
  <2>3. \A q \in Repos : shipped[q] \subseteq Role(q, "be").edits \cup Role(q, "fe").edits
    BY <1>0 DEF GitRest, TracksOK
  <2> QED
    BY <2>1, <2>2, <2>3
<1>3. line'.child = FALSE
  BY DEF GitTypeOK
<1> QED
  BY <1>1, <1>2, <1>3 DEF TracksOK

\* What a finished repository has stays merged in while another one is worked on.
LEMMA StaysMerged ==
    ASSUME GitTypeOK, UNCHANGED <<line, track, shipped>>, ~line.child, NEW r \in Repos,
           UNCHANGED branch \/ \E c : branch' = [branch EXCEPT ![r][StepBranch("int")] = c],
           NEW q \in Repos, q # r, clone'[q] = clone[q], MergedIn(q)
    PROVE  MergedIn(q)'
<1>1. CASE UNCHANGED branch
  BY <1>1 DEF MergedIn, StepBranch
<1>2. CASE \E c : branch' = [branch EXCEPT ![r][StepBranch("int")] = c]
  <2>1. PICK c : branch' = [branch EXCEPT ![r][StepBranch("int")] = c]
    BY <1>2
  <2>2. /\ \A t \in Tracks : branch[q][StepBranch(t)]' = branch[q][StepBranch(t)]
        /\ branch[q][StepBranch("int")]' = branch[q][StepBranch("int")]
    BY <2>1, TrunkMoves
  <2>3. clone[q].head = StepBranch("int")' /\ \A t \in Tracks : StepBranch(t)' = StepBranch(t)
    BY DEF MergedIn, StepBranch
  <2> QED
    BY <2>2, <2>3 DEF MergedIn
<1> QED
  BY <1>1, <1>2

\* The end of a repository's merge.
LEMMA NextRepoKeeps ==
    ASSUME GitTypeOK, GitRest, work.step = "merge", ~line.child, UNCHANGED <<line, track, shipped>>, TracksOK',
           work.phase \in {"be", "fe", "commit"}, NEW conflict \in BOOLEAN, NextRepo(conflict),
           NEW r, r = work.cur,
           UNCHANGED branch \/ \E c : branch' = [branch EXCEPT ![r][StepBranch("int")] = c],
           \A q \in Repos : q # r => clone'[q] = clone[q],
           conflict \/ MergedIn(r)'
    PROVE  GitRest'
<1> USE DEF GitRest
<1>1. r \in work.todo /\ r \in Repos /\ line.parallel /\ \A t \in Tracks : track[t] = "done"
  BY Merging DEF MergeOK, GitTypeOK
<1>2. work.conflict \/ \A q \in Repos \ work.todo : MergedIn(q)
  BY DEF MergeOK
<1>3. \A q \in Repos \ work.todo : MergedIn(q) => MergedIn(q)'
  BY <1>1, StaysMerged
<1>4. line.status \in {"coding", "fixing"}
  BY NotPRReady
<1>5. CASE work.todo # {r}
  <2> DEFINE c == work.conflict \/ conflict
  <2>1. work' = [work EXCEPT !.todo = @ \ {r}, !.cur = NoRepo, !.phase = "checkout", !.conflict = c]
    BY <1>5 DEF NextRepo
  <2>2. c \in BOOLEAN
    OBVIOUS
  <2>3. work'.step = "merge" /\ work'.phase = "checkout" /\ work'.todo = work.todo \ {r} /\ work'.conflict = c
    <3> HIDE DEF c
    <3> QED
      BY <2>1, <2>2 DEF GitTypeOK
  <2>4. work'.conflict \/ \A q \in Repos \ work'.todo : MergedIn(q)'
    BY <1>2, <1>3, <2>3
  <2>5. MergeOK'
    BY <2>3, <2>4 DEF MergeOK
  <2>6. StepsOK'
    BY <1>1, <1>4, <2>3 DEF StepsOK
  <2>7. WorkOK'
    BY <1>1, <2>3 DEF WorkOK
  <2> QED
    BY <2>3, <2>5, <2>6, <2>7, NoPush
<1>6. CASE work.todo = {r} /\ (work.conflict \/ conflict)
  <2>1. work'.step = "merge" /\ work'.phase = "error"
    BY <1>6, GivesUp DEF NextRepo
  <2>2. MergeOK'
    BY <2>1 DEF MergeOK
  <2>3. StepsOK'
    BY <1>1, <1>4, <2>1 DEF StepsOK
  <2>4. WorkOK'
    BY <1>1, <2>1 DEF WorkOK
  <2> QED
    BY <2>1, <2>2, <2>3, <2>4, NoPush
<1>7. CASE work.todo = {r} /\ ~(work.conflict \/ conflict)
  <2>1. work'.step = "review" /\ work'.phase = "start"
    BY <1>7, Goes DEF NextRepo
  <2>2. StepsOK'
    BY <1>1, <1>4, <2>1 DEF StepsOK
  <2>3. \A q \in Repos : MergedIn(q)'
    BY <1>2, <1>3, <1>7
  <2>4. ASSUME NEW q \in Repos
        PROVE  shipped'[q] \subseteq HeadCommit(q)'.edits \cup clone'[q].staged
    <3>1. shipped'[q] \subseteq Role(q, "be")'.edits \cup Role(q, "fe")'.edits
      BY <1>1, <2>1 DEF TracksOK
    <3>2. \A t \in Tracks : Role(q, t)' = branch[q][StepBranch(t)]'
      BY DEF Role, TrackBranch, StepBranch
    <3>3. HeadCommit(q)' = branch[q][StepBranch("int")]'
      BY <2>3 DEF MergedIn, HeadCommit
    <3>4. \A t \in Tracks : Role(q, t)'.edits \subseteq HeadCommit(q)'.edits
      BY <2>3, <3>2, <3>3 DEF MergedIn
    <3> QED
      BY <3>1, <3>4 DEF Tracks
  <2>5. WorkOK'
    BY <2>4 DEF WorkOK
  <2> QED
    BY <2>1, <2>2, <2>5, NoMerge, NoPush
<1> QED
  BY <1>5, <1>6, <1>7

LEMMA MergeBranchKeeps == ASSUME GitTypeOK, GitRest, NEW t \in Tracks, MergeBranch(t) PROVE GitRest'
<1> USE DEF GitRest
<1>0. UNCHANGED <<line, track, shipped>> /\ work.step = "merge" /\ work.phase = t
  BY DEF MergeBranch
<1>1. PICK r : r = work.cur
  OBVIOUS
<1>2. t \in {"be", "fe"} /\ work.phase \in {"be", "fe", "commit"} /\ t # "commit"
  BY <1>0 DEF Tracks
<1>3. r \in work.todo /\ r \in Repos /\ clone[r].head = StepBranch("int") /\ ~line.child
  BY <1>0, <1>1, <1>2 DEF MergeOK, GitTypeOK
<1>4. line.parallel /\ \A u \in Tracks : track[u] = "done"
  BY <1>0, Merging
<1> DEFINE has(u) == branch[r][StepBranch(u)].edits \subseteq branch[r][StepBranch("int")].edits
           ours == branch[r][StepBranch("int")]
           theirs == branch[r][StepBranch(t)]
<1>5. ours = Trunk(r) /\ \A u \in Tracks : branch[r][StepBranch(u)] = Role(r, u)
  BY <1>3 DEF Trunk, Role, TrackBranch, StepBranch
<1>6. \A u \in Tracks : Role(r, u) # NoCommit /\ Chain(Role(r, u), u) /\ TrackOK(Role(r, u), Trunk(r), u)
  BY <1>0, <1>3, Merging
<1>7. /\ t = "be" => ~clone[r].merging
      /\ t = "fe" => has("be") \/ clone[r].merging
  BY <1>0, <1>1, <1>2 DEF MergeOK
<1>8. work.conflict \/ \A q \in Repos \ work.todo : MergedIn(q)
  BY <1>0, <1>2 DEF MergeOK
<1>9. line.status \in {"coding", "fixing"}
  BY <1>0, NotPRReady
\* The step goes on: nothing to do, a fast forward or a merge.
<1>10. ASSUME AfterMerge(t), TracksOK',
              UNCHANGED branch \/ \E c : branch' = [branch EXCEPT ![r][StepBranch("int")] = c],
              \A q \in Repos : q # r => clone'[q] = clone[q],
              clone'[r].head = StepBranch("int"),
              t = "be" => has("be")' \/ clone'[r].merging,
              t = "fe" => /\ has("be")'
                          /\ \/ has("fe")'
                             \/ /\ clone'[r].merging
                                /\ branch[r][StepBranch("fe")]'.edits \subseteq
                                     branch[r][StepBranch("int")]'.edits \cup clone'[r].staged
       PROVE  GitRest'
  <2>1. /\ work'.step = "merge" /\ work'.phase = IF t = "be" THEN "fe" ELSE "commit"
        /\ work'.todo = work.todo /\ work'.cur = r /\ work'.conflict = work.conflict
    BY <1>0, <1>1, <1>10 DEF AfterMerge, GitTypeOK
  <2>2. \A q \in Repos \ work.todo : MergedIn(q) => MergedIn(q)'
    BY <1>0, <1>3, <1>10, StaysMerged
  <2>3. work'.conflict \/ \A q \in Repos \ work'.todo : MergedIn(q)'
    BY <1>8, <2>1, <2>2
  <2>4. clone'[r].head = StepBranch("int")' /\ ~line'.child
    BY <1>0, <1>3, <1>10 DEF StepBranch
  <2>5. MergeOK'
    BY <1>2, <1>3, <1>10, <2>1, <2>3, <2>4 DEF MergeOK
  <2>6. StepsOK'
    BY <1>0, <1>4, <1>9, <2>1 DEF StepsOK
  <2>7. WorkOK'
    BY <1>0, <1>4, <2>1 DEF WorkOK
  <2> QED
    BY <1>10, <2>1, <2>5, <2>6, <2>7, NoPush
<1>11. ASSUME UNCHANGED <<branch>>, \A q \in Repos : clone'[q].head = clone[q].head,
              work'.step = "merge"
       PROVE  TracksOK'
  BY <1>0, <1>11, SameTracks
<1>12. CASE IsAncestor(theirs, ours) /\ ~clone[r].merging
  <2>1. AfterMerge(t) /\ UNCHANGED <<branch, clone>>
    BY <1>1, <1>12 DEF MergeBranch
  <2>2. work'.step = "merge"
    BY <1>0, <2>1 DEF AfterMerge, GitTypeOK
  <2>3. TracksOK'
    BY <1>11, <2>1, <2>2
  <2>4. has(t)
    BY <1>5, <1>6, <1>12 DEF TrackOK
  <2>5. \A u : has(u)' = has(u)
    BY <2>1 DEF StepBranch
  <2>6. /\ t = "be" => has("be")'
        /\ t = "fe" => has("be")' /\ has("fe")'
    BY <1>7, <1>12, <2>4, <2>5
  <2> HIDE DEF has
  <2> QED
    BY <1>3, <1>10, <2>1, <2>3, <2>6
<1>13. CASE ~(IsAncestor(theirs, ours) /\ ~clone[r].merging) /\ Unfinished(r)
  <2>1. HasBranch(r, StepBranch(t))
    BY <1>5, <1>6 DEF HasBranch
  <2>2. GiveUp /\ UNCHANGED <<branch, clone>>
    BY <1>1, <1>13, <2>1 DEF MergeBranch
  <2>3. work'.step = "merge" /\ work'.phase = "error"
    BY <1>0, <2>2, GivesUp
  <2>4. TracksOK'
    BY <1>11, <2>2, <2>3
  <2>5. MergeOK'
    BY <2>3 DEF MergeOK
  <2>6. StepsOK'
    BY <1>0, <1>4, <1>9, <2>3 DEF StepsOK
  <2>7. WorkOK'
    BY <1>0, <1>4, <2>3 DEF WorkOK
  <2> QED
    BY <2>3, <2>4, <2>5, <2>6, <2>7, NoPush
<1>14. CASE ~IsAncestor(theirs, ours) /\ ~Unfinished(r) /\ IsAncestor(ours, theirs)
  <2>1. HasBranch(r, StepBranch(t))
    BY <1>5, <1>6 DEF HasBranch
  <2>2. branch' = [branch EXCEPT ![r][StepBranch("int")] = theirs] /\ AfterMerge(t) /\ UNCHANGED clone
    BY <1>1, <1>14, <2>1 DEF MergeBranch
  <2>3. \A u \in Tracks : TrackOK(Role(r, u), theirs, u)
    BY <1>5, <1>6, TrackFastForward
  <2>4. TracksOK'
    BY <1>0, <1>3, <2>2, <2>3, TrunkKeepsTracks
  <2>5. ours.edits \subseteq theirs.edits
    BY <1>5, <1>6, <1>14 DEF TrackOK
  <2>6. /\ \A u \in Tracks : branch[r][StepBranch(u)]' = branch[r][StepBranch(u)]
        /\ branch[r][StepBranch("int")]' = theirs
    <3> HIDE DEF theirs
    <3>1. \A q \in Repos : \A u \in Tracks : Role(q, u)' = Role(q, u) /\ branch[q][StepBranch(u)]' = branch[q][StepBranch(u)]
      BY <1>0, <1>3, <2>2, TrunkMoves
    <3>2. branch[r][StepBranch("int")]' = theirs
      BY <1>0, <1>3, <2>2, TrunkMoves
    <3> QED
      BY <1>3, <3>1, <3>2
  <2>7. has(t)' /\ \A u \in Tracks : has(u) => has(u)'
    BY <2>5, <2>6
  <2>8. ~clone[r].merging
    BY <1>14 DEF Unfinished
  <2>9. /\ t = "be" => has("be")'
        /\ t = "fe" => has("be")' /\ has("fe")'
    BY <1>7, <2>7, <2>8 DEF Tracks
  <2> HIDE DEF has, theirs
  <2> QED
    BY <1>3, <1>10, <2>2, <2>4, <2>9
<1>15. CASE ~IsAncestor(theirs, ours) /\ ~Unfinished(r) /\ ~IsAncestor(ours, theirs)
  <2>1. HasBranch(r, StepBranch(t))
    BY <1>5, <1>6 DEF HasBranch
  <2>2. \/ /\ clone' = [clone EXCEPT ![r].merging = TRUE, ![r].staged = theirs.edits \ ours.edits]
           /\ AfterMerge(t) /\ UNCHANGED branch
        \/ NextRepo(TRUE) /\ UNCHANGED <<branch, clone>>
    BY <1>1, <1>15, <2>1 DEF MergeBranch
  <2>3. CASE /\ clone' = [clone EXCEPT ![r].merging = TRUE, ![r].staged = theirs.edits \ ours.edits]
             /\ AfterMerge(t) /\ UNCHANGED branch
    <3> DEFINE more == theirs.edits \ ours.edits
    <3>1. /\ \A q \in Repos : q # r => clone'[q] = clone[q]
          /\ clone'[r].head = clone[r].head /\ clone'[r].merging = TRUE /\ clone'[r].staged = more
      <4> HIDE DEF more
      <4>1. clone' = [clone EXCEPT ![r].merging = TRUE, ![r].staged = more]
        BY <2>3 DEF more
      <4> QED
        BY <1>3, <4>1 DEF GitTypeOK
    <3>2. work'.step = "merge"
      BY <1>0, <2>3 DEF AfterMerge, GitTypeOK
    <3>3. TracksOK'
      BY <1>11, <2>3, <3>1, <3>2
    <3>4. branch[r][StepBranch("int")]' = ours /\ branch[r][StepBranch(t)]' = theirs
      BY <2>3 DEF StepBranch
    <3>5. t = "fe" => branch[r][StepBranch("fe")]'.edits \subseteq branch[r][StepBranch("int")]'.edits \cup clone'[r].staged
      BY <3>1, <3>4
    <3>6. ~clone[r].merging
      BY <1>15 DEF Unfinished
    <3>7. t = "fe" => has("be")'
      <4>1. t = "fe" => has("be")
        BY <1>7, <3>6
      <4>2. has("be")' = has("be")
        BY <2>3 DEF StepBranch
      <4> QED
        BY <4>1, <4>2
    <3> HIDE DEF has
    <3> QED
      BY <1>3, <1>10, <2>3, <3>1, <3>3, <3>5, <3>7
  <2>4. CASE NextRepo(TRUE) /\ UNCHANGED <<branch, clone>>
    <3>1. work'.step \in {"merge", "review"}
      BY <1>0, <2>4, NextRepoFields
    <3>2. TracksOK'
      BY <1>0, <1>3, <2>4, <3>1, SameTracks
    <3> QED
      BY <1>0, <1>1, <1>2, <1>3, <2>4, <3>2, NextRepoKeeps
  <2> QED
    BY <2>2, <2>3, <2>4
<1> QED
  BY <1>12, <1>13, <1>14, <1>15 DEF Unfinished

LEMMA CommitMergeKeeps == ASSUME GitTypeOK, GitRest, CommitMerge PROVE GitRest'
<1> USE DEF GitRest
<1>0. UNCHANGED <<line, track, shipped>> /\ work.step = "merge" /\ work.phase = "commit" /\ NextRepo(FALSE)
  BY DEF CommitMerge
<1>1. PICK r : r = work.cur
  OBVIOUS
<1> DEFINE has(u) == branch[r][StepBranch(u)].edits \subseteq branch[r][StepBranch("int")].edits
           ours == branch[r][StepBranch("int")]
<1>2. /\ r \in work.todo /\ r \in Repos /\ clone[r].head = StepBranch("int") /\ ~line.child /\ has("be")
      /\ has("fe") \/ branch[r][StepBranch("fe")].edits \subseteq ours.edits \cup clone[r].staged
  BY <1>0, <1>1 DEF MergeOK, GitTypeOK
<1>3. line.parallel
  BY <1>0, Merging
<1>4. ours = Trunk(r) /\ \A u \in Tracks : branch[r][StepBranch(u)] = Role(r, u)
  BY <1>2 DEF Trunk, Role, TrackBranch, StepBranch
<1>5. \A u \in Tracks : Role(r, u) # NoCommit /\ Chain(Role(r, u), u) /\ TrackOK(Role(r, u), Trunk(r), u)
  BY <1>0, <1>2, Merging
<1>6. work'.step \in {"merge", "review"}
  BY <1>0, NextRepoFields
<1>7. \A u \in Tracks : StepBranch(u)' = StepBranch(u) /\ StepBranch("int")' = StepBranch("int")
  BY DEF StepBranch
<1>8. CASE Changed(clone[r])
  <2> DEFINE with == IF clone[r].merging THEN branch[r][StepBranch("fe")] ELSE NoCommit
             new == CommitOn([ours EXCEPT !.anc = @ \cup with.anc], "int", clone[r].staged)
  <2>1. branch' = [branch EXCEPT ![r][StepBranch("int")] = new]
    BY <1>1, <1>8 DEF CommitMerge
  <2>2. clone' = [clone EXCEPT ![r].staged = {}, ![r].merging = FALSE]
    BY <1>1, <1>8 DEF CommitMerge
  <2>3. clone'[r].head = clone[r].head /\ \A q \in Repos : q # r => clone'[q] = clone[q]
    BY <1>2, <2>2 DEF GitTypeOK
  <2>4. ASSUME NEW u \in Tracks
        PROVE  TrackOK(Role(r, u), new, u) /\ Role(r, u).edits \subseteq new.edits
    <3>1. Role(r, u).edits \subseteq ours.edits \cup clone[r].staged
      BY <1>2, <1>4 DEF Tracks
    <3>2. \A i \in with.anc : i[1] = u => i \in Role(r, u).anc
      <4>1. CASE ~clone[r].merging
        BY <4>1 DEF NoCommit
      <4>2. CASE clone[r].merging
        <5>1. with = Role(r, "fe") /\ "fe" \in Tracks
          BY <1>4, <4>2 DEF Tracks
        <5>2. \A i \in with.anc : i[1] = "fe" \/ i \in Root.anc
          BY <1>5, <5>1, ChainIds
        <5>3. \A i \in Root.anc : i[1] # u
          BY DEF Root, Tracks
        <5> QED
          BY <5>1, <5>2, <5>3
      <4> QED
        BY <4>1, <4>2
    <3>3. DOMAIN ours = {"anc", "edits"}
      BY <1>2, NamesThere DEF GitTypeOK
    <3> HIDE DEF with, ours
    <3>4. TrackOK(Role(r, u), ours, u)
      BY <1>4, <1>5
    <3> QED
      BY <1>5, <3>1, <3>2, <3>3, <3>4, TrackMerged
  <2> HIDE DEF new
  <2>5. TracksOK'
    BY <1>0, <1>2, <2>1, <2>4, TrunkKeepsTracks
  <2>6. branch[r][StepBranch("int")]' = new /\ \A u \in Tracks : branch[r][StepBranch(u)]' = branch[r][StepBranch(u)]
    <3>1. \A q \in Repos : \A u \in Tracks : Role(q, u)' = Role(q, u) /\ branch[q][StepBranch(u)]' = branch[q][StepBranch(u)]
      BY <1>0, <1>2, <2>1, TrunkMoves
    <3>2. branch[r][StepBranch("int")]' = new
      BY <1>0, <1>2, <2>1, TrunkMoves
    <3> QED
      BY <1>2, <3>1, <3>2
  <2>7. MergedIn(r)'
    BY <1>2, <1>4, <1>7, <2>3, <2>4, <2>6 DEF MergedIn
  <2> QED
    BY <1>0, <1>1, <1>2, <2>1, <2>3, <2>5, <2>7, NextRepoKeeps
<1>9. CASE ~Changed(clone[r])
  <2>1. UNCHANGED <<branch, clone>>
    BY <1>1, <1>9 DEF CommitMerge
  <2>2. TracksOK'
    BY <1>0, <1>2, <1>6, <2>1, SameTracks
  <2>3. has("be") /\ has("fe")
    BY <1>2, <1>9 DEF Changed
  <2>4. MergedIn(r)'
    BY <1>2, <1>7, <2>1, <2>3 DEF MergedIn, Tracks, StepBranch
  <2> QED
    BY <1>0, <1>1, <1>2, <2>1, <2>2, <2>4, NextRepoKeeps
<1> QED
  BY <1>8, <1>9

-----------------------------------------------------------------------------
\* The review and the pull-request step

LEMMA ReviewKeeps == ASSUME GitTypeOK, GitRest, Review PROVE GitRest'
<1> USE DEF GitRest
<1>0. UNCHANGED <<line, branch, clone, shipped>> /\ work.step = "review"
  BY DEF Review
<1>1. line.status \in {"coding", "fixing"}
  BY <1>0, NotPRReady
<1>2. CASE Goto("pr", "start") /\ UNCHANGED track
  <2>1. work'.step = "pr" /\ work'.phase = "start" /\ work'.todo = Repos
    BY <1>2, Goes
  <2>2. StepsOK'
    BY <1>0, <1>1, <1>2, <2>1 DEF StepsOK
  <2>3. TracksOK'
    BY <2>1 DEF TracksOK
  <2>4. WorkOK'
    BY <1>0, SameWork
  <2>5. PushedOK'
    BY <2>1 DEF PushedOK
  <2> QED
    BY <2>1, <2>2, <2>3, <2>4, <2>5, NoMerge
<1>3. CASE /\ work' = [work EXCEPT !.step = "implement", !.phase = "run", !.round = @ + 1]
           /\ track' = [t \in Tracks |-> "setup"]
  <2>1. work'.step = "implement" /\ work'.phase = "run"
    BY <1>3 DEF GitTypeOK
  <2>2. StepsOK'
    BY <1>0, <1>1, <1>3, <2>1 DEF StepsOK
  <2>3. TracksOK'
    BY <1>0, <1>3, <2>1, SameTracks
  <2>4. WorkOK'
    BY <1>0, SameWork
  <2> QED
    BY <2>1, <2>2, <2>3, <2>4, NoMerge, NoPush
<1> QED
  BY <1>2, <1>3 DEF Review

LEMMA PRStartKeeps == ASSUME GitTypeOK, GitRest, PRStart PROVE GitRest'
<1> USE DEF GitRest
<1>0. UNCHANGED <<line, track, branch, clone, shipped, origin>> /\ work.step = "pr" /\ work.phase = "start"
  BY DEF PRStart
<1>1. line.status \in {"coding", "fixing"}
  BY <1>0, NotPRReady
<1>2. work' = [work EXCEPT !.phase = "repos"]
  BY <1>1 DEF PRStart
<1>3. work'.step = "pr" /\ work'.phase = "repos" /\ work'.todo = Repos
  BY <1>0, <1>2 DEF GitTypeOK, PushedOK
<1>4. StepsOK'
  BY <1>0, <1>1, <1>3 DEF StepsOK
<1>5. TracksOK'
  BY <1>3 DEF TracksOK
<1>6. WorkOK'
  BY <1>0, SameWork
<1>7. PushedOK'
  BY <1>3 DEF PushedOK
<1> QED
  BY <1>3, <1>4, <1>5, <1>6, <1>7, NoMerge

\* The squash keeps what was implemented: the head's edits are staged on top of the base.
LEMMA PrepareKeeps == ASSUME GitTypeOK, GitRest, ~line.easy, PrepareBranch PROVE GitRest'
<1> USE DEF GitRest
<1>0. UNCHANGED <<line, track, origin, shipped>> /\ work.step = "pr" /\ work.phase = "repos"
  BY DEF PrepareBranch
<1>1. line.status \in {"coding", "fixing"}
  BY <1>0, NotPRReady
<1>2. /\ \A r \in Repos : shipped[r] \subseteq HeadCommit(r).edits \cup clone[r].staged
      /\ \A r \in Repos \ (work.todo \cup unread) : shipped[r] \subseteq origin[r].task
  BY <1>0 DEF WorkOK, PushedOK
<1>3. PICK r \in work.todo :
         \/ /\ work' = [work EXCEPT !.todo = @ \ {r}]
            /\ unread' = unread \cup {r}
            /\ UNCHANGED <<branch, clone>>
         \/ /\ clone' = [clone EXCEPT ![r] =
                           [head |-> StepBranch("int"), merging |-> FALSE,
                            staged |-> (@.staged \cup HeadCommit(r).edits \cup {SpecEdit}) \ ResetSoft(r).edits]]
            /\ branch' = [branch EXCEPT ![r][StepBranch("int")] = ResetSoft(r)]
            /\ work' = [work EXCEPT !.cur = r, !.changed = Changed(clone[r]), !.phase = "push"]
            /\ UNCHANGED unread
  BY DEF PrepareBranch
<1>4. r \in Repos
  BY DEF GitTypeOK
<1>5. CASE /\ work' = [work EXCEPT !.todo = @ \ {r}]
           /\ unread' = unread \cup {r}
           /\ UNCHANGED <<branch, clone>>
  <2>1. work'.step = "pr" /\ work'.phase = "repos" /\ work'.todo = work.todo \ {r}
    BY <1>0, <1>5 DEF GitTypeOK
  <2>2. StepsOK'
    BY <1>0, <1>1, <2>1 DEF StepsOK
  <2>3. TracksOK'
    BY <2>1 DEF TracksOK
  <2>4. WorkOK'
    BY <1>0, <1>5, SameWork
  <2>5. \A q \in Repos \ (work'.todo \cup unread') : shipped'[q] \subseteq origin'[q].task
    BY <1>0, <1>2, <1>5, <2>1
  <2>6. PushedOK'
    BY <2>1, <2>5 DEF PushedOK
  <2> QED
    BY <2>1, <2>2, <2>3, <2>4, <2>6, NoMerge
<1>6. CASE /\ clone' = [clone EXCEPT ![r] =
                           [head |-> StepBranch("int"), merging |-> FALSE,
                            staged |-> (@.staged \cup HeadCommit(r).edits \cup {SpecEdit}) \ ResetSoft(r).edits]]
           /\ branch' = [branch EXCEPT ![r][StepBranch("int")] = ResetSoft(r)]
           /\ work' = [work EXCEPT !.cur = r, !.changed = Changed(clone[r]), !.phase = "push"]
           /\ UNCHANGED unread
  <2>1. work'.step = "pr" /\ work'.phase = "push" /\ work'.todo = work.todo /\ work'.cur = r
    BY <1>0, <1>6 DEF GitTypeOK
  <2>2. StepsOK'
    BY <1>0, <1>1, <2>1 DEF StepsOK
  <2>3. TracksOK'
    BY <2>1 DEF TracksOK
  <2> DEFINE onto == ResetSoft(r)
             more == (clone[r].staged \cup HeadCommit(r).edits \cup {SpecEdit}) \ onto.edits
  <2>4. /\ clone'[r].head = StepBranch("int") /\ clone'[r].staged = more
        /\ \A q \in Repos : q # r => clone'[q] = clone[q]
    BY <1>4, <1>6 DEF GitTypeOK
  <2>5. /\ branch'[r][StepBranch("int")] = onto
        /\ \A q \in Repos : q # r => branch'[q] = branch[q]
    BY <1>4, <1>6, NamesThere DEF GitTypeOK
  <2>6. ASSUME NEW q \in Repos
        PROVE  shipped'[q] \subseteq HeadCommit(q)'.edits \cup clone'[q].staged
    <3>1. CASE q = r
      <4>1. HeadCommit(r)' = onto
        BY <2>4, <2>5 DEF HeadCommit
      <4>2. shipped[r] \subseteq onto.edits \cup more
        BY <1>2, <1>4
      <4> HIDE DEF onto, more
      <4> QED
        BY <1>0, <2>4, <3>1, <4>1, <4>2
    <3>2. CASE q # r
      BY <1>0, <1>2, <2>4, <2>5, <3>2 DEF HeadCommit
    <3> QED
      BY <3>1, <3>2
  <2>7. WorkOK'
    BY <2>6 DEF WorkOK
  <2>8. \A q \in Repos \ (work'.todo \cup unread') : shipped'[q] \subseteq origin'[q].task
    BY <1>0, <1>2, <1>6, <2>1
  <2>9. clone'[r].head = StepBranch("int")'
    BY <2>4 DEF StepBranch
  <2>10. PushedOK'
    BY <2>1, <2>8, <2>9 DEF PushedOK
  <2> QED
    BY <2>1, <2>2, <2>3, <2>7, <2>10, NoMerge
<1> QED
  BY <1>3, <1>5, <1>6

LEMMA PushKeeps == ASSUME GitTypeOK, GitRest, CommitAndPush PROVE GitRest'
<1> USE DEF GitRest
<1>0. UNCHANGED <<line, track, shipped, unread>> /\ work.step = "pr" /\ work.phase = "push"
  BY DEF CommitAndPush
<1>1. PICK r : r = work.cur
  OBVIOUS
<1>2. r \in work.todo /\ r \in Repos /\ clone[r].head = StepBranch("int")
  BY <1>0, <1>1 DEF PushedOK, GitTypeOK
<1>3. /\ \A q \in Repos : shipped[q] \subseteq HeadCommit(q).edits \cup clone[q].staged
      /\ \A q \in Repos \ (work.todo \cup unread) : shipped[q] \subseteq origin[q].task
  BY <1>0 DEF WorkOK, PushedOK
<1>4. line.status \in {"coding", "fixing"}
  BY <1>0, NotPRReady
<1>5. work'.step = "pr" /\ work'.phase = "create" /\ work'.todo = work.todo /\ work'.cur = r
  BY <1>0, <1>1 DEF CommitAndPush, GitTypeOK
<1>6. StepsOK'
  BY <1>0, <1>4, <1>5 DEF StepsOK
<1>7. TracksOK'
  BY <1>5 DEF TracksOK
<1> DEFINE int == StepBranch("int")
           new == CommitOn(branch[r][int], "pr", clone[r].staged)
<1>8. /\ branch'[r][int].edits = HeadCommit(r).edits \cup clone[r].staged
      /\ \A q \in Repos : q # r => branch'[q] = branch[q]
  <2>1. CASE Changed(clone[r])
    <3>1. branch' = [branch EXCEPT ![r][int] = new]
      BY <1>1, <2>1 DEF CommitAndPush
    <3>2. new.edits = branch[r][int].edits \cup clone[r].staged
      BY CommitShape
    <3>3. int \in Names
      BY NamesThere
    <3> HIDE DEF new, int
    <3>4. branch'[r][int] = new /\ \A q \in Repos : q # r => branch'[q] = branch[q]
      BY <1>2, <3>1, <3>3 DEF GitTypeOK
    <3> QED
      BY <1>2, <3>2, <3>4 DEF HeadCommit, int
  <2>2. CASE ~Changed(clone[r])
    BY <1>1, <1>2, <2>2 DEF CommitAndPush, Changed, HeadCommit
  <2> QED
    BY <2>1, <2>2
<1>9. /\ clone'[r].head = int /\ clone'[r].staged = {}
      /\ \A q \in Repos : q # r => clone'[q] = clone[q]
  <2>1. clone' = [clone EXCEPT ![r].staged = {}]
    BY <1>1 DEF CommitAndPush
  <2> QED
    BY <1>2, <2>1 DEF GitTypeOK
<1>10. /\ origin'[r].task = branch'[r][int].edits
       /\ \A q \in Repos : q # r => origin'[q] = origin[q]
  <2> DEFINE b == IF origin[r].empty THEN branch[r][Base].edits ELSE origin[r].base
             e == branch'[r][int].edits
  <2>1. origin' = [origin EXCEPT ![r].base = b, ![r].empty = FALSE, ![r].task = e]
    BY <1>1 DEF CommitAndPush
  <2> HIDE DEF b, e
  <2>2. origin'[r].task = e /\ \A q \in Repos : q # r => origin'[q] = origin[q]
    BY <1>2, <2>1 DEF GitTypeOK
  <2> QED
    BY <2>2 DEF e
<1> HIDE DEF int
<1>11. int' = int /\ int = StepBranch("int")
  BY DEF int, StepBranch
<1>12. ASSUME NEW q \in Repos
       PROVE  shipped'[q] \subseteq HeadCommit(q)'.edits \cup clone'[q].staged
  <2>1. CASE q = r
    <3>1. HeadCommit(r)' = branch'[r][int]
      BY <1>9 DEF HeadCommit
    <3> QED
      BY <1>0, <1>3, <1>8, <2>1, <3>1
  <2>2. CASE q # r
    BY <1>0, <1>3, <1>8, <1>9, <2>2 DEF HeadCommit
  <2> QED
    BY <2>1, <2>2
<1>13. WorkOK'
  BY <1>12 DEF WorkOK
<1>14. \A q \in Repos \ (work'.todo \cup unread') : shipped'[q] \subseteq origin'[q].task
  BY <1>0, <1>2, <1>3, <1>5, <1>10
<1>15. shipped'[r] \subseteq origin'[r].task
  BY <1>0, <1>2, <1>3, <1>8, <1>10
<1>16. clone'[r].head = StepBranch("int")'
  BY <1>9 DEF StepBranch, int
<1>17. PushedOK'
  BY <1>2, <1>5, <1>14, <1>15, <1>16 DEF PushedOK
<1> QED
  BY <1>5, <1>6, <1>7, <1>13, <1>17, NoMerge

LEMMA CreateKeeps == ASSUME GitTypeOK, GitRest, CreatePullRequest PROVE GitRest'
<1> USE DEF GitRest
<1>0. UNCHANGED <<line, track, branch, clone, shipped, unread>> /\ work.step = "pr" /\ work.phase = "create"
  BY DEF CreatePullRequest
<1>1. PICK r : r = work.cur
  OBVIOUS
<1>2. work'.step = "pr" /\ work'.phase = "repos" /\ work'.todo = work.todo \ {r}
  BY <1>0, <1>1 DEF CreatePullRequest, GitTypeOK
<1>3. \A q \in Repos : origin'[q].task = origin[q].task
  BY DEF CreatePullRequest, GitTypeOK
<1>4. line.status \in {"coding", "fixing"}
  BY <1>0, NotPRReady
<1>5. StepsOK'
  BY <1>0, <1>2, <1>4 DEF StepsOK
<1>6. TracksOK'
  BY <1>2 DEF TracksOK
<1>7. WorkOK'
  BY <1>0, SameWork
<1>8. \A q \in Repos \ (work'.todo \cup unread') : shipped'[q] \subseteq origin'[q].task
  <2>1. /\ \A q \in Repos \ (work.todo \cup unread) : shipped[q] \subseteq origin[q].task
        /\ shipped[r] \subseteq origin[r].task
    BY <1>0, <1>1 DEF PushedOK
  <2> QED
    BY <1>0, <1>2, <1>3, <2>1
<1>9. PushedOK'
  BY <1>2, <1>8 DEF PushedOK
<1> QED
  BY <1>2, <1>5, <1>6, <1>7, <1>9, NoMerge

LEMMA RecordKeeps == ASSUME GitTypeOK, GitRest, RecordPRs PROVE GitRest'
<1> USE DEF GitRest
<1>0. /\ UNCHANGED <<track, branch, clone, shipped, unread, origin>>
      /\ work.step = "pr" /\ work.phase = "repos" /\ work.todo = {}
  BY DEF RecordPRs
<1>1. line'.parallel = line.parallel /\ line'.child = line.child
  BY ZenonT(60) DEF RecordPRs, GitTypeOK
<1>2. \A r \in Repos \ unread : shipped[r] \subseteq origin[r].task
  BY <1>0 DEF PushedOK
<1>3. \A n : StepBranch(n)' = StepBranch(n)
  BY DEF StepBranch
<1>4. /\ work'.step = "pr" /\ work'.todo = {}
      /\ \/ work'.phase = "error" /\ line'.status = "fixing"
         \/ work'.phase = "waiting" /\ line'.status = "pr_ready"
  <2> DEFINE saved == [line EXCEPT !.urls = IF work.got # {} THEN work.got ELSE @,
                                   !.meta = IF work.got = {} /\ line.urls = {} THEN "no_changes" ELSE "summaries"]
  <2>1. saved.status = line.status /\ DOMAIN saved = DOMAIN line
    BY DEF GitTypeOK
  <2>2. CASE line.status = "fixing"
    <3>1. line' = saved /\ GiveUp
      BY <2>2 DEF RecordPRs
    <3> QED
      BY <1>0, <2>1, <2>2, <3>1, GivesUp
  <2>3. CASE line.status # "fixing"
    <3>1. line' = [saved EXCEPT !.status = "pr_ready"] /\ work' = [work EXCEPT !.phase = "waiting"]
      BY <2>3 DEF RecordPRs
    <3> HIDE DEF saved
    <3>2. line'.status = "pr_ready"
      BY <2>1, <3>1 DEF GitTypeOK
    <3>3. work'.phase = "waiting" /\ work'.step = "pr" /\ work'.todo = {}
      BY <1>0, <3>1 DEF GitTypeOK
    <3> QED
      BY <3>2, <3>3
  <2> QED
    BY <2>2, <2>3
<1>5. StepsOK'
  BY <1>0, <1>1, <1>4 DEF StepsOK
<1>6. TracksOK'
  BY <1>4 DEF TracksOK
<1>7. WorkOK'
  BY <1>0, <1>1 DEF WorkOK, HeadCommit
<1>8. PushedOK'
  BY <1>0, <1>2, <1>4 DEF PushedOK
<1> QED
  BY <1>4, <1>5, <1>6, <1>7, <1>8, NoMerge

LEMMA RejectKeeps == ASSUME GitTypeOK, GitRest, Reject PROVE GitRest'
<1> USE DEF GitRest
<1>0. UNCHANGED <<track, branch, clone, shipped>> /\ work.step = "pr" /\ line' = [line EXCEPT !.status = "fixing"]
  BY DEF Reject
<1>1. line'.parallel = line.parallel /\ line'.child = line.child /\ line'.status = "fixing"
  BY <1>0 DEF GitTypeOK
<1>2. work'.step = "pr" /\ work'.phase = "start" /\ work'.todo = Repos
  BY Goes DEF Reject
<1>3. StepsOK'
  BY <1>0, <1>1, <1>2 DEF StepsOK
<1>4. TracksOK'
  BY <1>2 DEF TracksOK
<1>5. WorkOK'
  BY <1>0, <1>1 DEF WorkOK, HeadCommit
<1>6. PushedOK'
  BY <1>2 DEF PushedOK
<1> QED
  BY <1>2, <1>3, <1>4, <1>5, <1>6, NoMerge

LEMMA RetryKeeps == ASSUME GitTypeOK, GitRest, RetryStep PROVE GitRest'
<1> USE DEF GitRest
<1>0. UNCHANGED <<line, branch, clone, shipped>> /\ work.phase # "waiting"
  BY DEF RetryStep
<1>1. /\ work'.step = work.step /\ work'.todo = Repos
      /\ work'.phase = IF work.step = "implement" THEN "run" ELSE "start"
  <2> DEFINE p == IF work.step = "implement" THEN "run" ELSE "start"
  <2>1. Goto(work.step, p)
    BY DEF RetryStep
  <2>2. work.step \in {"implement", "merge", "review", "pr"}
    BY DEF GitTypeOK
  <2> HIDE DEF p
  <2>3. work'.step = work.step /\ work'.todo = Repos /\ work'.phase = p
    BY <2>1, <2>2, Goes
  <2> QED
    BY <2>3 DEF p
<1>2. line.status \in {"coding", "fixing"}
  BY <1>0, NotPRReady
<1>3. /\ \A t \in Tracks : track'[t] # "setup" => track[t] # "setup"
      /\ \A t \in Tracks : track[t] = "done" => track'[t] = "done"
  BY DEF RetryStep
<1>4. StepsOK'
  BY <1>0, <1>1, <1>2, <1>3 DEF StepsOK
<1>5. TracksOK'
  <2>1. CASE work.step = "pr"
    BY <1>1, <2>1 DEF TracksOK
  <2>2. CASE work.step # "pr"
    <3>1. line.child /\ line.parallel => work'.step \in {"implement", "merge", "pr"}
      BY <1>1, <2>2 DEF TracksOK
    <3> QED
      BY <1>0, <1>3, <2>2, <3>1, SameTracks
  <2> QED
    BY <2>1, <2>2
<1>6. WorkOK'
  BY <1>0, <1>1, SameWork
<1>7. MergeOK'
  BY <1>1 DEF MergeOK
<1>8. PushedOK'
  BY <1>1 DEF PushedOK
<1> QED
  BY <1>4, <1>5, <1>6, <1>7, <1>8

-----------------------------------------------------------------------------
\* The theorem

LEMMA GitInitInv == GitInit => GitInv
<1> SUFFICES ASSUME GitInit
             PROVE  GitInv
  OBVIOUS
<1>1. GitTypeOK
  BY InitTypes
<1>2. work.step = "implement" /\ work.phase = "run" /\ line.status = "coding" /\ \A t \in Tracks : track[t] = "setup"
  BY DEF GitInit
<1>3. \A r \in Repos : /\ \A n \in Names : branch[r][n] = IF n = Base THEN Root ELSE NoCommit
                       /\ clone[r].head = Base /\ shipped[r] = {}
  BY DEF GitInit
<1>4. StepsOK
  BY <1>2 DEF StepsOK
<1>5. TracksOK
  <2>1. ASSUME NEW r \in Repos, NEW t \in Tracks
        PROVE  Role(r, t) = NoCommit /\ Trunk(r) = NoCommit /\ branch[r][Base] = Root
               /\ branch[r][StepBranch("int")] = NoCommit
    <3>1. TrackBranch(t) # Base /\ TrackBranch("int") # Base /\ StepBranch("int") # Base
      BY DEF TrackBranch, StepBranch, Base, Tracks
    <3> QED
      BY <1>3, <3>1, NamesThere DEF Role, Trunk
  <2>2. \A t \in Tracks : TrackOK(NoCommit, NoCommit, t)
    BY DEF TrackOK
  <2>3. "be" \in Tracks
    BY DEF Tracks
  <2> QED
    BY <1>2, <1>3, <2>1, <2>2, <2>3 DEF TracksOK
<1>6. MergeOK /\ PushedOK
  BY <1>2 DEF MergeOK, PushedOK
<1>7. WorkOK
  BY <1>3 DEF WorkOK
<1> QED
  BY <1>1, <1>4, <1>5, <1>6, <1>7 DEF GitInv, GitRest

\* No step makes a task easy, or takes that from it.
LEMMA EasyStays == ASSUME GitTypeOK, GitNext PROVE line'.easy = line.easy
<1>1. CASE RecordPRs
  BY <1>1 DEF RecordPRs, GitTypeOK
<1>2. CASE Reject
  BY <1>2 DEF Reject, GitTypeOK
<1>3. CASE \E t \in Tracks : SetupRoleWorktrees(t) \/ ImplementTrack(t) \/ CommitTrack(t) \/ MergeBranch(t)
  BY <1>3 DEF SetupRoleWorktrees, ImplementTrack, CommitTrack, MergeBranch
<1>4. CASE Implement \/ Checkpoint \/ TracksDone \/ MergeStart \/ CheckoutBranch \/ CommitMerge \/ Review
  BY <1>4 DEF Implement, Checkpoint, TracksDone, MergeStart, CheckoutBranch, CommitMerge, Review
<1>5. CASE PRStart \/ PrepareBranch \/ CommitAndPush \/ CreatePullRequest \/ RetryStep
  BY <1>5 DEF PRStart, PrepareBranch, CommitAndPush, CreatePullRequest, RetryStep
<1> QED
  BY <1>1, <1>2, <1>3, <1>4, <1>5 DEF GitNext

LEMMA GitTypesKept == ASSUME GitTypeOK, GitNext PROVE GitTypeOK'
<1>1. ASSUME NEW t \in Tracks, SetupRoleWorktrees(t) \/ ImplementTrack(t) \/ CommitTrack(t) \/ MergeBranch(t)
      PROVE  GitTypeOK'
  BY <1>1, SetupTypes, ImplementTrackTypes, CommitTrackTypes, MergeBranchTypes
<1>2. CASE Implement \/ Checkpoint \/ TracksDone \/ MergeStart \/ CheckoutBranch \/ CommitMerge \/ Review
  BY <1>2, ImplementTypes, CheckpointTypes, TracksDoneTypes, MergeStartTypes, CheckoutTypes, CommitMergeTypes, ReviewTypes
<1>3. CASE PRStart \/ PrepareBranch \/ CommitAndPush \/ CreatePullRequest \/ RecordPRs \/ Reject \/ RetryStep
  BY <1>3, PRStartTypes, PrepareTypes, PushTypes, CreateTypes, RecordTypes, RejectTypes, RetryTypes
<1> QED
  BY <1>1, <1>2, <1>3 DEF GitNext

LEMMA GitRestKept == ASSUME GitTypeOK, ~line.easy, GitRest, GitNext PROVE GitRest'
<1>1. ASSUME NEW t \in Tracks, SetupRoleWorktrees(t) \/ ImplementTrack(t) \/ CommitTrack(t) \/ MergeBranch(t)
      PROVE  GitRest'
  BY <1>1, SetupKeeps, ImplementTrackKeeps, CommitTrackKeeps, MergeBranchKeeps
<1>2. CASE Implement \/ Checkpoint \/ TracksDone \/ MergeStart \/ CheckoutBranch \/ CommitMerge \/ Review
  BY <1>2, ImplementKeeps, CheckpointKeeps, TracksDoneKeeps, MergeStartKeeps, CheckoutKeeps, CommitMergeKeeps, ReviewKeeps
<1>3. CASE PRStart \/ PrepareBranch \/ CommitAndPush \/ CreatePullRequest \/ RecordPRs \/ Reject \/ RetryStep
  BY <1>3, PRStartKeeps, PrepareKeeps, PushKeeps, CreateKeeps, RecordKeeps, RejectKeeps, RetryKeeps
<1> QED
  BY <1>1, <1>2, <1>3 DEF GitNext

LEMMA GitInvKept == ASSUME GitInv, [GitNext]_gitVars PROVE GitInv'
<1>1. CASE GitNext
  BY <1>1, EasyStays, GitTypesKept, GitRestKept DEF GitInv
<1>2. CASE UNCHANGED gitVars
  <2>1. UNCHANGED <<line, work, track, branch, clone, origin, shipped, unread>>
    BY <1>2 DEF gitVars
  <2>2. GitTypeOK'
    BY <2>1 DEF GitInv, GitTypeOK
  <2>3. ASSUME GitRest
        PROVE  GitRest'
    <3>1. StepsOK'
      BY <2>1, <2>3 DEF GitRest, StepsOK
    <3>2. TracksOK'
      <4>1. CASE work.step = "pr"
        BY <2>1, <4>1 DEF TracksOK
      <4>2. CASE work.step # "pr"
        <5>1. line.child /\ line.parallel => work'.step \in {"implement", "merge", "pr"}
          BY <2>1, <2>3, <4>2 DEF GitRest, TracksOK
        <5> QED
          BY <2>1, <2>3, <4>2, <5>1, SameTracks DEF GitRest
      <4> QED
        BY <4>1, <4>2
    <3>3. MergeOK'
      BY <2>1, <2>3 DEF GitRest, MergeOK, MergedIn, StepBranch
    <3>4. WorkOK'
      BY <2>1, <2>3 DEF GitRest, WorkOK, HeadCommit
    <3>5. PushedOK'
      BY <2>1, <2>3 DEF GitRest, PushedOK, StepBranch
    <3> QED
      BY <3>1, <3>2, <3>3, <3>4, <3>5 DEF GitRest
  <2> QED
    BY <2>1, <2>2, <2>3 DEF GitInv
<1> QED
  BY <1>1, <1>2

\* What the implement steps of a task that is not easy produced is on the pushed branches
\* when the task waits for approval: PRStep.Execute is reached by the checkpoints, the
\* merge of the tracks and the squash of PrepareBranch only, and RecordPRs is the one step
\* that makes the status pr_ready.
THEOREM ImplementedIsShipped == GitSpec => []Shipped
<1>1. GitInv => Shipped
  BY DEF GitInv, GitRest, PushedOK, Shipped, Delivered, Missing
<1> QED
  BY <1>1, GitInitInv, GitInvKept, PTL DEF GitSpec

=============================================================================
