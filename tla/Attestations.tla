------------------------------ MODULE Attestations ------------------------------
(***************************************************************************)
(* The signed statements about delivered commits and the keys that sign      *)
(* them.                                                                     *)
(*                                                                           *)
(* The pull-request step signs the commit it pushed; runs of several tasks,  *)
(* and a retried step, sign at the same time.  Each statement of the         *)
(* database is a step of its own: the look-up of an earlier record, the      *)
(* active key or a new one, the record.  A key may be retired between any    *)
(* two of them.  A signature is the key that made it: the encoding of the    *)
(* envelope is left out.                                                     *)
(***************************************************************************)
EXTENDS Naturals, Sequences

CONSTANTS
    Signers,      \* pull-request steps at work
    Hashes,       \* hashes of delivered commits
    MaxKeys,      \* bound: keys created
    MaxSignFaults \* bound: statements of the database that fail

ASSUME AttestationsAssumption == MaxKeys \in Nat /\ MaxSignFaults \in Nat

VARIABLES
    keys,       \* attestation_keys, in the order of their creation: the status of each
    records,    \* attestations: the recorded key and the one that signed, by commit
    signers,    \* what each step does
    rotation,   \* whether a rotation has retired the keys and not yet created one
    signed,     \* history: commits whose signing was reported as done
    signFaults

attestVars == <<keys, records, signers, rotation, signed, signFaults>>

Resting == [pc |-> "idle", commit |-> "", key |-> 0]
AttestInit ==
    /\ keys = <<>> /\ records = [c \in {} |-> 0] /\ signed = {} /\ rotation = FALSE /\ signFaults = 0
    /\ signers = [s \in Signers |-> Resting]

Active == {i \in DOMAIN keys : keys[i] = "active"}
Newest(K) == CHOOSE i \in K : \A j \in K : j <= i
Go(s, pc, c, k) == signers' = [signers EXCEPT ![s] = [pc |-> pc, commit |-> c, key |-> k]]
Leave(s) == signers' = [signers EXCEPT ![s] = Resting]

--------------------------------------------------------------------------------
\* SignCommit: a commit that has a record keeps it.
SignCommit(s, c) ==
    /\ signers[s].pc = "idle"
    /\ IF c \in DOMAIN records
       THEN signed' = signed \cup {c} /\ UNCHANGED signers
       ELSE Go(s, "key", c, 0) /\ UNCHANGED signed
    /\ UNCHANGED <<keys, records, rotation, signFaults>>

\* EnsureActiveKey: the newest active key, or none is found ...
GetActive(s) ==
    /\ signers[s].pc = "key"
    /\ IF Active # {} THEN Go(s, "store", signers[s].commit, Newest(Active))
                      ELSE Go(s, "generate", signers[s].commit, 0)
    /\ UNCHANGED <<keys, records, rotation, signed, signFaults>>

\* ... and a new one is created, whoever else has created one meanwhile.
GenerateKey(s) ==
    /\ signers[s].pc = "generate" /\ Len(keys) < MaxKeys
    /\ keys' = Append(keys, "active") /\ Go(s, "store", signers[s].commit, Len(keys) + 1)
    /\ UNCHANGED <<records, rotation, signed, signFaults>>

\* Create: the index on the commit refuses a second record.
Store(s) ==
    LET c == signers[s].commit
        k == signers[s].key
    IN  /\ signers[s].pc = "store" /\ Leave(s)
        /\ \/ /\ c \notin DOMAIN records /\ signed' = signed \cup {c}
              /\ records' = [x \in DOMAIN records \cup {c} |->
                               IF x = c THEN [keyID |-> k, sig |-> k] ELSE records[x]]
           \/ c \in DOMAIN records /\ UNCHANGED <<records, signed>>
        /\ UNCHANGED <<keys, rotation, signFaults>>

\* A statement fails: the step logs it and delivers without a record.
SigningFails(s) ==
    /\ signers[s].pc # "idle" /\ signFaults < MaxSignFaults /\ signFaults' = signFaults + 1 /\ Leave(s)
    /\ UNCHANGED <<keys, records, rotation, signed>>

\* RotateKey: every active key is retired, and then one is created; it may stop in between.
RotateKey ==
    /\ \/ /\ ~rotation /\ Active # {} /\ rotation' = TRUE /\ UNCHANGED signFaults
          /\ keys' = [i \in DOMAIN keys |-> "retired"]
       \/ /\ rotation /\ Len(keys) < MaxKeys /\ rotation' = FALSE /\ UNCHANGED signFaults
          /\ keys' = Append(keys, "active")
       \/ /\ rotation /\ signFaults < MaxSignFaults /\ rotation' = FALSE
          /\ signFaults' = signFaults + 1 /\ UNCHANGED keys
    /\ UNCHANGED <<records, signers, signed>>

\* The key that signs now verifies.
VerifiesNow(c) == Active # {} /\ records[c].sig = Newest(Active)
\* VerifyByCommitHash: the recorded key, active or retired, against the signature.
Verifies(c) == records[c].keyID \in DOMAIN keys /\ records[c].sig = records[c].keyID

AttestNext ==
    \/ \E s \in Signers : GetActive(s) \/ GenerateKey(s) \/ Store(s) \/ SigningFails(s)
    \/ \E s \in Signers, c \in Hashes : SignCommit(s, c)
    \/ RotateKey

AttestSpec == AttestInit /\ [][AttestNext]_attestVars

--------------------------------------------------------------------------------
(***************************************************************************)
(* AttestedForGood: a commit whose signing was reported as done has a record *)
(* and the record verifies, whatever other steps sign the same commit or     *)
(* create the first key at the same time, and through every rotation, whole  *)
(* or interrupted (attestation.go:170 "rotated-out keys still verify their   *)
(* own historical records").                                                 *)
(***************************************************************************)
AttestedForGood == \A c \in signed : c \in DOMAIN records /\ Verifies(c)
================================================================================
