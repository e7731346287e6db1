------------------------------ MODULE MCCliSteps ------------------------------
(* Two profiles with a credential each, the second one pinned in its row. *)
EXTENDS CliSteps

CONSTANTS c1, c2, claude, codex

ListedCreds == <<c1, c2>>
ProfileOf == [c \in Creds |-> IF c = c1 THEN claude ELSE codex]
ListedProfiles == <<claude, codex>>
CodexPinned == [p \in {claude, codex} |-> IF p = codex THEN c2 ELSE Nobody]

================================================================================
