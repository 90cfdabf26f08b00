------------------------------ MODULE MCStores ------------------------------
(***************************************************************************)
(* What keeps state beyond a process, in one model for TLC: the mirror of  *)
(* the runtime database, the idempotency keys and the stores in files.  A  *)
(* behaviour picks one of them, and the others stay in their initial state,*)
(* so that the states of the model are the sum of theirs.                  *)
(***************************************************************************)
EXTENDS Mirror, Claims, FileStores

CONSTANTS v1, v2

\* Two vacancies under one canonical URL.
MCUrlKey == [v \in Vacancies |-> v1]
MCUses == [c \in Callers |-> Keys]

VARIABLE part

MCInit ==
  /\ part \in {"mirror", "claims", "files"}
  /\ MirrorInit /\ ClaimsInit /\ FilesInit

MCNext ==
  /\ \/ part = "mirror" /\ MirrorNext /\ UNCHANGED <<claimVars, fileVars>>
     \/ part = "claims" /\ ClaimsNext /\ UNCHANGED <<mirrorVars, fileVars>>
     \/ part = "files" /\ FilesNext /\ UNCHANGED <<mirrorVars, claimVars>>
  /\ UNCHANGED part

MCSpec == MCInit /\ [][MCNext]_<<part, mirrorVars, claimVars, fileVars>>
=============================================================================
