---------------------------- MODULE SubmitLedger ----------------------------
(***************************************************************************)
(* What the approved-submit path promises, with nothing of how: a ledger   *)
(* of the requests the user approved and, for each worker process, of the  *)
(* applications it has submitted since it started.  An application is      *)
(* submitted only on an approved request about it, and at most once by a   *)
(* process between two of its starts.                                      *)
(***************************************************************************)
CONSTANTS Worker, App, Req, ReqApp

VARIABLES approved,   \* requests the user approved
          sent        \* sent[w]: applications w submitted since it started

Init == approved = {} /\ sent = [w \in Worker |-> {}]

Approve(r) == /\ approved' = approved \union {r}
              /\ UNCHANGED sent

Submit(w, r) ==
  /\ r \in approved
  /\ ReqApp[r] \notin sent[w]
  /\ sent' = [sent EXCEPT ![w] = @ \union {ReqApp[r]}]
  /\ UNCHANGED approved

Start(w) == /\ sent' = [sent EXCEPT ![w] = {}]
            /\ UNCHANGED approved

Next == \/ \E r \in Req : Approve(r)
        \/ \E w \in Worker, r \in Req : Submit(w, r)
        \/ \E w \in Worker : Start(w)

Spec == Init /\ [][Next]_<<approved, sent>>
=============================================================================
