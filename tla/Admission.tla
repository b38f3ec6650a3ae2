------------------------------ MODULE Admission ------------------------------
(***************************************************************************)
(* What an evaluation promises its caller, without saying how: a contract  *)
(* is a finite list of clauses, each in force or advisory; each clause is  *)
(* settled once; when none is open the build is admitted or refused, and   *)
(* it is refused exactly when a clause in force was violated or could not  *)
(* be checked for an error, or, for a strict caller, when one was skipped. *)
(* evaluate.RunContext (module Evaluate) implements it.                    *)
(***************************************************************************)
EXTENDS Sequences, Naturals

VARIABLES
    clauses,   \* clauses[k]: clause k is in force
    strict,    \* skipped clauses refuse the build too
    status,    \* status[k]: "open" or how clause k was settled
    decision   \* "none", "pass" or "fail"

vars == <<clauses, strict, status, decision>>

Settled == {"pass", "fail", "errored", "skipped"}

Fresh ==
    /\ clauses \in Seq(BOOLEAN)
    /\ strict \in BOOLEAN
    /\ status = [k \in DOMAIN clauses |-> "open"]
    /\ decision = "none"

Init == Fresh

Settle ==
    /\ decision = "none"
    /\ \E k \in DOMAIN status : \E s \in Settled :
          /\ status[k] = "open"
          /\ status' = [status EXCEPT ![k] = s]
    /\ UNCHANGED <<clauses, strict, decision>>

Refused == \/ \E k \in DOMAIN status : clauses[k] /\ status[k] \in {"fail", "errored"}
           \/ strict /\ \E k \in DOMAIN status : status[k] = "skipped"

Decide ==
    /\ decision = "none"
    /\ \A k \in DOMAIN status : status[k] # "open"
    /\ decision' = IF Refused THEN "fail" ELSE "pass"
    /\ UNCHANGED <<clauses, strict, status>>

\* A new evaluation, of any contract.
Begin == decision # "none" /\ Fresh'

Next == Settle \/ Decide \/ Begin

Spec == Init /\ [][Next]_vars
=============================================================================
