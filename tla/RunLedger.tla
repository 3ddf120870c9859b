------------------------------- MODULE RunLedger -------------------------------
(***************************************************************************)
(* What the run history promises, with no queue, worker or transaction in  *)
(* it: each payroll month has at most one answer, a new validation becomes *)
(* the answer and the one before it becomes history, and nothing that was  *)
(* ever an answer is lost (models/findings.py:58-66 and :47-51).           *)
(***************************************************************************)
CONSTANTS Periods,   \* payroll months
          NoRun      \* the answer of a month that was never validated

VARIABLES answer,    \* the month's current run
          history    \* the month's superseded runs

ledgerVars == <<answer, history>>

\* Every run any month has ever had.
Issued == (UNION {history[p] : p \in Periods}) \cup {answer[p] : p \in Periods}

Init ==
  /\ answer = [p \in Periods |-> NoRun]
  /\ history = [p \in Periods |-> {}]

\* A run nobody has seen answers month p from now on; what answered it before
\* is history.
Answer(p) ==
  /\ answer'[p] \notin Issued \cup {NoRun}
  /\ answer' = [answer EXCEPT ![p] = answer'[p]]
  /\ history' = [history EXCEPT ![p] = @ \cup ({answer[p]} \ {NoRun})]

Next == \E p \in Periods : Answer(p)

Spec == Init /\ [][Next]_ledgerVars
================================================================================
