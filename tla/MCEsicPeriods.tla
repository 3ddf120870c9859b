------------------------------ MODULE MCEsicPeriods ------------------------------
(* EsicPeriods on a small instance.                                         *)
EXTENDS EsicPeriods

\* A full month within the ceiling and above it: deducted, or not.
FullMonths == {[rate |-> r, paid |-> 2, stated |-> s] : r \in {1, 3}, s \in {0, 2, 6}}
================================================================================
