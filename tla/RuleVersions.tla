------------------------------ MODULE RuleVersions ------------------------------
(***************************************************************************)
(* The dated versions of a company's own validation rules: which one a     *)
(* month is validated by, and what publishing and retiring may do to it.   *)
(*                                                                         *)
(*   routers/validation_matrix.py   create, import, copy, clone, rollback, *)
(*                                  submit, return, publish, retire        *)
(*   services/validation_matrix.py  published_for, conflicts               *)
(*                                                                         *)
(* One company; each request is one transaction, and none overlap.  What a *)
(* rule tests is the one thing conflicts() tells apart here: two rules that *)
(* ask for different things of the same input cannot both be satisfied.    *)
(* Who may publish is in SignOff's terms and is left out.                  *)
(***************************************************************************)
EXTENDS Integers, Sequences

CONSTANTS
  Keys,        \* rule keys
  Demands,     \* what an assertion asks of its input
  MonthBound,  \* bound: months
  VersionBound \* bound: versions, of all the keys

RuleAssumption == {MonthBound, VersionBound} \subseteq Nat

VARIABLES
  rule,     \* the versions, in the order they were drafted
  extended  \* whether a retirement has put an end date off

vars == <<rule, extended>>

Months == 1..MonthBound
Open == 0               \* no effective_to
NoRule == 0

Init == rule = <<>> /\ extended = FALSE

--------------------------------------------------------------------------------
(* Which version applies.                                                  *)

Versions == DOMAIN rule

EndsBefore(v, m) == rule[v].to # Open /\ rule[v].to < m

\* Mutant of Dated: a retired version governs no month any more.
DatedPublished == {v \in Versions : rule[v].status = "published"}

Dated == {v \in Versions : rule[v].status \in {"published", "retired"}}

StartsAfter(u, v) == rule[u].from > rule[v].from \/ (rule[u].from = rule[v].from /\ u > v)

\* published_for: of the versions of a key that have started, the latest to
\* start; none when that one has ended.
Governs(key, m) ==
  LET started == {v \in Dated : rule[v].key = key /\ rule[v].from <= m}
      latest == {v \in started : \A u \in started \ {v} : StartsAfter(v, u)}
      lasting == {v \in latest : ~EndsBefore(v, m)}
  IN IF lasting = {} THEN NoRule ELSE CHOOSE v \in lasting : TRUE

DatesOverlap(u, v) == ~EndsBefore(u, rule[v].from) /\ ~EndsBefore(v, rule[u].from)

\* conflicts: rules of two keys whose dates overlap and that no value satisfies.
Contradict(u, v) ==
  rule[u].key # rule[v].key /\ rule[u].demand # rule[v].demand /\ DatesOverlap(u, v)

--------------------------------------------------------------------------------
(* Drafts.                                                                 *)

NewDraft(key, demand, from, to) ==
  /\ Len(rule) < VersionBound
  /\ rule' = Append(rule, [key |-> key, demand |-> demand, from |-> from, to |-> to, status |-> "draft"])
  /\ UNCHANGED extended

\* A draft written here, imported from a file or copied from another company.
Create ==
  \E key \in Keys, demand \in Demands, from \in Months, to \in {Open} \cup Months :
    /\ to = Open \/ to >= from
    \* Keys and demands are alike: what comes first goes by one name of each.
    /\ rule = <<>> => key = (CHOOSE k \in Keys : TRUE) /\ demand = (CHOOSE d \in Demands : TRUE)
    /\ NewDraft(key, demand, from, to)

\* A clone carries the dates too, under its own key or another.
Clone(v) == \E key \in Keys : NewDraft(key, rule[v].demand, rule[v].from, rule[v].to)

Rollback(v) ==
  /\ \E u \in Versions : u > v /\ rule[u].key = rule[v].key
  /\ NewDraft(rule[v].key, rule[v].demand, rule[v].from, rule[v].to)

Moves(v, from, to) ==
  /\ rule[v].status = from
  /\ rule' = [rule EXCEPT ![v].status = to]
  /\ UNCHANGED extended

Submit(v) == Moves(v, "draft", "pending")

ReturnToDraft(v) == Moves(v, "pending", "draft")

--------------------------------------------------------------------------------
(* Publishing and retiring.                                                *)

\* Mutant of Others: only the rules published today are looked at.
OthersPublished(v) == {u \in Versions \ {v} : rule[u].status = "published"}

\* The versions a publication is compared with.
Others(v) == Dated \ {v}

Publish(v) ==
  /\ ~ \E u \in Versions : /\ rule[u].key = rule[v].key /\ rule[u].from = rule[v].from
                           /\ rule[u].status = "published"
  /\ ~ \E u \in Others(v) : Contradict(u, v)
  /\ Moves(v, "pending", "published")

\* The end given need not be earlier than the one the version had.
Retire(v) ==
  /\ rule[v].status = "published"
  /\ \E to \in Months :
       /\ to >= rule[v].from
       /\ rule' = [rule EXCEPT ![v].status = "retired", ![v].to = to]
       /\ extended' = (extended \/ EndsBefore(v, to))

Next ==
  \/ Create
  \/ \E v \in Versions : Clone(v) \/ Rollback(v) \/ Submit(v) \/ ReturnToDraft(v) \/ Publish(v) \/ Retire(v)

Spec == Init /\ [][Next]_vars

--------------------------------------------------------------------------------
(* What the code says of itself.                                           *)

TypeOK ==
  /\ rule \in Seq([key : Keys, demand : Demands, from : Months, to : {Open} \cup Months,
                   status : {"draft", "pending", "published", "retired"}])
  /\ Len(rule) <= VersionBound
  /\ extended \in BOOLEAN

\* A re-run of an old month uses the rule that applied then
\* (validation_matrix.published_for, retire): the version that governs a month
\* gives way only to a newer one published from no later than that month, or
\* to its own retirement from an earlier one.
OldMonthsKeepTheirRule ==
  [][\A key \in Keys, m \in Months :
       LET v == Governs(key, m)
       IN (v # NoRule /\ Governs(key, m)' # v) =>
            \/ \E u \in Dated' \ Dated : rule[u].key = key /\ rule[u].from <= m /\ StartsAfter(u, v)
            \/ rule'[v].status = "retired" /\ rule'[v].to < m]_vars

\* No month is validated by two rules no value satisfies, while no retirement
\* has put an end date off: publishing is refused against every version that
\* could be in force with this one (routers/validation_matrix.publish).
NoMonthContradictsItself ==
  ~extended =>
    \A m \in Months, k, l \in Keys :
      LET u == Governs(k, m)
          v == Governs(l, m)
      IN NoRule \in {u, v} \/ k = l \/ rule[u].demand = rule[v].demand
================================================================================
