------------------------------- MODULE MonthProofs -------------------------------
(***************************************************************************)
(* What MCMonth says of a month: of ESIC, proved here for every length of  *)
(* a period, ceiling, registers and bounds; of imports and the signature,  *)
(* carried over from StudioImportsProofs and SignOffProofs to behaviours   *)
(* in which other parts of the month move.                                 *)
(***************************************************************************)
EXTENDS MCMonth, SignOffProofs, WellFoundedInduction

--------------------------------------------------------------------------------
(* ESIC.                                                                   *)

\* A set of natural numbers that is not empty has a least element.
LEMMA HasFirst ==
  ASSUME NEW ms, ms \subseteq Nat, ms # {}
  PROVE  \E k \in ms : \A j \in ms : k <= j
<1>1. PICK k \in ms : \A j \in ms : ~ (<<j, k>> \in OpToRel(<, Nat))
  BY NatLessThanWellFounded, WFMin
<1>2. \A j \in ms : ~ (j < k)
  BY <1>1 DEF OpToRel
<1> QED
  BY <1>2

LEMMA QuotientBelow ==
  ASSUME NEW a \in Nat, NEW n \in Nat \ {0}
  PROVE  a \div n \in Nat /\ (a \div n) * n <= a
OBVIOUS

LEMMA QuotientIsGreatest ==
  ASSUME NEW b \in Nat, NEW n \in Nat \ {0}, NEW q \in Nat, q * n <= b
  PROVE  q <= b \div n
OBVIOUS

\* A month lies in its period, whose months have none of an earlier period before them.
LEMMA PeriodsAreApart ==
  ASSUME P!EsicAssumption, NEW m \in P!Months
  PROVE  /\ P!PeriodStart(m) \in 1..m
         /\ \A k \in P!PeriodStart(m)..m : k \in P!Months /\ P!PeriodStart(k) >= P!PeriodStart(m)
<1>1. m \in Nat \ {0} /\ m - 1 \in Nat /\ PeriodLength \in Nat \ {0} /\ EsicMonths \in Nat /\ m <= EsicMonths
  BY DEF P!EsicAssumption, P!Months
<1> DEFINE q == (m - 1) \div PeriodLength
<1>2. q \in Nat /\ q * PeriodLength <= m - 1
  BY <1>1, QuotientBelow
<1>3. P!PeriodStart(m) = q * PeriodLength + 1
  BY DEF P!PeriodStart
<1>4. q * PeriodLength \in Nat
  <2> HIDE DEF q
  <2> QED
    BY <1>1, <1>2
<1> HIDE DEF q
<1>5. ASSUME NEW k \in P!PeriodStart(m)..m
      PROVE  k \in P!Months /\ P!PeriodStart(k) >= P!PeriodStart(m)
  <2>1. k \in Nat \ {0} /\ k - 1 \in Nat /\ q * PeriodLength <= k - 1 /\ k <= EsicMonths
    BY <1>1, <1>3, <1>4
  <2> DEFINE p == (k - 1) \div PeriodLength
  <2>2. q <= p /\ p \in Nat
    BY <1>1, <1>2, <2>1, QuotientIsGreatest, QuotientBelow
  <2>3. P!PeriodStart(k) = p * PeriodLength + 1
    BY DEF P!PeriodStart
  <2> HIDE DEF p
  <2>4. q * PeriodLength <= p * PeriodLength
    BY <1>1, <1>2, <2>2
  <2>5. p * PeriodLength \in Nat
    BY <1>1, <2>2
  <2> QED
    BY <1>3, <1>4, <2>1, <2>3, <2>4, <2>5 DEF P!Months
<1> QED
  BY <1>1, <1>2, <1>3, <1>4, <1>5

\* The registers are of their type: p1 and p2 are `register` and `newest`.
RegistersAreRows ==
  /\ p1 \in [P!Months -> EsicRows \cup {P!NoRow}]
  /\ p2 \in 0..EsicMonths

\* What a month's pay is worth, and that a wage within the ceiling is a wage earned.
LEMMA WagesAreNumbers ==
  ASSUME P!EsicAssumption, RegistersAreRows, NEW k \in P!Months
  PROVE  /\ P!Earned(p1[k]) \in Nat
         /\ p1[k].stated \in Nat \cup {P!Absent}
         /\ P!Eligible(p1[k]) => P!Earned(p1[k]) > 0
<1>1. \/ p1[k] \in [rate : Nat, paid : 0..PaidDays, stated : Nat \cup {P!Absent}]
      \/ p1[k] = P!NoRow
  BY DEF P!EsicAssumption, RegistersAreRows
<1>2. PICK rate \in Nat, paid \in Nat : /\ p1[k].rate = rate /\ p1[k].paid = paid
                                       /\ p1[k].stated \in Nat \cup {P!Absent}
  BY <1>1 DEF P!EsicAssumption, P!NoRow
<1>3. P!Earned(p1[k]) = rate * paid /\ rate * paid \in Nat
  BY <1>2 DEF P!Earned
<1>4. ASSUME P!Eligible(p1[k]) PROVE rate * paid > 0
  <2>1. PaidDays \in Nat
    BY DEF P!EsicAssumption
  <2>2. paid > 0 /\ 0 < rate * PaidDays
    BY <1>2, <1>4, <2>1 DEF P!Eligible, P!RateWage
  <2>3. rate # 0
    BY <2>1, <2>2
  <2> QED
    BY <2>2, <2>3
<1> QED
  BY <1>2, <1>3, <1>4

\* A month without a finding deducts what is expected of it.
LEMMA CleanIsExpected ==
  ASSUME P!EsicAssumption, RegistersAreRows, NEW k \in P!Months, P!Findings(k) = {}
  PROVE  p1[k].stated > 0 <=> P!Covered(k) /\ P!Earned(p1[k]) > 0
<1>1. P!Earned(p1[k]) \in Nat /\ p1[k].stated \in Nat \cup {P!Absent}
  BY WagesAreNumbers
<1>2. P!Absent = -1
  BY DEF P!Absent
<1>3. p1[k].stated # P!Absent => p1[k].stated = P!Expected(k)
  BY DEF P!Findings
<1>4. p1[k].stated = P!Absent => ~ (P!Expected(k) > 0)
  BY DEF P!Findings
<1>5. P!Expected(k) = IF P!Covered(k) THEN P!Earned(p1[k]) ELSE 0
  BY DEF P!Expected
<1> QED
  BY <1>1, <1>2, <1>3, <1>4, <1>5

\* A period whose months are clean deducts from its first month within the ceiling on: the
\* first month that deducts is within it, as there is none before it to be covered by.
LEMMA CleanPeriodsCover ==
  ASSUME P!EsicAssumption, RegistersAreRows
  PROVE  P!CleanMeansCovered
<1> SUFFICES ASSUME NEW m \in P!Months, m <= p2, P!CleanUpTo(m)
             PROVE  p1[m].stated > 0 <=>
                      P!Earned(p1[m]) > 0 /\ \E k \in P!PeriodStart(m)..m : P!Eligible(p1[k])
  BY DEF P!CleanMeansCovered
<1> DEFINE Period == P!PeriodStart(m)..m
<1>1. /\ P!PeriodStart(m) \in 1..m
      /\ \A k \in Period : k \in P!Months /\ P!PeriodStart(k) >= P!PeriodStart(m)
  BY PeriodsAreApart
<1>2. m \in Nat /\ P!PeriodStart(m) \in Nat /\ m \in Period
  BY <1>1 DEF P!Months, P!EsicAssumption
<1>3. \A k \in Period : p1[k].stated > 0 <=> P!Covered(k) /\ P!Earned(p1[k]) > 0
  <2> SUFFICES ASSUME NEW k \in Period PROVE p1[k].stated > 0 <=> P!Covered(k) /\ P!Earned(p1[k]) > 0
    OBVIOUS
  <2>1. P!Findings(k) = {}
    BY DEF P!CleanUpTo
  <2> QED
    BY <1>1, <2>1, CleanIsExpected
<1>4. ASSUME p1[m].stated > 0
      PROVE  P!Earned(p1[m]) > 0 /\ \E k \in Period : P!Eligible(p1[k])
  <2> DEFINE Deducting == {k \in Period : p1[k].stated > 0}
  <2>1. PICK k \in Deducting : \A j \in Deducting : k <= j
    <3>1. Deducting \subseteq Nat /\ m \in Deducting
      BY <1>2, <1>4
    <3> HIDE DEF Deducting
    <3> QED
      BY <3>1, HasFirst
  <2>2. P!Covered(k)
    BY <1>3
  <2>3. ~ P!CoveredEarlier(k)
    <3> SUFFICES ASSUME NEW j \in P!PeriodStart(k)..(k - 1), p1[j].stated > 0 PROVE FALSE
      BY DEF P!CoveredEarlier
    <3>1. P!PeriodStart(k) \in Int
      BY <1>1, PeriodsAreApart DEF P!Months
    <3>2. j \in Period /\ j < k
      BY <1>1, <1>2, <3>1
    <3> QED
      BY <1>2, <2>1, <3>2
  <2> QED
    BY <1>2, <1>3, <1>4, <2>2, <2>3 DEF P!Covered
<1>5. ASSUME P!Earned(p1[m]) > 0, NEW k \in Period, P!Eligible(p1[k])
      PROVE  p1[m].stated > 0
  <2>1. p1[k].stated > 0
    <3>1. P!Earned(p1[k]) > 0
      BY <1>1, <1>5, WagesAreNumbers
    <3> QED
      BY <1>3, <1>5, <3>1 DEF P!Covered
  <2>2. CASE k = m
    BY <2>1, <2>2
  <2>3. CASE k # m
    <3>1. k \in P!PeriodStart(m)..(m - 1)
      BY <1>2, <2>3
    <3>2. P!CoveredEarlier(m)
      BY <2>1, <3>1 DEF P!CoveredEarlier
    <3> QED
      BY <1>2, <1>3, <1>5, <3>2 DEF P!Covered
  <2> QED
    BY <2>2, <2>3
<1> QED
  BY <1>4, <1>5

--------------------------------------------------------------------------------
(* The month's behaviours.                                                 *)

\* Months that are paid keep registers of their type.
LEMMA RegistersStayRows ==
  ASSUME P!EsicAssumption, RegistersAreRows, [P!Next]_(P!vars)
  PROVE  RegistersAreRows'
<1> USE DEF RegistersAreRows
<1>1. CASE P!Upload
  <2>1. p2 \in Nat /\ EsicMonths \in Nat /\ p2' = p2 + 1 /\ p2 < EsicMonths
    BY <1>1 DEF P!Upload, P!EsicAssumption
  <2>2. PICK r \in EsicRows : p1' = [p1 EXCEPT ![p2 + 1] = r]
    BY <1>1 DEF P!Upload
  <2>3. p2 + 1 \in P!Months /\ p2 + 1 \in 0..EsicMonths
    BY <2>1 DEF P!Months
  <2>4. p1' \in [P!Months -> EsicRows \cup {P!NoRow}]
    BY <2>2, <2>3
  <2> QED
    BY <2>1, <2>3, <2>4 DEF P!Months
<1>2. ASSUME NEW m \in P!Months, P!UploadAgain(m) PROVE RegistersAreRows'
  <2>1. PICK r \in EsicRows : p1' = [p1 EXCEPT ![m] = r]
    BY <1>2 DEF P!UploadAgain
  <2> QED
    BY <1>2, <2>1 DEF P!UploadAgain
<1>3. ASSUME NEW m \in P!Months, P!Validate(m) PROVE RegistersAreRows'
  BY <1>3 DEF P!Validate
<1>4. CASE UNCHANGED P!vars
  BY <1>4 DEF P!vars
<1> QED
  BY <1>1, <1>2, <1>3, <1>4 DEF P!Next

\* Clean months of a contribution period deduct ESIC from whoever the period covers and from
\* no one else (validation.py, _esic_covered_in_period): the part of WhatIsOwedIsReported that
\* adds up no months.
THEOREM PeriodsCover ==
  MonthSpec => [](part = "periods" => P!CleanMeansCovered)
<1> DEFINE Inv == part = "periods" => RegistersAreRows
<1>1. MonthInit => Inv
  <2> SUFFICES ASSUME MonthInit, part = "periods" PROVE RegistersAreRows
    OBVIOUS
  <2>1. P!Init
    BY DEF MonthInit
  <2>2. EsicMonths \in Nat
    BY MonthAssumption DEF MonthAssumption, P!EsicAssumption
  <2> QED
    BY <2>1, <2>2 DEF P!Init, RegistersAreRows
<1>2. Inv /\ [MonthNext]_allVars => Inv'
  <2> SUFFICES ASSUME Inv, [MonthNext]_allVars, part' = "periods" PROVE RegistersAreRows'
    OBVIOUS
  <2>1. part = "periods" /\ [P!Next]_(P!vars)
    BY DEF MonthNext, allVars, places, P!vars
  <2> QED
    BY <2>1, RegistersStayRows, MonthAssumption DEF MonthAssumption
<1>3. Inv => (part = "periods" => P!CleanMeansCovered)
  BY CleanPeriodsCover, MonthAssumption DEF MonthAssumption
<1> QED
  BY <1>1, <1>2, <1>3, PTL DEF MonthSpec

--------------------------------------------------------------------------------
(* Imports and syncs.                                                      *)

\* The checkpoint of a sync stays behind the data but for what slipped between two pages of a
\* sync, every end of a run is announced, and a retry of what was rejected removes nobody
\* (sync.py:21-25, connections.py:404-455, runs.py:190-202, imports.py:716-721), in either of
\* the two parts of a month that import.
THEOREM MonthLosesNothing ==
  MonthSpec => SyncsLoseNothing
<1>1. /\ I!Spec => []I!CheckpointBehindData
      /\ I!Spec => []I!EndedRunsAreAnnounced
      /\ I!Spec => I!RetryKeepsWhatWasStored
  <2>1. I!ImportsAssumption
    BY MonthAssumption DEF MonthAssumption
  <2> QED
    BY <2>1, I!CheckpointHolds, I!EndsAnnounced, I!RetriesKeep
<1>2. /\ T!Spec => []T!CheckpointBehindData
      /\ T!Spec => []T!EndedRunsAreAnnounced
      /\ T!Spec => T!RetryKeepsWhatWasStored
  <2>1. T!ImportsAssumption
    BY MonthAssumption DEF MonthAssumption
  <2> QED
    BY <2>1, T!CheckpointHolds, T!EndsAnnounced, T!RetriesKeep
<1>3. MonthInit => /\ part = "imports" => I!Init
                   /\ part = "takeovers" => T!Init
  BY DEF MonthInit
<1>4. /\ part = "imports" /\ [MonthNext]_allVars => (part = "imports")' /\ [I!Next]_(I!vars)
      /\ part = "takeovers" /\ [MonthNext]_allVars => (part = "takeovers")' /\ [T!Next]_(T!vars)
      /\ ~(part = "imports") /\ [MonthNext]_allVars => (~(part = "imports"))'
      /\ ~(part = "takeovers") /\ [MonthNext]_allVars => (~(part = "takeovers"))'
  BY DEF MonthNext, allVars, places, I!vars, T!vars
<1>5. /\ [I!RemovesNoOneOnRetry]_(I!vars) => [part = "imports" => I!RemovesNoOneOnRetry]_allVars
      /\ [T!RemovesNoOneOnRetry]_(T!vars) => [part = "takeovers" => T!RemovesNoOneOnRetry]_allVars
  <2>1. p6' = p6 => I!RemovesNoOneOnRetry /\ T!RemovesNoOneOnRetry
    BY DEF I!RemovesNoOneOnRetry, T!RemovesNoOneOnRetry
  <2> QED
    BY <2>1 DEF I!vars, T!vars
<1>6. /\ ~(part = "imports") => [part = "imports" => I!RemovesNoOneOnRetry]_allVars
      /\ ~(part = "takeovers") => [part = "takeovers" => T!RemovesNoOneOnRetry]_allVars
  OBVIOUS
<1>7. MonthSpec => [](part = "imports" => I!CheckpointBehindData /\ I!EndedRunsAreAnnounced)
  BY <1>1, <1>3, <1>4, PTL DEF MonthSpec, I!Spec
<1>8. MonthSpec => [](part = "takeovers" => T!CheckpointBehindData /\ T!EndedRunsAreAnnounced)
  BY <1>2, <1>3, <1>4, PTL DEF MonthSpec, T!Spec
<1>9. MonthSpec => [][part = "imports" => I!RemovesNoOneOnRetry]_allVars
  BY <1>1, <1>3, <1>4, <1>5, <1>6, PTL DEF MonthSpec, I!Spec, I!RetryKeepsWhatWasStored
<1>10. MonthSpec => [][part = "takeovers" => T!RemovesNoOneOnRetry]_allVars
  BY <1>2, <1>3, <1>4, <1>5, <1>6, PTL DEF MonthSpec, T!Spec, T!RetryKeepsWhatWasStored
<1> QED
  BY <1>7, <1>8, <1>9, <1>10 DEF SyncsLoseNothing

--------------------------------------------------------------------------------
(* The signature.                                                          *)

LEMMA MonthIsSignedOff == MonthSpec => Spec
<1>1. MonthInit => Init
  BY DEF MonthInit
<1>2. [MonthNext]_allVars => [Next]_vars
  BY DEF MonthNext, allVars, signoff, vars
<1> QED
  BY <1>1, <1>2, PTL DEF MonthSpec, Spec

\* A month is signed with a snapshot no older than the readiness it was judged by, and the trail
\* of its sign-off, of requests one at a time, is a chain (signoff.py), whatever else moves.
THEOREM MonthIsSigned ==
  ASSUME OneAtATime
  PROVE  MonthSpec => []SnapshotIsNoOlderThanItsReadiness /\ []TrailIsAChain
BY MonthIsSignedOff, SignedIsAsNewAsJudged, TrailHolds, PTL
================================================================================
