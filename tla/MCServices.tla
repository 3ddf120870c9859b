------------------------------- MODULE MCServices -------------------------------
(***************************************************************************)
(* Components that share no state with each other or with the rest,        *)
(* checked side by side: a behaviour of this module is a behaviour of one  *)
(* of them, `part`, while the others stand still.                          *)
(***************************************************************************)
EXTENDS StudioRequests, Sequences

CONSTANTS
  Workers,
  ReportAttempts, JobBound, ReportClaims, ReportCrashes, DueBound,                      \* ReportJobs
  Flows, FlowTrigger, Syncing, MaxDepth, InputBound, OutsideBound, EventBound, Deaths,  \* StudioAutomation
  DeliveryAttempts, Admins, Calls, Incoming, DeliveryBound, SecretBound, CallBound, DeliveryCrashes, \* StudioDeliveries
  Specs, MappingVersions, CreateBound, ReleaseRollbacks,                                \* StudioReleases
  RuleKeys, Demands, RuleMonths, RuleDrafts,                                            \* RuleVersions
  Editors, FinancialYears, BaseEdits, ConfigMonths, ConfigDrafts                        \* ConfigVersions

VARIABLES
  part,
  rJob, rWk, rAsked, rAccess, rSchedule, rCrashes,
  aEvent, aRun, aFires, aInputs, aTx, aOutside, aDeaths,
  dDelivery, dWk, dHeard, dCrashes, dHook, dRead, dIssued, dReceiver,
  dOpen, dCall, dReceipt, dTaken, dAnswered, dCalls,
  lVersion, lRel, lLater,
  mRule, mExtended,
  eRule, eRow,
  cBase, cRq, cSaves, cOnRecord, cOddly, cVersion, cValidated, cTold

\* No worker that lives outlasts the lease of its report.
R == INSTANCE ReportJobs WITH
  MaxAttempts <- ReportAttempts, Prompt <- TRUE, ClaimBound <- ReportClaims, CrashBound <- ReportCrashes,
  job <- rJob, wk <- rWk, asked <- rAsked, access <- rAccess, schedule <- rSchedule, crashes <- rCrashes

\* One flow starts when inputs are ready, the other when a flow is over.
ReadyAndAfter == [ready |-> "inputs.ready", after |-> "workflow.finished"]

A == INSTANCE StudioAutomation WITH
  Dispatchers <- Workers, Trigger <- FlowTrigger, RollbackBound <- Deaths,
  event <- aEvent, run <- aRun, fires <- aFires, inputs <- aInputs, tx <- aTx, outside <- aOutside, deaths <- aDeaths

D == INSTANCE StudioDeliveries WITH
  MaxAttempts <- DeliveryAttempts, Events <- Incoming, CrashBound <- DeliveryCrashes,
  delivery <- dDelivery, wk <- dWk, heard <- dHeard, crashes <- dCrashes,
  hook <- dHook, read <- dRead, issued <- dIssued, receiver <- dReceiver,
  open <- dOpen, call <- dCall, receipt <- dReceipt, taken <- dTaken, answered <- dAnswered, calls <- dCalls

L == INSTANCE StudioReleases WITH
  VersionBound <- MappingVersions, RollbackBound <- ReleaseRollbacks,
  version <- lVersion, rel <- lRel, later <- lLater

M == INSTANCE RuleVersions WITH
  Keys <- RuleKeys, MonthBound <- RuleMonths, VersionBound <- RuleDrafts,
  rule <- mRule, extended <- mExtended

\* Rules to try: every kind of operand, comparison, group and scope.
Test(operand, op) == [kind |-> "comparison", left |-> operand, op |-> op]
GroupOf(mode, negate, items) == [kind |-> "group", mode |-> mode, negate |-> negate, items |-> items]

Conditions ==
  {<<>>, <<Test("x", "eq")>>}
    \cup {<<GroupOf(mode, negate, {2, 3, 4}), Test("x", "gt"), Test("y", "present"), Test("x / y", "eq")>> :
             mode \in {"all", "any"}, negate \in BOOLEAN}
    \cup {<<GroupOf(mode, TRUE, {2, 5}), GroupOf("all", TRUE, {3, 4}), Test("x", "gt"), Test("y", "eq"), Test("x / y", "gt")>> :
             mode \in {"all", "any"}}

TriedRules ==
  [condition : Conditions, assertion : {Test("x", "eq"), Test("x / y", "gt")}, state : {"any", "KA"},
   departments : {{}, {"Sales"}}, onMissing : {"cannot_validate", "skip", "fail"}]

E == INSTANCE RuleEvaluation WITH Rules <- TriedRules, rule <- eRule, row <- eRow

\* The versions of a configuration, and the requests for its base, each by itself.
C == INSTANCE ConfigVersions WITH
  Sessions <- Editors, Years <- FinancialYears, MonthBound <- ConfigMonths, VersionBound <- ConfigDrafts, SaveBound <- 0,
  base <- cBase, rq <- cRq, saves <- cSaves, onRecord <- cOnRecord, oddly <- cOddly,
  version <- cVersion, validated <- cValidated, told <- cTold

B == INSTANCE ConfigVersions WITH
  Sessions <- Editors, Years <- FinancialYears, MonthBound <- 0, VersionBound <- 0, SaveBound <- BaseEdits,
  base <- cBase, rq <- cRq, saves <- cSaves, onRecord <- cOnRecord, oddly <- cOddly,
  version <- cVersion, validated <- cValidated, told <- cTold

ASSUME ServicesAssumption ==
  /\ R!ReportAssumption /\ A!AutomationAssumption /\ D!DeliveryAssumption
  /\ L!ReleaseAssumption /\ M!RuleAssumption /\ C!ConfigAssumption /\ B!ConfigAssumption

reports == <<rJob, rWk, rAsked, rAccess, rSchedule, rCrashes>>
automation == <<aEvent, aRun, aFires, aInputs, aTx, aOutside, aDeaths>>
deliveries == <<dDelivery, dWk, dHeard, dCrashes, dHook, dRead, dIssued, dReceiver,
                dOpen, dCall, dReceipt, dTaken, dAnswered, dCalls>>
requests == <<record, rq, made, today>>
releases == <<lVersion, lRel, lLater>>
rules == <<mRule, mExtended>>
verdicts == <<eRule, eRow>>
configuration == <<cBase, cRq, cSaves, cOnRecord, cOddly, cVersion, cValidated, cTold>>

Parts == {"reports", "automation", "deliveries", "hooks", "requests", "releases",
          "rules", "verdicts", "configuration", "base"}

allVars == <<part, reports, automation, deliveries, requests, releases,
          rules, verdicts, configuration>>

ServicesInit ==
  /\ part \in Parts
  /\ Init /\ R!Init /\ A!Init /\ D!Init /\ L!Init /\ M!Init /\ E!Init /\ C!Init

ServicesNext ==
  /\ UNCHANGED part
  /\ \/ part = "reports" /\ R!Next
       /\ UNCHANGED <<automation, deliveries, requests, releases, rules, verdicts, configuration>>
     \/ part = "automation" /\ A!Next
       /\ UNCHANGED <<reports, deliveries, requests, releases, rules, verdicts, configuration>>
     \* A webhook's deliveries while it is switched off and on; its secret; its calls.
     \/ /\ \/ part = "deliveries" /\ (D!Delivers \/ D!Update)
           \/ part = "hooks" /\ (D!Signs \/ D!TakesIn)
       /\ UNCHANGED <<reports, automation, requests, releases, rules, verdicts, configuration>>
     \/ part = "requests" /\ Next
       /\ UNCHANGED <<reports, automation, deliveries, releases, rules, verdicts, configuration>>
     \/ part = "releases" /\ L!Next
       /\ UNCHANGED <<reports, automation, deliveries, requests, rules, verdicts, configuration>>
     \/ part = "rules" /\ M!Next
       /\ UNCHANGED <<reports, automation, deliveries, requests, releases, verdicts, configuration>>
     \/ part = "verdicts" /\ E!Next
       /\ UNCHANGED <<reports, automation, deliveries, requests, releases, rules, configuration>>
     \/ /\ \/ part = "configuration" /\ C!Next
           \/ part = "base" /\ B!Next
        /\ UNCHANGED <<reports, automation, deliveries, requests, releases, rules, verdicts>>

\* The fairness of each component, while it is the one that moves.
Fairness ==
  /\ \A w \in Workers : /\ WF_(reports)(part = "reports" /\ R!Claim(w))
                        /\ WF_(reports)(part = "reports" /\ R!Process(w))
                        /\ WF_(automation)(part = "automation" /\ A!FanOut(w))
                        /\ WF_(deliveries)(part = "deliveries" /\ D!Works(w))
  /\ \A d \in D!Deliveries : WF_(deliveries)(part = "deliveries" /\ D!TimePasses(d))

ServicesSpec == ServicesInit /\ [][ServicesNext]_allVars /\ Fairness

--------------------------------------------------------------------------------
\* What each component says of itself; its module states it in full. An
\* invariant is asked of a component while it is the one that moves. AtMostOncePerKey,
\* of StudioRequests, is asked by its own name.

\* A generated report file is never replaced (models/report_job.py:3).
GeneratedFilesStay == R!GeneratedFilesStay

\* Workflows that start one another end, and the same inputs or the same event start
\* one once (workflows.py:23, workflows.on_event).
ChainsEndAndFireOnce == part = "automation" => A!ChainsEnd /\ A!FiresOnce

\* Deliveries are at least once and boundedly many (webhooks.py:4), signed for a receiver
\* that keeps up with the rotations, and what comes in is taken once (webhooks.py:15-21).
HeardAtLeastOnceAndNotForEver ==
  part \in {"deliveries", "hooks"} =>
    D!HeardAtLeastOnceAndNotForEver /\ D!SignedForItsReceiver /\ D!TakenOnce

\* Nothing is left waiting: a report that was asked for ends (report_jobs.run_once),
\* every event is dispatched (webhooks.fan_out), and every delivery is delivered or
\* moves to the failed queue (webhooks.deliver_due).
NothingWaitsForEver == R!EveryReportEnds /\ A!OutboxDrains /\ D!EveryDeliveryEnds

\* A rollback restores what the release found in force (releases.rollback).
RollbackRestores == L!RollbackRestores

\* A re-run of an old month uses the rule that applied then, and no month is
\* validated by two rules no value satisfies (published_for, publish, conflicts).
MonthsKeepOneRule ==
  M!OldMonthsKeepTheirRule /\ [](part = "rules" => M!NoMonthContradictsItself)

\* A missing input is unknown, never false (services/validation_matrix.py:14).
DecidedStaysDecided == E!DecidedStaysDecided

\* Publishing a configuration marks exactly the months it changes (_affected); a save of
\* its base rewrites what it changes, the records of such saves add up to what is in force,
\* and a tax year goes only where somebody sent it (_keep_stored_form, _record_change,
\* delete_tax_year).
AffectedAreWhatChanges ==
  /\ C!AffectedAreWhatChanges /\ B!UntouchedStaysAsWritten /\ B!OtherYearsStay
  /\ [](part = "base" => B!RecordsAddUp /\ B!PreferredYearIsThere)
================================================================================
