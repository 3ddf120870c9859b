---------------------------- MODULE StudioAutomation ----------------------------
(***************************************************************************)
(* The outbox and what it sets off: events, the dispatchers that fan them  *)
(* out, and the workflows that start on them and cause further events.     *)
(*                                                                         *)
(*   services/studio/events.py     emit                                    *)
(*   services/studio/webhooks.py   fan_out                                 *)
(*   services/studio/workflows.py  on_event, fire, start_manual,           *)
(*                                 schedule_due, _finish                   *)
(*                                                                         *)
(* A dispatcher handles its batch in one transaction.  Rows it writes are  *)
(* seen by the others once it commits; the unique index on the fire key    *)
(* makes a second writer of one key wait for the first.  What a run does   *)
(* between its start and its end is StudioWorkflows.                       *)
(***************************************************************************)
EXTENDS Integers, SequencesExt

CONSTANTS
  Dispatchers,  \* workers that fan out
  Flows,        \* the workflows of one company
  Trigger,      \* what starts each: "inputs.ready", "workflow.finished" or "none"
  Syncing,      \* those whose steps import records
  MaxDepth,     \* MAX_DEPTH
  InputBound,   \* bound: different inputs of the month
  OutsideBound, \* bound: imports and starts from outside
  EventBound,   \* bound: events
  RollbackBound \* bound: dispatchers that die

AutomationAssumption ==
  /\ IsFiniteSet(Flows)
  /\ Trigger \in [Flows -> {"inputs.ready", "workflow.finished", "none"}]
  /\ Syncing \subseteq Flows
  /\ MaxDepth \in Nat \ {0}
  /\ {InputBound, OutsideBound, EventBound, RollbackBound} \subseteq Nat

Events == 1..EventBound
None == "none"
Nobody == [flow |-> None, depth |-> 0]   \* the causation of what a person did
NoInputs == 0

VARIABLES
  event,    \* studio_events, in the order of their creation
  run,      \* the workflow runs
  fires,    \* studio_workflow_fires: flow and trigger key
  inputs,   \* the digest of the month's inputs, 0 while a required one is missing
  tx,       \* the transaction of each dispatcher
  outside,  \* starts and imports from outside so far
  deaths    \* dispatchers that died in a transaction

vars == <<event, run, fires, inputs, tx, outside, deaths>>

\* `todo` are the locked events still to be handled, `took` those handled, `new`
\* the fires flushed, `waits` the keys it waits for.
NoTx == [todo |-> {}, took |-> {}, new |-> {}, waits |-> {}]

Init ==
  /\ event = <<>>
  /\ run = <<>>
  /\ fires = {}
  /\ inputs = NoInputs
  /\ tx = [d \in Dispatchers |-> NoTx]
  /\ outside = 0
  /\ deaths = 0

--------------------------------------------------------------------------------
(* Starting a run.                                                         *)

\* The flows that led to an event, kept for the properties.
ChainOf(e) == IF event[e].run = 0 THEN <<>> ELSE run[event[e].run].chain

\* Mutant of Causation: the depth of the chain is not carried on.
CausationFlat(flow, cause) == [flow |-> flow, depth |-> 1]
Causation(flow, cause) == [flow |-> flow, depth |-> cause.depth + 1]

\* `on` is what it started on, kept for the properties: the inputs, an event or nothing.
NewRun(flow, cause, chain, on) ==
  [flow |-> flow, causation |-> Causation(flow, cause), chain |-> Append(chain, flow), on |-> on, at |-> "running"]

\* fire's refusals, but for the hour's limit.
Refused(flow, cause) ==
  \/ cause.flow = flow
  \/ cause.depth >= MaxDepth

\* Mutant of Seen: left to the unique index.
SeenNever(fire, known) == FALSE
Seen(fire, known) == fire \in known

\* start_manual and schedule_due: a key nobody else has, and no cause.
Start(f) ==
  /\ outside < OutsideBound
  /\ run' = Append(run, NewRun(f, Nobody, <<>>, <<"outside", outside>>))
  /\ outside' = outside + 1
  /\ UNCHANGED <<event, fires, inputs, tx, deaths>>

--------------------------------------------------------------------------------
(* Events.                                                                 *)

Emitted(type, r) ==
  [type |-> type, run |-> r, cause |-> IF r = 0 THEN Nobody ELSE run[r].causation, dispatched |-> FALSE]

\* An import lands and says so; the inputs may be what they were, or what they
\* were before that.
Lands(r) ==
  /\ Len(event) < EventBound
  /\ \E i \in 1..InputBound : inputs' = i
  /\ event' = Append(event, Emitted("inputs.ready", r))

Import ==
  /\ outside < OutsideBound /\ outside' = outside + 1
  /\ Lands(0)
  /\ UNCHANGED <<run, fires, tx, deaths>>

\* The sync of a run, with the causation of the run.
RunImports(r) ==
  /\ run[r].at = "running" /\ run[r].flow \in Syncing
  /\ Lands(r)
  /\ run' = [run EXCEPT ![r].at = "synced"]
  /\ UNCHANGED <<fires, tx, outside, deaths>>

RunFinishes(r) ==
  /\ run[r].at = "running" \/ run[r].at = "synced"
  /\ Len(event) < EventBound
  /\ event' = Append(event, Emitted("workflow.finished", r))
  /\ run' = [run EXCEPT ![r].at = "over"]
  /\ UNCHANGED <<fires, inputs, tx, outside, deaths>>

--------------------------------------------------------------------------------
(* The dispatchers.                                                        *)

Locked == UNION {tx[d].todo \cup tx[d].took : d \in Dispatchers}
Undispatched == {e \in DOMAIN event : ~event[e].dispatched}

\* FOR UPDATE SKIP LOCKED.
Take(d) ==
  /\ tx[d] = NoTx
  /\ Undispatched \ Locked # {}
  /\ tx' = [tx EXCEPT ![d].todo = Undispatched \ Locked]
  /\ UNCHANGED <<event, run, fires, inputs, outside, deaths>>

\* What an event starts a flow on.
On(f, e) == IF Trigger[f] = "inputs.ready" THEN <<"inputs", inputs>> ELSE <<"event", e>>

\* Mutant of Key: inputs fire by the event that said so.
KeyOfEvent(f, e) == <<"event", e>>
Key(f, e) == IF Trigger[f] = "inputs.ready" THEN <<"ready", inputs>> ELSE <<"event", e>>

\* on_event: the flows that event e may start, and the fire of each.
Starts(d, e) ==
  {[flow |-> f, key |-> Key(f, e), by |-> e, on |-> On(f, e)] :
     f \in {g \in Flows : /\ Trigger[g] = event[e].type
                          /\ Trigger[g] = "inputs.ready" => inputs # NoInputs
                          /\ ~Refused(g, event[e].cause)
                          /\ ~Seen(<<g, Key(g, e)>>, fires \cup {<<x.flow, x.key>> : x \in tx[d].new})}}

Keys(starts) == {<<x.flow, x.key>> : x \in starts}
HeldByOthers(d) == UNION {Keys(tx[c].new) : c \in Dispatchers \ {d}}

\* The next event of the batch.  A flow it would start may be out of force, past its
\* hour's limit, or no longer its publisher's to run.  A key that another
\* transaction has written and not committed makes this one wait.
Handle(d) ==
  /\ tx[d].todo # {} /\ tx[d].waits = {}
  /\ LET e == Min(tx[d].todo) IN
     \E new \in SUBSET Starts(d, e) :
       \/ /\ Keys(new) \cap HeldByOthers(d) # {}
          /\ tx' = [tx EXCEPT ![d].waits = Keys(new)]
       \/ /\ Keys(new) \cap HeldByOthers(d) = {}
          /\ Keys(new) \cap (fires \cup Keys(tx[d].new)) # {}   \* the unique index refuses it
          /\ tx' = [tx EXCEPT ![d] = NoTx]
       \/ /\ Keys(new) \cap (HeldByOthers(d) \cup fires \cup Keys(tx[d].new)) = {}
          /\ tx' = [tx EXCEPT ![d].todo = @ \ {e}, ![d].took = @ \cup {e}, ![d].new = @ \cup new]
  /\ UNCHANGED <<event, run, fires, inputs, outside, deaths>>

\* The other committed, and the unique index refuses the whole batch; or each waits
\* for the other, and the database refuses one.
IsRefused(d) ==
  \/ tx[d].waits \cap fires # {}
  \/ \E c \in Dispatchers \ {d} : /\ tx[d].waits \cap Keys(tx[c].new) # {}
                                 /\ tx[c].waits \cap Keys(tx[d].new) # {}

StopsWaiting(d) ==
  /\ tx[d].waits # {}
  /\ \/ IsRefused(d) /\ tx' = [tx EXCEPT ![d] = NoTx]
     \/ /\ tx[d].waits \cap (fires \cup HeldByOthers(d)) = {}   \* the other rolled back
        /\ tx' = [tx EXCEPT ![d].waits = {}]
  /\ UNCHANGED <<event, run, fires, inputs, outside, deaths>>

\* The fires, their runs and the events' dispatched_at, in one commit.
Commit(d) ==
  /\ tx[d].todo = {} /\ tx[d].took # {}
  /\ LET starts == SetToSeq(tx[d].new) IN
     run' = run \o [i \in DOMAIN starts |->
                      NewRun(starts[i].flow, event[starts[i].by].cause, ChainOf(starts[i].by), starts[i].on)]
  /\ fires' = fires \cup Keys(tx[d].new)
  /\ event' = [e \in DOMAIN event |-> IF e \in tx[d].took THEN [event[e] EXCEPT !.dispatched = TRUE] ELSE event[e]]
  /\ tx' = [tx EXCEPT ![d] = NoTx]
  /\ UNCHANGED <<inputs, outside, deaths>>

Dies(d) ==
  /\ tx[d] # NoTx /\ deaths < RollbackBound
  /\ deaths' = deaths + 1
  /\ tx' = [tx EXCEPT ![d] = NoTx]
  /\ UNCHANGED <<event, run, fires, inputs, outside>>

--------------------------------------------------------------------------------
FanOut(d) == Take(d) \/ Handle(d) \/ StopsWaiting(d) \/ Commit(d)

Next ==
  \/ Import
  \/ \E f \in Flows : Start(f)
  \/ \E r \in DOMAIN run : RunImports(r) \/ RunFinishes(r)
  \/ \E d \in Dispatchers : FanOut(d) \/ Dies(d)

\* The dispatcher's loop goes round, and a database transaction ends.
Fairness == \A d \in Dispatchers : WF_vars(FanOut(d))

Spec == Init /\ [][Next]_vars /\ Fairness

--------------------------------------------------------------------------------
TypeOK ==
  /\ Len(event) <= EventBound /\ outside <= OutsideBound /\ deaths <= RollbackBound
  /\ \A e \in DOMAIN event : event[e].run \in 0..Len(run) /\ event[e].dispatched \in BOOLEAN
  /\ \A r \in DOMAIN run : run[r].flow \in Flows /\ run[r].at \in {"running", "synced", "over"}
  /\ fires \subseteq Flows \X ({"event"} \X Events \cup {"ready"} \X (1..InputBound))
  /\ inputs \in 0..InputBound
  /\ \A d \in Dispatchers : tx[d].todo \cup tx[d].took \subseteq DOMAIN event

\* "a workflow never fires on an event its own runs caused, a chain" of them ends
\* (workflows.py:23): whatever starts on what, no run follows more than MaxDepth
\* others and none follows at once on one of its own flow.
ChainsEnd ==
  \A r \in DOMAIN run :
    LET c == run[r].chain IN
    /\ Len(c) <= MaxDepth
    /\ \A i \in 1..(Len(c) - 1) : c[i] # c[i + 1]

\* "the same inputs never fire twice" (workflows.py:549), whoever dispatches the
\* events that say they are ready, and an event starts a flow once.
FiresOnce ==
  \A r, q \in DOMAIN run : r # q => <<run[r].flow, run[r].on>> # <<run[q].flow, run[q].on>>

\* Once nothing more is emitted, every event has been dispatched: the batches that
\* the index refused or that died with their worker were taken again (fan_out).
OutboxDrains == <>[](Undispatched = {})
================================================================================
