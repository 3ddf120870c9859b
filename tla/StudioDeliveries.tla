---------------------------- MODULE StudioDeliveries ----------------------------
(***************************************************************************)
(* The deliveries of events to a webhook: batches, retries, the failed     *)
(* queue and replays; the webhook, switched off and on, and its secret,    *)
(* with the receiver that checks signatures; and the calls that come in    *)
(* at an endpoint.                                                         *)
(*                                                                         *)
(*   services/studio/webhooks.py  deliver_due, _deliver_one, replay,       *)
(*                                fan_out (one delivery per webhook),      *)
(*                                update, rotate_secret, signing_secrets,  *)
(*                                receive                                  *)
(*   routers/studio.py            replay_failed, update_inbound            *)
(*                                                                         *)
(* A batch is at most twenty sends of at most fifteen seconds, and is put  *)
(* off for ten minutes: no live worker is still sending what another takes *)
(* again.                                                                  *)
(***************************************************************************)
EXTENDS Integers, FiniteSets

CONSTANTS
  Workers,       \* workers that send
  MaxAttempts,   \* StudioWebhook.max_attempts
  Admins,        \* requests that rotate the secret, at once
  Calls,         \* incoming calls under way at once
  Events,        \* the sender's event ids
  DeliveryBound, \* bound: deliveries, replays included
  SecretBound,   \* bound: secrets made
  CallBound,     \* bound: incoming calls
  CrashBound     \* bound: worker deaths

DeliveryAssumption ==
  /\ MaxAttempts \in Nat \ {0}
  /\ {DeliveryBound, CallBound, CrashBound} \subseteq Nat
  /\ SecretBound \in Nat \ {0}

Deliveries == 1..DeliveryBound
Secrets == 1..SecretBound
None == 0

VARIABLES
  delivery, \* studio_deliveries
  wk,       \* what each worker is doing
  heard,    \* how often the receiver heard of each delivery
  crashes,  \* worker deaths so far
  hook,     \* studio_webhooks: its status and its sealed secrets
  read,     \* the secret each rotation read as current
  issued,   \* secrets made so far
  receiver, \* the secret the receiver checks with, the one it was told last, and
            \* whether it was left behind: rotated again, or the overlap over, too soon
  open,     \* whether the inbound endpoint is active
  call,     \* the incoming calls under way
  receipt,  \* studio_inbound_receipts: the events taken
  taken,    \* import runs made of each event
  answered, \* events whose sender was told they were taken
  calls     \* incoming calls so far

sending == <<delivery, wk, heard, crashes>>
signing == <<hook, read, issued, receiver>>
inbound == <<open, call, receipt, taken, answered, calls>>
vars == <<sending, signing, inbound>>

\* `next` is next_attempt_at: past, still to come, or null.
Absent == [status |-> "absent", attempts |-> 0, next |-> "never"]
Pending == [status |-> "pending", attempts |-> 0, next |-> "due"]

\* `sent` is what the webhook answered to the one it is sending.
Idle == [batch |-> {}, at |-> None, sent |-> "no"]

\* A call that found no receipt, and then holds one it has not committed.
NoCall == [at |-> "none"]

Init ==
  /\ delivery = [d \in Deliveries |-> Absent]
  /\ wk = [w \in Workers |-> Idle]
  /\ heard = [d \in Deliveries |-> 0]
  /\ crashes = 0
  /\ hook = [active |-> TRUE, current |-> 1, previous |-> None]
  /\ read = [a \in Admins |-> None]
  /\ issued = 1
  /\ receiver = [holds |-> 1, told |-> 1, behind |-> FALSE]
  /\ open = TRUE
  /\ call = [c \in Calls |-> NoCall]
  /\ receipt = {}
  /\ taken = [e \in Events |-> 0]
  /\ answered = {}
  /\ calls = 0

--------------------------------------------------------------------------------
NextDelivery == {d \in Deliveries : delivery[d].status = "absent"
                                    /\ \A c \in 1..(d - 1) : delivery[c].status # "absent"}

\* fan_out: an active webhook that subscribes to the event.
Subscribed ==
  /\ hook.active
  /\ \E d \in NextDelivery : delivery' = [delivery EXCEPT ![d] = Pending]
  /\ UNCHANGED <<wk, heard, crashes, signing, inbound>>

\* replay: the same event, as a new delivery, whatever became of the first.
Replay(c) ==
  /\ delivery[c].status # "absent"
  /\ \E d \in NextDelivery : delivery' = [delivery EXCEPT ![d] = Pending]
  /\ UNCHANGED <<wk, heard, crashes, signing, inbound>>

\* replay_failed: all of the failed queue, which is emptied.
ReplayFailed ==
  LET failed == {d \in Deliveries : delivery[d].status = "failed"}
      again == {d \in Deliveries : \E first \in NextDelivery :
                  d >= first /\ d < first + Cardinality(failed)} IN
  /\ failed # {} /\ Cardinality(again) = Cardinality(failed)
  /\ delivery' = [d \in Deliveries |->
                    IF d \in again THEN Pending
                    ELSE IF d \in failed THEN [delivery[d] EXCEPT !.status = "replayed"]
                    ELSE delivery[d]]
  /\ UNCHANGED <<wk, heard, crashes, signing, inbound>>

InBatches == UNION {wk[w].batch : w \in Workers}

TimePasses(d) ==
  /\ delivery[d].next = "later" /\ d \notin InBatches
  /\ delivery' = [delivery EXCEPT ![d].next = "due"]
  /\ UNCHANGED <<wk, heard, crashes, signing, inbound>>

\* Mutant of PutOff: a claimed delivery has no next attempt.
PutOffForGood(d) == [delivery[d] EXCEPT !.next = "never"]
PutOff(d) == [delivery[d] EXCEPT !.next = "later"]

\* deliver_due: what is due is put off and that is committed, before any is sent.
TakeDue(w) ==
  LET due == {d \in Deliveries : delivery[d].status = "pending" /\ delivery[d].next = "due"} IN
  /\ wk[w] = Idle /\ due # {}
  /\ wk' = [wk EXCEPT ![w].batch = due]
  /\ delivery' = [d \in Deliveries |-> IF d \in due THEN PutOff(d) ELSE delivery[d]]
  /\ UNCHANGED <<heard, crashes, signing, inbound>>

\* signing_secrets: the old secret signs too, until its overlap ends.
SigningSecrets == {hook.current, hook.previous} \ {None}

\* The request goes out, whether or not the webhook was switched off meanwhile: it is
\* heard and accepted, heard and not accepted (another status, an answer that is lost,
\* or no signature the receiver can check), or never heard.
Send(w) ==
  /\ wk[w].at = None
  /\ \E d \in wk[w].batch, sent \in {"accepted", "refused", "unheard"} :
       /\ sent = "accepted" => receiver.holds \in SigningSecrets
       /\ wk' = [wk EXCEPT ![w].at = d, ![w].sent = sent]
       /\ heard' = IF sent = "unheard" THEN heard ELSE [heard EXCEPT ![d] = @ + 1]
  /\ UNCHANGED <<delivery, crashes, signing, inbound>>

\* Mutant of Attempt: only what was answered counts as an attempt.
AttemptAnswered(d, sent) == delivery[d].attempts + (IF sent = "accepted" THEN 1 ELSE 0)
Attempt(d, sent) == delivery[d].attempts + 1

\* Delivered; in the failed queue once it was tried max_attempts times; or tried
\* again after its backoff.
Outcome(d, sent) ==
  CASE sent = "accepted" -> [status |-> "delivered", attempts |-> Attempt(d, sent), next |-> "never"]
    [] sent # "accepted" /\ Attempt(d, sent) >= MaxAttempts ->
         [status |-> "failed", attempts |-> Attempt(d, sent), next |-> "never"]
    [] OTHER -> [status |-> "pending", attempts |-> Attempt(d, sent), next |-> "later"]

\* _deliver_one commits the outcome, and the batch goes on.
Record(w) ==
  LET d == wk[w].at IN
  /\ d # None
  /\ delivery' = [delivery EXCEPT ![d] = Outcome(d, wk[w].sent)]
  /\ wk' = [wk EXCEPT ![w] = [batch |-> @.batch \ {d}, at |-> None, sent |-> "no"]]
  /\ UNCHANGED <<heard, crashes, signing, inbound>>

\* The worker dies, or something unforeseen is raised and ends its batch: what it
\* has not recorded it has not counted.
Crash(w) ==
  /\ wk[w] # Idle /\ crashes < CrashBound
  /\ crashes' = crashes + 1
  /\ wk' = [wk EXCEPT ![w] = Idle]
  /\ UNCHANGED <<delivery, heard, signing, inbound>>

--------------------------------------------------------------------------------
\* update: the webhook is switched off or on.
Update ==
  /\ hook' = [hook EXCEPT !.active = ~@]
  /\ UNCHANGED <<read, issued, receiver, sending, inbound>>

\* rotate_secret reads the current secret ...
RotateReads(a) ==
  /\ read[a] = None /\ issued < SecretBound
  /\ read' = [read EXCEPT ![a] = hook.current]
  /\ UNCHANGED <<hook, issued, receiver, sending, inbound>>

Rotated(old, overlap) ==
  [hook EXCEPT !.current = issued + 1, !.previous = IF overlap THEN old ELSE None]

\* ... and writes the new one, the old beside it for an overlap if there is to be one,
\* and the receiver is told. A receiver that had not moved from the secret before, or
\* was told of one that this rotation did not see, is left behind.
RotateWrites(a, overlap) ==
  /\ read[a] # None /\ issued < SecretBound
  /\ hook' = Rotated(read[a], overlap)
  /\ issued' = issued + 1
  /\ receiver' = [receiver EXCEPT !.told = issued + 1,
                     !.behind = @ \/ ~overlap \/ receiver.holds # read[a] \/ hook.current # read[a]]
  /\ read' = [read EXCEPT ![a] = None]
  /\ UNCHANGED <<sending, inbound>>

\* The rotation is refused (the overlap, the vault), or its process dies.
RotateFails(a) ==
  /\ read[a] # None
  /\ read' = [read EXCEPT ![a] = None]
  /\ UNCHANGED <<hook, issued, receiver, sending, inbound>>

OverlapEnds ==
  /\ hook.previous # None
  /\ hook' = [hook EXCEPT !.previous = None]
  /\ receiver' = [receiver EXCEPT !.behind = @ \/ receiver.holds = hook.previous]
  /\ UNCHANGED <<read, issued, sending, inbound>>

\* The receiver moves to the secret it was told last.
ReceiverMoves ==
  /\ receiver.holds # receiver.told
  /\ receiver' = [receiver EXCEPT !.holds = receiver.told, !.behind = FALSE]
  /\ UNCHANGED <<hook, read, issued, sending, inbound>>

--------------------------------------------------------------------------------
\* update_inbound
UpdateInbound ==
  /\ open' = ~open
  /\ UNCHANGED <<call, receipt, taken, answered, calls, sending, signing>>

\* receive: of an active endpoint; an event that has a receipt is a duplicate, and its
\* sender may hear so. What is not signed, or is no submission, changes nothing.
Receive(c, e) ==
  /\ open /\ call[c] = NoCall /\ calls < CallBound
  /\ calls' = calls + 1
  /\ IF e \in receipt
       THEN answered' \in {answered, answered \cup {e}} /\ call' = call
       ELSE call' = [call EXCEPT ![c] = [at |-> "new", event |-> e]] /\ answered' = answered
  /\ UNCHANGED <<open, receipt, taken, sending, signing>>

Held(e) == \E c \in Calls : call[c].at = "holds" /\ call[c].event = e

\* The receipt goes in, under its unique index: one that is not committed is waited
\* for, and one that is makes this call a duplicate.
Flush(c) ==
  LET e == call[c].event IN
  /\ call[c].at = "new" /\ ~Held(e)
  /\ IF e \in receipt
       THEN /\ call' = [call EXCEPT ![c] = NoCall]
            /\ answered' \in {answered, answered \cup {e}}
       ELSE call' = [call EXCEPT ![c].at = "holds"] /\ answered' = answered
  /\ UNCHANGED <<open, receipt, taken, calls, sending, signing>>

\* The run, the receipt and the event are committed, and the sender may hear of it.
CallCommits(c) ==
  LET e == call[c].event IN
  /\ call[c].at = "holds"
  /\ receipt' = receipt \cup {e}
  /\ taken' = [taken EXCEPT ![e] = @ + 1]
  /\ answered' \in {answered, answered \cup {e}}
  /\ call' = [call EXCEPT ![c] = NoCall]
  /\ UNCHANGED <<open, calls, sending, signing>>

\* It is refused after all, or its process dies: all of it is rolled back.
CallFails(c) ==
  /\ call[c] # NoCall
  /\ call' = [call EXCEPT ![c] = NoCall]
  /\ UNCHANGED <<open, receipt, taken, answered, calls, sending, signing>>

--------------------------------------------------------------------------------
Works(w) == TakeDue(w) \/ Send(w) \/ Record(w)

Delivers ==
  \/ Subscribed \/ ReplayFailed
  \/ \E d \in Deliveries : Replay(d) \/ TimePasses(d)
  \/ \E w \in Workers : Works(w) \/ Crash(w)

Signs ==
  \/ Update \/ OverlapEnds \/ ReceiverMoves
  \/ \E a \in Admins : \/ RotateReads(a) \/ RotateFails(a)
                        \/ \E overlap \in BOOLEAN : RotateWrites(a, overlap)

TakesIn ==
  \/ UpdateInbound
  \/ \E c \in Calls : \/ Flush(c) \/ CallCommits(c) \/ CallFails(c)
                       \/ \E e \in Events : Receive(c, e)

Next == Delivers \/ Signs \/ TakesIn

\* A worker's loop goes round, a request ends (it has a timeout), and time passes.
Fairness ==
  /\ \A w \in Workers : WF_vars(Works(w))
  /\ \A d \in Deliveries : WF_vars(TimePasses(d))

Spec == Init /\ [][Next]_vars /\ Fairness

--------------------------------------------------------------------------------
TypeOK ==
  /\ delivery \in [Deliveries -> [status : {"absent", "pending", "delivered", "failed", "replayed"},
                                  attempts : 0..MaxAttempts, next : {"due", "later", "never"}]]
  /\ wk \in [Workers -> [batch : SUBSET Deliveries, at : Deliveries \cup {None},
                         sent : {"no", "accepted", "refused", "unheard"}]]
  /\ heard \in [Deliveries -> Nat]
  /\ crashes \in 0..CrashBound
  /\ hook \in [active : BOOLEAN, current : Secrets, previous : Secrets \cup {None}]
  /\ read \in [Admins -> Secrets \cup {None}]
  /\ issued \in Secrets
  /\ receiver \in [holds : Secrets, told : Secrets, behind : BOOLEAN]
  /\ open \in BOOLEAN
  /\ call \in [Calls -> {NoCall} \cup [at : {"new", "holds"}, event : Events]]
  /\ receipt \subseteq Events /\ answered \subseteq Events
  /\ taken \in [Events -> Nat]
  /\ calls \in 0..CallBound

\* "Delivery is at least once" (webhooks.py:4) and ends: what is called delivered was
\* heard, and no delivery is heard more often than max_attempts and the workers
\* that died with an attempt uncounted allow.
HeardAtLeastOnceAndNotForEver ==
  \A d \in Deliveries :
    /\ delivery[d].status = "delivered" => heard[d] > 0
    /\ heard[d] <= MaxAttempts + crashes

\* "During a secret rotation the header carries a v1 for the old secret too, until the
\* overlap ends" (webhooks.py:15-16): a receiver that keeps up can check every
\* delivery, before and after it moves.
SignedForItsReceiver == receiver.behind \/ receiver.holds \in SigningSecrets

\* "A second call with the same id is answered as a duplicate and starts nothing"
\* (webhooks.py:19-21): however calls overlap, fail and are sent again, an event
\* starts at most one run, and a sender that was told it is in may stop sending.
TakenOnce ==
  /\ \A e \in Events : taken[e] = IF e \in receipt THEN 1 ELSE 0
  /\ answered \subseteq receipt

\* Every delivery is delivered or moves to the failed queue, where a person can
\* replay it, whichever worker dies with it in its batch (webhooks.py:6-8).
EveryDeliveryEnds == <>[](\A d \in Deliveries : delivery[d].status # "pending")
================================================================================
