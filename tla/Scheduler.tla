----------------------------- MODULE Scheduler -----------------------------
(***************************************************************************)
(* The background work of one tenant: scheduler processes that share the   *)
(* durable queues of due timers, pending effects (FFI calls), recorded     *)
(* effect responses and runnable instances.  A pass of a process fires the *)
(* due timers, dispatches the pending effects, applies the responses and   *)
(* ticks the runnable instances; every committed tick dispatches again.    *)
(* Starting up, a process runs the recovery: the same timers and effects,  *)
(* and the search for interrupted calls.                                   *)
(*                                                                         *)
(* An instance has one fibre that meets the waits of its Plan in turn; the *)
(* timer and the effect of the p-th wait are the rows <<i, p>>.  A         *)
(* transition commits in one step (TransitionStore), or finds the instance *)
(* leased by another operation or quarantined.  Claim tokens are minted    *)
(* per batch by a process that works through one batch at a time, so the   *)
(* process stands for its token.                                           *)
(***************************************************************************)
EXTENDS Integers, Sequences

CONSTANTS Instances, Schedulers, None,
          Plan,            \* the waits of each instance
          Due,             \* the due date of each row
          NonIdempotent,   \* instances that call a non-idempotent template
          MaxAttempts,     \* max_attempts of the artifact's retry policy
          Answers,         \* what a callee may answer
          MaxReady,        \* bound on the ready activations counted
          Mortal,          \* the processes that may crash
          Faults,          \* the disturbances that may happen ...
          MaxFaults        \* ... and how many of them

Kinds == {"timer", "effect", "race"}

ASSUME PlanAssumption == \A i \in Instances : Plan[i] \in Seq(Kinds)
ASSUME NoneAssumption == None \notin Schedulers \cup Instances
ASSUME MaxAttemptsAssumption == MaxAttempts \in Nat \ {0}
ASSUME MaxReadyAssumption == MaxReady \in Nat \ {0}

VARIABLES inst,         \* workflow_instances and the fibre of each
          timer,        \* workflow_timers
          effect,       \* workflow_effects and workflow_inbox: the inbox
                        \* holds the response of the accepted ones
          queue,        \* workflow_activations
          sched,        \* the processes
          faults        \* the disturbances so far

vars == <<inst, timer, effect, queue, sched, faults>>

Ids == UNION {{i} \X DOMAIN Plan[i] : i \in Instances}
Waits == Kinds \cup {"Running", "incident", "gone"}
Owners == Schedulers \cup {None}
Phases == {"idle", "timers", "dispatch", "effects", "load", "responses", "detect",
           "activations", "ticks", "down"}

InstRows == [state : {"Running", "Incidented", "Ended"}, wait : Waits, pos : Nat,
             quarantined : BOOLEAN, held : BOOLEAN]
TimerRows == [state : {"none", "armed", "consumed", "cancelled"}, due : BOOLEAN,
              claim : Owners, live : BOOLEAN]
EffectRows == [state : {"none", "pending", "dispatching", "accepted", "completed", "failed"},
               ripe : BOOLEAN, claim : Owners, live : BOOLEAN, attempt : 0 .. MaxAttempts,
               response : Answers \cup {"none", "failed"}, logged : BOOLEAN]
QueueRows == [ready : 0 .. MaxReady, claim : Owners, live : BOOLEAN]
Processes == [phase : Phases, within : {"pass", "tick", "boot"}, batch : SUBSET Ids,
              item : Ids \cup {None}, answer : Answers \cup {"none"},
              acts : SUBSET Instances, cur : Instances \cup {None}, drained : {"no", "ok", "err"}]

NoTimer == [state |-> "none", due |-> FALSE, claim |-> None, live |-> FALSE]
NoEffect == [state |-> "none", ripe |-> FALSE, claim |-> None, live |-> FALSE,
             attempt |-> 0, response |-> "none", logged |-> FALSE]
Idle == [phase |-> "idle", within |-> "pass", batch |-> {}, item |-> None,
         answer |-> "none", acts |-> {}, cur |-> None, drained |-> "no"]

Init == /\ inst = [i \in Instances |-> [state |-> "Running", wait |-> "Running",
                     pos |-> 0, quarantined |-> FALSE, held |-> FALSE]]
        /\ timer = [x \in Ids |-> NoTimer]
        /\ effect = [x \in Ids |-> NoEffect]
        /\ queue = [i \in Instances |-> [ready |-> 1, claim |-> None, live |-> FALSE]]
        /\ sched = [s \in Schedulers |-> Idle]
        /\ faults = 0

----------------------------------------------------------------------------
(* What a transition does to the store.                                    *)

\* claim_work_for_transition hands out nothing.
Unavailable(i) == inst[i].quarantined \/ inst[i].held

Runnable(i) == inst[i].state = "Running" /\ inst[i].wait = "Running"

\* One more ready activation.
Ready(n) == IF n < MaxReady THEN n + 1 ELSE n

\* The end of commit_transition: a commit that leaves a fibre running
\* enqueues an activation.
Enqueue(i, it) ==
  IF it.state = "Running" /\ it.wait = "Running"
  THEN [queue EXCEPT ![i].ready = Ready(@)] ELSE queue

\* A commit of instance i with its new state `it`.
Commit(i, it) == inst' = [inst EXCEPT ![i] = it] /\ queue' = Enqueue(i, it)

\* The fibre is resumed behind its wait.
Woken(i) == [inst[i] EXCEPT !.wait = "Running"]

\* A timer row that is consumed or cancelled keeps no claim.
Closed(state) == [NoTimer EXCEPT !.state = state]

\* V2CancelRace, and the end of an instance, cancel the armed timers among X.
CancelTimers(X) ==
  [x \in Ids |-> IF x \in X /\ timer[x].state = "armed" THEN Closed("cancelled") ELSE timer[x]]

\* The running fibre runs to its next wait and arms it, or to the end.
Arm(i) ==
  LET p == inst[i].pos + 1
      x == <<i, p>>
      kind == Plan[i][p]
  IN  IF p > Len(Plan[i])
      THEN /\ Commit(i, [inst[i] EXCEPT !.state = "Ended", !.wait = "gone"])
           /\ UNCHANGED <<timer, effect>>
      ELSE /\ Commit(i, [inst[i] EXCEPT !.pos = p, !.wait = kind])
           /\ timer' = [timer EXCEPT ![x] =
                IF kind \in {"timer", "race"} THEN [@ EXCEPT !.state = "armed"] ELSE @]
           /\ effect' = [effect EXCEPT ![x] =
                IF kind \in {"effect", "race"} THEN [@ EXCEPT !.state = "pending", !.ripe = TRUE]
                ELSE @]

----------------------------------------------------------------------------
(* The steps of one process.                                               *)

Set(s, r) == sched' = [sched EXCEPT ![s] = r]
At(s, phase) == sched[s].phase = phase
Go(s, phase) == [sched[s] EXCEPT !.phase = phase, !.batch = {}, !.item = None, !.answer = "none"]

\* A loop over a batch of rows in `phase`, which process s leaves as `after`.
Loop(s, phase, rows, after) ==
  IF rows = {} THEN after ELSE [Go(s, phase) EXCEPT !.batch = rows]

\* The calls of non-idempotent templates that the journal of a running
\* instance shows as requested and not as completed.
Unfinished == {x \in Ids : /\ x[1] \in NonIdempotent /\ inst[x[1]].state = "Running"
                           /\ effect[x].state # "none" /\ ~effect[x].logged}

\* How dispatch_pending_effects ends: a pass goes on whatever the result, the
\* drain of a tick fails with an error, and so does the recovery.
AfterDispatch(s, ok) ==
  CASE sched[s].within = "pass" -> Go(s, "activations")
    [] sched[s].within = "boot" -> IF ok THEN Loop(s, "detect", Unfinished, Idle)
                                   ELSE Go(s, "down")
    [] sched[s].within = "tick" -> [Go(s, "ticks") EXCEPT !.drained = IF ok THEN "no" ELSE "err"]

\* claim_due_timers: due, armed and not under a live claim.
ClaimTimers(s) ==
  LET mine == {x \in Ids : /\ timer[x].state = "armed" /\ timer[x].due
                           /\ ~timer[x].live}
  IN  /\ At(s, "idle")
      /\ timer' = [x \in Ids |-> IF x \in mine
                     THEN [timer[x] EXCEPT !.claim = s, !.live = TRUE] ELSE timer[x]]
      /\ Set(s, Loop(s, "timers", mine, Go(s, "dispatch")))
      /\ UNCHANGED <<inst, effect, queue, faults>>

\* Variant: a timer whose instance cannot be claimed counts as stale.
ReleaseTimerConsumes(s, x) == [timer EXCEPT ![x] = Closed("consumed")]

\* release_timer_claim.
ReleaseTimer(s, x) ==
  [timer EXCEPT ![x] = IF @.state = "armed" /\ @.claim = s
                       THEN [@ EXCEPT !.claim = None, !.live = FALSE] ELSE @]

\* Variant: the claim token is not compared when the timer is consumed.
OwnsAnyArmed(s, x) == timer[x].state \in {"armed", "consumed"}

\* TimerMutation::Consume finds its row.
OwnsTimer(s, x) == timer[x].state = "armed" /\ timer[x].claim = s

\* The first timer of the batch is applied.  The first error releases that
\* timer and gives up the batch; a timer that is no longer armed under the
\* claim rolls the transition back; a stale timer is consumed all the same.
FireTimer(s) ==
  /\ At(s, "timers")
  /\ \E x \in sched[s].batch : LET i == x[1] IN
       /\ \A y \in sched[s].batch : Due[x] <= Due[y]
       /\ IF Unavailable(i)
          THEN /\ timer' = ReleaseTimer(s, x)
               /\ Set(s, Go(s, IF sched[s].within = "boot" THEN "down" ELSE "dispatch"))
               /\ UNCHANGED <<inst, queue>>
          ELSE /\ Set(s, Loop(s, "timers", sched[s].batch \ {x}, Go(s, "dispatch")))
               /\ IF OwnsTimer(s, x)
                  THEN /\ timer' = [timer EXCEPT ![x] = Closed("consumed")]
                       /\ Commit(i, IF inst[i].wait = "timer" \/ (inst[i].wait = "race" /\ inst[i].pos = x[2])
                                    THEN Woken(i) ELSE inst[i])
                  ELSE UNCHANGED <<timer, inst, queue>>
  /\ UNCHANGED <<effect, faults>>

----------------------------------------------------------------------------
(* dispatch_pending_effects.                                               *)

\* Variant: a row abandoned by its claimant is not taken up again.
ClaimableOnce(x) == effect[x].state = "pending" /\ effect[x].ripe

\* Pending and due, or abandoned by its claimant.
Claimable(x) ==
  effect[x].state \in {"pending", "dispatching"} /\ effect[x].ripe /\ ~effect[x].live

\* claim_pending_effects.
ClaimEffects(s) ==
  LET mine == {x \in Ids : Claimable(x)}
  IN  /\ At(s, "dispatch")
      /\ effect' = [x \in Ids |-> IF x \in mine
            THEN [effect[x] EXCEPT !.state = "dispatching", !.claim = s, !.live = TRUE]
            ELSE effect[x]]
      /\ Set(s, Loop(s, "effects", mine, Go(s, "load")))
      /\ UNCHANGED <<inst, timer, queue, faults>>

\* The call itself, outside of any transaction.
Call(s) ==
  /\ At(s, "effects") /\ sched[s].answer = "none"
  /\ \E x \in sched[s].batch, a \in Answers :
       Set(s, [sched[s] EXCEPT !.item = x, !.answer = a])
  /\ UNCHANGED <<inst, timer, effect, queue, faults>>

\* Variant: the response is recorded whoever holds the claim.
OwnsAnyEffect(s, x) == effect[x].state \in {"dispatching", "accepted"}

\* The row is still this dispatcher's.
OwnsEffect(s, x) == effect[x].state = "dispatching" /\ effect[x].claim = s

\* The claimed row after this dispatcher is done with it.
Unclaimed(x, state) ==
  [effect[x] EXCEPT !.state = state, !.claim = None, !.live = FALSE]

\* Variant: the bound is passed by one.
RetryOnceMore(x) == effect[x].attempt <= MaxAttempts

\* RetryPolicy::decision grants another attempt.
RetryAt(x) == effect[x].attempt + 1 <= MaxAttempts

\* A transient failure is rescheduled; any other answer, or a failure with
\* the attempts exhausted, goes to the inbox.  Another answer on record for
\* the effect, or a lost claim, is an error that ends the dispatch; the same
\* answer, byte for byte, is not.
Record(s) ==
  /\ At(s, "effects") /\ sched[s].answer # "none"
  /\ \E x \in {sched[s].item}, a \in {sched[s].answer} :
       LET retry == a = "transient" /\ RetryAt(x)
           response == IF a = "transient" THEN "failed" ELSE a
           next == Loop(s, "effects", sched[s].batch \ {x}, Go(s, "load"))
       IN  IF OwnsEffect(s, x)
           THEN /\ Set(s, next)
                /\ IF retry
                   THEN effect' = [effect EXCEPT ![x] =
                          [Unclaimed(x, "pending") EXCEPT !.attempt = @ + 1, !.ripe = FALSE]]
                   ELSE effect' = [effect EXCEPT ![x] =
                          [Unclaimed(x, "accepted") EXCEPT !.response = response]]
           ELSE /\ \/ Set(s, AfterDispatch(s, FALSE))
                   \/ /\ ~retry /\ effect[x].state = "accepted" /\ effect[x].response = response
                      /\ Set(s, next)
                /\ UNCHANGED effect
  /\ UNCHANGED <<inst, timer, queue, faults>>

\* load_effect_responses.
LoadResponses(s) ==
  /\ At(s, "load")
  /\ Set(s, Loop(s, "responses", {x \in Ids : effect[x].state = "accepted"}, AfterDispatch(s, TRUE)))
  /\ UNCHANGED <<inst, timer, effect, queue, faults>>

\* EffectMutation: the row is terminal and its response deleted.
Settle(x, state, logged) ==
  effect' = [effect EXCEPT ![x].state = state, ![x].logged = logged]

\* The fibre is parked on this very effect, alone or as an arm of a race.
Parked(x, kind) == inst[x[1]].wait = kind /\ inst[x[1]].pos = x[2]

Incident(i) == [inst[i] EXCEPT !.state = "Incidented", !.wait = "incident"]

\* apply_ffi_completion: the effect resumes its fibre, alone or as the winner
\* of the race ...
Wins(x) == (Parked(x, "effect") \/ Parked(x, "race")) /\ effect[x].response = "success"

\* ... or it is the arm of a race already lost; anything else is an error.
Late(x) == ~Parked(x, "race") /\ Plan[x[1]][x[2]] = "race" /\ inst[x[1]].wait # "gone"

\* The command of a response is accepted by the kernel and commits.
CanApply(x, failed) ==
  /\ ~Unavailable(x[1])
  /\ IF failed THEN Parked(x, "effect") => effect[x].state = "accepted"
     ELSE effect[x].state = "accepted" /\ (Wins(x) \/ Late(x))

\* apply_ffi_completion.
Complete(x) ==
  IF Wins(x)
  THEN Commit(x[1], Woken(x[1])) /\ timer' = CancelTimers({x}) /\ Settle(x, "completed", TRUE)
  ELSE Commit(x[1], inst[x[1]]) /\ UNCHANGED timer /\ Settle(x, "completed", FALSE)

\* apply_job_failure: an incident on the fibre parked on the effect; with no
\* such fibre the failure is ignored, and its response stays.
Fail(x) ==
  /\ UNCHANGED timer
  /\ IF Parked(x, "effect")
     THEN Commit(x[1], Incident(x[1])) /\ Settle(x, "failed", FALSE)
     ELSE Commit(x[1], inst[x[1]]) /\ UNCHANGED effect

\* One response, or one interrupted call; process s goes on, or fails.
Apply(s, x, failed, next, onError) ==
  IF CanApply(x, failed)
  THEN Set(s, next) /\ IF failed THEN Fail(x) ELSE Complete(x)
  ELSE Set(s, onError) /\ UNCHANGED <<inst, timer, effect, queue>>

\* apply_pending_effect_responses: up to the first one that fails.
ApplyResponse(s) ==
  /\ At(s, "responses")
  /\ \E x \in sched[s].batch :
       Apply(s, x, effect[x].response = "failed",
             Loop(s, "responses", sched[s].batch \ {x}, AfterDispatch(s, TRUE)),
             AfterDispatch(s, FALSE))
  /\ UNCHANGED faults

\* detect_interrupted_ffi_calls: each is failed as if its response were; an
\* error fails the start-up.
Detect(s) ==
  /\ At(s, "detect")
  /\ \E x \in sched[s].batch :
       Apply(s, x, TRUE, Loop(s, "detect", sched[s].batch \ {x}, Idle), Go(s, "down"))
  /\ UNCHANGED faults

----------------------------------------------------------------------------
(* tick_activated_batch.                                                   *)

\* claim_ready_activations: one for each instance that has none claimed.
ClaimActivations(s) ==
  LET mine == {i \in Instances : queue[i].ready > 0 /\ queue[i].claim = None}
  IN  /\ At(s, "activations")
      /\ queue' = [i \in Instances |-> IF i \in mine
            THEN [ready |-> queue[i].ready - 1, claim |-> s, live |-> TRUE] ELSE queue[i]]
      /\ Set(s, IF mine = {} THEN Idle ELSE [Go(s, "ticks") EXCEPT !.acts = mine])
      /\ UNCHANGED <<inst, timer, effect, faults>>

\* One round of tick_instance_inner; a committed tick dispatches effects.
\* The instances of a batch are drained one at a time, in any order.
Tick(s) ==
  /\ At(s, "ticks") /\ sched[s].drained = "no"
  /\ \E i \in IF sched[s].cur = None THEN sched[s].acts ELSE {sched[s].cur} :
       IF ~Unavailable(i) /\ Runnable(i)
       THEN /\ Arm(i)
            /\ Set(s, [Go(s, "dispatch") EXCEPT !.within = "tick", !.cur = i, !.acts = @ \ {i}])
       ELSE /\ Set(s, [sched[s] EXCEPT !.drained = IF Unavailable(i) THEN "err" ELSE "ok",
                                       !.cur = i, !.acts = @ \ {i}])
            /\ UNCHANGED <<inst, timer, effect, queue>>
  /\ UNCHANGED faults

\* Variant: consume_activation does not compare the claim token.
OwnsAnyActivation(s, i) == queue[i].claim # None

\* The claimed row is still this process's.
OwnsActivation(s, i) == queue[i].claim = s

\* consume_activation after a drain, release_activation_to_ready after an
\* error; neither finds a row that was reclaimed.
Finish(s) ==
  /\ At(s, "ticks") /\ sched[s].drained # "no"
  /\ \E i \in {sched[s].cur} :
       queue' = IF OwnsActivation(s, i)
                THEN [queue EXCEPT ![i] = [ready |-> IF sched[s].drained = "ok" THEN @.ready
                                                     ELSE Ready(@.ready),
                                           claim |-> None, live |-> FALSE]]
                ELSE queue
  /\ Set(s, IF sched[s].acts = {} THEN Idle
            ELSE [sched[s] EXCEPT !.cur = None, !.drained = "no"])
  /\ UNCHANGED <<inst, timer, effect, faults>>

\* recover_all_tenants starts with the timers; an instance it cannot claim is
\* skipped.
Restart(s) ==
  /\ At(s, "down")
  /\ Set(s, [Idle EXCEPT !.within = "boot"])
  /\ UNCHANGED <<inst, timer, effect, queue, faults>>

Step(s) ==
  \/ ClaimTimers(s) \/ FireTimer(s)
  \/ ClaimEffects(s) \/ Call(s) \/ Record(s) \/ LoadResponses(s) \/ ApplyResponse(s)
  \/ ClaimActivations(s) \/ Tick(s) \/ Finish(s)
  \/ Restart(s) \/ Detect(s)

----------------------------------------------------------------------------
(* Time, other operations, and failures.                                   *)

TimerDue(x) ==
  /\ timer[x].state = "armed" /\ ~timer[x].due
  /\ timer' = [timer EXCEPT ![x].due = TRUE]
  /\ UNCHANGED <<inst, effect, queue, sched, faults>>

\* next_due_at of a rescheduled effect passes.
Backoff(x) ==
  /\ effect[x].state = "pending" /\ ~effect[x].ripe
  /\ effect' = [effect EXCEPT ![x].ripe = TRUE]
  /\ UNCHANGED <<inst, timer, queue, sched, faults>>

Fault(kind) == kind \in Faults /\ faults < MaxFaults /\ faults' = faults + 1

\* A lease runs out: on a process that is no longer at work on it, or, as a
\* disturbance, on one that is slow.
Slow(working) == IF working THEN Fault("slow") ELSE UNCHANGED faults

TimerLapse(x) ==
  /\ timer[x].live
  /\ Slow(LET s == timer[x].claim IN At(s, "timers") /\ x \in sched[s].batch)
  /\ timer' = [timer EXCEPT ![x].live = FALSE]
  /\ UNCHANGED <<inst, effect, queue, sched>>

EffectLapse(x) ==
  /\ effect[x].live
  /\ Slow(LET s == effect[x].claim IN At(s, "effects") /\ x \in sched[s].batch)
  /\ effect' = [effect EXCEPT ![x].live = FALSE]
  /\ UNCHANGED <<inst, timer, queue, sched>>

ActivationLapse(i) ==
  /\ queue[i].live
  /\ Slow(LET s == queue[i].claim IN sched[s].cur = i \/ i \in sched[s].acts)
  /\ queue' = [queue EXCEPT ![i].live = FALSE]
  /\ UNCHANGED <<inst, timer, effect, sched>>

\* The expired row is ready again.
ReclaimedRow(i) == [ready |-> Ready(queue[i].ready), claim |-> None, live |-> FALSE]

\* reclaim_expired_activations, every minute.
ReclaimActivation(i) ==
  /\ queue[i].claim # None /\ ~queue[i].live
  /\ queue' = [queue EXCEPT ![i] = ReclaimedRow(i)]
  /\ UNCHANGED <<inst, timer, effect, sched, faults>>

\* Another operation holds the instance's transition lease for a while.
Hold(i) ==
  /\ ~Unavailable(i) /\ Fault("hold")
  /\ inst' = [inst EXCEPT ![i].held = TRUE]
  /\ UNCHANGED <<timer, effect, queue, sched>>

Unhold(i) ==
  /\ inst[i].held
  /\ inst' = [inst EXCEPT ![i].held = FALSE]
  /\ UNCHANGED <<timer, effect, queue, sched, faults>>

\* Command::Cancel: the terminal cleanup deletes the fibre and cancels the
\* timers; the effects are not touched.
Cancel(i) ==
  /\ inst[i].state # "Ended" /\ ~Unavailable(i) /\ Fault("cancel")
  /\ Commit(i, [inst[i] EXCEPT !.state = "Ended", !.wait = "gone"])
  /\ timer' = CancelTimers({x \in Ids : x[1] = i})
  /\ UNCHANGED <<effect, sched>>

\* An integrity failure, or an exhausted guard budget, quarantines.
Quarantine(i) ==
  /\ inst[i].state # "Ended" /\ ~inst[i].quarantined /\ Fault("quarantine")
  /\ inst' = [inst EXCEPT ![i].quarantined = TRUE]
  /\ UNCHANGED <<timer, effect, queue, sched>>

\* The process dies, possibly between a call and the record of its answer.
Crash(s) ==
  /\ s \in Mortal /\ ~At(s, "down") /\ Fault("crash")
  /\ Set(s, [Idle EXCEPT !.phase = "down"])
  /\ UNCHANGED <<inst, timer, effect, queue>>

Time == \/ \E x \in Ids : TimerDue(x) \/ Backoff(x) \/ TimerLapse(x) \/ EffectLapse(x)
        \/ \E i \in Instances : ActivationLapse(i) \/ ReclaimActivation(i) \/ Unhold(i)

Next == \/ \E s \in Schedulers : Step(s) \/ Crash(s)
        \/ Time
        \/ \E i \in Instances : Hold(i) \/ Cancel(i) \/ Quarantine(i)

Spec == Init /\ [][Next]_vars

\* The loops run on, a process that went down is started again, leases and
\* delays run out, and another operation lets the instance go.
Fairness == /\ \A s \in Schedulers : WF_vars(Step(s))
            /\ WF_vars(\E x \in Ids : TimerDue(x) \/ Backoff(x))
            /\ WF_vars(\E x \in Ids : TimerLapse(x))
            /\ WF_vars(\E x \in Ids : EffectLapse(x))
            /\ WF_vars(\E i \in Instances : ActivationLapse(i))
            /\ WF_vars(\E i \in Instances : ReclaimActivation(i))
            /\ WF_vars(\E i \in Instances : Unhold(i))

FairSpec == Spec /\ Fairness

----------------------------------------------------------------------------
(* Properties.                                                             *)

\* Every row and every process stays within its states, and no effect is
\* retried more often than the policy of its artifact allows.
TypeOK ==
  /\ inst \in [Instances -> InstRows]
  /\ timer \in [Ids -> TimerRows]
  /\ effect \in [Ids -> EffectRows]
  /\ queue \in [Instances -> QueueRows]
  /\ sched \in [Schedulers -> Processes]

\* No runnable instance is lost: it has a ready activation, or one claimed by
\* a process that has not yet found the instance at rest.  The commit that
\* makes it runnable, the drain that looks at it, the consumption of the
\* claimed row and the reclaim of an abandoned one are separate steps of
\* several processes.
RunnableIsQueued ==
  \A i \in Instances : Runnable(i) =>
    \/ queue[i].ready > 0
    \/ /\ queue[i].claim # None
       /\ LET s == queue[i].claim IN ~(sched[s].cur = i /\ sched[s].drained = "ok")

\* A parked fibre is served: the row that is to wake it exists and is still
\* open, through claims, retries, lost leases, crashes and recovery.
WaitsAreServed ==
  \A i \in Instances : LET x == <<i, inst[i].pos>> IN
    /\ inst[i].wait \in {"timer", "race"} => timer[x].state = "armed"
    /\ inst[i].wait = "effect" => effect[x].state \in {"pending", "dispatching", "accepted"}

WokenStep(i) ==
  LET x == <<i, inst[i].pos>> IN
    inst[i].wait = "timer" /\ inst'[i].wait = "Running" =>
      timer[x].state = "armed" /\ timer'[x].state = "consumed"

\* A fibre leaves a timer wait only by the timer of that wait, armed until
\* then and consumed by the same step, although apply_timer compares nothing
\* but the deadline.
WokenByOwnTimer == [][\A i \in Instances : WokenStep(i)]_vars

AnswerStep(x) ==
  /\ effect[x].state = "accepted" =>
       /\ effect'[x].state \in {"accepted", "completed", "failed"}
       /\ effect'[x].response = effect[x].response
  /\ effect[x].state \in {"completed", "failed"} => effect'[x] = effect[x]

\* The first answer recorded for an effect stands: a late dispatcher whose
\* lease was taken over never replaces it, and a settled effect never moves.
FirstAnswerStands == [][\A x \in Ids : AnswerStep(x)]_vars

\* What no pass gets past: a due timer or a response of a quarantined
\* instance, the response of a call whose fibre is gone, an output that
\* violates its contract.
Blocked ==
  \/ \E x \in Ids : timer[x].state = "armed" /\ inst[x[1]].quarantined
  \/ \E x \in Ids : /\ effect[x].state = "accepted"
                     /\ \/ inst[x[1]].quarantined
                        \/ effect[x].response # "failed" /\ ~Wins(x) /\ ~Late(x)

Settled(i) == inst[i].state # "Running" \/ inst[i].quarantined

\* Every instance comes to its end or to an incident, through crashes, slow
\* processes and contention, unless something blocks the tenant's queues.
InstancesSettle == \A i \in Instances : <>(Settled(i) \/ Blocked)
=============================================================================
