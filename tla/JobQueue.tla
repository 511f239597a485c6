------------------------------ MODULE JobQueue ------------------------------
(***************************************************************************)
(* The service-task queue of one running instance: the kernel enqueues a   *)
(* job when a fibre reaches EXEC_NATIVE and parks the fibre on it, workers *)
(* lease jobs and report completion or failure, a background loop reclaims *)
(* expired leases.                                                         *)
(*                                                                         *)
(* Each fibre of the instance is at its own service task, so a job names   *)
(* its fibre.  A report is an RPC of two steps: validate_job_claim is read *)
(* first, the kernel and the commit follow later, and anything may happen  *)
(* in between.  The commit itself is one step: TransitionStore shows that  *)
(* a transition that commits was computed from the current state.  A claim *)
(* token stands for one activation handed to one worker; the worker may    *)
(* report with it at any later time and as often as it likes.              *)
(***************************************************************************)
EXTENDS Integers, Sequences

CONSTANTS Jobs,         \* job keys: one service task of one fibre each
          Routed,       \* jobs whose task has a boundary error route
          Calls,        \* concurrent worker RPCs
          Retries,      \* retries_remaining of a new job
          NoJob,        \* no incident
          MaxTokens     \* bound on the activations handed out

ASSUME RoutedAssumption == Routed \subseteq Jobs
ASSUME RetriesAssumption == Retries \in Nat \ {0}
ASSUME NoJobAssumption == NoJob \notin Jobs
ASSUME MaxTokensAssumption == MaxTokens \in Nat

VARIABLES row,          \* job_queue: the row of each job key
          grants,       \* the job each claim token was minted for
          done,         \* dedupe_cache: the completion recorded for a job,
                        \* named by the token it was reported with; 0 for none
          wait,         \* where the fibre of each job is
          inst,         \* the instance: its state and the incident it names
          call          \* the worker RPCs in flight and their last answer

vars == <<row, grants, done, wait, inst, call>>

Status == {"absent", "pending", "claimed", "dead_lettered"}
Waits == {"ready", "parked", "resumed", "routed", "incident", "gone"}
Ops == {"complete", "transient", "contract_violation", "rejection"}
Phases == {"idle", "validated", "ok", "error"}

Rows == [status : Status, token : Nat, live : BOOLEAN, retries : Nat, attempts : Nat]
NoRow == [status |-> "absent", token |-> 0, live |-> FALSE, retries |-> 0, attempts |-> 0]
NewRow == [NoRow EXCEPT !.status = "pending", !.retries = Retries]

Init == /\ row = [j \in Jobs |-> NoRow]
        /\ grants = <<>>
        /\ done = [j \in Jobs |-> 0]
        /\ wait = [j \in Jobs |-> "ready"]
        /\ inst = [state |-> "Running", incident |-> NoJob]
        /\ call = [c \in Calls |-> [phase |-> "idle", op |-> "complete", token |-> 0]]

----------------------------------------------------------------------------
(* The kernel's side: EXEC_NATIVE, scope interruption, the end.            *)

\* INSERT ... ON CONFLICT (job_key) DO NOTHING.
Enqueue(j) == IF row[j].status = "absent" THEN NewRow ELSE row[j]

\* A tick runs the fibre into EXEC_NATIVE: a completion on record is applied
\* at once, otherwise the job is enqueued and the fibre parks.
ExecNative(j) ==
  /\ inst.state = "Running" /\ wait[j] = "ready"
  /\ IF done[j] # 0
     THEN /\ wait' = [wait EXCEPT ![j] = "resumed"]
          /\ UNCHANGED row
     ELSE /\ wait' = [wait EXCEPT ![j] = "parked"]
          /\ row' = [row EXCEPT ![j] = Enqueue(j)]
  /\ UNCHANGED <<grants, done, inst, call>>

\* An interrupting guard around the task triggers: the fibre is unwound, and
\* the activation it is parked on cancelled with it.
InterruptScope(j) ==
  /\ inst.state # "Ended" /\ wait[j] \in {"ready", "parked", "incident"}
  /\ wait' = [wait EXCEPT ![j] = "gone"]
  /\ row' = [row EXCEPT ![j] = IF wait[j] = "parked" THEN NoRow ELSE @]
  /\ UNCHANGED <<grants, done, inst, call>>

\* Variant: the terminal cleanup forgets the job rows.
CleanupKeepsJobs == row' = row

\* terminal_cleanup: no fibre and no job row survives.
Cleanup == row' = [j \in Jobs |-> NoRow]

\* The last fibre ends, or the instance is cancelled or terminated.
EndInstance ==
  /\ inst.state # "Ended"
  /\ inst' = [inst EXCEPT !.state = "Ended"]
  /\ wait' = [j \in Jobs |-> "gone"]
  /\ Cleanup
  /\ UNCHANGED <<grants, done, call>>

\* Only the incident the instance is parked on can be resolved; its fibre
\* executes EXEC_NATIVE again.
ResolveIncident(j) ==
  /\ inst = [state |-> "Incidented", incident |-> j]
  /\ inst' = [inst EXCEPT !.state = "Running"]
  /\ wait' = [wait EXCEPT ![j] = IF @ = "incident" THEN "ready" ELSE @]
  /\ UNCHANGED <<row, grants, done, call>>

----------------------------------------------------------------------------
(* The queue's side: leases.                                               *)

\* dequeue_jobs: a pending job, whose not_before has passed, is leased under
\* a fresh token.
Dequeue(j) ==
  /\ row[j].status = "pending" /\ Len(grants) < MaxTokens
  /\ grants' = Append(grants, j)
  /\ row' = [row EXCEPT ![j].status = "claimed", ![j].live = TRUE,
                        ![j].token = Len(grants) + 1, ![j].attempts = @ + 1]
  /\ UNCHANGED <<done, wait, inst, call>>

\* claim_expires_at passes.
ClaimExpires(j) ==
  /\ row[j].status = "claimed" /\ row[j].live
  /\ row' = [row EXCEPT ![j].live = FALSE]
  /\ UNCHANGED <<grants, done, wait, inst, call>>

\* The lease columns are cleared and the job is pending again, one retry less.
BackToPending(j) == [row[j] EXCEPT !.status = "pending", !.token = 0, !.live = FALSE,
                                   !.retries = @ - 1]
DeadLetter(j) == [row[j] EXCEPT !.status = "dead_lettered", !.token = 0, !.live = FALSE]

\* Variants: the last retry is handed out once more; the counter is tested
\* only after it has been decremented past zero.
LastAttemptOffByOne(j) == row[j].retries < 1
LastAttemptUnderflows(j) == row[j].retries < 0

LastAttempt(j) == row[j].retries <= 1

\* Variant: the loop leaves exhausted rows to somebody else.
ReclaimSkipsExhausted(j) ==
  /\ row[j].status = "claimed" /\ ~row[j].live /\ ~LastAttempt(j)
  /\ row' = [row EXCEPT ![j] = BackToPending(j)]
  /\ UNCHANGED <<grants, done, wait, inst, call>>

\* reclaim_stale_jobs.
Reclaim(j) ==
  /\ row[j].status = "claimed" /\ ~row[j].live
  /\ row' = [row EXCEPT ![j] = IF LastAttempt(j) THEN DeadLetter(j) ELSE BackToPending(j)]
  /\ UNCHANGED <<grants, done, wait, inst, call>>

----------------------------------------------------------------------------
(* The workers' RPCs.                                                      *)

\* The lease of token k is in force: the condition of validate_job_claim and
\* of the claim-bound job mutations.
HoldsClaim(k) ==
  LET r == row[grants[k]] IN r.status = "claimed" /\ r.token = k /\ r.live

\* complete_job_with_claim and fail_job_with_claim check the claim first.
Submit(c, op, k) ==
  /\ call[c].phase # "validated"
  /\ call' = [call EXCEPT ![c] = [phase |-> IF HoldsClaim(k) THEN "validated" ELSE "error",
                                  op |-> op, token |-> k]]
  /\ UNCHANGED <<row, grants, done, wait, inst>>

Answer(c, phase) == call' = [call EXCEPT ![c].phase = phase]

\* Variant: a completed job stays in the queue.
DecideCompleteKeepsRow(c, j, k) ==
  \/ /\ done[j] # 0
     /\ Answer(c, "ok") /\ UNCHANGED <<row, done, wait, inst>>
  \/ /\ done[j] = 0 /\ wait[j] = "parked" /\ HoldsClaim(k)
     /\ done' = [done EXCEPT ![j] = k]
     /\ wait' = [wait EXCEPT ![j] = "resumed"]
     /\ Answer(c, "ok") /\ UNCHANGED <<row, inst>>

\* Variant: the commit trusts the validation that was done before it.
DecideCompleteUnfenced(c, j, k) ==
  /\ wait[j] = "parked"
  /\ row' = [row EXCEPT ![j] = NoRow]
  /\ done' = [done EXCEPT ![j] = k]
  /\ wait' = [wait EXCEPT ![j] = "resumed"]
  /\ Answer(c, "ok") /\ UNCHANGED inst

\* complete_job_body: a recorded completion answers Ok; otherwise the kernel
\* wants a parked fibre and the commit wants the lease (AckClaimed).  On an
\* instance that has ended the completion is ignored, under the same check.
DecideComplete(c, j, k) ==
  \/ /\ done[j] # 0
     /\ Answer(c, "ok") /\ UNCHANGED <<row, done, wait, inst>>
  \/ /\ done[j] = 0 /\ wait[j] = "parked" /\ HoldsClaim(k)
     /\ row' = [row EXCEPT ![j] = NoRow]
     /\ done' = [done EXCEPT ![j] = k]
     /\ wait' = [wait EXCEPT ![j] = "resumed"]
     /\ Answer(c, "ok") /\ UNCHANGED inst
  \/ /\ done[j] = 0 /\ (wait[j] # "parked" \/ ~HoldsClaim(k))
     /\ Answer(c, "error") /\ UNCHANGED <<row, done, wait, inst>>

\* Variant: failures are ignored also while the fibre waits for the job.
IgnoreFailureAlways(c, j) ==
  /\ row' = [row EXCEPT ![j] = NoRow]
  /\ Answer(c, "ok") /\ UNCHANGED <<done, wait, inst>>

\* A failure nobody waits for is ignored, and the row deleted by its key.
IgnoreFailure(c, j) ==
  /\ wait[j] # "parked"
  /\ row' = [row EXCEPT ![j] = NoRow]
  /\ Answer(c, "ok") /\ UNCHANGED <<done, wait, inst>>

\* RetryClaimed: needs the lease and a retry to spare.
DecideTransient(c, j, k) ==
  /\ wait[j] = "parked"
  /\ IF HoldsClaim(k) /\ ~LastAttempt(j)
     THEN row' = [row EXCEPT ![j] = BackToPending(j)] /\ Answer(c, "ok")
     ELSE UNCHANGED row /\ Answer(c, "error")
  /\ UNCHANGED <<done, wait, inst>>

\* An incident, with DeadLetterClaimed: needs the lease.
DecideIncident(c, j, k) ==
  /\ wait[j] = "parked"
  /\ IF HoldsClaim(k)
     THEN /\ row' = [row EXCEPT ![j] = DeadLetter(j)]
          /\ wait' = [wait EXCEPT ![j] = "incident"]
          /\ inst' = [state |-> "Incidented", incident |-> j]
          /\ Answer(c, "ok")
     ELSE UNCHANGED <<row, wait, inst>> /\ Answer(c, "error")
  /\ UNCHANGED done

\* The innermost guard routes the rejection: the fibre goes to the handler
\* and the row is deleted by its key.
DecideRouted(c, j) ==
  /\ wait[j] = "parked"
  /\ row' = [row EXCEPT ![j] = NoRow]
  /\ wait' = [wait EXCEPT ![j] = "routed"]
  /\ Answer(c, "ok") /\ UNCHANGED <<done, inst>>

\* The claimed instance, the kernel and the commit, in one transition.
Decide(c) ==
  LET k == call[c].token
      j == grants[k]
      op == call[c].op
  IN /\ call[c].phase = "validated"
     /\ \/ op = "complete" /\ DecideComplete(c, j, k)
        \/ op # "complete" /\ IgnoreFailure(c, j)
        \/ op = "transient" /\ DecideTransient(c, j, k)
        \/ /\ op = "contract_violation" \/ (op = "rejection" /\ j \notin Routed)
           /\ DecideIncident(c, j, k)
        \/ op = "rejection" /\ j \in Routed /\ DecideRouted(c, j)
     /\ UNCHANGED grants

\* The instance is leased to another operation, or the RPC is dropped.
Refused(c) ==
  /\ call[c].phase = "validated"
  /\ Answer(c, "error")
  /\ UNCHANGED <<row, grants, done, wait, inst>>

----------------------------------------------------------------------------
Next == \/ EndInstance
        \/ \E j \in Jobs : \/ ExecNative(j) \/ InterruptScope(j) \/ ResolveIncident(j)
                           \/ Dequeue(j) \/ ClaimExpires(j) \/ Reclaim(j)
        \/ \E c \in Calls : \/ \E op \in Ops, k \in 1..Len(grants) : Submit(c, op, k)
                            \/ Decide(c) \/ Refused(c)

\* Time passes and the reclaim loop runs (server-runner spawns it for good);
\* nothing is assumed of the workers or of the operators.
Fairness == \A j \in Jobs : WF_vars(ClaimExpires(j)) /\ WF_vars(Reclaim(j))

Spec == Init /\ [][Next]_vars
FairSpec == Spec /\ Fairness

----------------------------------------------------------------------------
(* Properties.                                                             *)

\* Rows, tokens, fibres, the instance and the RPCs have their types.
TypeOK ==
  /\ row \in [Jobs -> Rows]
  /\ grants \in Seq(Jobs)
  /\ done \in [Jobs -> 0..Len(grants)]
  /\ wait \in [Jobs -> Waits]
  /\ inst \in [state : {"Running", "Incidented", "Ended"}, incident : Jobs \cup {NoJob}]
  /\ call \in [Calls -> [phase : Phases, op : Ops, token : 0..Len(grants)]]
  /\ \A c \in Calls : call[c].phase # "idle" => call[c].token # 0

\* Every job a worker holds or can be given has a fibre parked on it: no
\* interruption, ending, late failure or reclaim leaves a ghost activation
\* whose completion the kernel would have to refuse.
NoGhostJobs ==
  \A j \in Jobs : row[j].status \in {"pending", "claimed"} => wait[j] = "parked"

\* A fibre parked on a job has a row to wait for: no late failure report
\* deletes the activation from under it.
ParkedHasRow == \A j \in Jobs : wait[j] = "parked" => row[j].status # "absent"

\* A recorded completion is final: the fibre has moved past the task and the
\* job is never offered, leased or failed again.
CompletionSticks ==
  \A j \in Jobs : done[j] # 0 => wait[j] \in {"resumed", "gone"} /\ row[j].status = "absent"

\* A job is handed out at most Retries times, however leases expire and
\* failures, reclaims and late reports interleave.
AttemptsBounded == \A j \in Jobs : row[j].attempts <= Retries

\* Only the worker that holds the lease decides about the job: a fibre is
\* resumed past its service task, or stopped on an incident, only for a report
\* whose claim is still in force when the transition commits.
OnlyClaimOwnerDecides ==
  [][\A j \in Jobs :
       wait[j] = "parked" /\ wait'[j] \in {"resumed", "incident"} =>
         \E c \in Calls : /\ call[c].phase = "validated" /\ call'[c].phase = "ok"
                          /\ grants[call[c].token] = j /\ HoldsClaim(call[c].token)]_vars

\* While a lease on the job is in force, no report under another claim moves
\* the fibre.
LeaseHolderDecides ==
  [][\A j \in Jobs, k \in 1..Len(grants) :
       /\ wait[j] = "parked" /\ wait'[j] \in {"resumed", "routed", "incident"}
       /\ grants[k] = j /\ HoldsClaim(k)
       => \E c \in Calls : call[c].token = k /\ call'[c] # call[c]]_vars

\* The lease of token k has not been given up.
Leased(k) == /\ k <= Len(grants)
             /\ row[grants[k]].status = "claimed" /\ row[grants[k]].token = k

\* No job stays with a worker that never reports: every lease ends, by a
\* report or by the reclaim loop.
LeasesEnd == \A k \in 1..MaxTokens : Leased(k) ~> ~Leased(k)

\* "Exhausted retry" raises an incident: a dead-lettered job leaves no fibre
\* parked on it.
ExhaustedRaisesIncident ==
  \A j \in Jobs : row[j].status = "dead_lettered" => wait[j] # "parked"

\* Reporting a completion again, with the claim it was recorded under, is
\* answered with success.
ReplaySucceeds ==
  [][\A c \in Calls, k \in 1..Len(grants) :
       call'[c] # call[c] /\ call'[c] = [phase |-> "error", op |-> "complete", token |-> k]
       => done[grants[k]] # k]_vars
=============================================================================
