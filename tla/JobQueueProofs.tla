-------------------------- MODULE JobQueueProofs --------------------------
(***************************************************************************)
(* Proofs about JobQueue, for every set of jobs, routes and calls, every   *)
(* retry budget and every number of activations.                           *)
(*                                                                         *)
(* The four safety invariants hold each other up: a job in the queue has   *)
(* its fibre parked (NoGhostJobs), so a fibre that executes EXEC_NATIVE    *)
(* finds no live row under its key, so a recorded completion cannot be     *)
(* undone (CompletionSticks).  AttemptsBounded needs the exact accounting  *)
(* of RowBudget.                                                           *)
(***************************************************************************)
EXTENDS JobQueue, TLAPS

\* retries_remaining and attempt_count add up.
RowBudget(r) ==
  /\ r.status = "absent" => r.attempts = 0
  /\ r.status = "pending" => r.retries >= 1 /\ r.attempts + r.retries = Retries
  /\ r.status = "claimed" => r.retries >= 1 /\ r.attempts + r.retries = Retries + 1
  /\ r.status = "dead_lettered" => r.attempts <= Retries

\* What one job's row and fibre owe each other.
JobOK(j) ==
  /\ row[j].status \in {"pending", "claimed"} => wait[j] = "parked"
  /\ wait[j] = "parked" => row[j].status # "absent"
  /\ done[j] # 0 => wait[j] \in {"resumed", "gone"} /\ row[j].status = "absent"
  /\ RowBudget(row[j])

Inv == TypeOK /\ \A j \in Jobs : JobOK(j)

----------------------------------------------------------------------------
(* The row forms.                                                          *)

LEMMA NoRowOK == NoRow \in Rows /\ NoRow.status = "absent" /\ RowBudget(NoRow)
  BY DEF NoRow, Rows, Status, RowBudget

LEMMA NewRowOK == NewRow \in Rows /\ NewRow.status = "pending" /\ RowBudget(NewRow)
<1>1. /\ NewRow.status = "pending" /\ NewRow.retries = Retries /\ NewRow.attempts = 0
      /\ NewRow \in Rows
  BY RetriesAssumption DEF NewRow, NoRow, Rows, Status
<1> QED BY <1>1, RetriesAssumption DEF RowBudget

LEMMA BackToPendingOK ==
  ASSUME NEW j \in Jobs, row[j] \in Rows, row[j].status = "claimed", RowBudget(row[j]),
         ~LastAttempt(j)
  PROVE  /\ BackToPending(j) \in Rows /\ BackToPending(j).status = "pending"
         /\ RowBudget(BackToPending(j))
<1>1. /\ row[j].retries \in Nat /\ row[j].attempts \in Nat
      /\ row[j].retries > 1 /\ row[j].attempts + row[j].retries = Retries + 1
  BY DEF LastAttempt, Rows, RowBudget
<1>2. /\ BackToPending(j).status = "pending"
      /\ BackToPending(j).retries = row[j].retries - 1
      /\ BackToPending(j).attempts = row[j].attempts
  BY DEF BackToPending, Rows
<1>3. BackToPending(j) \in Rows
  <2>1. row[j].retries - 1 \in Nat
    BY <1>1
  <2> QED BY <2>1 DEF BackToPending, Rows, Status
<1> QED BY <1>1, <1>2, <1>3, RetriesAssumption DEF RowBudget

LEMMA DeadLetterOK ==
  ASSUME NEW j \in Jobs, row[j] \in Rows, row[j].status = "claimed", RowBudget(row[j])
  PROVE  /\ DeadLetter(j) \in Rows /\ DeadLetter(j).status = "dead_lettered"
         /\ RowBudget(DeadLetter(j))
<1>1. /\ row[j].retries \in Nat /\ row[j].attempts \in Nat
      /\ row[j].retries >= 1 /\ row[j].attempts + row[j].retries = Retries + 1
  BY DEF Rows, RowBudget
<1>2. /\ DeadLetter(j).status = "dead_lettered"
      /\ DeadLetter(j).attempts = row[j].attempts
      /\ DeadLetter(j) \in Rows
  BY DEF DeadLetter, Rows, Status
<1> QED BY <1>1, <1>2, RetriesAssumption DEF RowBudget

----------------------------------------------------------------------------

LEMMA InvInit == Init => Inv
<1> SUFFICES ASSUME Init PROVE Inv
  OBVIOUS
<1>1. row \in [Jobs -> Rows] /\ grants \in Seq(Jobs) /\ Len(grants) = 0
  BY NoRowOK DEF Init
<1>2. done \in [Jobs -> 0..Len(grants)] /\ wait \in [Jobs -> Waits]
  BY <1>1 DEF Init, Waits
<1>3. inst \in [state : {"Running", "Incidented", "Ended"}, incident : Jobs \cup {NoJob}]
  BY DEF Init
<1>4. call \in [Calls -> [phase : Phases, op : Ops, token : 0..Len(grants)]]
  BY <1>1 DEF Init, Phases, Ops
<1>5. \A c \in Calls : call[c].phase # "idle" => call[c].token # 0
  BY DEF Init
<1>6. \A j \in Jobs : JobOK(j)
  BY NoRowOK DEF Init, JobOK
<1> QED BY <1>1, <1>2, <1>3, <1>4, <1>5, <1>6 DEF Inv, TypeOK

\* A step that replaces the row and the fibre of one job and leaves tokens,
\* completions and calls alone needs to be checked for that job only.
LEMMA OneJobStep ==
  ASSUME Inv, NEW j \in Jobs, NEW r \in Rows, NEW w \in Waits,
         row' = [row EXCEPT ![j] = r], wait' = [wait EXCEPT ![j] = w],
         UNCHANGED <<grants, done>>,
         inst' \in [state : {"Running", "Incidented", "Ended"}, incident : Jobs \cup {NoJob}],
         call' \in [Calls -> [phase : Phases, op : Ops, token : 0..Len(grants)]],
         \A c \in Calls : call'[c].phase # "idle" => call'[c].token # 0,
         r.status \in {"pending", "claimed"} => w = "parked",
         w = "parked" => r.status # "absent",
         done[j] # 0 => w \in {"resumed", "gone"} /\ r.status = "absent",
         RowBudget(r)
  PROVE  Inv'
<1>1. TypeOK'
  BY DEF Inv, TypeOK
<1>2. row'[j] = r /\ wait'[j] = w
  BY DEF Inv, TypeOK
<1>3. \A i \in Jobs : i # j => row'[i] = row[i] /\ wait'[i] = wait[i]
  BY DEF Inv, TypeOK
<1>4. \A i \in Jobs : JobOK(i)'
  BY <1>2, <1>3 DEF Inv, JobOK, RowBudget
<1> QED BY <1>1, <1>4 DEF Inv

\* A step that only moves calls.
LEMMA CallStep ==
  ASSUME Inv, UNCHANGED <<row, grants, done, wait, inst>>,
         call' \in [Calls -> [phase : Phases, op : Ops, token : 0..Len(grants)]],
         \A c \in Calls : call'[c].phase # "idle" => call'[c].token # 0
  PROVE  Inv'
<1>1. TypeOK'
  BY DEF Inv, TypeOK
<1>2. \A j \in Jobs : JobOK(j)'
  BY DEF Inv, JobOK, RowBudget
<1> QED BY <1>1, <1>2 DEF Inv

\* Answering a call that was validated keeps its token.
LEMMA AnswerOK ==
  ASSUME Inv, NEW c \in Calls, call[c].phase = "validated",
         NEW phase \in {"ok", "error"}, Answer(c, phase)
  PROVE  /\ call' \in [Calls -> [phase : Phases, op : Ops, token : 0..Len(grants)]]
         /\ \A d \in Calls : call'[d].phase # "idle" => call'[d].token # 0
  BY DEF Inv, TypeOK, Answer, Phases

LEMMA KernelSteps ==
  ASSUME Inv, NEW j \in Jobs, ExecNative(j) \/ InterruptScope(j) \/ ResolveIncident(j)
  PROVE  Inv'
<1> USE DEF Inv
<1>0. /\ row[j] \in Rows /\ wait[j] \in Waits /\ JobOK(j)
      /\ row = [row EXCEPT ![j] = row[j]]
  BY DEF TypeOK
<1>1. CASE ExecNative(j)
  <2>1. done[j] = 0 /\ row[j].status \notin {"pending", "claimed"}
    BY <1>0, <1>1 DEF ExecNative, JobOK
  <2>2. Enqueue(j) \in Rows /\ RowBudget(Enqueue(j)) /\ Enqueue(j).status # "absent"
    BY <1>0, NewRowOK DEF Enqueue, JobOK
  <2>3. /\ row' = [row EXCEPT ![j] = Enqueue(j)] /\ wait' = [wait EXCEPT ![j] = "parked"]
        /\ UNCHANGED <<grants, done, inst, call>>
    BY <1>1, <2>1 DEF ExecNative
  <2>4. "parked" \in Waits
    BY DEF Waits
  <2> QED BY <2>1, <2>2, <2>3, <2>4, OneJobStep DEF TypeOK
<1>2. CASE InterruptScope(j)
  <2> DEFINE r == IF wait[j] = "parked" THEN NoRow ELSE row[j]
  <2>1. /\ row' = [row EXCEPT ![j] = r] /\ wait' = [wait EXCEPT ![j] = "gone"]
        /\ UNCHANGED <<grants, done, inst, call>>
        /\ wait[j] \in {"ready", "parked", "incident"}
    BY <1>2 DEF InterruptScope
  <2>2. r \in Rows /\ RowBudget(r) /\ r.status \notin {"pending", "claimed"} /\ done[j] = 0
    BY <1>0, <2>1, NoRowOK DEF JobOK
  <2>3. "gone" \in Waits
    BY DEF Waits
  <2> HIDE DEF r
  <2> QED BY <2>1, <2>2, <2>3, OneJobStep DEF TypeOK
<1>3. CASE ResolveIncident(j)
  <2> DEFINE w == IF wait[j] = "incident" THEN "ready" ELSE wait[j]
  <2>1. /\ wait' = [wait EXCEPT ![j] = w] /\ row' = [row EXCEPT ![j] = row[j]]
        /\ UNCHANGED <<grants, done, call>>
    BY <1>0, <1>3 DEF ResolveIncident
  <2>2. inst' \in [state : {"Running", "Incidented", "Ended"}, incident : Jobs \cup {NoJob}]
    BY <1>3 DEF ResolveIncident, TypeOK
  <2>3. w \in Waits /\ (w = "ready" => wait[j] \in {"ready", "incident"})
                   /\ (w # "ready" => w = wait[j])
    BY <1>0 DEF Waits
  <2> HIDE DEF w
  <2>4. /\ row[j].status \in {"pending", "claimed"} => w = "parked"
        /\ w = "parked" => row[j].status # "absent"
        /\ done[j] # 0 => w \in {"resumed", "gone"} /\ row[j].status = "absent"
    BY <1>0, <2>3 DEF JobOK
  <2> QED BY <1>0, <2>1, <2>2, <2>3, <2>4, OneJobStep DEF TypeOK, JobOK
<1> QED BY <1>1, <1>2, <1>3

LEMMA EndStep == ASSUME Inv, EndInstance PROVE Inv'
<1>1. /\ row' = [j \in Jobs |-> NoRow] /\ wait' = [j \in Jobs |-> "gone"]
      /\ inst' \in [state : {"Running", "Incidented", "Ended"}, incident : Jobs \cup {NoJob}]
      /\ UNCHANGED <<grants, done, call>>
  BY DEF Inv, TypeOK, EndInstance, Cleanup
<1>2. TypeOK'
  BY <1>1, NoRowOK DEF Inv, TypeOK, Waits
<1>3. \A j \in Jobs : JobOK(j)'
  BY <1>1, NoRowOK DEF JobOK
<1> QED BY <1>2, <1>3 DEF Inv

\* A fresh lease: one token more, and the row's accounts still add up.
LEMMA DequeueStep == ASSUME Inv, NEW j \in Jobs, Dequeue(j) PROVE Inv'
<1> DEFINE r == [row[j] EXCEPT !.status = "claimed", !.live = TRUE,
                               !.token = Len(grants) + 1, !.attempts = @ + 1]
<1>1. row[j] \in Rows /\ JobOK(j) /\ row[j].status = "pending"
  BY DEF Inv, TypeOK, Dequeue
<1>2. /\ row[j].retries \in Nat /\ row[j].attempts \in Nat /\ row[j].retries >= 1
      /\ row[j].attempts + row[j].retries = Retries
  BY <1>1 DEF Rows, JobOK, RowBudget
<1>3. /\ grants \in Seq(Jobs) /\ Len(grants) \in Nat
      /\ grants' \in Seq(Jobs) /\ Len(grants') = Len(grants) + 1
  BY DEF Inv, TypeOK, Dequeue
<1>4. r.status = "claimed" /\ r.retries = row[j].retries /\ r.attempts = row[j].attempts + 1
  BY <1>1 DEF Rows
<1>5. r \in Rows
  <2>1. Len(grants) + 1 \in Nat /\ row[j].attempts + 1 \in Nat
    BY <1>2, <1>3
  <2> QED BY <1>1, <2>1 DEF Rows, Status
<1>6. RowBudget(r)
  BY <1>2, <1>4, RetriesAssumption DEF RowBudget
<1>7. row' = [row EXCEPT ![j] = r] /\ UNCHANGED <<done, wait, inst, call>>
  BY DEF Dequeue
<1> HIDE DEF r
<1>8. TypeOK'
  <2>1. row' \in [Jobs -> Rows]
    BY <1>5, <1>7 DEF Inv, TypeOK
  <2>2. 0..Len(grants) \subseteq 0..Len(grants')
    BY <1>3
  <2>3. done' \in [Jobs -> 0..Len(grants')]
    BY <1>7, <2>2 DEF Inv, TypeOK
  <2>4. call' \in [Calls -> [phase : Phases, op : Ops, token : 0..Len(grants')]]
    <3> SUFFICES ASSUME NEW c \in Calls
                 PROVE  call[c] \in [phase : Phases, op : Ops, token : 0..Len(grants')]
      BY <1>7 DEF Inv, TypeOK
    <3> QED BY <2>2 DEF Inv, TypeOK
  <2> QED BY <1>3, <1>7, <2>1, <2>3, <2>4 DEF Inv, TypeOK
<1>9. \A i \in Jobs : i # j => row'[i] = row[i]
  BY <1>7 DEF Inv, TypeOK
<1>10. row'[j] = r
  BY <1>7 DEF Inv, TypeOK
<1>11. \A i \in Jobs : JobOK(i)'
  BY <1>1, <1>4, <1>6, <1>7, <1>9, <1>10 DEF Inv, JobOK, RowBudget
<1> QED BY <1>8, <1>11 DEF Inv

LEMMA LeaseSteps ==
  ASSUME Inv, NEW j \in Jobs, ClaimExpires(j) \/ Reclaim(j)
  PROVE  Inv'
<1>0. /\ row[j] \in Rows /\ wait[j] \in Waits /\ JobOK(j)
      /\ wait = [wait EXCEPT ![j] = wait[j]]
  BY DEF Inv, TypeOK
<1>1. CASE ClaimExpires(j)
  <2> DEFINE r == [row[j] EXCEPT !.live = FALSE]
  <2>1. r \in Rows
    BY <1>0 DEF Rows
  <2>2. r.status = row[j].status /\ r.retries = row[j].retries /\ r.attempts = row[j].attempts
    BY <1>0 DEF Rows
  <2>3. row' = [row EXCEPT ![j] = r] /\ UNCHANGED <<grants, done, wait, inst, call>>
    BY <1>1 DEF ClaimExpires
  <2> HIDE DEF r
  <2>4. RowBudget(r)
    BY <1>0, <2>2 DEF JobOK, RowBudget
  <2> QED BY <1>0, <2>1, <2>2, <2>3, <2>4, OneJobStep DEF JobOK, Inv, TypeOK
<1>2. CASE Reclaim(j)
  <2> DEFINE r == IF LastAttempt(j) THEN DeadLetter(j) ELSE BackToPending(j)
  <2>1. /\ row' = [row EXCEPT ![j] = r] /\ UNCHANGED <<grants, done, wait, inst, call>>
        /\ row[j].status = "claimed"
    BY <1>2 DEF Reclaim
  <2>2. r \in Rows /\ RowBudget(r) /\ r.status \in {"pending", "dead_lettered"}
    BY <1>0, <2>1, DeadLetterOK, BackToPendingOK DEF JobOK
  <2> HIDE DEF r
  <2>3. wait[j] = "parked" /\ done[j] = 0
    BY <1>0, <2>1 DEF JobOK
  <2> QED BY <1>0, <2>1, <2>2, <2>3, OneJobStep DEF Inv, TypeOK
<1> QED BY <1>1, <1>2

LEMMA SubmitStep ==
  ASSUME Inv, NEW c \in Calls, NEW op \in Ops, NEW k \in 1..Len(grants), Submit(c, op, k)
  PROVE  Inv'
<1> DEFINE phase == IF HoldsClaim(k) THEN "validated" ELSE "error"
<1>1. phase \in Phases /\ k \in 0..Len(grants) /\ k # 0
  BY DEF Phases, Inv, TypeOK
<1>2. /\ call' = [call EXCEPT ![c] = [phase |-> phase, op |-> op, token |-> k]]
      /\ UNCHANGED <<row, grants, done, wait, inst>>
  BY DEF Submit
<1> HIDE DEF phase
<1>3. /\ call' \in [Calls -> [phase : Phases, op : Ops, token : 0..Len(grants)]]
      /\ \A d \in Calls : call'[d].phase # "idle" => call'[d].token # 0
  BY <1>1, <1>2 DEF Inv, TypeOK
<1> QED BY <1>2, <1>3, CallStep

LEMMA DecideStep ==
  ASSUME Inv, NEW c \in Calls, Decide(c) \/ Refused(c)
  PROVE  Inv'
<1> DEFINE k == call[c].token
           j == grants[k]
<1>0. call[c].phase = "validated"
  BY DEF Decide, Refused
<1>1. k \in 1..Len(grants)
  <2>1. k \in 0..Len(grants) /\ k # 0 /\ Len(grants) \in Nat
    BY <1>0 DEF Inv, TypeOK
  <2> QED BY <2>1
<1>2. j \in Jobs
  BY <1>1 DEF Inv, TypeOK
<1>3. row[j] \in Rows /\ wait[j] \in Waits /\ JobOK(j)
  BY <1>2 DEF Inv, TypeOK
<1>4. /\ wait = [wait EXCEPT ![j] = wait[j]] /\ row = [row EXCEPT ![j] = row[j]]
  BY <1>2 DEF Inv, TypeOK
<1>5. HoldsClaim(k) => row[j].status = "claimed"
  BY DEF HoldsClaim
<1>6. inst \in [state : {"Running", "Incidented", "Ended"}, incident : Jobs \cup {NoJob}]
  BY DEF Inv, TypeOK
<1> HIDE DEF k, j
<1>7. CASE Refused(c)
  BY <1>0, <1>7, AnswerOK, CallStep DEF Refused
<1>8. ASSUME Answer(c, "error") \/ Answer(c, "ok"), UNCHANGED <<row, grants, done, wait, inst>>
      PROVE  Inv'
  BY <1>0, <1>8, AnswerOK, CallStep
<1>9. ASSUME UNCHANGED grants, DecideComplete(c, j, k) PROVE Inv'
  <2>1. CASE /\ done[j] = 0 /\ wait[j] = "parked" /\ HoldsClaim(k)
             /\ row' = [row EXCEPT ![j] = NoRow]
             /\ done' = [done EXCEPT ![j] = k]
             /\ wait' = [wait EXCEPT ![j] = "resumed"]
             /\ Answer(c, "ok") /\ UNCHANGED inst
    <3>1. /\ call' \in [Calls -> [phase : Phases, op : Ops, token : 0..Len(grants)]]
          /\ \A d \in Calls : call'[d].phase # "idle" => call'[d].token # 0
      BY <1>0, <2>1, AnswerOK
    <3>2. k \in 0..Len(grants) /\ "resumed" \in Waits
      BY <1>1 DEF Waits
    <3>3. TypeOK'
      BY <1>9, <2>1, <3>1, <3>2, NoRowOK DEF Inv, TypeOK
    <3>4. row'[j] = NoRow /\ wait'[j] = "resumed"
      BY <1>2, <2>1 DEF Inv, TypeOK
    <3>5. \A i \in Jobs : i # j => row'[i] = row[i] /\ wait'[i] = wait[i] /\ done'[i] = done[i]
      BY <2>1 DEF Inv, TypeOK
    <3>6. \A i \in Jobs : JobOK(i)'
      BY <3>4, <3>5, NoRowOK DEF Inv, JobOK, RowBudget
    <3> QED BY <3>3, <3>6 DEF Inv
  <2> QED BY <1>8, <1>9, <2>1 DEF DecideComplete
<1>10. ASSUME UNCHANGED grants, IgnoreFailure(c, j) PROVE Inv'
  <2>1. /\ call' \in [Calls -> [phase : Phases, op : Ops, token : 0..Len(grants)]]
        /\ \A d \in Calls : call'[d].phase # "idle" => call'[d].token # 0
    BY <1>0, <1>10, AnswerOK DEF IgnoreFailure
  <2>2. /\ row' = [row EXCEPT ![j] = NoRow] /\ wait' = [wait EXCEPT ![j] = wait[j]]
        /\ UNCHANGED <<grants, done, inst>> /\ wait[j] # "parked"
    BY <1>4, <1>10 DEF IgnoreFailure
  <2> QED BY <1>2, <1>3, <1>6, <2>1, <2>2, NoRowOK, OneJobStep DEF JobOK
<1>11. ASSUME UNCHANGED grants, DecideTransient(c, j, k) PROVE Inv'
  <2>1. CASE HoldsClaim(k) /\ ~LastAttempt(j)
    <3>1. /\ call' \in [Calls -> [phase : Phases, op : Ops, token : 0..Len(grants)]]
          /\ \A d \in Calls : call'[d].phase # "idle" => call'[d].token # 0
      BY <1>0, <1>11, <2>1, AnswerOK DEF DecideTransient
    <3>2. /\ row' = [row EXCEPT ![j] = BackToPending(j)] /\ wait' = [wait EXCEPT ![j] = "parked"]
          /\ UNCHANGED <<grants, done, inst>> /\ wait[j] = "parked"
      BY <1>4, <1>11, <2>1 DEF DecideTransient
    <3>3. /\ BackToPending(j) \in Rows /\ BackToPending(j).status = "pending"
          /\ RowBudget(BackToPending(j)) /\ done[j] = 0 /\ "parked" \in Waits
      BY <1>2, <1>3, <1>5, <2>1, <3>2, BackToPendingOK DEF JobOK, Waits
    <3> QED BY <1>2, <1>6, <3>1, <3>2, <3>3, OneJobStep
  <2>2. CASE ~(HoldsClaim(k) /\ ~LastAttempt(j))
    BY <1>8, <1>11, <2>2 DEF DecideTransient
  <2> QED BY <2>1, <2>2
<1>12. ASSUME UNCHANGED grants, DecideIncident(c, j, k) PROVE Inv'
  <2>1. CASE HoldsClaim(k)
    <3>1. /\ call' \in [Calls -> [phase : Phases, op : Ops, token : 0..Len(grants)]]
          /\ \A d \in Calls : call'[d].phase # "idle" => call'[d].token # 0
      BY <1>0, <1>12, <2>1, AnswerOK DEF DecideIncident
    <3>2. /\ row' = [row EXCEPT ![j] = DeadLetter(j)] /\ wait' = [wait EXCEPT ![j] = "incident"]
          /\ UNCHANGED <<grants, done>> /\ wait[j] = "parked"
          /\ inst' = [state |-> "Incidented", incident |-> j]
      BY <1>12, <2>1 DEF DecideIncident
    <3>3. /\ DeadLetter(j) \in Rows /\ DeadLetter(j).status = "dead_lettered"
          /\ RowBudget(DeadLetter(j)) /\ done[j] = 0 /\ "incident" \in Waits
      BY <1>2, <1>3, <1>5, <2>1, <3>2, DeadLetterOK DEF JobOK, Waits
    <3>4. inst' \in [state : {"Running", "Incidented", "Ended"}, incident : Jobs \cup {NoJob}]
      BY <1>2, <3>2
    <3> QED BY <1>2, <3>1, <3>2, <3>3, <3>4, OneJobStep
  <2>2. CASE ~HoldsClaim(k)
    BY <1>8, <1>12, <2>2 DEF DecideIncident
  <2> QED BY <2>1, <2>2
<1>13. ASSUME UNCHANGED grants, DecideRouted(c, j) PROVE Inv'
  <2>1. /\ call' \in [Calls -> [phase : Phases, op : Ops, token : 0..Len(grants)]]
        /\ \A d \in Calls : call'[d].phase # "idle" => call'[d].token # 0
    BY <1>0, <1>13, AnswerOK DEF DecideRouted
  <2>2. /\ row' = [row EXCEPT ![j] = NoRow] /\ wait' = [wait EXCEPT ![j] = "routed"]
        /\ UNCHANGED <<grants, done, inst>> /\ wait[j] = "parked"
    BY <1>13 DEF DecideRouted
  <2>3. done[j] = 0 /\ "routed" \in Waits
    BY <1>3, <2>2 DEF JobOK, Waits
  <2> QED BY <1>2, <1>6, <2>1, <2>2, <2>3, NoRowOK, OneJobStep
<1> QED BY <1>7, <1>9, <1>10, <1>11, <1>12, <1>13 DEF Decide, k, j

LEMMA InvStep == Inv /\ [Next]_vars => Inv'
<1> SUFFICES ASSUME Inv, [Next]_vars PROVE Inv'
  OBVIOUS
<1>1. CASE UNCHANGED vars
  BY <1>1 DEF vars, Inv, TypeOK, JobOK, RowBudget
<1>2. CASE Next
  BY <1>2, EndStep, KernelSteps, DequeueStep, LeaseSteps, SubmitStep, DecideStep DEF Next
<1> QED BY <1>1, <1>2

\* Rows, tokens, fibres and RPCs keep their types; in particular the retry
\* counter never goes below zero.
THEOREM TypeCorrect == Spec => []TypeOK
<1>1. Inv => TypeOK
  BY DEF Inv
<1> QED BY <1>1, InvInit, InvStep, PTL DEF Spec

\* Every job that is offered or leased has its fibre parked on it.
THEOREM GhostFree == Spec => []NoGhostJobs
<1>1. Inv => NoGhostJobs
  BY DEF Inv, JobOK, NoGhostJobs
<1> QED BY <1>1, InvInit, InvStep, PTL DEF Spec

\* No fibre is left parked on a deleted job.
THEOREM ParkedKeepsRow == Spec => []ParkedHasRow
<1>1. Inv => ParkedHasRow
  BY DEF Inv, JobOK, ParkedHasRow
<1> QED BY <1>1, InvInit, InvStep, PTL DEF Spec

\* A recorded completion is never undone or repeated.
THEOREM CompletionIsFinal == Spec => []CompletionSticks
<1>1. Inv => CompletionSticks
  BY DEF Inv, JobOK, CompletionSticks
<1> QED BY <1>1, InvInit, InvStep, PTL DEF Spec

\* The retry budget bounds the attempts.
THEOREM BudgetBoundsAttempts == Spec => []AttemptsBounded
<1>1. Inv => AttemptsBounded
  <2> SUFFICES ASSUME Inv, NEW j \in Jobs PROVE row[j].attempts <= Retries
    BY DEF AttemptsBounded
  <2>1. /\ row[j].retries \in Nat /\ row[j].attempts \in Nat /\ row[j].status \in Status
        /\ RowBudget(row[j])
    BY DEF Inv, TypeOK, Rows, JobOK
  <2> QED BY <2>1, RetriesAssumption DEF RowBudget, Status
<1> QED BY <1>1, InvInit, InvStep, PTL DEF Spec

\* A fibre is resumed, or stopped on an incident, only under a claim that is
\* in force at the commit.
THEOREM ClaimOwnerDecides == Spec => OnlyClaimOwnerDecides
<1> DEFINE Moves(j) == wait[j] = "parked" /\ wait'[j] \in {"resumed", "incident"}
           Decider(j) == \E c \in Calls :
                           /\ call[c].phase = "validated" /\ call'[c].phase = "ok"
                           /\ grants[call[c].token] = j /\ HoldsClaim(call[c].token)
<1>1. Inv /\ [Next]_vars => [\A j \in Jobs : Moves(j) => Decider(j)]_vars
  <2> SUFFICES ASSUME Inv, Next, NEW j \in Jobs, Moves(j) PROVE Decider(j)
    BY DEF vars
  <2>0. wait \in [Jobs -> Waits]
    BY DEF Inv, TypeOK
  <2>1. CASE EndInstance
    BY <2>1 DEF EndInstance
  <2>2. ASSUME NEW i \in Jobs, ExecNative(i) \/ InterruptScope(i) \/ ResolveIncident(i)
        PROVE  FALSE
    BY <2>0, <2>2 DEF ExecNative, InterruptScope, ResolveIncident
  <2>3. ASSUME NEW i \in Jobs, Dequeue(i) \/ ClaimExpires(i) \/ Reclaim(i) PROVE FALSE
    BY <2>3 DEF Dequeue, ClaimExpires, Reclaim
  <2>4. ASSUME NEW c \in Calls, NEW op \in Ops, NEW k \in 1..Len(grants), Submit(c, op, k)
        PROVE  FALSE
    BY <2>4 DEF Submit
  <2>5. ASSUME NEW c \in Calls, Refused(c) PROVE FALSE
    BY <2>5 DEF Refused
  <2>6. ASSUME NEW c \in Calls, Decide(c) PROVE Decider(j)
    <3> DEFINE k == call[c].token
    <3>1. call[c].phase = "validated" /\ call \in [Calls -> [phase : Phases, op : Ops, token : 0..Len(grants)]]
      BY <2>6 DEF Decide, Inv, TypeOK
    <3>2. grants[k] = j /\ HoldsClaim(k) /\ Answer(c, "ok")
      BY <2>0, <2>6 DEF Decide, DecideComplete, IgnoreFailure, DecideTransient, DecideIncident,
                        DecideRouted
    <3>3. call'[c].phase = "ok"
      BY <3>1, <3>2 DEF Answer
    <3> QED BY <3>1, <3>2, <3>3
  <2> QED BY <2>1, <2>2, <2>3, <2>4, <2>5, <2>6 DEF Next
<1> QED BY <1>1, InvInit, InvStep, PTL DEF Spec, OnlyClaimOwnerDecides
=============================================================================
