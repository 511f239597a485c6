-------------------------------- MODULE Bus --------------------------------
(***************************************************************************)
(* The federated bus: a calling domain and a receiving domain, each with   *)
(* its own database.  The caller's outbox holds invocation rows, the       *)
(* receiver's outbox result rows; sender tasks (dsl-bus-client/sender.rs)  *)
(* lease rows, call the peer and record the answer.  The receiver's submit *)
(* handler runs the verb and commits receipt and result together; the      *)
(* caller's ack handler and result handler move the waiting instance       *)
(* through the stages of its pending row (bus_runtime.rs).                 *)
(*                                                                         *)
(* job[<<p, k>>] is process p's dispatch of call k from the claim of the   *)
(* row to the record of the answer, the peer's handler included while the  *)
(* RPC is out.  job[<<e, k>>], for an endpoint e, is a handler whose RPC   *)
(* broke and that runs on with nobody waiting.                             *)
(***************************************************************************)
EXTENDS Naturals

CONSTANTS Calls,        \* callouts, named by idempotency key
          Senders,      \* sender tasks of the calling domain
          Returners,    \* sender tasks of the receiving domain
          Once,         \* calls whose verb deduplicates on the key (spawn-instance)
          Made,         \* the sets of calls an engine may have committed
          Outcome,      \* what the verb of each call may answer
          Mortal,       \* processes that may crash
          MaxFaults     \* bound on crashes, broken calls, slow calls and cancellations

Endpoints == {"invocation", "result"}
Procs == Senders \cup Returners
Rows == Endpoints \X Calls
Handlers == (Procs \cup Endpoints) \X Calls
Outcomes == {"commit", "terminal", "retry", "malformed", "reject"}

ASSUME ProcsAssumption ==
  /\ Senders \cap Returners = {}
  /\ Procs \cap (Endpoints \cup {"nobody"}) = {}

ASSUME OutcomeAssumption == Outcome \in [Calls -> SUBSET Outcomes]

ASSUME OnceAssumption == Once \subseteq Calls

VARIABLES
  row,        \* outbox rows: status, claiming process, backoff over, claim in force,
              \* execution id and, in a result, the outcome
  pend,       \* pending invocation rows: still there, execution id (0: not yet)
  inst,       \* state of the calling instance
  inbox,      \* receipts: execution id by endpoint and key (0: none)
  runs,       \* times the verb was carried out
  job,        \* dispatches in progress
  sender,     \* sender tasks
  faults

vars == <<row, pend, inst, inbox, runs, job, sender, faults>>

Statuses == {"absent", "pending", "dispatching", "submitted"}
Waits == {"submitting", "invoked", "failed", "cancelled"}
Remote == {"lookup", "run", "record", "advance", "settle", "receive"}
Stages == {"none", "error", "ok", "loaded"} \cup Remote
Tasks == [at : {"idle", "drain", "busy", "dead"}, failed : BOOLEAN]

NoJob == [at |-> "none", exec |-> 0]
Pending(exec, says) == [status |-> "pending", holder |-> "nobody", due |-> TRUE,
                        lease |-> FALSE, exec |-> exec, says |-> says]

Endpoint(p) == IF p \in Senders \cup {"invocation"} THEN "invocation" ELSE "result"

Init ==
  /\ \E made \in Made :
       row = [r \in Rows |-> IF r[1] = "invocation" /\ r[2] \in made THEN Pending(0, "none")
                             ELSE [Pending(0, "none") EXCEPT !.status = "absent"]]
  /\ pend = [k \in Calls |-> [open |-> TRUE, exec |-> 0]]
  /\ inst = [k \in Calls |-> "submitting"]
  /\ inbox = [r \in Rows |-> 0]
  /\ runs = [k \in Calls |-> 0]
  /\ job = [h \in Handlers |-> NoJob]
  /\ sender = [p \in Procs |-> [at |-> "idle", failed |-> FALSE]]
  /\ faults = 0

-----------------------------------------------------------------------------
(* The sender task.  A pass lists the tenants that have a pending row,     *)
(* then claims and dispatches batches until one is empty; an error of a    *)
(* batch ends the pass.                                                    *)

ListTenants(p) ==
  /\ sender[p].at = "idle"
  /\ \E k \in Calls : row[<<Endpoint(p), k>>].status = "pending"
  /\ sender' = [sender EXCEPT ![p].at = "drain"]
  /\ UNCHANGED <<row, pend, inst, inbox, runs, job, faults>>

Claimable(r) ==
  /\ row[r].status \in {"pending", "dispatching"}
  /\ row[r].due
  /\ ~row[r].lease

ClaimBatch(p) == {k \in Calls : Claimable(<<Endpoint(p), k>>)}

Drain(p) ==
  /\ sender[p].at = "drain"
  /\ \E batch \in {ClaimBatch(p)} :
       /\ row' = [r \in Rows |->
            IF r[1] = Endpoint(p) /\ r[2] \in batch
            THEN [row[r] EXCEPT !.status = "dispatching", !.holder = p, !.lease = TRUE]
            ELSE row[r]]
       /\ job' = [h \in Handlers |->
            IF h[1] = p /\ h[2] \in batch
            THEN [at |-> "lookup", exec |-> row[<<Endpoint(p), h[2]>>].exec]
            ELSE job[h]]
       /\ sender' = [sender EXCEPT ![p] =
            [at |-> IF batch = {} THEN "idle" ELSE "busy", failed |-> FALSE]]
  /\ UNCHANGED <<pend, inst, inbox, runs, faults>>

BatchDone(p) ==
  /\ sender[p].at = "busy"
  /\ \A k \in Calls : job[<<p, k>>].at = "none"
  /\ sender' = [sender EXCEPT ![p].at = IF sender[p].failed THEN "idle" ELSE "drain"]
  /\ UNCHANGED <<row, pend, inst, inbox, runs, job, faults>>

-----------------------------------------------------------------------------
(* The peer's handlers.  Every row of a batch is sent at once.  An answer  *)
(* reaches the process that waits for it; a handler nobody waits for just  *)
(* ends.                                                                   *)

Answer(h, at, exec) ==
  job' = [job EXCEPT ![h] = IF h[1] \in Procs THEN [at |-> at, exec |-> exec] ELSE NoJob]

\* submit and deliver_result both look the key up in the inbox first.
Lookup(h) ==
  /\ job[h].at = "lookup"
  /\ \E r \in {<<Endpoint(h[1]), h[2]>>} :
       IF inbox[r] # 0 THEN Answer(h, "ok", inbox[r])
       ELSE job' = [job EXCEPT ![h].at = IF r[1] = "invocation" THEN "run" ELSE "advance"]
  /\ UNCHANGED <<row, pend, inst, inbox, runs, sender, faults>>

\* Variant: a spawn does not look its key up.
RunCountAgain(k) == runs[k] + 1

\* spawn-instance re-checks its key under the advisory lock and starts the
\* instance once; other verbs act, and name the execution, afresh.
RunCount(k) == IF k \in Once /\ runs[k] > 0 THEN runs[k] ELSE runs[k] + 1

Run(h) ==
  /\ job[h].at = "run"
  /\ \/ /\ "reject" \in Outcome[h[2]]
        /\ Answer(h, "error", 0)
        /\ UNCHANGED runs
     \/ /\ Outcome[h[2]] # {"reject"}
        /\ runs' = [runs EXCEPT ![h[2]] = RunCount(h[2])]
        /\ job' = [job EXCEPT ![h] = [at |-> "record", exec |-> RunCount(h[2])]]
  /\ UNCHANGED <<row, pend, inst, inbox, sender, faults>>

\* Variant: the insert revives the row.
InsertOutboxAgain(r, exec, says) ==
  [row EXCEPT ![r] = Pending(IF row[r].status = "absent" THEN exec ELSE row[r].exec, says)]

\* ON CONFLICT DO NOTHING: a result row that is there keeps its payload.
InsertOutbox(r, exec, says) ==
  IF row[r].status = "absent" THEN [row EXCEPT ![r] = Pending(exec, says)] ELSE row

\* Variant: the insert overwrites the receipt.
InsertInboxOver(r, exec) == [inbox EXCEPT ![r] = exec]

\* ON CONFLICT DO NOTHING: the first receipt stands.
InsertInbox(r, exec) == IF inbox[r] = 0 THEN [inbox EXCEPT ![r] = exec] ELSE inbox

Record(h) ==
  /\ job[h].at = "record"
  /\ inbox' = InsertInbox(<<"invocation", h[2]>>, job[h].exec)
  /\ \E says \in Outcome[h[2]] \ {"reject"} :
       row' = InsertOutbox(<<"result", h[2]>>, job[h].exec, says)
  /\ Answer(h, "ok", job[h].exec)
  /\ UNCHANGED <<pend, inst, runs, sender, faults>>

Found(k, exec) == pend[k].open /\ pend[k].exec = exec

\* StoreBackedAdvancer::advance looks the execution up; an unknown one is
\* ignored and its result counts as received.
Advance(h) ==
  /\ job[h].at = "advance"
  /\ job' = [job EXCEPT ![h].at = IF Found(h[2], job[h].exec) THEN "settle" ELSE "receive"]
  /\ UNCHANGED <<row, pend, inst, inbox, runs, sender, faults>>

TakePending(k) == [pend EXCEPT ![k].open = FALSE]

\* The payload of the result row decides: classify_outcome.
Says(h) == row[<<"result", h[2]>>].says

\* The rest of advance, under the instance's claim: a result to retry is left, a
\* malformed one is an error; any other takes the pending row and, whatever its
\* outcome, fails the instance.
AdvanceCommit(h) ==
  /\ job[h].at = "settle"
  /\ \/ /\ Says(h) = "retry"
        /\ job' = [job EXCEPT ![h].at = "receive"]
        /\ UNCHANGED <<pend, inst>>
     \/ /\ Says(h) = "malformed"
        /\ Answer(h, "error", 0)
        /\ UNCHANGED <<pend, inst>>
     \/ /\ Says(h) \in {"commit", "terminal"}
        /\ ~Found(h[2], job[h].exec)
        /\ Answer(h, "error", 0)
        /\ UNCHANGED <<pend, inst>>
     \/ /\ Says(h) \in {"commit", "terminal"}
        /\ Found(h[2], job[h].exec)
        /\ pend' = TakePending(h[2])
        /\ inst' = [inst EXCEPT ![h[2]] = "failed"]
        /\ job' = [job EXCEPT ![h].at = "receive"]
  /\ UNCHANGED <<row, inbox, runs, sender, faults>>

Receive(h) ==
  /\ job[h].at = "receive"
  /\ inbox' = InsertInbox(<<"result", h[2]>>, job[h].exec)
  /\ Answer(h, "ok", job[h].exec)
  /\ UNCHANGED <<row, pend, inst, runs, sender, faults>>

-----------------------------------------------------------------------------
(* The sender records the answer.  Every update of the row needs the claim *)
(* it was leased with; without it the dispatch is an error of the batch.   *)

Holds(p, k) ==
  /\ row[<<Endpoint(p), k>>].status = "dispatching"
  /\ row[<<Endpoint(p), k>>].holder = p

Close(h) == job' = [job EXCEPT ![h] = NoJob]
Failed(p) == sender' = [sender EXCEPT ![p].failed = TRUE]

\* Variant: a result counts as delivered whatever the peer answered.
UnleaseDelivered(r, status) ==
  [row EXCEPT ![r].status = IF r[1] = "result" THEN "submitted" ELSE status,
              ![r].holder = "nobody", ![r].lease = FALSE, ![r].due = (status # "pending")]

\* The claim is dropped; a row that is pending again backs off.
Unlease(r, status) ==
  [row EXCEPT ![r].status = status, ![r].holder = "nobody", ![r].lease = FALSE,
              ![r].due = (status # "pending")]

MarkRetry(p, k) ==
  /\ job[<<p, k>>].at = "error"
  /\ Close(<<p, k>>)
  /\ \/ /\ Holds(p, k)
        /\ row' = Unlease(<<Endpoint(p), k>>, "pending")
        /\ UNCHANGED sender
     \/ /\ ~Holds(p, k)
        /\ Failed(p)
        /\ UNCHANGED row
  /\ UNCHANGED <<pend, inst, inbox, runs, faults>>

\* dispatch_result: any receipt marks the row submitted.
MarkSubmitted(p, k) ==
  /\ p \in Returners
  /\ job[<<p, k>>].at = "ok"
  /\ Close(<<p, k>>)
  /\ \/ /\ Holds(p, k)
        /\ row' = Unlease(<<"result", k>>, "submitted")
        /\ UNCHANGED sender
     \/ /\ ~Holds(p, k)
        /\ Failed(p)
        /\ UNCHANGED row
  /\ UNCHANGED <<pend, inst, inbox, runs, faults>>

\* The ack handler reads pending row and instance, then claims and commits.
AckLoad(p, k) ==
  /\ p \in Senders
  /\ job[<<p, k>>].at = "ok"
  /\ \/ /\ inst[k] = "submitting" /\ pend[k].open
        /\ job' = [job EXCEPT ![<<p, k>>].at = "loaded"]
        /\ UNCHANGED sender
     \/ /\ inst[k] = "invoked" /\ Found(k, job[<<p, k>>].exec)
        /\ Close(<<p, k>>)
        /\ UNCHANGED sender
     \/ /\ ~(inst[k] = "submitting" /\ pend[k].open)
        /\ ~(inst[k] = "invoked" /\ Found(k, job[<<p, k>>].exec))
        /\ Close(<<p, k>>)
        /\ Failed(p)
  /\ UNCHANGED <<row, pend, inst, inbox, runs, faults>>

\* Variant: the transition forgets the outbox row.
AckedOnly(p, k) == [row EXCEPT ![<<"invocation", k>>].lease = FALSE]

\* The outbox row of an acked submission.
Acked(p, k) == [Unlease(<<"invocation", k>>, "submitted")
                  EXCEPT ![<<"invocation", k>>].exec = job[<<p, k>>].exec]

AckCommit(p, k) ==
  /\ job[<<p, k>>].at = "loaded"
  /\ Close(<<p, k>>)
  /\ \/ /\ Holds(p, k) /\ Found(k, 0)
        /\ row' = Acked(p, k)
        /\ pend' = [pend EXCEPT ![k].exec = job[<<p, k>>].exec]
        /\ inst' = [inst EXCEPT ![k] = "invoked"]
        /\ UNCHANGED sender
     \/ /\ ~(Holds(p, k) /\ Found(k, 0))
        /\ Failed(p)
        /\ UNCHANGED <<row, pend, inst>>
  /\ UNCHANGED <<inbox, runs, faults>>

-----------------------------------------------------------------------------
(* Time and failures.                                                      *)

Backoff(r) ==
  /\ row[r].status = "pending" /\ ~row[r].due
  /\ row' = [row EXCEPT ![r].due = TRUE]
  /\ UNCHANGED <<pend, inst, inbox, runs, job, sender, faults>>

Abandoned(r) == row[r].holder \in Procs /\ job[<<row[r].holder, r[2]>>].at = "none"

ClaimLapse(r) ==
  /\ row[r].lease
  /\ row' = [row EXCEPT ![r].lease = FALSE]
  /\ UNCHANGED <<pend, inst, inbox, runs, job, sender>>

Restart(p) ==
  /\ sender[p].at = "dead"
  /\ sender' = [sender EXCEPT ![p] = [at |-> "idle", failed |-> FALSE]]
  /\ UNCHANGED <<row, pend, inst, inbox, runs, job, faults>>

Fault == faults < MaxFaults /\ faults' = faults + 1

\* A dispatch outlasts its claim.
Slow(r) == ~Abandoned(r) /\ ClaimLapse(r) /\ Fault

\* Handlers of p that may outlive the connection to p.
Orphaned(p) == {k \in Calls : /\ job[<<p, k>>].at \in Remote
                              /\ job[<<Endpoint(p), k>>].at = "none"}

Detach(p, dropped, survivors, after) ==
  job' = [h \in Handlers |->
    IF h[1] = p /\ h[2] \in dropped THEN [at |-> after, exec |-> 0]
    ELSE IF h[1] = Endpoint(p) /\ h[2] \in survivors THEN job[<<p, h[2]>>]
    ELSE job[h]]

\* The connection fails before, during or after the call; the handler may run on.
Lose(p, k) ==
  /\ job[<<p, k>>].at \in Remote
  /\ \E survivors \in SUBSET (Orphaned(p) \cap {k}) : Detach(p, {k}, survivors, "error")
  /\ Fault
  /\ UNCHANGED <<row, pend, inst, inbox, runs, sender>>

\* The handler's process dies, or its database refuses it.
Fail(h) ==
  /\ job[h].at \in Remote
  /\ Answer(h, "error", 0)
  /\ Fault
  /\ UNCHANGED <<row, pend, inst, inbox, runs, sender>>

Crash(p) ==
  /\ p \in Mortal
  /\ sender[p].at # "dead"
  /\ \E survivors \in SUBSET Orphaned(p) : Detach(p, Calls, survivors, "none")
  /\ sender' = [sender EXCEPT ![p].at = "dead"]
  /\ Fault
  /\ UNCHANGED <<row, pend, inst, inbox, runs>>

\* The engine cancels the calling instance.
Cancel(k) ==
  /\ row[<<"invocation", k>>].status # "absent"
  /\ inst[k] \in {"submitting", "invoked"}
  /\ inst' = [inst EXCEPT ![k] = "cancelled"]
  /\ Fault
  /\ UNCHANGED <<row, pend, inbox, runs, job, sender>>

-----------------------------------------------------------------------------
Task(p) ==
  \/ ListTenants(p) \/ Drain(p) \/ BatchDone(p) \/ Restart(p)
  \/ \E k \in Calls : \/ MarkRetry(p, k) \/ MarkSubmitted(p, k)
                       \/ AckLoad(p, k) \/ AckCommit(p, k)

Handle(h) ==
  \/ Lookup(h) \/ Run(h) \/ Record(h)
  \/ Advance(h) \/ AdvanceCommit(h) \/ Receive(h)

Time(r) ==
  \/ Backoff(r)
  \/ Abandoned(r) /\ ClaimLapse(r) /\ UNCHANGED faults

Failure ==
  \/ \E r \in Rows : Slow(r)
  \/ \E p \in Procs : Crash(p) \/ \E k \in Calls : Lose(p, k)
  \/ \E h \in Handlers : Fail(h)
  \/ \E k \in Calls : Cancel(k)

Next ==
  \/ \E p \in Procs : Task(p)
  \/ \E h \in Handlers : Handle(h)
  \/ \E r \in Rows : Time(r)
  \/ Failure

Spec == Init /\ [][Next]_vars

Fairness ==
  /\ \A p \in Procs : WF_vars(Task(p))
  /\ \A h \in Handlers : WF_vars(Handle(h))
  /\ \A r \in Rows : WF_vars(Time(r))

FairSpec == Spec /\ Fairness

-----------------------------------------------------------------------------
RowRecords == [status : Statuses, holder : Procs \cup {"nobody"}, due : BOOLEAN,
               lease : BOOLEAN, exec : Nat, says : Outcomes \cup {"none"}]

\* Types of the tables and of the dispatches in progress.
TypeOK ==
  /\ row \in [Rows -> RowRecords]
  /\ pend \in [Calls -> [open : BOOLEAN, exec : Nat]]
  /\ inst \in [Calls -> Waits]
  /\ inbox \in [Rows -> Nat]
  /\ runs \in [Calls -> Nat]
  /\ job \in [Handlers -> [at : Stages, exec : Nat]]
  /\ sender \in [Procs -> Tasks]
  /\ faults \in Nat

\* submit records receipt and result in one transaction, and two handlers of
\* one key never mix theirs: the execution a duplicate submission is answered
\* with is the one whose result goes back.
ReceiptHasResult ==
  \A k \in Calls :
    /\ inbox[<<"invocation", k>>] # 0 <=> row[<<"result", k>>].status # "absent"
    /\ inbox[<<"invocation", k>>] = row[<<"result", k>>].exec

\* The ack commits outbox row and pending row together: the row is submitted
\* exactly when the pending row has left its first stage, with one execution.
AckIsAtomic ==
  \A k \in Calls :
    /\ row[<<"invocation", k>>].status = "submitted" <=> ~Found(k, 0)
    /\ row[<<"invocation", k>>].exec = pend[k].exec

SubmittedStep == \A r \in Rows : row[r].status = "submitted" => row'[r] = row[r]

\* A submitted row is final: no late retry, ack or claim of a process that
\* lost the row brings it back.
SubmittedStays == [][SubmittedStep]_vars

stage == [k \in Calls |-> IF ~pend[k].open THEN "closed"
                          ELSE IF pend[k].exec # 0 THEN "accepted" ELSE "open"]

C == INSTANCE Callout

\* The bus implements the callout: stages in order, after the receiver ran
\* the verb, and a deduplicated verb run once whatever is repeated or lost.
ImplementsCallout == C!Spec

\* The result was received and its pending row is still there: it came before
\* the ack, named another execution, or asked for a retry.
Missed(k) == pend[k].open /\ inbox[<<"result", k>>] # 0

\* A row left dispatching that no process works on, in an outbox without a
\* pending row: the sender's tenant list does not name it.
Stranded(k) ==
  \E e \in Endpoints :
    /\ row[<<e, k>>].status = "dispatching"
    /\ \A p \in Procs : Endpoint(p) = e => job[<<p, k>>].at = "none"
    /\ \A c \in Calls : row[<<e, c>>].status # "pending"

\* A call that is not refused has its result taken: StoreBackedAdvancer deletes
\* the pending row and fails the instance.  The exceptions are an instance that
\* is cancelled, a result that is malformed or missed, and a row that is
\* stranded for good.
CallsSettle ==
  \A k \in Calls :
    \/ /\ row[<<"invocation", k>>].status # "absent"
       /\ "reject" \notin Outcome[k] \/ inbox[<<"invocation", k>>] # 0
       ~> \/ ~pend[k].open \/ Missed(k) \/ inst[k] = "cancelled"
          \/ row[<<"result", k>>].says = "malformed"
    \/ <>[]Stranded(k)
=============================================================================
