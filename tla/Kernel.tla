------------------------------- MODULE Kernel -------------------------------
(***************************************************************************)
(* The pure function `apply` of bpmn-lite-kernel, one action per command,  *)
(* for one process instance and one verified program.                      *)
(*                                                                         *)
(* A command is applied to a frame (the snapshot the store handed out),    *)
(* yields the next frame, is passed through the Ring 3 shadow check and is *)
(* committed as a whole or not at all.  Claim, apply and commit are one    *)
(* step here: TransitionStore shows that a commit against a superseded     *)
(* revision or fence leaves no trace.                                      *)
(***************************************************************************)
EXTENDS KernelWords

Init ==
    /\ \E w \in Admitted : \E n \in Lengths[w] :
         inst = [workflow |-> w, state |-> "Running", incident |-> 0,
                 payload |-> {}, flags |-> [k \in Flags |-> FALSE], items |-> n,
                 counters |-> [c \in Counters |-> 0], placeholders |-> <<>>]
    /\ fibers = [f \in {1} |-> NewFiber(0, <<>>)]
    /\ records = <<>> /\ jobs = <<>> /\ dead = {} /\ dedupe = <<>>
    /\ timers = <<>> /\ effects = <<>>
    /\ buffer = [m \in Messages |-> "none"]
    /\ fault = {}

(* validate_snapshot_limits: apply refuses a snapshot with more fibres     *)
(* than the verifier allowed for, whatever the command.                    *)
SnapshotInLimits == Cardinality(DOMAIN fibers) <= Limits.max_fibers

(* apply's last step and commit_transition: the frame is checked and then  *)
(* written as a whole; a refused command leaves the state as it was.       *)
Commit(F) == \E G \in {F} :
    IF SnapshotInLimits /\ G.error = "none" /\ Ring3(G)
    THEN /\ inst' = G.inst /\ fibers' = G.fibers /\ records' = G.records
         /\ jobs' = G.jobs /\ dead' = G.dead /\ dedupe' = G.dedupe
         /\ timers' = G.timers /\ effects' = G.effects
         /\ buffer' = G.buffer
         /\ fault' = fault
    ELSE /\ fault' = fault \cup
                {CASE ~SnapshotInLimits -> "limit"
                   [] SnapshotInLimits /\ G.error # "none" -> G.error
                   [] OTHER -> "ring3"}
         /\ buffer' = [m \in DOMAIN buffer |->
                IF m \in G.claimed THEN "claimed" ELSE buffer[m]]
         /\ UNCHANGED <<inst, fibers, records, jobs, dead, dedupe, timers,
                        effects>>

(***************************************************************************)
(* Tick.  tick_instance_inner first claims, for every running fibre that   *)
(* stands AT a message wait, one buffered message of that name; then the   *)
(* kernel runs one running fibre.                                          *)
(***************************************************************************)
Runnable(f) == f \in DOMAIN fibers /\ fibers[f].wait = Running

Prefetch ==
    LET atWait(n) == {f \in DOMAIN fibers :
                        /\ Runnable(f)
                        /\ Program[fibers[f].pc].op = "WaitMsg"
                        /\ Program[fibers[f].pc].name = n}
        free(n) == {m \in DOMAIN buffer : /\ NameOn(m) = n
                                          /\ buffer[m] = "buffered"}
        take(n) == CHOOSE S \in SUBSET free(n) : Cardinality(S) =
                     Min({Cardinality(atWait(n)), Cardinality(free(n))})
    IN  UNION {take(NameOn(m)) : m \in DOMAIN buffer}

Tick(f) ==
    /\ inst.state = "Running"
    /\ Runnable(f)
    /\ \E F \in RunFiber([Frame EXCEPT
                !.claimed = Prefetch,
                !.buffer = [m \in DOMAIN buffer |->
                    IF m \in Prefetch THEN "claimed" ELSE buffer[m]]], f) :
        Commit(F)

(* The claim on a buffered message runs out.                               *)
MessageClaimLapses(m) ==
    /\ buffer[m] = "claimed"
    /\ buffer' = [buffer EXCEPT ![m] = "buffered"]
    /\ UNCHANGED <<inst, fibers, records, jobs, dead, dedupe, timers, effects,
                   fault>>

(***************************************************************************)
(* Job answers.                                                            *)
(***************************************************************************)
ParkedOnJob(k) == {f \in DOMAIN fibers : fibers[f].wait = Waiting("Job", k)}

(* A completion: the worker's payload with its own result merged in, and   *)
(* the flag, or for a DSL task the value in the payload, that it reports.  *)
Completion(k, base, v) ==
    LET i == Program[k[1]]
    IN  [payload |-> base \cup {k}, flags |-> FlagWritten(i, v),
         value |-> i.op = "ExecDslTask" /\ v]

(* Variant of CompleteJob: the payload hash is not compared.               *)
CompleteJobUnchecked(k, base, v) ==
    LET c == Completion(k, base, v)
    IN  /\ k \in DOMAIN jobs
        /\ \E f \in ParkedOnJob(k) :
             Commit([ApplyCompletion(Frame, c) EXCEPT
                !.fibers[f].pc = @ + 1,
                !.fibers[f].wait = Running,
                !.jobs = Without(@, {k}),
                !.dedupe = Put(@, k, c)])

(* The worker read payload "base" (with the activation, or later) and      *)
(* reports v.  A base that is no longer the instance's payload is an       *)
(* OptimisticConflict.                                                     *)
CompleteJob(k, base, v) ==
    LET c == Completion(k, base, v)
    IN  /\ k \in DOMAIN jobs
        /\ base = inst.payload
        /\ \E f \in ParkedOnJob(k) :
             Commit([ApplyCompletion(Frame, c) EXCEPT
                !.fibers[f].pc = @ + 1,
                !.fibers[f].wait = Running,
                !.jobs = Without(@, {k}),
                !.dedupe = Put(@, k, c)])

(* The row goes, or is dead-lettered with the incident.                    *)
FailJob(k, why) ==
    LET acked == [Frame EXCEPT !.jobs = Without(@, {k})]
    IN  /\ k \in DOMAIN jobs
        /\ IF ParkedOnJob(k) = {} THEN Commit(acked)
           ELSE \E f \in ParkedOnJob(k) : Commit([Failed(acked, f, why) EXCEPT
                    !.dead = IF Caught(Frame, f, why) THEN @ ELSE @ \cup {k}])

(***************************************************************************)
(* Timers.                                                                 *)
(***************************************************************************)
(* A stale timer (its fibre gone or no longer waiting) is consumed and     *)
(* changes nothing else.                                                   *)
FireTimer(t) ==
    LET row == timers[t]
        f == t[1]
        spent == Spend(Frame, t)
        woken == [spent EXCEPT !.fibers[f].wait = Running]
    IN  /\ t \in DOMAIN timers /\ timers[t].armed
        /\ CASE /\ row.kind = "Wait" /\ f \in DOMAIN fibers
                /\ fibers[f].wait = Waiting("Timer", <<>>) -> Commit(woken)
             [] /\ row.kind = "Race" /\ f \in DOMAIN fibers
                /\ fibers[f].wait.kind = "Race"
                /\ fibers[f].wait.ref = <<row.rec>> ->
                    Commit(WinRace(spent, f, row.rec, row.target))
             [] row.kind = "Guard" ->
                    \E F \in GuardTimerOutcomes(spent, row.rec) : Commit(F)
             [] OTHER -> Commit(spent)

(***************************************************************************)
(* Answers to calls.  Dispatch, retries and the recording of responses are *)
(* Scheduler's subject; here a recorded response is applied.               *)
(***************************************************************************)
ParkedOnCall(e) == {f \in DOMAIN fibers : fibers[f].wait = Waiting("Effect", e)}

(* The fibre that waits for the call goes on, or the call's arm wins its   *)
(* race; a late arm only settles its row.  Any other completion is refused *)
(* on every pass and changes nothing.                                      *)
CompleteEffect(e, answer, v) ==
    LET f == e[1]
        G == Answered(Frame, e, answer, v)
        arms == {a \in fibers[f].wait.arms : a.effect = e}
    IN  /\ effects[e].state = "open" /\ effects[e].answer = "none"
        /\ f \in DOMAIN fibers
        /\ \/ /\ f \in ParkedOnCall(e)
              /\ Commit([G EXCEPT !.fibers[f].pc = @ + 1,
                                  !.fibers[f].wait = Running])
           \/ \E a \in arms :
                Commit(WinRace(G, f, fibers[f].wait.ref[1], a.target))
           \/ /\ Program[e[2]].op = "ArmEffect" /\ arms = {}
              /\ Commit([Frame EXCEPT !.effects[e].state = "completed",
                                      !.effects[e].answer = "late"])

(* A failed response is that of a job without a key.  It looks for a fibre *)
(* parked on the call, not for a race; an incident settles the row, a      *)
(* route or a rollback leaves it open with the response on record, to be   *)
(* applied again.                                                          *)
FailEffect(e, why) ==
    LET recorded == [Frame EXCEPT !.effects[e].answer = why]
    IN  /\ inst.state \notin Terminal
        /\ effects[e].state = "open" /\ effects[e].answer \in {"none", why}
        /\ IF ParkedOnCall(e) = {} THEN Commit(recorded)
           ELSE \E f \in ParkedOnCall(e) :
                    Commit([Failed(recorded, f, why) EXCEPT !.effects[e].state =
                        IF Caught(Frame, f, why) THEN @ ELSE "failed"])

(***************************************************************************)
(* Messages.  A repeated message id changes nothing (the store's           *)
(* IdempotentNoOp); a message nobody waits for is buffered.                *)
(***************************************************************************)
Subscribers(m) ==
    {f \in DOMAIN fibers :
        \/ fibers[f].wait = Waiting("Msg", <<NameOf[m]>>)
        \/ \E a \in fibers[f].wait.arms : a.name = NameOf[m]}

DeliverMessage(m) ==
    /\ buffer[m] = "none"
    /\ CASE inst.state \in Terminal ->
                Commit([Frame EXCEPT !.buffer[m] = "consumed"])
         [] inst.state \notin Terminal /\ Subscribers(m) = {} ->
                Commit([Frame EXCEPT !.buffer[m] = "buffered"])
         [] OTHER -> \E f \in Subscribers(m) :
                        \E F \in Received(Frame, f, m) : Commit(F)

(***************************************************************************)
(* Operator commands.                                                      *)
(***************************************************************************)
Cancel ==
    /\ "cancel" \in Operator[inst.workflow]
    /\ Commit([Finish(Frame, "Cancelled") EXCEPT !.records = <<>>])

Terminate ==
    /\ "terminate" \in Operator[inst.workflow]
    /\ Commit([Finish(Frame, "Terminated") EXCEPT !.records = <<>>])

(* ResolveIncident for the incident the instance is parked on.             *)
ResolveIncident ==
    LET f == inst.incident
        G == [Frame EXCEPT !.inst.state = "Running", !.inst.incident = 0]
    IN  /\ "resolve" \in Operator[inst.workflow]
        /\ inst.state = "Incidented"
        /\ IF f \in DOMAIN fibers /\ fibers[f].wait.kind = "Incident"
           THEN Commit([G EXCEPT !.fibers[f].wait = Running])
           ELSE Commit(G)

TriggerGuard(r) ==
    /\ "trigger" \in Operator[inst.workflow]
    /\ r \in DOMAIN records /\ records[r].kind \in {"Guard", "GuardN"}
    /\ Commit(Trigger(Frame, r, records[r].handler))

Ticks == \E f \in DOMAIN fibers : Tick(f)

Completions ==
    \E k \in DOMAIN jobs : \E base \in {jobs[k], inst.payload}, v \in BOOLEAN :
        CompleteJob(k, base, v)

Timers == \E t \in DOMAIN timers : FireTimer(t)

Calls ==
    \E e \in DOMAIN effects, v \in BOOLEAN :
        \E answer \in Answers : CompleteEffect(e, answer, v)

Next ==
    \/ Ticks
    \/ Completions
    \/ \E k \in DOMAIN jobs, why \in Failures[inst.workflow] : FailJob(k, why)
    \/ Timers
    \/ Calls
    \/ \E e \in DOMAIN effects, why \in Failures[inst.workflow] :
            FailEffect(e, why)
    \/ \E m \in Messages : DeliverMessage(m)
    \/ \E m \in DOMAIN buffer : MessageClaimLapses(m)
    \/ Cancel
    \/ Terminate
    \/ ResolveIncident
    \/ \E r \in DOMAIN records : TriggerGuard(r)

Spec == Init /\ [][Next]_vars

(* The scheduler keeps ticking runnable instances, firing due timers and   *)
(* dispatching calls, and the workers keep answering their jobs.           *)
FairSpec ==
    /\ Spec
    /\ WF_vars(Ticks) /\ WF_vars(Completions)
    /\ WF_vars(Timers) /\ WF_vars(Calls)

-----------------------------------------------------------------------------
(***************************************************************************)
(* Properties.                                                             *)
(***************************************************************************)

(* Fibres stand at addresses of the program, handles on a control stack    *)
(* are identities, rows are keyed by address and loop epoch.               *)
TypeOK ==
    /\ inst.state \in Terminal \cup {"Running", "Incidented"}
    /\ inst.incident \in Ids \cup {0}
    /\ DOMAIN fibers \subseteq Ids /\ DOMAIN records \subseteq Ids
    /\ \A f \in DOMAIN fibers :
        /\ fibers[f].pc \in DOMAIN Program /\ fibers[f].epoch \in Nat
        /\ fibers[f].stack \in Seq(Ids)
        /\ fibers[f].wait.kind \in {"Running", "Job", "Effect", "Timer", "Msg",
                                    "Barrier", "Race", "Incident"}
    /\ \A k \in DOMAIN jobs \cup dead \cup DOMAIN dedupe :
        k \in (DOMAIN Program) \X Nat
    /\ DOMAIN timers \subseteq Ids \X (DOMAIN Program)
    /\ \A t \in DOMAIN timers : timers[t].left \in Nat
    /\ DOMAIN effects \subseteq Ids \X (DOMAIN Program)
    /\ \A e \in DOMAIN effects :
        effects[e].state \in {"open", "completed", "failed"}
    /\ DOMAIN buffer \subseteq Messages \cup (Ids \X (DOMAIN Program))
    /\ Range(buffer) \subseteq {"none", "buffered", "claimed", "consumed"}

(* Ring 3 never fires: every frame the kernel computes passes its own      *)
(* shadow check, whatever the order of ticks, answers and timers.          *)
Ring3Silent == "ring3" \notin fault

(* No ghost activations: a job that dequeue_jobs may hand to a worker has  *)
(* a fibre parked on it, so the worker's answer is not refused.            *)
NoGhostJobs == \A k \in DOMAIN jobs : ParkedOnJob(k) # {}

(* Quiescence: every parked fibre of a live instance has something that    *)
(* can still wake it - a live job row, a call that is not settled, an      *)
(* armed timer of its own, a barrier with a branch outstanding, a race     *)
(* with an arm that can still win.                                         *)
WaitsHaveWakers ==
    inst.state \notin Terminal => \A f \in DOMAIN fibers :
        LET w == fibers[f].wait
            armed(kind) == {t \in DOMAIN timers : /\ timers[t].armed
                                                  /\ timers[t].kind = kind
                                                  /\ t[1] = f}
            pending(e) == effects[e].state = "open" /\ effects[e].answer = "none"
        IN  /\ w.kind = "Job" => w.ref \in DOMAIN jobs
            /\ w.kind = "Effect" => pending(w.ref)
            /\ w.kind = "Timer" => armed("Wait") # {}
            /\ w.kind = "Barrier" =>
                  /\ w.ref[1] \in DOMAIN records
                  /\ NotYetArrived(Frame, w.ref[1]) # {}
            /\ w.kind = "Race" =>
                  \/ \E a \in w.arms : a.effect = <<>> \/ pending(a.effect)
                  \/ \E t \in armed("Race") : timers[t].rec = w.ref[1]

(* When the instance is over, no fibre is left, no job is live and no      *)
(* timer is armed.                                                         *)
EndsQuiet ==
    inst.state \in Terminal =>
        /\ fibers = <<>> /\ jobs = <<>>
        /\ \A t \in DOMAIN timers : ~timers[t].armed

(* Moreover END sweeps no record ("there is nothing left open to sweep"):  *)
(* the last fibre left every scope it entered.                             *)
EndsClean == EndsQuiet /\ (inst.state \in Terminal => records = <<>>)

(* No lost update: a worker's report, and the outputs of a call, are       *)
(* merged into everything that the payload holds by then - the results of  *)
(* sibling branches and the documents that messages brought while worker   *)
(* or callee was busy.                                                     *)
NoLostUpdate ==
    [][(\/ DOMAIN dedupe' # DOMAIN dedupe
        \/ \E e \in DOMAIN effects :
             effects[e].state = "open" /\ effects'[e].answer = "outputs")
       => inst.payload \subseteq inst'.payload]_vars

(* Token conservation: a fork adds its arity less one, a join takes it     *)
(* away, and the handler of an interrupting guard replaces exactly the     *)
(* fibres it cancels - so the live fibres are one more than the surplus of *)
(* the open barriers, in every interleaving of triggers and arrivals, as   *)
(* long as no non-interrupting guard, whose handlers are additional        *)
(* fibres, is open.                                                        *)
TokensConserved ==
    /\ inst.state \notin Terminal
    /\ \A r \in DOMAIN records : records[r].kind # "GuardN"
    =>
        LET barriers == {r \in DOMAIN records : records[r].kind = "Barrier"}
        IN  Cardinality(DOMAIN fibers) =
                1 + MapThenSumSet(LAMBDA r : records[r].arity - 1, barriers)

(* Every step of the store and the kernel commits: no command is refused   *)
(* for a colliding timer identity, a twice-consumed message, an unknown    *)
(* handle or an exhausted step limit.                                      *)
NothingRefused == fault = {}

(* A fibre does not wait for a message that is already in the buffer: the  *)
(* message that came before the wait is consumed by it.                    *)
NoStrandedMessage ==
    \A f \in DOMAIN fibers, m \in DOMAIN buffer :
        fibers[f].wait = Waiting("Msg", <<NameOn(m)>>) =>
            buffer[m] \in {"none", "consumed"}

(* The verifier is sound for the kernel's nesting of scopes: wherever a    *)
(* fibre stands, by whatever interleaving of branches, timers, triggers,   *)
(* rejections and rollbacks it got there, verify_v2_control_stack has been *)
(* there too, and the scopes it computed are the ones the fibre has open.  *)
StacksAsVerified ==
    \A f \in DOMAIN fibers :
        LET s == EffectiveStack(fibers[f])
        IN  \E e \in EntriesOf[inst.workflow] :
                /\ e[1] = fibers[f].pc
                /\ [n \in DOMAIN s |-> records[s[n]].kind]
                      = [n \in DOMAIN e[2] |-> e[2][n].kind]

(* "Every fibre still inside the guard shares the same prefix up to this   *)
(* handle" (v2_trigger_guard_changes_with_target, which gives a handler    *)
(* the stack of whichever fibre it finds): a handle is at one place in     *)
(* every control stack that holds it, with the same handles below, however *)
(* forks, joins, races, triggers and rollbacks interleave.                 *)
SharedPrefix ==
    \A f, g \in DOMAIN fibers :
        LET s == EffectiveStack(fibers[f])
            t == EffectiveStack(fibers[g])
        IN  \A n \in DOMAIN s, m \in DOMAIN t : s[n] = t[m] =>
                n = m /\ \A k \in 1..n : s[k] = t[k]

(* Nor does an instance outgrow what was computed from its program (oracle *)
(* O4 of the kernel's fuzzer): "a runtime excursion above a verified bound *)
(* is a verifier bug".  The bound on fibres is the one apply enforces.     *)
WithinLimits ==
    LET armed(kinds) == {r \in DOMAIN records : records[r].kind \in kinds}
    IN  /\ SnapshotInLimits
        /\ \A f \in DOMAIN fibers :
              Len(EffectiveStack(fibers[f])) <= Limits.max_control_depth
        /\ Cardinality(DOMAIN records) <= Limits.max_records
        /\ Cardinality(armed({"Barrier"})) <= Limits.max_barriers

(* An instance that has ended stays ended: no late answer, timer, message, *)
(* trigger or resolution revives it or gives it a fibre.                   *)
EndedStaysEnded ==
    [][inst.state \in Terminal =>
         inst'.state \in Terminal /\ fibers' = <<>>]_vars

(* With fair scheduling and workers that answer, the instance does not     *)
(* hang: again and again it has ended, is parked on an incident or waits   *)
(* for a message from outside.                                             *)
NeverHangs ==
    []<>(inst.state # "Running" \/ \E f \in DOMAIN fibers : fibers[f].wait.kind = "Msg")
=============================================================================
