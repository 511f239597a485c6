---------------------------- MODULE KernelWords -----------------------------
(***************************************************************************)
(* The fibre machine of bpmn-lite-kernel: the state of a process instance, *)
(* the frames a command computes, the words of the instruction set, and    *)
(* what guards, races and timers do to a frame.  Kernel has the commands.  *)
(*                                                                         *)
(* Abstractions.  A concurrency record exists here while it is Armed: the  *)
(* kernel treats a Retired record and a missing one alike.  The operand    *)
(* stack is folded into the word that consumes it (PUSH/LOAD-FLAG then     *)
(* BR-IF is "BrIf"; PUSH then WAIT-FOR is "WaitFor").  Time is left out:   *)
(* an armed timer may become due in any later step.  A message name stands *)
(* for the pair of name and resolved correlation key.  The domain payload  *)
(* is the set of jobs, calls and messages whose contents are merged into   *)
(* it, and a call's input is the payload.                                  *)
(***************************************************************************)
EXTENDS Verifier, TLC

CONSTANTS
    Workflows,  \* workflows an instance may be started with
    Code,       \* workflow -> (address -> instruction, a record with "op")
    Flags,      \* orchestration flags of the instance
    Counters,   \* loop counters of the instance
    Lengths,    \* workflow -> lengths of the collection it is started with
    Messages,   \* messages that senders may deliver, each once or repeatedly
    NameOf,     \* message -> name and correlation key
    Carrying,   \* messages sent with a domain payload
    Failures,   \* workflow -> what workers and callees report: "contract" or
                \* a rejection code
    Operator    \* workflow -> commands an operator may issue

(* What a callee that does not fail may return.                            *)
Answers == {"outputs", "document", "no_match"}

(* The words of the instruction set.                                       *)
Opcodes ==
    {"Jump", "BrIf", "BrIfNot", "RouteZeroMatch", "MiArityCheck",
     "MiIndexLive", "MiLoadElement", "IncCounter", "BrCounterLt",
     "ExecNative", "ExecDslTask", "RoutePayload", "End", "EndTerminate",
     "Fail", "Guard", "GuardEnd", "GuardN", "GuardNEnd", "GuardR", "GuardREnd",
     "GuardArmTimer", "GuardArmError", "Fork", "Join", "RaceOpen",
     "ArmTimer", "ArmMsg", "ArmEffect", "RaceClose", "AwaitEffect",
     "PublishMessage", "WaitFor", "WaitMsg", "CancelScope"}

(* The operands that Instr gives a word.                                   *)
WellTyped(i) ==
    /\ i.op \in Opcodes
    /\ i.op = "GuardArmTimer" => i.fires \in Nat
    /\ i.op = "Fork" => i.targets \in Seq(Nat)
    /\ i.op = "RoutePayload" => /\ i.branches \in Seq(Range(i.branches))
                               /\ i.default \in Seq(Nat)

ASSUME ProgramAssumption ==
    /\ Workflows # {}
    /\ \A w \in Workflows :
        /\ IsFiniteSet(DOMAIN Code[w])
        /\ DOMAIN Code[w] = 0..(Cardinality(DOMAIN Code[w]) - 1)
        /\ 0 \in DOMAIN Code[w]
        /\ \A a \in DOMAIN Code[w] : WellTyped(Code[w][a])
        /\ Lengths[w] \subseteq Nat
        /\ Operator[w] \subseteq {"cancel", "terminate", "resolve", "trigger"}
    /\ NameOf \in [Messages -> {NameOf[m] : m \in Messages}]
    /\ \A w \in Workflows : Failures[w] \cap Answers = {}
    /\ Carrying \subseteq Messages

VARIABLES
    inst,       \* ProcessInstance: workflow (bytecode_version), state,
                \* incident, payload, flags, items (the length of the array
                \* in the collection flag), counters, placeholders
    fibers,     \* live fibres: pc, control stack, wait state, loop epoch
    records,    \* Armed concurrency records
    jobs,       \* live job_queue rows: job key -> payload at activation
    dead,       \* dead-lettered job keys: the row stays, no worker gets it
    dedupe,     \* completed job key -> the completion that is replayed
    timers,     \* workflow_timers rows, the consumed and cancelled included
    effects,    \* workflow_effects rows of calls: identity -> input, state
                \* and recorded answer
    buffer,     \* message_buffer: message -> status; a published message is
                \* named by its fibre and address
    fault       \* reasons why the kernel or the store refused a command

vars == <<inst, fibers, records, jobs, dead, dedupe, timers, effects, buffer,
          fault>>

(* The code the instance is pinned to.                                     *)
Program == Code[inst.workflow]

(* Only a program the verifier admits becomes an ExecutableWorkflow.       *)
Admitted == {w \in Workflows : Verified(Code[w])}

(* The limits its verification derived.                                    *)
LimitsOf == [w \in Admitted |-> VerifiedLimits(Code[w])]

ASSUME StepsAssumption == \A w \in Admitted : LimitsOf[w].max_steps \in Nat

Limits == LimitsOf[inst.workflow]

(* The entry states its control-stack walk computed.                       *)
EntriesOf == [w \in Admitted |-> EntryStates(Code[w])]

(* Identities of fibres and records.                                       *)
Ids == Nat \ {0}

Terminal == {"Completed", "Cancelled", "Terminated"}

Running == [kind |-> "Running", ref |-> <<>>, arms |-> {}]

Waiting(kind, ref) == [kind |-> kind, ref |-> ref, arms |-> {}]

(* Fiber::new: children and handlers start at loop epoch 0.                *)
NewFiber(pc, stack) ==
    [pc |-> pc, stack |-> stack, wait |-> Running, epoch |-> 0]

(***************************************************************************)
(* Frames.  A command starts from the committed state; "claimed" are the   *)
(* buffered messages the engine handed to the tick, "arms" the message and *)
(* effect arms of the race the tick is opening.                            *)
(***************************************************************************)
Frame ==
    [inst |-> inst, fibers |-> fibers, records |-> records, jobs |-> jobs,
     dead |-> dead, dedupe |-> dedupe, timers |-> timers,
     effects |-> effects, buffer |-> buffer, claimed |-> {},
     arms |-> {}, stop |-> FALSE, error |-> "none"]

Without(f, S) == Restrict(f, DOMAIN f \ S)

Put(f, x, v) == [y \in DOMAIN f \cup {x} |-> IF y = x THEN v ELSE f[y]]

Refuse(F, why) == [F EXCEPT !.error = why]

Goto(F, f, addr) == [F EXCEPT !.fibers[f].pc = addr]

Advance(F, f) == Goto(F, f, F.fibers[f].pc + 1)

Park(F, f, wait) == [F EXCEPT !.fibers[f].wait = wait, !.stop = TRUE]

Top(F, f) == Last(F.fibers[f].stack)

Pop(F, f) == [F EXCEPT !.fibers[f].stack = Front(@)]

(* effective_control_stack: a fibre parked at a barrier or a race has      *)
(* popped the handle but still belongs to the record.                      *)
EffectiveStack(fb) ==
    IF fb.wait.kind \in {"Barrier", "Race"}
    THEN Append(fb.stack, fb.wait.ref[1]) ELSE fb.stack

(* The identities that something in the frame refers to.                   *)
Used(F) ==
    {F.inst.incident} \cup DOMAIN F.fibers \cup DOMAIN F.records
    \cup (UNION {Range(EffectiveStack(F.fibers[f])) : f \in DOMAIN F.fibers})
    \cup (UNION {{t[1], F.timers[t].rec} : t \in DOMAIN F.timers})
    \cup {e[1] : e \in DOMAIN F.effects}
    \cup {m[1] : m \in DOMAIN F.buffer \ Messages}

(* context.derived_id: the first n identities that nothing refers to.      *)
Fresh(F, n) ==
    LET used == Used(F)
        free == (1..(Cardinality(used) + n)) \ used
    IN  [j \in 1..n |->
            CHOOSE x \in free : Cardinality({y \in free : y <= x}) = j]

Holders(F, r) ==
    {f \in DOMAIN F.fibers : r \in Range(EffectiveStack(F.fibers[f]))}

(* v2_reconcile_ancestor_membership, its Add and its Remove operations.    *)
Enrol(recs, handles, fs) ==
    [r \in DOMAIN recs |-> IF r \in handles
        THEN [recs[r] EXCEPT !.members = @ \cup fs] ELSE recs[r]]

Expel(recs, fbs, fs) ==
    [r \in DOMAIN recs |-> [recs[r] EXCEPT
        !.members = @ \ {f \in fs : r \in Range(fbs[f].stack)}]]

(* Variants of Cleanup: the fibres of the instance are forgotten; its      *)
(* timers are.                                                             *)
CleanupKeepsFibers(F) ==
    [F EXCEPT !.jobs = <<>>, !.dead = {},
              !.timers = [t \in DOMAIN F.timers |->
                            [F.timers[t] EXCEPT !.armed = FALSE]]]

CleanupKeepsTimers(F) ==
    [F EXCEPT !.fibers = <<>>, !.jobs = <<>>, !.dead = {}]

(* TerminalCleanup(true, true, true) as the store commits it.              *)
Cleanup(F) ==
    [F EXCEPT !.fibers = <<>>, !.jobs = <<>>, !.dead = {},
              !.timers = [t \in DOMAIN F.timers |->
                            [F.timers[t] EXCEPT !.armed = FALSE]]]

Finish(F, state) == Cleanup([F EXCEPT !.inst.state = state])

(* Incident: the fibre parks and the instance stops ticking.               *)
RaiseIncident(F, f) ==
    [F EXCEPT !.fibers[f].wait = Waiting("Incident", <<f>>),
              !.inst.state = "Incidented", !.inst.incident = f,
              !.stop = TRUE]

(***************************************************************************)
(* The words of the instruction set, one operator each: frame to frame,    *)
(* executed by fibre f.                                                    *)
(***************************************************************************)
Jump(F, f, i) == Goto(F, f, i.target)

(* LOAD-FLAG followed by BR-IF.                                            *)
BrIf(F, f, i) ==
    IF F.inst.flags[i.flag] THEN Goto(F, f, i.target) ELSE Advance(F, f)

(* LOAD-FLAG followed by BR-IF-NOT.                                        *)
BrIfNot(F, f, i) ==
    IF F.inst.flags[i.flag] THEN Advance(F, f) ELSE Goto(F, f, i.target)

(* Multi-instance.  A collection beyond the declared maximum is refused;   *)
(* a branch without an element goes to the join (MI-INDEX-LIVE followed by *)
(* BR-IF-NOT); the element of a live branch is loaded and stored in a flag *)
(* of the branch's own.                                                    *)
MiArityCheck(F, f, i) ==
    IF F.inst.items > i.max THEN Refuse(F, "arity") ELSE Advance(F, f)

(* Variant of MiIndexLive: the last element has no branch.                 *)
MiIndexLiveOffByOne(F, f, i) ==
    IF i.index + 1 < F.inst.items THEN Advance(F, f) ELSE Goto(F, f, i.target)

MiIndexLive(F, f, i) ==
    IF i.index < F.inst.items THEN Advance(F, f) ELSE Goto(F, f, i.target)

MiLoadElement(F, f, i) ==
    IF i.index < F.inst.items THEN Advance(F, f) ELSE Refuse(F, "element")

IncCounter(F, f, i) ==
    Advance([F EXCEPT !.inst.counters[i.counter] = @ + 1,
                      !.fibers[f].epoch = @ + 1], f)

BrCounterLt(F, f, i) ==
    IF F.inst.counters[i.counter] < i.limit
    THEN Goto(F, f, i.target) ELSE Advance(F, f)

(* Replays a recorded completion: its payload and flag replace the present *)
(* ones.                                                                   *)
ApplyCompletion(F, c) ==
    [F EXCEPT !.inst.payload = c.payload, !.inst.flags = c.flags @@ @]

(* INSERT ... ON CONFLICT (job_key) DO NOTHING.                            *)
Enqueue(F, k) ==
    IF k \in DOMAIN F.jobs \cup F.dead THEN F
    ELSE [F EXCEPT !.jobs = Put(@, k, F.inst.payload)]

(* The key is built from the address and the fibre's loop epoch; a key     *)
(* that has completed before is replayed instead of being dispatched.      *)
ExecNative(F, f, i) ==
    LET k == <<F.fibers[f].pc, F.fibers[f].epoch>>
    IN  IF k \in DOMAIN F.dedupe
        THEN Advance(ApplyCompletion(F, F.dedupe[k]), f)
        ELSE Park(Enqueue(F, k), f, Waiting("Job", k))

(* ExecDslTask dispatches and replays alike.  Its placeholder is bound, to *)
(* the value in the payload, when the completion is replayed; nothing      *)
(* binds it when the completion arrives.                                   *)
ExecDslTask(F, f, i) ==
    LET k == <<F.fibers[f].pc, F.fibers[f].epoch>>
        G == ExecNative(F, f, i)
    IN  IF k \in DOMAIN F.dedupe /\ i.produces # "none"
        THEN [G EXCEPT !.inst.placeholders =
                            Put(@, i.produces, F.dedupe[k].value)]
        ELSE G

(* The last fibre's END completes the instance; records are not swept.     *)
End(F, f, i) ==
    LET G == [F EXCEPT !.fibers = Without(@, {f}), !.stop = TRUE]
    IN  IF DOMAIN G.fibers = {} THEN Finish(G, "Completed") ELSE G

EndTerminate(F, f, i) ==
    [Finish(F, "Terminated") EXCEPT !.records = <<>>, !.stop = TRUE]

(* FAIL, and ROUTE-ZERO-MATCH behind the conditions of an inclusive        *)
(* gateway that all failed.                                                *)
Fail(F, f, i) == RaiseIncident(F, f)

(* The first branch whose placeholder has the expected value, else the     *)
(* default, else an incident.                                              *)
Matching(F, i) ==
    LET bound == F.inst.placeholders
    IN  {n \in DOMAIN i.branches :
            /\ i.branches[n].placeholder \in DOMAIN bound
            /\ bound[i.branches[n].placeholder] = i.branches[n].expected}

RoutePayload(F, f, i) ==
    LET hits == Matching(F, i)
    IN  CASE hits # {} -> Goto(F, f, i.branches[Min(hits)].target)
          [] hits = {} /\ i.default # <<>> -> Goto(F, f, i.default[1])
          [] OTHER -> RaiseIncident(F, f)

NewRecord(kind, members) ==
    [kind |-> kind, members |-> members, arity |-> 0, count |-> 0,
     handler |-> 0, opened |-> 0, routes |-> <<>>, saved |-> <<>>]

(* Variant of Open: the handle goes below the ones the fibre has.          *)
OpenAtBottom(F, f, record) ==
    LET r == Fresh(F, 1)[1]
    IN  Advance([F EXCEPT !.records = Put(@, r, record),
                          !.fibers[f].stack = <<r>> \o @], f)

(* A record is inserted with the fibre as its member and its handle pushed.*)
Open(F, f, record) ==
    LET r == Fresh(F, 1)[1]
    IN  Advance([F EXCEPT !.records = Put(@, r, record),
                          !.fibers[f].stack = Append(@, r)], f)

Guard(F, f, i) ==
    Open(F, f, [NewRecord("Guard", {f}) EXCEPT
                    !.handler = i.handler, !.opened = F.fibers[f].pc])

GuardN(F, f, i) ==
    Open(F, f, [NewRecord("GuardN", {f}) EXCEPT
                    !.handler = i.handler, !.opened = F.fibers[f].pc])

GuardR(F, f, i) ==
    Open(F, f, [NewRecord("GuardR", {f}) EXCEPT
                    !.opened = F.fibers[f].pc,
                    !.saved = [payload |-> F.inst.payload,
                               flags |-> F.inst.flags]])

(* Closing a guard pops the handle and retires the record, whoever else    *)
(* is a member of it.                                                      *)
GuardEnd(F, f, i) ==
    Advance([Pop(F, f) EXCEPT !.records = Without(@, {Top(F, f)})], f)

GuardNEnd(F, f, i) ==
    Advance([Pop(F, f) EXCEPT !.records = Without(@, {Top(F, f)})], f)

GuardREnd(F, f, i) ==
    Advance([Pop(F, f) EXCEPT !.records = Without(@, {Top(F, f)})], f)

(* A timer's identity is its fibre and address.  The store inserts it      *)
(* unless the row exists; an existing row of another kind or record makes  *)
(* the whole transition fail.                                              *)
Schedule(F, f, kind, rec, target, left) ==
    LET t == <<f, F.fibers[f].pc>>
        row == [kind |-> kind, rec |-> rec, target |-> target,
                left |-> left, armed |-> TRUE]
    IN  CASE t \notin DOMAIN F.timers ->
                [F EXCEPT !.timers = Put(@, t, row)]
          [] /\ t \in DOMAIN F.timers
             /\ <<F.timers[t].kind, F.timers[t].rec, F.timers[t].target>>
                    = <<kind, rec, target>> -> F
          [] OTHER -> Refuse(F, "collision")

(* GUARD-TIMER> and, in "fires", the GUARD-TIMER-CYCLE> that follows it.   *)
GuardArmTimer(F, f, i) ==
    LET r == Top(F, f)
        left == IF /\ r \in DOMAIN F.records
                   /\ F.records[r].kind = "GuardN" THEN i.fires ELSE 0
    IN  Advance(Schedule(F, f, "Guard", r, 0, left), f)

(* Routes are tried in order, the catch-all "any" last.                    *)
GuardArmError(F, f, i) ==
    LET r == Top(F, f)
    IN  IF r \in DOMAIN F.records /\ F.records[r].kind \in GuardWords
        THEN Advance([F EXCEPT !.records[r].routes =
                IF i.code \in DOMAIN @ THEN @ ELSE Put(@, i.code, i.handler)], f)
        ELSE Refuse(F, "handle")

(* Variant of Fork: the guards around the fork keep the parent as member.  *)
ForkForgetsAncestors(F, f, i) ==
    LET n == Len(i.targets)
        ids == Fresh(F, n + 1)
        kids == {ids[j + 1] : j \in 1..n}
        born == [k \in kids |-> NewFiber(
                    i.targets[(CHOOSE j \in 1..n : ids[j + 1] = k)],
                    Append(F.fibers[f].stack, ids[1]))]
        barrier == [NewRecord("Barrier", kids) EXCEPT
                        !.arity = n, !.count = n]
    IN  [F EXCEPT !.fibers = born @@ Without(@, {f}),
                  !.records = Put(@, ids[1], barrier), !.stop = TRUE]

Fork(F, f, i) ==
    LET n == Len(i.targets)
        ids == Fresh(F, n + 1)
        r == ids[1]
        kids == {ids[j + 1] : j \in 1..n}
        stack == F.fibers[f].stack
        born(k) == NewFiber(i.targets[CHOOSE j \in 1..n : ids[j + 1] = k],
                            Append(stack, r))
        barrier == [NewRecord("Barrier", kids) EXCEPT
                        !.arity = n, !.count = n]
    IN  [F EXCEPT
            !.fibers = [g \in (DOMAIN @ \ {f}) \cup kids |->
                            IF g \in kids THEN born(g) ELSE @[g]],
            !.records = Put(Enrol(Expel(@, F.fibers, {f}), Range(stack), kids),
                            r, barrier),
            !.stop = TRUE]

(* The last arrival goes on with the others' memberships taken out of the  *)
(* enclosing records; an earlier one parks at the barrier.                 *)
Join(F, f, i) ==
    LET r == Top(F, f)
        G == Pop(F, f)
        others == F.records[r].members \ {f}
    IN  CASE r \notin DOMAIN F.records -> Refuse(F, "handle")
          [] r \in DOMAIN F.records /\ F.records[r].count > 1 ->
                Park([G EXCEPT !.records[r].count = @ - 1], f,
                     Waiting("Barrier", <<r>>))
          [] OTHER ->
                Advance([G EXCEPT
                    !.fibers = Without(@, others),
                    !.records = Expel(Without(@, {r}), F.fibers, others)], f)

RaceOpen(F, f, i) == Open([F EXCEPT !.arms = {}], f, NewRecord("Race", {f}))

ArmTimer(F, f, i) ==
    Advance(Schedule(F, f, "Race", Top(F, f), i.target, 0), f)

(* A message arm subscribes; it does not look at the message buffer.       *)
ArmMsg(F, f, i) ==
    Advance([F EXCEPT !.arms = @ \cup {[name |-> i.name, effect |-> <<>>,
                                         target |-> i.target]}], f)

(* A call's identity is its fibre and address.  The store inserts the row  *)
(* unless it exists, in whatever state; an existing row with another input *)
(* makes the whole transition fail.                                        *)
Request(F, f) ==
    LET e == <<f, F.fibers[f].pc>>
        row == [input |-> F.inst.payload, state |-> "open", answer |-> "none"]
    IN  CASE e \notin DOMAIN F.effects ->
                [F EXCEPT !.effects = Put(@, e, row)]
          [] e \in DOMAIN F.effects /\ F.effects[e].input = row.input -> F
          [] OTHER -> Refuse(F, "collision")

(* EXEC-FFI and AWAIT-EFFECT park at their own address.                    *)
AwaitEffect(F, f, i) ==
    Park(Request(F, f), f, Waiting("Effect", <<f, F.fibers[f].pc>>))

(* The call of an effect arm is requested at once, before the race closes. *)
ArmEffect(F, f, i) ==
    Advance([Request(F, f) EXCEPT !.arms = @ \cup
                {[name |-> "none", effect |-> <<f, F.fibers[f].pc>>,
                  target |-> i.target]}], f)

RaceClose(F, f, i) ==
    Park(Pop(F, f), f,
         [kind |-> "Race", ref |-> <<Top(F, f)>>, arms |-> F.arms])

(* The name and correlation key of a message that was sent or published.   *)
NameOn(m) == IF m \in Messages THEN NameOf[m] ELSE Program[m[2]].name

(* PUBLISH buffers a message, whoever waits for it already.  Its identity  *)
(* is its fibre and address: a second insert is the store's IdempotentNoOp,*)
(* which drops the whole transition.                                       *)
PublishMessage(F, f, i) ==
    LET m == <<f, F.fibers[f].pc>>
    IN  IF m \in DOMAIN F.buffer THEN Refuse(F, "repeated")
        ELSE Advance([F EXCEPT !.buffer = Put(@, m, "buffered")], f)

(* WAIT-FOR and WAIT-UNTIL.                                                *)
WaitFor(F, f, i) ==
    LET G == Schedule(F, f, "Wait", 0, 0, 0)
    IN  Park(Advance(G, f), f, Waiting("Timer", <<>>))

(* A message that brings a payload replaces the instance's, always.        *)
Consume(F, m) ==
    [F EXCEPT !.buffer[m] = "consumed",
              !.inst.payload = IF m \in Carrying THEN {m} ELSE @]

(* Signal-before-wait: a message the engine claimed for this tick is       *)
(* consumed.  The claimed list is the snapshot's, so a second wait in the  *)
(* same tick finds a message the first one has taken.                      *)
WaitMsg(F, f, i) ==
    LET hits == {m \in F.claimed : NameOn(m) = i.name}
        m == CHOOSE x \in hits : TRUE
    IN  CASE hits = {} ->
                Park(Advance(F, f), f, Waiting("Msg", <<i.name>>))
          [] hits # {} /\ F.buffer[m] = "consumed" -> Refuse(F, "conflict")
          [] OTHER -> Advance(Consume(F, m), f)

(* v2_cancel_guard_scope: the records at and below handle r on the chains  *)
(* that hold it.                                                           *)
Scope(F, r) ==
    {r} \cup UNION {LET c == EffectiveStack(F.fibers[f])
                       at == CHOOSE n \in DOMAIN c : c[n] = r
                   IN  {c[n] : n \in at..Len(c)} : f \in Holders(F, r)}

ParkedOn(F, fs) ==
    {F.fibers[f].wait.ref : f \in {g \in fs : F.fibers[g].wait.kind = "Job"}}

(* Fibres fs die and the scope of r is retired.                            *)
Unwind(F, r, fs) ==
    [F EXCEPT !.fibers = Without(@, fs),
              !.records = Expel(Without(@, Scope(F, r)), F.fibers, fs)]

(* Variant of Restore: the payload is not rolled back.                     *)
RestoreFlagsOnly(F, saved) == [F EXCEPT !.inst.flags = saved.flags]

Restore(F, saved) ==
    [F EXCEPT !.inst.payload = saved.payload, !.inst.flags = saved.flags]

CancelScope(F, f, i) ==
    LET r == Top(F, f)
        G == Pop(F, f)
    IN  IF r \notin DOMAIN F.records \/ F.records[r].kind # "GuardR"
        THEN Refuse(F, "handle")
        ELSE Advance(Restore(Unwind(G, r, Holders(F, r) \ {f}),
                             F.records[r].saved), f)

(* The words that look at the top of the control stack.                    *)
ScopeWords ==
    {"GuardEnd", "GuardNEnd", "GuardREnd", "GuardArmTimer", "GuardArmError",
     "Join", "ArmTimer", "RaceClose", "CancelScope"}

(***************************************************************************)
(* One instruction, and the tick: fibre f runs until it parks, forks, ends *)
(* or fails, or exhausts the step limit.                                   *)
(***************************************************************************)
Word(F, f, i) ==
    CASE i.op = "Jump" -> Jump(F, f, i)
      [] i.op = "BrIf" -> BrIf(F, f, i)
      [] i.op = "BrIfNot" -> BrIfNot(F, f, i)
      [] i.op = "MiArityCheck" -> MiArityCheck(F, f, i)
      [] i.op = "MiIndexLive" -> MiIndexLive(F, f, i)
      [] i.op = "MiLoadElement" -> MiLoadElement(F, f, i)
      [] i.op = "IncCounter" -> IncCounter(F, f, i)
      [] i.op = "BrCounterLt" -> BrCounterLt(F, f, i)
      [] i.op = "ExecNative" -> ExecNative(F, f, i)
      [] i.op = "ExecDslTask" -> ExecDslTask(F, f, i)
      [] i.op = "RoutePayload" -> RoutePayload(F, f, i)
      [] i.op = "End" -> End(F, f, i)
      [] i.op = "EndTerminate" -> EndTerminate(F, f, i)
      [] i.op \in {"Fail", "RouteZeroMatch"} -> Fail(F, f, i)
      [] i.op = "Guard" -> Guard(F, f, i)
      [] i.op = "GuardEnd" -> GuardEnd(F, f, i)
      [] i.op = "GuardN" -> GuardN(F, f, i)
      [] i.op = "GuardNEnd" -> GuardNEnd(F, f, i)
      [] i.op = "GuardR" -> GuardR(F, f, i)
      [] i.op = "GuardREnd" -> GuardREnd(F, f, i)
      [] i.op = "GuardArmTimer" -> GuardArmTimer(F, f, i)
      [] i.op = "GuardArmError" -> GuardArmError(F, f, i)
      [] i.op = "Fork" -> Fork(F, f, i)
      [] i.op = "Join" -> Join(F, f, i)
      [] i.op = "RaceOpen" -> RaceOpen(F, f, i)
      [] i.op = "ArmTimer" -> ArmTimer(F, f, i)
      [] i.op = "ArmMsg" -> ArmMsg(F, f, i)
      [] i.op = "ArmEffect" -> ArmEffect(F, f, i)
      [] i.op = "RaceClose" -> RaceClose(F, f, i)
      [] i.op = "AwaitEffect" -> AwaitEffect(F, f, i)
      [] i.op = "PublishMessage" -> PublishMessage(F, f, i)
      [] i.op = "WaitFor" -> WaitFor(F, f, i)
      [] i.op = "WaitMsg" -> WaitMsg(F, f, i)
      [] i.op = "CancelScope" -> CancelScope(F, f, i)

Exec(F, f) ==
    LET pc == F.fibers[f].pc
        i == Program[pc]
    IN  IF F.stop \/ F.error # "none" THEN F
        ELSE IF pc \notin DOMAIN Program THEN Refuse(F, "pc")
        ELSE IF i.op \in ScopeWords /\ F.fibers[f].stack = <<>>
        THEN Refuse(F, "underflow")
        ELSE Word(F, f, i)

(* The frames fibre f may stop in, from frame F.                           *)
RunFiber(F, f) ==
    LET after[n \in 0..Limits.max_steps] ==
            IF n = 0 THEN {F} ELSE {Exec(G, f) : G \in after[n - 1]}
    IN  {IF G.stop \/ G.error # "none" THEN G ELSE Refuse(G, "steps") :
            G \in after[Limits.max_steps]}

(***************************************************************************)
(* check_k_invariants and the rest of ring3_shadow_check.                  *)
(***************************************************************************)
KInvariants(F) ==
    /\ \A r \in DOMAIN F.records :
        /\ F.records[r].members = Holders(F, r)
        /\ F.records[r].kind = "Barrier" =>
              F.records[r].count \in 1..F.records[r].arity
    /\ \A f \in DOMAIN F.fibers :
        Range(EffectiveStack(F.fibers[f])) \subseteq DOMAIN F.records

NotYetArrived(F, r) ==
    {f \in F.records[r].members : F.fibers[f].wait # Waiting("Barrier", <<r>>)}

(* The calls a parked fibre waits for.                                     *)
Awaited(fb) ==
    IF fb.wait.kind = "Effect" THEN {fb.wait.ref}
    ELSE {a.effect : a \in fb.wait.arms} \ {<<>>}

Ring3(F) ==
    /\ DOMAIN F.fibers = {} => F.inst.state \in Terminal
    /\ \A f \in DOMAIN F.fibers :
        /\ F.fibers[f].pc \in DOMAIN Program
        /\ Len(F.fibers[f].stack) <= Limits.max_control_depth
    /\ KInvariants(F)
    /\ \A r \in DOMAIN F.records : F.records[r].kind = "Barrier" =>
          Cardinality(NotYetArrived(F, r)) >= F.records[r].count
    /\ \A f \in DOMAIN F.fibers : \A g \in DOMAIN F.fibers \ {f} :
          Awaited(F.fibers[f]) \cap Awaited(F.fibers[g]) = {}

(***************************************************************************)
(* Guards: triggers, rollback and the routing of failures.                 *)
(***************************************************************************)
(* The innermost armed guard on a fibre's control stack, 0 if there is     *)
(* none.                                                                   *)
InnermostGuard(F, f) ==
    LET s == F.fibers[f].stack
        at == {n \in DOMAIN s : /\ s[n] \in DOMAIN F.records
                                /\ F.records[s[n]].kind \in GuardWords}
    IN  IF at = {} THEN 0 ELSE s[Max(at)]

(* Variants of Trigger: the jobs of the fibres that die stay in the queue;  *)
(* every job of the instance is cancelled; the guarded fibres live on      *)
(* beside the handler.                                                     *)
Interrupting(F, r) == F.records[r].kind # "GuardN"

Handle(F, G, r, handler) ==
    LET h == Fresh(F, 1)[1]
        s == F.fibers[CHOOSE f \in DOMAIN F.fibers :
                        r \in Range(F.fibers[f].stack)].stack
        at == CHOOSE n \in DOMAIN s : s[n] = r
        stack == SubSeq(s, 1, IF Interrupting(F, r) THEN at - 1 ELSE at)
    IN  [G EXCEPT !.fibers = Put(@, h, NewFiber(handler, stack)),
                  !.records = Enrol(@, Range(stack), {h})]

TriggerLeavesJobs(F, r, handler) ==
    Handle(F, IF Interrupting(F, r) THEN Unwind(F, r, Holders(F, r)) ELSE F,
           r, handler)

TriggerCancelsAllJobs(F, r, handler) ==
    Handle(F, IF Interrupting(F, r)
              THEN [Unwind(F, r, Holders(F, r)) EXCEPT !.jobs = <<>>] ELSE F,
           r, handler)

TriggerKeepsScope(F, r, handler) == Handle(F, F, r, handler)

(* v2_trigger_guard_changes_with_target: the handler fibre starts with the *)
(* stack below the guard, or with the guard on it if the guard does not    *)
(* interrupt; an interrupting guard unwinds its scope and cancels the jobs *)
(* of the fibres that die.                                                 *)
Trigger(F, r, handler) ==
    LET interrupting == F.records[r].kind # "GuardN"
        inside == {f \in DOMAIN F.fibers : r \in Range(F.fibers[f].stack)}
        s == F.fibers[CHOOSE f \in inside : TRUE].stack
        at == CHOOSE n \in DOMAIN s : s[n] = r
        stack == IF inside = {} THEN <<>>
                 ELSE SubSeq(s, 1, IF interrupting THEN at - 1 ELSE at)
        dying == Holders(F, r)
        G == IF interrupting
             THEN [Unwind(F, r, dying) EXCEPT
                        !.jobs = Without(@, ParkedOn(F, dying))]
             ELSE F
        h == Fresh(F, 1)[1]
    IN  [G EXCEPT !.fibers = Put(@, h, NewFiber(handler, stack)),
                  !.records = Enrol(@, Range(stack), {h})]

(* Rollback of the scope of r on behalf of fibre f: payload and flags are  *)
(* restored and the scope's fibres die.  If that would leave no fibre, f   *)
(* is kept, back at the guard's own address, on an incident.               *)
RollBack(F, r, f) ==
    LET rec == F.records[r]
        G == Restore(Unwind(F, r, Holders(F, r)), rec.saved)
        s == F.fibers[f].stack
        at == CHOOSE n \in DOMAIN s : s[n] = r
        outer == IF r \in Range(s) THEN SubSeq(s, 1, at - 1) ELSE s
        back == [F.fibers[f] EXCEPT !.pc = rec.opened, !.stack = outer]
    IN  IF DOMAIN G.fibers # {} THEN G
        ELSE RaiseIncident([G EXCEPT
                    !.fibers = [g \in {f} |-> back],
                    !.records = Enrol(@, Range(outer), {f})], f)

(* A final failure report: a business rejection goes to the route of the   *)
(* innermost guard, a contract violation rolls a GUARD-R> scope back,      *)
(* anything else is an incident.                                           *)
RouteOf(F, f, why) ==
    LET r == InnermostGuard(F, f)
        routes == F.records[r].routes
    IN  CASE r = 0 \/ why = "contract" -> <<>>
          [] why \in DOMAIN routes -> <<routes[why]>>
          [] "any" \in DOMAIN routes -> <<routes["any"]>>
          [] OTHER -> <<>>

RollsBack(F, f, why) ==
    LET r == InnermostGuard(F, f)
    IN  why = "contract" /\ r # 0 /\ F.records[r].kind = "GuardR"

(* The guards deal with the failure.                                       *)
Caught(F, f, why) == RouteOf(F, f, why) # <<>> \/ RollsBack(F, f, why)

Failed(F, f, why) ==
    LET r == InnermostGuard(F, f)
    IN  CASE RouteOf(F, f, why) # <<>> -> Trigger(F, r, RouteOf(F, f, why)[1])
          [] RollsBack(F, f, why) -> RollBack(F, r, f)
          [] OTHER -> RaiseIncident(F, f)

(***************************************************************************)
(* Timers.                                                                 *)
(***************************************************************************)
Disarm(F, ts) ==
    [F EXCEPT !.timers = [t \in DOMAIN F.timers |->
        IF t \in ts THEN [F.timers[t] EXCEPT !.armed = FALSE]
        ELSE F.timers[t]]]

(* A won race: the fibre goes on at the arm's target, the record retires   *)
(* and the race's other timers are cancelled.                              *)
WinRace(F, f, r, target) ==
    Disarm([F EXCEPT !.fibers[f].pc = target, !.fibers[f].wait = Running,
                     !.records = Without(@, {r})],
           {t \in DOMAIN F.timers : /\ t[1] = f
                                     /\ F.timers[t].kind = "Race"
                                     /\ F.timers[t].rec = r})

(* Variants of Spend: the remaining fires are decremented without a check; *)
(* the last permitted fire arms the timer once more.                       *)
SpendUnchecked(F, t) ==
    [Disarm(F, {t}) EXCEPT !.timers[t].left = @ - 1]

SpendOffByOne(F, t) ==
    IF F.timers[t].left >= 1 /\ F.timers[t].rec \in DOMAIN F.records
    THEN [F EXCEPT !.timers[t].left = @ - 1] ELSE Disarm(F, {t})

(* A bounded cycle timer of a non-interrupting guard is armed again.       *)
Spend(F, t) ==
    LET row == F.timers[t]
    IN  IF /\ row.left > 1
           /\ row.rec \in DOMAIN F.records
           /\ F.records[row.rec].kind = "GuardN"
        THEN [F EXCEPT !.timers[t].left = @ - 1]
        ELSE Disarm(F, {t})

(* The frames a guard timer may lead to: nothing if the guard is gone,     *)
(* rollback for a GUARD-R>, otherwise its handler.  Fibre identities are   *)
(* hashes, so the least member may be any of them.                         *)
GuardTimerOutcomes(F, r) ==
    CASE r \notin DOMAIN F.records -> {F}
      [] r \in DOMAIN F.records /\ F.records[r].kind = "GuardR" ->
            LET dying == Holders(F, r)
                G == [F EXCEPT !.jobs = Without(@, ParkedOn(F, dying))]
            IN  IF F.records[r].members = {} THEN {F}
                ELSE {RollBack(G, r, f) : f \in F.records[r].members}
      [] OTHER -> {Trigger(F, r, F.records[r].handler)}

(***************************************************************************)
(* Answers to calls and jobs.                                              *)
(***************************************************************************)
(* What the instruction's output binding makes of a reported value.        *)
FlagWritten(i, v) == IF i.flag \in Flags THEN i.flag :> v ELSE <<>>

(* A call's contents in the payload.                                       *)
Output(e) == <<"call">> \o e

(* apply_ffi_outputs writes the declared outputs into the payload as it is *)
(* now; a callee that returns a document replaces it.                      *)
Answered(F, e, answer, v) ==
    LET G == [F EXCEPT !.effects[e].state = "completed",
                       !.effects[e].answer = answer]
    IN  CASE answer = "outputs" ->
                [G EXCEPT !.inst.payload = @ \cup {Output(e)},
                          !.inst.flags = FlagWritten(Program[e[2]], v) @@ @]
          [] answer = "document" -> [G EXCEPT !.inst.payload = {Output(e)}]
          [] answer = "no_match" -> G

(***************************************************************************)
(* Messages.                                                               *)
(***************************************************************************)
(* Variant of Received: the message is not recorded as consumed.           *)
ReceivedKeepsMessage(F, f, m) ==
    IF F.fibers[f].wait.kind = "Msg"
    THEN {[F EXCEPT !.fibers[f].wait = Running]}
    ELSE {WinRace(F, f, F.fibers[f].wait.ref[1], a.target) :
            a \in {b \in F.fibers[f].wait.arms : b.name = NameOf[m]}}

Received(F, f, m) ==
    LET G == Consume(F, m)
    IN  IF F.fibers[f].wait.kind = "Msg"
        THEN {[G EXCEPT !.fibers[f].wait = Running]}
        ELSE {WinRace(G, f, F.fibers[f].wait.ref[1], a.target) :
                a \in {b \in F.fibers[f].wait.arms : b.name = NameOf[m]}}

(***************************************************************************)
(* The fields of a frame, of its instance and of timer and effect rows.    *)
(***************************************************************************)
Fields ==
    {"inst", "fibers", "records", "jobs", "dead", "dedupe", "timers",
     "effects", "buffer", "claimed", "arms", "stop", "error"}

InstFields ==
    {"workflow", "state", "incident", "payload", "flags", "items", "counters",
     "placeholders"}

TimerFields == {"kind", "rec", "target", "left", "armed"}

EffectFields == {"input", "state", "answer"}
=============================================================================
