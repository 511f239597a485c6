------------------------------ MODULE MCKernel ------------------------------
(* Programs for model checking Kernel, written in the shapes that the      *)
(* compiler's lowering and the repository's own fixtures use.              *)
EXTENDS Kernel

CONSTANTS m1, m2

Do(op) == [op |-> op]
To(op, addr) == [op |-> op, target |-> addr]
Task == [op |-> "ExecNative", flag |-> "none"]
TaskSetting(flag) == [op |-> "ExecNative", flag |-> flag]
GuardTo(op, addr) == [op |-> op, handler |-> addr]
OnTimer(n) == [op |-> "GuardArmTimer", fires |-> n]
OnError(code, addr) == [op |-> "GuardArmError", code |-> code, handler |-> addr]
Split(at, targets) == [op |-> "Fork", targets |-> targets, pairing |-> at]
Merge(at) == [op |-> "Join", pairing |-> at]
Choice(n) == [op |-> "RaceOpen", arm_count |-> n]
OnMsg(name, addr) == [op |-> "ArmMsg", name |-> name, target |-> addr]
OnAnswer(addr) == [op |-> "ArmEffect", flag |-> "none", target |-> addr]
Call(flag) == [op |-> "AwaitEffect", flag |-> flag]
If(op, flag, addr) == [op |-> op, flag |-> flag, target |-> addr]
AtMost(n) == [op |-> "MiArityCheck", max |-> n]
Live(n, addr) == [op |-> "MiIndexLive", index |-> n, target |-> addr]
Element(n) == [op |-> "MiLoadElement", index |-> n]
Publish(name) == [op |-> "PublishMessage", name |-> name]
DslTask(p) == [op |-> "ExecDslTask", flag |-> "none", produces |-> p]
When(p, addr) == [placeholder |-> p, expected |-> TRUE, target |-> addr]
Route(branches, default) ==
    [op |-> "RoutePayload", branches |-> branches, default |-> default]
Receive(name) == [op |-> "WaitMsg", name |-> name]

Words(seq) == [a \in 0..(Len(seq) - 1) |-> seq[a + 1]]

(* Two branches: a task with a boundary timer and an error route whose     *)
(* handler rejoins, and an event-based choice followed by a task.          *)
BoundaryProgram == Words(<<
    Split(0, <<1, 9>>),                                           \* 0
    GuardTo("Guard", 7), OnTimer(1), OnError("E", 7),           \* 1-3
    Task, Do("GuardEnd"), To("Jump", 14),                       \* 4-6
    Task, To("Jump", 14),                                       \* 7-8
    Choice(2), To("ArmTimer", 13), OnMsg("n", 13),         \* 9-11
    Do("RaceClose"), Task,                                      \* 12-13
    Merge(0), Task, Do("End")>>)                                \* 14-16

(* A guard around a parallel region with an event-based choice in it: the  *)
(* guard's timer, a rejected job and an operator's trigger all interrupt   *)
(* the whole region.                                                       *)
NestedProgram == Words(<<
    GuardTo("Guard", 13), OnTimer(1), OnError("any", 13),       \* 0-2
    Split(3, <<4, 9>>),                                         \* 3
    Choice(2), To("ArmTimer", 8), OnMsg("n", 8),           \* 4-6
    Do("RaceClose"), To("Jump", 10),                            \* 7-8
    Task, Merge(3), Do("GuardEnd"), Do("End"),                  \* 9-12
    Task, Do("EndTerminate")>>)                                 \* 13-14

(* The bounded retry loop of test t_loop_2, an incident when the retries   *)
(* are spent, and then two branches that each wait for a message.          *)
RetryProgram == Words(<<
    GuardTo("Guard", 5), OnError("any", 5),                     \* 0-1
    Task, Do("GuardEnd"), To("Jump", 8),                        \* 2-4
    [op |-> "IncCounter", counter |-> "c"],                     \* 5
    [op |-> "BrCounterLt", counter |-> "c", limit |-> 2, target |-> 0],
    Do("Fail"), Split(8, <<9, 11>>),                            \* 7-8
    Receive("n"), To("Jump", 12), Receive("n"),                 \* 9-11
    Merge(8), Do("WaitFor"), Do("End")>>)                       \* 12-14

(* A parallel region of waits, then a scope with rollback whose second     *)
(* task decides whether the scope is closed or cancelled, and a route on   *)
(* what the first one, a DSL task, produced.                               *)
ScopeProgram == Words(<<
    Split(0, <<1, 3>>), Do("WaitFor"), To("Jump", 7),           \* 0-2
    Choice(2), To("ArmTimer", 7), OnMsg("n", 7),           \* 3-5
    Do("RaceClose"), Merge(0),                                  \* 6-7
    Do("GuardR"), DslTask("p"), TaskSetting("a"),               \* 8-10
    If("BrIf", "a", 14),                                        \* 11
    Do("GuardREnd"), To("Jump", 15), Do("CancelScope"),         \* 12-14
    Route(<<When("p", 17)>>, <<16>>), Do("WaitFor"), Do("End")>>) \* 15-17

(* A task with a bounded reminder cycle: three handlers may be started,    *)
(* and each path ends the instance, so that nobody closes the guard.       *)
CycleProgram == Words(<<
    GuardTo("GuardN", 4), OnTimer(3), Task, Do("EndTerminate"), \* 0-3
    Do("WaitFor"), Do("EndTerminate")>>)                        \* 4-5

(* Two branches: a call with a boundary timer and an error route, whose    *)
(* answer is published, and a choice between the answer of a call and a    *)
(* timer, followed by a task.  Then the message is received.               *)
CallsProgram == Words(<<
    Split(0, <<1, 9>>),                                         \* 0
    GuardTo("Guard", 8), OnTimer(1), OnError("any", 8),         \* 1-3
    Call("a"), Do("GuardEnd"), Publish("n"), To("Jump", 14),    \* 4-7
    To("Jump", 14), Choice(2), To("ArmTimer", 13),              \* 8-10
    OnAnswer(13), Do("RaceClose"), Task,                        \* 11-13
    Merge(0), Do("WaitFor"), Receive("n"), Do("End")>>)         \* 14-17

(* An inclusive gateway on what two tasks decide, with a multi-instance    *)
(* task over at most two elements on one branch and a task on the other.   *)
InclusiveProgram == Words(<<
    TaskSetting("a"), TaskSetting("b"),                         \* 0-1
    If("BrIf", "a", 5), If("BrIf", "b", 5),                     \* 2-3
    Do("RouteZeroMatch"), Split(5, <<6, 8>>),                   \* 4-5
    If("BrIfNot", "a", 23), To("Jump", 10),                     \* 6-7
    If("BrIfNot", "b", 23), To("Jump", 22),                     \* 8-9
    AtMost(2), Split(11, <<12, 16>>),                           \* 10-11
    Live(0, 20), Element(0), Task, To("Jump", 20),              \* 12-15
    Live(1, 20), Element(1), Task, To("Jump", 20),              \* 16-19
    Merge(11), To("Jump", 23), Task, Merge(5), Do("End")>>)     \* 20-24

(* A scope with rollback around two parallel tasks.                        *)
ParallelScopeProgram == Words(<<
    Do("GuardR"), Split(1, <<2, 4>>), Task, To("Jump", 5), Task,\* 0-4
    Merge(1), Do("GuardREnd"), Do("End")>>)                     \* 5-7

(* The reminder of the engine's non-interrupting cycle tests.              *)
ReminderProgram == Words(<<
    GuardTo("GuardN", 5), OnTimer(3), Task, Do("GuardNEnd"),    \* 0-3
    Do("End"), Task, Do("GuardNEnd"), Do("End")>>)              \* 4-7

(* A bounded loop around a timer wait.                                     *)
PollProgram == Words(<<
    Do("WaitFor"), [op |-> "IncCounter", counter |-> "c"],      \* 0-1
    [op |-> "BrCounterLt", counter |-> "c", limit |-> 2, target |-> 0],
    Do("End")>>)

(* A task and then a message wait, as both compilers lower the sequence.   *)
TaskThenWaitProgram == Words(<<
    Task, To("Jump", 2), Receive("n"), To("Jump", 4), Do("End")>>)

(* Candidates that break one rule of the verifier each, after its negative *)
(* tests.  None becomes an ExecutableWorkflow, so none is started.         *)
OpenEndProgram == Words(<<                                      \* V-1
    GuardTo("Guard", 3), Task, Do("End"), Do("End")>>)

CrossedProgram == Words(<<                                      \* V-2
    Do("GuardR"), GuardTo("Guard", 6), Task, Do("GuardREnd"),   \* 0-3
    Do("GuardEnd"), Do("End"), Do("EndTerminate")>>)            \* 4-6

SkippedOpenProgram == Words(<<                                  \* V-2
    If("BrIf", "a", 2),                                         \* 0
    GuardTo("Guard", 4), Task, Do("GuardEnd"), Do("End")>>)     \* 1-4

ForeignJoinProgram == Words(<<                                  \* V-3
    Split(0, <<1, 2>>), To("Jump", 2), GuardTo("Guard", 5),     \* 0-2
    Do("WaitFor"), Merge(0), Merge(0), Do("End")>>)             \* 3-6

ScopeInBranchProgram == Words(<<                                \* V-10
    Split(0, <<1, 5>>), Do("GuardR"), Task, Do("GuardREnd"),    \* 0-3
    To("Jump", 5), Merge(0), Do("End")>>)                       \* 4-6

NoWayOutProgram == Words(<<                                     \* V-11
    If("BrIf", "a", 2), Do("End"), Task>>)

AllPrograms ==
    [openEnd |-> OpenEndProgram, crossed |-> CrossedProgram,
     skippedOpen |-> SkippedOpenProgram, foreignJoin |-> ForeignJoinProgram,
     scopeInBranch |-> ScopeInBranchProgram, noWayOut |-> NoWayOutProgram,
     boundary |-> BoundaryProgram, nested |-> NestedProgram,
     retry |-> RetryProgram, scope |-> ScopeProgram, cycle |-> CycleProgram,
     calls |-> CallsProgram, inclusive |-> InclusiveProgram,
     parallelScope |-> ParallelScopeProgram, reminder |-> ReminderProgram,
     poll |-> PollProgram, taskThenWait |-> TaskThenWaitProgram]

WorkerFailures ==
    [w \in DOMAIN AllPrograms |->
        CASE w \in {"scope", "parallelScope", "scopeInBranch"} -> {"contract"}
          [] w = "calls" -> {"contract", "E"}
          [] OTHER -> {"E"}]

OperatorCommands ==
    [w \in DOMAIN AllPrograms |->
        CASE w = "nested" -> {"cancel", "terminate", "trigger"}
          [] w = "scope" -> {"cancel", "resolve"}
          [] OTHER -> {"cancel"}]

CollectionLengths ==
    [w \in DOMAIN AllPrograms |-> IF w = "inclusive" THEN 0..2 ELSE {0}]

MessageNames == [m \in {m1, m2} |-> "n"]

(* The retry workflow's two waits consume a message of its own each,       *)
(* whether apply_message delivers it or the tick takes it from the buffer. *)
EachWaitTakesOne ==
    inst.workflow = "retry" /\ inst.state = "Completed" =>
        Cardinality({m \in Messages : buffer[m] = "consumed"}) >= 2

(* The cycle workflow's reminder, declared with three repetitions, starts  *)
(* three handlers at most, and it is not spent before it has started them: *)
(* the host, undisturbed in its wait, and the handlers are the fibres.     *)
CycleIsBounded ==
    inst.workflow = "cycle" /\ inst.state = "Running" =>
        /\ Cardinality(DOMAIN fibers) <= 1 + 3
        /\ \A t \in DOMAIN timers : timers[t].kind = "Guard" /\ ~timers[t].armed
              => Cardinality(DOMAIN fibers) = 1 + 3

(* The scope workflow's scope is all or nothing: a completed instance has  *)
(* the results of both of the scope's tasks or of neither, however often   *)
(* the scope was rolled back and run again from replayed completions, and  *)
(* a cancelled scope leaves no flag behind.                                *)
ScopeIsAtomic ==
    inst.workflow = "scope" /\ inst.state = "Completed" =>
        /\ inst.payload \cap {<<9, 0>>, <<10, 0>>} =
              IF dedupe[<<10, 0>>].flags["a"] THEN {} ELSE {<<9, 0>>, <<10, 0>>}
        /\ ~inst.flags["a"]

(* The inclusive workflow runs a task for each element of its collection   *)
(* and each branch whose condition holds, and no other: the skipped ones   *)
(* meet the others at the join, whatever order the branches are ticked in. *)
EveryElementRuns ==
    inst.workflow = "inclusive" /\ inst.state = "Completed" =>
        inst.payload \ {<<0, 0>>, <<1, 0>>} =
            {k \in {<<14, 0>>, <<18, 0>>, <<22, 0>>} :
                CASE k[1] = 14 -> inst.flags["a"] /\ inst.items >= 1
                  [] k[1] = 18 -> inst.flags["a"] /\ inst.items >= 2
                  [] k[1] = 22 -> inst.flags["b"]}
=============================================================================
