-------------------------- MODULE SchedulerProofs --------------------------
(***************************************************************************)
(* Proofs about Scheduler, for any instances and plans, any number of      *)
(* processes, any answers, and any number of crashes, lapses, holds,       *)
(* cancellations and quarantines.                                          *)
(*                                                                         *)
(* The invariant has three parts.  SInv: only a process at its ticks has   *)
(* found an instance at rest.  RInv: rows are written in the order of the  *)
(* plan, and an armed timer belongs to the wait its instance is in.  QInv: *)
(* no runnable instance is lost; it needs SInv, because a process that has *)
(* seen an instance at rest is the one whose claim no longer counts.       *)
(***************************************************************************)
EXTENDS Scheduler, TLAPS

\* The processes: only a process at its ticks has found an instance at rest,
\* and one that has an answer knows whose it is.
ProcessOK(r) ==
  /\ r \in Processes
  /\ r.drained = "ok" => r.phase = "ticks"
  /\ r.answer # "none" => r.item \in Ids

SInv == sched \in [Schedulers -> Processes] /\ \A s \in Schedulers : ProcessOK(sched[s])

\* An instance waits where its plan says.
InstOK(i) == inst[i].wait \in Kinds =>
  inst[i].pos \in DOMAIN Plan[i] /\ Plan[i][inst[i].pos] = inst[i].wait

\* A row is written only when its instance gets to it, a timer is armed only
\* as long as the instance waits there, and leases belong to open rows.
RowOK(x) ==
  /\ timer[x].state = "armed" => x[2] = inst[x[1]].pos /\ inst[x[1]].wait \in {"timer", "race"}
  /\ x[2] > inst[x[1]].pos => timer[x] = NoTimer /\ effect[x] = NoEffect
  /\ timer[x].live => timer[x].state = "armed"
  /\ effect[x].live => effect[x].state = "dispatching"

RInv == /\ inst \in [Instances -> InstRows]
        /\ timer \in [Ids -> TimerRows]
        /\ effect \in [Ids -> EffectRows]
        /\ \A i \in Instances : InstOK(i)
        /\ \A x \in Ids : RowOK(x)
        /\ WaitsAreServed

QInv == queue \in [Instances -> QueueRows] /\ RunnableIsQueued

Inv == SInv /\ RInv /\ QInv

----------------------------------------------------------------------------
(* The processes.                                                          *)

\* The states a process takes on in a step other than a tick.
Calm(r) == ProcessOK(r) /\ r.drained # "ok"

LEMMA IdleCalm == Calm(Idle) /\ Calm([Idle EXCEPT !.phase = "down"])
                  /\ Calm([Idle EXCEPT !.within = "boot"])
  BY DEF Calm, ProcessOK, Idle, Processes, Phases

LEMMA GoCalm ==
  ASSUME SInv, NEW s \in Schedulers, sched[s].phase # "ticks", NEW phase \in Phases
  PROVE  Calm(Go(s, phase))
<1>1. sched[s] \in Processes /\ sched[s].drained # "ok"
  BY DEF SInv, ProcessOK
<1>2. Go(s, phase) \in Processes /\ Go(s, phase).drained = sched[s].drained
      /\ Go(s, phase).answer = "none"
  BY <1>1 DEF Go, Processes
<1> QED BY <1>1, <1>2 DEF Calm, ProcessOK

LEMMA LoopCalm ==
  ASSUME SInv, NEW s \in Schedulers, sched[s].phase # "ticks", NEW phase \in Phases,
         NEW rows \in SUBSET Ids, NEW after, Calm(after)
  PROVE  Calm(Loop(s, phase, rows, after))
<1>1. Calm(Go(s, phase))
  BY GoCalm
<1>2. Calm([Go(s, phase) EXCEPT !.batch = rows])
  <2> DEFINE g == Go(s, phase)
  <2>1. g \in Processes /\ g.drained # "ok" /\ (g.answer # "none" => g.item \in Ids)
    BY <1>1 DEF Calm, ProcessOK
  <2> HIDE DEF g
  <2>2. /\ [g EXCEPT !.batch = rows] \in Processes
        /\ [g EXCEPT !.batch = rows].drained = g.drained
        /\ [g EXCEPT !.batch = rows].answer = g.answer
        /\ [g EXCEPT !.batch = rows].item = g.item
    BY <2>1 DEF Processes
  <2>3. Calm([g EXCEPT !.batch = rows])
    BY <2>1, <2>2 DEF Calm, ProcessOK
  <2> QED BY <2>3 DEF g
<1> QED BY <1>2 DEF Loop

LEMMA AfterDispatchCalm ==
  ASSUME SInv, NEW s \in Schedulers, sched[s].phase # "ticks", NEW ok \in BOOLEAN
  PROVE  Calm(AfterDispatch(s, ok))
<1>1. sched[s] \in Processes
  BY DEF SInv, ProcessOK
<1>2. CASE sched[s].within = "pass"
  <2>1. Calm(Go(s, "activations"))
    BY GoCalm DEF Phases
  <2> QED BY <1>2, <2>1 DEF AfterDispatch
<1>3. CASE sched[s].within = "boot"
  <2>1. Calm(Go(s, "down"))
    BY GoCalm DEF Phases
  <2>2. Calm(Loop(s, "detect", Unfinished, Idle))
    BY LoopCalm, IdleCalm DEF Phases, Unfinished
  <2> QED BY <1>3, <2>1, <2>2 DEF AfterDispatch
<1>4. CASE sched[s].within = "tick"
  <2> DEFINE g == Go(s, "ticks")
             d == IF ok THEN "no" ELSE "err"
  <2>1. ProcessOK(g)
    BY GoCalm DEF Phases, Calm
  <2>2. d \in {"no", "err"}
    OBVIOUS
  <2>3. AfterDispatch(s, ok) = [g EXCEPT !.drained = d]
    BY <1>4 DEF AfterDispatch
  <2> HIDE DEF g, d
  <2>4. Calm([g EXCEPT !.drained = d])
    BY <2>1, <2>2 DEF Calm, ProcessOK, Processes
  <2> QED BY <2>3, <2>4
<1> QED BY <1>1, <1>2, <1>3, <1>4 DEF Processes

\* No process newly finds an instance at rest.
Quiet == \A s \in Schedulers : sched'[s].drained = "ok" =>
           sched[s].drained = "ok" /\ sched'[s].cur = sched[s].cur

LEMMA CalmStep ==
  ASSUME SInv, NEW s \in Schedulers, NEW r, Calm(r), Set(s, r)
  PROVE  SInv' /\ Quiet
  BY DEF SInv, Calm, ProcessOK, Set, Quiet

LEMMA SameProcesses ==
  ASSUME SInv, UNCHANGED sched
  PROVE  SInv' /\ Quiet
<1>1. SInv'
  BY DEF SInv, ProcessOK, Ids, Processes
<1> QED BY <1>1 DEF Quiet

----------------------------------------------------------------------------
(* The queue of activations.                                               *)

LEMMA ReadyOK ==
  ASSUME NEW n \in 0 .. MaxReady
  PROVE  Ready(n) \in 0 .. MaxReady /\ Ready(n) > 0
  BY MaxReadyAssumption DEF Ready

\* A commit leaves every runnable instance queued.
LEMMA CommitQueued ==
  ASSUME QInv, Quiet, inst \in [Instances -> InstRows],
         NEW i \in Instances, NEW it \in InstRows, Commit(i, it)
  PROVE  QInv'
<1> DEFINE r == Ready(queue[i].ready)
<1>1. queue[i] \in QueueRows /\ r \in 0 .. MaxReady /\ r > 0
  BY ReadyOK DEF QInv, QueueRows
<1>2. [queue[i] EXCEPT !.ready = r] \in QueueRows
  BY <1>1 DEF QueueRows
<1>3. queue' \in [Instances -> QueueRows]
  BY <1>1, <1>2 DEF QInv, Commit, Enqueue
<1>4. ASSUME NEW j \in Instances, j # i
      PROVE  queue'[j] = queue[j] /\ inst'[j] = inst[j]
  BY <1>4 DEF QInv, Commit, Enqueue
<1>5. inst'[i] = it
  BY DEF Commit
<1>6. ASSUME it.state = "Running", it.wait = "Running"
      PROVE  queue'[i].ready > 0
  <2>1. queue' = [queue EXCEPT ![i] = [@ EXCEPT !.ready = r]]
    BY <1>6 DEF Commit, Enqueue
  <2>2. queue'[i] = [queue[i] EXCEPT !.ready = r]
    BY <2>1 DEF QInv
  <2>3. queue'[i].ready = r
    BY <2>2, <1>1 DEF QueueRows
  <2> QED BY <2>3, <1>1
<1>7. RunnableIsQueued'
  <2> SUFFICES ASSUME NEW j \in Instances, Runnable(j)'
               PROVE  \/ queue'[j].ready > 0
                      \/ /\ queue'[j].claim # None
                         /\ ~(/\ sched'[queue'[j].claim].cur = j
                              /\ sched'[queue'[j].claim].drained = "ok")
    BY DEF RunnableIsQueued
  <2>1. CASE j = i
    BY <2>1, <1>5, <1>6 DEF Runnable
  <2>2. CASE j # i
    <3>1. Runnable(j) /\ queue'[j] = queue[j] /\ queue[j].claim \in Owners
      BY <2>2, <1>4 DEF Runnable, QInv, QueueRows
    <3> QED BY <3>1 DEF QInv, RunnableIsQueued, Quiet, Owners
  <2> QED BY <2>1, <2>2
<1> QED BY <1>3, <1>7 DEF QInv

\* A step that leaves the queue alone and makes no instance runnable.
LEMMA SameQueue ==
  ASSUME QInv, Quiet, UNCHANGED queue, \A i \in Instances : Runnable(i)' => Runnable(i)
  PROVE  QInv'
<1>1. queue' \in [Instances -> QueueRows]
  BY DEF QInv
<1>2. RunnableIsQueued'
  <2> SUFFICES ASSUME NEW j \in Instances, Runnable(j)'
               PROVE  \/ queue'[j].ready > 0
                      \/ /\ queue'[j].claim # None
                         /\ ~(/\ sched'[queue'[j].claim].cur = j
                              /\ sched'[queue'[j].claim].drained = "ok")
    BY DEF RunnableIsQueued
  <2>1. Runnable(j) /\ queue[j].claim \in Owners
    BY DEF QInv, QueueRows
  <2> QED BY <2>1 DEF QInv, RunnableIsQueued, Quiet, Owners
<1> QED BY <1>1, <1>2 DEF QInv

----------------------------------------------------------------------------
(* The rows.                                                               *)

LEMMA IdsFacts ==
  /\ \A x \in Ids : /\ x[1] \in Instances /\ x[2] \in DOMAIN Plan[x[1]] /\ x[2] \in Nat
                     /\ x = <<x[1], x[2]>>
  /\ \A i \in Instances : \A p \in DOMAIN Plan[i] : <<i, p>> \in Ids
  BY PlanAssumption DEF Ids

\* Claims, due dates and releases of armed timers.
LEMMA TimerTouch ==
  ASSUME RInv, UNCHANGED <<inst, effect>>, timer' \in [Ids -> TimerRows],
         \A x \in Ids : /\ timer'[x].state = timer[x].state
                        /\ timer[x].state # "armed" => timer'[x] = timer[x]
  PROVE  RInv'
<1>1. \A i \in Instances : InstOK(i)'
  BY DEF RInv, InstOK
<1>2. \A x \in Ids : RowOK(x)'
  BY DEF RInv, RowOK, NoTimer
<1>3. WaitsAreServed'
  BY <1>1, IdsFacts DEF RInv, WaitsAreServed, InstOK, Kinds
<1> QED BY <1>1, <1>2, <1>3 DEF RInv

Open == {"pending", "dispatching", "accepted"}

\* Claims, calls and answers of effects.
LEMMA EffectTouch ==
  ASSUME RInv, UNCHANGED <<inst, timer>>, effect' \in [Ids -> EffectRows],
         \A x \in Ids : /\ effect[x].state = "none" => effect'[x] = effect[x]
                        /\ effect'[x].live => effect'[x].state = "dispatching"
                        /\ effect[x].state \in Open /\ Plan[x[1]][x[2]] = "effect" =>
                             effect'[x].state \in Open
  PROVE  RInv'
<1>1. \A i \in Instances : InstOK(i)'
  BY DEF RInv, InstOK
<1>2. \A x \in Ids : RowOK(x)'
  BY DEF RInv, RowOK, NoEffect
<1>3. WaitsAreServed'
  BY <1>1, IdsFacts DEF RInv, WaitsAreServed, InstOK, Kinds, Open
<1> QED BY <1>1, <1>2, <1>3 DEF RInv

\* Holds and quarantines.
LEMMA InstTouch ==
  ASSUME RInv, UNCHANGED <<timer, effect>>, inst' \in [Instances -> InstRows],
         \A i \in Instances : inst'[i].wait = inst[i].wait /\ inst'[i].pos = inst[i].pos
  PROVE  RInv'
<1>1. \A i \in Instances : InstOK(i)'
  BY DEF RInv, InstOK
<1>2. \A x \in Ids : RowOK(x)'
  BY IdsFacts DEF RInv, RowOK
<1>3. WaitsAreServed'
  BY DEF RInv, WaitsAreServed
<1> QED BY <1>1, <1>2, <1>3 DEF RInv

\* A fibre leaves its wait behind: no timer of its instance stays armed, and
\* no other row of the instance changes.
LEMMA LeaveWait ==
  ASSUME RInv, NEW i \in Instances, NEW it \in InstRows,
         it.wait \notin Kinds, it.pos = inst[i].pos,
         inst' = [inst EXCEPT ![i] = it],
         timer' \in [Ids -> TimerRows], effect' \in [Ids -> EffectRows],
         \A x \in Ids : /\ timer'[x].state = "armed" => x[1] # i /\ timer'[x] = timer[x]
                        /\ timer'[x].live => timer'[x].state = "armed"
                        /\ timer[x].state # "armed" => timer'[x] = timer[x]
                        /\ effect[x].state = "none" => effect'[x] = effect[x]
                        /\ effect'[x].live => effect'[x].state = "dispatching"
                        /\ x[1] # i => timer'[x] = timer[x] /\ effect'[x] = effect[x]
  PROVE  RInv'
<1>1. /\ inst' \in [Instances -> InstRows] /\ inst'[i] = it
      /\ \A j \in Instances : j # i => inst'[j] = inst[j]
      /\ \A j \in Instances : inst'[j].pos = inst[j].pos
  BY DEF RInv
<1>2. \A j \in Instances : InstOK(j)'
  BY <1>1 DEF RInv, InstOK
<1>3. ASSUME NEW x \in Ids PROVE RowOK(x)'
  <2>1. x[1] \in Instances
    BY IdsFacts
  <2>2. timer'[x].state = "armed" => x[2] = inst'[x[1]].pos /\ inst'[x[1]].wait \in {"timer", "race"}
    BY <1>1, <2>1 DEF RInv, RowOK
  <2>3. x[2] > inst'[x[1]].pos => timer'[x] = NoTimer /\ effect'[x] = NoEffect
    BY <1>1, <2>1 DEF RInv, RowOK, NoTimer, NoEffect
  <2> QED BY <2>2, <2>3 DEF RowOK
<1>4. WaitsAreServed'
  <2> SUFFICES ASSUME NEW j \in Instances, inst'[j].wait \in Kinds
               PROVE  LET x == <<j, inst'[j].pos>> IN
                        /\ inst'[j].wait \in {"timer", "race"} => timer'[x].state = "armed"
                        /\ inst'[j].wait = "effect" => effect'[x].state \in Open
    BY DEF WaitsAreServed, Open, Kinds
  <2>1. j # i /\ inst'[j] = inst[j] /\ <<j, inst[j].pos>> \in Ids
    BY <1>1, <1>2, IdsFacts DEF InstOK
  <2>2. timer'[<<j, inst[j].pos>>] = timer[<<j, inst[j].pos>>]
        /\ effect'[<<j, inst[j].pos>>] = effect[<<j, inst[j].pos>>]
    BY <2>1
  <2> QED BY <2>1, <2>2 DEF RInv, WaitsAreServed, Open
<1> QED BY <1>1, <1>2, <1>3, <1>4 DEF RInv

LEMMA WokenOK ==
  ASSUME NEW i \in Instances, inst[i] \in InstRows
  PROVE  /\ Woken(i) \in InstRows /\ Woken(i).wait = "Running" /\ Woken(i).pos = inst[i].pos
         /\ Incident(i) \in InstRows /\ Incident(i).wait = "incident"
         /\ Incident(i).pos = inst[i].pos
  BY DEF Woken, Incident, InstRows, Waits

LEMMA ClosedOK ==
  ASSUME NEW state \in {"consumed", "cancelled"}
  PROVE  Closed(state) \in TimerRows /\ Closed(state).state = state /\ ~Closed(state).live
  BY DEF Closed, NoTimer, TimerRows, Owners

----------------------------------------------------------------------------
(* The actions of a process.                                               *)

LEMMA ClaimTimersInv ==
  ASSUME Inv, NEW s \in Schedulers, ClaimTimers(s)
  PROVE  Inv'
<1> DEFINE mine == {x \in Ids : timer[x].state = "armed" /\ timer[x].due /\ ~timer[x].live}
<1>1. /\ sched[s].phase = "idle" /\ mine \in SUBSET Ids
      /\ timer' = [x \in Ids |-> IF x \in mine
                      THEN [timer[x] EXCEPT !.claim = s, !.live = TRUE] ELSE timer[x]]
      /\ Set(s, Loop(s, "timers", mine, Go(s, "dispatch")))
      /\ UNCHANGED <<inst, effect, queue>>
  BY DEF ClaimTimers, At
<1>2. \A x \in mine : timer[x].state = "armed"
  OBVIOUS
<1> HIDE DEF mine
<1>3. Calm(Loop(s, "timers", mine, Go(s, "dispatch")))
  BY <1>1, GoCalm, LoopCalm DEF Inv, Phases
<1>4. SInv' /\ Quiet
  BY <1>1, <1>3, CalmStep DEF Inv
<1>5. RInv'
  <2>1. ASSUME NEW x \in Ids
        PROVE  LET r == [timer[x] EXCEPT !.claim = s, !.live = TRUE] IN
                 r \in TimerRows /\ r.state = timer[x].state
    BY DEF Inv, RInv, TimerRows, Owners
  <2>2. timer' \in [Ids -> TimerRows]
    BY <1>1, <2>1 DEF Inv, RInv
  <2>3. \A x \in Ids : /\ timer'[x].state = timer[x].state
                       /\ timer[x].state # "armed" => timer'[x] = timer[x]
    BY <1>1, <1>2, <2>1
  <2> QED BY <1>1, <2>2, <2>3, TimerTouch DEF Inv
<1>6. QInv'
  BY <1>1, <1>4, SameQueue DEF Inv, Runnable
<1> QED BY <1>4, <1>5, <1>6 DEF Inv

LEMMA FireTimerInv ==
  ASSUME Inv, NEW s \in Schedulers, FireTimer(s)
  PROVE  Inv'
<1>1. sched[s].phase = "timers" /\ sched[s] \in Processes /\ UNCHANGED effect
  BY DEF FireTimer, At, Inv, SInv
<1>2. PICK x \in sched[s].batch :
        IF Unavailable(x[1])
        THEN /\ timer' = ReleaseTimer(s, x)
             /\ Set(s, Go(s, IF sched[s].within = "boot" THEN "down" ELSE "dispatch"))
             /\ UNCHANGED <<inst, queue>>
        ELSE /\ Set(s, Loop(s, "timers", sched[s].batch \ {x}, Go(s, "dispatch")))
             /\ IF OwnsTimer(s, x)
                THEN /\ timer' = [timer EXCEPT ![x] = Closed("consumed")]
                     /\ Commit(x[1], IF inst[x[1]].wait = "timer" \/ (inst[x[1]].wait = "race" /\ inst[x[1]].pos = x[2])
                                     THEN Woken(x[1]) ELSE inst[x[1]])
                ELSE UNCHANGED <<timer, inst, queue>>
  BY DEF FireTimer
<1>3. x \in Ids /\ x[1] \in Instances /\ sched[s].batch \ {x} \in SUBSET Ids
  BY <1>1, IdsFacts DEF Processes
<1>4. SInv' /\ Quiet
  <2>1. Calm(Go(s, "down")) /\ Calm(Go(s, "dispatch"))
    BY <1>1, GoCalm DEF Inv, Phases
  <2>2. Calm(Loop(s, "timers", sched[s].batch \ {x}, Go(s, "dispatch")))
    BY <1>1, <1>3, <2>1, LoopCalm DEF Inv, Phases
  <2>3. PICK r : Calm(r) /\ Set(s, r)
    BY <1>2, <2>1, <2>2
  <2> QED BY <2>3, CalmStep DEF Inv
<1>5. CASE Unavailable(x[1])
  <2>1. UNCHANGED <<inst, effect, queue>> /\ timer' = ReleaseTimer(s, x)
    BY <1>1, <1>2, <1>5
  <2>2. ASSUME NEW y \in Ids
        PROVE  LET r == [timer[y] EXCEPT !.claim = None, !.live = FALSE] IN
                 r \in TimerRows /\ r.state = timer[y].state
    BY DEF Inv, RInv, TimerRows, Owners
  <2>3. RInv'
    <3>1. timer' \in [Ids -> TimerRows]
      BY <2>1, <2>2, <1>3 DEF Inv, RInv, ReleaseTimer
    <3>2. \A y \in Ids : /\ timer'[y].state = timer[y].state
                         /\ timer[y].state # "armed" => timer'[y] = timer[y]
      BY <2>1, <2>2, <1>3 DEF Inv, RInv, ReleaseTimer
    <3> QED BY <2>1, <3>1, <3>2, TimerTouch DEF Inv
  <2>4. QInv'
    BY <2>1, <1>4, SameQueue DEF Inv, Runnable
  <2> QED BY <1>4, <2>3, <2>4 DEF Inv
<1>6. CASE ~Unavailable(x[1]) /\ ~OwnsTimer(s, x)
  <2>1. UNCHANGED <<timer, inst, effect, queue>>
    BY <1>1, <1>2, <1>6
  <2>2. RInv'
    BY <2>1, TimerTouch DEF Inv, RInv
  <2>3. QInv'
    BY <2>1, <1>4, SameQueue DEF Inv, Runnable
  <2> QED BY <1>4, <2>2, <2>3 DEF Inv
<1>7. CASE ~Unavailable(x[1]) /\ OwnsTimer(s, x)
  <2>1. timer[x].state = "armed" /\ timer' = [timer EXCEPT ![x] = Closed("consumed")]
    BY <1>2, <1>7 DEF OwnsTimer
  <2>2. x[2] = inst[x[1]].pos /\ inst[x[1]].wait \in {"timer", "race"} /\ inst[x[1]] \in InstRows
    BY <2>1, <1>3 DEF Inv, RInv, RowOK
  <2>3. Commit(x[1], Woken(x[1]))
    BY <1>2, <1>7, <2>2
  <2>4. RInv'
    <3>1. timer' \in [Ids -> TimerRows]
      BY <2>1, ClosedOK DEF Inv, RInv
    <3>2. ASSUME NEW y \in Ids
          PROVE  /\ timer'[y].state = "armed" => y[1] # x[1] /\ timer'[y] = timer[y]
                 /\ timer'[y].live => timer'[y].state = "armed"
                 /\ timer[y].state # "armed" => timer'[y] = timer[y]
                 /\ y[1] # x[1] => timer'[y] = timer[y]
      <4>1. y = x => timer'[y].state = "consumed" /\ ~timer'[y].live
        BY <2>1, <1>3, ClosedOK DEF Inv, RInv
      <4>2. y # x => timer'[y] = timer[y]
        BY <2>1, <1>3 DEF Inv, RInv
      <4>3. (y # x /\ timer[y].state = "armed" => y[1] # x[1])
            /\ (timer[y].live => timer[y].state = "armed")
        BY <2>2, <1>3, IdsFacts DEF Inv, RInv, RowOK
      <4> QED BY <4>1, <4>2, <4>3, <2>1
    <3>3. Woken(x[1]) \in InstRows /\ Woken(x[1]).wait \notin Kinds /\ Woken(x[1]).pos = inst[x[1]].pos
      BY <1>3, <2>2, WokenOK DEF Kinds
    <3>4. inst' = [inst EXCEPT ![x[1]] = Woken(x[1])]
      BY <2>3 DEF Commit
    <3>5. /\ effect' \in [Ids -> EffectRows] /\ effect' = effect
          /\ \A y \in Ids : effect'[y].live => effect'[y].state = "dispatching"
      BY <1>1 DEF Inv, RInv, RowOK
    <3>6. \A y \in Ids : /\ timer'[y].state = "armed" => y[1] # x[1] /\ timer'[y] = timer[y]
                         /\ timer'[y].live => timer'[y].state = "armed"
                         /\ timer[y].state # "armed" => timer'[y] = timer[y]
                         /\ effect[y].state = "none" => effect'[y] = effect[y]
                         /\ effect'[y].live => effect'[y].state = "dispatching"
                         /\ y[1] # x[1] => timer'[y] = timer[y] /\ effect'[y] = effect[y]
      BY <3>2, <3>5
    <3> QED BY <1>3, <3>1, <3>3, <3>4, <3>5, <3>6, LeaveWait DEF Inv
  <2>5. QInv'
    BY <2>2, <2>3, <1>3, <1>4, WokenOK, CommitQueued DEF Inv, RInv
  <2> QED BY <1>4, <2>4, <2>5 DEF Inv
<1> QED BY <1>5, <1>6, <1>7

LEMMA ClaimEffectsInv ==
  ASSUME Inv, NEW s \in Schedulers, ClaimEffects(s)
  PROVE  Inv'
<1> DEFINE mine == {x \in Ids : Claimable(x)}
<1>1. /\ sched[s].phase = "dispatch" /\ mine \in SUBSET Ids
      /\ effect' = [x \in Ids |-> IF x \in mine
            THEN [effect[x] EXCEPT !.state = "dispatching", !.claim = s, !.live = TRUE]
            ELSE effect[x]]
      /\ Set(s, Loop(s, "effects", mine, Go(s, "load")))
      /\ UNCHANGED <<inst, timer, queue>>
  BY DEF ClaimEffects, At
<1>2. \A x \in mine : effect[x].state \in {"pending", "dispatching"}
  BY DEF Claimable
<1> HIDE DEF mine
<1>3. Calm(Loop(s, "effects", mine, Go(s, "load")))
  BY <1>1, GoCalm, LoopCalm DEF Inv, Phases
<1>4. SInv' /\ Quiet
  BY <1>1, <1>3, CalmStep DEF Inv
<1>5. RInv'
  <2>1. ASSUME NEW x \in Ids
        PROVE  LET r == [effect[x] EXCEPT !.state = "dispatching", !.claim = s, !.live = TRUE] IN
                 r \in EffectRows /\ r.state = "dispatching"
    BY DEF Inv, RInv, EffectRows, Owners
  <2>2. effect' \in [Ids -> EffectRows]
    BY <1>1, <2>1 DEF Inv, RInv
  <2>3. \A x \in Ids : /\ effect[x].state = "none" => effect'[x] = effect[x]
                       /\ effect'[x].live => effect'[x].state = "dispatching"
                       /\ effect[x].state \in Open => effect'[x].state \in Open
    BY <1>1, <1>2, <2>1 DEF Inv, RInv, RowOK, Open
  <2> QED BY <1>1, <2>2, <2>3, EffectTouch DEF Inv
<1>6. QInv'
  BY <1>1, <1>4, SameQueue DEF Inv, Runnable
<1> QED BY <1>4, <1>5, <1>6 DEF Inv

\* A step that moves processes and nothing else.
LEMMA ProcessStep ==
  ASSUME Inv, SInv', Quiet, UNCHANGED <<inst, timer, effect, queue>>
  PROVE  Inv'
<1>1. RInv'
  BY TimerTouch DEF Inv, RInv
<1>2. QInv'
  BY SameQueue DEF Inv, Runnable
<1> QED BY <1>1, <1>2 DEF Inv

LEMMA CallInv ==
  ASSUME Inv, NEW s \in Schedulers, Call(s)
  PROVE  Inv'
<1>1. PICK x \in sched[s].batch, a \in Answers : Set(s, [sched[s] EXCEPT !.item = x, !.answer = a])
  BY DEF Call
<1>2. sched[s] \in Processes /\ sched[s].phase = "effects" /\ sched[s].drained # "ok"
  BY DEF Call, At, Inv, SInv, ProcessOK
<1>3. Calm([sched[s] EXCEPT !.item = x, !.answer = a])
  BY <1>2 DEF Calm, ProcessOK, Processes
<1>4. SInv' /\ Quiet
  BY <1>1, <1>3, CalmStep DEF Inv
<1> QED BY <1>4, ProcessStep DEF Call

LEMMA RecordInv ==
  ASSUME Inv, NEW s \in Schedulers, Record(s)
  PROVE  Inv'
<1> DEFINE x == sched[s].item
           a == sched[s].answer
           response == IF a = "transient" THEN "failed" ELSE a
           next == Loop(s, "effects", sched[s].batch \ {x}, Go(s, "load"))
           again == [Unclaimed(x, "pending") EXCEPT !.attempt = @ + 1, !.ripe = FALSE]
           accept == [Unclaimed(x, "accepted") EXCEPT !.response = response]
<1>1. /\ sched[s].phase = "effects" /\ a # "none" /\ x \in Ids /\ a \in Answers
      /\ sched[s] \in Processes /\ sched[s].batch \ {x} \in SUBSET Ids
      /\ UNCHANGED <<inst, timer, queue>>
  BY DEF Record, At, Inv, SInv, ProcessOK, Processes
<1>2. effect[x] \in EffectRows
  BY <1>1 DEF Inv, RInv
<1>3. \/ OwnsEffect(s, x) /\ Set(s, next) /\ RetryAt(x) /\ effect' = [effect EXCEPT ![x] = again]
      \/ OwnsEffect(s, x) /\ Set(s, next) /\ effect' = [effect EXCEPT ![x] = accept]
      \/ (Set(s, next) \/ Set(s, AfterDispatch(s, FALSE))) /\ UNCHANGED effect
  BY DEF Record
<1>4. SInv' /\ Quiet
  <2>1. Calm(next)
    BY <1>1, GoCalm, LoopCalm DEF Inv, Phases
  <2>2. Calm(AfterDispatch(s, FALSE))
    BY <1>1, AfterDispatchCalm DEF Inv
  <2> HIDE DEF next
  <2>3. PICK r : Calm(r) /\ Set(s, r)
    BY <1>3, <2>1, <2>2
  <2> QED BY <2>3, CalmStep DEF Inv
<1>5. ASSUME NEW r \in EffectRows, r.state \in Open, r.live = FALSE, effect[x].state = "dispatching",
             effect' = [effect EXCEPT ![x] = r]
      PROVE  RInv'
  <2> HIDE DEF x
  <2>1. effect' \in [Ids -> EffectRows]
    BY <1>5 DEF Inv, RInv
  <2>2. \A y \in Ids : /\ effect[y].state = "none" => effect'[y] = effect[y]
                       /\ effect'[y].live => effect'[y].state = "dispatching"
                       /\ effect[y].state \in Open => effect'[y].state \in Open
    BY <1>1, <1>5 DEF Inv, RInv, RowOK
  <2> QED BY <1>1, <2>1, <2>2, EffectTouch DEF Inv
<1>6. RInv'
  <2>1. CASE OwnsEffect(s, x) /\ RetryAt(x) /\ effect' = [effect EXCEPT ![x] = again]
    <3> DEFINE u == Unclaimed(x, "pending")
    <3>1. /\ u \in EffectRows /\ u.state = "pending" /\ u.live = FALSE
          /\ u.attempt = effect[x].attempt
      <4> HIDE DEF x
      <4> QED BY <1>2 DEF Unclaimed, EffectRows, Owners
    <3>2. u.attempt + 1 \in 0 .. MaxAttempts
      BY <2>1, <3>1, MaxAttemptsAssumption DEF RetryAt, EffectRows
    <3> DEFINE n == u.attempt + 1
    <3>3. again = [u EXCEPT !.attempt = n, !.ripe = FALSE]
      OBVIOUS
    <3> HIDE DEF u, n, x
    <3>4. [u EXCEPT !.attempt = n, !.ripe = FALSE] \in EffectRows
      BY <3>1, <3>2 DEF EffectRows, n
    <3>5. again \in EffectRows /\ again.state = "pending" /\ again.live = FALSE
      BY <3>1, <3>3, <3>4 DEF EffectRows
    <3> QED BY <2>1, <3>5, <1>5 DEF OwnsEffect, Open
  <2>2. CASE OwnsEffect(s, x) /\ effect' = [effect EXCEPT ![x] = accept]
    <3>1. response \in Answers \cup {"failed"}
      BY <1>1
    <3> HIDE DEF x, response
    <3>2. accept \in EffectRows /\ accept.state = "accepted" /\ accept.live = FALSE
      BY <1>2, <3>1 DEF Unclaimed, EffectRows, Owners
    <3> QED BY <2>2, <3>2, <1>5 DEF OwnsEffect, Open
  <2>3. CASE UNCHANGED effect
    BY <1>1, <2>3, TimerTouch DEF Inv, RInv
  <2> QED BY <1>3, <2>1, <2>2, <2>3
<1>7. QInv'
  BY <1>1, <1>4, SameQueue DEF Inv, Runnable
<1> QED BY <1>4, <1>6, <1>7 DEF Inv

LEMMA LoadResponsesInv ==
  ASSUME Inv, NEW s \in Schedulers, LoadResponses(s)
  PROVE  Inv'
<1> DEFINE rows == {x \in Ids : effect[x].state = "accepted"}
<1>1. sched[s].phase = "load" /\ Set(s, Loop(s, "responses", rows, AfterDispatch(s, TRUE)))
  BY DEF LoadResponses, At
<1>2. rows \in SUBSET Ids
  OBVIOUS
<1> HIDE DEF rows
<1>3. Calm(Loop(s, "responses", rows, AfterDispatch(s, TRUE)))
  BY <1>1, <1>2, AfterDispatchCalm, LoopCalm DEF Inv, Phases
<1>4. SInv' /\ Quiet
  BY <1>1, <1>3, CalmStep DEF Inv
<1> QED BY <1>4, ProcessStep DEF LoadResponses

\* The row of a response that is settled.
LEMMA SettleOK ==
  ASSUME RInv, NEW x \in Ids, NEW state \in {"completed", "failed"}, NEW logged \in BOOLEAN,
         effect[x].state = "accepted", Settle(x, state, logged)
  PROVE  /\ effect' \in [Ids -> EffectRows]
         /\ effect'[x].state = state /\ ~effect'[x].live
         /\ \A y \in Ids : y # x => effect'[y] = effect[y]
<1>1. effect[x] \in EffectRows /\ effect[x].live = FALSE
  BY DEF RInv, RowOK, EffectRows
<1> DEFINE r == [effect[x] EXCEPT !.state = state, !.logged = logged]
<1>2. r \in EffectRows /\ r.state = state /\ r.live = FALSE
  BY <1>1 DEF EffectRows
<1>3. effect' = [effect EXCEPT ![x] = r]
  BY DEF Settle, RInv
<1> HIDE DEF r
<1> QED BY <1>2, <1>3 DEF RInv

LEMMA CompleteInv ==
  ASSUME Inv, SInv', Quiet, NEW x \in Ids, CanApply(x, FALSE), Complete(x)
  PROVE  Inv'
<1>1. /\ x[1] \in Instances /\ inst[x[1]] \in InstRows /\ effect[x].state = "accepted"
      /\ Wins(x) \/ Late(x)
  BY IdsFacts DEF Inv, RInv, CanApply
<1>2. CASE Wins(x)
  <2>1. /\ Commit(x[1], Woken(x[1])) /\ timer' = CancelTimers({x}) /\ Settle(x, "completed", TRUE)
        /\ inst[x[1]].pos = x[2]
    BY <1>2 DEF Complete, Wins, Parked
  <2>2. /\ effect' \in [Ids -> EffectRows] /\ effect'[x].state = "completed" /\ ~effect'[x].live
        /\ \A y \in Ids : y # x => effect'[y] = effect[y]
    BY <1>1, <2>1, SettleOK DEF Inv
  <2>3. timer' \in [Ids -> TimerRows]
    BY <2>1, ClosedOK DEF CancelTimers, Inv, RInv
  <2>4. ASSUME NEW y \in Ids
        PROVE  /\ timer'[y].state = "armed" => y[1] # x[1] /\ timer'[y] = timer[y]
               /\ timer'[y].live => timer'[y].state = "armed"
               /\ timer[y].state # "armed" => timer'[y] = timer[y]
               /\ y[1] # x[1] => timer'[y] = timer[y] /\ effect'[y] = effect[y]
    <3>1. y = x => /\ timer'[y].state # "armed" /\ ~timer'[y].live
                   /\ timer[y].state # "armed" => timer'[y] = timer[y]
      BY <2>1, ClosedOK DEF CancelTimers, Inv, RInv, RowOK
    <3>2. y # x => timer'[y] = timer[y] /\ effect'[y] = effect[y]
      BY <2>1, <2>2 DEF CancelTimers
    <3>3. (y # x /\ timer[y].state = "armed" => y[1] # x[1])
          /\ (timer[y].live => timer[y].state = "armed")
      BY <2>1, IdsFacts DEF Inv, RInv, RowOK
    <3> QED BY <3>1, <3>2, <3>3
  <2>5. \A y \in Ids : /\ effect[y].state = "none" => effect'[y] = effect[y]
                       /\ effect'[y].live => effect'[y].state = "dispatching"
    BY <1>1, <2>2 DEF Inv, RInv, RowOK
  <2>6. Woken(x[1]) \in InstRows /\ Woken(x[1]).wait \notin Kinds /\ Woken(x[1]).pos = inst[x[1]].pos
    BY <1>1, WokenOK DEF Kinds
  <2>7. inst' = [inst EXCEPT ![x[1]] = Woken(x[1])]
    BY <2>1 DEF Commit
  <2>8. RInv'
    <3>1. \A y \in Ids : /\ timer'[y].state = "armed" => y[1] # x[1] /\ timer'[y] = timer[y]
                         /\ timer'[y].live => timer'[y].state = "armed"
                         /\ timer[y].state # "armed" => timer'[y] = timer[y]
                         /\ effect[y].state = "none" => effect'[y] = effect[y]
                         /\ effect'[y].live => effect'[y].state = "dispatching"
                         /\ y[1] # x[1] => timer'[y] = timer[y] /\ effect'[y] = effect[y]
      BY <2>4, <2>5
    <3>2. /\ RInv /\ x[1] \in Instances /\ Woken(x[1]) \in InstRows /\ Woken(x[1]).wait \notin Kinds
          /\ Woken(x[1]).pos = inst[x[1]].pos /\ inst' = [inst EXCEPT ![x[1]] = Woken(x[1])]
          /\ timer' \in [Ids -> TimerRows] /\ effect' \in [Ids -> EffectRows]
      BY <1>1, <2>2, <2>3, <2>4, <2>5, <2>6, <2>7 DEF Inv
    <3> QED BY <3>1, <3>2, LeaveWait
  <2>9. QInv'
    BY <1>1, <2>1, <2>6, CommitQueued DEF Inv, RInv
  <2> QED BY <2>8, <2>9 DEF Inv
<1>3. CASE ~Wins(x)
  <2>1. /\ Commit(x[1], inst[x[1]]) /\ UNCHANGED timer /\ Settle(x, "completed", FALSE)
        /\ Plan[x[1]][x[2]] = "race"
    BY <1>1, <1>3 DEF Complete, Late
  <2>2. inst' = inst
    BY <1>1, <2>1 DEF Commit, Inv, RInv
  <2>3. /\ effect' \in [Ids -> EffectRows] /\ effect'[x].state = "completed" /\ ~effect'[x].live
        /\ \A y \in Ids : y # x => effect'[y] = effect[y]
    BY <1>1, <2>1, SettleOK DEF Inv
  <2>4. \A y \in Ids : /\ effect[y].state = "none" => effect'[y] = effect[y]
                       /\ effect'[y].live => effect'[y].state = "dispatching"
                       /\ effect[y].state \in Open /\ Plan[y[1]][y[2]] = "effect" =>
                            effect'[y].state \in Open
    BY <1>1, <2>1, <2>3 DEF Inv, RInv, RowOK
  <2>5. RInv'
    BY <2>1, <2>2, <2>3, <2>4, EffectTouch DEF Inv
  <2>6. QInv'
    BY <1>1, <2>1, CommitQueued DEF Inv, RInv
  <2> QED BY <2>5, <2>6 DEF Inv
<1> QED BY <1>2, <1>3

LEMMA FailInv ==
  ASSUME Inv, SInv', Quiet, NEW x \in Ids, CanApply(x, TRUE), Fail(x)
  PROVE  Inv'
<1>1. x[1] \in Instances /\ inst[x[1]] \in InstRows /\ UNCHANGED timer
  BY IdsFacts DEF Inv, RInv, Fail
<1>2. CASE Parked(x, "effect")
  <2>1. /\ Commit(x[1], Incident(x[1])) /\ Settle(x, "failed", FALSE)
        /\ effect[x].state = "accepted" /\ inst[x[1]].wait = "effect"
    BY <1>2 DEF Fail, CanApply, Parked
  <2>2. /\ effect' \in [Ids -> EffectRows] /\ effect'[x].state = "failed" /\ ~effect'[x].live
        /\ \A y \in Ids : y # x => effect'[y] = effect[y]
    BY <2>1, SettleOK DEF Inv
  <2>3. \A y \in Ids : /\ timer[y].state = "armed" => y[1] # x[1]
                       /\ timer[y].live => timer[y].state = "armed"
    BY <2>1 DEF Inv, RInv, RowOK
  <2>4. \A y \in Ids : /\ effect[y].state = "none" => effect'[y] = effect[y]
                       /\ effect'[y].live => effect'[y].state = "dispatching"
                       /\ y[1] # x[1] => effect'[y] = effect[y]
    BY <2>1, <2>2 DEF Inv, RInv, RowOK
  <2>5. /\ Incident(x[1]) \in InstRows /\ Incident(x[1]).wait \notin Kinds
        /\ Incident(x[1]).pos = inst[x[1]].pos
    BY <1>1, WokenOK DEF Kinds
  <2>6. inst' = [inst EXCEPT ![x[1]] = Incident(x[1])]
    BY <2>1 DEF Commit
  <2>7. timer' \in [Ids -> TimerRows]
    BY <1>1 DEF Inv, RInv
  <2>8. RInv'
    <3>1. \A y \in Ids : /\ timer'[y].state = "armed" => y[1] # x[1] /\ timer'[y] = timer[y]
                         /\ timer'[y].live => timer'[y].state = "armed"
                         /\ timer[y].state # "armed" => timer'[y] = timer[y]
                         /\ effect[y].state = "none" => effect'[y] = effect[y]
                         /\ effect'[y].live => effect'[y].state = "dispatching"
                         /\ y[1] # x[1] => timer'[y] = timer[y] /\ effect'[y] = effect[y]
      BY <1>1, <2>3, <2>4
    <3>2. /\ RInv /\ x[1] \in Instances /\ Incident(x[1]) \in InstRows /\ Incident(x[1]).wait \notin Kinds
          /\ Incident(x[1]).pos = inst[x[1]].pos /\ inst' = [inst EXCEPT ![x[1]] = Incident(x[1])]
          /\ timer' \in [Ids -> TimerRows] /\ effect' \in [Ids -> EffectRows]
      BY <1>1, <2>2, <2>3, <2>4, <2>5, <2>6, <2>7 DEF Inv
    <3> QED BY <3>1, <3>2, LeaveWait
  <2>9. QInv'
    BY <1>1, <2>1, <2>5, CommitQueued DEF Inv, RInv
  <2> QED BY <2>8, <2>9 DEF Inv
<1>3. CASE ~Parked(x, "effect")
  <2>1. Commit(x[1], inst[x[1]]) /\ UNCHANGED effect
    BY <1>3 DEF Fail
  <2>2. inst' = inst
    BY <1>1, <2>1 DEF Commit, Inv, RInv
  <2>3. RInv'
    BY <1>1, <2>1, <2>2, TimerTouch DEF Inv, RInv
  <2>4. QInv'
    BY <1>1, <2>1, CommitQueued DEF Inv, RInv
  <2> QED BY <2>3, <2>4 DEF Inv
<1> QED BY <1>2, <1>3

LEMMA ApplyInv ==
  ASSUME Inv, NEW s \in Schedulers, NEW x \in Ids, NEW failed \in BOOLEAN,
         NEW next, NEW onError, Calm(next), Calm(onError), Apply(s, x, failed, next, onError)
  PROVE  Inv'
<1>1. SInv' /\ Quiet
  <2>1. PICK r : Calm(r) /\ Set(s, r)
    BY DEF Apply
  <2> QED BY <2>1, CalmStep DEF Inv
<1>2. CASE CanApply(x, failed) /\ failed
  BY <1>1, <1>2, FailInv DEF Apply
<1>3. CASE CanApply(x, failed) /\ ~failed
  BY <1>1, <1>3, CompleteInv DEF Apply
<1>4. CASE ~CanApply(x, failed)
  BY <1>1, <1>4, ProcessStep DEF Apply
<1> QED BY <1>2, <1>3, <1>4

LEMMA ApplyResponseInv ==
  ASSUME Inv, NEW s \in Schedulers, ApplyResponse(s)
  PROVE  Inv'
<1>1. PICK x \in sched[s].batch :
        Apply(s, x, effect[x].response = "failed",
              Loop(s, "responses", sched[s].batch \ {x}, AfterDispatch(s, TRUE)),
              AfterDispatch(s, FALSE))
  BY DEF ApplyResponse
<1>2. sched[s].phase = "responses" /\ x \in Ids /\ sched[s].batch \ {x} \in SUBSET Ids
  BY DEF ApplyResponse, At, Inv, SInv, Processes
<1>3. Calm(AfterDispatch(s, TRUE)) /\ Calm(AfterDispatch(s, FALSE))
  BY <1>2, AfterDispatchCalm DEF Inv
<1>4. Calm(Loop(s, "responses", sched[s].batch \ {x}, AfterDispatch(s, TRUE)))
  BY <1>2, <1>3, LoopCalm DEF Inv, Phases
<1> DEFINE failed == effect[x].response = "failed"
<1>5. failed \in BOOLEAN
  OBVIOUS
<1> HIDE DEF failed
<1> QED BY <1>1, <1>2, <1>3, <1>4, <1>5, ApplyInv DEF failed

LEMMA DetectInv ==
  ASSUME Inv, NEW s \in Schedulers, Detect(s)
  PROVE  Inv'
<1>1. PICK x \in sched[s].batch :
        Apply(s, x, TRUE, Loop(s, "detect", sched[s].batch \ {x}, Idle), Go(s, "down"))
  BY DEF Detect
<1>2. sched[s].phase = "detect" /\ x \in Ids /\ sched[s].batch \ {x} \in SUBSET Ids
  BY DEF Detect, At, Inv, SInv, Processes
<1>3. Calm(Go(s, "down")) /\ Calm(Loop(s, "detect", sched[s].batch \ {x}, Idle))
  BY <1>2, GoCalm, LoopCalm, IdleCalm DEF Inv, Phases
<1> QED BY <1>1, <1>2, <1>3, ApplyInv

----------------------------------------------------------------------------
(* The ticks.                                                              *)

LEMMA ClaimActivationsInv ==
  ASSUME Inv, NEW s \in Schedulers, ClaimActivations(s)
  PROVE  Inv'
<1> DEFINE mine == {i \in Instances : queue[i].ready > 0 /\ queue[i].claim = None}
           row(i) == [ready |-> queue[i].ready - 1, claim |-> s, live |-> TRUE]
           r == IF mine = {} THEN Idle ELSE [Go(s, "ticks") EXCEPT !.acts = mine]
<1>1. /\ sched[s].phase = "activations" /\ mine \in SUBSET Instances
      /\ queue' = [i \in Instances |-> IF i \in mine THEN row(i) ELSE queue[i]]
      /\ Set(s, r) /\ UNCHANGED <<inst, timer, effect>>
  BY DEF ClaimActivations, At
<1>2. Calm(r)
  <2>1. Calm(Go(s, "ticks"))
    BY <1>1, GoCalm DEF Inv, Phases
  <2> DEFINE g == Go(s, "ticks")
  <2>2. Calm([g EXCEPT !.acts = mine])
    <3> HIDE DEF g, mine
    <3>1. Calm(g)
      BY <2>1 DEF g
    <3> QED BY <1>1, <3>1 DEF Calm, ProcessOK, Processes
  <2> QED BY <2>2, IdleCalm
<1>3. SInv' /\ Quiet
  BY <1>1, <1>2, CalmStep DEF Inv
<1>4. RInv'
  BY <1>1, TimerTouch DEF Inv, RInv
<1>5. QInv'
  <2>1. \A i \in mine : row(i) \in QueueRows
    BY MaxReadyAssumption DEF Inv, QInv, QueueRows, Owners
  <2>2. queue' \in [Instances -> QueueRows]
    <3> HIDE DEF mine, row
    <3> QED BY <1>1, <2>1 DEF Inv, QInv
  <2>3. ASSUME NEW i \in Instances, Runnable(i)'
        PROVE  \/ queue'[i].ready > 0
               \/ /\ queue'[i].claim # None
                  /\ ~(/\ sched'[queue'[i].claim].cur = i
                       /\ sched'[queue'[i].claim].drained = "ok")
    <3>1. CASE i \in mine
      <4>1. queue'[i].claim = s
        BY <1>1, <3>1
      <4>2. sched'[s] = r
        BY <1>1 DEF Set, Inv, SInv
      <4>3. s # None /\ r.drained # "ok"
        BY <1>2, NoneAssumption DEF Calm
      <4> QED BY <4>1, <4>2, <4>3
    <3>2. CASE i \notin mine
      <4>1. Runnable(i) /\ queue'[i] = queue[i] /\ queue[i].claim \in Owners
        BY <1>1, <2>3, <3>2 DEF Runnable, Inv, QInv, QueueRows
      <4> QED BY <1>3, <4>1 DEF Inv, QInv, RunnableIsQueued, Quiet, Owners
    <3> QED BY <3>1, <3>2
  <2> QED BY <2>2, <2>3 DEF QInv, RunnableIsQueued
<1> QED BY <1>3, <1>4, <1>5 DEF Inv

\* The running fibre arms rows that were never written.
LEMMA ArmRows ==
  ASSUME RInv, NEW i \in Instances, Runnable(i), Arm(i)
  PROVE  RInv'
<1> DEFINE p == inst[i].pos + 1
           x == <<i, p>>
           kind == Plan[i][p]
<1>1. /\ inst[i] \in InstRows /\ inst[i].wait = "Running" /\ p \in Nat /\ p > inst[i].pos
      /\ Plan[i] \in Seq(Kinds) /\ Len(Plan[i]) \in Nat /\ DOMAIN Plan[i] = 1 .. Len(Plan[i])
  BY PlanAssumption DEF RInv, InstRows, Runnable
<1>2. \A y \in Ids : /\ timer[y].state = "armed" => y[1] # i
                     /\ timer[y].live => timer[y].state = "armed"
  BY <1>1 DEF RInv, RowOK
<1>3. CASE p > Len(Plan[i])
  <2> DEFINE it == [inst[i] EXCEPT !.state = "Ended", !.wait = "gone"]
  <2>1. inst' = [inst EXCEPT ![i] = it] /\ UNCHANGED <<timer, effect>>
    BY <1>3 DEF Arm, Commit
  <2>2. it \in InstRows /\ it.wait \notin Kinds /\ it.pos = inst[i].pos
    BY <1>1 DEF InstRows, Waits, Kinds
  <2>3. /\ timer' \in [Ids -> TimerRows] /\ effect' \in [Ids -> EffectRows]
        /\ \A y \in Ids : effect'[y].live => effect'[y].state = "dispatching"
    BY <2>1 DEF RInv, RowOK
  <2> HIDE DEF it
  <2> QED BY <1>2, <2>1, <2>2, <2>3, LeaveWait
<1>4. CASE ~(p > Len(Plan[i]))
  <2>1. p \in DOMAIN Plan[i] /\ kind \in Kinds /\ x \in Ids
    <3>1. inst[i].pos \in Nat
      BY <1>1 DEF InstRows
    <3>2. p \in 1 .. Len(Plan[i])
      BY <1>1, <1>4, <3>1
    <3> HIDE DEF p
    <3>3. p \in DOMAIN Plan[i] /\ Plan[i][p] \in Kinds
      BY <1>1, <3>2
    <3> QED BY <3>3, IdsFacts
  <2> DEFINE it == [inst[i] EXCEPT !.pos = p, !.wait = kind]
             t == IF kind \in {"timer", "race"} THEN [timer[x] EXCEPT !.state = "armed"] ELSE timer[x]
             e == IF kind \in {"effect", "race"}
                  THEN [effect[x] EXCEPT !.state = "pending", !.ripe = TRUE] ELSE effect[x]
  <2>2. /\ inst' = [inst EXCEPT ![i] = it] /\ timer' = [timer EXCEPT ![x] = t]
        /\ effect' = [effect EXCEPT ![x] = e]
    BY <1>4, <2>1 DEF Arm, Commit, RInv
  <2>3. it \in InstRows /\ it.pos = p /\ it.wait = kind
    BY <1>1, <2>1 DEF InstRows, Waits
  <2>4. timer[x] = NoTimer /\ effect[x] = NoEffect
    BY <1>1, <2>1 DEF RInv, RowOK
  <2>5. /\ t \in TimerRows /\ ~t.live
        /\ t.state = IF kind \in {"timer", "race"} THEN "armed" ELSE "none"
    <3>1. NoTimer \in TimerRows /\ NoTimer.state = "none" /\ NoTimer.live = FALSE
      BY DEF NoTimer, TimerRows, Owners
    <3>2. LET f == [NoTimer EXCEPT !.state = "armed"] IN
            f \in TimerRows /\ f.state = "armed" /\ f.live = FALSE
      BY <3>1 DEF TimerRows
    <3> QED BY <2>4, <3>1, <3>2
  <2>6. /\ e \in EffectRows /\ ~e.live
        /\ e.state = IF kind \in {"effect", "race"} THEN "pending" ELSE "none"
    <3>1. NoEffect \in EffectRows /\ NoEffect.live = FALSE /\ NoEffect.state = "none"
      BY MaxAttemptsAssumption DEF NoEffect, EffectRows, Owners
    <3>2. LET f == [NoEffect EXCEPT !.state = "pending", !.ripe = TRUE] IN
            f \in EffectRows /\ f.live = FALSE /\ f.state = "pending"
      BY <3>1 DEF EffectRows
    <3> QED BY <2>4, <3>1, <3>2
  <2> HIDE DEF it, t, e
  <2>7. /\ inst' \in [Instances -> InstRows] /\ timer' \in [Ids -> TimerRows]
        /\ effect' \in [Ids -> EffectRows]
        /\ inst'[i] = it /\ timer'[x] = t /\ effect'[x] = e
        /\ \A j \in Instances : j # i => inst'[j] = inst[j]
        /\ \A y \in Ids : y # x => timer'[y] = timer[y] /\ effect'[y] = effect[y]
    <3> HIDE DEF x
    <3> QED BY <2>1, <2>2, <2>3, <2>5, <2>6 DEF RInv
  <2>8. \A j \in Instances : InstOK(j)'
    BY <2>1, <2>3, <2>7 DEF RInv, InstOK
  <2>9. ASSUME NEW y \in Ids PROVE RowOK(y)'
    <3>1. CASE y = x
      BY <1>1, <2>3, <2>5, <2>6, <2>7, <3>1 DEF RowOK
    <3>2. CASE y # x /\ y[1] = i
      <4>1. y[2] \in Nat /\ inst[i].pos \in Nat /\ RowOK(y)
        BY <1>1, IdsFacts DEF RInv, InstRows
      <4>2. timer'[y] = timer[y] /\ effect'[y] = effect[y] /\ inst'[y[1]].pos = p
        BY <2>3, <2>7, <3>2
      <4> QED BY <1>1, <1>2, <3>2, <4>1, <4>2 DEF RowOK
    <3>3. CASE y[1] # i
      <4>1. y # x /\ y[1] \in Instances
        BY <3>3, IdsFacts
      <4> QED BY <2>7, <3>3, <4>1 DEF RInv, RowOK
    <3> QED BY <3>1, <3>2, <3>3
  <2>10. WaitsAreServed'
    <3> SUFFICES ASSUME NEW j \in Instances, inst'[j].wait \in Kinds
                 PROVE  LET y == <<j, inst'[j].pos>> IN
                          /\ inst'[j].wait \in {"timer", "race"} => timer'[y].state = "armed"
                          /\ inst'[j].wait = "effect" => effect'[y].state \in Open
      BY DEF WaitsAreServed, Open, Kinds
    <3>1. CASE j = i
      BY <2>3, <2>5, <2>6, <2>7, <3>1 DEF Open
    <3>2. CASE j # i
      <4>1. inst'[j] = inst[j] /\ <<j, inst[j].pos>> \in Ids /\ <<j, inst[j].pos>> # x
        BY <2>7, <2>8, <3>2, IdsFacts DEF InstOK
      <4> QED BY <2>7, <4>1 DEF RInv, WaitsAreServed, Open
    <3> QED BY <3>1, <3>2
  <2> QED BY <2>7, <2>8, <2>9, <2>10 DEF RInv
<1> QED BY <1>3, <1>4

LEMMA ArmQueued ==
  ASSUME QInv, RInv, Quiet, NEW i \in Instances, Runnable(i), Arm(i)
  PROVE  QInv'
<1>1. /\ inst[i] \in InstRows /\ inst[i].pos + 1 \in Nat
      /\ Plan[i] \in Seq(Kinds) /\ Len(Plan[i]) \in Nat
  BY PlanAssumption DEF RInv, InstRows
<1>2. ~(inst[i].pos + 1 > Len(Plan[i])) => Plan[i][inst[i].pos + 1] \in Kinds
  BY <1>1 DEF InstRows
<1>3. PICK it \in InstRows : Commit(i, it)
  <2>1. [inst[i] EXCEPT !.state = "Ended", !.wait = "gone"] \in InstRows
    BY <1>1 DEF InstRows, Waits
  <2>2. ASSUME NEW q \in Nat, NEW k \in Kinds
        PROVE  [inst[i] EXCEPT !.pos = q, !.wait = k] \in InstRows
    BY <1>1 DEF InstRows, Waits
  <2> QED BY <1>1, <1>2, <2>1, <2>2 DEF Arm
<1> QED BY <1>3, CommitQueued DEF RInv

LEMMA TickInv ==
  ASSUME Inv, NEW s \in Schedulers, Tick(s)
  PROVE  Inv'
<1>1. sched[s] \in Processes /\ sched[s].phase = "ticks" /\ sched[s].drained = "no"
  BY DEF Tick, At, Inv, SInv
<1>2. PICK i \in IF sched[s].cur = None THEN sched[s].acts ELSE {sched[s].cur} :
        IF ~Unavailable(i) /\ Runnable(i)
        THEN /\ Arm(i)
             /\ Set(s, [Go(s, "dispatch") EXCEPT !.within = "tick", !.cur = i, !.acts = @ \ {i}])
        ELSE /\ Set(s, [sched[s] EXCEPT !.drained = IF Unavailable(i) THEN "err" ELSE "ok",
                                        !.cur = i, !.acts = @ \ {i}])
             /\ UNCHANGED <<inst, timer, effect, queue>>
  BY DEF Tick
<1>3. i \in Instances
  BY <1>1 DEF Processes
<1> DEFINE a == sched[s].acts \ {i}
<1>4. a \in SUBSET Instances
  BY <1>1 DEF Processes
<1>5. CASE ~Unavailable(i) /\ Runnable(i)
  <2> DEFINE g == Go(s, "dispatch")
             r == [g EXCEPT !.within = "tick", !.cur = i, !.acts = a]
  <2>1. g \in Processes /\ g.drained = "no" /\ g.answer = "none" /\ g.acts = sched[s].acts
    BY <1>1 DEF Go, Processes, Phases
  <2>2. Arm(i) /\ Set(s, r)
    BY <1>2, <1>5, <2>1
  <2>3. Calm(r)
    <3> HIDE DEF g, a
    <3> QED BY <1>3, <1>4, <2>1 DEF Calm, ProcessOK, Processes
  <2>4. SInv' /\ Quiet
    BY <2>2, <2>3, CalmStep DEF Inv
  <2>5. RInv'
    BY <1>3, <1>5, <2>2, ArmRows DEF Inv
  <2>6. QInv'
    BY <1>3, <1>5, <2>2, <2>4, ArmQueued DEF Inv
  <2> QED BY <2>4, <2>5, <2>6 DEF Inv
<1>6. CASE ~(~Unavailable(i) /\ Runnable(i))
  <2> DEFINE d == IF Unavailable(i) THEN "err" ELSE "ok"
             r == [sched[s] EXCEPT !.drained = d, !.cur = i, !.acts = a]
  <2>1. Set(s, r) /\ UNCHANGED <<inst, timer, effect, queue>>
    BY <1>2, <1>6
  <2>2. ProcessOK(r) /\ r.cur = i /\ r.drained = d
    <3>1. d \in {"ok", "err"} /\ ProcessOK(sched[s])
      BY DEF Inv, SInv
    <3> HIDE DEF d, a
    <3> QED BY <1>1, <1>3, <1>4, <3>1 DEF ProcessOK, Processes
  <2>3. d = "ok" => ~Runnable(i)
    BY <1>6
  <2> HIDE DEF r, d
  <2>4. sched' = [sched EXCEPT ![s] = r] /\ r \in Processes
    BY <2>1, <2>2 DEF Set, ProcessOK
  <2>5. SInv'
    BY <2>2, <2>4 DEF Inv, SInv, ProcessOK
  <2>6. RInv'
    BY <2>1, TimerTouch DEF Inv, RInv
  <2>7. QInv'
    <3>1. ASSUME NEW j \in Instances, Runnable(j)'
          PROVE  \/ queue'[j].ready > 0
                 \/ /\ queue'[j].claim # None
                    /\ ~(/\ sched'[queue'[j].claim].cur = j
                         /\ sched'[queue'[j].claim].drained = "ok")
      <4>1. Runnable(j) /\ queue'[j] = queue[j] /\ queue[j].claim \in Owners
        BY <2>1, <3>1 DEF Runnable, Inv, QInv, QueueRows
      <4>2. CASE queue[j].claim = s
        <5>1. sched'[s].cur = i /\ sched'[s].drained = d
          BY <2>2, <2>4 DEF Inv, SInv
        <5>2. s # None
          BY NoneAssumption
        <5> QED BY <2>3, <4>1, <4>2, <5>1, <5>2
      <4>3. CASE queue[j].claim # s
        <5>1. queue[j].claim # None => sched'[queue[j].claim] = sched[queue[j].claim]
          BY <2>4, <4>1, <4>3 DEF Inv, SInv, Owners
        <5> QED BY <4>1, <5>1 DEF Inv, QInv, RunnableIsQueued
      <4> QED BY <4>2, <4>3
    <3> QED BY <2>1, <3>1 DEF Inv, QInv, RunnableIsQueued
  <2> QED BY <2>5, <2>6, <2>7 DEF Inv
<1> QED BY <1>5, <1>6

LEMMA FinishInv ==
  ASSUME Inv, NEW s \in Schedulers, Finish(s)
  PROVE  Inv'
<1> DEFINE i == sched[s].cur
           n == IF sched[s].drained = "ok" THEN queue[i].ready ELSE Ready(queue[i].ready)
           row == [ready |-> n, claim |-> None, live |-> FALSE]
           r == IF sched[s].acts = {} THEN Idle ELSE [sched[s] EXCEPT !.cur = None, !.drained = "no"]
<1>1. /\ sched[s] \in Processes /\ UNCHANGED <<inst, timer, effect>> /\ Set(s, r)
      /\ queue' = IF OwnsActivation(s, i) THEN [queue EXCEPT ![i] = row] ELSE queue
  BY DEF Finish, Inv, SInv
<1>2. Calm(r)
  <2>1. ProcessOK(sched[s])
    BY DEF Inv, SInv
  <2>2. Calm([sched[s] EXCEPT !.cur = None, !.drained = "no"])
    BY <2>1 DEF Calm, ProcessOK, Processes
  <2> QED BY <2>2, IdleCalm
<1>3. SInv' /\ Quiet
  BY <1>1, <1>2, CalmStep DEF Inv
<1>4. RInv'
  BY <1>1, TimerTouch DEF Inv, RInv
<1>5. QInv'
  <2>1. CASE ~OwnsActivation(s, i) \/ i \notin Instances
    <3>1. queue' = queue
      BY <1>1, <2>1 DEF Inv, QInv
    <3> QED BY <1>1, <1>3, <3>1, SameQueue DEF Inv, Runnable
  <2>2. CASE OwnsActivation(s, i) /\ i \in Instances
    <3>1. queue[i].claim = s /\ queue[i].ready \in 0 .. MaxReady /\ s # None
      BY <2>2, NoneAssumption DEF OwnsActivation, Inv, QInv, QueueRows
    <3>2. n \in 0 .. MaxReady
      BY <3>1, ReadyOK
    <3>3. row \in QueueRows /\ row.ready = n
      BY <3>2 DEF QueueRows, Owners
    <3>4. Runnable(i) => n > 0
      <4>1. CASE sched[s].drained = "ok"
        BY <2>2, <3>1, <4>1 DEF Inv, QInv, RunnableIsQueued
      <4>2. CASE sched[s].drained # "ok"
        BY <3>1, <4>2, ReadyOK
      <4> QED BY <4>1, <4>2
    <3> HIDE DEF row, n, r
    <3>5. queue' = [queue EXCEPT ![i] = row]
      BY <1>1, <2>2
    <3>6. queue' \in [Instances -> QueueRows] /\ queue'[i] = row
      <4> HIDE DEF i
      <4> QED BY <2>2, <3>3, <3>5 DEF Inv, QInv
    <3>7. ASSUME NEW j \in Instances, Runnable(j)'
          PROVE  \/ queue'[j].ready > 0
                 \/ /\ queue'[j].claim # None
                    /\ ~(/\ sched'[queue'[j].claim].cur = j
                         /\ sched'[queue'[j].claim].drained = "ok")
      <4>1. Runnable(j)
        BY <1>1, <3>7 DEF Runnable
      <4>2. CASE j = i
        BY <3>3, <3>4, <3>6, <4>1, <4>2
      <4>3. CASE j # i
        <5>1. queue'[j] = queue[j] /\ queue[j].claim \in Owners
          BY <3>5, <4>3 DEF Inv, QInv, QueueRows
        <5> QED BY <1>3, <4>1, <5>1 DEF Inv, QInv, RunnableIsQueued, Quiet, Owners
      <4> QED BY <4>2, <4>3
    <3> QED BY <3>6, <3>7 DEF QInv, RunnableIsQueued
  <2> QED BY <2>1, <2>2
<1> QED BY <1>3, <1>4, <1>5 DEF Inv

LEMMA RestartInv ==
  ASSUME Inv, NEW s \in Schedulers, Restart(s)
  PROVE  Inv'
<1>1. SInv' /\ Quiet
  BY IdleCalm, CalmStep DEF Restart, Inv
<1> QED BY <1>1, ProcessStep DEF Restart

LEMMA CrashInv ==
  ASSUME Inv, NEW s \in Schedulers, Crash(s)
  PROVE  Inv'
<1>1. SInv' /\ Quiet
  BY IdleCalm, CalmStep DEF Crash, Inv
<1> QED BY <1>1, ProcessStep DEF Crash

----------------------------------------------------------------------------
(* Time and the disturbances.                                              *)

LEMMA TimerTimeInv ==
  ASSUME Inv, NEW x \in Ids, TimerDue(x) \/ TimerLapse(x)
  PROVE  Inv'
<1>1. UNCHANGED <<inst, effect, queue, sched>>
  BY DEF TimerDue, TimerLapse
<1>2. SInv' /\ Quiet
  BY <1>1, SameProcesses DEF Inv
<1>3. timer[x] \in TimerRows
  BY DEF Inv, RInv
<1>4. CASE TimerDue(x)
  <2>1. timer[x].state = "armed" /\ timer' = [timer EXCEPT ![x].due = TRUE]
    BY <1>4 DEF TimerDue
  <2>2. timer' \in [Ids -> TimerRows]
    BY <1>3, <2>1 DEF Inv, RInv, TimerRows
  <2>3. \A y \in Ids : /\ timer'[y].state = timer[y].state
                       /\ timer[y].state # "armed" => timer'[y] = timer[y]
    BY <1>3, <2>1 DEF Inv, RInv, TimerRows
  <2>4. RInv'
    BY <1>1, <2>2, <2>3, TimerTouch DEF Inv
  <2> QED BY <1>1, <1>2, <2>4, SameQueue DEF Inv, Runnable
<1>5. CASE TimerLapse(x)
  <2>1. timer[x].live /\ timer' = [timer EXCEPT ![x].live = FALSE]
    BY <1>5 DEF TimerLapse
  <2>2. timer' \in [Ids -> TimerRows]
    BY <1>3, <2>1 DEF Inv, RInv, TimerRows
  <2>3. \A y \in Ids : timer'[y].state = timer[y].state /\ (y # x => timer'[y] = timer[y])
    BY <1>3, <2>1 DEF Inv, RInv, TimerRows
  <2>4. timer[x].state = "armed"
    BY <2>1 DEF Inv, RInv, RowOK
  <2>5. RInv'
    BY <1>1, <2>2, <2>3, <2>4, TimerTouch DEF Inv
  <2> QED BY <1>1, <1>2, <2>5, SameQueue DEF Inv, Runnable
<1> QED BY <1>4, <1>5

LEMMA EffectTimeInv ==
  ASSUME Inv, NEW x \in Ids, Backoff(x) \/ EffectLapse(x)
  PROVE  Inv'
<1>1. UNCHANGED <<inst, timer, queue, sched>>
  BY DEF Backoff, EffectLapse
<1>2. SInv' /\ Quiet
  BY <1>1, SameProcesses DEF Inv
<1>3. effect[x] \in EffectRows
  BY DEF Inv, RInv
<1>4. \/ effect[x].state = "pending" /\ effect' = [effect EXCEPT ![x] = [@ EXCEPT !.ripe = TRUE]]
      \/ effect[x].state = "dispatching" /\ effect' = [effect EXCEPT ![x] = [@ EXCEPT !.live = FALSE]]
  BY DEF Backoff, EffectLapse, Inv, RInv, RowOK
<1>5. /\ [effect[x] EXCEPT !.ripe = TRUE] \in EffectRows
      /\ [effect[x] EXCEPT !.ripe = TRUE].state = effect[x].state
      /\ [effect[x] EXCEPT !.ripe = TRUE].live = effect[x].live
      /\ [effect[x] EXCEPT !.live = FALSE] \in EffectRows
      /\ [effect[x] EXCEPT !.live = FALSE].state = effect[x].state
      /\ [effect[x] EXCEPT !.live = FALSE].live = FALSE
  BY <1>3 DEF EffectRows
<1>6. PICK r \in EffectRows : /\ effect' = [effect EXCEPT ![x] = r] /\ r.state = effect[x].state
                              /\ r.live => effect[x].live
  BY <1>4, <1>5 DEF Inv, RInv
<1>7. effect' \in [Ids -> EffectRows] /\ effect[x].state \in Open
  BY <1>4, <1>6 DEF Inv, RInv, Open
<1>8. \A y \in Ids : /\ effect[y].state = "none" => effect'[y] = effect[y]
                     /\ effect'[y].live => effect'[y].state = "dispatching"
                     /\ effect[y].state \in Open => effect'[y].state \in Open
  BY <1>6, <1>7 DEF Inv, RInv, RowOK, Open
<1>9. RInv'
  BY <1>1, <1>7, <1>8, EffectTouch DEF Inv
<1> QED BY <1>1, <1>2, <1>9, SameQueue DEF Inv, Runnable

LEMMA ActivationTimeInv ==
  ASSUME Inv, NEW i \in Instances, ActivationLapse(i) \/ ReclaimActivation(i)
  PROVE  Inv'
<1>1. UNCHANGED <<inst, timer, effect, sched>>
  BY DEF ActivationLapse, ReclaimActivation
<1>2. SInv' /\ Quiet
  BY <1>1, SameProcesses DEF Inv
<1>3. RInv'
  BY <1>1, TimerTouch DEF Inv, RInv
<1>4. queue[i] \in QueueRows /\ queue[i].ready \in 0 .. MaxReady
  BY DEF Inv, QInv, QueueRows
<1>5. [queue[i] EXCEPT !.live = FALSE] \in QueueRows
      /\ [queue[i] EXCEPT !.live = FALSE].ready = queue[i].ready
      /\ [queue[i] EXCEPT !.live = FALSE].claim = queue[i].claim
  BY <1>4 DEF QueueRows
<1>6. ReclaimedRow(i) \in QueueRows /\ ReclaimedRow(i).ready > 0
  BY <1>4, ReadyOK DEF ReclaimedRow, QueueRows, Owners
<1>7. PICK r \in QueueRows :
        /\ queue' = [queue EXCEPT ![i] = r]
        /\ r.ready > 0 \/ (r.ready = queue[i].ready /\ r.claim = queue[i].claim)
  BY <1>5, <1>6 DEF ActivationLapse, ReclaimActivation, Inv, QInv
<1>8. queue' \in [Instances -> QueueRows]
  BY <1>7 DEF Inv, QInv
<1>9. RunnableIsQueued'
  BY <1>1, <1>7 DEF Inv, QInv, RunnableIsQueued, Runnable
<1> QED BY <1>2, <1>3, <1>8, <1>9 DEF Inv, QInv

LEMMA HoldInv ==
  ASSUME Inv, NEW i \in Instances, Hold(i) \/ Unhold(i) \/ Quarantine(i)
  PROVE  Inv'
<1>1. UNCHANGED <<timer, effect, queue, sched>>
  BY DEF Hold, Unhold, Quarantine
<1>2. SInv' /\ Quiet
  BY <1>1, SameProcesses DEF Inv
<1>3. inst[i] \in InstRows
  BY DEF Inv, RInv
<1>4. \/ inst' = [inst EXCEPT ![i].held = TRUE]
      \/ inst' = [inst EXCEPT ![i].held = FALSE]
      \/ inst' = [inst EXCEPT ![i].quarantined = TRUE]
  BY DEF Hold, Unhold, Quarantine
<1> DEFINE Same(r) == /\ r \in InstRows /\ r.wait = inst[i].wait /\ r.pos = inst[i].pos
                      /\ r.state = inst[i].state
<1>5. /\ inst' \in [Instances -> InstRows]
      /\ \A j \in Instances : /\ inst'[j].wait = inst[j].wait /\ inst'[j].pos = inst[j].pos
                               /\ inst'[j].state = inst[j].state
  <2>1. /\ Same([inst[i] EXCEPT !.held = TRUE]) /\ Same([inst[i] EXCEPT !.held = FALSE])
        /\ Same([inst[i] EXCEPT !.quarantined = TRUE])
    BY <1>3 DEF InstRows
  <2> HIDE DEF Same
  <2>2. PICK r : Same(r) /\ inst' = [inst EXCEPT ![i] = r]
    BY <1>4, <2>1 DEF Inv, RInv
  <2> QED BY <2>2 DEF Same, Inv, RInv
<1>6. RInv'
  BY <1>1, <1>5, InstTouch DEF Inv
<1> QED BY <1>1, <1>2, <1>5, <1>6, SameQueue DEF Inv, Runnable

LEMMA CancelInv ==
  ASSUME Inv, NEW i \in Instances, Cancel(i)
  PROVE  Inv'
<1> DEFINE it == [inst[i] EXCEPT !.state = "Ended", !.wait = "gone"]
<1>1. /\ Commit(i, it) /\ timer' = CancelTimers({x \in Ids : x[1] = i})
      /\ UNCHANGED <<effect, sched>>
  BY DEF Cancel
<1>2. SInv' /\ Quiet
  BY <1>1, SameProcesses DEF Inv
<1>3. it \in InstRows /\ it.wait \notin Kinds /\ it.pos = inst[i].pos
  BY DEF Inv, RInv, InstRows, Waits, Kinds
<1> HIDE DEF it
<1>4. timer' \in [Ids -> TimerRows]
  BY <1>1, ClosedOK DEF CancelTimers, Inv, RInv
<1>5. \A x \in Ids : /\ timer'[x].state = "armed" => x[1] # i /\ timer'[x] = timer[x]
                     /\ timer'[x].live => timer'[x].state = "armed"
                     /\ timer[x].state # "armed" => timer'[x] = timer[x]
                     /\ x[1] # i => timer'[x] = timer[x]
  BY <1>1, ClosedOK DEF CancelTimers, Inv, RInv, RowOK
<1>6. /\ effect' \in [Ids -> EffectRows]
      /\ \A x \in Ids : effect'[x].live => effect'[x].state = "dispatching"
  BY <1>1 DEF Inv, RInv, RowOK
<1>7. inst' = [inst EXCEPT ![i] = it]
  BY <1>1 DEF Commit
<1>8. RInv'
  <2>1. \A x \in Ids : /\ timer'[x].state = "armed" => x[1] # i /\ timer'[x] = timer[x]
                       /\ timer'[x].live => timer'[x].state = "armed"
                       /\ timer[x].state # "armed" => timer'[x] = timer[x]
                       /\ effect[x].state = "none" => effect'[x] = effect[x]
                       /\ effect'[x].live => effect'[x].state = "dispatching"
                       /\ x[1] # i => timer'[x] = timer[x] /\ effect'[x] = effect[x]
    BY <1>1, <1>5, <1>6
  <2> QED BY <1>3, <1>4, <1>6, <1>7, <2>1, LeaveWait DEF Inv
<1>9. QInv'
  BY <1>1, <1>2, <1>3, CommitQueued DEF Inv, RInv
<1> QED BY <1>2, <1>8, <1>9 DEF Inv

----------------------------------------------------------------------------
(* The theorems.                                                           *)

LEMMA InvInit == Init => Inv
<1> SUFFICES ASSUME Init PROVE Inv
  OBVIOUS
<1>1. SInv
  BY IdleCalm DEF Init, SInv, Calm, ProcessOK
<1>2. RInv
  <2>1. NoTimer \in TimerRows /\ NoTimer.state = "none" /\ NoTimer.live = FALSE
    BY DEF NoTimer, TimerRows, Owners
  <2>2. NoEffect \in EffectRows /\ NoEffect.live = FALSE
    BY MaxAttemptsAssumption DEF NoEffect, EffectRows, Owners
  <2>3. inst \in [Instances -> InstRows] /\ \A i \in Instances : inst[i].wait = "Running"
    BY DEF Init, InstRows, Waits
  <2>4. timer \in [Ids -> TimerRows] /\ effect \in [Ids -> EffectRows]
    BY <2>1, <2>2 DEF Init
  <2>5. \A i \in Instances : InstOK(i)
    BY <2>3 DEF InstOK, Kinds
  <2>6. \A x \in Ids : timer[x] = NoTimer /\ effect[x] = NoEffect
    BY DEF Init
  <2>7. \A x \in Ids : RowOK(x)
    BY <2>1, <2>2, <2>6 DEF RowOK
  <2>8. WaitsAreServed
    BY <2>3 DEF WaitsAreServed
  <2> QED BY <2>3, <2>4, <2>5, <2>7, <2>8 DEF RInv
<1>3. QInv
  BY MaxReadyAssumption DEF Init, QInv, QueueRows, Owners, RunnableIsQueued
<1> QED BY <1>1, <1>2, <1>3 DEF Inv

LEMMA InvStep == Inv /\ [Next]_vars => Inv'
<1> SUFFICES ASSUME Inv, [Next]_vars PROVE Inv'
  OBVIOUS
<1>1. ASSUME NEW s \in Schedulers, Step(s) PROVE Inv'
  BY <1>1, ClaimTimersInv, FireTimerInv, ClaimEffectsInv, CallInv, RecordInv, LoadResponsesInv,
     ApplyResponseInv, ClaimActivationsInv, TickInv, FinishInv, RestartInv, DetectInv DEF Step
<1>2. ASSUME NEW s \in Schedulers, Crash(s) PROVE Inv'
  BY <1>2, CrashInv
<1>3. CASE Time
  BY <1>3, TimerTimeInv, EffectTimeInv, ActivationTimeInv, HoldInv DEF Time
<1>4. ASSUME NEW i \in Instances, Hold(i) \/ Cancel(i) \/ Quarantine(i) PROVE Inv'
  BY <1>4, HoldInv, CancelInv
<1>5. CASE UNCHANGED vars
  <2>1. UNCHANGED <<inst, timer, effect, queue, sched>>
    BY <1>5 DEF vars
  <2>2. SInv' /\ Quiet
    BY <2>1, SameProcesses DEF Inv
  <2> QED BY <2>1, <2>2, ProcessStep
<1> QED BY <1>1, <1>2, <1>3, <1>4, <1>5 DEF Next

\* Every row and every process stays within its states, whatever crashes or
\* is cancelled: in particular RetryPolicy::decision bounds the attempts of
\* an effect through every retry and every takeover of its row.
THEOREM TypeCorrect == Spec => []TypeOK
<1>1. Inv => TypeOK
  BY DEF Inv, SInv, RInv, QInv, TypeOK
<1> QED BY <1>1, InvInit, InvStep, PTL DEF Spec

\* The activation queue loses no runnable instance, for any number of
\* processes, lapsed leases and crashes: consume_activation is guarded by the
\* claim, and commit_transition enqueues whatever it leaves running.
THEOREM NoRunnableLost == Spec => []RunnableIsQueued
<1>1. Inv => RunnableIsQueued
  BY DEF Inv, QInv
<1> QED BY <1>1, InvInit, InvStep, PTL DEF Spec

\* Every parked fibre keeps the open timer or effect that is to wake it.
THEOREM ParkedIsServed == Spec => []WaitsAreServed
<1>1. Inv => WaitsAreServed
  BY DEF Inv, RInv
<1> QED BY <1>1, InvInit, InvStep, PTL DEF Spec

\* A timer wait ends by its own timer only, although apply_timer compares
\* deadlines: an armed timer belongs to the wait its instance is in.
THEOREM OwnTimerWakes == Spec => WokenByOwnTimer
<1>1. Inv /\ [Next]_vars => [\A i \in Instances : WokenStep(i)]_vars
  <2> SUFFICES ASSUME Inv, Next, NEW i \in Instances,
                      inst[i].wait = "timer", inst'[i].wait = "Running"
               PROVE  LET x == <<i, inst[i].pos>> IN
                        timer[x].state = "armed" /\ timer'[x].state = "consumed"
    BY DEF vars, WokenStep
  <2> DEFINE x == <<i, inst[i].pos>>
  <2>1. timer[x].state = "armed" /\ x \in Ids
    BY IdsFacts DEF Inv, RInv, WaitsAreServed, InstOK, Kinds
  <2>2. inst \in [Instances -> InstRows]
    BY DEF Inv, RInv
  <2>3. ASSUME NEW s \in Schedulers, FireTimer(s)
        PROVE  timer'[x].state = "consumed"
    <3>1. PICK y \in sched[s].batch :
            /\ OwnsTimer(s, y) /\ timer' = [timer EXCEPT ![y] = Closed("consumed")]
            /\ inst' = [inst EXCEPT ![y[1]] = inst'[y[1]]]
      BY <2>2, <2>3 DEF FireTimer, Commit
    <3>2. y \in Ids /\ y[1] \in Instances /\ timer[y].state = "armed"
      BY <3>1, IdsFacts DEF OwnsTimer, Inv, SInv, Processes
    <3>3. y[1] = i
      BY <2>2, <3>1, <3>2
    <3>4. y = x
      BY <3>2, <3>3, IdsFacts DEF Inv, RInv, RowOK
    <3> QED BY <2>1, <3>1, <3>4, ClosedOK DEF Inv, RInv
  <2>4. ASSUME NEW s \in Schedulers, ApplyResponse(s) \/ Detect(s)
        PROVE  FALSE
    <3>1. PICK y \in sched[s].batch : Complete(y) \/ Fail(y) \/ UNCHANGED inst
      BY <2>4 DEF ApplyResponse, Detect, Apply
    <3>2. y[1] \in Instances /\ inst[y[1]] \in InstRows
      BY <2>2, IdsFacts DEF Inv, SInv, Processes
    <3>3. inst[y[1]].wait = "timer" => inst'[y[1]].wait = "timer"
      BY <2>2, <3>1, <3>2 DEF Complete, Fail, Wins, Parked, Commit
    <3>4. y[1] # i => inst'[i] = inst[i]
      BY <2>2, <3>1, <3>2 DEF Complete, Fail, Commit
    <3> QED BY <3>3, <3>4
  <2>5. ASSUME NEW s \in Schedulers, Tick(s)
        PROVE  FALSE
    <3>1. PICK j : UNCHANGED inst \/ (Runnable(j) /\ Arm(j))
      BY <2>5 DEF Tick
    <3>2. j # i \/ UNCHANGED inst
      BY <3>1 DEF Runnable
    <3> QED BY <2>2, <3>1, <3>2 DEF Arm, Commit
  <2>6. ASSUME NEW j \in Instances, Cancel(j) \/ Hold(j) \/ Quarantine(j) \/ Unhold(j)
        PROVE  FALSE
    <3>1. inst[j] \in InstRows
      BY <2>2
    <3>2. inst'[j].wait \in {inst[j].wait, "gone"} /\ (j # i => inst'[i] = inst[i])
      BY <2>2, <2>6, <3>1 DEF Cancel, Hold, Quarantine, Unhold, Commit, InstRows
    <3> QED BY <3>2
  <2>7. ASSUME NEW s \in Schedulers,
               \/ ClaimTimers(s) \/ ClaimEffects(s) \/ Call(s) \/ Record(s) \/ LoadResponses(s)
               \/ ClaimActivations(s) \/ Finish(s) \/ Restart(s) \/ Crash(s)
        PROVE  FALSE
    BY <2>7 DEF ClaimTimers, ClaimEffects, Call, Record, LoadResponses, ClaimActivations, Finish,
                Restart, Crash
  <2>8. ASSUME NEW y \in Ids, TimerDue(y) \/ Backoff(y) \/ TimerLapse(y) \/ EffectLapse(y)
        PROVE  FALSE
    BY <2>8 DEF TimerDue, Backoff, TimerLapse, EffectLapse
  <2>9. ASSUME NEW j \in Instances, ActivationLapse(j) \/ ReclaimActivation(j)
        PROVE  FALSE
    BY <2>9 DEF ActivationLapse, ReclaimActivation
  <2> HIDE DEF x
  <2>10. timer'[x].state = "consumed"
    BY <2>3, <2>4, <2>5, <2>6, <2>7, <2>8, <2>9 DEF Next, Step, Time
  <2> QED BY <2>1, <2>10 DEF x
<1> QED BY <1>1, InvInit, InvStep, PTL DEF Spec, WokenByOwnTimer

\* The first answer on record stands: a dispatcher that lost its claim never
\* replaces it (record_effect_response is guarded by the claim), and a settled
\* effect never changes again.
THEOREM FirstAnswerIsFinal == Spec => FirstAnswerStands
<1>1. Inv /\ [Next]_vars => [\A x \in Ids : AnswerStep(x)]_vars
  <2> SUFFICES ASSUME Inv, Next, NEW x \in Ids PROVE AnswerStep(x)
    BY DEF vars
  <2>0. effect \in [Ids -> EffectRows] /\ effect[x] \in EffectRows
    BY DEF Inv, RInv
  <2>1. effect'[x] = effect[x] => AnswerStep(x)
    BY DEF AnswerStep
  <2>2. ASSUME NEW s \in Schedulers, ClaimEffects(s) PROVE AnswerStep(x)
    <3>1. effect[x].state \in {"accepted", "completed", "failed"} => effect'[x] = effect[x]
      BY <2>2 DEF ClaimEffects, Claimable
    <3> QED BY <3>1 DEF AnswerStep
  <2>3. ASSUME NEW s \in Schedulers, Record(s) PROVE AnswerStep(x)
    <3>1. PICK y, r : \/ UNCHANGED effect
                      \/ OwnsEffect(s, y) /\ effect' = [effect EXCEPT ![y] = r]
      BY <2>3 DEF Record
    <3>2. effect[x].state \in {"accepted", "completed", "failed"} => effect'[x] = effect[x]
      BY <2>0, <3>1 DEF OwnsEffect
    <3> QED BY <3>2 DEF AnswerStep
  <2>4. ASSUME NEW s \in Schedulers, ApplyResponse(s) \/ Detect(s) PROVE AnswerStep(x)
    <3>1. PICK y \in sched[s].batch, failed \in BOOLEAN :
            \/ UNCHANGED effect
            \/ CanApply(y, failed) /\ IF failed THEN Fail(y) ELSE Complete(y)
      BY <2>4 DEF ApplyResponse, Detect, Apply
    <3>2. y \in Ids
      BY DEF Inv, SInv, Processes
    <3>3. \/ UNCHANGED effect
          \/ /\ effect[y].state = "accepted"
             /\ \E state \in {"completed", "failed"}, logged \in BOOLEAN : Settle(y, state, logged)
      BY <3>1 DEF CanApply, Fail, Complete
    <3>4. CASE UNCHANGED effect
      BY <2>1, <3>4
    <3>5. ASSUME effect[y].state = "accepted",
                 NEW state \in {"completed", "failed"}, NEW logged \in BOOLEAN,
                 Settle(y, state, logged)
          PROVE  AnswerStep(x)
      <4>1. y # x => effect'[x] = effect[x]
        BY <2>0, <3>2, <3>5 DEF Settle
      <4>2. y = x => /\ effect'[x].state = state /\ effect'[x].response = effect[x].response
        BY <2>0, <3>5 DEF Settle, EffectRows
      <4> QED BY <2>1, <3>5, <4>1, <4>2 DEF AnswerStep
    <3> QED BY <3>3, <3>4, <3>5
  <2>5. ASSUME NEW s \in Schedulers, Tick(s) PROVE AnswerStep(x)
    <3>1. sched[s] \in Processes
      BY DEF Inv, SInv
    <3>2. PICK i : UNCHANGED effect \/ (i \in Instances /\ Arm(i))
      BY <2>5, <3>1 DEF Tick, Processes
    <3>3. CASE i \in Instances /\ Arm(i)
      <4> DEFINE y == <<i, inst[i].pos + 1>>
      <4>1. PICK r : effect' = [effect EXCEPT ![y] = r] \/ UNCHANGED effect
        BY <3>3 DEF Arm
      <4>2. x = y => effect[x].state = "none"
        <5>1. inst[i].pos \in Nat
          BY <3>3 DEF Inv, RInv, InstRows
        <5>2. x = y => x[1] = i /\ x[2] > inst[i].pos
          BY <5>1
        <5> QED BY <5>2 DEF Inv, RInv, RowOK, NoEffect
      <4> HIDE DEF y
      <4> QED BY <2>0, <2>1, <4>1, <4>2 DEF AnswerStep
    <3> QED BY <2>1, <3>2, <3>3
  <2>6. ASSUME NEW y \in Ids, Backoff(y) \/ EffectLapse(y) PROVE AnswerStep(x)
    <3>1. effect[y].state \in {"pending", "dispatching"}
      BY <2>6 DEF Backoff, EffectLapse, Inv, RInv, RowOK
    <3>2. x # y => effect'[x] = effect[x]
      BY <2>0, <2>6 DEF Backoff, EffectLapse
    <3> QED BY <2>1, <3>1, <3>2 DEF AnswerStep
  <2>7. ASSUME NEW s \in Schedulers,
               \/ ClaimTimers(s) \/ FireTimer(s) \/ Call(s) \/ LoadResponses(s)
               \/ ClaimActivations(s) \/ Finish(s) \/ Restart(s) \/ Crash(s)
        PROVE  AnswerStep(x)
    BY <2>1, <2>7 DEF ClaimTimers, FireTimer, Call, LoadResponses, ClaimActivations, Finish,
                      Restart, Crash
  <2>8. ASSUME NEW y \in Ids, TimerDue(y) \/ TimerLapse(y) PROVE AnswerStep(x)
    BY <2>1, <2>8 DEF TimerDue, TimerLapse
  <2>9. ASSUME NEW i \in Instances,
               \/ ActivationLapse(i) \/ ReclaimActivation(i) \/ Unhold(i)
               \/ Hold(i) \/ Cancel(i) \/ Quarantine(i)
        PROVE  AnswerStep(x)
    BY <2>1, <2>9 DEF ActivationLapse, ReclaimActivation, Unhold, Hold, Cancel, Quarantine
  <2> QED BY <2>2, <2>3, <2>4, <2>5, <2>6, <2>7, <2>8, <2>9 DEF Next, Step, Time
<1> QED BY <1>1, InvInit, InvStep, PTL DEF Spec, FirstAnswerStands
=============================================================================
