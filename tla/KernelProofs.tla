---------------------------- MODULE KernelProofs ----------------------------
(***************************************************************************)
(* What holds of the fibre machine whatever the program: theorems for any  *)
(* set of workflows that the verifier admits, any code, any messages and   *)
(* any order of commands.                                                  *)
(***************************************************************************)
EXTENDS Kernel, KernelFrames

(* How long the provers may take.                                          *)
USE SMTT(10), ZenonT(30)

(* A frame of records, in which no call that is open has been answered.    *)
TimersOK(ts) ==
    \A t \in DOMAIN ts : ts[t] = [x \in TimerFields |-> ts[t][x]]

EffectsOK(es) ==
    \A e \in DOMAIN es :
        /\ es[e] = [x \in EffectFields |-> es[e][x]]
        /\ es[e].state = "open" => es[e].answer \notin Answers

Shaped(F) ==
    /\ F = [x \in Fields |-> F[x]]
    /\ F.inst = [x \in InstFields |-> F.inst[x]]
    /\ TimersOK(F.timers)
    /\ EffectsOK(F.effects)

(* An ended instance has nothing left that could wake it.                  *)
Idle(F) ==
    /\ F.fibers = <<>> /\ F.jobs = <<>>
    /\ \A t \in DOMAIN F.timers : ~F.timers[t].armed

Closed(F) == F.inst.state \in Terminal => Idle(F)

Shape == inst.workflow \in Admitted /\ Shaped(Frame)

Inv == Shape /\ Closed(Frame)

-----------------------------------------------------------------------------
(* The words.                                                              *)

(* G differs from F in what this module does not look at.                  *)
Light(F, G) ==
    /\ G = [x \in Fields |-> G[x]]
    /\ G.inst = F.inst /\ G.timers = F.timers
    /\ G.effects = F.effects /\ G.dedupe = F.dedupe

(* A step inside a transition: the instance does not end, no completion is *)
(* recorded and no call is answered.                                       *)
Keeps(es, gs) == \A e \in DOMAIN es : e \in DOMAIN gs /\ gs[e] = es[e]

Moved(F, G) ==
    /\ Shaped(G)
    /\ G.inst.workflow = F.inst.workflow
    /\ G.inst.state \in {F.inst.state, "Incidented"}
    /\ G.dedupe = F.dedupe
    /\ Keeps(F.effects, G.effects)

LEMMA LightMoves ==
    ASSUME NEW F, NEW G, Shaped(F), Light(F, G) PROVE Moved(F, G)
  BY DEF Shaped, Light, Moved, Keeps

LEMMA MovedOn ==
    ASSUME NEW F, NEW G, NEW H, Moved(F, G), Moved(G, H) PROVE Moved(F, H)
  BY DEF Moved, Keeps

LEMMA LightGoto ==
    ASSUME NEW F, NEW f, NEW addr, Shaped(F) PROVE Light(F, Goto(F, f, addr))
  BY DEF Shaped, Light, Goto, Fields

LEMMA LightAdvance ==
    ASSUME NEW F, NEW f, Shaped(F) PROVE Light(F, Advance(F, f))
  BY LightGoto DEF Advance

LEMMA LightRefuse ==
    ASSUME NEW F, NEW why, Shaped(F) PROVE Light(F, Refuse(F, why))
  BY DEF Shaped, Light, Refuse, Fields

LEMMA LightPark ==
    ASSUME NEW F, NEW f, NEW wait, Shaped(F) PROVE Light(F, Park(F, f, wait))
  BY ZenonT(30) DEF Shaped, Light, Park, Fields

LEMMA LightPop ==
    ASSUME NEW F, NEW f, Shaped(F) PROVE Light(F, Pop(F, f))
  BY DEF Shaped, Light, Pop, Fields

LEMMA GotoMoves ==
    ASSUME NEW F, NEW f, NEW addr, Shaped(F) PROVE Moved(F, Goto(F, f, addr))
  BY LightGoto, LightMoves

(* A word that moves the frame and then goes on, or parks.                 *)
LEMMA ThenAdvance ==
    ASSUME NEW F, NEW G, NEW f, Moved(F, G) PROVE Moved(F, Advance(G, f))
  BY LightAdvance, LightMoves, MovedOn DEF Moved

LEMMA ThenPark ==
    ASSUME NEW F, NEW G, NEW f, NEW wait, Moved(F, G)
    PROVE  Moved(F, Park(G, f, wait))
  BY LightPark, LightMoves, MovedOn DEF Moved

LEMMA MovedSame == ASSUME NEW F, Shaped(F) PROVE Moved(F, F)
  BY DEF Moved, Keeps

LEMMA IncidentMoves ==
    ASSUME NEW F, NEW f, Shaped(F) PROVE Moved(F, RaiseIncident(F, f))
  BY Zenon DEF Shaped, Moved, Keeps, RaiseIncident, Fields, InstFields

LEMMA CompletionMoves ==
    ASSUME NEW F, NEW c, Shaped(F) PROVE Moved(F, ApplyCompletion(F, c))
  BY Zenon DEF Shaped, Moved, Keeps, ApplyCompletion, Fields, InstFields

LEMMA RestoreMoves ==
    ASSUME NEW F, NEW saved, Shaped(F) PROVE Moved(F, Restore(F, saved))
  BY Zenon DEF Shaped, Moved, Keeps, Restore, Fields, InstFields

LEMMA ConsumeMoves ==
    ASSUME NEW F, NEW m, Shaped(F) PROVE Moved(F, Consume(F, m))
  BY ZenonT(30) DEF Shaped, Moved, Keeps, Consume, Fields, InstFields

LEMMA UnwindMoves ==
    ASSUME NEW F, NEW r, NEW fs, Shaped(F) PROVE Moved(F, Unwind(F, r, fs))
  <1>1. Light(F, Unwind(F, r, fs))
    BY ZenonT(30) DEF Shaped, Light, Unwind, Fields
  <1> QED
    BY <1>1, LightMoves

LEMMA ScheduleMoves ==
    ASSUME NEW F, NEW f, NEW kind, NEW rec, NEW target, NEW left, Shaped(F)
    PROVE  Moved(F, Schedule(F, f, kind, rec, target, left))
  <1> DEFINE t == <<f, F.fibers[f].pc>>
             row == [kind |-> kind, rec |-> rec, target |-> target,
                     left |-> left, armed |-> TRUE]
             G == [F EXCEPT !.timers = Put(@, t, row)]
  <1>1. Moved(F, G)
    <2>1. /\ G = [x \in Fields |-> G[x]] /\ G.inst = F.inst
          /\ G.effects = F.effects /\ G.dedupe = F.dedupe
          /\ G.timers = Put(F.timers, t, row)
      BY DEF Shaped, Fields
    <2>2. row = [x \in TimerFields |-> row[x]]
      BY DEF TimerFields
    <2>3. TimersOK(Put(F.timers, t, row))
      <3> HIDE DEF t, row
      <3> QED
        BY <2>2, ZenonT(30) DEF Shaped, TimersOK, Put
    <2> HIDE DEF G
    <2> QED
      BY <2>1, <2>3 DEF Shaped, Moved, Keeps
  <1>2. Moved(F, Refuse(F, "collision"))
    BY LightRefuse, LightMoves
  <1>3. Moved(F, F)
    BY MovedSame
  <1>4. Schedule(F, f, kind, rec, target, left) \in {G, F, Refuse(F, "collision")}
    BY DEF Schedule
  <1> QED
    BY <1>1, <1>2, <1>3, <1>4

LEMMA RequestMoves ==
    ASSUME NEW F, NEW f, Shaped(F) PROVE Moved(F, Request(F, f))
  <1> DEFINE e == <<f, F.fibers[f].pc>>
             row == [input |-> F.inst.payload, state |-> "open",
                     answer |-> "none"]
             G == [F EXCEPT !.effects = Put(@, e, row)]
  <1>1. ASSUME e \notin DOMAIN F.effects PROVE Moved(F, G)
    <2>1. /\ G = [x \in Fields |-> G[x]] /\ G.inst = F.inst
          /\ G.timers = F.timers /\ G.dedupe = F.dedupe
          /\ G.effects = Put(F.effects, e, row)
      BY DEF Shaped, Fields
    <2>2. /\ row = [x \in EffectFields |-> row[x]]
          /\ row.answer \notin Answers
      BY DEF EffectFields, Answers
    <2>3. /\ EffectsOK(Put(F.effects, e, row))
          /\ Keeps(F.effects, Put(F.effects, e, row))
      <3> HIDE DEF e, row
      <3> QED
        BY <1>1, <2>2, ZenonT(30) DEF Shaped, EffectsOK, Keeps, Put
    <2> HIDE DEF G
    <2> QED
      BY <2>1, <2>3 DEF Shaped, Moved
  <1>2. Moved(F, Refuse(F, "collision"))
    BY LightRefuse, LightMoves
  <1>3. Moved(F, F)
    BY MovedSame
  <1>4. \/ e \notin DOMAIN F.effects /\ Request(F, f) = G
        \/ Request(F, f) \in {F, Refuse(F, "collision")}
    BY DEF Request
  <1> QED
    BY <1>1, <1>2, <1>3, <1>4

(* Every word but the two that may end the instance moves the frame.       *)
LEMMA BranchWords ==
    ASSUME NEW F, NEW f, NEW i, Shaped(F)
    PROVE  /\ Moved(F, Jump(F, f, i)) /\ Moved(F, BrIf(F, f, i))
           /\ Moved(F, BrCounterLt(F, f, i)) /\ Moved(F, IncCounter(F, f, i))
           /\ Moved(F, Fail(F, f, i)) /\ Moved(F, RoutePayload(F, f, i))
  <1>1. Moved(F, Advance(F, f))
    BY MovedSame, ThenAdvance
  <1>2. Moved(F, IncCounter(F, f, i))
    <2> DEFINE G == [F EXCEPT !.inst.counters[i.counter] = @ + 1,
                              !.fibers[f].epoch = @ + 1]
    <2>1. Moved(F, G)
      BY ZenonT(30) DEF Shaped, Moved, Keeps, Fields, InstFields
    <2> HIDE DEF G
    <2>2. Moved(F, Advance(G, f))
      BY <2>1, ThenAdvance
    <2> QED
      BY <2>2 DEF IncCounter, G
  <1>3. Moved(F, RoutePayload(F, f, i))
    BY GotoMoves, IncidentMoves DEF RoutePayload
  <1> QED
    BY <1>1, <1>2, <1>3, GotoMoves, IncidentMoves
       DEF Jump, BrIf, BrCounterLt, Fail

LEMMA ConditionWords ==
    ASSUME NEW F, NEW f, NEW i, Shaped(F)
    PROVE  /\ Moved(F, BrIfNot(F, f, i)) /\ Moved(F, MiArityCheck(F, f, i))
           /\ Moved(F, MiIndexLive(F, f, i)) /\ Moved(F, MiLoadElement(F, f, i))
  <1>1. Moved(F, Advance(F, f))
    BY MovedSame, ThenAdvance
  <1>2. \A why : Moved(F, Refuse(F, why))
    BY LightRefuse, LightMoves
  <1> QED
    BY <1>1, <1>2, GotoMoves
       DEF BrIfNot, MiArityCheck, MiIndexLive, MiLoadElement

LEMMA TaskWords ==
    ASSUME NEW F, NEW f, NEW i, Shaped(F)
    PROVE  Moved(F, ExecNative(F, f, i)) /\ Moved(F, ExecDslTask(F, f, i))
  <1> DEFINE k == <<F.fibers[f].pc, F.fibers[f].epoch>>
             G == ExecNative(F, f, i)
             H == [G EXCEPT !.inst.placeholders =
                                Put(@, i.produces, F.dedupe[k].value)]
  <1>1. Moved(F, Advance(ApplyCompletion(F, F.dedupe[k]), f))
    BY CompletionMoves, ThenAdvance
  <1>2. Light(F, Enqueue(F, k))
    BY DEF Shaped, Light, Enqueue, Fields
  <1>3. Moved(F, Park(Enqueue(F, k), f, Waiting("Job", k)))
    BY <1>2, LightMoves, ThenPark
  <1>4. Moved(F, G)
    BY <1>1, <1>3, SMTT(30) DEF ExecNative
  <1> HIDE DEF G
  <1>5. Moved(G, H)
    <2>1. Shaped(G)
      BY <1>4 DEF Moved
    <2> QED
      BY <2>1, ZenonT(30) DEF Shaped, Moved, Keeps, Fields, InstFields
  <1>6. Moved(F, H)
    BY <1>4, <1>5, MovedOn
  <1>7. ExecDslTask(F, f, i) \in {G, H}
    BY DEF ExecDslTask, G
  <1> QED
    BY <1>4, <1>6, <1>7 DEF G

LEMMA ScopeMoves ==
    ASSUME NEW F, NEW f, NEW i, Shaped(F)
    PROVE  /\ Moved(F, Guard(F, f, i)) /\ Moved(F, GuardN(F, f, i))
           /\ Moved(F, GuardR(F, f, i)) /\ Moved(F, RaceOpen(F, f, i))
           /\ Moved(F, GuardEnd(F, f, i)) /\ Moved(F, GuardNEnd(F, f, i))
           /\ Moved(F, GuardREnd(F, f, i)) /\ Moved(F, GuardArmError(F, f, i))
           /\ Moved(F, CancelScope(F, f, i))
  <1>1. ASSUME NEW G, Moved(F, G), NEW record
        PROVE  Moved(F, Open(G, f, record))
    <2> DEFINE r == Fresh(G, 1)[1]
               H == [G EXCEPT !.records = Put(@, r, record),
                              !.fibers[f].stack = Append(@, r)]
    <2>1. Shaped(G)
      BY <1>1 DEF Moved
    <2>2. Light(G, H)
      BY <2>1, ZenonT(30) DEF Shaped, Light, Fields
    <2> HIDE DEF H
    <2>3. Moved(F, H)
      BY <1>1, <2>1, <2>2, LightMoves, MovedOn
    <2>4. Moved(F, Advance(H, f))
      BY <2>3, ThenAdvance
    <2> QED
      BY <2>4, SMTT(30) DEF Open, H
  <1>2. Moved(F, F)
    BY MovedSame
  <1>3. Moved(F, RaceOpen(F, f, i))
    <2>1. Light(F, [F EXCEPT !.arms = {}])
      BY DEF Shaped, Light, Fields
    <2> QED
      BY <1>1, <2>1, LightMoves DEF RaceOpen
  <1>4. Moved(F, Advance([Pop(F, f) EXCEPT !.records = Without(@, {Top(F, f)})], f))
    <2> DEFINE P == Pop(F, f)
               H == [P EXCEPT !.records = Without(@, {Top(F, f)})]
    <2>1. Moved(F, P)
      BY LightPop, LightMoves
    <2> HIDE DEF P
    <2>2. Shaped(P)
      BY <2>1 DEF Moved
    <2>3. Light(P, H)
      BY <2>2 DEF Shaped, Light, Fields
    <2> HIDE DEF H
    <2>4. Moved(F, H)
      BY <2>1, <2>2, <2>3, LightMoves, MovedOn
    <2>5. Moved(F, Advance(H, f))
      BY <2>4, ThenAdvance
    <2> QED
      BY <2>5 DEF H, P
  <1>5. Moved(F, GuardArmError(F, f, i))
    <2> DEFINE r == Top(F, f)
               H == [F EXCEPT !.records[r].routes =
                        IF i.code \in DOMAIN @ THEN @
                        ELSE Put(@, i.code, i.handler)]
    <2>1. Light(F, H)
      BY ZenonT(30) DEF Shaped, Light, Fields
    <2>2. Moved(F, Advance(H, f))
      <3> HIDE DEF H
      <3> QED
        BY <2>1, LightMoves, ThenAdvance
    <2>3. Moved(F, Refuse(F, "handle"))
      BY LightRefuse, LightMoves
    <2> QED
      BY <2>2, <2>3, SMTT(30) DEF GuardArmError
  <1>6. Moved(F, CancelScope(F, f, i))
    <2> DEFINE r == Top(F, f)
               P == Pop(F, f)
               U == Unwind(P, r, Holders(F, r) \ {f})
               R == Restore(U, F.records[r].saved)
    <2>1. Moved(F, P)
      BY LightPop, LightMoves
    <2> HIDE DEF P
    <2>2. Moved(F, U)
      BY <2>1, UnwindMoves, MovedOn, SMTT(30) DEF Moved
    <2> HIDE DEF U
    <2>3. Moved(F, R)
      BY <2>2, RestoreMoves, MovedOn DEF Moved
    <2> HIDE DEF R
    <2>4. Moved(F, Advance(R, f))
      BY <2>3, ThenAdvance
    <2>5. Moved(F, Refuse(F, "handle"))
      BY LightRefuse, LightMoves
    <2> QED
      BY <2>4, <2>5 DEF CancelScope, R, U, P
  <1> QED
    BY <1>1, <1>2, <1>3, <1>4, <1>5, <1>6
       DEF Guard, GuardN, GuardR, GuardEnd, GuardNEnd, GuardREnd

LEMMA BarrierWords ==
    ASSUME NEW F, NEW f, NEW i, Shaped(F)
    PROVE  Moved(F, Fork(F, f, i)) /\ Moved(F, Join(F, f, i))
  <1>1. Light(F, Fork(F, f, i))
    BY ZenonT(30) DEF Shaped, Light, Fork, Fields
  <1>2. Moved(F, Join(F, f, i))
    <2> DEFINE r == Top(F, f)
               P == Pop(F, f)
               others == F.records[r].members \ {f}
               A == [P EXCEPT !.records[r].count = @ - 1]
               B == [P EXCEPT
                        !.fibers = Without(@, others),
                        !.records = Expel(Without(@, {r}), F.fibers, others)]
    <2>1. Moved(F, P)
      BY LightPop, LightMoves
    <2> HIDE DEF P
    <2>2. Shaped(P)
      BY <2>1 DEF Moved
    <2>3. Light(P, A) /\ Light(P, B)
      BY <2>2, ZenonT(30) DEF Shaped, Light, Fields
    <2> HIDE DEF A, B
    <2>4. Moved(F, A) /\ Moved(F, B)
      BY <2>1, <2>2, <2>3, LightMoves, MovedOn
    <2>5. Moved(F, Park(A, f, Waiting("Barrier", <<r>>))) /\ Moved(F, Advance(B, f))
      BY <2>4, ThenPark, ThenAdvance
    <2>6. Moved(F, Refuse(F, "handle"))
      BY LightRefuse, LightMoves
    <2>7. Join(F, f, i) \in {Refuse(F, "handle"), Advance(B, f),
                             Park(A, f, Waiting("Barrier", <<r>>))}
      BY DEF Join, A, B, P
    <2> QED
      BY <2>5, <2>6, <2>7
  <1> QED
    BY <1>1, <1>2, LightMoves, SMTT(30)

LEMMA RaceWords ==
    ASSUME NEW F, NEW f, NEW i, Shaped(F)
    PROVE  /\ Moved(F, ArmTimer(F, f, i)) /\ Moved(F, ArmMsg(F, f, i))
           /\ Moved(F, ArmEffect(F, f, i)) /\ Moved(F, RaceClose(F, f, i))
  <1>1. Moved(F, ArmTimer(F, f, i))
    BY ScheduleMoves, ThenAdvance DEF ArmTimer
  <1>2. ASSUME NEW G, Moved(F, G), NEW arm
        PROVE  Moved(F, Advance([G EXCEPT !.arms = @ \cup {arm}], f))
    <2> DEFINE H == [G EXCEPT !.arms = @ \cup {arm}]
    <2>1. Shaped(G)
      BY <1>2 DEF Moved
    <2>2. Light(G, H)
      BY <2>1 DEF Shaped, Light, Fields
    <2> HIDE DEF H
    <2>3. Moved(F, Advance(H, f))
      BY <1>2, <2>1, <2>2, LightMoves, MovedOn, ThenAdvance
    <2> QED
      BY <2>3 DEF H
  <1>3. Moved(F, ArmMsg(F, f, i))
    BY <1>2, MovedSame, Zenon DEF ArmMsg
  <1>4. Moved(F, ArmEffect(F, f, i))
    BY <1>2, RequestMoves, ZenonT(30) DEF ArmEffect
  <1>5. Moved(F, RaceClose(F, f, i))
    BY LightPop, LightMoves, ThenPark DEF RaceClose
  <1> QED
    BY <1>1, <1>3, <1>4, <1>5

LEMMA WaitWords ==
    ASSUME NEW F, NEW f, NEW i, Shaped(F)
    PROVE  /\ Moved(F, GuardArmTimer(F, f, i)) /\ Moved(F, WaitFor(F, f, i))
           /\ Moved(F, WaitMsg(F, f, i)) /\ Moved(F, AwaitEffect(F, f, i))
           /\ Moved(F, PublishMessage(F, f, i))
  <1>1. Moved(F, GuardArmTimer(F, f, i))
    BY ScheduleMoves, ThenAdvance DEF GuardArmTimer
  <1>2. Moved(F, WaitFor(F, f, i))
    BY ScheduleMoves, ThenAdvance, ThenPark DEF WaitFor
  <1>3. Moved(F, AwaitEffect(F, f, i))
    BY RequestMoves, ThenPark DEF AwaitEffect
  <1>4. Moved(F, WaitMsg(F, f, i))
    <2> DEFINE hits == {m \in F.claimed : NameOn(m) = i.name}
               m == CHOOSE x \in hits : TRUE
               P == Park(Advance(F, f), f, Waiting("Msg", <<i.name>>))
               C == Advance(Consume(F, m), f)
    <2>1. Moved(F, P)
      BY MovedSame, ThenAdvance, ThenPark
    <2>2. Moved(F, C)
      BY ConsumeMoves, ThenAdvance
    <2>3. Moved(F, Refuse(F, "conflict"))
      BY LightRefuse, LightMoves
    <2>4. WaitMsg(F, f, i) \in {P, C, Refuse(F, "conflict")}
      BY DEF WaitMsg
    <2> QED
      BY <2>1, <2>2, <2>3, <2>4
  <1>5. Moved(F, PublishMessage(F, f, i))
    <2> DEFINE m == <<f, F.fibers[f].pc>>
               H == [F EXCEPT !.buffer = Put(@, m, "buffered")]
    <2>1. Light(F, H)
      BY DEF Shaped, Light, Fields
    <2>2. Moved(F, Advance(H, f))
      <3> HIDE DEF H
      <3> QED
        BY <2>1, LightMoves, ThenAdvance
    <2>3. Moved(F, Refuse(F, "repeated"))
      BY LightRefuse, LightMoves
    <2> QED
      BY <2>2, <2>3 DEF PublishMessage
  <1> QED
    BY <1>1, <1>2, <1>3, <1>4, <1>5

(* The end of the instance: nothing that could wake it is left.            *)
Ended(F, G) ==
    /\ Shaped(G)
    /\ G.inst.workflow = F.inst.workflow
    /\ G.inst.state \in Terminal
    /\ Idle(G)
    /\ G.dedupe = F.dedupe
    /\ Keeps(F.effects, G.effects)

LEMMA FinishEnds ==
    ASSUME NEW F, Shaped(F), NEW state \in Terminal
    PROVE  Ended(F, Finish(F, state))
  <1> DEFINE G == Finish(F, state)
             cancelled == [t \in DOMAIN F.timers |->
                                [F.timers[t] EXCEPT !.armed = FALSE]]
  <1>1. /\ G = [x \in Fields |-> G[x]]
        /\ G.inst = [F.inst EXCEPT !.state = state]
        /\ G.fibers = <<>> /\ G.jobs = <<>>
        /\ G.timers = cancelled
        /\ G.dedupe = F.dedupe /\ G.effects = F.effects
    BY ZenonT(30) DEF Finish, Cleanup, Shaped, Fields
  <1>2. TimersOK(cancelled) /\ \A t \in DOMAIN cancelled : ~cancelled[t].armed
    BY ZenonT(30) DEF Shaped, TimersOK, TimerFields
  <1>3. /\ G.inst = [x \in InstFields |-> G.inst[x]]
        /\ G.inst.state = state /\ G.inst.workflow = F.inst.workflow
    BY <1>1 DEF Shaped, InstFields
  <1> HIDE DEF G, cancelled
  <1>4. Shaped(G)
    BY <1>1, <1>2, <1>3 DEF Shaped
  <1>5. Idle(G)
    BY <1>1, <1>2 DEF Idle
  <1>6. Ended(F, G)
    BY <1>1, <1>3, <1>4, <1>5 DEF Ended, Keeps
  <1> QED
    BY <1>6 DEF G

LEMMA EndWords ==
    ASSUME NEW F, NEW f, NEW i, Shaped(F)
    PROVE  /\ \/ Moved(F, End(F, f, i))
              \/ Ended(F, End(F, f, i)) /\ End(F, f, i).stop
           /\ Ended(F, EndTerminate(F, f, i)) /\ EndTerminate(F, f, i).stop
  <1> DEFINE G == [F EXCEPT !.fibers = Without(@, {f}), !.stop = TRUE]
  <1>1. Light(F, G) /\ G.stop
    BY ZenonT(30) DEF Shaped, Light, Fields
  <1>2. Moved(F, G)
    <2> HIDE DEF G
    <2> QED
      BY <1>1, LightMoves
  <1>3. Ended(F, Finish(G, "Completed")) /\ Finish(G, "Completed").stop
    <2> HIDE DEF G
    <2>1. Shaped(G)
      BY <1>2 DEF Moved
    <2>2. Ended(G, Finish(G, "Completed"))
      BY <2>1, FinishEnds DEF Terminal
    <2>3. Finish(G, "Completed").stop
      BY <1>1, <2>1 DEF Finish, Cleanup, Shaped, Fields
    <2> QED
      BY <1>1, <2>2, <2>3 DEF Light, Ended
  <1>4. End(F, f, i) \in {G, Finish(G, "Completed")}
    BY DEF End
  <1>5. Ended(F, EndTerminate(F, f, i)) /\ EndTerminate(F, f, i).stop
    <2> DEFINE E == Finish(F, "Terminated")
               H == [E EXCEPT !.records = <<>>, !.stop = TRUE]
    <2>1. Ended(F, E)
      BY FinishEnds DEF Terminal
    <2> HIDE DEF E
    <2>2. Shaped(E)
      BY <2>1 DEF Ended
    <2>3. /\ Light(E, H) /\ H.stop
          /\ H.fibers = E.fibers /\ H.jobs = E.jobs
      BY <2>2, ZenonT(30) DEF Shaped, Light, Fields
    <2> HIDE DEF H
    <2>4. Ended(F, H) /\ H.stop
      BY <2>1, <2>2, <2>3, ZenonT(30) DEF Ended, Light, Shaped, Idle
    <2> QED
      BY <2>4 DEF EndTerminate, H, E
  <1> HIDE DEF G
  <1> QED
    BY <1>2, <1>3, <1>4, <1>5

LEMMA MovedThenEnded ==
    ASSUME NEW F, NEW G, NEW H, Moved(F, G), Ended(G, H) PROVE Ended(F, H)
  BY DEF Moved, Ended, Keeps

(* What a tick has come to when it started from frame B.                   *)
Outcome(B, G) == Moved(B, G) \/ (Ended(B, G) /\ G.stop)

LEMMA WordOutcome ==
    ASSUME NEW F, NEW f, NEW i, Shaped(F), i.op \in Opcodes
    PROVE  Outcome(F, Word(F, f, i))
  <1>1. /\ Outcome(F, Jump(F, f, i)) /\ Outcome(F, BrIf(F, f, i))
        /\ Outcome(F, BrCounterLt(F, f, i)) /\ Outcome(F, IncCounter(F, f, i))
        /\ Outcome(F, Fail(F, f, i)) /\ Outcome(F, RoutePayload(F, f, i))
    BY BranchWords DEF Outcome
  <1>2. /\ Outcome(F, ExecNative(F, f, i)) /\ Outcome(F, ExecDslTask(F, f, i))
        /\ Outcome(F, BrIfNot(F, f, i)) /\ Outcome(F, MiArityCheck(F, f, i))
        /\ Outcome(F, MiIndexLive(F, f, i)) /\ Outcome(F, MiLoadElement(F, f, i))
    BY TaskWords, ConditionWords DEF Outcome
  <1>3. /\ Outcome(F, Guard(F, f, i)) /\ Outcome(F, GuardN(F, f, i))
        /\ Outcome(F, GuardR(F, f, i)) /\ Outcome(F, RaceOpen(F, f, i))
        /\ Outcome(F, GuardEnd(F, f, i)) /\ Outcome(F, GuardNEnd(F, f, i))
        /\ Outcome(F, GuardREnd(F, f, i)) /\ Outcome(F, GuardArmError(F, f, i))
        /\ Outcome(F, CancelScope(F, f, i))
    BY ScopeMoves DEF Outcome
  <1>4. Outcome(F, Fork(F, f, i)) /\ Outcome(F, Join(F, f, i))
    BY BarrierWords DEF Outcome
  <1>5. /\ Outcome(F, ArmTimer(F, f, i)) /\ Outcome(F, ArmMsg(F, f, i))
        /\ Outcome(F, ArmEffect(F, f, i)) /\ Outcome(F, RaceClose(F, f, i))
    BY RaceWords DEF Outcome
  <1>6. /\ Outcome(F, GuardArmTimer(F, f, i)) /\ Outcome(F, WaitFor(F, f, i))
        /\ Outcome(F, WaitMsg(F, f, i)) /\ Outcome(F, AwaitEffect(F, f, i))
        /\ Outcome(F, PublishMessage(F, f, i))
    BY WaitWords DEF Outcome
  <1>7. Outcome(F, End(F, f, i)) /\ Outcome(F, EndTerminate(F, f, i))
    BY EndWords DEF Outcome
  <1> QED
    BY <1>1, <1>2, <1>3, <1>4, <1>5, <1>6, <1>7 DEF Word, Opcodes

LEMMA ProgramWords ==
    ASSUME Shape, NEW a \in DOMAIN Program PROVE Program[a].op \in Opcodes
  BY ProgramAssumption DEF Shape, Program, Admitted, WellTyped

LEMMA ExecOutcome ==
    ASSUME Shape, NEW B, NEW F, NEW f, Outcome(B, F)
    PROVE  Outcome(B, Exec(F, f))
  <1> DEFINE i == Program[F.fibers[f].pc]
  <1>1. CASE F.stop
    BY <1>1 DEF Exec
  <1>2. CASE ~F.stop
    <2>1. Moved(B, F) /\ Shaped(F)
      BY <1>2 DEF Outcome, Moved
    <2>2. ASSUME NEW G, Moved(F, G) PROVE Outcome(B, G)
      BY <2>1, <2>2, MovedOn DEF Outcome
    <2>3. ASSUME NEW G, Outcome(F, G) PROVE Outcome(B, G)
      BY <2>1, <2>2, <2>3, MovedThenEnded DEF Outcome
    <2>4. /\ Outcome(B, Refuse(F, "pc")) /\ Outcome(B, Refuse(F, "underflow"))
      BY <2>1, <2>2, LightRefuse, LightMoves
    <2>5. F.fibers[f].pc \in DOMAIN Program => Outcome(B, Word(F, f, i))
      BY <2>1, <2>3, ProgramWords, WordOutcome
    <2>6. \/ Exec(F, f) \in {F, Refuse(F, "pc"), Refuse(F, "underflow")}
          \/ F.fibers[f].pc \in DOMAIN Program /\ Exec(F, f) = Word(F, f, i)
      BY DEF Exec
    <2> QED
      BY <2>4, <2>5, <2>6
  <1> QED
    BY <1>1, <1>2

(* A whole tick.                                                           *)
LEMMA RunOutcome ==
    ASSUME Shape, NEW F, NEW f, Shaped(F), NEW G \in RunFiber(F, f)
    PROVE  Outcome(F, G)
  <1> DEFINE N == Limits.max_steps
             after == CHOOSE g : IsRun(g, N, F, f)
             S == {n \in Nat : n \in 0..N => \A H \in after[n] : Outcome(F, H)}
  <1>1. N \in Nat
    BY StepsAssumption DEF Shape, Limits
  <1>2. IsRun(after, N, F, f)
    BY <1>1, RunExists
  <1> HIDE DEF N, after
  <1>3. /\ after[0] = {F}
        /\ \A n \in 0..N : n # 0 => after[n] = {Exec(H, f) : H \in after[n - 1]}
    BY <1>1, <1>2 DEF IsRun
  <1>4. 0 \in S
    BY <1>3, MovedSame DEF Outcome
  <1>5. ASSUME NEW n \in S PROVE n + 1 \in S
    <2>1. n \in Nat
      OBVIOUS
    <2>2. SUFFICES ASSUME n + 1 \in 0..N, NEW H \in after[n + 1]
                   PROVE  Outcome(F, H)
      BY <2>1
    <2>3. n \in 0..N /\ after[n + 1] = {Exec(K, f) : K \in after[n]}
      BY <1>1, <1>3, <2>1, <2>2
    <2>4. PICK K \in after[n] : H = Exec(K, f)
      BY <2>2, <2>3
    <2>5. Outcome(F, K)
      BY <2>3, <2>4
    <2> QED
      BY <2>4, <2>5, ExecOutcome
  <1>6. S = Nat
    <2> HIDE DEF S
    <2>1. S \in SUBSET Nat
      BY DEF S
    <2> QED
      BY <1>4, <1>5, <2>1, Induction
  <1>7. \A H \in after[N] : Outcome(F, H)
    BY <1>1, <1>6
  <1>8. RunFiber(F, f) = {IF H.stop \/ H.error # "none" THEN H
                          ELSE Refuse(H, "steps") : H \in after[N]}
    BY DEF RunFiber, after, N, IsRun
  <1>9. ASSUME NEW H, Outcome(F, H), ~H.stop PROVE Outcome(F, Refuse(H, "steps"))
    <2>1. Moved(F, H) /\ Shaped(H)
      BY <1>9 DEF Outcome, Moved
    <2> QED
      BY <2>1, LightRefuse, LightMoves, MovedOn DEF Outcome
  <1> QED
    BY <1>7, <1>8, <1>9

-----------------------------------------------------------------------------
(* What the answers of workers, timers and callees do to a frame.          *)

LEMMA TriggerMoves ==
    ASSUME NEW F, NEW r, NEW handler, Shaped(F)
    PROVE  Moved(F, Trigger(F, r, handler))
  <1> DEFINE dying == Holders(F, r)
             U == Unwind(F, r, dying)
             J == [U EXCEPT !.jobs = Without(@, ParkedOn(F, dying))]
  <1>1. Moved(F, U) /\ Shaped(U)
    BY UnwindMoves DEF Moved
  <1> HIDE DEF U
  <1>2. Light(U, J)
    BY <1>1 DEF Shaped, Light, Fields
  <1> HIDE DEF J
  <1>3. Moved(F, J)
    BY <1>1, <1>2, LightMoves, MovedOn
  <1>4. ASSUME NEW G, Moved(F, G), NEW fbs, NEW recs
        PROVE  Moved(F, [G EXCEPT !.fibers = fbs, !.records = recs])
    <2> DEFINE H == [G EXCEPT !.fibers = fbs, !.records = recs]
    <2>1. Shaped(G)
      BY <1>4 DEF Moved
    <2>2. Light(G, H)
      BY <2>1, ZenonT(30) DEF Shaped, Light, Fields
    <2> HIDE DEF H
    <2>3. Moved(F, H)
      BY <1>4, <2>1, <2>2, LightMoves, MovedOn
    <2> QED
      BY <2>3 DEF H
  <1>5. Moved(F, F)
    BY MovedSame
  <1>6. \E G \in {F, J} : \E fbs, recs :
            Trigger(F, r, handler) = [G EXCEPT !.fibers = fbs, !.records = recs]
    BY ZenonT(30) DEF Trigger, J, U
  <1> QED
    BY <1>3, <1>4, <1>5, <1>6

LEMMA RollBackMoves ==
    ASSUME NEW F, NEW r, NEW f, Shaped(F) PROVE Moved(F, RollBack(F, r, f))
  <1> DEFINE G == Restore(Unwind(F, r, Holders(F, r)), F.records[r].saved)
  <1>1. Moved(F, G) /\ Shaped(G)
    BY UnwindMoves, RestoreMoves, MovedOn DEF Moved
  <1> HIDE DEF G
  <1>2. ASSUME NEW fbs, NEW recs
        PROVE  Moved(F, RaiseIncident([G EXCEPT !.fibers = fbs, !.records = recs], f))
    <2> DEFINE H == [G EXCEPT !.fibers = fbs, !.records = recs]
    <2>1. Light(G, H)
      BY <1>1, ZenonT(30) DEF Shaped, Light, Fields
    <2> HIDE DEF H
    <2>2. Moved(F, H) /\ Shaped(H)
      BY <1>1, <2>1, LightMoves, MovedOn DEF Moved
    <2>3. Moved(F, RaiseIncident(H, f))
      BY <2>2, IncidentMoves, MovedOn
    <2> QED
      BY <2>3 DEF H
  <1>3. \/ RollBack(F, r, f) = G
        \/ \E fbs, recs : RollBack(F, r, f) =
                RaiseIncident([G EXCEPT !.fibers = fbs, !.records = recs], f)
    BY ZenonT(30) DEF RollBack, G
  <1> QED
    BY <1>1, <1>2, <1>3, ZenonT(30)

LEMMA FailedMoves ==
    ASSUME NEW F, NEW f, NEW why, Shaped(F) PROVE Moved(F, Failed(F, f, why))
  BY TriggerMoves, RollBackMoves, IncidentMoves DEF Failed

LEMMA DisarmMoves ==
    ASSUME NEW F, NEW ts, Shaped(F) PROVE Moved(F, Disarm(F, ts))
  <1> DEFINE G == Disarm(F, ts)
             rows == [t \in DOMAIN F.timers |->
                        IF t \in ts THEN [F.timers[t] EXCEPT !.armed = FALSE]
                        ELSE F.timers[t]]
  <1>1. /\ G = [x \in Fields |-> G[x]] /\ G.inst = F.inst
        /\ G.timers = rows
        /\ G.effects = F.effects /\ G.dedupe = F.dedupe
    BY Zenon DEF Disarm, Shaped, Fields
  <1>2. TimersOK(rows)
    BY ZenonT(30) DEF Shaped, TimersOK, TimerFields
  <1> HIDE DEF G, rows
  <1>3. Moved(F, G)
    BY <1>1, <1>2 DEF Shaped, Moved, Keeps
  <1> QED
    BY <1>3, SMTT(30) DEF G

LEMMA SpendMoves ==
    ASSUME NEW F, NEW t, Shaped(F) PROVE Moved(F, Spend(F, t))
  <1> DEFINE G == [F EXCEPT !.timers[t].left = @ - 1]
  <1>1. Moved(F, G)
    <2>1. /\ G = [x \in Fields |-> G[x]] /\ G.inst = F.inst
          /\ G.timers = [F.timers EXCEPT ![t].left = @ - 1]
          /\ G.effects = F.effects /\ G.dedupe = F.dedupe
      BY DEF Shaped, Fields
    <2>2. TimersOK([F.timers EXCEPT ![t].left = @ - 1])
      BY ZenonT(30) DEF Shaped, TimersOK, TimerFields
    <2> HIDE DEF G
    <2> QED
      BY <2>1, <2>2 DEF Shaped, Moved, Keeps
  <1> HIDE DEF G
  <1>2. Spend(F, t) \in {G, Disarm(F, {t})}
    BY DEF Spend, G
  <1> QED
    BY <1>1, <1>2, DisarmMoves

LEMMA WinRaceMoves ==
    ASSUME NEW F, NEW f, NEW r, NEW target, Shaped(F)
    PROVE  Moved(F, WinRace(F, f, r, target))
  <1> DEFINE G == [F EXCEPT !.fibers[f].pc = target, !.fibers[f].wait = Running,
                            !.records = Without(@, {r})]
  <1>1. Light(F, G)
    <2> DEFINE A == [F EXCEPT !.fibers[f].pc = target]
               B == [A EXCEPT !.fibers[f].wait = Running]
    <2>1. Light(F, A)
      BY DEF Shaped, Light, Fields
    <2> HIDE DEF A
    <2>2. Light(F, B)
      BY <2>1 DEF Light, Fields
    <2> HIDE DEF B
    <2>3. Light(F, [B EXCEPT !.records = Without(@, {r})])
      BY <2>2 DEF Light, Fields
    <2>4. G = [B EXCEPT !.records = Without(@, {r})]
      BY DEF A, B
    <2> QED
      BY <2>3, <2>4
  <1> HIDE DEF G
  <1>2. Moved(F, G) /\ Shaped(G)
    BY <1>1, LightMoves DEF Moved
  <1>3. \A ts : Moved(F, Disarm(G, ts))
    BY <1>2, DisarmMoves, MovedOn
  <1> QED
    BY <1>3 DEF WinRace, G

LEMMA GuardTimerMoves ==
    ASSUME NEW F, NEW r, NEW G \in GuardTimerOutcomes(F, r), Shaped(F)
    PROVE  Moved(F, G)
  <1> DEFINE J == [F EXCEPT !.jobs = Without(@, ParkedOn(F, Holders(F, r)))]
  <1>1. Light(F, J)
    BY DEF Shaped, Light, Fields
  <1> HIDE DEF J
  <1>2. Moved(F, J) /\ Shaped(J)
    BY <1>1, LightMoves DEF Moved
  <1>3. \A f : Moved(F, RollBack(J, r, f))
    BY <1>2, RollBackMoves, MovedOn
  <1>4. \/ G = F
        \/ \E f : G = RollBack(J, r, f)
        \/ G = Trigger(F, r, F.records[r].handler)
    BY DEF GuardTimerOutcomes, J
  <1> QED
    BY <1>3, <1>4, MovedSame, TriggerMoves

-----------------------------------------------------------------------------
(* The commit.                                                             *)

(* NoLostUpdate's step, of a frame and of the state.                       *)
Merged(G) ==
    (\/ DOMAIN G.dedupe # DOMAIN dedupe
     \/ \E e \in DOMAIN effects :
            effects[e].state = "open" /\ G.effects[e].answer = "outputs")
    => inst.payload \subseteq G.inst.payload

Merges ==
    (\/ DOMAIN dedupe' # DOMAIN dedupe
     \/ \E e \in DOMAIN effects :
            effects[e].state = "open" /\ effects'[e].answer = "outputs")
    => inst.payload \subseteq inst'.payload

(* What a step may do: it keeps the shape and merges updates, and if an    *)
(* instance that has ended was idle, it stays so.                          *)
Step ==
    /\ Shape'
    /\ Merges
    /\ Closed(Frame) => /\ Closed(Frame)'
                        /\ inst.state \in Terminal => inst'.state \in Terminal

LEMMA NotAnswered ==
    ASSUME Shape
    PROVE  \A e \in DOMAIN effects :
                effects[e].state = "open" => effects[e].answer # "outputs"
  BY DEF Shape, Shaped, Frame, EffectsOK, Answers

LEMMA IdleStep ==
    ASSUME Shape,
           UNCHANGED <<inst, fibers, jobs, dedupe, timers, effects>>
    PROVE  Step
  <1>1. Merges
    BY NotAnswered DEF Merges
  <1>2. Frame' = [x \in Fields |-> Frame'[x]]
    BY ZenonT(30) DEF Frame, Fields
  <1>3. Shape'
    <2>1. /\ Frame'.inst = Frame.inst /\ Frame'.timers = Frame.timers
          /\ Frame'.effects = Frame.effects
      BY DEF Frame
    <2> QED
      BY <1>2, <2>1 DEF Shape, Shaped
  <1>4. Closed(Frame) => Closed(Frame)'
    BY DEF Closed, Idle, Frame
  <1> QED
    BY <1>1, <1>3, <1>4 DEF Step

LEMMA CommitStep ==
    ASSUME Shape, NEW G, Commit(G), Shaped(G), Merged(G),
           G.inst.workflow = inst.workflow,
           Closed(Frame) => /\ Closed(G)
                            /\ inst.state \in Terminal => G.inst.state \in Terminal
    PROVE  Step
  <1>1. CASE /\ inst' = G.inst /\ fibers' = G.fibers /\ jobs' = G.jobs
             /\ dedupe' = G.dedupe /\ timers' = G.timers
             /\ effects' = G.effects
    <2>1. /\ Frame' = [x \in Fields |-> Frame'[x]]
          /\ Frame'.inst = G.inst /\ Frame'.timers = G.timers
          /\ Frame'.effects = G.effects
          /\ Frame'.fibers = G.fibers /\ Frame'.jobs = G.jobs
      BY <1>1, ZenonT(30) DEF Frame, Fields
    <2>2. Shape'
      BY <1>1, <2>1 DEF Shape, Shaped
    <2>3. Merges
      BY <1>1 DEF Merges, Merged
    <2>4. Closed(G) => Closed(Frame)'
      BY <2>1 DEF Closed, Idle
    <2> QED
      BY <1>1, <2>2, <2>3, <2>4 DEF Step
  <1>2. CASE UNCHANGED <<inst, fibers, jobs, dedupe, timers, effects>>
    BY <1>2, IdleStep
  <1> QED
    BY <1>1, <1>2 DEF Commit

(* Open calls are not answered by a frame that keeps their rows.           *)
LEMMA KeptMerged ==
    ASSUME Shape, NEW G, G.dedupe = dedupe, Keeps(effects, G.effects)
    PROVE  Merged(G)
  BY DEF Shape, Shaped, Frame, EffectsOK, Answers, Keeps, Merged

LEMMA MovedStep ==
    ASSUME Shape, NEW G, Commit(G), Moved(Frame, G),
           Closed(Frame) => inst.state \notin Terminal
    PROVE  Step
  <1>1. /\ Shaped(G) /\ G.inst.workflow = inst.workflow
        /\ G.inst.state \in {inst.state, "Incidented"}
        /\ G.dedupe = dedupe /\ Keeps(effects, G.effects)
    BY DEF Moved, Frame
  <1>2. Merged(G)
    BY <1>1, KeptMerged
  <1>3. Closed(Frame) => Closed(G)
    BY <1>1 DEF Closed, Terminal
  <1> QED
    BY <1>1, <1>2, <1>3, CommitStep

LEMMA EndedStep ==
    ASSUME Shape, NEW G, Commit(G), Ended(Frame, G) PROVE Step
  <1>1. /\ Shaped(G) /\ G.inst.workflow = inst.workflow
        /\ G.inst.state \in Terminal /\ Idle(G)
        /\ G.dedupe = dedupe /\ Keeps(effects, G.effects)
    BY DEF Ended, Frame
  <1>2. Merged(G)
    BY <1>1, KeptMerged
  <1> QED
    BY <1>1, <1>2, CommitStep DEF Closed

(* An instance that has ended has no fibre, no job and no armed timer.     *)
LEMMA NothingLeft ==
    ASSUME Closed(Frame), inst.state \in Terminal
    PROVE  /\ DOMAIN fibers = {} /\ DOMAIN jobs = {}
           /\ \A t \in DOMAIN timers : ~timers[t].armed
  BY DEF Closed, Idle, Frame

-----------------------------------------------------------------------------
(* The commands.                                                           *)

LEMMA FrameShaped == ASSUME Shape PROVE Shaped(Frame)
  BY DEF Shape

LEMMA TickStep == ASSUME Shape, NEW f, Tick(f) PROVE Step
  <1> DEFINE F == [Frame EXCEPT
                !.claimed = Prefetch,
                !.buffer = [m \in DOMAIN buffer |->
                    IF m \in Prefetch THEN "claimed" ELSE buffer[m]]]
  <1>1. PICK G \in RunFiber(F, f) : Commit(G)
    BY ZenonT(30) DEF Tick
  <1>2. Light(Frame, F)
    BY FrameShaped, ZenonT(30) DEF Shaped, Light, Fields
  <1> HIDE DEF F
  <1>3. Moved(Frame, F) /\ Shaped(F)
    BY <1>2, FrameShaped, LightMoves DEF Moved
  <1>4. Outcome(F, G)
    BY <1>3, RunOutcome
  <1>5. Moved(Frame, G) \/ Ended(Frame, G)
    BY <1>3, <1>4, MovedOn, MovedThenEnded DEF Outcome
  <1>6. inst.state \notin Terminal
    BY DEF Tick, Terminal
  <1> QED
    BY <1>1, <1>5, <1>6, MovedStep, EndedStep

LEMMA CompleteJobStep ==
    ASSUME Shape, NEW k, NEW base, NEW v, CompleteJob(k, base, v) PROVE Step
  <1> DEFINE c == Completion(k, base, v)
             A == ApplyCompletion(Frame, c)
  <1>1. PICK f \in ParkedOnJob(k) : Commit([A EXCEPT
                !.fibers[f].pc = @ + 1,
                !.fibers[f].wait = Running,
                !.jobs = Without(@, {k}),
                !.dedupe = Put(@, k, c)])
    BY ZenonT(30) DEF CompleteJob
  <1>2. Moved(Frame, A) /\ Shaped(A)
    BY FrameShaped, CompletionMoves, SMTT(30) DEF Moved
  <1>3. A.inst.payload = inst.payload \cup {k}
    BY FrameShaped, ZenonT(30)
       DEF CompleteJob, Completion, ApplyCompletion, Shaped, Frame, Fields,
           InstFields
  <1> HIDE DEF A, c
  <1> DEFINE B == [A EXCEPT !.fibers[f].pc = @ + 1]
             C == [B EXCEPT !.fibers[f].wait = Running]
             D == [C EXCEPT !.jobs = Without(@, {k})]
             G == [D EXCEPT !.dedupe = Put(@, k, c)]
  <1>4. Commit(G)
    <2>1. G = [A EXCEPT !.fibers[f].pc = @ + 1,
                        !.fibers[f].wait = Running,
                        !.jobs = Without(@, {k}),
                        !.dedupe = Put(@, k, c)]
      OBVIOUS
    <2> HIDE DEF G
    <2> QED
      BY <1>1, <2>1
  <1>5. Light(A, B)
    BY <1>2 DEF Shaped, Light, Fields
  <1> HIDE DEF B
  <1>6. Light(A, C)
    BY <1>5 DEF Light, Fields
  <1> HIDE DEF C
  <1>7. Light(A, D)
    BY <1>6 DEF Light, Fields
  <1> HIDE DEF D
  <1>8. /\ G = [x \in Fields |-> G[x]] /\ G.inst = A.inst
        /\ G.timers = A.timers /\ G.effects = A.effects
    BY <1>7 DEF Light, Fields
  <1> HIDE DEF G
  <1>9. /\ Shaped(G) /\ G.inst.workflow = inst.workflow
        /\ G.inst.state \in {inst.state, "Incidented"}
    BY <1>2, <1>8 DEF Shaped, Moved, Frame
  <1>10. Merged(G)
    BY <1>3, <1>8 DEF Merged
  <1>11. Closed(Frame) => inst.state \notin Terminal
    BY NothingLeft DEF ParkedOnJob
  <1>12. Closed(Frame) => Closed(G)
    BY <1>9, <1>11 DEF Closed, Terminal
  <1> QED
    BY <1>4, <1>9, <1>10, <1>11, <1>12, CommitStep

LEMMA FailJobStep ==
    ASSUME Shape, NEW k, NEW why, FailJob(k, why) PROVE Step
  <1> DEFINE acked == [Frame EXCEPT !.jobs = Without(@, {k})]
  <1>1. Light(Frame, acked)
    BY FrameShaped DEF Shaped, Light, Fields
  <1>2. \/ Commit(acked)
        \/ \E f, dd : Commit([Failed(acked, f, why) EXCEPT !.dead = dd])
    BY ZenonT(30) DEF FailJob
  <1>3. Closed(Frame) => inst.state \notin Terminal
    BY NothingLeft DEF FailJob
  <1> HIDE DEF acked
  <1>4. Moved(Frame, acked) /\ Shaped(acked)
    BY <1>1, FrameShaped, LightMoves DEF Moved
  <1>5. ASSUME NEW f, NEW dd
        PROVE  Moved(Frame, [Failed(acked, f, why) EXCEPT !.dead = dd])
    <2> DEFINE G == Failed(acked, f, why)
               H == [G EXCEPT !.dead = dd]
    <2>1. Moved(Frame, G) /\ Shaped(G)
      BY <1>4, FailedMoves, MovedOn DEF Moved
    <2> HIDE DEF G
    <2>2. Light(G, H)
      BY <2>1 DEF Shaped, Light, Fields
    <2> HIDE DEF H
    <2>3. Moved(Frame, H)
      BY <2>1, <2>2, LightMoves, MovedOn
    <2> QED
      BY <2>3 DEF G, H
  <1> QED
    BY <1>2, <1>3, <1>4, <1>5, MovedStep, ZenonT(30)

LEMMA FireTimerStep == ASSUME Shape, NEW t, FireTimer(t) PROVE Step
  <1> DEFINE row == timers[t]
             f == t[1]
             spent == Spend(Frame, t)
             woken == [spent EXCEPT !.fibers[f].wait = Running]
  <1>1. \/ Commit(woken)
        \/ Commit(WinRace(spent, f, row.rec, row.target))
        \/ \E F \in GuardTimerOutcomes(spent, row.rec) : Commit(F)
        \/ Commit(spent)
    BY SMTT(30) DEF FireTimer
  <1>2. Closed(Frame) => inst.state \notin Terminal
    BY NothingLeft DEF FireTimer
  <1>3. Moved(Frame, spent) /\ Shaped(spent)
    BY FrameShaped, SpendMoves DEF Moved
  <1> HIDE DEF spent
  <1>4. Light(spent, woken)
    BY <1>3 DEF Shaped, Light, Fields
  <1> HIDE DEF woken
  <1>5. Moved(Frame, woken)
    BY <1>3, <1>4, LightMoves, MovedOn
  <1>6. Moved(Frame, WinRace(spent, f, row.rec, row.target))
    BY <1>3, WinRaceMoves, MovedOn
  <1>7. \A F \in GuardTimerOutcomes(spent, row.rec) : Moved(Frame, F)
    BY <1>3, GuardTimerMoves, MovedOn
  <1> QED
    BY <1>1, <1>2, <1>3, <1>5, <1>6, <1>7, MovedStep

(* A won race leaves the instance, its calls and its completions alone.    *)
LEMMA WinRaceKeeps ==
    ASSUME NEW F, NEW f, NEW r, NEW target, Shaped(F)
    PROVE  LET G == WinRace(F, f, r, target)
           IN  G.inst = F.inst /\ G.effects = F.effects /\ G.dedupe = F.dedupe
  <1>1. ASSUME NEW H, H = [x \in Fields |-> H[x]], NEW ts
        PROVE  LET G == Disarm(H, ts)
               IN  G.inst = H.inst /\ G.effects = H.effects /\ G.dedupe = H.dedupe
    BY <1>1 DEF Disarm, Fields
  <1> DEFINE A == [F EXCEPT !.fibers[f].pc = target]
             B == [A EXCEPT !.fibers[f].wait = Running]
             H == [B EXCEPT !.records = Without(@, {r})]
  <1>2. Light(F, A)
    BY DEF Shaped, Light, Fields
  <1> HIDE DEF A
  <1>3. Light(F, B)
    BY <1>2 DEF Light, Fields
  <1> HIDE DEF B
  <1>4. Light(F, H)
    BY <1>3 DEF Light, Fields
  <1>5. H = [F EXCEPT !.fibers[f].pc = target, !.fibers[f].wait = Running,
                      !.records = Without(@, {r})]
    BY DEF A, B
  <1> HIDE DEF H
  <1>6. \E ts : WinRace(F, f, r, target) = Disarm(H, ts)
    BY <1>5, ZenonT(30) DEF WinRace
  <1> QED
    BY <1>1, <1>4, <1>6 DEF Light

(* The answer to a call that is open settles its row; its outputs are      *)
(* added to the payload, a document is not taken for outputs.              *)
LEMMA AnsweredFrame ==
    ASSUME Shape, NEW e \in DOMAIN effects, NEW answer \in Answers, NEW v
    PROVE  LET G == Answered(Frame, e, answer, v)
           IN  /\ Shaped(G) /\ Merged(G)
               /\ G.inst.workflow = inst.workflow
               /\ G.inst.state = inst.state
  <1> DEFINE A == [Frame EXCEPT !.effects[e].state = "completed"]
             B == [A EXCEPT !.effects[e].answer = answer]
             rows == [effects EXCEPT ![e] = [@ EXCEPT !.state = "completed",
                                                      !.answer = answer]]
             G == Answered(Frame, e, answer, v)
  <1>1. Shaped(Frame) /\ Frame.effects = effects /\ Frame.inst = inst
        /\ Frame.dedupe = dedupe
    BY FrameShaped DEF Frame
  <1>2. /\ B = [x \in Fields |-> B[x]] /\ B.inst = inst
        /\ B.dedupe = dedupe /\ B.timers = Frame.timers
        /\ B.effects = rows
    BY <1>1, Zenon DEF Shaped, Fields
  <1>3. /\ EffectsOK(rows) /\ DOMAIN rows = DOMAIN effects
        /\ rows[e].answer = answer
        /\ \A d \in DOMAIN effects \ {e} : rows[d] = effects[d]
    BY <1>1, ZenonT(30) DEF Shaped, EffectsOK, EffectFields
  <1>4. B = [Frame EXCEPT !.effects[e].state = "completed",
                          !.effects[e].answer = answer]
    OBVIOUS
  <1> HIDE DEF A, B, rows
  <1>5. Shaped(B)
    BY <1>1, <1>2, <1>3 DEF Shaped
  <1>6. /\ Shaped(G) /\ G.effects = rows /\ G.dedupe = dedupe
        /\ G.inst.workflow = inst.workflow /\ G.inst.state = inst.state
        /\ answer = "outputs" => inst.payload \subseteq G.inst.payload
    <2>1. CASE answer = "outputs"
      <3> DEFINE fl == FlagWritten(Program[e[2]], v) @@ B.inst.flags
                 P == [B EXCEPT !.inst.payload = @ \cup {Output(e)}]
                 H == [P EXCEPT !.inst.flags = fl]
      <3>1. G = [B EXCEPT !.inst.payload = @ \cup {Output(e)},
                          !.inst.flags = FlagWritten(Program[e[2]], v) @@ @]
        BY <1>4, <2>1 DEF Answered
      <3>2. G = H
        BY <3>1
      <3> HIDE DEF G, fl
      <3>3. /\ Shaped(P) /\ P.effects = B.effects /\ P.dedupe = B.dedupe
            /\ P.inst.workflow = B.inst.workflow /\ P.inst.state = B.inst.state
            /\ P.inst.payload = B.inst.payload \cup {Output(e)}
        BY <1>5, ZenonT(30) DEF Shaped, Fields, InstFields
      <3> HIDE DEF P
      <3>4. /\ Shaped(H) /\ H.effects = P.effects /\ H.dedupe = P.dedupe
            /\ H.inst.workflow = P.inst.workflow /\ H.inst.state = P.inst.state
            /\ H.inst.payload = P.inst.payload
        BY <3>3 DEF Shaped, Fields, InstFields
      <3> HIDE DEF H
      <3> QED
        BY <1>2, <3>2, <3>3, <3>4
    <2>2. CASE answer = "document"
      <3> DEFINE H == [B EXCEPT !.inst.payload = {Output(e)}]
      <3>1. G = H
        BY <1>4, <2>2 DEF Answered
      <3>2. /\ Shaped(H) /\ H.effects = B.effects /\ H.dedupe = B.dedupe
            /\ H.inst.workflow = B.inst.workflow /\ H.inst.state = B.inst.state
        BY <1>5 DEF Shaped, Fields, InstFields
      <3> HIDE DEF H, G
      <3> QED
        BY <1>2, <2>2, <3>1, <3>2
    <2>3. CASE answer = "no_match"
      <3>1. G = B
        BY <1>4, <2>3, SMTT(30) DEF Answered
      <3> HIDE DEF G
      <3> QED
        BY <1>2, <1>5, <2>3, <3>1
    <2> QED
      BY <2>1, <2>2, <2>3 DEF Answers
  <1> HIDE DEF G
  <1>7. Merged(G)
    BY <1>3, <1>6, NotAnswered DEF Merged
  <1> QED
    BY <1>6, <1>7 DEF G

LEMMA CompleteEffectStep ==
    ASSUME Shape, NEW e \in DOMAIN effects, NEW answer \in Answers, NEW v,
           CompleteEffect(e, answer, v)
    PROVE  Step
  <1> DEFINE f == e[1]
             G == Answered(Frame, e, answer, v)
  <1>1. /\ Shaped(G) /\ Merged(G) /\ G.inst.workflow = inst.workflow
        /\ G.inst.state = inst.state
    BY AnsweredFrame
  <1>2. Closed(Frame) => inst.state \notin Terminal
    BY NothingLeft DEF CompleteEffect
  <1>3. \/ Commit([G EXCEPT !.fibers[f].pc = @ + 1, !.fibers[f].wait = Running])
        \/ \E r, target : Commit(WinRace(G, f, r, target))
        \/ Commit([Frame EXCEPT !.effects[e].state = "completed",
                                !.effects[e].answer = "late"])
    BY DEF CompleteEffect
  <1> HIDE DEF G
  <1>4. ASSUME NEW H, Commit(H), Shaped(H), H.inst = G.inst,
               H.effects = G.effects, H.dedupe = G.dedupe
        PROVE  Step
    <2>1. Merged(H)
      BY <1>1, <1>4, SMTT(30) DEF Merged
    <2>2. Closed(Frame) => Closed(H)
      BY <1>1, <1>2, <1>4 DEF Closed
    <2> QED
      BY <1>1, <1>2, <1>4, <2>1, <2>2, CommitStep
  <1>5. CASE Commit([G EXCEPT !.fibers[f].pc = @ + 1, !.fibers[f].wait = Running])
    <2> DEFINE A == [G EXCEPT !.fibers[f].pc = @ + 1]
               H == [A EXCEPT !.fibers[f].wait = Running]
    <2>1. H = [G EXCEPT !.fibers[f].pc = @ + 1, !.fibers[f].wait = Running]
      OBVIOUS
    <2>2. Light(G, A)
      BY <1>1 DEF Shaped, Light, Fields
    <2> HIDE DEF A
    <2>3. Light(G, H)
      BY <2>2, SMTT(30) DEF Light, Fields
    <2> HIDE DEF H
    <2> QED
      BY <1>1, <1>4, <1>5, <2>1, <2>3, ZenonT(30) DEF Light, Shaped
  <1>6. ASSUME NEW r, NEW target, Commit(WinRace(G, f, r, target)) PROVE Step
    <2>1. Shaped(WinRace(G, f, r, target))
      BY <1>1, WinRaceMoves, SMTT(30) DEF Moved
    <2> QED
      BY <1>1, <1>4, <1>6, <2>1, WinRaceKeeps
  <1>7. CASE Commit([Frame EXCEPT !.effects[e].state = "completed",
                                  !.effects[e].answer = "late"])
    <2> DEFINE A == [Frame EXCEPT !.effects[e].state = "completed"]
               H == [A EXCEPT !.effects[e].answer = "late"]
               rows == [effects EXCEPT ![e] = [@ EXCEPT !.state = "completed",
                                                        !.answer = "late"]]
    <2>1. /\ Shaped(Frame) /\ Frame.effects = effects /\ Frame.inst = inst
          /\ Frame.dedupe = dedupe
      BY FrameShaped DEF Frame
    <2>2. /\ H = [x \in Fields |-> H[x]] /\ H.inst = inst
          /\ H.dedupe = dedupe /\ H.timers = Frame.timers
          /\ H.effects = rows
      BY <2>1, Zenon DEF Shaped, Fields
    <2>3. /\ EffectsOK(rows) /\ DOMAIN rows = DOMAIN effects
          /\ rows[e].answer = "late"
          /\ \A d \in DOMAIN effects \ {e} : rows[d] = effects[d]
      BY <2>1, ZenonT(30) DEF Shaped, EffectsOK, EffectFields
    <2>4. H = [Frame EXCEPT !.effects[e].state = "completed",
                            !.effects[e].answer = "late"]
      OBVIOUS
    <2> HIDE DEF A, H, rows
    <2>5. Shaped(H)
      BY <2>1, <2>2, <2>3 DEF Shaped
    <2>6. Merged(H)
      BY <2>2, <2>3, NotAnswered DEF Merged
    <2>7. Closed(Frame) => Closed(H)
      BY <1>2, <2>2, SMTT(30) DEF Closed
    <2> QED
      BY <1>2, <1>7, <2>2, <2>4, <2>5, <2>6, <2>7, CommitStep, ZenonT(30)
  <1> QED
    BY <1>3, <1>5, <1>6, <1>7

LEMMA FailEffectStep ==
    ASSUME Shape, NEW e \in DOMAIN effects, NEW why, why \notin Answers,
           FailEffect(e, why)
    PROVE  Step
  <1> DEFINE recorded == [Frame EXCEPT !.effects[e].answer = why]
             rows == [effects EXCEPT ![e] = [@ EXCEPT !.answer = why]]
  <1>1. inst.state \notin Terminal
    BY DEF FailEffect
  <1>2. \/ Commit(recorded)
        \/ \E f, state : Commit([Failed(recorded, f, why) EXCEPT
                                    !.effects[e].state = state])
    BY ZenonT(30) DEF FailEffect
  <1>3. /\ Shaped(Frame) /\ Frame.effects = effects /\ Frame.inst = inst
        /\ Frame.dedupe = dedupe
    BY FrameShaped DEF Frame
  <1>4. /\ recorded = [x \in Fields |-> recorded[x]] /\ recorded.inst = inst
        /\ recorded.dedupe = dedupe /\ recorded.timers = Frame.timers
        /\ recorded.effects = rows
    BY <1>3, SMTT(30) DEF Shaped, Fields
  <1>5. /\ EffectsOK(rows) /\ DOMAIN rows = DOMAIN effects
        /\ rows[e].answer = why
        /\ \A d \in DOMAIN effects \ {e} : rows[d] = effects[d]
    <2>1. \A d \in DOMAIN effects :
            /\ effects[d] = [x \in EffectFields |-> effects[d][x]]
            /\ effects[d].state = "open" => effects[d].answer \notin Answers
      BY <1>3, ZenonT(30) DEF Shaped, EffectsOK
    <2>2. /\ DOMAIN rows = DOMAIN effects /\ rows[e].answer = why
          /\ rows[e] = [x \in EffectFields |-> rows[e][x]]
          /\ \A d \in DOMAIN effects \ {e} : rows[d] = effects[d]
      BY <2>1 DEF EffectFields
    <2> HIDE DEF rows
    <2> QED
      BY <2>1, <2>2 DEF EffectsOK
  <1> HIDE DEF recorded, rows
  <1>6. Shaped(recorded)
    BY <1>3, <1>4, <1>5 DEF Shaped
  <1>7. ASSUME NEW G, Moved(recorded, G), Commit(G) PROVE Step
    <2>1. /\ Shaped(G) /\ G.inst.workflow = inst.workflow
          /\ G.inst.state \in {inst.state, "Incidented"}
          /\ G.dedupe = dedupe /\ Keeps(rows, G.effects)
      BY <1>4, <1>7 DEF Moved
    <2>2. Merged(G)
      BY <1>5, <2>1, NotAnswered DEF Merged, Keeps, Answers
    <2>3. Closed(G)
      BY <1>1, <2>1 DEF Closed, Terminal
    <2> QED
      BY <1>1, <1>7, <2>1, <2>2, <2>3, CommitStep
  <1>8. ASSUME NEW f, NEW state,
               Commit([Failed(recorded, f, why) EXCEPT !.effects[e].state = state])
        PROVE  Step
    <2> DEFINE A == Failed(recorded, f, why)
               G == [A EXCEPT !.effects[e].state = state]
    <2>1. Moved(recorded, A) /\ Commit(G)
      BY <1>6, <1>8, FailedMoves
    <2> HIDE DEF A
    <2>2. /\ Shaped(A) /\ A.inst.workflow = inst.workflow
          /\ A.inst.state \in {inst.state, "Incidented"}
          /\ A.dedupe = dedupe /\ Keeps(rows, A.effects)
      BY <1>4, <2>1 DEF Moved
    <2>3. /\ G = [x \in Fields |-> G[x]] /\ G.inst = A.inst
          /\ G.dedupe = dedupe /\ G.timers = A.timers
          /\ G.effects = [A.effects EXCEPT ![e].state = state]
      BY <2>2 DEF Shaped, Fields
    <2> HIDE DEF G
    <2>4. /\ EffectsOK(G.effects)
          /\ \A d \in DOMAIN effects : G.effects[d].answer = rows[d].answer
      <3>1. /\ \A d \in DOMAIN A.effects :
                /\ A.effects[d] = [x \in EffectFields |-> A.effects[d][x]]
                /\ A.effects[d].state = "open" => A.effects[d].answer \notin Answers
            /\ \A d \in DOMAIN rows : d \in DOMAIN A.effects /\ A.effects[d] = rows[d]
        BY <2>2, ZenonT(30) DEF Shaped, EffectsOK, Keeps
      <3>2. e \in DOMAIN A.effects /\ A.effects[e].answer = why
        BY <1>5, <3>1
      <3>3. /\ DOMAIN G.effects = DOMAIN A.effects
            /\ G.effects[e] = [A.effects[e] EXCEPT !.state = state]
            /\ \A d \in DOMAIN A.effects \ {e} : G.effects[d] = A.effects[d]
        BY <2>3, <3>2
      <3>4. /\ G.effects[e] = [x \in EffectFields |-> G.effects[e][x]]
            /\ G.effects[e].answer = why
        BY <3>1, <3>2, <3>3, ZenonT(30) DEF EffectFields
      <3>5. \A d \in DOMAIN G.effects \ {e} :
                /\ G.effects[d] = [x \in EffectFields |-> G.effects[d][x]]
                /\ G.effects[d].state = "open" => G.effects[d].answer \notin Answers
        BY <3>1, <3>3, Zenon
      <3>6. EffectsOK(G.effects)
        BY <3>4, <3>5, Zenon DEF EffectsOK
      <3>7. ASSUME NEW d \in DOMAIN effects
            PROVE  G.effects[d].answer = rows[d].answer
        <4>1. CASE d = e
          BY <1>5, <3>4, <4>1
        <4>2. CASE d # e
          BY <1>5, <3>1, <3>3, <4>2
        <4> QED
          BY <4>1, <4>2
      <3> QED
        BY <3>6, <3>7
    <2>5. Shaped(G)
      BY <2>2, <2>3, <2>4 DEF Shaped
    <2>6. Merged(G)
      BY <1>5, <2>3, <2>4, NotAnswered DEF Merged, Answers
    <2>7. Closed(G)
      BY <1>1, <2>2, <2>3 DEF Closed, Terminal
    <2> QED
      BY <1>1, <2>1, <2>2, <2>3, <2>5, <2>6, <2>7, CommitStep
  <1> QED
    BY <1>2, <1>6, <1>7, <1>8, MovedSame, ZenonT(30)

LEMMA DeliverMessageStep == ASSUME Shape, NEW m, DeliverMessage(m) PROVE Step
  <1> DEFINE Marked(status) == [Frame EXCEPT !.buffer[m] = status]
  <1>1. ASSUME NEW status PROVE Light(Frame, Marked(status))
    BY FrameShaped DEF Shaped, Light, Fields
  <1>2. CASE inst.state \in Terminal
    <2> DEFINE G == Marked("consumed")
    <2>1. Commit(G)
      BY <1>2 DEF DeliverMessage
    <2>2. G.fibers = Frame.fibers /\ G.jobs = Frame.jobs /\ Light(Frame, G)
      BY <1>1, FrameShaped DEF Shaped, Fields
    <2> HIDE DEF G
    <2>3. /\ Shaped(G) /\ G.inst = inst
          /\ G.dedupe = dedupe /\ G.effects = effects
      BY <2>2, FrameShaped DEF Light, Shaped, Frame
    <2>4. Merged(G)
      BY <2>3, KeptMerged DEF Keeps
    <2>5. Closed(Frame) => Closed(G)
      BY <2>2 DEF Closed, Idle, Light
    <2> QED
      BY <1>2, <2>1, <2>3, <2>4, <2>5, CommitStep
  <1>3. CASE inst.state \notin Terminal
    <2>1. \/ Commit(Marked("buffered"))
          \/ \E f : \E F \in Received(Frame, f, m) : Commit(F)
      BY <1>3 DEF DeliverMessage
    <2>2. Moved(Frame, Marked("buffered"))
      BY <1>1, FrameShaped, LightMoves
    <2> HIDE DEF Marked
    <2>3. ASSUME NEW f, NEW F \in Received(Frame, f, m) PROVE Moved(Frame, F)
      <3> DEFINE C == Consume(Frame, m)
                 W == [C EXCEPT !.fibers[f].wait = Running]
      <3>1. Moved(Frame, C) /\ Shaped(C)
        BY FrameShaped, ConsumeMoves DEF Moved
      <3>2. F = W \/ \E r, target : F = WinRace(C, f, r, target)
        BY DEF Received
      <3> HIDE DEF C
      <3>3. Light(C, W)
        BY <3>1 DEF Shaped, Light, Fields
      <3> HIDE DEF W
      <3>4. Moved(Frame, W)
        BY <3>1, <3>3, LightMoves, MovedOn
      <3>5. \A r, target : Moved(Frame, WinRace(C, f, r, target))
        BY <3>1, WinRaceMoves, MovedOn
      <3> QED
        BY <3>2, <3>4, <3>5, SMTT(30)
    <2> QED
      BY <1>3, <2>1, <2>2, <2>3, MovedStep
  <1> QED
    BY <1>2, <1>3

LEMMA StopStep ==
    ASSUME Shape, NEW state \in Terminal,
           Commit([Finish(Frame, state) EXCEPT !.records = <<>>])
    PROVE  Step
  <1> DEFINE A == Finish(Frame, state)
             G == [A EXCEPT !.records = <<>>]
  <1>1. Ended(Frame, A)
    BY FrameShaped, FinishEnds
  <1> HIDE DEF A
  <1>2. G.fibers = A.fibers /\ G.jobs = A.jobs /\ Light(A, G)
    BY <1>1 DEF Ended, Shaped, Light, Fields
  <1>3. Commit(G)
    BY DEF A
  <1> HIDE DEF G
  <1>4. Ended(Frame, G)
    BY <1>1, <1>2, ZenonT(30) DEF Ended, Light, Shaped, Idle
  <1> QED
    BY <1>3, <1>4, EndedStep

LEMMA ResolveStep == ASSUME Shape, ResolveIncident PROVE Step
  <1> DEFINE f == inst.incident
             A == [Frame EXCEPT !.inst.state = "Running"]
             G == [A EXCEPT !.inst.incident = 0]
             H == [G EXCEPT !.fibers[f].wait = Running]
  <1>1. inst.state \notin Terminal
    BY DEF ResolveIncident, Terminal
  <1>2. Commit(G) \/ Commit(H)
    <2>1. G = [Frame EXCEPT !.inst.state = "Running", !.inst.incident = 0]
      OBVIOUS
    <2> HIDE DEF G
    <2> QED
      BY <2>1 DEF ResolveIncident
  <1>3. /\ Shaped(A) /\ A.inst.workflow = inst.workflow /\ A.inst.state = "Running"
        /\ A.dedupe = dedupe /\ A.effects = effects
    BY FrameShaped, ZenonT(30) DEF Shaped, Frame, Fields, InstFields
  <1> HIDE DEF A
  <1>4. /\ Shaped(G) /\ G.inst.workflow = inst.workflow /\ G.inst.state = "Running"
        /\ G.dedupe = dedupe /\ G.effects = effects
    BY <1>3 DEF Shaped, Fields, InstFields
  <1> HIDE DEF G
  <1>5. Light(G, H)
    BY <1>4 DEF Shaped, Light, Fields
  <1> HIDE DEF H
  <1>6. /\ Shaped(H) /\ H.inst = G.inst /\ H.dedupe = dedupe /\ H.effects = effects
    BY <1>4, <1>5 DEF Light, Shaped
  <1>7. Merged(G) /\ Merged(H)
    BY <1>4, <1>6, KeptMerged DEF Keeps
  <1>8. Closed(G) /\ Closed(H)
    BY <1>4, <1>6 DEF Closed, Terminal
  <1> QED
    BY <1>1, <1>2, <1>4, <1>6, <1>7, <1>8, CommitStep

(* A guard may be triggered on an instance that has ended, since END       *)
(* sweeps no record: only the shape is kept, and updates are merged.       *)
LEMMA TriggerStep ==
    ASSUME Shape, NEW r, TriggerGuard(r) PROVE Shape' /\ Merges
  <1> DEFINE G == Trigger(Frame, r, records[r].handler)
  <1>1. Commit(G)
    BY DEF TriggerGuard
  <1>2. Moved(Frame, G)
    BY FrameShaped, TriggerMoves
  <1> HIDE DEF G
  <1>3. CASE /\ inst' = G.inst /\ timers' = G.timers
             /\ effects' = G.effects /\ dedupe' = G.dedupe
    <2>1. /\ Frame' = [x \in Fields |-> Frame'[x]]
          /\ Frame'.inst = G.inst /\ Frame'.timers = G.timers
          /\ Frame'.effects = G.effects
      BY <1>3, ZenonT(30) DEF Frame, Fields
    <2>2. /\ Shaped(G) /\ G.inst.workflow = inst.workflow
          /\ G.dedupe = dedupe /\ Keeps(effects, G.effects)
      BY <1>2 DEF Moved, Frame
    <2>3. Shape'
      BY <1>3, <2>1, <2>2 DEF Shape, Shaped
    <2>4. Merged(G)
      BY <2>2, KeptMerged
    <2> QED
      BY <1>3, <2>3, <2>4 DEF Merges, Merged
  <1>4. CASE UNCHANGED <<inst, fibers, jobs, dedupe, timers, effects>>
    BY <1>4, IdleStep DEF Step
  <1> QED
    BY <1>1, <1>3, <1>4 DEF Commit

-----------------------------------------------------------------------------
LEMMA Start == ASSUME Init PROVE Inv
  <1> DEFINE Begun(w, n) ==
         [workflow |-> w, state |-> "Running", incident |-> 0,
          payload |-> {}, flags |-> [k \in Flags |-> FALSE], items |-> n,
          counters |-> [c \in Counters |-> 0], placeholders |-> <<>>]
  <1>1. PICK w \in Admitted : \E n \in Lengths[w] : inst = Begun(w, n)
    BY ZenonT(30) DEF Init
  <1>2. inst.workflow \in Admitted /\ inst = [x \in InstFields |-> inst[x]]
    <2>1. PICK n \in Lengths[w] : inst = Begun(w, n)
      BY <1>1, ZenonT(30)
    <2> QED
      BY <2>1, ZenonT(30) DEF InstFields
  <1>3. inst.state \notin Terminal
    BY <1>1 DEF Terminal
  <1>4. TimersOK(timers) /\ EffectsOK(effects)
    BY DEF Init, TimersOK, EffectsOK
  <1>5. /\ Frame = [x \in Fields |-> Frame[x]] /\ Frame.inst = inst
        /\ Frame.timers = timers /\ Frame.effects = effects
    BY ZenonT(30) DEF Frame, Fields
  <1> QED
    BY <1>2, <1>3, <1>4, <1>5 DEF Inv, Shape, Shaped, Closed

(* Every step but an operator's trigger.                                   *)
LEMMA NextStep ==
    ASSUME Shape, [Next]_vars, ~\E r \in DOMAIN records : TriggerGuard(r)
    PROVE  Step
  <1>1. CASE Ticks
    BY <1>1, TickStep DEF Ticks
  <1>2. CASE Completions
    BY <1>2, CompleteJobStep DEF Completions
  <1>3. CASE \E k \in DOMAIN jobs, why \in Failures[inst.workflow] : FailJob(k, why)
    BY <1>3, FailJobStep
  <1>4. CASE Timers
    BY <1>4, FireTimerStep DEF Timers
  <1>5. CASE Calls
    BY <1>5, CompleteEffectStep DEF Calls
  <1>6. CASE \E e \in DOMAIN effects, why \in Failures[inst.workflow] :
                FailEffect(e, why)
    <2>1. \A why \in Failures[inst.workflow] : why \notin Answers
      BY ProgramAssumption DEF Shape, Admitted
    <2> QED
      BY <1>6, <2>1, FailEffectStep
  <1>7. CASE \E m \in Messages : DeliverMessage(m)
    BY <1>7, DeliverMessageStep
  <1>8. CASE \E m \in DOMAIN buffer : MessageClaimLapses(m)
    BY <1>8, IdleStep DEF MessageClaimLapses
  <1>9. CASE Cancel \/ Terminate
    BY <1>9, StopStep DEF Cancel, Terminate, Terminal
  <1>10. CASE ResolveIncident
    BY <1>10, ResolveStep
  <1>11. CASE UNCHANGED vars
    BY <1>11, IdleStep DEF vars
  <1> QED
    BY <1>1, <1>2, <1>3, <1>4, <1>5, <1>6, <1>7, <1>8, <1>9, <1>10, <1>11
       DEF Next

(* Of every program that the verifier admits, in every order of ticks,     *)
(* reports, answers, timers, messages and operator commands: a job's       *)
(* completion and the outputs of a call are merged into all that the       *)
(* payload holds when they are applied (apply_complete_job's hash check,   *)
(* apply_ffi_outputs).                                                     *)
THEOREM NoUpdateLost == Spec => NoLostUpdate
  <1>1. Init => Shape
    BY Start DEF Inv
  <1>2. Shape /\ [Next]_vars => Shape' /\ Merges
    BY NextStep, TriggerStep DEF Step
  <1>3. Shape /\ [Next]_vars =>
          [(\/ DOMAIN dedupe' # DOMAIN dedupe
            \/ \E e \in DOMAIN effects :
                 effects[e].state = "open" /\ effects'[e].answer = "outputs")
           => inst.payload \subseteq inst'.payload]_vars
    BY <1>2 DEF Merges
  <1> QED
    BY <1>1, <1>2, <1>3, PTL DEF Spec, NoLostUpdate

(* Of every program that the verifier admits: unless an operator may       *)
(* trigger guards by hand, an instance that END, EndTerminate, a           *)
(* cancellation or a termination has ended never runs again, whatever      *)
(* report, answer, timer, message or resolution comes late.                *)
THEOREM EndedIsFinal ==
    ASSUME \A w \in Workflows : "trigger" \notin Operator[w]
    PROVE  Spec => EndedStaysEnded
  <1>1. Init => Inv
    BY Start
  <1>2. Inv /\ [Next]_vars => Step
    <2> SUFFICES ASSUME Inv, [Next]_vars PROVE Step
      OBVIOUS
    <2>1. \A r : ~TriggerGuard(r)
      BY DEF TriggerGuard, Inv, Shape, Admitted
    <2> QED
      BY <2>1, NextStep DEF Inv
  <1>3. Inv /\ [Next]_vars => Inv'
    BY <1>2, SMTT(30) DEF Step, Inv
  <1>4. Inv /\ [Next]_vars =>
          [inst.state \in Terminal =>
             inst'.state \in Terminal /\ fibers' = <<>>]_vars
    <2> SUFFICES ASSUME Inv, [Next]_vars, inst.state \in Terminal
                 PROVE  inst'.state \in Terminal /\ fibers' = <<>>
      OBVIOUS
    <2>1. Closed(Frame)' /\ inst'.state \in Terminal
      BY <1>2 DEF Step, Inv
    <2> QED
      BY <2>1 DEF Closed, Idle, Frame
  <1> QED
    BY <1>1, <1>3, <1>4, PTL DEF Spec, EndedStaysEnded

(* Of the same programs: an instance that is over holds no fibre, no live  *)
(* job and no armed timer, whichever of its branches, calls and races was  *)
(* under way when END, EndTerminate or an operator ended it                *)
(* (TerminalCleanup of the store), and nothing late adds one.              *)
THEOREM EndedIsQuiet ==
    ASSUME \A w \in Workflows : "trigger" \notin Operator[w]
    PROVE  Spec => []EndsQuiet
  <1>1. Init => Inv
    BY Start
  <1>2. Inv /\ [Next]_vars => Inv'
    <2> SUFFICES ASSUME Inv, [Next]_vars PROVE Inv'
      OBVIOUS
    <2>1. \A r : ~TriggerGuard(r)
      BY DEF TriggerGuard, Inv, Shape, Admitted
    <2>2. Step
      BY <2>1, NextStep DEF Inv
    <2> QED
      BY <2>2, SMTT(30) DEF Step, Inv
  <1>3. Inv => EndsQuiet
    BY DEF Inv, Closed, Idle, Frame, EndsQuiet
  <1> QED
    BY <1>1, <1>2, <1>3, PTL DEF Spec
=============================================================================
