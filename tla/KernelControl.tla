--------------------------- MODULE KernelControl ----------------------------
(***************************************************************************)
(* Fibres, records and control stacks, whatever the program: every word    *)
(* leaves a typed frame in which a handle has one place in all the control *)
(* stacks that hold it.                                                    *)
(***************************************************************************)
EXTENDS KernelFrames

(* How long the provers may take.                                          *)
USE SMTT(10), ZenonT(30)

-----------------------------------------------------------------------------
(* Tasks, branches and counters.                                           *)

(* The words that dispatch a job or replay its completion.                 *)
LEMMA TaskInTick ==
    ASSUME NEW F, NEW f, Runs(F, f), F.fibers[f].pc \in DOMAIN Program, NEW i
    PROVE  InTick(ExecNative(F, f, i), f) /\ InTick(ExecDslTask(F, f, i), f)
  <1> DEFINE k == <<F.fibers[f].pc, F.fibers[f].epoch>>
             A == Advance(ApplyCompletion(F, F.dedupe[k]), f)
             P == Park(Enqueue(F, k), f, Waiting("Job", k))
             G == ExecNative(F, f, i)
             H == [G EXCEPT !.inst.placeholders =
                                Put(@, i.produces, F.dedupe[k].value)]
  <1>1. k \in Keys
    BY RunningFiber DEF Keys
  <1>2. Runs(A, f)
    <2> HIDE DEF k
    <2> QED
      BY RunsCompletion, RunsAdvance
  <1>3. Tidy(P) /\ P.stop
    <2>1. Waiting("Job", k).kind \in WaitKinds \ {"Barrier", "Race"}
      BY DEF Waiting, WaitKinds
    <2> HIDE DEF k
    <2>2. Runs(Enqueue(F, k), f)
      BY <1>1, RunsEnqueue
    <2> QED
      BY <2>1, <2>2, RunsPark
  <1>4. G = IF k \in DOMAIN F.dedupe THEN A ELSE P
    BY DEF ExecNative
  <1> HIDE DEF k, A, P
  <1>5. InTick(G, f)
    BY <1>2, <1>3, <1>4 DEF InTick, Runs
  <1>6. ExecDslTask(F, f, i) \in {G, H}
    BY DEF ExecDslTask, k
  <1> HIDE DEF G
  <1>7. InTick(H, f)
    <2> DEFINE v == Put(G.inst.placeholders, i.produces, F.dedupe[k].value)
    <2>1. H = [G EXCEPT !.inst.placeholders = v]
      OBVIOUS
    <2> HIDE DEF v, H
    <2>2. Tidy(H) /\ SameControl(G, H) /\ SameTick(G, H)
      BY <1>5, <2>1, TidyBind DEF InTick
    <2> QED
      BY <1>5, <2>2 DEF InTick, Runs, SameControl, SameTick
  <1> QED
    BY <1>5, <1>6, <1>7 DEF G

LEMMA RunsIncrement ==
    ASSUME NEW F, NEW f, Runs(F, f), NEW i
    PROVE  Runs(IncCounter(F, f, i), f)
  <1> DEFINE fb == F.fibers[f]
             G == [F EXCEPT !.inst.counters[i.counter] = @ + 1,
                            !.fibers[f].epoch = @ + 1]
  <1>1. /\ fb.stack \in Seq(Ids) /\ fb.epoch + 1 \in Nat /\ Kept(fb.stack, F.fibers)
        /\ f \in DOMAIN F.fibers /\ fb.wait = Running
    BY RunningFiber DEF Runs
  <1>2. /\ G = [x \in Fields |-> G[x]] /\ SameStatus(F, G) /\ SameStore(F, G)
        /\ G.inst = [x \in InstFields |-> G.inst[x]]
        /\ G.records = F.records
        /\ G.fibers = WithEpoch(F.fibers, f, fb.epoch + 1)
    BY ZenonT(60) DEF Runs, Tidy, Typed, Formed, Fields, InstFields, SameStatus,
                      SameStore, WithEpoch
  <1> HIDE DEF G
  <1>3. /\ FibersFormed(G.fibers) /\ Others(G.fibers, F.fibers, f)
        /\ Stands(G.fibers[f], fb.pc, fb.stack, Running, fb.epoch + 1)
    BY <1>1, <1>2, SetEpoch DEF Runs, Tidy, Typed, Formed
  <1>4. Formed(G)
    BY <1>2, <1>3 DEF Runs, Tidy, Typed, Formed
  <1>5. Steady(G.fibers[f], F.fibers)
    BY <1>1, <1>3, PlainSteady, WaitingKind
  <1>6. Status(G.inst) /\ Records(G.records)
    BY <1>2 DEF Runs, Tidy, Typed, SameStatus, Status
  <1>7. Tidy(G)
    BY <1>1, <1>2, <1>3, <1>4, <1>5, <1>6, TidyFiber DEF Runs
  <1>8. Runs(G, f)
    BY <1>1, <1>3, <1>7 DEF Runs, Others, Stands
  <1> QED
    BY <1>8, RunsAdvance DEF IncCounter, G

LEMMA InTickRefuse ==
    ASSUME NEW F, NEW f, Tidy(F), NEW why, why # "none"
    PROVE  InTick(Refuse(F, why), f)
  BY TidyRefuse DEF InTick

LEMMA InTickRaise ==
    ASSUME NEW F, NEW f, Runs(F, f) PROVE InTick(RaiseIncident(F, f), f)
  BY TidyRaise DEF InTick, Runs, Running

LEMMA InTickRuns ==
    ASSUME NEW F, NEW f, Runs(F, f) PROVE InTick(F, f)
  BY DEF InTick, Runs

LEMMA BranchInTick ==
    ASSUME NEW F, NEW f, Runs(F, f), NEW i
    PROVE  /\ InTick(Jump(F, f, i), f) /\ InTick(BrIf(F, f, i), f)
           /\ InTick(BrIfNot(F, f, i), f) /\ InTick(BrCounterLt(F, f, i), f)
           /\ InTick(MiArityCheck(F, f, i), f) /\ InTick(MiIndexLive(F, f, i), f)
           /\ InTick(MiLoadElement(F, f, i), f) /\ InTick(IncCounter(F, f, i), f)
           /\ InTick(Fail(F, f, i), f) /\ InTick(RoutePayload(F, f, i), f)
  <1>1. \A addr : InTick(Goto(F, f, addr), f)
    BY RunsGoto, InTickRuns
  <1>2. InTick(Advance(F, f), f)
    BY RunsAdvance, InTickRuns
  <1>3. InTick(RaiseIncident(F, f), f)
    BY InTickRaise
  <1>4. InTick(Refuse(F, "arity"), f) /\ InTick(Refuse(F, "element"), f)
    BY InTickRefuse DEF Runs
  <1>5. InTick(IncCounter(F, f, i), f)
    BY RunsIncrement, InTickRuns
  <1>6. InTick(RoutePayload(F, f, i), f)
    BY <1>1, <1>3 DEF RoutePayload
  <1> QED
    BY <1>1, <1>2, <1>3, <1>4, <1>5, <1>6
       DEF Jump, BrIf, BrIfNot, BrCounterLt, MiArityCheck, MiIndexLive,
           MiLoadElement, Fail

LEMMA TidyTimers ==
    ASSUME NEW F, Tidy(F), NEW v, TimerRows(v)
    PROVE  LET G == [F EXCEPT !.timers = v]
           IN  Tidy(G) /\ SameControl(F, G) /\ v = G.timers
  <1> DEFINE G == [F EXCEPT !.timers = v]
  <1>1. Formed(G) /\ SameButTimers(F, G) /\ SameControl(F, G) /\ v = G.timers
    BY SetTimers DEF Tidy, Typed
  <1> HIDE DEF G
  <1>2. Tidy(G)
    BY <1>1, TidyRows DEF Tidy, Typed, SameButTimers, SameStatus
  <1> QED
    BY <1>1, <1>2 DEF G

LEMMA RunsSchedule ==
    ASSUME NEW F, NEW f, Runs(F, f), F.fibers[f].pc \in DOMAIN Program,
           NEW kind, NEW rec, NEW target, NEW left \in Nat
    PROVE  Runs(Schedule(F, f, kind, rec, target, left), f)
  <1> DEFINE t == <<f, F.fibers[f].pc>>
             row == [kind |-> kind, rec |-> rec, target |-> target,
                     left |-> left, armed |-> TRUE]
             v == Put(F.timers, t, row)
             G == [F EXCEPT !.timers = v]
  <1>1. Schedule(F, f, kind, rec, target, left) \in {G, F, Refuse(F, "collision")}
    BY DEF Schedule
  <1>2. t \in Places
    BY RunningFiber DEF Places
  <1>3. row = [x \in TimerFields |-> row[x]] /\ row.left \in Nat
    BY DEF TimerFields
  <1>4. TimerRows(v)
    <2> HIDE DEF t, row
    <2>1. /\ DOMAIN v = DOMAIN F.timers \cup {t} /\ v[t] = row
          /\ \A y \in DOMAIN F.timers \ {t} : v[y] = F.timers[y]
      BY DEF Put
    <2> HIDE DEF v
    <2>2. TimerRows(F.timers)
      BY DEF Runs, Tidy, Typed
    <2>3. DOMAIN v \subseteq Places /\ IsFiniteSet(DOMAIN v)
      BY <1>2, <2>1, <2>2, FS_AddElement DEF TimerRows
    <2>4. \A y \in DOMAIN v : /\ v[y] = [x \in TimerFields |-> v[y][x]]
                              /\ v[y].left \in Nat
      <3> TAKE y \in DOMAIN v
      <3>1. CASE y = t
        BY <1>3, <2>1, <3>1, Zenon
      <3>2. CASE y # t
        BY <2>1, <2>2, <3>2, Zenon DEF TimerRows
      <3> QED
        BY <3>1, <3>2
    <2> QED
      BY <2>3, <2>4, Zenon DEF TimerRows
  <1>5. Tidy(G) /\ SameControl(F, G)
    <2> HIDE DEF v
    <2> QED
      BY <1>4, TidyTimers DEF Runs
  <1> HIDE DEF G
  <1>6. Runs(G, f)
    BY <1>5, StillRuns
  <1>7. Runs(Refuse(F, "collision"), f)
    BY TidyRefuse DEF Runs
  <1> QED
    BY <1>1, <1>6, <1>7

LEMMA TidyEffects ==
    ASSUME NEW F, Tidy(F), NEW v, EffectRows(v)
    PROVE  LET G == [F EXCEPT !.effects = v]
           IN  Tidy(G) /\ SameControl(F, G) /\ v = G.effects
  <1> DEFINE G == [F EXCEPT !.effects = v]
  <1>1. Formed(G) /\ SameButEffects(F, G) /\ SameControl(F, G) /\ v = G.effects
    BY SetEffects DEF Tidy, Typed
  <1> HIDE DEF G
  <1>2. Tidy(G)
    BY <1>1, TidyRows DEF Tidy, Typed, SameButEffects, SameStatus
  <1> QED
    BY <1>1, <1>2 DEF G

LEMMA RunsRequest ==
    ASSUME NEW F, NEW f, Runs(F, f), F.fibers[f].pc \in DOMAIN Program
    PROVE  Runs(Request(F, f), f)
  <1> DEFINE e == <<f, F.fibers[f].pc>>
             row == [input |-> F.inst.payload, state |-> "open", answer |-> "none"]
             v == Put(F.effects, e, row)
             G == [F EXCEPT !.effects = v]
  <1>1. Request(F, f) \in {G, F, Refuse(F, "collision")}
    BY DEF Request
  <1>2. e \in Places
    BY RunningFiber DEF Places
  <1>3. /\ row = [x \in EffectFields |-> row[x]]
        /\ row.state \in {"open", "completed", "failed"}
    BY DEF EffectFields
  <1>4. EffectRows(v)
    <2> HIDE DEF e, row
    <2>1. /\ DOMAIN v = DOMAIN F.effects \cup {e} /\ v[e] = row
          /\ \A y \in DOMAIN F.effects \ {e} : v[y] = F.effects[y]
      BY DEF Put
    <2> HIDE DEF v
    <2>2. EffectRows(F.effects)
      BY DEF Runs, Tidy, Typed
    <2>3. DOMAIN v \subseteq Places /\ IsFiniteSet(DOMAIN v)
      BY <1>2, <2>1, <2>2, FS_AddElement DEF EffectRows
    <2>4. \A y \in DOMAIN v : /\ v[y] = [x \in EffectFields |-> v[y][x]]
                              /\ v[y].state \in {"open", "completed", "failed"}
      <3> TAKE y \in DOMAIN v
      <3>1. CASE y = e
        BY <1>3, <2>1, <3>1, Zenon
      <3>2. CASE y # e
        BY <2>1, <2>2, <3>2, Zenon DEF EffectRows
      <3> QED
        BY <3>1, <3>2
    <2> QED
      BY <2>3, <2>4, Zenon DEF EffectRows
  <1>5. Tidy(G) /\ SameControl(F, G)
    <2> HIDE DEF v
    <2> QED
      BY <1>4, TidyEffects DEF Runs
  <1> HIDE DEF G
  <1>6. Runs(G, f)
    BY <1>5, StillRuns
  <1>7. Runs(Refuse(F, "collision"), f)
    BY TidyRefuse DEF Runs
  <1> QED
    BY <1>1, <1>6, <1>7

LEMMA RunsArms ==
    ASSUME NEW F, NEW f, Runs(F, f), NEW v PROVE Runs([F EXCEPT !.arms = v], f)
  <1> DEFINE G == [F EXCEPT !.arms = v]
  <1>1. Formed(G) /\ SameLedgers(F, G) /\ SameControl(F, G)
    BY SetArms DEF Runs, Tidy, Typed
  <1> HIDE DEF G
  <1>2. Tidy(G)
    BY <1>1 DEF Runs, Tidy, Typed, SameLedgers, SameStore, SameControl
  <1> QED
    BY <1>1, <1>2, StillRuns DEF G

LEMMA TidyBuffer ==
    ASSUME NEW F, Tidy(F), NEW v, BufferRows(v)
    PROVE  LET G == [F EXCEPT !.buffer = v] IN Tidy(G) /\ SameControl(F, G)
  <1> DEFINE G == [F EXCEPT !.buffer = v]
  <1>1. Formed(G) /\ SameButBuffer(F, G) /\ SameControl(F, G) /\ v = G.buffer
    BY SetBuffer DEF Tidy, Typed
  <1> HIDE DEF G
  <1>2. Tidy(G)
    BY <1>1, TidyRows DEF Tidy, Typed, SameButBuffer, SameStatus
  <1> QED
    BY <1>1, <1>2 DEF G

(* Statuses of messages change.                                            *)
LEMMA SetMessage ==
    ASSUME NEW bs, BufferRows(bs), NEW m,
           NEW v \in {"none", "buffered", "claimed", "consumed"}
    PROVE  BufferRows([bs EXCEPT ![m] = v])
  BY DEF BufferRows

LEMMA TidyConsume ==
    ASSUME NEW F, Tidy(F), NEW m
    PROVE  Tidy(Consume(F, m)) /\ SameControl(F, Consume(F, m))
  <1> DEFINE G == Consume(F, m)
  <1>1. /\ Formed(G) /\ SameStatus(F, G) /\ SameControl(F, G)
        /\ G.jobs = F.jobs /\ G.dead = F.dead /\ G.dedupe = F.dedupe
        /\ G.timers = F.timers /\ G.effects = F.effects
        /\ G.buffer = [F.buffer EXCEPT ![m] = "consumed"]
    BY ConsumeFrame DEF Tidy, Typed
  <1> HIDE DEF G
  <1>2. BufferRows(G.buffer)
    <2>1. BufferRows(F.buffer)
      BY ZenonT(30) DEF Tidy, Typed
    <2>2. BufferRows([F.buffer EXCEPT ![m] = "consumed"])
      BY <2>1, SetMessage, ZenonT(30)
    <2> QED
      BY <1>1, <2>2, ZenonT(30)
  <1>3. Tidy(G)
    BY <1>1, <1>2, TidyRows DEF Tidy, Typed
  <1> QED
    BY <1>1, <1>3 DEF G

LEMMA RunsPublish ==
    ASSUME NEW F, NEW f, Runs(F, f), F.fibers[f].pc \in DOMAIN Program
    PROVE  LET m == <<f, F.fibers[f].pc>>
           IN  Runs([F EXCEPT !.buffer = Put(@, m, "buffered")], f)
  <1> DEFINE m == <<f, F.fibers[f].pc>>
             v == Put(F.buffer, m, "buffered")
             G == [F EXCEPT !.buffer = v]
  <1>1. m \in Places
    BY RunningFiber DEF Places
  <1>2. BufferRows(v)
    <2> HIDE DEF m
    <2>1. /\ DOMAIN v = DOMAIN F.buffer \cup {m} /\ v[m] = "buffered"
          /\ \A y \in DOMAIN F.buffer \ {m} : v[y] = F.buffer[y]
      BY DEF Put
    <2> HIDE DEF v
    <2>2. BufferRows(F.buffer)
      BY DEF Runs, Tidy, Typed
    <2>3. IsFiniteSet(DOMAIN v \ Messages)
      <3>1. IsFiniteSet((DOMAIN F.buffer \ Messages) \cup {m})
        BY <2>2, FS_AddElement DEF BufferRows
      <3>2. DOMAIN v \ Messages \subseteq (DOMAIN F.buffer \ Messages) \cup {m}
        BY <2>1
      <3> QED
        BY <3>1, <3>2, FS_Subset
    <2> QED
      BY <1>1, <2>1, <2>2, <2>3 DEF BufferRows
  <1>3. Tidy(G) /\ SameControl(F, G)
    <2> HIDE DEF v
    <2> QED
      BY <1>2, TidyBuffer DEF Runs
  <1> HIDE DEF G
  <1>4. Runs(G, f)
    BY <1>3, StillRuns
  <1> QED
    BY <1>4 DEF G

LEMMA WaitInTick ==
    ASSUME NEW F, NEW f, Runs(F, f), F.fibers[f].pc \in DOMAIN Program, NEW i
    PROVE  /\ InTick(WaitFor(F, f, i), f) /\ InTick(WaitMsg(F, f, i), f)
           /\ InTick(AwaitEffect(F, f, i), f) /\ InTick(PublishMessage(F, f, i), f)
           /\ InTick(ArmMsg(F, f, i), f) /\ InTick(ArmEffect(F, f, i), f)
  <1>1. \A G, kind, ref : Runs(G, f) /\ kind \in {"Timer", "Msg", "Effect"} =>
            InTick(Park(G, f, Waiting(kind, ref)), f)
    <2> SUFFICES ASSUME NEW G, NEW kind \in {"Timer", "Msg", "Effect"}, NEW ref,
                        Runs(G, f)
                 PROVE  InTick(Park(G, f, Waiting(kind, ref)), f)
      OBVIOUS
    <2>1. Waiting(kind, ref).kind \in WaitKinds \ {"Barrier", "Race"}
      BY DEF Waiting, WaitKinds
    <2> QED
      BY <2>1, RunsPark DEF InTick
  <1>2. \A G : Runs(G, f) => Runs(Advance(G, f), f) /\ InTick(G, f)
    BY RunsAdvance, InTickRuns
  <1>3. InTick(WaitFor(F, f, i), f)
    <2>1. Runs(Schedule(F, f, "Wait", 0, 0, 0), f)
      BY RunsSchedule
    <2> QED
      BY <1>1, <1>2, <2>1 DEF WaitFor
  <1>4. InTick(WaitMsg(F, f, i), f)
    <2>1. \A m : Runs(Consume(F, m), f)
      BY TidyConsume, StillRuns DEF Runs
    <2>2. \A m : InTick(Advance(Consume(F, m), f), f)
      BY <1>2, <2>1
    <2>3. InTick(Refuse(F, "conflict"), f)
      BY InTickRefuse DEF Runs
    <2>4. InTick(Park(Advance(F, f), f, Waiting("Msg", <<i.name>>)), f)
      BY <1>1, <1>2
    <2>5. \/ WaitMsg(F, f, i) = Park(Advance(F, f), f, Waiting("Msg", <<i.name>>))
          \/ WaitMsg(F, f, i) = Refuse(F, "conflict")
          \/ \E m : WaitMsg(F, f, i) = Advance(Consume(F, m), f)
      BY Zenon DEF WaitMsg
    <2> QED
      BY <2>2, <2>3, <2>4, <2>5
  <1>5. InTick(AwaitEffect(F, f, i), f)
    BY <1>1, RunsRequest DEF AwaitEffect
  <1>6. InTick(PublishMessage(F, f, i), f)
    <2> DEFINE G == [F EXCEPT !.buffer = Put(@, <<f, F.fibers[f].pc>>, "buffered")]
    <2>1. InTick(Advance(G, f), f)
      BY <1>2, RunsPublish, Zenon
    <2>2. InTick(Refuse(F, "repeated"), f)
      BY InTickRefuse DEF Runs
    <2> QED
      BY <2>1, <2>2, Zenon DEF PublishMessage
  <1>7. InTick(ArmMsg(F, f, i), f)
    <2> DEFINE v == F.arms \cup {[name |-> i.name, effect |-> <<>>,
                                  target |-> i.target]}
    <2>1. Runs([F EXCEPT !.arms = v], f)
      BY RunsArms
    <2>2. ArmMsg(F, f, i) = Advance([F EXCEPT !.arms = v], f)
      BY DEF ArmMsg
    <2> QED
      BY <1>2, <2>1, <2>2
  <1>8. InTick(ArmEffect(F, f, i), f)
    <2> DEFINE G == Request(F, f)
               v == G.arms \cup {[name |-> "none", target |-> i.target,
                                  effect |-> <<f, F.fibers[f].pc>>]}
    <2>1. Runs(G, f)
      BY RunsRequest
    <2> HIDE DEF G
    <2>2. Runs([G EXCEPT !.arms = v], f)
      BY <2>1, RunsArms
    <2>3. ArmEffect(F, f, i) = Advance([G EXCEPT !.arms = v], f)
      BY DEF ArmEffect, G
    <2> QED
      BY <1>2, <2>2, <2>3
  <1> QED
    BY <1>3, <1>4, <1>5, <1>6, <1>7, <1>8

-----------------------------------------------------------------------------
(* The words that open and close scopes.                                   *)

LEMMA RecordRows ==
    ASSUME NEW recs, Records(recs)
    PROVE  /\ \A S : Records(Without(recs, S))
           /\ \A fbs, fs : Records(Expel(recs, fbs, fs))
           /\ \A handles, fs : Records(Enrol(recs, handles, fs))
           /\ \A rec : \A r \in Ids : Records(Put(recs, r, rec))
           /\ Records(<<>>)
  <1>1. ASSUME NEW S PROVE Records(Without(recs, S))
    <2>1. DOMAIN Without(recs, S) = DOMAIN recs \ S
      BY WithoutIs, ZenonT(30)
    <2>2. IsFiniteSet(DOMAIN recs \ S)
      BY FS_Subset DEF Records
    <2> QED
      BY <2>1, <2>2 DEF Records
  <1>2. ASSUME NEW fbs, NEW fs PROVE Records(Expel(recs, fbs, fs))
    <2>1. DOMAIN Expel(recs, fbs, fs) = DOMAIN recs
      BY DEF Expel
    <2> QED
      BY <2>1 DEF Records
  <1>3. ASSUME NEW handles, NEW fs PROVE Records(Enrol(recs, handles, fs))
    <2>1. DOMAIN Enrol(recs, handles, fs) = DOMAIN recs
      BY DEF Enrol
    <2> QED
      BY <2>1 DEF Records
  <1>4. ASSUME NEW rec, NEW r \in Ids PROVE Records(Put(recs, r, rec))
    <2>1. DOMAIN Put(recs, r, rec) = DOMAIN recs \cup {r}
      BY DEF Put
    <2>2. IsFiniteSet(DOMAIN recs \cup {r})
      BY FS_AddElement DEF Records
    <2> QED
      BY <2>1, <2>2 DEF Records
  <1>5. Records(<<>>)
    BY FS_EmptySet DEF Records
  <1> QED
    BY <1>1, <1>2, <1>3, <1>4, <1>5

LEMMA RunsOpen ==
    ASSUME NEW F, NEW f, Runs(F, f), NEW record, IsRecord(record)
    PROVE  Runs(Open(F, f, record), f)
  <1> DEFINE G == Open(F, f, record)
             fb == F.fibers[f]
             r == Fresh(F, 1)[1]
             s == Append(fb.stack, r)
  <1>1. /\ fb.stack \in Seq(Ids) /\ fb.epoch \in Nat /\ Kept(fb.stack, F.fibers)
        /\ f \in DOMAIN F.fibers /\ fb.wait = Running
    BY RunningFiber DEF Runs
  <1>2. r \in Ids /\ Unheld(r, F.fibers)
    BY FreshUnheld DEF Runs, Tidy
  <1>3. /\ Formed(G) /\ SameLedgers(F, G)
        /\ G.records = Put(F.records, r, record)
        /\ Others(G.fibers, F.fibers, f)
        /\ Stands(G.fibers[f], fb.pc + 1, s, Running, fb.epoch)
    BY OpenFrame, <1>1 DEF Runs, Tidy, Typed
  <1> HIDE DEF G, r
  <1>4. s \in Seq(Ids)
    BY <1>1, <1>2, AppendProperties
  <1>5. Enters(G.fibers[f], fb.stack, r)
    BY <1>1, <1>3, <1>4, PlainFiber, WaitingKind, ZenonT(30) DEF Stands, Enters
  <1>6. Records(G.records)
    BY <1>2, <1>3, RecordRows DEF Runs, Tidy, Typed
  <1>7. Fibers(G.fibers) /\ Prefixed(G.fibers)
    <2>1. \A g \in DOMAIN G.fibers :
            Steady(G.fibers[g], F.fibers) \/ Enters(G.fibers[g], fb.stack, r)
      BY <1>3, <1>5, SteadyFiber DEF Others, Runs, Tidy, Typed
    <2>2. DOMAIN G.fibers \subseteq Ids /\ IsFiniteSet(DOMAIN G.fibers)
      BY <1>3 DEF Others, Runs, Tidy, Typed, Fibers
    <2>3. Fibers(F.fibers) /\ Prefixed(F.fibers)
      BY DEF Runs, Tidy, Typed
    <2> QED
      BY <1>1, <1>2, <2>1, <2>2, <2>3, GrownFibers
  <1>8. Tidy(G)
    BY <1>3, <1>6, <1>7 DEF Runs, Tidy, Typed, SameLedgers, SameStore
  <1> QED
    BY <1>1, <1>3, <1>8 DEF Runs, Others, Stands, G

LEMMA OpenInTick ==
    ASSUME NEW F, NEW f, Runs(F, f), NEW i
    PROVE  /\ InTick(Guard(F, f, i), f) /\ InTick(GuardN(F, f, i), f)
           /\ InTick(GuardR(F, f, i), f) /\ InTick(RaceOpen(F, f, i), f)
  <1>1. \A kind : IsRecord(NewRecord(kind, {f}))
    BY NewRecordIs
  <1>2. \A rec, handler, opened : IsRecord(rec) =>
            IsRecord([rec EXCEPT !.handler = handler, !.opened = opened])
    BY Zenon DEF IsRecord, RecordFields
  <1>3. \A rec, opened, saved : IsRecord(rec) =>
            IsRecord([rec EXCEPT !.opened = opened, !.saved = saved])
    BY Zenon DEF IsRecord, RecordFields
  <1>4. \A G, rec : Runs(G, f) /\ IsRecord(rec) => InTick(Open(G, f, rec), f)
    BY RunsOpen, InTickRuns
  <1>5. InTick(Guard(F, f, i), f) /\ InTick(GuardN(F, f, i), f)
    BY <1>1, <1>2, <1>4, Zenon DEF Guard, GuardN
  <1>6. InTick(GuardR(F, f, i), f)
    <2> DEFINE saved == [payload |-> F.inst.payload, flags |-> F.inst.flags]
    <2>1. GuardR(F, f, i) = Open(F, f, [NewRecord("GuardR", {f}) EXCEPT
                                !.opened = F.fibers[f].pc, !.saved = saved])
      BY DEF GuardR
    <2> HIDE DEF saved
    <2> QED
      BY <1>1, <1>3, <1>4, <2>1, Zenon
  <1>7. InTick(RaceOpen(F, f, i), f)
    BY <1>1, <1>4, RunsArms DEF RaceOpen
  <1> QED
    BY <1>5, <1>6, <1>7

(* What is left when the top handle is popped.                             *)
LEMMA Popped ==
    ASSUME NEW F, NEW f, Runs(F, f), F.fibers[f].stack # <<>>
    PROVE  LET s == F.fibers[f].stack
           IN  /\ Front(s) \in Seq(Ids) /\ Kept(Front(s), F.fibers)
               /\ Last(s) \in Ids /\ Append(Front(s), Last(s)) = s
  <1> DEFINE s == F.fibers[f].stack
  <1>1. /\ s \in Seq(Ids) /\ EffectiveStack(F.fibers[f]) = s
        /\ f \in DOMAIN F.fibers
    BY RunningFiber
  <1> HIDE DEF s
  <1>2. /\ Front(s) \in Seq(Ids) /\ Len(Front(s)) = Len(s) - 1
        /\ \A n \in 1..(Len(s) - 1) : Front(s)[n] = s[n]
        /\ Last(s) \in Ids /\ Append(Front(s), Last(s)) = s
    BY <1>1, FrontIs DEF s
  <1>3. Below(Front(s), s)
    BY <1>1, <1>2, LenProperties DEF Below
  <1>4. Kept(Front(s), F.fibers)
    BY <1>1, <1>3 DEF Kept
  <1> QED
    BY <1>2, <1>4 DEF s

LEMMA RunsClose ==
    ASSUME NEW F, NEW f, Runs(F, f), F.fibers[f].stack # <<>>, NEW i
    PROVE  Runs(GuardEnd(F, f, i), f)
  <1> DEFINE G == GuardEnd(F, f, i)
             fb == F.fibers[f]
             s == Front(fb.stack)
  <1>1. /\ fb.epoch \in Nat /\ f \in DOMAIN F.fibers /\ fb.wait = Running
        /\ s \in Seq(Ids) /\ Kept(s, F.fibers)
    BY RunningFiber, Popped DEF Runs
  <1>2. /\ Formed(G) /\ SameLedgers(F, G)
        /\ G.records = Without(F.records, {Last(fb.stack)})
        /\ Others(G.fibers, F.fibers, f)
        /\ Stands(G.fibers[f], fb.pc + 1, s, Running, fb.epoch)
    BY CloseFrame, <1>1, Zenon DEF Runs, Tidy, Typed
  <1> HIDE DEF G, s
  <1>3. Steady(G.fibers[f], F.fibers)
    BY <1>1, <1>2, PlainSteady, WaitingKind
  <1>4. Status(G.inst) /\ SameStore(F, G) /\ Records(G.records)
    BY <1>2, RecordRows DEF Runs, Tidy, Typed, SameLedgers
  <1>5. Tidy(G)
    BY <1>1, <1>2, <1>3, <1>4, TidyFiber DEF Runs
  <1> QED
    BY <1>1, <1>2, <1>5 DEF Runs, Others, Stands, G

LEMMA ArmInTick ==
    ASSUME NEW F, NEW f, Runs(F, f), F.fibers[f].pc \in DOMAIN Program, NEW i
    PROVE  /\ InTick(ArmTimer(F, f, i), f) /\ InTick(GuardArmError(F, f, i), f)
           /\ i.fires \in Nat => InTick(GuardArmTimer(F, f, i), f)
  <1>1. \A kind, rec, target : \A left \in Nat :
            InTick(Advance(Schedule(F, f, kind, rec, target, left), f), f)
    BY RunsSchedule, RunsAdvance, InTickRuns
  <1>2. InTick(ArmTimer(F, f, i), f)
    BY <1>1 DEF ArmTimer
  <1>3. i.fires \in Nat => InTick(GuardArmTimer(F, f, i), f)
    <2> SUFFICES ASSUME i.fires \in Nat PROVE InTick(GuardArmTimer(F, f, i), f)
      OBVIOUS
    <2>1. \/ GuardArmTimer(F, f, i) =
                Advance(Schedule(F, f, "Guard", Top(F, f), 0, i.fires), f)
          \/ GuardArmTimer(F, f, i) =
                Advance(Schedule(F, f, "Guard", Top(F, f), 0, 0), f)
      BY DEF GuardArmTimer
    <2> QED
      BY <1>1, <2>1
  <1>4. InTick(GuardArmError(F, f, i), f)
    <2> DEFINE G == GuardArmError(F, f, i)
               fb == F.fibers[f]
               r == Last(fb.stack)
    <2>1. CASE ~(r \in DOMAIN F.records /\ F.records[r].kind \in GuardWords)
      <3>1. G = Refuse(F, "handle")
        BY <2>1, Zenon DEF GuardArmError, Top
      <3> QED
        BY <3>1, InTickRefuse DEF Runs
    <2>2. CASE r \in DOMAIN F.records /\ F.records[r].kind \in GuardWords
      <3>1. /\ fb.stack \in Seq(Ids) /\ fb.epoch \in Nat
            /\ Kept(fb.stack, F.fibers)
            /\ f \in DOMAIN F.fibers /\ fb.wait = Running
        BY RunningFiber DEF Runs
      <3>2. /\ Formed(G) /\ SameLedgers(F, G)
            /\ G.records = Routed(F.records, r, i)
            /\ Others(G.fibers, F.fibers, f)
            /\ Stands(G.fibers[f], fb.pc + 1, fb.stack, Running, fb.epoch)
        BY <2>2, <3>1, ArmErrorFrame, Zenon DEF Runs, Tidy, Typed
      <3>3. DOMAIN Routed(F.records, r, i) = DOMAIN F.records
        BY <2>2, RoutedIs DEF Runs, Tidy, Typed, Formed
      <3> HIDE DEF G
      <3>4. Steady(G.fibers[f], F.fibers)
        BY <3>1, <3>2, PlainSteady, WaitingKind
      <3>5. Status(G.inst) /\ SameStore(F, G) /\ Records(G.records)
        BY <3>2, <3>3 DEF Runs, Tidy, Typed, SameLedgers, Records
      <3>6. Tidy(G)
        BY <3>1, <3>2, <3>4, <3>5, TidyFiber DEF Runs
      <3>7. Runs(G, f)
        BY <3>1, <3>2, <3>6 DEF Runs, Others, Stands
      <3> QED
        BY <3>7, InTickRuns DEF G
    <2> QED
      BY <2>1, <2>2
  <1> QED
    BY <1>2, <1>3, <1>4

(* A fibre that parks on the handle it has popped still belongs to it.     *)
LEMMA ParkedSteady ==
    ASSUME NEW F, NEW f, Runs(F, f), F.fibers[f].stack # <<>>
    PROVE  \A fb, pc, wait :
              /\ Stands(fb, pc, Front(F.fibers[f].stack), wait, F.fibers[f].epoch)
              /\ wait.kind \in {"Barrier", "Race"}
              /\ wait.ref = <<Last(F.fibers[f].stack)>>
              => Steady(fb, F.fibers)
  <1> DEFINE s == F.fibers[f].stack
  <1> SUFFICES ASSUME NEW fb, NEW pc, NEW wait, wait.kind \in {"Barrier", "Race"},
                      wait.ref = <<Last(s)>>,
                      Stands(fb, pc, Front(s), wait, F.fibers[f].epoch)
               PROVE  Steady(fb, F.fibers)
    OBVIOUS
  <1>1. /\ Front(s) \in Seq(Ids) /\ Last(s) \in Ids
        /\ Append(Front(s), Last(s)) = s
        /\ F.fibers[f].epoch \in Nat /\ Kept(s, F.fibers)
    BY Popped, RunningFiber
  <1>2. /\ fb.stack = Front(s) /\ fb.epoch \in Nat /\ fb.wait = wait
    BY <1>1 DEF Stands
  <1>3. TypedFiber(fb) /\ EffectiveStack(fb) = Append(fb.stack, Last(s))
    BY <1>1, <1>2, ParkedFiber
  <1> QED
    BY <1>1, <1>2, <1>3 DEF Steady

LEMMA RaceCloseInTick ==
    ASSUME NEW F, NEW f, Runs(F, f), F.fibers[f].stack # <<>>, NEW i
    PROVE  InTick(RaceClose(F, f, i), f)
  <1> DEFINE G == RaceClose(F, f, i)
             fb == F.fibers[f]
             w == [kind |-> "Race", ref |-> <<Last(fb.stack)>>, arms |-> F.arms]
  <1>1. f \in DOMAIN F.fibers
    BY DEF Runs
  <1>2. /\ Formed(G) /\ SameLedgers(F, G) /\ G.records = F.records /\ G.stop = TRUE
        /\ Others(G.fibers, F.fibers, f)
        /\ Stands(G.fibers[f], fb.pc, Front(fb.stack), w, fb.epoch)
    BY <1>1, RaceCloseFrame, Zenon DEF Runs, Tidy, Typed
  <1>3. w.kind \in {"Barrier", "Race"} /\ w.ref = <<Last(fb.stack)>>
    OBVIOUS
  <1> HIDE DEF G, w
  <1>4. Steady(G.fibers[f], F.fibers)
    BY <1>2, <1>3, ParkedSteady, ZenonT(30)
  <1>5. Status(G.inst) /\ SameStore(F, G) /\ Records(G.records)
    BY <1>2 DEF Runs, Tidy, Typed, SameLedgers
  <1>6. Tidy(G)
    BY <1>1, <1>2, <1>4, <1>5, TidyFiber DEF Runs
  <1> QED
    BY <1>2, <1>6 DEF InTick, G

(* Fibre f goes on while others die.                                       *)
LEMMA RunsAlone ==
    ASSUME NEW F, NEW f, Runs(F, f), NEW G, Formed(G), Status(G.inst),
           SameStore(F, G), Records(G.records), NEW dying, f \notin dying,
           Survives(G.fibers, F.fibers, dying, f),
           Steady(G.fibers[f], F.fibers), G.fibers[f].wait = Running
    PROVE  Runs(G, f)
  <1>1. Fibers(F.fibers) /\ Prefixed(F.fibers)
    BY DEF Runs, Tidy, Typed
  <1>2. \A g \in DOMAIN G.fibers : Steady(G.fibers[g], F.fibers)
    BY <1>1, SteadyFiber DEF Survives
  <1>3. DOMAIN G.fibers \subseteq Ids /\ IsFiniteSet(DOMAIN G.fibers)
    BY <1>1, FS_Subset DEF Fibers, Survives
  <1>4. Fibers(G.fibers) /\ Prefixed(G.fibers)
    BY <1>1, <1>2, <1>3, ShrunkFibers
  <1>5. Tidy(G)
    BY <1>4 DEF Runs, Tidy, Typed, SameStore
  <1> QED
    BY <1>5 DEF Runs, Survives

LEMMA CancelInTick ==
    ASSUME NEW F, NEW f, Runs(F, f), F.fibers[f].stack # <<>>, NEW i
    PROVE  InTick(CancelScope(F, f, i), f)
  <1> DEFINE G == CancelScope(F, f, i)
             fb == F.fibers[f]
             r == Last(fb.stack)
             s == Front(fb.stack)
             dying == Holders(F, r) \ {f}
  <1>1. CASE r \notin DOMAIN F.records \/ F.records[r].kind # "GuardR"
    <2>1. G = Refuse(F, "handle")
      BY <1>1, Zenon DEF CancelScope, Top
    <2> QED
      BY <2>1, InTickRefuse DEF Runs
  <1>2. CASE r \in DOMAIN F.records /\ F.records[r].kind = "GuardR"
    <2>1. /\ fb.epoch \in Nat /\ f \in DOMAIN F.fibers /\ fb.wait = Running
          /\ s \in Seq(Ids) /\ Kept(s, F.fibers)
      BY RunningFiber, Popped DEF Runs
    <2>2. /\ Formed(G) /\ SameStatus(F, G) /\ SameStore(F, G)
          /\ Survives(G.fibers, F.fibers, dying, f)
          /\ Stands(G.fibers[f], fb.pc + 1, s, fb.wait, fb.epoch)
          /\ G.records = Retired(Pop(F, f), r, dying)
      BY <1>2, <2>1, CancelScopeFrame, Zenon DEF Runs, Tidy, Typed
    <2> HIDE DEF G, s
    <2>3. Steady(G.fibers[f], F.fibers) /\ G.fibers[f].wait = Running
      BY <2>1, <2>2, PlainSteady, WaitingKind, ZenonT(30) DEF Stands
    <2>4. Records(G.records)
      <3>1. Pop(F, f).records = F.records
        BY <2>1, PopFrame DEF Runs, Tidy, Typed
      <3>2. Records(Without(F.records, Scope(Pop(F, f), r)))
        BY RecordRows DEF Runs, Tidy, Typed
      <3> QED
        BY <2>2, <3>1, <3>2, RecordRows DEF Retired
    <2>5. Status(G.inst)
      BY <2>2 DEF Runs, Tidy, Typed, SameStatus, Status
    <2>6. f \notin dying
      OBVIOUS
    <2> HIDE DEF dying
    <2>7. Runs(G, f)
      BY <2>2, <2>3, <2>4, <2>5, <2>6, RunsAlone
    <2> QED
      BY <2>7, InTickRuns DEF G
  <1> QED
    BY <1>1, <1>2

LEMMA JoinInTick ==
    ASSUME NEW F, NEW f, Runs(F, f), F.fibers[f].stack # <<>>, NEW i
    PROVE  InTick(Join(F, f, i), f)
  <1> DEFINE G == Join(F, f, i)
             fb == F.fibers[f]
             r == Last(fb.stack)
             s == Front(fb.stack)
             others == F.records[r].members \ {f}
  <1>1. CASE r \notin DOMAIN F.records
    <2>1. G = Refuse(F, "handle")
      BY <1>1, Zenon DEF Join, Top
    <2> QED
      BY <2>1, InTickRefuse DEF Runs
  <1>2. CASE r \in DOMAIN F.records /\ F.records[r].count > 1
    <2> DEFINE w == Waiting("Barrier", <<r>>)
    <2>1. f \in DOMAIN F.fibers
      BY DEF Runs
    <2>2. /\ Formed(G) /\ SameLedgers(F, G) /\ G.stop = TRUE
          /\ G.records = CountDown(F.records, r)
          /\ Others(G.fibers, F.fibers, f)
          /\ Stands(G.fibers[f], fb.pc, s, w, fb.epoch)
      BY <1>2, <2>1, JoinParkFrame, Zenon DEF Runs, Tidy, Typed
    <2>3. w.kind \in {"Barrier", "Race"} /\ w.ref = <<Last(fb.stack)>>
      BY DEF Waiting
    <2>4. DOMAIN CountDown(F.records, r) = DOMAIN F.records
      BY DEF CountDown
    <2> HIDE DEF G, w
    <2>5. Steady(G.fibers[f], F.fibers)
      BY <2>2, <2>3, ParkedSteady
    <2>6. Status(G.inst) /\ SameStore(F, G) /\ Records(G.records)
      BY <2>2, <2>4 DEF Runs, Tidy, Typed, SameLedgers, Records
    <2>7. Tidy(G)
      BY <2>1, <2>2, <2>5, <2>6, TidyFiber DEF Runs
    <2> QED
      BY <2>2, <2>7 DEF InTick, G
  <1>3. CASE r \in DOMAIN F.records /\ ~(F.records[r].count > 1)
    <2>1. /\ fb.epoch \in Nat /\ f \in DOMAIN F.fibers /\ fb.wait = Running
          /\ s \in Seq(Ids) /\ Kept(s, F.fibers)
      BY RunningFiber, Popped DEF Runs
    <2>2. /\ Formed(G) /\ SameLedgers(F, G)
          /\ G.records = Expel(Without(F.records, {r}), F.fibers, others)
          /\ Survives(G.fibers, F.fibers, others, f)
          /\ Stands(G.fibers[f], fb.pc + 1, s, fb.wait, fb.epoch)
      BY <1>3, <2>1, JoinLastFrame, Zenon DEF Runs, Tidy, Typed
    <2> HIDE DEF G, s
    <2>3. Steady(G.fibers[f], F.fibers) /\ G.fibers[f].wait = Running
      BY <2>1, <2>2, PlainSteady, WaitingKind, ZenonT(30) DEF Stands
    <2>4. Records(G.records)
      <3>1. Records(Without(F.records, {r}))
        BY RecordRows DEF Runs, Tidy, Typed
      <3> QED
        BY <2>2, <3>1, RecordRows
    <2>5. Status(G.inst) /\ SameStore(F, G) /\ f \notin others
      BY <2>2, ZenonT(30) DEF Runs, Tidy, Typed, SameLedgers
    <2> HIDE DEF others
    <2>6. Runs(G, f)
      BY <2>2, <2>3, <2>4, <2>5, RunsAlone
    <2> QED
      BY <2>6, InTickRuns DEF G
  <1> QED
    BY <1>1, <1>2, <1>3

LEMMA ForkInTick ==
    ASSUME NEW F, NEW f, Runs(F, f), NEW i, i.targets \in Seq(Nat)
    PROVE  InTick(Fork(F, f, i), f)
  <1> DEFINE G == Fork(F, f, i)
             n == Len(i.targets)
             ids == Fresh(F, n + 1)
             r == ids[1]
             kids == Kids(F, n)
             stack == F.fibers[f].stack
  <1>1. /\ stack \in Seq(Ids) /\ Kept(stack, F.fibers) /\ f \in DOMAIN F.fibers
        /\ n \in Nat /\ n + 1 \in Nat /\ 1 \in 1..(n + 1)
    BY RunningFiber, LenProperties
  <1>2. r \in Ids /\ Unheld(r, F.fibers)
    <2> HIDE DEF n
    <2> QED
      BY <1>1, FreshUnheld DEF Runs, Tidy
  <1>3. kids \subseteq Ids /\ IsFiniteSet(kids)
    <2> DEFINE g == [j \in 1..n |-> ids[j + 1]]
    <2>1. kids = {g[j] : j \in 1..n}
      BY ZenonT(30) DEF Kids
    <2>2. \A j \in 1..n : ids[j + 1] \in Ids
      <3> HIDE DEF n
      <3> SUFFICES ASSUME NEW j \in 1..n PROVE ids[j + 1] \in Ids
        OBVIOUS
      <3>1. j + 1 \in 1..(n + 1)
        BY <1>1
      <3> QED
        BY <1>1, <3>1, FreshUnheld DEF Runs, Tidy
    <2>3. IsFiniteSet(1..n) /\ 1..n = DOMAIN g
      BY <1>1, FS_Interval
    <2>4. IsFiniteSet({g[j] : j \in 1..n})
      <3> HIDE DEF g, n
      <3> QED
        BY <2>3, ImageFinite, ZenonT(30)
    <2> QED
      BY <2>1, <2>2, <2>4, ZenonT(30)
  <1>4. /\ Formed(G) /\ SameLedgers(F, G) /\ G.stop = TRUE
        /\ Forked(G.fibers, F.fibers, f, kids) /\ Born(G.fibers, F, f, i)
        /\ G.records = Put(Enrol(Expel(F.records, F.fibers, {f}),
                                 Range(stack), kids), r, Barrier(kids, n))
    BY <1>1, ForkFrame, Zenon DEF Runs, Tidy, Typed
  <1> HIDE DEF G, r, kids
  <1>5. \A g \in kids : Enters(G.fibers[g], stack, r)
    <2>1. Append(stack, r) \in Seq(Ids)
      BY <1>1, <1>2, AppendProperties
    <2>2. \A fb, pc : Stands(fb, pc, Append(stack, r), Running, 0)
                        => Enters(fb, stack, r)
      <3> SUFFICES ASSUME NEW fb, NEW pc,
                          Stands(fb, pc, Append(stack, r), Running, 0)
                   PROVE  Enters(fb, stack, r)
        OBVIOUS
      <3>1. fb.stack = Append(stack, r) /\ fb.epoch = 0 /\ fb.wait = Running
        BY DEF Stands
      <3>2. /\ fb.stack \in Seq(Ids) /\ fb.epoch \in Nat
            /\ fb.wait.kind \in WaitKinds \ {"Barrier", "Race"}
        BY <2>1, <3>1, WaitingKind
      <3>3. TypedFiber(fb) /\ EffectiveStack(fb) = fb.stack
        BY <3>2, PlainFiber
      <3> QED
        BY <3>1, <3>3 DEF Enters
    <2> QED
      BY <1>4, <2>2, Zenon DEF Born, kids, r
  <1>6. Fibers(F.fibers) /\ Prefixed(F.fibers)
    BY DEF Runs, Tidy, Typed
  <1>7. \A g \in DOMAIN G.fibers :
            Steady(G.fibers[g], F.fibers) \/ Enters(G.fibers[g], stack, r)
    BY <1>4, <1>5, <1>6, SteadyFiber DEF Forked
  <1>8. DOMAIN G.fibers \subseteq Ids /\ IsFiniteSet(DOMAIN G.fibers)
    <2>1. IsFiniteSet(DOMAIN F.fibers \ {f})
      BY <1>6, FS_Subset DEF Fibers
    <2>2. IsFiniteSet((DOMAIN F.fibers \ {f}) \cup kids)
      BY <1>3, <2>1, FS_Union, ZenonT(30)
    <2> QED
      BY <1>3, <1>4, <1>6, <2>2 DEF Fibers, Forked
  <1>9. Fibers(G.fibers) /\ Prefixed(G.fibers)
    BY <1>1, <1>2, <1>6, <1>7, <1>8, GrownFibers
  <1>10. Records(G.records)
    <2>1. Records(Expel(F.records, F.fibers, {f}))
      BY RecordRows DEF Runs, Tidy, Typed
    <2>2. Records(Enrol(Expel(F.records, F.fibers, {f}), Range(stack), kids))
      BY <2>1, RecordRows
    <2> QED
      BY <1>2, <1>4, <2>2, RecordRows
  <1>11. Tidy(G)
    BY <1>4, <1>9, <1>10 DEF Runs, Tidy, Typed, SameLedgers, SameStore
  <1> QED
    BY <1>4, <1>11 DEF InTick, G

-----------------------------------------------------------------------------
(* The words that end a fibre or the instance.                             *)

LEMMA DisarmedRows ==
    ASSUME NEW ts, TimerRows(ts), NEW S PROVE TimerRows(Disarmed(ts, S))
  <1> DEFINE v == Disarmed(ts, S)
  <1>1. DOMAIN v = DOMAIN ts
    BY DEF Disarmed
  <1>2. ASSUME NEW t \in DOMAIN ts
        PROVE  v[t] = [x \in TimerFields |-> v[t][x]] /\ v[t].left \in Nat
    <2>1. ts[t] = [x \in TimerFields |-> ts[t][x]] /\ ts[t].left \in Nat
      BY DEF TimerRows
    <2>2. v[t] = ts[t] \/ v[t] = [ts[t] EXCEPT !.armed = FALSE]
      BY DEF Disarmed
    <2>3. CASE v[t] = ts[t]
      BY <2>1, <2>3, Zenon
    <2>4. CASE v[t] = [ts[t] EXCEPT !.armed = FALSE]
      BY <2>1, <2>4, ZenonT(30) DEF TimerFields
    <2> QED
      BY <2>2, <2>3, <2>4
  <1> HIDE DEF v
  <1>3. TimerRows(v)
    BY <1>1, <1>2, Zenon DEF TimerRows
  <1> QED
    BY <1>3 DEF v

LEMMA NoFibers == Fibers(<<>>) /\ Prefixed(<<>>)
  <1>1. DOMAIN <<>> = {}
    OBVIOUS
  <1> QED
    BY <1>1, FS_EmptySet DEF Fibers, Prefixed

LEMMA TidyFinish ==
    ASSUME NEW F, Tidy(F), NEW state \in Terminal
    PROVE  Tidy(Finish(F, state))
  <1> DEFINE G == Finish(F, state)
  <1>1. /\ Formed(G)
        /\ G.inst.workflow = F.inst.workflow /\ G.inst.state = state
        /\ G.inst.incident = F.inst.incident
        /\ G.fibers = <<>> /\ G.jobs = <<>> /\ G.dead = {}
        /\ G.records = F.records /\ G.dedupe = F.dedupe
        /\ G.timers = Disarmed(F.timers, DOMAIN F.timers)
        /\ G.effects = F.effects /\ G.buffer = F.buffer
    <2>1. Formed(F)
      BY ZenonT(30) DEF Tidy, Typed
    <2> QED
      BY <2>1, FinishFrame
  <1> HIDE DEF G
  <1>2. Status(G.inst)
    BY <1>1 DEF Tidy, Typed, Status
  <1>3. TimerRows(G.timers)
    BY <1>1, DisarmedRows, ZenonT(30) DEF Tidy, Typed
  <1>4. JobRows(G.jobs, G.dead, G.dedupe)
    <2>1. JobRows(F.jobs, F.dead, F.dedupe)
      BY ZenonT(30) DEF Tidy, Typed
    <2>2. DOMAIN <<>> = {}
      OBVIOUS
    <2> QED
      BY <1>1, <2>1, <2>2, ZenonT(30) DEF JobRows
  <1>5. Tidy(G)
    BY <1>1, <1>2, <1>3, <1>4, NoFibers DEF Tidy, Typed
  <1> QED
    BY <1>5 DEF G

LEMMA TidyWithout ==
    ASSUME NEW F, Tidy(F), NEW S
    PROVE  LET G == [F EXCEPT !.fibers = Without(@, S), !.stop = TRUE]
           IN  Tidy(G) /\ G.stop
  <1> DEFINE fbs == Without(F.fibers, S)
             G == [F EXCEPT !.fibers = fbs, !.stop = TRUE]
  <1>1. Fibers(fbs) /\ Prefixed(fbs) /\ FibersFormed(fbs)
    BY FewerFibers, WithoutFibers DEF Tidy, Typed, Formed
  <1> HIDE DEF fbs
  <1>2. /\ G = [x \in Fields |-> G[x]] /\ SameLedgers(F, G)
        /\ G.records = F.records /\ G.fibers = fbs /\ G.stop = TRUE
    BY ZenonT(30) DEF Tidy, Typed, Formed, Fields, SameLedgers, SameStore
  <1>3. G = [F EXCEPT !.fibers = Without(@, S), !.stop = TRUE]
    BY DEF fbs
  <1> HIDE DEF G
  <1>4. Formed(G)
    BY <1>1, <1>2 DEF Tidy, Typed, Formed, SameLedgers
  <1>5. Tidy(G)
    BY <1>1, <1>2, <1>4 DEF Tidy, Typed, SameLedgers, SameStore
  <1> QED
    BY <1>2, <1>3, <1>5, ZenonT(30)

LEMMA TidySweep ==
    ASSUME NEW F, Tidy(F) PROVE Tidy([F EXCEPT !.records = <<>>])
  <1> DEFINE G == [F EXCEPT !.records = <<>>]
  <1>1. Formed(G) /\ SameLedgers(F, G) /\ G.fibers = F.fibers /\ G.records = <<>>
    BY DEF Tidy, Typed, Formed, Fields, SameLedgers, SameStore, RecordsFormed
  <1> HIDE DEF G
  <1>2. Records(<<>>)
    BY RecordRows DEF Tidy, Typed
  <1>3. Tidy(G)
    BY <1>1, <1>2 DEF Tidy, Typed, SameLedgers, SameStore
  <1> QED
    BY <1>3 DEF G

LEMMA TidyStop ==
    ASSUME NEW F, Tidy(F)
    PROVE  Tidy([F EXCEPT !.stop = TRUE]) /\ [F EXCEPT !.stop = TRUE].stop
  <1> DEFINE G == [F EXCEPT !.stop = TRUE]
  <1>1. /\ Formed(G) /\ SameLedgers(F, G) /\ G.fibers = F.fibers
        /\ G.records = F.records /\ G.stop
    BY ZenonT(30) DEF Tidy, Typed, Formed, Fields, SameLedgers, SameStore
  <1> HIDE DEF G
  <1>2. Tidy(G)
    BY <1>1 DEF Tidy, Typed, SameLedgers, SameStore
  <1> QED
    BY <1>1, <1>2 DEF G

LEMMA EndInTick ==
    ASSUME NEW F, NEW f, Runs(F, f), NEW i
    PROVE  InTick(End(F, f, i), f) /\ InTick(EndTerminate(F, f, i), f)
  <1> DEFINE G == [F EXCEPT !.fibers = Without(@, {f}), !.stop = TRUE]
             E == Finish(G, "Completed")
  <1>1. Tidy(G) /\ G.stop
    BY TidyWithout, ZenonT(30) DEF Runs
  <1>2. End(F, f, i) \in {G, E}
    BY DEF End
  <1> HIDE DEF G
  <1>3. Tidy(E) /\ E.stop
    <2>1. SameTick(G, E)
      BY <1>1, FinishFrame DEF Tidy, Typed
    <2> QED
      BY <1>1, <2>1, TidyFinish, ZenonT(30) DEF Terminal, SameTick
  <1> HIDE DEF E
  <1>4. InTick(End(F, f, i), f)
    BY <1>1, <1>2, <1>3 DEF InTick
  <1>5. InTick(EndTerminate(F, f, i), f)
    <2> DEFINE T == Finish(F, "Terminated")
               R == [T EXCEPT !.records = <<>>]
    <2>1. Tidy(T)
      BY TidyFinish DEF Terminal, Runs
    <2> HIDE DEF T
    <2>2. Tidy(R)
      BY <2>1, TidySweep
    <2>3. EndTerminate(F, f, i) = [R EXCEPT !.stop = TRUE]
      BY Zenon DEF EndTerminate, T
    <2> HIDE DEF R
    <2> QED
      BY <2>2, <2>3, TidyStop DEF InTick
  <1> QED
    BY <1>4, <1>5

LEMMA WordInTick ==
    ASSUME NEW F, NEW f, Runs(F, f), F.fibers[f].pc \in DOMAIN Program,
           NEW i, WellTyped(i), i.op \in ScopeWords => F.fibers[f].stack # <<>>
    PROVE  InTick(Word(F, f, i), f)
  <1>1. /\ InTick(Jump(F, f, i), f) /\ InTick(BrIf(F, f, i), f)
        /\ InTick(BrIfNot(F, f, i), f) /\ InTick(BrCounterLt(F, f, i), f)
        /\ InTick(MiArityCheck(F, f, i), f) /\ InTick(MiIndexLive(F, f, i), f)
        /\ InTick(MiLoadElement(F, f, i), f) /\ InTick(IncCounter(F, f, i), f)
        /\ InTick(Fail(F, f, i), f) /\ InTick(RoutePayload(F, f, i), f)
        /\ InTick(ExecNative(F, f, i), f) /\ InTick(ExecDslTask(F, f, i), f)
    BY BranchInTick, TaskInTick, ZenonT(30)
  <1>2. /\ InTick(WaitFor(F, f, i), f) /\ InTick(WaitMsg(F, f, i), f)
        /\ InTick(AwaitEffect(F, f, i), f) /\ InTick(PublishMessage(F, f, i), f)
        /\ InTick(ArmMsg(F, f, i), f) /\ InTick(ArmEffect(F, f, i), f)
        /\ InTick(Guard(F, f, i), f) /\ InTick(GuardN(F, f, i), f)
        /\ InTick(GuardR(F, f, i), f) /\ InTick(RaceOpen(F, f, i), f)
        /\ InTick(End(F, f, i), f) /\ InTick(EndTerminate(F, f, i), f)
    BY WaitInTick, OpenInTick, EndInTick, ZenonT(30)
  <1>3. /\ InTick(ArmTimer(F, f, i), f) /\ InTick(GuardArmError(F, f, i), f)
        /\ i.op = "GuardArmTimer" => InTick(GuardArmTimer(F, f, i), f)
        /\ i.op = "Fork" => InTick(Fork(F, f, i), f)
    BY ArmInTick, ForkInTick DEF WellTyped
  <1>4. ASSUME i.op \in ScopeWords
        PROVE  /\ InTick(GuardEnd(F, f, i), f) /\ InTick(GuardNEnd(F, f, i), f)
               /\ InTick(GuardREnd(F, f, i), f) /\ InTick(RaceClose(F, f, i), f)
               /\ InTick(CancelScope(F, f, i), f) /\ InTick(Join(F, f, i), f)
    <2>1. F.fibers[f].stack # <<>>
      BY <1>4
    <2>2. InTick(GuardEnd(F, f, i), f)
      BY <2>1, RunsClose, InTickRuns
    <2>3. /\ GuardNEnd(F, f, i) = GuardEnd(F, f, i)
          /\ GuardREnd(F, f, i) = GuardEnd(F, f, i)
      BY Zenon DEF GuardEnd, GuardNEnd, GuardREnd
    <2> QED
      BY <2>1, <2>2, <2>3, RaceCloseInTick, CancelInTick, JoinInTick
  <1>5. i.op \in Opcodes
    BY DEF WellTyped
  <1> QED
    BY <1>1, <1>2, <1>3, <1>4, <1>5, SMTT(60) DEF Word, Opcodes, ScopeWords

-----------------------------------------------------------------------------
(* The tick.                                                               *)

LEMMA TypedProgram ==
    ASSUME inst.workflow \in Admitted, NEW a \in DOMAIN Program
    PROVE  WellTyped(Program[a])
  BY ProgramAssumption DEF Program, Admitted

LEMMA ExecInTick ==
    ASSUME inst.workflow \in Admitted, NEW F, NEW f, InTick(F, f)
    PROVE  InTick(Exec(F, f), f)
  <1> DEFINE pc == F.fibers[f].pc
             i == Program[pc]
  <1>1. CASE F.stop \/ F.error # "none"
    BY <1>1 DEF Exec
  <1>2. CASE ~(F.stop \/ F.error # "none")
    <2>1. Runs(F, f) /\ Tidy(F)
      BY <1>2 DEF InTick
    <2>2. InTick(Refuse(F, "pc"), f) /\ InTick(Refuse(F, "underflow"), f)
      BY <2>1, InTickRefuse
    <2>3. ASSUME pc \in DOMAIN Program,
                 ~(i.op \in ScopeWords /\ F.fibers[f].stack = <<>>)
          PROVE  InTick(Word(F, f, i), f)
      <3>1. WellTyped(i)
        BY <2>3, TypedProgram
      <3> QED
        BY <2>1, <2>3, <3>1, WordInTick
    <2> QED
      BY <1>2, <2>2, <2>3 DEF Exec
  <1> QED
    BY <1>1, <1>2
=============================================================================
