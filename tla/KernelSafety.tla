---------------------------- MODULE KernelSafety ----------------------------
(***************************************************************************)
(* The commands keep the kernel's state typed and every handle in its      *)
(* place: for any programs that the verifier admits and any order of       *)
(* ticks, answers, failures, timers, messages and operator commands.       *)
(***************************************************************************)
EXTENDS Kernel, KernelControl

(* How long the provers may take.                                          *)
USE SMTT(10), ZenonT(30)

(* Every frame a tick computes is in order.                                *)
LEMMA RunInTick ==
    ASSUME inst.workflow \in Admitted, NEW F, NEW f, Runs(F, f),
           NEW G \in RunFiber(F, f)
    PROVE  Tidy(G)
  <1> DEFINE N == Limits.max_steps
             after == CHOOSE g : IsRun(g, N, F, f)
             S == {n \in Nat : n \in 0..N => \A H \in after[n] : InTick(H, f)}
  <1>1. N \in Nat
    BY StepsAssumption DEF Limits
  <1>2. IsRun(after, N, F, f)
    BY <1>1, RunExists
  <1> HIDE DEF N, after
  <1>3. /\ after[0] = {F}
        /\ \A n \in 0..N : n # 0 => after[n] = {Exec(H, f) : H \in after[n - 1]}
    BY <1>1, <1>2 DEF IsRun
  <1>4. 0 \in S
    BY <1>3, InTickRuns
  <1>5. ASSUME NEW n \in S PROVE n + 1 \in S
    <2>1. n \in Nat
      OBVIOUS
    <2>2. SUFFICES ASSUME n + 1 \in 0..N, NEW H \in after[n + 1]
                   PROVE  InTick(H, f)
      BY <2>1
    <2>3. n \in 0..N /\ after[n + 1] = {Exec(K, f) : K \in after[n]}
      BY <1>1, <1>3, <2>1, <2>2
    <2>4. PICK K \in after[n] : H = Exec(K, f)
      BY <2>2, <2>3
    <2>5. InTick(K, f)
      BY <2>3, <2>4
    <2> QED
      BY <2>4, <2>5, ExecInTick
  <1>6. S = Nat
    <2> HIDE DEF S
    <2>1. S \in SUBSET Nat
      BY DEF S
    <2> QED
      BY <1>4, <1>5, <2>1, Induction
  <1>7. \A H \in after[N] : Tidy(H)
    BY <1>1, <1>6 DEF InTick
  <1>8. RunFiber(F, f) = {IF H.stop \/ H.error # "none" THEN H
                          ELSE Refuse(H, "steps") : H \in after[N]}
    BY DEF RunFiber, after, N, IsRun
  <1> QED
    BY <1>7, <1>8, TidyRefuse

-----------------------------------------------------------------------------
(* Guards that trigger and scopes that are rolled back.                    *)

LEMMA RetiredRecords ==
    ASSUME NEW F, Records(F.records), NEW r, NEW fs
    PROVE  Records(Retired(F, r, fs))
  <1>1. Records(Without(F.records, Scope(F, r)))
    BY RecordRows
  <1> QED
    BY <1>1, RecordRows DEF Retired

LEMMA FewerJobs ==
    ASSUME NEW js, NEW ds, NEW ded, JobRows(js, ds, ded), NEW S
    PROVE  JobRows(Without(js, S), ds, ded)
  <1>1. DOMAIN Without(js, S) = DOMAIN js \ S
    BY WithoutIs, ZenonT(30)
  <1> QED
    BY <1>1 DEF JobRows

LEMMA TidyTrigger ==
    ASSUME NEW F, Tidy(F), NEW r, NEW handler
    PROVE  Tidy(Trigger(F, r, handler))
  <1> DEFINE G == Trigger(F, r, handler)
             h == Fresh(F, 1)[1]
             dying == Holders(F, r)
             stack == HandlerStack(F, r)
  <1>1. h \in Ids /\ stack \in Seq(Ids) /\ Kept(stack, F.fibers)
    BY FreshUnheld, HandlerKept DEF Tidy, Typed
  <1> HIDE DEF h, stack
  <1>2. ASSUME NEW gbs, NEW S, Replaced(gbs, F.fibers, S, h),
               Stands(gbs[h], handler, stack, Running, 0)
        PROVE  Fibers(gbs) /\ Prefixed(gbs)
    <2>1. Steady(gbs[h], F.fibers)
      BY <1>1, <1>2, PlainSteady, WaitingKind
    <2> QED
      BY <1>1, <1>2, <2>1, ReplacedFibers DEF Tidy, Typed
  <1>3. CASE F.records[r].kind # "GuardN"
    <2>1. /\ Formed(G) /\ SameButJobs(F, G)
          /\ G.jobs = Without(F.jobs, ParkedOn(F, dying))
          /\ Replaced(G.fibers, F.fibers, dying, h)
          /\ Stands(G.fibers[h], handler, stack, Running, 0)
          /\ G.records = Enrol(Retired(F, r, dying), Range(stack), {h})
      BY <1>3, TriggerFrame DEF Tidy, Typed, h, stack
    <2> HIDE DEF G, dying
    <2>2. Records(G.records)
      BY <2>1, RetiredRecords, RecordRows DEF Tidy, Typed
    <2>3. JobRows(G.jobs, G.dead, G.dedupe)
      BY <2>1, FewerJobs DEF Tidy, Typed, SameButJobs
    <2>4. Fibers(G.fibers) /\ Prefixed(G.fibers)
      BY <1>2, <2>1
    <2>5. Tidy(G)
      BY <2>1, <2>2, <2>3, <2>4 DEF Tidy, Typed, SameButJobs
    <2> QED
      BY <2>5 DEF G
  <1>4. CASE F.records[r].kind = "GuardN"
    <2>1. /\ Formed(G) /\ SameLedgers(F, G)
          /\ Replaced(G.fibers, F.fibers, {}, h)
          /\ Stands(G.fibers[h], handler, stack, Running, 0)
          /\ G.records = Enrol(F.records, Range(stack), {h})
      BY <1>4, SpawnFrame DEF Tidy, Typed, h, stack
    <2> HIDE DEF G
    <2>2. Records(G.records)
      BY <2>1, RecordRows DEF Tidy, Typed
    <2>3. Fibers(G.fibers) /\ Prefixed(G.fibers)
      BY <1>2, <2>1
    <2>4. Tidy(G)
      BY <2>1, <2>2, <2>3 DEF Tidy, Typed, SameLedgers, SameStore
    <2> QED
      BY <2>4 DEF G
  <1> QED
    BY <1>3, <1>4

LEMMA TidyRollBack ==
    ASSUME NEW F, Tidy(F), NEW r, NEW f \in DOMAIN F.fibers
    PROVE  Tidy(RollBack(F, r, f))
  <1> DEFINE G == RollBack(F, r, f)
             dying == Holders(F, r)
  <1>1. Formed(F) /\ Fibers(F.fibers) /\ Prefixed(F.fibers) /\ f \in Ids
    BY DEF Tidy, Typed, Fibers
  <1>2. CASE DOMAIN F.fibers \ dying # {}
    <2>1. /\ Formed(G) /\ SameStatus(F, G) /\ SameStore(F, G)
          /\ G.fibers = Without(F.fibers, dying)
          /\ G.records = Retired(F, r, dying)
      BY <1>2, RollBackFrame DEF Tidy, Typed
    <2> HIDE DEF G, dying
    <2>2. Records(G.records) /\ Fibers(G.fibers) /\ Prefixed(G.fibers)
      BY <1>1, <2>1, RetiredRecords, FewerFibers DEF Tidy, Typed
    <2>3. Tidy(G)
      BY <2>1, <2>2 DEF Tidy, Typed, SameStatus, SameStore, Status
    <2> QED
      BY <2>3 DEF G
  <1>3. CASE DOMAIN F.fibers \ dying = {}
    <2> DEFINE outer == OuterStack(F, r, f)
               w == Waiting("Incident", <<f>>)
    <2>0. Reverted(F, G, r, f)
      BY <1>1, <1>3, KeptFrame
    <2> HIDE DEF G
    <2>1. /\ Formed(G) /\ SameStore(F, G)
          /\ G.inst.workflow = F.inst.workflow
          /\ G.inst.state = "Incidented" /\ G.inst.incident = f
          /\ DOMAIN G.fibers = {f}
          /\ Stands(G.fibers[f], F.records[r].opened, outer, w, F.fibers[f].epoch)
          /\ G.records = Enrol(Retired(F, r, dying), Range(outer), {f})
      BY <2>0 DEF Reverted
    <2>2. outer \in Seq(Ids) /\ Kept(outer, F.fibers)
      BY <1>1, OuterKept
    <2>3. F.fibers[f].epoch \in Nat
      BY <1>1 DEF Fibers, TypedFiber
    <2>4. w.kind \in WaitKinds \ {"Barrier", "Race"}
      BY WaitingKind DEF WaitKinds
    <2> HIDE DEF G, dying, outer, w
    <2>5. Steady(G.fibers[f], F.fibers)
      BY <2>1, <2>2, <2>3, <2>4, PlainSteady
    <2>6. Fibers(G.fibers) /\ Prefixed(G.fibers)
      BY <1>1, <2>1, <2>5, ShrunkFibers, FS_Singleton, ZenonT(30)
    <2>7. Records(G.records)
      BY <2>1, RetiredRecords, RecordRows DEF Tidy, Typed
    <2>8. Tidy(G)
      BY <1>1, <2>1, <2>6, <2>7 DEF Tidy, Typed, SameStore, Status, Ids
    <2> QED
      BY <2>8 DEF G
  <1> QED
    BY <1>2, <1>3

(* A failure that is reported for a fibre parked on a job or a call.       *)
LEMMA TidyFailed ==
    ASSUME NEW F, Tidy(F), NEW f \in DOMAIN F.fibers, NEW why,
           F.fibers[f].wait.kind \notin {"Barrier", "Race"}
    PROVE  Tidy(Failed(F, f, why))
  <1>1. \/ \E r, handler : Failed(F, f, why) = Trigger(F, r, handler)
        \/ \E r : Failed(F, f, why) = RollBack(F, r, f)
        \/ Failed(F, f, why) = RaiseIncident(F, f)
    BY DEF Failed
  <1> QED
    BY <1>1, TidyTrigger, TidyRollBack, TidyRaise

-----------------------------------------------------------------------------
(* Timers, races and fibres that are woken.                                *)

LEMMA TidyDisarm ==
    ASSUME NEW F, Tidy(F), NEW ts
    PROVE  Tidy(Disarm(F, ts)) /\ SameControl(F, Disarm(F, ts))
  <1> DEFINE G == Disarm(F, ts)
  <1>1. /\ Formed(G) /\ SameButTimers(F, G) /\ SameControl(F, G)
        /\ G.timers = Disarmed(F.timers, ts)
    BY DisarmFrame DEF Tidy, Typed, SameControl
  <1> HIDE DEF G
  <1>2. TimerRows(G.timers)
    BY <1>1, DisarmedRows DEF Tidy, Typed
  <1>3. Tidy(G)
    BY <1>1, <1>2 DEF Tidy, Typed, SameButTimers, SameControl
  <1> QED
    BY <1>1, <1>3 DEF G

(* A bounded cycle counts down, never below zero.                          *)
LeftDown(ts, t) == [ts EXCEPT ![t].left = @ - 1]

LEMMA LeftDownRows ==
    ASSUME NEW ts, TimerRows(ts), NEW t \in DOMAIN ts, ts[t].left > 1
    PROVE  TimerRows(LeftDown(ts, t))
  <1> DEFINE new == LeftDown(ts, t)
             row == ts[t]
  <1>1. row = [x \in TimerFields |-> row[x]] /\ row.left \in Nat
    BY DEF TimerRows
  <1>2. /\ DOMAIN new = DOMAIN ts
        /\ \A u \in DOMAIN ts \ {t} : new[u] = ts[u]
        /\ new[t] = [row EXCEPT !.left = @ - 1]
    BY DEF LeftDown
  <1> HIDE DEF new, row
  <1>3. /\ new[t] = [x \in TimerFields |-> new[t][x]]
        /\ new[t].left = row.left - 1
    BY <1>1, <1>2 DEF TimerFields
  <1>4. new[t].left \in Nat
    BY <1>1, <1>3 DEF row
  <1>5. TimerRows(new)
    BY <1>2, <1>3, <1>4, ZenonT(30) DEF TimerRows
  <1> QED
    BY <1>5 DEF new

LEMMA TidySpend ==
    ASSUME NEW F, Tidy(F), NEW t \in DOMAIN F.timers
    PROVE  Tidy(Spend(F, t)) /\ SameControl(F, Spend(F, t))
  <1> DEFINE rows == LeftDown(F.timers, t)
             G == [F EXCEPT !.timers = rows]
  <1>1. CASE Spend(F, t) = Disarm(F, {t})
    BY <1>1, TidyDisarm
  <1>2. CASE Spend(F, t) = G /\ F.timers[t].left > 1
    <2>1. TimerRows(rows)
      BY <1>2, LeftDownRows DEF Tidy, Typed
    <2> HIDE DEF rows
    <2>2. Tidy(G) /\ SameControl(F, G)
      BY <2>1, TidyTimers
    <2> QED
      BY <1>2, <2>2
  <1> QED
    BY <1>1, <1>2, ZenonT(30) DEF Spend, LeftDown

LEMMA TidyWinRace ==
    ASSUME NEW F, Tidy(F), NEW f \in DOMAIN F.fibers, NEW r, NEW target
    PROVE  Tidy(WinRace(F, f, r, target))
  <1> DEFINE G == WinRace(F, f, r, target)
             fb == F.fibers[f]
  <1>1. /\ Formed(G) /\ SameButTimers(F, G)
        /\ FewerArmed(F.timers, G.timers)
        /\ G.records = Without(F.records, {r})
        /\ Others(G.fibers, F.fibers, f)
        /\ Stands(G.fibers[f], target, fb.stack, Running, fb.epoch)
    BY WinRaceFrame, ZenonT(30) DEF Tidy, Typed
  <1> HIDE DEF G
  <1>2. TimerRows(G.timers) /\ Records(G.records)
    BY <1>1, DisarmedRows, RecordRows DEF Tidy, Typed, FewerArmed
  <1>3. fb.stack \in Seq(Ids) /\ Kept(fb.stack, F.fibers) /\ fb.epoch \in Nat
    BY WholeStack DEF Tidy, Typed, Fibers, TypedFiber
  <1> HIDE DEF fb
  <1>4. Steady(G.fibers[f], F.fibers)
    BY <1>1, <1>3, PlainSteady, WaitingKind
  <1>5. Fibers(G.fibers) /\ Prefixed(G.fibers)
    BY <1>1, <1>4, OneFiber DEF Tidy, Typed
  <1>6. Tidy(G)
    BY <1>1, <1>2, <1>5 DEF Tidy, Typed, SameButTimers
  <1> QED
    BY <1>6 DEF G

(* A fibre goes on, where it stands or at the next address.                *)
Wake(F, f) == [F EXCEPT !.fibers[f].wait = Running]

LEMMA WakeFrame ==
    ASSUME NEW F, Formed(F), NEW f \in DOMAIN F.fibers
    PROVE  LET G == Wake(F, f) fb == F.fibers[f]
           IN  /\ Formed(G) /\ SameLedgers(F, G)
               /\ G.records = F.records
               /\ Others(G.fibers, F.fibers, f)
               /\ Stands(G.fibers[f], fb.pc, fb.stack, Running, fb.epoch)
  <1> DEFINE fbs == WithWait(F.fibers, f, Running)
             G == [F EXCEPT !.fibers = fbs]
  <1>1. Wake(F, f) = G
    BY DEF Wake, WithWait
  <1>2. /\ FibersFormed(fbs) /\ Others(fbs, F.fibers, f)
        /\ Stands(fbs[f], F.fibers[f].pc, F.fibers[f].stack, Running,
                  F.fibers[f].epoch)
    BY SetWait DEF Formed
  <1> HIDE DEF fbs
  <1>3. /\ G = [x \in Fields |-> G[x]] /\ SameLedgers(F, G)
        /\ G.records = F.records /\ G.fibers = fbs
    BY DEF Formed, Fields, SameLedgers, SameStore
  <1>4. Formed(G)
    BY <1>2, <1>3 DEF Formed, SameLedgers
  <1> QED
    BY <1>1, <1>2, <1>3, <1>4, Zenon

LEMMA TidyWake ==
    ASSUME NEW F, Tidy(F), NEW f \in DOMAIN F.fibers
    PROVE  Tidy(Wake(F, f))
  <1> DEFINE G == Wake(F, f)
             fb == F.fibers[f]
  <1>1. /\ Formed(G) /\ SameLedgers(F, G) /\ G.records = F.records
        /\ Others(G.fibers, F.fibers, f)
        /\ Stands(G.fibers[f], fb.pc, fb.stack, Running, fb.epoch)
    BY WakeFrame DEF Tidy, Typed
  <1> HIDE DEF G
  <1>2. fb.stack \in Seq(Ids) /\ Kept(fb.stack, F.fibers) /\ fb.epoch \in Nat
    BY WholeStack DEF Tidy, Typed, Fibers, TypedFiber
  <1> HIDE DEF fb
  <1>3. Steady(G.fibers[f], F.fibers)
    BY <1>1, <1>2, PlainSteady, WaitingKind
  <1>4. Tidy(G)
    BY <1>1, <1>3, TidyFiber DEF Tidy, Typed, SameLedgers
  <1> QED
    BY <1>4 DEF G

LEMMA TidyAdvance ==
    ASSUME NEW F, Tidy(F), NEW f \in DOMAIN F.fibers
    PROVE  Tidy(Advance(F, f)) /\ f \in DOMAIN Advance(F, f).fibers
  <1> DEFINE G == Advance(F, f)
             fb == F.fibers[f]
  <1>1. /\ Formed(G) /\ SameLedgers(F, G) /\ G.records = F.records
        /\ Others(G.fibers, F.fibers, f)
        /\ Stands(G.fibers[f], fb.pc + 1, fb.stack, fb.wait, fb.epoch)
    BY AdvanceFrame DEF Tidy, Typed
  <1> HIDE DEF G
  <1>2. Steady(fb, F.fibers)
    BY SteadyFiber DEF Tidy, Typed
  <1> HIDE DEF fb
  <1>3. Steady(G.fibers[f], F.fibers)
    BY <1>1, <1>2 DEF Steady, Stands, TypedFiber, EffectiveStack
  <1>4. Tidy(G)
    BY <1>1, <1>3, TidyFiber DEF Tidy, Typed, SameLedgers
  <1> QED
    BY <1>1, <1>4 DEF G, Others

(* What a guard's timer may lead to.                                       *)
Enlisted(F) == \A r \in DOMAIN F.records : F.records[r].members \subseteq DOMAIN F.fibers

LEMMA TidyGuardTimer ==
    ASSUME NEW F, Tidy(F), Enlisted(F), NEW r, NEW G \in GuardTimerOutcomes(F, r)
    PROVE  Tidy(G)
  <1> DEFINE js == Without(F.jobs, ParkedOn(F, Holders(F, r)))
             H == [F EXCEPT !.jobs = js]
  <1>1. \/ G = F
        \/ r \in DOMAIN F.records /\ \E f \in F.records[r].members : G = RollBack(H, r, f)
        \/ G = Trigger(F, r, F.records[r].handler)
    BY DEF GuardTimerOutcomes
  <1>2. JobRows(js, F.dead, F.dedupe)
    BY FewerJobs DEF Tidy, Typed
  <1> HIDE DEF js
  <1>3. Tidy(H) /\ H.fibers = F.fibers
    BY <1>2, TidyJobs DEF SameControl
  <1> HIDE DEF H
  <1>4. ASSUME r \in DOMAIN F.records, NEW f \in F.records[r].members
        PROVE  Tidy(RollBack(H, r, f))
    <2>1. f \in DOMAIN H.fibers
      BY <1>3, <1>4 DEF Enlisted
    <2> QED
      BY <1>3, <2>1, TidyRollBack
  <1> QED
    BY <1>1, <1>4, TidyTrigger

LEMMA TidyCompletion ==
    ASSUME NEW F, Tidy(F), NEW c
    PROVE  Tidy(ApplyCompletion(F, c)) /\ SameControl(F, ApplyCompletion(F, c))
           /\ SameStore(F, ApplyCompletion(F, c))
  <1> DEFINE G == ApplyCompletion(F, c)
  <1>1. /\ Formed(G) /\ SameStatus(F, G) /\ SameStore(F, G) /\ SameControl(F, G)
    BY CompletionFrame DEF Tidy, Typed
  <1> HIDE DEF G
  <1>2. Tidy(G)
    BY <1>1, TidyRows DEF Tidy, Typed, SameStore
  <1> QED
    BY <1>1, <1>2 DEF G

LEMMA TidyDedupe ==
    ASSUME NEW F, Tidy(F), NEW v, JobRows(F.jobs, F.dead, v)
    PROVE  Tidy([F EXCEPT !.dedupe = v])
  <1> DEFINE G == [F EXCEPT !.dedupe = v]
  <1>1. /\ G = [x \in Fields |-> G[x]] /\ SameControl(F, G) /\ G.inst = F.inst
        /\ G.jobs = F.jobs /\ G.dead = F.dead /\ v = G.dedupe
        /\ G.timers = F.timers /\ G.effects = F.effects /\ G.buffer = F.buffer
    BY DEF Tidy, Typed, Formed, Fields, SameControl
  <1> HIDE DEF G
  <1>2. Tidy(G)
    BY <1>1 DEF Tidy, Typed, Formed, SameControl
  <1> QED
    BY <1>2 DEF G

LEMMA TidyDead ==
    ASSUME NEW F, Tidy(F), NEW v, JobRows(F.jobs, v, F.dedupe)
    PROVE  Tidy([F EXCEPT !.dead = v])
  <1> DEFINE G == [F EXCEPT !.dead = v]
  <1>1. /\ G = [x \in Fields |-> G[x]] /\ SameControl(F, G) /\ G.inst = F.inst
        /\ G.jobs = F.jobs /\ v = G.dead /\ G.dedupe = F.dedupe
        /\ G.timers = F.timers /\ G.effects = F.effects /\ G.buffer = F.buffer
    BY DEF Tidy, Typed, Formed, Fields, SameControl
  <1> HIDE DEF G
  <1>2. Tidy(G)
    BY <1>1 DEF Tidy, Typed, Formed, SameControl
  <1> QED
    BY <1>2 DEF G

-----------------------------------------------------------------------------
(* The inductive invariant, and what a command leaves behind.              *)

(* The instance runs a program that the verifier admits, its state is      *)
(* typed and prefix-closed, fibres stand at addresses of the program and   *)
(* every record knows its members, which the shadow check of the last      *)
(* committed command has seen to.                                          *)
CInv ==
    /\ inst.workflow \in Admitted
    /\ Tidy(Frame)
    /\ \A f \in DOMAIN fibers : fibers[f].pc \in DOMAIN Program
    /\ KInvariants(Frame)

LEMMA TidyNext ==
    ASSUME CInv, inst'.workflow = inst.workflow, NEW G, Tidy(G),
           inst' = G.inst, fibers' = G.fibers, records' = G.records,
           jobs' = G.jobs, dead' = G.dead, dedupe' = G.dedupe,
           timers' = G.timers, effects' = G.effects, buffer' = G.buffer
    PROVE  Tidy(Frame)'
  <1>1. /\ Frame' = [x \in Fields |-> Frame'[x]]
        /\ Frame'.inst = G.inst /\ Frame'.fibers = G.fibers
        /\ Frame'.records = G.records /\ Frame'.jobs = G.jobs
        /\ Frame'.dead = G.dead /\ Frame'.dedupe = G.dedupe
        /\ Frame'.timers = G.timers /\ Frame'.effects = G.effects
        /\ Frame'.buffer = G.buffer
    BY ZenonT(30) DEF Frame, Fields
  <1>2. Program' = Program /\ Keys' = Keys /\ Places' = Places
    BY DEF Program, Keys, Places
  <1>3. Formed(Frame)' /\ Status(Frame.inst)'
    BY <1>1 DEF Tidy, Typed, Formed, Status
  <1>4. Fibers(Frame.fibers)' /\ Records(Frame.records)' /\ Prefixed(Frame.fibers)'
    BY <1>1 DEF Tidy, Typed, Fibers, Records, Prefixed
  <1>5. JobRows(Frame.jobs, Frame.dead, Frame.dedupe)' /\ TimerRows(Frame.timers)'
    BY <1>1, <1>2 DEF Tidy, Typed, JobRows, TimerRows
  <1>6. EffectRows(Frame.effects)' /\ BufferRows(Frame.buffer)'
    BY <1>1, <1>2 DEF Tidy, Typed, EffectRows, BufferRows
  <1> QED
    BY <1>3, <1>4, <1>5, <1>6 DEF Tidy, Typed

(* Ring 3 reads fibres and records only.                                   *)
LEMMA SameInvariants ==
    ASSUME NEW F, NEW G, SameControl(F, G), KInvariants(F) PROVE KInvariants(G)
  BY DEF KInvariants, SameControl, Holders

LEMMA CommitKeeps ==
    ASSUME CInv, NEW G, Tidy(G), Commit(G) PROVE CInv'
  <1>1. CASE /\ Ring3(G)
             /\ inst' = G.inst /\ fibers' = G.fibers /\ records' = G.records
             /\ jobs' = G.jobs /\ dead' = G.dead /\ dedupe' = G.dedupe
             /\ timers' = G.timers /\ effects' = G.effects
             /\ buffer' = G.buffer
    <2>1. inst'.workflow = inst.workflow
      BY <1>1 DEF Tidy, Typed, Status
    <2>2. Tidy(Frame)'
      BY <1>1, <2>1, TidyNext
    <2>3. Program' = Program /\ SameControl(G, Frame')
      BY <1>1, <2>1 DEF Program, SameControl, Frame
    <2>4. \A f \in DOMAIN fibers' : fibers'[f].pc \in DOMAIN Program
      BY <1>1 DEF Ring3
    <2>5. KInvariants(Frame')
      BY <1>1, <2>3, SameInvariants DEF Ring3
    <2> QED
      BY <2>1, <2>2, <2>3, <2>4, <2>5 DEF CInv
  <1>2. CASE /\ UNCHANGED <<inst, fibers, records, jobs, dead, dedupe, timers,
                            effects>>
             /\ buffer' = [m \in DOMAIN buffer |->
                    IF m \in G.claimed THEN "claimed" ELSE buffer[m]]
    <2> DEFINE H == [Frame EXCEPT !.buffer = buffer']
    <2>1. BufferRows(buffer')
      BY <1>2, ZenonT(30) DEF CInv, Tidy, Typed, BufferRows, Frame
    <2>2. Tidy(H)
      BY <2>1, TidyBuffer DEF CInv
    <2>3. /\ inst' = H.inst /\ fibers' = H.fibers /\ records' = H.records
          /\ jobs' = H.jobs /\ dead' = H.dead /\ dedupe' = H.dedupe
          /\ timers' = H.timers /\ effects' = H.effects /\ buffer' = H.buffer
      BY <1>2 DEF Frame
    <2> HIDE DEF H
    <2>4. Tidy(Frame)'
      BY <1>2, <2>2, <2>3, TidyNext, ZenonT(30)
    <2>5. Program' = Program /\ SameControl(Frame, Frame')
      BY <1>2, ZenonT(30) DEF Program, SameControl, Frame
    <2>6. KInvariants(Frame')
      BY <2>5, SameInvariants, ZenonT(30) DEF CInv
    <2> QED
      BY <1>2, <2>4, <2>5, <2>6 DEF CInv
  <1> QED
    BY <1>1, <1>2 DEF Commit

-----------------------------------------------------------------------------
(* The commands.                                                           *)

LEMMA FrameIs ==
    /\ Frame = [x \in Fields |-> Frame[x]]
    /\ Frame.inst = inst /\ Frame.fibers = fibers /\ Frame.records = records
    /\ Frame.jobs = jobs /\ Frame.dead = dead /\ Frame.dedupe = dedupe
    /\ Frame.timers = timers /\ Frame.effects = effects
    /\ Frame.buffer = buffer
  BY ZenonT(30) DEF Frame, Fields

LEMMA TickKeeps == ASSUME CInv, NEW f, Tick(f) PROVE CInv'
  <1> DEFINE bs == [m \in DOMAIN buffer |->
                        IF m \in Prefetch THEN "claimed" ELSE buffer[m]]
             P == Prefetch
             F == [Frame EXCEPT !.claimed = P, !.buffer = bs]
  <1>1. PICK G \in RunFiber(F, f) : Commit(G)
    BY ZenonT(30) DEF Tick
  <1>2. BufferRows(bs)
    BY FrameIs, ZenonT(30) DEF CInv, Tidy, Typed, BufferRows
  <1> HIDE DEF bs, P
  <1>3. /\ F = [x \in Fields |-> F[x]] /\ SameControl(Frame, F)
        /\ F.inst = Frame.inst /\ F.jobs = Frame.jobs /\ F.dead = Frame.dead
        /\ F.dedupe = Frame.dedupe /\ F.timers = Frame.timers
        /\ F.effects = Frame.effects /\ F.buffer = bs
    BY FrameIs, ZenonT(30) DEF Fields, SameControl
  <1> HIDE DEF F
  <1>4. Tidy(F)
    BY <1>2, <1>3 DEF CInv, Tidy, Typed, Formed, SameControl
  <1>5. Runs(F, f)
    BY <1>3, <1>4, FrameIs DEF Tick, Runnable, Runs, SameControl
  <1>6. Tidy(G)
    BY <1>5, RunInTick DEF CInv
  <1> QED
    BY <1>1, <1>6, CommitKeeps

LEMMA CompleteJobKeeps ==
    ASSUME CInv, NEW k, NEW base, NEW v, CompleteJob(k, base, v) PROVE CInv'
  <1> DEFINE c == Completion(k, base, v)
             A == ApplyCompletion(Frame, c)
  <1>1. PICK f \in ParkedOnJob(k) : Commit([A EXCEPT
                !.fibers[f].pc = @ + 1,
                !.fibers[f].wait = Running,
                !.jobs = Without(@, {k}),
                !.dedupe = Put(@, k, c)])
    BY ZenonT(30) DEF CompleteJob
  <1>2. Tidy(A) /\ SameControl(Frame, A) /\ SameStore(Frame, A)
    BY TidyCompletion DEF CInv
  <1>3. f \in DOMAIN A.fibers /\ k \in Keys
    BY <1>2, FrameIs DEF ParkedOnJob, SameControl, CompleteJob, CInv, Tidy, Typed, JobRows
  <1> HIDE DEF A, c
  <1> DEFINE B == Advance(A, f)
             C == Wake(B, f)
             js == Without(C.jobs, {k})
             D == [C EXCEPT !.jobs = js]
             ded == Put(D.dedupe, k, c)
             G == [D EXCEPT !.dedupe = ded]
  <1>4. Commit(G)
    <2>1. G = [A EXCEPT !.fibers[f].pc = @ + 1,
                        !.fibers[f].wait = Running,
                        !.jobs = Without(@, {k}),
                        !.dedupe = Put(@, k, c)]
      BY DEF Advance, Goto, Wake
    <2> HIDE DEF G
    <2> QED
      BY <1>1, <2>1
  <1>5. Tidy(B) /\ f \in DOMAIN B.fibers
    BY <1>2, <1>3, TidyAdvance
  <1> HIDE DEF B
  <1>6. Tidy(C)
    BY <1>5, TidyWake
  <1> HIDE DEF C
  <1>7. JobRows(js, C.dead, C.dedupe)
    BY <1>6, FewerJobs DEF Tidy, Typed
  <1> HIDE DEF js
  <1>8. Tidy(D)
    BY <1>6, <1>7, TidyJobs
  <1> HIDE DEF D
  <1>9. JobRows(D.jobs, D.dead, ded)
    <2>1. DOMAIN ded = DOMAIN D.dedupe \cup {k}
      BY PutIs, ZenonT(30)
    <2> HIDE DEF ded
    <2> QED
      BY <1>3, <1>8, <2>1 DEF Tidy, Typed, JobRows
  <1> HIDE DEF ded
  <1>10. Tidy(G)
    BY <1>8, <1>9, TidyDedupe
  <1> HIDE DEF G
  <1> QED
    BY <1>4, <1>10, CommitKeeps

LEMMA FailJobKeeps ==
    ASSUME CInv, NEW k, NEW why, FailJob(k, why) PROVE CInv'
  <1> DEFINE js == Without(Frame.jobs, {k})
             acked == [Frame EXCEPT !.jobs = js]
  <1>1. \/ Commit(acked)
        \/ \E f \in ParkedOnJob(k) :
             LET G == Failed(acked, f, why)
             IN  \E dd \in {G.dead, G.dead \cup {k}} : Commit([G EXCEPT !.dead = dd])
    BY ZenonT(30) DEF FailJob
  <1>2. JobRows(js, Frame.dead, Frame.dedupe) /\ k \in Keys
    <2>1. JobRows(Frame.jobs, Frame.dead, Frame.dedupe)
      BY DEF CInv, Tidy, Typed
    <2>2. k \in Keys
      BY <2>1, FrameIs DEF JobRows, FailJob
    <2> QED
      BY <2>1, <2>2, FewerJobs
  <1> HIDE DEF js
  <1>3. Tidy(acked) /\ acked.fibers = fibers
    BY <1>2, TidyJobs, FrameIs DEF CInv, SameControl
  <1> HIDE DEF acked
  <1>4. ASSUME NEW f \in ParkedOnJob(k),
               NEW dd \in {Failed(acked, f, why).dead, Failed(acked, f, why).dead \cup {k}},
               Commit([Failed(acked, f, why) EXCEPT !.dead = dd])
        PROVE  CInv'
    <2> DEFINE G == Failed(acked, f, why)
    <2>1. f \in DOMAIN acked.fibers /\ acked.fibers[f].wait.kind = "Job"
      BY <1>3, WaitingKind DEF ParkedOnJob, WaitKinds
    <2>2. Tidy(G)
      BY <1>3, <2>1, TidyFailed
    <2>3. dd \in {G.dead, G.dead \cup {k}} /\ Commit([G EXCEPT !.dead = dd])
      BY <1>4
    <2> HIDE DEF G
    <2>4. JobRows(G.jobs, dd, G.dedupe)
      BY <1>2, <2>2, <2>3 DEF Tidy, Typed, JobRows
    <2>5. Tidy([G EXCEPT !.dead = dd])
      BY <2>2, <2>4, TidyDead
    <2> QED
      BY <2>3, <2>5, CommitKeeps
  <1> QED
    BY <1>1, <1>3, <1>4, CommitKeeps, ZenonT(30)

LEMMA FireTimerKeeps == ASSUME CInv, NEW t, FireTimer(t) PROVE CInv'
  <1> DEFINE row == timers[t]
             f == t[1]
             spent == Spend(Frame, t)
  <1>1. \/ f \in DOMAIN fibers /\ Commit(Wake(spent, f))
        \/ f \in DOMAIN fibers /\ Commit(WinRace(spent, f, row.rec, row.target))
        \/ \E F \in GuardTimerOutcomes(spent, row.rec) : Commit(F)
        \/ Commit(spent)
    BY SMTT(30) DEF FireTimer, Wake
  <1>2. t \in DOMAIN Frame.timers
    BY FrameIs DEF FireTimer
  <1>3. Tidy(spent) /\ SameControl(Frame, spent)
    BY <1>2, TidySpend DEF CInv
  <1>4. spent.fibers = fibers
    BY <1>3, FrameIs DEF SameControl
  <1>5. Enlisted(spent)
    <2>1. KInvariants(spent)
      BY <1>3, SameInvariants DEF CInv
    <2> QED
      BY <2>1 DEF KInvariants, Enlisted, Holders
  <1> HIDE DEF spent, row, f
  <1>6. CASE f \in DOMAIN fibers /\ Commit(Wake(spent, f))
    BY <1>3, <1>4, <1>6, TidyWake, CommitKeeps
  <1>7. CASE f \in DOMAIN fibers /\ Commit(WinRace(spent, f, row.rec, row.target))
    BY <1>3, <1>4, <1>7, TidyWinRace, CommitKeeps
  <1>8. ASSUME NEW F \in GuardTimerOutcomes(spent, row.rec), Commit(F) PROVE CInv'
    BY <1>3, <1>5, <1>8, TidyGuardTimer, CommitKeeps
  <1> QED
    BY <1>1, <1>3, <1>6, <1>7, <1>8, CommitKeeps

(* The row of a call.                                                      *)
Settle(es, e, state, answer) ==
    [es EXCEPT ![e] = [@ EXCEPT !.state = state, !.answer = answer]]

LEMMA RowsSettled ==
    ASSUME NEW es, EffectRows(es), NEW new, NEW e, DOMAIN new = DOMAIN es,
           \A d \in DOMAIN es \ {e} : new[d] = es[d],
           new[e] = [x \in EffectFields |-> new[e][x]],
           new[e].state \in {"open", "completed", "failed"}
    PROVE  EffectRows(new)
  <1>1. ASSUME NEW d \in DOMAIN new
        PROVE  /\ new[d] = [x \in EffectFields |-> new[d][x]]
               /\ new[d].state \in {"open", "completed", "failed"}
    <2>1. CASE d = e
      BY <2>1, Zenon
    <2>2. CASE d # e
      <3>1. d \in DOMAIN es /\ new[d] = es[d]
        BY <2>2
      <3>2. /\ es[d] = [x \in EffectFields |-> es[d][x]]
            /\ es[d].state \in {"open", "completed", "failed"}
        BY <3>1, Zenon DEF EffectRows
      <3> QED
        BY <3>1, <3>2, Zenon
    <2> QED
      BY <2>1, <2>2
  <1> QED
    BY <1>1, Zenon DEF EffectRows

LEMMA SettledRows ==
    ASSUME NEW es, EffectRows(es), NEW e \in DOMAIN es, NEW answer,
           NEW state \in {"open", "completed", "failed"}
    PROVE  EffectRows(Settle(es, e, state, answer))
  <1> DEFINE new == Settle(es, e, state, answer)
             row == es[e]
  <1>1. row = [x \in EffectFields |-> row[x]]
    BY DEF EffectRows
  <1>2. /\ DOMAIN new = DOMAIN es
        /\ \A d \in DOMAIN es \ {e} : new[d] = es[d]
        /\ new[e] = [row EXCEPT !.state = state, !.answer = answer]
    BY DEF Settle
  <1> HIDE DEF new, row
  <1>3. new[e] = [x \in EffectFields |-> new[e][x]] /\ new[e].state = state
    BY <1>1, <1>2, Zenon DEF EffectFields
  <1>4. EffectRows(new)
    BY <1>2, <1>3, RowsSettled, ZenonT(30)
  <1> QED
    BY <1>4 DEF new

LEMMA TidySettle ==
    ASSUME NEW F, Tidy(F), NEW e \in DOMAIN F.effects, NEW answer,
           NEW state \in {"open", "completed", "failed"}
    PROVE  LET G == [F EXCEPT !.effects[e].state = state,
                              !.effects[e].answer = answer]
           IN  Tidy(G) /\ SameControl(F, G)
  <1> DEFINE rows == Settle(F.effects, e, state, answer)
             H == [F EXCEPT !.effects = rows]
             G == [F EXCEPT !.effects[e].state = state,
                            !.effects[e].answer = answer]
  <1>1. G = H
    BY ZenonT(30) DEF Settle, Tidy, Typed, Formed, Fields
  <1>2. EffectRows(rows)
    BY SettledRows DEF Tidy, Typed
  <1> HIDE DEF rows
  <1>3. Tidy(H) /\ SameControl(F, H)
    BY <1>2, TidyEffects
  <1> QED
    BY <1>1, <1>3

LEMMA TidyPayload ==
    ASSUME NEW F, Tidy(F), NEW v
    PROVE  LET G == [F EXCEPT !.inst.payload = v] IN Tidy(G) /\ SameControl(F, G)
  <1> DEFINE G == [F EXCEPT !.inst.payload = v]
  <1>1. /\ Formed(G) /\ SameStatus(F, G) /\ SameStore(F, G) /\ SameControl(F, G)
    BY ZenonT(30)
       DEF Tidy, Typed, Formed, Fields, InstFields, SameStatus, SameStore, SameControl
  <1> HIDE DEF G
  <1>2. Tidy(G)
    BY <1>1, TidyRows DEF Tidy, Typed, SameStore
  <1> QED
    BY <1>1, <1>2 DEF G

LEMMA TidyFlags ==
    ASSUME NEW F, Tidy(F), NEW v
    PROVE  LET G == [F EXCEPT !.inst.flags = v] IN Tidy(G) /\ SameControl(F, G)
  <1> DEFINE G == [F EXCEPT !.inst.flags = v]
  <1>1. /\ Formed(G) /\ SameStatus(F, G) /\ SameStore(F, G) /\ SameControl(F, G)
    BY ZenonT(30)
       DEF Tidy, Typed, Formed, Fields, InstFields, SameStatus, SameStore, SameControl
  <1> HIDE DEF G
  <1>2. Tidy(G)
    BY <1>1, TidyRows DEF Tidy, Typed, SameStore
  <1> QED
    BY <1>1, <1>2 DEF G

LEMMA TidyAnswered ==
    ASSUME CInv, NEW e \in DOMAIN effects, NEW answer \in Answers, NEW v
    PROVE  LET G == Answered(Frame, e, answer, v)
           IN  Tidy(G) /\ SameControl(Frame, G)
  <1> DEFINE B == [Frame EXCEPT !.effects[e].state = "completed",
                                !.effects[e].answer = answer]
             G == Answered(Frame, e, answer, v)
  <1>1. Tidy(B) /\ SameControl(Frame, B)
    BY TidySettle, FrameIs, ZenonT(30) DEF CInv
  <1>2. CASE answer = "outputs"
    <2> DEFINE P == [B EXCEPT !.inst.payload = @ \cup {Output(e)}]
               fl == FlagWritten(Program[e[2]], v) @@ B.inst.flags
               H == [P EXCEPT !.inst.flags = fl]
    <2>1. G = [B EXCEPT !.inst.payload = @ \cup {Output(e)},
                        !.inst.flags = FlagWritten(Program[e[2]], v) @@ @]
      BY <1>2 DEF Answered
    <2>2. G = H
      BY <2>1
    <2> HIDE DEF G, B
    <2>3. Tidy(P) /\ SameControl(B, P)
      BY <1>1, TidyPayload
    <2> HIDE DEF P, fl
    <2>4. Tidy(H) /\ SameControl(P, H)
      BY <2>3, TidyFlags
    <2> HIDE DEF H
    <2> QED
      BY <1>1, <2>2, <2>3, <2>4 DEF SameControl, G
  <1>3. CASE answer = "document"
    <2> DEFINE H == [B EXCEPT !.inst.payload = {Output(e)}]
    <2>1. G = H
      BY <1>3 DEF Answered
    <2> HIDE DEF B
    <2>2. Tidy(H) /\ SameControl(B, H)
      BY <1>1, TidyPayload
    <2> HIDE DEF H, G
    <2> QED
      BY <1>1, <2>1, <2>2 DEF SameControl, G
  <1>4. CASE answer = "no_match"
    <2>1. G = B
      BY <1>4, SMTT(30) DEF Answered
    <2> QED
      BY <1>1, <2>1
  <1> QED
    BY <1>2, <1>3, <1>4 DEF Answers

LEMMA CompleteEffectKeeps ==
    ASSUME CInv, NEW e \in DOMAIN effects, NEW answer \in Answers, NEW v,
           CompleteEffect(e, answer, v)
    PROVE  CInv'
  <1> DEFINE f == e[1]
             G == Answered(Frame, e, answer, v)
             L == [Frame EXCEPT !.effects[e].state = "completed",
                                !.effects[e].answer = "late"]
  <1>1. Tidy(G) /\ SameControl(Frame, G)
    BY TidyAnswered
  <1>2. f \in DOMAIN G.fibers
    BY <1>1, FrameIs DEF CompleteEffect, SameControl
  <1>3. \/ Commit([G EXCEPT !.fibers[f].pc = @ + 1, !.fibers[f].wait = Running])
        \/ \E r, target : Commit(WinRace(G, f, r, target))
        \/ Commit(L)
    BY DEF CompleteEffect
  <1> HIDE DEF G, f
  <1>4. CASE Commit([G EXCEPT !.fibers[f].pc = @ + 1, !.fibers[f].wait = Running])
    <2>1. Wake(Advance(G, f), f) = [G EXCEPT !.fibers[f].pc = @ + 1,
                                             !.fibers[f].wait = Running]
      BY DEF Advance, Goto, Wake
    <2>2. Tidy(Wake(Advance(G, f), f))
      BY <1>1, <1>2, TidyAdvance, TidyWake
    <2>3. Commit(Wake(Advance(G, f), f))
      BY <1>4, <2>1
    <2> QED
      BY <2>2, <2>3, CommitKeeps
  <1>5. ASSUME NEW r, NEW target, Commit(WinRace(G, f, r, target)) PROVE CInv'
    BY <1>1, <1>2, <1>5, TidyWinRace, CommitKeeps
  <1>6. Tidy(L)
    BY TidySettle, FrameIs, ZenonT(30) DEF CInv
  <1> HIDE DEF L
  <1> QED
    BY <1>3, <1>4, <1>5, <1>6, CommitKeeps

LEMMA FailedRows ==
    ASSUME NEW es, EffectRows(es), NEW e, NEW state \in {es[e].state, "failed"}
    PROVE  EffectRows([es EXCEPT ![e].state = state])
  <1> DEFINE new == [es EXCEPT ![e].state = state]
  <1>1. CASE e \notin DOMAIN es
    <2>1. DOMAIN new = DOMAIN es /\ \A d \in DOMAIN es : new[d] = es[d]
      BY <1>1
    <2> HIDE DEF new
    <2>2. EffectRows(new)
      BY <2>1, Zenon DEF EffectRows
    <2> QED
      BY <2>2 DEF new
  <1>2. CASE e \in DOMAIN es
    <2> DEFINE row == es[e]
    <2>1. /\ row = [x \in EffectFields |-> row[x]]
          /\ state \in {"open", "completed", "failed"}
      BY <1>2 DEF EffectRows
    <2>2. /\ DOMAIN new = DOMAIN es
          /\ \A d \in DOMAIN es \ {e} : new[d] = es[d]
          /\ new[e] = [row EXCEPT !.state = state]
      BY <1>2
    <2> HIDE DEF new, row
    <2>3. new[e] = [x \in EffectFields |-> new[e][x]] /\ state = new[e].state
      BY <2>1, <2>2 DEF EffectFields
    <2>4. EffectRows(new)
      BY <2>1, <2>2, <2>3, RowsSettled
    <2> QED
      BY <2>4 DEF new
  <1> QED
    BY <1>1, <1>2

LEMMA FailEffectKeeps ==
    ASSUME CInv, NEW e \in DOMAIN effects, NEW why, FailEffect(e, why)
    PROVE  CInv'
  <1> DEFINE st == effects[e].state
             recorded == [Frame EXCEPT !.effects[e].answer = why]
             rows == Settle(Frame.effects, e, st, why)
  <1>1. \/ Commit(recorded)
        \/ \E f \in ParkedOnCall(e) :
             LET G == Failed(recorded, f, why)
             IN  \E state \in {G.effects[e].state, "failed"} :
                    Commit([G EXCEPT !.effects[e].state = state])
    BY ZenonT(30) DEF FailEffect
  <1>2. /\ st \in {"open", "completed", "failed"}
        /\ effects[e] = [x \in EffectFields |-> effects[e][x]]
        /\ EffectRows(Frame.effects)
    BY FrameIs, ZenonT(30) DEF CInv, Tidy, Typed, EffectRows
  <1>3. recorded = [Frame EXCEPT !.effects = rows]
    <2>1. [effects[e] EXCEPT !.answer = why]
            = [effects[e] EXCEPT !.state = st, !.answer = why]
      BY <1>2, ZenonT(30) DEF EffectFields
    <2>2. [Frame.effects EXCEPT ![e].answer = why] = rows
      BY <2>1, FrameIs, ZenonT(30) DEF Settle
    <2> HIDE DEF rows
    <2> QED
      BY <2>2
  <1>4. EffectRows(rows)
    BY <1>2, SettledRows, FrameIs
  <1> HIDE DEF rows, st
  <1>5. Tidy(recorded) /\ recorded.fibers = fibers
    <2>1. Tidy([Frame EXCEPT !.effects = rows])
          /\ SameControl(Frame, [Frame EXCEPT !.effects = rows])
      BY <1>4, TidyEffects DEF CInv
    <2> QED
      BY <1>3, <2>1, FrameIs DEF SameControl
  <1> HIDE DEF recorded
  <1>6. ASSUME NEW f \in ParkedOnCall(e),
               NEW state \in {Failed(recorded, f, why).effects[e].state, "failed"},
               Commit([Failed(recorded, f, why) EXCEPT !.effects[e].state = state])
        PROVE  CInv'
    <2> DEFINE G == Failed(recorded, f, why)
               new == [G.effects EXCEPT ![e].state = state]
               H == [G EXCEPT !.effects = new]
    <2>1. f \in DOMAIN recorded.fibers /\ recorded.fibers[f].wait.kind = "Effect"
      BY <1>5, WaitingKind DEF ParkedOnCall, WaitKinds
    <2>2. Tidy(G)
      BY <1>5, <2>1, TidyFailed
    <2>3. state \in {G.effects[e].state, "failed"} /\ Commit(H)
      BY <1>6
    <2> HIDE DEF G
    <2>4. EffectRows(new)
      BY <2>2, <2>3, FailedRows, ZenonT(30) DEF Tidy, Typed
    <2> HIDE DEF new
    <2>5. Tidy(H)
      BY <2>2, <2>4, TidyEffects
    <2> QED
      BY <2>3, <2>5, CommitKeeps
  <1> QED
    BY <1>1, <1>5, <1>6, CommitKeeps, ZenonT(30)

LEMMA TidyMark ==
    ASSUME CInv, NEW m, NEW v \in {"none", "buffered", "claimed", "consumed"}
    PROVE  Tidy([Frame EXCEPT !.buffer[m] = v])
  <1> DEFINE bs == [Frame.buffer EXCEPT ![m] = v]
  <1>1. BufferRows(bs)
    BY SetMessage, ZenonT(30) DEF CInv, Tidy, Typed
  <1> HIDE DEF bs
  <1>2. Tidy([Frame EXCEPT !.buffer = bs])
    BY <1>1, TidyBuffer DEF CInv
  <1> QED
    BY <1>2 DEF bs

LEMMA DeliverMessageKeeps == ASSUME CInv, NEW m, DeliverMessage(m) PROVE CInv'
  <1>1. \/ Commit([Frame EXCEPT !.buffer[m] = "consumed"])
        \/ Commit([Frame EXCEPT !.buffer[m] = "buffered"])
        \/ \E f \in Subscribers(m) : \E F \in Received(Frame, f, m) : Commit(F)
    BY DEF DeliverMessage
  <1>2. Tidy([Frame EXCEPT !.buffer[m] = "consumed"])
        /\ Tidy([Frame EXCEPT !.buffer[m] = "buffered"])
    BY TidyMark, ZenonT(30)
  <1>3. ASSUME NEW f \in Subscribers(m), NEW F \in Received(Frame, f, m)
        PROVE  Tidy(F)
    <2> DEFINE C == Consume(Frame, m)
    <2>1. F = Wake(C, f) \/ \E r, target : F = WinRace(C, f, r, target)
      BY DEF Received, Wake
    <2>2. Tidy(C) /\ f \in DOMAIN C.fibers
      <3>1. Tidy(C) /\ SameControl(Frame, C)
        BY TidyConsume DEF CInv
      <3> QED
        BY <3>1, FrameIs DEF SameControl, Subscribers
    <2> HIDE DEF C
    <2> QED
      BY <2>1, <2>2, TidyWake, TidyWinRace
  <1> QED
    BY <1>1, <1>2, <1>3, CommitKeeps

LEMMA LapseKeeps == ASSUME CInv, NEW m, MessageClaimLapses(m) PROVE CInv'
  <1> DEFINE H == [Frame EXCEPT !.buffer[m] = "buffered"]
  <1>1. Tidy(H)
    BY TidyMark, ZenonT(30)
  <1>2. /\ inst' = H.inst /\ fibers' = H.fibers /\ records' = H.records
        /\ jobs' = H.jobs /\ dead' = H.dead /\ dedupe' = H.dedupe
        /\ timers' = H.timers /\ effects' = H.effects /\ buffer' = H.buffer
        /\ inst'.workflow = inst.workflow
    BY DEF MessageClaimLapses, Frame
  <1> HIDE DEF H
  <1>3. Tidy(Frame)'
    BY <1>1, <1>2, TidyNext
  <1>4. Program' = Program /\ SameControl(Frame, Frame')
    BY DEF MessageClaimLapses, Program, SameControl, Frame
  <1>5. KInvariants(Frame')
    BY <1>4, SameInvariants DEF CInv
  <1> QED
    BY <1>3, <1>4, <1>5 DEF CInv, MessageClaimLapses

LEMMA StopKeeps ==
    ASSUME CInv, NEW state \in Terminal,
           Commit([Finish(Frame, state) EXCEPT !.records = <<>>])
    PROVE  CInv'
  <1>1. Tidy(Finish(Frame, state))
    BY TidyFinish DEF CInv
  <1>2. Tidy([Finish(Frame, state) EXCEPT !.records = <<>>])
    BY <1>1, TidySweep
  <1> QED
    BY <1>2, CommitKeeps

LEMMA ResolveKeeps == ASSUME CInv, ResolveIncident PROVE CInv'
  <1> DEFINE f == inst.incident
             A == [Frame EXCEPT !.inst.state = "Running"]
             G == [A EXCEPT !.inst.incident = 0]
  <1>1. Commit(G) \/ (f \in DOMAIN fibers /\ Commit(Wake(G, f)))
    <2>1. G = [Frame EXCEPT !.inst.state = "Running", !.inst.incident = 0]
      OBVIOUS
    <2> HIDE DEF G
    <2> DEFINE H == [G EXCEPT !.fibers[f].wait = Running]
    <2>2. Commit(G) \/ Commit(H)
      BY <2>1 DEF ResolveIncident
    <2>3. f \notin DOMAIN fibers => Commit(G)
      BY <2>1 DEF ResolveIncident
    <2>4. Wake(G, f) = H
      BY DEF Wake
    <2> HIDE DEF H
    <2> QED
      BY <2>2, <2>3, <2>4
  <1>2. /\ Formed(A) /\ SameStore(Frame, A) /\ SameControl(Frame, A)
        /\ A.inst.workflow = inst.workflow /\ A.inst.state = "Running"
    BY FrameIs, ZenonT(30)
       DEF CInv, Tidy, Typed, Formed, Fields, InstFields, SameStore, SameControl
  <1> HIDE DEF A
  <1>3. /\ Formed(G) /\ SameStore(A, G) /\ SameControl(A, G)
        /\ G.inst.workflow = A.inst.workflow /\ G.inst.state = A.inst.state
        /\ G.inst.incident = 0
    BY <1>2, ZenonT(30)
       DEF Formed, Fields, InstFields, SameStore, SameControl
  <1> HIDE DEF G
  <1>4. Status(G.inst)
    BY <1>2, <1>3 DEF Status
  <1>5. SameStore(Frame, G) /\ SameControl(Frame, G)
    BY <1>2, <1>3 DEF SameStore, SameControl
  <1>6. Tidy(G)
    BY <1>3, <1>4, <1>5 DEF CInv, Tidy, Typed, SameStore, SameControl
  <1>7. G.fibers = fibers
    BY <1>5, FrameIs DEF SameControl
  <1> QED
    BY <1>1, <1>6, <1>7, TidyWake, CommitKeeps

LEMMA TriggerKeeps == ASSUME CInv, NEW r, TriggerGuard(r) PROVE CInv'
  <1>1. Tidy(Trigger(Frame, r, records[r].handler))
    BY TidyTrigger DEF CInv
  <1> QED
    BY <1>1, CommitKeeps DEF TriggerGuard

LEMMA StutterKeeps == ASSUME CInv, UNCHANGED vars PROVE CInv'
  <1>1. Frame' = Frame /\ Program' = Program /\ Keys' = Keys /\ Places' = Places
    BY DEF vars, Frame, Program, Keys, Places
  <1>2. /\ inst' = Frame.inst /\ fibers' = Frame.fibers
        /\ records' = Frame.records /\ jobs' = Frame.jobs
        /\ dead' = Frame.dead /\ dedupe' = Frame.dedupe
        /\ timers' = Frame.timers /\ effects' = Frame.effects
        /\ buffer' = Frame.buffer /\ inst'.workflow = inst.workflow
    BY DEF vars, Frame
  <1>3. Tidy(Frame)'
    BY <1>2, TidyNext DEF CInv
  <1>4. KInvariants(Frame')
    BY <1>1 DEF CInv
  <1> QED
    BY <1>1, <1>3, <1>4 DEF CInv, vars

LEMMA StartTidy == ASSUME Init PROVE CInv
  <1>1. PICK w \in Admitted : \E n \in Lengths[w] :
            inst = [workflow |-> w, state |-> "Running", incident |-> 0,
                    payload |-> {}, flags |-> [k \in Flags |-> FALSE],
                    items |-> n, counters |-> [c \in Counters |-> 0],
                    placeholders |-> <<>>]
    BY ZenonT(30) DEF Init
  <1>2. /\ inst = [x \in InstFields |-> inst[x]] /\ inst.workflow = w
        /\ inst.state = "Running" /\ inst.incident = 0
    <2>1. PICK n \in Lengths[w] :
            inst = [workflow |-> w, state |-> "Running", incident |-> 0,
                    payload |-> {}, flags |-> [k \in Flags |-> FALSE],
                    items |-> n, counters |-> [c \in Counters |-> 0],
                    placeholders |-> <<>>]
      BY <1>1, ZenonT(30)
    <2> QED
      BY <2>1, ZenonT(30) DEF InstFields
  <1>3. /\ records = <<>> /\ jobs = <<>> /\ dead = {} /\ dedupe = <<>>
        /\ timers = <<>> /\ effects = <<>>
        /\ buffer = [m \in Messages |-> "none"]
    BY DEF Init
  <1> DEFINE fb == NewFiber(0, <<>>)
  <1>4. DOMAIN fibers = {1} /\ fibers[1] = fb
    BY DEF Init
  <1>5. /\ fb = [x \in FiberFields |-> fb[x]] /\ fb.pc = 0 /\ fb.stack = <<>>
        /\ fb.wait = Running /\ fb.epoch = 0
    BY NewFiberIs DEF Stands
  <1> HIDE DEF fb
  <1>6. TypedFiber(fb) /\ EffectiveStack(fb) = <<>>
    <2>1. fb.stack \in Seq(Ids) /\ fb.epoch \in Nat
      <3>1. <<>> \in Seq(Ids) /\ 0 \in Nat
        BY EmptySeq
      <3> QED
        BY <1>5, <3>1, Zenon
    <2>2. fb.wait.kind \in WaitKinds \ {"Barrier", "Race"}
      BY <1>5, WaitingKind
    <2> QED
      BY <1>5, <2>1, <2>2, PlainFiber
  <1>7. DOMAIN <<>> = {} /\ Len(<<>>) = 0 /\ Range(<<>>) = {}
    BY DEF Range
  <1>8. Formed(Frame) /\ Status(Frame.inst)
    <2>1. FibersFormed(fibers) /\ RecordsFormed(records)
      BY <1>3, <1>4, <1>5, <1>7 DEF FibersFormed, RecordsFormed
    <2> QED
      BY <1>2, <2>1, FrameIs DEF Formed, Status
  <1>9. Fibers(Frame.fibers) /\ Prefixed(Frame.fibers)
    <2>1. Fibers(fibers)
      BY <1>4, <1>6, FS_Singleton DEF Fibers, Ids
    <2>2. Prefixed(fibers)
      BY <1>4, <1>6, <1>7 DEF Prefixed, Agree
    <2> QED
      BY <2>1, <2>2, FrameIs
  <1>10. Records(Frame.records) /\ JobRows(Frame.jobs, Frame.dead, Frame.dedupe)
    BY <1>3, <1>7, FrameIs, FS_EmptySet, ZenonT(30) DEF Records, JobRows
  <1>11. TimerRows(Frame.timers) /\ EffectRows(Frame.effects)
    BY <1>3, <1>7, FrameIs, FS_EmptySet DEF TimerRows, EffectRows
  <1>12. BufferRows(Frame.buffer)
    <2>1. DOMAIN buffer = Messages /\ DOMAIN buffer \ Messages = {}
      BY <1>3
    <2> QED
      BY <1>3, <2>1, FrameIs, FS_EmptySet, ZenonT(30) DEF BufferRows
  <1>13. Tidy(Frame)
    BY <1>8, <1>9, <1>10, <1>11, <1>12 DEF Tidy, Typed
  <1>14. \A f \in DOMAIN fibers : fibers[f].pc \in DOMAIN Program
    BY <1>2, <1>4, <1>5, ProgramAssumption DEF Program, Admitted
  <1>15. KInvariants(Frame)
    BY <1>3, <1>4, <1>6, <1>7, FrameIs DEF KInvariants
  <1> QED
    BY <1>2, <1>13, <1>14, <1>15 DEF CInv

LEMMA NextKeeps == ASSUME CInv, [Next]_vars PROVE CInv'
  <1>1. CASE Ticks
    BY <1>1, TickKeeps DEF Ticks
  <1>2. CASE Completions
    BY <1>2, CompleteJobKeeps DEF Completions
  <1>3. CASE \E k \in DOMAIN jobs, why \in Failures[inst.workflow] : FailJob(k, why)
    BY <1>3, FailJobKeeps
  <1>4. CASE Timers
    BY <1>4, FireTimerKeeps DEF Timers
  <1>5. CASE Calls
    BY <1>5, CompleteEffectKeeps DEF Calls
  <1>6. CASE \E e \in DOMAIN effects, why \in Failures[inst.workflow] :
                FailEffect(e, why)
    BY <1>6, FailEffectKeeps
  <1>7. CASE \E m \in Messages : DeliverMessage(m)
    BY <1>7, DeliverMessageKeeps
  <1>8. CASE \E m \in DOMAIN buffer : MessageClaimLapses(m)
    BY <1>8, LapseKeeps
  <1>9. CASE Cancel \/ Terminate
    BY <1>9, StopKeeps DEF Cancel, Terminate, Terminal
  <1>10. CASE ResolveIncident
    BY <1>10, ResolveKeeps
  <1>11. CASE \E r \in DOMAIN records : TriggerGuard(r)
    BY <1>11, TriggerKeeps
  <1>12. CASE UNCHANGED vars
    BY <1>12, StutterKeeps
  <1> QED
    BY <1>1, <1>2, <1>3, <1>4, <1>5, <1>6, <1>7, <1>8, <1>9, <1>10, <1>11,
       <1>12 DEF Next

(* The invariant holds in every reachable state.                           *)
LEMMA Controlled == Spec => []CInv
  BY StartTidy, NextKeeps, PTL DEF Spec

(* TypeOK of the fibre machine, for any programs the verifier admits:      *)
(* fibres stand at addresses of the program, handles on a control stack    *)
(* are identities, and the rows that the commands write are keyed by       *)
(* address and epoch, whatever order the commands come in.                 *)
THEOREM TypeCorrect == Spec => []TypeOK
  <1>1. CInv => TypeOK
    <2> SUFFICES ASSUME CInv PROVE TypeOK
      OBVIOUS
    <2>1. /\ Status(inst) /\ Fibers(fibers) /\ Records(records)
          /\ JobRows(jobs, dead, dedupe) /\ TimerRows(timers)
          /\ EffectRows(effects) /\ BufferRows(buffer)
      BY FrameIs DEF CInv, Tidy, Typed
    <2>2. /\ inst.state \in Terminal \cup {"Running", "Incidented"}
          /\ inst.incident \in Ids \cup {0}
      BY <2>1 DEF Status, Ids
    <2>3. /\ DOMAIN fibers \subseteq Ids /\ DOMAIN records \subseteq Ids
          /\ \A f \in DOMAIN fibers :
                /\ fibers[f].pc \in DOMAIN Program /\ fibers[f].epoch \in Nat
                /\ fibers[f].stack \in Seq(Ids)
                /\ fibers[f].wait.kind \in WaitKinds
      BY <2>1 DEF CInv, Fibers, TypedFiber, Records
    <2>4. \A k \in DOMAIN jobs \cup dead \cup DOMAIN dedupe :
            k \in (DOMAIN Program) \X Nat
      BY <2>1 DEF JobRows, Keys
    <2>5. /\ DOMAIN timers \subseteq Ids \X (DOMAIN Program)
          /\ \A t \in DOMAIN timers : timers[t].left \in Nat
      BY <2>1 DEF TimerRows, Places
    <2>6. /\ DOMAIN effects \subseteq Ids \X (DOMAIN Program)
          /\ \A e \in DOMAIN effects :
                effects[e].state \in {"open", "completed", "failed"}
      BY <2>1 DEF EffectRows, Places
    <2>7. /\ DOMAIN buffer \subseteq Messages \cup (Ids \X (DOMAIN Program))
          /\ Range(buffer) \subseteq {"none", "buffered", "claimed", "consumed"}
      BY <2>1 DEF BufferRows, Places, Range
    <2> QED
      BY <2>2, <2>3, <2>4, <2>5, <2>6, <2>7 DEF TypeOK, WaitKinds
  <1> QED
    BY <1>1, Controlled, PTL

(* SharedPrefix: a handle has one place in all control stacks that hold    *)
(* it, with the same handles below, for any programs the verifier admits.  *)
(* So the handler that v2_trigger_guard_changes_with_target starts gets    *)
(* the same stack whichever fibre inside the guard it is taken from.       *)
THEOREM HandlesHaveOnePlace == Spec => []SharedPrefix
  <1>1. CInv => SharedPrefix
    <2> SUFFICES ASSUME CInv PROVE SharedPrefix
      OBVIOUS
    <2>1. Fibers(fibers) /\ Prefixed(fibers)
      BY FrameIs DEF CInv, Tidy, Typed
    <2>2. SUFFICES ASSUME NEW f \in DOMAIN fibers, NEW g \in DOMAIN fibers
                   PROVE  LET s == EffectiveStack(fibers[f])
                              t == EffectiveStack(fibers[g])
                          IN  \A n \in DOMAIN s, m \in DOMAIN t : s[n] = t[m] =>
                                n = m /\ \A k \in 1..n : s[k] = t[k]
      BY DEF SharedPrefix
    <2> DEFINE s == EffectiveStack(fibers[f])
               t == EffectiveStack(fibers[g])
    <2>3. s \in Seq(Ids) /\ t \in Seq(Ids) /\ Agree(s, t)
      BY <2>1 DEF Fibers, TypedFiber, Prefixed
    <2> HIDE DEF s, t
    <2>4. DOMAIN s = 1..Len(s) /\ DOMAIN t = 1..Len(t)
      BY <2>3, LenProperties
    <2>5. \A n \in DOMAIN s, m \in DOMAIN t : s[n] = t[m] =>
                n = m /\ \A k \in 1..n : s[k] = t[k]
      BY <2>3, <2>4 DEF Agree
    <2> QED
      BY <2>5 DEF s, t
  <1> QED
    BY <1>1, Controlled, PTL
=============================================================================
