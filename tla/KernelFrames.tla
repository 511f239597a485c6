---------------------------- MODULE KernelFrames ----------------------------
(***************************************************************************)
(* What the operators of KernelWords do to a frame, field by field; how    *)
(* control stacks that share handles may grow and shrink; and that Fresh   *)
(* yields identities that nothing in the frame refers to: the lemmas that  *)
(* the invariants of the kernel's control structure rest on.               *)
(***************************************************************************)
EXTENDS KernelWords, FiniteSetTheorems, SequenceTheorems, WellFoundedInduction,
        TLAPS

(* How long the provers may take.                                          *)
USE SMTT(10), ZenonT(30)

-----------------------------------------------------------------------------
(* Induction over the instructions of a tick.                              *)

Less == {ss \in Nat \X Nat : ss[1] < ss[2]}

LEMMA LessWellFounded == IsWellFoundedOn(Less, Nat)
  BY NatLessThanWellFounded, Zenon DEF OpToRel, Less

(* A set of naturals that holds 0 and every successor of its members holds *)
(* them all.                                                               *)
LEMMA Induction ==
    ASSUME NEW S \in SUBSET Nat, 0 \in S, \A n \in S : n + 1 \in S
    PROVE  S = Nat
  <1> SUFFICES ASSUME Nat \ S # {} PROVE FALSE
    BY Zenon
  <1>1. PICK x \in Nat \ S : \A y \in Nat \ S : ~(<<y, x>> \in Less)
    BY LessWellFounded, WFMin, Zenon
  <1>2. x - 1 \in Nat /\ <<x - 1, x>> \in Less
    BY DEF Less
  <1>3. x - 1 \in S
    BY <1>1, <1>2
  <1> QED
    BY <1>2, <1>3

(* The sequence of sets of frames that RunFiber defines exists.            *)
IsRun(g, N, F, f) ==
    g = [n \in 0..N |-> IF n = 0 THEN {F} ELSE {Exec(G, f) : G \in g[n - 1]}]

LEMMA RunExists ==
    ASSUME NEW F, NEW f, NEW N \in Nat
    PROVE  \E g : IsRun(g, N, F, f)
  <1> DEFINE S == {n \in Nat : \E g : IsRun(g, n, F, f)}
  <1>1. 0 \in S
    <2>1. IsRun([n \in 0..0 |-> {F}], 0, F, f)
      BY DEF IsRun
    <2> QED
      BY <2>1
  <1>2. ASSUME NEW n \in S PROVE n + 1 \in S
    <2>1. PICK g : IsRun(g, n, F, f)
      OBVIOUS
    <2> DEFINE h == [m \in 0..(n + 1) |-> IF m \in 0..n THEN g[m]
                                          ELSE {Exec(G, f) : G \in g[n]}]
    <2>2. n \in Nat
      OBVIOUS
    <2>3. \A m \in 0..(n + 1) :
            h[m] = IF m = 0 THEN {F} ELSE {Exec(G, f) : G \in h[m - 1]}
      <3> TAKE m \in 0..(n + 1)
      <3>1. CASE m = 0
        BY <2>1, <2>2, <3>1 DEF IsRun
      <3>2. CASE m \in 0..n /\ m # 0
        <4>1. h[m - 1] = g[m - 1] /\ h[m] = g[m]
          BY <2>2, <3>2
        <4>2. g[m] = {Exec(G, f) : G \in g[m - 1]}
          BY <2>1, <2>2, <3>2 DEF IsRun
        <4> QED
          BY <4>1, <4>2, <3>2
      <3>3. CASE m = n + 1
        <4>1. h[m - 1] = g[n] /\ h[m] = {Exec(G, f) : G \in g[n]} /\ m # 0
          BY <2>2, <3>3
        <4> QED
          BY <4>1
      <3> QED
        BY <3>1, <3>2, <3>3, <2>2
    <2>4. IsRun(h, n + 1, F, f)
      BY <2>3, Zenon DEF IsRun
    <2> QED
      BY <2>2, <2>4
  <1>3. S = Nat
    <2> HIDE DEF S
    <2>1. S \in SUBSET Nat
      BY DEF S
    <2> QED
      BY <1>1, <1>2, <2>1, Induction
  <1> QED
    BY <1>3

-----------------------------------------------------------------------------
(* Frames.                                                                 *)

FiberFields == {"pc", "stack", "wait", "epoch"}

RecordFields ==
    {"kind", "members", "arity", "count", "handler", "opened", "routes",
     "saved"}

IsRecord(rec) == rec = [x \in RecordFields |-> rec[x]]

(* F is a frame of records.                                                *)
FibersFormed(fbs) ==
    \A f \in DOMAIN fbs : fbs[f] = [x \in FiberFields |-> fbs[f][x]]

RecordsFormed(recs) ==
    \A r \in DOMAIN recs : IsRecord(recs[r])

Formed(F) ==
    /\ F = [x \in Fields |-> F[x]]
    /\ F.inst = [x \in InstFields |-> F.inst[x]]
    /\ FibersFormed(F.fibers)
    /\ RecordsFormed(F.records)

(* G agrees with F on what the store keeps, and on the instance; on what   *)
(* the tick carries along.                                                 *)
SameStore(F, G) ==
    /\ G.jobs = F.jobs /\ G.dead = F.dead /\ G.dedupe = F.dedupe
    /\ G.timers = F.timers /\ G.effects = F.effects
    /\ G.buffer = F.buffer /\ G.claimed = F.claimed

SameLedgers(F, G) == G.inst = F.inst /\ SameStore(F, G)

SameTick(F, G) == G.arms = F.arms /\ G.stop = F.stop /\ G.error = F.error

(* Of the fibres only f may differ.                                        *)
Others(gbs, fbs, f) ==
    /\ DOMAIN gbs = DOMAIN fbs
    /\ \A g \in DOMAIN fbs \ {f} : gbs[g] = fbs[g]

(* Fibres S are gone, fibre h is new.                                      *)
Replaced(gbs, fbs, S, h) ==
    /\ DOMAIN gbs = (DOMAIN fbs \ S) \cup {h}
    /\ \A g \in (DOMAIN fbs \ S) \ {h} : gbs[g] = fbs[g]

(* Fibres S are gone, f may differ.                                        *)
Survives(gbs, fbs, S, f) ==
    /\ DOMAIN gbs = DOMAIN fbs \ S
    /\ \A g \in DOMAIN fbs \ (S \cup {f}) : gbs[g] = fbs[g]

(* Fibre f is gone, fibres S are new.                                      *)
Forked(gbs, fbs, f, S) ==
    /\ DOMAIN gbs = (DOMAIN fbs \ {f}) \cup S
    /\ \A g \in (DOMAIN fbs \ {f}) \ S : gbs[g] = fbs[g]

(* The fibre stands at pc with the given stack, wait state and loop epoch. *)
Stands(fb, pc, stack, wait, epoch) ==
    fb.pc = pc /\ fb.stack = stack /\ fb.wait = wait /\ fb.epoch = epoch

-----------------------------------------------------------------------------
(* Fibres.                                                                 *)

WithPc(fbs, f, v) == [fbs EXCEPT ![f].pc = v]

WithStack(fbs, f, v) == [fbs EXCEPT ![f].stack = v]

WithWait(fbs, f, v) == [fbs EXCEPT ![f].wait = v]

WithEpoch(fbs, f, v) == [fbs EXCEPT ![f].epoch = v]

LEMMA SetPc ==
    ASSUME NEW fbs, FibersFormed(fbs), NEW f \in DOMAIN fbs, NEW v
    PROVE  LET gbs == WithPc(fbs, f, v) fb == fbs[f]
           IN  /\ FibersFormed(gbs) /\ Others(gbs, fbs, f)
               /\ Stands(gbs[f], v, fb.stack, fb.wait, fb.epoch)
  BY DEF WithPc, FibersFormed, FiberFields, Others, Stands

LEMMA SetStack ==
    ASSUME NEW fbs, FibersFormed(fbs), NEW f \in DOMAIN fbs, NEW v
    PROVE  LET gbs == WithStack(fbs, f, v) fb == fbs[f]
           IN  /\ FibersFormed(gbs) /\ Others(gbs, fbs, f)
               /\ Stands(gbs[f], fb.pc, v, fb.wait, fb.epoch)
  BY DEF WithStack, FibersFormed, FiberFields, Others, Stands

LEMMA SetWait ==
    ASSUME NEW fbs, FibersFormed(fbs), NEW f \in DOMAIN fbs, NEW v
    PROVE  LET gbs == WithWait(fbs, f, v) fb == fbs[f]
           IN  /\ FibersFormed(gbs) /\ Others(gbs, fbs, f)
               /\ Stands(gbs[f], fb.pc, fb.stack, v, fb.epoch)
  BY DEF WithWait, FibersFormed, FiberFields, Others, Stands

LEMMA SetEpoch ==
    ASSUME NEW fbs, FibersFormed(fbs), NEW f \in DOMAIN fbs, NEW v
    PROVE  LET gbs == WithEpoch(fbs, f, v) fb == fbs[f]
           IN  /\ FibersFormed(gbs) /\ Others(gbs, fbs, f)
               /\ Stands(gbs[f], fb.pc, fb.stack, fb.wait, v)
  BY DEF WithEpoch, FibersFormed, FiberFields, Others, Stands

-----------------------------------------------------------------------------
(* Functions and records.                                                  *)

LEMMA PutIs ==
    ASSUME NEW g, NEW x, NEW v
    PROVE  /\ DOMAIN Put(g, x, v) = DOMAIN g \cup {x}
           /\ Put(g, x, v)[x] = v
           /\ \A y \in DOMAIN g \ {x} : Put(g, x, v)[y] = g[y]
  BY DEF Put

LEMMA WithoutIs ==
    ASSUME NEW g, NEW S
    PROVE  /\ DOMAIN Without(g, S) = DOMAIN g \ S
           /\ \A y \in DOMAIN g \ S : Without(g, S)[y] = g[y]
  BY DEF Without, Restrict

LEMMA PutRecord ==
    ASSUME NEW recs, RecordsFormed(recs), NEW r,
           NEW record, IsRecord(record)
    PROVE  RecordsFormed(Put(recs, r, record))
  <1> DEFINE new == Put(recs, r, record)
  <1>1. /\ DOMAIN new = DOMAIN recs \cup {r} /\ new[r] = record
        /\ \A y \in DOMAIN recs \ {r} : new[y] = recs[y]
    BY DEF Put
  <1> HIDE DEF new
  <1>2. \A q \in DOMAIN new : IsRecord(new[q])
    BY <1>1 DEF RecordsFormed
  <1> QED
    BY <1>2, Zenon DEF RecordsFormed, new

LEMMA WithoutRecords ==
    ASSUME NEW recs, RecordsFormed(recs), NEW S
    PROVE  RecordsFormed(Without(recs, S))
  <1> DEFINE new == Without(recs, S)
  <1>1. /\ DOMAIN new = DOMAIN recs \ S
        /\ \A y \in DOMAIN recs \ S : new[y] = recs[y]
    BY WithoutIs, Zenon
  <1> HIDE DEF new
  <1>2. \A q \in DOMAIN new : IsRecord(new[q])
    BY <1>1 DEF RecordsFormed
  <1> QED
    BY <1>2, Zenon DEF RecordsFormed, new

(* Enrol and Expel change the members of records, nothing else.            *)
SameButMembers(rec, old) ==
    /\ IsRecord(rec)
    /\ rec.kind = old.kind /\ rec.arity = old.arity /\ rec.count = old.count
    /\ rec.handler = old.handler /\ rec.opened = old.opened
    /\ rec.routes = old.routes /\ rec.saved = old.saved

LEMMA SetMembers ==
    ASSUME NEW rec, IsRecord(rec), NEW S
    PROVE  /\ SameButMembers([rec EXCEPT !.members = S], rec)
           /\ [rec EXCEPT !.members = S].members = S
  BY DEF IsRecord, RecordFields, SameButMembers

LEMMA EnrolIs ==
    ASSUME NEW recs, RecordsFormed(recs), NEW handles, NEW fs
    PROVE  LET new == Enrol(recs, handles, fs)
           IN  /\ RecordsFormed(new) /\ DOMAIN new = DOMAIN recs
               /\ \A r \in DOMAIN recs :
                    /\ SameButMembers(new[r], recs[r])
                    /\ new[r].members = IF r \in handles
                          THEN recs[r].members \cup fs ELSE recs[r].members
  <1> DEFINE new == Enrol(recs, handles, fs)
  <1>1. DOMAIN new = DOMAIN recs
    BY DEF Enrol
  <1>2. ASSUME NEW r \in DOMAIN recs
        PROVE  /\ SameButMembers(new[r], recs[r])
               /\ new[r].members = IF r \in handles
                     THEN recs[r].members \cup fs ELSE recs[r].members
    <2>1. IsRecord(recs[r])
      BY DEF RecordsFormed
    <2>2. CASE r \in handles
      <3>1. new[r] = [recs[r] EXCEPT !.members = recs[r].members \cup fs]
        BY <2>2, Zenon DEF Enrol
      <3> HIDE DEF new
      <3> QED
        BY <2>1, <2>2, <3>1, SetMembers
    <2>3. CASE r \notin handles
      <3>1. new[r] = recs[r]
        BY <2>3, Zenon DEF Enrol
      <3> HIDE DEF new
      <3> QED
        BY <2>1, <2>3, <3>1, Zenon DEF SameButMembers
    <2> QED
      BY <2>2, <2>3
  <1>3. RecordsFormed(new)
    <2> HIDE DEF new
    <2> QED
      BY <1>1, <1>2, ZenonT(30) DEF RecordsFormed, SameButMembers
  <1> QED
    BY <1>1, <1>2, <1>3

LEMMA ExpelIs ==
    ASSUME NEW recs, RecordsFormed(recs), NEW fbs, NEW fs
    PROVE  LET new == Expel(recs, fbs, fs)
           IN  /\ RecordsFormed(new) /\ DOMAIN new = DOMAIN recs
               /\ \A r \in DOMAIN recs :
                    /\ SameButMembers(new[r], recs[r])
                    /\ new[r].members = recs[r].members
                          \ {f \in fs : r \in Range(fbs[f].stack)}
  <1> DEFINE new == Expel(recs, fbs, fs)
             gone(r) == {f \in fs : r \in Range(fbs[f].stack)}
  <1>1. DOMAIN new = DOMAIN recs
    BY DEF Expel
  <1>2. ASSUME NEW r \in DOMAIN recs
        PROVE  /\ SameButMembers(new[r], recs[r])
               /\ new[r].members = recs[r].members \ gone(r)
    <2>1. IsRecord(recs[r])
      BY DEF RecordsFormed
    <2>2. new[r] = [recs[r] EXCEPT !.members = recs[r].members \ gone(r)]
      BY Zenon DEF Expel
    <2> HIDE DEF new, gone
    <2> QED
      BY <2>1, <2>2, SetMembers
  <1>3. RecordsFormed(new)
    <2> HIDE DEF new
    <2> QED
      BY <1>1, <1>2 DEF RecordsFormed, SameButMembers
  <1> QED
    BY <1>1, <1>2, <1>3

-----------------------------------------------------------------------------
(* The steps that words and commands are made of.                          *)

LEMMA GotoFrame ==
    ASSUME NEW F, Formed(F), NEW f \in DOMAIN F.fibers, NEW addr
    PROVE  LET G == Goto(F, f, addr) fb == F.fibers[f]
           IN  /\ Formed(G) /\ SameLedgers(F, G) /\ SameTick(F, G)
               /\ G.records = F.records
               /\ Others(G.fibers, F.fibers, f)
               /\ Stands(G.fibers[f], addr, fb.stack, fb.wait, fb.epoch)
  <1> DEFINE G == Goto(F, f, addr)
  <1>1. /\ G = [x \in Fields |-> G[x]]
        /\ G.fibers = WithPc(F.fibers, f, addr)
        /\ G.records = F.records /\ SameLedgers(F, G) /\ SameTick(F, G)
    BY DEF Formed, Fields, SameLedgers, SameStore, SameTick, Goto, WithPc
  <1>2. LET fb == F.fibers[f]
        IN  /\ FibersFormed(G.fibers) /\ Others(G.fibers, F.fibers, f)
            /\ Stands(G.fibers[f], addr, fb.stack, fb.wait, fb.epoch)
    BY <1>1, SetPc DEF Formed
  <1>3. Formed(G)
    BY <1>1, <1>2 DEF Formed, SameLedgers
  <1> QED
    BY <1>1, <1>2, <1>3

LEMMA AdvanceFrame ==
    ASSUME NEW F, Formed(F), NEW f \in DOMAIN F.fibers
    PROVE  LET G == Advance(F, f) fb == F.fibers[f]
           IN  /\ Formed(G) /\ SameLedgers(F, G) /\ SameTick(F, G)
               /\ G.records = F.records
               /\ Others(G.fibers, F.fibers, f)
               /\ Stands(G.fibers[f], fb.pc + 1, fb.stack, fb.wait, fb.epoch)
  BY GotoFrame, Zenon DEF Advance

LEMMA RefuseFrame ==
    ASSUME NEW F, Formed(F), NEW why
    PROVE  LET G == Refuse(F, why)
           IN  /\ Formed(G) /\ SameLedgers(F, G)
               /\ G.fibers = F.fibers /\ G.records = F.records
               /\ G.arms = F.arms /\ G.stop = F.stop /\ G.error = why
  BY DEF Formed, Fields, SameLedgers, SameStore, Refuse

LEMMA ParkFrame ==
    ASSUME NEW F, Formed(F), NEW f \in DOMAIN F.fibers, NEW wait
    PROVE  LET G == Park(F, f, wait) fb == F.fibers[f]
           IN  /\ Formed(G) /\ SameLedgers(F, G)
               /\ G.arms = F.arms /\ G.stop = TRUE /\ G.error = F.error
               /\ G.records = F.records
               /\ Others(G.fibers, F.fibers, f)
               /\ Stands(G.fibers[f], fb.pc, fb.stack, wait, fb.epoch)
  <1> DEFINE G == Park(F, f, wait)
  <1>1. /\ G = [x \in Fields |-> G[x]]
        /\ G.fibers = WithWait(F.fibers, f, wait)
        /\ G.records = F.records /\ SameLedgers(F, G)
        /\ G.arms = F.arms /\ G.stop = TRUE /\ G.error = F.error
    BY ZenonT(30) DEF Formed, Fields, SameLedgers, SameStore, Park, WithWait
  <1>2. LET fb == F.fibers[f]
        IN  /\ FibersFormed(G.fibers) /\ Others(G.fibers, F.fibers, f)
            /\ Stands(G.fibers[f], fb.pc, fb.stack, wait, fb.epoch)
    BY <1>1, SetWait DEF Formed
  <1>3. Formed(G)
    BY <1>1, <1>2 DEF Formed, SameLedgers
  <1> QED
    BY <1>1, <1>2, <1>3

LEMMA RaiseFrame ==
    ASSUME NEW F, Formed(F), NEW f \in DOMAIN F.fibers
    PROVE  LET G == RaiseIncident(F, f) fb == F.fibers[f]
           IN  /\ Formed(G) /\ SameStore(F, G)
               /\ G.inst = [F.inst EXCEPT !.state = "Incidented", !.incident = f]
               /\ G.arms = F.arms /\ G.stop = TRUE /\ G.error = F.error
               /\ G.records = F.records
               /\ Others(G.fibers, F.fibers, f)
               /\ Stands(G.fibers[f], fb.pc, fb.stack,
                         Waiting("Incident", <<f>>), fb.epoch)
  <1> DEFINE G == RaiseIncident(F, f)
             w == Waiting("Incident", <<f>>)
  <1>1. /\ G = [x \in Fields |-> G[x]]
        /\ G.inst = [F.inst EXCEPT !.state = "Incidented", !.incident = f]
        /\ G.fibers = WithWait(F.fibers, f, w)
        /\ G.records = F.records /\ SameStore(F, G)
        /\ G.arms = F.arms /\ G.stop = TRUE /\ G.error = F.error
    BY ZenonT(30) DEF Formed, Fields, SameStore, RaiseIncident, WithWait
  <1>2. LET fb == F.fibers[f]
        IN  /\ FibersFormed(G.fibers) /\ Others(G.fibers, F.fibers, f)
            /\ Stands(G.fibers[f], fb.pc, fb.stack, w, fb.epoch)
    BY <1>1, SetWait DEF Formed
  <1>3. G.inst = [x \in InstFields |-> G.inst[x]]
    BY <1>1, Zenon DEF Formed, InstFields
  <1>4. Formed(G)
    BY <1>1, <1>2, <1>3 DEF Formed
  <1> QED
    BY <1>1, <1>2, <1>4

(* A record is armed with f as its member and f steps inside.              *)
LEMMA OpenFrame ==
    ASSUME NEW F, Formed(F), NEW f \in DOMAIN F.fibers,
           NEW record, IsRecord(record)
    PROVE  LET G == Open(F, f, record)
               fb == F.fibers[f]
               r == Fresh(F, 1)[1]
           IN  /\ Formed(G) /\ SameLedgers(F, G) /\ SameTick(F, G)
               /\ G.records = Put(F.records, r, record)
               /\ Others(G.fibers, F.fibers, f)
               /\ Stands(G.fibers[f], fb.pc + 1, Append(fb.stack, r), fb.wait,
                         fb.epoch)
  <1> DEFINE r == Fresh(F, 1)[1]
             H == [F EXCEPT !.records = Put(@, r, record),
                            !.fibers[f].stack = Append(@, r)]
             G == Advance(H, f)
  <1>1. /\ H = [x \in Fields |-> H[x]]
        /\ H.fibers = WithStack(F.fibers, f, Append(F.fibers[f].stack, r))
        /\ H.records = Put(F.records, r, record)
        /\ SameLedgers(F, H) /\ SameTick(F, H)
    <2> HIDE DEF r
    <2> QED
      BY ZenonT(30) DEF Formed, Fields, SameLedgers, SameStore, SameTick,
                        WithStack
  <1> HIDE DEF H
  <1>2. RecordsFormed(H.records)
    <2> HIDE DEF r
    <2>1. RecordsFormed(F.records)
      BY DEF Formed
    <2> QED
      BY <1>1, <2>1, PutRecord
  <1>3. LET fb == F.fibers[f]
        IN  /\ FibersFormed(H.fibers) /\ Others(H.fibers, F.fibers, f)
            /\ Stands(H.fibers[f], fb.pc, Append(fb.stack, r), fb.wait, fb.epoch)
    <2> HIDE DEF r
    <2> QED
      BY <1>1, SetStack DEF Formed
  <1>4. Formed(H) /\ f \in DOMAIN H.fibers
    BY <1>1, <1>2, <1>3 DEF Formed, SameLedgers, Others
  <1>5. Open(F, f, record) = G
    BY Zenon DEF Open, H
  <1> HIDE DEF G, r
  <1>6. LET fb == H.fibers[f]
        IN  /\ Formed(G) /\ SameLedgers(H, G) /\ SameTick(H, G)
            /\ G.records = H.records /\ Others(G.fibers, H.fibers, f)
            /\ Stands(G.fibers[f], fb.pc + 1, fb.stack, fb.wait, fb.epoch)
    BY <1>4, AdvanceFrame, Zenon DEF G
  <1>7. /\ SameLedgers(F, G) /\ SameTick(F, G)
        /\ G.records = Put(F.records, r, record)
        /\ Others(G.fibers, F.fibers, f)
    BY <1>1, <1>3, <1>6 DEF SameLedgers, SameStore, SameTick, Others
  <1>8. LET fb == F.fibers[f]
        IN  Stands(G.fibers[f], fb.pc + 1, Append(fb.stack, r), fb.wait, fb.epoch)
    BY <1>3, <1>6 DEF Stands
  <1> QED
    BY <1>5, <1>6, <1>7, <1>8 DEF r

LEMMA SetRecords ==
    ASSUME NEW F, Formed(F), NEW recs, RecordsFormed(recs)
    PROVE  LET G == [F EXCEPT !.records = recs]
           IN  /\ Formed(G) /\ SameLedgers(F, G) /\ SameTick(F, G)
               /\ G.fibers = F.fibers /\ G.records = recs
  BY DEF Formed, Fields, SameLedgers, SameStore, SameTick

LEMMA PopFrame ==
    ASSUME NEW F, Formed(F), NEW f \in DOMAIN F.fibers
    PROVE  LET G == Pop(F, f) fb == F.fibers[f]
           IN  /\ Formed(G) /\ SameLedgers(F, G) /\ SameTick(F, G)
               /\ G.records = F.records
               /\ Others(G.fibers, F.fibers, f)
               /\ Stands(G.fibers[f], fb.pc, Front(fb.stack), fb.wait, fb.epoch)
  <1> DEFINE G == Pop(F, f)
  <1>1. /\ G = [x \in Fields |-> G[x]]
        /\ G.fibers = WithStack(F.fibers, f, Front(F.fibers[f].stack))
        /\ G.records = F.records /\ SameLedgers(F, G) /\ SameTick(F, G)
    BY DEF Formed, Fields, SameLedgers, SameStore, SameTick, Pop, WithStack
  <1>2. LET fb == F.fibers[f]
        IN  /\ FibersFormed(G.fibers) /\ Others(G.fibers, F.fibers, f)
            /\ Stands(G.fibers[f], fb.pc, Front(fb.stack), fb.wait, fb.epoch)
    BY <1>1, SetStack DEF Formed
  <1>3. Formed(G)
    BY <1>1, <1>2 DEF Formed, SameLedgers
  <1> QED
    BY <1>1, <1>2, <1>3

(* The guard on top of f's stack is closed.                                *)
LEMMA CloseFrame ==
    ASSUME NEW F, Formed(F), NEW f \in DOMAIN F.fibers, NEW i
    PROVE  LET G == GuardEnd(F, f, i)
               fb == F.fibers[f]
           IN  /\ Formed(G) /\ SameLedgers(F, G) /\ SameTick(F, G)
               /\ G.records = Without(F.records, {Last(fb.stack)})
               /\ Others(G.fibers, F.fibers, f)
               /\ Stands(G.fibers[f], fb.pc + 1, Front(fb.stack), fb.wait,
                         fb.epoch)
  <1> DEFINE fb == F.fibers[f]
             P == Pop(F, f)
             recs == Without(F.records, {Last(fb.stack)})
             H == [P EXCEPT !.records = recs]
             G == Advance(H, f)
  <1>1. /\ Formed(P) /\ SameLedgers(F, P) /\ SameTick(F, P)
        /\ P.records = F.records /\ Others(P.fibers, F.fibers, f)
        /\ Stands(P.fibers[f], fb.pc, Front(fb.stack), fb.wait, fb.epoch)
    BY PopFrame, Zenon
  <1>2. GuardEnd(F, f, i) = G
    BY <1>1, Zenon DEF GuardEnd, Top
  <1>3. RecordsFormed(recs)
    BY WithoutRecords, Zenon DEF Formed
  <1> HIDE DEF P, recs
  <1>4. /\ Formed(H) /\ SameLedgers(P, H) /\ SameTick(P, H)
        /\ H.fibers = P.fibers /\ H.records = recs
    BY <1>1, <1>3, SetRecords, Zenon
  <1>5. f \in DOMAIN H.fibers
    BY <1>1, <1>4 DEF Others
  <1> HIDE DEF H
  <1>6. LET hb == H.fibers[f]
        IN  /\ Formed(G) /\ SameLedgers(H, G) /\ SameTick(H, G)
            /\ G.records = H.records /\ Others(G.fibers, H.fibers, f)
            /\ Stands(G.fibers[f], hb.pc + 1, hb.stack, hb.wait, hb.epoch)
    BY <1>4, <1>5, AdvanceFrame, Zenon
  <1> HIDE DEF G
  <1>7. SameLedgers(F, G) /\ SameTick(F, G) /\ Others(G.fibers, F.fibers, f)
    BY <1>1, <1>4, <1>6 DEF SameLedgers, SameStore, SameTick, Others
  <1>8. Stands(G.fibers[f], fb.pc + 1, Front(fb.stack), fb.wait, fb.epoch)
    BY <1>1, <1>4, <1>6 DEF Stands
  <1> QED
    BY <1>2, <1>4, <1>6, <1>7, <1>8 DEF recs

LEMMA NewFiberIs ==
    ASSUME NEW pc, NEW stack
    PROVE  /\ NewFiber(pc, stack) = [x \in FiberFields |-> NewFiber(pc, stack)[x]]
           /\ Stands(NewFiber(pc, stack), pc, stack, Running, 0)
  BY DEF NewFiber, FiberFields, Stands

LEMMA NewRecordIs ==
    ASSUME NEW kind, NEW members
    PROVE  LET rec == NewRecord(kind, members)
           IN  /\ IsRecord(rec) /\ rec.kind = kind /\ rec.members = members
               /\ rec.arity = 0 /\ rec.count = 0 /\ rec.handler = 0
               /\ rec.opened = 0 /\ rec.routes = <<>> /\ rec.saved = <<>>
  BY DEF NewRecord, IsRecord, RecordFields

Barrier(kids, n) ==
    [NewRecord("Barrier", kids) EXCEPT !.arity = n, !.count = n]

LEMMA BarrierIs ==
    ASSUME NEW kids, NEW n
    PROVE  LET rec == Barrier(kids, n)
           IN  /\ IsRecord(rec) /\ rec.kind = "Barrier" /\ rec.members = kids
               /\ rec.arity = n /\ rec.count = n /\ rec.routes = <<>>
  <1> DEFINE new == NewRecord("Barrier", kids)
  <1>1. IsRecord(new) /\ new.kind = "Barrier" /\ new.members = kids
        /\ new.routes = <<>>
    BY NewRecordIs
  <1>2. Barrier(kids, n) = [new EXCEPT !.arity = n, !.count = n]
    BY DEF Barrier
  <1> HIDE DEF new
  <1> QED
    BY <1>1, <1>2, ZenonT(30) DEF IsRecord, RecordFields

(* Fork: the fibre is replaced by one per branch, inside a new barrier.    *)
Kids(F, n) == {Fresh(F, n + 1)[j + 1] : j \in 1..n}

(* They start at the fork's targets, inside the scope that it opens.       *)
Born(gbs, F, f, i) ==
    LET n == Len(i.targets)
        ids == Fresh(F, n + 1)
    IN  \A g \in Kids(F, n) : \E j \in 1..n :
            /\ g = ids[j + 1]
            /\ Stands(gbs[g], i.targets[j], Append(F.fibers[f].stack, ids[1]),
                      Running, 0)

LEMMA ForkFrame ==
    ASSUME NEW F, Formed(F), NEW f \in DOMAIN F.fibers, NEW i
    PROVE  LET G == Fork(F, f, i)
               n == Len(i.targets)
               r == Fresh(F, n + 1)[1]
               kids == Kids(F, n)
               stack == F.fibers[f].stack
           IN  /\ Formed(G) /\ SameLedgers(F, G)
               /\ G.arms = F.arms /\ G.stop = TRUE /\ G.error = F.error
               /\ Forked(G.fibers, F.fibers, f, kids)
               /\ Born(G.fibers, F, f, i)
               /\ G.records = Put(Enrol(Expel(F.records, F.fibers, {f}),
                                        Range(stack), kids),
                                  r, Barrier(kids, n))
  <1> DEFINE G == Fork(F, f, i)
             n == Len(i.targets)
             ids == Fresh(F, n + 1)
             r == ids[1]
             kids == Kids(F, n)
             stack == F.fibers[f].stack
             at(k) == CHOOSE j \in 1..n : ids[j + 1] = k
             born(k) == NewFiber(i.targets[at(k)], Append(stack, r))
             fbs == [g \in (DOMAIN F.fibers \ {f}) \cup kids |->
                        IF g \in kids THEN born(g) ELSE F.fibers[g]]
             out == Enrol(Expel(F.records, F.fibers, {f}), Range(stack), kids)
             recs == Put(out, r, Barrier(kids, n))
  <1>1. G = [F EXCEPT !.fibers = fbs, !.records = recs, !.stop = TRUE]
    BY Zenon DEF Fork, Kids, Barrier
  <1>2. FibersFormed(fbs)
    <2>1. \A k : born(k) = [x \in FiberFields |-> born(k)[x]]
      BY NewFiberIs, Zenon
    <2>2. \A g \in DOMAIN F.fibers :
            F.fibers[g] = [x \in FiberFields |-> F.fibers[g][x]]
      BY Zenon DEF Formed, FibersFormed
    <2> HIDE DEF born, kids
    <2>3. \A g \in DOMAIN fbs : fbs[g] = [x \in FiberFields |-> fbs[g][x]]
      BY <2>1, <2>2, Zenon
    <2> QED
      BY <2>3, Zenon DEF FibersFormed
  <1>3. RecordsFormed(recs)
    <2> HIDE DEF kids, n, r, stack
    <2>1. RecordsFormed(Expel(F.records, F.fibers, {f}))
      BY ExpelIs, Zenon DEF Formed
    <2>2. RecordsFormed(out)
      BY <2>1, EnrolIs, Zenon
    <2>3. IsRecord(Barrier(kids, n))
      BY BarrierIs, Zenon
    <2> HIDE DEF out
    <2> QED
      BY <2>2, <2>3, PutRecord
  <1>4. \A g \in kids : \E j \in 1..n :
            /\ g = ids[j + 1]
            /\ Stands(born(g), i.targets[j], Append(stack, r), Running, 0)
    <2> TAKE g \in kids
    <2>1. \E j \in 1..n : ids[j + 1] = g
      BY Zenon DEF Kids
    <2>2. at(g) \in 1..n /\ ids[at(g) + 1] = g
      <3> HIDE DEF n, ids
      <3> QED
        BY <2>1, Zenon
    <2> HIDE DEF at, n, ids, r, stack
    <2>3. Stands(born(g), i.targets[at(g)], Append(stack, r), Running, 0)
      BY NewFiberIs, Zenon
    <2> QED
      BY <2>2, <2>3, Zenon
  <1>5. /\ DOMAIN fbs = (DOMAIN F.fibers \ {f}) \cup kids
        /\ \A g \in kids : fbs[g] = born(g)
        /\ \A g \in (DOMAIN F.fibers \ {f}) \ kids : fbs[g] = F.fibers[g]
    BY Zenon
  <1> HIDE DEF fbs, recs, born, kids
  <1>6. /\ G = [x \in Fields |-> G[x]] /\ SameLedgers(F, G)
        /\ G.arms = F.arms /\ G.stop = TRUE /\ G.error = F.error
        /\ G.fibers = fbs /\ G.records = recs
    BY <1>1, ZenonT(30) DEF Formed, Fields, SameLedgers, SameStore
  <1> HIDE DEF G, r, n, ids
  <1>7. Formed(G)
    BY <1>2, <1>3, <1>6 DEF Formed, SameLedgers
  <1>8. Forked(G.fibers, F.fibers, f, kids)
    BY <1>5, <1>6, Zenon DEF Forked
  <1>9. Born(G.fibers, F, f, i)
    BY <1>4, <1>5, <1>6, Zenon DEF Born, kids, r, n, ids
  <1> QED
    BY <1>6, <1>7, <1>8, <1>9, Zenon DEF recs, kids, G, r, n, ids

(* Join, when branches are outstanding: the fibre parks at the barrier.    *)
CountDown(recs, r) == [recs EXCEPT ![r].count = @ - 1]

LEMMA CountDownIs ==
    ASSUME NEW recs, RecordsFormed(recs), NEW r \in DOMAIN recs
    PROVE  LET new == CountDown(recs, r)
           IN  /\ RecordsFormed(new) /\ DOMAIN new = DOMAIN recs
               /\ \A q \in DOMAIN recs \ {r} : new[q] = recs[q]
               /\ new[r].count = recs[r].count - 1
               /\ new[r].kind = recs[r].kind /\ new[r].members = recs[r].members
               /\ new[r].arity = recs[r].arity
               /\ new[r].handler = recs[r].handler
               /\ new[r].opened = recs[r].opened
               /\ new[r].routes = recs[r].routes
               /\ new[r].saved = recs[r].saved
  BY DEF CountDown, RecordsFormed, IsRecord, RecordFields

LEMMA JoinParkFrame ==
    ASSUME NEW F, Formed(F), NEW f \in DOMAIN F.fibers, NEW i,
           Last(F.fibers[f].stack) \in DOMAIN F.records,
           F.records[Last(F.fibers[f].stack)].count > 1
    PROVE  LET G == Join(F, f, i)
               fb == F.fibers[f]
               r == Last(fb.stack)
           IN  /\ Formed(G) /\ SameLedgers(F, G)
               /\ G.arms = F.arms /\ G.stop = TRUE /\ G.error = F.error
               /\ G.records = CountDown(F.records, r)
               /\ Others(G.fibers, F.fibers, f)
               /\ Stands(G.fibers[f], fb.pc, Front(fb.stack),
                         Waiting("Barrier", <<r>>), fb.epoch)
  <1> DEFINE fb == F.fibers[f]
             r == Last(fb.stack)
             P == Pop(F, f)
             recs == CountDown(F.records, r)
             H == [P EXCEPT !.records = recs]
             w == Waiting("Barrier", <<r>>)
             G == Park(H, f, w)
  <1>1. /\ Formed(P) /\ SameLedgers(F, P) /\ SameTick(F, P)
        /\ P.records = F.records /\ Others(P.fibers, F.fibers, f)
        /\ Stands(P.fibers[f], fb.pc, Front(fb.stack), fb.wait, fb.epoch)
    BY PopFrame, Zenon
  <1>2. Join(F, f, i) = G
    <2>1. Join(F, f, i) = Park([P EXCEPT !.records[r].count = @ - 1], f, w)
      <3> HIDE DEF P, w
      <3> QED
        BY DEF Join, Top, P, w
    <2>2. [P EXCEPT !.records[r].count = @ - 1] = H
      <3> HIDE DEF P, r
      <3> QED
        BY <1>1 DEF CountDown
    <2> QED
      BY <2>1, <2>2, Zenon
  <1>3. RecordsFormed(recs)
    BY CountDownIs, Zenon DEF Formed
  <1> HIDE DEF P, recs
  <1>4. /\ Formed(H) /\ SameLedgers(P, H) /\ SameTick(P, H)
        /\ H.fibers = P.fibers /\ H.records = recs
    BY <1>1, <1>3, SetRecords, Zenon
  <1>5. f \in DOMAIN H.fibers
    BY <1>1, <1>4 DEF Others
  <1> HIDE DEF H, w
  <1>6. LET hb == H.fibers[f]
        IN  /\ Formed(G) /\ SameLedgers(H, G)
            /\ G.arms = H.arms /\ G.stop = TRUE /\ G.error = H.error
            /\ G.records = H.records /\ Others(G.fibers, H.fibers, f)
            /\ Stands(G.fibers[f], hb.pc, hb.stack, w, hb.epoch)
    BY <1>4, <1>5, ParkFrame, Zenon
  <1> HIDE DEF G
  <1>7. /\ SameLedgers(F, G) /\ Others(G.fibers, F.fibers, f)
        /\ G.arms = F.arms /\ G.stop = TRUE /\ G.error = F.error
    BY <1>1, <1>4, <1>6 DEF SameLedgers, SameStore, SameTick, Others
  <1>8. Stands(G.fibers[f], fb.pc, Front(fb.stack), w, fb.epoch)
    BY <1>1, <1>4, <1>6 DEF Stands
  <1> QED
    BY <1>2, <1>4, <1>6, <1>7, <1>8 DEF recs, w

(* The last arrival goes on alone.                                         *)
LEMMA JoinLastFrame ==
    ASSUME NEW F, Formed(F), NEW f \in DOMAIN F.fibers, NEW i,
           Last(F.fibers[f].stack) \in DOMAIN F.records,
           ~(F.records[Last(F.fibers[f].stack)].count > 1)
    PROVE  LET G == Join(F, f, i)
               fb == F.fibers[f]
               r == Last(fb.stack)
               others == F.records[r].members \ {f}
           IN  /\ Formed(G) /\ SameLedgers(F, G) /\ SameTick(F, G)
               /\ G.records = Expel(Without(F.records, {r}), F.fibers, others)
               /\ Survives(G.fibers, F.fibers, others, f)
               /\ Stands(G.fibers[f], fb.pc + 1, Front(fb.stack), fb.wait,
                         fb.epoch)
  <1> DEFINE fb == F.fibers[f]
             r == Last(fb.stack)
             others == F.records[r].members \ {f}
             P == Pop(F, f)
             fbs == Without(P.fibers, others)
             recs == Expel(Without(F.records, {r}), F.fibers, others)
             H == [P EXCEPT !.fibers = fbs, !.records = recs]
             G == Advance(H, f)
  <1>1. /\ Formed(P) /\ SameLedgers(F, P) /\ SameTick(F, P)
        /\ P.records = F.records /\ Others(P.fibers, F.fibers, f)
        /\ Stands(P.fibers[f], fb.pc, Front(fb.stack), fb.wait, fb.epoch)
    BY PopFrame, Zenon
  <1>2. Join(F, f, i) = G
    <2>1. Join(F, f, i) = Advance([P EXCEPT !.fibers = Without(@, others),
                !.records = Expel(Without(@, {r}), F.fibers, others)], f)
      <3> HIDE DEF P
      <3> QED
        BY DEF Join, Top, P
    <2> HIDE DEF P, r, others
    <2> QED
      BY <1>1, <2>1, Zenon
  <1>3. RecordsFormed(recs)
    <2>1. RecordsFormed(Without(F.records, {r}))
      BY WithoutRecords, Zenon DEF Formed
    <2> QED
      BY <2>1, ExpelIs, Zenon
  <1>4. /\ DOMAIN fbs = DOMAIN P.fibers \ others
        /\ \A g \in DOMAIN P.fibers \ others : fbs[g] = P.fibers[g]
    <2> HIDE DEF P, others
    <2> QED
      BY WithoutIs, ZenonT(30)
  <1> HIDE DEF P, recs, fbs, others
  <1>5. FibersFormed(fbs)
    BY <1>1, <1>4 DEF Formed, FibersFormed
  <1>6. /\ H = [x \in Fields |-> H[x]] /\ SameLedgers(P, H) /\ SameTick(P, H)
        /\ H.fibers = fbs /\ H.records = recs
    BY <1>1, ZenonT(30) DEF Formed, Fields, SameLedgers, SameStore, SameTick
  <1> HIDE DEF H
  <1>7. Formed(H) /\ f \in DOMAIN H.fibers
    BY <1>1, <1>3, <1>4, <1>5, <1>6, ZenonT(30) DEF Formed, SameLedgers, Others, others
  <1>8. LET hb == H.fibers[f]
        IN  /\ Formed(G) /\ SameLedgers(H, G) /\ SameTick(H, G)
            /\ G.records = H.records /\ Others(G.fibers, H.fibers, f)
            /\ Stands(G.fibers[f], hb.pc + 1, hb.stack, hb.wait, hb.epoch)
    BY <1>7, AdvanceFrame, Zenon
  <1> HIDE DEF G
  <1>9. SameLedgers(F, G) /\ SameTick(F, G)
    BY <1>1, <1>6, <1>8 DEF SameLedgers, SameStore, SameTick
  <1>10. Survives(G.fibers, F.fibers, others, f)
    BY <1>1, <1>4, <1>6, <1>8 DEF Others, Survives
  <1>11. Stands(G.fibers[f], fb.pc + 1, Front(fb.stack), fb.wait, fb.epoch)
    BY <1>1, <1>4, <1>6, <1>7, <1>8 DEF Stands
  <1> QED
    BY <1>2, <1>6, <1>8, <1>9, <1>10, <1>11, Zenon DEF recs, others

LEMMA RaceCloseFrame ==
    ASSUME NEW F, Formed(F), NEW f \in DOMAIN F.fibers, NEW i
    PROVE  LET G == RaceClose(F, f, i)
               fb == F.fibers[f]
               r == Last(fb.stack)
           IN  /\ Formed(G) /\ SameLedgers(F, G)
               /\ G.arms = F.arms /\ G.stop = TRUE /\ G.error = F.error
               /\ G.records = F.records
               /\ Others(G.fibers, F.fibers, f)
               /\ Stands(G.fibers[f], fb.pc, Front(fb.stack),
                         [kind |-> "Race", ref |-> <<r>>, arms |-> F.arms],
                         fb.epoch)
  <1> DEFINE fb == F.fibers[f]
             w == [kind |-> "Race", ref |-> <<Last(fb.stack)>>, arms |-> F.arms]
             P == Pop(F, f)
             G == Park(P, f, w)
  <1>1. /\ Formed(P) /\ SameLedgers(F, P) /\ SameTick(F, P)
        /\ P.records = F.records /\ Others(P.fibers, F.fibers, f)
        /\ Stands(P.fibers[f], fb.pc, Front(fb.stack), fb.wait, fb.epoch)
    BY PopFrame, Zenon
  <1>2. RaceClose(F, f, i) = G
    BY Zenon DEF RaceClose, Top
  <1>3. f \in DOMAIN P.fibers
    BY <1>1 DEF Others
  <1> HIDE DEF P, w
  <1>4. LET hb == P.fibers[f]
        IN  /\ Formed(G) /\ SameLedgers(P, G)
            /\ G.arms = P.arms /\ G.stop = TRUE /\ G.error = P.error
            /\ G.records = P.records /\ Others(G.fibers, P.fibers, f)
            /\ Stands(G.fibers[f], hb.pc, hb.stack, w, hb.epoch)
    BY <1>1, <1>3, ParkFrame, Zenon
  <1> HIDE DEF G
  <1>5. /\ SameLedgers(F, G) /\ Others(G.fibers, F.fibers, f)
        /\ G.arms = F.arms /\ G.stop = TRUE /\ G.error = F.error
    BY <1>1, <1>4 DEF SameLedgers, SameStore, SameTick, Others
  <1>6. Stands(G.fibers[f], fb.pc, Front(fb.stack), w, fb.epoch)
    BY <1>1, <1>4 DEF Stands
  <1> QED
    BY <1>1, <1>2, <1>4, <1>5, <1>6, Zenon DEF w

(* A route is added to the guard on top of f's stack.                      *)
Routed(recs, r, i) ==
    [recs EXCEPT ![r].routes =
        IF i.code \in DOMAIN @ THEN @ ELSE Put(@, i.code, i.handler)]

LEMMA RoutedIs ==
    ASSUME NEW recs, RecordsFormed(recs), NEW r \in DOMAIN recs, NEW i
    PROVE  LET new == Routed(recs, r, i)
           IN  /\ RecordsFormed(new) /\ DOMAIN new = DOMAIN recs
               /\ \A q \in DOMAIN recs \ {r} : new[q] = recs[q]
               /\ new[r].kind = recs[r].kind /\ new[r].members = recs[r].members
               /\ new[r].arity = recs[r].arity /\ new[r].count = recs[r].count
               /\ new[r].handler = recs[r].handler
               /\ new[r].opened = recs[r].opened
               /\ new[r].saved = recs[r].saved
               /\ new[r].routes = IF i.code \in DOMAIN recs[r].routes
                    THEN recs[r].routes
                    ELSE Put(recs[r].routes, i.code, i.handler)
  BY DEF Routed, RecordsFormed, IsRecord, RecordFields

LEMMA ArmErrorFrame ==
    ASSUME NEW F, Formed(F), NEW f \in DOMAIN F.fibers, NEW i,
           Last(F.fibers[f].stack) \in DOMAIN F.records,
           F.records[Last(F.fibers[f].stack)].kind \in GuardWords
    PROVE  LET G == GuardArmError(F, f, i)
               fb == F.fibers[f]
           IN  /\ Formed(G) /\ SameLedgers(F, G) /\ SameTick(F, G)
               /\ G.records = Routed(F.records, Last(fb.stack), i)
               /\ Others(G.fibers, F.fibers, f)
               /\ Stands(G.fibers[f], fb.pc + 1, fb.stack, fb.wait, fb.epoch)
  <1> DEFINE fb == F.fibers[f]
             r == Last(fb.stack)
             recs == Routed(F.records, r, i)
             H == [F EXCEPT !.records = recs]
             G == Advance(H, f)
  <1>1. GuardArmError(F, f, i) = G
    <2>1. GuardArmError(F, f, i) = Advance([F EXCEPT !.records[r].routes =
            IF i.code \in DOMAIN @ THEN @ ELSE Put(@, i.code, i.handler)], f)
      BY Zenon DEF GuardArmError, Top
    <2>2. [F EXCEPT !.records[r].routes =
            IF i.code \in DOMAIN @ THEN @ ELSE Put(@, i.code, i.handler)] = H
      <3> HIDE DEF r
      <3> QED
        BY DEF Routed
    <2> QED
      BY <2>1, <2>2, Zenon
  <1>2. RecordsFormed(recs)
    BY RoutedIs, Zenon DEF Formed
  <1> HIDE DEF recs
  <1>3. /\ Formed(H) /\ SameLedgers(F, H) /\ SameTick(F, H)
        /\ H.fibers = F.fibers /\ H.records = recs
    BY <1>2, SetRecords, Zenon
  <1> HIDE DEF H
  <1>4. LET hb == H.fibers[f]
        IN  /\ Formed(G) /\ SameLedgers(H, G) /\ SameTick(H, G)
            /\ G.records = H.records /\ Others(G.fibers, H.fibers, f)
            /\ Stands(G.fibers[f], hb.pc + 1, hb.stack, hb.wait, hb.epoch)
    BY <1>3, AdvanceFrame, Zenon
  <1> HIDE DEF G
  <1>5. SameLedgers(F, G) /\ SameTick(F, G)
    BY <1>3, <1>4 DEF SameLedgers, SameStore, SameTick
  <1> QED
    BY <1>1, <1>3, <1>4, <1>5, Zenon DEF recs

(* Fibres die and a scope is retired.                                      *)
LEMMA WithoutFibers ==
    ASSUME NEW fbs, FibersFormed(fbs), NEW S
    PROVE  FibersFormed(Without(fbs, S))
  <1> DEFINE new == Without(fbs, S)
  <1>1. /\ DOMAIN new = DOMAIN fbs \ S
        /\ \A y \in DOMAIN fbs \ S : new[y] = fbs[y]
    BY WithoutIs, Zenon
  <1> HIDE DEF new
  <1>2. \A q \in DOMAIN new : new[q] = [x \in FiberFields |-> new[q][x]]
    BY <1>1 DEF FibersFormed
  <1> QED
    BY <1>2, Zenon DEF FibersFormed, new

Retired(F, r, fs) == Expel(Without(F.records, Scope(F, r)), F.fibers, fs)

LEMMA UnwindFrame ==
    ASSUME NEW F, Formed(F), NEW r, NEW fs
    PROVE  LET G == Unwind(F, r, fs)
           IN  /\ Formed(G) /\ SameLedgers(F, G) /\ SameTick(F, G)
               /\ G.fibers = Without(F.fibers, fs)
               /\ G.records = Retired(F, r, fs)
  <1> DEFINE fbs == Without(F.fibers, fs)
             recs == Retired(F, r, fs)
             G == [F EXCEPT !.fibers = fbs, !.records = recs]
  <1>1. Unwind(F, r, fs) = G
    BY Zenon DEF Unwind, Retired
  <1>2. RecordsFormed(recs)
    <2>1. RecordsFormed(Without(F.records, Scope(F, r)))
      BY WithoutRecords, Zenon DEF Formed
    <2> QED
      BY <2>1, ExpelIs, Zenon DEF Retired
  <1>3. FibersFormed(fbs)
    BY WithoutFibers, Zenon DEF Formed
  <1> HIDE DEF fbs, recs
  <1>4. /\ G = [x \in Fields |-> G[x]] /\ SameLedgers(F, G) /\ SameTick(F, G)
        /\ G.fibers = fbs /\ G.records = recs
    BY ZenonT(30) DEF Formed, Fields, SameLedgers, SameStore, SameTick
  <1> HIDE DEF G
  <1>5. Formed(G)
    BY <1>2, <1>3, <1>4 DEF Formed, SameLedgers
  <1> QED
    BY <1>1, <1>4, <1>5, Zenon DEF fbs, recs

(* What is kept of the instance when its data change.                      *)
SameStatus(F, G) ==
    /\ G.inst.workflow = F.inst.workflow
    /\ G.inst.state = F.inst.state /\ G.inst.incident = F.inst.incident

LEMMA RestoreFrame ==
    ASSUME NEW F, Formed(F), NEW saved
    PROVE  LET G == Restore(F, saved)
           IN  /\ Formed(G) /\ SameStatus(F, G) /\ SameStore(F, G)
               /\ SameTick(F, G)
               /\ G.fibers = F.fibers /\ G.records = F.records
  <1> DEFINE G == Restore(F, saved)
  <1>1. /\ G = [x \in Fields |-> G[x]] /\ SameStore(F, G) /\ SameTick(F, G)
        /\ G.fibers = F.fibers /\ G.records = F.records
        /\ G.inst = [F.inst EXCEPT !.payload = saved.payload,
                                   !.flags = saved.flags]
    BY ZenonT(30) DEF Formed, Fields, SameStore, SameTick, Restore
  <1> HIDE DEF G
  <1>2. /\ G.inst = [x \in InstFields |-> G.inst[x]] /\ SameStatus(F, G)
    BY <1>1, ZenonT(30) DEF Formed, InstFields, SameStatus
  <1> QED
    BY <1>1, <1>2, Zenon DEF Formed, G

(* CANCEL-SCOPE: the other fibres of the scope die, f leaves it.           *)
LEMMA CancelScopeFrame ==
    ASSUME NEW F, Formed(F), NEW f \in DOMAIN F.fibers, NEW i,
           Last(F.fibers[f].stack) \in DOMAIN F.records,
           F.records[Last(F.fibers[f].stack)].kind = "GuardR"
    PROVE  LET G == CancelScope(F, f, i)
               fb == F.fibers[f]
               r == Last(fb.stack)
               dying == Holders(F, r) \ {f}
           IN  /\ Formed(G) /\ SameStatus(F, G) /\ SameStore(F, G)
               /\ SameTick(F, G)
               /\ Survives(G.fibers, F.fibers, dying, f)
               /\ Stands(G.fibers[f], fb.pc + 1, Front(fb.stack), fb.wait,
                         fb.epoch)
               /\ G.records = Retired(Pop(F, f), r, dying)
  <1> DEFINE fb == F.fibers[f]
             r == Last(fb.stack)
             dying == Holders(F, r) \ {f}
             P == Pop(F, f)
             U == Unwind(P, r, dying)
             R == Restore(U, F.records[r].saved)
             G == Advance(R, f)
  <1>1. /\ Formed(P) /\ SameLedgers(F, P) /\ SameTick(F, P)
        /\ P.records = F.records /\ Others(P.fibers, F.fibers, f)
        /\ Stands(P.fibers[f], fb.pc, Front(fb.stack), fb.wait, fb.epoch)
    BY PopFrame, Zenon
  <1>2. CancelScope(F, f, i) = G
    BY Zenon DEF CancelScope, Top
  <1>3. f \in DOMAIN P.fibers /\ f \notin dying
    BY <1>1 DEF Others
  <1> HIDE DEF P, dying
  <1>4. /\ Formed(U) /\ SameLedgers(P, U) /\ SameTick(P, U)
        /\ U.fibers = Without(P.fibers, dying) /\ U.records = Retired(P, r, dying)
    BY <1>1, UnwindFrame, Zenon
  <1>5. /\ DOMAIN U.fibers = DOMAIN P.fibers \ dying
        /\ \A g \in DOMAIN P.fibers \ dying : U.fibers[g] = P.fibers[g]
    <2>1. U.fibers = Without(P.fibers, dying)
      BY <1>4
    <2>2. /\ DOMAIN Without(P.fibers, dying) = DOMAIN P.fibers \ dying
          /\ \A g \in DOMAIN P.fibers \ dying :
                Without(P.fibers, dying)[g] = P.fibers[g]
      BY WithoutIs, ZenonT(30)
    <2> QED
      BY <2>1, <2>2, Zenon
  <1> HIDE DEF U
  <1>6. /\ Formed(R) /\ SameStatus(U, R) /\ SameStore(U, R) /\ SameTick(U, R)
        /\ R.fibers = U.fibers /\ R.records = U.records
    BY <1>4, RestoreFrame, Zenon
  <1>7. f \in DOMAIN R.fibers
    BY <1>3, <1>5, <1>6, Zenon
  <1> HIDE DEF R
  <1>8. LET hb == R.fibers[f]
        IN  /\ Formed(G) /\ SameLedgers(R, G) /\ SameTick(R, G)
            /\ G.records = R.records /\ Others(G.fibers, R.fibers, f)
            /\ Stands(G.fibers[f], hb.pc + 1, hb.stack, hb.wait, hb.epoch)
    BY <1>6, <1>7, AdvanceFrame, Zenon
  <1> HIDE DEF G
  <1>9. SameStatus(F, G) /\ SameStore(F, G) /\ SameTick(F, G)
    BY <1>1, <1>4, <1>6, <1>8 DEF SameLedgers, SameStatus, SameStore, SameTick
  <1>10. Survives(G.fibers, F.fibers, dying, f)
    BY <1>1, <1>5, <1>6, <1>8 DEF Others, Survives
  <1>11. Stands(G.fibers[f], fb.pc + 1, Front(fb.stack), fb.wait, fb.epoch)
    BY <1>1, <1>3, <1>5, <1>6, <1>8 DEF Stands
  <1> QED
    BY <1>2, <1>4, <1>6, <1>8, <1>9, <1>10, <1>11, Zenon DEF dying, P

(* Timers that are armed no more.                                          *)
Disarmed(ts, S) ==
    [t \in DOMAIN ts |-> IF t \in S THEN [ts[t] EXCEPT !.armed = FALSE]
                         ELSE ts[t]]

SameButTimers(F, G) ==
    /\ G.inst = F.inst
    /\ G.jobs = F.jobs /\ G.dead = F.dead /\ G.dedupe = F.dedupe
    /\ G.effects = F.effects /\ G.buffer = F.buffer /\ G.claimed = F.claimed

LEMMA DisarmFrame ==
    ASSUME NEW F, Formed(F), NEW ts
    PROVE  LET G == Disarm(F, ts)
           IN  /\ Formed(G) /\ SameButTimers(F, G) /\ SameTick(F, G)
               /\ G.timers = Disarmed(F.timers, ts)
               /\ G.fibers = F.fibers /\ G.records = F.records
  <1> DEFINE new == Disarmed(F.timers, ts)
             G == [F EXCEPT !.timers = new]
  <1>1. Disarm(F, ts) = G
    BY Zenon DEF Disarm, Disarmed
  <1> HIDE DEF new
  <1>2. /\ Formed(G) /\ SameButTimers(F, G) /\ SameTick(F, G)
        /\ G.timers = new /\ G.fibers = F.fibers /\ G.records = F.records
    BY DEF Formed, Fields, SameButTimers, SameTick
  <1> QED
    BY <1>1, <1>2, Zenon DEF new

FewerArmed(ts, new) == \E S : new = Disarmed(ts, S)

(* A race is won: its fibre goes on at the arm's target.                   *)
LEMMA WinRaceFrame ==
    ASSUME NEW F, Formed(F), NEW f \in DOMAIN F.fibers, NEW r, NEW target
    PROVE  LET G == WinRace(F, f, r, target)
               fb == F.fibers[f]
           IN  /\ Formed(G) /\ SameButTimers(F, G) /\ SameTick(F, G)
               /\ FewerArmed(F.timers, G.timers)
               /\ G.records = Without(F.records, {r})
               /\ Others(G.fibers, F.fibers, f)
               /\ Stands(G.fibers[f], target, fb.stack, Running, fb.epoch)
  <1> DEFINE fb == F.fibers[f]
             ts == {t \in DOMAIN F.timers : /\ t[1] = f
                                             /\ F.timers[t].kind = "Race"
                                             /\ F.timers[t].rec = r}
             recs == Without(F.records, {r})
             fbs == WithWait(WithPc(F.fibers, f, target), f, Running)
             H == [F EXCEPT !.fibers = fbs, !.records = recs]
             G == Disarm(H, ts)
  <1>1. WinRace(F, f, r, target) = G
    <2>1. [F EXCEPT !.fibers[f].pc = target, !.fibers[f].wait = Running,
                    !.records = recs] = H
      <3> HIDE DEF recs
      <3> QED
        BY ZenonT(30) DEF Formed, Fields, WithWait, WithPc
    <2> HIDE DEF H
    <2> QED
      BY <2>1, Zenon DEF WinRace
  <1>2. RecordsFormed(recs)
    BY WithoutRecords, Zenon DEF Formed
  <1>3. /\ FibersFormed(fbs) /\ Others(fbs, F.fibers, f)
        /\ Stands(fbs[f], target, fb.stack, Running, fb.epoch)
    <2> DEFINE mid == WithPc(F.fibers, f, target)
    <2>1. /\ FibersFormed(mid) /\ Others(mid, F.fibers, f)
          /\ Stands(mid[f], target, fb.stack, fb.wait, fb.epoch)
      BY SetPc, Zenon DEF Formed
    <2> HIDE DEF mid
    <2>2. f \in DOMAIN mid
      BY <2>1 DEF Others
    <2> DEFINE new == WithWait(mid, f, Running)
    <2>3. /\ FibersFormed(new) /\ Others(new, mid, f)
          /\ Stands(new[f], mid[f].pc, mid[f].stack, Running, mid[f].epoch)
      BY <2>1, <2>2, SetWait, Zenon
    <2> HIDE DEF new
    <2>4. Others(new, F.fibers, f)
      BY <2>1, <2>3 DEF Others
    <2>5. Stands(new[f], target, fb.stack, Running, fb.epoch)
      BY <2>1, <2>3 DEF Stands
    <2> QED
      BY <2>3, <2>4, <2>5, Zenon DEF new, mid
  <1> HIDE DEF fbs, recs
  <1>4. /\ H = [x \in Fields |-> H[x]] /\ SameLedgers(F, H) /\ SameTick(F, H)
        /\ H.fibers = fbs /\ H.records = recs
    BY ZenonT(30) DEF Formed, Fields, SameLedgers, SameStore, SameTick
  <1> HIDE DEF H
  <1>5. Formed(H)
    BY <1>2, <1>3, <1>4 DEF Formed, SameLedgers
  <1> HIDE DEF ts
  <1>6. /\ Formed(G) /\ SameButTimers(H, G) /\ SameTick(H, G)
        /\ G.timers = Disarmed(H.timers, ts)
        /\ G.fibers = H.fibers /\ G.records = H.records
    BY <1>5, DisarmFrame, Zenon
  <1> HIDE DEF G
  <1>7. SameButTimers(F, G) /\ SameTick(F, G) /\ H.timers = F.timers
    BY <1>4, <1>6 DEF SameLedgers, SameStore, SameButTimers, SameTick
  <1> QED
    BY <1>1, <1>3, <1>4, <1>6, <1>7, Zenon DEF recs, FewerArmed

(* A guard is triggered: its handler starts, with the stack below or up to *)
(* the guard.                                                              *)
Inside(F, r) == {f \in DOMAIN F.fibers : r \in Range(F.fibers[f].stack)}

HandlerStack(F, r) ==
    LET s == F.fibers[CHOOSE f \in Inside(F, r) : TRUE].stack
        at == CHOOSE n \in DOMAIN s : s[n] = r
    IN  IF Inside(F, r) = {} THEN <<>>
        ELSE SubSeq(s, 1, IF F.records[r].kind # "GuardN" THEN at - 1 ELSE at)

SameButJobs(F, G) ==
    /\ G.inst = F.inst /\ G.dead = F.dead /\ G.dedupe = F.dedupe
    /\ G.timers = F.timers /\ G.effects = F.effects
    /\ G.buffer = F.buffer /\ G.claimed = F.claimed

(* A handler is added to frame H.                                          *)
AddHandler(H, h, handler, stack) ==
    [H EXCEPT !.fibers = Put(@, h, NewFiber(handler, stack)),
              !.records = Enrol(@, Range(stack), {h})]

LEMMA HandlerFrame ==
    ASSUME NEW H, Formed(H), NEW h, NEW handler, NEW stack
    PROVE  LET G == AddHandler(H, h, handler, stack)
           IN  /\ Formed(G) /\ SameLedgers(H, G) /\ SameTick(H, G)
               /\ Replaced(G.fibers, H.fibers, {}, h)
               /\ Stands(G.fibers[h], handler, stack, Running, 0)
               /\ G.records = Enrol(H.records, Range(stack), {h})
  <1> DEFINE new == NewFiber(handler, stack)
             fbs == Put(H.fibers, h, new)
             recs == Enrol(H.records, Range(stack), {h})
             G == [H EXCEPT !.fibers = fbs, !.records = recs]
  <1>1. Replaced(fbs, H.fibers, {}, h) /\ fbs[h] = new
    BY DEF Put, Replaced
  <1>2. /\ new = [x \in FiberFields |-> new[x]]
        /\ Stands(new, handler, stack, Running, 0)
    BY NewFiberIs, Zenon
  <1>3. RecordsFormed(recs)
    BY EnrolIs, Zenon DEF Formed
  <1> HIDE DEF fbs, recs, new
  <1>4. FibersFormed(fbs)
    BY <1>1, <1>2 DEF Formed, FibersFormed, Replaced
  <1>5. /\ G = [x \in Fields |-> G[x]] /\ SameLedgers(H, G) /\ SameTick(H, G)
        /\ G.fibers = fbs /\ G.records = recs
    BY ZenonT(30) DEF Formed, Fields, SameLedgers, SameStore, SameTick
  <1>6. Formed(G)
    <2> HIDE DEF G
    <2> QED
      BY <1>3, <1>4, <1>5 DEF Formed, SameLedgers
  <1> QED
    BY <1>1, <1>2, <1>5, <1>6, Zenon DEF AddHandler, fbs, recs, new

LEMMA TriggerFrame ==
    ASSUME NEW F, Formed(F), NEW r, NEW handler,
           F.records[r].kind # "GuardN"
    PROVE  LET G == Trigger(F, r, handler)
               h == Fresh(F, 1)[1]
               dying == Holders(F, r)
               stack == HandlerStack(F, r)
           IN  /\ Formed(G) /\ SameButJobs(F, G) /\ SameTick(F, G)
               /\ G.jobs = Without(F.jobs, ParkedOn(F, dying))
               /\ Replaced(G.fibers, F.fibers, dying, h)
               /\ Stands(G.fibers[h], handler, stack, Running, 0)
               /\ G.records = Enrol(Retired(F, r, dying), Range(stack), {h})
  <1> DEFINE h == Fresh(F, 1)[1]
             dying == Holders(F, r)
             stack == HandlerStack(F, r)
             U == Unwind(F, r, dying)
             js == Without(U.jobs, ParkedOn(F, dying))
             H == [U EXCEPT !.jobs = js]
             G == AddHandler(H, h, handler, stack)
  <1>1. Trigger(F, r, handler) = G
    BY Zenon DEF Trigger, HandlerStack, Inside, AddHandler
  <1>2. /\ Formed(U) /\ SameLedgers(F, U) /\ SameTick(F, U)
        /\ U.fibers = Without(F.fibers, dying) /\ U.records = Retired(F, r, dying)
    BY UnwindFrame, Zenon
  <1> HIDE DEF h, dying, stack, U, js
  <1>3. /\ Formed(H) /\ SameButJobs(U, H) /\ SameTick(U, H) /\ H.jobs = js
        /\ H.fibers = U.fibers /\ H.records = U.records
    BY <1>2 DEF Formed, Fields, SameButJobs, SameTick
  <1> HIDE DEF H
  <1>4. /\ Formed(G) /\ SameLedgers(H, G) /\ SameTick(H, G)
        /\ Replaced(G.fibers, H.fibers, {}, h)
        /\ Stands(G.fibers[h], handler, stack, Running, 0)
        /\ G.records = Enrol(H.records, Range(stack), {h})
    BY <1>3, HandlerFrame, ZenonT(30)
  <1> HIDE DEF G
  <1>5. /\ DOMAIN Without(F.fibers, dying) = DOMAIN F.fibers \ dying
        /\ \A g \in DOMAIN F.fibers \ dying :
                Without(F.fibers, dying)[g] = F.fibers[g]
    BY WithoutIs, ZenonT(30)
  <1>6. Replaced(G.fibers, F.fibers, dying, h)
    BY <1>2, <1>3, <1>4, <1>5 DEF Replaced
  <1>7. SameButJobs(F, G) /\ SameTick(F, G)
    BY <1>2, <1>3, <1>4 DEF SameLedgers, SameStore, SameButJobs, SameTick
  <1>8. G.jobs = Without(F.jobs, ParkedOn(F, dying))
    BY <1>2, <1>3, <1>4 DEF SameLedgers, SameStore, js
  <1> QED
    BY <1>1, <1>2, <1>3, <1>4, <1>6, <1>7, <1>8, Zenon DEF h, dying, stack

LEMMA SpawnFrame ==
    ASSUME NEW F, Formed(F), NEW r, NEW handler,
           F.records[r].kind = "GuardN"
    PROVE  LET G == Trigger(F, r, handler)
               h == Fresh(F, 1)[1]
               stack == HandlerStack(F, r)
           IN  /\ Formed(G) /\ SameLedgers(F, G) /\ SameTick(F, G)
               /\ Replaced(G.fibers, F.fibers, {}, h)
               /\ Stands(G.fibers[h], handler, stack, Running, 0)
               /\ G.records = Enrol(F.records, Range(stack), {h})
  <1> DEFINE h == Fresh(F, 1)[1]
             stack == HandlerStack(F, r)
             G == AddHandler(F, h, handler, stack)
  <1>1. Trigger(F, r, handler) = G
    BY DEF Trigger, HandlerStack, Inside, AddHandler
  <1> HIDE DEF h, stack
  <1>2. /\ Formed(G) /\ SameLedgers(F, G) /\ SameTick(F, G)
        /\ Replaced(G.fibers, F.fibers, {}, h)
        /\ Stands(G.fibers[h], handler, stack, Running, 0)
        /\ G.records = Enrol(F.records, Range(stack), {h})
    BY HandlerFrame, ZenonT(30)
  <1> QED
    BY <1>1, <1>2, Zenon DEF h, stack

(* A scope is rolled back: its fibres die, unless that would leave none.   *)
OuterStack(F, r, f) ==
    LET s == F.fibers[f].stack
        at == CHOOSE n \in DOMAIN s : s[n] = r
    IN  IF r \in Range(s) THEN SubSeq(s, 1, at - 1) ELSE s

LEMMA RollBackFrame ==
    ASSUME NEW F, Formed(F), NEW f \in DOMAIN F.fibers, NEW r,
           DOMAIN F.fibers \ Holders(F, r) # {}
    PROVE  LET G == RollBack(F, r, f)
               dying == Holders(F, r)
           IN  /\ Formed(G) /\ SameStatus(F, G) /\ SameStore(F, G)
               /\ SameTick(F, G)
               /\ G.fibers = Without(F.fibers, dying)
               /\ G.records = Retired(F, r, dying)
  <1> DEFINE dying == Holders(F, r)
             U == Unwind(F, r, dying)
             G == Restore(U, F.records[r].saved)
  <1>1. /\ Formed(U) /\ SameLedgers(F, U) /\ SameTick(F, U)
        /\ U.fibers = Without(F.fibers, dying) /\ U.records = Retired(F, r, dying)
    BY UnwindFrame, Zenon
  <1> HIDE DEF U
  <1>2. /\ Formed(G) /\ SameStatus(U, G) /\ SameStore(U, G) /\ SameTick(U, G)
        /\ G.fibers = U.fibers /\ G.records = U.records
    BY <1>1, RestoreFrame, Zenon
  <1> HIDE DEF G
  <1>3. DOMAIN G.fibers # {}
    <2>1. DOMAIN Without(F.fibers, dying) = DOMAIN F.fibers \ dying
      BY WithoutIs, ZenonT(30)
    <2> QED
      BY <1>1, <1>2, <2>1, Zenon
  <1>4. RollBack(F, r, f) = G
    BY <1>3, Zenon DEF RollBack, G, U
  <1>5. SameStatus(F, G) /\ SameStore(F, G) /\ SameTick(F, G)
    BY <1>1, <1>2 DEF SameLedgers, SameStatus, SameStore, SameTick
  <1> QED
    BY <1>1, <1>2, <1>4, <1>5, Zenon

(* Fibre f alone is left, on an incident, where the guard was opened.      *)
Reverted(F, G, r, f) ==
    LET outer == OuterStack(F, r, f)
    IN  /\ Formed(G) /\ SameStore(F, G)
        /\ G.inst.workflow = F.inst.workflow
        /\ G.inst.state = "Incidented" /\ G.inst.incident = f
        /\ G.arms = F.arms /\ G.stop = TRUE /\ G.error = F.error
        /\ DOMAIN G.fibers = {f}
        /\ Stands(G.fibers[f], F.records[r].opened, outer,
                  Waiting("Incident", <<f>>), F.fibers[f].epoch)
        /\ G.records = Enrol(Retired(F, r, Holders(F, r)), Range(outer), {f})

LEMMA KeptFrame ==
    ASSUME NEW F, Formed(F), NEW f \in DOMAIN F.fibers, NEW r,
           DOMAIN F.fibers \ Holders(F, r) = {}
    PROVE  Reverted(F, RollBack(F, r, f), r, f)
  <1> DEFINE dying == Holders(F, r)
             rec == F.records[r]
             outer == OuterStack(F, r, f)
             U == Unwind(F, r, dying)
             R == Restore(U, rec.saved)
             back == [F.fibers[f] EXCEPT !.pc = rec.opened, !.stack = outer]
             fbs == [g \in {f} |-> back]
             recs == Enrol(R.records, Range(outer), {f})
             H == [R EXCEPT !.fibers = fbs, !.records = recs]
             G == RaiseIncident(H, f)
  <1>1. /\ Formed(U) /\ SameLedgers(F, U) /\ SameTick(F, U)
        /\ U.fibers = Without(F.fibers, dying) /\ U.records = Retired(F, r, dying)
    BY UnwindFrame, Zenon
  <1> HIDE DEF U
  <1>2. /\ Formed(R) /\ SameStatus(U, R) /\ SameStore(U, R) /\ SameTick(U, R)
        /\ R.fibers = U.fibers /\ R.records = U.records
    BY <1>1, RestoreFrame, Zenon
  <1> HIDE DEF R
  <1>3. DOMAIN R.fibers = {}
    <2>1. DOMAIN Without(F.fibers, dying) = DOMAIN F.fibers \ dying
      BY WithoutIs, ZenonT(30)
    <2> QED
      BY <1>1, <1>2, <2>1, Zenon
  <1>4. RollBack(F, r, f) = G
    BY <1>3, Zenon DEF RollBack, R, U, OuterStack
  <1>5. /\ back = [x \in FiberFields |-> back[x]]
        /\ Stands(back, rec.opened, outer, F.fibers[f].wait, F.fibers[f].epoch)
    <2> HIDE DEF outer, rec
    <2>1. F.fibers[f] = [x \in FiberFields |-> F.fibers[f][x]]
      BY ZenonT(30) DEF Formed, FibersFormed
    <2> QED
      BY <2>1, Zenon DEF FiberFields, Stands
  <1> HIDE DEF back, outer, rec
  <1>6. FibersFormed(fbs) /\ DOMAIN fbs = {f} /\ fbs[f] = back
    BY <1>5 DEF FibersFormed
  <1>7. RecordsFormed(recs)
    BY <1>2, EnrolIs, Zenon DEF Formed
  <1> HIDE DEF fbs, recs
  <1>8. /\ H = [x \in Fields |-> H[x]] /\ SameLedgers(R, H) /\ SameTick(R, H)
        /\ H.fibers = fbs /\ H.records = recs
    BY <1>2, ZenonT(30) DEF Formed, Fields, SameLedgers, SameStore, SameTick
  <1> HIDE DEF H
  <1>9. Formed(H) /\ f \in DOMAIN H.fibers
    BY <1>2, <1>6, <1>7, <1>8 DEF Formed, SameLedgers
  <1>10. LET hb == H.fibers[f]
         IN  /\ Formed(G) /\ SameStore(H, G)
             /\ G.inst = [H.inst EXCEPT !.state = "Incidented", !.incident = f]
             /\ G.arms = H.arms /\ G.stop = TRUE /\ G.error = H.error
             /\ G.records = H.records /\ Others(G.fibers, H.fibers, f)
             /\ Stands(G.fibers[f], hb.pc, hb.stack, Waiting("Incident", <<f>>),
                       hb.epoch)
    BY <1>9, RaiseFrame, Zenon
  <1> HIDE DEF G
  <1>11. /\ G.inst.workflow = F.inst.workflow
         /\ G.inst.state = "Incidented" /\ G.inst.incident = f
    <2>1. H.inst = [x \in InstFields |-> H.inst[x]]
      BY <1>9 DEF Formed
    <2>2. /\ G.inst.workflow = H.inst.workflow
          /\ G.inst.state = "Incidented" /\ G.inst.incident = f
      BY <1>10, <2>1 DEF InstFields
    <2> QED
      BY <1>1, <1>2, <1>8, <2>2 DEF SameLedgers, SameStatus
  <1>12. /\ SameStore(F, G)
         /\ G.arms = F.arms /\ G.stop = TRUE /\ G.error = F.error
    BY <1>1, <1>2, <1>8, <1>10 DEF SameLedgers, SameStore, SameTick
  <1>13. /\ DOMAIN G.fibers = {f}
         /\ Stands(G.fibers[f], rec.opened, outer, Waiting("Incident", <<f>>),
                   F.fibers[f].epoch)
    BY <1>5, <1>6, <1>8, <1>10 DEF Others, Stands
  <1>14. G.records = Enrol(Retired(F, r, dying), Range(outer), {f})
    BY <1>1, <1>2, <1>8, <1>10 DEF recs
  <1> QED
    BY <1>4, <1>10, <1>11, <1>12, <1>13, <1>14, Zenon DEF Reverted, rec, outer

(* The instance ends.                                                      *)
LEMMA FinishFrame ==
    ASSUME NEW F, Formed(F), NEW state
    PROVE  LET G == Finish(F, state)
           IN  /\ Formed(G) /\ SameTick(F, G)
               /\ G.inst.workflow = F.inst.workflow /\ G.inst.state = state
               /\ G.inst.incident = F.inst.incident
               /\ G.fibers = <<>> /\ G.jobs = <<>> /\ G.dead = {}
               /\ G.records = F.records /\ G.dedupe = F.dedupe
               /\ G.timers = Disarmed(F.timers, DOMAIN F.timers)
               /\ G.effects = F.effects /\ G.buffer = F.buffer
               /\ G.claimed = F.claimed
  <1> DEFINE H == [F EXCEPT !.inst.state = state]
             ts == [t \in DOMAIN H.timers |->
                        [H.timers[t] EXCEPT !.armed = FALSE]]
             G == [H EXCEPT !.fibers = <<>>, !.jobs = <<>>, !.dead = {},
                            !.timers = ts]
  <1>1. Finish(F, state) = G
    BY Zenon DEF Finish, Cleanup
  <1>2. /\ H = [x \in Fields |-> H[x]] /\ SameStore(F, H) /\ SameTick(F, H)
        /\ H.fibers = F.fibers /\ H.records = F.records
        /\ H.inst = [F.inst EXCEPT !.state = state]
    BY DEF Formed, Fields, SameStore, SameTick
  <1> HIDE DEF H
  <1>3. /\ H.inst = [x \in InstFields |-> H.inst[x]]
        /\ H.inst.workflow = F.inst.workflow /\ H.inst.state = state
        /\ H.inst.incident = F.inst.incident
    BY <1>2 DEF Formed, InstFields
  <1>4. ts = Disarmed(F.timers, DOMAIN F.timers)
    BY <1>2, ZenonT(30) DEF SameStore, Disarmed
  <1> HIDE DEF ts
  <1>5. /\ G = [x \in Fields |-> G[x]] /\ SameTick(H, G) /\ G.inst = H.inst
        /\ G.fibers = <<>> /\ G.jobs = <<>> /\ G.dead = {} /\ G.timers = ts
        /\ G.records = H.records /\ G.dedupe = H.dedupe
        /\ G.effects = H.effects /\ G.buffer = H.buffer
        /\ G.claimed = H.claimed
    BY <1>2, ZenonT(30) DEF Fields, SameTick
  <1> HIDE DEF G
  <1>6. FibersFormed(G.fibers)
    BY <1>5 DEF FibersFormed
  <1>7. Formed(G)
    BY <1>2, <1>3, <1>5, <1>6, ZenonT(30) DEF Formed
  <1>8. SameTick(F, G)
    BY <1>2, <1>5 DEF SameTick
  <1> QED
    BY <1>1, <1>2, <1>3, <1>4, <1>5, <1>7, <1>8 DEF SameStore

(* What only concerns the ledgers leaves fibres and records alone.         *)
SameControl(F, G) == G.fibers = F.fibers /\ G.records = F.records

LEMMA CompletionFrame ==
    ASSUME NEW F, Formed(F), NEW c
    PROVE  LET G == ApplyCompletion(F, c)
           IN  /\ Formed(G) /\ SameStatus(F, G) /\ SameStore(F, G)
               /\ SameTick(F, G) /\ SameControl(F, G)
  <1> DEFINE G == ApplyCompletion(F, c)
  <1>1. /\ G = [x \in Fields |-> G[x]] /\ SameStore(F, G) /\ SameTick(F, G)
        /\ SameControl(F, G)
        /\ G.inst = [F.inst EXCEPT !.payload = c.payload,
                                   !.flags = c.flags @@ @]
    BY ZenonT(30) DEF Formed, Fields, SameStore, SameTick, SameControl,
                      ApplyCompletion
  <1> HIDE DEF G
  <1>2. /\ G.inst = [x \in InstFields |-> G.inst[x]] /\ SameStatus(F, G)
    BY <1>1, ZenonT(30) DEF Formed, InstFields, SameStatus
  <1> QED
    BY <1>1, <1>2, Zenon DEF Formed, SameControl, G

LEMMA ConsumeFrame ==
    ASSUME NEW F, Formed(F), NEW m
    PROVE  LET G == Consume(F, m)
           IN  /\ Formed(G) /\ SameStatus(F, G) /\ SameTick(F, G)
               /\ SameControl(F, G)
               /\ G.jobs = F.jobs /\ G.dead = F.dead /\ G.dedupe = F.dedupe
               /\ G.timers = F.timers /\ G.effects = F.effects
               /\ G.claimed = F.claimed
               /\ G.buffer = [F.buffer EXCEPT ![m] = "consumed"]
  <1> DEFINE G == Consume(F, m)
             new == IF m \in Carrying THEN {m} ELSE F.inst.payload
  <1>1. /\ G = [x \in Fields |-> G[x]] /\ SameTick(F, G) /\ SameControl(F, G)
        /\ G.jobs = F.jobs /\ G.dead = F.dead /\ G.dedupe = F.dedupe
        /\ G.timers = F.timers /\ G.effects = F.effects
        /\ G.claimed = F.claimed
        /\ G.buffer = [F.buffer EXCEPT ![m] = "consumed"]
        /\ G.inst = [F.inst EXCEPT !.payload = new]
    BY ZenonT(30) DEF Formed, Fields, SameTick, SameControl, Consume
  <1> HIDE DEF G, new
  <1>2. /\ G.inst = [x \in InstFields |-> G.inst[x]] /\ SameStatus(F, G)
    BY <1>1, ZenonT(30) DEF Formed, InstFields, SameStatus
  <1> QED
    BY <1>1, <1>2, Zenon DEF Formed, SameControl, G

LEMMA BindFrame ==
    ASSUME NEW F, Formed(F), NEW v
    PROVE  LET G == [F EXCEPT !.inst.placeholders = v]
           IN  /\ Formed(G) /\ SameStatus(F, G) /\ SameStore(F, G)
               /\ SameTick(F, G) /\ SameControl(F, G)
  <1> DEFINE G == [F EXCEPT !.inst.placeholders = v]
  <1>1. /\ G = [x \in Fields |-> G[x]] /\ SameStore(F, G) /\ SameTick(F, G)
        /\ SameControl(F, G) /\ G.inst = [F.inst EXCEPT !.placeholders = v]
    BY DEF Formed, Fields, SameStore, SameTick, SameControl
  <1> HIDE DEF G
  <1>2. /\ G.inst = [x \in InstFields |-> G.inst[x]] /\ SameStatus(F, G)
    BY <1>1, ZenonT(30) DEF Formed, InstFields, SameStatus
  <1> QED
    BY <1>1, <1>2, Zenon DEF Formed, SameControl, G

LEMMA SetJobs ==
    ASSUME NEW F, Formed(F), NEW v
    PROVE  LET G == [F EXCEPT !.jobs = v]
           IN  /\ Formed(G) /\ SameButJobs(F, G) /\ SameTick(F, G)
               /\ SameControl(F, G) /\ v = G.jobs
  BY DEF Formed, Fields, SameButJobs, SameTick, SameControl

LEMMA SetTimers ==
    ASSUME NEW F, Formed(F), NEW v
    PROVE  LET G == [F EXCEPT !.timers = v]
           IN  /\ Formed(G) /\ SameButTimers(F, G) /\ SameTick(F, G)
               /\ SameControl(F, G) /\ v = G.timers
  BY DEF Formed, Fields, SameButTimers, SameTick, SameControl

SameButEffects(F, G) ==
    /\ G.inst = F.inst /\ G.jobs = F.jobs /\ G.dead = F.dead
    /\ G.dedupe = F.dedupe /\ G.timers = F.timers
    /\ G.buffer = F.buffer /\ G.claimed = F.claimed

LEMMA SetEffects ==
    ASSUME NEW F, Formed(F), NEW v
    PROVE  LET G == [F EXCEPT !.effects = v]
           IN  /\ Formed(G) /\ SameButEffects(F, G) /\ SameTick(F, G)
               /\ SameControl(F, G) /\ v = G.effects
  BY DEF Formed, Fields, SameButEffects, SameTick, SameControl

SameButBuffer(F, G) ==
    /\ G.inst = F.inst /\ G.jobs = F.jobs /\ G.dead = F.dead
    /\ G.dedupe = F.dedupe /\ G.timers = F.timers /\ G.effects = F.effects
    /\ G.claimed = F.claimed

LEMMA SetBuffer ==
    ASSUME NEW F, Formed(F), NEW v
    PROVE  LET G == [F EXCEPT !.buffer = v]
           IN  /\ Formed(G) /\ SameButBuffer(F, G) /\ SameTick(F, G)
               /\ SameControl(F, G) /\ v = G.buffer
  BY DEF Formed, Fields, SameButBuffer, SameTick, SameControl

LEMMA SetArms ==
    ASSUME NEW F, Formed(F), NEW v
    PROVE  LET G == [F EXCEPT !.arms = v]
           IN  /\ Formed(G) /\ SameLedgers(F, G) /\ SameControl(F, G)
               /\ v = G.arms /\ G.stop = F.stop /\ G.error = F.error
  BY DEF Formed, Fields, SameLedgers, SameStore, SameControl

-----------------------------------------------------------------------------
(* Fresh identities.                                                       *)

LEMMA ImageFinite ==
    ASSUME NEW g, NEW S, IsFiniteSet(S), S = DOMAIN g
    PROVE  IsFiniteSet({g[x] : x \in S})
  <1> DEFINE T == {g[x] : x \in S}
             h == [x \in S |-> g[x]]
  <1>1. h \in Surjection(S, T)
    BY DEF Surjection
  <1> QED
    BY <1>1, FS_Surjection

(* The members of a finite set of numbers have the ranks 1, 2, ... in it.  *)
LEMMA Ranked ==
    ASSUME NEW S \in SUBSET Nat, IsFiniteSet(S), NEW j \in 1..Cardinality(S)
    PROVE  \E x \in S : Cardinality({y \in S : y <= x}) = j
  <1> DEFINE upTo(x) == {y \in S : y <= x}
             n == Cardinality(S)
             rank == [x \in S |-> Cardinality(upTo(x))]
  <1>0. n \in Nat
    BY FS_CardinalityType
  <1>1. \A x \in S : /\ IsFiniteSet(upTo(x)) /\ rank[x] \in 1..n
    <2> TAKE x \in S
    <2>1. /\ IsFiniteSet(upTo(x)) /\ Cardinality(upTo(x)) <= n
      BY FS_Subset
    <2>2. Cardinality(upTo(x)) \in Nat
      BY <2>1, FS_CardinalityType
    <2>3. x \in upTo(x)
      OBVIOUS
    <2>4. Cardinality(upTo(x)) # 0
      BY <2>1, <2>3, FS_EmptySet
    <2> QED
      BY <2>1, <2>2, <2>4, <1>0
  <1>2. \A x, z \in S : x < z => rank[x] # rank[z]
    <2> TAKE x, z \in S
    <2> HAVE x < z
    <2>1. upTo(x) \in SUBSET upTo(z)
      <3>1. \A y \in S : y <= x => y <= z
        OBVIOUS
      <3> QED
        BY <3>1, Zenon
    <2>2. z \in upTo(z) /\ z \notin upTo(x)
      OBVIOUS
    <2>3. IsFiniteSet(upTo(z))
      BY <1>1
    <2>4. Cardinality(upTo(z)) # Cardinality(upTo(x))
      <3> HIDE DEF upTo
      <3> QED
        BY <2>1, <2>2, <2>3, FS_Subset
    <2> QED
      BY <2>4
  <1>3. \A x, z \in S : rank[x] = rank[z] => x = z
    <2> HIDE DEF rank
    <2> QED
      BY <1>2
  <1>4. rank \in Injection(S, 1..n)
    BY <1>1, <1>3, ZenonT(30) DEF Injection, IsInjective
  <1>5. IsFiniteSet(1..n) /\ Cardinality(1..n) = n
    BY <1>0, FS_Interval
  <1>6. rank \in Surjection(S, 1..n)
    BY <1>4, <1>5, FS_Injection
  <1>7. PICK x \in S : rank[x] = j
    BY <1>6, ZenonT(30) DEF Surjection
  <1> QED
    BY <1>7, ZenonT(30)

(* derived_id: n identities, all different, that nothing refers to.        *)
LEMMA FreshIds ==
    ASSUME NEW F, IsFiniteSet(Used(F)), NEW n \in Nat
    PROVE  /\ \A j \in 1..n : Fresh(F, n)[j] \in Ids \ Used(F)
           /\ \A j, k \in 1..n : Fresh(F, n)[j] = Fresh(F, n)[k] => j = k
  <1> DEFINE used == Used(F)
             c == Cardinality(used)
             all == 1..(c + n)
             free == all \ used
             rank(x) == Cardinality({y \in free : y <= x})
             ids == [j \in 1..n |-> CHOOSE x \in free : rank(x) = j]
  <1>1. c \in Nat
    BY FS_CardinalityType
  <1>2. IsFiniteSet(all) /\ Cardinality(all) = c + n
    <2> HIDE DEF c
    <2>1. 1 \in Int /\ c + n \in Int
      BY <1>1
    <2>2. /\ IsFiniteSet(1..(c + n))
          /\ Cardinality(1..(c + n)) = IF 1 > c + n THEN 0 ELSE (c + n) - 1 + 1
      BY <2>1, FS_Interval, Zenon
    <2> QED
      BY <1>1, <2>2
  <1>3. /\ IsFiniteSet(free)
        /\ Cardinality(free) = Cardinality(all) - Cardinality(all \cap used)
    BY <1>2, FS_Difference, ZenonT(30)
  <1>4. IsFiniteSet(all \cap used) /\ Cardinality(all \cap used) <= c
    BY FS_Intersection
  <1>5. Cardinality(all \cap used) \in Nat
    BY <1>4, FS_CardinalityType
  <1>6. Cardinality(free) \in Nat /\ Cardinality(free) >= n
    BY <1>1, <1>2, <1>3, <1>4, <1>5
  <1>7. free \in SUBSET Nat
    BY <1>1
  <1>8. \A j \in 1..n : ids[j] \in free /\ rank(ids[j]) = j
    <2> TAKE j \in 1..n
    <2>1. j \in 1..Cardinality(free)
      BY <1>6
    <2>2. \E x \in free : rank(x) = j
      <3> HIDE DEF free
      <3> QED
        BY <1>3, <1>7, <2>1, Ranked
    <2> HIDE DEF rank, free
    <2> QED
      BY <2>2
  <1>9. Fresh(F, n) = ids
    BY DEF Fresh
  <1>10. free \subseteq Ids \ used
    BY <1>1 DEF Ids
  <1> HIDE DEF ids, free, rank
  <1> QED
    BY <1>8, <1>9, <1>10

-----------------------------------------------------------------------------
(* The type of a frame.                                                    *)

WaitKinds ==
    {"Running", "Job", "Effect", "Timer", "Msg", "Barrier", "Race", "Incident"}

TypedFiber(fb) ==
    /\ fb.stack \in Seq(Ids) /\ fb.epoch \in Nat
    /\ fb.wait.kind \in WaitKinds
    /\ EffectiveStack(fb) \in Seq(Ids)

Fibers(fbs) ==
    /\ DOMAIN fbs \subseteq Ids /\ IsFiniteSet(DOMAIN fbs)
    /\ \A f \in DOMAIN fbs : TypedFiber(fbs[f])

Records(recs) == DOMAIN recs \subseteq Ids /\ IsFiniteSet(DOMAIN recs)

Status(i) ==
    /\ i.workflow = inst.workflow
    /\ i.state \in Terminal \cup {"Running", "Incidented"}
    /\ i.incident \in Nat

(* The rows the store keeps.                                               *)
Keys == (DOMAIN Program) \X Nat

Places == Ids \X (DOMAIN Program)

JobRows(js, ds, ded) == DOMAIN js \subseteq Keys /\ ds \subseteq Keys
                        /\ DOMAIN ded \subseteq Keys

TimerRows(ts) ==
    /\ DOMAIN ts \subseteq Places /\ IsFiniteSet(DOMAIN ts)
    /\ \A t \in DOMAIN ts : /\ ts[t] = [x \in TimerFields |-> ts[t][x]]
                            /\ ts[t].left \in Nat

EffectRows(es) ==
    /\ DOMAIN es \subseteq Places /\ IsFiniteSet(DOMAIN es)
    /\ \A e \in DOMAIN es :
        /\ es[e] = [x \in EffectFields |-> es[e][x]]
        /\ es[e].state \in {"open", "completed", "failed"}

BufferRows(bs) ==
    /\ DOMAIN bs \subseteq Messages \cup Places
    /\ IsFiniteSet(DOMAIN bs \ Messages)
    /\ \A m \in DOMAIN bs : bs[m] \in {"none", "buffered", "claimed", "consumed"}

Typed(F) ==
    /\ Formed(F) /\ Status(F.inst) /\ Fibers(F.fibers) /\ Records(F.records)
    /\ JobRows(F.jobs, F.dead, F.dedupe) /\ TimerRows(F.timers)
    /\ EffectRows(F.effects) /\ BufferRows(F.buffer)

-----------------------------------------------------------------------------
(* Control stacks.                                                         *)

LEMMA FrontIs ==
    ASSUME NEW S, NEW s \in Seq(S), s # <<>>
    PROVE  /\ Front(s) \in Seq(S) /\ Len(Front(s)) = Len(s) - 1
           /\ \A n \in 1..(Len(s) - 1) : Front(s)[n] = s[n]
           /\ Last(s) \in S /\ Last(s) = s[Len(s)]
           /\ Append(Front(s), Last(s)) = s
  <1>1. Len(s) \in Nat /\ Len(s) # 0 /\ DOMAIN s = 1..Len(s)
    BY EmptySeq, LenProperties
  <1>2. \A n \in 1..(Len(s) - 1) : s[n] \in S
    BY <1>1, ElementOfSeq
  <1>3. /\ Front(s) \in Seq(S) /\ Len(Front(s)) = Len(s) - 1
        /\ \A n \in 1..(Len(s) - 1) : Front(s)[n] = s[n]
    <2>1. Front(s) = SubSeq(s, 1, Len(s) - 1)
      BY DEF Front
    <2> DEFINE m == Len(s) - 1
    <2>2. m \in Int /\ 1 \in Int /\ \A n \in 1..m : s[n] \in S
      BY <1>1, <1>2
    <2>3. /\ SubSeq(s, 1, m) \in Seq(S)
          /\ Len(SubSeq(s, 1, m)) = IF 1 <= m THEN m - 1 + 1 ELSE 0
          /\ \A n \in 1..(m - 1 + 1) : SubSeq(s, 1, m)[n] = s[1 + n - 1]
      <3> HIDE DEF m
      <3> QED
        BY <2>2, SubSeqProperties
    <2> QED
      BY <1>1, <2>1, <2>3
  <1>4. Last(s) = s[Len(s)] /\ Last(s) \in S
    BY <1>1, ElementOfSeq DEF Last
  <1>5. Append(Front(s), Last(s)) = s
    <2> DEFINE a == Append(Front(s), Last(s))
    <2>1. /\ a \in Seq(S) /\ Len(a) = Len(Front(s)) + 1
          /\ \A n \in 1..Len(Front(s)) : a[n] = Front(s)[n]
          /\ a[Len(Front(s)) + 1] = Last(s)
      BY <1>3, <1>4, AppendProperties
    <2>2. Len(a) = Len(s) /\ \A n \in 1..Len(a) : a[n] = s[n]
      <3> HIDE DEF a
      <3> QED
        BY <1>1, <1>3, <1>4, <2>1
    <2> HIDE DEF a
    <2> QED
      BY <2>1, <2>2, SeqEqual DEF a
  <1> QED
    BY <1>3, <1>4, <1>5

LEMMA PrefixIs ==
    ASSUME NEW S, NEW s \in Seq(S), NEW n \in 0..Len(s)
    PROVE  /\ SubSeq(s, 1, n) \in Seq(S) /\ Len(SubSeq(s, 1, n)) = n
           /\ \A k \in 1..n : SubSeq(s, 1, n)[k] = s[k]
  <1>1. Len(s) \in Nat
    BY LenProperties
  <1>2. n \in Int /\ 1 \in Int /\ \A k \in 1..n : s[k] \in S
    BY <1>1, ElementOfSeq
  <1>3. /\ SubSeq(s, 1, n) \in Seq(S)
        /\ Len(SubSeq(s, 1, n)) = IF 1 <= n THEN n - 1 + 1 ELSE 0
        /\ \A k \in 1..(n - 1 + 1) : SubSeq(s, 1, n)[k] = s[1 + k - 1]
    BY <1>2, SubSeqProperties
  <1> QED
    BY <1>1, <1>3

LEMMA Members ==
    ASSUME NEW S, NEW s \in Seq(S)
    PROVE  /\ Range(s) = {s[n] : n \in 1..Len(s)} /\ Range(s) \subseteq S
           /\ IsFiniteSet(Range(s))
  <1>1. Len(s) \in Nat /\ DOMAIN s = 1..Len(s)
    BY LenProperties
  <1>2. Range(s) = {s[n] : n \in 1..Len(s)}
    BY <1>1 DEF Range
  <1>3. IsFiniteSet(1..Len(s))
    BY <1>1, FS_Interval
  <1>4. IsFiniteSet({s[n] : n \in 1..Len(s)})
    BY <1>1, <1>3, ImageFinite
  <1>5. Range(s) \subseteq S
    BY <1>2, ElementOfSeq
  <1> QED
    BY <1>2, <1>4, <1>5

(* A fibre that waits for neither a barrier nor a race belongs to the      *)
(* records on its stack; one that does also to the one it waits for.       *)
LEMMA PlainFiber ==
    ASSUME NEW fb, fb.stack \in Seq(Ids), fb.epoch \in Nat,
           fb.wait.kind \in WaitKinds \ {"Barrier", "Race"}
    PROVE  TypedFiber(fb) /\ EffectiveStack(fb) = fb.stack
  BY DEF TypedFiber, EffectiveStack

LEMMA ParkedFiber ==
    ASSUME NEW fb, fb.stack \in Seq(Ids), fb.epoch \in Nat, NEW r \in Ids,
           fb.wait.kind \in {"Barrier", "Race"}, fb.wait.ref = <<r>>
    PROVE  TypedFiber(fb) /\ EffectiveStack(fb) = Append(fb.stack, r)
  <1>1. EffectiveStack(fb) = Append(fb.stack, r)
    BY DEF EffectiveStack
  <1>2. Append(fb.stack, r) \in Seq(Ids)
    BY AppendProperties
  <1> QED
    BY <1>1, <1>2 DEF TypedFiber, WaitKinds

-----------------------------------------------------------------------------
(* One place for every handle.                                             *)

(* Where s and t hold the same handle they agree up to it.                 *)
Agree(s, t) ==
    \A n \in 1..Len(s), m \in 1..Len(t) : s[n] = t[m] =>
        n = m /\ \A k \in 1..n : s[k] = t[k]

Prefixed(fbs) ==
    \A f, g \in DOMAIN fbs : Agree(EffectiveStack(fbs[f]), EffectiveStack(fbs[g]))

Below(s, t) == Len(s) <= Len(t) /\ \A k \in 1..Len(s) : s[k] = t[k]

(* s is empty or what some fibre has at the bottom of its stack.           *)
Kept(s, fbs) ==
    s = <<>> \/ \E g \in DOMAIN fbs : Below(s, EffectiveStack(fbs[g]))

Steady(fb, fbs) == TypedFiber(fb) /\ Kept(EffectiveStack(fb), fbs)

(* No fibre holds r.                                                       *)
Unheld(r, fbs) == \A f \in DOMAIN fbs : r \notin Range(EffectiveStack(fbs[f]))

LEMMA BelowAgree ==
    ASSUME NEW s \in Seq(Ids), NEW t \in Seq(Ids), NEW u \in Seq(Ids),
           NEW v \in Seq(Ids), Agree(u, v), Below(s, u), Below(t, v)
    PROVE  Agree(s, t)
  <1>1. /\ Len(s) \in Nat /\ Len(t) \in Nat /\ Len(u) \in Nat /\ Len(v) \in Nat
    BY LenProperties
  <1> SUFFICES ASSUME NEW n \in 1..Len(s), NEW m \in 1..Len(t), s[n] = t[m]
               PROVE  n = m /\ \A k \in 1..n : s[k] = t[k]
    BY DEF Agree
  <1>2. n \in 1..Len(u) /\ m \in 1..Len(v) /\ u[n] = v[m]
    BY <1>1 DEF Below
  <1>3. n = m /\ \A k \in 1..n : u[k] = v[k]
    BY <1>2 DEF Agree
  <1>4. \A k \in 1..n : s[k] = u[k] /\ t[k] = v[k]
    BY <1>1, <1>3 DEF Below
  <1> QED
    BY <1>3, <1>4

LEMMA KeptAgree ==
    ASSUME NEW fbs, Fibers(fbs), Prefixed(fbs),
           NEW s \in Seq(Ids), NEW t \in Seq(Ids), Kept(s, fbs), Kept(t, fbs)
    PROVE  Agree(s, t)
  <1>1. CASE s = <<>> \/ t = <<>>
    BY <1>1 DEF Agree
  <1>2. CASE s # <<>> /\ t # <<>>
    <2>1. PICK f \in DOMAIN fbs : Below(s, EffectiveStack(fbs[f]))
      BY <1>2 DEF Kept
    <2>2. PICK g \in DOMAIN fbs : Below(t, EffectiveStack(fbs[g]))
      BY <1>2 DEF Kept
    <2>3. /\ EffectiveStack(fbs[f]) \in Seq(Ids)
          /\ EffectiveStack(fbs[g]) \in Seq(Ids)
          /\ Agree(EffectiveStack(fbs[f]), EffectiveStack(fbs[g]))
      BY DEF Fibers, TypedFiber, Prefixed
    <2> QED
      BY <2>1, <2>2, <2>3, BelowAgree
  <1> QED
    BY <1>1, <1>2

LEMMA KeptUnheld ==
    ASSUME NEW fbs, Fibers(fbs), NEW r, Unheld(r, fbs),
           NEW s \in Seq(Ids), Kept(s, fbs)
    PROVE  \A n \in 1..Len(s) : s[n] # r
  <1>1. CASE s = <<>>
    BY <1>1
  <1>2. CASE s # <<>>
    <2>1. PICK f \in DOMAIN fbs : Below(s, EffectiveStack(fbs[f]))
      BY <1>2 DEF Kept
    <2> DEFINE t == EffectiveStack(fbs[f])
    <2>2. t \in Seq(Ids)
      BY DEF Fibers, TypedFiber
    <2>3. Range(t) = {t[n] : n \in 1..Len(t)}
      BY <2>2, Members
    <2>4. r \notin Range(t)
      BY DEF Unheld
    <2>5. Len(s) \in Nat /\ Len(t) \in Nat /\ Len(s) <= Len(t)
      BY <2>1, <2>2, LenProperties DEF Below
    <2> HIDE DEF t
    <2>6. \A n \in 1..Len(s) : s[n] = t[n] /\ n \in 1..Len(t)
      BY <2>1, <2>5 DEF Below, t
    <2> QED
      BY <2>3, <2>4, <2>6
  <1> QED
    BY <1>1, <1>2

(* A stack with a handle that nobody holds on top.                         *)
LEMMA NewAgree ==
    ASSUME NEW fbs, Fibers(fbs), Prefixed(fbs), NEW r \in Ids, Unheld(r, fbs),
           NEW b \in Seq(Ids), Kept(b, fbs), NEW s \in Seq(Ids), Kept(s, fbs)
    PROVE  /\ Agree(Append(b, r), s) /\ Agree(s, Append(b, r))
           /\ Agree(Append(b, r), Append(b, r))
  <1> DEFINE a == Append(b, r)
  <1>1. /\ a \in Seq(Ids) /\ Len(a) = Len(b) + 1 /\ a[Len(b) + 1] = r
        /\ \A k \in 1..Len(b) : a[k] = b[k]
    BY AppendProperties
  <1>2. Len(b) \in Nat /\ Len(s) \in Nat
    BY LenProperties
  <1>3. Agree(b, s) /\ Agree(s, b) /\ Agree(b, b)
    BY KeptAgree
  <1>4. /\ \A n \in 1..Len(s) : s[n] # r
        /\ \A n \in 1..Len(b) : b[n] # r
    BY KeptUnheld
  <1> HIDE DEF a
  <1>5. \A n \in 1..Len(a) : n = Len(b) + 1 \/ n \in 1..Len(b)
    BY <1>1, <1>2
  <1>6. Agree(a, s)
    <2> SUFFICES ASSUME NEW n \in 1..Len(a), NEW m \in 1..Len(s), a[n] = s[m]
                 PROVE  n = m /\ \A k \in 1..n : a[k] = s[k]
      BY DEF Agree
    <2>1. n \in 1..Len(b)
      BY <1>1, <1>4, <1>5
    <2>2. n = m /\ \A k \in 1..n : b[k] = s[k]
      BY <1>1, <1>3, <2>1 DEF Agree
    <2> QED
      BY <1>1, <1>2, <2>1, <2>2
  <1>7. Agree(s, a)
    <2> SUFFICES ASSUME NEW n \in 1..Len(s), NEW m \in 1..Len(a), s[n] = a[m]
                 PROVE  n = m /\ \A k \in 1..n : s[k] = a[k]
      BY DEF Agree
    <2>1. m \in 1..Len(b)
      BY <1>1, <1>4, <1>5
    <2>2. n = m /\ \A k \in 1..n : s[k] = b[k]
      BY <1>1, <1>3, <2>1 DEF Agree
    <2> QED
      BY <1>1, <1>2, <2>1, <2>2
  <1>8. Agree(a, a)
    <2> SUFFICES ASSUME NEW n \in 1..Len(a), NEW m \in 1..Len(a), a[n] = a[m]
                 PROVE  n = m
      BY DEF Agree
    <2>1. CASE n \in 1..Len(b) /\ m \in 1..Len(b)
      BY <1>1, <1>3, <2>1 DEF Agree
    <2>2. CASE n = Len(b) + 1 \/ m = Len(b) + 1
      BY <1>1, <1>4, <1>5, <2>2
    <2> QED
      BY <1>5, <2>1, <2>2
  <1> QED
    BY <1>6, <1>7, <1>8 DEF a

(* Fibres that are left alone, lose handles from the top of their stacks   *)
(* or start with what another one has keep every handle in its place.      *)
LEMMA ShrunkFibers ==
    ASSUME NEW fbs, Fibers(fbs), Prefixed(fbs), NEW gbs,
           DOMAIN gbs \subseteq Ids, IsFiniteSet(DOMAIN gbs),
           \A g \in DOMAIN gbs : Steady(gbs[g], fbs)
    PROVE  Fibers(gbs) /\ Prefixed(gbs)
  <1>1. Fibers(gbs)
    BY DEF Fibers, Steady
  <1>2. ASSUME NEW f \in DOMAIN gbs, NEW g \in DOMAIN gbs
        PROVE  Agree(EffectiveStack(gbs[f]), EffectiveStack(gbs[g]))
    <2>1. /\ EffectiveStack(gbs[f]) \in Seq(Ids) /\ Kept(EffectiveStack(gbs[f]), fbs)
          /\ EffectiveStack(gbs[g]) \in Seq(Ids) /\ Kept(EffectiveStack(gbs[g]), fbs)
      BY DEF Steady, TypedFiber
    <2> QED
      BY <2>1, KeptAgree
  <1> QED
    BY <1>1, <1>2 DEF Prefixed

LEMMA BelowSelf ==
    ASSUME NEW s \in Seq(Ids) PROVE Below(s, s)
  BY LenProperties DEF Below

LEMMA SteadyFiber ==
    ASSUME NEW fbs, Fibers(fbs), NEW f \in DOMAIN fbs
    PROVE  Steady(fbs[f], fbs)
  BY BelowSelf DEF Steady, Fibers, TypedFiber, Kept

(* The same with some fibres that step inside a new scope r.               *)
Enters(fb, b, r) == TypedFiber(fb) /\ EffectiveStack(fb) = Append(b, r)

LEMMA GrownFibers ==
    ASSUME NEW fbs, Fibers(fbs), Prefixed(fbs), NEW gbs,
           DOMAIN gbs \subseteq Ids, IsFiniteSet(DOMAIN gbs),
           NEW b \in Seq(Ids), Kept(b, fbs), NEW r \in Ids, Unheld(r, fbs),
           \A g \in DOMAIN gbs : Steady(gbs[g], fbs) \/ Enters(gbs[g], b, r)
    PROVE  Fibers(gbs) /\ Prefixed(gbs)
  <1>1. Fibers(gbs)
    BY DEF Fibers, Steady, Enters
  <1>2. ASSUME NEW f \in DOMAIN gbs, NEW g \in DOMAIN gbs
        PROVE  Agree(EffectiveStack(gbs[f]), EffectiveStack(gbs[g]))
    <2> DEFINE s == EffectiveStack(gbs[f])
               t == EffectiveStack(gbs[g])
    <2>1. /\ s \in Seq(Ids) /\ (Kept(s, fbs) \/ s = Append(b, r))
          /\ t \in Seq(Ids) /\ (Kept(t, fbs) \/ t = Append(b, r))
      BY DEF Steady, Enters, TypedFiber
    <2> HIDE DEF s, t
    <2>2. CASE Kept(s, fbs) /\ Kept(t, fbs)
      BY <2>1, <2>2, KeptAgree DEF s, t
    <2>3. CASE s = Append(b, r) /\ Kept(t, fbs)
      BY <2>1, <2>3, NewAgree DEF s, t
    <2>4. CASE Kept(s, fbs) /\ t = Append(b, r)
      BY <2>1, <2>4, NewAgree DEF s, t
    <2>5. CASE s = Append(b, r) /\ t = Append(b, r)
      BY <2>5, NewAgree DEF s, t
    <2> QED
      BY <2>1, <2>2, <2>3, <2>4, <2>5
  <1> QED
    BY <1>1, <1>2 DEF Prefixed

(* One fibre changes; fibres go; a handler takes the place of some.        *)
LEMMA OneFiber ==
    ASSUME NEW fbs, Fibers(fbs), Prefixed(fbs), NEW f \in DOMAIN fbs,
           NEW gbs, Others(gbs, fbs, f), Steady(gbs[f], fbs)
    PROVE  Fibers(gbs) /\ Prefixed(gbs)
  <1>1. \A g \in DOMAIN gbs : Steady(gbs[g], fbs)
    BY SteadyFiber DEF Others
  <1>2. DOMAIN gbs \subseteq Ids /\ IsFiniteSet(DOMAIN gbs)
    BY DEF Others, Fibers
  <1> QED
    BY <1>1, <1>2, ShrunkFibers

LEMMA FewerFibers ==
    ASSUME NEW fbs, Fibers(fbs), Prefixed(fbs), NEW S
    PROVE  Fibers(Without(fbs, S)) /\ Prefixed(Without(fbs, S))
  <1> DEFINE gbs == Without(fbs, S)
  <1>1. /\ DOMAIN gbs = DOMAIN fbs \ S
        /\ \A g \in DOMAIN fbs \ S : gbs[g] = fbs[g]
    BY WithoutIs, Zenon
  <1> HIDE DEF gbs
  <1>2. \A g \in DOMAIN gbs : Steady(gbs[g], fbs)
    BY <1>1, SteadyFiber
  <1>3. DOMAIN gbs \subseteq Ids /\ IsFiniteSet(DOMAIN gbs)
    BY <1>1, FS_Subset DEF Fibers
  <1>4. Fibers(gbs) /\ Prefixed(gbs)
    BY <1>2, <1>3, ShrunkFibers
  <1> QED
    BY <1>4 DEF gbs

LEMMA ReplacedFibers ==
    ASSUME NEW fbs, Fibers(fbs), Prefixed(fbs), NEW S, NEW h \in Ids,
           NEW gbs, Replaced(gbs, fbs, S, h), Steady(gbs[h], fbs)
    PROVE  Fibers(gbs) /\ Prefixed(gbs)
  <1>1. \A g \in DOMAIN gbs : Steady(gbs[g], fbs)
    BY SteadyFiber DEF Replaced
  <1>2. DOMAIN gbs \subseteq Ids
    BY DEF Replaced, Fibers
  <1>3. IsFiniteSet(DOMAIN gbs)
    <2>1. IsFiniteSet(DOMAIN fbs \ S)
      BY FS_Subset DEF Fibers
    <2>2. IsFiniteSet((DOMAIN fbs \ S) \cup {h})
      BY <2>1, FS_AddElement
    <2> QED
      BY <2>2 DEF Replaced
  <1> QED
    BY <1>1, <1>2, <1>3, ShrunkFibers

-----------------------------------------------------------------------------
(* Identities.                                                             *)

LEMMA HeldFinite ==
    ASSUME NEW fbs, Fibers(fbs)
    PROVE  IsFiniteSet(UNION {Range(EffectiveStack(fbs[f])) : f \in DOMAIN fbs})
  <1> DEFINE h == [f \in DOMAIN fbs |-> Range(EffectiveStack(fbs[f]))]
             T == {h[f] : f \in DOMAIN fbs}
  <1>1. IsFiniteSet(T)
    <2>1. DOMAIN fbs = DOMAIN h /\ IsFiniteSet(DOMAIN fbs)
      BY DEF Fibers
    <2> HIDE DEF h
    <2> QED
      BY <2>1, ImageFinite
  <1>2. \A X \in T : IsFiniteSet(X)
    <2> SUFFICES ASSUME NEW f \in DOMAIN fbs
                 PROVE  IsFiniteSet(Range(EffectiveStack(fbs[f])))
      OBVIOUS
    <2>1. EffectiveStack(fbs[f]) \in Seq(Ids)
      BY DEF Fibers, TypedFiber
    <2> QED
      BY <2>1, Members
  <1>3. IsFiniteSet(UNION T)
    <2> HIDE DEF T
    <2> QED
      BY <1>1, <1>2, FS_UNION
  <1>4. T = {Range(EffectiveStack(fbs[f])) : f \in DOMAIN fbs}
    OBVIOUS
  <1> QED
    BY <1>3, <1>4, ZenonT(30)

LEMMA FirstsFinite ==
    ASSUME NEW S, IsFiniteSet(S) PROVE IsFiniteSet({x[1] : x \in S})
  <1> DEFINE g == [x \in S |-> x[1]]
  <1>1. S = DOMAIN g /\ {g[x] : x \in S} = {x[1] : x \in S}
    OBVIOUS
  <1>2. IsFiniteSet({g[x] : x \in S})
    <2> HIDE DEF g
    <2> QED
      BY <1>1, ImageFinite
  <1> QED
    BY <1>1, <1>2

LEMMA TimerIdsFinite ==
    ASSUME NEW ts, IsFiniteSet(DOMAIN ts)
    PROVE  IsFiniteSet(UNION {{t[1], ts[t].rec} : t \in DOMAIN ts})
  <1> DEFINE g == [t \in DOMAIN ts |-> {t[1], ts[t].rec}]
             T == {g[t] : t \in DOMAIN ts}
  <1>1. IsFiniteSet(T)
    <2>1. DOMAIN ts = DOMAIN g
      OBVIOUS
    <2> HIDE DEF g
    <2> QED
      BY <2>1, ImageFinite
  <1>2. \A X \in T : IsFiniteSet(X)
    <2> SUFFICES ASSUME NEW t \in DOMAIN ts
                 PROVE  IsFiniteSet({t[1], ts[t].rec})
      OBVIOUS
    <2>1. IsFiniteSet({t[1]} \cup {ts[t].rec})
      BY FS_Singleton, FS_Union, ZenonT(30)
    <2>2. {t[1], ts[t].rec} = {t[1]} \cup {ts[t].rec}
      OBVIOUS
    <2> QED
      BY <2>1, <2>2
  <1>3. IsFiniteSet(UNION T)
    <2> HIDE DEF T
    <2> QED
      BY <1>1, <1>2, FS_UNION
  <1>4. T = {{t[1], ts[t].rec} : t \in DOMAIN ts}
    OBVIOUS
  <1> QED
    BY <1>3, <1>4, ZenonT(30)

LEMMA UsedFinite ==
    ASSUME NEW F, Typed(F) PROVE IsFiniteSet(Used(F))
  <1> DEFINE A == {F.inst.incident}
             B == DOMAIN F.fibers
             C == DOMAIN F.records
             D == UNION {Range(EffectiveStack(F.fibers[f])) : f \in DOMAIN F.fibers}
             E == UNION {{t[1], F.timers[t].rec} : t \in DOMAIN F.timers}
             G == {e[1] : e \in DOMAIN F.effects}
             H == {m[1] : m \in DOMAIN F.buffer \ Messages}
  <1>1. IsFiniteSet(A) /\ IsFiniteSet(B) /\ IsFiniteSet(C)
    BY FS_Singleton, ZenonT(30) DEF Typed, Fibers, Records
  <1>2. IsFiniteSet(D)
    BY HeldFinite DEF Typed
  <1>3. IsFiniteSet(E)
    BY TimerIdsFinite DEF Typed, TimerRows
  <1>4. IsFiniteSet(G)
    <2>1. IsFiniteSet(DOMAIN F.effects)
      BY DEF Typed, EffectRows
    <2> QED
      BY <2>1, FirstsFinite
  <1>5. IsFiniteSet(H)
    <2> DEFINE S == DOMAIN F.buffer \ Messages
    <2>1. IsFiniteSet(S)
      BY DEF Typed, BufferRows
    <2>2. H = {m[1] : m \in S}
      OBVIOUS
    <2> HIDE DEF S, H
    <2>3. IsFiniteSet({m[1] : m \in S})
      BY <2>1, FirstsFinite
    <2> QED
      BY <2>2, <2>3
  <1>6. Used(F) = (((((A \cup B) \cup C) \cup D) \cup E) \cup G) \cup H
    BY Zenon DEF Used
  <1> HIDE DEF A, B, C, D, E, G, H
  <1>7. IsFiniteSet((A \cup B) \cup C)
    BY <1>1, FS_Union, ZenonT(30)
  <1>8. IsFiniteSet((((A \cup B) \cup C) \cup D) \cup E)
    BY <1>2, <1>3, <1>7, FS_Union, ZenonT(30)
  <1>9. IsFiniteSet((((((A \cup B) \cup C) \cup D) \cup E) \cup G) \cup H)
    BY <1>4, <1>5, <1>8, FS_Union, ZenonT(30)
  <1> QED
    BY <1>6, <1>9

(* A fresh identity is no fibre, no record and on no stack.                *)
LEMMA FreshUnheld ==
    ASSUME NEW F, Typed(F), NEW n \in Nat, NEW j \in 1..n
    PROVE  LET x == Fresh(F, n)[j]
           IN  /\ x \in Ids /\ x \notin DOMAIN F.fibers
               /\ x \notin DOMAIN F.records /\ Unheld(x, F.fibers)
  <1> DEFINE x == Fresh(F, n)[j]
  <1>1. x \in Ids /\ x \notin Used(F)
    BY UsedFinite, FreshIds
  <1> HIDE DEF x
  <1>2. /\ x \notin DOMAIN F.fibers /\ x \notin DOMAIN F.records
        /\ x \notin UNION {Range(EffectiveStack(F.fibers[f])) : f \in DOMAIN F.fibers}
    BY <1>1, Zenon DEF Used
  <1> QED
    BY <1>1, <1>2 DEF Unheld, x

-----------------------------------------------------------------------------
(* Handlers and rollbacks.                                                 *)

LEMMA AppendKeeps ==
    ASSUME NEW s \in Seq(Ids), NEW r
    PROVE  /\ Len(Append(s, r)) = Len(s) + 1
           /\ \A k \in 1..Len(s) : Append(s, r)[k] = s[k]
  <1> DEFINE S == Ids \cup {r}
  <1>1. s \in Seq(S) /\ r \in S
    BY ElementOfSeq, SeqDef, LenProperties
  <1> HIDE DEF S
  <1> QED
    BY <1>1, AppendProperties

(* What a fibre has at the bottom of its stack is kept by it.              *)
LEMMA StackPrefix ==
    ASSUME NEW fbs, Fibers(fbs), NEW f \in DOMAIN fbs,
           NEW n \in 0..Len(fbs[f].stack)
    PROVE  LET p == SubSeq(fbs[f].stack, 1, n)
           IN  p \in Seq(Ids) /\ Kept(p, fbs)
  <1> DEFINE s == fbs[f].stack
             p == SubSeq(s, 1, n)
             e == EffectiveStack(fbs[f])
  <1>1. s \in Seq(Ids) /\ TypedFiber(fbs[f])
    BY DEF Fibers, TypedFiber
  <1>2. p \in Seq(Ids) /\ Len(p) = n /\ \A k \in 1..n : p[k] = s[k]
    <2> HIDE DEF s
    <2> QED
      BY <1>1, PrefixIs DEF s
  <1>3. e = s \/ e = Append(s, fbs[f].wait.ref[1])
    BY DEF EffectiveStack
  <1>4. Len(s) \in Nat /\ Len(s) <= Len(e) /\ \A k \in 1..Len(s) : e[k] = s[k]
    <2> HIDE DEF s, e
    <2> QED
      BY <1>1, <1>3, AppendKeeps, LenProperties
  <1> HIDE DEF s, p, e
  <1>5. Below(p, e)
    BY <1>2, <1>4 DEF Below, s
  <1> QED
    BY <1>2, <1>5 DEF Kept, s, p, e

LEMMA WholeStack ==
    ASSUME NEW fbs, Fibers(fbs), NEW f \in DOMAIN fbs
    PROVE  fbs[f].stack \in Seq(Ids) /\ Kept(fbs[f].stack, fbs)
  <1> DEFINE s == fbs[f].stack
  <1>1. s \in Seq(Ids) /\ Len(s) \in Nat
    BY LenProperties DEF Fibers, TypedFiber
  <1>2. SubSeq(s, 1, Len(s)) \in Seq(Ids) /\ Kept(SubSeq(s, 1, Len(s)), fbs)
    BY <1>1, StackPrefix
  <1>3. SubSeq(s, 1, Len(s)) = s
    <2> HIDE DEF s
    <2>1. /\ Len(SubSeq(s, 1, Len(s))) = Len(s)
          /\ \A k \in 1..Len(s) : SubSeq(s, 1, Len(s))[k] = s[k]
      BY <1>1, PrefixIs
    <2> QED
      BY <1>1, <1>2, <2>1, SeqEqual
  <1> QED
    BY <1>1, <1>2, <1>3, ZenonT(30)

LEMMA PlaceOf ==
    ASSUME NEW s \in Seq(Ids), NEW r \in Range(s)
    PROVE  (CHOOSE n \in DOMAIN s : s[n] = r) \in 1..Len(s)
  <1>1. DOMAIN s = 1..Len(s)
    BY LenProperties
  <1>2. \E n \in DOMAIN s : s[n] = r
    BY DEF Range
  <1> QED
    BY <1>1, <1>2

LEMMA HandlerKept ==
    ASSUME NEW F, Fibers(F.fibers), NEW r
    PROVE  HandlerStack(F, r) \in Seq(Ids) /\ Kept(HandlerStack(F, r), F.fibers)
  <1> DEFINE f == CHOOSE g \in Inside(F, r) : TRUE
             s == F.fibers[f].stack
             at == CHOOSE n \in DOMAIN s : s[n] = r
             m == IF F.records[r].kind # "GuardN" THEN at - 1 ELSE at
  <1>1. CASE Inside(F, r) = {}
    <2>1. HandlerStack(F, r) = <<>>
      BY <1>1 DEF HandlerStack
    <2> QED
      BY <2>1 DEF Kept
  <1>2. CASE Inside(F, r) # {}
    <2>1. f \in DOMAIN F.fibers /\ r \in Range(s)
      BY <1>2 DEF Inside
    <2>2. HandlerStack(F, r) = SubSeq(s, 1, m)
      BY <1>2, ZenonT(30) DEF HandlerStack
    <2> HIDE DEF f
    <2>3. s \in Seq(Ids)
      BY <2>1 DEF Fibers, TypedFiber
    <2>4. at \in 1..Len(s)
      <3> HIDE DEF s
      <3> QED
        BY <2>1, <2>3, PlaceOf
    <2>5. m \in 0..Len(s)
      <3> HIDE DEF at, s
      <3> QED
        BY <2>3, <2>4, LenProperties
    <2> HIDE DEF m
    <2> QED
      BY <2>1, <2>2, <2>5, StackPrefix
  <1> QED
    BY <1>1, <1>2

LEMMA OuterKept ==
    ASSUME NEW F, Fibers(F.fibers), NEW r, NEW f \in DOMAIN F.fibers
    PROVE  OuterStack(F, r, f) \in Seq(Ids) /\ Kept(OuterStack(F, r, f), F.fibers)
  <1> DEFINE s == F.fibers[f].stack
             at == CHOOSE n \in DOMAIN s : s[n] = r
             m == at - 1
  <1>1. s \in Seq(Ids) /\ Kept(s, F.fibers)
    BY WholeStack
  <1>2. CASE r \notin Range(s)
    BY <1>1, <1>2 DEF OuterStack
  <1>3. CASE r \in Range(s)
    <2>1. at \in 1..Len(s)
      <3> HIDE DEF s
      <3> QED
        BY <1>1, <1>3, PlaceOf
    <2>2. m \in 0..Len(s)
      <3> HIDE DEF at, s
      <3> QED
        BY <1>1, <2>1, LenProperties
    <2>3. OuterStack(F, r, f) = SubSeq(s, 1, m)
      BY <1>3, ZenonT(30) DEF OuterStack
    <2> HIDE DEF m
    <2> QED
      BY <2>2, <2>3, StackPrefix
  <1> QED
    BY <1>2, <1>3

-----------------------------------------------------------------------------
(* What a tick keeps: the frames of a transition and the fibre that runs.  *)

(* The frames of a transition: typed, with every handle in its place.      *)
Tidy(F) == Typed(F) /\ Prefixed(F.fibers)

(* Fibre f, which the tick runs, can go on; the tick may be over.          *)
Runs(F, f) == Tidy(F) /\ f \in DOMAIN F.fibers /\ F.fibers[f].wait = Running

InTick(F, f) == Tidy(F) /\ (F.stop \/ F.error # "none" \/ Runs(F, f))

LEMMA RunningFiber ==
    ASSUME NEW F, NEW f, Runs(F, f)
    PROVE  LET fb == F.fibers[f]
           IN  /\ fb.stack \in Seq(Ids) /\ fb.epoch \in Nat
               /\ EffectiveStack(fb) = fb.stack /\ Kept(fb.stack, F.fibers)
               /\ f \in Ids /\ f \in DOMAIN F.fibers
  <1> DEFINE fb == F.fibers[f]
  <1>1. TypedFiber(fb) /\ Steady(fb, F.fibers) /\ f \in Ids
    BY SteadyFiber DEF Fibers, Runs, Tidy, Typed
  <1>2. EffectiveStack(fb) = fb.stack
    BY DEF EffectiveStack, Running, Runs
  <1> QED
    BY <1>1, <1>2 DEF TypedFiber, Steady, Runs

(* A fibre that stands somewhere with a stack that another one has.        *)
LEMMA PlainSteady ==
    ASSUME NEW fbs, NEW fb, NEW pc, NEW stack \in Seq(Ids), NEW wait,
           NEW epoch \in Nat, Stands(fb, pc, stack, wait, epoch),
           wait.kind \in WaitKinds \ {"Barrier", "Race"}, Kept(stack, fbs)
    PROVE  Steady(fb, fbs)
  BY PlainFiber DEF Steady, Stands

LEMMA WaitingKind ==
    /\ Running.kind \in WaitKinds \ {"Barrier", "Race"}
    /\ \A ref : \A kind \in WaitKinds : Waiting(kind, ref).kind = kind
  BY DEF Running, WaitKinds, Waiting

(* One fibre changes and the rows do not.                                  *)
LEMMA TidyFiber ==
    ASSUME NEW F, Tidy(F), NEW f \in DOMAIN F.fibers, NEW G, Formed(G),
           Status(G.inst), SameStore(F, G), Records(G.records),
           Others(G.fibers, F.fibers, f), Steady(G.fibers[f], F.fibers)
    PROVE  Tidy(G)
  <1>1. Fibers(G.fibers) /\ Prefixed(G.fibers)
    BY OneFiber DEF Tidy, Typed
  <1> QED
    BY <1>1 DEF Tidy, Typed, SameStore

LEMMA RunsGoto ==
    ASSUME NEW F, NEW f, Runs(F, f), NEW addr
    PROVE  Runs(Goto(F, f, addr), f)
  <1> DEFINE G == Goto(F, f, addr)
             fb == F.fibers[f]
  <1>1. /\ fb.stack \in Seq(Ids) /\ fb.epoch \in Nat /\ Kept(fb.stack, F.fibers)
        /\ f \in DOMAIN F.fibers
    BY RunningFiber
  <1>2. /\ Formed(G) /\ SameLedgers(F, G) /\ G.records = F.records
        /\ Others(G.fibers, F.fibers, f)
        /\ Stands(G.fibers[f], addr, fb.stack, Running, fb.epoch)
    BY GotoFrame, <1>1 DEF Runs, Tidy, Typed
  <1> HIDE DEF G
  <1>3. Steady(G.fibers[f], F.fibers)
    BY <1>1, <1>2, PlainSteady, WaitingKind
  <1>4. Status(G.inst) /\ SameStore(F, G) /\ Records(G.records)
    BY <1>2 DEF Runs, Tidy, Typed, SameLedgers
  <1>5. Tidy(G)
    BY <1>1, <1>2, <1>3, <1>4, TidyFiber DEF Runs
  <1> QED
    BY <1>1, <1>2, <1>5 DEF Runs, Others, Stands, G

LEMMA RunsAdvance ==
    ASSUME NEW F, NEW f, Runs(F, f) PROVE Runs(Advance(F, f), f)
  BY RunsGoto DEF Advance

LEMMA TidyRefuse ==
    ASSUME NEW F, Tidy(F), NEW why
    PROVE  LET G == Refuse(F, why)
           IN  Tidy(G) /\ G.error = why /\ G.fibers = F.fibers
  <1> DEFINE G == Refuse(F, why)
  <1>1. /\ Formed(G) /\ SameLedgers(F, G)
        /\ G.fibers = F.fibers /\ G.records = F.records /\ G.error = why
    BY RefuseFrame DEF Tidy, Typed
  <1> HIDE DEF G
  <1>2. Tidy(G)
    BY <1>1 DEF Tidy, Typed, SameLedgers, SameStore
  <1> QED
    BY <1>1, <1>2 DEF G

LEMMA RunsPark ==
    ASSUME NEW F, NEW f, Runs(F, f), NEW wait,
           wait.kind \in WaitKinds \ {"Barrier", "Race"}
    PROVE  Tidy(Park(F, f, wait)) /\ Park(F, f, wait).stop
  <1> DEFINE G == Park(F, f, wait)
             fb == F.fibers[f]
  <1>1. /\ fb.stack \in Seq(Ids) /\ fb.epoch \in Nat /\ Kept(fb.stack, F.fibers)
        /\ f \in DOMAIN F.fibers
    BY RunningFiber
  <1>2. /\ Formed(G) /\ SameLedgers(F, G) /\ G.records = F.records /\ G.stop = TRUE
        /\ Others(G.fibers, F.fibers, f)
        /\ Stands(G.fibers[f], fb.pc, fb.stack, wait, fb.epoch)
    BY ParkFrame, <1>1, ZenonT(30) DEF Runs, Tidy, Typed
  <1> HIDE DEF G
  <1>3. Steady(G.fibers[f], F.fibers)
    BY <1>1, <1>2, PlainSteady
  <1>4. Status(G.inst) /\ SameStore(F, G) /\ Records(G.records)
    BY <1>2 DEF Runs, Tidy, Typed, SameLedgers
  <1>5. Tidy(G)
    BY <1>1, <1>2, <1>3, <1>4, TidyFiber DEF Runs
  <1> QED
    BY <1>2, <1>5 DEF G

(* The incident of any fibre that is not parked at a barrier or a race.    *)
LEMMA TidyRaise ==
    ASSUME NEW F, Tidy(F), NEW f \in DOMAIN F.fibers,
           F.fibers[f].wait.kind \notin {"Barrier", "Race"}
    PROVE  Tidy(RaiseIncident(F, f)) /\ RaiseIncident(F, f).stop
  <1> DEFINE G == RaiseIncident(F, f)
             fb == F.fibers[f]
             w == Waiting("Incident", <<f>>)
  <1>1. /\ fb.stack \in Seq(Ids) /\ fb.epoch \in Nat /\ Kept(fb.stack, F.fibers)
        /\ f \in Ids
    <2>1. TypedFiber(fb) /\ Steady(fb, F.fibers) /\ f \in Ids
      BY SteadyFiber DEF Fibers, Tidy, Typed
    <2>2. EffectiveStack(fb) = fb.stack
      BY DEF EffectiveStack
    <2> QED
      BY <2>1, <2>2 DEF TypedFiber, Steady
  <1>2. /\ Formed(G) /\ SameStore(F, G) /\ G.records = F.records /\ G.stop = TRUE
        /\ G.inst = [F.inst EXCEPT !.state = "Incidented", !.incident = f]
        /\ Others(G.fibers, F.fibers, f)
        /\ Stands(G.fibers[f], fb.pc, fb.stack, w, fb.epoch)
    BY RaiseFrame, <1>1, ZenonT(30) DEF Tidy, Typed
  <1> HIDE DEF G
  <1>3. Steady(G.fibers[f], F.fibers)
    <2>1. w.kind \in WaitKinds \ {"Barrier", "Race"}
      BY DEF w, Waiting, WaitKinds
    <2> QED
      BY <1>1, <1>2, <2>1, PlainSteady
  <1>4. Status(G.inst)
    <2>1. F.inst = [x \in InstFields |-> F.inst[x]] /\ Status(F.inst)
      BY DEF Tidy, Typed, Formed
    <2> QED
      BY <1>1, <1>2, <2>1 DEF Status, InstFields, Ids
  <1>5. Records(G.records)
    BY <1>2 DEF Tidy, Typed
  <1>6. Tidy(G)
    BY <1>2, <1>3, <1>4, <1>5, TidyFiber
  <1> QED
    BY <1>2, <1>6 DEF G

(* Rows change, fibres and records do not.                                 *)
LEMMA TidyRows ==
    ASSUME NEW F, Tidy(F), NEW G, Formed(G), SameControl(F, G), SameStatus(F, G),
           JobRows(G.jobs, G.dead, G.dedupe), TimerRows(G.timers),
           EffectRows(G.effects), BufferRows(G.buffer)
    PROVE  Tidy(G)
  BY DEF Tidy, Typed, SameControl, SameStatus, Status

LEMMA StillRuns ==
    ASSUME NEW F, NEW f, Runs(F, f), NEW G, Tidy(G), SameControl(F, G)
    PROVE  Runs(G, f)
  BY DEF Runs, SameControl

LEMMA RunsCompletion ==
    ASSUME NEW F, NEW f, Runs(F, f), NEW c PROVE Runs(ApplyCompletion(F, c), f)
  <1> DEFINE G == ApplyCompletion(F, c)
  <1>1. Formed(G) /\ SameStatus(F, G) /\ SameStore(F, G) /\ SameControl(F, G)
    BY CompletionFrame DEF Runs, Tidy, Typed
  <1> HIDE DEF G
  <1>2. Tidy(G)
    BY <1>1, TidyRows DEF Runs, Tidy, Typed, SameStore
  <1> QED
    BY <1>1, <1>2, StillRuns DEF G

LEMMA TidyBind ==
    ASSUME NEW F, Tidy(F), NEW v
    PROVE  LET G == [F EXCEPT !.inst.placeholders = v]
           IN  Tidy(G) /\ SameControl(F, G) /\ SameTick(F, G)
  <1> DEFINE G == [F EXCEPT !.inst.placeholders = v]
  <1>1. /\ Formed(G) /\ SameStatus(F, G) /\ SameStore(F, G) /\ SameControl(F, G)
        /\ SameTick(F, G)
    BY BindFrame DEF Tidy, Typed
  <1> HIDE DEF G
  <1>2. Tidy(G)
    BY <1>1, TidyRows DEF Tidy, Typed, SameStore
  <1> QED
    BY <1>1, <1>2 DEF G

LEMMA TidyJobs ==
    ASSUME NEW F, Tidy(F), NEW v, JobRows(v, F.dead, F.dedupe)
    PROVE  LET G == [F EXCEPT !.jobs = v]
           IN  Tidy(G) /\ SameControl(F, G) /\ v = G.jobs /\ SameButJobs(F, G)
  <1> DEFINE G == [F EXCEPT !.jobs = v]
  <1>1. Formed(G) /\ SameButJobs(F, G) /\ SameControl(F, G) /\ v = G.jobs
    BY SetJobs DEF Tidy, Typed
  <1> HIDE DEF G
  <1>2. Tidy(G)
    BY <1>1, TidyRows DEF Tidy, Typed, SameButJobs, SameStatus
  <1> QED
    BY <1>1, <1>2 DEF G

LEMMA RunsEnqueue ==
    ASSUME NEW F, NEW f, Runs(F, f), NEW k \in Keys PROVE Runs(Enqueue(F, k), f)
  <1> DEFINE v == Put(F.jobs, k, F.inst.payload)
             G == [F EXCEPT !.jobs = v]
  <1>1. JobRows(v, F.dead, F.dedupe)
    <2>1. DOMAIN v = DOMAIN F.jobs \cup {k}
      BY PutIs, ZenonT(30)
    <2> HIDE DEF v
    <2> QED
      BY <2>1 DEF Runs, Tidy, Typed, JobRows
  <1>2. Tidy(G) /\ SameControl(F, G)
    <2> HIDE DEF v
    <2> QED
      BY <1>1, TidyJobs DEF Runs
  <1>3. Enqueue(F, k) \in {F, G}
    BY DEF Enqueue
  <1> HIDE DEF G
  <1>4. Runs(G, f)
    BY <1>2, StillRuns
  <1> QED
    BY <1>3, <1>4
=============================================================================
