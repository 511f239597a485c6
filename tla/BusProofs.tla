----------------------------- MODULE BusProofs -----------------------------
(***************************************************************************)
(* The bus implements the callout for any calls, processes, verbs and      *)
(* number of failures.  The inductive invariant adds to the properties     *)
(* what each stage of a dispatch knows: a dispatch that carries an         *)
(* execution of the receiver was preceded by a run of the verb, a result   *)
(* on its way names an execution, and a claim is in force only on a row    *)
(* that is being dispatched.                                               *)
(***************************************************************************)
EXTENDS Bus, TLAPS

Jobs == [at : Stages, exec : Nat]

\* What dispatch j of handler h knows when the verb was carried out n times.
Fits(h, j, n) ==
  /\ j.at \in {"run", "record"} => Endpoint(h[1]) = "invocation"
  /\ j.at \in {"advance", "settle", "receive"} => Endpoint(h[1]) = "result"
  /\ j.at = "loaded" => h[1] \in Senders
  /\ j.at \in {"record", "ok", "loaded"} /\ Endpoint(h[1]) = "invocation" => j.exec > 0 /\ n > 0
  /\ j.at \in {"lookup", "advance", "settle", "receive"} /\ Endpoint(h[1]) = "result" => j.exec > 0

JInv == \A h \in Handlers : Fits(h, job[h], runs[h[2]])

LInv == \A r \in Rows : row[r].lease => row[r].status = "dispatching"

EInv == \A k \in Calls : /\ inbox[<<"invocation", k>>] # 0 => runs[k] > 0
                         /\ pend[k].exec # 0 => runs[k] > 0

Inv == TypeOK /\ JInv /\ LInv /\ EInv /\ ReceiptHasResult /\ AckIsAtomic

\* The endpoint a process or a detached handler works on.
LEMMA EndpointFacts ==
  /\ \A p \in Procs \cup Endpoints : Endpoint(p) \in Endpoints /\ Endpoint(Endpoint(p)) = Endpoint(p)
  /\ \A p \in Senders : Endpoint(p) = "invocation"
  /\ \A p \in Returners : Endpoint(p) = "result"
BY ProcsAssumption DEF Endpoint, Endpoints, Procs

LEMMA HandlerFacts ==
  /\ \A h \in Handlers : h[1] \in Procs \cup Endpoints /\ h[2] \in Calls /\ h = <<h[1], h[2]>>
  /\ \A p \in Procs, k \in Calls : <<p, k>> \in Handlers
  /\ \A r \in Rows : r[1] \in Endpoints /\ r[2] \in Calls /\ r = <<r[1], r[2]>>
  /\ \A e \in Endpoints, k \in Calls : <<e, k>> \in Rows /\ <<e, k>> \in Handlers
BY DEF Handlers, Rows

LEMMA InitInv == Init => Inv
<1> SUFFICES ASSUME Init PROVE Inv
  OBVIOUS
<1> DEFINE absent == [Pending(0, "none") EXCEPT !.status = "absent"]
<1>1. /\ Pending(0, "none") \in RowRecords /\ absent \in RowRecords
      /\ Pending(0, "none").lease = FALSE /\ absent.lease = FALSE
      /\ Pending(0, "none").exec = 0 /\ absent.exec = 0
      /\ Pending(0, "none").status = "pending" /\ absent.status = "absent"
  BY DEF Pending, RowRecords, Statuses
<1> HIDE DEF absent
<1>2. PICK made \in Made :
        row = [r \in Rows |-> IF r[1] = "invocation" /\ r[2] \in made THEN Pending(0, "none")
                              ELSE absent]
  BY DEF Init, absent
<1>3. TypeOK
  BY <1>1, <1>2 DEF Init, TypeOK, NoJob, Stages, Tasks, Waits
<1>4. JInv
  BY DEF JInv, Fits, Init, NoJob
<1>5. LInv
  BY <1>1, <1>2 DEF LInv
<1>6. EInv
  BY HandlerFacts DEF EInv, Init, Endpoints
<1>7. ReceiptHasResult
  BY <1>1, <1>2, HandlerFacts DEF ReceiptHasResult, Init, Endpoints
<1>8. AckIsAtomic
  BY <1>1, <1>2, HandlerFacts DEF AckIsAtomic, Found, Init, Endpoints
<1> QED BY <1>3, <1>4, <1>5, <1>6, <1>7, <1>8 DEF Inv

\* A step that replaces one dispatch and never lowers a run count.
LEMMA JobStep ==
  ASSUME JInv, job \in [Handlers -> Jobs], NEW h \in Handlers, NEW j \in Jobs,
         job' = [job EXCEPT ![h] = j],
         \A k \in Calls : runs[k] > 0 => runs'[k] > 0,
         Fits(h, j, runs'[h[2]])
  PROVE  job' \in [Handlers -> Jobs] /\ JInv'
<1>1. job' \in [Handlers -> Jobs]
  OBVIOUS
<1>2. ASSUME NEW g \in Handlers PROVE Fits(g, job'[g], runs'[g[2]])
  <2>1. CASE g = h
    BY <2>1
  <2>2. CASE g # h
    BY <2>2, HandlerFacts DEF JInv, Fits
  <2> QED BY <2>1, <2>2
<1> QED BY <1>1, <1>2 DEF JInv, Fits, Endpoint

\* An answer fits whoever gets it.
LEMMA AnswerStep ==
  ASSUME Inv, NEW h \in Handlers, NEW at \in {"ok", "error"}, NEW exec \in Nat,
         Answer(h, at, exec), UNCHANGED runs,
         at = "ok" /\ Endpoint(h[1]) = "invocation" => exec > 0 /\ runs[h[2]] > 0
  PROVE  job' \in [Handlers -> Jobs] /\ JInv'
<1> DEFINE j == IF h[1] \in Procs THEN [at |-> at, exec |-> exec] ELSE NoJob
<1>1. j \in Jobs /\ Fits(h, j, runs[h[2]])
  BY DEF Jobs, Stages, NoJob, Fits
<1>2. job' = [job EXCEPT ![h] = j]
  BY DEF Answer
<1> HIDE DEF j
<1> QED BY <1>1, <1>2, JobStep DEF Inv, TypeOK, Jobs

\* A step that leaves the tables alone.
LEMMA SameTables ==
  ASSUME Inv, UNCHANGED <<row, pend, inbox, runs>>,
         job' \in [Handlers -> Jobs], JInv',
         inst' \in [Calls -> Waits], sender' \in [Procs -> Tasks], faults' \in Nat
  PROVE  Inv'
BY DEF Inv, TypeOK, Jobs, LInv, EInv, ReceiptHasResult, AckIsAtomic, Found

\* A step that changes one row, neither its execution nor whether it is there
\* or submitted.
LEMMA RowStep ==
  ASSUME Inv, NEW r \in Rows, NEW w \in RowRecords,
         row' = [row EXCEPT ![r] = w], UNCHANGED <<pend, inbox, runs>>,
         w.exec = row[r].exec, w.lease => w.status = "dispatching",
         row[r].status # "absent", w.status # "absent",
         r[1] = "invocation" => row[r].status # "submitted" /\ w.status # "submitted",
         job' \in [Handlers -> Jobs], JInv',
         inst' \in [Calls -> Waits], sender' \in [Procs -> Tasks], faults' \in Nat
  PROVE  Inv'
<1>1. row' \in [Rows -> RowRecords] /\ row'[r] = w /\ \A q \in Rows : q # r => row'[q] = row[q]
  BY DEF Inv, TypeOK
<1>2. TypeOK'
  BY <1>1 DEF Inv, TypeOK, Jobs
<1>3. LInv' /\ EInv'
  BY <1>1 DEF Inv, LInv, EInv
<1>4. ASSUME NEW q \in Rows
      PROVE  /\ row'[q].exec = row[q].exec
             /\ row'[q].status # "absent" <=> row[q].status # "absent"
             /\ q[1] = "invocation" =>
                  (row'[q].status = "submitted" <=> row[q].status = "submitted")
  BY <1>1
<1>5. ReceiptHasResult'
  BY <1>4, HandlerFacts DEF Inv, ReceiptHasResult, Endpoints
<1>6. AckIsAtomic'
  BY <1>4, HandlerFacts DEF Inv, AckIsAtomic, Found, Endpoints
<1> QED BY <1>2, <1>3, <1>5, <1>6, JInv' DEF Inv

LEMMA ListTenantsInv ==
  ASSUME Inv, NEW p \in Procs, ListTenants(p)
  PROVE  Inv'
<1>1. sender' \in [Procs -> Tasks]
  BY DEF Inv, TypeOK, ListTenants, Tasks
<1>2. job' \in [Handlers -> Jobs] /\ JInv'
  BY DEF Inv, TypeOK, Jobs, ListTenants, JInv, Fits, Endpoint
<1> QED BY <1>1, <1>2, SameTables DEF Inv, TypeOK, ListTenants

LEMMA BatchDoneInv ==
  ASSUME Inv, NEW p \in Procs, BatchDone(p)
  PROVE  Inv'
<1>1. sender' \in [Procs -> Tasks]
  BY DEF Inv, TypeOK, BatchDone, Tasks
<1>2. job' \in [Handlers -> Jobs] /\ JInv'
  BY DEF Inv, TypeOK, Jobs, BatchDone, JInv, Fits, Endpoint
<1> QED BY <1>1, <1>2, SameTables DEF Inv, TypeOK, BatchDone

LEMMA RestartInv ==
  ASSUME Inv, NEW p \in Procs, Restart(p)
  PROVE  Inv'
<1>1. sender' \in [Procs -> Tasks]
  BY DEF Inv, TypeOK, Restart, Tasks
<1>2. job' \in [Handlers -> Jobs] /\ JInv'
  BY DEF Inv, TypeOK, Jobs, Restart, JInv, Fits, Endpoint
<1> QED BY <1>1, <1>2, SameTables DEF Inv, TypeOK, Restart

\* A batch takes rows that are there and not submitted.
LEMMA DrainInv ==
  ASSUME Inv, NEW p \in Procs, Drain(p)
  PROVE  Inv'
<1> DEFINE e == Endpoint(p)
           leased(r) == [row[r] EXCEPT !.status = "dispatching", !.holder = p, !.lease = TRUE]
<1>1. PICK batch \in {ClaimBatch(p)} :
      /\ row' = [r \in Rows |-> IF r[1] = e /\ r[2] \in batch THEN leased(r) ELSE row[r]]
      /\ job' = [h \in Handlers |-> IF h[1] = p /\ h[2] \in batch
                    THEN [at |-> "lookup", exec |-> row[<<e, h[2]>>].exec] ELSE job[h]]
      /\ sender' = [sender EXCEPT ![p] =
                      [at |-> IF batch = {} THEN "idle" ELSE "busy", failed |-> FALSE]]
      /\ UNCHANGED <<pend, inst, inbox, runs, faults>>
  BY Zenon DEF Drain
<1>2. e \in Endpoints /\ \A k \in batch : /\ k \in Calls /\ <<e, k>> \in Rows
                                          /\ row[<<e, k>>].status \in {"pending", "dispatching"}
  BY EndpointFacts, HandlerFacts DEF ClaimBatch, Claimable
<1>3. ASSUME NEW r \in Rows
      PROVE  /\ leased(r) \in RowRecords /\ leased(r).exec = row[r].exec
             /\ leased(r).status = "dispatching"
  <2>1. row[r] \in RowRecords
    BY <1>3 DEF Inv, TypeOK
  <2>2. p \in Procs \cup {"nobody"} /\ "dispatching" \in Statuses
    BY DEF Statuses
  <2> QED
    BY <2>1, <2>2, ZenonT(30) DEF RowRecords
<1> HIDE DEF e, leased
<1>4. ASSUME NEW r \in Rows
      PROVE  /\ row'[r] \in RowRecords /\ row'[r].exec = row[r].exec
             /\ row'[r].lease => row'[r].status = "dispatching"
             /\ row'[r].status # "absent" <=> row[r].status # "absent"
             /\ row'[r].status = "submitted" <=> row[r].status = "submitted"
  <2>1. CASE r[1] = e /\ r[2] \in batch
    <3>1. row'[r] = leased(r) /\ r = <<e, r[2]>>
      BY <1>1, <2>1, HandlerFacts
    <3> QED BY <1>2, <1>3, <2>1, <3>1
  <2>2. CASE ~(r[1] = e /\ r[2] \in batch)
    BY <1>1, <2>2 DEF Inv, TypeOK, LInv
  <2> QED BY <2>1, <2>2
<1>5. sender' \in [Procs -> Tasks]
  BY <1>1 DEF Inv, TypeOK, Tasks
<1>6. ASSUME NEW h \in Handlers
      PROVE  job'[h] \in Jobs /\ Fits(h, job'[h], runs[h[2]])
  <2>1. CASE h[1] = p /\ h[2] \in batch
    <3>1. job'[h] = [at |-> "lookup", exec |-> row[<<e, h[2]>>].exec] /\ row[<<e, h[2]>>].exec \in Nat
      BY <1>1, <1>2, <2>1 DEF Inv, TypeOK, RowRecords
    <3>2. e = "result" => row[<<e, h[2]>>].exec > 0
      <4>1. h[2] \in Calls /\ row[<<e, h[2]>>].status # "absent"
        BY <1>2, <2>1
      <4>2. e = "result" => row[<<e, h[2]>>].exec # 0
        BY <4>1 DEF Inv, ReceiptHasResult
      <4> QED BY <3>1, <4>2
    <3>3. Endpoint(h[1]) = e
      BY <2>1 DEF e
    <3> QED BY <3>1, <3>2, <3>3 DEF Jobs, Stages, Remote, Fits
  <2>2. CASE ~(h[1] = p /\ h[2] \in batch)
    BY <1>1, <2>2 DEF Inv, TypeOK, Jobs, JInv
  <2> QED BY <2>1, <2>2
<1>7. TypeOK'
  BY <1>1, <1>4, <1>5, <1>6 DEF Inv, TypeOK, Jobs
<1>8. JInv' /\ LInv' /\ EInv'
  BY <1>1, <1>4, <1>6 DEF Inv, JInv, LInv, EInv, Fits, Endpoint
<1>9. ReceiptHasResult' /\ AckIsAtomic'
  BY <1>1, <1>4, HandlerFacts DEF Inv, ReceiptHasResult, AckIsAtomic, Found, Endpoints
<1> QED BY <1>7, <1>8, <1>9 DEF Inv

LEMMA LookupInv ==
  ASSUME Inv, NEW h \in Handlers, Lookup(h)
  PROVE  Inv'
<1> DEFINE r == <<Endpoint(h[1]), h[2]>>
<1>1. /\ job[h].at = "lookup" /\ UNCHANGED <<row, pend, inst, inbox, runs, sender, faults>>
      /\ r \in Rows /\ inbox[r] \in Nat /\ h[2] \in Calls /\ Endpoint(h[1]) \in Endpoints
  BY EndpointFacts, HandlerFacts DEF Lookup, Inv, TypeOK
<1>2. \/ inbox[r] # 0 /\ Answer(h, "ok", inbox[r])
      \/ inbox[r] = 0 /\ job' = [job EXCEPT ![h].at = IF r[1] = "invocation" THEN "run" ELSE "advance"]
  BY DEF Lookup
<1>3. job' \in [Handlers -> Jobs] /\ JInv'
  <2>1. CASE inbox[r] # 0 /\ Answer(h, "ok", inbox[r])
    <3>1. Endpoint(h[1]) = "invocation" => inbox[r] > 0 /\ runs[h[2]] > 0
      BY <1>1, <2>1 DEF Inv, EInv
    <3> QED BY <1>1, <2>1, <3>1, AnswerStep
  <2>2. CASE job' = [job EXCEPT ![h].at = IF r[1] = "invocation" THEN "run" ELSE "advance"]
    <3> DEFINE at == IF Endpoint(h[1]) = "invocation" THEN "run" ELSE "advance"
               j == [job[h] EXCEPT !.at = at]
    <3>1. job[h] \in Jobs /\ Fits(h, job[h], runs[h[2]])
      BY DEF Inv, TypeOK, Jobs, JInv
    <3>2. /\ at \in {"run", "advance"} /\ Endpoint(h[1]) \in {"invocation", "result"}
          /\ at = "run" => Endpoint(h[1]) = "invocation"
          /\ at = "advance" => Endpoint(h[1]) = "result"
      BY <1>1 DEF Endpoints
    <3>3. job' = [job EXCEPT ![h] = j]
      BY <2>2
    <3> HIDE DEF at
    <3>4. j \in Jobs /\ j.at = at /\ j.exec = job[h].exec
      BY <3>1, <3>2 DEF Jobs, Stages, Remote
    <3> HIDE DEF j
    <3>5. Fits(h, j, runs[h[2]])
      BY <1>1, <3>1, <3>2, <3>4 DEF Fits
    <3> QED BY <1>1, <3>3, <3>4, <3>5, JobStep DEF Inv, TypeOK, Jobs
  <2> QED BY <1>2, <2>1, <2>2
<1> QED BY <1>1, <1>3, SameTables DEF Inv, TypeOK

LEMMA RunInv ==
  ASSUME Inv, NEW h \in Handlers, Run(h)
  PROVE  Inv'
<1>1. /\ job[h].at = "run" /\ UNCHANGED <<row, pend, inst, inbox, sender, faults>>
      /\ h[2] \in Calls /\ runs \in [Calls -> Nat] /\ Endpoint(h[1]) = "invocation"
  BY HandlerFacts DEF Run, Inv, TypeOK, JInv, Fits
<1>2. CASE Answer(h, "error", 0) /\ UNCHANGED runs
  <2>1. job' \in [Handlers -> Jobs] /\ JInv'
    BY <1>2, AnswerStep
  <2> QED BY <1>1, <1>2, <2>1, SameTables DEF Inv, TypeOK
<1>3. CASE /\ runs' = [runs EXCEPT ![h[2]] = RunCount(h[2])]
           /\ job' = [job EXCEPT ![h] = [at |-> "record", exec |-> RunCount(h[2])]]
  <2> DEFINE n == RunCount(h[2])
             j == [at |-> "record", exec |-> n]
  <2>1. n \in Nat /\ n > 0
    BY <1>1 DEF RunCount
  <2> HIDE DEF n
  <2>2. runs' \in [Calls -> Nat] /\ runs'[h[2]] = n /\ \A k \in Calls : runs[k] > 0 => runs'[k] > 0
    BY <1>1, <1>3, <2>1 DEF n
  <2>3. j \in Jobs /\ Fits(h, j, runs'[h[2]]) /\ job' = [job EXCEPT ![h] = j]
    BY <1>1, <1>3, <2>1, <2>2 DEF Jobs, Stages, Remote, Fits, n
  <2> HIDE DEF j
  <2>4. job' \in [Handlers -> Jobs] /\ JInv'
    BY <2>2, <2>3, JobStep DEF Inv, TypeOK, Jobs
  <2> QED BY <1>1, <2>2, <2>4
          DEF Inv, TypeOK, Jobs, LInv, EInv, ReceiptHasResult, AckIsAtomic, Found
<1> QED BY <1>2, <1>3 DEF Run

\* Receipt and result row appear together, or both were there.
LEMMA RecordInv ==
  ASSUME Inv, NEW h \in Handlers, Record(h)
  PROVE  Inv'
<1> DEFINE k == h[2]
           x == job[h].exec
           i == <<"invocation", k>>
           r == <<"result", k>>
<1>1. /\ UNCHANGED <<pend, inst, runs, sender, faults>> /\ Answer(h, "ok", x)
      /\ k \in Calls /\ i \in Rows /\ r \in Rows /\ i # r /\ x \in Nat /\ x > 0 /\ runs[k] > 0
      /\ inbox' = InsertInbox(i, x)
  BY HandlerFacts DEF Record, Inv, TypeOK, JInv, Fits, Endpoints
<1>2. PICK says \in Outcome[k] \ {"reject"} : row' = InsertOutbox(r, x, says)
  BY DEF Record
<1>3. says \in Outcomes
  BY <1>1, <1>2, OutcomeAssumption
<1>4. job' \in [Handlers -> Jobs] /\ JInv'
  BY <1>1, AnswerStep
<1> DEFINE w == Pending(x, says)
<1>5. w \in RowRecords /\ w.exec = x /\ w.lease = FALSE /\ w.status = "pending"
  BY <1>1, <1>3 DEF Pending, RowRecords, Statuses
<1> HIDE DEF k, x, i, r, w
<1>6. CASE inbox[i] = 0
  <2>1. row[r].status = "absent"
    BY <1>1, <1>6 DEF Inv, ReceiptHasResult, i, r
  <2>2. inbox' = [inbox EXCEPT ![i] = x] /\ row' = [row EXCEPT ![r] = w]
    BY <1>1, <1>2, <1>6, <2>1 DEF InsertInbox, InsertOutbox, w
  <2>3. /\ row' \in [Rows -> RowRecords] /\ row'[r] = w /\ \A q \in Rows : q # r => row'[q] = row[q]
        /\ inbox' \in [Rows -> Nat] /\ inbox'[i] = x /\ \A q \in Rows : q # i => inbox'[q] = inbox[q]
    BY <1>1, <1>5, <2>2 DEF Inv, TypeOK
  <2>4. TypeOK'
    BY <1>1, <1>4, <2>3 DEF Inv, TypeOK, Jobs
  <2>5. LInv'
    BY <1>5, <2>3 DEF Inv, LInv
  <2>6. EInv'
    BY <1>1, <2>3, HandlerFacts DEF Inv, EInv, i, Endpoints
  <2>7. ReceiptHasResult'
    <3> SUFFICES ASSUME NEW c \in Calls
                 PROVE  /\ inbox'[<<"invocation", c>>] # 0 <=> row'[<<"result", c>>].status # "absent"
                        /\ inbox'[<<"invocation", c>>] = row'[<<"result", c>>].exec
      BY DEF ReceiptHasResult
    <3>1. CASE c = k
      BY <1>1, <1>5, <2>3, <3>1 DEF i, r
    <3>2. CASE c # k
      <4>1. <<"invocation", c>> \in Rows /\ <<"invocation", c>> # i
            /\ <<"result", c>> \in Rows /\ <<"result", c>> # r
        BY <3>2, HandlerFacts DEF i, r, Endpoints
      <4> QED BY <2>3, <4>1 DEF Inv, ReceiptHasResult
    <3> QED BY <3>1, <3>2
  <2>8. AckIsAtomic'
    <3>1. \A c \in Calls : row'[<<"invocation", c>>] = row[<<"invocation", c>>]
      BY <2>3, HandlerFacts DEF r, Endpoints
    <3> QED BY <1>1, <3>1 DEF Inv, AckIsAtomic, Found
  <2> QED BY <1>4, <2>4, <2>5, <2>6, <2>7, <2>8 DEF Inv
<1>7. CASE inbox[i] # 0
  <2>1. UNCHANGED <<row, inbox>>
    BY <1>1, <1>2, <1>7 DEF Inv, ReceiptHasResult, InsertInbox, InsertOutbox, i, r
  <2> QED BY <1>1, <1>4, <2>1, SameTables DEF Inv, TypeOK
<1> QED BY <1>6, <1>7

\* A dispatch that moves from one stage to the next and keeps its execution.
LEMMA MoveStep ==
  ASSUME Inv, NEW h \in Handlers, NEW at \in Stages,
         job' = [job EXCEPT ![h].at = at], UNCHANGED runs,
         Fits(h, [at |-> at, exec |-> job[h].exec], runs[h[2]])
  PROVE  job' \in [Handlers -> Jobs] /\ JInv'
<1> DEFINE j == [at |-> at, exec |-> job[h].exec]
<1>1. job[h] \in Jobs /\ job \in [Handlers -> Jobs]
  BY DEF Inv, TypeOK, Jobs
<1>2. [job[h] EXCEPT !.at = at] = j /\ j \in Jobs
  BY <1>1 DEF Jobs
<1>3. job' = [job EXCEPT ![h] = j]
  BY <1>1, <1>2
<1> HIDE DEF j
<1>4. Fits(h, j, runs'[h[2]])
  BY DEF j
<1> QED BY <1>1, <1>2, <1>3, <1>4, JobStep DEF Inv

LEMMA AdvanceInv ==
  ASSUME Inv, NEW h \in Handlers, Advance(h)
  PROVE  Inv'
<1> DEFINE at == IF Found(h[2], job[h].exec) THEN "settle" ELSE "receive"
<1>1. /\ job[h].at = "advance" /\ job' = [job EXCEPT ![h].at = at]
      /\ UNCHANGED <<row, pend, inst, inbox, runs, sender, faults>>
  BY DEF Advance
<1>2. at \in {"settle", "receive"}
  OBVIOUS
<1> HIDE DEF at
<1>3. Fits(h, job[h], runs[h[2]])
  BY DEF Inv, JInv
<1>4. at \in Stages /\ Fits(h, [at |-> at, exec |-> job[h].exec], runs[h[2]])
  BY <1>1, <1>2, <1>3 DEF Stages, Remote, Fits
<1>5. job' \in [Handlers -> Jobs] /\ JInv'
  BY <1>1, <1>4, MoveStep
<1> QED BY <1>1, <1>5, SameTables DEF Inv, TypeOK

\* Taking the pending row leaves its execution in place, which is not zero.
LEMMA AdvanceCommitInv ==
  ASSUME Inv, NEW h \in Handlers, AdvanceCommit(h)
  PROVE  Inv'
<1> DEFINE k == h[2]
<1>1. /\ job[h].at = "settle" /\ UNCHANGED <<row, inbox, runs, sender, faults>> /\ k \in Calls
      /\ Endpoint(h[1]) = "result" /\ job[h].exec > 0
  BY HandlerFacts DEF AdvanceCommit, Inv, JInv, Fits
<1>2. Fits(h, [at |-> "receive", exec |-> job[h].exec], runs[h[2]])
  BY <1>1 DEF Fits
<1>3. CASE Answer(h, "error", 0) /\ UNCHANGED <<pend, inst>>
  <2>1. job' \in [Handlers -> Jobs] /\ JInv'
    BY <1>1, <1>3, AnswerStep
  <2> QED BY <1>1, <1>3, <2>1, SameTables DEF Inv, TypeOK
<1>4. CASE job' = [job EXCEPT ![h].at = "receive"] /\ UNCHANGED <<pend, inst>>
  <2>1. job' \in [Handlers -> Jobs] /\ JInv'
    BY <1>1, <1>2, <1>4, MoveStep DEF Stages, Remote
  <2> QED BY <1>1, <1>4, <2>1, SameTables DEF Inv, TypeOK
<1>5. CASE /\ Found(k, job[h].exec)
           /\ pend' = TakePending(k)
           /\ inst' = [inst EXCEPT ![k] = "failed"]
           /\ job' = [job EXCEPT ![h].at = "receive"]
  <2>1. job' \in [Handlers -> Jobs] /\ JInv'
    BY <1>1, <1>2, <1>5, MoveStep DEF Stages, Remote
  <2>2. inst' \in [Calls -> Waits]
    BY <1>5 DEF Inv, TypeOK, Waits
  <2>3. pend' = [pend EXCEPT ![k].open = FALSE] /\ pend[k].exec # 0
    BY <1>1, <1>5 DEF TakePending, Found, Inv, TypeOK
  <2>4. pend' \in [Calls -> [open : BOOLEAN, exec : Nat]]
    BY <1>1, <2>3 DEF Inv, TypeOK
  <2>5. \A c \in Calls : pend'[c].exec = pend[c].exec /\ (c # k => pend'[c] = pend[c])
    BY <1>1, <2>3 DEF Inv, TypeOK
  <2>6. TypeOK'
    BY <1>1, <2>1, <2>2, <2>4 DEF Inv, TypeOK, Jobs
  <2>7. LInv' /\ EInv' /\ ReceiptHasResult'
    BY <1>1, <2>5 DEF Inv, LInv, EInv, ReceiptHasResult
  <2>8. AckIsAtomic'
    <3> SUFFICES ASSUME NEW c \in Calls
                 PROVE  Found(c, 0)' <=> Found(c, 0)
      BY <1>1, <2>5 DEF Inv, AckIsAtomic
    <3> QED BY <2>3, <2>5 DEF Found
  <2> QED BY <2>1, <2>6, <2>7, <2>8 DEF Inv
<1> QED BY <1>3, <1>4, <1>5 DEF AdvanceCommit

LEMMA ReceiveInv ==
  ASSUME Inv, NEW h \in Handlers, Receive(h)
  PROVE  Inv'
<1> DEFINE k == h[2]
           x == job[h].exec
           q == <<"result", k>>
<1>1. /\ UNCHANGED <<row, pend, inst, runs, sender, faults>> /\ Answer(h, "ok", x)
      /\ k \in Calls /\ q \in Rows /\ x \in Nat /\ Endpoint(h[1]) = "result"
      /\ inbox' = InsertInbox(q, x)
  BY HandlerFacts DEF Receive, Inv, TypeOK, JInv, Fits, Endpoints
<1>2. job' \in [Handlers -> Jobs] /\ JInv'
  BY <1>1, AnswerStep
<1> HIDE DEF x
<1>3. inbox' \in [Rows -> Nat] /\ \A c \in Calls : inbox'[<<"invocation", c>>] = inbox[<<"invocation", c>>]
  BY <1>1, HandlerFacts DEF InsertInbox, Inv, TypeOK, Endpoints
<1> QED BY <1>1, <1>2, <1>3
        DEF Inv, TypeOK, Jobs, LInv, EInv, ReceiptHasResult, AckIsAtomic, Found

\* A dispatch that ends.
LEMMA CloseStep ==
  ASSUME Inv, NEW h \in Handlers, Close(h), UNCHANGED runs
  PROVE  job' \in [Handlers -> Jobs] /\ JInv'
<1>1. NoJob \in Jobs /\ Fits(h, NoJob, runs'[h[2]])
  BY DEF NoJob, Jobs, Stages, Fits
<1>2. job' = [job EXCEPT ![h] = NoJob]
  BY DEF Close
<1> QED BY <1>1, <1>2, JobStep DEF Inv, TypeOK, Jobs

LEMMA FailedStep ==
  ASSUME Inv, NEW p \in Procs, Failed(p) \/ UNCHANGED sender
  PROVE  sender' \in [Procs -> Tasks]
BY DEF Inv, TypeOK, Failed, Tasks

\* A row that is released.
LEMMA UnleaseFacts ==
  ASSUME Inv, NEW r \in Rows, NEW status \in {"pending", "submitted"}
  PROVE  \E w \in RowRecords : /\ Unlease(r, status) = [row EXCEPT ![r] = w]
                               /\ w.status = status /\ w.lease = FALSE /\ w.exec = row[r].exec
<1> DEFINE w == [row[r] EXCEPT !.status = status, !.holder = "nobody", !.lease = FALSE,
                               !.due = (status # "pending")]
<1>1. row \in [Rows -> RowRecords] /\ row[r] \in RowRecords
  BY DEF Inv, TypeOK
<1>2. w \in RowRecords /\ w.status = status /\ w.lease = FALSE /\ w.exec = row[r].exec
  BY <1>1 DEF RowRecords, Statuses
<1>3. Unlease(r, status) = [row EXCEPT ![r] = w]
  BY <1>1 DEF Unlease
<1> HIDE DEF w
<1> QED BY <1>2, <1>3

LEMMA MarkRetryInv ==
  ASSUME Inv, NEW p \in Procs, NEW k \in Calls, MarkRetry(p, k)
  PROVE  Inv'
<1> DEFINE r == <<Endpoint(p), k>>
<1>1. UNCHANGED <<pend, inst, inbox, runs, faults>> /\ <<p, k>> \in Handlers /\ r \in Rows /\ Close(<<p, k>>)
  BY EndpointFacts, HandlerFacts DEF MarkRetry
<1>2. job' \in [Handlers -> Jobs] /\ JInv'
  BY <1>1, CloseStep
<1>3. sender' \in [Procs -> Tasks]
  BY FailedStep DEF MarkRetry
<1>4. CASE Holds(p, k) /\ row' = Unlease(r, "pending")
  <2>1. PICK w \in RowRecords : /\ Unlease(r, "pending") = [row EXCEPT ![r] = w]
                                /\ w.status = "pending" /\ w.lease = FALSE /\ w.exec = row[r].exec
    BY <1>1, UnleaseFacts
  <2>2. row[r].status = "dispatching"
    BY <1>4 DEF Holds
  <2> HIDE DEF r
  <2> QED BY <1>1, <1>2, <1>3, <1>4, <2>1, <2>2, RowStep DEF Inv, TypeOK
<1>5. CASE UNCHANGED row
  BY <1>1, <1>2, <1>3, <1>5, SameTables DEF Inv, TypeOK
<1> QED BY <1>4, <1>5 DEF MarkRetry

LEMMA MarkSubmittedInv ==
  ASSUME Inv, NEW p \in Procs, NEW k \in Calls, MarkSubmitted(p, k)
  PROVE  Inv'
<1> DEFINE r == <<"result", k>>
<1>1. /\ UNCHANGED <<pend, inst, inbox, runs, faults>> /\ <<p, k>> \in Handlers /\ r \in Rows
      /\ Close(<<p, k>>) /\ Endpoint(p) = "result"
  BY EndpointFacts, HandlerFacts DEF MarkSubmitted, Endpoints
<1>2. job' \in [Handlers -> Jobs] /\ JInv'
  BY <1>1, CloseStep
<1>3. sender' \in [Procs -> Tasks]
  BY FailedStep DEF MarkSubmitted
<1>4. CASE Holds(p, k) /\ row' = Unlease(r, "submitted")
  <2>1. PICK w \in RowRecords : /\ Unlease(r, "submitted") = [row EXCEPT ![r] = w]
                                /\ w.status = "submitted" /\ w.lease = FALSE /\ w.exec = row[r].exec
    BY <1>1, UnleaseFacts
  <2>2. row[r].status = "dispatching" /\ r[1] # "invocation"
    BY <1>1, <1>4 DEF Holds
  <2> HIDE DEF r
  <2> QED BY <1>1, <1>2, <1>3, <1>4, <2>1, <2>2, RowStep DEF Inv, TypeOK
<1>5. CASE UNCHANGED row
  BY <1>1, <1>2, <1>3, <1>5, SameTables DEF Inv, TypeOK
<1> QED BY <1>4, <1>5 DEF MarkSubmitted

LEMMA AckLoadInv ==
  ASSUME Inv, NEW p \in Procs, NEW k \in Calls, AckLoad(p, k)
  PROVE  Inv'
<1> DEFINE h == <<p, k>>
<1>1. /\ UNCHANGED <<row, pend, inst, inbox, runs, faults>> /\ h \in Handlers /\ p \in Senders
      /\ job[h].at = "ok" /\ Endpoint(p) = "invocation"
  BY EndpointFacts, HandlerFacts DEF AckLoad
<1>2. sender' \in [Procs -> Tasks]
  BY FailedStep DEF AckLoad
<1>3. job' \in [Handlers -> Jobs] /\ JInv'
  <2>1. CASE Close(h)
    BY <1>1, <2>1, CloseStep
  <2>2. CASE job' = [job EXCEPT ![h].at = "loaded"]
    <3>1. Fits(h, job[h], runs[h[2]])
      BY <1>1 DEF Inv, JInv
    <3>2. Fits(h, [at |-> "loaded", exec |-> job[h].exec], runs[h[2]])
      BY <1>1, <3>1 DEF Fits
    <3> HIDE DEF h
    <3> QED BY <1>1, <2>2, <3>2, MoveStep DEF Stages
  <2> QED BY <2>1, <2>2 DEF AckLoad
<1> QED BY <1>1, <1>2, <1>3, SameTables DEF Inv, TypeOK

\* The ack gives outbox row and pending row the same execution, not zero.
LEMMA AckCommitInv ==
  ASSUME Inv, NEW p \in Procs, NEW k \in Calls, AckCommit(p, k)
  PROVE  Inv'
<1> DEFINE h == <<p, k>>
           r == <<"invocation", k>>
           x == job[h].exec
<1>1. /\ UNCHANGED <<inbox, runs, faults>> /\ h \in Handlers /\ job[h].at = "loaded" /\ Close(h)
      /\ r \in Rows /\ x \in Nat
  BY HandlerFacts DEF AckCommit, Endpoints, Inv, TypeOK
<1>2. x > 0 /\ runs[k] > 0 /\ Endpoint(p) = "invocation"
  <2>1. Fits(h, job[h], runs[h[2]])
    BY <1>1 DEF Inv, JInv
  <2> QED BY <1>1, <2>1, EndpointFacts DEF Fits
<1>3. job' \in [Handlers -> Jobs] /\ JInv'
  BY <1>1, CloseStep
<1>4. sender' \in [Procs -> Tasks]
  BY FailedStep DEF AckCommit
<1>5. CASE /\ Holds(p, k) /\ Found(k, 0)
           /\ row' = Acked(p, k)
           /\ pend' = [pend EXCEPT ![k].exec = x]
           /\ inst' = [inst EXCEPT ![k] = "invoked"]
  <2>1. PICK w \in RowRecords : /\ Unlease(r, "submitted") = [row EXCEPT ![r] = w]
                                /\ w.status = "submitted" /\ w.lease = FALSE /\ w.exec = row[r].exec
    BY <1>1, UnleaseFacts
  <2> DEFINE v == [w EXCEPT !.exec = x]
  <2>2. v \in RowRecords /\ v.status = "submitted" /\ v.lease = FALSE /\ v.exec = x
    BY <1>1, <2>1 DEF RowRecords
  <2>3. row' = [[row EXCEPT ![r] = w] EXCEPT ![r].exec = x]
    BY <1>5, <2>1 DEF Acked
  <2> HIDE DEF x, r, h
  <2>4. row' = [row EXCEPT ![r] = v]
    BY <1>1, <2>3 DEF Inv, TypeOK
  <2> HIDE DEF v
  <2>5. /\ row' \in [Rows -> RowRecords] /\ row'[r] = v
        /\ \A q \in Rows : q # r => row'[q] = row[q]
    BY <1>1, <2>2, <2>4 DEF Inv, TypeOK
  <2>6. /\ pend' \in [Calls -> [open : BOOLEAN, exec : Nat]] /\ pend'[k].exec = x
        /\ \A c \in Calls : c # k => pend'[c] = pend[c]
    BY <1>1, <1>5 DEF Inv, TypeOK
  <2>7. inst' \in [Calls -> Waits]
    BY <1>5 DEF Inv, TypeOK, Waits
  <2>8. TypeOK'
    BY <1>1, <1>3, <1>4, <2>5, <2>6, <2>7 DEF Inv, TypeOK, Jobs
  <2>9. LInv'
    BY <2>2, <2>5 DEF Inv, LInv
  <2>10. EInv'
    BY <1>1, <1>2, <2>6 DEF Inv, EInv
  <2>11. ReceiptHasResult'
    <3>1. \A c \in Calls : row'[<<"result", c>>] = row[<<"result", c>>]
      BY <2>5, HandlerFacts DEF r, Endpoints
    <3> QED BY <1>1, <3>1 DEF Inv, ReceiptHasResult
  <2>12. AckIsAtomic'
    <3> SUFFICES ASSUME NEW c \in Calls
                 PROVE  /\ row'[<<"invocation", c>>].status = "submitted" <=> ~Found(c, 0)'
                        /\ row'[<<"invocation", c>>].exec = pend'[c].exec
      BY DEF AckIsAtomic
    <3>1. CASE c = k
      BY <1>2, <2>2, <2>5, <2>6, <3>1 DEF r, Found
    <3>2. CASE c # k
      <4>1. <<"invocation", c>> \in Rows /\ <<"invocation", c>> # r
        BY <3>2, HandlerFacts DEF r, Endpoints
      <4> QED BY <2>5, <2>6, <3>2, <4>1 DEF Inv, AckIsAtomic, Found
    <3> QED BY <3>1, <3>2
  <2> QED BY <1>3, <2>8, <2>9, <2>10, <2>11, <2>12 DEF Inv
<1>6. CASE UNCHANGED <<row, pend, inst>>
  BY <1>1, <1>3, <1>4, <1>6, SameTables DEF Inv, TypeOK
<1> QED BY <1>5, <1>6 DEF AckCommit

LEMMA BackoffInv ==
  ASSUME Inv, NEW r \in Rows, Backoff(r)
  PROVE  Inv'
<1> DEFINE w == [row[r] EXCEPT !.due = TRUE]
<1>1. /\ row[r].status = "pending" /\ row' = [row EXCEPT ![r] = w]
      /\ UNCHANGED <<pend, inst, inbox, runs, job, sender, faults>>
  BY DEF Backoff
<1>2. w \in RowRecords /\ w.exec = row[r].exec /\ w.lease = row[r].lease /\ w.status = row[r].status
  BY DEF Inv, TypeOK, RowRecords
<1>3. job' \in [Handlers -> Jobs] /\ JInv'
  BY <1>1 DEF Inv, TypeOK, Jobs, JInv, Fits, Endpoint
<1> HIDE DEF w
<1> QED BY <1>1, <1>2, <1>3, RowStep DEF Inv, TypeOK, LInv

LEMMA ClaimLapseInv ==
  ASSUME Inv, NEW r \in Rows, ClaimLapse(r), faults' \in Nat
  PROVE  Inv'
<1> DEFINE w == [row[r] EXCEPT !.lease = FALSE]
<1>1. /\ row[r].lease /\ row' = [row EXCEPT ![r] = w]
      /\ UNCHANGED <<pend, inst, inbox, runs, job, sender>>
  BY DEF ClaimLapse
<1>2. w \in RowRecords /\ w.exec = row[r].exec /\ w.lease = FALSE /\ w.status = row[r].status
  BY DEF Inv, TypeOK, RowRecords
<1>3. row[r].status = "dispatching"
  BY <1>1 DEF Inv, LInv
<1>4. job' \in [Handlers -> Jobs] /\ JInv'
  BY <1>1 DEF Inv, TypeOK, Jobs, JInv, Fits, Endpoint
<1> HIDE DEF w
<1> QED BY <1>1, <1>2, <1>3, <1>4, RowStep DEF Inv, TypeOK

\* A handler that runs on with nobody waiting knows what the dispatch knew.
LEMMA DetachStep ==
  ASSUME Inv, NEW p \in Procs, NEW dropped, NEW survivors \in SUBSET Orphaned(p),
         NEW after \in {"error", "none"}, Detach(p, dropped, survivors, after), UNCHANGED runs
  PROVE  job' \in [Handlers -> Jobs] /\ JInv'
<1>1. ASSUME NEW h \in Handlers
      PROVE  job'[h] \in Jobs /\ Fits(h, job'[h], runs[h[2]])
  <2>1. CASE h[1] = p /\ h[2] \in dropped
    <3>1. job'[h] = [at |-> after, exec |-> 0]
      BY <2>1 DEF Detach
    <3> QED BY <3>1 DEF Jobs, Stages, Fits
  <2>2. CASE ~(h[1] = p /\ h[2] \in dropped) /\ h[1] = Endpoint(p) /\ h[2] \in survivors
    <3> DEFINE g == <<p, h[2]>>
    <3>1. g \in Handlers /\ job'[h] = job[g] /\ job[g].at \in Remote /\ Endpoint(h[1]) = Endpoint(p)
      BY <2>2, EndpointFacts, HandlerFacts DEF Detach, Orphaned
    <3>2. Fits(g, job[g], runs[g[2]]) /\ job[g] \in Jobs
      BY <3>1 DEF Inv, TypeOK, Jobs, JInv
    <3> QED BY <3>1, <3>2 DEF Fits, Remote
  <2>3. CASE ~(h[1] = p /\ h[2] \in dropped) /\ ~(h[1] = Endpoint(p) /\ h[2] \in survivors)
    <3>1. job'[h] = job[h]
      BY <2>3 DEF Detach
    <3> QED BY <3>1 DEF Inv, TypeOK, Jobs, JInv
  <2> QED BY <2>1, <2>2, <2>3
<1>2. job' = [h \in Handlers |-> job'[h]]
  BY DEF Detach
<1> QED BY <1>1, <1>2 DEF JInv, Fits, Endpoint

LEMMA LoseInv ==
  ASSUME Inv, NEW p \in Procs, NEW k \in Calls, Lose(p, k)
  PROVE  Inv'
<1>1. PICK survivors \in SUBSET (Orphaned(p) \cap {k}) : Detach(p, {k}, survivors, "error")
  BY DEF Lose
<1>2. UNCHANGED <<row, pend, inst, inbox, runs, sender>> /\ faults' = faults + 1
  BY DEF Lose, Fault
<1>3. job' \in [Handlers -> Jobs] /\ JInv'
  BY <1>1, <1>2, DetachStep
<1> QED BY <1>2, <1>3, SameTables DEF Inv, TypeOK

LEMMA CrashInv ==
  ASSUME Inv, NEW p \in Procs, Crash(p)
  PROVE  Inv'
<1>1. PICK survivors \in SUBSET Orphaned(p) : Detach(p, Calls, survivors, "none")
  BY DEF Crash
<1>2. UNCHANGED <<row, pend, inst, inbox, runs>> /\ faults' = faults + 1
  BY DEF Crash, Fault
<1>3. job' \in [Handlers -> Jobs] /\ JInv'
  BY <1>1, <1>2, DetachStep
<1>4. sender' \in [Procs -> Tasks]
  BY DEF Crash, Inv, TypeOK, Tasks
<1> QED BY <1>2, <1>3, <1>4, SameTables DEF Inv, TypeOK

LEMMA FailInv ==
  ASSUME Inv, NEW h \in Handlers, Fail(h)
  PROVE  Inv'
<1>1. UNCHANGED <<row, pend, inst, inbox, runs, sender>> /\ faults' = faults + 1 /\ Answer(h, "error", 0)
  BY DEF Fail, Fault
<1>2. job' \in [Handlers -> Jobs] /\ JInv'
  BY <1>1, AnswerStep
<1> QED BY <1>1, <1>2, SameTables DEF Inv, TypeOK

LEMMA CancelInv ==
  ASSUME Inv, NEW k \in Calls, Cancel(k)
  PROVE  Inv'
<1>1. UNCHANGED <<row, pend, inbox, runs, job, sender>> /\ faults' = faults + 1
      /\ inst' = [inst EXCEPT ![k] = "cancelled"]
  BY DEF Cancel, Fault
<1>2. inst' \in [Calls -> Waits]
  BY <1>1 DEF Inv, TypeOK, Waits
<1>3. job' \in [Handlers -> Jobs] /\ JInv'
  BY <1>1 DEF Inv, TypeOK, Jobs, JInv, Fits, Endpoint
<1> QED BY <1>1, <1>2, <1>3, SameTables DEF Inv, TypeOK

LEMMA NextInv == Inv /\ [Next]_vars => Inv'
<1> SUFFICES ASSUME Inv, [Next]_vars PROVE Inv'
  OBVIOUS
<1>1. CASE \E p \in Procs : Task(p)
  BY <1>1, ListTenantsInv, DrainInv, BatchDoneInv, RestartInv, MarkRetryInv, MarkSubmittedInv,
     AckLoadInv, AckCommitInv DEF Task
<1>2. CASE \E h \in Handlers : Handle(h)
  BY <1>2, LookupInv, RunInv, RecordInv, AdvanceInv, AdvanceCommitInv, ReceiveInv DEF Handle
<1>3. CASE \E r \in Rows : Time(r)
  <2>1. faults \in Nat
    BY DEF Inv, TypeOK
  <2> QED BY <1>3, <2>1, BackoffInv, ClaimLapseInv DEF Time
<1>4. CASE Failure
  <2>1. faults + 1 \in Nat
    BY DEF Inv, TypeOK
  <2>2. \A r \in Rows : Slow(r) => Inv'
    BY <2>1, ClaimLapseInv DEF Slow, Fault
  <2> QED BY <1>4, <2>2, CrashInv, LoseInv, FailInv, CancelInv DEF Failure
<1>5. CASE UNCHANGED vars
  <2>1. job' \in [Handlers -> Jobs] /\ JInv'
    BY <1>5 DEF Inv, TypeOK, Jobs, JInv, Fits, Endpoint, vars
  <2> QED BY <1>5, <2>1, SameTables DEF Inv, TypeOK, vars
<1> QED BY <1>1, <1>2, <1>3, <1>4, <1>5 DEF Next

LEMMA Invariance == Spec => []Inv
BY InitInv, NextInv, PTL DEF Spec

\* The tables and the dispatches in progress keep their types.
THEOREM TypeCorrect == Spec => []TypeOK
<1>1. Inv => TypeOK
  BY DEF Inv
<1> QED BY <1>1, Invariance, PTL

\* The execution a repeated submission is answered with is the one whose
\* result goes back, however handlers of one key interleave (submit).
THEOREM ReceiptMatchesResult == Spec => []ReceiptHasResult
<1>1. Inv => ReceiptHasResult
  BY DEF Inv
<1> QED BY <1>1, Invariance, PTL

\* Outbox row and pending row leave their first stage together, with one
\* execution (the ack transition of StoreSubmissionAckHandler).
THEOREM AckTogether == Spec => []AckIsAtomic
<1>1. Inv => AckIsAtomic
  BY DEF Inv
<1> QED BY <1>1, Invariance, PTL

\* A step that changes one row changes no submitted one.
LEMMA OtherRowsStay ==
  ASSUME Inv, NEW r \in Rows, row[r].status # "submitted", NEW w, row' = [row EXCEPT ![r] = w]
  PROVE  SubmittedStep
BY DEF Inv, TypeOK, SubmittedStep

LEMMA SubmittedKept == Inv /\ [Next]_vars => SubmittedStep
<1> SUFFICES ASSUME Inv, [Next]_vars PROVE SubmittedStep
  OBVIOUS
<1>1. CASE UNCHANGED row
  BY <1>1 DEF SubmittedStep
<1>2. ASSUME NEW p \in Procs, Drain(p) PROVE SubmittedStep
  <2>1. PICK batch \in {ClaimBatch(p)} :
          row' = [r \in Rows |-> IF r[1] = Endpoint(p) /\ r[2] \in batch
                    THEN [row[r] EXCEPT !.status = "dispatching", !.holder = p, !.lease = TRUE]
                    ELSE row[r]]
    BY <1>2, Zenon DEF Drain
  <2>2. \A k \in batch : row[<<Endpoint(p), k>>].status # "submitted"
    BY DEF ClaimBatch, Claimable
  <2>3. \A r \in Rows : r[1] = Endpoint(p) /\ r[2] \in batch => row[r].status # "submitted"
    BY <2>2, HandlerFacts
  <2> QED BY <2>1, <2>3 DEF SubmittedStep
<1>3. ASSUME NEW h \in Handlers, Record(h) PROVE SubmittedStep
  <2> DEFINE r == <<"result", h[2]>>
  <2>1. PICK says \in Outcome[h[2]] \ {"reject"} : row' = InsertOutbox(r, job[h].exec, says)
    BY <1>3 DEF Record
  <2>2. r \in Rows
    BY HandlerFacts DEF Endpoints
  <2> HIDE DEF r
  <2> QED BY <1>1, <2>1, <2>2, OtherRowsStay DEF InsertOutbox
<1>4. ASSUME NEW p \in Procs, NEW k \in Calls, Holds(p, k), NEW status \in {"pending", "submitted"},
             row' = Unlease(<<Endpoint(p), k>>, status)
      PROVE  SubmittedStep
  <2> DEFINE r == <<Endpoint(p), k>>
  <2>1. r \in Rows /\ row[r].status = "dispatching"
    BY <1>4, EndpointFacts, HandlerFacts DEF Holds
  <2> HIDE DEF r
  <2>2. PICK w \in RowRecords : Unlease(r, status) = [row EXCEPT ![r] = w]
    BY <2>1, UnleaseFacts
  <2> QED BY <1>4, <2>1, <2>2, OtherRowsStay DEF r
<1>5. ASSUME NEW p \in Procs, NEW k \in Calls, AckCommit(p, k) PROVE SubmittedStep
  <2> DEFINE r == <<"invocation", k>>
             x == job[<<p, k>>].exec
  <2>1. CASE Holds(p, k) /\ row' = Acked(p, k)
    <3>1. <<p, k>> \in Handlers /\ Fits(<<p, k>>, job[<<p, k>>], runs[k]) /\ job[<<p, k>>].at = "loaded"
      BY <1>5, HandlerFacts DEF AckCommit, Inv, JInv
    <3>2. Endpoint(p) = "invocation"
      BY <3>1, EndpointFacts DEF Fits
    <3>3. r \in Rows /\ row[r].status = "dispatching"
      BY <2>1, <3>2, HandlerFacts DEF Holds, Endpoints
    <3>4. PICK w \in RowRecords : Unlease(r, "submitted") = [row EXCEPT ![r] = w]
      BY <3>3, UnleaseFacts
    <3>5. row' = [[row EXCEPT ![r] = w] EXCEPT ![r].exec = x]
      BY <2>1, <3>4 DEF Acked
    <3> HIDE DEF r, x
    <3>6. row' = [row EXCEPT ![r] = [w EXCEPT !.exec = x]]
      BY <3>3, <3>5 DEF Inv, TypeOK
    <3> QED BY <3>3, <3>6, OtherRowsStay
  <2> QED BY <1>1, <1>5, <2>1 DEF AckCommit
<1>6. ASSUME NEW r \in Rows, Backoff(r) PROVE SubmittedStep
  BY <1>6, OtherRowsStay DEF Backoff
<1>7. ASSUME NEW r \in Rows, ClaimLapse(r) PROVE SubmittedStep
  <2>1. row[r].status = "dispatching"
    BY <1>7 DEF ClaimLapse, Inv, LInv
  <2> QED BY <1>7, <2>1, OtherRowsStay DEF ClaimLapse
<1>8. ASSUME NEW p \in Procs, Task(p) PROVE SubmittedStep
  <2>1. ASSUME NEW k \in Calls, MarkRetry(p, k) PROVE SubmittedStep
    BY <1>1, <1>4, <2>1 DEF MarkRetry
  <2>2. ASSUME NEW k \in Calls, MarkSubmitted(p, k) PROVE SubmittedStep
    BY <1>1, <1>4, <2>2, EndpointFacts DEF MarkSubmitted
  <2>3. ASSUME ListTenants(p) \/ BatchDone(p) \/ Restart(p) \/ \E k \in Calls : AckLoad(p, k)
        PROVE  SubmittedStep
    BY <1>1, <2>3 DEF ListTenants, BatchDone, Restart, AckLoad
  <2> QED BY <1>2, <1>5, <1>8, <2>1, <2>2, <2>3 DEF Task
<1>9. ASSUME NEW h \in Handlers, Handle(h) PROVE SubmittedStep
  BY <1>1, <1>3, <1>9 DEF Handle, Lookup, Run, Advance, AdvanceCommit, Receive
<1>10. CASE Failure
  BY <1>1, <1>7, <1>10 DEF Failure, Slow, Crash, Lose, Fail, Cancel
<1> QED BY <1>1, <1>6, <1>7, <1>8, <1>9, <1>10 DEF Next, Time, vars

\* A submitted row is final, whatever a process that lost its claim still
\* tries (mark_outbox_retry, mark_outbox_submitted, the ack, the claim).
THEOREM SubmittedIsFinal == Spec => SubmittedStays
BY Invariance, SubmittedKept, PTL DEF Spec, SubmittedStays

LEMMA InitCallout == Init => C!Init
BY DEF Init, C!Init, stage

\* Only the run of a verb, the ack and the advance move a callout; each
\* is one step of it.
LEMMA StepCallout == Inv /\ [Next]_vars => [C!Next]_<<stage, runs>>
<1> SUFFICES ASSUME Inv, [Next]_vars PROVE [C!Next]_<<stage, runs>>
  OBVIOUS
<1>1. CASE UNCHANGED <<pend, runs>>
  BY <1>1 DEF stage
<1>2. ASSUME NEW h \in Handlers, Run(h) PROVE [C!Next]_<<stage, runs>>
  <2> DEFINE k == h[2]
  <2>1. k \in Calls /\ runs \in [Calls -> Nat] /\ stage' = stage
    BY <1>2, HandlerFacts DEF Run, Inv, TypeOK, stage
  <2>2. CASE runs' = [runs EXCEPT ![k] = RunCount(k)]
    <3>1. CASE k \in Once /\ runs[k] > 0
      BY <2>1, <2>2, <3>1 DEF RunCount
    <3>2. CASE ~(k \in Once /\ runs[k] > 0)
      <4> HIDE DEF k
      <4>1. k \in Once => runs[k] = 0
        BY <2>1, <3>2
      <4>2. RunCount(k) = runs[k] + 1
        BY <3>2 DEF RunCount
      <4>3. C!Run(k)
        BY <2>1, <2>2, <4>1, <4>2 DEF C!Run
      <4> QED BY <2>1, <4>3 DEF C!Next
    <3> QED BY <3>1, <3>2
  <2> QED BY <1>1, <1>2, <2>2 DEF Run
<1>3. ASSUME NEW p \in Procs, NEW k \in Calls, AckCommit(p, k) PROVE [C!Next]_<<stage, runs>>
  <2> DEFINE x == job[<<p, k>>].exec
  <2>1. CASE Found(k, 0) /\ pend' = [pend EXCEPT ![k].exec = x] /\ UNCHANGED runs
    <3>1. <<p, k>> \in Handlers /\ Fits(<<p, k>>, job[<<p, k>>], runs[k]) /\ job[<<p, k>>].at = "loaded"
      BY <1>3, HandlerFacts DEF AckCommit, Inv, JInv
    <3>2. x > 0 /\ runs[k] > 0
      BY <3>1, EndpointFacts DEF Fits
    <3> HIDE DEF x
    <3>3. /\ pend'[k].open = pend[k].open /\ pend'[k].exec = x
          /\ \A c \in Calls : c # k => pend'[c] = pend[c]
      BY <2>1 DEF Inv, TypeOK
    <3>4. stage[k] = "open" /\ stage'[k] = "accepted" /\ \A c \in Calls : c # k => stage'[c] = stage[c]
      BY <2>1, <3>2, <3>3 DEF stage, Found
    <3>5. stage' = [stage EXCEPT ![k] = "accepted"]
      BY <3>4 DEF stage
    <3>6. C!Accept(k)
      BY <2>1, <3>2, <3>4, <3>5 DEF C!Accept
    <3> QED BY <3>6 DEF C!Next
  <2> QED BY <1>1, <1>3, <2>1 DEF AckCommit
<1>4. ASSUME NEW h \in Handlers, AdvanceCommit(h) PROVE [C!Next]_<<stage, runs>>
  <2> DEFINE k == h[2]
  <2>1. CASE Found(k, job[h].exec) /\ pend' = TakePending(k) /\ UNCHANGED runs
    <3>1. k \in Calls /\ job[h].exec > 0
      BY <1>4, HandlerFacts DEF AdvanceCommit, Inv, JInv, Fits
    <3> HIDE DEF k
    <3>2. pend[k].open /\ pend[k].exec # 0
      BY <2>1, <3>1 DEF Found
    <3>3. ~pend'[k].open /\ \A c \in Calls : c # k => pend'[c] = pend[c]
      BY <2>1, <3>1 DEF TakePending, Inv, TypeOK
    <3>4. stage[k] = "accepted" /\ stage'[k] = "closed" /\ \A c \in Calls : c # k => stage'[c] = stage[c]
      BY <3>1, <3>2, <3>3 DEF stage
    <3>5. stage' = [stage EXCEPT ![k] = "closed"]
      BY <3>1, <3>4 DEF stage
    <3>6. C!Close(k)
      BY <2>1, <3>4, <3>5 DEF C!Close
    <3> QED BY <3>1, <3>6 DEF C!Next
  <2> QED BY <1>1, <1>4, <2>1 DEF AdvanceCommit
<1>5. ASSUME NEW p \in Procs, Task(p) PROVE [C!Next]_<<stage, runs>>
  <2>1. CASE \E k \in Calls : AckCommit(p, k)
    BY <1>3, <2>1
  <2> QED BY <1>1, <1>5, <2>1
          DEF Task, ListTenants, Drain, BatchDone, Restart, MarkRetry, MarkSubmitted, AckLoad
<1>6. ASSUME NEW h \in Handlers, Handle(h) PROVE [C!Next]_<<stage, runs>>
  BY <1>1, <1>2, <1>4, <1>6 DEF Handle, Lookup, Record, Advance, Receive
<1>7. CASE \E r \in Rows : Time(r)
  BY <1>1, <1>7 DEF Time, Backoff, ClaimLapse
<1>8. CASE Failure
  BY <1>1, <1>8 DEF Failure, Slow, ClaimLapse, Crash, Lose, Fail, Cancel
<1> QED BY <1>1, <1>5, <1>6, <1>7, <1>8 DEF Next, vars

\* Every behaviour of the two domains is a behaviour of the callout: the
\* pending row goes through its stages in order and after the receiver ran
\* the verb, and a deduplicated verb runs once whatever is repeated or lost.
THEOREM BusImplementsCallout == Spec => ImplementsCallout
<1>1. ImplementsCallout <=> C!Init /\ [][C!Next]_<<stage, runs>>
  BY DEF ImplementsCallout, C!Spec
<1> QED BY <1>1, Invariance, InitCallout, StepCallout, PTL DEF Spec
=============================================================================
