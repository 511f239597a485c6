# A TLA+ model of bpmn-lite's runtime

bpmn-lite compiles BPMN or its own DSL into verified bytecode and runs it on a
fibre machine. A pure kernel, `apply(workflow, snapshot, command, context)`,
computes transitions; a store commits each of them atomically under a revision
and a fence; an engine connects the two to workers, message senders, timers,
called services and operators; a bus carries calls between domains that have a
database each. This directory models that runtime, checks it with TLC on small
instances and proves its core protocols with TLAPS.

## Inventory

| Part | State | Operations | What is hard about it | Module |
|---|---|---|---|---|
| Transition store (`store_postgres.rs`, `store_memory.rs`) | revision, fence, lease, snapshot, journal, quarantine | claim, renew, commit, release | takeover while the owner computes, late release, same owner string in several tasks, dropped futures | `TransitionStore` |
| Engine command path (`engine.rs`) | in-flight set | tick, job report, signal, cancel, timer, response | claim validated before the transition, message prefetch before the tick | all |
| Kernel (`bpmn-lite-kernel`) | fibres, concurrency records, payload, flags, counters | one word per instruction, one handler per command, Ring 3 | guards interrupting parallel regions, joins, races, rollback, stale timers | `KernelWords`, `Kernel` |
| Verifier (`v2_verifier.rs`, `artifact.rs`) | none | control-stack walk, reachability, limits | what it admits must run within its stacks and limits | `Verifier` |
| Job queue | job rows, leases, retries, dedupe | enqueue, lease, expire, reclaim, complete, fail, dead-letter | late reports, exhausted leases, replay | `JobQueue` |
| Message buffer | buffered, claimed, consumed | deliver, publish, prefetch, consume, lapse | message before wait, claims left behind | `Kernel` |
| Timers | rows keyed by fibre and address | schedule, fire, rearm, cancel, claim | identities used again; competing claims | `Kernel`, `Scheduler` |
| Effects (FFI) | request and response rows | request, claim, dispatch, respond, retry, apply | crash between dispatch and record; lost races | `Kernel`, `Scheduler` |
| Durable activations, scheduler loop, recovery | ready queue, claims | enqueue, claim, consume, release, reclaim, recover | no runnable instance forgotten, whatever part of a pass fails | `Scheduler` |
| Federated bus (`dsl-bus-*`, pending invocations) | outbox, inbox, executions, pending rows | submit, handle, ack, result, advance | at-least-once delivery, lost answers, handlers that outlive their claim | `Bus` |
| Start deduplication | dedupe keys | start | one instance per key | `Bus` |

`PROJECT.json` lists these parts and the ones left out with their sources, and
the hazards at the line where each bites.

## Modules

* `TransitionStore` - one instance, several operations in flight. A task enters
  (in-process guard), claims, computes, commits, releases; its future may be
  dropped anywhere and a lease may expire at any time. `Durable` selects the
  PostgreSQL store or the in-memory one, which forgets its fence with the lease.
* `InstanceLog` - what the store promises: a log that operations append to one
  after the other and that quarantine seals. `TransitionStore` implements it
  (`LogSpec`).
* `JobQueue` - the rows, leases and retries of one instance's service tasks,
  with worker RPCs in two steps (validate the claim; then decide).
* `KernelWords` - the state of an instance and what the kernel computes from it:
  a frame (the snapshot and its ledgers, or the one that a transition is about to
  commit), an operator on frames per instruction word, `RunFiber` for a tick,
  `Ring3` for the shadow check, triggers, rollbacks, races and reminders.
* `Kernel` - the fibre machine: `Commit` for the store's verdict and an action per
  command (tick, job report, timer, response, message, operator), with the
  properties. A refused command leaves its reason in `fault`.
* `Verifier` - `verify_program` as operators over a program: word order and
  targets, the walk that assigns a control stack to every address, terminal
  reachability, the step and record limits. `Kernel` starts only what it admits
  (`Admitted`).
* `Scheduler` - the durable queues that competing processes share: due timers,
  pending calls, recorded responses and activations. A pass fires, dispatches,
  applies and ticks, in this order; an error of one part has the effect it has in
  the code. A process may crash anywhere and runs the recovery when it starts.
* `Bus` - calls from one domain to another: the sender loop over the outbox, the
  server with its inbox, the detached handler, the acknowledgement, the result on
  its way back and what it does to the caller: the pending row is taken and the
  instance fails, since nothing maps such a result to a command any more. Calls
  break and leave their handler running, rows are sent again, claims run out,
  processes crash.
* `Callout` - what the bus promises its caller: a call is open, accepted once the
  receiver ran the verb, and closed; no stage is skipped or repeated, and a verb
  that deduplicates runs once. `Bus` implements it (`ImplementsCallout`).
* `MCTransitionStore`, `MCJobQueue`, `MCKernel`, `MCScheduler`, `MCBus` -
  instances. `MCKernel` holds the programs, in the shapes that the compilers and
  the repository's tests use; an instance is started with one of `Workflows` and
  stays pinned to its code.
* `TransitionStoreProofs`, `JobQueueProofs`, `SchedulerProofs`, `BusProofs` -
  theorems about the module each is named after.
* `KernelFrames`, `KernelControl`, `KernelProofs`, `KernelSafety` - theorems about
  `Kernel` and the lemmas they rest on: what every operator does to a frame and
  how control stacks relate (`KernelFrames`), that every word keeps the control
  structure in order (`KernelControl`), that updates are not lost and ends are
  final (`KernelProofs`), and the invariants of the control structure
  (`KernelSafety`).

The modules meet as follows. `TransitionStore` shows that a transition that
commits was computed from the current state, whatever the interleaving; the other
modules therefore treat claim, apply and commit as one step. `JobQueue` looks at
leases and reports in detail and at the fibre only as parked or not, `Scheduler`
at the rows that make an instance run again and at the fibre only as runnable or
waiting; `Kernel` looks at the whole fibre machine and lets any live job, timer
or call be answered. `Kernel` runs what `Verifier` admits.

Operators whose comment starts with "Variant" are deliberate defects. They are
not used by any specification; each is named in `PROJECT.json` as the mutation
that a property must detect.

## Abstractions

`Kernel`. A record exists while it is Armed. The operand stack is folded into
the word that consumes it. Time is a choice: an armed timer or a live lease may
become due in any later step. The payload is the set of jobs, calls and messages
whose contents it holds; the input of a call is the payload it was made with, and
an answer is of one of three kinds (outputs, a document, no match). A message
name stands for the name and the resolved correlation key; a published message is
identified by fibre and address. A collection is its length. Derived identities
are the least unused numbers, or the fibre and address they are derived from.

`Verifier`. Operand heights are left out with the operands; the step bound is
therefore computed from fewer words and is the stricter one. The side tables and
the saturating arithmetic of the limits are left out.

`Scheduler`. A lease token is the process that holds it. The drains of one
process follow each other; batch limits are left out, and responses may be
applied in any order. `MaxReady` caps the ready activations, `MaxFaults` the
disturbances (crash, cancellation, quarantine, a held instance lease, a process
slower than its claim).

`Bus`. One tenant; a lease token is the process that holds it. The attempt
counter and its backoff are "due or not". The claim and the commit of an
acknowledgement or of an advance are one step, the load before them another. A
call has at most one detached handler per endpoint. An instance is "failed" for
the commit and the terminal disposition alike. Pending rows exist initially: the
engine no longer creates them and still serves them.

## Runs

| Run | Instance | Shows |
|---|---|---|
| `transition_store` | 3 tasks, 2 owners, 4 leases, 3 commits, durable fence | replayable journal, one writer, harmless late release, final quarantine, refinement of the log |
| `job_queue` | 1 routed job, 2 RPCs, 2 retries, 3 leases, fair | no ghost job, no parked fibre without a row, final completions, bounded attempts, only the claim owner resumes the fibre, every lease ends |
| `kernel` | 7 admitted workflows and 6 rejected ones, 2 messages, fair | wakers for every wait, token conservation, control stacks and limits as verified, one place for every handle, no lost update, clean and final ends, atomic scopes, one message per wait, bounded reminders, every element of a collection run, nothing refused, no hang |
| `scheduler` | 1 instance with 4 waits of 3 kinds, 2 processes, 1 fault, fair | a runnable instance is queued, a waiting one is served, a timer wakes its own wait, the first answer of a call stands, the instance settles |
| `bus` | 2 calls, each made alone, 2 calling processes and 1 called, 2 faults, fair | a receipt has its result, an acknowledgement moves both rows, submitted stays submitted, refinement of `Callout`, every call settles |

The workflows of `kernel`: `boundary` (a parallel region with a boundary timer,
an error route and an event-based choice), `nested` (an interrupting guard
around a parallel region; cancel, terminate, trigger), `retry` (a bounded retry
loop, then two branches waiting for messages), `scope` (a rollback scope with
contract violations, resolved incidents and a routed DSL task), `cycle` (a
non-interrupting guard with three reminders, every path of which ends in
EndTerminate: a guard that is closed after it fired is the subject of
`kernel_reminder`), `calls` (a call with a boundary, a call that races a timer,
and a message the process publishes and receives), `inclusive` (an inclusive
gateway one branch of which is a multi-instance task over a collection of up to
its declared maximum of two). Beside them stand six candidates that break one
rule of the verifier each and are not started. `StacksAsVerified` and
`WithinLimits` are the verifier's soundness: at every address a fibre is at, it
holds the scopes that the walk found, and it never outgrows the limits derived
from its program. `SharedPrefix`
is what the comment in `v2_trigger_guard_changes_with_target` relies on: a
handler may take its stack from any fibre inside the guard, since all of them
have the same stack up to the guard.

The other runs expect a violation. Each states what a document, comment or test
of the repository says and shows an execution of the code that does otherwise;
`PROJECT.json` quotes the lines under "findings":

* `job_queue_routed` - a routed rejection ignores who holds the claim;
* `job_queue_exhausted` - a lease that expires on the last retry raises no
  incident and leaves the fibre parked;
* `job_queue_replay` - repeating a recorded completion is an error;
* `kernel_reminder` - a non-interrupting guard closed by one of its holders
  stops the other for ever;
* `kernel_parallel_scope` - rollback leaves the sibling's job live;
* `kernel_poll` - a timer wait in a loop is not armed again;
* `kernel_task_then_wait` - a message that precedes its wait is stranded.

Bounds. Three tasks give two of one owner and one of another, which is what
renewal, takeover and late release need; four leases allow a takeover and its
reversal; three commits allow a commit under each. Three job leases exceed the
two retries by one; the properties of `JobQueue` speak of one job each, and the
proofs cover any number of jobs. The kernel's workflows are finite and loop at
most twice; the number of steps in a tick is the verifier's own limit, and
`NothingRefused` would report that it is reached. Two processes are what a
takeover needs in `Scheduler` and in `Bus`; a fault may fall on any step, and the
proofs cover any number of processes, calls and faults. The calls of `Bus` share
nothing but the sender's batch. Larger instances than the listed ones were
checked as well: both bus calls together with one fault (2,049,954 states, no
violation) and the scheduler with two faults (no violation). Deadlock checking
is off where the system may stop: an ended instance, a queue whose lease bound
is used up.

Fairness. `JobQueue` assumes that time passes and that the reclaim loop runs,
which server-runner starts for the life of the process; nothing of workers.
`Kernel` assumes that runnable instances are ticked, due timers fired (the
scheduler loop), and jobs and dispatched calls answered successfully if they stay
open; failures, messages and operators are not assumed. `Scheduler` assumes that
the loops run on (the runner starts them for the life of the process), that a
crashed process is started again, that leases and delays run out, and that other
operations release the instance's lease. `InstancesSettle` makes an exception of
what the code leaves `Blocked`: a due timer or response of a quarantined
instance, the response of a call whose fibre is gone, an output that violates its
contract. `Bus` assumes the sender's fallback timer, handlers that finish, claims
and backoffs that run out, and restarts; `CallsSettle` makes an exception of
refused and malformed calls, of cancelled instances, of results that were
`Missed` (they came before the acknowledgement, or asked for a retry) and of rows
`Stranded` in an outbox that the sender's tenant list no longer names.

## Proofs

For every set of tasks, owners and processes, and every bound,
`TransitionStoreProofs` shows type correctness, `Replayable`,
`QuarantineIsFinal`, the refinement of `InstanceLog`, and - for the durable store
only - `OneWriter` and `LateReleaseIsHarmless` (a release that arrives after a
takeover or a renewal clears nobody's lease). A claim that matches the row's revision holds the row's
snapshot; that fact is the strengthening that makes `Replayable` inductive.
`OneWriter` needs more: equal fences mean equal lease generations, so a claim
with the current fence belongs to the lease's last owner; the late release rests
on the same fact. With the in-memory store this fails (its fence starts again with every lease); the other theorems
hold of both stores.

`JobQueueProofs` shows, for every set of jobs, RPCs, retry budget and number of
leases, that types hold, that queue rows and parked fibres stay together, that
completions are final, that attempts are bounded and that only the claim owner
resumes a fibre or stops it on an incident. The invariants are proved together,
since each needs the others: a fibre that executes its task finds no live row because
rows imply parked fibres. The bound on attempts needs the exact account
"attempts + retries = budget, plus one while leased".

`SchedulerProofs` shows, for every set of processes and every bound, type
correctness, that a runnable instance has an activation (`RunnableIsQueued`),
that what an instance waits for has a row somebody serves (`WaitsAreServed`),
that a timer wakes the wait it was armed for and that the first answer of a call
stands. The invariant has three parts: what a process holds in each phase
(`SInv`), that rows are written only when their instance gets to them, that a
timer is armed only while the instance waits there and that leases belong to open
rows (`RInv`, which contains `WaitsAreServed`), and that the queue agrees with the
instances (`QInv`, which contains `RunnableIsQueued`). `RInv` is what makes a wait
find a fresh row, and `SInv` what lets a consumed activation leave the instance at
rest.

`BusProofs` shows, for every set of calls and processes and every verb, type
correctness (of this module proved only, not a property of the run), that a receipt has its result, that an acknowledgement moves the
outbox and the pending row together, that a submitted call stays submitted, and
that `Bus` implements `Callout`. The strengthening says what a dispatch knows at
each of its stages (`Fits`, `JInv`), that only a row in dispatch is leased
(`LInv`), and that an execution on record means the verb has run (`EInv`); the last is what
the refinement needs, since a call is accepted only after a run.

The fibre machine is proved for every program that the verifier admits, whatever
its length and nesting, and every order of commands. A tick executes as many
words as the program's step limit allows; these proofs go by induction over their
number, from the well-foundedness of `<` on the naturals (`Induction`). There is
no bound on identities: `Fresh` takes the least unused numbers, and since a frame
refers to finitely many, there are some (`UsedFinite`, `FreshIds`). Assumed of
the constants: `ProgramAssumption` (programs are numbered from 0 and made of
well-formed instructions) and `StepsAssumption` (step limits are numbers), which
TLC evaluates in the `kernel` run.

`KernelProofs` shows `NoLostUpdate`, and, unless guards are triggered by hand,
`EndedStaysEnded` and `EndsQuiet` (an ended instance has no fibre, no live job and
no armed timer, which is `EndsClean` without its claim about records). The
exception is real: an ended instance may keep records, so the operator's
V2TriggerGuard, which only tests issue, could start a handler in it. Each word is
shown to leave the frame as one of two outcomes, "moved" (same workflow and state,
updates only added to what is held) or "ended" (a terminal state, nothing live).
The invariant is `Shape` (frames are records of the right fields, an open call has
no answer, the workflow is admitted) and `Closed` (an ended instance is idle).

`KernelSafety` shows `TypeOK` and `SharedPrefix`. The invariant is `CInv`: the
workflow is admitted, the frame is `Tidy` (every part has its type, and `Prefixed`:
any two control stacks that hold a handle agree up to it), fibres stand at
addresses of the program, and every record knows its members (`KInvariants`).
`Tidy` is kept by every word, with no help from the verifier: a scope word pushes
a handle that nothing in the frame refers to (`FreshUnheld`), a fork copies a
stack, and everything else shortens stacks or removes fibres (`GrownFibers`,
`ShrunkFibers`). Handlers and rollbacks need more. They rebuild a stack from the
record they find, so they need the fibre to hold that record, which is what the
member sets say; the words do not keep member sets exact in every program, but a
command commits only when Ring 3 has compared them with the stacks
(`kernel_reminder` is a program in which it refuses to). Hence `KInvariants` is
part of the invariant between commands and not within one. That fibres stand at
addresses of the program is likewise taken from what Ring 3 checks, not from the
verifier's check of targets.

Only model-checked:

* liveness (`LeasesEnd`, `NeverHangs`, `InstancesSettle`, `CallsSettle`), which is
  out of the prover's reach;
* `StacksAsVerified`, which is about the shapes of programs that `MCKernel` has:
  the verifier's walk of the control stacks does not follow the handler that
  GUARD-ERROR> names, so an admitted program may run at an address that the walk
  has not visited;
* `WithinLimits` and `TokensConserved`, which compare the fibres with what folds
  compute from the program; what they compute for every program takes an
  induction over data that the provers cannot do;
* `NoGhostJobs`, `WaitsHaveWakers`, `NothingRefused` and the records of
  `EndsClean`, which do not hold of every program the verifier admits
  (`kernel_parallel_scope`, `kernel_poll` and `kernel_reminder` are programs that
  break them): what restriction on programs they need is itself a property of all
  paths through a program;
* `EachWaitTakesOne`, `ScopeIsAtomic`, `CycleIsBounded` and `EveryElementRuns`,
  which speak of the particular workflows of `MCKernel`.

## Not modelled

* Compilers (BPMN and DSL to bytecode): translations of large inputs without
  state of their own. The shapes they produce are the programs of `MCKernel`.
* dmn-lite, designer, authoring and utterance engine: sequential evaluation,
  interactive editing and language tooling. Together with the compilers and the
  tools they are most of the repository's lines, so the modelled share of the
  code is small although the runtime is modelled almost completely.
* RPC surface (gRPC, REST, event fan-out): validation and conversion around the
  engine's operations; event subscribers hold nothing the engine depends on.
* Child invocations: the parent's side are jobs, the child's start is covered by
  start deduplication; the two instances are not composed. No word of the kernel
  waits for the result of a child start, so that branch has no execution.
* The placeholders that a start request brings along, and V2LoadPlaceholderMatch,
  the DSL's condition on them; a condition on a flag, which the XML compiler
  emits in its place, is modelled.
* Message expiry: pruning has no caller in the production code.
* Several tenants side by side, batch limits, snapshot verification, pruning
  loops, graceful shutdown, payload loading and hashing, input bindings of calls.
