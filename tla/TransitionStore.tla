-------------------------- MODULE TransitionStore --------------------------
(***************************************************************************)
(* The transition protocol of one workflow instance: every operation of    *)
(* the engine (tick, signal, complete_job, fail_job, cancel, timer,        *)
(* effect response) claims the instance, applies the pure kernel to the    *)
(* snapshot that came with the claim, commits the transition under a       *)
(* revision and fence check, and releases the lease by its token.          *)
(*                                                                         *)
(* A task is one such operation in flight.  Tasks of one engine handle     *)
(* share the handle's owner string; tasks of one process share the         *)
(* in-process single-flight guard, except the nested ones that bypass it.  *)
(* Lease time is abstract: a lease that was granted may expire at any      *)
(* later point.                                                            *)
(***************************************************************************)
EXTENDS Integers, Sequences

CONSTANTS Tasks,        \* operations that target the instance
          Owner,        \* [Tasks -> owner strings]: the lease owner a task uses
          Process,      \* [Tasks -> processes]: whose in_flight set applies
          Guarded,      \* tasks that run inside with_instance_guard
          NoOwner,      \* lease_owner IS NULL
          Durable,      \* TRUE: PostgresStore; FALSE: MemoryStore, which
                        \* forgets the fence together with the lease entry
          MaxClaims,    \* bound on the lease generations
          MaxRevision   \* bound on the commits

ASSUME OwnerAssumption == NoOwner \notin {Owner[t] : t \in Tasks}
ASSUME GuardAssumption == Guarded \subseteq Tasks
ASSUME DurableAssumption == Durable \in BOOLEAN
ASSUME BoundAssumption == MaxClaims \in Nat /\ MaxRevision \in Nat

VARIABLES revision,     \* workflow_instances.revision
          fence,        \* workflow_instances.fence
          lease,        \* lease_owner, whether lease_until is ahead, lease_token
          minted,       \* lease tokens minted so far; the tokens are 1..minted
          quarantined,  \* quarantine_state IS NOT NULL
          state,        \* the snapshot envelope: the tasks whose commands it holds
          journal,      \* the journal records, oldest first
          inFlight,     \* processes whose in_flight set holds the instance
          pc,           \* where each task is
          claim         \* the claim and the snapshot each task works from

row   == <<revision, fence, quarantined, state, journal>>
store == <<row, lease, minted>>
vars  == <<revision, fence, lease, minted, quarantined, state, journal,
           inFlight, pc, claim>>

Owners == {Owner[t] : t \in Tasks}
States == Seq(Tasks)
Records == [by : Tasks, prior : States, post : States]
Leases == [owner : Owners \cup {NoOwner}, live : BOOLEAN, token : Nat]
Claims == [revision : Nat, fence : Nat, token : Nat, snapshot : States]

NoClaim == [revision |-> 0, fence |-> 0, token |-> 0, snapshot |-> <<>>]
NoLease == [owner |-> NoOwner, live |-> FALSE, token |-> 0]

Init == /\ revision = 0 /\ fence = 0 /\ minted = 0
        /\ lease = NoLease
        /\ quarantined = FALSE
        /\ state = <<>> /\ journal = <<>>
        /\ inFlight = {}
        /\ pc = [t \in Tasks |-> "idle"]
        /\ claim = [t \in Tasks |-> NoClaim]

----------------------------------------------------------------------------
(* The engine side.                                                        *)

\* try_acquire_instance_guard: a guarded task enters only when no other
\* guarded task of its process is inside; the others go straight in.
Enter(t) ==
  /\ pc[t] = "idle"
  /\ t \in Guarded => Process[t] \notin inFlight
  /\ inFlight' = inFlight \cup (IF t \in Guarded THEN {Process[t]} ELSE {})
  /\ pc' = [pc EXCEPT ![t] = "ready"]
  /\ UNCHANGED <<store, claim>>

\* ReleaseOnDrop: whatever way a guarded task ends, its guard goes with it.
Leave(t) == /\ inFlight' = inFlight \ (IF t \in Guarded THEN {Process[t]} ELSE {})
            /\ pc' = [pc EXCEPT ![t] = "idle"]

\* The future is dropped (client disconnect, timeout) or its process dies:
\* no release reaches the store.
Dropped(t) ==
  /\ pc[t] # "idle"
  /\ Leave(t)
  /\ UNCHANGED <<store, claim>>

----------------------------------------------------------------------------
(* claim_work_for_transition.                                              *)

\* Variant: the quarantine_state condition is missing from the UPDATE.
ClaimableInQuarantine(t) == lease.live => lease.owner = Owner[t]

Claimable(t) == ~quarantined /\ (lease.live => lease.owner = Owner[t])

\* The same owner asks again while its lease is live: same fence, same token.
Renewal(t) == lease.live /\ lease.owner = Owner[t]

ClaimWork(t) ==
  /\ pc[t] = "ready"
  /\ Claimable(t)
  /\ minted < MaxClaims /\ revision < MaxRevision
  /\ fence' = IF Renewal(t) THEN fence ELSE fence + 1
  /\ minted' = IF Renewal(t) THEN minted ELSE minted + 1
  /\ lease' = [owner |-> Owner[t], live |-> TRUE,
               token |-> IF Renewal(t) THEN lease.token ELSE minted']
  /\ claim' = [claim EXCEPT ![t] = [revision |-> revision, fence |-> fence',
                                    token |-> lease'.token, snapshot |-> state]]
  /\ pc' = [pc EXCEPT ![t] = "claimed"]
  /\ UNCHANGED <<revision, quarantined, state, journal, inFlight>>

\* Ok(None): another owner's lease is live, or the instance is quarantined.
ClaimRefused(t) ==
  /\ pc[t] = "ready"
  /\ ~Claimable(t)
  /\ Leave(t)
  /\ UNCHANGED <<store, claim>>

\* lease_until passes.
LeaseExpires ==
  /\ lease.live
  /\ lease' = [lease EXCEPT !.live = FALSE]
  /\ UNCHANGED <<row, minted, inFlight, pc, claim>>

----------------------------------------------------------------------------
(* apply, commit_transition and release_instance_transition.               *)

\* Variants: one of the two conditions of the conditional UPDATE is missing.
CurrentByFence(t) == claim[t].fence = fence
CurrentByRevision(t) == claim[t].revision = revision

Current(t) == claim[t].revision = revision /\ claim[t].fence = fence

\* Variant: giving the lease back takes the fence's increment back as well.
FenceRewound == fence - 1

\* MemoryStore keeps the fence inside the lease entry it removes.
FenceAfterRemoval == IF Durable THEN fence ELSE 0

\* What the committed frame looks like decides what becomes of the lease:
\* some fibre is Running, all are parked or the instance has ended, or the
\* guard failure budget is exhausted (PostgreSQL only).
Outcomes == {"runnable", "parked"} \cup (IF Durable THEN {"exhausted"} ELSE {})

\* The store writes the snapshot computed from the claimed one; the journal
\* record chains to the snapshot the store holds.
CommitTransition(t) ==
  /\ pc[t] = "claimed"
  /\ Current(t)
  /\ revision' = revision + 1
  /\ state' = Append(claim[t].snapshot, t)
  /\ journal' = Append(journal, [by |-> t, prior |-> state, post |-> state'])
  /\ \E outcome \in Outcomes :
       /\ quarantined' = (quarantined \/ outcome = "exhausted")
       /\ lease' = IF outcome = "runnable" THEN lease
                   ELSE [lease EXCEPT !.owner = NoOwner, !.live = FALSE]
       /\ fence' = IF outcome = "runnable" THEN fence ELSE FenceAfterRemoval
  /\ pc' = [pc EXCEPT ![t] = "committed"]
  /\ UNCHANGED <<minted, inFlight, claim>>

\* StaleFence or Conflict.
CommitRejected(t) ==
  /\ pc[t] = "claimed"
  /\ ~Current(t)
  /\ pc' = [pc EXCEPT ![t] = "failed"]
  /\ UNCHANGED <<store, inFlight, claim>>

\* The kernel refuses the command, or there is nothing to do.
Abandon(t) ==
  /\ pc[t] = "claimed"
  /\ pc' = [pc EXCEPT ![t] = "failed"]
  /\ UNCHANGED <<store, inFlight, claim>>

\* Variant: release matches the owner string, as it did before leases had
\* tokens.
ClearLeaseByOwner(t) ==
  IF lease.owner = Owner[t]
  THEN lease' = NoLease /\ fence' = FenceAfterRemoval
  ELSE UNCHANGED <<lease, fence>>

\* The lease row is cleared only if it still carries this claim's token.
ClearLease(t) ==
  IF lease.token = claim[t].token
  THEN lease' = NoLease /\ fence' = FenceAfterRemoval
  ELSE UNCHANGED <<lease, fence>>

\* A tick that committed goes round its loop; every other operation returns.
Release(t) ==
  /\ ClearLease(t)
  /\ \/ pc[t] = "committed" /\ pc' = [pc EXCEPT ![t] = "ready"] /\ UNCHANGED inFlight
     \/ pc[t] \in {"committed", "failed"} /\ Leave(t)
  /\ UNCHANGED <<revision, minted, quarantined, state, journal, claim>>

Next == \/ LeaseExpires
        \/ \E t \in Tasks :
             \/ Enter(t) \/ Dropped(t)
             \/ ClaimWork(t) \/ ClaimRefused(t)
             \/ CommitTransition(t) \/ CommitRejected(t) \/ Abandon(t)
             \/ Release(t)

Spec == Init /\ [][Next]_vars

----------------------------------------------------------------------------
(* Properties.                                                             *)

\* The row, the leases and the tasks' local state have the types of their
\* columns and fields.
TypeOK ==
  /\ revision \in Nat /\ fence \in Nat /\ minted \in Nat
  /\ lease \in Leases
  /\ quarantined \in BOOLEAN
  /\ state \in States /\ journal \in Seq(Records)
  /\ inFlight \subseteq {Process[t] : t \in Tasks}
  /\ pc \in [Tasks -> {"idle", "ready", "claimed", "committed", "failed"}]
  /\ claim \in [Tasks -> Claims]

\* The journal can be replayed: it has one record per revision, each record's
\* command was applied to the state the record before it left, and the last
\* one left the stored snapshot.  No interleaving of claims, renewals, lease
\* expiries and dropped tasks makes commit_transition overwrite a transition
\* its snapshot did not contain.
Replayable ==
  /\ Len(journal) = revision
  /\ \A i \in 1..Len(journal) :
       /\ journal[i].prior = IF i = 1 THEN <<>> ELSE journal[i - 1].post
       /\ journal[i].post = Append(journal[i].prior, journal[i].by)
  /\ state = IF journal = <<>> THEN <<>> ELSE journal[Len(journal)].post

\* t could commit now.
Writer(t) == pc[t] = "claimed" /\ Current(t)

\* One writer per instance: whoever could commit now works for one owner, and
\* if a lease is live it is that owner's.  A task whose lease was taken over
\* while it computed is fenced off.
OneWriter ==
  /\ \A t, u \in Tasks : Writer(t) /\ Writer(u) => Owner[t] = Owner[u]
  /\ \A t \in Tasks : Writer(t) /\ lease.live => lease.owner = Owner[t]

\* t returns its lease in this step.
Releases(t) == pc[t] \in {"committed", "failed"} /\ pc'[t] \in {"ready", "idle"}

\* A late release is harmless: when t gives its lease back while another task
\* holds the right to write under a later acquisition, that lease stays as it
\* is, also when both tasks use the same owner string.
LateReleaseIsHarmless ==
  [][\A t, u \in Tasks :
       Releases(t) /\ Writer(u) /\ claim[u].token # claim[t].token => lease' = lease]_vars

\* Once the guard failure budget quarantines the instance no transition
\* commits any more, not even one that was computed before.
QuarantineIsFinal == [][quarantined => UNCHANGED <<state, journal, revision>>]_vars

\* To its users the instance is a log to which operations append one after
\* the other, and which quarantine seals.
Log == INSTANCE InstanceLog WITH sealed <- quarantined
LogSpec == Log!Spec
=============================================================================
