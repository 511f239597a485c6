----------------------- MODULE TransitionStoreProofs -----------------------
(***************************************************************************)
(* Proofs about TransitionStore, for every set of tasks, every assignment  *)
(* of owners and processes, both stores and every bound.                   *)
(*                                                                         *)
(* Replayable is not inductive: a commit extends the journal correctly     *)
(* only because the snapshot of a claim whose revision is still current is *)
(* the stored one.  ClaimsAreSnapshots says so, and Sealed says that after *)
(* quarantine no such claim is left.  OneWriter needs FencedByLease, which *)
(* holds only where the fence outlives the lease (Durable), and so does    *)
(* TokensFollowFence, on which LateReleaseIsHarmless rests.                *)
(***************************************************************************)
EXTENDS TransitionStore, TLAPS

\* A claim never runs ahead of the row, and one that is level with it holds
\* the stored snapshot.
ClaimsAreSnapshots ==
  \A t \in Tasks : pc[t] = "claimed" =>
    /\ claim[t].revision <= revision
    /\ claim[t].revision = revision => claim[t].snapshot = state

\* The commit that exhausted the budget made every outstanding claim stale.
Sealed == quarantined =>
  \A t \in Tasks : pc[t] = "claimed" => claim[t].revision < revision

\* A claim with the current fence belongs to the owner of the current lease
\* generation.
FencedByLease ==
  /\ \A t \in Tasks : pc[t] = "claimed" =>
       /\ claim[t].fence <= fence
       /\ claim[t].fence = fence /\ lease.live => lease.owner = Owner[t]
  /\ \A t, u \in Tasks :
       /\ pc[t] = "claimed" /\ claim[t].fence = fence
       /\ pc[u] = "claimed" /\ claim[u].fence = fence
       => Owner[t] = Owner[u]

\* A claim with the current fence carries the token of the lease row, unless
\* the row has been cleared since.
TokensFollowFence ==
  /\ lease.token = 0 => lease = NoLease
  /\ \A t \in Tasks : pc[t] = "claimed" /\ claim[t].fence = fence =>
       lease = NoLease \/ lease.token = claim[t].token

Inv == TypeOK /\ ClaimsAreSnapshots /\ Sealed /\ Replayable

----------------------------------------------------------------------------

LEMMA TypeInit == Init => TypeOK
<1> SUFFICES ASSUME Init PROVE TypeOK
  OBVIOUS
<1>1. NoLease \in Leases
  BY DEF NoLease, Leases
<1>2. NoClaim \in Claims
  BY DEF NoClaim, Claims, States
<1>3. claim \in [Tasks -> Claims]
  BY <1>2 DEF Init
<1>4. journal \in Seq(Records) /\ state \in States
  BY DEF Init, States
<1> QED BY <1>1, <1>3, <1>4 DEF Init, TypeOK

LEMMA TypeStep == TypeOK /\ [Next]_vars => TypeOK'
<1> SUFFICES ASSUME TypeOK, [Next]_vars PROVE TypeOK'
  OBVIOUS
<1> USE DEF TypeOK, Leases, Claims, States, Owners
<1>1. CASE LeaseExpires
  BY <1>1 DEF LeaseExpires, row
<1>2. ASSUME NEW t \in Tasks, Enter(t) PROVE TypeOK'
  BY <1>2 DEF Enter, store, row
<1>3. ASSUME NEW t \in Tasks, Dropped(t) PROVE TypeOK'
  BY <1>3 DEF Dropped, Leave, store, row
<1>4. ASSUME NEW t \in Tasks, ClaimWork(t) PROVE TypeOK'
  <2>1. lease' \in Leases /\ fence' \in Nat /\ minted' \in Nat
    BY <1>4 DEF ClaimWork
  <2>2. claim' \in [Tasks -> Claims]
    BY <1>4, <2>1 DEF ClaimWork
  <2> QED BY <1>4, <2>1, <2>2 DEF ClaimWork
<1>5. ASSUME NEW t \in Tasks, ClaimRefused(t) PROVE TypeOK'
  BY <1>5 DEF ClaimRefused, Leave, store, row
<1>6. ASSUME NEW t \in Tasks, CommitTransition(t) PROVE TypeOK'
  <2>1. state' \in Seq(Tasks)
    BY <1>6 DEF CommitTransition
  <2>2. [by |-> t, prior |-> state, post |-> state'] \in Records
    BY <2>1 DEF Records
  <2>3. journal' \in Seq(Records)
    BY <1>6, <2>2 DEF CommitTransition
  <2>4. PICK outcome \in Outcomes :
          /\ quarantined' = (quarantined \/ outcome = "exhausted")
          /\ lease' = IF outcome = "runnable" THEN lease
                      ELSE [lease EXCEPT !.owner = NoOwner, !.live = FALSE]
          /\ fence' = IF outcome = "runnable" THEN fence ELSE FenceAfterRemoval
    BY <1>6 DEF CommitTransition
  <2>5. quarantined' \in BOOLEAN
    BY <2>4
  <2>6. lease' \in Leases
    BY <2>4
  <2>7. fence' \in Nat
    BY <2>4 DEF FenceAfterRemoval
  <2>8. /\ revision' = revision + 1 /\ UNCHANGED <<minted, inFlight, claim>>
        /\ pc' = [pc EXCEPT ![t] = "committed"]
    BY <1>6 DEF CommitTransition
  <2> QED BY <2>1, <2>3, <2>5, <2>6, <2>7, <2>8
<1>7. ASSUME NEW t \in Tasks, CommitRejected(t) \/ Abandon(t) PROVE TypeOK'
  BY <1>7 DEF CommitRejected, Abandon, store, row
<1>8. ASSUME NEW t \in Tasks, Release(t) PROVE TypeOK'
  <2>1. ClearLease(t)
    BY <1>8 DEF Release
  <2>2. NoLease \in Leases
    BY DEF NoLease
  <2>3. lease' \in Leases /\ fence' \in Nat
    BY <2>1, <2>2 DEF ClearLease, FenceAfterRemoval
  <2> QED BY <1>8, <2>3 DEF Release, Leave
<1>9. CASE UNCHANGED vars
  BY <1>9 DEF vars
<1> QED BY <1>1, <1>2, <1>3, <1>4, <1>5, <1>6, <1>7, <1>8, <1>9 DEF Next

\* Every reachable state of the transition protocol has the types of TypeOK.
THEOREM TypeCorrect == Spec => []TypeOK
  BY TypeInit, TypeStep, PTL DEF Spec

----------------------------------------------------------------------------

LEMMA InvInit == Init => Inv
<1> SUFFICES ASSUME Init PROVE Inv
  OBVIOUS
<1>1. TypeOK
  BY TypeInit
<1>2. ClaimsAreSnapshots /\ Sealed
  BY DEF Init, ClaimsAreSnapshots, Sealed
<1>3. Replayable
  BY DEF Init, Replayable
<1> QED BY <1>1, <1>2, <1>3 DEF Inv

\* A step that neither claims nor commits leaves the row alone and creates no
\* claim.
LEMMA QuietStep ==
  ASSUME Inv, UNCHANGED <<revision, quarantined, state, journal, claim>>,
         \A t \in Tasks : pc'[t] = "claimed" => pc[t] = "claimed"
  PROVE  ClaimsAreSnapshots' /\ Sealed' /\ Replayable'
  BY DEF Inv, ClaimsAreSnapshots, Sealed, Replayable

\* A commit whose claim is current extends the journal by one good record.
LEMMA CommitExtendsJournal ==
  ASSUME Inv, NEW t \in Tasks, CommitTransition(t)
  PROVE  Replayable'
<1> DEFINE rec == [by |-> t, prior |-> state, post |-> Append(state, t)]
<1>1. claim[t].snapshot = state
  BY DEF Inv, CommitTransition, Current, ClaimsAreSnapshots
<1>2. state' = Append(state, t) /\ journal' = Append(journal, rec)
  BY <1>1 DEF CommitTransition
<1>3. /\ journal \in Seq(Records) /\ Len(journal) \in Nat
      /\ rec \in Records
  BY DEF Inv, TypeOK, Records, States
<1>4. /\ Len(journal') = Len(journal) + 1
      /\ journal'[Len(journal) + 1] = rec
      /\ \A i \in 1..Len(journal) : journal'[i] = journal[i]
  BY <1>2, <1>3
<1>5. Len(journal') = revision'
  BY <1>4 DEF Inv, Replayable, CommitTransition
<1>6. journal # <<>> <=> Len(journal) # 0
  BY <1>3
<1>7. ASSUME NEW i \in 1..Len(journal')
      PROVE  /\ journal'[i].prior = IF i = 1 THEN <<>> ELSE journal'[i - 1].post
             /\ journal'[i].post = Append(journal'[i].prior, journal'[i].by)
  <2>1. CASE i \in 1..Len(journal)
    <3>1. journal'[i] = journal[i] /\ (i # 1 => journal'[i - 1] = journal[i - 1])
      BY <1>3, <1>4, <2>1
    <3>2. /\ journal[i].prior = IF i = 1 THEN <<>> ELSE journal[i - 1].post
          /\ journal[i].post = Append(journal[i].prior, journal[i].by)
      BY <2>1 DEF Inv, Replayable
    <3> QED BY <3>1, <3>2
  <2>2. CASE i = Len(journal) + 1
    <3>1. state = IF i = 1 THEN <<>> ELSE journal[i - 1].post
      BY <1>3, <1>6, <2>2 DEF Inv, Replayable
    <3>2. i # 1 => journal'[i - 1] = journal[i - 1]
      BY <1>3, <1>4, <2>2
    <3> QED BY <1>4, <2>2, <3>1, <3>2
  <2> QED BY <1>3, <1>4, <2>1, <2>2
<1>8. journal' # <<>> /\ state' = journal'[Len(journal')].post
  BY <1>2, <1>3, <1>4
<1> QED BY <1>5, <1>7, <1>8 DEF Replayable

LEMMA InvStep == Inv /\ [Next]_vars => Inv'
<1> SUFFICES ASSUME Inv, [Next]_vars PROVE Inv'
  OBVIOUS
<1>0. TypeOK /\ TypeOK'
  BY TypeStep DEF Inv
<1>1. CASE LeaseExpires \/ UNCHANGED vars
  BY <1>0, <1>1, QuietStep DEF LeaseExpires, row, vars, Inv
<1>2. ASSUME NEW t \in Tasks,
             Enter(t) \/ Dropped(t) \/ ClaimRefused(t) \/ CommitRejected(t)
               \/ Abandon(t) \/ Release(t)
      PROVE  Inv'
  <2>1. UNCHANGED <<revision, quarantined, state, journal, claim>>
    BY <1>2 DEF Enter, Dropped, ClaimRefused, CommitRejected, Abandon, Release, store, row
  <2>2. \A u \in Tasks : pc'[u] = "claimed" => pc[u] = "claimed"
    BY <1>0, <1>2 DEF TypeOK, Enter, Dropped, ClaimRefused, CommitRejected, Abandon,
                      Release, Leave
  <2> QED BY <1>0, <2>1, <2>2, QuietStep DEF Inv
<1>3. ASSUME NEW t \in Tasks, ClaimWork(t) PROVE Inv'
  <2>1. /\ UNCHANGED <<revision, quarantined, state, journal>> /\ ~quarantined
        /\ claim'[t].revision = revision /\ claim'[t].snapshot = state
        /\ \A u \in Tasks : u # t => claim'[u] = claim[u] /\ pc'[u] = pc[u]
    BY <1>0, <1>3 DEF ClaimWork, Claimable, TypeOK
  <2>2. ClaimsAreSnapshots'
    BY <1>0, <2>1 DEF ClaimsAreSnapshots, Inv, TypeOK
  <2>3. Sealed' /\ Replayable'
    BY <2>1 DEF Sealed, Replayable, Inv
  <2> QED BY <1>0, <2>2, <2>3 DEF Inv
<1>4. ASSUME NEW t \in Tasks, CommitTransition(t) PROVE Inv'
  <2>0. /\ revision' = revision + 1 /\ claim' = claim
        /\ pc' = [pc EXCEPT ![t] = "committed"]
    BY <1>4 DEF CommitTransition
  <2>1. \A u \in Tasks : pc'[u] = "claimed" => pc[u] = "claimed"
    BY <1>0, <2>0 DEF TypeOK
  <2>2. revision \in Nat /\ \A u \in Tasks : claim[u].revision \in Nat
    BY <1>0 DEF TypeOK, Claims
  <2>3. \A u \in Tasks : pc'[u] = "claimed" =>
          claim'[u].revision \in Nat /\ claim'[u].revision < revision'
    BY <2>0, <2>1, <2>2 DEF Inv, ClaimsAreSnapshots
  <2>4. ClaimsAreSnapshots'
    BY <2>0, <2>2, <2>3 DEF ClaimsAreSnapshots
  <2>5. Sealed'
    BY <2>3 DEF Sealed
  <2> QED BY <1>0, <1>4, <2>4, <2>5, CommitExtendsJournal DEF Inv
<1> QED BY <1>1, <1>2, <1>3, <1>4 DEF Next

\* The journal of an instance can always be replayed to its stored snapshot,
\* whatever the tasks, owners and lease expiries.
THEOREM JournalReplayable == Spec => []Replayable
<1>1. Inv => Replayable
  BY DEF Inv
<1> QED BY <1>1, InvInit, InvStep, PTL DEF Spec

\* No transition commits on a quarantined instance.
THEOREM QuarantineHolds == Spec => QuarantineIsFinal
<1>1. Inv /\ [Next]_vars => [quarantined => UNCHANGED <<state, journal, revision>>]_vars
  <2> SUFFICES ASSUME Inv, Next, quarantined
               PROVE  UNCHANGED <<state, journal, revision>>
    BY DEF vars
  <2>1. ASSUME NEW t \in Tasks, CommitTransition(t) PROVE FALSE
    BY <2>1 DEF CommitTransition, Current, Inv, Sealed, TypeOK
  <2> QED BY <2>1 DEF Next, LeaseExpires, Enter, Dropped, ClaimWork, ClaimRefused,
                      CommitRejected, Abandon, Release, store, row
<1> QED BY <1>1, InvInit, InvStep, PTL DEF Spec, QuarantineIsFinal

\* The claim, commit and release protocol implements an append-only log that
\* quarantine seals.
THEOREM ImplementsLog == Spec => LogSpec
<1>1. Init => Log!Init
  BY DEF Init, Log!Init
<1>2. Inv /\ [Next]_vars => [Log!Next]_(Log!logVars)
  <2> SUFFICES ASSUME Inv, Next, UNCHANGED <<state, quarantined>> => FALSE
               PROVE  \E t \in Tasks : Log!Apply(t)
    BY DEF vars, Log!logVars, Log!Next
  <2>1. PICK t \in Tasks : CommitTransition(t)
    BY DEF Next, LeaseExpires, Enter, Dropped, ClaimWork, ClaimRefused,
           CommitRejected, Abandon, Release, store, row
  <2>2. claim[t].snapshot = state /\ ~quarantined
    BY <2>1 DEF Inv, CommitTransition, Current, ClaimsAreSnapshots, Sealed, TypeOK
  <2>3. quarantined' \in BOOLEAN
    BY <2>1, TypeStep DEF Inv, TypeOK, Next
  <2> QED BY <2>1, <2>2, <2>3 DEF CommitTransition, Log!Apply
<1> QED BY <1>1, <1>2, InvInit, InvStep, PTL DEF Spec, LogSpec, Log!Spec

----------------------------------------------------------------------------

LEMMA FencedInit == Init => FencedByLease
  BY DEF Init, FencedByLease

\* A step that creates no claim, keeps the fence and starts no lease.
LEMMA FencedQuietStep ==
  ASSUME FencedByLease, fence' = fence, claim' = claim,
         lease' = lease \/ ~lease'.live,
         \A t \in Tasks : pc'[t] = "claimed" => pc[t] = "claimed"
  PROVE  FencedByLease'
  BY DEF FencedByLease

LEMMA FencedStep ==
  ASSUME Durable, TypeOK, FencedByLease, [Next]_vars
  PROVE  FencedByLease'
<1>1. CASE LeaseExpires \/ UNCHANGED vars
  <2>1. fence' = fence /\ claim' = claim /\ pc' = pc /\ (lease' = lease \/ ~lease'.live)
    BY <1>1 DEF LeaseExpires, row, vars, TypeOK, Leases
  <2> QED BY <2>1, FencedQuietStep
<1>2. ASSUME NEW t \in Tasks,
             Enter(t) \/ Dropped(t) \/ ClaimRefused(t) \/ CommitRejected(t) \/ Abandon(t)
      PROVE  FencedByLease'
  <2>1. UNCHANGED <<fence, claim, lease>>
    BY <1>2 DEF Enter, Dropped, ClaimRefused, CommitRejected, Abandon, store, row
  <2>2. \A u \in Tasks : pc'[u] = "claimed" => pc[u] = "claimed"
    BY <1>2 DEF TypeOK, Enter, Dropped, ClaimRefused, CommitRejected, Abandon, Leave
  <2> QED BY <2>1, <2>2, FencedQuietStep
<1>3. ASSUME NEW t \in Tasks, Release(t) PROVE FencedByLease'
  <2>1. ClearLease(t) /\ claim' = claim
    BY <1>3 DEF Release
  <2>2. fence' = fence /\ (lease' = lease \/ ~lease'.live)
    BY <2>1 DEF ClearLease, NoLease, FenceAfterRemoval
  <2>3. \A u \in Tasks : pc'[u] = "claimed" => pc[u] = "claimed"
    BY <1>3 DEF TypeOK, Release, Leave
  <2> QED BY <2>1, <2>2, <2>3, FencedQuietStep
<1>4. ASSUME NEW t \in Tasks, CommitTransition(t) PROVE FencedByLease'
  <2>1. claim' = claim /\ pc' = [pc EXCEPT ![t] = "committed"]
    BY <1>4 DEF CommitTransition
  <2>2. \A u \in Tasks : pc'[u] = "claimed" => pc[u] = "claimed"
    BY <2>1 DEF TypeOK
  <2>3. fence' = fence /\ (lease' = lease \/ ~lease'.live)
    BY <1>4 DEF CommitTransition, FenceAfterRemoval, TypeOK, Leases
  <2> QED BY <2>1, <2>2, <2>3, FencedQuietStep
<1>5. ASSUME NEW t \in Tasks, ClaimWork(t) PROVE FencedByLease'
  <2>1. /\ lease'.owner = Owner[t] /\ claim'[t].fence = fence'
        /\ \A u \in Tasks : u # t => claim'[u] = claim[u] /\ pc'[u] = pc[u]
    BY <1>5 DEF ClaimWork, TypeOK
  <2>2. fence \in Nat /\ \A u \in Tasks : claim[u].fence \in Nat
    BY DEF TypeOK, Claims
  <2>3. ASSUME NEW u \in Tasks, u # t, pc'[u] = "claimed"
        PROVE  /\ claim'[u].fence <= fence'
               /\ claim'[u].fence = fence' => Owner[u] = Owner[t]
    <3>1. CASE Renewal(t)
      BY <1>5, <2>1, <2>2, <2>3, <3>1 DEF ClaimWork, Renewal, FencedByLease
    <3>2. CASE ~Renewal(t)
      BY <1>5, <2>1, <2>2, <2>3, <3>2 DEF ClaimWork, FencedByLease
    <3> QED BY <3>1, <3>2
  <2>4. fence' \in Nat
    BY <1>5, <2>2 DEF ClaimWork
  <2> QED BY <2>1, <2>3, <2>4 DEF FencedByLease
<1> QED BY <1>1, <1>2, <1>3, <1>4, <1>5 DEF Next

\* With PostgresStore at most one owner at a time is able to commit, and no
\* one is while another owner's lease is live.
THEOREM WritersAreFenced == ASSUME Durable PROVE Spec => []OneWriter
<1>1. FencedByLease => OneWriter
  BY DEF FencedByLease, OneWriter, Writer, Current
<1>2. TypeOK /\ FencedByLease /\ [Next]_vars => FencedByLease'
  BY FencedStep
<1> QED BY <1>1, <1>2, TypeInit, TypeStep, FencedInit, PTL DEF Spec

----------------------------------------------------------------------------

LEMMA TokensInit == Init => TokensFollowFence
  BY DEF Init, TokensFollowFence, NoLease

\* A step that creates no claim, keeps the fence and keeps or clears the row.
LEMMA TokensQuietStep ==
  ASSUME TokensFollowFence, fence' = fence, claim' = claim,
         lease' = NoLease \/ lease'.token = lease.token,
         lease'.token = 0 => lease' = NoLease,
         \A t \in Tasks : pc'[t] = "claimed" => pc[t] = "claimed"
  PROVE  TokensFollowFence'
  BY DEF TokensFollowFence, NoLease

LEMMA TokensStep ==
  ASSUME Durable, TypeOK, FencedByLease, TokensFollowFence, [Next]_vars
  PROVE  TokensFollowFence'
<1>1. CASE LeaseExpires \/ UNCHANGED vars
  <2>1. /\ fence' = fence /\ claim' = claim /\ pc' = pc
        /\ lease'.token = lease.token
        /\ lease'.token = 0 => lease' = NoLease
    BY <1>1 DEF LeaseExpires, row, vars, TypeOK, Leases, TokensFollowFence, NoLease
  <2> QED BY <2>1, TokensQuietStep
<1>2. ASSUME NEW t \in Tasks,
             Enter(t) \/ Dropped(t) \/ ClaimRefused(t) \/ CommitRejected(t) \/ Abandon(t)
      PROVE  TokensFollowFence'
  <2>1. UNCHANGED <<fence, claim, lease>>
    BY <1>2 DEF Enter, Dropped, ClaimRefused, CommitRejected, Abandon, store, row
  <2>2. \A u \in Tasks : pc'[u] = "claimed" => pc[u] = "claimed"
    BY <1>2 DEF TypeOK, Enter, Dropped, ClaimRefused, CommitRejected, Abandon, Leave
  <2> QED BY <2>1, <2>2, TokensQuietStep DEF TokensFollowFence
<1>3. ASSUME NEW t \in Tasks, Release(t) PROVE TokensFollowFence'
  <2>1. ClearLease(t) /\ claim' = claim
    BY <1>3 DEF Release
  <2>2. fence' = fence /\ (lease' = NoLease \/ lease' = lease)
    BY <2>1 DEF ClearLease, FenceAfterRemoval
  <2>3. \A u \in Tasks : pc'[u] = "claimed" => pc[u] = "claimed"
    BY <1>3 DEF TypeOK, Release, Leave
  <2> QED BY <2>1, <2>2, <2>3, TokensQuietStep DEF TokensFollowFence
<1>4. ASSUME NEW t \in Tasks, CommitTransition(t) PROVE TokensFollowFence'
  <2>1. claim' = claim /\ pc' = [pc EXCEPT ![t] = "committed"]
    BY <1>4 DEF CommitTransition
  <2>2. \A u \in Tasks : pc'[u] = "claimed" => pc[u] = "claimed"
    BY <2>1 DEF TypeOK
  <2>3. /\ fence' = fence
        /\ lease' \in {lease, [lease EXCEPT !.owner = NoOwner, !.live = FALSE]}
    BY <1>4 DEF CommitTransition, FenceAfterRemoval
  <2>4. [lease EXCEPT !.owner = NoOwner, !.live = FALSE].token = lease.token
    BY DEF TypeOK, Leases
  <2>5. [NoLease EXCEPT !.owner = NoOwner, !.live = FALSE] = NoLease
    <3>1. /\ NoLease = [x \in {"owner", "live", "token"} |-> NoLease[x]]
          /\ NoLease.owner = NoOwner /\ NoLease.live = FALSE
      BY DEF NoLease
    <3> QED BY <3>1
  <2> QED BY <2>1, <2>2, <2>3, <2>4, <2>5, TokensQuietStep DEF TokensFollowFence
<1>5. ASSUME NEW t \in Tasks, ClaimWork(t) PROVE TokensFollowFence'
  <2>1. /\ claim'[t].token = lease'.token
        /\ \A u \in Tasks : u # t => claim'[u] = claim[u] /\ pc'[u] = pc[u]
    BY <1>5 DEF ClaimWork, TypeOK
  <2>2. /\ fence \in Nat /\ minted \in Nat
        /\ \A u \in Tasks : claim[u].fence \in Nat
    BY DEF TypeOK, Claims
  <2>3. lease'.token # 0
    BY <1>5, <2>2 DEF ClaimWork, Renewal, TokensFollowFence, NoLease
  <2>4. ASSUME NEW u \in Tasks, u # t, pc'[u] = "claimed", claim'[u].fence = fence'
        PROVE  lease'.token = claim'[u].token
    <3>1. Renewal(t)
      BY <1>5, <2>1, <2>2, <2>4 DEF ClaimWork, FencedByLease
    <3>2. lease'.token = lease.token /\ lease.live /\ claim[u].fence = fence
      BY <1>5, <2>1, <2>4, <3>1 DEF ClaimWork, Renewal
    <3>3. lease.token = claim[u].token
      BY <2>1, <2>4, <3>2 DEF TokensFollowFence, NoLease
    <3> QED BY <2>1, <2>4, <3>2, <3>3
  <2> QED BY <2>1, <2>3, <2>4 DEF TokensFollowFence
<1> QED BY <1>1, <1>2, <1>3, <1>4, <1>5 DEF Next

\* With PostgresStore the release of a lease that was taken over meanwhile
\* leaves the later lease alone, whatever owner strings the tasks share.
THEOREM LateReleaseHarmless == ASSUME Durable PROVE Spec => LateReleaseIsHarmless
<1>1. TypeOK /\ TokensFollowFence /\ [Next]_vars =>
        [\A t, u \in Tasks : Releases(t) /\ Writer(u) /\ claim[u].token # claim[t].token
            => lease' = lease]_vars
  <2> SUFFICES ASSUME TypeOK, TokensFollowFence, Next, NEW t \in Tasks, NEW u \in Tasks,
                      Releases(t), Writer(u), claim[u].token # claim[t].token
               PROVE  lease' = lease
    BY DEF vars
  <2>1. CASE LeaseExpires
    BY <2>1 DEF LeaseExpires, Releases
  <2>2. ASSUME NEW x \in Tasks, Release(x) PROVE lease' = lease
    <3>1. x = t
      BY <2>2 DEF Release, Leave, Releases, TypeOK
    <3>2. lease.token = claim[u].token \/ lease = NoLease
      BY DEF Writer, Current, TokensFollowFence
    <3> QED BY <2>2, <3>1, <3>2 DEF Release, ClearLease
  <2>3. ASSUME NEW x \in Tasks, ClaimWork(x) \/ CommitTransition(x) PROVE FALSE
    BY <2>3 DEF ClaimWork, CommitTransition, Releases, TypeOK
  <2> QED BY <2>1, <2>2, <2>3 DEF Next, Enter, Dropped, ClaimRefused, CommitRejected,
                                  Abandon, store, row
<1>2. TypeOK /\ FencedByLease /\ [Next]_vars => FencedByLease'
  BY FencedStep
<1>3. TypeOK /\ FencedByLease /\ TokensFollowFence /\ [Next]_vars => TokensFollowFence'
  BY TokensStep
<1> QED BY <1>1, <1>2, <1>3, TypeInit, TypeStep, FencedInit, TokensInit, PTL
        DEF Spec, LateReleaseIsHarmless
=============================================================================
