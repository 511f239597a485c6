------------------------------ MODULE Verifier ------------------------------
(***************************************************************************)
(* The bytecode verifier of bpmn-lite-types: verify_program, which a       *)
(* program passes before the kernel may run it, and the limits it derives. *)
(*                                                                         *)
(* A program is a function from addresses 0..n-1 to instruction records,   *)
(* in the words of Kernel: operand words are folded into the word that     *)
(* consumes them, so the operand-stack half of the verifier has nothing    *)
(* left to check, and GUARD-TIMER-CYCLE> is the "fires" of the             *)
(* GUARD-TIMER> it follows (1 if there is none).  The side tables of the   *)
(* artifact (task manifest, FFI declarations, budgets) are left out, and   *)
(* so is the saturation of the limits at the top of u32 and u64.           *)
(***************************************************************************)
EXTENDS Integers, FiniteSets, Sequences, Functions, FiniteSetsExt

(* The end of a control stack, and the handles below it.                   *)
Last(s) == s[Len(s)]

Front(s) == SubSeq(s, 1, Len(s) - 1)

ArmWords == {"ArmTimer", "ArmMsg", "ArmEffect"}

GuardWords == {"Guard", "GuardN", "GuardR"}

ArmingWords == {"GuardArmTimer", "GuardArmError"}

(* The words that BR-IF and BR-IF-NOT are folded into.                     *)
Conditions == {"BrIf", "BrIfNot", "MiIndexLive"}

(* race_arm_targets: the arms directly before the }RACE at a.              *)
RaceArms(p, a) ==
    {b \in 0..(a - 1) : \A c \in b..(a - 1) : p[c].op \in ArmWords}

(* They reach back to a RACE{ that declares as many.                       *)
RaceShape(p, a) ==
    LET n == Cardinality(RaceArms(p, a))
    IN  /\ a - n - 1 \in DOMAIN p
        /\ p[a - n - 1].op = "RaceOpen"
        /\ p[a - n - 1].arm_count = n

(* The addresses a word names.                                             *)
Targets(p, a) ==
    CASE p[a].op \in {"Jump", "BrCounterLt"} \cup Conditions -> {p[a].target}
      [] p[a].op \in {"Guard", "GuardN", "GuardArmError"} -> {p[a].handler}
      [] p[a].op = "Fork" -> Range(p[a].targets)
      [] p[a].op = "RaceClose" -> {p[b].target : b \in RaceArms(p, a)}
      [] p[a].op = "RoutePayload" ->
            {b.target : b \in Range(p[a].branches)} \cup Range(p[a].default)
      [] OTHER -> {}

(* is_terminal.                                                            *)
TerminalWords == {"End", "EndTerminate", "Fail", "CancelScope", "RouteZeroMatch"}

FallThrough(p, a) ==
    IF p[a].op \in TerminalWords \cup {"Jump", "Fork", "RaceClose", "RoutePayload"}
    THEN {} ELSE {a + 1} \cap DOMAIN p

Successors(p, a) == Targets(p, a) \cup FallThrough(p, a)

(* The addresses the height walk and verify_terminal_reachability visit.   *)
Reachable(p) ==
    LET walk[n \in 0..Cardinality(DOMAIN p)] ==
            IF n = 0 THEN {0}
            ELSE LET seen == walk[n - 1]
                 IN  seen \cup
                     UNION {Successors(p, a) \cap DOMAIN p : a \in seen}
    IN  walk[Cardinality(DOMAIN p)]

(***************************************************************************)
(* verify_v2_control_stack: abstract interpretation of the control stack.  *)
(***************************************************************************)
Token(kind, at) == [kind |-> kind, opened_at |-> at]

(* Variant of Flow: the handler of a GUARD-N> is entered with the stack    *)
(* from before the guard, as if the guard were interrupting.               *)
FlowSharedGuards(p, a, s) ==
    LET i == p[a]
        next(t) == {<<b, t>> : b \in FallThrough(p, a)}
    IN  CASE i.op \in {"Guard", "GuardN"} ->
                {<<i.handler, s>>} \cup next(Append(s, Token(i.op, a)))
          [] i.op = "GuardR" -> next(Append(s, Token("GuardR", a)))
          [] i.op = "RaceOpen" -> next(Append(s, Token("Race", a)))
          [] i.op \in {"GuardEnd", "GuardNEnd", "GuardREnd", "Join"} ->
                next(Front(s))
          [] i.op = "RaceClose" -> {<<b, Front(s)>> : b \in Targets(p, a)}
          [] i.op = "Fork" ->
                {<<b, Append(s, Token("Barrier", i.pairing))>> :
                    b \in Targets(p, a)}
          [] i.op = "GuardArmError" -> next(s)
          [] OTHER -> {<<b, s>> : b \in Successors(p, a)}

(* The entry states that the word at a, entered with stack s, propagates.  *)
(* An interrupting guard's handler runs after the unwind, so below the     *)
(* guard; a GUARD-N>'s handler runs inside it.  The walk does not follow   *)
(* the handler of a GUARD-ERROR>.                                          *)
Flow(p, a, s) ==
    LET i == p[a]
        next(t) == {<<b, t>> : b \in FallThrough(p, a)}
        inside == Append(s, Token(i.op, a))
    IN  CASE i.op = "Guard" -> {<<i.handler, s>>} \cup next(inside)
          [] i.op = "GuardN" -> {<<i.handler, inside>>} \cup next(inside)
          [] i.op = "GuardR" -> next(inside)
          [] i.op = "RaceOpen" -> next(Append(s, Token("Race", a)))
          [] i.op \in {"GuardEnd", "GuardNEnd", "GuardREnd", "Join"} ->
                next(Front(s))
          [] i.op = "RaceClose" -> {<<b, Front(s)>> : b \in Targets(p, a)}
          [] i.op = "Fork" ->
                {<<b, Append(s, Token("Barrier", i.pairing))>> :
                    b \in Targets(p, a)}
          [] i.op = "GuardArmError" -> next(s)
          [] OTHER -> {<<b, s>> : b \in Successors(p, a)}

(* The entry states found in as many rounds as there are addresses: if no  *)
(* two disagree by then, none ever will.                                   *)
EntryStates(p) ==
    LET walk[n \in 0..Cardinality(DOMAIN p)] ==
            IF n = 0 THEN {<<0, <<>>>>}
            ELSE LET seen == walk[n - 1]
                 IN  seen \cup UNION {Flow(p, e[1], e[2]) :
                                e \in {x \in seen : x[1] \in DOMAIN p}}
    IN  walk[Cardinality(DOMAIN p)]

Closes(s, kind) == s # <<>> /\ Last(s).kind = kind

(* GUARD-ERROR> belongs to the run of arming words after the guard it arms,*)
(* and no other word of the run has its code.                              *)
ArmsError(p, a, s) ==
    /\ s # <<>> /\ Last(s).kind \in GuardWords
    /\ \/ Last(s).opened_at + 1 = a
       \/ p[a - 1].op \in ArmingWords
    /\ \A b \in (Last(s).opened_at + 1)..(a - 1) :
          p[b].op = "GuardArmError" => p[b].code # p[a].code

(* GUARD-TIMER> directly follows the guard it arms; only a GUARD-N>'s      *)
(* timer may fire repeatedly, and at least once.                           *)
ArmsTimer(p, a, s) ==
    /\ s # <<>> /\ Last(s).kind \in GuardWords
    /\ Last(s).opened_at + 1 = a
    /\ p[a].fires >= 1
    /\ p[a].fires > 1 => Last(s).kind = "GuardN"

(* Variant of WellNested: a rollback scope may be opened in a branch of a  *)
(* fork.                                                                   *)
WellNestedInBranches(p, a, s) ==
    CASE p[a].op = "GuardEnd" -> Closes(s, "Guard")
      [] p[a].op = "GuardNEnd" -> Closes(s, "GuardN")
      [] p[a].op = "GuardREnd" -> Closes(s, "GuardR")
      [] p[a].op = "CancelScope" -> Closes(s, "GuardR")
      [] p[a].op = "RaceClose" -> Closes(s, "Race")
      [] p[a].op = "Join" ->
            /\ p[a].pairing \in DOMAIN p /\ p[p[a].pairing].op = "Fork"
            /\ s # <<>> /\ Last(s) = Token("Barrier", p[a].pairing)
      [] p[a].op = "GuardArmTimer" -> ArmsTimer(p, a, s)
      [] p[a].op = "GuardArmError" -> ArmsError(p, a, s)
      [] p[a].op = "End" -> s = <<>>
      [] OTHER -> TRUE

(* V-1, V-2, V-3 and V-10 at one entry state.                         *)
WellNested(p, a, s) ==
    CASE p[a].op = "GuardEnd" -> Closes(s, "Guard")
      [] p[a].op = "GuardNEnd" -> Closes(s, "GuardN")
      [] p[a].op = "GuardREnd" -> Closes(s, "GuardR")
      [] p[a].op = "GuardR" ->
            \A n \in DOMAIN s : s[n].kind # "Barrier"
      [] p[a].op = "CancelScope" -> Closes(s, "GuardR")
      [] p[a].op = "RaceClose" -> Closes(s, "Race")
      [] p[a].op = "Join" ->
            /\ p[a].pairing \in DOMAIN p /\ p[p[a].pairing].op = "Fork"
            /\ s # <<>> /\ Last(s) = Token("Barrier", p[a].pairing)
      [] p[a].op = "GuardArmTimer" -> ArmsTimer(p, a, s)
      [] p[a].op = "GuardArmError" -> ArmsError(p, a, s)
      [] p[a].op = "End" -> s = <<>>
      [] OTHER -> TRUE

(* The height walk: a jump or branch goes back only if a counter bounds it,*)
(* a }RACE closes a race, a payload route has branches.  Nothing is said   *)
(* of where a payload route goes.                                          *)
Bounded(p, a) ==
    /\ p[a].op \in {"Jump"} \cup Conditions => p[a].target > a
    /\ p[a].op = "BrCounterLt" /\ p[a].target < a => p[a].limit > 0
    /\ p[a].op = "RaceClose" => RaceShape(p, a)
    /\ p[a].op = "RoutePayload" => p[a].branches # <<>>

(* V-8: no v2 edge of the control-stack walk goes back.                    *)
ForwardOnly(p, a) ==
    p[a].op \in {"Guard", "GuardN", "Fork", "RaceClose"}
        => \A b \in Targets(p, a) : b > a

(* V-11: a reachable word can reach a terminal one.                        *)
ReachesTerminal(p, reach) ==
    LET back[n \in 0..Cardinality(DOMAIN p)] ==
            IF n = 0 THEN {a \in reach : p[a].op \in TerminalWords}
            ELSE LET seen == back[n - 1]
                 IN  seen \cup {a \in reach : Successors(p, a) \cap seen # {}}
    IN  reach \subseteq back[Cardinality(DOMAIN p)]

(* verify_program accepts p.                                               *)
Verified(p) ==
    LET reach == Reachable(p)
        states == EntryStates(p)
    IN  /\ \A a \in reach : Successors(p, a) \subseteq DOMAIN p
        /\ \A a \in reach : Bounded(p, a)
        /\ \E a \in reach : p[a].op \in {"End", "EndTerminate"}
        /\ \A e \in states : \A d \in states : e[1] = d[1] => e = d
        /\ \A e \in states : ForwardOnly(p, e[1]) /\ WellNested(p, e[1], e[2])
        /\ ReachesTerminal(p, reach)

(***************************************************************************)
(* VerifiedLimits.                                                         *)
(***************************************************************************)

(* Variant of Multiplicity: a scope opened in a branch is counted once.    *)
MultiplicityIgnoresForks(p, s) == 1

ForkArity(p, at) ==
    IF at \in DOMAIN p /\ p[at].op = "Fork" THEN Max({1, Len(p[at].targets)}) ELSE 1

(* fibre_multiplicity: the fibres that may share a program point.          *)
Multiplicity(p, s) ==
    FoldFunction(LAMBDA token, n : IF token.kind = "Barrier"
                 THEN n * ForkArity(p, token.opened_at) ELSE n, 1, s)

Barriers(s) == SelectSeq(s, LAMBDA token : token.kind = "Barrier")

(* The fibres a word may add: a fork's branches, a guard's handler, once   *)
(* for every fire of its timer.                                            *)
Spawns(p, a) ==
    CASE p[a].op = "Fork" -> Len(p[a].targets)
      [] p[a].op \in {"Guard", "GuardN"} ->
            IF a + 1 \in DOMAIN p /\ p[a + 1].op = "GuardArmTimer"
            THEN p[a + 1].fires ELSE 1
      [] OTHER -> 0

LoopMultiplier(p) ==
    LET loops == {a \in Reachable(p) :
                    p[a].op = "BrCounterLt" /\ p[a].target < a}
    IN  FoldSet(LAMBDA a, n : n * p[a].limit, 1, loops)

VerifiedLimits(p) ==
    LET stacks == {e[2] : e \in EntryStates(p)}
        loops == LoopMultiplier(p)
    IN  [max_fibers |-> 1 + MapThenSumSet(LAMBDA a : Spawns(p, a), Reachable(p)),
         max_steps |-> Cardinality(DOMAIN p) * loops,
         max_control_depth |-> Max({Len(s) : s \in stacks}),
         max_barriers |-> loops * Max({Len(Barriers(s)) * Multiplicity(p, s) : s \in stacks}),
         max_records |-> loops * Max({Len(s) * Multiplicity(p, s) : s \in stacks})]
=============================================================================
