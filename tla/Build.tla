-------------------------------- MODULE Build --------------------------------
(***************************************************************************)
(* What a build is, whoever schedules it: the targets that are out of date *)
(* or depend on one are made, each once, after those below it, a limited   *)
(* number at a time; the first failure stops it unless it is told to keep  *)
(* going; and the result is known when nothing is being made any more.     *)
(* A plan may make every target that has a command, or none of them: then  *)
(* it fails if anything is out of date.                                    *)
(***************************************************************************)
EXTENDS Integers, FiniteSets

CONSTANT Target

VARIABLES
    plan,       \* what to build and how; it never changes
    state,      \* of each target
    result

vars == <<plan, state, result>>

Plan == [deps : [Target -> SUBSET Target], stale : SUBSET Target,
         requested : SUBSET Target, makeable : SUBSET Target,
         capacity : Nat \ {0}, keepGoing : BOOLEAN]

In(s) == {t \in Target : state[t] = s}
Unmakeable == plan.stale \ plan.makeable

MayBegin(t) ==
    /\ result = "open"
    /\ state[t] = "idle"
    /\ t \in plan.requested \cap plan.stale \cap plan.makeable
    /\ plan.deps[t] \cap plan.stale \subseteq In("made")
    /\ Cardinality(In("building")) < plan.capacity
    /\ plan.keepGoing \/ In("failed") = {}

\* A command may end at once or fail at once.
Begin(t) ==
    /\ MayBegin(t)
    /\ \E s \in {"building", "made", "failed"} : state' = [state EXCEPT ![t] = s]
    /\ UNCHANGED <<plan, result>>

Finish(t) ==
    /\ state[t] = "building"
    /\ \E s \in {"made", "failed"} : state' = [state EXCEPT ![t] = s]
    /\ UNCHANGED <<plan, result>>

\* Something below t failed, or nothing says how to make it.
GiveUp(t) ==
    /\ result = "open" /\ state[t] = "idle"
    /\ t \in Unmakeable \/ plan.deps[t] \cap (In("failed") \cup Unmakeable) # {}
    /\ state' = [state EXCEPT ![t] = "failed"]
    /\ UNCHANGED <<plan, result>>

Succeed ==
    /\ result = "open"
    /\ plan.requested \cap plan.stale \subseteq In("made")
    /\ In("building") = {} /\ In("failed") = {}
    /\ result' = "ok"
    /\ UNCHANGED <<plan, state>>

Fail ==
    /\ result = "open"
    /\ In("building") = {}
    /\ \/ In("failed") # {} \/ plan.requested \cap Unmakeable # {}
       \/ plan.requested = {}
    /\ result' = "failed"
    /\ UNCHANGED <<plan, state>>

Init ==
    /\ plan \in Plan
    /\ state = [t \in Target |-> "idle"]
    /\ result = "open"

Next ==
    \/ \E t \in Target : Begin(t) \/ Finish(t) \/ GiveUp(t)
    \/ Succeed
    \/ Fail

Spec == Init /\ [][Next]_vars
=============================================================================
