---------------------------- MODULE MCInterrupt ----------------------------
(***************************************************************************)
(* Builds for TLC: two goals with a common dependency, and a goal with two *)
(* dependencies; one slot and two.                                         *)
(***************************************************************************)
EXTENDS InterruptProperties, TLC

CONSTANTS a, b, c

MCTarget == {a, b, c}
DepsOf(f) == [t \in MCTarget |-> IF t \in DOMAIN f THEN f[t] ELSE {}]
MCBuilds ==
    {[goals |-> {a, b}, deps |-> DepsOf((a :> {c}) @@ (b :> {c}))],
     [goals |-> {a}, deps |-> DepsOf(a :> {b, c})]}
MCSlots == {1, 2}
MCSignal == {"SIGINT", "SIGBREAK"}
=============================================================================
