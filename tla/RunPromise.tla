----------------------------- MODULE RunPromise -----------------------------
(***************************************************************************)
(* What make.run promises the command that calls it, without pipes, reads  *)
(* or events: the program's output is shown, in order and as the program   *)
(* goes on; the call comes back when the program has ended and all it said *)
(* is shown, and the program's exit code decides whether it returns or     *)
(* raises.                                                                 *)
(***************************************************************************)
EXTENDS Integers, Sequences, SequencesExt

CONSTANTS Process

VARIABLES
    life,       \* of each program: not started, live, dead, never created
    code,       \* its exit code
    said,       \* what it has written, without line ends
    shown,      \* what of it is on the screen
    result      \* of the call: "pending", "ok" or "failed"

vars == <<life, code, said, shown, result>>

Grows(s, t) == Len(s) < Len(t) /\ IsPrefix(s, t)
OnlyAt(q, f, new) == new = [f EXCEPT ![q] = new[q]]

Init ==
    /\ life = [q \in Process |-> "none"]
    /\ code = [q \in Process |-> 0]
    /\ said = [q \in Process |-> <<>>]
    /\ shown = [q \in Process |-> <<>>]
    /\ result = [q \in Process |-> "pending"]

Start(q) ==
    /\ life[q] = "none" /\ result[q] = "pending"
    /\ \E l \in {"live", "never"} : life' = [life EXCEPT ![q] = l]
    /\ UNCHANGED <<code, said, shown, result>>

Refuse(q) ==
    /\ life[q] = "none" /\ result[q] = "pending"
    /\ result' = [result EXCEPT ![q] = "failed"]
    /\ UNCHANGED <<life, code, said, shown>>

Say(q) ==
    /\ result[q] = "pending" /\ life[q] \in {"live", "dead"}
    /\ OnlyAt(q, said, said') /\ Grows(said[q], said'[q])
    /\ UNCHANGED <<life, code, shown, result>>

Die(q) ==
    /\ life[q] = "live"
    /\ life' = [life EXCEPT ![q] = "dead"]
    /\ OnlyAt(q, code, code')
    /\ UNCHANGED <<said, shown, result>>

Show(q) ==
    /\ result[q] = "pending"
    /\ OnlyAt(q, shown, shown')
    /\ Grows(shown[q], shown'[q]) /\ IsPrefix(shown'[q], said[q])
    /\ UNCHANGED <<life, code, said, result>>

Finish(q) ==
    /\ result[q] = "pending" /\ life[q] \in {"dead", "never"}
    /\ shown' = [shown EXCEPT ![q] = said[q]]
    /\ result' = [result EXCEPT ![q] =
                    IF life[q] = "dead" /\ code[q] # 0 THEN "failed" ELSE "ok"]
    /\ UNCHANGED <<life, code, said>>

Next == \E q \in Process :
    Start(q) \/ Refuse(q) \/ Say(q) \/ Die(q) \/ Show(q) \/ Finish(q)

Spec == Init /\ [][Next]_vars
=============================================================================
