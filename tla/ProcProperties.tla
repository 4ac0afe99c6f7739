--------------------------- MODULE ProcProperties ---------------------------
(***************************************************************************)
(* What the output of the processes and the results of their jobs owe to   *)
(* what the processes do.                                                  *)
(***************************************************************************)
EXTENDS Proc

Finished(q) == job[q] \in {"ok", "failed"}
Shown(q) == FlattenSeq(printed[q])

(***************************************************************************)
(* The types, and that a buffer holds something exactly while the read     *)
(* that filled it has completed and was not asked for.                     *)
(***************************************************************************)
TypeOK ==
    /\ child \in [Process -> {"none", "live", "ended", "never"}]
    /\ code \in [Process -> Codes]
    /\ out \in [Process -> BOOLEAN]
    /\ \A q \in Process : sent[q] \in 0 .. Len(text[q])
    /\ \A q \in Process : Len(pipe[q]) <= PipeSize /\ Len(buffer[q]) <= BufferSize
    /\ io \in [Process -> {"idle", "pending", "complete", "broken"}]
    /\ event \in [Process -> BOOLEAN]
    /\ \A q \in Process : io[q] = "complete" <=> buffer[q] # <<>>
    /\ handle \in [Process -> {"none", "open", "null", "closed"}]
    /\ bWaiting \in [Process -> BOOLEAN]
    /\ exitCode \in [Process -> Codes]
    /\ job \in [Process -> {"new", "running", "ok", "failed"}]
    /\ pc \in {"idle", "round", "poll", "read", "broken", "wait"}
    /\ cur \in Process
    /\ round \in [todo : SUBSET Process, waiting : SUBSET Process]

(***************************************************************************)
(* Every character that is no line end and was written is, in its place,   *)
(* on the screen, left over, in the buffer of a completed read or in the   *)
(* pipe: no read is started over one whose data was not taken yet.         *)
(***************************************************************************)
Conserved ==
    \A q \in Process :
        Without(Shown(q) \o leftovers[q] \o buffer[q] \o pipe[q], LineEnd)
            = Without(Written(q), LineEnd)

(***************************************************************************)
(* However the output was cut into reads, a finished job has shown the     *)
(* lines of its text; only a read that ended at a carriage return may      *)
(* leave a trace, the line feed at the head of the next line.              *)
(***************************************************************************)
LinesWhole ==
    \A q \in Process :
        Finished(q) =>
            \/ printed[q] = LinesOf(Written(q))
            \/ q \in torn /\ SameUpToTornEnds(printed[q], LinesOf(Written(q)))

(***************************************************************************)
(* leftovers never overruns its 1024 bytes while no line of the text does: *)
(* what was printed is erased before the next line is put in.              *)
(***************************************************************************)
LeftoversFit == \A q \in Process : Len(leftovers[q]) < Room

(***************************************************************************)
(* A command succeeds or fails by the exit code of its process, read after *)
(* the process has ended although flushio only saw its output closed.  The *)
(* exception is a process that was never created: that counts as success.  *)
(***************************************************************************)
ExitCodeTrue ==
    \A q \in Process :
        /\ job[q] = "ok" => \/ child[q] = "ended" /\ code[q] = 0
                            \/ child[q] = "never"
        /\ job[q] = "failed" => \/ child[q] = "ended" /\ code[q] # 0
                                \/ child[q] = "none"

(***************************************************************************)
(* presto sleeps in make.proc.wait only while each process waited for is   *)
(* running, has its output open, and has written nothing that presto has   *)
(* not taken: what comes between the last read and the wait ends the wait. *)
(***************************************************************************)
Asleep == pc = "wait" /\ ~WaitFails /\ ~\E q \in round.waiting : Signalled(q)
NoLostWakeup ==
    Asleep => \A q \in round.waiting :
                 /\ child[q] = "live" /\ out[q]
                 /\ buffer[q] = <<>> /\ pipe[q] = <<>>

(***************************************************************************)
(* A job that has started finishes, unless presto is held up forever in    *)
(* flushio by a process that closed its output and lives on.  A process    *)
(* that lives on with its output held by a descendant, or more processes   *)
(* than WaitForMultipleObjects can take, hold up nobody.                   *)
(***************************************************************************)
HeldUp == pc = "broken" /\ ~ProcessGone
JobsFinish ==
    \/ <>[]HeldUp
    \/ \A q \in Process : job[q] = "running" ~> Finished(q)

(***************************************************************************)
(* spawn, flushio and wait together keep the promise of make.run.          *)
(***************************************************************************)
Life == [q \in Process |-> IF child[q] = "ended" THEN "dead" ELSE child[q]]
Said == [q \in Process |-> Without(Written(q), LineEnd)]
OnScreen == [q \in Process |-> Without(Shown(q), LineEnd)]
Result == [q \in Process |-> IF Finished(q) THEN job[q] ELSE "pending"]
Promise == INSTANCE RunPromise WITH
    life <- Life, code <- code, said <- Said, shown <- OnScreen, result <- Result
KeepsPromise == Promise!Spec
=============================================================================
