-------------------------------- MODULE Proc --------------------------------
(***************************************************************************)
(* make.proc (lmakelib.cpp) and its callers make.run and make.jobs.dispatch *)
(* (lua/mkinit.lua): processes are spawned with a pipe for their output,   *)
(* which is read in overlapped calls, one outstanding at most, and printed *)
(* line by line; when there is nothing to do presto sleeps in              *)
(* WaitForMultipleObjects.                                                 *)
(*                                                                         *)
(* `pc' is where presto's thread is:                                       *)
(*   "idle"    outside of make.jobs.dispatch: a job may be started         *)
(*   "round"   in its loop over the running jobs                           *)
(*   "poll"    flushio(cur), about to ask for the outstanding read         *)
(*   "read"    flushio(cur), about to call ReadFile                        *)
(*   "broken"  flushio(cur), in WaitForSingleObject on the process         *)
(*   "wait"    in make.proc.wait                                           *)
(* Each step of flushio is one system call with the C code behind it; the  *)
(* children write, close and end between any two of them.                  *)
(***************************************************************************)
EXTENDS OutputLines

CONSTANTS
    Process,        \* one for each call of make.run
    Texts,          \* what the processes may write: functions on Process
    Codes,          \* exit codes
    Limits,         \* MAXIMUM_WAIT_OBJECTS (64), scaled to the instance
    BufferSize,     \* sizeof(buffer) - 1
    PipeSize,       \* nSize of the pipe
    Room            \* sizeof(leftovers)

ASSUME ProcAssumption ==
    /\ Process # {}
    /\ Texts \subseteq [Process -> Seq(Char)]
    /\ 0 \in Codes
    /\ Limits \subseteq Nat
    /\ BufferSize \in Nat \ {0}
    /\ PipeSize \in Nat \ {0}
    /\ Room \in Nat \ {0}

(***************************************************************************)
(* The strcat into leftovers is not bounded: the program is defined only   *)
(* while no stretch of output without carriage return fills it.            *)
(***************************************************************************)
ASSUME TextAssumption ==
    \A f \in Texts, q \in Process : \A i, j \in DOMAIN f[q] :
        LET stretch == SubSeq(f[q], i, j)
        IN  Contains(stretch, CR) \/ Len(stretch) < Room

VARIABLES
    text, limit,                    \* what this run was given
    child, code, out, sent,         \* the children: state, exit code, whether
                                    \* the output is open, characters written
    pipe, io, event, buffer,        \* the system: unread output, the overlapped
                                    \* read, its event, what it has read
    handle, bWaiting, exitCode,     \* struct process
    leftovers, printed,             \* the line not ended, the lines printed
    torn,                           \* history: whose reads have ended at a CR
    job,                            \* the coroutines in make.run
    pc, cur, round                  \* presto's thread

inputVars == <<text, limit>>
childVars == <<child, code, out, sent>>
lineVars == <<leftovers, printed, torn>>
structVars == <<handle, bWaiting, exitCode>>
prestoVars == <<job, pc, cur, round>>
vars == <<inputVars, childVars, pipe, io, event, buffer, structVars, lineVars,
          prestoVars>>

Running == {q \in Process : job[q] = "running"}
Shorter(a, b) == IF a < b THEN a ELSE b
Written(q) == SubSeq(text[q], 1, sent[q])

-----------------------------------------------------------------------------
(***************************************************************************)
(* make_proc_spawn.  The result of CreateProcess is not looked at: without *)
(* a process the handle is NULL, and presto has just closed the only write *)
(* ends of the pipe.  make.run then yields for the first time.             *)
(***************************************************************************)
Spawned(q, born) ==
    /\ child' = [child EXCEPT ![q] = IF born THEN "live" ELSE "never"]
    /\ out' = [out EXCEPT ![q] = born]
    /\ handle' = [handle EXCEPT ![q] = IF born THEN "open" ELSE "null"]
    /\ event' = [event EXCEPT ![q] = TRUE]
    /\ job' = [job EXCEPT ![q] = "running"]

Spawn(q) ==
    /\ pc = "idle" /\ job[q] = "new"
    /\ \E born \in BOOLEAN : Spawned(q, born)
    /\ UNCHANGED <<inputVars, code, sent, pipe, io, buffer, bWaiting, exitCode,
                   lineVars, pc, cur, round>>

(***************************************************************************)
(* MyCreatePipeEx fails: the coroutine throws before there is a process.   *)
(***************************************************************************)
SpawnRaises(q) ==
    /\ pc = "idle" /\ job[q] = "new"
    /\ job' = [job EXCEPT ![q] = "failed"]
    /\ UNCHANGED <<inputVars, childVars, pipe, io, event, buffer, structVars,
                   lineVars, pc, cur, round>>

-----------------------------------------------------------------------------
(***************************************************************************)
(* make.jobs.dispatch: resume every running job, then leave if one has     *)
(* ended (there is a slot for each), else wait.                            *)
(***************************************************************************)
BeginRound ==
    /\ pc = "idle" /\ Running # {}
    /\ pc' = "round"
    /\ round' = [todo |-> Running, waiting |-> {}]
    /\ UNCHANGED <<inputVars, childVars, pipe, io, event, buffer, structVars,
                   lineVars, job, cur>>

Resume(q) ==
    /\ pc = "round" /\ q \in round.todo
    /\ cur' = q
    /\ round' = [round EXCEPT !.todo = @ \ {q}]
    /\ pc' = IF bWaiting[q] THEN "poll" ELSE "read"
    /\ UNCHANGED <<inputVars, childVars, pipe, io, event, buffer, structVars,
                   lineVars, job>>

EndRound ==
    /\ pc = "round" /\ round.todo = {}
    /\ pc' = IF round.waiting = Running /\ Running # {} THEN "wait" ELSE "idle"
    /\ UNCHANGED <<inputVars, childVars, pipe, io, event, buffer, structVars,
                   lineVars, job, cur, round>>

(***************************************************************************)
(* make_proc_wait: the handle of each process and the event of its read.   *)
(* It fails at once when there are more than the limit.                    *)
(***************************************************************************)
Ended(q) == child[q] = "ended"
ProcessOnly(q) == handle[q] = "null" \/ Ended(q)        \* mutant
Signalled(q) == handle[q] = "null" \/ Ended(q) \/ event[q]
WaitFails == 2 * Cardinality(round.waiting) > limit
WaitReturns ==
    /\ pc = "wait"
    /\ WaitFails \/ \E q \in round.waiting : Signalled(q)
    /\ pc' = "round"
    /\ round' = [todo |-> Running, waiting |-> {}]
    /\ UNCHANGED <<inputVars, childVars, pipe, io, event, buffer, structVars,
                   lineVars, job, cur>>

-----------------------------------------------------------------------------
(***************************************************************************)
(* make_proc_flushio of `cur'.  Feed is the helper: it prints the lines of *)
(* a chunk.                                                                *)
(***************************************************************************)
Feed(chunk) ==
    LET cut == Cut(leftovers[cur], chunk)
    IN  /\ printed' = [printed EXCEPT ![cur] = @ \o cut.lines]
        /\ leftovers' = [leftovers EXCEPT ![cur] = cut.left]
        /\ torn' = IF Last(chunk) = CR THEN torn \cup {cur} ELSE torn

(***************************************************************************)
(* flushio returned and the process still runs: its job yields again.      *)
(***************************************************************************)
Yield ==
    /\ pc' = "round"
    /\ round' = [round EXCEPT !.waiting = @ \cup {cur}]

PollPending ==
    /\ pc = "poll" /\ io[cur] = "pending"
    /\ Yield
    /\ UNCHANGED <<inputVars, childVars, pipe, io, event, buffer, structVars,
                   lineVars, job, cur>>

PollData ==
    /\ pc = "poll" /\ io[cur] = "complete"
    /\ Feed(buffer[cur])
    /\ bWaiting' = [bWaiting EXCEPT ![cur] = FALSE]
    /\ io' = [io EXCEPT ![cur] = "idle"]
    /\ buffer' = [buffer EXCEPT ![cur] = <<>>]
    /\ pc' = "read"
    /\ UNCHANGED <<inputVars, childVars, pipe, event, handle, exitCode, job, cur,
                   round>>

PollBroken ==
    /\ pc = "poll" /\ io[cur] = "broken"
    /\ pc' = "broken"
    /\ UNCHANGED <<inputVars, childVars, pipe, io, event, buffer, structVars,
                   lineVars, job, cur, round>>

ReadData ==
    /\ pc = "read" /\ pipe[cur] # <<>>
    /\ LET n == Shorter(BufferSize, Len(pipe[cur]))
       IN  /\ Feed(SubSeq(pipe[cur], 1, n))
           /\ pipe' = [pipe EXCEPT ![cur] = SubSeq(@, n + 1, Len(@))]
    /\ event' = [event EXCEPT ![cur] = TRUE]
    /\ UNCHANGED <<inputVars, childVars, io, buffer, structVars, job, pc, cur,
                   round>>

NotWaiting == UNCHANGED bWaiting                        \* mutant
SetWaiting == bWaiting' = [bWaiting EXCEPT ![cur] = TRUE]
ReadPending ==
    /\ pc = "read" /\ pipe[cur] = <<>> /\ out[cur]
    /\ io' = [io EXCEPT ![cur] = "pending"]
    /\ event' = [event EXCEPT ![cur] = FALSE]
    /\ SetWaiting
    /\ Yield
    /\ UNCHANGED <<inputVars, childVars, pipe, buffer, handle, exitCode,
                   lineVars, job, cur>>

ReadBroken ==
    /\ pc = "read" /\ pipe[cur] = <<>> /\ ~out[cur]
    /\ pc' = "broken"
    /\ UNCHANGED <<inputVars, childVars, pipe, io, event, buffer, structVars,
                   lineVars, job, cur, round>>

(***************************************************************************)
(* The output is closed: wait for the process, which may live on, take its *)
(* exit code (0 from GetExitCodeProcess(NULL)), print what is left.  Then  *)
(* make.run returns or raises by the exit code.                            *)
(***************************************************************************)
NoWait == TRUE                                          \* mutant
ProcessGone == handle[cur] = "null" \/ Ended(cur)
DropRest == UNCHANGED printed                           \* mutant
PrintRest ==
    printed' = [printed EXCEPT ![cur] =
                  IF leftovers[cur] = <<>> THEN @ ELSE Append(@, leftovers[cur])]
CodeRead == IF Ended(cur) THEN code[cur] ELSE 0

Finish ==
    /\ pc = "broken"
    /\ ProcessGone
    /\ exitCode' = [exitCode EXCEPT ![cur] = CodeRead]
    /\ handle' = [handle EXCEPT ![cur] = "closed"]
    /\ bWaiting' = [bWaiting EXCEPT ![cur] = FALSE]
    /\ PrintRest
    /\ leftovers' = [leftovers EXCEPT ![cur] = <<>>]
    /\ job' = [job EXCEPT ![cur] = IF CodeRead = 0 THEN "ok" ELSE "failed"]
    /\ pc' = "round"
    /\ UNCHANGED <<inputVars, childVars, pipe, io, event, buffer, torn, cur, round>>

-----------------------------------------------------------------------------
(***************************************************************************)
(* The children.  A process, or a descendant that has inherited the        *)
(* output, writes a piece of its text; what an outstanding read does not   *)
(* take stays in the pipe.                                                 *)
(***************************************************************************)
Write(q, n) ==
    LET piece == SubSeq(text[q], sent[q] + 1, sent[q] + n)
        taken == IF io[q] = "pending" THEN Shorter(BufferSize, n) ELSE 0
    IN  /\ out[q] /\ sent[q] + n <= Len(text[q])
        /\ Len(pipe[q]) + n - taken <= PipeSize
        /\ sent' = [sent EXCEPT ![q] = @ + n]
        /\ IF io[q] = "pending"
           THEN /\ io' = [io EXCEPT ![q] = "complete"]
                /\ event' = [event EXCEPT ![q] = TRUE]
                /\ buffer' = [buffer EXCEPT ![q] = SubSeq(piece, 1, taken)]
           ELSE UNCHANGED <<io, event, buffer>>
        /\ pipe' = [pipe EXCEPT ![q] = @ \o SubSeq(piece, taken + 1, n)]
        /\ UNCHANGED <<inputVars, child, code, out, structVars, lineVars,
                       prestoVars>>

CloseOutput(q) ==
    /\ out[q] /\ sent[q] = Len(text[q])
    /\ out' = [out EXCEPT ![q] = FALSE]
    /\ IF io[q] = "pending"
       THEN /\ io' = [io EXCEPT ![q] = "broken"]
            /\ event' = [event EXCEPT ![q] = TRUE]
       ELSE UNCHANGED <<io, event>>
    /\ UNCHANGED <<inputVars, child, code, sent, pipe, buffer, structVars,
                   lineVars, prestoVars>>

End(q) ==
    /\ child[q] = "live"
    /\ child' = [child EXCEPT ![q] = "ended"]
    /\ code' \in {[code EXCEPT ![q] = c] : c \in Codes}
    /\ UNCHANGED <<inputVars, out, sent, pipe, io, event, buffer, structVars,
                   lineVars, prestoVars>>

-----------------------------------------------------------------------------
Presto ==
    \/ \E q \in Process : Spawn(q) \/ SpawnRaises(q) \/ Resume(q)
    \/ BeginRound \/ EndRound \/ WaitReturns
    \/ PollPending \/ PollData \/ PollBroken
    \/ ReadData \/ ReadPending \/ ReadBroken \/ Finish

Writes(q) == \E n \in 1 .. Len(text[q]) : Write(q, n)
Children == \E q \in Process : Writes(q) \/ CloseOutput(q) \/ End(q)

AllDone == pc = "idle" /\ \A q \in Process : job[q] \in {"ok", "failed"}
Terminated == AllDone /\ UNCHANGED vars

Init ==
    /\ text \in Texts
    /\ limit \in Limits
    /\ child = [q \in Process |-> "none"]
    /\ code = [q \in Process |-> 0]
    /\ out = [q \in Process |-> FALSE]
    /\ sent = [q \in Process |-> 0]
    /\ pipe = [q \in Process |-> <<>>]
    /\ io = [q \in Process |-> "idle"]
    /\ event = [q \in Process |-> FALSE]
    /\ buffer = [q \in Process |-> <<>>]
    /\ handle = [q \in Process |-> "none"]
    /\ bWaiting = [q \in Process |-> FALSE]
    /\ exitCode = [q \in Process |-> 0]
    /\ leftovers = [q \in Process |-> <<>>]
    /\ printed = [q \in Process |-> <<>>]
    /\ torn = {}
    /\ job = [q \in Process |-> "new"]
    /\ pc = "idle"
    /\ cur = CHOOSE q \in Process : TRUE
    /\ round = [todo |-> {}, waiting |-> {}]

Next == Presto \/ Children \/ Terminated

Spec == Init /\ [][Next]_vars

(***************************************************************************)
(* presto's thread runs whenever it can.  The children write and close     *)
(* their output at last; that they end as well is not assumed.             *)
(***************************************************************************)
Fairness ==
    /\ WF_vars(Presto)
    /\ \A q \in Process : WF_vars(Writes(q)) /\ WF_vars(CloseOutput(q))

FairSpec == Spec /\ Fairness
=============================================================================
