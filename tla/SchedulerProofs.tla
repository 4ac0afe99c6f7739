--------------------------- MODULE SchedulerProofs ---------------------------
(***************************************************************************)
(* Theorems about Scheduler, for every set of targets, graph, script and   *)
(* number of slots that the assumptions of its modules allow.              *)
(*                                                                         *)
(* The inductive invariant IInv says, besides the types:                   *)
(*   StatusInv  make.jobs.running, make.jobs.count and the statuses agree  *)
(*   StackInv   nested calls descend the graph, and none is for a target   *)
(*              whose fate was decided                                     *)
(*   RoundInv   a turn of the dispatch loop resumes jobs that still run    *)
(*   SlotInv    presto looks for work only while a slot is free            *)
(***************************************************************************)
EXTENDS SchedulerProperties, Recursion

\* A source object has no status that lasts; what was started has one.
StatusInv ==
    /\ running = {t \in Target : status[t] = "running"}
    /\ count = Cardinality(running)
    /\ \A t \in Target : KindOf[t] = "source" => status[t] = "none"
    /\ \A t \in started : status[t] # "none"

\* No job is resumed twice in a turn, and none joins while it lasts.
RoundInv ==
    pc = "resume" => round.todo \subseteq running /\ count <= round.jobs

-----------------------------------------------------------------------------
(***************************************************************************)
(* Replacing the head of a sequence keeps its length and its other         *)
(* elements: what setting a local of the innermost call does to the stack. *)
(***************************************************************************)
LEMMA SequenceUpdates ==
    ASSUME NEW S, NEW s \in Seq(S), NEW f \in S, NEW g \in S, s # <<>>
    PROVE  /\ Head(s) \in S /\ Head(s) = s[1]
           /\ Tail(s) \in Seq(S) /\ Len(Tail(s)) = Len(s) - 1
           /\ \A i \in 1..Len(s) - 1 : Tail(s)[i] = s[i + 1]
           /\ <<f>> \o Tail(s) \in Seq(S)
           /\ Len(<<f>> \o Tail(s)) = Len(s)
           /\ (<<f>> \o Tail(s))[1] = f
           /\ \A i \in 2..Len(s) : (<<f>> \o Tail(s))[i] = s[i]
           /\ <<g>> \o (<<f>> \o Tail(s)) \in Seq(S)
OBVIOUS

(***************************************************************************)
(* The innermost call and its callers are frames.                          *)
(***************************************************************************)
LEMMA TopFrame ==
    ASSUME stack \in Seq(Frame), stack # <<>>
    PROVE  /\ Top \in Frame
           /\ Callers \in Seq(Frame)
           /\ \A f \in Frame : <<f>> \o Callers \in Seq(Frame)
BY SequenceUpdates DEF Top, Callers

(***************************************************************************)
(* The steps of update_goals keep the types.                               *)
(***************************************************************************)
LEMMA MainLoopTypes ==
    ASSUME TypeOK, MainLoop
    PROVE  TypeOK'
<1> USE DEF TypeOK, TargetTypeOK, JobTypeOK, loopVars, callVars, dispatchVars,
   evalFrame, targetVars, cacheVars, fileVars, jobVars
<1>1. CASE UpdateGoals
  BY <1>1, InputAssumption DEF UpdateGoals
<1>2. CASE BeginPass
  BY <1>2 DEF BeginPass
<1>3. CASE EndPass
  BY <1>3 DEF EndPass, AfterPass
<1>4. CASE Stop
  BY <1>4 DEF Stop, CleanUp
<1>5. CASE GoalRunning
  BY <1>5 DEF GoalRunning, AfterGoal, GoalAnswered
<1>6. CASE GoalDone
  BY <1>6 DEF GoalDone, AfterGoal, GoalAnswered, FinishGoal
<1>7. CASE GoalFailedGoOn
  BY <1>7 DEF GoalFailedGoOn, AfterGoal, GoalAnswered, FinishGoal, NoteFailure
<1>8. CASE GoalFailedExit
  BY <1>8 DEF GoalFailedExit, ExitAfter, GoalAnswered
<1> QED
  BY <1>1, <1>2, <1>3, <1>4, <1>5, <1>6, <1>7, <1>8 DEF MainLoop

(***************************************************************************)
(* The steps of bring_up_to_date keep the types.                           *)
(***************************************************************************)
LEMMA EvaluateTypes ==
    ASSUME TypeOK, StatusInv, Evaluate
    PROVE  TypeOK'
<1> USE DEF TypeOK, TargetTypeOK, JobTypeOK, loopVars, callVars, dispatchVars,
   evalFrame, targetVars, cacheVars, fileVars, jobVars
<1> DEFINE FrameOf(t) == [t |-> t, todo |-> deps[t], build |-> always \/ ~Exists(t), wait |-> FALSE]
<1>t. stack # <<>> => /\ Top \in Frame
                      /\ Callers \in Seq(Frame)
                      /\ \A f \in Frame : <<f>> \o Callers \in Seq(Frame)
  BY TopFrame
<1>b. \A t \in Target : Exists(t) \in BOOLEAN
  BY TargetAssumption DEF Exists, OnDisk
<1>e. \A t \in Target : ReadExists(t) => seenExists' \in [Target -> BOOLEAN \cup {Unread}]
  BY <1>b DEF ReadExists
<1>r. ret.st # "pending" => ret \in [of : Target, st : Statuses]
  BY DEF NoReturn
<1>d. \A f \in Frame : [f EXCEPT !.build = TRUE] \in Frame
  BY DEF Frame
<1>m. ASSUME NEW t \in Target, NEW d \in Target, MarkNewer(t, d)
      PROVE  depsNewer' \in [Target -> SUBSET Target]
  BY <1>m DEF MarkNewer
<1>1. ASSUME NEW t \in Target, NEW below \in Seq(Frame), Calls(t, below)
      PROVE  /\ ret' \in {NoReturn} \cup [of : Target, st : Statuses]
             /\ stack' \in Seq(Frame)
             /\ seenExists' \in [Target -> BOOLEAN \cup {Unread}]
  <2>1. FrameOf(t) \in Frame
    BY <1>b DEF Frame, always, Flags
  <2>2. <<FrameOf(t)>> \o below \in Seq(Frame)
    BY <2>1
  <2>3. CASE NeedsNoCall(t)
    BY <1>1, <2>3 DEF Calls
  <2>4. CASE ~NeedsNoCall(t)
    BY <1>1, <1>e, <2>2, <2>4 DEF Calls
  <2> QED
    BY <2>3, <2>4
<1>2. ASSUME NEW t \in Target, VisitGoal(t) PROVE TypeOK'
  <2>1. <<>> \in Seq(Frame)
    OBVIOUS
  <2> QED
    BY <1>1, <1>2, <2>1 DEF VisitGoal
<1>3. ASSUME NEW d \in Target, VisitDep(d) PROVE TypeOK'
  <2>1. <<[Top EXCEPT !.todo = @ \ {d}]>> \o Callers \in Seq(Frame)
    BY <1>3, <1>t DEF VisitDep, InLoop, Frame
  <2> QED
    BY <1>1, <1>3, <2>1 DEF VisitDep
<1>4. CASE DepUpdated
  <2>1. /\ stack # <<>> /\ Top \in Frame /\ Top.t \in Target /\ ret.of \in Target
        /\ stack' = <<[Top EXCEPT !.build = TRUE]>> \o Callers
    BY <1>4, <1>t, <1>r DEF DepUpdated, Answered, InLoop, SetTop, Frame
  <2>2. stack' \in Seq(Frame)
    BY <2>1, <1>t, <1>d
  <2>3. depsNewer' \in [Target -> SUBSET Target]
    BY <1>4, <1>m, <2>1 DEF DepUpdated
  <2> QED
    BY <1>4, <2>2, <2>3 DEF DepUpdated
<1>5. CASE DepUnchanged
  <2>1. /\ stack # <<>> /\ Top \in Frame /\ Top.t \in Target /\ ret.of \in Target
    BY <1>5, <1>t, <1>r DEF DepUnchanged, Answered, InLoop, Frame
  <2>2. stack' \in Seq(Frame) /\ depsNewer' \in [Target -> SUBSET Target]
    <3>1. CASE Newer(ret.of, Top.t)
      <4>1. SetTop([Top EXCEPT !.build = TRUE]) /\ MarkNewer(Top.t, ret.of)
        BY <1>5, <3>1 DEF DepUnchanged
      <4>2. stack' \in Seq(Frame)
        BY <4>1, <2>1, <1>t, <1>d DEF SetTop
      <4> QED
        BY <4>1, <4>2, <2>1, <1>m
    <3>2. CASE ~Newer(ret.of, Top.t)
      BY <1>5, <3>2 DEF DepUnchanged
    <3> QED
      BY <3>1, <3>2
  <2>3. \A x \in Target : Timestamp(x) \in Int \cup {Unread}
    BY TargetAssumption DEF Timestamp
  <2>4. seenTime' \in [Target -> Int \cup {Unread}]
    BY <1>5, <2>3 DEF DepUnchanged, ReadTimestamps
  <2> QED
    BY <1>5, <2>2, <2>4 DEF DepUnchanged
<1>6. CASE DepRunning
  BY <1>6, <1>t DEF DepRunning, Answered, InLoop, SetTop, Frame, NoReturn
<1>7. CASE DepPruned
  BY <1>7, <1>t DEF DepPruned, Answered, InLoop, Frame, NoReturn
<1>8. CASE DepFailed
  BY <1>8, <1>t DEF DepFailed, Answered, InLoop, Frame, NoReturn, Return,
     SetStatus, Statuses
<1>9. CASE TimestampRaises
  BY <1>9, <1>t DEF TimestampRaises, Answered, InLoop, Frame, NoReturn, Return,
     Statuses
<1>10. CASE ReturnRunning
  BY <1>10, <1>t DEF ReturnRunning, LoopDone, InLoop, Frame, Return, Statuses
<1>11. CASE ReturnDepError
  BY <1>11, <1>t DEF ReturnDepError, LoopDone, InLoop, Frame, Return,
     SetStatus, Statuses
<1>12. CASE QuestionRaises
  BY <1>12, <1>t DEF QuestionRaises, MustBuild, DepsSettled, LoopDone, InLoop,
     Frame, Return, Statuses
<1>13. CASE StartJob
  <2>1. /\ stack # <<>> /\ Top \in Frame /\ Top.t \in Target
    BY <1>13, <1>t DEF StartJob, MayStart, MustBuild, DepsSettled, LoopDone,
       InLoop, Frame
  <2>2. stack' \in Seq(Frame) /\ ret' \in [of : Target, st : Statuses]
    BY <1>13, <2>1, <1>t DEF StartJob, Return, Statuses
  <2>3. \A s \in Statuses : SetStatus(Top.t, s) => status' \in [Target -> Statuses]
    BY <2>1 DEF SetStatus
  <2>4. CASE StartThrows(Top.t)
    BY <1>13, <2>1, <2>2, <2>3, <2>4 DEF StartJob, StartThrows, Statuses
  <2>5. CASE StartReturns(Top.t)
    <3>1. disk' \in [Target -> Int] /\ clock' \in Nat \ {0}
      BY <2>1, <2>5 DEF StartReturns, WriteOutput, Touch
    <3> QED
      BY <1>13, <2>1, <2>2, <2>3, <2>5, <3>1 DEF StartJob, StartReturns,
         Statuses
  <2>6. CASE StartSuspends(Top.t)
    <3>1. AtStep(Top.t, 1) \in [step : Nat, proc : Processes]
      BY DEF AtStep, Processes
    <3> QED
      BY <1>13, <2>1, <2>2, <2>3, <2>6, <3>1 DEF StartJob, StartSuspends,
         Statuses
  <2> QED
    BY <1>13, <2>4, <2>5, <2>6 DEF StartJob
<1>14. CASE NoRule
  BY <1>14, <1>t, <1>e, <1>b DEF NoRule, MustBuild, DepsSettled, LoopDone,
     InLoop, Frame, Return, SetStatus, Statuses
<1>15. CASE NothingToRun
  BY <1>15, <1>t, <1>e, <1>b DEF NothingToRun, MustBuild, DepsSettled,
     LoopDone, InLoop, Frame, Return, Statuses
<1>16. CASE UpToDate
  BY <1>16, <1>t DEF UpToDate, DepsSettled, LoopDone, InLoop, Frame, Return,
     Statuses
<1> QED
  BY <1>2, <1>3, <1>4, <1>5, <1>6, <1>7, <1>8, <1>9, <1>10, <1>11, <1>12,
     <1>13, <1>14, <1>15, <1>16 DEF Evaluate

(***************************************************************************)
(* The steps of make.jobs.dispatch keep the types; that count stays a      *)
(* natural number rests on its being the number of running jobs.           *)
(***************************************************************************)
LEMMA DispatchTypes ==
    ASSUME TypeOK, StatusInv, RoundInv, Dispatch
    PROVE  TypeOK'
<1> USE DEF TypeOK, TargetTypeOK, JobTypeOK, loopVars, callVars, dispatchVars,
   targetVars, cacheVars, fileVars, jobVars
<1>1. CASE BeginRound
  BY <1>1 DEF BeginRound
<1>2. CASE EndRound
  BY <1>2 DEF EndRound, AfterDispatch, AfterPass
<1>3. CASE WaitReturns
  BY <1>3 DEF WaitReturns
<1>4. ASSUME NEW t \in Target, NEW s \in Statuses, SetStatus(t, s)
      PROVE  status' \in [Target -> Statuses]
  BY <1>4 DEF SetStatus
<1>5. ASSUME NEW t \in Target
      PROVE  WaitFor(t) \in [jobs : Nat, todo : SUBSET Target, waiting : SUBSET Target]
  BY DEF WaitFor
<1>6. ASSUME NEW t \in Target
      PROVE  DoneWith(t) \in [jobs : Nat, todo : SUBSET Target, waiting : SUBSET Target]
  BY DEF DoneWith
<1>7. ASSUME NEW t \in Target, Resume(t)
      PROVE  count - 1 \in Nat
  <2>1. t \in running
    BY <1>7 DEF Resume, RoundInv
  <2>2. IsFiniteSet(running)
    BY TargetAssumption, FS_Subset
  <2>3. Cardinality(running) \in Nat /\ Cardinality(running) # 0
    BY <2>1, <2>2, FS_EmptySet, FS_CardinalityType
  <2> QED
    BY <2>3 DEF StatusInv
<1>8. ASSUME NEW t \in Target, ResumeBusy(t) PROVE TypeOK'
  BY <1>5, <1>8 DEF ResumeBusy
<1>9. ASSUME NEW t \in Target, ResumeAdvances(t) PROVE TypeOK'
  <2>1. AtStep(t, job[t].step + 1) \in [step : Nat, proc : Processes]
    BY DEF AtStep, Processes
  <2>2. round' \in [jobs : Nat, todo : SUBSET Target, waiting : SUBSET Target]
    BY <1>5, <1>6, <1>9 DEF ResumeAdvances
  <2> QED
    BY <1>9, <2>1, <2>2 DEF ResumeAdvances, JobAdvances
<1>10. ASSUME NEW t \in Target, ResumeReturns(t) PROVE TypeOK'
  <2>1. status' \in [Target -> Statuses]
    BY <1>4, <1>10 DEF ResumeReturns, JobReturns, Statuses
  <2>2. disk' \in [Target -> Int] /\ clock' \in Nat \ {0}
    BY <1>10 DEF ResumeReturns, JobReturns, WriteOutput, Touch
  <2> QED
    BY <1>6, <1>7, <1>10, <2>1, <2>2 DEF ResumeReturns, JobReturns
<1>11. ASSUME NEW t \in Target, ResumeThrowsGoOn(t) PROVE TypeOK'
  <2>1. status' \in [Target -> Statuses]
    BY <1>4, <1>11 DEF ResumeThrowsGoOn, JobThrows, Statuses
  <2> QED
    BY <1>6, <1>7, <1>11, <2>1 DEF ResumeThrowsGoOn, JobThrows, NoteFailure
<1>12. ASSUME NEW t \in Target, ResumeThrowsExit(t) PROVE TypeOK'
  <2>1. status' \in [Target -> Statuses]
    BY <1>4, <1>12 DEF ResumeThrowsExit, JobThrows, Statuses
  <2>2. count' \in Nat /\ count' = count - 1
    BY <1>7, <1>12 DEF ResumeThrowsExit, JobThrows
  <2>3. draining' \in BOOLEAN /\ pc' \in {"round", "stop"}
    BY <1>12, <2>2 DEF ResumeThrowsExit, ExitAfter
  <2> QED
    BY <1>6, <1>12, <2>1, <2>2, <2>3 DEF ResumeThrowsExit, JobThrows
<1> QED
  BY <1>1, <1>2, <1>3, <1>8, <1>9, <1>10, <1>11, <1>12 DEF Dispatch

(***************************************************************************)
(* Processes and the editor keep the types.                                *)
(***************************************************************************)
LEMMA EnvironmentTypes ==
    ASSUME TypeOK, Environment
    PROVE  TypeOK'
<1> USE DEF TypeOK, TargetTypeOK, JobTypeOK, loopVars, callVars, dispatchVars,
   targetVars, cacheVars, fileVars, jobVars
<1>1. CASE WaitSeesOutput
  BY <1>1 DEF WaitSeesOutput
<1>2. ASSUME NEW t \in Target, ProcExit(t) PROVE TypeOK'
  <2>1. disk' \in [Target -> Int] /\ clock' \in Nat \ {0}
    BY <1>2 DEF ProcExit, ProcSucceeds, ProcFails, WriteOutput, Touch
  <2>2. job' \in [Target -> [step : Nat, proc : Processes]]
    <3>1. PICK p \in Processes : job' = [job EXCEPT ![t] = [job[t] EXCEPT !.proc = p]]
      BY <1>2 DEF ProcExit, ProcSucceeds, ProcFails, Processes
    <3>2. [job[t] EXCEPT !.proc = p] \in [step : Nat, proc : Processes]
      OBVIOUS
    <3> QED
      BY <3>1, <3>2
  <2> QED
    BY <1>2, <2>1, <2>2 DEF ProcExit, ProcSucceeds, ProcFails
<1>3. ASSUME NEW t \in Target, Edit(t) PROVE TypeOK'
  BY <1>3 DEF Edit, Touch
<1> QED
  BY <1>1, <1>2, <1>3 DEF Environment

-----------------------------------------------------------------------------
(***************************************************************************)
(* The stack: each call is for a dependency of its caller's target, so the *)
(* ranks rise from the innermost call outwards and no target occurs twice. *)
(***************************************************************************)
Ranked(s) ==
    /\ \A i \in 1..Len(s) : \A d \in s[i].todo : Rank[d] < Rank[s[i].t]
    /\ \A i, j \in 1..Len(s) : i < j => Rank[s[i].t] < Rank[s[j].t]

\* bring_up_to_date passed its early return for every target on the stack.
Unstarted(s) == \A i \in 1..Len(s) : status[s[i].t] = "none"

\* -k may prune dependencies but nothing adds any.
StackInv ==
    /\ \A t \in Target : deps[t] \subseteq input.deps[t]
    /\ Ranked(stack)
    /\ Unstarted(stack)

(***************************************************************************)
(* Returning from the innermost call leaves a ranked stack.                *)
(***************************************************************************)
LEMMA RankedTail ==
    ASSUME NEW s \in Seq(Frame), s # <<>>, Ranked(s)
    PROVE  /\ Ranked(Tail(s))
           /\ \A i \in 1..Len(Tail(s)) : Rank[Head(s).t] < Rank[Tail(s)[i].t]
BY DEF Ranked

(***************************************************************************)
(* So does going on with the loop over the dependencies in it.             *)
(***************************************************************************)
LEMMA RankedTop ==
    ASSUME NEW s \in Seq(Frame), s # <<>>, Ranked(s), NEW f \in Frame,
           f.t = Head(s).t, f.todo \subseteq Head(s).todo
    PROVE  Ranked(<<f>> \o Tail(s))
<1> DEFINE r == <<f>> \o Tail(s)
<1>1. Len(r) = Len(s) /\ r[1] = f /\ \A i \in 2..Len(s) : r[i] = s[i]
  BY SequenceUpdates
<1>2. \A i \in 1..Len(s) : r[i].t = s[i].t /\ r[i].todo \subseteq s[i].todo
  BY <1>1
<1> HIDE DEF r
<1> QED
  BY <1>1, <1>2 DEF Ranked, r

(***************************************************************************)
(* So does calling bring_up_to_date for a target of smaller rank.          *)
(***************************************************************************)
LEMMA RankedPush ==
    ASSUME NEW s \in Seq(Frame), Ranked(s), NEW g \in Frame,
           \A d \in g.todo : Rank[d] < Rank[g.t],
           s # <<>> => Rank[g.t] < Rank[Head(s).t]
    PROVE  Ranked(<<g>> \o s)
<1> DEFINE r == <<g>> \o s
<1>1. Len(r) = Len(s) + 1 /\ r[1] = g /\ \A i \in 1..Len(s) : r[i + 1] = s[i]
  OBVIOUS
<1>2. \A i \in 2..Len(r) : r[i] = s[i - 1] /\ i - 1 \in 1..Len(s)
  BY <1>1
<1>3. \A i \in 1..Len(s) : Rank[g.t] < Rank[s[i].t]
  <2> TAKE i \in 1..Len(s)
  <2>1. 1 \in 1..Len(s) /\ s # <<>> /\ Head(s) = s[1]
    OBVIOUS
  <2>2. i = 1 \/ Rank[s[1].t] < Rank[s[i].t]
    BY <2>1 DEF Ranked
  <2>3. s[1].t \in Target /\ s[i].t \in Target /\ g.t \in Target
    <3>1. s[1] \in Frame /\ s[i] \in Frame
      BY <2>1
    <3> QED
      BY <3>1 DEF Frame
  <2>4. \A t \in Target : Rank[t] \in Nat
    BY InputAssumption
  <2>5. Rank[g.t] < Rank[s[1].t]
    BY <2>1
  <2>6. Rank[g.t] \in Nat /\ Rank[s[1].t] \in Nat /\ Rank[s[i].t] \in Nat
    BY <2>3, <2>4
  <2> QED
    BY <2>2, <2>5, <2>6
<1> HIDE DEF r
<1>4. \A i \in 1..Len(r) : \A d \in r[i].todo : Rank[d] < Rank[r[i].t]
  BY <1>1, <1>2 DEF Ranked
<1>5. ASSUME NEW i \in 1..Len(r), NEW j \in 1..Len(r), i < j
      PROVE  Rank[r[i].t] < Rank[r[j].t]
  <2>1. CASE i = 1
    <3>1. r[i] = g /\ r[j] = s[j - 1] /\ j - 1 \in 1..Len(s)
      BY <1>1, <1>2, <1>5, <2>1
    <3> QED
      BY <1>3, <3>1
  <2>2. CASE i # 1
    <3>1. /\ r[i] = s[i - 1] /\ i - 1 \in 1..Len(s)
          /\ r[j] = s[j - 1] /\ j - 1 \in 1..Len(s)
          /\ i - 1 < j - 1
      BY <1>1, <1>2, <1>5, <2>2
    <3> QED
      BY <3>1 DEF Ranked
  <2> QED
    BY <2>1, <2>2
<1> QED
  BY <1>4, <1>5 DEF Ranked, r

-----------------------------------------------------------------------------
(***************************************************************************)
(* make.jobs.running is finite.                                            *)
(***************************************************************************)
LEMMA FiniteRunning ==
    ASSUME TypeOK
    PROVE  IsFiniteSet(running)
BY TargetAssumption, FS_Subset DEF TypeOK, JobTypeOK

(***************************************************************************)
(* Deciding an undecided target's fate without a job keeps the accounts.   *)
(***************************************************************************)
LEMMA StatusSettles ==
    ASSUME TypeOK, StatusInv, NEW t \in Target, status[t] = "none",
           NEW s \in {"updated", "error"}, SetStatus(t, s),
           UNCHANGED <<running, count>>,
           \/ started' = started
           \/ started' = started \cup {t} /\ KindOf[t] # "source"
    PROVE  StatusInv'
<1> USE DEF StatusInv, SetStatus, TypeOK, TargetTypeOK, JobTypeOK
<1>1. CASE KindOf[t] = "source"
  BY <1>1
<1>2. CASE KindOf[t] # "source"
  <2>1. status' = [status EXCEPT ![t] = s] /\ status'[t] = s
    BY <1>2
  <2>2. \A u \in Target : u # t => status'[u] = status[u]
    BY <2>1
  <2>3. running' = {u \in Target : status'[u] = "running"}
    BY <2>1, <2>2
  <2> QED
    BY <1>2, <2>1, <2>2, <2>3
<1> QED
  BY <1>1, <1>2

(***************************************************************************)
(* So does make.jobs.start when the command yields.                        *)
(***************************************************************************)
LEMMA StatusStarts ==
    ASSUME TypeOK, StatusInv, NEW t \in Target, status[t] = "none",
           KindOf[t] # "source", SetStatus(t, "running"),
           running' = running \cup {t}, count' = count + 1,
           started' = started \cup {t}
    PROVE  StatusInv'
<1> USE DEF StatusInv, SetStatus, TypeOK, TargetTypeOK, JobTypeOK
<1>1. status'[t] = "running" /\ \A u \in Target : u # t => status'[u] = status[u]
  OBVIOUS
<1>2. Cardinality(running') = Cardinality(running) + 1
  BY FiniteRunning, FS_AddElement
<1>3. running' = {u \in Target : status'[u] = "running"}
  BY <1>1
<1> QED
  BY <1>1, <1>2, <1>3

(***************************************************************************)
(* So does the dispatcher when a job ends, well or not.                    *)
(***************************************************************************)
LEMMA StatusFinishes ==
    ASSUME TypeOK, StatusInv, NEW t \in running,
           NEW s \in {"updated", "error"}, SetStatus(t, s),
           running' = running \ {t}, count' = count - 1, UNCHANGED started
    PROVE  StatusInv'
<1> USE DEF StatusInv, SetStatus, TypeOK, TargetTypeOK, JobTypeOK
<1>1. t \in Target /\ KindOf[t] # "source"
  OBVIOUS
<1>2. status'[t] = s /\ \A u \in Target : u # t => status'[u] = status[u]
  BY <1>1
<1>3. Cardinality(running') = Cardinality(running) - 1
  <2>1. IsFiniteSet(running)
    BY FiniteRunning
  <2> HIDE DEF StatusInv, SetStatus, TypeOK, TargetTypeOK, JobTypeOK
  <2>2. Cardinality(running \ {t}) = Cardinality(running) - 1
    BY <2>1, FS_RemoveElement
  <2> QED
    BY <2>2
<1>4. running' = {u \in Target : status'[u] = "running"}
  BY <1>1, <1>2
<1> QED
  BY <1>1, <1>2, <1>3, <1>4

\* Most steps leave the jobs and the statuses alone.
Quiet == UNCHANGED <<status, running, count, started>>

\* The steps of bring_up_to_date that do.
QuietCall ==
    \/ \E t \in Target : VisitGoal(t) \/ VisitDep(t)
    \/ DepUpdated \/ DepUnchanged \/ DepRunning \/ DepPruned
    \/ TimestampRaises \/ ReturnRunning \/ QuestionRaises
    \/ NothingToRun \/ UpToDate

(***************************************************************************)
(* Only the start and the end of a command, or a failure in                *)
(* bring_up_to_date, touch the jobs and the statuses.                      *)
(***************************************************************************)
LEMMA QuietSteps ==
    ASSUME \/ QuietCall \/ MainLoop \/ Environment
           \/ BeginRound \/ EndRound \/ WaitReturns
           \/ \E t \in Target : ResumeBusy(t)
           \/ UNCHANGED vars
    PROVE  Quiet
<1> USE DEF Quiet, vars, targetVars, cacheVars, fileVars, jobVars, loopVars,
   callVars, dispatchVars, evalFrame
<1>1. CASE QuietCall
  BY <1>1 DEF QuietCall, VisitGoal, VisitDep, DepUpdated, DepUnchanged,
     DepRunning, DepPruned, TimestampRaises, ReturnRunning, QuestionRaises,
     NothingToRun, UpToDate
<1>2. CASE MainLoop
  BY <1>2 DEF MainLoop, UpdateGoals, BeginPass, EndPass, Stop, GoalRunning,
     GoalDone, GoalFailedGoOn, GoalFailedExit
<1>3. CASE Environment
  BY <1>3 DEF Environment, WaitSeesOutput, ProcExit, ProcSucceeds, ProcFails,
     Edit
<1>4. CASE BeginRound \/ EndRound \/ WaitReturns \/ \E t \in Target : ResumeBusy(t)
  BY <1>4 DEF BeginRound, EndRound, WaitReturns, ResumeBusy
<1> QED
  BY <1>1, <1>2, <1>3, <1>4

(***************************************************************************)
(* The target of the innermost call has no status yet, and none of the     *)
(* outer calls is for that target.                                         *)
(***************************************************************************)
LEMMA TopUnstarted ==
    ASSUME TypeOK, StackInv, InLoop
    PROVE  /\ stack \in Seq(Frame) /\ stack # <<>>
           /\ Top \in Frame /\ Top = stack[1] /\ Top.t \in Target
           /\ Callers = Tail(stack) /\ Callers \in Seq(Frame)
           /\ status[Top.t] = "none"
           /\ \A i \in 1..Len(Callers) :
                 /\ Callers[i] \in Frame
                 /\ status[Callers[i].t] = "none"
                 /\ Callers[i].t # Top.t
<1>1. stack \in Seq(Frame) /\ stack # <<>> /\ 1 \in 1..Len(stack)
  BY DEF TypeOK, InLoop
<1>2. Top \in Frame /\ Top = stack[1] /\ Callers \in Seq(Frame)
  BY <1>1, TopFrame DEF Top
<1>3. Top.t \in Target
  BY <1>2 DEF Frame
<1>4. status[Top.t] = "none"
  BY <1>1, <1>2 DEF StackInv, Unstarted
<1>5. \A i \in 1..Len(Callers) : Callers[i] = stack[i + 1] /\ i + 1 \in 1..Len(stack)
  BY <1>1 DEF Callers
<1>6. ASSUME NEW i \in 1..Len(Callers)
      PROVE  /\ Callers[i] \in Frame
             /\ status[Callers[i].t] = "none"
             /\ Callers[i].t # Top.t
  <2>1. Callers[i] \in Frame
    BY <1>2
  <2>2. status[Callers[i].t] = "none"
    BY <1>5 DEF StackInv, Unstarted
  <2>3. Rank[Top.t] < Rank[Callers[i].t]
    BY <1>1, <1>2, RankedTail DEF StackInv, Callers, Top
  <2>4. Rank[Top.t] \in Nat
    BY <1>3, InputAssumption
  <2> QED
    BY <2>1, <2>2, <2>3, <2>4 DEF Frame
<1> QED
  BY <1>1, <1>2, <1>3, <1>4, <1>6 DEF Callers

-----------------------------------------------------------------------------
(***************************************************************************)
(* Once the slots are full, every call on the stack gives up its loop: the *)
(* callee answered "running", or the innermost call only has to say so.    *)
(***************************************************************************)
SlotInv ==
    /\ count <= Capacity
    /\ pc \in {"start", "pass", "goals"} => count < Capacity
    /\ pc = "eval" => \/ count < Capacity
                      \/ ret.st = "running"
                      \/ stack # <<>> /\ ret.st = "pending" /\ Top.wait /\ Top.todo = {}

\* The inductive invariant.
IInv == TypeOK /\ StatusInv /\ StackInv /\ RoundInv /\ SlotInv

(***************************************************************************)
(* Every step keeps StatusInv.                                             *)
(***************************************************************************)
LEMMA StatusStep ==
    ASSUME IInv, [Next]_vars
    PROVE  StatusInv'
<1> USE DEF IInv
<1>1. ASSUME Quiet PROVE StatusInv'
  BY <1>1 DEF Quiet, StatusInv
<1>2. CASE DepFailed
  BY <1>2, TopUnstarted, StatusSettles DEF DepFailed, Answered, jobVars
<1>3. CASE ReturnDepError
  BY <1>3, TopUnstarted, StatusSettles DEF ReturnDepError, LoopDone, jobVars
<1>4. CASE NoRule
  BY <1>4, TopUnstarted, StatusSettles DEF NoRule, MustBuild, DepsSettled,
     LoopDone, jobVars
<1>5. CASE StartJob
  <2>1. InLoop /\ Top.t \in Recipe
    BY <1>5 DEF StartJob, MayStart, MustBuild, DepsSettled, LoopDone
  <2>2. Top.t \in Target /\ status[Top.t] = "none" /\ KindOf[Top.t] # "source"
    BY <2>1, TopUnstarted, TargetAssumption
  <2>3. CASE StartThrows(Top.t)
    BY <2>2, <2>3, StatusSettles DEF StartThrows
  <2>4. CASE StartReturns(Top.t)
    BY <2>2, <2>4, StatusSettles DEF StartReturns
  <2>5. CASE StartSuspends(Top.t)
    BY <2>2, <2>5, StatusStarts DEF StartSuspends
  <2> QED
    BY <1>5, <2>3, <2>4, <2>5 DEF StartJob
<1>6. ASSUME NEW t \in Target, Resume(t)
      PROVE  t \in running
  BY <1>6 DEF Resume, RoundInv
<1>7. ASSUME NEW t \in Target, ResumeAdvances(t) PROVE Quiet
  BY <1>7 DEF ResumeAdvances, JobAdvances, Quiet
<1>8. ASSUME NEW t \in Target, ResumeReturns(t) PROVE StatusInv'
  BY <1>6, <1>8, StatusFinishes DEF ResumeReturns, JobReturns
<1>9. ASSUME NEW t \in Target, ResumeThrowsGoOn(t) \/ ResumeThrowsExit(t)
      PROVE  StatusInv'
  BY <1>6, <1>9, StatusFinishes DEF ResumeThrowsGoOn, ResumeThrowsExit,
     JobThrows
<1>10. CASE UNCHANGED vars
  BY <1>1, <1>10, QuietSteps
<1>11. CASE Evaluate
  BY <1>1, <1>2, <1>3, <1>4, <1>5, <1>11, QuietSteps DEF Evaluate, QuietCall
<1>12. CASE Dispatch
  BY <1>1, <1>7, <1>8, <1>9, <1>12, QuietSteps DEF Dispatch
<1>13. CASE MainLoop \/ Environment
  BY <1>1, <1>13, QuietSteps
<1> QED
  BY <1>10, <1>11, <1>12, <1>13 DEF Next, Presto, Terminated

(***************************************************************************)
(* Every step keeps RoundInv.                                              *)
(***************************************************************************)
LEMMA RoundStep ==
    ASSUME IInv, [Next]_vars
    PROVE  RoundInv'
<1> USE DEF IInv, RoundInv
<1>1. CASE Evaluate
  <2>1. pc = "eval" \/ pc = "goals"
    BY <1>1 DEF Evaluate, VisitGoal, VisitDep, DepUpdated, DepUnchanged,
       DepRunning, DepPruned, DepFailed, TimestampRaises, ReturnRunning,
       ReturnDepError, QuestionRaises, StartJob, NoRule, NothingToRun,
       UpToDate, MayStart, MustBuild, DepsSettled, LoopDone, Answered, InLoop
  <2>2. pc' = pc \/ pc' = "eval"
    BY <1>1 DEF Evaluate, VisitGoal, VisitDep, DepUpdated, DepUnchanged,
       DepRunning, DepPruned, DepFailed, TimestampRaises, ReturnRunning,
       ReturnDepError, QuestionRaises, StartJob, NoRule, NothingToRun, UpToDate
  <2> QED
    BY <2>1, <2>2
<1>2. CASE MainLoop
  BY <1>2 DEF MainLoop, UpdateGoals, BeginPass, EndPass, Stop, GoalRunning,
     GoalDone, GoalFailedGoOn, GoalFailedExit, ExitAfter, AfterGoal, AfterPass
<1>3. CASE BeginRound \/ EndRound \/ WaitReturns
  BY <1>3 DEF BeginRound, EndRound, WaitReturns, TypeOK, JobTypeOK, jobVars,
     AfterDispatch, AfterPass
<1>a. /\ round \in [jobs : Nat, todo : SUBSET Target, waiting : SUBSET Target]
      /\ count \in Nat
  BY DEF TypeOK, JobTypeOK
<1>b. ASSUME NEW t \in Target
      PROVE  /\ DoneWith(t).todo = round.todo \ {t} /\ DoneWith(t).jobs = round.jobs
             /\ WaitFor(t).todo = round.todo \ {t} /\ WaitFor(t).jobs = round.jobs
  BY <1>a DEF DoneWith, WaitFor
<1>4. ASSUME NEW t \in Target, ResumeBusy(t) \/ ResumeAdvances(t)
      PROVE  RoundInv'
  <2>1. pc = "resume" /\ running' = running /\ count' = count
    BY <1>4 DEF ResumeBusy, ResumeAdvances, JobAdvances, Resume, jobVars
  <2>2. round'.todo = round.todo \ {t} /\ round'.jobs = round.jobs
    BY <1>4, <1>b DEF ResumeBusy, ResumeAdvances
  <2> QED
    BY <2>1, <2>2
<1>5. ASSUME NEW t \in Target, ResumeReturns(t) \/ ResumeThrowsGoOn(t)
      PROVE  RoundInv'
  <2>1. /\ pc = "resume" /\ pc' = pc
        /\ running' = running \ {t} /\ count' = count - 1
    BY <1>5 DEF ResumeReturns, ResumeThrowsGoOn, JobReturns, JobThrows, Resume
  <2>2. round'.todo = round.todo \ {t} /\ round'.jobs = round.jobs
    BY <1>5, <1>b DEF ResumeReturns, ResumeThrowsGoOn
  <2>3. count - 1 <= round.jobs
    BY <1>a, <2>1
  <2> QED
    BY <2>1, <2>2, <2>3
<1>6. ASSUME NEW t \in Target, ResumeThrowsExit(t)
      PROVE  RoundInv'
  BY <1>6 DEF ResumeThrowsExit, ExitAfter
<1>7. CASE Environment
  BY <1>7 DEF Environment, WaitSeesOutput, ProcExit, ProcSucceeds, ProcFails,
     Edit, dispatchVars, jobVars
<1>8. CASE UNCHANGED vars
  BY <1>8 DEF vars, jobVars, dispatchVars
<1> QED
  BY <1>1, <1>2, <1>3, <1>4, <1>5, <1>6, <1>7, <1>8 DEF Next, Presto, Dispatch,
     Terminated

(***************************************************************************)
(* A step treats the stack in one of four ways.  It leaves it alone, and   *)
(* changes the status of no undecided target.                              *)
(***************************************************************************)
LEMMA StackStays ==
    ASSUME TypeOK, StackInv, stack' = stack,
           \A u \in Target : status[u] = "none" => status'[u] = "none"
    PROVE  Ranked(stack') /\ Unstarted(stack)'
<1>1. ASSUME NEW i \in 1..Len(stack)
      PROVE  status'[stack[i].t] = "none"
  <2>1. stack[i] \in Frame
    BY DEF TypeOK
  <2>2. stack[i].t \in Target /\ status[stack[i].t] = "none"
    BY <2>1 DEF Frame, StackInv, Unstarted
  <2> QED
    BY <2>2
<1> QED
  BY <1>1 DEF StackInv, Unstarted, Ranked

(***************************************************************************)
(* It returns from the innermost call, whose target alone may be decided.  *)
(***************************************************************************)
LEMMA StackReturns ==
    ASSUME TypeOK, StackInv, InLoop, stack' = Callers,
           \A u \in Target \ {Top.t} : status'[u] = status[u]
    PROVE  Ranked(stack') /\ Unstarted(stack)'
<1>1. Ranked(stack')
  BY TopUnstarted, RankedTail DEF StackInv
<1>2. \A i \in 1..Len(stack') : status'[stack'[i].t] = "none"
  BY TopUnstarted DEF Frame
<1> QED
  BY <1>1, <1>2 DEF Unstarted

(***************************************************************************)
(* It goes on in the innermost call.                                       *)
(***************************************************************************)
LEMMA TopChanges ==
    ASSUME TypeOK, StackInv, InLoop, NEW f \in Frame,
           f.t = Top.t, f.todo \subseteq Top.todo
    PROVE  /\ <<f>> \o Callers \in Seq(Frame)
           /\ <<f>> \o Callers # <<>>
           /\ Head(<<f>> \o Callers) = f
           /\ Ranked(<<f>> \o Callers)
           /\ Unstarted(<<f>> \o Callers)
<1> DEFINE r == <<f>> \o Callers
<1>1. Ranked(r)
  BY TopUnstarted, RankedTop DEF StackInv, Top
<1>2. /\ r \in Seq(Frame) /\ Len(r) = Len(stack)
      /\ r[1] = f /\ \A i \in 2..Len(stack) : r[i] = stack[i]
  <2>1. stack \in Seq(Frame) /\ stack # <<>> /\ Callers = Tail(stack)
    BY TopUnstarted
  <2> QED
    BY <2>1, SequenceUpdates
<1>3. r # <<>> /\ Head(r) = f
  BY TopUnstarted
<1> HIDE DEF r
<1>4. \A i \in 1..Len(r) : r[i].t = stack[i].t
  BY <1>2, TopUnstarted
<1>5. Unstarted(r)
  BY <1>2, <1>4 DEF Unstarted, StackInv
<1> QED
  BY <1>1, <1>2, <1>3, <1>5 DEF r

(***************************************************************************)
(* It calls bring_up_to_date for a target of smaller rank.                 *)
(***************************************************************************)
LEMMA StackCalls ==
    ASSUME TypeOK, StackInv, NEW t \in Target, NEW below \in Seq(Frame),
           Ranked(below), Unstarted(below),
           below # <<>> => Rank[t] < Rank[Head(below).t],
           Calls(t, below), status' = status
    PROVE  Ranked(stack') /\ Unstarted(stack)'
<1> DEFINE g == [t |-> t, todo |-> deps[t], build |-> always \/ ~Exists(t), wait |-> FALSE]
<1>1. CASE NeedsNoCall(t)
  BY <1>1 DEF Calls, Unstarted
<1>2. CASE ~NeedsNoCall(t)
  <2>1. g \in Frame /\ g.t = t /\ g.todo = deps[t]
    <3>1. Exists(t) \in BOOLEAN /\ always \in BOOLEAN
      BY TargetAssumption, InputAssumption DEF Exists, OnDisk, TypeOK,
         TargetTypeOK, always, Flags
    <3> QED
      BY <3>1 DEF Frame, TypeOK, TargetTypeOK
  <2>2. \A d \in deps[t] : Rank[d] < Rank[t]
    BY InputAssumption DEF StackInv, TypeOK
  <2>3. stack' = <<g>> \o below
    BY <1>2 DEF Calls
  <2>4. status[t] = "none"
    BY <1>2 DEF NeedsNoCall, TypeOK, TargetTypeOK, Statuses
  <2> HIDE DEF g
  <2>5. Ranked(stack')
    BY <2>1, <2>2, <2>3, RankedPush
  <2>6. /\ Len(stack') = Len(below) + 1 /\ stack'[1] = g
        /\ \A i \in 2..Len(stack') :
              stack'[i] = below[i - 1] /\ i - 1 \in 1..Len(below)
    BY <2>1, <2>3
  <2>7. Unstarted(stack)'
    BY <2>1, <2>4, <2>6 DEF Unstarted
  <2> QED
    BY <2>5, <2>7
<1> QED
  BY <1>1, <1>2

(***************************************************************************)
(* Every step keeps StackInv.                                              *)
(***************************************************************************)
LEMMA StackStep ==
    ASSUME IInv, [Next]_vars
    PROVE  StackInv'
<1> USE DEF IInv
<1>1. \A t \in Target : deps'[t] \subseteq input'.deps[t]
  <2>1. CASE DepPruned
    <3>1. deps' = [deps EXCEPT ![Top.t] = deps[Top.t] \ {ret.of}] /\ input' = input
      BY <2>1 DEF DepPruned, evalFrame
    <3>2. \A t \in Target : deps'[t] \subseteq deps[t]
      BY <3>1 DEF TypeOK, TargetTypeOK
    <3> QED
      BY <3>1, <3>2 DEF StackInv
  <2>2. CASE ~DepPruned
    <3>1. deps' = deps /\ input' = input
      <4>1. CASE Evaluate
        BY <2>2, <4>1 DEF Evaluate, VisitGoal, VisitDep, DepUpdated,
           DepUnchanged, DepRunning, DepFailed, TimestampRaises, ReturnRunning,
           ReturnDepError, QuestionRaises, StartJob, NoRule, NothingToRun,
           UpToDate, evalFrame, targetVars
      <4>2. CASE MainLoop
        BY <4>2 DEF MainLoop, UpdateGoals, BeginPass, EndPass, Stop,
           GoalRunning, GoalDone, GoalFailedGoOn, GoalFailedExit, evalFrame,
           targetVars
      <4>3. CASE Dispatch
        BY <4>3 DEF Dispatch, BeginRound, EndRound, WaitReturns, ResumeBusy,
           ResumeAdvances, ResumeReturns, ResumeThrowsGoOn, ResumeThrowsExit,
           targetVars
      <4>4. CASE Environment
        BY <4>4 DEF Environment, WaitSeesOutput, ProcExit, Edit, targetVars
      <4>5. CASE UNCHANGED vars
        BY <4>5 DEF vars, targetVars
      <4> QED
        BY <4>1, <4>2, <4>3, <4>4, <4>5 DEF Next, Presto, Terminated
    <3> QED
      BY <3>1 DEF StackInv
  <2> QED
    BY <2>1, <2>2
<1>2. Ranked(stack') /\ Unstarted(stack)'
  <2>1. ASSUME stack' = stack, status' = status
        PROVE  Ranked(stack') /\ Unstarted(stack)'
    BY <2>1, StackStays
  <2>2. ASSUME NEW t \in Target, Resume(t), stack' = stack, NEW s \in Statuses, SetStatus(t, s)
        PROVE  Ranked(stack') /\ Unstarted(stack)'
    <3>1. t \in running
      BY <2>2 DEF Resume, RoundInv
    <3>2. status[t] # "none"
      BY <3>1 DEF StatusInv
    <3>3. \A u \in Target \ {t} : status'[u] = status[u]
      BY <2>2 DEF SetStatus, TypeOK, TargetTypeOK
    <3> QED
      BY <2>2, <3>2, <3>3, StackStays
  <2>3. ASSUME InLoop, stack' = Callers, status' = status
        PROVE  Ranked(stack') /\ Unstarted(stack)'
    BY <2>3, StackReturns
  <2>4. ASSUME InLoop, stack' = Callers, NEW s \in Statuses, SetStatus(Top.t, s)
        PROVE  Ranked(stack') /\ Unstarted(stack)'
    <3>1. \A u \in Target \ {Top.t} : status'[u] = status[u]
      BY <2>4, TopUnstarted DEF SetStatus, TypeOK, TargetTypeOK
    <3> QED
      BY <2>4, <3>1, StackReturns
  <2>5. ASSUME InLoop, NEW f \in Frame, f.t = Top.t, f.todo \subseteq Top.todo,
               SetTop(f), status' = status
        PROVE  Ranked(stack') /\ Unstarted(stack)'
    <3>1. Ranked(<<f>> \o Callers) /\ Unstarted(<<f>> \o Callers)
      BY <2>5, TopChanges
    <3> QED
      BY <2>5, <3>1 DEF SetTop, Unstarted
  <2>6. ASSUME NEW t \in Target, VisitGoal(t)
        PROVE  Ranked(stack') /\ Unstarted(stack)'
    <3>1. <<>> \in Seq(Frame) /\ Ranked(<<>>) /\ Unstarted(<<>>)
      BY DEF Ranked, Unstarted
    <3>2. Calls(t, <<>>) /\ status' = status
      BY <2>6 DEF VisitGoal, targetVars
    <3> QED
      BY <3>1, <3>2, StackCalls
  <2>7. ASSUME NEW d \in Target, VisitDep(d)
        PROVE  Ranked(stack') /\ Unstarted(stack)'
    <3> DEFINE f == [Top EXCEPT !.todo = Top.todo \ {d}]
    <3>1. InLoop /\ d \in Top.todo /\ Calls(d, <<f>> \o Callers) /\ status' = status
      BY <2>7 DEF VisitDep, targetVars
    <3>2. Top \in Frame /\ stack # <<>> /\ Top = stack[1] /\ stack \in Seq(Frame)
      BY <3>1, TopUnstarted
    <3>3. f \in Frame /\ f.t = Top.t /\ f.todo \subseteq Top.todo
      BY <3>2 DEF Frame
    <3>4. Rank[d] < Rank[Top.t]
      BY <3>1, <3>2 DEF StackInv, Ranked
    <3> HIDE DEF f
    <3> QED
      BY <3>1, <3>3, <3>4, TopChanges, StackCalls
  <2>8. CASE Evaluate
    <3>1. CASE DepUpdated
      <4>1. InLoop /\ Top \in Frame /\ SetTop([Top EXCEPT !.build = TRUE]) /\ status' = status
        BY <3>1, TopUnstarted DEF DepUpdated, Answered
      <4> QED
        BY <2>5, <4>1 DEF Frame
    <3>2. CASE DepUnchanged
      <4>1. InLoop /\ Top \in Frame /\ status' = status
        BY <3>2, TopUnstarted DEF DepUnchanged, Answered
      <4>2. SetTop([Top EXCEPT !.build = TRUE]) \/ stack' = stack
        BY <3>2 DEF DepUnchanged
      <4> QED
        BY <2>1, <2>5, <4>1, <4>2 DEF Frame
    <3>3. CASE DepRunning
      <4>1. InLoop /\ Top \in Frame /\ status' = status
        BY <3>3, TopUnstarted DEF DepRunning, Answered, targetVars
      <4> DEFINE left == IF SlotsFull THEN {} ELSE Top.todo
      <4>2. SetTop([Top EXCEPT !.wait = TRUE, !.todo = left]) /\ left \subseteq Top.todo
        BY <3>3 DEF DepRunning
      <4> HIDE DEF left
      <4> QED
        BY <2>5, <4>1, <4>2 DEF Frame
    <3>4. CASE DepPruned
      BY <2>1, <3>4 DEF DepPruned
    <3>5. CASE TimestampRaises \/ ReturnRunning \/ QuestionRaises \/ NothingToRun \/ UpToDate
      BY <2>3, <3>5 DEF TimestampRaises, ReturnRunning, QuestionRaises,
         NothingToRun, UpToDate, Answered, MustBuild, DepsSettled, LoopDone,
         Return, targetVars
    <3>6. CASE DepFailed \/ ReturnDepError \/ NoRule
      BY <2>4, <3>6 DEF DepFailed, ReturnDepError, NoRule, Answered, MustBuild,
         DepsSettled, LoopDone, Return, Statuses
    <3>7. CASE StartJob
      BY <2>4, <3>7 DEF StartJob, StartThrows, StartReturns, StartSuspends,
         MayStart, MustBuild, DepsSettled, LoopDone, Return, Statuses
    <3> QED
      BY <2>6, <2>7, <2>8, <3>1, <3>2, <3>3, <3>4, <3>5, <3>6, <3>7 DEF
         Evaluate
  <2>9. CASE MainLoop
    BY <2>1, <2>9 DEF MainLoop, UpdateGoals, BeginPass, EndPass, Stop,
       GoalRunning, GoalDone, GoalFailedGoOn, GoalFailedExit, evalFrame,
       targetVars, callVars
  <2>10. CASE Dispatch
    <3>1. CASE BeginRound \/ EndRound \/ WaitReturns
      BY <2>1, <3>1 DEF BeginRound, EndRound, WaitReturns, targetVars, callVars
    <3>2. ASSUME NEW t \in Target, ResumeBusy(t) \/ ResumeAdvances(t)
          PROVE  Ranked(stack') /\ Unstarted(stack)'
      BY <2>1, <3>2 DEF ResumeBusy, ResumeAdvances, JobAdvances, targetVars,
         callVars
    <3>3. ASSUME NEW t \in Target, ResumeReturns(t) \/ ResumeThrowsGoOn(t) \/ ResumeThrowsExit(t)
          PROVE  Ranked(stack') /\ Unstarted(stack)'
      BY <2>2, <3>3 DEF ResumeReturns, ResumeThrowsGoOn, ResumeThrowsExit,
         JobReturns, JobThrows, callVars, Statuses
    <3> QED
      BY <2>10, <3>1, <3>2, <3>3 DEF Dispatch
  <2>11. CASE Environment
    BY <2>1, <2>11 DEF Environment, WaitSeesOutput, ProcExit, Edit, targetVars,
       callVars
  <2>12. CASE UNCHANGED vars
    BY <2>1, <2>12 DEF vars, targetVars, callVars
  <2> QED
    BY <2>8, <2>9, <2>10, <2>11, <2>12 DEF Next, Presto, Terminated
<1> QED
  BY <1>1, <1>2 DEF StackInv

(***************************************************************************)
(* Every step keeps SlotInv: the test of line 215 stops the loops of all   *)
(* callers, those of lines 522 and 368 keep the main loop from looking     *)
(* again before a job ended.                                               *)
(***************************************************************************)
LEMMA SlotStep ==
    ASSUME IInv, [Next]_vars
    PROVE  SlotInv'
<1> USE DEF IInv
<1>a. input' = input /\ Capacity' = Capacity
  <2>1. input' = input
    <3>1. CASE Evaluate
      BY <3>1 DEF Evaluate, VisitGoal, VisitDep, DepUpdated, DepUnchanged,
         DepRunning, DepPruned, DepFailed, TimestampRaises, ReturnRunning,
         ReturnDepError, QuestionRaises, StartJob, NoRule, NothingToRun,
         UpToDate, evalFrame
    <3>2. CASE MainLoop
      BY <3>2 DEF MainLoop, UpdateGoals, BeginPass, EndPass, Stop, GoalRunning,
         GoalDone, GoalFailedGoOn, GoalFailedExit, evalFrame
    <3>3. CASE Dispatch
      BY <3>3 DEF Dispatch, BeginRound, EndRound, WaitReturns, ResumeBusy,
         ResumeAdvances, ResumeReturns, ResumeThrowsGoOn, ResumeThrowsExit
    <3>4. CASE Environment
      BY <3>4 DEF Environment, WaitSeesOutput, ProcExit, Edit
    <3>5. CASE UNCHANGED vars
      BY <3>5 DEF vars
    <3> QED
      BY <3>1, <3>2, <3>3, <3>4, <3>5 DEF Next, Presto, Terminated
  <2> QED
    BY <2>1 DEF Capacity
<1>b. /\ Capacity \in Nat /\ Capacity >= 1
      /\ count \in Nat /\ round.jobs \in Nat
      /\ count >= Capacity => SlotsFull
      /\ ~SlotsFull => count < Capacity
  <2>1. input.slots \in Int
    BY InputAssumption DEF TypeOK
  <2> QED
    BY <2>1 DEF TypeOK, JobTypeOK, Capacity, SlotsFull
<1>c. ASSUME count' = count \/ count' = count - 1, pc' \notin {"start", "pass", "goals", "eval"}
      PROVE  SlotInv'
  BY <1>a, <1>b, <1>c DEF SlotInv
<1>1. CASE Evaluate
  <2>a. pc' = pc \/ pc' = "eval"
    BY <1>1 DEF Evaluate, VisitGoal, VisitDep, DepUpdated, DepUnchanged,
       DepRunning, DepPruned, DepFailed, TimestampRaises, ReturnRunning,
       ReturnDepError, QuestionRaises, StartJob, NoRule, NothingToRun, UpToDate
  <2>b. ASSUME count' = count, count < Capacity
        PROVE  SlotInv'
    BY <1>a, <1>b, <2>b DEF SlotInv
  <2>1. ASSUME NEW t \in Target, VisitGoal(t) PROVE SlotInv'
    BY <2>1, <2>b DEF VisitGoal, SlotInv, jobVars
  <2>2. ASSUME NEW d \in Target, VisitDep(d) PROVE SlotInv'
    BY <2>2, <2>b DEF VisitDep, SlotInv, InLoop, Returned, jobVars
  <2>3. CASE DepUpdated \/ DepUnchanged \/ DepPruned \/ DepFailed \/ TimestampRaises
    BY <2>3, <2>b DEF DepUpdated, DepUnchanged, DepPruned, DepFailed,
       TimestampRaises, SlotInv, Answered, InLoop, jobVars
  <2>4. CASE DepRunning
    <3>1. count' = count /\ pc' = "eval" /\ pc = "eval" /\ ret' = NoReturn /\ stack' # <<>>
          /\ Top' = [Top EXCEPT !.wait = TRUE, !.todo = IF SlotsFull THEN {} ELSE Top.todo]
          /\ Top \in Frame
      <4>1. Answered("running") /\ Top \in Frame /\ Callers \in Seq(Frame)
        BY <2>4, TopUnstarted DEF DepRunning, Answered
      <4> DEFINE left == IF SlotsFull THEN {} ELSE Top.todo
      <4> DEFINE f == [Top EXCEPT !.wait = TRUE, !.todo = left]
      <4>2. f \in Frame /\ stack' = <<f>> \o Callers
        BY <2>4, <4>1 DEF DepRunning, SetTop, Frame
      <4> HIDE DEF f
      <4>3. stack' # <<>> /\ Head(stack') = f
        BY <4>1, <4>2
      <4> QED
        BY <2>4, <4>1, <4>3 DEF DepRunning, Answered, InLoop, Top, jobVars, f
    <3>2. SlotsFull => Top'.wait /\ Top'.todo = {}
      BY <3>1 DEF Frame
    <3> QED
      BY <1>a, <1>b, <3>1, <3>2 DEF SlotInv, NoReturn
  <2>5. CASE ReturnRunning
    BY <1>a, <2>5 DEF ReturnRunning, Return, LoopDone, InLoop, SlotInv, jobVars
  <2>6. CASE ReturnDepError \/ QuestionRaises \/ NoRule \/ NothingToRun \/ UpToDate
    BY <2>6, <2>b DEF ReturnDepError, QuestionRaises, NoRule, NothingToRun,
       UpToDate, MustBuild, DepsSettled, LoopDone, InLoop, Returned, SlotInv,
       jobVars
  <2>7. CASE StartJob
    <3>1. pc = "eval" /\ count < Capacity /\ pc' = pc
      BY <2>7 DEF StartJob, MayStart, MustBuild, DepsSettled, LoopDone, InLoop,
         Returned, SlotInv
    <3>2. CASE StartThrows(Top.t) \/ StartReturns(Top.t)
      BY <2>b, <3>1, <3>2 DEF StartThrows, StartReturns
    <3>3. CASE StartSuspends(Top.t) /\ Return("running")
      BY <1>a, <1>b, <3>1, <3>3 DEF StartSuspends, Return, SlotInv
    <3> QED
      BY <2>7, <3>2, <3>3 DEF StartJob
  <2> QED
    BY <1>1, <2>1, <2>2, <2>3, <2>4, <2>5, <2>6, <2>7 DEF Evaluate
<1>2. CASE MainLoop
  <2>a. count' = count
    BY <1>2, QuietSteps DEF Quiet
  <2>b. ASSUME pc' # "eval", pc' \in {"start", "pass", "goals"} => count < Capacity
        PROVE  SlotInv'
    BY <1>a, <2>a, <2>b DEF SlotInv
  <2>1. CASE UpdateGoals \/ BeginPass
    BY <2>1, <2>b DEF UpdateGoals, BeginPass, SlotInv
  <2>2. CASE EndPass
    BY <1>b, <2>2, <2>b DEF EndPass, AfterPass
  <2>3. CASE Stop \/ GoalFailedExit
    BY <2>3, <2>b DEF Stop, GoalFailedExit, ExitAfter
  <2>4. CASE GoalRunning \/ GoalDone \/ GoalFailedGoOn
    BY <1>b, <2>4, <2>b DEF GoalRunning, GoalDone, GoalFailedGoOn, AfterGoal
  <2> QED
    BY <1>2, <2>1, <2>2, <2>3, <2>4 DEF MainLoop
<1>3. CASE Dispatch
  <2>1. CASE BeginRound \/ WaitReturns \/ \E t \in Target : ResumeBusy(t)
    BY <1>b, <1>c, <2>1, QuietSteps DEF BeginRound, WaitReturns, ResumeBusy,
       Resume, Quiet
  <2>2. CASE EndRound
    <3>1. pc = "resume" /\ count' = count /\ count <= round.jobs
      BY <2>2, QuietSteps DEF EndRound, Quiet, RoundInv
    <3>2. pc' \in {"wait", "round", "stop", "ok", "pass"}
      BY <2>2 DEF EndRound, AfterDispatch, AfterPass
    <3>3. pc' = "pass" => LeaveDispatch
      BY <2>2 DEF EndRound
    <3>4. LeaveDispatch => count < Capacity
      BY <1>b, <3>1 DEF LeaveDispatch
    <3> QED
      BY <1>a, <3>1, <3>2, <3>3, <3>4 DEF SlotInv
  <2>3. ASSUME NEW t \in Target, ResumeAdvances(t) PROVE SlotInv'
    BY <1>b, <1>c, <2>3 DEF ResumeAdvances, JobAdvances, Resume
  <2>4. ASSUME NEW t \in Target, ResumeReturns(t) \/ ResumeThrowsGoOn(t) PROVE SlotInv'
    BY <1>b, <1>c, <2>4 DEF ResumeReturns, ResumeThrowsGoOn, JobReturns,
       JobThrows, Resume
  <2>5. ASSUME NEW t \in Target, ResumeThrowsExit(t) PROVE SlotInv'
    BY <1>b, <1>c, <2>5 DEF ResumeThrowsExit, JobThrows, ExitAfter
  <2> QED
    BY <1>3, <2>1, <2>2, <2>3, <2>4, <2>5 DEF Dispatch
<1>4. CASE Environment
  <2>1. count' = count
    BY <1>4, QuietSteps DEF Quiet
  <2>2. CASE WaitSeesOutput
    BY <1>b, <1>c, <2>1, <2>2 DEF WaitSeesOutput
  <2>3. ASSUME NEW t \in Target, ProcExit(t) \/ Edit(t) PROVE SlotInv'
    BY <1>a, <2>1, <2>3 DEF ProcExit, Edit, callVars, SlotInv, Top
  <2> QED
    BY <1>4, <2>2, <2>3 DEF Environment
<1>5. CASE UNCHANGED vars
  BY <1>5 DEF vars, jobVars, callVars, SlotInv, Capacity, Top
<1> QED
  BY <1>1, <1>2, <1>3, <1>4, <1>5 DEF Next, Presto, Terminated

-----------------------------------------------------------------------------
(***************************************************************************)
(* presto starts in a state of the invariant.                              *)
(***************************************************************************)
LEMMA InvariantInit ==
    ASSUME Init
    PROVE  IInv
<1>1. input \in [flags : Flags, slots : Int, goals : SUBSET Target,
                 default : SUBSET Target, deps : [Target -> SUBSET Target],
                 disk : [Target -> Int]]
  BY InputAssumption DEF Init
<1>2. Cardinality({}) = 0
  BY FS_EmptySet
<1>3. TypeOK
  <2>1. TargetTypeOK
    BY <1>1 DEF Init, TargetInit, TargetTypeOK, Statuses
  <2>2. JobTypeOK
    BY DEF Init, JobInit, JobTypeOK, Processes
  <2>3. stack \in Seq(Frame) /\ ret = NoReturn
    BY DEF Init
  <2>4. /\ pass \in [jobs : Nat, todo : SUBSET Target, any : BOOLEAN]
        /\ round \in [jobs : Nat, todo : SUBSET Target, waiting : SUBSET Target]
    BY DEF Init
  <2> QED
    BY <1>1, <2>1, <2>2, <2>3, <2>4 DEF Init, TypeOK
<1>4. StatusInv
  BY <1>2 DEF Init, TargetInit, JobInit, StatusInv
<1>5. StackInv
  BY <1>1 DEF Init, TargetInit, StackInv, Ranked, Unstarted
<1>6. RoundInv
  BY DEF Init, RoundInv
<1>7. SlotInv
  BY <1>1 DEF Init, JobInit, SlotInv, Capacity
<1> QED
  BY <1>3, <1>4, <1>5, <1>6, <1>7 DEF IInv

(***************************************************************************)
(* Every step keeps the types.                                             *)
(***************************************************************************)
LEMMA TypeStep ==
    ASSUME IInv, [Next]_vars
    PROVE  TypeOK'
<1>1. CASE UNCHANGED vars
  BY <1>1 DEF IInv, TypeOK, TargetTypeOK, JobTypeOK, vars, targetVars,
     cacheVars, fileVars, jobVars, loopVars, callVars, dispatchVars
<1> QED
  BY <1>1, MainLoopTypes, EvaluateTypes, DispatchTypes, EnvironmentTypes
     DEF IInv, Next, Presto, Terminated

(***************************************************************************)
(* The invariant holds in every state of every run of presto.              *)
(***************************************************************************)
THEOREM Invariant == Spec => []IInv
<1>1. Init => IInv
  BY InvariantInit
<1>2. IInv /\ [Next]_vars => IInv'
  BY TypeStep, StatusStep, StackStep, RoundStep, SlotStep DEF IInv
<1> QED
  BY <1>1, <1>2, PTL DEF Spec

(***************************************************************************)
(* Every variable keeps its type: above all, make.jobs.count never drops   *)
(* below zero, however jobs end.                                           *)
(***************************************************************************)
THEOREM TypeCorrect == Spec => []TypeOK
<1>1. IInv => TypeOK
  BY DEF IInv
<1> QED
  BY <1>1, Invariant, PTL

(***************************************************************************)
(* With any number of slots, whatever the graph, make.jobs.count is the    *)
(* number of running jobs, and -j N is never exceeded.                     *)
(***************************************************************************)
THEOREM JobsAccounted == Spec => []JobAccounting
<1>1. IInv => JobAccounting
  BY DEF IInv, StatusInv, SlotInv, JobAccounting
<1> QED
  BY <1>1, Invariant, PTL

(***************************************************************************)
(* No command is run twice, even when sources change during the build and  *)
(* a target that was up to date is evaluated anew.                         *)
(***************************************************************************)
THEOREM CommandsRunOnce == Spec => []NeverStartedTwice
<1>1. IInv => NeverStartedTwice
  <2> SUFFICES ASSUME IInv, MayStart PROVE Top.t \notin started
    BY DEF NeverStartedTwice
  <2>1. InLoop
    BY DEF MayStart, MustBuild, DepsSettled, LoopDone
  <2>2. status[Top.t] = "none"
    BY <2>1, TopUnstarted DEF IInv
  <2> QED
    BY <2>2 DEF IInv, StatusInv
<1> QED
  BY <1>1, Invariant, PTL

-----------------------------------------------------------------------------
(***************************************************************************)
(* That presto builds what it should: the properties of Scheduler that are *)
(* about the outcome of a build, and that Scheduler implements Build.      *)
(*                                                                         *)
(* They rest on IInv and on invariants that say what each part of the      *)
(* state stands for, in terms of the plan for the input:                   *)
(*   LeavingInv  without -k, a failure makes presto leave                  *)
(*   FileInv     what presto knows of a file is what the input says        *)
(*   StartedInv  a command was started for a reason, after those below it  *)
(*   ErrorInv    a target failed for a reason                              *)
(*   PruneInv    a dependency was pruned for a reason                      *)
(*   AnswerInv   what bring_up_to_date returns is true                     *)
(*   CallInv     each call on the stack has heeded what it has looked at   *)
(*   LoopInv     a goal is dropped, and presto stops, for a reason         *)
(*   JobInv      a process belongs to a job that is running                *)
(*   FreshInv    a file whose command has written it is newer than its     *)
(*               dependencies                                              *)
(*   EvalIdle, LoopIdle   what this pass has looked at cannot be started   *)
(*   GoalInv, WorkInv     a goal that is left leads to each job            *)
(* They are preserved one step of presto at a time.  Those that follow the *)
(* nested calls are stated for all frames of the stack at once (Frames).   *)
(***************************************************************************)

-----------------------------------------------------------------------------
(***************************************************************************)
(* The closure of a set of targets, of which the plan is made, is reached  *)
(* in as many stages as there are targets, each one relation further.      *)
(***************************************************************************)
Size == Cardinality(Target)
Grow(next, G) == UNION {{t} \cup next[t] : t \in G}
IsStage(f, S, next) ==
    f = [n \in 0 .. Size |-> IF n = 0 THEN S ELSE Grow(next, f[n - 1])]
Stage(S, next) == CHOOSE f : IsStage(f, S, next)

(***************************************************************************)
(* The stages exist.                                                       *)
(***************************************************************************)
LEMMA StageExists ==
    ASSUME NEW S \in SUBSET Target, NEW next \in [Target -> SUBSET Target]
    PROVE  \E f : IsStage(f, S, next)
<1> DEFINE F == [n \in 1 .. Size |-> [G \in SUBSET Target |-> Grow(next, G)]]
<1>1. Size \in Nat
  BY TargetAssumption, FS_CardinalityType DEF Size
<1>2. F \in [1 .. Size -> [SUBSET Target -> SUBSET Target]]
  BY DEF Grow
<1>3. PICK f \in [0 .. Size -> SUBSET Target] : Iterates(f, Size, S, F)
  <2> HIDE DEF F
  <2> QED
    BY <1>1, <1>2, IterationExists
<1>4. ASSUME NEW n \in 0 .. Size, n # 0
      PROVE  F[n][f[n - 1]] = Grow(next, f[n - 1])
  <2>1. n \in 1 .. Size /\ n - 1 \in 0 .. Size
    BY <1>1, <1>4
  <2>2. f[n - 1] \in SUBSET Target
    BY <2>1
  <2> QED
    BY <2>1, <2>2
<1>5. IsStage(f, S, next)
  <2> HIDE DEF F
  <2> QED
    BY <1>3, <1>4 DEF Iterates, IsStage
<1> QED
  BY <1>5

(***************************************************************************)
(* What they are, one after the other.                                     *)
(***************************************************************************)
LEMMA Stages ==
    ASSUME NEW S \in SUBSET Target, NEW next \in [Target -> SUBSET Target]
    PROVE  /\ Size \in Nat
           /\ Closure(S, next) = Stage(S, next)[Size]
           /\ Stage(S, next)[0] = S
           /\ \A n \in 0 .. Size : Stage(S, next)[n] \in SUBSET Target
           /\ \A n \in 1 .. Size :
                 Stage(S, next)[n] = Grow(next, Stage(S, next)[n - 1])
<1> DEFINE f == Stage(S, next)
<1>1. Size \in Nat
  BY TargetAssumption, FS_CardinalityType DEF Size
<1>3. Closure(S, next) = Stage(S, next)[Size]
  BY DEF Closure, Stage, IsStage, Size, Grow
<1>4. IsStage(f, S, next)
  BY StageExists DEF Stage
<1>5. f[0] = S /\ \A n \in 1 .. Size : f[n] = Grow(next, f[n - 1])
  <2> DEFINE h == [n \in 0 .. Size |-> IF n = 0 THEN S ELSE Grow(next, f[n - 1])]
  <2>1. f = h
    BY <1>4 DEF IsStage
  <2>2. h[0] = S
    BY <1>1
  <2>3. ASSUME NEW n \in 1 .. Size PROVE h[n] = Grow(next, f[n - 1])
    <3>1. n \in 0 .. Size /\ n # 0
      OBVIOUS
    <3> QED
      BY <3>1
  <2> HIDE DEF h, f
  <2> QED
    BY <2>1, <2>2, <2>3
<1> HIDE DEF f
<1> DEFINE T == {n \in 0 .. Size : f[n] \in SUBSET Target}
<1>7. 0 \in T
  BY <1>1, <1>5
<1>8. ASSUME NEW n \in 0 .. Size - 1, n \in T PROVE n + 1 \in T
  <2>1. n + 1 \in 1 .. Size /\ n + 1 \in 0 .. Size /\ (n + 1) - 1 = n
    BY <1>1
  <2>2. f[n + 1] = Grow(next, f[n])
    BY <1>5, <2>1
  <2>3. f[n + 1] \in SUBSET Target
    BY <1>8, <2>2 DEF Grow
  <2> QED
    BY <2>1, <2>3
<1>9. 0 .. Size \subseteq T
  <2> HIDE DEF T
  <2> QED
    BY <1>1, <1>7, <1>8, Induction
<1>10. \A n \in 0 .. Size : f[n] \in SUBSET Target
  BY <1>9
<1> QED
  BY <1>1, <1>3, <1>5, <1>10 DEF f

(***************************************************************************)
(* The closure of S has S in it and is closed under next.                  *)
(***************************************************************************)
Closed(X, next) == \A t \in X : next[t] \subseteq X

\* A closure has what it starts from, and what its members lead to.
LEMMA ClosureContains ==
    ASSUME NEW S \in SUBSET Target, NEW next \in [Target -> SUBSET Target]
    PROVE  /\ S \subseteq Closure(S, next)
           /\ Closure(S, next) \subseteq Target
           /\ Closed(Closure(S, next), next)
<1> DEFINE f == Stage(S, next)
           T == {n \in 0 .. Size : /\ S \subseteq f[n]
                                   /\ Closed(f[n], next) \/ Cardinality(f[n]) >= n}
<1>1. /\ Size \in Nat /\ Closure(S, next) = f[Size] /\ f[0] = S
      /\ \A n \in 0 .. Size : f[n] \in SUBSET Target
      /\ \A n \in 1 .. Size : f[n] = Grow(next, f[n - 1])
  BY Stages
<1> HIDE DEF f
<1>2. \A n \in 0 .. Size : IsFiniteSet(f[n]) /\ Cardinality(f[n]) \in Nat
  BY <1>1, TargetAssumption, FS_Subset, FS_CardinalityType
<1>3. 0 \in T
  <2>1. 0 \in 0 .. Size
    BY <1>1
  <2> QED
    BY <1>1, <1>2, <2>1
<1>4. ASSUME NEW n \in 0 .. Size - 1, n \in T PROVE n + 1 \in T
  <2>1. n + 1 \in 1 .. Size /\ n + 1 \in 0 .. Size /\ (n + 1) - 1 = n /\ n \in 0 .. Size
    BY <1>1
  <2>2. f[n + 1] = Grow(next, f[n])
    BY <1>1, <2>1
  <2>3. f[n] \subseteq f[n + 1]
    BY <2>2 DEF Grow
  <2>4. CASE Closed(f[n], next)
    <3>1. f[n + 1] = f[n]
      BY <2>2, <2>4 DEF Grow, Closed
    <3> QED
      BY <1>4, <2>1, <2>4, <3>1
  <2>5. CASE ~Closed(f[n], next)
    <3>t. PICK t \in f[n] : ~(next[t] \subseteq f[n])
      BY <2>5 DEF Closed
    <3>1. PICK u \in next[t] : u \notin f[n]
      BY <3>t
    <3>2. f[n] \cup {u} \subseteq f[n + 1]
      BY <2>2, <2>3, <3>t, <3>1 DEF Grow
    <3>3. Cardinality(f[n] \cup {u}) = Cardinality(f[n]) + 1
      <4> DEFINE G == f[n]
      <4>1. IsFiniteSet(G) /\ u \notin G
        BY <1>2, <2>1, <3>1
      <4> HIDE DEF G
      <4>2. Cardinality(G \cup {u}) = Cardinality(G) + 1
        BY <4>1, FS_AddElement
      <4> QED
        BY <4>2 DEF G
    <3>4. Cardinality(f[n] \cup {u}) <= Cardinality(f[n + 1])
      BY <1>2, <2>1, <3>2, FS_Subset
    <3>5. Cardinality(f[n]) >= n
      BY <1>4, <2>5
    <3>6. Cardinality(f[n + 1]) >= n + 1
      BY <1>2, <2>1, <3>3, <3>4, <3>5
    <3> QED
      BY <1>4, <2>1, <2>3, <3>6
  <2> QED
    BY <2>4, <2>5
<1>5. 0 .. Size \subseteq T
  <2> HIDE DEF T
  <2> QED
    BY <1>1, <1>3, <1>4, Induction
<1>6. Size \in 0 .. Size
  BY <1>1
<1>7. Closed(f[Size], next)
  <2>1. CASE Cardinality(f[Size]) >= Size
    <3>1. f[Size] \subseteq Target /\ IsFiniteSet(Target)
      BY <1>1, <1>6, TargetAssumption
    <3>2. Cardinality(f[Size]) <= Size /\ Cardinality(f[Size]) \in Nat
      BY <1>2, <1>6, <3>1, FS_Subset DEF Size
    <3>3. f[Size] = Target
      BY <1>1, <2>1, <3>1, <3>2, FS_Subset DEF Size
    <3> QED
      BY <3>3 DEF Closed
  <2> QED
    BY <1>5, <1>6, <2>1
<1> QED
  BY <1>1, <1>5, <1>6, <1>7

(***************************************************************************)
(* It is the smallest such set.                                            *)
(***************************************************************************)
LEMMA ClosureLeast ==
    ASSUME NEW S \in SUBSET Target, NEW next \in [Target -> SUBSET Target],
           NEW X, S \subseteq X, Closed(X, next)
    PROVE  Closure(S, next) \subseteq X
<1> DEFINE f == Stage(S, next)
           T == {n \in 0 .. Size : f[n] \subseteq X}
<1>1. /\ Size \in Nat /\ Closure(S, next) = f[Size] /\ f[0] = S
      /\ \A n \in 1 .. Size : f[n] = Grow(next, f[n - 1])
  BY Stages
<1> HIDE DEF f
<1>2. 0 \in T
  <2>1. 0 \in 0 .. Size
    BY <1>1
  <2> QED
    BY <1>1, <2>1
<1>3. ASSUME NEW n \in 0 .. Size - 1, n \in T PROVE n + 1 \in T
  <2>1. n + 1 \in 1 .. Size /\ n + 1 \in 0 .. Size /\ (n + 1) - 1 = n
    BY <1>1
  <2>2. f[n + 1] = Grow(next, f[n])
    BY <1>1, <2>1
  <2>3. f[n + 1] \subseteq X
    BY <1>3, <2>2 DEF Grow, Closed
  <2> QED
    BY <2>1, <2>3
<1>4. 0 .. Size \subseteq T
  <2> HIDE DEF T
  <2> QED
    BY <1>1, <1>2, <1>3, Induction
<1> QED
  BY <1>1, <1>4

Onward(next, t) == Closure({t}, next)

(***************************************************************************)
(* What is reached from a target, by any graph.                            *)
(***************************************************************************)
LEMMA OnwardReaches ==
    ASSUME NEW next \in [Target -> SUBSET Target], NEW t \in Target
    PROVE  /\ t \in Onward(next, t)
           /\ Onward(next, t) \subseteq Target
           /\ \A d \in next[t] : d \in Target /\ Onward(next, d) \subseteq Onward(next, t)
           /\ \A u \in Onward(next, t) : u = t \/ \E d \in next[t] : u \in Onward(next, d)
<1>2. ASSUME NEW u \in Target
      PROVE  u \in Onward(next, u) /\ Onward(next, u) \subseteq Target /\ Closed(Onward(next, u), next)
  <2>1. {u} \in SUBSET Target
    OBVIOUS
  <2> QED
    BY <2>1, ClosureContains DEF Onward
<1>3. ASSUME NEW d \in next[t]
      PROVE  d \in Target /\ Onward(next, d) \subseteq Onward(next, t)
  <2>1. d \in Target /\ {d} \in SUBSET Target
    OBVIOUS
  <2>2. {d} \subseteq Onward(next, t)
    BY <1>2 DEF Closed
  <2> QED
    BY <1>2, <2>1, <2>2, ClosureLeast DEF Onward
<1> DEFINE X == {t} \cup UNION {Onward(next, d) : d \in next[t]}
<1>4. Closed(X, next)
  <2> SUFFICES ASSUME NEW u \in X PROVE next[u] \subseteq X
    BY DEF Closed
  <2>1. CASE u = t
    BY <1>2, <1>3, <2>1
  <2>2. ASSUME NEW d \in next[t], u \in Onward(next, d)
        PROVE  next[u] \subseteq X
    BY <1>2, <1>3, <2>2 DEF Closed
  <2> QED
    BY <2>1, <2>2
<1>5. Onward(next, t) \subseteq X
  <2>1. {t} \in SUBSET Target /\ {t} \subseteq X
    OBVIOUS
  <2> HIDE DEF X
  <2> QED
    BY <1>4, <2>1, ClosureLeast DEF Onward
<1> QED
  BY <1>2, <1>3, <1>5

-----------------------------------------------------------------------------
(***************************************************************************)
(* The parts of an input, and of the plan for it.                          *)
(***************************************************************************)
Reach(i, t) == Below(i, {t})
Unmakeable(i) == PlanOf[i].stale \ PlanOf[i].makeable

(***************************************************************************)
(* An input is well formed.                                                *)
(***************************************************************************)
LEMMA InputTypes ==
    ASSUME NEW i \in Inputs
    PROVE  /\ i.deps \in [Target -> SUBSET Target]
           /\ i.disk \in [Target -> Int]
           /\ i.slots \in Int
           /\ AskedForBy(i) \in SUBSET Target
           /\ i.flags.alwaysMake \in BOOLEAN
           /\ i.flags.keepGoing \in BOOLEAN
           /\ i.flags.question \in BOOLEAN
           /\ \A t \in Target : KindOf[t] = "source" => i.deps[t] = {}
BY InputAssumption DEF AskedForBy, Flags

(***************************************************************************)
(* The plan says what is requested, stale, makeable and how.               *)
(***************************************************************************)
LEMMA PlanParts ==
    ASSUME NEW i \in Inputs
    PROVE  /\ PlanOf[i].requested = Closure(AskedForBy(i), i.deps)
           /\ PlanOf[i].stale = Closure({t \in Target : OutOfDate(i, t)},
                                        [d \in Target |-> {t \in Target :
                                              FollowsDeps(i, t) /\ d \in i.deps[t]}])
           /\ PlanOf[i].makeable = IF i.flags.question THEN {} ELSE Recipe
           /\ PlanOf[i].capacity = IF i.slots > 1 THEN i.slots ELSE 1
           /\ PlanOf[i].keepGoing = i.flags.keepGoing
           /\ PlanOf[i].deps = i.deps
           /\ Unmakeable(i) = IF i.flags.question THEN PlanOf[i].stale
                                                  ELSE PlanOf[i].stale \ Recipe
BY DEF PlanOf, Below, Unmakeable

(***************************************************************************)
(* What lies below a target: itself and what lies below what it needs.     *)
(***************************************************************************)
LEMMA Reaches ==
    ASSUME NEW i \in Inputs, NEW t \in Target
    PROVE  /\ t \in Reach(i, t)
           /\ Reach(i, t) \subseteq Target
           /\ \A d \in i.deps[t] : d \in Target /\ Reach(i, d) \subseteq Reach(i, t)
           /\ \A u \in Reach(i, t) : u = t \/ \E d \in i.deps[t] : u \in Reach(i, d)
<1>1. i.deps \in [Target -> SUBSET Target]
  BY InputTypes
<1> QED
  BY <1>1, OnwardReaches DEF Reach, Below, Onward

(***************************************************************************)
(* The plan has all that is asked for and all that lies below it, no more. *)
(***************************************************************************)
LEMMA RequestedReaches ==
    ASSUME NEW i \in Inputs
    PROVE  /\ AskedForBy(i) \subseteq PlanOf[i].requested /\ PlanOf[i].requested \subseteq Target
           /\ \A t \in PlanOf[i].requested : Reach(i, t) \subseteq PlanOf[i].requested
                                   /\ i.deps[t] \subseteq PlanOf[i].requested
           /\ \A t \in PlanOf[i].requested : \E g \in AskedForBy(i) : t \in Reach(i, g)
<1>1. i.deps \in [Target -> SUBSET Target] /\ AskedForBy(i) \in SUBSET Target
  BY InputTypes
<1>2. PlanOf[i].requested = Closure(AskedForBy(i), i.deps)
  BY PlanParts
<1>3. AskedForBy(i) \subseteq PlanOf[i].requested /\ PlanOf[i].requested \subseteq Target /\ Closed(PlanOf[i].requested, i.deps)
  BY <1>1, <1>2, ClosureContains
<1>4. ASSUME NEW t \in PlanOf[i].requested
      PROVE  Reach(i, t) \subseteq PlanOf[i].requested
  <2>1. {t} \in SUBSET Target /\ {t} \subseteq PlanOf[i].requested
    BY <1>3
  <2> QED
    BY <1>1, <1>3, <2>1, ClosureLeast DEF Reach, Below
<1> DEFINE X == UNION {Reach(i, g) : g \in AskedForBy(i)}
<1>5. Closed(X, i.deps)
  <2> SUFFICES ASSUME NEW g \in AskedForBy(i), NEW u \in Reach(i, g)
               PROVE  i.deps[u] \subseteq Reach(i, g)
    BY DEF Closed
  <2>1. {g} \in SUBSET Target
    BY <1>1
  <2> QED
    BY <1>1, <2>1, ClosureContains DEF Reach, Below, Closed
<1>6. AskedForBy(i) \subseteq X
  BY <1>1, Reaches
<1>7. PlanOf[i].requested \subseteq X
  <2> HIDE DEF X
  <2> QED
    BY <1>1, <1>2, <1>5, <1>6, ClosureLeast
<1> QED
  BY <1>3, <1>4, <1>7 DEF Closed

\* A dependency of t is stale, and makes t stale.
(***************************************************************************)
(* A target is stale if it is out of date, or follows one that is.         *)
(***************************************************************************)
Follows(i, t) == FollowsDeps(i, t) /\ i.deps[t] \cap PlanOf[i].stale # {}

\* The stale targets of an input: out of date, or behind a stale one.
LEMMA StaleTargets ==
    ASSUME NEW i \in Inputs
    PROVE  /\ PlanOf[i].stale \subseteq Target
           /\ \A t \in Target : OutOfDate(i, t) => t \in PlanOf[i].stale
           /\ \A t \in Target : Follows(i, t) => t \in PlanOf[i].stale
           /\ \A t \in PlanOf[i].stale : OutOfDate(i, t) \/ Follows(i, t)
<1> DEFINE S == {t \in Target : OutOfDate(i, t)}
           next == [d \in Target |-> {t \in Target :
                                     FollowsDeps(i, t) /\ d \in i.deps[t]}]
           X == {t \in PlanOf[i].stale : OutOfDate(i, t) \/ Follows(i, t)}
<1>1. i.deps \in [Target -> SUBSET Target] /\ S \in SUBSET Target
      /\ next \in [Target -> SUBSET Target]
  BY InputTypes
<1>2. PlanOf[i].stale = Closure(S, next)
  BY PlanParts
<1>3. S \subseteq PlanOf[i].stale /\ PlanOf[i].stale \subseteq Target /\ Closed(PlanOf[i].stale, next)
  <2> HIDE DEF S, next
  <2> QED
    BY <1>1, <1>2, ClosureContains
<1>4. \A d \in PlanOf[i].stale, t \in Target : FollowsDeps(i, t) /\ d \in i.deps[t] => t \in PlanOf[i].stale
  BY <1>3 DEF Closed
<1>5. S \subseteq X /\ Closed(X, next)
  BY <1>1, <1>3, <1>4 DEF Closed, Follows
<1>6. PlanOf[i].stale \subseteq X
  <2> HIDE DEF S, next, X
  <2> QED
    BY <1>1, <1>2, <1>5, ClosureLeast
<1>7. \A t \in Target : Follows(i, t) => t \in PlanOf[i].stale
  BY <1>4 DEF Follows
<1>8. \A t \in Target : OutOfDate(i, t) => t \in PlanOf[i].stale
  BY <1>3
<1>9. \A t \in PlanOf[i].stale : OutOfDate(i, t) \/ Follows(i, t)
  BY <1>6
<1> QED
  BY <1>3, <1>7, <1>8, <1>9

\* What is doomed by itself.
(***************************************************************************)
(* Doomed is the least set that has the lost targets and what needs them.  *)
(***************************************************************************)
Lost == {t \in Target : (t \in started /\ status[t] = "error") \/ (t \in Stale /\ t \notin Recipe)}

\* The doomed targets: the least set with the lost ones, upwards closed.
LEMMA DoomedTargets ==
    ASSUME input \in Inputs
    PROVE  /\ Doomed \subseteq Target /\ Lost \subseteq Doomed
           /\ \A t \in Target : input.deps[t] \cap Doomed # {} => t \in Doomed
           /\ \A X \in SUBSET Target :
                 Lost \subseteq X /\ (\A t \in Target : input.deps[t] \cap X # {} => t \in X)
                    => Doomed \subseteq X
<1> DEFINE next == [d \in Target |-> {t \in Target : d \in input.deps[t]}]
<1>1. /\ input.deps \in [Target -> SUBSET Target] /\ Lost \in SUBSET Target
      /\ next \in [Target -> SUBSET Target]
  BY InputTypes DEF Lost
<1>2. Doomed = Closure(Lost, next)
  BY DEF Doomed, Lost
<1>3. Lost \subseteq Doomed /\ Doomed \subseteq Target /\ Closed(Doomed, next)
  <2> HIDE DEF next
  <2> QED
    BY <1>1, <1>2, ClosureContains
<1>4. \A d \in Doomed, t \in Target : d \in input.deps[t] => t \in Doomed
  BY <1>3 DEF Closed
<1>5. ASSUME NEW X \in SUBSET Target, Lost \subseteq X,
             \A t \in Target : input.deps[t] \cap X # {} => t \in X
      PROVE  Doomed \subseteq X
  <2>1. Closed(X, next)
    BY <1>1, <1>5 DEF Closed
  <2> HIDE DEF next
  <2> QED
    BY <1>1, <1>2, <1>5, <2>1, ClosureLeast
<1> QED
  BY <1>3, <1>4, <1>5

-----------------------------------------------------------------------------
(***************************************************************************)
(* What a build has come to, told from the statuses st of the targets:     *)
(*   Made      everything stale from t downwards is updated                *)
(*   Decided   everything that has a command is updated or failed          *)
(*   Failing   t failed, or cannot be made                                 *)
(*   Broken    a command from t downwards failed, or something cannot be   *)
(*             made; `begun' are the targets whose command was started     *)
(* None of them is ever undone.                                            *)
(***************************************************************************)
Made(i, st, t) ==
    \A d \in Reach(i, t) \cap PlanOf[i].stale : st[d] = "updated"
Decided(i, st, t) ==
    \/ i.flags.question
    \/ \A d \in Reach(i, t) \cap PlanOf[i].stale \cap Recipe : st[d] \in {"updated", "error"}
Failing(i, st, t) == st[t] = "error" \/ t \in Unmakeable(i)
Broken(i, st, begun, t) ==
    \E d \in Reach(i, t) : (d \in begun /\ st[d] = "error") \/ d \in Unmakeable(i)

(***************************************************************************)
(* What holds of a target if it holds of what the target needs.            *)
(***************************************************************************)
LEMMA MadeUpwards ==
    ASSUME NEW i \in Inputs, NEW st, NEW t \in Target,
           \A d \in i.deps[t] : Made(i, st, d),
           t \in PlanOf[i].stale => st[t] = "updated"
    PROVE  Made(i, st, t)
BY Reaches DEF Made

\* A target is decided when those below it are.
LEMMA DecidedUpwards ==
    ASSUME NEW i \in Inputs, NEW st, NEW t \in Target,
           \A d \in i.deps[t] : Decided(i, st, d),
           t \in PlanOf[i].stale \cap Recipe => st[t] \in {"updated", "error"}
    PROVE  Decided(i, st, t)
BY Reaches DEF Decided

\* What is made is decided.
LEMMA MadeDecides ==
    ASSUME NEW i \in Inputs, NEW st, NEW t \in Target, Made(i, st, t)
    PROVE  Decided(i, st, t)
BY DEF Made, Decided

\* What is behind something broken is broken.
LEMMA BrokenUpwards ==
    ASSUME NEW i \in Inputs, NEW st, NEW begun, NEW t \in Target,
           NEW d \in i.deps[t], Broken(i, st, begun, d)
    PROVE  Broken(i, st, begun, t)
BY Reaches DEF Broken

(***************************************************************************)
(* Time goes by: a target that is made or failed stays so, what was        *)
(* started stays in `started', and dependencies are only pruned.           *)
(***************************************************************************)
Later(st, begun, st2, begun2) ==
    /\ begun \subseteq begun2
    /\ \A t \in Target : st[t] \in {"updated", "error"} => st2[t] = st[t]

\* What is so stays so while the build goes on.
LEMMA NothingUndone ==
    ASSUME NEW i \in Inputs, NEW st, NEW begun, NEW st2, NEW begun2,
           Later(st, begun, st2, begun2), NEW t \in Target
    PROVE  /\ Made(i, st, t) => Made(i, st2, t)
           /\ Decided(i, st, t) => Decided(i, st2, t)
           /\ Failing(i, st, t) => Failing(i, st2, t)
           /\ Broken(i, st, begun, t) => Broken(i, st2, begun2, t)
BY Reaches DEF Later, Made, Decided, Failing, Broken

(***************************************************************************)
(* So it does in every step.                                               *)
(***************************************************************************)
LEMMA TimeGoesBy ==
    ASSUME IInv, [Next]_vars
    PROVE  /\ input' = input
           /\ Later(status, started, status', started')
           /\ \A t \in Target : deps'[t] \subseteq deps[t]
           /\ \A t \in Target : depFailed[t] => depFailed'[t]
<1> USE DEF Later
<1>t. /\ status \in [Target -> Statuses] /\ deps \in [Target -> SUBSET Target]
      /\ depFailed \in [Target -> BOOLEAN]
  BY DEF IInv, TypeOK, TargetTypeOK
<1>s. ASSUME NEW t \in Target, NEW s, status[t] \notin {"updated", "error"}, SetStatus(t, s)
      PROVE  \A u \in Target : status[u] \in {"updated", "error"} => status'[u] = status[u]
  BY <1>t, <1>s DEF SetStatus
<1>i. input' = input
  <2>1. CASE Evaluate
    BY <2>1 DEF Evaluate, VisitGoal, VisitDep, DepUpdated, DepUnchanged,
       DepRunning, DepPruned, DepFailed, TimestampRaises, ReturnRunning,
       ReturnDepError, QuestionRaises, StartJob, NoRule, NothingToRun,
       UpToDate, evalFrame
  <2>2. CASE MainLoop
    BY <2>2 DEF MainLoop, UpdateGoals, BeginPass, EndPass, Stop, GoalRunning,
       GoalDone, GoalFailedGoOn, GoalFailedExit, evalFrame
  <2>3. CASE Dispatch
    BY <2>3 DEF Dispatch, BeginRound, EndRound, WaitReturns, ResumeBusy,
       ResumeAdvances, ResumeReturns, ResumeThrowsGoOn, ResumeThrowsExit
  <2>4. CASE Environment
    BY <2>4 DEF Environment, WaitSeesOutput, ProcExit, Edit
  <2>5. CASE UNCHANGED vars
    BY <2>5 DEF vars
  <2> QED
    BY <2>1, <2>2, <2>3, <2>4, <2>5 DEF Next, Presto, Terminated
<1>d. (\A t \in Target : deps'[t] \subseteq deps[t]) /\ (\A t \in Target : depFailed[t] => depFailed'[t])
  <2>1. CASE DepPruned
    <3>1. /\ deps' = [deps EXCEPT ![Top.t] = deps[Top.t] \ {ret.of}]
          /\ depFailed' = [depFailed EXCEPT ![Top.t] = TRUE]
      BY <2>1 DEF DepPruned
    <3> QED
      BY <1>t, <3>1
  <2>2. CASE Evaluate /\ ~DepPruned
    BY <2>2 DEF Evaluate, VisitGoal, VisitDep, DepUpdated, DepUnchanged,
       DepRunning, DepFailed, TimestampRaises, ReturnRunning, ReturnDepError,
       QuestionRaises, StartJob, NoRule, NothingToRun, UpToDate, targetVars
  <2>3. CASE MainLoop
    BY <2>3 DEF MainLoop, UpdateGoals, BeginPass, EndPass, Stop, GoalRunning,
       GoalDone, GoalFailedGoOn, GoalFailedExit, evalFrame, targetVars
  <2>4. CASE Dispatch
    BY <2>4 DEF Dispatch, BeginRound, EndRound, WaitReturns, ResumeBusy,
       ResumeAdvances, ResumeReturns, ResumeThrowsGoOn, ResumeThrowsExit,
       targetVars
  <2>5. CASE Environment
    BY <2>5 DEF Environment, WaitSeesOutput, ProcExit, Edit, targetVars
  <2>6. CASE UNCHANGED vars
    BY <2>6 DEF vars, targetVars
  <2> QED
    BY <2>1, <2>2, <2>3, <2>4, <2>5, <2>6 DEF Next, Presto, Terminated
<1>l. Later(status, started, status', started')
  <2>1. CASE Quiet
    BY <2>1 DEF Quiet
  <2>2. CASE DepFailed \/ ReturnDepError \/ NoRule
    <3>1. InLoop /\ SetStatus(Top.t, "error") /\ started' = started
      BY <2>2 DEF DepFailed, ReturnDepError, NoRule, Answered, MustBuild,
         DepsSettled, LoopDone, jobVars
    <3> QED
      BY <1>s, <3>1, TopUnstarted DEF IInv
  <2>3. CASE StartJob
    <3>1. /\ InLoop /\ started' = started \cup {Top.t}
          /\ \E s \in Statuses : SetStatus(Top.t, s)
      BY <2>3 DEF StartJob, StartThrows, StartReturns, StartSuspends, MayStart,
         MustBuild, DepsSettled, LoopDone, Statuses
    <3> QED
      BY <1>s, <3>1, TopUnstarted DEF IInv
  <2>4. ASSUME NEW t \in Target, ResumeReturns(t) \/ ResumeThrowsGoOn(t) \/ ResumeThrowsExit(t)
        PROVE  Later(status, started, status', started')
    <3>1. Resume(t) /\ started' = started /\ \E s \in Statuses : SetStatus(t, s)
      BY <2>4 DEF ResumeReturns, ResumeThrowsGoOn, ResumeThrowsExit, JobReturns,
         JobThrows, Statuses
    <3>2. status[t] = "running"
      BY <3>1 DEF Resume, IInv, RoundInv, StatusInv
    <3> QED
      BY <1>s, <3>1, <3>2
  <2>5. ASSUME NEW t \in Target, ResumeAdvances(t) PROVE Quiet
    BY <2>5 DEF ResumeAdvances, JobAdvances, Quiet
  <2> QED
    BY <2>1, <2>2, <2>3, <2>4, <2>5, QuietSteps DEF Next, Presto, Evaluate,
       Dispatch, QuietCall, Terminated
<1> QED
  BY <1>i, <1>d, <1>l

-----------------------------------------------------------------------------
(***************************************************************************)
(* Without -k: from the first failure on, update_goals is on its way out.  *)
(***************************************************************************)
LeavingInv ==
    /\ draining => ~keepGoing /\ pc \in {"round", "resume", "wait", "stop", "failed"}
    /\ ~keepGoing /\ (\E t \in Target : status[t] = "error") =>
          draining \/ pc \in {"stop", "failed"} \/ (pc = "eval" /\ ret.st = "error")

(***************************************************************************)
(* Each step keeps this.                                                   *)
(***************************************************************************)
LEMMA LeavingStep ==
    ASSUME IInv, LeavingInv, [Next]_vars
    PROVE  LeavingInv'
<1> USE DEF LeavingInv
<1>k. keepGoing' = keepGoing
  BY TimeGoesBy DEF keepGoing
<1>1. ASSUME Quiet, draining' = draining, pc' = pc, pc = "eval" /\ ret.st = "error" => ret' = ret
      PROVE  LeavingInv'
  BY <1>k, <1>1 DEF Quiet
<1>2. ASSUME pc' = "eval", ret'.st = "error", draining' = draining, pc = "eval"
      PROVE  LeavingInv'
  BY <1>k, <1>2
<1>3. CASE Evaluate
  <2>1. ASSUME NEW t \in Target, VisitGoal(t) PROVE LeavingInv'
    BY <1>k, <2>1 DEF VisitGoal, targetVars, dispatchVars
  <2>2. ASSUME NEW d \in Target, VisitDep(d) PROVE LeavingInv'
    BY <1>k, <2>2 DEF VisitDep, InLoop, Returned, targetVars, evalFrame, dispatchVars
  <2>3. CASE DepUpdated \/ DepUnchanged \/ DepRunning
    BY <1>k, <2>3 DEF DepUpdated, DepUnchanged, DepRunning, Answered, InLoop, targetVars,
       evalFrame, dispatchVars
  <2>4. CASE DepPruned
    BY <1>k, <2>4 DEF DepPruned, Answered, InLoop, evalFrame, dispatchVars
  <2>5. CASE DepFailed \/ TimestampRaises \/ ReturnDepError \/ QuestionRaises \/ NoRule
    BY <1>2, <2>5 DEF DepFailed, TimestampRaises, ReturnDepError, QuestionRaises,
       NoRule, Answered, MustBuild, DepsSettled, LoopDone, InLoop, Return,
       evalFrame, dispatchVars
  <2>6. CASE ReturnRunning \/ NothingToRun \/ UpToDate
    BY <1>k, <2>6 DEF ReturnRunning, NothingToRun, UpToDate, MustBuild, DepsSettled,
       LoopDone, InLoop, Returned, Return, evalFrame, dispatchVars, targetVars
  <2>7. CASE StartJob
    <3>1. /\ pc = "eval" /\ ret.st = "pending" /\ pc' = pc /\ draining' = draining
      BY <2>7 DEF StartJob, MayStart, MustBuild, DepsSettled, LoopDone, InLoop,
         Returned, evalFrame, dispatchVars
    <3>2. CASE StartThrows(Top.t) /\ Return("error")
      BY <1>2, <3>1, <3>2 DEF Return
    <3>3. CASE StartReturns(Top.t) \/ StartSuspends(Top.t)
      <4>1. \E s \in {"updated", "running"} : SetStatus(Top.t, s)
        BY <3>3 DEF StartReturns, StartSuspends
      <4>2. \A t \in Target : status'[t] = "error" => status[t] = "error"
        BY <4>1 DEF SetStatus, IInv, TypeOK, TargetTypeOK
      <4> QED
        BY <1>k, <3>1, <4>2
    <3> QED
      BY <2>7, <3>2, <3>3 DEF StartJob
  <2> QED
    BY <1>3, <2>1, <2>2, <2>3, <2>4, <2>5, <2>6, <2>7 DEF Evaluate
<1>4. CASE MainLoop
  <2>1. status' = status
    BY <1>4, QuietSteps DEF Quiet
  <2>2. CASE UpdateGoals \/ BeginPass \/ EndPass \/ Stop
    BY <1>k, <2>1, <2>2 DEF UpdateGoals, BeginPass, EndPass, Stop, AfterPass, dispatchVars
  <2>3. CASE GoalRunning \/ GoalDone \/ GoalFailedGoOn
    BY <1>k, <2>1, <2>3 DEF GoalRunning, GoalDone, GoalFailedGoOn, GoalAnswered,
       dispatchVars, evalFrame
  <2>4. CASE GoalFailedExit
    BY <1>k, <2>1, <2>4 DEF GoalFailedExit, ExitAfter
  <2> QED
    BY <1>4, <2>2, <2>3, <2>4 DEF MainLoop
<1>5. CASE Dispatch
  <2>1. CASE BeginRound \/ WaitReturns \/ \E t \in Target : ResumeBusy(t)
    BY <1>k, <2>1, QuietSteps DEF BeginRound, WaitReturns, ResumeBusy, Resume, Quiet, dispatchVars
  <2>2. CASE EndRound
    BY <1>k, <2>2, QuietSteps DEF EndRound, AfterDispatch, dispatchVars, Quiet
  <2>3. ASSUME NEW t \in Target, ResumeAdvances(t) PROVE LeavingInv'
    BY <1>k, <2>3 DEF ResumeAdvances, JobAdvances, Resume
  <2>4. ASSUME NEW t \in Target, ResumeReturns(t) PROVE LeavingInv'
    <3>1. \A u \in Target : status'[u] = "error" => status[u] = "error"
      BY <2>4 DEF ResumeReturns, JobReturns, SetStatus, IInv, TypeOK, TargetTypeOK
    <3> QED
      BY <1>k, <2>4, <3>1 DEF ResumeReturns, Resume
  <2>5. ASSUME NEW t \in Target, ResumeThrowsGoOn(t) PROVE LeavingInv'
    BY <1>k, <2>5 DEF ResumeThrowsGoOn, Resume
  <2>6. ASSUME NEW t \in Target, ResumeThrowsExit(t) PROVE LeavingInv'
    BY <1>k, <2>6 DEF ResumeThrowsExit, ExitAfter
  <2> QED
    BY <1>5, <2>1, <2>2, <2>3, <2>4, <2>5, <2>6 DEF Dispatch
<1>6. CASE Environment
  <2>1. CASE WaitSeesOutput
    BY <1>k, <2>1, QuietSteps DEF WaitSeesOutput, dispatchVars, Quiet, Environment
  <2>2. ASSUME NEW t \in Target, ProcExit(t) \/ Edit(t) PROVE LeavingInv'
    <3>1. Environment
      BY <2>2 DEF Environment
    <3> QED
      BY <1>1, <2>2, <3>1, QuietSteps DEF ProcExit, Edit, dispatchVars, callVars
  <2> QED
    BY <1>6, <2>1, <2>2 DEF Environment
<1>7. CASE UNCHANGED vars
  BY <1>1, <1>7, QuietSteps DEF vars, dispatchVars, callVars
<1> QED
  BY <1>3, <1>4, <1>5, <1>6, <1>7 DEF Next, Presto, Terminated

(***************************************************************************)
(* So it always holds.                                                     *)
(***************************************************************************)
LEMMA Leaving == Spec => [](IInv /\ LeavingInv)
<1>1. Init => LeavingInv
  BY DEF Init, TargetInit, LeavingInv
<1>2. IInv /\ LeavingInv /\ [Next]_vars => LeavingInv'
  BY LeavingStep
<1> QED
  BY <1>1, <1>2, Invariant, PTL DEF Spec

(***************************************************************************)
(* Without -k no command starts once anything failed, whatever order the   *)
(* jobs end in and whoever asks for what.                                  *)
(***************************************************************************)
THEOREM FailureIsFinal == Spec => NoStartAfterFailure
<1>1. ASSUME IInv, LeavingInv, [Next]_vars, ~keepGoing,
             ret.st = "error" \/ draining \/ \E t \in Target : status[t] = "error"
      PROVE  started' = started
  <2>1. ~StartJob
    BY <1>1 DEF StartJob, MayStart, MustBuild, DepsSettled, LoopDone, InLoop,
       Returned, LeavingInv
  <2>2. CASE Evaluate
    BY <2>1, <2>2, QuietSteps DEF Evaluate, QuietCall, Quiet, DepFailed,
       ReturnDepError, NoRule, jobVars
  <2>3. CASE Dispatch
    BY <2>3, QuietSteps DEF Dispatch, Quiet, ResumeAdvances, JobAdvances,
       ResumeReturns, JobReturns, ResumeThrowsGoOn, ResumeThrowsExit, JobThrows
  <2> QED
    BY <1>1, <2>2, <2>3, QuietSteps DEF Next, Presto, Terminated, Quiet
<1>2. IInv /\ LeavingInv /\ [Next]_vars =>
        [~keepGoing /\ (ret.st = "error" \/ draining
                         \/ \E t \in Target : status[t] = "error")
           => started' = started]_vars
  BY <1>1
<1> QED
  BY <1>2, Leaving, PTL DEF Spec, NoStartAfterFailure

-----------------------------------------------------------------------------
(***************************************************************************)
(* The build, while nobody edits the sources and no derived target, whose  *)
(* time stamp raises, is needed.                                           *)
(***************************************************************************)
\* A file is what it was until its command is started, and presto knows it.
FileInv ==
    \A t \in Target :
       /\ t \notin started => disk[t] = input.disk[t]
       /\ seenExists[t] = Unread \/ seenExists[t] = (input.disk[t] # Absent)
       /\ seenTime[t] = Unread \/ seenTime[t] = input.disk[t]

\* A command was started because the plan asks for it, after those below it.
StartedInv ==
    \A t \in Target :
       /\ status[t] \in {"running", "updated"} => t \in started
       /\ t \in started => /\ t \in Requested \cap Stale \cap Recipe
                           /\ ~question
                           /\ \A d \in input.deps[t] : Made(input, status, d)

\* A target failed because a command did, or something cannot be made.
ErrorInv ==
    \A t \in Target : status[t] = "error" =>
       /\ t \in Requested
       /\ Broken(input, status, started, t)
       /\ keepGoing => Decided(input, status, t)

\* A dependency is pruned when nothing more will become of it.
PruneInv ==
    \A t \in Target :
       /\ depFailed[t] => /\ keepGoing
                          /\ \E d \in input.deps[t] : Failing(input, status, d)
       /\ \A d \in input.deps[t] \ deps[t] : depFailed[t] /\ Decided(input, status, d)

\* What bring_up_to_date answers is true.
AnswerInv ==
    pc = "eval" /\ Returned =>
       /\ ret.of \in Requested
       /\ ret.st = "none" => Made(input, status, ret.of) /\ ret.of \notin Stale
       /\ ret.st = "updated" => status[ret.of] = "updated"
       /\ ret.st = "error" => /\ Failing(input, status, ret.of)
                              /\ keepGoing => Decided(input, status, ret.of)

(***************************************************************************)
(* A call f of bring_up_to_date for a target of the plan builds it only if *)
(* it is stale (or has no command under -B, where building it is nothing), *)
(* and has seen every reason to in the dependencies it is done with.  x    *)
(* holds the one that is being looked at.                                  *)
(***************************************************************************)
MustRemake(i, t) == i.flags.alwaysMake \/ Missing(i, t) \/ KindOf[t] = "phony"
Heeded(i, f, st, d) ==
    /\ Made(i, st, d)
    /\ d \in PlanOf[i].stale => f.build
    /\ KindOf[d] # "phony" /\ Age(i, f.t) < Age(i, d) => f.build
FrameInv(i, f, x, st, kept) ==
    /\ f.t \in PlanOf[i].requested
    /\ f.todo \cup x \subseteq i.deps[f.t]
    /\ MustRemake(i, f.t) => f.build
    /\ f.build => f.t \in PlanOf[i].stale \/ ~FollowsDeps(i, f.t)
    /\ \A d \in i.deps[f.t] \ (f.todo \cup x) :
          f.wait \/ d \notin kept[f.t] \/ Heeded(i, f, st, d)
RightFrames(i, st, kept) ==
    {c \in Frame \X SUBSET Target : FrameInv(i, c[1], c[2], st, kept)}

\* The calls s, of which the innermost looks at x, each with what it looks at.
Frames(s, x, G) ==
    \A k \in 1 .. Len(s) : <<s[k], IF k = 1 THEN x ELSE {s[k - 1].t}>> \in G
FramesInv(i, s, x, st, kept) == Frames(s, x, RightFrames(i, st, kept))

LookedAt == IF Returned THEN {ret.of} ELSE {}
CallInv == pc = "eval" => FramesInv(input, stack, LookedAt, status, deps)

(***************************************************************************)
(* A goal leaves make.goals when nothing more will become of it; presto    *)
(* stops for a reason; it leaves the main loop only without goals or jobs. *)
(***************************************************************************)
Cause(i, st) == \E t \in PlanOf[i].requested : Failing(i, st, t)
LoopInv ==
    /\ goals \cup pass.todo \subseteq AskedForBy(input)
    /\ pc = "start" => goals = input.goals /\ ~failure
    /\ pc # "start" => \A g \in AskedForBy(input) \ goals :
                          /\ Decided(input, status, g)
                          /\ failure \/ Made(input, status, g)
    /\ pc \notin {"start", "pass"} /\ ~pass.any => goals = {}
    /\ failure => keepGoing
    /\ failure \/ draining => Cause(input, status)
    /\ pc \in {"stop", "failed"} => Cause(input, status) \/ Requested = {}
    /\ pc = "ok" => ~failure
    /\ pc = "ok" \/ (pc \in {"stop", "failed"} /\ keepGoing) => goals = {}
    /\ pc \in {"start", "stop", "ok", "failed"} => running = {}

BuildInv ==
    FileInv /\ StartedInv /\ ErrorInv /\ PruneInv /\ AnswerInv /\ CallInv /\ LoopInv

(***************************************************************************)
(* What presto finds out about a target that was not started is what the   *)
(* input says.                                                             *)
(***************************************************************************)
LEMMA Observed ==
    ASSUME TypeOK, FileInv, NEW t \in Target, t \notin started
    PROVE  /\ Missing(input, t) \/ KindOf[t] = "phony" => ~Exists(t)
           /\ ~Exists(t) => Missing(input, t) \/ KindOf[t] \in {"phony", "derived"}
           /\ KindOf[t] # "phony" => Timestamp(t) = Age(input, t)
           /\ KindOf[t] = "file" => Exists(t) = (input.disk[t] # Absent)
<1>1. /\ KindOf[t] \in Kinds /\ disk[t] = input.disk[t]
      /\ seenExists[t] = Unread \/ seenExists[t] = (input.disk[t] # Absent)
      /\ seenTime[t] = Unread \/ seenTime[t] = input.disk[t]
  BY TargetAssumption DEF FileInv
<1>2. input.disk[t] \in Int /\ Unread \notin Int /\ Unread \notin BOOLEAN
  BY InputTypes, TargetAssumption DEF TypeOK
<1>3. KindOf[t] = "file" => Exists(t) = (input.disk[t] # Absent)
  BY <1>1, <1>2 DEF Exists, OnDisk
<1>4. KindOf[t] # "phony" => Timestamp(t) = Age(input, t)
  BY <1>1, <1>2 DEF Timestamp, Age, Kinds
<1>5. KindOf[t] # "file" => (Exists(t) <=> KindOf[t] = "dir" \/ (KindOf[t] = "source" /\ disk[t] # Absent))
  BY <1>1 DEF Exists, OnDisk
<1> QED
  BY <1>1, <1>3, <1>4, <1>5 DEF Missing, Kinds

\* A target with no status was not started.
LEMMA NotStarted ==
    ASSUME StatusInv, NEW t \in Target, status[t] = "none"
    PROVE  t \notin started
BY DEF StatusInv

(***************************************************************************)
(* What is true of all calls stays true as the innermost one returns, as   *)
(* it goes on with f for its locals, and as it calls g.                    *)
(***************************************************************************)
LEMMA CallReturns ==
    ASSUME NEW s \in Seq(Frame), s # <<>>, NEW x, NEW G, Frames(s, x, G)
    PROVE  <<Head(s), x>> \in G /\ Frames(Tail(s), {Head(s).t}, G)
<1>1. 1 \in 1 .. Len(s) /\ Head(s) = s[1] /\ Len(Tail(s)) = Len(s) - 1
  OBVIOUS
<1>2. ASSUME NEW k \in 1 .. Len(Tail(s))
      PROVE  <<Tail(s)[k], IF k = 1 THEN {Head(s).t} ELSE {Tail(s)[k - 1].t}>> \in G
  <2>1. k + 1 \in 1 .. Len(s) /\ k + 1 # 1 /\ (k + 1) - 1 = k
    BY <1>1
  <2>2. <<s[k + 1], {s[k].t}>> \in G
    BY <2>1 DEF Frames
  <2>3. Tail(s)[k] = s[k + 1] /\ (k # 1 => Tail(s)[k - 1] = s[k])
    BY <1>1
  <2> QED
    BY <1>1, <2>2, <2>3
<1> QED
  BY <1>1, <1>2 DEF Frames

\* The top call goes on: the others are left as they were.
LEMMA CallGoesOn ==
    ASSUME NEW s \in Seq(Frame), s # <<>>, NEW x, NEW G, Frames(s, x, G),
           NEW f \in Frame, f.t = Head(s).t, NEW y, <<f, y>> \in G
    PROVE  Frames(<<f>> \o Tail(s), y, G)
<1> DEFINE r == <<f>> \o Tail(s)
<1>1. /\ Len(r) = Len(s) /\ r[1] = f /\ Head(s) = s[1]
      /\ \A k \in 2..Len(s) : r[k] = s[k]
  BY SequenceUpdates
<1>2. \A k \in 1 .. Len(s) : r[k].t = s[k].t
  BY <1>1
<1> HIDE DEF r
<1>3. ASSUME NEW k \in 1 .. Len(s)
      PROVE  <<r[k], IF k = 1 THEN y ELSE {r[k - 1].t}>> \in G
  <2>1. CASE k = 1
    BY <1>1, <2>1
  <2>2. CASE k # 1
    <3>1. k \in 2 .. Len(s) /\ k - 1 \in 1 .. Len(s)
      BY <2>2
    <3> QED
      BY <1>1, <1>2, <2>2, <3>1 DEF Frames
  <2> QED
    BY <2>1, <2>2
<1> QED
  BY <1>1, <1>3 DEF Frames, r

\* A nested call: the callers are left as they were.
LEMMA CallNests ==
    ASSUME NEW s \in Seq(Frame), NEW g \in Frame, NEW G,
           Frames(s, {g.t}, G), <<g, {}>> \in G
    PROVE  Frames(<<g>> \o s, {}, G)
<1> DEFINE r == <<g>> \o s
<1>1. Len(r) = Len(s) + 1 /\ r[1] = g /\ \A k \in 2..Len(r) : r[k] = s[k - 1] /\ k - 1 \in 1 .. Len(s)
  OBVIOUS
<1> HIDE DEF r
<1>2. ASSUME NEW k \in 1 .. Len(r)
      PROVE  <<r[k], IF k = 1 THEN {} ELSE {r[k - 1].t}>> \in G
  <2>1. CASE k = 1
    BY <1>1, <2>1
  <2>2. CASE k = 2
    <3>1. r[k] = s[1] /\ 1 \in 1 .. Len(s) /\ r[k - 1] = g /\ k # 1
      BY <1>1, <2>2
    <3>2. <<s[1], {g.t}>> \in G
      BY <3>1 DEF Frames
    <3> QED
      BY <3>1, <3>2
  <2>3. CASE k \notin {1, 2}
    <3>1. /\ r[k] = s[k - 1] /\ k - 1 \in 1 .. Len(s) /\ k - 1 # 1
          /\ r[k - 1] = s[(k - 1) - 1]
      BY <1>1, <2>3
    <3> QED
      BY <2>3, <3>1 DEF Frames
  <2> QED
    BY <2>1, <2>2, <2>3
<1> QED
  BY <1>2 DEF Frames, r

(***************************************************************************)
(* When the innermost of the right calls returns, its caller looks at what *)
(* it was for.                                                             *)
(***************************************************************************)
LEMMA FramesReturn ==
    ASSUME NEW i, NEW s \in Seq(Frame), s # <<>>, NEW x, NEW st, NEW kept,
           FramesInv(i, s, x, st, kept)
    PROVE  /\ FrameInv(i, Head(s), x, st, kept)
           /\ FramesInv(i, Tail(s), {Head(s).t}, st, kept)
<1> DEFINE G == RightFrames(i, st, kept)
<1>1. Frames(s, x, G)
  BY DEF FramesInv
<1> HIDE DEF G
<1>2. <<Head(s), x>> \in G /\ Frames(Tail(s), {Head(s).t}, G)
  BY <1>1, CallReturns
<1>3. ASSUME NEW c \in G PROVE FrameInv(i, c[1], c[2], st, kept)
  BY <1>3 DEF G, RightFrames
<1>4. FrameInv(i, Head(s), x, st, kept)
  <2>1. FrameInv(i, <<Head(s), x>>[1], <<Head(s), x>>[2], st, kept)
    BY <1>2, <1>3
  <2> QED
    BY <2>1
<1> QED
  BY <1>2, <1>4 DEF FramesInv, G

(***************************************************************************)
(* Calls stay right as time goes by.                                       *)
(***************************************************************************)
LEMMA FramesLast ==
    ASSUME NEW i \in Inputs, NEW s, NEW x, NEW st, NEW begun,
           NEW st2, NEW begun2, NEW kept, NEW kept2, Later(st, begun, st2, begun2),
           \A t \in Target : kept2[t] \subseteq kept[t],
           FramesInv(i, s, x, st, kept)
    PROVE  FramesInv(i, s, x, st2, kept2)
<1>1. ASSUME NEW f \in Frame, NEW y, FrameInv(i, f, y, st, kept)
      PROVE  FrameInv(i, f, y, st2, kept2)
  <2>1. f.t \in Target /\ i.deps[f.t] \subseteq Target
    BY InputTypes DEF Frame
  <2>2. \A d \in i.deps[f.t] : Made(i, st, d) => Made(i, st2, d)
    BY <2>1, NothingUndone
  <2> QED
    BY <1>1, <2>1, <2>2 DEF FrameInv, Heeded
<1>2. RightFrames(i, st, kept) \subseteq RightFrames(i, st2, kept2)
  BY <1>1 DEF RightFrames
<1> QED
  BY <1>2 DEF FramesInv, Frames

-----------------------------------------------------------------------------
(***************************************************************************)
(* A call that begins is right: it is told to build only what is stale.    *)
(***************************************************************************)
LEMMA NewFrame ==
    ASSUME IInv, FileInv, Undisturbed, NEW t \in Requested, status[t] = "none"
    PROVE  LET g == [t |-> t, todo |-> deps[t], build |-> always \/ ~Exists(t), wait |-> FALSE]
           IN  g \in Frame /\ g.t = t /\ FrameInv(input, g, {}, status, deps)
<1> DEFINE g == [t |-> t, todo |-> deps[t], build |-> always \/ ~Exists(t), wait |-> FALSE]
<1>1. /\ TypeOK /\ StatusInv /\ input \in Inputs
      /\ \A u \in Target : deps[u] \subseteq input.deps[u]
  BY DEF IInv, TypeOK, StackInv
<1>2. t \in Target /\ KindOf[t] # "derived" /\ deps[t] \in SUBSET Target
  <2>1. t \in Target
    BY <1>1, RequestedReaches DEF Requested
  <2> QED
    BY <1>1, <2>1 DEF Undisturbed, Requested, HasTimestamp, TypeOK, TargetTypeOK
<1>3. Exists(t) \in BOOLEAN /\ always \in BOOLEAN
  BY <1>1, TargetAssumption, InputTypes DEF Exists, OnDisk, TypeOK, TargetTypeOK, always
<1>4. g \in Frame /\ g.t = t /\ g.todo = deps[t] /\ g.build = (always \/ ~Exists(t))
  BY <1>2, <1>3 DEF Frame
<1> HIDE DEF g
<1>5. t \notin started
  BY <1>1, <1>2, NotStarted
<1>6. MustRemake(input, t) => g.build
  BY <1>1, <1>2, <1>4, <1>5, Observed DEF MustRemake, always
<1>7. ASSUME g.build PROVE t \in PlanOf[input].stale \/ ~FollowsDeps(input, t)
  <2>1. always \/ Missing(input, t) \/ KindOf[t] = "phony"
    BY <1>1, <1>2, <1>4, <1>5, <1>7, Observed
  <2>2. OutOfDate(input, t) \/ ~FollowsDeps(input, t)
    BY <2>1 DEF OutOfDate, FollowsDeps, always
  <2> QED
    BY <1>1, <1>2, <2>2, StaleTargets
<1>8. FrameInv(input, g, {}, status, deps)
  BY <1>1, <1>2, <1>4, <1>6, <1>7 DEF FrameInv, Requested
<1> QED
  BY <1>4, <1>8 DEF g

(***************************************************************************)
(* The innermost call and its callers are right.                           *)
(***************************************************************************)
LEMMA TopCall ==
    ASSUME IInv, CallInv, InLoop
    PROVE  /\ FrameInv(input, Top, LookedAt, status, deps)
           /\ FramesInv(input, Callers, {Top.t}, status, deps)
           /\ Top.t \in Requested
           /\ input \in Inputs /\ Requested \subseteq Target
           /\ input.deps[Top.t] \subseteq Requested
           /\ LookedAt \subseteq input.deps[Top.t]
<1>1. stack \in Seq(Frame) /\ stack # <<>> /\ input \in Inputs /\ pc = "eval"
  BY TopUnstarted DEF IInv, TypeOK, InLoop
<1>2. FramesInv(input, stack, LookedAt, status, deps)
  BY <1>1 DEF CallInv
<1>3. /\ FrameInv(input, Top, LookedAt, status, deps)
      /\ FramesInv(input, Callers, {Top.t}, status, deps)
  BY <1>1, <1>2, FramesReturn DEF Top, Callers
<1> QED
  BY <1>1, <1>3, RequestedReaches DEF FrameInv, Requested

(***************************************************************************)
(* When no dependency is left, none is running and none failed, those of   *)
(* the innermost call's target are all made, and the call knows whether    *)
(* the target is stale.                                                    *)
(***************************************************************************)
LEMMA Settled ==
    ASSUME IInv, FileInv, PruneInv, CallInv, DepsSettled
    PROVE  /\ Top.t \in Requested /\ Top.t \in Target
           /\ \A d \in input.deps[Top.t] : Made(input, status, d)
           /\ ~Top.build => Top.t \notin Stale
           /\ Top.build /\ (question \/ FollowsDeps(input, Top.t)
                               \/ (~Exists(Top.t) /\ KindOf[Top.t] # "derived"))
                 => Top.t \in Stale
           /\ Exists(Top.t) /\ ~FollowsDeps(input, Top.t) /\ ~question => Top.t \notin Stale
<1> DEFINE t == Top.t
<1>1. /\ InLoop /\ ~Returned /\ Top.todo = {} /\ ~Top.wait /\ ~depFailed[t]
  BY DEF DepsSettled, LoopDone
<1>2. /\ FrameInv(input, Top, LookedAt, status, deps) /\ LookedAt = {}
      /\ t \in Requested /\ t \in Target /\ input \in Inputs
  BY <1>1, TopCall DEF LookedAt
<1>3. t \notin started
  BY <1>1, <1>2, TopUnstarted, NotStarted DEF IInv
<1>4. input.deps[t] = deps[t]
  BY <1>1, <1>2 DEF PruneInv, IInv, StackInv
<1>5. \A d \in input.deps[t] : Heeded(input, Top, status, d)
  BY <1>1, <1>2, <1>4 DEF FrameInv
<1>6. ASSUME ~Top.build PROVE t \notin Stale
  <2>1. ~OutOfDate(input, t) /\ ~Follows(input, t)
    BY <1>2, <1>5, <1>6 DEF FrameInv, MustRemake, Heeded, OutOfDate, Follows
  <2> QED
    BY <1>2, <2>1, StaleTargets DEF Stale
<1>7. ASSUME Top.build,
             question \/ FollowsDeps(input, t) \/ (~Exists(t) /\ KindOf[t] # "derived")
      PROVE  t \in Stale
  <2>1. CASE FollowsDeps(input, t)
    BY <1>2, <1>7, <2>1 DEF FrameInv, Stale
  <2>2. CASE question /\ ~FollowsDeps(input, t)
    BY <1>2, <2>2, StaleTargets DEF OutOfDate, FollowsDeps, question, Stale
  <2>3. CASE ~Exists(t) /\ KindOf[t] # "derived"
    <3>1. Missing(input, t) \/ KindOf[t] = "phony"
      BY <1>2, <1>3, <2>3, Observed DEF IInv
    <3> QED
      BY <1>2, <3>1, StaleTargets DEF OutOfDate, Stale
  <2> QED
    BY <1>7, <2>1, <2>2, <2>3
<1>8. ASSUME Exists(t), ~FollowsDeps(input, t), ~question
      PROVE  t \notin Stale
  <2>1. ~Missing(input, t) /\ KindOf[t] # "phony"
    BY <1>2, <1>3, <1>8, Observed DEF IInv
  <2>2. ~OutOfDate(input, t) /\ ~Follows(input, t)
    BY <1>8, <2>1 DEF OutOfDate, Follows, FollowsDeps, question
  <2> QED
    BY <1>2, <2>2, StaleTargets DEF Stale
<1> QED
  <2>1. \A d \in input.deps[t] : Made(input, status, d)
    BY <1>5 DEF Heeded
  <2> QED
    BY <1>2, <1>6, <1>7, <1>8, <2>1

-----------------------------------------------------------------------------
(***************************************************************************)
(* Every step keeps FileInv.                                               *)
(***************************************************************************)
LEMMA FileStep ==
    ASSUME IInv, FileInv, StartedInv, AnswerInv, CallInv, Undisturbed, [Next]_vars
    PROVE  FileInv'
<1>i. input' = input /\ started \subseteq started' /\ input \in Inputs
  BY TimeGoesBy DEF Later, IInv, TypeOK
<1>t. /\ seenExists \in [Target -> BOOLEAN \cup {Unread}]
      /\ seenTime \in [Target -> Int \cup {Unread}] /\ disk \in [Target -> Int]
  BY DEF IInv, TypeOK, TargetTypeOK
<1>d. ASSUME disk' = disk \/ \E t \in started' : WriteOutput(t)
      PROVE  \A t \in Target : t \notin started' => disk'[t] = input.disk[t]
  <2>1. \A t \in Target : t \notin started' => disk'[t] = disk[t]
    BY <1>t, <1>d DEF WriteOutput, Touch, fileVars
  <2> QED
    BY <1>i, <2>1 DEF FileInv
<1>e. ASSUME seenExists' = seenExists \/ \E t \in Target : t \notin started /\ ReadExists(t)
      PROVE  \A t \in Target : seenExists'[t] = Unread \/ seenExists'[t] = (input.disk[t] # Absent)
  <2>1. CASE seenExists' = seenExists
    BY <2>1 DEF FileInv
  <2>2. ASSUME NEW t \in Target, t \notin started, ReadExists(t)
        PROVE  \A u \in Target : seenExists'[u] = Unread \/ seenExists'[u] = (input.disk[u] # Absent)
    <3>1. \/ seenExists' = seenExists
          \/ KindOf[t] = "file" /\ seenExists' = [seenExists EXCEPT ![t] = Exists(t)]
      BY <2>2 DEF ReadExists
    <3>2. KindOf[t] = "file" => Exists(t) = (input.disk[t] # Absent)
      BY <2>2, Observed DEF IInv
    <3>3. \A u \in Target : seenExists[u] = Unread \/ seenExists[u] = (input.disk[u] # Absent)
      BY DEF FileInv
    <3>4. \A u \in Target : 
             \/ seenExists'[u] = seenExists[u]
             \/ u = t /\ seenExists'[u] = Exists(t) /\ KindOf[t] = "file"
      BY <1>t, <3>1
    <3> QED
      BY <3>2, <3>3, <3>4
  <2> QED
    BY <1>e, <2>1, <2>2
<1>s. ASSUME seenTime' = seenTime
      PROVE  \A t \in Target : seenTime'[t] = Unread \/ seenTime'[t] = input.disk[t]
  BY <1>s DEF FileInv
<1>1. ASSUME disk' = disk \/ \E t \in started' : WriteOutput(t),
             seenExists' = seenExists \/ \E t \in Target : t \notin started /\ ReadExists(t),
             seenTime' = seenTime
      PROVE  FileInv'
  BY <1>i, <1>d, <1>e, <1>s, <1>1 DEF FileInv
<1>2. CASE Evaluate
  <2>1. ASSUME NEW t \in Target, VisitGoal(t) \/ VisitDep(t) PROVE FileInv'
    <3>1. disk' = disk /\ seenTime' = seenTime /\ \E below : Calls(t, below)
      BY <2>1 DEF VisitGoal, VisitDep, fileVars
    <3>2. seenExists' = seenExists \/ (~NeedsNoCall(t) /\ ReadExists(t))
      BY <3>1 DEF Calls
    <3>3. ~NeedsNoCall(t) => t \notin started
      BY NotStarted DEF NeedsNoCall, IInv, TypeOK, TargetTypeOK, Statuses
    <3> QED
      BY <1>1, <3>1, <3>2, <3>3
  <2>2. CASE DepUnchanged
    <3>1. /\ InLoop /\ ret.st = "none" /\ Returned /\ ReadTimestamps({Top.t, ret.of})
          /\ UNCHANGED <<disk, seenExists, started>>
      BY <2>2 DEF DepUnchanged, Answered, Returned, fileVars, jobVars
    <3>2. Top.t \in Target /\ Top.t \notin started
      BY <3>1, TopUnstarted, NotStarted DEF IInv
    <3>3. ret.of \in Target /\ ret.of \notin started
      BY <3>1, <1>i, RequestedReaches DEF AnswerInv, InLoop, StartedInv, Requested
    <3>4. \A t \in {Top.t, ret.of} : KindOf[t] = "file" => Timestamp(t) = input.disk[t]
      BY <3>2, <3>3, Observed DEF IInv, Age
    <3>5. \A t \in Target : seenTime'[t] = seenTime[t] \/ seenTime'[t] = input.disk[t]
      BY <3>1, <3>4 DEF ReadTimestamps
    <3> QED
      BY <1>i, <1>d, <1>e, <3>1, <3>5 DEF FileInv
  <2>3. CASE StartJob
    <3>1. seenExists' = seenExists /\ seenTime' = seenTime
      BY <2>3 DEF StartJob, cacheVars
    <3>2. disk' = disk \/ (Top.t \in started' /\ WriteOutput(Top.t))
      BY <2>3 DEF StartJob, StartThrows, StartReturns, StartSuspends, fileVars
    <3> QED
      BY <1>1, <3>1, <3>2
  <2>4. CASE NoRule \/ NothingToRun
    <3>1. /\ InLoop /\ disk' = disk /\ seenTime' = seenTime
          /\ seenExists' = seenExists \/ ReadExists(Top.t)
      BY <2>4 DEF NoRule, NothingToRun, MustBuild, DepsSettled, LoopDone, fileVars
    <3>2. Top.t \in Target /\ Top.t \notin started
      BY <3>1, TopUnstarted, NotStarted DEF IInv
    <3> QED
      BY <1>1, <3>1, <3>2
  <2>5. CASE \/ DepUpdated \/ DepRunning \/ DepPruned \/ DepFailed \/ TimestampRaises
             \/ ReturnRunning \/ ReturnDepError \/ QuestionRaises \/ UpToDate
    BY <1>1, <2>5 DEF DepUpdated, DepRunning, DepPruned, DepFailed,
       TimestampRaises, ReturnRunning, ReturnDepError, QuestionRaises, UpToDate,
       cacheVars, fileVars
  <2> QED
    BY <1>2, <2>1, <2>2, <2>3, <2>4, <2>5 DEF Evaluate
<1>3. CASE MainLoop
  BY <1>1, <1>3 DEF MainLoop, UpdateGoals, BeginPass, EndPass, Stop, CleanUp,
     GoalRunning, GoalDone, GoalFailedGoOn, GoalFailedExit, cacheVars, fileVars
<1>r. \A t \in running : t \in started
  BY DEF StartedInv, IInv, StatusInv
<1>4. CASE Dispatch
  <2>1. CASE BeginRound \/ EndRound \/ WaitReturns \/ \E t \in Target : ResumeBusy(t)
    BY <1>1, <2>1 DEF BeginRound, EndRound, WaitReturns, ResumeBusy, cacheVars, fileVars
  <2>2. ASSUME NEW t \in Target, ResumeAdvances(t) \/ ResumeThrowsGoOn(t) \/ ResumeThrowsExit(t)
        PROVE  FileInv'
    BY <1>1, <2>2 DEF ResumeAdvances, ResumeThrowsGoOn, ResumeThrowsExit,
       JobAdvances, JobThrows, cacheVars, fileVars
  <2>3. ASSUME NEW t \in Target, ResumeReturns(t) PROVE FileInv'
    <3>1. t \in started'
      BY <1>i, <1>r, <2>3 DEF ResumeReturns, Resume, IInv, RoundInv
    <3>2. seenExists' = seenExists /\ seenTime' = seenTime /\ (disk' = disk \/ WriteOutput(t))
      BY <2>3 DEF ResumeReturns, JobReturns, cacheVars, fileVars
    <3> QED
      BY <1>1, <3>1, <3>2
  <2> QED
    BY <1>4, <2>1, <2>2, <2>3 DEF Dispatch
<1>5. CASE Environment
  <2>1. CASE WaitSeesOutput
    BY <1>1, <2>1 DEF WaitSeesOutput, cacheVars, fileVars
  <2>2. ASSUME NEW t \in Target, ProcExit(t) PROVE FileInv'
    <3>1. t \in started'
      BY <1>i, <1>r, <2>2 DEF ProcExit, ProcSucceeds, ProcFails
    <3>2. seenExists' = seenExists /\ seenTime' = seenTime /\ (disk' = disk \/ WriteOutput(t))
      BY <2>2 DEF ProcExit, ProcSucceeds, ProcFails, cacheVars, fileVars
    <3> QED
      BY <1>1, <3>1, <3>2
  <2>3. ASSUME NEW t \in Target PROVE ~Edit(t)
    BY DEF Edit, Undisturbed
  <2> QED
    BY <1>5, <2>1, <2>2, <2>3 DEF Environment
<1>6. CASE UNCHANGED vars
  BY <1>1, <1>6 DEF vars, cacheVars, fileVars
<1> QED
  BY <1>2, <1>3, <1>4, <1>5, <1>6 DEF Next, Presto, Terminated

(***************************************************************************)
(* A step undoes nothing.                                                  *)
(***************************************************************************)
LEMMA Kept ==
    ASSUME IInv, [Next]_vars
    PROVE  /\ input' = input /\ input \in Inputs
           /\ keepGoing' = keepGoing /\ question' = question
           /\ Requested' = Requested /\ Stale' = Stale
           /\ Requested \subseteq Target
           /\ started \subseteq started'
           /\ \A t \in Target :
                 /\ status[t] \in {"updated", "error"} => status'[t] = status[t]
                 /\ Made(input, status, t) => Made(input, status', t)
                 /\ Decided(input, status, t) => Decided(input, status', t)
                 /\ Failing(input, status, t) => Failing(input, status', t)
                 /\ Broken(input, status, started, t) => Broken(input, status', started', t)
<1>1. input' = input /\ input \in Inputs /\ Later(status, started, status', started')
  BY TimeGoesBy DEF IInv, TypeOK
<1>2. Requested \subseteq Target
  BY <1>1, RequestedReaches DEF Requested
<1> QED
  BY <1>1, <1>2, NothingUndone DEF Later, keepGoing, question, Requested, Stale

(***************************************************************************)
(* Every step keeps StartedInv.                                            *)
(***************************************************************************)
LEMMA StartedStep ==
    ASSUME IInv, FileInv, StartedInv, PruneInv, CallInv, [Next]_vars
    PROVE  StartedInv'
<1>k. /\ input' = input /\ question' = question /\ Requested' = Requested /\ Stale' = Stale
      /\ input \in Inputs /\ input.deps \in [Target -> SUBSET Target]
      /\ \A t \in Target : Made(input, status, t) => Made(input, status', t)
  BY Kept, InputTypes
<1>t. status \in [Target -> Statuses]
  BY DEF IInv, TypeOK, TargetTypeOK
<1>1. ASSUME started' = started,
             \A t \in Target : status'[t] \in {"running", "updated"} => t \in started
      PROVE  StartedInv'
  BY <1>k, <1>1 DEF StartedInv
<1>2. CASE Quiet
  BY <1>1, <1>2 DEF Quiet, StartedInv
<1>3. CASE DepFailed \/ ReturnDepError \/ NoRule
  <2>1. started' = started /\ SetStatus(Top.t, "error")
    BY <1>3 DEF DepFailed, ReturnDepError, NoRule, jobVars
  <2> QED
    BY <1>1, <1>t, <2>1 DEF SetStatus, StartedInv
<1>4. CASE StartJob
  <2>1. /\ DepsSettled /\ Top.build /\ ~question /\ Top.t \in Recipe
        /\ started' = started \cup {Top.t} /\ \E s \in Statuses : SetStatus(Top.t, s)
    BY <1>4 DEF StartJob, StartThrows, StartReturns, StartSuspends, MayStart,
       MustBuild, Statuses
  <2>2. /\ Top.t \in Requested \cap Stale \cap Recipe
        /\ \A d \in input.deps[Top.t] : Made(input, status, d)
    BY <2>1, Settled DEF FollowsDeps
  <2>3. \A t \in Target : status'[t] \in {"running", "updated"} => t \in started'
    BY <1>t, <2>1 DEF SetStatus, StartedInv
  <2>4. ASSUME NEW t \in Target, t \in started'
        PROVE  /\ t \in Requested \cap Stale \cap Recipe
               /\ \A d \in input.deps[t] : Made(input, status', d)
    BY <1>k, <2>1, <2>2, <2>4 DEF StartedInv
  <2> QED
    BY <1>k, <2>1, <2>3, <2>4 DEF StartedInv
<1>5. ASSUME NEW t \in Target, ResumeReturns(t) \/ ResumeThrowsGoOn(t) \/ ResumeThrowsExit(t)
      PROVE  StartedInv'
  <2>1. Resume(t) /\ started' = started /\ \E s \in Statuses : SetStatus(t, s)
    BY <1>5 DEF ResumeReturns, ResumeThrowsGoOn, ResumeThrowsExit, JobReturns,
       JobThrows, Statuses
  <2>2. t \in started
    BY <2>1 DEF Resume, IInv, RoundInv, StatusInv, StartedInv
  <2> QED
    BY <1>1, <1>t, <2>1, <2>2 DEF SetStatus, StartedInv
<1>6. ASSUME NEW t \in Target, ResumeAdvances(t) PROVE Quiet
  BY <1>6 DEF ResumeAdvances, JobAdvances, Quiet
<1> QED
  BY <1>2, <1>3, <1>4, <1>5, <1>6, QuietSteps DEF Next, Presto, Evaluate,
     Dispatch, QuietCall, Terminated

(***************************************************************************)
(* What fails is broken, or something below it is.                         *)
(***************************************************************************)
LEMMA FailingIsBroken ==
    ASSUME ErrorInv, input \in Inputs, NEW t \in Target, Failing(input, status, t)
    PROVE  Broken(input, status, started, t)
BY Reaches DEF ErrorInv, Failing, Broken

(***************************************************************************)
(* Without dependencies left to wait for, all are decided.                 *)
(***************************************************************************)
LEMMA DepsDecided ==
    ASSUME IInv, PruneInv, CallInv, LoopDone, ~Top.wait
    PROVE  \A d \in input.deps[Top.t] : Decided(input, status, d)
<1>1. InLoop /\ Top.todo = {} /\ LookedAt = {}
  BY DEF LoopDone, LookedAt
<1>2. /\ FrameInv(input, Top, LookedAt, status, deps) /\ Top.t \in Target
      /\ input \in Inputs /\ input.deps[Top.t] \subseteq Target
  BY <1>1, TopCall
<1>3. \A d \in input.deps[Top.t] : d \notin deps[Top.t] \/ Made(input, status, d)
  BY <1>1, <1>2 DEF FrameInv, Heeded
<1> QED
  BY <1>2, <1>3, MadeDecides DEF PruneInv

(***************************************************************************)
(* Every step keeps ErrorInv.                                              *)
(***************************************************************************)
LEMMA ErrorStep ==
    ASSUME IInv, FileInv, StartedInv, ErrorInv, PruneInv, AnswerInv, CallInv,
           Undisturbed, [Next]_vars
    PROVE  ErrorInv'
<1>k. /\ input' = input /\ keepGoing' = keepGoing /\ question' = question
      /\ Requested' = Requested /\ Stale' = Stale /\ Requested \subseteq Target
      /\ input \in Inputs /\ input.deps \in [Target -> SUBSET Target]
      /\ \A t \in Target :
            /\ Made(input, status, t) => Made(input, status', t)
            /\ Decided(input, status, t) => Decided(input, status', t)
            /\ Broken(input, status, started, t) => Broken(input, status', started', t)
  BY Kept, InputTypes
<1>t. status \in [Target -> Statuses]
  BY DEF IInv, TypeOK, TargetTypeOK
<1>1. ASSUME NEW u \in Requested,
             \A t \in Target \ {u} : status'[t] = "error" => status[t] = "error",
             status'[u] = "error" =>
                /\ Broken(input, status', started', u)
                /\ keepGoing => Decided(input, status', u)
      PROVE  ErrorInv'
  BY <1>k, <1>1 DEF ErrorInv
<1>2. CASE Quiet
  BY <1>k, <1>2 DEF Quiet, ErrorInv
<1>3. CASE DepFailed
  <2>1. /\ InLoop /\ Returned /\ ret.st = "error" /\ ~keepGoing
        /\ SetStatus(Top.t, "error")
    BY <1>3 DEF DepFailed, Answered, Returned
  <2>2. /\ Top.t \in Requested /\ ret.of \in input.deps[Top.t]
        /\ Failing(input, status, ret.of)
    BY <2>1, TopCall DEF LookedAt, AnswerInv, InLoop
  <2>3. Broken(input, status', started', Top.t)
    BY <1>k, <2>2, FailingIsBroken, BrokenUpwards
  <2>4. \A t \in Target \ {Top.t} : status'[t] = "error" => status[t] = "error"
    BY <1>t, <2>1 DEF SetStatus
  <2> QED
    BY <1>1, <2>1, <2>2, <2>3, <2>4
<1>4. CASE ReturnDepError
  <2>1. LoopDone /\ ~Top.wait /\ depFailed[Top.t] /\ SetStatus(Top.t, "error")
    BY <1>4 DEF ReturnDepError
  <2>2. Top.t \in Requested /\ Top.t \in Target
    BY <1>k, <2>1, TopCall DEF LoopDone
  <2>3. PICK d \in input.deps[Top.t] : Failing(input, status, d)
    BY <2>1, <2>2 DEF PruneInv
  <2>4. Broken(input, status', started', Top.t)
    BY <1>k, <2>2, <2>3, FailingIsBroken, BrokenUpwards
  <2>5. status'[Top.t] = "error" => Decided(input, status', Top.t)
    BY <1>k, <2>1, <2>2, DepsDecided, DecidedUpwards
  <2>6. \A t \in Target \ {Top.t} : status'[t] = "error" => status[t] = "error"
    BY <1>t, <2>1 DEF SetStatus
  <2> QED
    BY <1>1, <2>2, <2>4, <2>5, <2>6
<1>5. CASE NoRule
  <2>1. /\ DepsSettled /\ Top.build /\ ~question /\ Top.t \notin Recipe
        /\ ~always \/ ~Exists(Top.t)
        /\ SetStatus(Top.t, "error")
    BY <1>5 DEF NoRule, MustBuild, NoWayToMake
  <2>2. Top.t \in Requested /\ KindOf[Top.t] # "derived"
    BY <1>k, <2>1, Settled DEF Undisturbed, HasTimestamp, Requested
  <2>3. /\ Top.t \in Stale /\ Top.t \in Target
        /\ \A d \in input.deps[Top.t] : Made(input, status, d)
    BY <2>1, <2>2, Settled DEF FollowsDeps, always
  <2>4. Top.t \in Unmakeable(input)
    BY <1>k, <2>1, <2>3, PlanParts DEF question, Stale
  <2>5. Broken(input, status', started', Top.t)
    BY <1>k, <2>3, <2>4, Reaches DEF Broken
  <2>6. Decided(input, status', Top.t)
    BY <1>k, <2>1, <2>3, MadeDecides, DecidedUpwards
  <2>7. \A t \in Target \ {Top.t} : status'[t] = "error" => status[t] = "error"
    BY <1>t, <2>1 DEF SetStatus
  <2> QED
    BY <1>1, <2>2, <2>5, <2>6, <2>7
<1>6. ASSUME NEW u \in Requested, u \in started', \E s \in Statuses : SetStatus(u, s),
             \A d \in input.deps[u] : Made(input, status, d)
      PROVE  ErrorInv'
  <2>1. status'[u] = "error" => Broken(input, status', started', u)
    BY <1>k, <1>6, Reaches DEF Broken
  <2>2. status'[u] = "error" => Decided(input, status', u)
    BY <1>k, <1>6, MadeDecides, DecidedUpwards
  <2>3. \A t \in Target \ {u} : status'[t] = "error" => status[t] = "error"
    BY <1>t, <1>6 DEF SetStatus
  <2> QED
    BY <1>1, <2>1, <2>2, <2>3
<1>7. CASE StartJob
  <2>1. DepsSettled /\ Top.t \in started' /\ \E s \in Statuses : SetStatus(Top.t, s)
    BY <1>7 DEF StartJob, StartThrows, StartReturns, StartSuspends, MayStart,
       MustBuild, Statuses
  <2> QED
    BY <1>6, <2>1, Settled
<1>8. ASSUME NEW t \in Target, ResumeReturns(t) \/ ResumeThrowsGoOn(t) \/ ResumeThrowsExit(t)
      PROVE  ErrorInv'
  <2>1. Resume(t) /\ started' = started /\ \E s \in Statuses : SetStatus(t, s)
    BY <1>8 DEF ResumeReturns, ResumeThrowsGoOn, ResumeThrowsExit, JobReturns,
       JobThrows, Statuses
  <2>2. /\ t \in started /\ t \in Requested
        /\ \A d \in input.deps[t] : Made(input, status, d)
    BY <2>1 DEF Resume, IInv, RoundInv, StatusInv, StartedInv
  <2> QED
    BY <1>6, <2>1, <2>2
<1>9. ASSUME NEW t \in Target, ResumeAdvances(t) PROVE Quiet
  BY <1>9 DEF ResumeAdvances, JobAdvances, Quiet
<1> QED
  BY <1>2, <1>3, <1>4, <1>5, <1>7, <1>8, <1>9, QuietSteps DEF Next, Presto,
     Evaluate, Dispatch, QuietCall, Terminated

(***************************************************************************)
(* Every step keeps PruneInv.                                              *)
(***************************************************************************)
LEMMA PruneStep ==
    ASSUME IInv, PruneInv, AnswerInv, CallInv, [Next]_vars
    PROVE  PruneInv'
<1>k. /\ input' = input /\ keepGoing' = keepGoing
      /\ input \in Inputs /\ input.deps \in [Target -> SUBSET Target]
      /\ \A t \in Target :
            /\ Decided(input, status, t) => Decided(input, status', t)
            /\ Failing(input, status, t) => Failing(input, status', t)
  BY Kept, InputTypes
<1>1. CASE DepPruned
  <2>1. /\ InLoop /\ Returned /\ ret.st = "error" /\ keepGoing
        /\ deps' = [deps EXCEPT ![Top.t] = deps[Top.t] \ {ret.of}]
        /\ depFailed' = [depFailed EXCEPT ![Top.t] = TRUE]
    BY <1>1 DEF DepPruned, Answered, Returned
  <2>2. /\ ret.of \in input.deps[Top.t] /\ Top.t \in Target
        /\ Failing(input, status, ret.of) /\ Decided(input, status, ret.of)
    BY <1>k, <2>1, TopCall DEF LookedAt, AnswerInv, InLoop
  <2>t. deps \in [Target -> SUBSET Target] /\ depFailed \in [Target -> BOOLEAN]
    BY DEF IInv, TypeOK, TargetTypeOK
  <2>3. \A t \in Target : depFailed'[t] =>
           keepGoing /\ \E d \in input.deps[t] : Failing(input, status', d)
    BY <1>k, <2>1, <2>2, <2>t DEF PruneInv
  <2>4. ASSUME NEW t \in Target, NEW d \in input.deps[t] \ deps'[t]
        PROVE  depFailed'[t] /\ Decided(input, status', d)
    BY <1>k, <2>1, <2>2, <2>4, <2>t DEF PruneInv
  <2> QED
    BY <1>k, <2>3, <2>4 DEF PruneInv
<1>2. CASE ~DepPruned
  <2>1. deps' = deps /\ depFailed' = depFailed
    <3>1. CASE Evaluate
      BY <1>2, <3>1 DEF Evaluate, VisitGoal, VisitDep, DepUpdated,
         DepUnchanged, DepRunning, DepFailed, TimestampRaises, ReturnRunning,
         ReturnDepError, QuestionRaises, StartJob, NoRule, NothingToRun,
         UpToDate, targetVars
    <3>2. CASE MainLoop
      BY <3>2 DEF MainLoop, UpdateGoals, BeginPass, EndPass, Stop, GoalRunning,
         GoalDone, GoalFailedGoOn, GoalFailedExit, evalFrame, targetVars
    <3>3. CASE Dispatch
      BY <3>3 DEF Dispatch, BeginRound, EndRound, WaitReturns, ResumeBusy,
         ResumeAdvances, ResumeReturns, ResumeThrowsGoOn, ResumeThrowsExit,
         targetVars
    <3>4. CASE Environment
      BY <3>4 DEF Environment, WaitSeesOutput, ProcExit, Edit, targetVars
    <3>5. CASE UNCHANGED vars
      BY <3>5 DEF vars, targetVars
    <3> QED
      BY <3>1, <3>2, <3>3, <3>4, <3>5 DEF Next, Presto, Terminated
  <2> QED
    BY <1>k, <2>1 DEF PruneInv
<1> QED
  BY <1>1, <1>2

(***************************************************************************)
(* Every step keeps AnswerInv.                                             *)
(***************************************************************************)
LEMMA AnswerStep ==
    ASSUME IInv, FileInv, StartedInv, ErrorInv, PruneInv, AnswerInv, CallInv,
           LoopInv, Undisturbed, [Next]_vars
    PROVE  AnswerInv'
<1>k. /\ input' = input /\ keepGoing' = keepGoing
      /\ Requested' = Requested /\ Stale' = Stale /\ Requested \subseteq Target
      /\ input \in Inputs /\ input.deps \in [Target -> SUBSET Target]
      /\ \A t \in Target :
            /\ status[t] = "updated" => status'[t] = status[t]
            /\ Made(input, status, t) => Made(input, status', t)
            /\ Decided(input, status, t) => Decided(input, status', t)
            /\ Failing(input, status, t) => Failing(input, status', t)
  BY Kept, InputTypes
<1>t. status \in [Target -> Statuses]
  BY DEF IInv, TypeOK, TargetTypeOK
<1>1. ASSUME NEW u \in Requested, NEW s, ret' = [of |-> u, st |-> s],
             s = "none" => Made(input, status', u) /\ u \notin Stale,
             s = "updated" => status'[u] = "updated",
             s = "error" => /\ Failing(input, status', u)
                            /\ keepGoing => Decided(input, status', u)
      PROVE  AnswerInv'
  BY <1>k, <1>1 DEF AnswerInv
<1>2. ASSUME ret'.st = "pending" \/ pc' # "eval"
      PROVE  AnswerInv'
  BY <1>2 DEF AnswerInv, Returned
<1>3. ASSUME ret' = ret, pc' = pc
      PROVE  AnswerInv'
  BY <1>k, <1>3 DEF AnswerInv, Returned
<1>4. ASSUME NEW t \in Requested, NEW below, Calls(t, below), status' = status
      PROVE  AnswerInv'
  <2>1. CASE NeedsNoCall(t)
    <3>1. ret' = [of |-> t, st |-> status[t]] /\ status[t] # "none"
      BY <1>4, <2>1 DEF Calls, NeedsNoCall
    <3>2. status[t] = "error" => /\ Failing(input, status', t)
                                 /\ keepGoing => Decided(input, status', t)
      BY <1>k, <1>4 DEF ErrorInv, Failing
    <3> QED
      BY <1>1, <1>4, <3>1, <3>2
  <2>2. CASE ~NeedsNoCall(t)
    BY <1>2, <1>4, <2>2 DEF Calls, NoReturn
  <2> QED
    BY <2>1, <2>2
<1>5. ASSUME NEW d \in input.deps[Top.t], Top.t \in Target, SetStatus(Top.t, "error")
      PROVE  Failing(input, status', Top.t)
  <2>1. KindOf[Top.t] # "source"
    BY <1>k, <1>5, InputTypes
  <2> QED
    BY <1>t, <1>5, <2>1 DEF SetStatus, Failing
<1>6. CASE Evaluate
  <2>1. ASSUME NEW t \in Target, VisitGoal(t) PROVE AnswerInv'
    <3>1. t \in Requested /\ Calls(t, <<>>) /\ status' = status
      BY <1>k, <2>1, RequestedReaches DEF VisitGoal, LoopInv, targetVars, Requested
    <3> QED
      BY <1>4, <3>1
  <2>2. ASSUME NEW d \in Target, VisitDep(d) PROVE AnswerInv'
    <3>1. /\ InLoop /\ d \in Top.todo /\ status' = status
          /\ Calls(d, <<[Top EXCEPT !.todo = @ \ {d}]>> \o Callers)
      BY <2>2 DEF VisitDep, targetVars
    <3>2. d \in Requested
      BY <3>1, TopCall DEF FrameInv
    <3> QED
      BY <1>4, <3>1, <3>2
  <2>3. CASE DepUpdated \/ DepUnchanged \/ DepRunning \/ DepPruned
    BY <1>2, <2>3 DEF DepUpdated, DepUnchanged, DepRunning, DepPruned, NoReturn
  <2>4. CASE DepFailed
    <3>1. /\ InLoop /\ Returned /\ ~keepGoing /\ SetStatus(Top.t, "error")
          /\ ret' = [of |-> Top.t, st |-> "error"]
      BY <2>4 DEF DepFailed, Answered, Returned, Return
    <3>2. Top.t \in Requested /\ ret.of \in input.deps[Top.t]
      BY <3>1, TopCall DEF LookedAt
    <3>3. Failing(input, status', Top.t)
      BY <1>k, <1>5, <3>1, <3>2
    <3> QED
      BY <1>1, <3>1, <3>2, <3>3
  <2>5. CASE TimestampRaises
    BY <1>k, <2>5, TopCall DEF TimestampRaises, Answered, HasTimestamp, Undisturbed, Requested
  <2>6. CASE ReturnRunning
    <3>1. InLoop /\ ret' = [of |-> Top.t, st |-> "running"]
      BY <2>6 DEF ReturnRunning, LoopDone, Return
    <3> QED
      BY <1>1, <3>1, TopCall
  <2>7. CASE ReturnDepError
    <3>1. /\ InLoop /\ LoopDone /\ ~Top.wait /\ depFailed[Top.t]
          /\ SetStatus(Top.t, "error") /\ ret' = [of |-> Top.t, st |-> "error"]
      BY <2>7 DEF ReturnDepError, LoopDone, Return
    <3>2. Top.t \in Requested /\ Top.t \in Target
      BY <1>k, <3>1, TopCall
    <3>3. \E d \in input.deps[Top.t] : Failing(input, status, d)
      BY <3>1, <3>2 DEF PruneInv
    <3>4. Failing(input, status', Top.t)
      BY <1>5, <3>1, <3>2, <3>3
    <3>5. Top.t \in Recipe => status'[Top.t] = "error"
      BY <1>t, <3>1, <3>2, TargetAssumption DEF SetStatus
    <3>6. Decided(input, status', Top.t)
      <4>1. \A d \in input.deps[Top.t] : Decided(input, status', d)
        BY <1>k, <3>1, <3>2, DepsDecided
      <4> QED
        BY <1>k, <3>2, <3>5, <4>1, DecidedUpwards
    <3> QED
      BY <1>1, <3>1, <3>2, <3>4, <3>6
  <2>8. ASSUME DepsSettled, status' = status \/ \E s \in Statuses : SetStatus(Top.t, s)
        PROVE  /\ Top.t \in Requested /\ Top.t \in Target
               /\ \A d \in input.deps[Top.t] : Made(input, status', d) /\ Decided(input, status', d)
    <3>1. Top.t \in Requested /\ Top.t \in Target
      BY <2>8, Settled
    <3>2. \A d \in input.deps[Top.t] : Made(input, status', d) /\ d \in Target
      BY <1>k, <2>8, <3>1, Settled
    <3> QED
      BY <1>k, <3>1, <3>2, MadeDecides
  <2>9. CASE QuestionRaises
    <3>1. DepsSettled /\ Top.build /\ question /\ ret' = [of |-> Top.t, st |-> "error"]
      BY <2>9 DEF QuestionRaises, MustBuild, Return
    <3>2. Top.t \in Stale /\ Top.t \in Requested
      BY <3>1, Settled
    <3>3. Failing(input, status', Top.t) /\ Decided(input, status', Top.t)
      BY <1>k, <3>1, <3>2, PlanParts DEF Failing, Decided, question, Stale
    <3> QED
      BY <1>1, <3>1, <3>2, <3>3
  <2>10. CASE StartJob
    <3>1. DepsSettled /\ Top.t \in Recipe
      BY <2>10 DEF StartJob, MayStart, MustBuild
    <3>2. PICK s \in {"error", "updated", "running"} :
             SetStatus(Top.t, s) /\ ret' = [of |-> Top.t, st |-> s]
      BY <2>10 DEF StartJob, StartThrows, StartReturns, StartSuspends, Return
    <3>3. /\ Top.t \in Requested /\ Top.t \in Target
          /\ \A d \in input.deps[Top.t] : Decided(input, status', d)
      BY <2>8, <3>1, <3>2 DEF Statuses
    <3>4. status'[Top.t] = s
      BY <1>t, <3>1, <3>2, <3>3, TargetAssumption DEF SetStatus
    <3>5. s = "error" => Failing(input, status', Top.t) /\ Decided(input, status', Top.t)
      BY <1>k, <3>3, <3>4, DecidedUpwards DEF Failing
    <3> QED
      BY <1>1, <3>2, <3>3, <3>4, <3>5
  <2>11. CASE NoRule
    <3>1. /\ DepsSettled /\ Top.build /\ ~question /\ Top.t \notin Recipe
          /\ ~always \/ ~Exists(Top.t)
          /\ SetStatus(Top.t, "error") /\ ret' = [of |-> Top.t, st |-> "error"]
      BY <2>11 DEF NoRule, MustBuild, NoWayToMake, Return
    <3>2. Top.t \in Requested /\ KindOf[Top.t] # "derived"
      BY <1>k, <3>1, Settled DEF Undisturbed, HasTimestamp, Requested
    <3>3. Top.t \in Stale
      BY <3>1, <3>2, Settled DEF FollowsDeps, always
    <3>4. Failing(input, status', Top.t)
      BY <1>k, <3>1, <3>3, PlanParts DEF Failing, question, Stale
    <3>5. /\ Top.t \in Target
          /\ \A d \in input.deps[Top.t] : Decided(input, status', d)
      BY <2>8, <3>1 DEF Statuses
    <3>6. Decided(input, status', Top.t)
      BY <1>k, <3>1, <3>5, DecidedUpwards
    <3> QED
      BY <1>1, <3>1, <3>2, <3>4, <3>6
  <2>12. CASE NothingToRun \/ UpToDate
    <3>1. /\ DepsSettled /\ ret' = [of |-> Top.t, st |-> "none"] /\ status' = status
      BY <2>12 DEF NothingToRun, UpToDate, MustBuild, Return, targetVars
    <3>2. Top.t \notin Stale
      <4>1. CASE UpToDate
        BY <4>1, Settled DEF UpToDate
      <4>2. CASE NothingToRun
        <5>1. Exists(Top.t) /\ ~FollowsDeps(input, Top.t) /\ ~question
          BY <4>2 DEF NothingToRun, NoWayToMake, FollowsDeps, always
        <5> QED
          BY <3>1, <5>1, Settled
      <4> QED
        BY <2>12, <4>1, <4>2
    <3>3. /\ Top.t \in Requested /\ Top.t \in Target
          /\ \A d \in input.deps[Top.t] : Made(input, status', d)
      BY <2>8, <3>1
    <3>4. Made(input, status', Top.t)
      BY <1>k, <3>2, <3>3, MadeUpwards DEF Stale
    <3> QED
      BY <1>1, <3>1, <3>2, <3>3, <3>4
  <2> QED
    BY <1>6, <2>1, <2>2, <2>3, <2>4, <2>5, <2>6, <2>7, <2>9, <2>10, <2>11, <2>12
       DEF Evaluate
<1>7. CASE MainLoop
  BY <1>2, <1>7 DEF MainLoop, UpdateGoals, BeginPass, EndPass, Stop, AfterPass,
     GoalRunning, GoalDone, GoalFailedGoOn, GoalFailedExit, NoReturn
<1>8. CASE Dispatch
  BY <1>2, <1>8 DEF Dispatch, BeginRound, EndRound, WaitReturns, AfterDispatch,
     AfterPass, ResumeBusy, ResumeAdvances, ResumeReturns, ResumeThrowsGoOn,
     ResumeThrowsExit, Resume, ExitAfter
<1>9. CASE Environment
  BY <1>2, <1>3, <1>9 DEF Environment, WaitSeesOutput, ProcExit, Edit, callVars
<1>10. CASE UNCHANGED vars
  BY <1>3, <1>10 DEF vars, callVars
<1> QED
  BY <1>6, <1>7, <1>8, <1>9, <1>10 DEF Next, Presto, Terminated

(***************************************************************************)
(* Going on in the innermost call, with f for its locals, keeps the calls  *)
(* right if f has heeded what was looked at.                               *)
(***************************************************************************)
LEMMA GoingOn ==
    ASSUME IInv, CallInv, InLoop, NEW f \in Frame, f.t = Top.t,
           NEW y \in SUBSET Target, FrameInv(input, f, y, status, deps)
    PROVE  /\ <<f>> \o Callers \in Seq(Frame)
           /\ FramesInv(input, <<f>> \o Callers, y, status, deps)
<1>1. /\ stack \in Seq(Frame) /\ stack # <<>>
      /\ FramesInv(input, stack, LookedAt, status, deps)
  BY TopUnstarted DEF IInv, InLoop, CallInv
<1>2. <<f, y>> \in RightFrames(input, status, deps)
  BY DEF RightFrames
<1> QED
  BY <1>1, <1>2, CallGoesOn, TopFrame DEF Top, Callers, FramesInv

(***************************************************************************)
(* Every step keeps CallInv.                                               *)
(***************************************************************************)
LEMMA CallStep ==
    ASSUME IInv, FileInv, StartedInv, PruneInv, AnswerInv, CallInv, LoopInv,
           Undisturbed, [Next]_vars
    PROVE  CallInv'
<1>k. /\ input' = input /\ input \in Inputs /\ Requested \subseteq Target
      /\ Later(status, started, status', started')
      /\ \A t \in Target : deps'[t] \subseteq deps[t]
      /\ input.deps \in [Target -> SUBSET Target]
  BY Kept, TimeGoesBy, InputTypes
<1>t. /\ status \in [Target -> Statuses] /\ deps \in [Target -> SUBSET Target]
      /\ \A t \in Target : deps[t] \subseteq input.deps[t]
  BY DEF IInv, TypeOK, TargetTypeOK, StackInv
<1>1. ASSUME NEW s \in Seq(Frame), NEW x, FramesInv(input, s, x, status, deps),
             stack' = s, LookedAt' = x
      PROVE  CallInv'
  <2>1. FramesInv(input, s, x, status', deps')
    BY <1>k, <1>1, FramesLast
  <2> QED
    BY <1>k, <1>1, <2>1 DEF CallInv
<1>2. ASSUME NEW t \in Requested, NEW below \in Seq(Frame),
             FramesInv(input, below, {t}, status, deps), Calls(t, below)
      PROVE  CallInv'
  <2>1. CASE NeedsNoCall(t)
    <3>1. stack' = below /\ ret' = [of |-> t, st |-> status[t]] /\ status[t] # "pending"
      BY <1>2, <2>1 DEF Calls, NeedsNoCall
    <3>2. LookedAt' = {t}
      BY <3>1 DEF LookedAt, Returned
    <3> QED
      BY <1>1, <1>2, <3>1, <3>2
  <2>2. CASE ~NeedsNoCall(t)
    <3> DEFINE g == [t |-> t, todo |-> deps[t], build |-> always \/ ~Exists(t), wait |-> FALSE]
    <3>1. status[t] = "none"
      BY <1>k, <1>t, <2>2 DEF NeedsNoCall, Statuses
    <3>2. g \in Frame /\ g.t = t /\ FrameInv(input, g, {}, status, deps)
      BY <3>1, NewFrame
    <3>3. stack' = <<g>> \o below /\ LookedAt' = {}
      <4>1. stack' = <<g>> \o below /\ ret' = NoReturn
        BY <1>2, <2>2 DEF Calls
      <4> QED
        BY <4>1 DEF LookedAt, Returned, NoReturn
    <3> HIDE DEF g
    <3>4. FramesInv(input, <<g>> \o below, {}, status, deps) /\ <<g>> \o below \in Seq(Frame)
      <4>1. <<g, {}>> \in RightFrames(input, status, deps)
        BY <3>2 DEF RightFrames
      <4> QED
        BY <1>2, <3>2, <4>1, CallNests DEF FramesInv
    <3> QED
      BY <1>1, <3>3, <3>4
  <2> QED
    BY <2>1, <2>2
<1>3. ASSUME InLoop, NEW f \in Frame, f.t = Top.t, FrameInv(input, f, {}, status, deps),
             stack' = <<f>> \o Callers, ret' = NoReturn
      PROVE  CallInv'
  <2>1. LookedAt' = {}
    BY <1>3 DEF LookedAt, Returned, NoReturn
  <2> QED
    BY <1>1, <1>3, <2>1, GoingOn
<1>4. ASSUME InLoop, NEW s \in Statuses, Return(s)
      PROVE  CallInv'
  <2>1. LookedAt' = {Top.t} /\ stack' = Callers
    BY <1>4 DEF Return, LookedAt, Returned, Statuses
  <2> QED
    BY <1>1, <1>4, <2>1, TopCall, TopUnstarted DEF IInv
<1>5. ASSUME stack' = stack, ret' = ret, pc' = pc
      PROVE  CallInv'
  <2>1. stack \in Seq(Frame) /\ LookedAt' = LookedAt
    BY <1>5 DEF IInv, TypeOK, LookedAt, Returned
  <2> QED
    BY <1>1, <1>5, <2>1 DEF CallInv
<1>6. CASE Evaluate
  <2>0. InLoop => /\ Top \in Frame /\ Top.t \in Target /\ Top.build \in BOOLEAN
                  /\ FrameInv(input, Top, LookedAt, status, deps)
                  /\ stack = <<Top>> \o Callers
    <3> SUFFICES ASSUME InLoop
                 PROVE  /\ Top \in Frame /\ Top.t \in Target /\ Top.build \in BOOLEAN
                        /\ FrameInv(input, Top, LookedAt, status, deps)
                        /\ stack = <<Top>> \o Callers
      OBVIOUS
    <3>1. /\ stack \in Seq(Frame) /\ stack # <<>>
          /\ Top \in Frame /\ Top = Head(stack) /\ Callers = Tail(stack)
      BY TopUnstarted DEF IInv, Top
    <3>2. stack = <<Top>> \o Callers
      BY <3>1
    <3>3. FrameInv(input, Top, LookedAt, status, deps)
      BY TopCall
    <3> QED
      BY <3>1, <3>2, <3>3 DEF Frame
  <2>1. ASSUME NEW t \in Target, VisitGoal(t) PROVE CallInv'
    <3>1. t \in Requested /\ Calls(t, <<>>) /\ <<>> \in Seq(Frame)
      BY <1>k, <2>1, RequestedReaches DEF VisitGoal, LoopInv, Requested
    <3>2. FramesInv(input, <<>>, {t}, status, deps)
      BY DEF FramesInv, Frames
    <3> QED
      BY <1>2, <3>1, <3>2
  <2>2. ASSUME NEW d \in Target, VisitDep(d) PROVE CallInv'
    <3> DEFINE f == [Top EXCEPT !.todo = Top.todo \ {d}]
    <3>1. InLoop /\ ~Returned /\ d \in Top.todo /\ Calls(d, <<f>> \o Callers)
      BY <2>2 DEF VisitDep
    <3>2. /\ f \in Frame /\ f.t = Top.t /\ f.todo = Top.todo \ {d}
          /\ f.build = Top.build /\ f.wait = Top.wait
      BY <2>0, <3>1 DEF Frame
    <3> HIDE DEF f
    <3>3. f.todo \cup {d} = Top.todo \cup LookedAt
      BY <3>1, <3>2 DEF LookedAt
    <3>4. FrameInv(input, f, {d}, status, deps)
      BY <2>0, <3>1, <3>2, <3>3 DEF FrameInv, Heeded
    <3>5. d \in Requested
      BY <3>1, TopCall DEF FrameInv
    <3> QED
      BY <1>2, <3>1, <3>2, <3>4, <3>5, GoingOn
  <2>3. ASSUME InLoop, Returned, Made(input, status, ret.of), NEW b \in BOOLEAN,
               Top.build => b,
               ret.of \in Stale => b,
               KindOf[ret.of] # "phony" /\ Age(input, Top.t) < Age(input, ret.of) => b,
               b => Top.build \/ Top.t \in Stale \/ ~FollowsDeps(input, Top.t),
               stack' = <<[Top EXCEPT !.build = b]>> \o Callers, ret' = NoReturn
        PROVE  CallInv'
    <3> DEFINE f == [Top EXCEPT !.build = b]
    <3>1. /\ f \in Frame /\ f.t = Top.t /\ f.todo = Top.todo /\ f.build = b
          /\ f.wait = Top.wait
      BY <2>0, <2>3 DEF Frame
    <3>2. stack' = <<f>> \o Callers
      BY <2>3
    <3> HIDE DEF f
    <3>3. Heeded(input, f, status, ret.of)
      BY <2>3, <3>1 DEF Heeded, Stale
    <3>4. \A d : Heeded(input, Top, status, d) => Heeded(input, f, status, d)
      BY <2>3, <3>1 DEF Heeded
    <3>5. FrameInv(input, f, {}, status, deps)
      <4>1. \A d \in input.deps[f.t] \ (f.todo \cup {}) :
               f.wait \/ d \notin deps[f.t] \/ Heeded(input, f, status, d)
        BY <2>0, <2>3, <3>1, <3>3, <3>4 DEF FrameInv, LookedAt
      <4> QED
        BY <2>0, <2>3, <3>1, <4>1 DEF FrameInv, Stale
    <3> QED
      BY <1>3, <2>3, <3>1, <3>2, <3>5
  <2>4. CASE DepUpdated
    <3>1. /\ InLoop /\ Returned /\ ret.st = "updated" /\ ret' = NoReturn
          /\ stack' = <<[Top EXCEPT !.build = TRUE]>> \o Callers
      BY <2>4 DEF DepUpdated, Answered, Returned, SetTop
    <3>2. ret.of \in input.deps[Top.t] /\ ret.of \in Requested /\ ret.of \in Target
      BY <1>k, <3>1, TopCall DEF LookedAt
    <3>3. status[ret.of] = "updated" /\ ret.of \in started
      BY <3>1, <3>2 DEF AnswerInv, InLoop, StartedInv
    <3>4. Made(input, status, ret.of)
      BY <1>k, <3>2, <3>3, MadeUpwards DEF StartedInv
    <3>5. ret.of \in Stale
      BY <3>2, <3>3 DEF StartedInv
    <3>6. Top.t \in Stale \/ ~FollowsDeps(input, Top.t)
      BY <1>k, <2>0, <3>1, <3>2, <3>5, StaleTargets DEF Follows, Stale
    <3> QED
      BY <2>3, <3>1, <3>4, <3>6
  <2>5. CASE DepUnchanged
    <3>1. InLoop /\ Returned /\ ret.st = "none" /\ ret' = NoReturn
      BY <2>5 DEF DepUnchanged, Answered, Returned
    <3>2. /\ ret.of \in input.deps[Top.t] /\ ret.of \in Target
          /\ Made(input, status, ret.of) /\ ret.of \notin Stale
      BY <1>k, <3>1, TopCall DEF LookedAt, AnswerInv, InLoop
    <3>3. ret.of \notin started /\ Top.t \notin started
      BY <2>0, <3>1, <3>2, TopUnstarted, NotStarted DEF StartedInv, IInv
    <3>4. KindOf[ret.of] # "phony" /\ ~OutOfDate(input, ret.of)
      BY <1>k, <3>2, StaleTargets DEF OutOfDate, Stale
    <3>5. Timestamp(ret.of) = Age(input, ret.of)
      BY <3>2, <3>3, <3>4, Observed DEF IInv
    <3>6. KindOf[Top.t] = "phony" => Top.build /\ Top.t \in Stale
      BY <1>k, <2>0, <3>1, StaleTargets DEF FrameInv, MustRemake, OutOfDate, Stale
    <3>7. KindOf[Top.t] # "phony" => Timestamp(Top.t) = Age(input, Top.t)
      BY <2>0, <3>1, <3>3, Observed DEF IInv
    <3>8. PICK b \in BOOLEAN : /\ b <=> Top.build \/ Newer(ret.of, Top.t)
                               /\ stack' = <<[Top EXCEPT !.build = b]>> \o Callers
      <4>1. CASE Newer(ret.of, Top.t)
        BY <2>5, <4>1 DEF DepUnchanged, SetTop
      <4>2. CASE ~Newer(ret.of, Top.t)
        <5>1. stack' = stack /\ [Top EXCEPT !.build = Top.build] = Top
          BY <2>0, <2>5, <3>1, <4>2 DEF DepUnchanged, Frame
        <5> QED
          BY <2>0, <3>1, <4>2, <5>1
      <4> QED
        BY <4>1, <4>2
    <3>9. Age(input, Top.t) < Age(input, ret.of) => b
      BY <3>5, <3>6, <3>7, <3>8 DEF Newer
    <3>10. Newer(ret.of, Top.t) => Top.t \in Stale \/ ~FollowsDeps(input, Top.t)
      <4>1. CASE KindOf[Top.t] = "phony"
        BY <3>6, <4>1
      <4>2. CASE KindOf[Top.t] # "phony"
        <5>1. Newer(ret.of, Top.t) /\ FollowsDeps(input, Top.t) => OutOfDate(input, Top.t)
          BY <3>2, <3>4, <3>5, <3>7, <4>2 DEF Newer, OutOfDate
        <5> QED
          BY <1>k, <2>0, <3>1, <5>1, StaleTargets DEF Stale
      <4> QED
        BY <4>1, <4>2
    <3>11. b => Top.build \/ Top.t \in Stale \/ ~FollowsDeps(input, Top.t)
      BY <3>8, <3>10
    <3> QED
      BY <2>3, <3>1, <3>2, <3>8, <3>9, <3>11
  <2>6. CASE DepRunning
    <3> DEFINE f == [Top EXCEPT !.wait = TRUE, !.todo = IF SlotsFull THEN {} ELSE Top.todo]
    <3>1. InLoop /\ ret' = NoReturn /\ stack' = <<f>> \o Callers
      BY <2>6 DEF DepRunning, Answered, SetTop
    <3>2. /\ f \in Frame /\ f.t = Top.t /\ f.todo \subseteq Top.todo /\ f.build = Top.build
          /\ f.wait
      BY <2>0, <3>1 DEF Frame
    <3> HIDE DEF f
    <3>3. FrameInv(input, f, {}, status, deps)
      BY <2>0, <3>1, <3>2 DEF FrameInv
    <3> QED
      BY <1>3, <3>1, <3>2, <3>3
  <2>7. CASE DepPruned
    <3>1. /\ InLoop /\ Returned /\ ret' = NoReturn /\ stack' = stack
          /\ deps' = [deps EXCEPT ![Top.t] = deps[Top.t] \ {ret.of}]
      BY <2>7 DEF DepPruned, Answered, Returned
    <3>2. FramesInv(input, stack, LookedAt, status', deps') /\ stack \in Seq(Frame) /\ stack # <<>>
      <4>1. FramesInv(input, stack, LookedAt, status, deps) /\ stack \in Seq(Frame) /\ stack # <<>>
        BY <3>1, TopUnstarted DEF CallInv, InLoop, IInv
      <4> QED
        BY <1>k, <4>1, FramesLast
    <3>3. FrameInv(input, Top, LookedAt, status', deps')
      BY <3>2, FramesReturn DEF Top
    <3>4. ret.of \notin deps'[Top.t] /\ LookedAt = {ret.of} /\ LookedAt' = {}
      BY <1>t, <2>0, <3>1 DEF LookedAt, Returned, NoReturn
    <3>5. FrameInv(input, Top, {}, status', deps')
      BY <3>3, <3>4 DEF FrameInv
    <3>6. FramesInv(input, <<Top>> \o Tail(stack), {}, status', deps')
      <4>1. <<Top, {}>> \in RightFrames(input, status', deps')
        BY <2>0, <3>1, <3>5 DEF RightFrames
      <4> QED
        BY <2>0, <3>1, <3>2, <4>1, CallGoesOn DEF Top, FramesInv
    <3> QED
      BY <1>k, <2>0, <3>1, <3>4, <3>6 DEF CallInv, Callers
  <2>8. CASE \/ DepFailed \/ TimestampRaises \/ ReturnRunning \/ ReturnDepError
             \/ QuestionRaises \/ StartJob \/ NoRule \/ NothingToRun \/ UpToDate
    <3>1. InLoop /\ \E s \in Statuses : Return(s)
      BY <2>8 DEF DepFailed, TimestampRaises, ReturnRunning, ReturnDepError,
         QuestionRaises, StartJob, NoRule, NothingToRun, UpToDate, Answered,
         MayStart, MustBuild, DepsSettled, LoopDone, Statuses
    <3> QED
      BY <1>4, <3>1
  <2> QED
    BY <1>6, <2>1, <2>2, <2>4, <2>5, <2>6, <2>7, <2>8 DEF Evaluate
<1>7. ASSUME pc' # "eval" PROVE CallInv'
  BY <1>7 DEF CallInv
<1>8. CASE MainLoop
  BY <1>7, <1>8 DEF MainLoop, UpdateGoals, BeginPass, EndPass, Stop, AfterPass,
     GoalRunning, GoalDone, GoalFailedGoOn, GoalFailedExit, AfterGoal, ExitAfter
<1>9. CASE Dispatch
  BY <1>7, <1>9 DEF Dispatch, BeginRound, EndRound, WaitReturns, AfterDispatch,
     AfterPass, ResumeBusy, ResumeAdvances, ResumeReturns, ResumeThrowsGoOn,
     ResumeThrowsExit, Resume, ExitAfter
<1>10. CASE Environment
  BY <1>5, <1>7, <1>10 DEF Environment, WaitSeesOutput, ProcExit, Edit, callVars
<1>11. CASE UNCHANGED vars
  BY <1>5, <1>11 DEF vars, callVars
<1> QED
  BY <1>6, <1>8, <1>9, <1>10, <1>11 DEF Next, Presto, Terminated

(***************************************************************************)
(* When no goal is left no job runs: every job works for a goal.           *)
(***************************************************************************)
LEMMA NoGoalNoJob ==
    ASSUME IInv, StartedInv, LoopInv, pc # "start", goals = {}
    PROVE  running = {}
<1> SUFFICES ASSUME NEW t \in running PROVE FALSE
  OBVIOUS
<1>1. input \in Inputs /\ t \in Target /\ status[t] = "running"
  BY DEF IInv, TypeOK, JobTypeOK, StatusInv
<1>2. t \in Requested \cap Stale \cap Recipe /\ ~question
  BY <1>1 DEF StartedInv
<1>3. PICK g \in AskedForBy(input) : t \in Reach(input, g)
  BY <1>1, <1>2, RequestedReaches DEF Requested
<1>4. Decided(input, status, g)
  BY <1>3 DEF LoopInv
<1> QED
  BY <1>1, <1>2, <1>3, <1>4 DEF Decided, question, Stale

(***************************************************************************)
(* make.jobs.count tells whether a job runs.                               *)
(***************************************************************************)
LEMMA NoneCounted ==
    ASSUME TypeOK, StatusInv, ~(count > 0)
    PROVE  running = {}
<1>1. IsFiniteSet(running) /\ Cardinality(running) = 0
  BY TargetAssumption, FS_Subset DEF TypeOK, JobTypeOK, StatusInv
<1> QED
  BY <1>1, FS_EmptySet

(***************************************************************************)
(* Every step keeps LoopInv.                                               *)
(***************************************************************************)
LEMMA LoopStep ==
    ASSUME IInv, LeavingInv, StartedInv, ErrorInv, AnswerInv, LoopInv, [Next]_vars
    PROVE  LoopInv'
<1>k. /\ input' = input /\ keepGoing' = keepGoing
      /\ Requested' = Requested /\ Requested \subseteq Target
      /\ input \in Inputs /\ input.deps \in [Target -> SUBSET Target]
      /\ \A t \in Target :
            /\ Made(input, status, t) => Made(input, status', t)
            /\ Decided(input, status, t) => Decided(input, status', t)
            /\ Failing(input, status, t) => Failing(input, status', t)
  BY Kept, InputTypes
<1>t. status \in [Target -> Statuses] /\ AskedForBy(input) \subseteq Target
  BY <1>k, InputTypes DEF IInv, TypeOK, TargetTypeOK
<1>c. Cause(input, status) => Cause(input, status')
  BY <1>k DEF Cause, Requested
<1>1. ASSUME UNCHANGED <<goals, failure, draining>>, pass'.any = pass.any,
             pass'.todo \subseteq pass.todo, pc \notin {"start", "pass"},
             pc' \in {"pass", "goals", "eval", "endpass", "round", "resume", "wait"}
      PROVE  LoopInv'
  BY <1>k, <1>t, <1>c, <1>1 DEF LoopInv
<1>2. ASSUME UNCHANGED <<goals, failure, draining, pass, pc, running>>
      PROVE  LoopInv'
  BY <1>k, <1>t, <1>c, <1>2 DEF LoopInv
<1>3. ASSUME pc \in {"endpass", "resume"}, pc' = AfterPass, Quiet,
             UNCHANGED <<goals, failure, draining, pass>>
      PROVE  LoopInv'
  <2>1. CASE pass.any
    BY <1>1, <1>3, <2>1 DEF AfterPass
  <2>2. CASE ~pass.any
    <3>1. goals = {} /\ running = {} /\ running' = {}
      BY <1>3, <2>2, NoGoalNoJob DEF LoopInv, Quiet
    <3>2. pc' = IF failure THEN "stop" ELSE "ok"
      BY <1>3, <2>2 DEF AfterPass
    <3> QED
      BY <1>k, <1>t, <1>c, <1>3, <3>1, <3>2 DEF LoopInv
  <2> QED
    BY <2>1, <2>2
<1>4. CASE Evaluate
  <2>1. ASSUME NEW t \in Target, VisitGoal(t) PROVE LoopInv'
    BY <1>1, <2>1 DEF VisitGoal, dispatchVars
  <2>2. CASE ~\E t \in Target : VisitGoal(t)
    BY <1>1, <1>4, <2>2 DEF Evaluate, VisitDep, DepUpdated, DepUnchanged,
       DepRunning, DepPruned, DepFailed, TimestampRaises, ReturnRunning,
       ReturnDepError, QuestionRaises, StartJob, NoRule, NothingToRun, UpToDate,
       MayStart, MustBuild, DepsSettled, LoopDone, Answered, InLoop, evalFrame,
       loopVars, dispatchVars
  <2> QED
    BY <2>1, <2>2
<1>5. CASE MainLoop
  <2>q. status' = status /\ running' = running
    BY <1>5, QuietSteps DEF Quiet
  <2>1. CASE UpdateGoals
    <3>1. /\ goals' = AskedForBy(input) /\ pc' = (IF goals' = {} THEN "stop" ELSE "pass")
          /\ failure' = failure /\ pass' = pass /\ draining' = draining /\ ~failure
          /\ pc = "start"
      BY <2>1 DEF UpdateGoals, LoopInv, AskedForBy, dispatchVars
    <3>2. goals' = {} => Requested = {}
      BY <1>k, <3>1, RequestedReaches DEF Requested
    <3> QED
      BY <1>k, <1>t, <1>c, <2>q, <3>1, <3>2 DEF LoopInv
  <2>2. CASE BeginPass
    <3>1. /\ pass' = [jobs |-> count, todo |-> goals, any |-> goals # {}]
          /\ pc' \in {"endpass", "goals"} /\ pc = "pass"
          /\ UNCHANGED <<goals, failure, draining>>
      BY <2>2 DEF BeginPass, dispatchVars
    <3>2. pass'.todo = goals /\ (~pass'.any => goals = {})
      BY <3>1
    <3> QED
      BY <1>k, <1>t, <1>c, <3>1, <3>2 DEF LoopInv
  <2>3. CASE EndPass
    BY <1>1, <1>3, <2>3, QuietSteps, <1>5 DEF EndPass, loopVars, dispatchVars
  <2>4. CASE Stop
    BY <1>k, <1>t, <1>c, <2>q, <2>4 DEF Stop, LoopInv, loopVars, dispatchVars
  <2>5. CASE GoalRunning
    BY <1>1, <2>5 DEF GoalRunning, GoalAnswered, AfterGoal, evalFrame, loopVars, dispatchVars
  <2>6. ASSUME pc = "eval", pc' = AfterGoal, goals' = goals \ {ret.of},
               Decided(input, status, ret.of), failure' \/ Made(input, status, ret.of),
               UNCHANGED <<pass, draining>>,
               failure' = failure \/ (failure' /\ keepGoing /\ Cause(input, status))
        PROVE  LoopInv'
    <3>1. pc' \in {"goals", "endpass"}
      BY <2>6 DEF AfterGoal
    <3>2. \A g \in AskedForBy(input) \ goals' :
             Decided(input, status', g) /\ (failure' \/ Made(input, status', g))
      <4>1. \A g \in AskedForBy(input) \ goals :
               Decided(input, status, g) /\ (failure \/ Made(input, status, g))
        BY <2>6 DEF LoopInv
      <4>2. failure => failure'
        BY <2>6
      <4> QED
        BY <1>k, <1>t, <2>6, <4>1, <4>2
    <3> QED
      BY <1>k, <1>t, <1>c, <2>6, <3>1, <3>2 DEF LoopInv
  <2>7. CASE GoalDone
    <3>1. /\ pc = "eval" /\ Returned /\ ret.st \in {"none", "updated"} /\ pc' = AfterGoal
          /\ goals' = goals \ {ret.of} /\ UNCHANGED <<failure, pass, draining>>
      BY <2>7 DEF GoalDone, GoalAnswered, Returned, FinishGoal, dispatchVars
    <3>2. ret.of \in Target
      BY <1>k, <3>1 DEF AnswerInv
    <3>3. Made(input, status, ret.of)
      BY <1>k, <3>1, <3>2, MadeUpwards DEF AnswerInv, StartedInv
    <3> QED
      BY <1>k, <2>6, <3>1, <3>2, <3>3, MadeDecides
  <2>8. CASE GoalFailedGoOn
    <3>1. /\ pc = "eval" /\ Returned /\ ret.st = "error" /\ keepGoing /\ pc' = AfterGoal
          /\ goals' = goals \ {ret.of} /\ failure' /\ UNCHANGED <<pass, draining>>
      BY <2>8 DEF GoalFailedGoOn, GoalAnswered, Returned, FinishGoal, NoteFailure, dispatchVars
    <3>2. Decided(input, status, ret.of) /\ Cause(input, status)
      BY <3>1 DEF AnswerInv, Cause, Requested
    <3> QED
      BY <2>6, <3>1, <3>2
  <2>9. CASE GoalFailedExit
    <3>1. /\ pc = "eval" /\ Returned /\ ret.st = "error" /\ ~keepGoing
          /\ draining' = (count > 0) /\ pc' = (IF count > 0 THEN "round" ELSE "stop")
          /\ UNCHANGED <<goals, failure, pass>>
      BY <2>9 DEF GoalFailedExit, GoalAnswered, Returned, ExitAfter, loopVars
    <3>2. Cause(input, status)
      BY <3>1 DEF AnswerInv, Cause, Requested
    <3>3. ~(count > 0) => running' = {}
      BY <2>q, NoneCounted DEF IInv
    <3> QED
      BY <1>k, <1>t, <1>c, <3>1, <3>2, <3>3 DEF LoopInv
  <2> QED
    BY <1>5, <2>1, <2>2, <2>3, <2>4, <2>5, <2>7, <2>8, <2>9 DEF MainLoop
<1>6. CASE Dispatch
  <2>1. CASE BeginRound \/ WaitReturns \/ \E t \in Target : ResumeBusy(t)
    BY <1>1, <2>1 DEF BeginRound, WaitReturns, ResumeBusy, Resume, loopVars, dispatchVars
  <2>2. CASE EndRound
    <3>1. /\ pc = "resume" /\ UNCHANGED <<goals, failure, pass, draining>> /\ Quiet
          /\ pc' \in {"wait", AfterDispatch}
      BY <2>2, QuietSteps DEF EndRound, loopVars, dispatchVars
    <3>2. CASE pc' \in {"wait", "round"}
      BY <1>1, <3>1, <3>2
    <3>3. CASE pc' = AfterPass
      BY <1>3, <3>1, <3>3
    <3>4. CASE pc' = "stop" /\ draining /\ ~(count > 0)
      <4>1. running' = {} /\ Cause(input, status') /\ ~keepGoing
        BY <1>c, <3>1, <3>4, NoneCounted DEF IInv, Quiet, LoopInv, LeavingInv
      <4> QED
        BY <1>k, <1>t, <3>1, <3>4, <4>1 DEF LoopInv
    <3> QED
      BY <3>1, <3>2, <3>3, <3>4 DEF AfterDispatch
  <2>3. ASSUME NEW t \in Target, ResumeAdvances(t) \/ ResumeReturns(t) PROVE LoopInv'
    BY <1>1, <2>3 DEF ResumeAdvances, ResumeReturns, Resume, loopVars
  <2>4. ASSUME NEW t \in Target, Resume(t), JobThrows(t)
        PROVE  Cause(input, status')
    <3>1. status[t] = "running" /\ KindOf[t] # "source"
      BY <2>4 DEF Resume, IInv, RoundInv, StatusInv
    <3>2. t \in Requested
      BY <3>1 DEF StartedInv
    <3>3. status'[t] = "error"
      BY <1>t, <2>4, <3>1 DEF JobThrows, SetStatus
    <3> QED
      BY <3>2, <3>3 DEF Cause, Failing, Requested
  <2>5. ASSUME NEW t \in Target, ResumeThrowsGoOn(t) PROVE LoopInv'
    <3>1. /\ pc = "resume" /\ pc' = pc /\ keepGoing /\ failure'
          /\ UNCHANGED <<goals, pass, draining>>
      BY <2>5 DEF ResumeThrowsGoOn, Resume, NoteFailure
    <3>2. Cause(input, status')
      BY <2>4, <2>5 DEF ResumeThrowsGoOn
    <3> QED
      BY <1>k, <1>t, <3>1, <3>2 DEF LoopInv
  <2>6. ASSUME NEW t \in Target, ResumeThrowsExit(t) PROVE LoopInv'
    <3>1. /\ pc = "resume" /\ ~keepGoing /\ UNCHANGED <<goals, failure, pass>>
          /\ draining' = (count' > 0) /\ pc' = (IF count' > 0 THEN "round" ELSE "stop")
      BY <2>6 DEF ResumeThrowsExit, Resume, ExitAfter, loopVars
    <3>2. Cause(input, status')
      BY <2>4, <2>6 DEF ResumeThrowsExit
    <3>3. TypeOK' /\ StatusInv'
      BY TypeStep, StatusStep
    <3>4. ~(count' > 0) => running' = {}
      <4>1. IsFiniteSet(running') /\ (~(count' > 0) => Cardinality(running') = 0)
        BY <3>3, TargetAssumption, FS_Subset DEF TypeOK, JobTypeOK, StatusInv
      <4> QED
        BY <4>1, FS_EmptySet
    <3> QED
      BY <1>k, <1>t, <3>1, <3>2, <3>4 DEF LoopInv
  <2> QED
    BY <1>6, <2>1, <2>2, <2>3, <2>5, <2>6 DEF Dispatch
<1>7. CASE Environment
  <2>1. CASE WaitSeesOutput
    BY <1>1, <2>1 DEF WaitSeesOutput, loopVars, dispatchVars
  <2>2. ASSUME NEW t \in Target, ProcExit(t) \/ Edit(t) PROVE LoopInv'
    BY <1>2, <1>7, <2>2, QuietSteps DEF ProcExit, Edit, loopVars, dispatchVars, Quiet
  <2> QED
    BY <1>7, <2>1, <2>2 DEF Environment
<1>8. CASE UNCHANGED vars
  BY <1>2, <1>8 DEF vars, loopVars, dispatchVars, jobVars
<1> QED
  BY <1>4, <1>5, <1>6, <1>7, <1>8 DEF Next, Presto, Terminated

-----------------------------------------------------------------------------
(***************************************************************************)
(* The invariant holds before the first look at a goal, and from then on.  *)
(***************************************************************************)
LEMMA BuildInit ==
    ASSUME Init
    PROVE  BuildInv
<1>1. FileInv /\ PruneInv
  BY DEF Init, TargetInit, JobInit, FileInv, PruneInv
<1>2. StartedInv /\ ErrorInv
  BY DEF Init, TargetInit, JobInit, StartedInv, ErrorInv
<1>3. AnswerInv /\ CallInv
  BY DEF Init, AnswerInv, CallInv
<1>4. LoopInv
  BY DEF Init, JobInit, LoopInv, AskedForBy
<1> QED
  BY <1>1, <1>2, <1>3, <1>4 DEF BuildInv

\* The parts of the invariant together.
LEMMA BuildStep ==
    ASSUME IInv, LeavingInv, BuildInv, Undisturbed, [Next]_vars
    PROVE  BuildInv'
<1>1. /\ FileInv /\ StartedInv /\ ErrorInv /\ PruneInv /\ AnswerInv /\ CallInv
      /\ LoopInv
  BY DEF BuildInv
<1>2. FileInv' /\ StartedInv' /\ ErrorInv' /\ PruneInv'
  BY <1>1, FileStep, StartedStep, ErrorStep, PruneStep
<1>3. AnswerInv' /\ CallInv' /\ LoopInv'
  BY <1>1, AnswerStep, CallStep, LoopStep
<1> QED
  BY <1>2, <1>3 DEF BuildInv

\* They hold in every run.
LEMMA BuildInvariant ==
    ASSUME Undisturbed
    PROVE  Spec => [](IInv /\ LeavingInv /\ BuildInv)
<1>1. Init => BuildInv
  BY BuildInit
<1>2. IInv /\ LeavingInv /\ BuildInv /\ [Next]_vars => BuildInv'
  BY BuildStep
<1> QED
  BY <1>1, <1>2, Leaving, PTL DEF Spec

(***************************************************************************)
(* What is below some targets is below one of them.                        *)
(***************************************************************************)
LEMMA BelowReaches ==
    ASSUME NEW i \in Inputs, NEW S \in SUBSET Target
    PROVE  /\ Below(i, S) \subseteq Target
           /\ \A u \in Below(i, S) : \E t \in S : u \in Reach(i, t)
           /\ \A t \in Target, u \in Target : u \in Reach(i, t) => Reach(i, u) \subseteq Reach(i, t)
<1>1. i.deps \in [Target -> SUBSET Target]
  BY InputTypes
<1>2. ASSUME NEW t \in Target
      PROVE  Reach(i, t) \subseteq Target /\ Closed(Reach(i, t), i.deps)
  <2>1. {t} \in SUBSET Target
    OBVIOUS
  <2> QED
    BY <1>1, <2>1, ClosureContains DEF Reach, Below
<1>3. ASSUME NEW t \in Target, NEW u \in Target, u \in Reach(i, t)
      PROVE  Reach(i, u) \subseteq Reach(i, t)
  <2>1. {u} \in SUBSET Target /\ {u} \subseteq Reach(i, t)
    BY <1>3
  <2> QED
    BY <1>1, <1>2, <2>1, ClosureLeast DEF Reach, Below
<1> DEFINE X == UNION {Reach(i, t) : t \in S}
<1>4. S \subseteq X /\ Closed(X, i.deps)
  BY <1>2, Reaches DEF Closed
<1>5. Below(i, S) \subseteq X
  <2> HIDE DEF X
  <2> QED
    BY <1>1, <1>4, ClosureLeast DEF Below
<1>6. Below(i, S) \subseteq Target
  BY <1>1, ClosureContains DEF Below
<1> QED
  BY <1>3, <1>5, <1>6

(***************************************************************************)
(* A command starts only when nothing below its target is still to be      *)
(* made, is running or failed.                                             *)
(***************************************************************************)
THEOREM DepsComeFirst ==
    ASSUME Undisturbed
    PROVE  Spec => []DepsFirst
<1>1. ASSUME IInv, BuildInv, MayStart, NEW d \in Below(input, input.deps[Top.t])
      PROVE  status[d] \in {"none", "updated"} /\ (d \in Stale => d \in started)
  <2>1. FileInv /\ StartedInv /\ ErrorInv /\ PruneInv /\ CallInv /\ DepsSettled
    BY <1>1 DEF BuildInv, MayStart, MustBuild
  <2>2. /\ input \in Inputs /\ Top.t \in Target /\ status \in [Target -> Statuses]
        /\ \A u \in input.deps[Top.t] : Made(input, status, u)
        /\ input.deps[Top.t] \in SUBSET Target
    BY <1>1, <2>1, Settled, InputTypes DEF IInv, TypeOK, TargetTypeOK
  <2>3. PICK u \in input.deps[Top.t] : d \in Reach(input, u)
    BY <2>2, BelowReaches
  <2>4. d \in Target /\ u \in Target /\ Reach(input, d) \subseteq Reach(input, u)
    BY <2>2, <2>3, BelowReaches
  <2>5. \A e \in Reach(input, d) \cap Stale : status[e] = "updated" /\ e \in Target
    BY <2>2, <2>3, <2>4, Reaches DEF Made, Stale
  <2>6. ~Broken(input, status, started, d)
    <3>1. \A e \in Reach(input, d) : e \in Stale => e \in Recipe /\ ~question
      BY <2>1, <2>5 DEF StartedInv
    <3>2. \A e \in Reach(input, d) : e \notin Unmakeable(input)
      BY <2>2, <3>1, PlanParts DEF question, Stale
    <3>3. \A e \in Reach(input, d) : e \in started => status[e] # "error"
      BY <2>1, <2>2, <2>4, <2>5, Reaches DEF StartedInv
    <3> QED
      BY <3>2, <3>3 DEF Broken
  <2>7. d \in Reach(input, d)
    BY <2>2, <2>4, Reaches
  <2> QED
    BY <2>1, <2>2, <2>4, <2>5, <2>6, <2>7 DEF StartedInv, ErrorInv, Statuses
<1>2. IInv /\ LeavingInv /\ BuildInv => DepsFirst
  BY <1>1 DEF DepsFirst
<1> QED
  BY <1>2, BuildInvariant, PTL

(***************************************************************************)
(* What is made has nothing lost below it.                                 *)
(***************************************************************************)
LEMMA NotDoomed ==
    ASSUME StartedInv, input \in Inputs, NEW d \in Target, Made(input, status, d)
    PROVE  d \notin Doomed
<1> DEFINE X == {u \in Target : ~Made(input, status, u)}
<1>1. input.deps \in [Target -> SUBSET Target]
  BY InputTypes
<1>2. Lost \subseteq X
  <2> SUFFICES ASSUME NEW u \in Lost PROVE u \in Target /\ u \in Stale /\ status[u] # "updated"
    BY Reaches DEF Made, Stale
  <2> QED
    BY DEF Lost, StartedInv
<1>3. \A t \in Target : input.deps[t] \cap X # {} => t \in X
  BY Reaches DEF Made
<1> HIDE DEF X
<1>4. X \in SUBSET Target
  BY DEF X
<1>5. Doomed \subseteq X
  BY <1>2, <1>3, <1>4, DoomedTargets
<1> QED
  BY <1>5 DEF X

(***************************************************************************)
(* What has something doomed below it is doomed.                           *)
(***************************************************************************)
LEMMA DoomedAbove ==
    ASSUME input \in Inputs, NEW d \in Target, NEW e \in Reach(input, d), e \in Doomed
    PROVE  d \in Doomed
<1> SUFFICES ASSUME d \notin Doomed PROVE FALSE
  OBVIOUS
<1>1. input.deps \in [Target -> SUBSET Target] /\ {d} \in SUBSET Target
  BY InputTypes
<1> DEFINE Z == Target \ Doomed
<1>2. {d} \subseteq Z /\ Closed(Z, input.deps)
  BY <1>1, DoomedTargets DEF Closed
<1>3. Reach(input, d) \subseteq Z
  <2> HIDE DEF Z
  <2> QED
    BY <1>1, <1>2, ClosureLeast DEF Reach, Below
<1> QED
  BY <1>3

(***************************************************************************)
(* With -k, once presto exits: every target of the plan that can be made   *)
(* and has nothing doomed below it was made, or its own command failed.    *)
(***************************************************************************)
THEOREM KeepGoingCompletes ==
    ASSUME Undisturbed
    PROVE  Spec => []KeepGoingIsComplete
<1>1. ASSUME IInv, BuildInv, Exited, keepGoing, ~question
      PROVE  started = {t \in Requested \cap Stale \cap Recipe :
                           input.deps[t] \cap Doomed = {}}
  <2>1. StartedInv /\ ErrorInv /\ LoopInv /\ input \in Inputs
    BY <1>1 DEF BuildInv, IInv, TypeOK
  <2>2. Requested \subseteq Target /\ input.deps \in [Target -> SUBSET Target]
    BY <2>1, RequestedReaches, InputTypes DEF Requested
  <2>3. ASSUME NEW t \in started
        PROVE  t \in Requested \cap Stale \cap Recipe /\ input.deps[t] \cap Doomed = {}
    <3>1. /\ t \in Target /\ t \in Requested \cap Stale \cap Recipe
          /\ \A d \in input.deps[t] : Made(input, status, d)
      BY <1>1, <2>1 DEF StartedInv, IInv, TypeOK, JobTypeOK
    <3> QED
      BY <2>1, <2>2, <3>1, NotDoomed
  <2>4. ASSUME NEW t \in Requested \cap Stale \cap Recipe, input.deps[t] \cap Doomed = {}
        PROVE  t \in started
    <3>1. PICK g \in AskedForBy(input) : t \in Reach(input, g)
      BY <2>1, RequestedReaches DEF Requested
    <3>2. Decided(input, status, g)
      BY <1>1, <2>1 DEF Exited, LoopInv
    <3>3. status[t] \in {"updated", "error"}
      BY <1>1, <3>1, <3>2 DEF Decided, question, Stale
    <3>4. CASE status[t] = "updated"
      BY <2>1, <2>2, <3>4 DEF StartedInv
    <3>5. CASE status[t] = "error"
      <4>1. PICK e \in Reach(input, t) :
               (e \in started /\ status[e] = "error") \/ e \in Unmakeable(input)
        BY <2>1, <2>2, <3>5 DEF ErrorInv, Broken
      <4>2. e \in Target /\ (e = t \/ \E d \in input.deps[t] : e \in Reach(input, d))
        BY <2>1, <2>2, <4>1, Reaches
      <4>3. e \in Lost
        BY <1>1, <2>1, <4>1, <4>2, PlanParts DEF Lost, question, Stale
      <4>4. e = t
        BY <2>1, <2>2, <2>4, <4>2, <4>3, DoomedTargets, DoomedAbove
      <4>5. t \notin Unmakeable(input)
        BY <1>1, <2>1, PlanParts DEF question
      <4> QED
        BY <4>1, <4>4, <4>5
    <3> QED
      BY <3>3, <3>4, <3>5
  <2> QED
    BY <2>3, <2>4
<1>2. IInv /\ LeavingInv /\ BuildInv => KeepGoingIsComplete
  BY <1>1 DEF KeepGoingIsComplete
<1> QED
  BY <1>2, BuildInvariant, PTL

-----------------------------------------------------------------------------
(***************************************************************************)
(* The jobs: only a running job has a live process, and a job that is      *)
(* suspended is in a step of its script, with a process if that step runs  *)
(* one.                                                                    *)
(***************************************************************************)
JobInv ==
    \A t \in Target :
       /\ job[t].proc = "live" => t \in running
       /\ t \notin started => job[t].step = 0 /\ job[t].proc = "none"
       /\ t \in running => /\ job[t].step \in DOMAIN Script[t]
                           /\ job[t].proc = "none" <=> Script[t][job[t].step] = "yield"

(***************************************************************************)
(* Each step keeps this.                                                   *)
(***************************************************************************)
LEMMA JobStep ==
    ASSUME IInv, JobInv, [Next]_vars
    PROVE  JobInv'
<1>t. /\ job \in [Target -> [step : Nat, proc : Processes]] /\ running \subseteq Target
      /\ Script \in [Target -> Seq({"run", "yield"})]
  BY JobAssumption DEF IInv, TypeOK, JobTypeOK
<1>1. ASSUME UNCHANGED job, running' \subseteq running, started \subseteq started',
             \A t \in running : job[t].proc = "live" => t \in running'
      PROVE  JobInv'
  BY <1>1 DEF JobInv
<1>2. ASSUME NEW t \in Target, NEW n \in DOMAIN Script[t], t \in running', t \in started',
             \A u \in Target \ {t} : u \in running' <=> u \in running,
             started \subseteq started', job' = [job EXCEPT ![t] = AtStep(t, n)]
      PROVE  JobInv'
  <2>1. Script[t][n] \in {"run", "yield"}
    BY <1>t, <1>2
  <2>2. job'[t].step = n /\ job'[t].proc = IF Script[t][n] = "run" THEN "live" ELSE "none"
    BY <1>t, <1>2 DEF AtStep
  <2>3. \A u \in Target \ {t} : job'[u] = job[u]
    BY <1>t, <1>2
  <2> QED
    BY <1>2, <2>1, <2>2, <2>3 DEF JobInv
<1>3. ASSUME NEW t \in running, NEW p \in {"succeeded", "failed"}, job[t].proc = "live",
             job' = [job EXCEPT ![t].proc = p], UNCHANGED <<running, started>>
      PROVE  JobInv'
  <2>1. /\ t \in Target /\ job'[t].step = job[t].step /\ job'[t].proc = p
        /\ \A u \in Target \ {t} : job'[u] = job[u]
    BY <1>t, <1>3
  <2>2. t \in started
    BY <1>3, <2>1 DEF JobInv
  <2> QED
    BY <1>3, <2>1, <2>2 DEF JobInv
<1>4. CASE Evaluate
  <2>1. CASE StartJob
    <3>1. InLoop /\ Top.t \in Target
      BY <2>1, TopUnstarted DEF IInv, StartJob, MayStart, MustBuild, DepsSettled, LoopDone
    <3>2. CASE StartThrows(Top.t) \/ StartReturns(Top.t)
      BY <1>1, <3>2 DEF StartThrows, StartReturns
    <3>3. CASE StartSuspends(Top.t)
      <4>1. Len(Script[Top.t]) > 0 /\ 1 \in DOMAIN Script[Top.t]
        BY <1>t, <3>1, <3>3 DEF StartSuspends
      <4> QED
        BY <1>2, <3>1, <3>3, <4>1 DEF StartSuspends
    <3> QED
      BY <2>1, <3>2, <3>3 DEF StartJob
  <2>2. CASE ~StartJob
    BY <1>1, <1>4, <2>2 DEF Evaluate, VisitGoal, VisitDep, DepUpdated,
       DepUnchanged, DepRunning, DepPruned, DepFailed, TimestampRaises,
       ReturnRunning, ReturnDepError, QuestionRaises, NoRule, NothingToRun,
       UpToDate, jobVars
  <2> QED
    BY <2>1, <2>2
<1>5. CASE MainLoop
  BY <1>1, <1>5 DEF MainLoop, UpdateGoals, BeginPass, EndPass, Stop,
     GoalRunning, GoalDone, GoalFailedGoOn, GoalFailedExit, jobVars
<1>6. CASE Dispatch
  <2>1. CASE BeginRound \/ EndRound \/ WaitReturns \/ \E t \in Target : ResumeBusy(t)
    BY <1>1, <2>1 DEF BeginRound, EndRound, WaitReturns, ResumeBusy, jobVars
  <2>2. ASSUME NEW t \in Target, ResumeAdvances(t) PROVE JobInv'
    <3>1. /\ t \in running /\ job[t].step < Len(Script[t]) /\ UNCHANGED <<running, started>>
          /\ job' = [job EXCEPT ![t] = AtStep(t, job[t].step + 1)]
      BY <2>2 DEF ResumeAdvances, JobAdvances, Resume, IInv, RoundInv
    <3>2. job[t].step \in Nat /\ Script[t] \in Seq({"run", "yield"})
      BY <1>t
    <3>3. job[t].step + 1 \in DOMAIN Script[t]
      BY <3>1, <3>2
    <3>4. t \in started
      BY <3>1, <3>3 DEF JobInv
    <3> QED
      BY <1>2, <3>1, <3>3, <3>4
  <2>3. ASSUME NEW t \in Target, ResumeReturns(t) \/ ResumeThrowsGoOn(t) \/ ResumeThrowsExit(t)
        PROVE  JobInv'
    <3>1. job[t].proc # "live" /\ running' = running \ {t} /\ UNCHANGED <<job, started>>
      BY <2>3 DEF ResumeReturns, ResumeThrowsGoOn, ResumeThrowsExit, JobReturns, JobThrows, Busy
    <3> QED
      BY <1>1, <3>1
  <2> QED
    BY <1>6, <2>1, <2>2, <2>3 DEF Dispatch
<1>7. CASE Environment
  <2>1. ASSUME NEW t \in Target, ProcExit(t) PROVE JobInv'
    BY <1>3, <2>1 DEF ProcExit, ProcSucceeds, ProcFails, Busy
  <2>2. CASE WaitSeesOutput \/ \E t \in Target : Edit(t)
    BY <1>1, <2>2 DEF WaitSeesOutput, Edit, jobVars
  <2> QED
    BY <1>7, <2>1, <2>2 DEF Environment
<1>8. CASE UNCHANGED vars
  BY <1>1, <1>8 DEF vars, jobVars
<1> QED
  BY <1>4, <1>5, <1>6, <1>7, <1>8 DEF Next, Presto, Terminated

(***************************************************************************)
(* So it always holds, whatever is edited meanwhile.                       *)
(***************************************************************************)
LEMMA JobInvariant == Spec => [](IInv /\ JobInv)
<1>1. Init => JobInv
  BY DEF Init, JobInit, JobInv
<1>2. IInv /\ JobInv /\ [Next]_vars => JobInv'
  BY JobStep
<1> QED
  BY <1>1, <1>2, Invariant, PTL DEF Spec

-----------------------------------------------------------------------------
(***************************************************************************)
(* The plan is a plan, and a status stands for a state.                    *)
(***************************************************************************)
LEMMA PlanIsPlan ==
    ASSUME NEW i \in Inputs
    PROVE  PlanOf[i] \in Abstract!Plan
<1>1. /\ PlanOf[i].deps \in [Target -> SUBSET Target] /\ PlanOf[i].stale \in SUBSET Target
      /\ PlanOf[i].requested \in SUBSET Target /\ PlanOf[i].makeable \in SUBSET Target
      /\ PlanOf[i].capacity \in Nat \ {0} /\ PlanOf[i].keepGoing \in BOOLEAN
  <2>1. Recipe \subseteq Target /\ i.slots \in Int
    BY TargetAssumption, InputTypes
  <2>2. PlanOf[i].capacity \in Nat \ {0}
    <3>1. (IF i.slots > 1 THEN i.slots ELSE 1) \in Nat \ {0}
      BY <2>1
    <3> QED
      BY <3>1, PlanParts
  <2>3. PlanOf[i].deps \in [Target -> SUBSET Target] /\ PlanOf[i].keepGoing \in BOOLEAN
    BY InputTypes, PlanParts
  <2>4. PlanOf[i].makeable \in SUBSET Target
    <3>1. (IF i.flags.question THEN {} ELSE Recipe) \in SUBSET Target
      BY <2>1
    <3> QED
      BY <3>1, PlanParts
  <2>5. PlanOf[i].stale \in SUBSET Target /\ PlanOf[i].requested \in SUBSET Target
    BY StaleTargets, RequestedReaches
  <2> QED
    BY <2>2, <2>3, <2>4, <2>5
<1> DEFINE p == [deps |-> i.deps,
         stale |-> Closure({t \in Target : OutOfDate(i, t)},
                           [d \in Target |-> {t \in Target : FollowsDeps(i, t)
                                                             /\ d \in i.deps[t]}]),
         requested |-> Below(i, AskedForBy(i)),
         makeable |-> IF i.flags.question THEN {} ELSE Recipe,
         capacity |-> IF i.slots > 1 THEN i.slots ELSE 1,
         keepGoing |-> i.flags.keepGoing]
<1>2. PlanOf[i] = p
  BY DEF PlanOf
<1>3. PlanOf[i] = [deps |-> PlanOf[i].deps, stale |-> PlanOf[i].stale,
                   requested |-> PlanOf[i].requested, makeable |-> PlanOf[i].makeable,
                   capacity |-> PlanOf[i].capacity, keepGoing |-> PlanOf[i].keepGoing]
  BY <1>2
<1> HIDE DEF p
<1> QED
  BY <1>1, <1>3 DEF Abstract!Plan

(***************************************************************************)
(* The state of the abstract build that the statuses stand for.            *)
(***************************************************************************)
States == [t \in Target |-> Progress(t)]
Result == IF Exited THEN pc ELSE "open"

\* What the states of Build say of the status of a target.
LEMMA StatesTell ==
    ASSUME status \in [Target -> Statuses]
    PROVE  /\ \A t \in Target : /\ States[t] = "idle" <=> status[t] = "none"
                                /\ States[t] = "building" <=> status[t] = "running"
                                /\ States[t] = "made" <=> status[t] = "updated"
                                /\ States[t] = "failed" <=> status[t] = "error"
           /\ Abstract!In("made") = {u \in Target : status[u] = "updated"}
           /\ Abstract!In("building") = {t \in Target : status[t] = "running"}
           /\ Abstract!In("failed") = {t \in Target : status[t] = "error"}
<1>1. \A t \in Target : /\ States[t] = "idle" <=> status[t] = "none"
                        /\ States[t] = "building" <=> status[t] = "running"
                        /\ States[t] = "made" <=> status[t] = "updated"
                        /\ States[t] = "failed" <=> status[t] = "error"
  BY DEF States, Progress, Statuses
<1> QED
  BY <1>1 DEF Abstract!In, States

(***************************************************************************)
(* Every step of presto is a step of the build it carries out, or leaves   *)
(* that as it is.                                                          *)
(***************************************************************************)
LEMMA AbstractStep ==
    ASSUME IInv, LeavingInv, BuildInv, BuildInv', TypeOK', Undisturbed, [Next]_vars
    PROVE  [Abstract!Next]_Abstract!vars
<1>k. /\ input' = input /\ input \in Inputs /\ Requested \subseteq Target
      /\ PlanOf[input].deps = input.deps /\ PlanOf[input].keepGoing = keepGoing
      /\ PlanOf[input].capacity = Capacity
      /\ PlanOf[input].requested = Requested /\ PlanOf[input].stale = Stale
      /\ PlanOf[input].makeable = (IF question THEN {} ELSE Recipe)
      /\ input.deps \in [Target -> SUBSET Target]
  BY Kept, PlanParts, InputTypes DEF Capacity, keepGoing, question, Requested, Stale
<1>t. /\ status \in [Target -> Statuses] /\ status' \in [Target -> Statuses]
      /\ running = {t \in Target : status[t] = "running"} /\ count = Cardinality(running)
  BY DEF IInv, TypeOK, TargetTypeOK, StatusInv
<1>b. /\ FileInv /\ StartedInv /\ ErrorInv /\ PruneInv /\ AnswerInv /\ CallInv
      /\ LoopInv /\ StartedInv' /\ ErrorInv' /\ LoopInv'
  BY DEF BuildInv
<1>s. /\ \A t \in Target : /\ States[t] = "idle" <=> status[t] = "none"
                           /\ States[t] = "building" <=> status[t] = "running"
                           /\ States[t] = "made" <=> status[t] = "updated"
                           /\ States[t] = "failed" <=> status[t] = "error"
      /\ Abstract!In("made") = {u \in Target : status[u] = "updated"}
      /\ Abstract!In("building") = running
      /\ Abstract!In("failed") = {t \in Target : status[t] = "error"}
  <2>1. status \in [Target -> Statuses]
    BY <1>t
  <2>2. running = {t \in Target : status[t] = "running"}
    BY <1>t
  <2> QED
    BY <2>1, <2>2, StatesTell
<1>1. ASSUME status' = status, Exited' <=> Exited, Exited => pc' = pc
      PROVE  [Abstract!Next]_Abstract!vars
  <2>1. States' = States
    BY <1>1 DEF States, Progress
  <2>2. Result' = Result
    BY <1>1 DEF Result
  <2> QED
    BY <1>k, <2>1, <2>2 DEF Abstract!vars, States, Result
<1>2. ASSUME NEW t \in Target, NEW s \in {"running", "updated", "error"},
             status' = [status EXCEPT ![t] = s], ~Exited, ~Exited'
      PROVE  /\ States'[t] \in {"building", "made", "failed"}
             /\ s # "running" => States'[t] \in {"made", "failed"}
             /\ s = "error" => States'[t] = "failed"
             /\ States' = [States EXCEPT ![t] = States'[t]]
             /\ Result = "open" /\ Result' = "open"
  <2>1. States'[t] = IF s = "running" THEN "building" ELSE IF s = "updated" THEN "made" ELSE "failed"
    BY <1>t, <1>2 DEF States, Progress
  <2>2. \A u \in Target \ {t} : States'[u] = States[u]
    <3>1. \A u \in Target \ {t} : status'[u] = status[u]
      BY <1>t, <1>2
    <3>2. \A u \in Target \ {t} : Progress(u)' = Progress(u)
      BY <3>1 DEF Progress
    <3> QED
      BY <3>2 DEF States
  <2>3. States' = [States EXCEPT ![t] = States'[t]]
    <3>1. States \in [Target -> {Progress(u) : u \in Target}] /\ DOMAIN States' = Target
          /\ States' = [u \in Target |-> States'[u]]
      BY DEF States
    <3> QED
      BY <2>2, <3>1
  <2> QED
    BY <1>2, <2>1, <2>3 DEF Result
<1>3. ASSUME NEW t \in Target, status[t] = "none", ~Exited, ~Exited',
             status' = [status EXCEPT ![t] = "error"],
             t \in Unmakeable(input) \/ \E d \in input.deps[t] : Failing(input, status, d)
      PROVE  Abstract!Next
  <2>1. /\ States' = [States EXCEPT ![t] = "failed"] /\ States[t] = "idle"
        /\ Result = "open" /\ Result' = "open"
    BY <1>2, <1>3, <1>s
  <2>2. Abstract!Unmakeable = Unmakeable(input)
    BY <1>k DEF Abstract!Unmakeable, Unmakeable
  <2>3. \/ t \in Abstract!Unmakeable
        \/ PlanOf[input].deps[t] \cap (Abstract!In("failed") \cup Abstract!Unmakeable) # {}
    BY <1>k, <1>s, <1>3, <2>2 DEF Failing
  <2>4. Abstract!GiveUp(t)
    BY <1>k, <2>1, <2>3 DEF Abstract!GiveUp, States, Result
  <2> QED
    BY <2>4 DEF Abstract!Next
<1>4. CASE Evaluate
  <2>0. pc \in {"goals", "eval"} /\ pc' = "eval"
    BY <1>4 DEF Evaluate, VisitGoal, VisitDep, DepUpdated,
       DepUnchanged, DepRunning, DepPruned, DepFailed, TimestampRaises,
       ReturnRunning, ReturnDepError, QuestionRaises, StartJob, NoRule,
       NothingToRun, UpToDate, MayStart, MustBuild, DepsSettled, LoopDone,
       Answered, InLoop, evalFrame
  <2>e. ~Exited /\ ~Exited'
    BY <2>0 DEF Exited
  <2>1. CASE Quiet
    BY <1>1, <2>e, <2>1 DEF Quiet
  <2>2. ASSUME InLoop, NEW s, SetStatus(Top.t, s)
        PROVE  /\ Top.t \in Target /\ status[Top.t] = "none"
               /\ KindOf[Top.t] = "source" => status' = status
               /\ KindOf[Top.t] # "source" => status' = [status EXCEPT ![Top.t] = s]
               /\ input.deps[Top.t] # {} => KindOf[Top.t] # "source"
    BY <1>k, <2>2, TopUnstarted, InputTypes DEF SetStatus, IInv
  <2>3. CASE DepFailed
    <3>1. /\ InLoop /\ Returned /\ ret.st = "error" /\ SetStatus(Top.t, "error")
      BY <2>3 DEF DepFailed, Answered, Returned
    <3>2. ret.of \in input.deps[Top.t] /\ Failing(input, status, ret.of)
      BY <1>b, <3>1, TopCall DEF LookedAt, AnswerInv, InLoop
    <3> QED
      BY <1>3, <2>e, <2>2, <3>1, <3>2
  <2>4. CASE ReturnDepError
    <3>1. InLoop /\ depFailed[Top.t] /\ SetStatus(Top.t, "error")
      BY <2>4 DEF ReturnDepError, LoopDone
    <3>2. \E d \in input.deps[Top.t] : Failing(input, status, d)
      BY <1>b, <2>2, <3>1 DEF PruneInv
    <3> QED
      BY <1>3, <2>e, <2>2, <3>1, <3>2
  <2>5. CASE NoRule
    <3>1. /\ InLoop /\ DepsSettled /\ Top.build /\ ~question /\ Top.t \notin Recipe
          /\ ~always \/ ~Exists(Top.t)
          /\ SetStatus(Top.t, "error")
      BY <2>5 DEF NoRule, MustBuild, DepsSettled, LoopDone, NoWayToMake
    <3>2. KindOf[Top.t] # "derived"
      BY <1>b, <1>k, <3>1, Settled DEF Undisturbed, HasTimestamp, Requested
    <3>3. Top.t \in Stale
      BY <1>b, <3>1, <3>2, Settled DEF FollowsDeps, always
    <3>4. Top.t \in Unmakeable(input)
      BY <1>k, <3>1, <3>3 DEF Unmakeable
    <3> QED
      BY <1>1, <1>3, <2>e, <2>2, <3>1, <3>4
  <2>6. CASE StartJob
    <3> DEFINE t == Top.t
    <3>1. /\ InLoop /\ DepsSettled /\ Top.build /\ ~question /\ t \in Recipe
          /\ \E s \in {"running", "updated", "error"} : SetStatus(t, s)
      BY <2>6 DEF StartJob, MayStart, MustBuild, DepsSettled, LoopDone,
         StartThrows, StartReturns, StartSuspends
    <3>2. KindOf[t] # "source" /\ t \in Target /\ status[t] = "none"
      BY <2>2, <3>1, TargetAssumption
    <3>3. PICK s \in {"running", "updated", "error"} : status' = [status EXCEPT ![t] = s]
      BY <2>2, <3>1, <3>2
    <3>4. t \in Requested \cap Stale \cap Recipe /\ \A d \in input.deps[t] : Made(input, status, d)
      BY <1>b, <3>1, Settled DEF FollowsDeps
    <3>5. input.deps[t] \cap Stale \subseteq Abstract!In("made")
      BY <1>k, <1>s, <3>2, <3>4, Reaches DEF Made, Stale
    <3>6. count < Capacity
      BY <2>0, <3>1 DEF IInv, SlotInv, DepsSettled, LoopDone, Returned
    <3>7. keepGoing \/ \A u \in Target : status[u] # "error"
      BY <2>0, <3>1 DEF LeavingInv, DepsSettled, LoopDone, Returned
    <3>8. /\ States' = [States EXCEPT ![t] = States'[t]]
          /\ States'[t] \in {"building", "made", "failed"}
          /\ Result = "open" /\ Result' = "open"
      BY <1>2, <2>e, <3>2, <3>3
    <3> HIDE DEF t
    <3>9. Abstract!MayBegin(t)
      <4>1. /\ Result = "open" /\ States[t] = "idle"
            /\ t \in PlanOf[input].requested \cap PlanOf[input].stale \cap PlanOf[input].makeable
            /\ PlanOf[input].deps[t] \cap PlanOf[input].stale \subseteq Abstract!In("made")
            /\ Cardinality(Abstract!In("building")) < PlanOf[input].capacity
            /\ PlanOf[input].keepGoing \/ Abstract!In("failed") = {}
        BY <1>k, <1>t, <1>s, <3>1, <3>2, <3>4, <3>5, <3>6, <3>7, <3>8
      <4>2. /\ (IF Exited THEN pc ELSE "open") = "open"
            /\ [u \in Target |-> Progress(u)][t] = "idle"
        BY <4>1 DEF States, Result
      <4> QED
        BY <4>1, <4>2 DEF Abstract!MayBegin, Abstract!Cardinality, Cardinality
    <3>10. Abstract!Begin(t)
      BY <1>k, <3>8, <3>9 DEF Abstract!Begin, States, Result
    <3> QED
      BY <3>2, <3>10 DEF Abstract!Next
  <2> QED
    BY <1>4, <2>1, <2>3, <2>4, <2>5, <2>6, QuietSteps DEF Evaluate, QuietCall
<1>5. ASSUME ~Exited, pc' = "ok", Quiet PROVE Abstract!Next
  <2>1. ~failure' /\ goals' = {} /\ running' = {} /\ pc' # "start"
    BY <1>b, <1>5 DEF LoopInv
  <2>2. \A g \in AskedForBy(input) : Made(input, status, g)
    BY <1>b, <1>k, <1>5, <2>1 DEF LoopInv, Quiet
  <2>3. \A t \in Requested \cap Stale : status[t] = "updated"
    <3>1. \A t \in Requested : \E g \in AskedForBy(input) : t \in Reach(input, g)
      BY <1>k, RequestedReaches
    <3> QED
      BY <1>k, <2>2, <3>1 DEF Made
  <2>4. \A t \in Target : status[t] # "error"
    <3> SUFFICES ASSUME NEW t \in Target, status[t] = "error" PROVE FALSE
      OBVIOUS
    <3>1. t \in Requested /\ Broken(input, status, started, t)
      BY <1>b DEF ErrorInv
    <3>2. PICK d \in Reach(input, t) :
             (d \in started /\ status[d] = "error") \/ d \in Unmakeable(input)
      BY <3>1 DEF Broken
    <3>3. d \in Requested /\ d \in Target
      BY <1>k, <3>1, <3>2, RequestedReaches
    <3>4. d \in Stale /\ status[d] = "updated"
      BY <1>b, <1>k, <2>3, <3>2, <3>3 DEF Unmakeable, StartedInv
    <3> QED
      BY <1>b, <1>k, <3>2, <3>3, <3>4 DEF Unmakeable, StartedInv
  <2>5. /\ Result = "open" /\ Result' = "ok" /\ States' = States
        /\ PlanOf[input].requested \cap PlanOf[input].stale \subseteq Abstract!In("made")
        /\ Abstract!In("building") = {} /\ Abstract!In("failed") = {}
    <3>1. Result = "open" /\ Result' = "ok"
      BY <1>5 DEF Result, Exited
    <3>2. States' = States
      BY <1>5 DEF Quiet, States, Progress
    <3>3. running = {}
      BY <1>5, <2>1 DEF Quiet
    <3> QED
      BY <1>k, <1>s, <2>3, <2>4, <3>1, <3>2, <3>3
  <2>6. Abstract!Succeed
    BY <1>k, <2>5 DEF Abstract!Succeed, States, Result
  <2> QED
    BY <2>6 DEF Abstract!Next
<1>6. CASE Stop
  <2>1. /\ pc = "stop" /\ pc' = "failed" /\ Quiet
    BY <1>6, QuietSteps DEF Stop, MainLoop
  <2>2. running = {} /\ (Cause(input, status) \/ Requested = {})
    BY <1>b, <2>1 DEF LoopInv
  <2>3. Result = "open" /\ Result' = "failed" /\ States' = States
    BY <2>1 DEF Result, Exited, Quiet, States, Progress
  <2>4. Abstract!Unmakeable = Unmakeable(input)
    BY <1>k DEF Abstract!Unmakeable, Unmakeable
  <2>5. \/ Abstract!In("failed") # {} \/ PlanOf[input].requested \cap Abstract!Unmakeable # {}
        \/ PlanOf[input].requested = {}
    BY <1>k, <1>s, <2>2, <2>4 DEF Cause, Failing
  <2>6. Abstract!Fail
    BY <1>k, <1>s, <2>2, <2>3, <2>5 DEF Abstract!Fail, States, Result
  <2> QED
    BY <2>6 DEF Abstract!Next
<1>7. CASE MainLoop /\ ~Stop
  <2>1. Quiet /\ ~Exited
    BY <1>7, QuietSteps DEF MainLoop, UpdateGoals, BeginPass, EndPass, GoalRunning,
       GoalDone, GoalFailedGoOn, GoalFailedExit, GoalAnswered, Exited
  <2>2. ~Exited' \/ pc' = "ok"
    BY <1>7 DEF MainLoop, UpdateGoals, BeginPass, EndPass, AfterPass, GoalRunning,
       GoalDone, GoalFailedGoOn, GoalFailedExit, AfterGoal, ExitAfter, Exited
  <2> QED
    BY <1>1, <1>5, <2>1, <2>2 DEF Quiet
<1>8. CASE Dispatch
  <2>1. CASE BeginRound \/ EndRound \/ WaitReturns \/ \E t \in Target : ResumeBusy(t) \/ ResumeAdvances(t)
    <3>1. Quiet
      BY <2>1, QuietSteps DEF ResumeAdvances, JobAdvances, Quiet
    <3>2. ~Exited /\ (~Exited' \/ pc' = "ok")
      BY <2>1 DEF BeginRound, EndRound, WaitReturns, ResumeBusy, ResumeAdvances,
         Resume, AfterDispatch, AfterPass, Exited
    <3> QED
      BY <1>1, <1>5, <3>1, <3>2 DEF Quiet
  <2>2. ASSUME NEW t \in Target, ResumeReturns(t) \/ ResumeThrowsGoOn(t) \/ ResumeThrowsExit(t)
        PROVE  Abstract!Next
    <3>1. /\ Resume(t) /\ ~Exited /\ ~Exited'
          /\ \E s \in {"updated", "error"} : SetStatus(t, s)
      BY <2>2 DEF ResumeReturns, ResumeThrowsGoOn, ResumeThrowsExit, JobReturns,
         JobThrows, Resume, ExitAfter, Exited
    <3>2. status[t] = "running" /\ KindOf[t] # "source"
      BY <3>1 DEF Resume, IInv, RoundInv, StatusInv
    <3>3. PICK s \in {"updated", "error"} : status' = [status EXCEPT ![t] = s]
      BY <3>1, <3>2 DEF SetStatus
    <3>4. /\ States[t] = "building" /\ States'[t] \in {"made", "failed"}
          /\ States' = [States EXCEPT ![t] = States'[t]]
          /\ Result = "open" /\ Result' = "open"
      BY <1>s, <1>2, <3>1, <3>2, <3>3
    <3>5. Abstract!Finish(t)
      BY <1>k, <3>4 DEF Abstract!Finish, States, Result
    <3> QED
      BY <3>5 DEF Abstract!Next
  <2> QED
    BY <1>8, <2>1, <2>2 DEF Dispatch
<1>9. CASE Environment
  <2>1. Quiet /\ (Exited' <=> Exited) /\ (Exited => pc' = pc)
    BY <1>9, QuietSteps DEF Environment, WaitSeesOutput, ProcExit, Edit, Exited
  <2> QED
    BY <1>1, <2>1 DEF Quiet
<1>10. CASE UNCHANGED vars
  BY <1>1, <1>10, QuietSteps DEF vars, Exited, Quiet
<1> QED
  BY <1>4, <1>6, <1>7, <1>8, <1>9, <1>10 DEF Next, Presto, Terminated

(***************************************************************************)
(* Presto starts where the build does.                                     *)
(***************************************************************************)
LEMMA AbstractInit ==
    ASSUME Init
    PROVE  Abstract!Init
<1>1. input \in Inputs /\ PlanOf[input] \in Abstract!Plan
  BY PlanIsPlan DEF Init
<1>2. States = [t \in Target |-> "idle"] /\ Result = "open"
  BY DEF Init, TargetInit, States, Progress, Result, Exited
<1> QED
  BY <1>1, <1>2 DEF Abstract!Init, States, Result

(***************************************************************************)
(* The main loop, the nested calls, the dispatcher and make.exit together  *)
(* carry out the plan of the input: they implement Build.                  *)
(***************************************************************************)
THEOREM BuildRefined ==
    ASSUME Undisturbed
    PROVE  Spec => IsABuild
<1>1. Init => Abstract!Init
  BY AbstractInit
<1>2. IInv /\ LeavingInv /\ BuildInv /\ (IInv /\ LeavingInv /\ BuildInv)' /\ [Next]_vars
        => [Abstract!Next]_Abstract!vars
  BY AbstractStep DEF IInv
<1> QED
  BY <1>1, <1>2, BuildInvariant, PTL DEF Spec, IsABuild, Abstract!Spec

-----------------------------------------------------------------------------
(***************************************************************************)
(* The files: the clock is ahead of all of them, and a target whose        *)
(* command has written it is newer than what it depends on.  A command has *)
(* written when it is through, or when a process it ran has succeeded.     *)
(***************************************************************************)
Written(t) ==
    \/ status[t] = "updated"
    \/ job[t].proc = "succeeded"
    \/ \E n \in 1 .. job[t].step - 1 : Script[t][n] = "run"

FreshInv ==
    \A t \in Target :
       /\ disk[t] < clock
       /\ t \in started /\ Written(t) /\ KindOf[t] = "file" =>
             /\ OnDisk(t)
             /\ \A d \in input.deps[t] :
                   KindOf[d] \in {"file", "source"} => disk[d] < disk[t]

(***************************************************************************)
(* A command writes its target and nothing else, and nothing that was      *)
(* started depends on it yet.                                              *)
(***************************************************************************)
LEMMA WritingIsFresh ==
    ASSUME TypeOK, StartedInv, FreshInv, NEW t \in Target, t \in Stale, status[t] # "updated",
           WriteOutput(t), input' = input, started' \subseteq started \cup {t},
           \A u \in Target \ {t} : Written(u)' => Written(u)
    PROVE  FreshInv'
<1>t. /\ disk \in [Target -> Int] /\ clock \in Nat \ {0} /\ input \in Inputs
      /\ input.deps \in [Target -> SUBSET Target] /\ started \subseteq Target
  BY InputTypes DEF TypeOK, TargetTypeOK, JobTypeOK
<1>1. \A u \in Target : t \in input.deps[u] => u \notin started
  BY <1>t, Reaches DEF StartedInv, Made, Stale
<1>2. \A d \in input.deps[t] : d # t /\ d \in Target
  <2>1. ASSUME NEW d \in input.deps[t] PROVE Rank[d] < Rank[t] /\ d \in Target /\ Rank[t] \in Nat
    BY <1>t, InputAssumption
  <2> QED
    BY <2>1
<1>3. /\ \A u \in Target \ {t} : disk'[u] = disk[u]
      /\ disk'[t] \in {disk[t], clock} /\ clock' \in {clock, clock + 1}
      /\ disk'[t] = clock => clock' = clock + 1 \/ disk[t] = clock
      /\ KindOf[t] = "file" => disk'[t] = clock
  BY <1>t DEF WriteOutput, Touch, fileVars
<1>4. \A u \in Target : disk[u] < clock
  BY DEF FreshInv
<1>5. \A u \in Target : disk'[u] < clock'
  BY <1>t, <1>3, <1>4
<1>6. ASSUME NEW u \in Target \ {t}, u \in started', Written(u)', KindOf[u] = "file"
      PROVE  /\ disk'[u] # Absent
             /\ \A d \in input.deps[u] :
                   KindOf[d] \in {"file", "source"} => disk'[d] < disk'[u]
  <2>1. u \in started /\ Written(u) /\ t \notin input.deps[u]
    BY <1>1, <1>6
  <2>2. \A d \in input.deps[u] : d \in Target /\ d # t
    BY <1>t, <2>1
  <2> QED
    BY <1>3, <1>6, <2>1, <2>2 DEF FreshInv, OnDisk
<1>7. KindOf[t] = "file" => /\ disk'[t] # Absent
                            /\ \A d \in input.deps[t] : disk'[d] < disk'[t]
  BY <1>t, <1>2, <1>3, <1>4 DEF Absent
<1> QED
  BY <1>5, <1>6, <1>7 DEF FreshInv, OnDisk

(***************************************************************************)
(* Every step keeps FreshInv.                                              *)
(***************************************************************************)
LEMMA FreshStep ==
    ASSUME IInv, JobInv, BuildInv, FreshInv, Undisturbed, [Next]_vars
    PROVE  FreshInv'
<1>t. /\ status \in [Target -> Statuses] /\ started \subseteq Target
      /\ job \in [Target -> [step : Nat, proc : Processes]] /\ running \subseteq Target
      /\ Script \in [Target -> Seq({"run", "yield"})] /\ input' = input
  BY TimeGoesBy, JobAssumption DEF IInv, TypeOK, TargetTypeOK, JobTypeOK
<1>b. /\ FileInv /\ StartedInv /\ PruneInv /\ CallInv
  BY DEF BuildInv
<1>r. \A t \in running : /\ t \in Target /\ t \in started /\ status[t] = "running" /\ t \in Stale
  BY <1>b, <1>t DEF StartedInv, IInv, StatusInv
<1>1. ASSUME UNCHANGED fileVars,
             \A t \in Target : t \in started' /\ Written(t)' => t \in started /\ Written(t)
      PROVE  FreshInv'
  <2>1. disk' = disk /\ clock' = clock
    BY <1>1 DEF fileVars
  <2> QED
    BY <1>t, <1>1, <2>1 DEF FreshInv, OnDisk
<1>2. ASSUME NEW t \in Target, NEW s, SetStatus(t, s) \/ status' = status,
             UNCHANGED job
      PROVE  /\ \A u \in Target \ {t} : Written(u)' => Written(u)
             /\ s # "updated" => (Written(t)' => Written(t))
  <2>1. \A u \in Target \ {t} : status'[u] = status[u]
    BY <1>t, <1>2 DEF SetStatus
  <2>2. s # "updated" => (status'[t] = "updated" => status[t] = "updated")
    BY <1>t, <1>2 DEF SetStatus
  <2> QED
    BY <1>2, <2>1, <2>2 DEF Written
<1>3. ASSUME UNCHANGED <<status, job, started, disk, clock>>
      PROVE  FreshInv'
  BY <1>1, <1>3 DEF Written, fileVars
<1>4. CASE Evaluate
  <2>1. CASE DepFailed \/ ReturnDepError \/ NoRule
    <3>1. /\ Top.t \in Target /\ SetStatus(Top.t, "error")
          /\ UNCHANGED <<job, started, disk, clock>>
      BY <2>1, TopUnstarted DEF IInv, DepFailed, ReturnDepError, NoRule,
         MustBuild, DepsSettled, LoopDone, Answered, jobVars, fileVars
    <3>2. \A u \in Target : Written(u)' => Written(u)
      BY <1>2, <3>1
    <3> QED
      BY <1>1, <3>1, <3>2 DEF fileVars
  <2>2. ASSUME NEW t \in Target, t = Top.t, StartJob
        PROVE  FreshInv'
    <3>1. /\ InLoop /\ DepsSettled /\ Top.build /\ t \in Recipe
          /\ started' = started \cup {t}
      BY <2>2 DEF StartJob, MayStart, MustBuild, DepsSettled, LoopDone,
         StartThrows, StartReturns, StartSuspends
    <3>2. t \in Target /\ t \in Stale /\ t \notin started /\ status[t] = "none"
      BY <1>b, <2>2, <3>1, Settled, TopUnstarted, NotStarted DEF IInv, FollowsDeps
    <3>3. job[t].step = 0 /\ job[t].proc = "none"
      BY <3>2 DEF JobInv
    <3>4. CASE StartThrows(t)
      <4>1. status'[t] = "error" /\ job' = job /\ UNCHANGED fileVars
            /\ SetStatus(t, "error")
        BY <1>t, <3>1, <3>2, <3>4, TargetAssumption DEF StartThrows, SetStatus
      <4>2. ~Written(t)'
        BY <3>3, <4>1 DEF Written
      <4> QED
        BY <1>1, <1>2, <3>1, <3>2, <4>1, <4>2
    <3>5. CASE StartReturns(t)
      <4>1. WriteOutput(t) /\ SetStatus(t, "updated") /\ UNCHANGED job
        BY <3>5 DEF StartReturns
      <4>2. \A u \in Target \ {t} : Written(u)' => Written(u)
        BY <1>2, <3>2, <4>1
      <4> QED
        BY <1>b, <1>t, <3>1, <3>2, <4>1, <4>2, WritingIsFresh DEF IInv
    <3>6. CASE StartSuspends(t)
      <4>1. /\ status'[t] = "running" /\ UNCHANGED fileVars
            /\ job' = [job EXCEPT ![t] = AtStep(t, 1)]
            /\ \A u \in Target \ {t} : status'[u] = status[u]
        BY <1>t, <3>1, <3>2, <3>6, TargetAssumption DEF StartSuspends, SetStatus
      <4>2. /\ job'[t].step = 1 /\ job'[t].proc # "succeeded"
            /\ \A u \in Target \ {t} : job'[u] = job[u]
        BY <1>t, <3>2, <4>1 DEF AtStep
      <4>3. ~Written(t)' /\ \A u \in Target \ {t} : Written(u)' => Written(u)
        BY <4>1, <4>2 DEF Written
      <4> QED
        BY <1>1, <3>1, <4>1, <4>3
    <3> QED
      BY <2>2, <3>4, <3>5, <3>6 DEF StartJob
  <2>3. CASE ~(DepFailed \/ ReturnDepError \/ NoRule \/ StartJob)
    BY <1>3, <1>4, <2>3 DEF Evaluate, VisitGoal, VisitDep, DepUpdated,
       DepUnchanged, DepRunning, DepPruned, TimestampRaises, ReturnRunning,
       QuestionRaises, NothingToRun, UpToDate, targetVars, jobVars, fileVars
  <2> QED
    BY <2>1, <2>2, <2>3, TopUnstarted DEF IInv, StartJob, MayStart, MustBuild,
       DepsSettled, LoopDone
<1>5. CASE MainLoop
  BY <1>3, <1>5 DEF MainLoop, UpdateGoals, BeginPass, EndPass, Stop, CleanUp,
     GoalRunning, GoalDone, GoalFailedGoOn, GoalFailedExit, evalFrame,
     targetVars, jobVars, fileVars
<1>6. CASE Dispatch
  <2>1. CASE BeginRound \/ EndRound \/ WaitReturns \/ \E t \in Target : ResumeBusy(t)
    BY <1>3, <2>1 DEF BeginRound, EndRound, WaitReturns, ResumeBusy, targetVars, jobVars, fileVars
  <2>2. ASSUME NEW t \in Target, ResumeAdvances(t) PROVE FreshInv'
    <3>1. /\ t \in running /\ job[t].step < Len(Script[t]) /\ job[t].proc \in {"none", "succeeded"}
          /\ UNCHANGED <<status, started, fileVars>>
          /\ job' = [job EXCEPT ![t] = AtStep(t, job[t].step + 1)]
      BY <2>2 DEF ResumeAdvances, JobAdvances, Resume, IInv, RoundInv
    <3>2. /\ job'[t].step = job[t].step + 1 /\ job'[t].proc # "succeeded"
          /\ \A u \in Target \ {t} : job'[u] = job[u]
          /\ job[t].step \in Nat
      BY <1>t, <3>1 DEF AtStep
    <3>3. Script[t][job[t].step] = "run" => job[t].proc = "succeeded"
      BY <3>1 DEF JobInv
    <3>4. Written(t)' => Written(t)
      BY <3>1, <3>2, <3>3 DEF Written
    <3>5. \A u \in Target \ {t} : Written(u)' => Written(u)
      BY <3>1, <3>2 DEF Written
    <3> QED
      BY <1>1, <3>1, <3>4, <3>5
  <2>3. ASSUME NEW t \in Target, ResumeReturns(t) PROVE FreshInv'
    <3>1. /\ t \in running /\ UNCHANGED <<job, started>> /\ SetStatus(t, "updated")
          /\ job[t].step = Len(Script[t]) /\ job[t].proc \in {"none", "succeeded"}
          /\ IF RunsProcess(t) THEN UNCHANGED fileVars ELSE WriteOutput(t)
      BY <2>3 DEF ResumeReturns, JobReturns, Resume, IInv, RoundInv
    <3>2. \A u \in Target \ {t} : Written(u)' => Written(u)
      BY <1>2, <3>1
    <3>3. CASE RunsProcess(t)
      <4>1. PICK n \in DOMAIN Script[t] : Script[t][n] = "run"
        BY <3>3 DEF RunsProcess
      <4>2. n \in 1 .. Len(Script[t])
        BY <1>t, <4>1
      <4>3. n = Len(Script[t]) => job[t].proc = "succeeded"
        BY <3>1, <4>1 DEF JobInv
      <4>4. Written(t)
        BY <3>1, <4>1, <4>2, <4>3 DEF Written
      <4> QED
        BY <1>1, <3>1, <3>2, <3>3, <4>4
    <3>4. CASE ~RunsProcess(t)
      BY <1>b, <1>r, <1>t, <3>1, <3>2, <3>4, WritingIsFresh DEF IInv
    <3> QED
      BY <3>3, <3>4
  <2>4. ASSUME NEW t \in Target, ResumeThrowsGoOn(t) \/ ResumeThrowsExit(t)
        PROVE  FreshInv'
    <3>1. SetStatus(t, "error") /\ UNCHANGED <<job, started, fileVars>>
      BY <2>4 DEF ResumeThrowsGoOn, ResumeThrowsExit, JobThrows
    <3> QED
      BY <1>1, <1>2, <3>1
  <2> QED
    BY <1>6, <2>1, <2>2, <2>3, <2>4 DEF Dispatch
<1>7. CASE Environment
  <2>1. CASE WaitSeesOutput
    BY <1>3, <2>1 DEF WaitSeesOutput, targetVars, jobVars, fileVars
  <2>2. ASSUME NEW t \in Target, ProcExit(t) PROVE FreshInv'
    <3>1. /\ t \in running /\ UNCHANGED <<status, started>>
          /\ \A u \in Target \ {t} : job'[u] = job[u]
          /\ \/ WriteOutput(t)
             \/ UNCHANGED fileVars /\ job' = [job EXCEPT ![t].proc = "failed"]
      BY <1>t, <2>2 DEF ProcExit, ProcSucceeds, ProcFails, targetVars
    <3>2. \A u \in Target \ {t} : Written(u)' => Written(u)
      BY <3>1 DEF Written
    <3>3. CASE WriteOutput(t)
      BY <1>b, <1>r, <1>t, <3>1, <3>2, <3>3, WritingIsFresh DEF IInv
    <3>4. CASE UNCHANGED fileVars /\ job' = [job EXCEPT ![t].proc = "failed"]
      <4>1. job'[t].step = job[t].step /\ job'[t].proc = "failed"
        BY <1>t, <3>1, <3>4
      <4>2. Written(t)' => Written(t)
        BY <3>1, <4>1 DEF Written
      <4> QED
        BY <1>1, <3>1, <3>2, <3>4, <4>2
    <3> QED
      BY <3>1, <3>3, <3>4
  <2>3. ASSUME NEW t \in Target PROVE ~Edit(t)
    BY DEF Edit, Undisturbed
  <2> QED
    BY <1>7, <2>1, <2>2, <2>3 DEF Environment
<1>8. CASE UNCHANGED vars
  BY <1>3, <1>8 DEF vars, targetVars, jobVars, fileVars
<1> QED
  BY <1>4, <1>5, <1>6, <1>7, <1>8 DEF Next, Presto, Terminated

(***************************************************************************)
(* On success every target that a command makes is there, and not older    *)
(* than a file it depends on.                                              *)
(***************************************************************************)
THEOREM SuccessIsFresh ==
    ASSUME Undisturbed
    PROVE  Spec => []SuccessLeavesFresh
<1>1. Init => FreshInv
  <2> SUFFICES ASSUME Init PROVE FreshInv
    OBVIOUS
  <2>1. input \in Inputs /\ disk = input.disk /\ clock = 1 /\ started = {}
    BY DEF Init, TargetInit, JobInit
  <2>2. \A t \in Target : input.disk[t] <= 0 /\ input.disk[t] \in Int
    BY <2>1, InputAssumption DEF Absent
  <2> QED
    BY <2>1, <2>2 DEF FreshInv
<1>2. IInv /\ JobInv /\ BuildInv /\ FreshInv /\ [Next]_vars => FreshInv'
  BY FreshStep
<1>3. ASSUME IInv, BuildInv, FreshInv, pc = "ok", NEW t \in Requested \cap Recipe,
             KindOf[t] \in {"file", "derived"}
      PROVE  /\ OnDisk(t)
             /\ \A d \in input.deps[t] :
                   KindOf[d] \in {"file", "source", "derived"} => disk[d] <= disk[t]
  <2>t. /\ input \in Inputs /\ disk \in [Target -> Int] /\ Requested \subseteq Target
        /\ input.deps \in [Target -> SUBSET Target]
    BY <1>3, InputTypes, RequestedReaches DEF IInv, TypeOK, TargetTypeOK, Requested
  <2>1. /\ t \in Target /\ \A d \in input.deps[t] : d \in Requested /\ d \in Target
        /\ \A d \in Requested : KindOf[d] # "derived"
    BY <1>3, <2>t, RequestedReaches DEF Undisturbed, HasTimestamp, Requested
  <2>2. FileInv /\ StartedInv /\ LoopInv
    BY <1>3 DEF BuildInv
  <2>3. CASE t \in Stale
    <3>1. PICK g \in AskedForBy(input) : t \in Reach(input, g)
      BY <1>3, <2>t, RequestedReaches DEF Requested
    <3>2. Made(input, status, g)
      BY <1>3, <2>2, <3>1 DEF LoopInv
    <3>3. status[t] = "updated" /\ t \in started
      BY <2>1, <2>2, <2>3, <3>1, <3>2 DEF Made, Stale, StartedInv
    <3>4. Written(t) /\ KindOf[t] = "file"
      BY <1>3, <2>1, <3>3 DEF Written
    <3>5. /\ OnDisk(t)
          /\ \A d \in input.deps[t] :
                KindOf[d] \in {"file", "source"} => disk[d] < disk[t]
      BY <1>3, <2>1, <3>3, <3>4 DEF FreshInv
    <3> QED
      BY <2>t, <2>1, <3>5
  <2>4. CASE t \notin Stale
    <3>1. ~OutOfDate(input, t) /\ ~Follows(input, t)
      BY <2>t, <2>1, <2>4, StaleTargets DEF Stale
    <3>2. KindOf[t] = "file" /\ input.disk[t] # Absent
      BY <1>3, <2>1, <3>1 DEF OutOfDate, Missing
    <3>3. \A d \in input.deps[t] : d \notin Stale
      BY <1>3, <3>1 DEF Follows, FollowsDeps, Stale
    <3>4. disk[t] = input.disk[t] /\ \A d \in input.deps[t] : disk[d] = input.disk[d]
      BY <2>1, <2>2, <2>4, <3>3 DEF FileInv, StartedInv
    <3>5. ASSUME NEW d \in input.deps[t], KindOf[d] \in {"file", "source"}
          PROVE  disk[d] <= disk[t]
      <4>1. ~(Age(input, t) < Age(input, d))
        BY <1>3, <3>1, <3>5 DEF OutOfDate, FollowsDeps
      <4>2. Age(input, t) = disk[t] /\ Age(input, d) = disk[d]
        BY <3>2, <3>4, <3>5 DEF Age
      <4>3. disk[t] \in Int /\ disk[d] \in Int
        BY <2>t, <2>1
      <4> QED
        BY <4>1, <4>2, <4>3
    <3> QED
      BY <2>1, <3>2, <3>4, <3>5 DEF OnDisk
  <2> QED
    BY <2>3, <2>4
<1>4. IInv /\ BuildInv /\ FreshInv => SuccessLeavesFresh
  BY <1>3 DEF SuccessLeavesFresh
<1> QED
  BY <1>1, <1>2, <1>4, JobInvariant, BuildInvariant, PTL DEF Spec

-----------------------------------------------------------------------------
(***************************************************************************)
(* NoIdleSlot.  A target waits if a job runs for it or below it, and it is *)
(* stuck if each command from it downwards that was not started waits for  *)
(* a job or can never be started.  While the job count is what it was at   *)
(* the top of the main loop and slots are free, whatever bring_up_to_date  *)
(* has looked at is stuck.                                                 *)
(***************************************************************************)
Waits(i, st, t) == \E z \in Reach(i, t) : st[z] = "running"
Held(i, st, begun, t) ==
    \E d \in i.deps[t] : Waits(i, st, d) \/ Broken(i, st, begun, d)
Stuck(i, st, begun, t) ==
    \/ i.flags.question
    \/ \A x \in (Reach(i, t) \cap PlanOf[i].stale \cap Recipe) \ begun : Held(i, st, begun, x)

NothingNew == count = pass.jobs /\ ~SlotsFull

\* A call that waits has a dependency that does; `new' is NothingNew.
IdleFrame(i, f, x, st, begun, new) ==
    /\ f.wait => \E d \in i.deps[f.t] : Waits(i, st, d)
    /\ new => \A d \in i.deps[f.t] \ (f.todo \cup x) : Stuck(i, st, begun, d)
IdleFrames(i, st, begun, new) ==
    {c \in Frame \X SUBSET Target : IdleFrame(i, c[1], c[2], st, begun, new)}

\* The goal that is visited: that of the outermost call, or of the last one.
Outermost(s, t) == IF s = <<>> THEN t ELSE s[Len(s)].t
StuckGoals(T) == \A g \in AskedForBy(input) \ T : Stuck(input, status, started, g)

EvalIdle ==
    pc = "eval" =>
       /\ Frames(stack, LookedAt, IdleFrames(input, status, started, NothingNew))
       /\ ret.st = "running" => Waits(input, status, ret.of)
       /\ NothingNew /\ Returned /\ (ret.st = "error" => keepGoing) =>
             Stuck(input, status, started, ret.of)
       /\ NothingNew => StuckGoals(pass.todo \cup {Outermost(stack, ret.of)})

LoopIdle ==
    /\ pc \in {"goals", "eval", "endpass"} => count >= pass.jobs
    /\ pc \in {"goals", "endpass"} /\ NothingNew => StuckGoals(pass.todo)
    /\ pc = "endpass" /\ ~SlotsFull => pass.todo = {}
    /\ pc \in {"round", "wait"} /\ ~draining /\ ~SlotsFull => StuckGoals({})
    /\ pc = "resume" /\ ~draining /\ ~SlotsFull /\ count = round.jobs => StuckGoals({})
    /\ pc \in {"round", "resume", "wait"} => ~question

(***************************************************************************)
(* What is stuck, and what waits, from the dependencies upwards.           *)
(***************************************************************************)
LEMMA StuckUpwards ==
    ASSUME NEW i \in Inputs, NEW st, NEW begun, NEW t \in Target,
           \A d \in i.deps[t] : Stuck(i, st, begun, d),
           t \in (PlanOf[i].stale \cap Recipe) \ begun => Held(i, st, begun, t)
    PROVE  Stuck(i, st, begun, t)
BY Reaches DEF Stuck

\* What is behind something that waits waits.
LEMMA WaitsUpwards ==
    ASSUME NEW i \in Inputs, NEW st, NEW t \in Target
    PROVE  /\ st[t] = "running" => Waits(i, st, t)
           /\ (\E d \in i.deps[t] : Waits(i, st, d)) => Waits(i, st, t)
BY Reaches DEF Waits

(***************************************************************************)
(* What is decided is stuck, and so is what was started.                   *)
(***************************************************************************)
LEMMA DecidedIsStuck ==
    ASSUME StartedInv, ErrorInv, input \in Inputs, NEW t \in Target,
           Decided(input, status, t)
    PROVE  Stuck(input, status, started, t)
<1> SUFFICES ASSUME ~question,
                    NEW x \in (Reach(input, t) \cap Stale \cap Recipe) \ started
             PROVE  Held(input, status, started, x)
  BY DEF Stuck, question, Stale
<1>1. status[x] \in {"updated", "error"} /\ x \in Target /\ input.deps[x] \subseteq Target
  BY Reaches, InputTypes DEF Decided, question, Stale
<1>2. Broken(input, status, started, x)
  BY <1>1 DEF StartedInv, ErrorInv
<1>3. PICK d \in Reach(input, x) : (d \in started /\ status[d] = "error") \/ d \in Unmakeable(input)
  BY <1>2 DEF Broken
<1>4. d # x
  BY <1>3, PlanParts DEF question
<1>5. PICK y \in input.deps[x] : d \in Reach(input, y)
  BY <1>1, <1>3, <1>4, Reaches
<1> QED
  BY <1>3, <1>5 DEF Held, Broken

\* What was started was not held up by what is below it.
LEMMA StartedIsStuck ==
    ASSUME StartedInv, ErrorInv, input \in Inputs, NEW t \in Target, t \in started
    PROVE  Stuck(input, status, started, t)
<1>1. \A d \in input.deps[t] : d \in Target /\ Made(input, status, d)
  BY InputTypes DEF StartedInv
<1>2. \A d \in input.deps[t] : Stuck(input, status, started, d)
  BY <1>1, MadeDecides, DecidedIsStuck
<1> QED
  BY <1>2, StuckUpwards

(***************************************************************************)
(* While no job ends, what waits goes on waiting and what is stuck stays   *)
(* stuck.                                                                  *)
(***************************************************************************)
LEMMA StillStuck ==
    ASSUME NEW i \in Inputs, NEW st, NEW begun, NEW st2, NEW begun2,
           Later(st, begun, st2, begun2),
           \A t \in Target : st[t] = "running" => st2[t] = "running"
    PROVE  \A t \in Target :
              /\ Waits(i, st, t) => Waits(i, st2, t)
              /\ Stuck(i, st, begun, t) => Stuck(i, st2, begun2, t)
<1>1. ASSUME NEW t \in Target, Waits(i, st, t) PROVE Waits(i, st2, t)
  BY <1>1, Reaches DEF Waits
<1>2. ASSUME NEW t \in Target, Held(i, st, begun, t) PROVE Held(i, st2, begun2, t)
  <2>1. i.deps[t] \subseteq Target
    BY InputTypes
  <2> QED
    BY <1>1, <1>2, <2>1, NothingUndone DEF Held
<1>3. ASSUME NEW t \in Target, Stuck(i, st, begun, t) PROVE Stuck(i, st2, begun2, t)
  <2>1. begun \subseteq begun2 /\ Reach(i, t) \subseteq Target
    BY Reaches DEF Later
  <2> QED
    BY <1>2, <1>3, <2>1 DEF Stuck
<1> QED
  BY <1>1, <1>3

(***************************************************************************)
(* So does what the calls have found.                                      *)
(***************************************************************************)
LEMMA FramesStayIdle ==
    ASSUME NEW i \in Inputs, NEW s, NEW x, NEW st, NEW begun, NEW st2, NEW begun2,
           Later(st, begun, st2, begun2),
           \A t \in Target : st[t] = "running" => st2[t] = "running",
           NEW new, NEW new2, new2 => new,
           Frames(s, x, IdleFrames(i, st, begun, new))
    PROVE  Frames(s, x, IdleFrames(i, st2, begun2, new2))
<1>1. ASSUME NEW f \in Frame, NEW y, IdleFrame(i, f, y, st, begun, new)
      PROVE  IdleFrame(i, f, y, st2, begun2, new2)
  <2>1. f.t \in Target /\ i.deps[f.t] \subseteq Target
    BY InputTypes DEF Frame
  <2> QED
    BY <1>1, <2>1, StillStuck DEF IdleFrame
<1>2. IdleFrames(i, st, begun, new) \subseteq IdleFrames(i, st2, begun2, new2)
  BY <1>1 DEF IdleFrames
<1> QED
  BY <1>2 DEF Frames

(***************************************************************************)
(* The outermost call stays the same while calls go on, nest and return.   *)
(***************************************************************************)
LEMMA SameGoal ==
    ASSUME NEW s \in Seq(Frame), s # <<>>, NEW f \in Frame, f.t = Head(s).t, NEW t, NEW g
    PROVE  /\ Outermost(<<f>> \o Tail(s), t) = Outermost(s, t)
           /\ <<f>> \o Tail(s) # <<>>
           /\ Outermost(<<g>> \o s, t) = Outermost(s, t)
           /\ Outermost(Tail(s), Head(s).t) = Outermost(s, t)
<1>1. Len(s) \in Nat \ {0} /\ Head(s) = s[1]
  OBVIOUS
<1>2. /\ Tail(s) \in Seq(Frame) /\ Len(Tail(s)) = Len(s) - 1
      /\ \A k \in 1 .. Len(s) - 1 : Tail(s)[k] = s[k + 1]
      /\ Len(<<f>> \o Tail(s)) = Len(s) /\ (<<f>> \o Tail(s))[1] = f
      /\ \A k \in 2 .. Len(s) : (<<f>> \o Tail(s))[k] = s[k]
      /\ <<f>> \o Tail(s) # <<>>
  BY SequenceUpdates
<1>3. Len(<<g>> \o s) = Len(s) + 1 /\ (<<g>> \o s)[Len(s) + 1] = s[Len(s)] /\ <<g>> \o s # <<>>
  BY <1>1
<1>4. Outermost(<<g>> \o s, t) = Outermost(s, t)
  BY <1>3 DEF Outermost
<1>5. Outermost(<<f>> \o Tail(s), t) = Outermost(s, t)
  BY <1>1, <1>2 DEF Outermost
<1>6. ASSUME NEW r \in Seq(Frame), NEW n \in Nat \ {0}, Len(r) = n - 1, Len(s) = n,
             \A k \in 1 .. n - 1 : r[k] = s[k + 1]
      PROVE  Outermost(r, Head(s).t) = Outermost(s, t)
  <2>1. CASE r = <<>>
    <3>1. n = 1
      BY <1>6, <2>1
    <3> QED
      BY <1>1, <1>6, <2>1, <3>1 DEF Outermost
  <2>2. CASE r # <<>>
    <3>1. n - 1 \in 1 .. n - 1
      BY <1>6, <2>2
    <3> QED
      BY <1>6, <2>2, <3>1 DEF Outermost
  <2> QED
    BY <2>1, <2>2
<1> QED
  BY <1>1, <1>2, <1>4, <1>5, <1>6

(***************************************************************************)
(* Bring_up_to_date keeps EvalIdle.                                        *)
(***************************************************************************)
LEMMA EvaluateIdle ==
    ASSUME IInv, BuildInv, EvalIdle, LoopIdle, Undisturbed, Evaluate
    PROVE  EvalIdle' /\ LoopIdle'
<1>b. /\ FileInv /\ StartedInv /\ ErrorInv /\ PruneInv /\ AnswerInv /\ CallInv /\ LoopInv
      /\ [Next]_vars
  BY DEF BuildInv, Next, Presto
<1>k. /\ input' = input /\ input \in Inputs /\ Requested \subseteq Target
      /\ Later(status, started, status', started')
      /\ input.deps \in [Target -> SUBSET Target]
      /\ keepGoing' = keepGoing /\ AskedForBy(input) \subseteq Requested
  BY <1>b, Kept, TimeGoesBy, InputTypes, RequestedReaches DEF Requested
<1>t. /\ status \in [Target -> Statuses] /\ deps \in [Target -> SUBSET Target]
      /\ stack \in Seq(Frame) /\ count \in Nat /\ pass.jobs \in Nat /\ input.slots \in Int
      /\ \A t \in Target : deps[t] \subseteq input.deps[t]
  BY <1>k, InputTypes DEF IInv, TypeOK, TargetTypeOK, JobTypeOK, StackInv
<1>v. ASSUME NEW t \in Target, VisitGoal(t)
      PROVE  /\ pc = "goals" /\ pc' = "eval" /\ t \in pass.todo /\ Calls(t, <<>>)
             /\ pass'.jobs = pass.jobs /\ pass'.todo = pass.todo \ {t}
  <2>1. pass \in [jobs : Nat, todo : SUBSET Target, any : BOOLEAN]
    BY DEF IInv, TypeOK
  <2> QED
    BY <1>v, <2>1 DEF VisitGoal
<1>q. (~\E t \in Target : VisitGoal(t)) => pass' = pass /\ InLoop /\ pc' = "eval"
  BY DEF Evaluate, VisitDep, DepUpdated, DepUnchanged,
     DepRunning, DepPruned, DepFailed, TimestampRaises, ReturnRunning, ReturnDepError,
     QuestionRaises, StartJob, NoRule, NothingToRun, UpToDate, MayStart, MustBuild,
     DepsSettled, LoopDone, Answered, InLoop, evalFrame, loopVars
<1>p. /\ pc' = "eval" /\ pass'.jobs = pass.jobs
      /\ pc \in {"goals", "eval"}
  BY <1>v, <1>q DEF InLoop
<1>c. count' \in {count, count + 1}
  <2>1. CASE QuietCall
    BY <2>1, QuietSteps DEF Quiet
  <2>2. CASE DepFailed \/ ReturnDepError \/ NoRule
    BY <2>2 DEF DepFailed, ReturnDepError, NoRule, jobVars
  <2>3. CASE StartJob
    BY <2>3 DEF StartJob, StartThrows, StartReturns, StartSuspends
  <2> QED
    BY <2>1, <2>2, <2>3 DEF Evaluate, QuietCall
<1>r. \A t \in Target : status[t] = "running" => status'[t] = "running"
  <2>1. CASE QuietCall
    BY <2>1, QuietSteps DEF Quiet
  <2>2. CASE DepFailed \/ ReturnDepError \/ NoRule \/ StartJob
    <3>1. InLoop /\ \E s \in Statuses : SetStatus(Top.t, s)
      BY <2>2 DEF DepFailed, ReturnDepError, NoRule, StartJob, StartThrows, StartReturns,
         StartSuspends, Answered, MayStart, MustBuild, DepsSettled, LoopDone, Statuses
    <3>2. status[Top.t] = "none"
      BY <3>1, TopUnstarted DEF IInv
    <3> QED
      BY <1>t, <3>1, <3>2 DEF SetStatus
  <2> QED
    BY <2>1, <2>2 DEF Evaluate, QuietCall
<1>n. NothingNew' => NothingNew
  <2>1. count >= pass.jobs
    BY <1>p DEF LoopIdle
  <2> QED
    BY <1>k, <1>t, <1>p, <1>c, <2>1 DEF NothingNew, SlotsFull
<1>s. \A t \in Target :
         /\ Waits(input, status, t) => Waits(input, status', t)
         /\ Stuck(input, status, started, t) => Stuck(input, status', started', t)
  BY <1>k, <1>r, StillStuck
<1>l. LoopIdle'
  <2>1. count' >= pass'.jobs
    BY <1>t, <1>p, <1>c DEF LoopIdle
  <2> QED
    BY <1>p, <2>1 DEF LoopIdle
<1> DEFINE idle == IdleFrames(input, status, started, NothingNew)
<1>1. ASSUME NEW s \in Seq(Frame), NEW x, Frames(s, x, idle), stack' = s, LookedAt' = x,
             ret'.st = "running" => Waits(input, status', ret'.of),
             NothingNew' /\ Returned' /\ (ret'.st = "error" => keepGoing) =>
                Stuck(input, status', started', ret'.of),
             NothingNew => StuckGoals(pass'.todo \cup {Outermost(s, ret'.of)})
      PROVE  EvalIdle'
  <2>1. Frames(s, x, IdleFrames(input, status', started', NothingNew'))
    BY <1>k, <1>r, <1>n, <1>1, FramesStayIdle
  <2>2. NothingNew' => \A g \in AskedForBy(input) \ (pass'.todo \cup {Outermost(s, ret'.of)}) :
                          Stuck(input, status', started', g)
    BY <1>k, <1>n, <1>s, <1>1 DEF StuckGoals
  <2>3. NothingNew' => (StuckGoals(pass.todo \cup {Outermost(stack, ret.of)}))'
    BY <1>k, <1>1, <2>2 DEF StuckGoals
  <2> QED
    BY <1>k, <1>1, <2>1, <2>3 DEF EvalIdle
<1>2. ASSUME NEW t \in Requested, NEW below \in Seq(Frame), Frames(below, {t}, idle),
             Calls(t, below), status' = status, started' = started,
             NothingNew => StuckGoals(pass'.todo \cup {Outermost(below, t)})
      PROVE  EvalIdle'
  <2>1. CASE NeedsNoCall(t)
    <3>1. /\ stack' = below /\ ret' = [of |-> t, st |-> status[t]]
          /\ status[t] \in {"updated", "running", "error"}
      BY <1>2, <2>1 DEF Calls, NeedsNoCall
    <3>2. ret'.of = t /\ ret'.st = status[t] /\ LookedAt' = {t}
      BY <3>1 DEF LookedAt, Returned
    <3>3. status[t] = "running" => Waits(input, status, t)
      BY <1>k, WaitsUpwards
    <3>4. status[t] \in {"updated", "running"} => Stuck(input, status, started, t)
      BY <1>b, <1>k, StartedIsStuck DEF StartedInv
    <3>5. status[t] = "error" /\ keepGoing => Stuck(input, status, started, t)
      BY <1>b, <1>k, DecidedIsStuck DEF ErrorInv
    <3> HIDE DEF idle
    <3> QED
      BY <1>1, <1>2, <3>1, <3>2, <3>3, <3>4, <3>5
  <2>2. CASE ~NeedsNoCall(t)
    <3> DEFINE g == [t |-> t, todo |-> deps[t], build |-> always \/ ~Exists(t), wait |-> FALSE]
    <3>1. status[t] = "none"
      BY <1>k, <1>t, <2>2 DEF NeedsNoCall, Statuses
    <3>2. g \in Frame /\ g.t = t /\ g.todo = deps[t] /\ g.wait = FALSE
      BY <1>b, <3>1, NewFrame
    <3>3. stack' = <<g>> \o below /\ ret' = NoReturn
      BY <1>2, <2>2 DEF Calls
    <3> HIDE DEF g
    <3>4. LookedAt' = {} /\ ret'.st = "pending" /\ ~Returned'
      BY <3>3 DEF LookedAt, Returned, NoReturn
    <3>5. \A d \in input.deps[t] \ deps[t] : Stuck(input, status, started, d)
      BY <1>b, <1>k, DecidedIsStuck DEF PruneInv
    <3>6. <<g, {}>> \in idle
      BY <3>2, <3>5 DEF IdleFrames, IdleFrame
    <3>7. Outermost(<<g>> \o below, ret'.of) = Outermost(below, t)
      <4>1. CASE below = <<>>
        BY <3>2, <4>1 DEF Outermost
      <4>2. CASE below # <<>>
        <5>1. Head(below) \in Frame /\ Outermost(below, ret'.of) = Outermost(below, t)
          BY <4>2 DEF Outermost
        <5> QED
          BY <4>2, <5>1, SameGoal
      <4> QED
        BY <4>1, <4>2
    <3>8. <<g>> \o below \in Seq(Frame)
      BY <3>2
    <3> HIDE DEF idle
    <3>9. Frames(<<g>> \o below, {}, idle)
      BY <1>2, <3>2, <3>6, CallNests
    <3> QED
      BY <1>1, <1>2, <3>3, <3>4, <3>7, <3>8, <3>9
  <2> QED
    BY <2>1, <2>2
<1>3. ASSUME \E t \in Target : VisitGoal(t) PROVE EvalIdle'
  <2>1. PICK t \in Target : VisitGoal(t)
    BY <1>3
  <2>2. /\ t \in AskedForBy(input) /\ t \in Requested /\ Outermost(<<>>, t) = t
        /\ <<>> \in Seq(Frame)
    BY <1>b, <1>k, <1>v, <2>1 DEF LoopInv, Outermost
  <2>3. Frames(<<>>, {t}, idle)
    BY DEF Frames
  <2>4. NothingNew => StuckGoals(pass'.todo \cup {t})
    BY <1>v, <2>1 DEF LoopIdle, StuckGoals
  <2>5. status' = status /\ started' = started
    BY <2>1, QuietSteps DEF QuietCall, Quiet
  <2> HIDE DEF idle
  <2> QED
    BY <1>2, <1>l, <1>v, <2>1, <2>2, <2>3, <2>4, <2>5
<1>x. ASSUME ~\E t \in Target : VisitGoal(t) PROVE EvalIdle'
  <2>0. /\ InLoop /\ pass' = pass /\ pc = "eval" /\ stack # <<>> /\ Top \in Frame
        /\ Top = Head(stack) /\ Callers = Tail(stack) /\ Callers \in Seq(Frame)
        /\ Top.t \in Requested /\ Top.t \in Target /\ status[Top.t] = "none"
        /\ input.deps[Top.t] \subseteq Requested
        /\ LookedAt \subseteq input.deps[Top.t]
    BY <1>b, <1>k, <1>q, <1>x, TopCall, TopUnstarted DEF IInv, InLoop, Top
  <2>i. /\ Frames(stack, LookedAt, idle) /\ Frames(Callers, {Top.t}, idle)
        /\ IdleFrame(input, Top, LookedAt, status, started, NothingNew)
    <3>1. Frames(stack, LookedAt, idle)
      BY <2>0 DEF EvalIdle
    <3>2. <<Top, LookedAt>> \in idle /\ Frames(Callers, {Top.t}, idle)
      <4> HIDE DEF idle
      <4> QED
        BY <1>t, <2>0, <3>1, CallReturns
    <3>3. IdleFrame(input, <<Top, LookedAt>>[1], <<Top, LookedAt>>[2], status, started, NothingNew)
      BY <3>2 DEF IdleFrames
    <3> QED
      BY <3>1, <3>2, <3>3
  <2>g. NothingNew => StuckGoals(pass.todo \cup {Outermost(stack, ret.of)})
    BY <2>0 DEF EvalIdle
  <2>o. ASSUME NEW f \in Frame, f.t = Top.t, NEW u
        PROVE  Outermost(<<f>> \o Callers, u) = Outermost(stack, ret.of)
    <3>1. Outermost(stack, u) = Outermost(stack, ret.of)
      BY <2>0 DEF Outermost
    <3>2. Outermost(<<f>> \o Tail(stack), u) = Outermost(stack, u)
      BY <1>t, <2>0, <2>o, SameGoal
    <3> QED
      BY <2>0, <3>1, <3>2
  <2>p. Outermost(Callers, Top.t) = Outermost(stack, ret.of)
    <3>1. Outermost(Tail(stack), Head(stack).t) = Outermost(stack, ret.of)
      BY <1>t, <2>0, SameGoal
    <3> QED
      BY <2>0, <3>1
  <2>1. ASSUME NEW f \in Frame, f.t = Top.t, stack' = <<f>> \o Callers, ret' = NoReturn,
               IdleFrame(input, f, {}, status, started, NothingNew)
        PROVE  EvalIdle'
    <3>1. LookedAt' = {} /\ ret'.st = "pending" /\ ~Returned'
      BY <2>1 DEF LookedAt, Returned, NoReturn
    <3>2. <<f, {}>> \in idle
      BY <2>1 DEF IdleFrames
    <3>3. <<f>> \o Callers \in Seq(Frame)
      BY <2>0, <2>1
    <3>4. Outermost(<<f>> \o Callers, ret'.of) = Outermost(stack, ret.of)
      BY <2>1, <2>o
    <3> HIDE DEF idle
    <3>5. Frames(<<f>> \o Callers, {}, idle)
      BY <1>t, <2>0, <2>1, <2>i, <3>2, CallGoesOn
    <3> QED
      BY <1>1, <2>0, <2>1, <2>g, <3>1, <3>3, <3>4, <3>5
  <2>2. ASSUME NEW s \in Statuses, Return(s),
               s = "running" => Waits(input, status', Top.t),
               NothingNew' /\ (s = "error" => keepGoing) =>
                  Stuck(input, status', started', Top.t)
        PROVE  EvalIdle'
    <3>1. /\ stack' = Callers /\ ret'.of = Top.t /\ ret'.st = s /\ LookedAt' = {Top.t}
      BY <2>2 DEF Return, LookedAt, Returned, Statuses
    <3>2. Outermost(Callers, ret'.of) = Outermost(stack, ret.of)
      BY <2>p, <3>1
    <3> HIDE DEF idle
    <3> QED
      BY <1>1, <2>0, <2>2, <2>g, <2>i, <3>1, <3>2
  <2>3. ASSUME NEW d \in Target, VisitDep(d) PROVE EvalIdle'
    <3> DEFINE f == [Top EXCEPT !.todo = Top.todo \ {d}]
    <3>1. ~Returned /\ d \in Top.todo /\ Calls(d, <<f>> \o Callers)
      BY <2>3 DEF VisitDep
    <3>2. f \in Frame /\ f.t = Top.t /\ f.todo = Top.todo \ {d} /\ f.wait = Top.wait
      BY <2>0, <3>1 DEF Frame
    <3> HIDE DEF f
    <3>3. f.todo \cup {d} = Top.todo \cup LookedAt
      BY <3>1, <3>2 DEF LookedAt
    <3>4. IdleFrame(input, f, {d}, status, started, NothingNew)
      BY <2>i, <3>2, <3>3 DEF IdleFrame
    <3>5. <<f, {d}>> \in idle
      BY <3>2, <3>4 DEF IdleFrames
    <3>6. d \in Requested
      BY <1>b, <2>0, <3>1, TopCall DEF FrameInv
    <3>7. Outermost(<<f>> \o Callers, d) = Outermost(stack, ret.of)
      BY <2>o, <3>2
    <3>8. status' = status /\ started' = started
      BY <2>3, QuietSteps DEF QuietCall, Quiet
    <3>9. <<f>> \o Callers \in Seq(Frame)
      BY <2>0, <3>2
    <3> HIDE DEF idle
    <3>10. Frames(<<f>> \o Callers, {d}, idle)
      BY <1>t, <2>0, <2>i, <3>2, <3>5, CallGoesOn
    <3> QED
      BY <1>2, <2>0, <2>g, <3>1, <3>6, <3>7, <3>8, <3>9, <3>10
  <2>4. ASSUME Returned, ret' = NoReturn, ret.st # "error" \/ keepGoing,
               stack' = stack \/ \E b \in BOOLEAN : stack' = <<[Top EXCEPT !.build = b]>> \o Callers
        PROVE  EvalIdle'
    <3>1. PICK b \in BOOLEAN : stack' = <<[Top EXCEPT !.build = b]>> \o Callers
      <4>1. Top = [Top EXCEPT !.build = Top.build] /\ Top.build \in BOOLEAN
        BY <2>0 DEF Frame
      <4>2. stack = <<Top>> \o Callers
        BY <1>t, <2>0
      <4> QED
        BY <2>4, <4>1, <4>2
    <3> DEFINE f == [Top EXCEPT !.build = b]
    <3>2. f \in Frame /\ f.t = Top.t /\ f.todo = Top.todo /\ f.wait = Top.wait
      BY <2>0 DEF Frame
    <3>3. stack' = <<f>> \o Callers
      BY <3>1
    <3> HIDE DEF f
    <3>4. NothingNew => Stuck(input, status, started, ret.of)
      BY <2>0, <2>4 DEF EvalIdle
    <3>5. IdleFrame(input, f, {}, status, started, NothingNew)
      BY <2>4, <2>i, <3>2, <3>4 DEF IdleFrame, LookedAt
    <3> QED
      BY <2>1, <2>4, <3>2, <3>3, <3>5
  <2>5. CASE DepUpdated \/ DepUnchanged \/ DepPruned
    <3>1. Returned /\ ret' = NoReturn /\ (ret.st # "error" \/ keepGoing)
      BY <2>5 DEF DepUpdated, DepUnchanged, DepPruned, Answered, Returned
    <3>2. stack' = stack \/ stack' = <<[Top EXCEPT !.build = TRUE]>> \o Callers
      BY <2>5 DEF DepUpdated, DepUnchanged, DepPruned, SetTop
    <3> QED
      BY <2>4, <3>1, <3>2
  <2>6. CASE DepRunning
    <3> DEFINE f == [Top EXCEPT !.wait = TRUE, !.todo = IF SlotsFull THEN {} ELSE Top.todo]
    <3>1. Returned /\ ret.st = "running" /\ ret' = NoReturn /\ stack' = <<f>> \o Callers
      BY <2>6 DEF DepRunning, Answered, Returned, SetTop
    <3>2. /\ f \in Frame /\ f.t = Top.t /\ f.wait
          /\ f.todo = IF SlotsFull THEN {} ELSE Top.todo
      BY <2>0 DEF Frame
    <3> HIDE DEF f
    <3>3. /\ Waits(input, status, ret.of) /\ ret.of \in input.deps[Top.t]
          /\ NothingNew => Stuck(input, status, started, ret.of)
      BY <2>0, <3>1 DEF EvalIdle, LookedAt
    <3>4. IdleFrame(input, f, {}, status, started, NothingNew)
      BY <2>i, <3>1, <3>2, <3>3 DEF IdleFrame, LookedAt, NothingNew
    <3> QED
      BY <2>1, <3>1, <3>2, <3>4
  <2>7. CASE DepFailed
    <3>1. Return("error") /\ ~keepGoing
      BY <2>7 DEF DepFailed
    <3> QED
      BY <2>2, <3>1 DEF Statuses
  <2>8. ~TimestampRaises
    BY <1>k, <2>0 DEF TimestampRaises, HasTimestamp, Undisturbed, Requested
  <2>d. LoopDone /\ NothingNew => \A d \in input.deps[Top.t] : Stuck(input, status, started, d)
    BY <2>i DEF LoopDone, LookedAt, IdleFrame
  <2>9. CASE ReturnRunning
    <3>1. LoopDone /\ Top.wait /\ Return("running")
      BY <2>9 DEF ReturnRunning
    <3>2. PICK d \in input.deps[Top.t] : Waits(input, status, d)
      BY <2>i, <3>1 DEF IdleFrame
    <3>3. Waits(input, status, Top.t) /\ Held(input, status, started, Top.t)
      BY <1>k, <2>0, <3>2, WaitsUpwards DEF Held
    <3>4. NothingNew => Stuck(input, status, started, Top.t)
      BY <1>k, <2>0, <2>d, <3>1, <3>3, StuckUpwards
    <3> QED
      BY <1>n, <1>s, <2>0, <2>2, <3>1, <3>3, <3>4 DEF Statuses
  <2>10. CASE ReturnDepError
    <3>1. LoopDone /\ ~Top.wait /\ depFailed[Top.t] /\ Return("error")
      BY <2>10 DEF ReturnDepError
    <3>2. PICK d \in input.deps[Top.t] : Failing(input, status, d)
      BY <1>b, <2>0, <3>1 DEF PruneInv
    <3>3. Held(input, status, started, Top.t)
      <4>1. d \in Target
        BY <1>k, <2>0
      <4> QED
        BY <1>b, <1>k, <3>2, <4>1, FailingIsBroken DEF Held
    <3>4. NothingNew => Stuck(input, status, started, Top.t)
      BY <1>k, <2>0, <2>d, <3>1, <3>3, StuckUpwards
    <3> QED
      BY <1>n, <1>s, <2>0, <2>2, <3>1, <3>4 DEF Statuses
  <2>11. ASSUME DepsSettled, NEW s \in Statuses, Return(s),
                s = "running" => status'[Top.t] = "running",
                question \/ Top.t \notin Stale \cap Recipe \/ Top.t \in started'
         PROVE  EvalIdle'
    <3>1. \A d \in input.deps[Top.t] : d \in Target /\ Made(input, status, d)
      BY <1>b, <1>k, <2>0, <2>11, Settled
    <3>2. \A d \in input.deps[Top.t] : Stuck(input, status', started', d)
      BY <1>b, <1>k, <1>s, <3>1, MadeDecides, DecidedIsStuck
    <3>3. Stuck(input, status', started', Top.t)
      <4>1. CASE question
        BY <4>1 DEF question, Stuck
      <4>2. CASE Top.t \notin (PlanOf[input].stale \cap Recipe) \ started'
        BY <1>k, <2>0, <3>2, <4>2, StuckUpwards
      <4> QED
        BY <2>11, <4>1, <4>2 DEF Stale
    <3>4. s = "running" => Waits(input, status', Top.t)
      BY <1>k, <2>0, <2>11, WaitsUpwards
    <3> QED
      BY <2>2, <2>11, <3>3, <3>4
  <2>12. CASE QuestionRaises
    BY <2>11, <2>12 DEF QuestionRaises, MustBuild, Statuses
  <2>13. CASE NoRule \/ NothingToRun
    BY <2>11, <2>13 DEF NoRule, NothingToRun, MustBuild, Statuses
  <2>14. CASE UpToDate
    <3>1. DepsSettled /\ ~Top.build /\ Return("none")
      BY <2>14 DEF UpToDate
    <3>2. Top.t \notin Stale
      BY <1>b, <3>1, Settled
    <3> QED
      BY <2>11, <3>1, <3>2 DEF Statuses
  <2>15. CASE StartJob
    <3>1. DepsSettled /\ Top.t \in Recipe /\ KindOf[Top.t] # "source"
      BY <2>15, TargetAssumption DEF StartJob, MayStart, MustBuild
    <3>2. /\ Top.t \in started'
          /\ \E s \in Statuses : Return(s) /\ (s = "running" => SetStatus(Top.t, s))
      BY <2>15 DEF StartJob, StartThrows, StartReturns, StartSuspends, Statuses
    <3>3. PICK s \in Statuses : Return(s) /\ (s = "running" => SetStatus(Top.t, s))
      BY <3>2
    <3>4. s = "running" => status'[Top.t] = "running"
      BY <1>t, <2>0, <3>1, <3>3 DEF SetStatus
    <3> QED
      BY <2>11, <3>1, <3>2, <3>3, <3>4
  <2> QED
    BY <1>x, <1>l, <2>3, <2>5, <2>6, <2>7, <2>8, <2>9, <2>10, <2>12, <2>13, <2>14, <2>15
       DEF Evaluate
<1> QED
  BY <1>3, <1>x, <1>l

(***************************************************************************)
(* So do the main loop, the dispatcher and the other processes: a job that *)
(* ends makes make.jobs.count differ from what it was.                     *)
(***************************************************************************)
LEMMA IdleStep ==
    ASSUME IInv, BuildInv, EvalIdle, LoopIdle, Undisturbed, [Next]_vars
    PROVE  EvalIdle' /\ LoopIdle'
<1>b. StartedInv /\ ErrorInv /\ LoopInv
  BY DEF BuildInv
<1>k. /\ input' = input /\ input \in Inputs /\ question' = question
      /\ AskedForBy(input) \subseteq Target
  BY Kept, InputTypes
<1>t. /\ count \in Nat /\ pass.jobs \in Nat /\ input.slots \in Int /\ round.jobs \in Nat
      /\ pass \in [jobs : Nat, todo : SUBSET Target, any : BOOLEAN]
  BY <1>k, InputTypes DEF IInv, TypeOK, JobTypeOK
<1>1. ASSUME Quiet, UNCHANGED <<stack, ret, pass, pc, round, draining>>
      PROVE  EvalIdle' /\ LoopIdle'
  <2>1. NothingNew' = NothingNew /\ SlotsFull' = SlotsFull /\ LookedAt' = LookedAt /\ Returned' = Returned
    BY <1>k, <1>1 DEF Quiet, NothingNew, SlotsFull, LookedAt, Returned
  <2>2. keepGoing' = keepGoing
    BY <1>k DEF keepGoing
  <2>3. EvalIdle'
    BY <1>k, <1>1, <2>1, <2>2 DEF Quiet, EvalIdle, StuckGoals
  <2> QED
    BY <1>k, <1>1, <2>1, <2>3 DEF Quiet, LoopIdle, StuckGoals
<1>2. ASSUME Quiet, pc' = "round", pc \in {"round", "wait"}, UNCHANGED <<draining>>
      PROVE  EvalIdle' /\ LoopIdle'
  <2>1. EvalIdle'
    BY <1>2 DEF EvalIdle
  <2> QED
    BY <1>k, <1>2, <2>1 DEF Quiet, LoopIdle, StuckGoals, SlotsFull
<1>3. ASSUME pc' \in {"pass", "stop", "ok", "failed"}
      PROVE  EvalIdle' /\ LoopIdle'
  BY <1>3 DEF EvalIdle, LoopIdle
<1>4. CASE MainLoop
  <2>q. Quiet
    BY <1>4, QuietSteps
  <2>1. CASE UpdateGoals \/ Stop
    BY <1>3, <2>1 DEF UpdateGoals, Stop
  <2>2. CASE BeginPass
    <3>1. /\ pass' = [jobs |-> count, todo |-> goals, any |-> goals # {}]
          /\ pc' = (IF goals = {} THEN "endpass" ELSE "goals") /\ pc = "pass"
      BY <2>2 DEF BeginPass
    <3>2. \A g \in AskedForBy(input) \ goals : Stuck(input, status, started, g)
      BY <1>b, <1>k, <3>1, DecidedIsStuck DEF LoopInv
    <3>3. pass'.jobs = count /\ pass'.todo = goals
      BY <3>1
    <3>4. (StuckGoals(pass.todo))'
      BY <1>k, <2>q, <3>2, <3>3 DEF StuckGoals, Quiet
    <3>5. EvalIdle'
      BY <3>1 DEF EvalIdle
    <3> QED
      BY <1>t, <2>q, <3>1, <3>3, <3>4, <3>5 DEF LoopIdle, Quiet
  <2>3. CASE EndPass
    <3>1. /\ pc = "endpass" /\ UNCHANGED <<pass, draining>>
          /\ pc' = "round" \/ pc' = AfterPass
          /\ pc' = "round" => count > 0 /\ (count = pass.jobs \/ SlotsFull)
      BY <2>3 DEF EndPass, loopVars, dispatchVars, AfterPass
    <3>2. CASE pc' = "round"
      <4>1. ~SlotsFull => NothingNew /\ pass.todo = {}
        BY <3>1, <3>2 DEF NothingNew, LoopIdle
      <4>2. ~SlotsFull => StuckGoals({})
        BY <3>1, <4>1 DEF LoopIdle
      <4>3. ~question
        <5>1. running # {}
          <6>1. SUFFICES ASSUME running = {} PROVE FALSE
            OBVIOUS
          <6>2. count = 0
            BY <6>1, FS_EmptySet DEF IInv, StatusInv
          <6> QED
            BY <3>1, <3>2, <6>2
        <5>2. PICK z \in running : TRUE
          BY <5>1
        <5>3. z \in Target /\ status[z] = "running"
          BY <5>2 DEF IInv, StatusInv
        <5> QED
          BY <1>b, <5>3 DEF StartedInv
      <4>4. SlotsFull' = SlotsFull /\ (StuckGoals({}) => StuckGoals({})')
        BY <1>k, <2>q DEF Quiet, SlotsFull, StuckGoals
      <4>5. EvalIdle'
        BY <3>2 DEF EvalIdle
      <4> QED
        BY <1>k, <3>2, <4>2, <4>3, <4>4, <4>5 DEF LoopIdle
    <3> QED
      BY <1>3, <3>1, <3>2 DEF AfterPass
  <2>4. CASE GoalRunning \/ GoalDone \/ GoalFailedGoOn
    <3>1. /\ pc = "eval" /\ stack = <<>> /\ Returned /\ (ret.st = "error" => keepGoing)
          /\ pc' = AfterGoal /\ pass' = pass /\ UNCHANGED draining
      BY <2>4 DEF GoalRunning, GoalDone, GoalFailedGoOn, GoalAnswered, Returned,
         evalFrame, loopVars, dispatchVars
    <3>2. NothingNew => StuckGoals(pass.todo)
      BY <3>1 DEF EvalIdle, StuckGoals, Outermost
    <3>3. /\ NothingNew' = NothingNew /\ SlotsFull' = SlotsFull
          /\ StuckGoals(pass.todo) => (StuckGoals(pass.todo))'
          /\ count' = count /\ count >= pass.jobs
      BY <1>k, <2>q, <3>1 DEF Quiet, NothingNew, SlotsFull, StuckGoals, LoopIdle
    <3>4. pc' \in {"goals", "endpass"} /\ (pc' = "endpass" /\ ~SlotsFull => pass.todo = {})
      BY <3>1 DEF AfterGoal
    <3>5. EvalIdle'
      BY <3>4 DEF EvalIdle
    <3> QED
      BY <3>1, <3>2, <3>3, <3>4, <3>5 DEF LoopIdle
  <2>5. CASE GoalFailedExit
    <3>1. /\ pc' = (IF count > 0 THEN "round" ELSE "stop") /\ draining' = (count > 0)
          /\ pc = "eval"
      BY <2>5 DEF GoalFailedExit, ExitAfter, GoalAnswered
    <3>2. CASE count > 0
      <4>1. PICK z \in running : TRUE
        <5>1. SUFFICES ASSUME running = {} PROVE FALSE
          OBVIOUS
        <5>2. count = 0
          BY <5>1, FS_EmptySet DEF IInv, StatusInv
        <5> QED
          BY <3>2, <5>2
      <4>2. ~question
        BY <1>b, <4>1 DEF IInv, StatusInv, StartedInv
      <4> QED
        BY <1>k, <3>1, <3>2, <4>2 DEF EvalIdle, LoopIdle
    <3> QED
      BY <1>3, <3>1, <3>2
  <2> QED
    BY <1>4, <2>1, <2>2, <2>3, <2>4, <2>5 DEF MainLoop
<1>5. CASE Dispatch
  <2>1. CASE BeginRound
    <3>1. /\ round' = [jobs |-> count, todo |-> running, waiting |-> {}]
          /\ pc' = "resume" /\ pc = "round" /\ UNCHANGED draining /\ Quiet
      BY <2>1, QuietSteps DEF BeginRound
    <3>2. EvalIdle'
      BY <3>1 DEF EvalIdle
    <3> QED
      BY <1>k, <3>1, <3>2 DEF LoopIdle, Quiet, StuckGoals, SlotsFull
  <2>2. CASE EndRound
    <3>1. /\ pc = "resume" /\ UNCHANGED <<draining, round>> /\ Quiet
          /\ pc' = (IF LeaveDispatch THEN AfterDispatch ELSE "wait")
      BY <2>2, QuietSteps DEF EndRound, dispatchVars
    <3>2. CASE ~LeaveDispatch
      <4>1. ~SlotsFull => count = round.jobs
        BY <3>2 DEF LeaveDispatch
      <4>2. EvalIdle'
        BY <3>1, <3>2 DEF EvalIdle
      <4> QED
        BY <1>k, <3>1, <3>2, <4>1, <4>2 DEF LoopIdle, Quiet, StuckGoals, SlotsFull
    <3>3. CASE LeaveDispatch
      <4>1. pc' \in {"pass", "stop", "ok"} \/ (pc' = "round" /\ draining)
        BY <3>1, <3>3 DEF AfterDispatch, AfterPass
      <4>2. CASE pc' = "round" /\ draining
        BY <1>k, <3>1, <4>2 DEF EvalIdle, LoopIdle
      <4> QED
        BY <1>3, <4>1, <4>2
    <3> QED
      BY <3>2, <3>3
  <2>3. CASE WaitReturns
    BY <1>2, <2>3, QuietSteps DEF WaitReturns, dispatchVars
  <2>4. ASSUME NEW t \in Target, ResumeBusy(t) \/ ResumeAdvances(t) PROVE EvalIdle' /\ LoopIdle'
    <3>1. /\ pc = "resume" /\ pc' = pc /\ UNCHANGED draining /\ Quiet
          /\ round' = WaitFor(t) \/ round' = DoneWith(t)
      BY <2>4 DEF ResumeBusy, ResumeAdvances, Resume, JobAdvances, Quiet,
         targetVars, jobVars
    <3>2. round'.jobs = round.jobs
      BY <3>1 DEF IInv, TypeOK, WaitFor, DoneWith
    <3>3. EvalIdle'
      BY <3>1 DEF EvalIdle
    <3> QED
      BY <1>k, <3>1, <3>2, <3>3 DEF LoopIdle, Quiet, StuckGoals, SlotsFull
  <2>5. ASSUME NEW t \in Target, ResumeReturns(t) \/ ResumeThrowsGoOn(t)
        PROVE  EvalIdle' /\ LoopIdle'
    <3>1. /\ pc = "resume" /\ pc' = pc /\ count' = count - 1 /\ round' = DoneWith(t)
      BY <2>5 DEF ResumeReturns, ResumeThrowsGoOn, Resume, JobReturns, JobThrows
    <3>2. round'.jobs = round.jobs /\ count <= round.jobs
      BY <3>1 DEF IInv, TypeOK, DoneWith, RoundInv
    <3>3. EvalIdle'
      BY <3>1 DEF EvalIdle
    <3> QED
      BY <1>k, <1>t, <3>1, <3>2, <3>3 DEF LoopIdle
  <2>6. ASSUME NEW t \in Target, ResumeThrowsExit(t) PROVE EvalIdle' /\ LoopIdle'
    <3>1. /\ pc = "resume" /\ pc' = (IF count' > 0 THEN "round" ELSE "stop")
          /\ draining' = (count' > 0)
      BY <2>6 DEF ResumeThrowsExit, Resume, ExitAfter
    <3>2. CASE count' > 0
      BY <1>k, <3>1, <3>2 DEF EvalIdle, LoopIdle
    <3> QED
      BY <1>3, <3>1, <3>2
  <2> QED
    BY <1>5, <2>1, <2>2, <2>3, <2>4, <2>5, <2>6 DEF Dispatch
<1>6. CASE Environment
  <2>1. CASE WaitSeesOutput
    BY <1>2, <2>1, QuietSteps, <1>6 DEF WaitSeesOutput, dispatchVars
  <2>2. ASSUME NEW t \in Target, ProcExit(t) \/ Edit(t) PROVE EvalIdle' /\ LoopIdle'
    BY <1>1, <1>6, <2>2, QuietSteps DEF ProcExit, Edit, loopVars, callVars, dispatchVars
  <2> QED
    BY <1>6, <2>1, <2>2 DEF Environment
<1>7. CASE UNCHANGED vars
  BY <1>1, <1>7, QuietSteps DEF vars, loopVars, callVars, dispatchVars
<1> QED
  BY <1>4, <1>5, <1>6, <1>7, EvaluateIdle DEF Next, Presto, Terminated

(***************************************************************************)
(* presto does not sit in make.proc.wait with a free slot while a target   *)
(* that a goal needs could be started.                                     *)
(***************************************************************************)
THEOREM NoSlotIdles ==
    ASSUME Undisturbed
    PROVE  Spec => []NoIdleSlot
<1>1. Init => EvalIdle /\ LoopIdle
  BY DEF Init, EvalIdle, LoopIdle
<1>2. IInv /\ BuildInv /\ EvalIdle /\ LoopIdle /\ [Next]_vars => EvalIdle' /\ LoopIdle'
  BY IdleStep
<1>3. ASSUME IInv, BuildInv, LoopIdle, pc = "wait", ~draining, ~SlotsFull,
             NEW t \in Target, Ready(t)
      PROVE  FALSE
  <2>1. /\ input \in Inputs /\ StartedInv /\ ErrorInv /\ ~question
        /\ StuckGoals({})
    BY <1>3 DEF IInv, TypeOK, BuildInv, LoopIdle
  <2>2. /\ t \in Requested /\ t \in (Stale \cap Recipe) \ started
        /\ \A d \in Below(input, input.deps[t]) \cap Stale : status[d] = "updated"
    BY <1>3 DEF Ready
  <2>3. PICK g \in AskedForBy(input) : t \in Reach(input, g)
    BY <2>1, <2>2, RequestedReaches DEF Requested
  <2>4. Held(input, status, started, t)
    BY <2>1, <2>2, <2>3 DEF StuckGoals, Stuck, question, Stale
  <2>5. PICK d \in input.deps[t] : Waits(input, status, d) \/ Broken(input, status, started, d)
    BY <2>4 DEF Held
  <2>6. input.deps[t] \in SUBSET Target /\ d \in Target
    BY <2>1, InputTypes
  <2>7. Reach(input, d) \subseteq Below(input, input.deps[t])
    <3>1. input.deps \in [Target -> SUBSET Target]
      BY <2>1, InputTypes
    <3>2. {d} \in SUBSET Target /\ {d} \subseteq Below(input, input.deps[t])
          /\ Closed(Below(input, input.deps[t]), input.deps)
      BY <2>6, <3>1, ClosureContains DEF Below
    <3>3. Below(input, input.deps[t]) \subseteq Target
      BY <2>1, <2>6, BelowReaches
    <3> QED
      BY <3>1, <3>2, <3>3, ClosureLeast DEF Reach, Below
  <2>8. \A z \in Reach(input, d) \cap Stale : status[z] = "updated"
    BY <2>2, <2>7
  <2>9. Reach(input, d) \subseteq Target
    BY <2>1, <2>6, Reaches
  <2>10. ~Waits(input, status, d)
    BY <2>1, <2>8, <2>9 DEF Waits, StartedInv
  <2>11. ~Broken(input, status, started, d)
    <3>1. \A z \in Reach(input, d) : z \in Unmakeable(input) => z \in Stale /\ z \notin Recipe
      BY <2>1, PlanParts DEF question, Stale
    <3> QED
      BY <2>1, <2>8, <2>9, <3>1 DEF Broken, StartedInv
  <2> QED
    BY <2>5, <2>10, <2>11
<1>4. IInv /\ BuildInv /\ LoopIdle => NoIdleSlot
  BY <1>3 DEF NoIdleSlot
<1> QED
  BY <1>1, <1>2, <1>4, BuildInvariant, PTL DEF Spec

-----------------------------------------------------------------------------
(***************************************************************************)
(* NoJobAtExit, also while sources are edited.  Every job that runs is one *)
(* that the main loop will come to from a goal that is left: live are the  *)
(* dependencies that it still looks at, those of targets without a status. *)
(***************************************************************************)
Live == [t \in Target |-> IF status[t] = "none" THEN deps[t] ELSE {}]

\* A call that does not wait has found no job, but for those it comes to.
WorkFrame(f, x, next, jobs, asked) ==
    /\ f.t \in asked
    /\ f.todo \cup x \subseteq next[f.t] /\ f.todo \cap x = {}
    /\ f.wait \/ \A z \in jobs \cap Onward(next, f.t) :
                    \E d \in f.todo \cup x : z \in Onward(next, d)
WorkFrames(next, jobs, asked) ==
    {c \in Frame \X SUBSET Target : WorkFrame(c[1], c[2], next, jobs, asked)}

\* Without -k an error is on its way to make.exit, or has got there.
Quits == \/ draining \/ pc \in {"stop", "failed"}
         \/ pc = "eval" /\ ret.st = "error" /\ ~keepGoing

GoalInv ==
    /\ pc = "start" => goals = input.goals
    /\ goals \subseteq AskedForBy(input) /\ pass.todo \subseteq goals
    /\ pc = "eval" => Outermost(stack, ret.of) \in goals \ pass.todo
    /\ pc \notin {"start", "pass"} /\ ~pass.any => goals = {}

WorkInv ==
    /\ pc \in {"start", "stop", "ok", "failed"} => running = {}
    /\ ~Quits => \A z \in running : \E g \in goals : z \in Onward(Live, g)
    /\ pc = "eval" /\ ~Quits =>
          /\ Frames(stack, LookedAt, WorkFrames(Live, running, Requested))
          /\ Returned /\ ret.st # "running" => running \cap Onward(Live, ret.of) = {}

(***************************************************************************)
(* Where a graph loses edges that do not lead to a job, each job is        *)
(* reached from where it was.                                              *)
(***************************************************************************)
LEMMA CutOff ==
    ASSUME NEW next \in [Target -> SUBSET Target], NEW less \in [Target -> SUBSET Target],
           NEW jobs, \A t \in Target : less[t] \subseteq next[t],
           \A t \in Target : \A d \in next[t] \ less[t] : jobs \cap Onward(next, d) = {},
           NEW x \in Target
    PROVE  /\ jobs \cap Onward(next, x) \subseteq Onward(less, x)
           /\ Onward(less, x) \subseteq Onward(next, x)
<1> DEFINE N == {y \in Target : jobs \cap Onward(next, y) = {}}
           X == Onward(less, x) \cup N
<1>1. {x} \in SUBSET Target
  OBVIOUS
<1>2. /\ x \in Onward(less, x) /\ Onward(less, x) \subseteq Target
      /\ x \in Onward(next, x) /\ Onward(next, x) \subseteq Target
      /\ Closed(Onward(less, x), less) /\ Closed(Onward(next, x), next)
  BY <1>1, OnwardReaches, ClosureContains DEF Onward
<1>3. Closed(X, next)
  <2> SUFFICES ASSUME NEW y \in X, NEW d \in next[y] PROVE d \in X
    BY DEF Closed
  <2>1. y \in Target /\ d \in Target
    BY <1>2
  <2>2. CASE y \in N
    BY <2>1, <2>2, OnwardReaches
  <2>3. CASE y \in Onward(less, x)
    BY <1>2, <2>1, <2>3 DEF Closed
  <2> QED
    BY <2>2, <2>3
<1>4. Onward(next, x) \subseteq X
  <2>1. {x} \subseteq X
    BY <1>2
  <2> HIDE DEF X
  <2> QED
    BY <1>1, <1>3, <2>1, ClosureLeast DEF Onward
<1>5. jobs \cap N = {}
  BY OnwardReaches
<1>6. Closed(Onward(next, x), less)
  BY <1>2 DEF Closed
<1>7. Onward(less, x) \subseteq Onward(next, x)
  <2>1. {x} \subseteq Onward(next, x)
    BY <1>2
  <2> QED
    BY <1>1, <1>6, <2>1, ClosureLeast DEF Onward
<1> QED
  BY <1>4, <1>5, <1>7

(***************************************************************************)
(* An acyclic graph does not lead back to where it starts.                 *)
(***************************************************************************)
LEMMA NoWayBack ==
    ASSUME NEW i \in Inputs, NEW next \in [Target -> SUBSET Target],
           \A t \in Target : next[t] \subseteq i.deps[t],
           NEW t \in Target, NEW d \in next[t]
    PROVE  t \notin Onward(next, d)
<1> DEFINE X == {y \in Target : Rank[y] <= Rank[d]}
<1>1. /\ d \in Target /\ {d} \in SUBSET Target /\ Rank \in [Target -> Nat]
      /\ \A y \in Target : \A e \in next[y] : e \in Target /\ Rank[e] < Rank[y]
  BY InputAssumption
<1>2. Closed(X, next) /\ {d} \subseteq X
  BY <1>1 DEF Closed
<1>3. Onward(next, d) \subseteq X
  <2> HIDE DEF X
  <2> QED
    BY <1>1, <1>2, ClosureLeast DEF Onward
<1> QED
  BY <1>1, <1>3

(***************************************************************************)
(* What the innermost call is for is below what each caller looks at.      *)
(***************************************************************************)
LEMMA Chain ==
    ASSUME NEW s \in Seq(Frame), s # <<>>, NEW x,
           NEW next \in [Target -> SUBSET Target], NEW jobs, NEW asked,
           Frames(s, x, WorkFrames(next, jobs, asked))
    PROVE  \A k \in 1 .. Len(s) : Head(s).t \in Onward(next, s[k].t)
<1> DEFINE T == {n \in Nat : n < Len(s) => Head(s).t \in Onward(next, s[n + 1].t)}
<1>1. /\ Len(s) \in Nat \ {0} /\ Head(s) = s[1]
      /\ \A k \in 1 .. Len(s) : s[k] \in Frame /\ s[k].t \in Target
  <2>1. /\ Len(s) \in Nat \ {0} /\ Head(s) = s[1]
        /\ \A k \in 1 .. Len(s) : s[k] \in Frame
    OBVIOUS
  <2>2. \A f \in Frame : f.t \in Target
    BY DEF Frame
  <2> QED
    BY <2>1, <2>2
<1>2. 0 \in T
  BY <1>1, OnwardReaches
<1>3. ASSUME NEW n \in 0 .. (Len(s) - 1) - 1, n \in T PROVE n + 1 \in T
  <2>1. /\ n + 1 \in 1 .. Len(s) /\ n + 2 \in 1 .. Len(s) /\ n + 2 # 1
        /\ (n + 2) - 1 = n + 1 /\ (n + 1) + 1 = n + 2 /\ n < Len(s) /\ n + 1 \in Nat
    BY <1>1
  <2>2. <<s[n + 2], {s[n + 1].t}>> \in WorkFrames(next, jobs, asked)
    BY <2>1 DEF Frames
  <2>3. s[n + 1].t \in next[s[n + 2].t]
    BY <2>2 DEF WorkFrames, WorkFrame
  <2>4. Head(s).t \in Onward(next, s[n + 1].t)
    BY <1>3, <2>1
  <2>5. Head(s).t \in Onward(next, s[n + 2].t)
    BY <1>1, <2>1, <2>3, <2>4, OnwardReaches
  <2> QED
    BY <2>1, <2>5
<1>4. 0 .. Len(s) - 1 \subseteq T
  <2>1. Len(s) - 1 \in Nat
    BY <1>1
  <2>2. \A n \in 0 .. (Len(s) - 1) - 1 : n \in T => n + 1 \in T
    BY <1>3
  <2> HIDE DEF T
  <2> QED
    BY <1>2, <2>1, <2>2, Induction
<1>5. ASSUME NEW k \in 1 .. Len(s) PROVE Head(s).t \in Onward(next, s[k].t)
  <2>1. k - 1 \in 0 .. Len(s) - 1 /\ k - 1 < Len(s) /\ (k - 1) + 1 = k
    BY <1>1
  <2>2. k - 1 \in T
    BY <1>4, <2>1
  <2> QED
    BY <2>1, <2>2
<1> QED
  BY <1>5

\* Each of the calls s looks at u, or at what leads to it; none is for u.
Leads(s, x, next, u) ==
    \A k \in 1 .. Len(s) :
       /\ s[k].t # u
       /\ \E d \in IF k = 1 THEN x ELSE {s[k - 1].t} : u \in Onward(next, d)

(***************************************************************************)
(* The calls keep sight of the jobs when a target u that none of them is   *)
(* for stops being looked at, or loses a dependency, and perhaps starts    *)
(* running: it is what each of them looks at, or below that.               *)
(***************************************************************************)
LEMMA CutFrames ==
    ASSUME NEW s \in Seq(Frame), NEW x,
           NEW next \in [Target -> SUBSET Target], NEW less \in [Target -> SUBSET Target],
           NEW jobs, NEW more, NEW asked, NEW u \in Target,
           \A t \in Target : less[t] \subseteq next[t] /\ (t # u => less[t] = next[t]),
           more \subseteq jobs \cup {u},
           \A d \in next[u] \ less[u] : more \cap Onward(next, d) = {},
           Frames(s, x, WorkFrames(next, jobs, asked)),
           Leads(s, x, next, u)
    PROVE  Frames(s, x, WorkFrames(less, more, asked))
<1>1. \A t \in Target : \A d \in next[t] \ less[t] : more \cap Onward(next, d) = {}
  OBVIOUS
<1>2. \A y \in Target : /\ more \cap Onward(next, y) \subseteq Onward(less, y)
                        /\ Onward(less, y) \subseteq Onward(next, y)
  BY <1>1, CutOff
<1>3. ASSUME NEW f \in Frame, NEW y \in SUBSET Target, WorkFrame(f, y, next, jobs, asked),
             f.t # u, \E d \in y : u \in Onward(next, d)
      PROVE  WorkFrame(f, y, less, more, asked)
  <2>1. f.t \in Target /\ less[f.t] = next[f.t] /\ f.todo \cup y \subseteq Target
    BY <1>3 DEF Frame
  <2>2. ASSUME NEW z \in more \cap Onward(less, f.t), ~f.wait
        PROVE  \E d \in f.todo \cup y : z \in Onward(less, d)
    <3>1. z \in Onward(next, f.t)
      BY <1>2, <2>1
    <3>2. \E d \in f.todo \cup y : z \in Onward(next, d)
      BY <1>3, <2>2, <3>1 DEF WorkFrame
    <3> QED
      BY <1>2, <2>1, <3>2
  <2> QED
    BY <1>3, <2>1, <2>2 DEF WorkFrame
<1>4. ASSUME NEW k \in 1 .. Len(s)
      PROVE  <<s[k], IF k = 1 THEN x ELSE {s[k - 1].t}>> \in WorkFrames(less, more, asked)
  <2> DEFINE y == IF k = 1 THEN x ELSE {s[k - 1].t}
  <2>1. <<s[k], y>> \in WorkFrames(next, jobs, asked)
    BY DEF Frames
  <2>2. s[k].t # u /\ \E d \in y : u \in Onward(next, d)
    BY DEF Leads
  <2> HIDE DEF y
  <2>3. /\ s[k] \in Frame /\ y \in SUBSET Target
        /\ WorkFrame(<<s[k], y>>[1], <<s[k], y>>[2], next, jobs, asked)
    BY <2>1 DEF WorkFrames
  <2>4. WorkFrame(s[k], y, less, more, asked)
    BY <1>3, <2>2, <2>3
  <2>5. <<s[k], y>> \in WorkFrames(less, more, asked)
    BY <2>3, <2>4 DEF WorkFrames
  <2> QED
    BY <2>5 DEF y
<1> QED
  BY <1>4 DEF Frames

\* The live graph, and what it is about.
LEMMA LiveTypes ==
    ASSUME IInv
    PROVE  /\ Live \in [Target -> SUBSET Target] /\ input \in Inputs
           /\ running \subseteq Target
           /\ \A t \in Target : Live[t] \subseteq input.deps[t]
           /\ \A t \in Target : status[t] = "none" => Live[t] = deps[t]
           /\ \A t \in Target : status[t] # "none" => Onward(Live, t) = {t}
           /\ \A t \in Target : t \in running <=> status[t] = "running"
<1>1. /\ deps \in [Target -> SUBSET Target] /\ input \in Inputs
      /\ \A t \in Target : deps[t] \subseteq input.deps[t]
      /\ running = {t \in Target : status[t] = "running"}
  BY DEF IInv, TypeOK, TargetTypeOK, StackInv, StatusInv
<1>2. Live \in [Target -> SUBSET Target]
  BY <1>1 DEF Live
<1>3. ASSUME NEW t \in Target, status[t] # "none" PROVE Onward(Live, t) = {t}
  <2>1. Live[t] = {}
    BY <1>3 DEF Live
  <2> QED
    BY <1>2, <2>1, OnwardReaches
<1> QED
  BY <1>1, <1>2, <1>3 DEF Live

(***************************************************************************)
(* bring_up_to_date keeps GoalInv: it is about one goal at a time.         *)
(***************************************************************************)
LEMMA EvaluateGoal ==
    ASSUME IInv, GoalInv, Evaluate
    PROVE  /\ GoalInv'
           /\ goals' = goals /\ draining' = draining /\ pc' = "eval"
           /\ \A t \in Target : VisitGoal(t) => pc = "goals" /\ t \in pass.todo
           /\ (~\E t \in Target : VisitGoal(t)) => InLoop
<1>k. /\ input' = input /\ stack \in Seq(Frame)
      /\ pass \in [jobs : Nat, todo : SUBSET Target, any : BOOLEAN]
  BY Kept DEF IInv, TypeOK, Next, Presto
<1>1. ASSUME NEW t \in Target, VisitGoal(t)
      PROVE  /\ GoalInv' /\ goals' = goals /\ draining' = draining /\ pc' = "eval"
             /\ pc = "goals" /\ t \in pass.todo
  <2>1. /\ pc = "goals" /\ pc' = "eval" /\ t \in pass.todo /\ Calls(t, <<>>)
        /\ pass' = [pass EXCEPT !.todo = pass.todo \ {t}]
        /\ goals' = goals /\ draining' = draining
    BY <1>1 DEF VisitGoal, dispatchVars
  <2>2. pass'.todo = pass.todo \ {t} /\ pass'.any = pass.any
    BY <1>k, <2>1
  <2>3. Outermost(stack', ret'.of) = t
    <3>1. CASE NeedsNoCall(t)
      BY <2>1, <3>1 DEF Calls, Outermost
    <3>2. CASE ~NeedsNoCall(t)
      <4> DEFINE g == [t |-> t, todo |-> deps[t], build |-> always \/ ~Exists(t), wait |-> FALSE]
      <4>1. stack' = <<g>> \o <<>> /\ g.t = t
        BY <2>1, <3>2 DEF Calls
      <4> HIDE DEF g
      <4>2. stack' # <<>> /\ Len(stack') = 1 /\ stack'[1] = g
        BY <4>1
      <4> QED
        BY <4>1, <4>2 DEF Outermost
    <3> QED
      BY <3>1, <3>2
  <2> QED
    BY <1>k, <2>1, <2>2, <2>3 DEF GoalInv
<1>2. ASSUME ~\E t \in Target : VisitGoal(t)
      PROVE  /\ GoalInv' /\ goals' = goals /\ draining' = draining /\ pc' = "eval"
             /\ InLoop
  <2>1. /\ InLoop /\ pc = "eval" /\ pc' = pc /\ UNCHANGED <<pass, goals, draining>>
    BY <1>2 DEF Evaluate, VisitDep, DepUpdated, DepUnchanged,
       DepRunning, DepPruned, DepFailed, TimestampRaises, ReturnRunning, ReturnDepError,
       QuestionRaises, StartJob, NoRule, NothingToRun, UpToDate, MayStart, MustBuild,
       DepsSettled, LoopDone, Answered, InLoop, evalFrame, loopVars, dispatchVars
  <2>2. /\ stack # <<>> /\ Top \in Frame /\ Top = Head(stack) /\ Callers = Tail(stack)
        /\ Callers \in Seq(Frame)
    BY <2>1, TopUnstarted DEF IInv, Top
  <2>3. ASSUME NEW u PROVE Outermost(stack, u) = Outermost(stack, ret.of)
    BY <2>2 DEF Outermost
  <2>4. ASSUME NEW f \in Frame, f.t = Top.t, NEW u
        PROVE  Outermost(<<f>> \o Callers, u) = Outermost(stack, ret.of)
    <3>1. Outermost(<<f>> \o Tail(stack), u) = Outermost(stack, u)
      BY <1>k, <2>2, <2>4, SameGoal
    <3> QED
      BY <2>2, <2>3, <3>1
  <2>5. ASSUME NEW f \in Frame, f.t = Top.t, stack' = <<f>> \o Callers
        PROVE  Outermost(stack', ret'.of) = Outermost(stack, ret.of)
    BY <2>4, <2>5
  <2>6. ASSUME stack' = Callers, ret'.of = Top.t
        PROVE  Outermost(stack', ret'.of) = Outermost(stack, ret.of)
    <3>1. Outermost(Tail(stack), Head(stack).t) = Outermost(stack, ret.of)
      BY <1>k, <2>2, SameGoal
    <3> QED
      BY <2>2, <2>6, <3>1
  <2>7. ASSUME NEW d \in Target, VisitDep(d)
        PROVE  Outermost(stack', ret'.of) = Outermost(stack, ret.of)
    <3> DEFINE f == [Top EXCEPT !.todo = Top.todo \ {d}]
    <3>1. Calls(d, <<f>> \o Callers)
      BY <2>7 DEF VisitDep
    <3>2. f \in Frame /\ f.t = Top.t
      BY <2>2 DEF Frame
    <3> HIDE DEF f
    <3> DEFINE below == <<f>> \o Callers
    <3>3. below \in Seq(Frame) /\ below # <<>> /\ Head(below) \in Frame
      BY <2>2, <3>2
    <3>4. \A u : Outermost(below, u) = Outermost(stack, ret.of)
      BY <2>4, <3>2
    <3> HIDE DEF below
    <3>5. CASE NeedsNoCall(d)
      BY <3>1, <3>4, <3>5 DEF Calls, below
    <3>6. CASE ~NeedsNoCall(d)
      <4>1. PICK g : stack' = <<g>> \o below
        BY <3>1, <3>6 DEF Calls, below
      <4>2. Outermost(<<g>> \o below, ret'.of) = Outermost(below, ret'.of)
        BY <3>3, SameGoal
      <4> QED
        BY <3>4, <4>1, <4>2
    <3> QED
      BY <3>5, <3>6
  <2>8. ASSUME DepUpdated \/ DepUnchanged \/ DepPruned
        PROVE  Outermost(stack', ret'.of) = Outermost(stack, ret.of)
    <3> DEFINE f == [Top EXCEPT !.build = TRUE]
    <3>1. stack' = stack \/ stack' = <<f>> \o Callers
      BY <2>8 DEF DepUpdated, DepUnchanged, DepPruned, SetTop
    <3>2. f \in Frame /\ f.t = Top.t
      BY <2>2 DEF Frame
    <3> HIDE DEF f
    <3> QED
      BY <2>3, <2>5, <3>1, <3>2
  <2>9. ASSUME DepRunning
        PROVE  Outermost(stack', ret'.of) = Outermost(stack, ret.of)
    <3> DEFINE f == [Top EXCEPT !.wait = TRUE, !.todo = IF SlotsFull THEN {} ELSE Top.todo]
    <3>1. stack' = <<f>> \o Callers
      BY <2>9 DEF DepRunning, SetTop
    <3>2. f \in Frame /\ f.t = Top.t
      BY <2>2 DEF Frame
    <3> HIDE DEF f
    <3> QED
      BY <2>5, <3>1, <3>2
  <2>10. ASSUME ~(\E d \in Target : VisitDep(d)) /\ ~DepUpdated /\ ~DepUnchanged /\ ~DepPruned /\ ~DepRunning
        PROVE  Outermost(stack', ret'.of) = Outermost(stack, ret.of)
    <3>1. stack' = Callers /\ ret'.of = Top.t
      BY <1>2, <2>10 DEF Evaluate, DepFailed, TimestampRaises, ReturnRunning,
         ReturnDepError, QuestionRaises, StartJob, NoRule, NothingToRun, UpToDate, Return
    <3> QED
      BY <2>6, <3>1
  <2>11. Outermost(stack', ret'.of) = Outermost(stack, ret.of)
    BY <2>7, <2>8, <2>9, <2>10
  <2> QED
    BY <1>k, <2>1, <2>11 DEF GoalInv
<1> QED
  BY <1>1, <1>2

(***************************************************************************)
(* bring_up_to_date keeps sight of the jobs.  A target that gets a status  *)
(* is one whose call has found no job below it, so that nothing is lost    *)
(* when it is no longer looked at.                                         *)
(***************************************************************************)
LEMMA EvaluateWork ==
    ASSUME IInv, GoalInv, WorkInv, KeepGoingNeverRaises, Evaluate
    PROVE  WorkInv'
<1>b. /\ TypeOK /\ StackInv /\ StatusInv /\ [Next]_vars
      /\ goals' = goals /\ draining' = draining /\ pc' = "eval"
  BY EvaluateGoal DEF IInv, Next, Presto
<1>k. /\ input' = input /\ input \in Inputs /\ Requested' = Requested
      /\ Requested \subseteq Target /\ keepGoing' = keepGoing
      /\ AskedForBy(input) \subseteq Requested
      /\ status \in [Target -> Statuses] /\ deps \in [Target -> SUBSET Target]
      /\ stack \in Seq(Frame)
      /\ ret \in {NoReturn} \cup [of : Target, st : Statuses]
  BY <1>b, Kept, RequestedReaches DEF Requested, TypeOK, TargetTypeOK
<1>l. /\ Live \in [Target -> SUBSET Target] /\ running \subseteq Target
      /\ \A t \in Target : Live[t] \subseteq input.deps[t]
      /\ \A t \in Target : status[t] = "none" => Live[t] = deps[t]
      /\ \A t \in Target : status[t] # "none" => Onward(Live, t) = {t}
      /\ \A t \in Target : t \in running <=> status[t] = "running"
  BY LiveTypes
<1> DEFINE jobsSeen == \A z \in running' : \E g \in goals : z \in Onward(Live', g)
           framesSeen == Frames(stack', LookedAt', WorkFrames(Live', running', Requested))
           answer == Returned' /\ ret'.st # "running" => running' \cap Onward(Live', ret'.of) = {}
           work == WorkFrames(Live, running, Requested)
<1> SUFFICES ASSUME ~Quits' PROVE jobsSeen /\ framesSeen /\ answer
  BY <1>b, <1>k DEF WorkInv
<1>q. ~Quits
  <2>1. ~draining /\ ~(ret'.st = "error" /\ ~keepGoing)
    BY <1>b, <1>k DEF Quits
  <2>2. pc \in {"goals", "eval"}
    BY EvaluateGoal DEF InLoop
  <2>3. ASSUME pc = "eval", ret.st = "error", ~keepGoing PROVE FALSE
    <3>1. Returned /\ ret.st = "error" /\ pc # "goals"
      BY <2>3 DEF Returned
    <3>2. DepFailed
      BY <2>3, <3>1 DEF Evaluate, VisitGoal, VisitDep, DepUpdated, DepUnchanged, DepRunning,
         DepPruned, TimestampRaises, ReturnRunning, ReturnDepError, QuestionRaises,
         StartJob, NoRule, NothingToRun, UpToDate, MayStart, MustBuild, DepsSettled,
         LoopDone, Answered
    <3>3. ret'.st = "error"
      BY <3>2 DEF DepFailed, Return
    <3> QED
      BY <2>1, <2>3, <3>3
  <2> QED
    BY <2>1, <2>2, <2>3 DEF Quits
<1>w. /\ \A z \in running : \E g \in goals : z \in Onward(Live, g)
      /\ pc = "eval" => /\ Frames(stack, LookedAt, work)
                        /\ Returned /\ ret.st # "running" => running \cap Onward(Live, ret.of) = {}
  BY <1>q DEF WorkInv
<1>1. ASSUME NEW s, NEW x, stack' = s, LookedAt' = x, Live' = Live, running' = running,
             Frames(s, x, work),
             Returned' /\ ret'.st # "running" => running \cap Onward(Live, ret'.of) = {}
      PROVE  jobsSeen /\ framesSeen /\ answer
  BY <1>w, <1>1
<1>2. ASSUME NEW t \in Requested, NEW below \in Seq(Frame), Frames(below, {t}, work),
             Calls(t, below), Live' = Live, running' = running
      PROVE  jobsSeen /\ framesSeen /\ answer
  <2>0. t \in Target
    BY <1>k
  <2>1. CASE NeedsNoCall(t)
    <3>1. /\ stack' = below /\ ret' = [of |-> t, st |-> status[t]]
          /\ status[t] \in {"updated", "running", "error"}
      BY <1>2, <2>1 DEF Calls, NeedsNoCall
    <3>2. ret'.of = t /\ ret'.st = status[t] /\ LookedAt' = {t}
      BY <3>1 DEF LookedAt, Returned
    <3>3. status[t] # "running" => running \cap Onward(Live, t) = {}
      BY <1>l, <2>0, <3>1
    <3> HIDE DEF work, jobsSeen, framesSeen, answer
    <3> QED
      BY <1>1, <1>2, <3>1, <3>2, <3>3
  <2>2. CASE ~NeedsNoCall(t)
    <3> DEFINE g == [t |-> t, todo |-> deps[t], build |-> always \/ ~Exists(t), wait |-> FALSE]
    <3>1. status[t] = "none" /\ Live[t] = deps[t] /\ t \notin running
      BY <1>k, <1>l, <2>0, <2>2 DEF NeedsNoCall, Statuses
    <3>2. g \in Frame /\ g.t = t /\ g.todo = deps[t] /\ g.wait = FALSE
      <4>1. Exists(t) \in BOOLEAN /\ always \in BOOLEAN
        BY <1>b, <1>k, <2>0, TargetAssumption, InputTypes DEF Exists, OnDisk, TypeOK, TargetTypeOK, always
      <4> QED
        BY <1>k, <2>0, <4>1 DEF Frame
    <3>3. stack' = <<g>> \o below /\ ret' = NoReturn
      BY <1>2, <2>2 DEF Calls
    <3> HIDE DEF g
    <3>4. LookedAt' = {} /\ ret'.st = "pending" /\ ~Returned'
      BY <3>3 DEF LookedAt, Returned, NoReturn
    <3>5. WorkFrame(g, {}, Live, running, Requested)
      BY <1>l, <2>0, <3>1, <3>2, OnwardReaches DEF WorkFrame
    <3>6. <<g, {}>> \in work
      BY <3>2, <3>5 DEF WorkFrames
    <3> HIDE DEF work, jobsSeen, framesSeen, answer
    <3>7. Frames(<<g>> \o below, {}, work)
      BY <1>2, <3>2, <3>6, CallNests
    <3> QED
      BY <1>1, <1>2, <3>3, <3>4, <3>7
  <2> QED
    BY <2>1, <2>2
<1>3. ASSUME NEW t \in Target, VisitGoal(t) PROVE jobsSeen /\ framesSeen /\ answer
  <2>1. t \in Requested /\ Calls(t, <<>>)
    BY <1>k, <1>3, EvaluateGoal DEF GoalInv, VisitGoal
  <2>2. Live' = Live /\ running' = running
    BY <1>3 DEF VisitGoal, targetVars, jobVars, Live
  <2>3. Frames(<<>>, {t}, work) /\ <<>> \in Seq(Frame)
    BY DEF Frames
  <2> HIDE DEF work, jobsSeen, framesSeen, answer
  <2> QED
    BY <1>2, <2>1, <2>2, <2>3
<1>x. ASSUME ~\E t \in Target : VisitGoal(t) PROVE jobsSeen /\ framesSeen /\ answer
  <2>0. /\ InLoop /\ pc = "eval" /\ stack # <<>> /\ Top \in Frame
        /\ Top = Head(stack) /\ Top = stack[1] /\ Callers = Tail(stack) /\ Callers \in Seq(Frame)
        /\ Top.t \in Target /\ status[Top.t] = "none" /\ Top.t \notin running
        /\ Live[Top.t] = deps[Top.t]
        /\ \A k \in 1 .. Len(Callers) : Callers[k].t # Top.t
    BY <1>b, <1>l, <1>x, EvaluateGoal, TopUnstarted DEF InLoop, Top
  <2>i. /\ Frames(stack, LookedAt, work) /\ Frames(Callers, {Top.t}, work)
        /\ WorkFrame(Top, LookedAt, Live, running, Requested)
        /\ Top.t \in Requested /\ LookedAt \subseteq Live[Top.t] /\ Top.todo \subseteq Live[Top.t]
    <3>1. Frames(stack, LookedAt, work)
      BY <1>w, <2>0
    <3>2. <<Top, LookedAt>> \in work /\ Frames(Callers, {Top.t}, work)
      <4> HIDE DEF work
      <4> QED
        BY <1>k, <2>0, <3>1, CallReturns
    <3>3. WorkFrame(<<Top, LookedAt>>[1], <<Top, LookedAt>>[2], Live, running, Requested)
      BY <3>2 DEF WorkFrames
    <3> QED
      BY <3>1, <3>2, <3>3 DEF WorkFrame
  <2>c. /\ \A k \in 1 .. Len(stack) : Top.t \in Onward(Live, stack[k].t)
        /\ Leads(Callers, {Top.t}, Live, Top.t)
    <3>1. \A k \in 1 .. Len(stack) : Top.t \in Onward(Live, stack[k].t)
      BY <1>k, <1>l, <2>0, <2>i, Chain
    <3>2. Top.t \in Onward(Live, Top.t)
      BY <1>l, <2>0, OnwardReaches
    <3>3. ASSUME NEW k \in 1 .. Len(Callers), k # 1
          PROVE  k \in 1 .. Len(stack) /\ Callers[k - 1] = stack[k]
      BY <1>k, <2>0, <3>3
    <3> QED
      BY <2>0, <3>1, <3>2, <3>3 DEF Leads
  <2>1. ASSUME NEW f \in Frame, f.t = Top.t, stack' = <<f>> \o Callers, ret' = NoReturn,
               Live' = Live, running' = running, WorkFrame(f, {}, Live, running, Requested)
        PROVE  jobsSeen /\ framesSeen /\ answer
    <3>1. LookedAt' = {} /\ ret'.st = "pending" /\ ~Returned'
      BY <2>1 DEF LookedAt, Returned, NoReturn
    <3>2. <<f, {}>> \in work
      BY <2>1 DEF WorkFrames
    <3> HIDE DEF work, jobsSeen, framesSeen, answer
    <3>3. Frames(<<f>> \o Callers, {}, work)
      BY <1>k, <2>0, <2>1, <2>i, <3>2, CallGoesOn
    <3> QED
      BY <1>1, <2>1, <3>1, <3>3
  <2>2. ASSUME NEW s \in Statuses, Return(s), Live' = Live, running' = running,
               s # "running" => running \cap Onward(Live, Top.t) = {}
        PROVE  jobsSeen /\ framesSeen /\ answer
    <3>1. stack' = Callers /\ ret'.of = Top.t /\ ret'.st = s /\ LookedAt' = {Top.t}
      BY <2>2 DEF Return, LookedAt, Returned, Statuses
    <3> HIDE DEF work, jobsSeen, framesSeen, answer
    <3> QED
      BY <1>1, <2>2, <2>i, <3>1
  <2>d. LoopDone /\ ~Top.wait => running \cap Onward(Live, Top.t) = {}
    BY <2>i DEF LoopDone, LookedAt, WorkFrame
  <2>3. ASSUME NEW s \in Statuses, Return(s), LoopDone, ~Top.wait, deps' = deps,
               status'[Top.t] # "none", \A t \in Target \ {Top.t} : status'[t] = status[t],
               running' \subseteq running \cup {Top.t},
               s # "running" => Top.t \notin running'
        PROVE  jobsSeen /\ framesSeen /\ answer
    <3> DEFINE less == Live'
    <3>1. /\ less \in [Target -> SUBSET Target] /\ less[Top.t] = {}
          /\ \A t \in Target : less[t] \subseteq Live[t] /\ (t # Top.t => less[t] = Live[t])
      BY <1>k, <2>0, <2>3 DEF Live
    <3>2. \A d \in Live[Top.t] : running' \cap Onward(Live, d) = {}
      <4>1. \A d \in Live[Top.t] : Top.t \notin Onward(Live, d)
        BY <1>k, <1>l, <2>0, NoWayBack
      <4>2. \A d \in Live[Top.t] : Onward(Live, d) \subseteq Onward(Live, Top.t)
        BY <1>l, <2>0, OnwardReaches
      <4> QED
        BY <2>3, <2>d, <4>1, <4>2
    <3> HIDE DEF less
    <3>3. ASSUME NEW x \in Target
          PROVE  running' \cap Onward(Live, x) \subseteq Onward(less, x)
      <4>1. \A t \in Target : \A d \in Live[t] \ less[t] : running' \cap Onward(Live, d) = {}
        BY <3>1, <3>2
      <4> QED
        BY <1>l, <3>1, <4>1, CutOff
    <3>4. ASSUME NEW z \in running' PROVE \E g \in goals : z \in Onward(less, g)
      <4>1. PICK g \in goals : z \in Onward(Live, g)
        <5>1. CASE z = Top.t
          <6>1. /\ Len(stack) \in 1 .. Len(stack) /\ stack[Len(stack)].t \in goals
            <7>1. Outermost(stack, ret.of) = stack[Len(stack)].t
              BY <2>0 DEF Outermost
            <7> QED
              BY <1>k, <2>0, <7>1 DEF GoalInv
          <6> QED
            BY <2>c, <5>1, <6>1
        <5>2. CASE z # Top.t
          BY <1>w, <2>3, <5>2
        <5> QED
          BY <5>1, <5>2
      <4>2. g \in Target
        BY <1>k DEF GoalInv
      <4> QED
        BY <3>3, <4>1, <4>2
    <3>5. Frames(Callers, {Top.t}, WorkFrames(less, running', Requested))
      <4>1. \A d \in Live[Top.t] \ less[Top.t] : running' \cap Onward(Live, d) = {}
        BY <3>2
      <4>2. Callers \in Seq(Frame) /\ Top.t \in Target /\ Live \in [Target -> SUBSET Target]
        BY <1>l, <2>0
      <4>3. /\ Frames(Callers, {Top.t}, WorkFrames(Live, running, Requested))
            /\ Leads(Callers, {Top.t}, Live, Top.t)
        BY <2>c, <2>i
      <4> QED
        BY <2>3, <3>1, <4>1, <4>2, <4>3, CutFrames
    <3>6. stack' = Callers /\ ret'.of = Top.t /\ ret'.st = s /\ LookedAt' = {Top.t}
      BY <2>3 DEF Return, LookedAt, Returned, Statuses
    <3>7. s # "running" => running' \cap Onward(less, Top.t) = {}
      <4>1. Onward(less, Top.t) = {Top.t}
        BY <2>0, <3>1, OnwardReaches
      <4> QED
        BY <2>3, <4>1
    <3> QED
      BY <3>4, <3>5, <3>6, <3>7 DEF less
  <2>4. ASSUME DepPruned PROVE jobsSeen /\ framesSeen /\ answer
    <3>1. /\ Returned /\ ret.st = "error" /\ ret' = NoReturn /\ stack' = stack
          /\ status' = status /\ running' = running
          /\ deps' = [deps EXCEPT ![Top.t] = deps[Top.t] \ {ret.of}]
      BY <2>4 DEF DepPruned, Answered, Returned, jobVars
    <3>2. /\ ret.of \in Live[Top.t] /\ ret.of \notin Top.todo /\ running \cap Onward(Live, ret.of) = {}
          /\ ret.of \in Target /\ LookedAt = {ret.of}
      BY <1>l, <1>w, <2>0, <2>i, <3>1 DEF LookedAt, WorkFrame
    <3> DEFINE less == Live'
    <3>3. /\ less \in [Target -> SUBSET Target] /\ less[Top.t] = Live[Top.t] \ {ret.of}
          /\ \A t \in Target : less[t] \subseteq Live[t] /\ (t # Top.t => less[t] = Live[t])
      BY <1>k, <2>0, <3>1 DEF Live
    <3> HIDE DEF less
    <3>4. \A d \in Live[Top.t] \ less[Top.t] : running \cap Onward(Live, d) = {}
      BY <3>2, <3>3
    <3>5. ASSUME NEW x \in Target
          PROVE  /\ running \cap Onward(Live, x) \subseteq Onward(less, x)
                 /\ Onward(less, x) \subseteq Onward(Live, x)
      <4>1. \A t \in Target : \A d \in Live[t] \ less[t] : running \cap Onward(Live, d) = {}
        BY <3>3, <3>4
      <4> QED
        BY <1>l, <3>3, <4>1, CutOff
    <3>6. \A z \in running : \E g \in goals : z \in Onward(less, g)
      <4>1. goals \subseteq Target
        BY <1>k DEF GoalInv
      <4> QED
        BY <1>w, <3>5, <4>1
    <3>7. Frames(Callers, {Top.t}, WorkFrames(less, running, Requested))
      <4>1. Callers \in Seq(Frame) /\ Top.t \in Target /\ Live \in [Target -> SUBSET Target]
        BY <1>l, <2>0
      <4>2. /\ Frames(Callers, {Top.t}, WorkFrames(Live, running, Requested))
            /\ Leads(Callers, {Top.t}, Live, Top.t)
        BY <2>c, <2>i
      <4>3. running \subseteq running \cup {Top.t}
        OBVIOUS
      <4> QED
        BY <3>3, <3>4, <4>1, <4>2, <4>3, CutFrames
    <3>8. WorkFrame(Top, {}, less, running, Requested)
      <4>1. Top.todo \subseteq less[Top.t] /\ Top.todo \subseteq Target
        BY <1>l, <2>0, <2>i, <3>2, <3>3
      <4>2. ASSUME ~Top.wait, NEW z \in running \cap Onward(less, Top.t)
            PROVE  \E d \in Top.todo : z \in Onward(less, d)
        <5>1. z \in Onward(Live, Top.t)
          BY <2>0, <3>5, <4>2
        <5>2. PICK d \in Top.todo \cup {ret.of} : z \in Onward(Live, d)
          BY <2>i, <3>2, <4>2, <5>1 DEF WorkFrame
        <5> QED
          BY <3>2, <3>5, <4>1, <4>2, <5>2
      <4> QED
        BY <2>i, <4>1, <4>2 DEF WorkFrame
    <3> DEFINE G == WorkFrames(less, running, Requested)
    <3>9. <<Top, {}>> \in G
      BY <2>0, <3>8 DEF WorkFrames
    <3>s. stack = <<Top>> \o Callers
      BY <1>k, <2>0
    <3>10. Frames(<<Top>> \o Callers, {}, G)
      <4>1. Frames(Callers, {Top.t}, G)
        BY <3>7
      <4> HIDE DEF G
      <4> QED
        BY <2>0, <3>9, <4>1, CallNests
    <3>11. LookedAt' = {} /\ ~Returned'
      BY <3>1 DEF LookedAt, Returned, NoReturn
    <3> QED
      BY <3>1, <3>6, <3>s, <3>10, <3>11 DEF less
  <2>5. ASSUME NEW d \in Target, VisitDep(d) PROVE jobsSeen /\ framesSeen /\ answer
    <3> DEFINE f == [Top EXCEPT !.todo = Top.todo \ {d}]
    <3>1. ~Returned /\ d \in Top.todo /\ Calls(d, <<f>> \o Callers)
      BY <2>5 DEF VisitDep
    <3>2. f \in Frame /\ f.t = Top.t /\ f.todo = Top.todo \ {d} /\ f.wait = Top.wait
      BY <2>0, <3>1 DEF Frame
    <3> HIDE DEF f
    <3>3. f.todo \cup {d} = Top.todo \cup LookedAt
      BY <3>1, <3>2 DEF LookedAt
    <3>4. WorkFrame(f, {d}, Live, running, Requested)
      BY <2>i, <3>2, <3>3 DEF WorkFrame
    <3>5. <<f, {d}>> \in work
      BY <3>2, <3>4 DEF WorkFrames
    <3>6. d \in Requested
      BY <1>k, <1>l, <2>0, <2>i, <3>1, RequestedReaches DEF Requested
    <3>7. Live' = Live /\ running' = running
      BY <2>5 DEF VisitDep, targetVars, jobVars, Live
    <3>8. <<f>> \o Callers \in Seq(Frame)
      BY <2>0, <3>2
    <3> HIDE DEF work, jobsSeen, framesSeen, answer
    <3>9. Frames(<<f>> \o Callers, {d}, work)
      BY <1>k, <2>0, <2>i, <3>2, <3>5, CallGoesOn
    <3> QED
      BY <1>2, <3>1, <3>6, <3>7, <3>8, <3>9
  <2>6. ASSUME DepUpdated \/ DepUnchanged PROVE jobsSeen /\ framesSeen /\ answer
    <3>1. /\ Returned /\ ret' = NoReturn /\ ret.st \in {"updated", "none"}
          /\ Live' = Live /\ running' = running
      BY <2>6 DEF DepUpdated, DepUnchanged, Answered, Returned, jobVars, Live
    <3>2. PICK b \in BOOLEAN : stack' = <<[Top EXCEPT !.build = b]>> \o Callers
      <4>1. stack' = stack \/ stack' = <<[Top EXCEPT !.build = TRUE]>> \o Callers
        BY <2>6 DEF DepUpdated, DepUnchanged, SetTop
      <4>2. Top = [Top EXCEPT !.build = Top.build] /\ Top.build \in BOOLEAN
        BY <2>0 DEF Frame
      <4>3. stack = <<Top>> \o Callers
        BY <1>k, <2>0
      <4> QED
        BY <4>1, <4>2, <4>3
    <3> DEFINE f == [Top EXCEPT !.build = b]
    <3>3. f \in Frame /\ f.t = Top.t /\ f.todo = Top.todo /\ f.wait = Top.wait
      BY <2>0 DEF Frame
    <3>4. stack' = <<f>> \o Callers
      BY <3>2
    <3> HIDE DEF f
    <3>5. running \cap Onward(Live, ret.of) = {} /\ LookedAt = {ret.of}
      BY <1>w, <2>0, <3>1 DEF LookedAt
    <3>6. WorkFrame(f, {}, Live, running, Requested)
      BY <2>i, <3>3, <3>5 DEF WorkFrame
    <3> HIDE DEF jobsSeen, framesSeen, answer
    <3> QED
      BY <2>1, <3>1, <3>3, <3>4, <3>6
  <2>7. ASSUME DepRunning PROVE jobsSeen /\ framesSeen /\ answer
    <3> DEFINE f == [Top EXCEPT !.wait = TRUE, !.todo = IF SlotsFull THEN {} ELSE Top.todo]
    <3>1. /\ ret' = NoReturn /\ stack' = <<f>> \o Callers
          /\ Live' = Live /\ running' = running
      BY <2>7 DEF DepRunning, SetTop, targetVars, jobVars, Live
    <3>2. f \in Frame /\ f.t = Top.t /\ f.wait /\ f.todo \subseteq Top.todo
      BY <2>0 DEF Frame
    <3> HIDE DEF f
    <3>3. WorkFrame(f, {}, Live, running, Requested)
      BY <2>i, <3>2 DEF WorkFrame
    <3> HIDE DEF jobsSeen, framesSeen, answer
    <3> QED
      BY <2>1, <3>1, <3>2, <3>3
  <2>8. ~DepFailed /\ ~TimestampRaises
    <3>1. DepFailed \/ TimestampRaises => ret'.st = "error"
      BY DEF DepFailed, TimestampRaises, Return
    <3>2. ~(DepFailed /\ keepGoing) /\ ~(TimestampRaises /\ keepGoing)
      BY <1>k, <2>i DEF DepFailed, TimestampRaises, KeepGoingNeverRaises, Requested, keepGoing
    <3> QED
      BY <1>b, <1>k, <3>1, <3>2 DEF Quits
  <2>9. ASSUME ReturnRunning PROVE jobsSeen /\ framesSeen /\ answer
    <3>1. Return("running") /\ Live' = Live /\ running' = running
      BY <2>9 DEF ReturnRunning, targetVars, jobVars, Live
    <3> HIDE DEF jobsSeen, framesSeen, answer
    <3> QED
      BY <2>2, <3>1 DEF Statuses
  <2>10. ASSUME QuestionRaises \/ NothingToRun \/ UpToDate PROVE jobsSeen /\ framesSeen /\ answer
    <3>1. /\ Return("error") \/ Return("none")
          /\ LoopDone /\ ~Top.wait
          /\ Live' = Live /\ running' = running
      BY <2>10 DEF QuestionRaises, NothingToRun, UpToDate, MustBuild, DepsSettled, targetVars,
         jobVars, Live
    <3> HIDE DEF jobsSeen, framesSeen, answer
    <3> QED
      BY <2>2, <2>d, <3>1 DEF Statuses
  <2>11. ASSUME ReturnDepError \/ NoRule PROVE jobsSeen /\ framesSeen /\ answer
    <3>1. /\ Return("error") /\ LoopDone /\ ~Top.wait /\ deps' = deps /\ running' = running
          /\ SetStatus(Top.t, "error")
      BY <2>11 DEF ReturnDepError, NoRule, MustBuild, DepsSettled, jobVars
    <3> HIDE DEF jobsSeen, framesSeen, answer
    <3>2. CASE KindOf[Top.t] = "source"
      <4>1. Live' = Live
        BY <3>1, <3>2 DEF SetStatus, Live
      <4> QED
        BY <2>2, <2>d, <3>1, <4>1 DEF Statuses
    <3>3. CASE KindOf[Top.t] # "source"
      <4>1. status'[Top.t] = "error" /\ \A t \in Target \ {Top.t} : status'[t] = status[t]
        BY <1>k, <2>0, <3>1, <3>3 DEF SetStatus
      <4> QED
        BY <2>0, <2>3, <3>1, <4>1 DEF Statuses
    <3> QED
      BY <3>2, <3>3
  <2>12. ASSUME StartJob PROVE jobsSeen /\ framesSeen /\ answer
    <3>1. LoopDone /\ ~Top.wait /\ deps' = deps /\ KindOf[Top.t] # "source"
      BY <2>12, TargetAssumption DEF StartJob, MayStart, MustBuild, DepsSettled
    <3>2. PICK s \in {"error", "updated", "running"} :
             /\ Return(s) /\ SetStatus(Top.t, s)
             /\ running' = IF s = "running" THEN running \cup {Top.t} ELSE running
      BY <2>12 DEF StartJob, StartThrows, StartReturns, StartSuspends
    <3>3. status'[Top.t] = s /\ \A t \in Target \ {Top.t} : status'[t] = status[t]
      BY <1>k, <2>0, <3>1, <3>2 DEF SetStatus
    <3> HIDE DEF jobsSeen, framesSeen, answer
    <3> QED
      BY <2>0, <2>3, <3>1, <3>2, <3>3 DEF Statuses
  <2> HIDE DEF jobsSeen, framesSeen, answer
  <2> QED
    BY <1>x, <2>4, <2>5, <2>6, <2>7, <2>8, <2>9, <2>10, <2>11, <2>12 DEF Evaluate
<1> HIDE DEF jobsSeen, framesSeen, answer
<1> QED
  BY <1>3, <1>x

(***************************************************************************)
(* The other steps keep both: a goal leaves make.goals when no job is left *)
(* on the way from it, and presto the main loop when no goal is left.      *)
(***************************************************************************)
LEMMA WorkStep ==
    ASSUME IInv, LeavingInv, GoalInv, WorkInv, KeepGoingNeverRaises, [Next]_vars
    PROVE  GoalInv' /\ WorkInv'
<1>k. /\ input' = input /\ keepGoing' = keepGoing /\ Requested' = Requested
      /\ TypeOK /\ StatusInv /\ RoundInv
      /\ pass \in [jobs : Nat, todo : SUBSET Target, any : BOOLEAN]
      /\ status \in [Target -> Statuses] /\ running \subseteq Target
  BY Kept DEF IInv, TypeOK, TargetTypeOK, JobTypeOK
<1>1. ASSUME pc' \notin {"eval", "start", "stop", "ok", "failed"}, ~Quits' => ~Quits,
             Live' = Live, running' \subseteq running, goals' = goals
      PROVE  WorkInv'
  BY <1>1 DEF WorkInv
<1>2. ASSUME pc' \in {"stop", "ok", "failed"}, running' = {} PROVE WorkInv'
  BY <1>2 DEF WorkInv
<1>3. ASSUME Quiet, UNCHANGED <<deps, goals, pass, pc, stack, ret, draining>>
      PROVE  GoalInv' /\ WorkInv'
  <2>1. Live' = Live /\ LookedAt' = LookedAt /\ Returned' = Returned /\ Quits' = Quits
    BY <1>k, <1>3 DEF Quiet, Live, LookedAt, Returned, Quits
  <2> QED
    BY <1>k, <1>3, <2>1 DEF Quiet, GoalInv, WorkInv
<1>4. CASE MainLoop
  <2>q. Quiet /\ Live' = Live /\ running' = running /\ deps' = deps
    <3>1. Quiet
      BY <1>4, QuietSteps
    <3>2. deps' = deps
      BY <1>4 DEF MainLoop, UpdateGoals, BeginPass, EndPass, Stop, GoalRunning,
         GoalDone, GoalFailedGoOn, GoalFailedExit, targetVars
    <3> QED
      BY <3>1, <3>2 DEF Quiet, Live
  <2>1. CASE UpdateGoals
    <3>1. /\ pc = "start" /\ goals' = AskedForBy(input) /\ pass' = pass /\ draining' = draining
          /\ pc' = (IF goals' = {} THEN "stop" ELSE "pass") /\ running' = {}
          /\ pass.todo \subseteq goals'
      BY <2>q, <2>1 DEF UpdateGoals, GoalInv, WorkInv, AskedForBy, dispatchVars
    <3> QED
      BY <1>k, <3>1 DEF GoalInv, WorkInv
  <2>2. CASE BeginPass
    <3>1. /\ pass' = [jobs |-> count, todo |-> goals, any |-> goals # {}]
          /\ pc' \in {"endpass", "goals"} /\ pc = "pass" /\ UNCHANGED <<goals, draining>>
      BY <2>2 DEF BeginPass, dispatchVars
    <3>2. pass'.todo = goals /\ (~pass'.any => goals = {})
      BY <3>1
    <3>3. ~Quits' => ~Quits
      BY <3>1 DEF Quits
    <3> QED
      BY <1>k, <1>1, <2>q, <3>1, <3>2, <3>3 DEF GoalInv
  <2>3. CASE EndPass
    <3>1. /\ pc = "endpass" /\ UNCHANGED <<goals, pass, draining>> /\ ~draining
          /\ pc' \in {"round", AfterPass} /\ ~Quits
      BY <2>3 DEF EndPass, loopVars, dispatchVars, LeavingInv, Quits
    <3>2. pc' \in {"round", "pass", "stop", "ok"} /\ (pc' \in {"stop", "ok"} => ~pass.any)
      BY <3>1 DEF AfterPass
    <3>3. pc' \in {"stop", "ok"} => running' = {}
      BY <2>q, <3>1, <3>2 DEF GoalInv, WorkInv
    <3>4. GoalInv'
      BY <1>k, <3>1, <3>2 DEF GoalInv
    <3> QED
      BY <1>1, <1>2, <2>q, <3>1, <3>2, <3>3, <3>4
  <2>4. CASE Stop
    <3>1. pc = "stop" /\ pc' = "failed" /\ UNCHANGED <<goals, pass, draining>>
      BY <2>4 DEF Stop, loopVars, dispatchVars
    <3> QED
      BY <1>k, <2>q, <3>1 DEF GoalInv, WorkInv
  <2>5. CASE GoalRunning
    <3>1. /\ pc = "eval" /\ ret.st = "running" /\ pc' \in {"goals", "endpass"}
          /\ UNCHANGED <<goals, pass, draining>>
      BY <2>5 DEF GoalRunning, GoalAnswered, AfterGoal, evalFrame, loopVars, dispatchVars
    <3>2. ~Quits' => ~Quits
      BY <3>1 DEF Quits
    <3>3. GoalInv'
      BY <1>k, <3>1 DEF GoalInv
    <3> QED
      BY <1>1, <2>q, <3>1, <3>2, <3>3
  <2>6. CASE GoalDone \/ GoalFailedGoOn
    <3>1. /\ pc = "eval" /\ stack = <<>> /\ Returned /\ ret.st # "running"
          /\ ret.st = "error" => keepGoing
          /\ pc' \in {"goals", "endpass"} /\ goals' = goals \ {ret.of}
          /\ UNCHANGED <<pass, draining>>
      BY <2>6 DEF GoalDone, GoalFailedGoOn, GoalAnswered, Returned, AfterGoal, FinishGoal,
         dispatchVars
    <3>2. ret.of \in goals \ pass.todo
      BY <3>1 DEF GoalInv, Outermost
    <3>3. GoalInv'
      BY <1>k, <3>1, <3>2 DEF GoalInv
    <3>4. ~Quits' => ~Quits
      BY <3>1 DEF Quits
    <3>5. ~Quits => \A z \in running : \E g \in goals \ {ret.of} : z \in Onward(Live, g)
      BY <3>1 DEF WorkInv
    <3>6. WorkInv'
      BY <2>q, <3>1, <3>4, <3>5 DEF WorkInv
    <3> QED
      BY <3>3, <3>6
  <2>7. CASE GoalFailedExit
    <3>1. /\ pc = "eval" /\ draining' = (count > 0)
          /\ pc' = (IF count > 0 THEN "round" ELSE "stop") /\ UNCHANGED <<goals, pass>>
      BY <2>7 DEF GoalFailedExit, GoalAnswered, ExitAfter, loopVars
    <3>2. GoalInv' /\ Quits'
      BY <1>k, <3>1 DEF GoalInv, Quits
    <3>3. ~(count > 0) => running' = {}
      BY <1>k, <2>q, NoneCounted
    <3> QED
      BY <3>1, <3>2, <3>3 DEF WorkInv
  <2> QED
    BY <1>4, <2>1, <2>2, <2>3, <2>4, <2>5, <2>6, <2>7 DEF MainLoop
<1>5. CASE Dispatch
  <2>d. /\ pc \in {"round", "resume", "wait"} /\ deps' = deps /\ goals' = goals /\ pass' = pass
    BY <1>5 DEF Dispatch, BeginRound, EndRound, WaitReturns, ResumeBusy, ResumeAdvances,
       ResumeReturns, ResumeThrowsGoOn, ResumeThrowsExit, Resume, targetVars, loopVars
  <2>g. ASSUME pc' \notin {"eval", "start"} PROVE GoalInv'
    BY <1>k, <2>d, <2>g DEF GoalInv
  <2>1. CASE BeginRound \/ WaitReturns \/ \E t \in Target : ResumeBusy(t) \/ ResumeAdvances(t)
    <3>1. Quiet /\ pc' \in {"round", "resume"} /\ draining' = draining
      BY <2>1, QuietSteps DEF BeginRound, WaitReturns, ResumeBusy, ResumeAdvances, Resume,
         JobAdvances, Quiet, dispatchVars
    <3>2. Live' = Live /\ running' = running /\ (~Quits' => ~Quits)
      BY <2>d, <3>1 DEF Quiet, Live, Quits
    <3> QED
      BY <1>1, <2>d, <2>g, <3>1, <3>2
  <2>2. CASE EndRound
    <3>1. /\ Quiet /\ draining' = draining /\ pc = "resume"
          /\ pc' \in {"wait", AfterDispatch}
      BY <2>2, QuietSteps DEF EndRound, dispatchVars
    <3>2. Live' = Live /\ running' = running /\ (pc' \notin {"stop", "ok"} /\ ~Quits' => ~Quits)
      BY <2>d, <3>1 DEF Quiet, Live, Quits
    <3>3. CASE ~draining /\ pc' = AfterPass
      <4>1. pc' \in {"pass", "stop", "ok"} /\ (pc' \in {"stop", "ok"} => ~pass.any) /\ ~Quits
        BY <3>1, <3>3 DEF AfterPass, Quits
      <4>2. pc' \in {"stop", "ok"} => running' = {}
        BY <3>1, <3>2, <4>1 DEF GoalInv, WorkInv
      <4> QED
        BY <1>1, <1>2, <2>d, <2>g, <3>2, <4>1, <4>2
    <3>4. CASE draining /\ pc' = "stop" /\ ~(count > 0)
      BY <1>k, <1>2, <2>g, <3>2, <3>4, NoneCounted
    <3>5. CASE pc' \in {"wait", "round"}
      BY <1>1, <2>d, <2>g, <3>2, <3>5
    <3> QED
      BY <3>1, <3>3, <3>4, <3>5 DEF AfterDispatch
  <2>3. ASSUME NEW t \in Target, ResumeReturns(t) \/ ResumeThrowsGoOn(t)
        PROVE  GoalInv' /\ WorkInv'
    <3>1. /\ pc = "resume" /\ pc' = pc /\ draining' = draining /\ running' = running \ {t}
          /\ t \in running /\ \E s \in {"updated", "error"} : SetStatus(t, s)
      BY <1>k, <2>3 DEF ResumeReturns, ResumeThrowsGoOn, Resume, JobReturns, JobThrows, RoundInv
    <3>2. status[t] = "running" /\ KindOf[t] # "source"
      BY <1>k, <3>1 DEF StatusInv
    <3>3. /\ status'[t] # "none" /\ \A u \in Target \ {t} : status'[u] = status[u]
      BY <1>k, <3>1, <3>2 DEF SetStatus
    <3>4. Live' = Live /\ (~Quits' => ~Quits)
      BY <2>d, <3>1, <3>2, <3>3 DEF Live, Quits
    <3> QED
      BY <1>1, <2>d, <2>g, <3>1, <3>4
  <2>4. ASSUME NEW t \in Target, ResumeThrowsExit(t)
        PROVE  GoalInv' /\ WorkInv'
    <3>1. draining' = (count' > 0) /\ pc' = (IF count' > 0 THEN "round" ELSE "stop")
      BY <2>4 DEF ResumeThrowsExit, ExitAfter
    <3>2. TypeOK' /\ StatusInv'
      BY TypeStep, StatusStep
    <3>3. ~(count' > 0) => running' = {}
      <4>1. IsFiniteSet(running') /\ (~(count' > 0) => Cardinality(running') = 0)
        BY <3>2, TargetAssumption, FS_Subset DEF TypeOK, JobTypeOK, StatusInv
      <4> QED
        BY <4>1, FS_EmptySet
    <3>4. GoalInv' /\ Quits'
      BY <2>g, <3>1 DEF Quits
    <3> QED
      BY <3>1, <3>3, <3>4 DEF WorkInv
  <2> QED
    BY <1>5, <2>1, <2>2, <2>3, <2>4 DEF Dispatch
<1>6. CASE Environment
  <2>1. CASE WaitSeesOutput
    <3>1. Quiet
      BY <1>6, QuietSteps
    <3>2. /\ pc = "wait" /\ pc' = "round" /\ UNCHANGED <<deps, goals, pass, draining>>
      BY <2>1 DEF WaitSeesOutput, targetVars, loopVars, dispatchVars
    <3>3. Live' = Live /\ running' = running /\ (~Quits' => ~Quits)
      BY <3>1, <3>2 DEF Quiet, Live, Quits
    <3>4. GoalInv'
      BY <1>k, <3>2 DEF GoalInv
    <3> QED
      BY <1>1, <3>2, <3>3, <3>4
  <2>2. ASSUME NEW t \in Target, ProcExit(t) \/ Edit(t) PROVE GoalInv' /\ WorkInv'
    <3>1. Quiet
      BY <1>6, QuietSteps
    <3> QED
      BY <1>3, <2>2, <3>1 DEF ProcExit, Edit, targetVars, loopVars, callVars, dispatchVars
  <2> QED
    BY <1>6, <2>1, <2>2 DEF Environment
<1>7. CASE UNCHANGED vars
  BY <1>3, <1>7, QuietSteps DEF vars, targetVars, loopVars, callVars, dispatchVars
<1> QED
  BY <1>4, <1>5, <1>6, <1>7, EvaluateGoal, EvaluateWork DEF Next, Presto, Terminated

(***************************************************************************)
(* No job and no process of one is left when presto exits.                 *)
(***************************************************************************)
THEOREM NothingOutlivesPresto ==
    ASSUME KeepGoingNeverRaises
    PROVE  Spec => []NoJobAtExit
<1>1. Init => GoalInv /\ WorkInv
  BY DEF Init, JobInit, GoalInv, WorkInv, AskedForBy
<1>2. IInv /\ LeavingInv /\ GoalInv /\ WorkInv /\ [Next]_vars => GoalInv' /\ WorkInv'
  BY WorkStep
<1>3. WorkInv /\ JobInv => NoJobAtExit
  BY DEF WorkInv, JobInv, NoJobAtExit, Exited
<1> QED
  BY <1>1, <1>2, <1>3, Leaving, JobInvariant, PTL DEF Spec
=============================================================================
