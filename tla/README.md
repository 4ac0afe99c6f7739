# A verification development for presto

presto is a `make` for Windows whose makefiles are Lua programs.  Its own code
is `make.cpp` (the program), `lmakelib.cpp` (the `make` library: paths, files,
directories, processes), `lua/mkinit.lua` (targets, the scheduler, jobs),
`md5.c` and `pipeex.c`; `luajit/` is the vendored interpreter.

This directory holds TLA+ modules that model what presto does with a command
line, a table of targets, a build, its jobs, their processes and output, an
interrupt, directories and digests; TLC configurations that check them on small
instances; and theorems that TLAPS checks for instances of any size.

## Inventory

### Target objects (`mkinit.lua` 85-155, 256-312, 564-602)

* State: the table `__target` by name; in each object `deps`, `command`,
  `status`, `dep_status`, `deps_newer`, and `exists` and `timestamp`, which the
  metatable of the base class looks up once and stores in the object.
* Operations: `target:new`, `target[name] = value`, `depends_on`,
  `check_for_cycle`, `phony_target`, `dir_target`, deriving a class.
* Hard: what `exists` and `timestamp` answer depends on how the object was made
  and on when it is first asked, while jobs write files; a name that no makefile
  defined gets a new object at every read, so nothing stored in it lasts;
  `check_for_cycle` goes by `self.name`, which a second assignment changes.
* Correct when: the graph is acyclic; the answers are those of the disk at the
  moment that matters; a status, once stored, is never lost.

### Scheduler (`mkinit.lua` 166-254, 315-374, 446-561)

* State: `make.goals`, `make.failure`, the locals of nested `bring_up_to_date`
  calls, of a turn of the main loop and of a turn of the dispatch loop.
* Operations: `update_goals` (main loop), `bring_up_to_date` (recursive),
  `dispatch` (resume every running job once, then wait), `make.exit`.
* Hard: every turn of the main loop evaluates the graph again from the goals;
  a call that meets a running dependency goes on with the others to fill the
  slots; `make.exit` runs a dispatch loop inside the dispatch loop; errors
  travel as status codes and as Lua errors, under `pcall`.
* Correct when: a command runs at most once, after everything below it; only
  what is stale is remade, and all of it on success; the exit status is right;
  `-k` skips exactly what depends on a failure; without `-k` nothing starts
  after one; presto exits, leaving no job behind.

### Jobs (`mkinit.lua` 315-428)

* State: `make.jobs.count`, `slots`, `running`, `pos`, `current`; a coroutine
  for each job.
* Operations: `make.jobs.start`, the resume in `dispatch`, `make.run`.
* Hard: three places update `count` and `running`; a command may throw, return
  or yield, at once or after any number of resumes.
* Correct when: the count is the number of running jobs and at most `-j N`.

### Processes and their output (`lmakelib.cpp` 970-1278, `pipeex.c`)

* State: `struct process`: handles, an overlapped read, 1024 bytes of buffer
  and of leftovers, the exit code.
* Operations: `spawn`, `flushio`, `exit_code`, `wait`.
* Hard: overlapped reads that complete later; a pipe that breaks before the
  process ends (an unbounded wait); a process that was never created, which
  yields exit code 0; more handles than `WaitForMultipleObjects` takes; line
  ends split over two reads; a line longer than the buffer.
* Correct when: every line is printed once and in order, the exit code is that
  of the process, and one silent child does not keep the others from progress.

### The program (`make.cpp`)

* State: `g_L`, the signal handlers, `Smain` (`status`, `quit`, `loaded_file`).
* Operations: `main`, `pmain`, `parse_commandline` (run twice), `docall`,
  `laction` and `lstop` (interrupts).
* Hard: an interrupt arrives between any two Lua instructions and becomes a Lua
  error, which the `pcall`s of the scheduler may take for a target's failure;
  the first pass over the command line runs before `mkinit.lua` has created
  `make.goals`.
* Correct when: an interrupt stops the build with a failing status; every
  switch has the effect that the usage text promises.

### Directories (`lmakelib.cpp` 919-958, `mkinit.lua` 588-602)

* State: the tree on disk; the recursion of each call of `make.dir.md`.
* Operations: `make.dir.md` (recursive), `make.dir.rd`, the command of a
  `dir_target`.
* Hard: commands of one build make directories side by side, each looking first
  and creating later; a relative path.
* Correct when: it returns only with the directory there, and raises only for a
  reason; the recursion ends.

### Digests (`md5.c`, `lmakelib.cpp` 788-812 and 1323-1332)

* State: `MD5_CTX`: a two-word bit count, a block that is being filled, the hash.
* Operations: `MD5Init`, `MD5Update`, `MD5Final`, `make.md5`, `make.file.md5`.
* Hard: the carry of the count, the second block of padding, a file read in
  pieces of which one may fail.
* Correct when: the digest is that of the bytes, however they came.

### Rest

`merge_tables` and the target list filters (`mkinit.lua` 41-83), and `make.path`
/ `make.file`, wrappers of Windows calls.  `tests.lua` asserts results of the
last group.

### How they interact

`pmain` runs the makefiles, which create target objects, and calls
`update_goals`.  That calls `bring_up_to_date` on goals, which call each other
along `deps` and call `make.jobs.start` at the bottom.  A job's coroutine calls
`make.run`, which spawns a process and yields its handle; `dispatch` resumes
the coroutines and blocks in `make.proc.wait` on the handles they yielded.
Shared state is `make.jobs`, the target objects and the file system, which the
processes and the user's editor change at any time.

## Modules

    TargetObjects <- Jobs <- Scheduler <- SchedulerProperties <- MCScheduler
                                               |              <- SchedulerProofs
                                               +-- implements Build
    TargetGraph <- MCTargetGraph, TargetGraphProofs
    OutputLines <- Proc <- ProcProperties <- MCProc, ProcProofs
                                |
                                +-- implements RunPromise
    Interrupt <- InterruptProperties <- MCInterrupt, InterruptProofs
    CommandLine <- CommandLineProperties <- MCCommandLine, CommandLineProofs
    DirTree <- MCDirTree, DirTreeProofs
    Md5 <- Md5Properties <- MCMd5, Md5Proofs
    Recursion <- SchedulerProofs, ProcProofs, CommandLineProofs, Md5Proofs

Each family looks at one part of presto through what the others promise it:
`Scheduler` sees a process as running or gone, which `Proc` shows of `make.run`;
`Scheduler` takes a graph with ranks, which `TargetGraph` shows; `Interrupt` takes
a build in which everything must be made and dependencies are one level deep, for
the statements between the `pcall`s are what it is about; `CommandLine` takes the build as one step with a
result.

### The build

`TargetObjects` - the fields of target objects (`status`, `deps`, `depFailed`,
`depsNewer`), the cached look-ups (`seenExists`, `seenTime`) and the disk.  A
name stands for an object of one of five kinds, which differ in what `exists`
and `timestamp` answer:

| kind    | made by                            | `exists`                     | `timestamp`               |
|---------|------------------------------------|------------------------------|---------------------------|
| file    | `target.X = ...`, `target:new{..}` | disk, cached                 | disk, cached              |
| source  | nobody (an undefined name)         | disk, new object each time   | disk                      |
| phony   | `phony_target`                     | false                        | 0                         |
| dir     | `dir_target`                       | true (a function, not called)| `make.beginning_of_time`  |
| derived | `class:new{..}` of a user's class  | false (asked of the class)   | raises (class has no name)|

The last two lines are what the code does, not what its comments say; see
Findings.

`Jobs` - `make.jobs` and the coroutines.  A command is a script of steps: a
call of `make.run` or a bare `coroutine.yield()`; it may throw at the start, at
any resume, or because its process fails.  `started` is a history variable.
Processes succeed (and have then written their target) or fail (and may have
written it).  The pipe is abstracted: a job sees that its process is gone at
some resume after it has ended.

`Scheduler` - the rest.  `pc` is the place of presto's thread, `stack` the
nested `bring_up_to_date` calls with their locals (`must_build`, `must_wait`,
the dependencies still to visit), `ret` what the callee returned, `pass` and
`round` the locals of one turn of the main and the dispatch loop, `draining`
whether the dispatch loop is the one inside `make.exit`.  One action is one
step between two calls or loop heads: `VisitDep` is a call, `DepUpdated`,
`DepUnchanged`, `DepRunning`, `DepPruned`, `DepFailed` what the caller does
with the answer, `StartJob`, `NoRule`, `UpToDate`, ... the ways out of
`bring_up_to_date`, `ResumeX` what a resumed job does.  Every `pairs` loop
visits its keys in any order.  `Edit` and `ProcExit` interleave with everything.

`Build` - what a build is, whoever schedules it: a plan (graph, stale targets,
which of them can be made, how many at once, whether to keep going), a state of
each target, a result.  Targets begin after those below them, end one by one,
are given up below a failure; the result is known when nothing is being made.
It knows no loops, no call stack, no coroutines and no exit status in transit.

`SchedulerProperties` - the properties.  `PlanOf[input]` is defined from the
input alone, as closures over the graph and the ages of files, with no
reference to how the scheduler goes about it.  `IsABuild` maps the status of a
target to its state in `Build` and the exit to the result: every step of the
main loop, the nested calls, `dispatch` and `make.exit` is a step of `Build` or
changes nothing there.  It says that only stale targets that are needed are
remade, that success is complete, that failure has a cause, and that `-q` runs
nothing and answers truly; those are not stated again.  Stated besides:
what `Build` leaves open (`-k` makes all that can be made, slots are not idle,
nothing below a started target is unsettled, the files are in order on success,
nothing starts after a failure) and what holds while sources are edited.

`MCScheduler` - nine names, one to three of each kind, four graphs over them,
and the sets of inputs for TLC.  It also checks (`PlanAssumption`) that the plan
made of each input is one in the sense of `Build`, and that the builds without
edits meet the hypothesis of the theorems about them.  `SchedulerProofs` - the
theorems about jobs, and about what a build comes to.

`TargetGraph` - how the graph comes to be, before the build.  `table` is
`__target`, `nameOf[o]` an object's own `name`, `deps[o]` its `deps`.  An action
is one call a makefile makes: `New` (`target:new{}`), `Lookup` (reading a name
that is not defined, and keeping the object), `Assign`, `Define` (`phony_target`
and `dir_target`), and `DependsOn` for one element of the list of `depends_on`, whose
first step, entering the object in the table, is part of the action.  A makefile
may catch an error and go on, so a refusal is a step too; `accepted` and `call`
record what was taken and refused.  Calls that fail and leave everything as it
was (assigning a taken name, an unnamed object as a dependency) are left out.
`Finds` says when `check_for_cycle` raises: it meets an object that knows itself
by the name it looks for, or runs round a cycle until the stack overflows.  A
set is reachable when every closed set has it, a form that needs no recursion
and can be proved about.  `NamedOnceSpec` is a makefile that never assigns an
object to a second name.  `TargetGraphProofs` has its theorems.

### Processes

`OutputLines` - `make_proc_flushio_helper`: a chunk of output is cut into lines,
by a loop over its characters; and what the lines of a whole text are, said
without the loop.  The first section of `ProcProofs` compares the two.

`Proc` - `struct process` (`handle`, `bWaiting`, `exitCode`, `leftovers`), the
child (`child`, `code`, `out`, `sent`), and what the system holds between them:
the pipe, one overlapped read (`io`), its event, its buffer.  A step of presto
is one system call with the C code behind it (`PollPending`, `PollData`,
`PollBroken` for `GetOverlappedResult`, `ReadData`, `ReadPending`, `ReadBroken`
for `ReadFile`, `Finish` for the wait on a process whose output is closed); the
children write, close and end between any two.  Above it are `make.run`
and the loop of `dispatch` with a slot for every job.  A process that cannot be
created has no handle, nobody holds its output open, and its exit code reads 0.

`RunPromise` - what `make.run` promises of one command: output is printed in
order, none of it before it was written and all of it before the result; the
result is that of the exit code.  `KeepsPromise` maps `Proc` to it.

### Interrupts

`Interrupt` - one statement is one step, in `update_goals_p`,
`bring_up_to_date` of a goal and of its dependencies, `make.jobs.start`,
`make.run`, `dispatch` and `make.exit`; `depth` counts the `pcall`s of
`make.exit` around the statement, `cur # goal` tells the call for a dependency.
`laction(s)` sets the hook and the handler of its own signal back, for each of
the signals of `setsignal`; the hook is one, and clears itself when it fires, so
with two kinds of signal it may fire twice (`hits`).  `RaiseInX` is the hook's
error, taken by the innermost handler around the statement: `coroutine.resume`
(`RaiseInNewCommand`, `RaiseInCommand`), the `pcall` of the loop over a goal's
dependencies (`RaiseInDep`, `mkinit.lua` 186), that of `update_goals_p`
(`RaiseInGoal`, 495), of `make.exit` (`RaiseInDispatch`, 554) or of `update_goals`
(`RaiseInMain`, 457).  Between the signal and the error any number of statements
may pass.  The point of the single statements: `running[]` and `count` are
updated one after the other.  `job` keeps the jobs by their number, not their
target: with `-k` an interrupted start leaves no status, and a dependency may be
started again.

### Command line

`CommandLine` - `main`, `pmain` and both passes of `parse_commandline`.  A word
is a short sequence of characters; `i` and `sw` are its place in the line and in
a bundle of switches.  `ran` is the history of the pieces of Lua code that ran,
each with its place.  Code may fail, or set a variable.  `CommandLineProperties`
says what each word means by the words before it, without the two passes, and
compares.  `-C` always raises (`ChangeDir`), as in the code: it pushes its
argument on a stack that is not empty, and `make_dir_cd` reads the bottom.

### Directories and digests

`DirTree` - `__make_dir_md` as a level in the path that goes down (`Descend`)
until a directory is there and up again (`Create`), for several callers, with
removals meanwhile.  `raced` and `lost` are histories: who was on the way when
another made, or anybody removed, a part of its path.

`Md5` - `MD5Update` byte by byte, `MD5Final`, and the loops of `make.md5` and
`make.file.md5`.  A transformed block stands for itself, so the digest is the
sequence of blocks.

Operators commented `mutant` are plausible wrong versions of the definition
that follows them: a missing conjunct, a comparison turned round, a reset
forgotten.  Nothing uses them.  `PROJECT.json` pairs each with a property: put
in place of the right definition, it makes TLC report that property violated.

## Runs

`tlc -config <cfg> <module>`; each finishes within four minutes.

| run (`.cfg`) | module | asks |
|-----|------|------|
| `Builds` | `MCScheduler` | three families of inputs.  Two libraries over one generated file below an application, `-j 1` and `-j 2`, with and without `-B` and `-k`, files missing, older, newer, of equal age, commands that fail or yield without a process.  A phony goal, a missing directory, a header with dependencies but no command, a source that may be missing, an empty goal list, `-j -1`.  `-q` over many combinations of ages.  All are builds in the sense of `Build`. |
| `EditedBuilds` | `MCScheduler` | the source is saved at any moment of a parallel build, commands may fail, one target's time stamp raises.  No command runs twice, no job outlives presto, none starts after a failure, presto exits. |
| `NamedOnce` | `MCTargetGraph` | every sequence of definitions and `depends_on` calls over three names and four objects, no object named twice.  The graph has no cycle; a refused dependency would have closed one; an accepted one is kept. |
| `ProcRun` | `MCProc` | two processes with all cuts of their output into writes and reads.  Nothing is lost, doubled or reordered; lines come whole; exit codes are right; presto never sleeps through an event; jobs finish; the promise of `make.run` is kept. |
| `Interrupts` | `MCInterrupt` | two kinds of signal, each once or twice, at any statement of a build of two goals with a common dependency, or of one goal with two.  Exit status, orphans, the job count, and whether presto ends. |
| `CommandLines` | `MCCommandLine` | every line of up to three words of fourteen kinds, and some longer ones.  What runs, in which order, with which switches and variables, and the exit status. |
| `Digest` | `MCMd5` | messages of every length over several blocks and across the carry, as a string and as a file. |
| `Directories` | `MCDirTree` | three callers, two of them below a common directory, a relative path, a file in the way, two removals. |
| `DirectoryTarget`, `PartialOutput` | `MCScheduler` | one comment each, which the code contradicts (Findings). |
| `SecondName` | `MCTargetGraph` | the same for the table of targets. |
| `UsageText` | `MCCommandLine` | the same for the usage text, on a line for each form that it promises: `target`, `-C DIRECTORY`, `-j`, `-j -k`.  TLC reports the first; with `-continue`, a violation for each line. |

### Bounds, and why they are enough

* Builds have at most six targets and four levels, with a target shared by two
  dependents (what pruning, caching and repeated evaluation are about), a
  goal that is also below another goal, and dependencies of every kind.
* Slots: 1 (the loops are left at once), 2 and 3 (a slot is free while others
  run; all are taken), -1 (the tests are always true).
* Ages: missing, and two or three ages, so that older, equal and newer all
  occur between neighbours.  Stamps are relative to presto's start; a file
  written during the build gets the next positive stamp, so two files written
  in the build differ.  Equal stamps occur among the files of earlier builds.
* `Editable` files are saved at most once each; processes print at any time
  (`WaitSeesOutput`), as often as they like.
* The inputs are states that makefiles can produce: the graph is acyclic and
  an undefined name has no dependencies and no command (`InputAssumption`).
  Goals come from makefiles or `-e`.
* Three names and four objects in `NamedOnce`: a cycle through two others, a
  name with two objects, an edge that is closed after its end is defined.  The
  theorems drop the bound.  Names and objects are interchangeable, so both are
  symmetry sets.  The names of methods (`new`, `depends_on`), which a makefile
  cannot assign, are left out.
* `ProcRun`: reads of at most two characters, a pipe of two, and lines shorter
  than `Room = 3`, so that every line end is cut every way, the pipe fills, and
  a line fills `leftovers` but for its end.  The texts hold no NUL, behind which
  the helper drops a chunk, and no line that is too long, for which the code is
  undefined (`TextAssumption`).  A limit of 3 handles is exceeded by two
  processes as 64 is by 33; a limit of 64 is not.
* `Interrupts`: a dependency of two goals is met running, updated and failed; a
  goal with two dependencies has one pruned, or running, when the other one is
  visited.  One slot or two: every loop is left early or run to its end.  Two
  kinds of signal: the hook fires twice, or is set twice before it fires; a second
  signal of a kind ends presto at once.  The theorems drop the bounds.
* `CommandLines`: three words hold a switch, its argument and what is behind it;
  the longer lines hold code between two assignments of one variable and two
  `-j`.
* `Digest`: blocks of 4 bytes of 2 bits, counter words of 16: a message of 8
  bytes carries; `PadTo` leaves both kinds of padding.  Reads of 3 bytes make
  files that end with a full and with a short read.
* `Directories`: two removals undo one look and one creation.

### Fairness

* `EditedBuilds` checks `Exits` under `FairSpec`: weak fairness of `Presto`, for
  presto is one thread that blocks only in `make.proc.wait`, where no action of
  `Presto` is enabled until a process it waits for is gone; and weak fairness of
  each `ProcExit(t)`: every process a command spawns ends by itself.  That is an
  assumption on the commands, not on presto: no timeout in the code ends a
  process.  Output, edits and the outcome of a process are not fair.
* `ProcRun` checks `JobsFinish` with `Presto` fair and with children that go on
  writing and close their output at last.  That they end as well is not assumed:
  a process that closes its output and lives on holds presto up in `flushio`
  for good (1196), which `JobsFinish` states as its one exception.
* `Interrupts` checks `Exits` with `Presto` and the ends of processes fair.  The
  signals are not, and the hook is not: compiled code looks at it when it likes.
* `Directories` checks `CallsReturn` with each caller fair.

All other properties are checked without fairness.

## Theorems

`SchedulerProofs` proves, for every finite set of targets, kinds, ranks,
scripts, inputs and number of slots (`TargetAssumption`, `JobAssumption`,
`InputAssumption`):

* `TypeCorrect`: `Spec => []TypeOK`, with `count \in Nat`;
* `JobsAccounted`: `Spec => []JobAccounting`: `running` are the targets with
  status running, `count` is their number, and it never exceeds `-j N`;
* `CommandsRunOnce`: `Spec => []NeverStartedTwice`.

None of these is inductive.  They follow from `Invariant`, `Spec => []IInv`:

* `StatusInv` ties `running`, `count` and `started` to `status`.  A resumed
  job must be in `running` for `count - 1` to be right; that is
* `RoundInv`: the jobs still to resume in this turn are running, and none joined
  since the turn began.  Both rest on
* `StackInv`: each nested call is for a dependency of its caller's target.  The
  ranks of an acyclic graph then make all targets on the stack different, so
  the callee that starts a command or fails never changes the status of one of
  its callers: they still have none when their turn comes.  This is what
  keeps a command from running twice.
* `SlotInv`: while presto looks for work, a slot is free or every loop on the
  stack is being given up.  When `make.jobs.start` takes the last slot, the
  test of line 215 empties the caller's loop (`Top.todo = {}`), which then can
  only answer "running" in turn; lines 522, 526 and 368 keep the main loop from
  evaluating again while the slots are full.  Hence `count <= Capacity`.

Each is kept by every action (`TypeStep`, `StatusStep`, `StackStep`,
`RoundStep`, `SlotStep`), and the invariant holds initially (`InvariantInit`).

`SchedulerProofs` further proves what the build comes to, for any graph, ages, flags, number
of slots and set of commands that fail.  Without further hypothesis:

* `FailureIsFinal`: `Spec => NoStartAfterFailure`, by `LeavingInv`: without `-k`,
  once a target failed, either the error is what the innermost call returns or
  presto is in `make.exit`, whose loop starts nothing.

Under `KeepGoingNeverRaises`, that with `-k` no derived target is asked for, and
whatever is edited meanwhile:

* `NothingOutlivesPresto`: `Spec => []NoJobAtExit`.  Without the hypothesis it is
  false: with `-k`, three slots and a derived target TLC finds the job that is
  left (see Findings).

Under `Undisturbed`, that nobody edits the sources and no derived target is
asked for (its time stamp raises, and then `bring_up_to_date` answers "error"
without looking at what it has started):

* `DepsComeFirst`: `Spec => []DepsFirst`, through the whole graph below;
* `KeepGoingCompletes`: `Spec => []KeepGoingIsComplete`;
* `SuccessIsFresh`: `Spec => []SuccessLeavesFresh`;
* `NoSlotIdles`: `Spec => []NoIdleSlot`;
* `BuildRefined`: `Spec => IsABuild`, the refinement of `Build`.

These compare presto with the plan for its input, which a source that is saved
meanwhile makes obsolete.

What is needed is that a status, once it is there, says something about all of
the graph below it that stays true.  `Made`, `Decided`, `Failing` and `Broken`
are the four things it may say; none is ever undone (`TimeGoesBy`), and each
climbs from the dependencies to the target (`MadeUpwards`, `DecidedUpwards`,
`BrokenUpwards`).  With them the invariant, `BuildInv`, is

* `FileInv`: until its command is started a file is what it was at the start,
  and so is what was cached of it; so what presto compares are the ages that
  the plan is made of;
* `StartedInv`: a started command is one of the plan, and everything below it
  is made; `ErrorInv`: a failed target has a failed command or one without rule
  from it downwards, and with `-k` everything below it is decided;
* `PruneInv`: a dependency is taken out of `deps` only when it is decided, and
  it is remembered (`dep_status`) that it failed;
* `AnswerInv`: what `bring_up_to_date` returns is true of the target;
* `CallInv`: each call on the stack has heeded every dependency that it is done
  with: made, and if stale or newer, `must_build` set; otherwise it waits.  It is
  stated for all frames at once (`Frames`), so that a step on the top frame need
  not be followed through the callers;
* `LoopInv`: a goal leaves `make.goals` only when it is decided, and then every
  job below it is over; presto stops for a reason.

Each is kept by every action (`FileStep`, `StartedStep`, ... `LoopStep`), given all
of them.  `SuccessIsFresh` adds `FreshInv`: a file that a command of this build
has written is newer than what is below it; with `JobInv`, that only a running job
has a process that may still write.  `NoSlotIdles` adds `EvalIdle` and
`LoopIdle`: as long as the count is what it was at the top of the main loop and
slots are free, everything looked at in this pass is `Stuck`: each command from
it downwards that was not started waits for a running job or can never be
started.  So when presto goes on to `make.proc.wait` no target of any goal is
ready.

None of this is of use to `NothingOutlivesPresto`: when a source is saved, or a
time stamp raises, a goal may be dropped whose plan was not carried out.  What
stays true is about the graph that presto still looks at: `Live` has the
dependencies of the targets without a status.  `WorkInv` says that from some
goal that is left this graph leads to each running job, and that a call of
`bring_up_to_date` that does not wait has found no job but below the dependencies
that it has yet to visit, or is looking at; `GoalInv`, that the outermost call
is for one of the goals left.  A target that gets a status is no longer looked
at, and a dependency that is pruned is gone from the graph; each time, the call
has found no job that way (`CutOff`), and its callers still see it (`Chain`,
`CutFrames`).  So a goal is dropped when no job is left on the way from it, and
the main loop ends when there is no goal.  Without `-k` an error ends this
(`Quits`): from then on it is `make.exit` that counts the jobs.

The plan is a closure, computed by a recursive function.  `Recursion` has the
induction for it: that a set of numbers has a least element (by the
well-foundedness of the strict subsets of an interval), hence induction for a
*set* of numbers in place of a predicate, and the existence of functions that
iterate others.  From it, `ClosureLeast` and `ClosureContains`: the closure is
the least set that contains the seeds and is closed, since as many
stages as there are targets reach everything.  Nothing else of the proofs sees
the recursion.

`TargetGraphProofs` proves, for all sets of names and objects
(`GraphAssumption`), under `NamedOnceSpec`: `GraphTyped` (`TypeOK`),
`GraphAcyclic` (`Acyclic`), `RefusalsJustified` (`RefusalJustified`) and
`DependenciesAreKept` (`DependenciesKept`).

They follow from `GraphInv`.  It adds that a target in the table has the name it
is stored under (`NamesAgree`), so that the search by `object.name` and the walk
by table name see the same graph; that an object outside the table under its
name brings no dependencies in (`LooseEnds`), so that only `depends_on` changes
the graph; and that the graph is part of what was accepted (`GraphAccepted`).
An edge from `x` to `m` is safe (`AddEdge`) because the search from `m` not
finding `x` yields a closed set `S` that holds `m` and not `x`; where a closed
set `T` showed that `n` was on no cycle, `S \cap T` or `S \cup T` shows it
in the new graph.  When `m` is not defined there is no search, and `S` is `{m}`.
`InputAssumption` of the scheduler takes ranks for granted that decrease along
dependencies.  `GraphHasRanks`: with finitely many names there are some.  The rank
of a target is the number of names that can be reached from it; what it
depends on reaches no more, and not the target itself (`ReachesLess`).

`InterruptProofs` proves, for any builds whose dependencies are one level deep,
any numbers of slots and any signals (`InterruptAssumption`), all safety
properties of `Interrupts`: `InterruptTyped`, `InterruptedFails`,
`CountedAlmost`, `NoOrphans`, `StartsNothing`.  The inductive invariant has a part
for each thing that an error at the wrong place could spoil:

* `HitInv`: since an error was raised it is noted in `make.failure`, or on its
  way: in `ok`, the status or the returned value up to the statement that reads
  it, in a goal that lost a dependency and is still to be reported, below a
  `pcall` of `make.exit` (`depth > 0`), or past the main loop.  With `DepthInv`
  (those `pcall`s stand around dispatch only) this is `InterruptFails`, and
  `StartsNothing`: without `-k` none of these leads to `make.run`.
* `PrunedInv`: a goal that lost a dependency is never taken for one that was
  built.  Its command does not run, save for a goal whose own start was cut short,
  and that one is no goal any more.
* `CountOffByHits` itself: the count agrees with the table of running jobs but
  for the statement between two updates; each error shifts it by at most one.  For
  the statements to change both by one, a job that is put on must not be there
  and one that is taken off must be (`RoundInv`).
* `JobInv`: before the first error every process has a job that runs
  (`AliveInv`), every job a target that a goal still needs (`NeedInv`), and no
  goal is dropped with a dependency unsettled (`DepsInv`), so that the main loop
  cannot end by an empty goal list, nor `make.exit` by a count of zero, while a
  process lives.

`ProcProofs` proves, for any processes, texts, buffer and pipe sizes
(`ProcAssumption`), all properties of `Proc` but its liveness: `ProcTyped`,
`ExitCodesTrue`, `NoWakeupLost`, `NothingLost`, `LinesComeWhole`,
`LeftoversStayIn` and the refinement `RunKeepsPromise`.  The texts are any in
which no stretch without a carriage return fills the room (`TextAssumption`);
only `LeftoversStayIn` needs that.

The first three follow from `IInv`.  `ReadInv` says that a pending read leaves
its event unset, the pipe empty and the output open, that a completed or broken
one has set the event, and that a job is waited for only with a read
outstanding; `HandleInv` that a handle is null just for a process that was never
created; `RoundInv` that a job is looked at once a round and runs while it is
looked at.  About the output the invariant says besides:

* `Delivered`: what was written is what presto has taken (`Consumed`), then the
  buffer, then the pipe; `OpenInv`: an output that `flushio` has seen closed has
  nothing on its way any more, and a finished job nothing left over.
* `ShownInv`: the lines printed and the leftovers are the text taken, but for
  line ends; `LeftInv`: the leftovers are an end of it without carriage return;
  `LineInv`: the lines printed so far are those that one cut of all the text
  taken gives, up to line ends that two reads tore apart (`Agrees`).

To these a step is one of four things (`Aside`, a write, `Fed`, the end of a
job), so that the actions are gone through only once.  What a `Fed` step does
is a lemma about `Cut`: cutting a text and then a chunk
compares with cutting both in one piece (`CutAgrees`), which finds the
lines that `LinesOf` says the text has (`LinesFound`, `LinesAtEnd`).

`DirTreeProofs` proves, for any callers, paths and trees (`DirAssumption`):
`TreeTyped` (with every directory's parent there), `SuccessIsThere`,
`FailuresHaveCause` and `OverflowsHaveCause`.  `CallInv` says what a call knows
on its way unless it was raced or lost something: on the way down all the parts
below are missing, on the way up so are those still to make, and the one above is
there.  That a call which overflowed finds no part of its path made by others
is `CreateStep`: the maker's parent directory would have to be part of the path.

`CommandLineProofs` proves, for any lines of any words over any alphabet
(`LineAssumption`), all properties of `CommandLines`: `MistakesRunNothing`,
`SwitchesComeFirst`, `CodeRunsInOrder`, `AssignmentsWin` and `SuccessIsHonest`.
The properties give each word a role by the words before it; the two
passes know only `i` and what is left of a bundle.  The inductive invariant
`Inv` (`Invariance`) ties the two together and says what is done so far:

* `PlaceInv`: a pass stands where the roles say that a word, or a letter of a
  bundle, is due (`PlaceAt`), so an argument is never read as a switch, however
  it looks, nor anything behind `--`;
* `GoodInv`: the words passed are no mistakes, and once the first pass is over
  no word is;
* `FlagInv`: the flags are those of the letters read; from the end of the first
  pass they are those of the line, and the second sets none that is not there;
* `JobInv`: the number of slots is that of the last `-j` read; in the second
  pass, until it meets a `-j`, still that of the first;
* `CodeInv`: the setup code has run first, and then what the words passed ask
  for (`CodeTo`), whole and in order;
* `EnvInv`: each variable assigned by a word passed has the value of the last
  such word, unless code behind that word has set it;
* `EndInv`: what the last steps of `pmain` rest on, among them that a success
  has built or was asked to quit.

What a step adds to each is one lemma about the words alone: between two places
the line asks for nothing but what stands there (`Passes`, and `Behind` for an
argument at hand); `Bad`, `FlagsTo`, `JobsTo`, `CodeTo` and `VariablesHold` then
follow.

`Md5Proofs` proves, for every size of block, byte, word and read
(`Md5Assumption`) and every message whose length a word holds: `NothingLost`
(`ContextHolds`) and `DigestIsRight` (`DigestRight`).  The invariant, `MdInv`,
says that the context holds the message read so far (`HoldsContext`): the blocks
and the filled part of `in` are its bytes, and the count is that of its bits.
`PutHolds` keeps the first by one byte, `LoopHolds` by a whole update;
`CountAdds` keeps the second, with the carry out of the low word, and
that the high word never wraps is where the bound on the length is needed.
`PlaceCounted` says that the place in the block, which `MD5Update` computes from
the low word alone, is the one where the bytes have come to: the word's
modulus is a whole number of blocks of bits, so the carry takes away only whole
blocks.  At the end, `PaddingIs`: the length that `MD5Final` pads with is the
only one that fits, and `FinalIs`: the blocks are then the padded message.

Recursive functions can thus be reasoned about, with induction over sets of
numbers or of sequences (`Induction`, `AppendInduction`) in place of predicates:
the library's own induction theorems take an operator, which the provers cannot
instantiate.

Only model-checked is liveness under fairness (`Exits` of the build and of the
interrupted one, `JobsFinish`, `CallsReturn`), which is beyond the prover.  Every
safety property of a run whose outcome is to hold is a theorem, some of them
under the hypotheses named above.

## Findings

Places where the code does something else than a comment or the usage text
says; `PROJECT.json` quotes both sides.

* A directory target's existence test is stored where a value is expected, so a
  missing directory is never created (`DirectoryTarget`).
* The clean-up calls `make.file.exist`, which does not exist; a partial output
  stays and looks up to date to the next run (`PartialOutput`).
* Assigning an object to a second name renames it, and a cycle through its
  first name is accepted (`SecondName`).
* A target on the command line ends presto in the first pass, before
  `make.goals` exists; the usage text promises "[target] ..." (`UsageText`).
* `-C DIRECTORY` always raises: `make_dir_cd` reads the bottom of the stack, not
  the argument.  The usage text promises "Change to DIRECTORY before doing
  anything." (`UsageText`).
* `-j` always takes an argument: as the last word it ends presto with the usage
  text, and it takes the switch behind it for its number, so that `-j -k` keeps
  nothing going.  The usage text promises "-j [N]" (`UsageText`).

More is modelled as it is, without a run of its own, for the passing properties
say it in so many words or no line promises otherwise:

* `-q` raises on any target that must be built; a phony goal is always one, so
  it fails also over up-to-date files (234).
* `shouldwait` is set and never read: the dispatcher waits for processes while a
  job that yielded directly has work to do (372).
* Two reads of an undefined name give two objects; what the second one depends
  on is not known to the target that is built (136; `DependenciesKept` is
  stated for names with one object).
* An object of a derived class looks `exists` up on its class, and is remade on
  every run (103).  With `-k`, one with a running dependency and then one that
  is up to date raises before it reports that it waits, and presto may exit
  with that job running; the runs about jobs at exit leave `-k` out for it.
* `phony_target` tests a global that does not exist (577), so it raises for
  every name in use, also a phony target's.
* A source saved while presto runs may leave dependents older than it;
  `SuccessLeavesFresh` is checked where nobody edits.
* An interrupt between `running[...] = nil` and `count - 1` below `make.exit`
  leaves a count that no job will bring to zero, and dispatch turns without end;
  with `-k`, one between the insertion and `count + 1` leaves a job that is never
  dispatched and a main loop that turns beside it.  `Exits` of
  `InterruptProperties` states both, and that there is nothing else.
* With `-k` an interrupt in the start of a dependency is taken for its failure by
  the goal that visits it (186), but leaves it without a status: another goal
  may start the same command again, beside the first.  The exit status still is
  that of a failure (`InterruptFails`).
* A process that cannot be created has exit code 0, so `make.run`, which is to
  "throw error if command failed" (424), throws none, and the target counts as
  updated.  `ExitCodeTrue` names the case.
* `make.proc.wait` "will not return until one of the specified processes has
  either finished, or has written more output" (`lmakelib.cpp` 1237-1238); with
  more than 32 jobs `WaitForMultipleObjects` is given more handles than it takes
  and fails at once, and `wait` returns.  presto then polls without sleeping, and
  the jobs still finish (`JobsFinish`).
* A line feed whose carriage return ended a read is printed at the head of the
  next line (`LinesWhole` names the case).
* `make.dir.md` with a relative path of which nothing exists recurses until the
  stack overflows; two callers of which one makes a directory between the
  other's look and its creation make the other one fail.
* `-j` reads its number like `atoi`, with a sign and up to the first other
  character; no digit at all counts as 0, which means 1024 slots.  In the second
  pass each `-j` is set again in its turn.
* A file whose reading fails has the digest of the part that was read.

## Not modelled

* Makefile execution beyond the calls in `TargetGraph`: the user's Lua code, and
  classes of targets except for what the kind derived says.  Commands are
  scripts of steps; what they print is left out of `Scheduler`, like every
  message of presto.
* The environment block that `spawn` builds, and errors of `CloseHandle` and
  its like, which leave nothing behind but a raised error.  `wait` with an empty
  list is undefined behaviour (`&handles[0]` of an empty vector) that fails at
  once in a release build; it is modelled as returning at once.
* Interrupts of deeper dependencies, of targets that are up to date and of
  commands that yield without a process.  A dependency of a dependency has one
  more `pcall` of the same loop (186) around it, which passes the failure on as the
  first one does.
* `merge_tables` and the list filters: pure functions, and what they are to do
  with nested tables is written nowhere.
* `make.path` and `make.file` convert names and call Windows; they keep no state.
* `tests.lua` is a script of assertions.
* `luajit/`, nine tenths of the repository's lines, is the vendored interpreter;
  coroutines, `pcall` and metatables are taken as the language defines them.
* The arithmetic of the MD5 transform.

## Plan

1. (done) `TargetObjects`, `Jobs`, `Scheduler`, `TargetGraph`, their runs and
   theorems.
2. (done) `Proc`, `Interrupt`, `CommandLine`, `DirTree`, `Md5`; the abstract
   `Build` and `RunPromise` and the refinements.
3. (done) Proofs of the jobs, the build and its refinement, the graph and its
   ranks, the processes with their output and its refinement, interrupts, the
   command line, directories, digests.
4. Left: an interrupt of a build of any depth, as one model with the scheduler;
   the value of a digest, which needs the transform.
