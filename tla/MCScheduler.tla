----------------------------- MODULE MCScheduler -----------------------------
(***************************************************************************)
(* Small builds for TLC.  All share the names below; a run uses those that *)
(* its goals reach.  Ages on disk are relative to presto's start.          *)
(***************************************************************************)
EXTENDS SchedulerProperties, TLC

CONSTANTS app, lib, obj, gen, src, hdr, all, out, tool

MCTarget == {app, lib, obj, gen, src, hdr, all, out, tool}
MCKind ==
    [t \in MCTarget |-> CASE t = src -> "source" [] t = all -> "phony"
                          [] t = out -> "dir" [] t = tool -> "derived"
                          [] OTHER -> "file"]
MCRecipe == MCTarget \ {src, hdr}   \* hdr got its dependencies, but no command
MCRank ==
    [t \in MCTarget |-> CASE t \in {src, out} -> 0 [] t = gen -> 1
                          [] t \in {lib, obj, tool, hdr} -> 2 [] t = app -> 3
                          [] OTHER -> 4]
MCBeginningOfTime == -9

\* The library's command yields without a handle after its process.
MCScript ==
    [t \in MCTarget |-> CASE t = lib -> <<"run", "yield">>
                          [] t \in {app, obj, gen, tool} -> <<"run">>
                          [] OTHER -> <<>>]

Graph(g) == [t \in MCTarget |-> IF t \in DOMAIN g THEN g[t] ELSE {}]
Files(ages) == [t \in MCTarget |-> IF t \in DOMAIN ages THEN ages[t] ELSE -3]
Flag(b, k, q) == [alwaysMake |-> b, keepGoing |-> k, question |-> q]

Plain == Flag(FALSE, FALSE, FALSE)
Ages(t, ages) == {t :> a : a \in ages}
Both(F, G) == {f @@ g : f \in F, g \in G}

-----------------------------------------------------------------------------
\* Diamond: two libraries over one generated file, an application over both.
Diamond == Graph((app :> {lib, obj}) @@ (lib :> {gen}) @@ (obj :> {gen, src})
                 @@ (gen :> {src}))
DiamondInputs ==
    [flags : {Flag(b, k, FALSE) : b \in BOOLEAN, k \in BOOLEAN},
     slots : {1, 2}, goals : {{app}}, default : {{app}}, deps : {Diamond},
     disk : {Files(f) : f \in Both(Both(Ages(lib, {-1, 0}), Ages(obj, {-1, -3})),
                                   Both(Ages(gen, {-2, -3}), Ages(src, {-2})))}]

-----------------------------------------------------------------------------
\* Project: a phony goal over an application, a generated file and a
\* directory; a header without a command that depends on a source file.
Project == Graph((all :> {app, gen, out}) @@ (app :> {lib, hdr}) @@ (lib :> {gen})
                 @@ (gen :> {src, out}) @@ (hdr :> {src}))
ProjectInputs ==
    [flags : {Flag(b, k, FALSE) : b \in BOOLEAN, k \in BOOLEAN},
     slots : {-1, 2}, goals : {{all}, {app, gen}, {}}, default : {{}, {lib}},
     deps : {Project},
     disk : {Files(f) : f \in Both(Both(Ages(hdr, {-1, -3}), Ages(src, {-2, 0})),
                                   Both(Ages(gen, {-1, -3}), Ages(out, {0})))}]

-----------------------------------------------------------------------------
\* Mixed: a derived target with a generated file and a source below it.
Mixed == Graph((all :> {tool, obj, lib}) @@ (tool :> {gen, src}) @@ (obj :> {src})
               @@ (lib :> {out}) @@ (gen :> {src}))
MixedInputs ==
    [flags : {Plain},
     slots : {1, 3}, goals : {{all}, {tool, obj}}, default : {{}}, deps : {Mixed},
     disk : {Files(f) : f \in Both(Both(Ages(gen, {-1, 0}), Ages(src, {-2})),
                                   Both(Ages(obj, {-1}), Ages(lib, {0})))}]

-----------------------------------------------------------------------------
\* Question: the files of Diamond at many ages, some missing.
QuestionInputs ==
    [flags : {Flag(b, k, TRUE) : b \in BOOLEAN, k \in BOOLEAN},
     slots : {1}, goals : {{app}, {obj, lib}}, default : {{}}, deps : {Diamond},
     disk : {Files(f) : f \in Both(Both(Ages(lib, {-1, -2}), Ages(obj, {-1, -2, 0})),
                                   Both(Ages(app, {-1}),
                                        Both(Ages(gen, {-2, 0}), Ages(src, {-3, -1, 0}))))}]

-----------------------------------------------------------------------------
\* Header: a generated file below a header without a command, and a library
\* beside it, built, rebuilt (-B) and asked about (-q).
Header == Graph((app :> {lib, hdr}) @@ (lib :> {src}) @@ (hdr :> {gen}) @@ (gen :> {src}))
HeaderInputs ==
    [flags : {Flag(b, k, q) : b \in BOOLEAN, k \in BOOLEAN, q \in BOOLEAN},
     slots : {1, 2}, goals : {{app}, {hdr}}, default : {{}}, deps : {Header},
     disk : {Files(f) : f \in Both(Both(Ages(lib, {-1}), Ages(hdr, {-1, 0})),
                                   Both(Ages(gen, {-2, -4}), Ages(src, {-3})))}]

-----------------------------------------------------------------------------
\* Editing: the sources of Diamond are saved while the build runs.
EditingInputs ==
    [flags : {Plain, Flag(FALSE, TRUE, FALSE)},
     slots : {2}, goals : {{app, obj}, {lib, obj}}, default : {{}}, deps : {Diamond},
     disk : {Files(f) : f \in Both(Both(Ages(app, {0}), Ages(obj, {-1, 0})),
                                   Both(Ages(gen, {-1}), Ages(src, {-2})))}]

-----------------------------------------------------------------------------
BuildInputs == DiamondInputs \cup ProjectInputs \cup QuestionInputs \cup HeaderInputs
EditedInputs == MixedInputs \cup EditingInputs

\* The builds without edits are those that SchedulerProofs is about, and what it
\* says of the jobs at exit it says of all of them.
ASSUME PlanAssumption ==
    /\ PlanOf \in [Inputs -> Abstract!Plan]
    /\ Editable = {} => Undisturbed
    /\ KeepGoingNeverRaises

-----------------------------------------------------------------------------
\* One input each, for the runs about what the comments say.
One(fl, g, graph, ages) ==
    [flags : {fl}, slots : {2}, goals : {g}, default : {{}}, deps : {Graph(graph)},
     disk : {Files(ages)}]
DirInputs == One(Plain, {gen}, gen :> {src, out}, (gen :> 0) @@ (out :> 0))
CleanUpInputs == One(Plain, {all}, all :> {obj, gen}, (obj :> 0) @@ (gen :> 0))
=============================================================================
