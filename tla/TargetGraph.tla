----------------------------- MODULE TargetGraph -----------------------------
(***************************************************************************)
(* How makefiles define targets (lua/mkinit.lua): the table of targets by  *)
(* name, the objects in it and beside it, and the dependencies that        *)
(* depends_on adds after check_for_cycle has looked for a cycle.           *)
(*                                                                         *)
(* An object knows its own name; the table knows objects by name.  Reading *)
(* an undefined target makes an object that has the name but is not in the *)
(* table, and assigning an object to a second name changes the name it     *)
(* knows.  A makefile may go on after an error that it caught.             *)
(***************************************************************************)
EXTENDS FiniteSets

CONSTANTS
    Name,       \* target names, without those of the methods of a target
    Object,     \* the objects a makefile may make (a bound)
    Nil

ASSUME GraphAssumption == Nil \notin Name /\ Nil \notin Object

VARIABLES
    table,      \* __target, by name
    made,       \* the objects made so far
    nameOf,     \* object.name
    deps,       \* object.deps
    default,    \* __target.__default
    accepted,   \* history: what depends_on took without an error, by name
    call        \* history: the last call, if it was depends_on

vars == <<table, made, nameOf, deps, default, accepted, call>>

NoCall == [name |-> Nil, dep |-> Nil, ok |-> TRUE]

-----------------------------------------------------------------------------
(***************************************************************************)
(* Graphs map a name to a set of names.  What can be reached from m is in  *)
(* every set that holds m and is closed under the graph.                   *)
(***************************************************************************)
Closed(G, S) == \A n \in S : G[n] \subseteq S
Reach(G, m) == {k \in Name : \A S \in SUBSET Name :
                                m \in S /\ Closed(G, S) => k \in S}
OnCycle(G, n) == \A S \in SUBSET Name : Closed(G, S) /\ G[n] \subseteq S => n \in S

\* The graph that bring_up_to_date and check_for_cycle walk.
Graph(T) == [n \in Name |-> IF T[n] = Nil THEN {} ELSE deps[T[n]]]
Shown(T, n) == IF T[n] = Nil THEN n ELSE nameOf[T[n]]

(***************************************************************************)
(* check_for_cycle(t, d): an object named t is found below d.  On a cycle  *)
(* without such an object the recursion overflows the stack, an error too. *)
(***************************************************************************)
FindsBelowOnly(T, t, m) == \E k \in Graph(T)[m] : Shown(T, k) = t   \* mutant
FindsSelf(T, t, m) == \E k \in Reach(Graph(T), t) : Shown(T, k) = m \* mutant
Finds(T, t, m) ==
    \E k \in Reach(Graph(T), m) : Shown(T, k) = t \/ OnCycle(Graph(T), k)

-----------------------------------------------------------------------------
Fresh(o, n) ==
    /\ o \in Object \ made
    /\ made' = made \cup {o}
    /\ nameOf' = [nameOf EXCEPT ![o] = n]

StoreUnnamed(n, o) ==                                       \* mutant
    /\ table' = [table EXCEPT ![n] = o]
    /\ default' = IF default = Nil THEN o ELSE default
    /\ UNCHANGED nameOf
Store(n, o) ==
    /\ table' = [table EXCEPT ![n] = o]
    /\ default' = IF default = Nil THEN o ELSE default
    /\ nameOf' = [nameOf EXCEPT ![o] = n]

\* target:new{}
New(o) ==
    /\ Fresh(o, Nil)
    /\ call' = NoCall
    /\ UNCHANGED <<table, deps, default, accepted>>

\* target[n], read by a makefile that keeps the object
Lookup(n, o) ==
    /\ table[n] = Nil
    /\ Fresh(o, n)
    /\ call' = NoCall
    /\ UNCHANGED <<table, deps, default, accepted>>

\* target[n] = o; an error if n is taken
Assign(n, o) ==
    /\ table[n] = Nil /\ o \in made
    /\ Store(n, o)
    /\ call' = NoCall
    /\ UNCHANGED <<made, deps, accepted>>

(***************************************************************************)
(* phony_target(n) and dir_target(n) with a free name make an object and   *)
(* store it; with a name in use they return the object or raise.           *)
(***************************************************************************)
Define(n, o) ==
    /\ table[n] = Nil
    /\ o \in Object \ made
    /\ made' = made \cup {o}
    /\ Store(n, o)
    /\ call' = NoCall
    /\ UNCHANGED <<deps, accepted>>

(***************************************************************************)
(* o:depends_on{...}.  The list is taken one element at a time; an element *)
(* that raises leaves the earlier ones in place, and o in the table.       *)
(***************************************************************************)
DefinedByReading(o) == UNCHANGED <<table, nameOf, default>>     \* mutant
Defined(o) ==
    IF table[nameOf[o]] = Nil THEN Store(nameOf[o], o)
                              ELSE UNCHANGED <<table, nameOf, default>>

\* Names an element can stand for: a string, or an object that has a name.
Given == {Shown(table, n) : n \in Name} \cup ({nameOf[o] : o \in made} \ {Nil})

DependsOnNothing(o) ==
    /\ o \in made /\ nameOf[o] # Nil
    /\ Defined(o)
    /\ call' = NoCall
    /\ UNCHANGED <<made, deps, accepted>>

DependsOn(o, m) ==
    /\ o \in made /\ nameOf[o] # Nil
    /\ m \in Given
    /\ Defined(o)
    /\ \E ok \in {table'[m] # Nil => ~Finds(table', nameOf[o], m)} :
          /\ call' = [name |-> nameOf[o], dep |-> m, ok |-> ok]
          /\ IF ok
             THEN /\ deps' = [deps EXCEPT ![o] = @ \cup {m}]
                  /\ accepted' = [accepted EXCEPT ![nameOf[o]] = @ \cup {m}]
             ELSE UNCHANGED <<deps, accepted>>
    /\ UNCHANGED made

-----------------------------------------------------------------------------
Init ==
    /\ table = [n \in Name |-> Nil]
    /\ made = {}
    /\ nameOf = [o \in Object |-> Nil]
    /\ deps = [o \in Object |-> {}]
    /\ default = Nil
    /\ accepted = [n \in Name |-> {}]
    /\ call = NoCall

Next ==
    \E o \in Object :
       \/ New(o)
       \/ DependsOnNothing(o)
       \/ \E n \in Name :
             \/ Lookup(n, o)
             \/ Assign(n, o)
             \/ Define(n, o)
             \/ DependsOn(o, n)

Spec == Init /\ [][Next]_vars

(***************************************************************************)
(* A makefile that never assigns an object to a second name.               *)
(***************************************************************************)
KeepsNames == \A o \in made : nameOf[o] # Nil => nameOf'[o] = nameOf[o]
NamedOnceSpec == Init /\ [][Next /\ KeepsNames]_vars

-----------------------------------------------------------------------------
(***************************************************************************)
(* Every target in the table is an object that was made and has a name, so *)
(* that every error message and every lookup by its name finds one; there  *)
(* is a default goal as soon as there is a target.                         *)
(***************************************************************************)
TypeOK ==
    /\ table \in [Name -> made \cup {Nil}]
    /\ made \subseteq Object
    /\ nameOf \in [Object -> Name \cup {Nil}]
    /\ deps \in [Object -> SUBSET Name]
    /\ default \in made \cup {Nil}
    /\ accepted \in [Name -> SUBSET Name]
    /\ call \in [name : Name \cup {Nil}, dep : Name \cup {Nil}, ok : BOOLEAN]
    /\ \A n \in Name : table[n] # Nil => nameOf[table[n]] # Nil /\ default # Nil

(***************************************************************************)
(* bring_up_to_date never comes back to a target below itself.             *)
(* mkinit.lua:159: check_for_cycle ensures there are no cycles.            *)
(***************************************************************************)
Acyclic == \A n \in Name : ~OnCycle(Graph(table), n)

(***************************************************************************)
(* depends_on refuses a dependency only if the ones it accepted so far,    *)
(* for whatever object, lead from it back to the dependent target.         *)
(***************************************************************************)
RefusalJustified ==
    ~call.ok => call.name \in Reach(accepted, call.dep)

(***************************************************************************)
(* What depends_on accepted for a name is below that target in the graph   *)
(* that is built, as long as one object only has had that name.  (With two *)
(* of them it is not: reading an undefined target makes a new one every    *)
(* time, and the second keeps its dependencies to itself.)                 *)
(***************************************************************************)
Named(n) == {o \in made : nameOf[o] = n}
DependenciesKept ==
    \A n \in Name : (\A o, p \in Named(n) : o = p) => accepted[n] \subseteq Graph(table)[n]
=============================================================================
