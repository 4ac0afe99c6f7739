-------------------------- MODULE TargetGraphProofs --------------------------
(***************************************************************************)
(* For any number of targets: as long as no object gets a second name, the *)
(* graph that check_for_cycle guards has no cycle, and it refuses nothing  *)
(* without need.                                                           *)
(*                                                                         *)
(* Neither is inductive.  GraphInv adds what makes the look-ups by name    *)
(* and by object agree: a target in the table is stored under its own name *)
(* (NamesAgree), and an object brings no dependencies with it when it      *)
(* enters the table (LooseEnds).  The graph then changes at one place      *)
(* only, where depends_on has looked for a path back.                      *)
(***************************************************************************)
EXTENDS TargetGraph, FiniteSetTheorems, TLAPS

NamesAgree == \A n \in Name : table[n] # Nil => nameOf[table[n]] = n

\* Objects that are in no table under their name have no dependencies.
LooseIn(T, N, M, D) ==
    /\ \A o \in Object \ M : N[o] = Nil
    /\ \A o \in Object : N[o] = Nil => D[o] = {}
    /\ \A o \in Object, n \in Name : N[o] = n /\ T[n] = Nil => D[o] = {}
LooseEnds == LooseIn(table, nameOf, made, deps)

GraphAccepted == \A n \in Name : Graph(table)[n] \subseteq accepted[n]

GraphInv == TypeOK /\ NamesAgree /\ LooseEnds /\ Acyclic /\ GraphAccepted /\ RefusalJustified

-----------------------------------------------------------------------------
(***************************************************************************)
(* An edge from x to m closes no cycle if some closed set holds m and not  *)
(* x: with T the closed set that shows n is on no cycle, S \cap T or       *)
(* S \cup T shows it in the new graph.                                     *)
(***************************************************************************)
LEMMA AddEdge ==
    ASSUME NEW G \in [Name -> SUBSET Name], \A n \in Name : ~OnCycle(G, n),
           NEW x \in Name, NEW m \in Name,
           NEW S \in SUBSET Name, m \in S, Closed(G, S), x \notin S,
           NEW n \in Name
    PROVE  ~OnCycle([G EXCEPT ![x] = G[x] \cup {m}], n)
<1> DEFINE H == [G EXCEPT ![x] = G[x] \cup {m}]
<1>1. H[x] = G[x] \cup {m} /\ \A k \in Name : k # x => H[k] = G[k]
  OBVIOUS
<1>2. PICK T \in SUBSET Name : Closed(G, T) /\ G[n] \subseteq T /\ n \notin T
  BY DEF OnCycle
<1> HIDE DEF H
<1>3. CASE n # x /\ n \in S
  <2>1. Closed(H, S \cap T)
    BY <1>1, <1>2 DEF Closed
  <2>2. H[n] \subseteq S \cap T
    BY <1>1, <1>2, <1>3 DEF Closed
  <2> QED
    BY <1>2, <2>1, <2>2 DEF OnCycle, H
<1>4. CASE n # x /\ n \notin S
  <2>1. Closed(H, S \cup T)
    BY <1>1, <1>2 DEF Closed
  <2>2. H[n] \subseteq S \cup T
    BY <1>1, <1>2, <1>4
  <2> QED
    BY <1>2, <1>4, <2>1, <2>2 DEF OnCycle, H
<1>5. CASE n = x
  <2>1. Closed(H, S \cup T)
    BY <1>1, <1>2, <1>5 DEF Closed
  <2>2. H[n] \subseteq S \cup T
    BY <1>1, <1>2, <1>5
  <2> QED
    BY <1>2, <1>5, <2>1, <2>2 DEF OnCycle, H
<1> QED
  BY <1>3, <1>4, <1>5

(***************************************************************************)
(* A larger graph reaches more.                                            *)
(***************************************************************************)
LEMMA ReachGrows ==
    ASSUME NEW G \in [Name -> SUBSET Name], NEW H \in [Name -> SUBSET Name],
           \A n \in Name : G[n] \subseteq H[n], NEW m \in Name
    PROVE  Reach(G, m) \subseteq Reach(H, m)
<1>1. \A S \in SUBSET Name : Closed(H, S) => Closed(G, S)
  BY DEF Closed
<1> QED
  BY <1>1 DEF Reach

-----------------------------------------------------------------------------
(***************************************************************************)
(* Storing an object under its name, with none of its own before, keeps    *)
(* the names in agreement and leaves the graph as it was.                  *)
(***************************************************************************)
LEMMA StoreKeeps ==
    ASSUME TypeOK, NamesAgree, LooseEnds, NEW n \in Name, NEW o \in made',
           table[n] = Nil, nameOf[o] \in {Nil, n}, Store(n, o),
           made' = made \/ made' = made \cup {o}, made' \subseteq Object
    PROVE  /\ NamesAgree'
           /\ LooseIn(table', nameOf', made', deps)
           /\ Graph(table') = Graph(table)
<1>1. \A k \in Name : table[k] # o
  BY GraphAssumption DEF NamesAgree, TypeOK
<1>2. deps[o] = {}
  BY DEF LooseEnds, LooseIn
<1>3. /\ table' = [k \in Name |-> IF k = n THEN o ELSE table[k]]
      /\ nameOf' = [p \in Object |-> IF p = o THEN n ELSE nameOf[p]]
      /\ o # Nil
  BY GraphAssumption DEF Store, TypeOK
<1>4. NamesAgree'
  <2> SUFFICES ASSUME NEW k \in Name, table'[k] # Nil
               PROVE  nameOf'[table'[k]] = k
    BY DEF NamesAgree
  <2>1. CASE k = n
    BY <1>3, <2>1
  <2>2. CASE k # n
    <3>1. table'[k] = table[k] /\ table[k] # o /\ table[k] \in Object
      BY <1>1, <1>3, <2>2 DEF TypeOK
    <3> QED
      BY <1>3, <3>1 DEF NamesAgree
  <2> QED
    BY <2>1, <2>2
<1>5. LooseIn(table', nameOf', made', deps)
  <2>1. \A p \in Object \ made' : nameOf'[p] = Nil
    BY <1>3 DEF LooseEnds, LooseIn
  <2>2. \A p \in Object : nameOf'[p] = Nil => deps[p] = {}
    BY <1>2, <1>3 DEF LooseEnds, LooseIn
  <2>3. ASSUME NEW p \in Object, NEW k \in Name, nameOf'[p] = k, table'[k] = Nil
        PROVE  deps[p] = {}
    <3>1. CASE p = o
      BY <1>2, <3>1
    <3>2. CASE p # o
      <4>1. k # n /\ table[k] = Nil /\ nameOf[p] = k
        BY <1>3, <2>3, <3>2
      <4> QED
        BY <4>1 DEF LooseEnds, LooseIn
    <3> QED
      BY <3>1, <3>2
  <2> QED
    BY <2>1, <2>2, <2>3 DEF LooseIn
<1>6. \A k \in Name : (IF table'[k] = Nil THEN {} ELSE deps[table'[k]])
                      = (IF table[k] = Nil THEN {} ELSE deps[table[k]])
  <2> TAKE k \in Name
  <2>1. CASE k = n
    <3>1. table'[k] = o
      BY <1>3, <2>1
    <3> QED
      BY <1>2, <1>3, <2>1, <3>1
  <2>2. CASE k # n
    <3>1. table'[k] = table[k]
      BY <1>3, <2>2
    <3> QED
      BY <3>1
  <2> QED
    BY <2>1, <2>2
<1> QED
  BY <1>4, <1>5, <1>6 DEF Graph

(***************************************************************************)
(* With the graph as it was, the rest of the invariant stays too.          *)
(***************************************************************************)
LEMMA SameGraph ==
    ASSUME GraphInv, Graph(table') = Graph(table), deps' = deps,
           accepted' = accepted
    PROVE  Acyclic' /\ GraphAccepted'
<1>1. Graph(table)' = Graph(table)
  BY DEF Graph
<1> QED
  BY <1>1 DEF GraphInv, Acyclic, GraphAccepted, OnCycle, Closed

(***************************************************************************)
(* What depends_on does first: the object gets into the table, unless      *)
(* another one has its name there.                                         *)
(***************************************************************************)
LEMMA DefinedKeeps ==
    ASSUME GraphInv, NEW o \in made, nameOf[o] # Nil, Defined(o), made' = made
    PROVE  /\ NamesAgree'
           /\ LooseIn(table', nameOf', made', deps)
           /\ Graph(table') = Graph(table)
           /\ nameOf' = nameOf
           /\ nameOf[o] \in Name
           /\ table' \in [Name -> made \cup {Nil}]
           /\ table'[nameOf[o]] # Nil
           /\ default' \in made \cup {Nil}
           /\ \A n \in Name : table'[n] # Nil => default' # Nil
<1>1. nameOf[o] \in Name /\ made \subseteq Object /\ o # Nil
  BY GraphAssumption DEF GraphInv, TypeOK
<1>2. CASE table[nameOf[o]] = Nil
  <2>1. Store(nameOf[o], o)
    BY <1>2 DEF Defined
  <2>2. NamesAgree' /\ LooseIn(table', nameOf', made', deps) /\ Graph(table') = Graph(table)
    BY <1>1, <1>2, <2>1, StoreKeeps DEF GraphInv
  <2>3. nameOf' = nameOf
    BY <1>1, <2>1 DEF Store, GraphInv, TypeOK
  <2>4. /\ table' \in [Name -> made \cup {Nil}]
        /\ table'[nameOf[o]] # Nil
        /\ default' \in made \cup {Nil}
        /\ default' # Nil
    BY <1>1, <2>1 DEF Store, GraphInv, TypeOK
  <2> QED
    BY <1>1, <2>2, <2>3, <2>4
<1>3. CASE table[nameOf[o]] # Nil
  <2>1. UNCHANGED <<table, nameOf, default>>
    BY <1>3 DEF Defined
  <2> QED
    BY <1>1, <1>3, <2>1 DEF GraphInv, TypeOK, NamesAgree, LooseEnds
<1> QED
  BY <1>2, <1>3

-----------------------------------------------------------------------------
(***************************************************************************)
(* No path back was found: there is a closed set that holds the new        *)
(* dependency and not the dependent target.                                *)
(***************************************************************************)
LEMMA NotFound ==
    ASSUME GraphInv, NEW o \in made, nameOf[o] # Nil, Defined(o), made' = made,
           NEW m \in Name, table'[m] # Nil => ~Finds(table', nameOf[o], m)
    PROVE  \E S \in SUBSET Name :
              m \in S /\ Closed(Graph(table'), S) /\ nameOf[o] \notin S
<1> DEFINE x == nameOf[o]
<1>1. /\ x \in Name
      /\ table'[x] # Nil
      /\ nameOf' = nameOf
      /\ NamesAgree'
  BY DefinedKeeps
<1>2. CASE table'[m] = Nil
  <2>1. Graph(table')[m] = {}
    BY <1>2 DEF Graph
  <2>2. {m} \in SUBSET Name /\ Closed(Graph(table'), {m}) /\ x \notin {m}
    BY <1>1, <1>2, <2>1 DEF Closed
  <2> QED
    BY <2>2
<1>3. CASE table'[m] # Nil
  <2>1. Shown(table', x) = x
    BY <1>1 DEF Shown, NamesAgree
  <2>2. x \notin Reach(Graph(table'), m)
    BY <1>3, <2>1 DEF Finds
  <2> QED
    BY <1>1, <2>2 DEF Reach
<1> QED
  BY <1>2, <1>3

(***************************************************************************)
(* A dependency that is accepted adds one edge, or none if the object is   *)
(* not the one in the table.                                               *)
(***************************************************************************)
LEMMA Accepting ==
    ASSUME GraphInv, NEW o \in made, nameOf[o] # Nil, Defined(o), made' = made,
           NEW m \in Name, table'[m] # Nil => ~Finds(table', nameOf[o], m),
           deps' = [deps EXCEPT ![o] = @ \cup {m}],
           accepted' = [accepted EXCEPT ![nameOf[o]] = @ \cup {m}]
    PROVE  Acyclic' /\ GraphAccepted' /\ LooseEnds'
<1> DEFINE x == nameOf[o]
           G == Graph(table)
           H == Graph(table)'
<1>1. /\ NamesAgree'
      /\ LooseIn(table', nameOf', made', deps)
      /\ Graph(table') = G
      /\ nameOf' = nameOf
      /\ x \in Name
      /\ table' \in [Name -> made \cup {Nil}]
      /\ table'[x] # Nil
  BY DefinedKeeps
<1>2. /\ G \in [Name -> SUBSET Name]
      /\ \A n \in Name : ~OnCycle(G, n)
      /\ made \subseteq Object
      /\ deps \in [Object -> SUBSET Name]
      /\ accepted \in [Name -> SUBSET Name]
  BY DEF Graph, GraphInv, Acyclic, TypeOK
<1>3. LooseEnds'
  BY <1>1, <1>2 DEF LooseEnds, LooseIn
<1>4. /\ G = [n \in Name |-> IF table'[n] = Nil THEN {} ELSE deps[table'[n]]]
      /\ H = [n \in Name |-> IF table'[n] = Nil THEN {} ELSE deps'[table'[n]]]
  BY <1>1 DEF Graph
<1>5. \A n \in Name : table'[n] # Nil => table'[n] \in Object
  BY <1>1, <1>2
<1>6. ASSUME NEW n \in Name, table'[n] # o
      PROVE  H[n] = G[n]
  BY <1>2, <1>4, <1>5, <1>6
<1>7. \A n \in Name : table'[n] = o => n = x
  BY <1>1, GraphAssumption, <1>2 DEF NamesAgree
<1>8. CASE table'[x] = o
  <2>1. H[x] = G[x] \cup {m}
    BY <1>1, <1>2, <1>4, <1>8
  <2>2. H = [G EXCEPT ![x] = G[x] \cup {m}]
    <3>1. \A n \in Name : H[n] = [G EXCEPT ![x] = G[x] \cup {m}][n]
      BY <1>1, <1>2, <1>6, <1>7, <2>1
    <3>2. H = [n \in Name |-> H[n]]
      BY <1>4
    <3> QED
      BY <1>2, <3>1, <3>2
  <2>3. PICK S \in SUBSET Name : m \in S /\ Closed(G, S) /\ x \notin S
    BY <1>1, NotFound
  <2>4. \A n \in Name : ~OnCycle(H, n)
    <3> HIDE DEF x, G, H
    <3> QED
      BY <1>1, <1>2, <2>2, <2>3, AddEdge
  <2>5. Acyclic'
    BY <2>4 DEF Acyclic, OnCycle, Closed
  <2>6. \A n \in Name : H[n] \subseteq accepted'[n]
    BY <1>1, <1>2, <1>6, <1>7, <2>1 DEF GraphInv, GraphAccepted
  <2> QED
    BY <1>3, <2>5, <2>6 DEF GraphAccepted
<1>9. CASE table'[x] # o
  <2>1. H = G
    <3>1. \A n \in Name : H[n] = G[n]
      BY <1>6, <1>7, <1>9
    <3>2. H = [n \in Name |-> H[n]] /\ G = [n \in Name |-> G[n]]
      BY <1>4
    <3> QED
      BY <3>1, <3>2
  <2>2. Acyclic'
    BY <1>2, <2>1 DEF Acyclic, OnCycle, Closed
  <2>3. \A n \in Name : H[n] \subseteq accepted'[n]
    BY <1>1, <1>2, <2>1 DEF GraphInv, GraphAccepted
  <2> QED
    BY <1>3, <2>2, <2>3 DEF GraphAccepted
<1> QED
  BY <1>8, <1>9

(***************************************************************************)
(* A dependency that is refused leads back to the target.                  *)
(***************************************************************************)
LEMMA Refusing ==
    ASSUME GraphInv, NEW o \in made, nameOf[o] # Nil, Defined(o), made' = made,
           NEW m \in Name, Finds(table', nameOf[o], m), accepted' = accepted
    PROVE  nameOf[o] \in Reach(accepted', m)
<1> DEFINE x == nameOf[o]
<1>1. /\ NamesAgree'
      /\ Graph(table') = Graph(table)
      /\ nameOf' = nameOf
      /\ x \in Name
  BY DefinedKeeps
<1>2. PICK k \in Reach(Graph(table'), m) :
         Shown(table', k) = x \/ OnCycle(Graph(table'), k)
  BY DEF Finds
<1>3. k \in Name
  BY DEF Reach
<1>4. Shown(table', k) = x
  BY <1>1, <1>2, <1>3 DEF GraphInv, Acyclic
<1>5. k = x
  BY <1>1, <1>3, <1>4 DEF Shown, NamesAgree
<1>6. /\ Graph(table) \in [Name -> SUBSET Name]
      /\ accepted \in [Name -> SUBSET Name]
      /\ \A n \in Name : Graph(table)[n] \subseteq accepted[n]
  BY DEF Graph, GraphInv, GraphAccepted, TypeOK
<1>7. Reach(Graph(table), m) \subseteq Reach(accepted, m)
  BY <1>6, ReachGrows
<1> QED
  BY <1>1, <1>2, <1>5, <1>7

-----------------------------------------------------------------------------
LEMMA InitGraph == Init => GraphInv
<1> SUFFICES ASSUME Init PROVE GraphInv
  OBVIOUS
<1>1. TypeOK
  BY GraphAssumption DEF Init, TypeOK, NoCall
<1>2. NamesAgree /\ LooseEnds
  BY GraphAssumption DEF Init, NamesAgree, LooseEnds, LooseIn
<1>3. \A n \in Name : Graph(table)[n] = {}
  BY DEF Init, Graph
<1>4. Acyclic
  BY <1>3 DEF Acyclic, OnCycle, Closed
<1>5. GraphAccepted /\ RefusalJustified
  BY <1>3 DEF GraphAccepted, RefusalJustified, Init, NoCall
<1> QED
  BY <1>1, <1>2, <1>4, <1>5 DEF GraphInv

(***************************************************************************)
(* A new object that stays out of the table.                               *)
(***************************************************************************)
LEMMA FreshKeeps ==
    ASSUME GraphInv, NEW o \in Object, NEW n \in Name \cup {Nil},
           n # Nil => table[n] = Nil,
           Fresh(o, n), call' = NoCall,
           UNCHANGED <<table, deps, default, accepted>>
    PROVE  GraphInv'
<1>1. \A k \in Name : table[k] # o
  BY GraphAssumption DEF Fresh, GraphInv, TypeOK
<1>2. deps[o] = {}
  BY DEF Fresh, GraphInv, LooseEnds, LooseIn
<1>3. nameOf' = [p \in Object |-> IF p = o THEN n ELSE nameOf[p]]
  BY DEF Fresh, GraphInv, TypeOK
<1>4. \A k \in Name : table[k] # Nil => nameOf'[table[k]] = nameOf[table[k]]
  BY <1>1, <1>3 DEF GraphInv, TypeOK
<1>5. TypeOK'
  BY <1>4 DEF Fresh, GraphInv, TypeOK, NoCall
<1>6. NamesAgree'
  BY <1>4 DEF GraphInv, NamesAgree
<1>7. LooseEnds'
  BY <1>2, <1>3 DEF Fresh, GraphInv, LooseEnds, LooseIn
<1>8. Graph(table') = Graph(table)
  OBVIOUS
<1>9. Acyclic' /\ GraphAccepted'
  BY <1>8, SameGraph
<1>10. RefusalJustified'
  BY DEF RefusalJustified, NoCall
<1> QED
  BY <1>5, <1>6, <1>7, <1>9, <1>10 DEF GraphInv

(***************************************************************************)
(* An object that gets into the table with its first name, new or not.     *)
(***************************************************************************)
LEMMA StoredKeeps ==
    ASSUME GraphInv, NEW n \in Name, NEW o \in made',
           table[n] = Nil, nameOf[o] \in {Nil, n}, Store(n, o),
           made' = made \/ made' = made \cup {o}, made' \subseteq Object,
           call' = NoCall, UNCHANGED <<deps, accepted>>
    PROVE  GraphInv'
<1>1. /\ NamesAgree'
      /\ LooseIn(table', nameOf', made', deps)
      /\ Graph(table') = Graph(table)
  BY StoreKeeps DEF GraphInv
<1>2. table' \in [Name -> made' \cup {Nil}] /\ nameOf' \in [Object -> Name \cup {Nil}]
  BY DEF Store, GraphInv, TypeOK
<1>3. default' \in made' \cup {Nil} /\ default' # Nil
  BY GraphAssumption DEF Store, GraphInv, TypeOK
<1>4. \A k \in Name : table'[k] # Nil => nameOf'[table'[k]] # Nil /\ default' # Nil
  BY <1>1, <1>3, GraphAssumption DEF NamesAgree
<1>5. TypeOK'
  BY <1>2, <1>3, <1>4 DEF GraphInv, TypeOK, NoCall
<1>6. Acyclic' /\ GraphAccepted'
  BY <1>1, SameGraph
<1>7. RefusalJustified'
  BY DEF RefusalJustified, NoCall
<1> QED
  BY <1>1, <1>5, <1>6, <1>7 DEF GraphInv, LooseEnds

LEMMA DependsOnKeeps ==
    ASSUME GraphInv, NEW o \in Object, NEW m \in Name, DependsOn(o, m)
    PROVE  GraphInv'
<1>1. o \in made /\ nameOf[o] # Nil /\ Defined(o) /\ made' = made
  BY DEF DependsOn
<1>2. /\ NamesAgree'
      /\ LooseIn(table', nameOf', made', deps)
      /\ Graph(table') = Graph(table)
      /\ nameOf' = nameOf
      /\ nameOf[o] \in Name
      /\ table' \in [Name -> made \cup {Nil}]
      /\ default' \in made \cup {Nil}
      /\ \A n \in Name : table'[n] # Nil => default' # Nil
  BY <1>1, DefinedKeeps
<1>3. \A n \in Name : table'[n] # Nil => nameOf'[table'[n]] # Nil
  BY <1>2, GraphAssumption DEF NamesAgree
<1>4. CASE /\ table'[m] # Nil => ~Finds(table', nameOf[o], m)
           /\ call' = [name |-> nameOf[o], dep |-> m, ok |-> TRUE]
           /\ deps' = [deps EXCEPT ![o] = @ \cup {m}]
           /\ accepted' = [accepted EXCEPT ![nameOf[o]] = @ \cup {m}]
  <2>1. Acyclic' /\ GraphAccepted' /\ LooseEnds'
    BY <1>1, <1>4, Accepting
  <2>2. TypeOK'
    BY <1>1, <1>2, <1>3, <1>4 DEF GraphInv, TypeOK
  <2>3. RefusalJustified'
    BY <1>4 DEF RefusalJustified
  <2> QED
    BY <1>2, <2>1, <2>2, <2>3 DEF GraphInv
<1>5. CASE /\ Finds(table', nameOf[o], m)
           /\ call' = [name |-> nameOf[o], dep |-> m, ok |-> FALSE]
           /\ UNCHANGED <<deps, accepted>>
  <2>1. Acyclic' /\ GraphAccepted'
    BY <1>2, <1>5, SameGraph
  <2>2. TypeOK'
    BY <1>1, <1>2, <1>3, <1>5 DEF GraphInv, TypeOK
  <2>3. RefusalJustified'
    BY <1>1, <1>5, Refusing DEF RefusalJustified
  <2> QED
    BY <1>2, <1>5, <2>1, <2>2, <2>3 DEF GraphInv, LooseEnds
<1> QED
  BY <1>4, <1>5 DEF DependsOn

LEMMA GraphStep == GraphInv /\ [Next /\ KeepsNames]_vars => GraphInv'
<1> SUFFICES ASSUME GraphInv, [Next /\ KeepsNames]_vars PROVE GraphInv'
  OBVIOUS
<1>1. ASSUME NEW o \in Object, New(o) PROVE GraphInv'
  BY <1>1, FreshKeeps DEF New
<1>2. ASSUME NEW o \in Object, NEW n \in Name, Lookup(n, o) PROVE GraphInv'
  BY <1>2, FreshKeeps DEF Lookup
<1>3. ASSUME NEW o \in Object, NEW n \in Name, Assign(n, o), KeepsNames PROVE GraphInv'
  <2>1. nameOf'[o] = n
    BY <1>3 DEF Assign, Store, GraphInv, TypeOK
  <2>2. nameOf[o] \in {Nil, n}
    BY <1>3, <2>1 DEF Assign, KeepsNames
  <2> QED
    BY <1>3, <2>2, StoredKeeps DEF Assign, GraphInv, TypeOK
<1>4. ASSUME NEW o \in Object, NEW n \in Name, Define(n, o) PROVE GraphInv'
  <2>1. nameOf[o] = Nil /\ o \in made' /\ made' \subseteq Object
    BY <1>4 DEF Define, GraphInv, LooseEnds, LooseIn, TypeOK
  <2> QED
    BY <1>4, <2>1, StoredKeeps DEF Define
<1>5. ASSUME NEW o \in Object, DependsOnNothing(o) PROVE GraphInv'
  <2>1. o \in made /\ nameOf[o] # Nil /\ Defined(o) /\ UNCHANGED <<made, deps, accepted>>
        /\ call' = NoCall
    BY <1>5 DEF DependsOnNothing
  <2>2. /\ NamesAgree'
        /\ LooseIn(table', nameOf', made', deps)
        /\ Graph(table') = Graph(table)
        /\ nameOf' = nameOf
        /\ table' \in [Name -> made \cup {Nil}]
        /\ default' \in made \cup {Nil}
        /\ \A n \in Name : table'[n] # Nil => default' # Nil
    BY <2>1, DefinedKeeps
  <2>3. Acyclic' /\ GraphAccepted'
    BY <2>1, <2>2, SameGraph
  <2>4. \A n \in Name : table'[n] # Nil => nameOf'[table'[n]] # Nil
    BY <2>2, GraphAssumption DEF NamesAgree
  <2>5. TypeOK'
    BY <2>1, <2>2, <2>4 DEF GraphInv, TypeOK, NoCall
  <2>6. RefusalJustified'
    BY <2>1 DEF RefusalJustified, NoCall
  <2> QED
    BY <2>1, <2>2, <2>3, <2>5, <2>6 DEF GraphInv, LooseEnds
<1>6. ASSUME NEW o \in Object, NEW m \in Name, DependsOn(o, m) PROVE GraphInv'
  BY <1>6, DependsOnKeeps
<1>7. CASE UNCHANGED vars
  BY <1>7 DEF vars, GraphInv, TypeOK, NamesAgree, LooseEnds, LooseIn, Acyclic,
               OnCycle, Closed, GraphAccepted, Graph, RefusalJustified, Reach
<1> QED
  BY <1>1, <1>2, <1>3, <1>4, <1>5, <1>6, <1>7 DEF Next

-----------------------------------------------------------------------------
(***************************************************************************)
(* The invariant holds in every makefile that keeps to first names.        *)
(***************************************************************************)
THEOREM GraphInvariant == NamedOnceSpec => []GraphInv
  BY InitGraph, GraphStep, PTL DEF NamedOnceSpec

(***************************************************************************)
(* For any number of targets and objects, check_for_cycle, which runs only *)
(* when the dependency is defined already and compares the name an object  *)
(* knows, leaves no cycle for bring_up_to_date to run into.                *)
(***************************************************************************)
THEOREM GraphAcyclic == NamedOnceSpec => []Acyclic
  BY GraphInvariant, PTL DEF GraphInv

(***************************************************************************)
(* For any number of targets and objects, what depends_on refuses would    *)
(* close a cycle of dependencies that makefiles declared.                  *)
(***************************************************************************)
THEOREM RefusalsJustified == NamedOnceSpec => []RefusalJustified
  BY GraphInvariant, PTL DEF GraphInv

(***************************************************************************)
(* Every entry of the table is a made object under its own name, and there *)
(* is a default goal as soon as there is a target, for any number of them. *)
(***************************************************************************)
THEOREM GraphTyped == NamedOnceSpec => []TypeOK
  BY GraphInvariant, PTL DEF GraphInv

-----------------------------------------------------------------------------
(***************************************************************************)
(* Where an accepted dependency is: with some object of that name.  The    *)
(* objects are never taken back, renamed or relieved of a dependency.      *)
(***************************************************************************)
HeldIn(M, N, D, A) ==
    \A n \in Name : \A m \in A[n] : \E o \in M : N[o] = n /\ m \in D[o]
Held == HeldIn(made, nameOf, deps, accepted)

LEMMA HeldGrows ==
    ASSUME TypeOK, TypeOK', Held, made \subseteq made', KeepsNames,
           \A o \in made : deps[o] \subseteq deps'[o]
    PROVE  HeldIn(made', nameOf', deps', accepted)
<1> SUFFICES ASSUME NEW n \in Name, NEW m \in accepted[n]
             PROVE  \E o \in made' : nameOf'[o] = n /\ m \in deps'[o]
  BY DEF HeldIn
<1>1. PICK o \in made : nameOf[o] = n /\ m \in deps[o]
  BY DEF Held, HeldIn
<1>2. nameOf'[o] = n
  BY <1>1, GraphAssumption DEF KeepsNames
<1> QED
  BY <1>1, <1>2

LEMMA HeldStep == GraphInv /\ Held /\ [Next /\ KeepsNames]_vars => Held'
<1> SUFFICES ASSUME GraphInv, Held, [Next /\ KeepsNames]_vars PROVE Held'
  OBVIOUS
<1>1. TypeOK /\ TypeOK'
  BY GraphStep DEF GraphInv
<1>2. CASE UNCHANGED vars
  BY <1>2 DEF vars, Held, HeldIn
<1>3. ASSUME NEW o \in Object, NEW m \in Name, DependsOn(o, m), KeepsNames PROVE Held'
  <2>1. /\ o \in made /\ made' = made /\ nameOf[o] \in Name
        /\ \/ UNCHANGED <<deps, accepted>>
           \/ /\ deps' = [deps EXCEPT ![o] = @ \cup {m}]
              /\ accepted' = [accepted EXCEPT ![nameOf[o]] = @ \cup {m}]
    BY <1>1, <1>3 DEF DependsOn, TypeOK
  <2>2. \A p \in made : deps[p] \subseteq deps'[p]
    BY <1>1, <2>1 DEF TypeOK
  <2>3. HeldIn(made', nameOf', deps', accepted)
    BY <1>1, <1>3, <2>1, <2>2, HeldGrows
  <2>4. CASE accepted' = accepted
    BY <2>3, <2>4 DEF Held
  <2>5. CASE /\ deps' = [deps EXCEPT ![o] = @ \cup {m}]
             /\ accepted' = [accepted EXCEPT ![nameOf[o]] = @ \cup {m}]
    <3>1. nameOf'[o] = nameOf[o] /\ o \in made' /\ m \in deps'[o]
      BY <1>1, <1>3, <2>1, <2>5, GraphAssumption DEF KeepsNames, TypeOK
    <3>2. \A n \in Name : \A k \in accepted'[n] :
             k \in accepted[n] \/ (n = nameOf[o] /\ k = m)
      BY <1>1, <2>1, <2>5 DEF TypeOK
    <3> QED
      BY <2>3, <3>1, <3>2 DEF Held, HeldIn
  <2> QED
    BY <2>1, <2>4, <2>5
<1>4. ASSUME NEW o \in Object, KeepsNames,
             \/ New(o) \/ DependsOnNothing(o)
             \/ \E n \in Name : Lookup(n, o) \/ Assign(n, o) \/ Define(n, o)
      PROVE  Held'
  <2>1. made \subseteq made' /\ UNCHANGED <<deps, accepted>>
    BY <1>4 DEF New, DependsOnNothing, Lookup, Assign, Define, Fresh
  <2> QED
    BY <1>1, <1>4, <2>1, HeldGrows DEF Held
<1> QED
  BY <1>2, <1>3, <1>4 DEF Next

LEMMA HeldKeeps == GraphInv /\ Held => DependenciesKept
<1> SUFFICES ASSUME GraphInv, Held, NEW n \in Name,
                    \A o, p \in Named(n) : o = p, NEW m \in accepted[n]
             PROVE  m \in Graph(table)[n]
  BY DEF DependenciesKept
<1>1. PICK o \in made : nameOf[o] = n /\ m \in deps[o]
  BY DEF Held, HeldIn
<1>2. table[n] # Nil
  BY <1>1 DEF GraphInv, TypeOK, LooseEnds, LooseIn
<1>3. table[n] \in made /\ nameOf[table[n]] = n
  BY <1>2 DEF GraphInv, TypeOK, NamesAgree
<1>4. o = table[n]
  BY <1>1, <1>3 DEF Named
<1> QED
  BY <1>1, <1>2, <1>4 DEF Graph

(***************************************************************************)
(* For any number of targets and objects, no dependency that depends_on    *)
(* accepted is missing from the graph that is built, unless two objects    *)
(* had the name of its target.                                             *)
(***************************************************************************)
THEOREM DependenciesAreKept == NamedOnceSpec => []DependenciesKept
<1>1. Init => Held
  BY DEF Init, Held, HeldIn
<1> QED
  BY <1>1, GraphInvariant, HeldStep, HeldKeeps, PTL DEF NamedOnceSpec

-----------------------------------------------------------------------------
(***************************************************************************)
(* The ranks that the scheduler's InputAssumption takes for granted: a     *)
(* target has as many as there are names to be reached from it, for what   *)
(* it depends on reaches less, namely not the target itself.               *)
(***************************************************************************)
Ranked == \E Rank \in [Name -> Nat] :
              \A n \in Name : \A d \in Graph(table)[n] : Rank[d] < Rank[n]

LEMMA ReachesLess ==
    ASSUME NEW G \in [Name -> SUBSET Name], NEW n \in Name, ~OnCycle(G, n), NEW d \in G[n]
    PROVE  Reach(G, d) \subseteq Reach(G, n) /\ n \in Reach(G, n) /\ n \notin Reach(G, d)
<1>1. \A S \in SUBSET Name : n \in S /\ Closed(G, S) => d \in S
  BY DEF Closed
<1>2. PICK T \in SUBSET Name : Closed(G, T) /\ G[n] \subseteq T /\ n \notin T
  BY DEF OnCycle
<1>3. d \in T
  BY <1>2
<1> QED
  BY <1>1, <1>2, <1>3 DEF Reach

LEMMA AcyclicRanked ==
    ASSUME GraphInv, IsFiniteSet(Name)
    PROVE  Ranked
<1> DEFINE G == Graph(table)
           size == [n \in Name |-> Cardinality(Reach(G, n))]
<1>1. G \in [Name -> SUBSET Name] /\ \A n \in Name : ~OnCycle(G, n)
  BY DEF Graph, GraphInv, Acyclic, TypeOK
<1> HIDE DEF G
<1>2. \A n \in Name : IsFiniteSet(Reach(G, n)) /\ Cardinality(Reach(G, n)) \in Nat
  <2> SUFFICES ASSUME NEW n \in Name
               PROVE  IsFiniteSet(Reach(G, n)) /\ Cardinality(Reach(G, n)) \in Nat
    OBVIOUS
  <2>1. Reach(G, n) \in SUBSET Name
    BY DEF Reach
  <2>2. IsFiniteSet(Reach(G, n))
    BY <2>1, FS_Subset
  <2> QED
    BY <2>2, FS_CardinalityType
<1>3. ASSUME NEW n \in Name, NEW d \in G[n]
      PROVE  Cardinality(Reach(G, d)) < Cardinality(Reach(G, n))
  <2>1. d \in Name /\ Reach(G, d) \in SUBSET Reach(G, n) /\ Reach(G, d) # Reach(G, n)
    BY <1>1, ReachesLess
  <2>2. /\ Cardinality(Reach(G, d)) <= Cardinality(Reach(G, n))
        /\ Cardinality(Reach(G, n)) # Cardinality(Reach(G, d))
    BY <1>2, <2>1, FS_Subset
  <2> QED
    BY <1>2, <2>1, <2>2
<1>4. size \in [Name -> Nat]
  BY <1>2
<1>5. \A n \in Name : \A d \in G[n] : size[d] < size[n]
  BY <1>1, <1>3
<1> QED
  BY <1>4, <1>5 DEF Ranked, G

(***************************************************************************)
(* depends_on: the graph that makefiles make, of any finite number of      *)
(* targets, can be ranked so that dependencies have the smaller ranks.     *)
(***************************************************************************)
THEOREM GraphHasRanks ==
    ASSUME IsFiniteSet(Name)
    PROVE  NamedOnceSpec => []Ranked
<1>1. GraphInv => Ranked
  BY AcyclicRanked
<1> QED
  BY <1>1, GraphInvariant, PTL
=============================================================================
