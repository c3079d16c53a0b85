------------------------------- MODULE FindCycle -------------------------------
(***************************************************************************)
(* findCycle of internal/plan: the depth-first search of the dependencies  *)
(* of a plan, one visit per step.  A step is known by the rank of its id   *)
(* among all identifiers, so that sort.Strings is the order of numbers.    *)
(* The recursion is a stack of steps, each with the dependency that its    *)
(* loop takes next.                                                        *)
(***************************************************************************)
EXTENDS Naturals, Sequences, FiniteSets

VARIABLES
    graph,      \* what each step depends on, in order
    state,      \* 0: not visited, 1: on the stack, 2: done
    stack,
    next,       \* the index of the dependency to visit next
    ids,        \* the steps the outer loop has not taken yet
    cycle,      \* the cycle that was found
    searching

searchVars == <<graph, state, stack, next, ids, cycle, searching>>

DependsOn(id) == {graph[id][i] : i \in DOMAIN graph[id]}

IsGraph(g) ==
    /\ DOMAIN g \subseteq Nat /\ IsFiniteSet(DOMAIN g)
    /\ \A id \in DOMAIN g : g[id] \in Seq(DOMAIN g)

StartSearch(g) ==
    /\ graph' = g
    /\ state' = [id \in DOMAIN g |-> 0]
    /\ stack' = <<>>
    /\ next' = [id \in DOMAIN g |-> 1]
    /\ ids' = DOMAIN g
    /\ cycle' = <<>>
    /\ searching' = TRUE

\* Mutant: the part of the stack before the step that closes the cycle is
\* reported with it.
MutantCycleTo(id) == Append(stack, id)

\* The part of the stack that the cycle goes through.
CycleTo(id) ==
    IF \E i \in DOMAIN stack : stack[i] = id
    THEN LET first == CHOOSE i \in DOMAIN stack :
                         stack[i] = id /\ \A j \in 1..(i - 1) : stack[j] # id
         IN  Append(SubSeq(stack, first, Len(stack)), id)
    ELSE <<id, id>>

\* Mutant: a step on the stack counts as done.
MutantVisit(id) ==
    \/ /\ state[id] = 0
       /\ state' = [state EXCEPT ![id] = 1]
       /\ stack' = Append(stack, id)
       /\ UNCHANGED <<cycle, searching>>
    \/ /\ state[id] # 0
       /\ UNCHANGED <<state, stack, cycle, searching>>

Visit(id) ==
    \/ /\ state[id] = 0
       /\ state' = [state EXCEPT ![id] = 1]
       /\ stack' = Append(stack, id)
       /\ UNCHANGED <<cycle, searching>>
    \/ /\ state[id] = 1
       /\ cycle' = CycleTo(id)
       /\ searching' = FALSE
       /\ UNCHANGED <<state, stack>>
    \/ /\ state[id] = 2
       /\ UNCHANGED <<state, stack, cycle, searching>>

\* The outer loop visits the steps in the order of their ids.
VisitStep ==
    /\ searching /\ stack = <<>>
    /\ \E id \in ids :
          /\ \A other \in ids : id <= other
          /\ ids' = ids \ {id}
          /\ Visit(id)
    /\ UNCHANGED <<graph, next>>

Top == stack[Len(stack)]

\* Mutant: the loop does not go on to the next dependency.
MutantVisitDependency ==
    /\ searching /\ stack # <<>>
    /\ next[Top] <= Len(graph[Top])
    /\ Visit(graph[Top][next[Top]])
    /\ UNCHANGED <<graph, next, ids>>

VisitDependency ==
    /\ searching /\ stack # <<>>
    /\ next[Top] <= Len(graph[Top])
    /\ next' = [next EXCEPT ![Top] = @ + 1]
    /\ Visit(graph[Top][next[Top]])
    /\ UNCHANGED <<graph, ids>>

Leave ==
    /\ searching /\ stack # <<>>
    /\ next[Top] > Len(graph[Top])
    /\ state' = [state EXCEPT ![Top] = 2]
    /\ stack' = SubSeq(stack, 1, Len(stack) - 1)
    /\ UNCHANGED <<graph, next, ids, cycle, searching>>

EndSearch ==
    /\ searching /\ stack = <<>> /\ ids = {}
    /\ searching' = FALSE
    /\ UNCHANGED <<graph, state, stack, next, ids, cycle>>

SearchInit ==
    /\ IsGraph(graph)
    /\ state = [id \in DOMAIN graph |-> 0]
    /\ stack = <<>>
    /\ next = [id \in DOMAIN graph |-> 1]
    /\ ids = DOMAIN graph
    /\ cycle = <<>>
    /\ searching = TRUE

SearchNext == VisitStep \/ VisitDependency \/ Leave \/ EndSearch

SearchSpec == SearchInit /\ [][SearchNext]_searchVars

-----------------------------------------------------------------------------
(***************************************************************************)
(* Properties.                                                             *)
(***************************************************************************)
\* What "dependency cycle: a -> b -> a" names is a cycle of the plan: every
\* step depends on the one after it, the last is the first, and no other
\* occurs twice.
CycleIsReal ==
    cycle # <<>> =>
        LET n == Len(cycle) IN
        /\ n > 1 /\ cycle[n] = cycle[1]
        /\ \A i \in 1..(n - 1) : cycle[i + 1] \in DependsOn(cycle[i])
        /\ \A i, j \in 1..(n - 1) : cycle[i] = cycle[j] => i = j

\* In any set of steps, one can be done before the others.
Acyclic(g) ==
    \A steps \in SUBSET DOMAIN g :
        steps = {} \/ \E id \in steps : \A i \in DOMAIN g[id] : g[id][i] \notin steps

\* A search that ends without a cycle was of an acyclic plan.
NoCycleMissed == ~searching /\ cycle = <<>> => Acyclic(graph)

\* The dependencies that no visit has looked at, and the steps that are not done.
Pending == UNION {{id} \X (next[id]..Len(graph[id])) : id \in DOMAIN graph}

Undone == {id \in DOMAIN graph : state[id] # 2}

Left == Cardinality(ids) + Cardinality(Pending) + Cardinality(Undone)

\* The search cannot go on for ever, however the steps depend on each other: it
\* takes each step and each dependency once, and leaves each step once.
SearchAdvances == [][SearchNext /\ searching' => Left' < Left]_searchVars

-----------------------------------------------------------------------------
(***************************************************************************)
(* The inductive invariant behind these.                                   *)
(***************************************************************************)
SearchTypes ==
    /\ IsGraph(graph)
    /\ state \in [DOMAIN graph -> {0, 1, 2}]
    /\ stack \in Seq(DOMAIN graph)
    /\ next \in [DOMAIN graph -> Nat \ {0}]
    /\ ids \subseteq DOMAIN graph
    /\ searching \in BOOLEAN

\* The stack is a path of the plan, without repetition, through the steps that
\* are on it.
StackIsPath ==
    /\ \A i \in DOMAIN stack : state[stack[i]] = 1
    /\ \A id \in DOMAIN graph : state[id] = 1 => \E i \in DOMAIN stack : stack[i] = id
    /\ \A i, j \in DOMAIN stack : stack[i] = stack[j] => i = j
    /\ \A i \in 1..(Len(stack) - 1) :
          /\ next[stack[i]] - 1 \in DOMAIN graph[stack[i]]
          /\ graph[stack[i]][next[stack[i]] - 1] = stack[i + 1]

\* Done is what depends on done steps only; of a step on the stack, that is all
\* it depends on so far but the next of the stack.
DoneIsClosed ==
    /\ \A id \in DOMAIN graph : state[id] = 2 =>
          \A other \in DependsOn(id) : state[other] = 2
    /\ \A i \in DOMAIN stack : \A k \in DOMAIN graph[stack[i]] :
          k < next[stack[i]] =>
              \/ state[graph[stack[i]][k]] = 2
              \/ i < Len(stack) /\ k = next[stack[i]] - 1
    /\ \A id \in DOMAIN graph : state[id] = 0 => next[id] = 1
    /\ \A id \in DOMAIN graph \ ids : state[id] # 0

DoneIsAcyclic ==
    \A steps \in SUBSET {id \in DOMAIN graph : state[id] = 2} :
        steps = {} \/ \E id \in steps : DependsOn(id) \cap steps = {}

SearchInv ==
    /\ SearchTypes
    /\ cycle \in Seq(DOMAIN graph)
    /\ CycleIsReal
    /\ searching => cycle = <<>>
    /\ cycle = <<>> => StackIsPath /\ DoneIsClosed /\ DoneIsAcyclic
    /\ ~searching /\ cycle = <<>> => stack = <<>> /\ ids = {}
===============================================================================
