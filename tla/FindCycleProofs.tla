---------------------------- MODULE FindCycleProofs ----------------------------
(***************************************************************************)
(* For plans of any size: a cycle that findCycle reports is one of the     *)
(* plan, a plan it passes has none, and its search gets nearer to its end  *)
(* with every step.                                                        *)
(***************************************************************************)
EXTENDS FindCycle, FiniteSetTheorems, SequenceTheorems, TLAPS

LEMMA GraphTypes ==
    ASSUME IsGraph(graph), NEW id \in DOMAIN graph
    PROVE  /\ graph[id] \in Seq(DOMAIN graph)
           /\ DependsOn(id) \subseteq DOMAIN graph
           /\ \A i \in DOMAIN graph[id] : graph[id][i] \in DOMAIN graph
BY DEF IsGraph, DependsOn

\* The step at the top of the stack.
LEMMA TopTypes ==
    ASSUME SearchTypes, stack # <<>>
    PROVE  /\ Len(stack) \in DOMAIN stack /\ Len(stack) \in Nat \ {0}
           /\ Top \in DOMAIN graph /\ next[Top] \in Nat \ {0} /\ Len(graph[Top]) \in Nat
           /\ graph[Top] \in Seq(DOMAIN graph)
<1>1. Len(stack) \in DOMAIN stack /\ Len(stack) \in Nat \ {0}
  BY DEF SearchTypes
<1>2. Top \in DOMAIN graph
  BY <1>1 DEF SearchTypes, Top
<1>3. graph[Top] \in Seq(DOMAIN graph)
  BY <1>2, GraphTypes DEF SearchTypes
<1>. QED
  BY <1>1, <1>2, <1>3 DEF SearchTypes

-----------------------------------------------------------------------------
LEMMA VisitTypes ==
    ASSUME SearchTypes, NEW id \in DOMAIN graph, Visit(id),
           graph' = graph, next' \in [DOMAIN graph -> Nat \ {0}], ids' \subseteq DOMAIN graph
    PROVE  SearchTypes'
<1>1. state' \in [DOMAIN graph -> {0, 1, 2}]
  BY DEF SearchTypes, Visit
<1>2. stack' \in Seq(DOMAIN graph)
  <2>1. stack \in Seq(DOMAIN graph)
    BY DEF SearchTypes
  <2>2. stack' = stack \/ stack' = Append(stack, id)
    BY DEF Visit
  <2>. QED
    BY <2>1, <2>2
<1>3. searching' \in BOOLEAN
  BY DEF SearchTypes, Visit
<1>. QED
  BY <1>1, <1>2, <1>3 DEF SearchTypes, IsGraph

LEMMA NextTypes == SearchTypes /\ [SearchNext]_searchVars => SearchTypes'
<1>. SUFFICES ASSUME SearchTypes, [SearchNext]_searchVars PROVE SearchTypes'
  OBVIOUS
<1>1. CASE VisitStep
  <2>1. PICK id \in ids : ids' = ids \ {id} /\ Visit(id)
    BY <1>1 DEF VisitStep
  <2>. QED
    BY <1>1, <2>1, VisitTypes DEF VisitStep, SearchTypes
<1>2. CASE VisitDependency
  <2>1. /\ next' = [next EXCEPT ![Top] = @ + 1] /\ graph' = graph /\ ids' = ids
        /\ Visit(graph[Top][next[Top]]) /\ next[Top] <= Len(graph[Top]) /\ stack # <<>>
    BY <1>2 DEF VisitDependency
  <2>2. graph[Top][next[Top]] \in DOMAIN graph
    BY <2>1, TopTypes
  <2>3. next' \in [DOMAIN graph -> Nat \ {0}]
    BY <2>1, TopTypes DEF SearchTypes
  <2>. QED
    BY <2>1, <2>2, <2>3, VisitTypes DEF SearchTypes
<1>3. CASE Leave
  <2>1. SubSeq(stack, 1, Len(stack) - 1) \in Seq(DOMAIN graph)
    BY <1>3, TopTypes DEF SearchTypes, Leave
  <2>. QED
    BY <1>3, <2>1, TopTypes DEF Leave, SearchTypes
<1>4. CASE EndSearch \/ UNCHANGED searchVars
  BY <1>4 DEF EndSearch, SearchTypes, searchVars
<1>. QED
  BY <1>1, <1>2, <1>3, <1>4 DEF SearchNext

-----------------------------------------------------------------------------
(***************************************************************************)
(* A step that is visited for the first time goes on top of the path.      *)
(***************************************************************************)
\* "from" is the stack; nothing is on it, or its top depends on the new step.
LEMMA PushKeepsPath ==
    ASSUME SearchTypes, StackIsPath, NEW id \in DOMAIN graph, state[id] = 0,
           state' = [state EXCEPT ![id] = 1], stack' = Append(stack, id), graph' = graph,
           \A other \in DOMAIN graph :
              (other = Top /\ stack # <<>>) \/ next'[other] = next[other],
           stack # <<>> => /\ next'[Top] - 1 \in DOMAIN graph[Top]
                           /\ graph[Top][next'[Top] - 1] = id
    PROVE  StackIsPath'
<1>1. /\ Len(stack) \in Nat /\ stack' \in Seq(DOMAIN graph) /\ Len(stack') = Len(stack) + 1
      /\ DOMAIN stack = 1..Len(stack) /\ DOMAIN stack' = 1..(Len(stack) + 1)
      /\ stack'[Len(stack) + 1] = id
      /\ \A i \in DOMAIN stack : stack'[i] = stack[i] /\ stack[i] \in DOMAIN graph
  BY DEF SearchTypes
<1>2. \A i \in DOMAIN stack : stack[i] # id
  BY DEF StackIsPath
<1>3. \A i \in DOMAIN stack' : state'[stack'[i]] = 1
  BY <1>1, <1>2 DEF StackIsPath, SearchTypes
<1>4. \A other \in DOMAIN graph : state'[other] = 1 => \E i \in DOMAIN stack' : stack'[i] = other
  BY <1>1 DEF StackIsPath, SearchTypes
<1>5. \A i, j \in DOMAIN stack' : stack'[i] = stack'[j] => i = j
  BY <1>1, <1>2 DEF StackIsPath
<1>6. ASSUME NEW i \in 1..(Len(stack') - 1)
      PROVE  /\ next'[stack'[i]] - 1 \in DOMAIN graph[stack'[i]]
             /\ graph[stack'[i]][next'[stack'[i]] - 1] = stack'[i + 1]
  <2>1. i \in DOMAIN stack /\ stack'[i] = stack[i]
    BY <1>1, <1>6
  <2>2. CASE i = Len(stack)
    BY <1>1, <2>1, <2>2 DEF Top
  <2>3. CASE i # Len(stack)
    <3>1. i \in 1..(Len(stack) - 1) /\ stack'[i + 1] = stack[i + 1] /\ Len(stack) \in DOMAIN stack
      BY <1>1, <2>1, <2>3
    <3>2. stack[i] # Top
      BY <2>1, <2>3, <3>1 DEF StackIsPath, Top
    <3>. QED
      BY <1>1, <2>1, <3>1, <3>2 DEF StackIsPath
  <2>. QED
    BY <2>2, <2>3
<1>. QED
  BY <1>3, <1>4, <1>5, <1>6 DEF StackIsPath

\* Done steps, and those under way, after a first visit.
LEMMA PushKeepsDone ==
    ASSUME SearchTypes, StackIsPath, DoneIsClosed, DoneIsAcyclic,
           NEW id \in DOMAIN graph, state[id] = 0,
           state' = [state EXCEPT ![id] = 1], stack' = Append(stack, id), graph' = graph,
           ids \ {id} \subseteq ids', ids' \subseteq DOMAIN graph,
           next' \in [DOMAIN graph -> Nat],
           \A other \in DOMAIN graph :
              (other = Top /\ stack # <<>>) \/ next'[other] = next[other],
           stack # <<>> => next'[Top] = next[Top] + 1
    PROVE  DoneIsClosed' /\ DoneIsAcyclic'
<1>0. /\ \A other \in DOMAIN graph : DependsOn(other) \subseteq DOMAIN graph
      /\ \A other \in DOMAIN graph : \A k \in DOMAIN graph[other] :
            graph[other][k] \in DOMAIN graph
      /\ \A other \in DOMAIN graph : DOMAIN graph[other] \subseteq Nat
  <2>1. \A other \in DOMAIN graph : graph[other] \in Seq(DOMAIN graph)
    BY DEF SearchTypes, IsGraph
  <2>. QED
    BY <2>1 DEF DependsOn
<1>1. /\ Len(stack) \in Nat
      /\ DOMAIN stack = 1..Len(stack) /\ DOMAIN stack' = 1..(Len(stack) + 1)
      /\ Len(stack') = Len(stack) + 1 /\ stack'[Len(stack) + 1] = id
      /\ \A i \in DOMAIN stack : stack'[i] = stack[i] /\ stack[i] \in DOMAIN graph
  BY DEF SearchTypes
<1>2. \A other \in DOMAIN graph :
         /\ state'[other] = 2 <=> state[other] = 2
         /\ state'[other] = 0 => state[other] = 0 /\ other # id
         /\ state[other] # 0 => state'[other] # 0
  BY DEF SearchTypes
<1>3. \A other \in DOMAIN graph : DependsOn(other)' = DependsOn(other)
  BY DEF DependsOn
<1>4. DoneIsAcyclic'
  <2>1. {other \in DOMAIN graph : state'[other] = 2} = {other \in DOMAIN graph : state[other] = 2}
    BY <1>2
  <2>. QED
    BY <1>3, <2>1 DEF DoneIsAcyclic
<1>5. \A other \in DOMAIN graph : state'[other] = 2 =>
         \A dependency \in DependsOn(other)' : state'[dependency] = 2
  BY <1>0, <1>2, <1>3 DEF DoneIsClosed
<1>6. ASSUME NEW i \in DOMAIN stack', NEW k \in DOMAIN graph[stack'[i]],
             k < next'[stack'[i]]
      PROVE  \/ state'[graph[stack'[i]][k]] = 2
             \/ i < Len(stack') /\ k = next'[stack'[i]] - 1
  <2>1. CASE i = Len(stack) + 1
    <3>1. next'[id] = 1
      <4>1. stack # <<>> => id # Top
        BY <1>1 DEF StackIsPath, Top
      <4>. QED
        BY <4>1 DEF DoneIsClosed
    <3>2. stack'[i] = id
      BY <1>1, <2>1
    <3>3. graph[id] \in Seq(DOMAIN graph)
      BY GraphTypes DEF SearchTypes
    <3>4. k \in 1..Len(graph[id]) /\ Len(graph[id]) \in Nat /\ k < 1
      BY <1>6, <3>1, <3>2, <3>3
    <3>. QED
      BY <3>4
  <2>2. CASE i = Len(stack)
    <3>1. stack'[i] = Top /\ Top \in DOMAIN graph /\ i \in DOMAIN stack /\ stack # <<>>
          /\ stack[i] = Top
      BY <1>1, <1>6, <2>2 DEF Top
    <3>2. next'[Top] = next[Top] + 1 /\ next[Top] \in Nat /\ k \in Nat
      BY <1>0, <1>6, <3>1 DEF SearchTypes
    <3>3. CASE k < next[Top]
      <4>1. state[graph[Top][k]] = 2
        BY <1>1, <1>6, <2>2, <3>1, <3>3 DEF DoneIsClosed
      <4>. QED
        BY <1>0, <1>2, <1>6, <3>1, <4>1
    <3>4. CASE k = next[Top]
      BY <1>1, <2>2, <3>1, <3>2, <3>4
    <3>. QED
      BY <1>6, <3>1, <3>2, <3>3, <3>4
  <2>3. CASE i \in 1..(Len(stack) - 1)
    <3>1. stack'[i] = stack[i] /\ i \in DOMAIN stack /\ stack[i] \in DOMAIN graph
          /\ Len(stack) \in DOMAIN stack /\ i < Len(stack') /\ i # Len(stack)
      BY <1>1, <2>3
    <3>2. stack[i] # Top
      BY <3>1 DEF StackIsPath, Top
    <3>3. next'[stack[i]] = next[stack[i]]
      BY <3>1, <3>2
    <3>. QED
      BY <1>0, <1>2, <1>6, <3>1, <3>3 DEF DoneIsClosed
  <2>. QED
    BY <1>1, <1>6, <2>1, <2>2, <2>3
<1>7. \A other \in DOMAIN graph : state'[other] = 0 => next'[other] = 1
  <2>1. stack # <<>> => state[Top] = 1
    BY TopTypes DEF StackIsPath, Top
  <2>. QED
    BY <1>2, <2>1 DEF DoneIsClosed
<1>8. \A other \in DOMAIN graph \ ids' : state'[other] # 0
  BY <1>2 DEF DoneIsClosed, SearchTypes
<1>9. DoneIsClosed'
  <2>1. \A i \in DOMAIN stack' : \A k \in DOMAIN graph'[stack'[i]] :
           k < next'[stack'[i]] =>
              \/ state'[graph'[stack'[i]][k]] = 2
              \/ i < Len(stack') /\ k = next'[stack'[i]] - 1
    <3>1. TAKE i \in DOMAIN stack'
    <3>2. DOMAIN graph'[stack'[i]] = DOMAIN graph[stack'[i]]
      OBVIOUS
    <3>3. TAKE k \in DOMAIN graph'[stack'[i]]
    <3>4. HAVE k < next'[stack'[i]]
    <3>5. k \in DOMAIN graph[stack'[i]]
      BY <3>2, <3>3
    <3>6. state'[graph[stack'[i]][k]] = 2 \/ (i < Len(stack') /\ k = next'[stack'[i]] - 1)
      BY <1>6, <3>1, <3>4, <3>5
    <3>. QED
      BY <3>6
  <2>. QED
    BY <1>5, <1>7, <1>8, <2>1 DEF DoneIsClosed
<1>. QED
  BY <1>4, <1>9

-----------------------------------------------------------------------------
(***************************************************************************)
(* A step all of whose dependencies are done is done.                      *)
(***************************************************************************)
LEMMA LeaveKeeps ==
    ASSUME SearchTypes, StackIsPath, DoneIsClosed, DoneIsAcyclic, Leave
    PROVE  StackIsPath' /\ DoneIsClosed' /\ DoneIsAcyclic'
<1>0. /\ \A other \in DOMAIN graph : DependsOn(other) \subseteq DOMAIN graph
      /\ \A other \in DOMAIN graph : \A k \in DOMAIN graph[other] :
            k \in Nat /\ graph[other][k] \in DOMAIN graph /\ graph[other][k] \in DependsOn(other)
      /\ DOMAIN graph[Top] = 1..Len(graph[Top])
  <2>1. \A other \in DOMAIN graph : graph[other] \in Seq(DOMAIN graph)
    BY DEF SearchTypes, IsGraph
  <2>2. Top \in DOMAIN graph
    BY TopTypes DEF Leave
  <2>. QED
    BY <2>1, <2>2 DEF DependsOn
<1>1. /\ Len(stack) \in Nat \ {0} /\ stack' \in Seq(DOMAIN graph)
      /\ DOMAIN stack = 1..Len(stack) /\ DOMAIN stack' = 1..(Len(stack) - 1)
      /\ Len(stack') = Len(stack) - 1
      /\ \A i \in 1..(Len(stack) - 1) : stack'[i] = stack[i] /\ i \in DOMAIN stack
      /\ \A i \in DOMAIN stack : stack[i] \in DOMAIN graph
      /\ Len(stack) \in DOMAIN stack /\ stack[Len(stack)] = Top /\ Top \in DOMAIN graph
  <2>1. stack \in Seq(DOMAIN graph) /\ Len(stack) \in Nat \ {0} /\ Top \in DOMAIN graph
    BY TopTypes DEF SearchTypes, Leave
  <2>2. stack' = SubSeq(stack, 1, Len(stack) - 1)
    BY DEF Leave
  <2>3. stack' \in Seq(DOMAIN graph) /\ Len(stack') = Len(stack) - 1
    <3>1. \A i \in 1..(Len(stack) - 1) : stack[i] \in DOMAIN graph
      BY <2>1
    <3>2. Len(stack) - 1 \in Int /\ 1 \in Int
      BY <2>1
    <3>. QED
      <4>. DEFINE m == Len(stack) - 1
      <4>1. /\ SubSeq(stack, 1, m) \in Seq(DOMAIN graph)
            /\ Len(SubSeq(stack, 1, m)) = IF 1 <= m THEN m - 1 + 1 ELSE 0
        <5>. HIDE DEF m
        <5>1. m \in Int /\ \A i \in 1..m : stack[i] \in DOMAIN graph
          BY <3>1, <3>2 DEF m
        <5>. QED
          BY <5>1, SubSeqProperties
      <4>2. stack' = SubSeq(stack, 1, m) /\ m \in Nat
        BY <2>1, <2>2
      <4>. HIDE DEF m
      <4>3. Len(stack') = m
        BY <4>1, <4>2
      <4>. QED
        BY <4>1, <4>2, <4>3 DEF m
  <2>4. \A i \in 1..(Len(stack) - 1) : stack'[i] = stack[i] /\ i \in DOMAIN stack
    BY <2>1, <2>2
  <2>. QED
    BY <2>1, <2>3, <2>4 DEF Top
<1>2. /\ graph' = graph /\ next' = next /\ ids' = ids
      /\ \A other \in DOMAIN graph : other # Top => state'[other] = state[other]
      /\ state'[Top] = 2 /\ state[Top] = 1
  BY <1>1 DEF Leave, SearchTypes, StackIsPath
<1>3. \A i \in DOMAIN stack' : stack[i] # Top
  BY <1>1 DEF StackIsPath
<1>4. \A other \in DOMAIN graph : DependsOn(other)' = DependsOn(other)
  BY <1>2 DEF DependsOn
<1>5. \A other \in DependsOn(Top) : state[other] = 2
  <2>1. \A k \in DOMAIN graph[Top] : k < next[Top]
    BY <1>0, TopTypes DEF Leave
  <2>. QED
    BY <1>1, <2>1 DEF DoneIsClosed, DependsOn
<1>6. StackIsPath'
  <2>1. \A i \in DOMAIN stack' : state'[stack'[i]] = 1
    BY <1>1, <1>2, <1>3 DEF StackIsPath
  <2>2. \A other \in DOMAIN graph' : state'[other] = 1 => \E i \in DOMAIN stack' : stack'[i] = other
    <3>1. SUFFICES ASSUME NEW other \in DOMAIN graph, state'[other] = 1
                   PROVE  \E i \in DOMAIN stack' : stack'[i] = other
      BY <1>2
    <3>2. other # Top /\ state[other] = 1
      BY <1>2, <3>1
    <3>3. PICK i \in DOMAIN stack : stack[i] = other
      BY <3>2 DEF StackIsPath
    <3>. QED
      BY <1>1, <3>2, <3>3
  <2>3. \A i, j \in DOMAIN stack' : stack'[i] = stack'[j] => i = j
    BY <1>1 DEF StackIsPath
  <2>4. \A i \in 1..(Len(stack') - 1) :
           /\ next'[stack'[i]] - 1 \in DOMAIN graph'[stack'[i]]
           /\ graph'[stack'[i]][next'[stack'[i]] - 1] = stack'[i + 1]
    <3>1. \A i \in 1..(Len(stack') - 1) :
             /\ i \in 1..(Len(stack) - 1)
             /\ stack'[i] = stack[i] /\ stack'[i + 1] = stack[i + 1]
      BY <1>1
    <3>. QED
      BY <1>2, <3>1 DEF StackIsPath
  <2>. QED
    BY <2>1, <2>2, <2>3, <2>4 DEF StackIsPath
<1>7. DoneIsClosed'
  <2>1. \A other \in DOMAIN graph' : state'[other] = 2 =>
           \A dependency \in DependsOn(other)' : state'[dependency] = 2
    BY <1>0, <1>2, <1>4, <1>5 DEF DoneIsClosed
  <2>2. ASSUME NEW i \in DOMAIN stack', NEW k \in DOMAIN graph[stack'[i]], k < next[stack'[i]]
        PROVE  \/ state'[graph[stack'[i]][k]] = 2
               \/ i < Len(stack') /\ k = next[stack'[i]] - 1
    <3>1. i \in DOMAIN stack /\ stack'[i] = stack[i] /\ stack[i] \in DOMAIN graph
      BY <1>1
    <3>2. CASE state[graph[stack[i]][k]] = 2
      BY <1>0, <1>2, <2>2, <3>1, <3>2
    <3>3. CASE i < Len(stack) /\ k = next[stack[i]] - 1
      <4>1. graph[stack[i]][k] = stack[i + 1]
        BY <1>1, <3>3 DEF StackIsPath
      <4>2. i + 1 = Len(stack) \/ i < Len(stack')
        BY <1>1, <3>3
      <4>. QED
        BY <1>1, <1>2, <3>1, <3>3, <4>1, <4>2
    <3>. QED
      BY <2>2, <3>1, <3>2, <3>3 DEF DoneIsClosed
  <2>3. \A i \in DOMAIN stack' : \A k \in DOMAIN graph'[stack'[i]] :
           k < next'[stack'[i]] =>
              \/ state'[graph'[stack'[i]][k]] = 2
              \/ i < Len(stack') /\ k = next'[stack'[i]] - 1
    BY <1>2, <2>2
  <2>4. /\ \A other \in DOMAIN graph' : state'[other] = 0 => next'[other] = 1
        /\ \A other \in DOMAIN graph' \ ids' : state'[other] # 0
    BY <1>2 DEF DoneIsClosed
  <2>. QED
    BY <2>1, <2>3, <2>4 DEF DoneIsClosed
<1>8. DoneIsAcyclic'
  <2>1. SUFFICES ASSUME NEW steps \in SUBSET {other \in DOMAIN graph : state'[other] = 2},
                        steps # {}, \A other \in steps : DependsOn(other) \cap steps # {}
                 PROVE  FALSE
    BY <1>2, <1>4 DEF DoneIsAcyclic
  <2>2. steps \ {Top} \in SUBSET {other \in DOMAIN graph : state[other] = 2}
    BY <1>2
  <2>3. \A other \in steps : DependsOn(other) \cap (steps \ {Top}) # {}
    <3>1. SUFFICES ASSUME NEW other \in steps, DependsOn(other) \cap (steps \ {Top}) = {}
                   PROVE  FALSE
      OBVIOUS
    <3>2. Top \in DependsOn(other)
      BY <2>1, <3>1
    <3>3. state[other] = 2 \/ other = Top
      BY <1>2
    <3>. QED
      BY <1>2, <1>5, <3>2, <3>3 DEF DoneIsClosed
  <2>. QED
    BY <2>1, <2>2, <2>3 DEF DoneIsAcyclic
<1>. QED
  BY <1>6, <1>7, <1>8

-----------------------------------------------------------------------------
(***************************************************************************)
(* A step that is on the stack closes a cycle.                             *)
(***************************************************************************)
LEMMA CycleCloses ==
    ASSUME SearchTypes, StackIsPath, NEW id \in DOMAIN graph, state[id] = 1,
           id \in DependsOn(Top), cycle' = CycleTo(id), graph' = graph
    PROVE  CycleIsReal' /\ cycle' # <<>> /\ cycle' \in Seq(DOMAIN graph)
<1>1. /\ Len(stack) \in Nat /\ DOMAIN stack = 1..Len(stack) /\ stack \in Seq(DOMAIN graph)
      /\ \A i \in DOMAIN stack : stack[i] \in DOMAIN graph
  BY DEF SearchTypes
<1>2. PICK f \in DOMAIN stack : stack[f] = id
  BY DEF StackIsPath
<1>3. \A i \in DOMAIN stack : stack[i] = id => i = f
  BY <1>2 DEF StackIsPath
<1>4. CycleTo(id) = Append(SubSeq(stack, f, Len(stack)), id)
  <2>1. \A j \in 1..(f - 1) : stack[j] # id
    BY <1>1, <1>2, <1>3
  <2>2. (CHOOSE i \in DOMAIN stack : stack[i] = id /\ \A j \in 1..(i - 1) : stack[j] # id) = f
    BY <1>2, <1>3, <2>1
  <2>. QED
    BY <1>2, <2>2 DEF CycleTo
<1>. DEFINE m == Len(stack) - f + 1
            part == SubSeq(stack, f, Len(stack))
<1>5. /\ m \in Nat \ {0} /\ part \in Seq(DOMAIN graph) /\ Len(part) = m
      /\ \A i \in 1..m : part[i] = stack[f + i - 1] /\ f + i - 1 \in DOMAIN stack
  BY <1>1, <1>2
<1>6. /\ Len(cycle') = m + 1 /\ cycle'[m + 1] = id /\ cycle' \in Seq(DOMAIN graph)
      /\ \A i \in 1..m : cycle'[i] = part[i]
  BY <1>4, <1>5
<1>. HIDE DEF part
<1>7. cycle'[1] = id
  BY <1>1, <1>2, <1>5, <1>6
<1>8. ASSUME NEW i \in 1..m PROVE cycle'[i + 1] \in DependsOn(cycle'[i])
  <2>1. cycle'[i] = stack[f + i - 1] /\ f + i - 1 \in DOMAIN stack
    BY <1>5, <1>6
  <2>2. CASE i = m
    <3>1. cycle'[i] = Top /\ cycle'[i + 1] = id
      BY <1>1, <1>2, <1>6, <2>1, <2>2 DEF Top
    <3>. QED
      BY <3>1
  <2>3. CASE i # m
    <3>1. i + 1 \in 1..m /\ cycle'[i + 1] = stack[f + i] /\ f + i - 1 \in 1..(Len(stack) - 1)
          /\ (f + i - 1) + 1 = f + i
      BY <1>1, <1>2, <1>5, <1>6, <2>3
    <3>2. LET k == next[stack[f + i - 1]] - 1 IN
          k \in DOMAIN graph[stack[f + i - 1]] /\ graph[stack[f + i - 1]][k] = stack[f + i]
      BY <3>1 DEF StackIsPath
    <3>. QED
      BY <2>1, <3>1, <3>2 DEF DependsOn
  <2>. QED
    BY <2>2, <2>3
<1>9. \A i, j \in 1..m : cycle'[i] = cycle'[j] => i = j
  <2>1. SUFFICES ASSUME NEW i \in 1..m, NEW j \in 1..m, cycle'[i] = cycle'[j] PROVE i = j
    OBVIOUS
  <2>2. stack[f + i - 1] = stack[f + j - 1] /\ f + i - 1 \in DOMAIN stack
        /\ f + j - 1 \in DOMAIN stack
    BY <1>5, <1>6, <2>1
  <2>3. f + i - 1 = f + j - 1
    BY <2>2 DEF StackIsPath
  <2>. QED
    BY <1>1, <1>2, <2>3
<1>10. /\ Len(cycle') > 1 /\ cycle'[Len(cycle')] = cycle'[1]
       /\ \A i \in 1..(Len(cycle') - 1) :
             cycle'[i + 1] \in {graph'[cycle'[i]][k] : k \in DOMAIN graph'[cycle'[i]]}
       /\ \A i, j \in 1..(Len(cycle') - 1) : cycle'[i] = cycle'[j] => i = j
  <2>1. Len(cycle') - 1 = m /\ Len(cycle') > 1
    BY <1>5, <1>6
  <2>2. \A i \in 1..m :
           cycle'[i + 1] \in {graph'[cycle'[i]][k] : k \in DOMAIN graph'[cycle'[i]]}
    BY <1>8 DEF DependsOn
  <2>. QED
    BY <1>6, <1>7, <1>9, <2>1, <2>2
<1>11. cycle' # <<>>
  BY <1>10
<1>. QED
  BY <1>6, <1>10, <1>11 DEF CycleIsReal, DependsOn

-----------------------------------------------------------------------------
(***************************************************************************)
(* The invariant.                                                          *)
(***************************************************************************)
\* One visit, from the outer loop (with an empty stack) or of a dependency of
\* the top of the stack.
LEMMA VisitKeeps ==
    ASSUME SearchInv, SearchTypes', searching, graph' = graph, NEW id \in DOMAIN graph, Visit(id),
           ids \ {id} \subseteq ids', ids' \subseteq DOMAIN graph,
           \/ stack = <<>> /\ next' = next
           \/ /\ stack # <<>> /\ ids' = ids
              /\ next[Top] \in DOMAIN graph[Top] /\ id = graph[Top][next[Top]]
              /\ next' = [next EXCEPT ![Top] = @ + 1]
    PROVE  SearchInv'
<1>0. /\ SearchTypes /\ StackIsPath /\ DoneIsClosed /\ DoneIsAcyclic /\ cycle = <<>>
      /\ next \in [DOMAIN graph -> Nat \ {0}] /\ next' \in [DOMAIN graph -> Nat]
      /\ stack # <<>> => Top \in DOMAIN graph /\ Len(stack) \in DOMAIN stack
  BY TopTypes DEF SearchInv, SearchTypes
<1>n. /\ \A other \in DOMAIN graph : (other = Top /\ stack # <<>>) \/ next'[other] = next[other]
      /\ stack # <<>> => next'[Top] = next[Top] + 1
  BY <1>0
<1>1. CASE state[id] = 0
  <2>1. state' = [state EXCEPT ![id] = 1] /\ stack' = Append(stack, id)
        /\ UNCHANGED <<cycle, searching>>
    BY <1>1 DEF Visit
  <2>2. stack # <<>> => next'[Top] - 1 \in DOMAIN graph[Top] /\ graph[Top][next'[Top] - 1] = id
    BY <1>0, <1>n
  <2>3. StackIsPath'
    BY <1>0, <1>1, <1>n, <2>1, <2>2, PushKeepsPath
  <2>4. DoneIsClosed' /\ DoneIsAcyclic'
    BY <1>0, <1>1, <1>n, <2>1, PushKeepsDone
  <2>. QED
    BY <1>0, <2>1, <2>3, <2>4 DEF SearchInv, CycleIsReal
<1>2. CASE state[id] = 1
  <2>1. cycle' = CycleTo(id) /\ searching' = FALSE
    BY <1>2 DEF Visit
  <2>2. stack # <<>>
    BY <1>0, <1>2 DEF StackIsPath
  <2>3. id \in DependsOn(Top)
    BY <2>2 DEF DependsOn
  <2>4. CycleIsReal' /\ cycle' # <<>> /\ cycle' \in Seq(DOMAIN graph)
    BY <1>0, <1>2, <2>1, <2>3, CycleCloses
  <2>. QED
    BY <2>1, <2>4 DEF SearchInv
<1>3. CASE state[id] = 2
  <2>1. UNCHANGED <<state, stack, cycle, searching, graph>>
    BY <1>3 DEF Visit
  <2>2. \A other \in DOMAIN graph : DependsOn(other)' = DependsOn(other)
    BY DEF DependsOn
  <2>3. DoneIsAcyclic'
    BY <1>0, <2>1, <2>2 DEF DoneIsAcyclic
  <2>4. StackIsPath'
    <3>1. \A i \in 1..(Len(stack) - 1) : stack[i] \in DOMAIN graph /\ next'[stack[i]] = next[stack[i]]
      <4>1. SUFFICES ASSUME NEW i \in 1..(Len(stack) - 1)
                     PROVE  stack[i] \in DOMAIN graph /\ next'[stack[i]] = next[stack[i]]
        OBVIOUS
      <4>2. stack # <<>> /\ i \in DOMAIN stack /\ i # Len(stack) /\ stack[i] \in DOMAIN graph
        BY <1>0 DEF SearchTypes
      <4>3. stack[i] # Top
        BY <1>0, <4>2 DEF StackIsPath, Top
      <4>. QED
        BY <1>n, <4>2, <4>3
    <3>. QED
      BY <1>0, <2>1, <3>1 DEF StackIsPath
  <2>5. DoneIsClosed'
    <3>1. \A other \in DOMAIN graph : state[other] = 2 =>
             \A dependency \in DependsOn(other) : state[dependency] = 2
      BY <1>0 DEF DoneIsClosed
    <3>2. ASSUME NEW i \in DOMAIN stack, NEW k \in DOMAIN graph[stack[i]], k < next'[stack[i]]
          PROVE  state[graph[stack[i]][k]] = 2 \/ (i < Len(stack) /\ k = next'[stack[i]] - 1)
      <4>1. stack # <<>> /\ stack[i] \in DOMAIN graph /\ DOMAIN stack = 1..Len(stack)
            /\ Len(stack) \in Nat /\ graph[stack[i]] \in Seq(DOMAIN graph)
        BY <1>0 DEF SearchTypes, IsGraph
      <4>2. CASE i = Len(stack)
        <5>1. stack[i] = Top /\ next'[Top] = next[Top] + 1 /\ next[Top] \in Nat /\ k \in Nat
          BY <1>0, <1>n, <4>1, <4>2 DEF Top
        <5>2. CASE k = next[Top]
          BY <1>3, <4>1, <5>1, <5>2
        <5>3. CASE k < next[Top]
          <6>1. k < next[stack[i]]
            BY <5>1, <5>3
          <6>. QED
            <7>1. state[graph[stack[i]][k]] = 2 \/ i < Len(stack)
              BY <1>0, <6>1 DEF DoneIsClosed
            <7>. QED
              BY <4>1, <4>2, <7>1
        <5>. QED
          BY <3>2, <5>1, <5>2, <5>3
      <4>3. CASE i # Len(stack)
        <5>1. stack[i] # Top
          BY <1>0, <4>1, <4>3 DEF StackIsPath, Top
        <5>2. next'[stack[i]] = next[stack[i]]
          BY <1>n, <4>1, <5>1
        <5>. QED
          BY <1>0, <3>2, <5>2 DEF DoneIsClosed
      <4>. QED
        BY <4>2, <4>3
    <3>3. \A other \in DOMAIN graph : state[other] = 0 => next'[other] = 1
      <4>1. stack # <<>> => state[Top] = 1
        BY <1>0 DEF StackIsPath, Top
      <4>. QED
        BY <1>0, <1>n, <4>1 DEF DoneIsClosed
    <3>4. \A other \in DOMAIN graph \ ids' : state[other] # 0
      BY <1>0, <1>3 DEF DoneIsClosed
    <3>. QED
      BY <2>1, <2>2, <3>1, <3>2, <3>3, <3>4 DEF DoneIsClosed
  <2>. QED
    BY <1>0, <2>1, <2>3, <2>4, <2>5 DEF SearchInv, CycleIsReal
<1>. QED
  BY <1>0, <1>1, <1>2, <1>3 DEF SearchTypes

LEMMA InitInv == SearchInit => SearchInv
<1>. SUFFICES ASSUME SearchInit PROVE SearchInv
  OBVIOUS
<1>1. SearchTypes
  BY DEF SearchInit, SearchTypes
<1>2. StackIsPath
  BY DEF SearchInit, StackIsPath
<1>3. DoneIsClosed /\ DoneIsAcyclic
  BY DEF SearchInit, DoneIsClosed, DoneIsAcyclic
<1>. QED
  BY <1>1, <1>2, <1>3 DEF SearchInit, SearchInv, CycleIsReal

LEMMA PathUnchanged ==
    ASSUME UNCHANGED <<graph, state, stack, next, ids>>,
           StackIsPath, DoneIsClosed, DoneIsAcyclic
    PROVE  StackIsPath' /\ DoneIsClosed' /\ DoneIsAcyclic'
<1>1. StackIsPath'
  BY DEF StackIsPath
<1>2. DoneIsClosed'
  BY DEF DoneIsClosed, DependsOn
<1>3. DoneIsAcyclic'
  <2>1. \A id \in DOMAIN graph : DependsOn(id)' = DependsOn(id)
    BY DEF DependsOn
  <2>. QED
    BY <2>1 DEF DoneIsAcyclic
<1>. QED
  BY <1>1, <1>2, <1>3

LEMMA NextInv == SearchInv /\ [SearchNext]_searchVars => SearchInv'
<1>. SUFFICES ASSUME SearchInv, [SearchNext]_searchVars PROVE SearchInv'
  OBVIOUS
<1>0. SearchTypes /\ SearchTypes'
  BY NextTypes DEF SearchInv
<1>1. CASE VisitStep
  <2>1. PICK id \in ids : ids' = ids \ {id} /\ Visit(id)
    BY <1>1 DEF VisitStep
  <2>2. id \in DOMAIN graph /\ ids \subseteq DOMAIN graph
    BY <1>0 DEF SearchTypes
  <2>. QED
    BY <1>0, <1>1, <2>1, <2>2, VisitKeeps DEF VisitStep
<1>2. CASE VisitDependency
  <2>1. next[Top] \in DOMAIN graph[Top] /\ graph[Top][next[Top]] \in DOMAIN graph
    BY <1>0, <1>2, TopTypes DEF VisitDependency
  <2>2. ids \subseteq DOMAIN graph
    BY <1>0 DEF SearchTypes
  <2>. QED
    BY <1>0, <1>2, <2>1, <2>2, VisitKeeps DEF VisitDependency
<1>3. CASE Leave
  <2>1. StackIsPath' /\ DoneIsClosed' /\ DoneIsAcyclic'
    BY <1>0, <1>3, LeaveKeeps DEF SearchInv, Leave
  <2>. QED
    BY <1>0, <1>3, <2>1 DEF SearchInv, CycleIsReal, Leave
<1>4. CASE EndSearch
  <2>1. UNCHANGED <<graph, state, stack, next, ids, cycle>> /\ cycle = <<>>
    BY <1>4 DEF EndSearch, SearchInv
  <2>2. StackIsPath' /\ DoneIsClosed' /\ DoneIsAcyclic'
    BY <1>4, <2>1, PathUnchanged DEF EndSearch, SearchInv
  <2>. QED
    BY <1>0, <1>4, <2>1, <2>2 DEF SearchInv, CycleIsReal, EndSearch
<1>5. CASE UNCHANGED searchVars
  <2>1. cycle = <<>> => StackIsPath' /\ DoneIsClosed' /\ DoneIsAcyclic'
    BY <1>5, PathUnchanged DEF searchVars, SearchInv
  <2>2. CycleIsReal'
    BY <1>5 DEF searchVars, SearchInv, CycleIsReal, DependsOn
  <2>. QED
    BY <1>0, <1>5, <2>1, <2>2 DEF searchVars, SearchInv
<1>. QED
  BY <1>1, <1>2, <1>3, <1>4, <1>5 DEF SearchNext

THEOREM SearchInvariance == SearchSpec => []SearchInv
<1>. QED
  BY InitInv, NextInv, PTL DEF SearchSpec

\* A cycle that findCycle reports is a cycle of the plan, for plans of any
\* size: every step depends on the one after it.
THEOREM ReportedCycleIsReal == SearchSpec => []CycleIsReal
<1>1. SearchInv => CycleIsReal
  BY DEF SearchInv
<1>. QED
  BY <1>1, SearchInvariance, PTL

-----------------------------------------------------------------------------
(***************************************************************************)
(* For the commands that run the search.                                   *)
(***************************************************************************)
\* A search that is started satisfies the invariant.
LEMMA StartInv ==
    ASSUME NEW g, IsGraph(g), StartSearch(g)
    PROVE  SearchInv'
<1>0. /\ graph' = g /\ state' = [id \in DOMAIN g |-> 0] /\ stack' = <<>>
      /\ next' = [id \in DOMAIN g |-> 1] /\ ids' = DOMAIN g /\ cycle' = <<>> /\ searching' = TRUE
  BY DEF StartSearch
<1>1. SearchTypes'
  BY <1>0 DEF SearchTypes, IsGraph
<1>2. StackIsPath'
  BY <1>0 DEF StackIsPath
<1>3. DoneIsClosed' /\ DoneIsAcyclic'
  BY <1>0 DEF DoneIsClosed, DoneIsAcyclic
<1>. QED
  BY <1>0, <1>1, <1>2, <1>3 DEF SearchInv, CycleIsReal

\* A search that passes was of an acyclic graph.
LEMMA PassedIsAcyclic ==
    ASSUME SearchInv, ~searching, cycle = <<>>
    PROVE  Acyclic(graph)
<1>1. \A id \in DOMAIN graph : state[id] = 2
  <2>1. stack = <<>> /\ ids = {} /\ StackIsPath /\ DoneIsClosed /\ SearchTypes
    BY DEF SearchInv
  <2>2. \A id \in DOMAIN graph : state[id] # 1
    <3>1. DOMAIN stack = {}
      BY <2>1
    <3>. QED
      BY <2>1, <3>1 DEF StackIsPath
  <2>3. \A id \in DOMAIN graph : state[id] # 0
    BY <2>1 DEF DoneIsClosed
  <2>. QED
    BY <2>1, <2>2, <2>3 DEF SearchTypes
<1>2. SUFFICES ASSUME NEW steps \in SUBSET DOMAIN graph, steps # {}
               PROVE  \E id \in steps : \A i \in DOMAIN graph[id] : graph[id][i] \notin steps
  BY DEF Acyclic
<1>3. steps \in SUBSET {id \in DOMAIN graph : state[id] = 2}
  BY <1>1
<1>4. PICK id \in steps : DependsOn(id) \cap steps = {}
  BY <1>2, <1>3 DEF SearchInv, DoneIsAcyclic
<1>. QED
  BY <1>4 DEF DependsOn

\* No order has the steps of a cycle.
LEMMA CycleIsNoOrder ==
    ASSUME SearchInv, cycle # <<>>
    PROVE  ~Acyclic(graph)
<1>. DEFINE n == Len(cycle)
            steps == {cycle[i] : i \in 1..(n - 1)}
<1>1. /\ n > 1 /\ cycle[n] = cycle[1]
      /\ \A i \in 1..(n - 1) : cycle[i + 1] \in DependsOn(cycle[i])
      /\ n \in Nat /\ \A i \in 1..(n - 1) : cycle[i] \in DOMAIN graph
  BY DEF CycleIsReal, SearchInv
<1>2. cycle[1] \in steps /\ steps \in SUBSET DOMAIN graph
  BY <1>1
<1>3. ASSUME NEW id \in steps PROVE \E k \in DOMAIN graph[id] : graph[id][k] \in steps
  <2>1. PICK i \in 1..(n - 1) : id = cycle[i]
    OBVIOUS
  <2>2. cycle[i + 1] \in steps
    <3>1. CASE i = n - 1
      BY <1>1, <1>2, <3>1
    <3>2. CASE i # n - 1
      <4>1. i + 1 \in 1..(n - 1)
        BY <3>2
      <4>. QED
        BY <4>1
    <3>. QED
      BY <3>1, <3>2
  <2>. QED
    BY <1>1, <2>1, <2>2 DEF DependsOn
<1>. QED
  BY <1>2, <1>3 DEF Acyclic

\* A plan of any size that findCycle passes has no cycle: any of its steps can
\* be put in an order where each comes after those it depends on.
THEOREM PassedPlanIsAcyclic == SearchSpec => []NoCycleMissed
<1>1. SearchInv => NoCycleMissed
  BY PassedIsAcyclic DEF NoCycleMissed
<1>. QED
  BY <1>1, SearchInvariance, PTL

-----------------------------------------------------------------------------
(***************************************************************************)
(* The search advances.                                                    *)
(***************************************************************************)
LEMMA LeftIsFinite ==
    ASSUME SearchTypes
    PROVE  /\ IsFiniteSet(ids) /\ IsFiniteSet(Pending) /\ IsFiniteSet(Undone)
           /\ Cardinality(ids) \in Nat /\ Cardinality(Pending) \in Nat
           /\ Cardinality(Undone) \in Nat
<1>1. IsFiniteSet(DOMAIN graph)
  BY DEF SearchTypes, IsGraph
<1>2. IsFiniteSet(ids)
  BY <1>1, FS_Subset DEF SearchTypes
<1>3. IsFiniteSet(Undone)
  BY <1>1, FS_Subset DEF Undone
<1>4. IsFiniteSet(Pending)
  <2>. DEFINE of == [id \in DOMAIN graph |-> {id} \X (next[id]..Len(graph[id]))]
              parts == {of[id] : id \in DOMAIN graph}
  <2>1. \A id \in DOMAIN graph : IsFiniteSet(of[id])
    <3>1. SUFFICES ASSUME NEW id \in DOMAIN graph PROVE IsFiniteSet({id} \X (next[id]..Len(graph[id])))
      OBVIOUS
    <3>2. next[id] \in Int /\ Len(graph[id]) \in Int
      BY DEF SearchTypes, IsGraph
    <3>3. IsFiniteSet(next[id]..Len(graph[id]))
      BY <3>2, FS_Interval
    <3>4. IsFiniteSet({id})
      BY FS_Singleton
    <3>. QED
      BY <3>3, <3>4, FS_Product
  <2>2. of \in Surjection(DOMAIN graph, parts)
    BY DEF Surjection
  <2>3. IsFiniteSet(parts)
    <3>. HIDE DEF of, parts
    <3>. QED
      BY <1>1, <2>2, FS_Surjection DEF ExistsSurjection
  <2>4. IsFiniteSet(UNION parts)
    <3>1. \A part \in parts : IsFiniteSet(part)
      BY <2>1
    <3>. HIDE DEF of, parts
    <3>. QED
      BY <2>3, <3>1, FS_UNION
  <2>5. Pending = UNION parts
    BY DEF Pending
  <2>. QED
    BY <2>4, <2>5
<1>. QED
  BY <1>2, <1>3, <1>4, FS_CardinalityType

\* A visit that goes on does not undo a step.
LEMMA VisitUndone ==
    ASSUME SearchTypes, NEW id \in DOMAIN graph, Visit(id), searching', graph' = graph
    PROVE  Undone' = Undone
<1>1. state' = state \/ (state[id] = 0 /\ state' = [state EXCEPT ![id] = 1])
  BY DEF Visit
<1>2. \A other \in DOMAIN graph : state'[other] = 2 <=> state[other] = 2
  BY <1>1 DEF SearchTypes
<1>. QED
  BY <1>2 DEF Undone

LEMMA StepAdvances ==
    ASSUME SearchInv, SearchNext, searching'
    PROVE  Left' < Left
<1>0. SearchTypes /\ searching /\ StackIsPath
  BY DEF SearchInv, SearchNext, VisitStep, VisitDependency, Leave, EndSearch
<1>1. /\ IsFiniteSet(ids) /\ IsFiniteSet(Pending) /\ IsFiniteSet(Undone)
      /\ Cardinality(ids) \in Nat /\ Cardinality(Pending) \in Nat
      /\ Cardinality(Undone) \in Nat
  BY <1>0, LeftIsFinite
<1>2. CASE VisitStep
  <2>1. PICK id \in ids : ids' = ids \ {id} /\ Visit(id)
    BY <1>2 DEF VisitStep
  <2>2. Pending' = Pending
    BY <1>2 DEF VisitStep, Pending
  <2>3. Undone' = Undone
    BY <1>0, <1>2, <2>1, VisitUndone DEF VisitStep, SearchTypes
  <2>4. Cardinality(ids') = Cardinality(ids) - 1
    BY <1>1, <2>1, FS_RemoveElement
  <2>. QED
    BY <1>1, <2>2, <2>3, <2>4 DEF Left
<1>3. CASE VisitDependency
  <2>1. /\ graph' = graph /\ ids' = ids
        /\ next' = [next EXCEPT ![Top] = @ + 1] /\ Visit(graph[Top][next[Top]])
        /\ Top \in DOMAIN graph /\ next[Top] \in Nat /\ Len(graph[Top]) \in Nat
        /\ next[Top] <= Len(graph[Top]) /\ graph[Top][next[Top]] \in DOMAIN graph
    BY <1>0, <1>3, TopTypes DEF VisitDependency
  <2>2. Undone' = Undone
    BY <1>0, <2>1, VisitUndone
  <2>3. Pending' = Pending \ {<<Top, next[Top]>>} /\ <<Top, next[Top]>> \in Pending
    <3>. DEFINE top == Top
                k == next[Top]
    <3>1. \A id \in DOMAIN graph : next[id] \in Nat /\ Len(graph[id]) \in Nat
      BY <1>0 DEF SearchTypes, IsGraph
    <3>2. next' = [next EXCEPT ![top] = k + 1] /\ top \in DOMAIN graph
          /\ k = next[top] /\ k \in Nat /\ k <= Len(graph[top])
      BY <2>1
    <3>. HIDE DEF top, k
    <3>3. \A id \in DOMAIN graph : next'[id] = IF id = top THEN k + 1 ELSE next[id]
      BY <1>0, <3>2 DEF SearchTypes
    <3>4. \A id, i : <<id, i>> \in Pending <=> id \in DOMAIN graph /\ i \in next[id]..Len(graph[id])
      BY DEF Pending
    <3>5. \A id, i : <<id, i>> \in Pending' <=> id \in DOMAIN graph /\ i \in next'[id]..Len(graph[id])
      BY <2>1 DEF Pending
    <3>6. \A pair \in Pending \cup Pending' : pair = <<pair[1], pair[2]>>
      BY DEF Pending
    <3>7. \A id, i : <<id, i>> \in Pending' <=> <<id, i>> \in Pending /\ <<id, i>> # <<top, k>>
      <4>1. SUFFICES ASSUME NEW id, NEW i
                     PROVE  <<id, i>> \in Pending' <=> <<id, i>> \in Pending /\ <<id, i>> # <<top, k>>
        OBVIOUS
      <4>2. CASE id = top
        BY <3>1, <3>2, <3>3, <3>4, <3>5, <4>2
      <4>3. CASE id # top
        BY <3>3, <3>4, <3>5, <4>3
      <4>. QED
        BY <4>2, <4>3
    <3>8. <<top, k>> \in Pending
      BY <3>1, <3>2, <3>4
    <3>9. Pending' = Pending \ {<<top, k>>}
      BY <3>6, <3>7
    <3>. QED
      BY <3>8, <3>9 DEF top, k
  <2>4. Cardinality(Pending') = Cardinality(Pending) - 1
    BY <1>1, <2>3, FS_RemoveElement
  <2>. QED
    BY <1>1, <2>1, <2>2, <2>4 DEF Left
<1>4. CASE Leave
  <2>1. Top \in DOMAIN graph /\ Top \in Undone
    BY <1>0, <1>4, TopTypes DEF Leave, Undone, StackIsPath, Top
  <2>2. Undone' = Undone \ {Top}
    BY <1>0, <1>4, <2>1 DEF Leave, Undone, SearchTypes
  <2>3. Cardinality(Undone') = Cardinality(Undone) - 1
    BY <1>1, <2>1, <2>2, FS_RemoveElement
  <2>4. ids' = ids /\ Pending' = Pending
    BY <1>4 DEF Leave, Pending
  <2>. QED
    BY <1>1, <2>3, <2>4 DEF Left
<1>. QED
  BY <1>2, <1>3, <1>4 DEF SearchNext, EndSearch

\* On every graph the search takes each step and each dependency once: it
\* cannot go on for ever.
THEOREM SearchesAdvance == SearchSpec => SearchAdvances
<1>1. SearchInv /\ [SearchNext]_searchVars =>
         [SearchNext /\ searching' => Left' < Left]_searchVars
  BY StepAdvances
<1>. QED
  BY <1>1, SearchInvariance, PTL DEF SearchSpec, SearchAdvances
===============================================================================
