--------------------------- MODULE RelationGraph ---------------------------
(***************************************************************************)
(* The graph of which relation is a member of which.  It is a sequence of  *)
(* edges, sorted by child, then by parent; an edge is there as often as    *)
(* the child is a member of the parent.                                    *)
(***************************************************************************)
EXTENDS PlanetBlobs

EdgeBefore(a, b) == a.child < b.child \/ (a.child = b.child /\ a.parent < b.parent)

create(edges) == SortSeq(edges, EdgeBefore)

Children(graph) == {graph[i].child : i \in DOMAIN graph}
Parents(graph) == {graph[i].parent : i \in DOMAIN graph}

node_count(graph) ==
    Cardinality(Children(graph)) + Cardinality(Parents(graph) \ Children(graph))

\* The edges from a child are next to each other.
parent_range(graph, child) ==
    LET before == Cardinality({i \in DOMAIN graph : graph[i].child < child})
        with == Cardinality({i \in DOMAIN graph : graph[i].child = child})
    IN  before + 1 .. before + with

ParentsOf(graph, child) ==
    LET range == parent_range(graph, child)
    IN  [k \in 1 .. Cardinality(range) |-> graph[Min(range) + k - 1].parent]

\* A breadth-first walk from a node upwards, that visits each node once.
ancestors(graph, start) ==
    LET Visit(walk) ==
            LET found == SelectSeq(ParentsOf(graph, Head(walk.queue)),
                                   LAMBDA p : p \notin walk.visited)
            IN  [queue |-> Tail(walk.queue) \o SetToSeq(ToSet(found)),
                 visited |-> walk.visited \cup ToSet(found)]
        Step(walk, k) == IF walk.queue = <<>> THEN walk ELSE Visit(walk)
    IN  FoldLeft(Step, [queue |-> <<start>>, visited |-> {start}],
                 [k \in 1 .. node_count(graph) |-> k]).visited

-----------------------------------------------------------------------------
(***************************************************************************)
(* All nodes, children before parents.  remaining[n] counts the children   *)
(* of n, by edges, that are still to come; when the queue is empty but     *)
(* nodes remain there is a cycle, which the smallest of these breaks.      *)
(***************************************************************************)
nodes(graph) ==
    LET leaves == Children(graph) \ Parents(graph)
    IN  [queue |-> SetToSortSeq(leaves, <),
         remaining |-> [p \in Parents(graph) |->
                           Cardinality({i \in DOMAIN graph : graph[i].parent = p})]]

Exhausted(iter) == iter.queue = <<>> /\ DOMAIN iter.remaining = {}

NextNode(iter) == IF iter.queue # <<>> THEN Head(iter.queue) ELSE Min(DOMAIN iter.remaining)

\* One edge to a parent is accounted for.
CountDown(iter, parent) ==
    IF parent \notin DOMAIN iter.remaining THEN iter
    ELSE IF iter.remaining[parent] = 1
         THEN [queue |-> Append(iter.queue, parent),
               remaining |-> [p \in DOMAIN iter.remaining \ {parent} |-> iter.remaining[p]]]
         ELSE [iter EXCEPT !.remaining[parent] = @ - 1]

\* A mutant: a child that is a member twice is counted down once.
CountDownAll_once(graph, iter, node) ==
    FoldLeft(CountDown, iter, SetToSeq(ToSet(ParentsOf(graph, node))))

CountDownAll(graph, iter, node) == FoldLeft(CountDown, iter, ParentsOf(graph, node))

AfterNext(graph, iter) ==
    LET node == NextNode(iter)
        popped == IF iter.queue # <<>> THEN [iter EXCEPT !.queue = Tail(@)]
                  ELSE [iter EXCEPT !.remaining = [p \in DOMAIN @ \ {node} |-> @[p]]]
    IN  CountDownAll(graph, popped, node)
=============================================================================
