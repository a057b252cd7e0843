----------------------------- MODULE LinkedList ------------------------------
(***************************************************************************)
(* The operations of linked_list_like.h on nodes with Next, or Next and    *)
(* Prev, pointers: singly linked, singly linked with a tail that the       *)
(* caller keeps, and doubly linked.                                        *)
(***************************************************************************)
EXTENDS Integers, Sequences, SequencesExt, FiniteSetsExt

CONSTANTS Nodes, null

LinkedListAssumption == null \notin Nodes /\ IsFiniteSet(Nodes)

VARIABLES
    links,      \* "single", "tail" or "double"
    head, tail, NextOf, PrevOf,
    list        \* ghost: the nodes in their order

vars == <<links, head, tail, NextOf, PrevOf, list>>

Init == /\ links \in {"single", "tail", "double"}
        /\ head = null /\ tail = null
        /\ NextOf = [n \in Nodes |-> null] /\ PrevOf = [n \in Nodes |-> null]
        /\ list = << >>

Outside(node) == node \notin ToSet(list)
Position(node) == CHOOSE i \in 1..Len(list) : list[i] = node
Double == links = "double"

(* An assignment through a pointer, which may be null in the model where   *)
(* the code has tested it.                                                 *)
Set(field, p, value) == IF p = null THEN field ELSE [field EXCEPT ![p] = value]

-----------------------------------------------------------------------------
PushFront(node) ==
    /\ Outside(node)
    /\ list' = <<node>> \o list
    /\ NextOf' = [NextOf EXCEPT ![node] = head]
    /\ PrevOf' = IF Double THEN [Set(PrevOf, head, node) EXCEPT ![node] = null] ELSE PrevOf
    /\ tail' = IF head = null /\ links # "single" THEN node ELSE tail
    /\ head' = node
    /\ UNCHANGED links

(* Along Next, a node further with every turn of a loop.                   *)
Along(p) ==
    LET At[n \in 0..Cardinality(Nodes)] ==
            IF n = 0 THEN p ELSE IF At[n - 1] = null THEN null ELSE NextOf[At[n - 1]]
    IN  At

(* The first node along Next that is one to stop at, or null.              *)
FirstAlong(p, stops) ==
    LET turns == {n \in 0..Cardinality(Nodes) : Along(p)[n] # null /\ Along(p)[n] \in stops}
    IN  IF turns = {} THEN null ELSE Along(p)[Min(turns)]

(* Without a tail, over the nodes to the one that has no next.             *)
LastFrom(p) == FirstAlong(p, {n \in Nodes : NextOf[n] = null})

PushBack(node) ==
    LET p == IF links = "single" THEN LastFrom(head) ELSE tail
    IN  /\ Outside(node)
        /\ list' = Append(list, node)
        /\ NextOf' = Set([NextOf EXCEPT ![node] = null], IF head = null THEN null ELSE p, node)
        /\ PrevOf' = IF Double THEN [PrevOf EXCEPT ![node] = tail] ELSE PrevOf
        /\ head' = IF head = null THEN node ELSE head
        /\ tail' = IF links = "single" THEN tail ELSE node
        /\ UNCHANGED links

(* The caller's tail is not an argument of the singly linked insert_after, *)
(* remove and pop_front: it does not use them where they would move it.    *)
KeepsTail(node) == links = "tail" => node # tail

InsertAfter(pos, node) ==
    /\ Outside(node) /\ ~Outside(pos) /\ KeepsTail(pos)
    /\ list' = InsertAt(list, Position(pos) + 1, node)
    /\ NextOf' = [NextOf EXCEPT ![node] = NextOf[pos], ![pos] = node]
    /\ PrevOf' = IF Double THEN Set([PrevOf EXCEPT ![node] = pos], NextOf[pos], node) ELSE PrevOf
    /\ tail' = IF Double /\ NextOf[pos] = null THEN node ELSE tail
    /\ UNCHANGED <<links, head>>

InsertBefore(pos, node) ==
    /\ Double /\ Outside(node) /\ ~Outside(pos)
    /\ list' = InsertAt(list, Position(pos), node)
    /\ NextOf' = Set([NextOf EXCEPT ![node] = pos], PrevOf[pos], node)
    /\ PrevOf' = [PrevOf EXCEPT ![node] = PrevOf[pos], ![pos] = node]
    /\ head' = IF PrevOf[pos] = null THEN node ELSE head
    /\ UNCHANGED <<links, tail>>

(* With one node the tail dangles after a pop; push_back sets both again.  *)
PopFront ==
    /\ ~Double /\ head # null
    /\ list' = Tail(list)
    /\ head' = NextOf[head]
    /\ NextOf' = [NextOf EXCEPT ![head] = null]
    /\ UNCHANGED <<links, tail, PrevOf>>

(* From the head to the node before the one to remove, if it is there.     *)
Before(prev, node) == FirstAlong(prev, {n \in Nodes : NextOf[n] = node})

RemoveSingly(node) ==
    /\ ~Double /\ (node = head \/ KeepsTail(node)) /\ head # null
    /\ list' = IF Outside(node) THEN list ELSE RemoveAt(list, Position(node))
    /\ IF head = node
       THEN head' = NextOf[head] /\ NextOf' = [NextOf EXCEPT ![node] = null]
       ELSE LET prev == Before(head, node)
            IN  /\ NextOf' = IF prev = null THEN NextOf
                             ELSE [NextOf EXCEPT ![prev] = NextOf[node], ![node] = null]
                /\ head' = head
    /\ UNCHANGED <<links, tail, PrevOf>>

RemoveDoublyKeepsTail(node) ==          \* mutant: tail is left at what was removed
    /\ Double /\ ~Outside(node)
    /\ list' = RemoveAt(list, Position(node))
    /\ head' = IF PrevOf[node] = null THEN NextOf[node] ELSE head
    /\ tail' = tail
    /\ NextOf' = [Set(NextOf, PrevOf[node], NextOf[node]) EXCEPT ![node] = null]
    /\ PrevOf' = [Set(PrevOf, NextOf[node], PrevOf[node]) EXCEPT ![node] = null]
    /\ UNCHANGED links

RemoveDoubly(node) ==
    /\ Double /\ ~Outside(node)
    /\ list' = RemoveAt(list, Position(node))
    /\ head' = IF PrevOf[node] = null THEN NextOf[node] ELSE head
    /\ tail' = IF NextOf[node] = null THEN PrevOf[node] ELSE tail
    /\ NextOf' = [Set(NextOf, PrevOf[node], NextOf[node]) EXCEPT ![node] = null]
    /\ PrevOf' = [Set(PrevOf, NextOf[node], PrevOf[node]) EXCEPT ![node] = null]
    /\ UNCHANGED links

Next == \/ \E n \in Nodes : \/ PushFront(n) \/ PushBack(n)
                            \/ RemoveSingly(n) \/ RemoveDoubly(n)
        \/ \E p, n \in Nodes : InsertAfter(p, n) \/ InsertBefore(p, n)
        \/ PopFront

Spec == Init /\ [][Next]_vars

-----------------------------------------------------------------------------
(* The nodes along a field from p on, until null.                          *)
Reads(field, p, nodes) ==
    IF nodes = << >> THEN p = null
    ELSE /\ p = Head(nodes) /\ field[Last(nodes)] = null
         /\ \A i \in 1..(Len(nodes) - 1) : field[nodes[i]] = nodes[i + 1]

(* Along Next from the head, and along Prev from the tail, are the nodes   *)
(* that were put in and not removed, in their order; the others point      *)
(* nowhere, so that they may be put into a list again.                     *)
ListsHold ==
    /\ Reads(NextOf, head, list)
    /\ Double => Reads(PrevOf, tail, Reverse(list))
    /\ links # "single" /\ list # << >> => tail = Last(list)
    /\ \A n \in Nodes : Outside(n) => NextOf[n] = null /\ (Double => PrevOf[n] = null)
=============================================================================
