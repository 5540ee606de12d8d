----------------------------- MODULE NodeStore -----------------------------
(***************************************************************************)
(* What the parser expects of a node sink (node_sink.go): nodes whose      *)
(* children are added one by one, lists of items that are read before      *)
(* their node exists, and marks.  Rewind brings everything back to what it *)
(* was at the last mark, however it was stored.                            *)
(*                                                                         *)
(* A node is its number.  The parser grows only nodes and lists it made    *)
(* after the last mark: a trial never touches what was read before it.     *)
(***************************************************************************)
EXTENDS Integers, Sequences

VARIABLES children,  \* the children of each node
          lists,     \* the lists being read, the innermost last
          saved      \* what there was at each mark

vars == <<children, lists, saved>>

Nodes == 1 .. Len(children)

Young(n) == \A k \in DOMAIN saved : n > Len(saved[k].children)
YoungList == lists # <<>> /\ \A k \in DOMAIN saved : Len(lists) > Len(saved[k].lists)

Dropped(seq) == SubSeq(seq, 1, Len(seq) - 1)

Init == children = <<>> /\ lists = <<>> /\ saved = <<>>

New == children' = Append(children, <<>>) /\ UNCHANGED <<lists, saved>>

AddChild(n, child) ==
    /\ n \in Nodes /\ child \in Nodes \ {n} /\ Young(n)
    /\ children' = [children EXCEPT ![n] = Append(@, child)]
    /\ UNCHANGED <<lists, saved>>

OpenList == lists' = Append(lists, <<>>) /\ UNCHANGED <<children, saved>>

AppendItem(node) ==
    /\ YoungList /\ node \in Nodes
    /\ lists' = [lists EXCEPT ![Len(lists)] = Append(@, node)]
    /\ UNCHANGED <<children, saved>>

\* The items were added to their node one by one.
CloseList == YoungList /\ lists' = Dropped(lists) /\ UNCHANGED <<children, saved>>

SetChildren(n) ==
    /\ YoungList /\ n \in Nodes /\ Young(n)
    /\ \A i \in DOMAIN lists[Len(lists)] : lists[Len(lists)][i] # n
    /\ children' = [children EXCEPT ![n] = lists[Len(lists)]]
    /\ lists' = Dropped(lists)
    /\ UNCHANGED saved

Mark ==
    /\ saved' = Append(saved, [children |-> children, lists |-> lists])
    /\ UNCHANGED <<children, lists>>

Keep == saved # <<>> /\ saved' = Dropped(saved) /\ UNCHANGED <<children, lists>>

Rewind ==
    /\ saved # <<>>
    /\ children' = saved[Len(saved)].children
    /\ lists' = saved[Len(saved)].lists
    /\ saved' = Dropped(saved)

Next ==
    \/ New \/ OpenList \/ CloseList \/ Mark \/ Keep \/ Rewind
    \/ \E n \in Nodes :
          \/ SetChildren(n) \/ AppendItem(n)
          \/ \E child \in Nodes : AddChild(n, child)

Spec == Init /\ [][Next]_vars

=============================================================================
