-------------------------- MODULE CompactSinkProps --------------------------
(***************************************************************************)
(* What the compact sink promises.                                         *)
(***************************************************************************)
EXTENDS CompactSink

Forest == [n \in NodeIds |-> ChildItems(n)]
ListItems == [i \in DOMAIN lists |-> Items(Arena, lists[i])]
Saved ==
    [k \in DOMAIN marks |-> [children |-> Cut(Forest, marks[k].nodes),
                             lists |-> Cut(ListItems, marks[k].lists)]]

Store == INSTANCE NodeStore WITH children <- Forest, lists <- ListItems, saved <- Saved

\* Cutting back to lengths is bringing back what there was: no cell of a node
\* or a list is overwritten by what is allocated behind it, in a block that a
\* rewind left half full or in a trial that was kept (Mark, Rewind).
StoreSpec == Store!Spec

\* The finished tree is the one that was built: every node that can be reached
\* has one record, with its children in their order, though the records move
\* down in the array they are read from (tree, reachableNodes).
TreeIsForest ==
    marks = <<>> => \A root \in NodeIds :
        LET made == Tree(root)
        IN  \A n \in Reachable(root) :
                /\ made[Remap(root, n)].node = n
                /\ DOMAIN made[Remap(root, n)].children = DOMAIN ChildItems(n)
                /\ \A k \in DOMAIN ChildItems(n) :
                      made[made[Remap(root, n)].children[k]].node = ChildItems(n)[k]

=============================================================================
