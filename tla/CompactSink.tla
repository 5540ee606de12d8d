---------------------------- MODULE CompactSink ----------------------------
(***************************************************************************)
(* The compact node sink (compact_sink.go): nodes are indices, a node's    *)
(* first children are kept inline, more of them in slices that are cut out *)
(* of the blocks of one arena, as are the lists of items.  A mark is the   *)
(* lengths of everything, and Rewind cuts back to these lengths: cells are *)
(* not cleared, and neither a node nor a slice from before is restored.    *)
(*                                                                         *)
(* A slice is where it begins, its length and its capacity.  Fields are    *)
(* kept as children are, in an arena of their own, and left out here, as   *)
(* are spans, errors and trivia of the nodes.                              *)
(***************************************************************************)
EXTENDS Integers, Sequences, FiniteSets, Functions

CONSTANTS Inline,     \* children kept in the node
          SpillSize,  \* the first capacity of a slice
          FirstBlock, LastBlock,  \* the sizes of the arena's blocks
          MaxNodes, MaxItems, MaxLists, MaxMarks, MaxBlocks  \* bounds

ASSUME SinkAssumption ==
    /\ Inline \in Nat \ {0} /\ SpillSize \in Nat /\ SpillSize > Inline
    /\ FirstBlock \in Nat \ {0} /\ LastBlock \in Nat \ {0}

VARIABLES nodes,   \* per node the index of its children, or 0
          data,    \* nodeChildren: inline children, their number, index of the spill
          spills,  \* childSpills: slices
          blocks, next,  \* the arena
          lists,   \* slices the parser holds
          marks

vars == <<nodes, data, spills, blocks, next, lists, marks>>

NodeIds == 1 .. Len(nodes)
Cut(seq, n) == SubSeq(seq, 1, n)
Zeros(n) == [i \in 1 .. n |-> 0]
Larger(a, b) == IF a > b THEN a ELSE b
Smaller(a, b) == IF a < b THEN a ELSE b

----------------------------------------------------------------------------
(* The arena; an operator takes its blocks and next as one record. *)

Arena == [blocks |-> blocks, next |-> next]
NilSlice == [block |-> 1, at |-> 0, len |-> 0, cap |-> 0]

LastSize(a) == Len(a.blocks[Len(a.blocks)])
Fits(a, size) == a.blocks # <<>> /\ LastSize(a) - a.next >= size

\* Room for size cells, in a new block where the last one has not enough.
Room(a, size) ==
    LET grown == IF a.blocks = <<>> THEN FirstBlock ELSE Smaller(2 * LastSize(a), LastBlock)
        block == Zeros(Larger(size, grown))
    IN  IF Fits(a, size) THEN a
        ELSE [blocks |-> Append(a.blocks, block), next |-> 0]

\* Mutant: the slice may grow into what is allocated behind it.
AllocatedOpen(a, size) ==
    [arena |-> [a EXCEPT !.next = @ + size],
     slice |-> [block |-> Len(a.blocks), at |-> a.next, len |-> 0, cap |-> LastSize(a) - a.next]]

\* a.next : a.next+size : a.next+size, of an arena with room
Allocated(a, size) ==
    [arena |-> [a EXCEPT !.next = @ + size],
     slice |-> [block |-> Len(a.blocks), at |-> a.next, len |-> 0, cap |-> size]]

Alloc(a, size) == Allocated(Room(a, size), size)

Items(a, s) == IF s.len = 0 THEN <<>> ELSE SubSeq(a.blocks[s.block], s.at + 1, s.at + s.len)

\* copy into the first cells of a slice, which becomes that long
Filled(r, items) ==
    LET from == r.slice.at
        to == from + Len(items)
    IN  [arena |-> [r.arena EXCEPT !.blocks[r.slice.block] =
                       SubSeq(@, 1, from) \o items \o SubSeq(@, to + 1, Len(@))],
         slice |-> [r.slice EXCEPT !.len = Len(items)]]

\* append: in place, or in a slice of twice the capacity.
Appended(a, s, item) ==
    LET all == Append(Items(a, s), item)
    IN  IF s.len < s.cap
        THEN Filled([arena |-> a, slice |-> s], all)
        ELSE Filled(Alloc(a, Larger(SpillSize, 2 * s.cap)), all)

----------------------------------------------------------------------------
(* Children *)

NoChildren == [inline |-> Zeros(Inline), count |-> 0, spill |-> 0]

ChildItems(n) ==
    LET d == data[nodes[n]]
    IN  IF nodes[n] = 0 THEN <<>>
        ELSE IF d.count <= Inline THEN Cut(d.inline, d.count)
        ELSE Items(Arena, spills[d.spill])

\* ensureChildren: the index of a node's children, and all of them.
DataOf(n) == IF nodes[n] = 0 THEN Len(data) + 1 ELSE nodes[n]
Ensured(n) == IF nodes[n] = 0 THEN Append(data, NoChildren) ELSE data

UseArena(a) ==
    /\ Len(a.blocks) <= MaxBlocks
    /\ blocks' = a.blocks /\ next' = a.next

\* Growing is for what is younger than the last mark (NodeStore).
Young(n) == \A k \in DOMAIN marks : n > marks[k].nodes
YoungList == lists # <<>> /\ \A k \in DOMAIN marks : Len(lists) > marks[k].lists

New ==
    /\ Len(nodes) < MaxNodes
    /\ nodes' = Append(nodes, 0)
    /\ UNCHANGED <<data, spills, blocks, next, lists, marks>>

AddInline(n, child) ==
    LET at == DataOf(n)
        d == Ensured(n)
    IN  /\ d[at].count < Inline
        /\ nodes' = [nodes EXCEPT ![n] = at]
        /\ data' = [d EXCEPT ![at].inline[d[at].count + 1] = child, ![at].count = @ + 1]
        /\ UNCHANGED <<spills, blocks, next>>

\* The first child too many takes the others along into a slice.
AddFirstSpilled(n, child) ==
    LET d == data[nodes[n]]
        spilled == Filled(Alloc(Arena, SpillSize), d.inline)
        r == Appended(spilled.arena, spilled.slice, child)
    IN  /\ nodes[n] # 0 /\ d.count = Inline
        /\ spills' = Append(spills, r.slice)
        /\ data' = [data EXCEPT ![nodes[n]].count = @ + 1, ![nodes[n]].spill = Len(spills) + 1]
        /\ UseArena(r.arena)
        /\ UNCHANGED nodes

AddSpilled(n, child) ==
    LET d == data[nodes[n]]
        r == Appended(Arena, spills[d.spill], child)
    IN  /\ nodes[n] # 0 /\ d.count > Inline
        /\ spills' = [spills EXCEPT ![d.spill] = r.slice]
        /\ data' = [data EXCEPT ![nodes[n]].count = @ + 1]
        /\ UseArena(r.arena)
        /\ UNCHANGED nodes

AddChild(n, child) ==
    /\ child # n /\ Young(n) /\ Len(ChildItems(n)) < MaxItems
    /\ AddInline(n, child) \/ AddFirstSpilled(n, child) \/ AddSpilled(n, child)
    /\ UNCHANGED <<lists, marks>>

OpenList ==
    /\ Len(lists) < MaxLists
    /\ lists' = Append(lists, NilSlice)
    /\ UNCHANGED <<nodes, data, spills, blocks, next, marks>>

AppendItem(node) ==
    LET r == Appended(Arena, lists[Len(lists)], node)
    IN  /\ YoungList /\ lists[Len(lists)].len < MaxItems
        /\ lists' = [lists EXCEPT ![Len(lists)] = r.slice]
        /\ UseArena(r.arena)
        /\ UNCHANGED <<nodes, data, spills, marks>>

\* The items were added to their node one by one.
CloseList ==
    /\ YoungList
    /\ lists' = Cut(lists, Len(lists) - 1)
    /\ UNCHANGED <<nodes, data, spills, blocks, next, marks>>

\* The items of the innermost list become the children of a node.
SetFew(n, items) ==
    LET at == DataOf(n)
        inline == [i \in 1 .. Inline |-> IF i <= Len(items) THEN items[i]
                                         ELSE Ensured(n)[at].inline[i]]
    IN  /\ Len(items) <= Inline
        /\ data' = [Ensured(n) EXCEPT
                       ![at] = [inline |-> inline, count |-> Len(items), spill |-> 0]]
        /\ UNCHANGED <<spills, blocks, next>>

SetMany(n, items) ==
    LET r == Filled(Alloc(Arena, Len(items)), items)
    IN  /\ Len(items) > Inline
        /\ spills' = Append(spills, r.slice)
        /\ data' = [Ensured(n) EXCEPT ![DataOf(n)].count = Len(items),
                                      ![DataOf(n)].spill = Len(spills) + 1]
        /\ UseArena(r.arena)

SetChildren(n) ==
    LET items == Items(Arena, lists[Len(lists)])
    IN  /\ YoungList /\ Young(n) /\ \A i \in DOMAIN items : items[i] # n
        /\ SetFew(n, items) \/ SetMany(n, items)
        /\ nodes' = [nodes EXCEPT ![n] = DataOf(n)]
        /\ lists' = Cut(lists, Len(lists) - 1)
        /\ UNCHANGED marks

----------------------------------------------------------------------------
(* Marks *)

Lengths ==
    [nodes |-> Len(nodes), data |-> Len(data), spills |-> Len(spills),
     blocks |-> Len(blocks), next |-> next, lists |-> Len(lists)]

Mark ==
    /\ Len(marks) < MaxMarks
    /\ marks' = Append(marks, Lengths)
    /\ UNCHANGED <<nodes, data, spills, blocks, next, lists>>

\* A trial that succeeds drops its mark.
Keep ==
    /\ marks # <<>>
    /\ marks' = Cut(marks, Len(marks) - 1)
    /\ UNCHANGED <<nodes, data, spills, blocks, next, lists>>

\* rewind of the arena: without blocks at the mark it is empty again.
RewoundNext(mark) == IF mark.blocks = 0 THEN 0 ELSE mark.next

Rewind ==
    LET mark == marks[Len(marks)]
    IN  /\ marks # <<>>
        /\ nodes' = Cut(nodes, mark.nodes)
        /\ data' = Cut(data, mark.data)
        /\ spills' = Cut(spills, mark.spills)
        /\ blocks' = Cut(blocks, mark.blocks)
        /\ next' = RewoundNext(mark)
        /\ lists' = Cut(lists, mark.lists)
        /\ marks' = Cut(marks, Len(marks) - 1)

----------------------------------------------------------------------------
(* The finished tree: the reachable nodes in the order they were made, moved *)
(* down in the array they are in.                                            *)

Reachable(root) ==
    LET closed(S) == root \in S /\ \A n \in S : Range(ChildItems(n)) \subseteq S
    IN  {n \in NodeIds : \A S \in SUBSET NodeIds : closed(S) => n \in S}

\* Mutant: numbered from the root, which is made last.
RemapFromRoot(root, n) == Cardinality({m \in Reachable(root) : m >= n})

Remap(root, n) == Cardinality({m \in Reachable(root) : m <= n})

\* The children of a node by their new numbers.
Renumbered(root, n) == [k \in DOMAIN ChildItems(n) |-> Remap(root, ChildItems(n)[k])]

\* The record of a reachable node goes to its place and gets its children.
MoveRecord(root, records, n) ==
    IF n \in Reachable(root)
    THEN [records EXCEPT ![Remap(root, n)] =
             [node |-> records[n].node, children |-> Renumbered(root, n)]]
    ELSE records

\* The array after the first n nodes were moved.
Moved(root) ==
    LET after[n \in 0 .. Len(nodes)] ==
            IF n = 0 THEN [m \in NodeIds |-> [node |-> m, children |-> <<>>]]
            ELSE MoveRecord(root, after[n - 1], n)
    IN  after

Tree(root) == [i \in 1 .. Cardinality(Reachable(root)) |-> Moved(root)[Len(nodes)][i]]

Init ==
    /\ nodes = <<>> /\ data = <<>> /\ spills = <<>>
    /\ blocks = <<>> /\ next = 0
    /\ lists = <<>> /\ marks = <<>>

Next ==
    \/ New \/ OpenList \/ CloseList \/ Mark \/ Keep \/ Rewind
    \/ \E n \in NodeIds :
          \/ SetChildren(n) \/ AppendItem(n)
          \/ \E child \in NodeIds : AddChild(n, child)

Spec == Init /\ [][Next]_vars

=============================================================================
