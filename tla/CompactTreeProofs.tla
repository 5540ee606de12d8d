------------------------- MODULE CompactTreeProofs -------------------------
(***************************************************************************)
(* The finished tree is the one that was built, proved for every value of  *)
(* the constants: children and items of lists are nodes that exist, also   *)
(* after a rewind, the new numbers keep the order of the old ones, and so  *)
(* a record is read before anything is written over it.                    *)
(***************************************************************************)
EXTENDS CompactSinkProofs, FiniteSetTheorems, Counting, TLAPS

---------------------------------------------------------------------------
(* New numbers. *)

\* How many elements of R are not above n.
Rank(R, n) == Cardinality({m \in R : m <= n})

\* Ranks are numbers from one on, never above the element, in its order.
LEMMA RankFacts ==
    ASSUME NEW N \in Nat, NEW R \in SUBSET (1 .. N)
    PROVE  /\ Cardinality(R) \in Nat
           /\ \A n \in R : /\ Rank(R, n) \in 1 .. Cardinality(R) /\ Rank(R, n) \in 1 .. N
                           /\ Rank(R, n) <= n
           /\ \A n, p \in R : n < p => Rank(R, n) < Rank(R, p)
  <1>1. IsFiniteSet(R) /\ Cardinality(R) \in Nat
    <2>1. IsFiniteSet(1 .. N)
      BY FS_Interval
    <2> QED
      BY <2>1, FS_Subset, FS_CardinalityType
  <1> DEFINE Below(n) == {m \in R : m <= n}
  <1>2. ASSUME NEW n \in R
        PROVE  /\ IsFiniteSet(Below(n)) /\ Cardinality(Below(n)) \in Nat
               /\ Cardinality(Below(n)) <= Cardinality(R)
               /\ Cardinality(Below(n)) <= n /\ Cardinality(Below(n)) # 0
    <2>1. IsFiniteSet(Below(n)) /\ Cardinality(Below(n)) <= Cardinality(R)
      <3>1. Below(n) \in SUBSET R
        OBVIOUS
      <3> QED
        BY <1>1, <3>1, FS_Subset
    <2>2. Cardinality(Below(n)) \in Nat
      BY <2>1, FS_CardinalityType
    <2>3. n \in Nat /\ n >= 1
      BY <1>2
    <2>4. Below(n) \in SUBSET (1 .. n)
      <3>1. \A m \in Below(n) : m \in 1 .. N /\ m <= n
        OBVIOUS
      <3>2. \A m \in Below(n) : m \in 1 .. n
        BY <2>3, <3>1
      <3> QED
        BY <3>2
    <2>5. IsFiniteSet(1 .. n) /\ Cardinality(1 .. n) = n
      BY <2>3, FS_Interval
    <2>6. Cardinality(Below(n)) <= n
      BY <2>4, <2>5, FS_Subset
    <2>7. n \in Below(n)
      BY <2>3
    <2>8. Cardinality(Below(n)) # 0
      BY <2>1, <2>7, FS_EmptySet
    <2> QED
      BY <2>1, <2>2, <2>6, <2>8
  <1>3. ASSUME NEW n \in R, NEW p \in R, n < p
        PROVE  Cardinality(Below(n)) < Cardinality(Below(p))
    <2>1. n \in Nat /\ p \in Nat
      OBVIOUS
    <2>2. Below(n) \in SUBSET Below(p)
      <3>1. \A m \in Below(n) : m \in R /\ m \in 1 .. N /\ m <= n
        OBVIOUS
      <3>2. \A m \in Below(n) : m \in R /\ m <= p
        BY <1>3, <2>1, <3>1
      <3> QED
        BY <3>2
    <2>3. p \in Below(p) /\ p \notin Below(n)
      BY <1>3, <2>1
    <2>4. Below(n) # Below(p)
      BY <2>3
    <2>5. IsFiniteSet(Below(p)) /\ Cardinality(Below(n)) \in Nat /\ Cardinality(Below(p)) \in Nat
      BY <1>2
    <2>6. /\ Cardinality(Below(n)) <= Cardinality(Below(p))
          /\ Cardinality(Below(n)) # Cardinality(Below(p))
      BY <2>2, <2>4, <2>5, FS_Subset
    <2> QED
      BY <2>5, <2>6
  <1>4. \A n \in R : Rank(R, n) = Cardinality(Below(n))
    BY DEF Rank
  <1> HIDE DEF Below
  <1>5. ASSUME NEW n \in R
        PROVE  /\ Rank(R, n) \in 1 .. Cardinality(R) /\ Rank(R, n) \in 1 .. N /\ Rank(R, n) <= n
    <2>1. PICK c \in Nat : c = Cardinality(Below(n)) /\ c <= Cardinality(R) /\ c <= n /\ c # 0
      BY <1>2
    <2>2. n \in Nat /\ n <= N
      OBVIOUS
    <2> QED
      BY <1>1, <1>4, <2>1, <2>2
  <1>6. \A n, p \in R : n < p => Rank(R, n) < Rank(R, p)
    BY <1>3, <1>4
  <1> QED
    BY <1>1, <1>5, <1>6

---------------------------------------------------------------------------
(* Children and items of lists are nodes that exist. *)

\* All elements of a sequence are nodes, of which there are n.
NodesIn(x, n) == \A i \in DOMAIN x : x[i] \in 1 .. n
Within(v, n) == \A i \in DOMAIN v : NodesIn(v[i], n)

\* A store with children c and lists l, and what it saved at marks s.
PointedIn(c, l, s) ==
    /\ Within(c, Len(c)) /\ Within(l, Len(c))
    /\ \A k \in DOMAIN s : /\ Within(s[k].children, Len(s[k].children))
                           /\ Within(s[k].lists, Len(s[k].children))

Pointed == PointedIn(Forest, ListItems, Saved)

\* Nodes of which there are n are nodes when there are more.
LEMMA WithinMore ==
    ASSUME NEW v, NEW n \in Nat, NEW m \in Nat, n <= m, Within(v, n)
    PROVE  Within(v, m)
  BY DEF Within, NodesIn

\* One more sequence of nodes.
LEMMA WithinAppended ==
    ASSUME NEW v \in Views, NEW n \in Nat, Within(v, n), NEW x \in Seq(Nat), NodesIn(x, n)
    PROVE  Within(Append(v, x), n)
  <1>1. v \in Seq(Seq(Nat)) /\ Len(v) \in Nat /\ DOMAIN v = 1 .. Len(v)
    BY LenProperties DEF Views
  <1>2. PICK r : r = Append(v, x)
    OBVIOUS
  <1>3. /\ DOMAIN r = 1 .. Len(v) + 1 /\ r[Len(v) + 1] = x
        /\ \A i \in 1 .. Len(v) : r[i] = v[i]
    BY <1>1, <1>2, AppendProperties
  <1>4. ASSUME NEW i \in DOMAIN r
        PROVE  NodesIn(r[i], n)
    <2>1. PICK k \in Nat : k = Len(v)
      BY <1>1
    <2>2. i \in 1 .. k + 1
      BY <1>3, <1>4, <2>1
    <2>3. i \in 1 .. Len(v) \/ i = Len(v) + 1
      BY <2>1, <2>2
    <2> QED
      BY <1>1, <1>3, <2>3 DEF Within
  <1> QED
    BY <1>2, <1>4 DEF Within

\* One more node in a sequence.
LEMMA NodesAppended ==
    ASSUME NEW n \in Nat, NEW x \in Seq(Nat), NodesIn(x, n), NEW y \in 1 .. n
    PROVE  Append(x, y) \in Seq(Nat) /\ NodesIn(Append(x, y), n)
  <1>1. Len(x) \in Nat /\ DOMAIN x = 1 .. Len(x) /\ y \in Nat
    BY LenProperties
  <1>2. PICK r : r = Append(x, y)
    OBVIOUS
  <1>3. /\ r \in Seq(Nat) /\ DOMAIN r = 1 .. Len(x) + 1 /\ r[Len(x) + 1] = y
        /\ \A i \in 1 .. Len(x) : r[i] = x[i]
    BY <1>1, <1>2, AppendProperties
  <1>4. ASSUME NEW i \in DOMAIN r
        PROVE  r[i] \in 1 .. n
    <2>1. i \in 1 .. Len(x) \/ i = Len(x) + 1
      BY <1>1, <1>3
    <2> QED
      BY <1>1, <1>3, <2>1 DEF NodesIn
  <1> QED
    BY <1>2, <1>3, <1>4 DEF NodesIn

\* Some of the sequences only.
LEMMA WithinCut ==
    ASSUME NEW v \in Views, NEW n, Within(v, n), NEW k \in Nat, k <= Len(v)
    PROVE  Within(Cut(v, k), n)
  <1>1. v \in Seq(Seq(Nat)) /\ Len(v) \in Nat /\ DOMAIN v = 1 .. Len(v)
    BY LenProperties DEF Views
  <1>2. PICK r : r = Cut(v, k)
    OBVIOUS
  <1>3. r \in Seq(Seq(Nat)) /\ Len(r) = k /\ \A i \in 1 .. k : r[i] = v[i]
    BY <1>1, <1>2, CutFacts
  <1>4. DOMAIN r = 1 .. k
    BY <1>3, LenProperties
  <1>5. ASSUME NEW i \in DOMAIN r
        PROVE  NodesIn(r[i], n)
    BY <1>1, <1>3, <1>4 DEF Within
  <1> QED
    BY <1>2, <1>5 DEF Within

\* Another sequence in the place of one.
LEMMA WithinReplaced ==
    ASSUME NEW v, NEW n, Within(v, n), NEW i, NEW x, NodesIn(x, n)
    PROVE  Within([v EXCEPT ![i] = x], n)
  BY DEF Within

\* What holds of every mark holds without the last one.
LEMMA MarksDropped ==
    ASSUME NEW c, NEW l, NEW T, NEW s \in Seq(T), s # <<>>, NEW c2, NEW l2, NEW s2,
           PointedIn(c, l, s), s2 = Cut(s, Len(s) - 1), Within(c2, Len(c2)), Within(l2, Len(c2))
    PROVE  PointedIn(c2, l2, s2)
  <1>1. PICK n \in Nat : n = Len(s) /\ n # 0 /\ DOMAIN s = 1 .. n
    BY LenProperties, EmptySeq
  <1>2. n - 1 \in Nat /\ n - 1 <= Len(s)
    BY <1>1
  <1>3. s2 \in Seq(T) /\ Len(s2) = n - 1 /\ \A i \in 1 .. n - 1 : s2[i] = s[i]
    BY <1>1, <1>2, CutFacts
  <1>4. DOMAIN s2 = 1 .. n - 1
    BY <1>2, <1>3, LenProperties
  <1>5. \A k \in DOMAIN s2 : k \in DOMAIN s /\ s2[k] = s[k]
    BY <1>1, <1>3, <1>4
  <1> QED
    BY <1>5 DEF PointedIn

\* Every step of the store keeps children and items among the nodes.
LEMMA PointedStep ==
    ASSUME Seen, Seen', Pointed, [Store!Next]_(Store!vars)
    PROVE  Pointed'
  <1> DEFINE T == [children : Views, lists : Views]
  <1>1. PICK c, l, s : c = Forest /\ l = ListItems /\ s = Saved
    OBVIOUS
  <1>2. PICK c2, l2, s2 : c2 = Forest' /\ l2 = ListItems' /\ s2 = Saved'
    OBVIOUS
  <1>3. c \in Views /\ l \in Views /\ s \in Seq(T) /\ PointedIn(c, l, s)
    BY <1>1 DEF Seen, Pointed
  <1>4. c2 \in Views /\ l2 \in Views /\ s2 \in Seq(T)
    BY <1>2 DEF Seen
  <1>5. PICK N \in Nat : N = Len(c) /\ DOMAIN c = 1 .. N
    BY <1>3, LenProperties DEF Views
  <1>6. PICK L \in Nat : L = Len(l) /\ DOMAIN l = 1 .. L
    BY <1>3, LenProperties DEF Views
  <1>7. /\ Within(c, N) /\ Within(l, N)
        /\ \A k \in DOMAIN s : /\ Within(s[k].children, Len(s[k].children))
                               /\ Within(s[k].lists, Len(s[k].children))
    BY <1>3, <1>5 DEF PointedIn
  <1> SUFFICES PointedIn(c2, l2, s2)
    BY <1>2 DEF Pointed
  <1>8. CASE Store!New
    <2>1. c2 = Append(c, <<>>) /\ l2 = l /\ s2 = s
      BY <1>1, <1>2, <1>8 DEF Store!New
    <2>2. <<>> \in Seq(Nat) /\ NodesIn(<<>>, N)
      BY DEF NodesIn
    <2>3. Within(c2, N)
      BY <1>3, <1>7, <2>1, <2>2, WithinAppended
    <2>4. Len(c2) = N + 1
      BY <1>3, <1>5, <2>1, <2>2, AppendProperties DEF Views
    <2>5. Within(c2, Len(c2)) /\ Within(l2, Len(c2))
      BY <1>5, <1>7, <2>1, <2>3, <2>4, WithinMore
    <2> QED
      BY <1>7, <2>1, <2>5 DEF PointedIn
  <1>9. CASE Store!OpenList
    <2>1. c2 = c /\ l2 = Append(l, <<>>) /\ s2 = s
      BY <1>1, <1>2, <1>9 DEF Store!OpenList
    <2>2. <<>> \in Seq(Nat) /\ NodesIn(<<>>, N)
      BY DEF NodesIn
    <2>3. Within(l2, N)
      BY <1>3, <1>7, <2>1, <2>2, WithinAppended
    <2> QED
      BY <1>5, <1>7, <2>1, <2>3 DEF PointedIn
  <1>10. ASSUME l2 = Cut(l, Len(l) - 1), l # <<>>
         PROVE  Within(l2, N)
    <2>1. l \in Seq(Seq(Nat)) /\ L # 0
      BY <1>3, <1>6, <1>10, EmptySeq DEF Views
    <2>2. L - 1 \in Nat /\ L - 1 <= Len(l)
      BY <1>6, <2>1
    <2> QED
      BY <1>3, <1>6, <1>7, <1>10, <2>2, WithinCut
  <1>11. CASE Store!CloseList
    <2>1. c2 = c /\ l2 = Cut(l, Len(l) - 1) /\ l # <<>> /\ s2 = s
      BY <1>1, <1>2, <1>11 DEF Store!CloseList, Store!YoungList, Store!Dropped, Cut
    <2> QED
      BY <1>5, <1>7, <1>10, <2>1 DEF PointedIn
  <1>12. CASE Store!Mark
    <2>1. c2 = c /\ l2 = l /\ s2 = Append(s, [children |-> c, lists |-> l])
      BY <1>1, <1>2, <1>12 DEF Store!Mark
    <2>2. PICK S \in Nat : S = Len(s) /\ DOMAIN s = 1 .. S
      BY <1>3, LenProperties
    <2>3. [children |-> c, lists |-> l] \in T
      BY <1>3
    <2>4. /\ DOMAIN s2 = 1 .. S + 1 /\ s2[S + 1] = [children |-> c, lists |-> l]
          /\ \A i \in 1 .. S : s2[i] = s[i]
      BY <1>3, <2>1, <2>2, <2>3, AppendProperties
    <2>5. ASSUME NEW k \in DOMAIN s2
          PROVE  /\ Within(s2[k].children, Len(s2[k].children))
                 /\ Within(s2[k].lists, Len(s2[k].children))
      <3>1. k \in 1 .. S \/ k = S + 1
        BY <2>2, <2>4
      <3>2. CASE k \in 1 .. S
        BY <1>7, <2>2, <2>4, <3>2
      <3>3. CASE k = S + 1
        BY <1>5, <1>7, <2>4, <3>3
      <3> QED
        BY <3>1, <3>2, <3>3
    <2> QED
      BY <1>5, <1>7, <2>1, <2>5 DEF PointedIn
  <1>13. CASE Store!Keep
    <2>1. c2 = c /\ l2 = l /\ s # <<>> /\ s2 = Cut(s, Len(s) - 1)
      BY <1>1, <1>2, <1>13 DEF Store!Keep, Store!Dropped, Cut
    <2>2. Within(c2, Len(c2)) /\ Within(l2, Len(c2))
      BY <1>5, <1>7, <2>1
    <2> QED
      BY <1>3, <2>1, <2>2, MarksDropped
  <1>14. CASE Store!Rewind
    <2>1. /\ s # <<>> /\ s2 = Cut(s, Len(s) - 1)
          /\ c2 = s[Len(s)].children /\ l2 = s[Len(s)].lists
      BY <1>1, <1>2, <1>14 DEF Store!Rewind, Store!Dropped, Cut
    <2>2. PICK S \in Nat : S = Len(s) /\ S # 0 /\ DOMAIN s = 1 .. S
      BY <1>3, <2>1, LenProperties, EmptySeq
    <2>3. S \in DOMAIN s
      BY <2>2
    <2>4. Within(c2, Len(c2)) /\ Within(l2, Len(c2))
      BY <1>7, <2>1, <2>2, <2>3
    <2> QED
      BY <1>3, <2>1, <2>4, MarksDropped
  <1>15. ASSUME NEW n \in Store!Nodes, Store!SetChildren(n)
         PROVE  PointedIn(c2, l2, s2)
    <2>1. /\ l # <<>> /\ c2 = [c EXCEPT ![n] = l[Len(l)]] /\ l2 = Cut(l, Len(l) - 1) /\ s2 = s
      BY <1>1, <1>2, <1>15 DEF Store!SetChildren, Store!YoungList, Store!Dropped, Cut
    <2>2. L \in DOMAIN l
      <3>1. L # 0
        BY <1>3, <1>6, <2>1, EmptySeq DEF Views
      <3> QED
        BY <1>6, <3>1
    <2>3. NodesIn(l[L], N)
      BY <1>7, <2>2 DEF Within
    <2>4. Within(c2, N)
      BY <1>6, <1>7, <2>1, <2>3, WithinReplaced
    <2>5. Len(c2) = N
      <3>1. DOMAIN c2 = DOMAIN c
        BY <2>1
      <3> QED
        BY <1>4, <1>5, <3>1, LenProperties DEF Views
    <2> QED
      BY <1>7, <1>10, <2>1, <2>4, <2>5 DEF PointedIn
  <1>16. ASSUME NEW n \in Store!Nodes, Store!AppendItem(n)
         PROVE  PointedIn(c2, l2, s2)
    <2>1. /\ l # <<>> /\ c2 = c /\ s2 = s /\ n \in 1 .. N
          /\ l2 = [l EXCEPT ![Len(l)] = Append(l[Len(l)], n)]
      BY <1>1, <1>2, <1>5, <1>16 DEF Store!AppendItem, Store!YoungList, Store!Nodes
    <2>2. L \in DOMAIN l /\ l[L] \in Seq(Nat)
      <3>1. L # 0
        BY <1>3, <1>6, <2>1, EmptySeq DEF Views
      <3>2. L \in DOMAIN l
        BY <1>6, <3>1
      <3> QED
        BY <1>3, <1>6, <3>2, ElementOfSeq DEF Views
    <2>3. NodesIn(l[L], N)
      BY <1>7, <2>2 DEF Within
    <2>4. NodesIn(Append(l[L], n), N)
      BY <2>1, <2>2, <2>3, NodesAppended
    <2>5. Within(l2, N)
      BY <1>6, <1>7, <2>1, <2>4, WithinReplaced
    <2> QED
      BY <1>5, <1>7, <2>1, <2>5 DEF PointedIn
  <1>17. ASSUME NEW n \in Store!Nodes, NEW child \in Store!Nodes, Store!AddChild(n, child)
         PROVE  PointedIn(c2, l2, s2)
    <2>1. /\ l2 = l /\ s2 = s /\ n \in 1 .. N /\ child \in 1 .. N
          /\ c2 = [c EXCEPT ![n] = Append(c[n], child)]
      BY <1>1, <1>2, <1>5, <1>17 DEF Store!AddChild, Store!Nodes
    <2>2. c[n] \in Seq(Nat)
      BY <1>3, <1>5, <2>1, ElementOfSeq DEF Views
    <2>3. NodesIn(c[n], N)
      BY <1>5, <1>7, <2>1 DEF Within
    <2>4. NodesIn(Append(c[n], child), N)
      BY <2>1, <2>2, <2>3, NodesAppended
    <2>5. Within(c2, N)
      BY <1>7, <2>1, <2>4, WithinReplaced
    <2>6. Len(c2) = N
      <3>1. DOMAIN c2 = DOMAIN c
        BY <2>1
      <3> QED
        BY <1>4, <1>5, <3>1, LenProperties DEF Views
    <2> QED
      BY <1>7, <2>1, <2>5, <2>6 DEF PointedIn
  <1>18. CASE UNCHANGED Store!vars
    <2>1. c2 = c /\ l2 = l /\ s2 = s
      BY <1>1, <1>2, <1>18 DEF Store!vars
    <2> QED
      BY <1>3, <2>1
  <1> QED
    BY <1>8, <1>9, <1>11, <1>12, <1>13, <1>14, <1>15, <1>16, <1>17, <1>18 DEF Store!Next

---------------------------------------------------------------------------
(* The records are moved one after the other. *)

\* A node that exists has children that exist.
LEMMA ChildrenExist ==
    ASSUME SinkInv, Pointed, NEW n \in NodeIds
    PROVE  /\ ChildItems(n) \in Seq(Nat)
           /\ \A k \in DOMAIN ChildItems(n) : ChildItems(n)[k] \in NodeIds
  <1>1. Seen /\ NodeIds = 1 .. Len(nodes)
    BY SinkSeen, TypeFacts DEF SinkInv
  <1>2. PICK c : c = Forest
    OBVIOUS
  <1>3. c \in Seq(Seq(Nat)) /\ Len(c) = Len(nodes) /\ c[n] = ChildItems(n) /\ Within(c, Len(c))
    BY <1>1, <1>2 DEF Seen, Views, Pointed, PointedIn
  <1>4. n \in DOMAIN c
    BY <1>1, <1>3, LenProperties
  <1>5. NodesIn(c[n], Len(c)) /\ c[n] \in Seq(Nat)
    BY <1>3, <1>4, ElementOfSeq, LenProperties DEF Within
  <1> QED
    BY <1>1, <1>3, <1>5 DEF NodesIn

\* From the root on, all children of what is reachable are.
LEMMA ReachableFacts ==
    ASSUME SinkInv, Pointed, NEW root \in NodeIds
    PROVE  /\ Reachable(root) \in SUBSET NodeIds /\ root \in Reachable(root)
           /\ \A n \in Reachable(root) : \A k \in DOMAIN ChildItems(n) :
                 ChildItems(n)[k] \in Reachable(root)
  <1> DEFINE Closed(S) == root \in S /\ \A n \in S : Range(ChildItems(n)) \subseteq S
  <1>1. Reachable(root) = {n \in NodeIds : \A S \in SUBSET NodeIds : Closed(S) => n \in S}
    BY DEF Reachable
  <1>2. ASSUME NEW n \in Reachable(root), NEW k \in DOMAIN ChildItems(n)
        PROVE  ChildItems(n)[k] \in Reachable(root)
    <2>1. n \in NodeIds
      BY <1>1, <1>2
    <2>2. PICK y \in NodeIds : y = ChildItems(n)[k]
      BY <1>2, <2>1, ChildrenExist
    <2>3. y \in Range(ChildItems(n))
      BY <1>2, <2>2 DEF Range
    <2>4. ASSUME NEW S \in SUBSET NodeIds, Closed(S)
          PROVE  y \in S
      <3>1. n \in S
        BY <1>1, <1>2, <2>4
      <3> QED
        BY <2>3, <2>4, <3>1
    <2> QED
      BY <1>1, <2>2, <2>4
  <1> QED
    BY <1>1, <1>2

Blank == [m \in NodeIds |-> [node |-> m, children |-> <<>>]]
Records == [NodeIds -> [node : NodeIds, children : Seq(Nat)]]

\* h is the array before and after each move.
IsMoved(root, h) ==
    h = [n \in 0 .. Len(nodes) |-> IF n = 0 THEN Blank ELSE MoveRecord(root, h[n - 1], n)]

\* A moved record is a record.
LEMMA MoveTyped ==
    ASSUME SinkInv, Pointed, NEW root \in NodeIds, NEW r \in Records, NEW n \in NodeIds
    PROVE  /\ MoveRecord(root, r, n) \in Records
           /\ n \in Reachable(root) => Renumbered(root, n) \in Seq(Nat)
  <1>1. PICK N \in Nat : N = Len(nodes) /\ NodeIds = 1 .. N
    BY TypeFacts DEF SinkInv
  <1>2. PICK R : R = Reachable(root)
    OBVIOUS
  <1>3. R \in SUBSET (1 .. N)
    BY <1>1, <1>2, ReachableFacts
  <1>4. \A m \in R : Remap(root, m) = Rank(R, m) /\ Rank(R, m) \in 1 .. N
    BY <1>2, <1>3, RankFacts, <1>1 DEF Remap, Rank
  <1>5. ASSUME n \in R
        PROVE  Renumbered(root, n) \in Seq(Nat)
    <2>1. PICK x \in Seq(Nat) : x = ChildItems(n)
      BY ChildrenExist
    <2>2. Len(x) \in Nat /\ DOMAIN x = 1 .. Len(x)
      BY LenProperties
    <2>3. \A k \in DOMAIN x : x[k] \in R
      BY <1>2, <1>5, <2>1, ReachableFacts
    <2>4. \A k \in DOMAIN x : Remap(root, x[k]) \in Nat
      BY <1>4, <2>3
    <2>5. Renumbered(root, n) = [k \in 1 .. Len(x) |-> Remap(root, x[k])]
      BY <2>1, <2>2 DEF Renumbered
    <2>6. PICK q : q = [k \in 1 .. Len(x) |-> Remap(root, x[k])]
      OBVIOUS
    <2>7. q \in [1 .. Len(x) -> Nat]
      BY <2>2, <2>4, <2>6
    <2>8. q \in Seq(Nat)
      BY <2>2, <2>7
    <2> QED
      BY <2>5, <2>6, <2>8
  <1>6. CASE n \in R
    <2>1. PICK q \in Seq(Nat) : q = Renumbered(root, n)
      BY <1>5, <1>6
    <2>2. r[n].node \in NodeIds
      BY DEF Records
    <2>3. PICK e : e = [node |-> r[n].node, children |-> q]
      OBVIOUS
    <2>4. e \in [node : NodeIds, children : Seq(Nat)]
      BY <2>2, <2>3
    <2>5. MoveRecord(root, r, n) = [r EXCEPT ![Remap(root, n)] = e]
      BY <1>2, <1>6, <2>1, <2>3 DEF MoveRecord
    <2>6. [r EXCEPT ![Remap(root, n)] = e] \in Records
      BY <2>4 DEF Records
    <2> QED
      BY <1>2, <1>6, <2>1, <2>5, <2>6
  <1>7. CASE n \notin R
    BY <1>2, <1>7 DEF MoveRecord
  <1> QED
    BY <1>6, <1>7

\* Moving is well defined: the array after each move is made of the one before.
LEMMA MovedExists ==
    ASSUME SinkInv, Pointed, NEW root \in NodeIds
    PROVE  \E h : IsMoved(root, h)
  <1>1. PICK N \in Nat : N = Len(nodes) /\ NodeIds = 1 .. N
    BY TypeFacts DEF SinkInv
  <1>2. PICK b \in Records : b = Blank
    <2>1. <<>> \in Seq(Nat)
      OBVIOUS
    <2> QED
      BY <2>1 DEF Blank, Records
  <1>3. PICK s : s = [p \in Records \X (1 .. N) |-> MoveRecord(root, p[1], p[2])]
    OBVIOUS
  <1>4. s \in [Records \X (1 .. N) -> Records]
    BY <1>1, <1>3, MoveTyped
  <1>5. \A r \in Records, n \in 1 .. N : s[<<r, n>>] = MoveRecord(root, r, n)
    BY <1>3
  <1>6. PICK e : Iteration(e, Records, N, b, s)
    BY <1>4, Iterates
  <1>7. PICK f \in [0 .. N -> Records] :
           f[0] = b /\ \A n \in 1 .. N : f[n] = s[<<f[n - 1], n>>]
    BY <1>6 DEF Iteration
  <1>8. ASSUME NEW n \in 0 .. N
        PROVE  f[n] = IF n = 0 THEN Blank ELSE MoveRecord(root, f[n - 1], n)
    <2>1. CASE n = 0
      BY <1>2, <1>7, <2>1
    <2>2. CASE n # 0
      <3>1. n \in 1 .. N /\ n - 1 \in 0 .. N
        BY <2>2
      <3>2. f[n - 1] \in Records
        BY <3>1
      <3> QED
        BY <1>5, <1>7, <2>2, <3>1, <3>2
    <2> QED
      BY <2>1, <2>2
  <1>9. PICK g : g = [n \in 0 .. N |-> IF n = 0 THEN Blank ELSE MoveRecord(root, f[n - 1], n)]
    OBVIOUS
  <1>10. f = g
    BY <1>8, <1>9
  <1>11. IsMoved(root, f)
    BY <1>1, <1>9, <1>10 DEF IsMoved
  <1> QED
    BY <1>11

\* So the recursive definition says what it seems to say.
LEMMA MovedFacts ==
    ASSUME SinkInv, Pointed, NEW root \in NodeIds
    PROVE  /\ Moved(root)[0] = Blank
           /\ \A n \in NodeIds : Moved(root)[n] = MoveRecord(root, Moved(root)[n - 1], n)
  <1>1. PICK N \in Nat : N = Len(nodes) /\ NodeIds = 1 .. N
    BY TypeFacts DEF SinkInv
  <1>2. Moved(root) = CHOOSE h : IsMoved(root, h)
    BY DEF Moved, IsMoved, Blank
  <1>3. IsMoved(root, Moved(root))
    BY <1>2, MovedExists
  <1>4. PICK h : h = Moved(root)
    OBVIOUS
  <1>5. h = [n \in 0 .. N |-> IF n = 0 THEN Blank ELSE MoveRecord(root, h[n - 1], n)]
    BY <1>1, <1>3, <1>4 DEF IsMoved
  <1>6. \A n \in 0 .. N : h[n] = IF n = 0 THEN Blank ELSE MoveRecord(root, h[n - 1], n)
    BY <1>5
  <1>7. 0 \in 0 .. N /\ \A n \in 1 .. N : n \in 0 .. N /\ n # 0
    OBVIOUS
  <1>8. h[0] = Blank
    BY <1>6, <1>7
  <1>9. \A n \in 1 .. N : h[n] = MoveRecord(root, h[n - 1], n)
    BY <1>6, <1>7
  <1> QED
    BY <1>1, <1>4, <1>8, <1>9

---------------------------------------------------------------------------
(* The finished tree. *)

\* After the first n nodes were moved in array r: those of them that can be
\* reached are in their places, and the nodes to come have not been touched.
Done(root, r, n) ==
    /\ r \in Records
    /\ \A m \in Reachable(root) : m <= n =>
          r[Remap(root, m)] = [node |-> m, children |-> Renumbered(root, m)]
    /\ \A m \in NodeIds : m > n => r[m].node = m

\* One more node is moved.
LEMMA DoneStep ==
    ASSUME SinkInv, Pointed, NEW root \in NodeIds, NEW n \in Nat, n + 1 \in NodeIds,
           NEW r, Done(root, r, n)
    PROVE  Done(root, MoveRecord(root, r, n + 1), n + 1)
  <1>1. PICK N \in Nat : N = Len(nodes) /\ NodeIds = 1 .. N
    BY TypeFacts DEF SinkInv
  <1>2. PICK p \in 1 .. N : p = n + 1
    BY <1>1
  <1>3. PICK R : R = Reachable(root)
    OBVIOUS
  <1>4. R \in SUBSET (1 .. N)
    BY <1>1, <1>3, ReachableFacts
  <1>5. /\ \A m \in R : Remap(root, m) \in 1 .. N /\ Remap(root, m) <= m
        /\ \A m, q \in R : m < q => Remap(root, m) < Remap(root, q)
    <2>1. \A m \in R : Remap(root, m) = Rank(R, m)
      BY <1>3 DEF Remap, Rank
    <2> QED
      BY <1>4, <2>1, RankFacts
  <1>6. r \in Records
    BY DEF Done
  <1>7. PICK v : v = MoveRecord(root, r, p)
    OBVIOUS
  <1>8. v \in Records
    BY <1>1, <1>2, <1>6, <1>7, MoveTyped
  <1>9. /\ \A m \in R : m <= n =>
              r[Remap(root, m)] = [node |-> m, children |-> Renumbered(root, m)]
        /\ \A m \in 1 .. N : m > n => r[m].node = m
    BY <1>1, <1>3 DEF Done
  <1>10. CASE p \notin R
    <2>1. v = r
      BY <1>3, <1>7, <1>10 DEF MoveRecord
    <2>2. \A m \in R : m <= p => m <= n
      BY <1>2, <1>4, <1>10
    <2>3. \A m \in 1 .. N : m > p => m > n
      BY <1>2
    <2> QED
      BY <1>1, <1>2, <1>3, <1>6, <1>7, <1>9, <2>1, <2>2, <2>3 DEF Done
  <1>11. CASE p \in R
    <2>1. PICK j \in 1 .. N : j = Remap(root, p) /\ j <= p
      BY <1>5, <1>11
    <2>2. r[p].node = p
      BY <1>2, <1>9
    <2>3. v = [r EXCEPT ![j] = [node |-> p, children |-> Renumbered(root, p)]]
      BY <1>3, <1>7, <1>11, <2>1, <2>2 DEF MoveRecord
    <2>4. DOMAIN r = 1 .. N
      BY <1>1, <1>6 DEF Records
    <2>5. ASSUME NEW m \in R, m <= p
          PROVE  v[Remap(root, m)] = [node |-> m, children |-> Renumbered(root, m)]
      <3>1. CASE m = p
        BY <2>1, <2>3, <2>4, <3>1
      <3>2. CASE m # p
        <4>1. m <= n /\ m < p
          BY <1>2, <1>4, <2>5, <3>2
        <4>2. Remap(root, m) # j
          <5>1. Remap(root, m) \in 1 .. N /\ Remap(root, m) < Remap(root, p)
            BY <1>5, <1>11, <4>1
          <5> QED
            BY <2>1, <5>1
        <4>3. v[Remap(root, m)] = r[Remap(root, m)]
          BY <1>5, <2>3, <2>4, <4>2
        <4> QED
          BY <1>9, <4>1, <4>3
      <3> QED
        BY <3>1, <3>2
    <2>6. ASSUME NEW m \in 1 .. N, m > p
          PROVE  v[m].node = m
      <3>1. m > n /\ m # j
        BY <1>2, <2>1, <2>6
      <3>2. v[m] = r[m]
        BY <2>3, <2>4, <3>1
      <3> QED
        BY <1>9, <3>1, <3>2
    <2> QED
      BY <1>1, <1>2, <1>3, <1>7, <1>8, <2>5, <2>6 DEF Done
  <1> QED
    BY <1>10, <1>11

\* In the end every node that can be reached is in its place.
LEMMA AllMoved ==
    ASSUME SinkInv, Pointed, NEW root \in NodeIds
    PROVE  \A m \in Reachable(root) :
              Moved(root)[Len(nodes)][Remap(root, m)] = [node |-> m, children |-> Renumbered(root, m)]
  <1>1. PICK N \in Nat : N = Len(nodes) /\ NodeIds = 1 .. N
    BY TypeFacts DEF SinkInv
  <1> DEFINE S == {n \in 0 .. N : Done(root, Moved(root)[n], n)}
  <1>2. 0 \in S
    <2>1. PICK b : b = Blank
      OBVIOUS
    <2>2. <<>> \in Seq(Nat)
      OBVIOUS
    <2>3. b \in Records
      BY <2>1, <2>2 DEF Blank, Records
    <2>4. \A m \in NodeIds : b[m].node = m
      BY <2>1 DEF Blank
    <2>5. \A m \in Reachable(root) : ~(m <= 0)
      <3>1. \A m \in Reachable(root) : m \in 1 .. N
        BY <1>1, ReachableFacts
      <3> QED
        BY <3>1
    <2>6. Done(root, b, 0)
      BY <2>3, <2>4, <2>5 DEF Done
    <2>7. Moved(root)[0] = b
      BY <2>1, MovedFacts
    <2> QED
      BY <2>6, <2>7
  <1>3. ASSUME NEW n \in 0 .. N - 1, n \in S
        PROVE  n + 1 \in S
    <2>1. n \in Nat /\ n + 1 \in NodeIds /\ n + 1 \in 0 .. N /\ (n + 1) - 1 = n
      BY <1>1
    <2>2. PICK r : r = Moved(root)[n]
      OBVIOUS
    <2>3. Done(root, r, n)
      BY <1>3, <2>2
    <2>4. Done(root, MoveRecord(root, r, n + 1), n + 1)
      BY <2>1, <2>3, DoneStep
    <2>5. Moved(root)[n + 1] = MoveRecord(root, r, n + 1)
      BY <2>1, <2>2, MovedFacts
    <2> QED
      BY <2>1, <2>4, <2>5
  <1> HIDE DEF S
  <1>4. 0 .. N \subseteq S
    BY <1>2, <1>3, Counted
  <1>5. Done(root, Moved(root)[N], N)
    BY <1>4 DEF S
  <1>6. \A m \in Reachable(root) : m <= N
    BY <1>1, ReachableFacts
  <1> QED
    BY <1>1, <1>5, <1>6 DEF Done

\* The tree made of a store whose children exist is its forest.
LEMMA TreeOfForest == SinkInv /\ Pointed => TreeIsForest
  <1> SUFFICES ASSUME SinkInv, Pointed, NEW root \in NodeIds, NEW n \in Reachable(root)
               PROVE  /\ Tree(root)[Remap(root, n)].node = n
                      /\ DOMAIN Tree(root)[Remap(root, n)].children = DOMAIN ChildItems(n)
                      /\ \A k \in DOMAIN ChildItems(n) :
                            Tree(root)[Tree(root)[Remap(root, n)].children[k]].node = ChildItems(n)[k]
    BY DEF TreeIsForest
  <1>1. PICK N \in Nat : N = Len(nodes) /\ NodeIds = 1 .. N
    BY TypeFacts DEF SinkInv
  <1>2. PICK R : R = Reachable(root)
    OBVIOUS
  <1>3. R \in SUBSET (1 .. N)
    BY <1>1, <1>2, ReachableFacts
  <1>4. \A m \in R : Remap(root, m) \in 1 .. Cardinality(R)
    <2>1. \A m \in R : Remap(root, m) = Rank(R, m)
      BY <1>2 DEF Remap, Rank
    <2> QED
      BY <1>3, <2>1, RankFacts
  <1>5. ASSUME NEW m \in R
        PROVE  Tree(root)[Remap(root, m)] = [node |-> m, children |-> Renumbered(root, m)]
    <2>1. Tree(root)[Remap(root, m)] = Moved(root)[Len(nodes)][Remap(root, m)]
      BY <1>2, <1>4 DEF Tree
    <2> QED
      BY <1>2, <2>1, AllMoved
  <1>6. PICK x : x = ChildItems(n)
    OBVIOUS
  <1>7. \A k \in DOMAIN x : x[k] \in R
    BY <1>2, <1>6, ReachableFacts
  <1>8. PICK c : c = Renumbered(root, n)
    OBVIOUS
  <1>9. DOMAIN c = DOMAIN x /\ \A k \in DOMAIN x : c[k] = Remap(root, x[k])
    BY <1>6, <1>8 DEF Renumbered
  <1>10. Tree(root)[Remap(root, n)] = [node |-> n, children |-> c]
    BY <1>2, <1>5, <1>8
  <1>11. ASSUME NEW k \in DOMAIN x
         PROVE  Tree(root)[c[k]].node = x[k]
    <2>1. PICK m \in R : m = x[k]
      BY <1>7
    <2>2. c[k] = Remap(root, m)
      BY <1>9, <2>1
    <2>3. PICK e : e = [node |-> m, children |-> Renumbered(root, m)]
      OBVIOUS
    <2>4. Tree(root)[Remap(root, m)] = e
      BY <1>5, <2>3
    <2>5. e.node = m
      BY <2>3
    <2> QED
      BY <2>1, <2>2, <2>4, <2>5
  <1> QED
    BY <1>6, <1>9, <1>10, <1>11

\* The children of the nodes, the items of the lists being read and what is
\* saved of both are nodes that exist (node_sink.go: AddChild, SetChildren,
\* Rewind): never one that a rewind took back, or that was not made yet.
THEOREM AlwaysPointed == Spec => [](SinkInv /\ Pointed)
  <1>1. Init => SinkInv /\ Pointed
    <2>1. Store!Init => Pointed
      BY DEF Store!Init, Pointed, PointedIn, Within, NodesIn
    <2> QED
      BY <2>1, SinkInvInit
  <1>2. SinkInv /\ Pointed /\ [Next]_vars => SinkInv' /\ Pointed'
    <2> SUFFICES ASSUME SinkInv, Pointed, [Next]_vars
                 PROVE  SinkInv' /\ Pointed'
      OBVIOUS
    <2>1. SinkInv' /\ [Store!Next]_(Store!vars)
      BY SinkStep
    <2>2. Seen /\ Seen'
      BY <2>1, SinkSeen, SeenNext
    <2> QED
      BY <2>1, <2>2, PointedStep
  <1> QED
    BY <1>1, <1>2, PTL DEF Spec

\* The finished tree has a record for every node that can be reached, and it
\* has the children the parser gave it, in their order, whatever rewinds came
\* before (compact_sink.go: tree, reachableNodes): the loop that moves records
\* down in the array it reads never overwrites one it has not read.
THEOREM TreeAlwaysForest == Spec => []TreeIsForest
  BY AlwaysPointed, TreeOfForest, PTL

============================================================================
