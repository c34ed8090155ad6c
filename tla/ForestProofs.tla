---------------------------- MODULE ForestProofs ----------------------------
(***************************************************************************)
(* What is proved about isolation trees, for any latencies, subsample      *)
(* sizes and numbers of trees.  The inductive invariant of their building  *)
(* says of every call still to make where its bucket comes from, and of    *)
(* every side of a split that it is a node built from that side's bucket   *)
(* or a call that waits with it; that of predictions, what the root of a   *)
(* tree, the trees of a file and the walk through them tell of the number  *)
(* of latencies a forest was trained on.                                   *)
(***************************************************************************)
EXTENDS IsoForest, SequenceTheorems, FiniteSetTheorems, TLAPS

Grown == [bucket : SUBSET (DOMAIN data), depth : Nat, drawn : Nat]

----------------------------------------------------------------------------
(* Sequences: taking the first of a stack, putting two in its place.       *)

LEMMA Popped ==
  ASSUME NEW S, NEW q \in Seq(S), q # <<>>
  PROVE  /\ Head(q) \in S /\ Head(q) = q[1] /\ 1 \in DOMAIN q /\ Tail(q) \in Seq(S)
         /\ Len(Tail(q)) = Len(q) - 1
         /\ \A k \in DOMAIN Tail(q) : k + 1 \in DOMAIN q /\ k + 1 # 1 /\ Tail(q)[k] = q[k + 1]
         /\ \A k \in DOMAIN q : k = 1 \/ (k - 1 \in DOMAIN Tail(q) /\ Tail(q)[k - 1] = q[k])
  OBVIOUS

LEMMA Pushed ==
  ASSUME NEW S, NEW a \in S, NEW b \in S, NEW q \in Seq(S)
  PROVE  LET p == <<a, b>> \o q
         IN /\ p \in Seq(S) /\ p[1] = a /\ p[2] = b /\ 1 \in DOMAIN p /\ 2 \in DOMAIN p
            /\ \A k \in DOMAIN p : k = 1 \/ k = 2 \/ (k - 2 \in DOMAIN q /\ p[k] = q[k - 2])
            /\ \A k \in DOMAIN q : k + 2 \in DOMAIN p /\ p[k + 2] = q[k]
<1> DEFINE p == <<a, b>> \o q
<1>1. <<a, b>> \in Seq(S) /\ Len(<<a, b>>) = 2 /\ <<a, b>>[1] = a /\ <<a, b>>[2] = b
  OBVIOUS
<1>2. /\ p \in Seq(S) /\ Len(p) = 2 + Len(q)
      /\ \A k \in 1..(2 + Len(q)) : p[k] = IF k <= 2 THEN <<a, b>>[k] ELSE q[k - 2]
  BY <1>1, ConcatProperties, Zenon
<1>3. Len(q) \in Nat /\ DOMAIN q = 1..Len(q) /\ DOMAIN p = 1..Len(p)
  BY <1>2
<1>4. p[1] = a /\ p[2] = b /\ 1 \in DOMAIN p /\ 2 \in DOMAIN p
  BY <1>1, <1>2, <1>3
<1>5. \A k \in DOMAIN p : k = 1 \/ k = 2 \/ (k - 2 \in DOMAIN q /\ p[k] = q[k - 2])
  BY <1>2, <1>3
<1>6. \A k \in DOMAIN q : k + 2 \in DOMAIN p /\ p[k + 2] = q[k]
  BY <1>2, <1>3
<1>. QED BY <1>2, <1>4, <1>5, <1>6

----------------------------------------------------------------------------
(* Numbers and nodes.                                                      *)

LEMMA Multiple ==
  ASSUME NEW u \in Nat, u > 0, NEW k \in Int
  PROVE  (u * k) % u = 0
<1> DEFINE q == (u * k) \div u
           r == (u * k) % u
<1>1. u * k \in Int
  OBVIOUS
<1>2. q \in Int /\ r \in Int /\ u * k = u * q + r /\ 0 <= r /\ r < u
  BY <1>1
<1>3. u * (k - q) = r
  BY <1>2
<1> HIDE DEF q, r
<1>4. ~(k - q >= 1)
  BY <1>2, <1>3
<1>5. ~(k - q <= -1)
  BY <1>2, <1>3
<1>6. k = q
  BY <1>2, <1>4, <1>5
<1>7. r = 0
  BY <1>2, <1>6
<1>. QED BY <1>7 DEF r

\* A double stored in an int is the whole number not above it.
LEMMA TruncBelow ==
  ASSUME NEW x \in Int
  PROVE  Trunc(x) \in Int /\ Trunc(x) % Unit = 0 /\ Trunc(x) <= x
<1>1. Unit \in Nat /\ Unit > 0
  BY ForestAssumption
<1>2. x \div Unit \in Int /\ x = Unit * (x \div Unit) + (x % Unit) /\ x % Unit >= 0
  BY <1>1
<1>3. (Unit * (x \div Unit)) % Unit = 0
  BY <1>1, <1>2, Multiple
<1>. QED BY <1>1, <1>2, <1>3 DEF Trunc

LEMMA DepthNat == MaxDepth(size) \in Nat
<1>0. 0 \in Int /\ 30 \in Int
  OBVIOUS
<1>1. IsFiniteSet(0..30)
  BY <1>0, FS_Interval, Zenon
<1>. QED BY <1>1, FS_Subset, FS_CardinalityType DEF MaxDepth

LEMMA NodesTyped ==
  /\ \A n \in Nat : Leaf(n) \in NodeType
  /\ \A x \in Int : Inner(x) \in NodeType
<1>1. -1 \in Indices /\ 0 \in Indices /\ 0 \in Nat
  BY DEF Indices
<1>2. 0 \in Int /\ 0 % Unit = 0
  <2>1. Unit \in Nat /\ Unit > 0
    BY ForestAssumption
  <2>. QED BY <2>1
<1>. QED BY <1>1, <1>2, TruncBelow DEF Leaf, Inner, NodeType

LEMMA BucketsFinite ==
  ASSUME data \in Seq(Nat), NEW b \in SUBSET (DOMAIN data)
  PROVE  IsFiniteSet(b) /\ Cardinality(b) \in Nat
<1>1. DOMAIN data = 1..Len(data) /\ Len(data) \in Nat
  OBVIOUS
<1>2. IsFiniteSet(DOMAIN data)
  BY <1>1, FS_Interval
<1>. QED BY <1>2, FS_Subset, FS_CardinalityType

----------------------------------------------------------------------------
(* A tree with the node of a call placed.                                  *)

LEMMA CallTyped ==
  ASSUME BuildTypeOK, stack # <<>>
  PROVE  /\ Call \in CallType /\ Call = stack[1] /\ 1 \in DOMAIN stack
         /\ Call.bucket \in SUBSET (DOMAIN data) /\ Call.depth \in Nat
         /\ Call.parent \in Indices /\ Call.side \in {"root", "left", "right"}
<1>1. Call \in CallType /\ Call = stack[1] /\ 1 \in DOMAIN stack
  BY Popped DEF BuildTypeOK, Call
<1>. QED BY <1>1 DEF CallType

LEMMA Connected ==
  ASSUME BuildTypeOK, stack # <<>>, NEW node \in NodeType
  PROVE  LET t == Placed(node)
         IN /\ t \in Seq(NodeType) /\ Len(t) = Len(tree) + 1 /\ t[Len(tree) + 1] = node
            /\ DOMAIN t = 1..(Len(tree) + 1) /\ DOMAIN tree = 1..Len(tree)
            /\ \A n \in DOMAIN tree :
                 /\ t[n].is_leaf = tree[n].is_leaf /\ t[n].split = tree[n].split
                 /\ t[n].size = tree[n].size
                 /\ t[n].left = IF Call.parent = n - 1 /\ Call.side = "left" THEN Len(tree)
                                ELSE tree[n].left
                 /\ t[n].right = IF Call.parent = n - 1 /\ Call.side # "left" THEN Len(tree)
                                 ELSE tree[n].right
<1> DEFINE new == Len(tree)
           left  == [tree EXCEPT ![Call.parent + 1].left = new]
           right == [tree EXCEPT ![Call.parent + 1].right = new]
           u == IF Call.parent < 0 THEN tree ELSE IF Call.side = "left" THEN left ELSE right
<1>1. /\ tree \in Seq(NodeType) /\ new \in Nat /\ new \in Indices
      /\ Call.parent \in Int /\ Call.parent >= -1
      /\ DOMAIN tree = 1..Len(tree)
  BY CallTyped DEF BuildTypeOK, Indices
<1>2. \A n \in DOMAIN tree : tree[n] \in NodeType
  BY <1>1
<1>3. /\ left \in [DOMAIN tree -> NodeType] /\ right \in [DOMAIN tree -> NodeType]
      /\ tree \in [DOMAIN tree -> NodeType]
  <2>1. \A n \in DOMAIN tree : /\ [tree[n] EXCEPT !.left = new] \in NodeType
                              /\ [tree[n] EXCEPT !.right = new] \in NodeType
    BY <1>1, <1>2 DEF NodeType
  <2>2. /\ left = [n \in DOMAIN tree |-> IF n = Call.parent + 1 THEN [tree[n] EXCEPT !.left = new]
                                        ELSE tree[n]]
        /\ right = [n \in DOMAIN tree |-> IF n = Call.parent + 1 THEN [tree[n] EXCEPT !.right = new]
                                         ELSE tree[n]]
    BY <1>1
  <2>3. ASSUME NEW f, NEW g \in [DOMAIN tree -> NodeType],
               f = [n \in DOMAIN tree |-> IF n = Call.parent + 1 THEN g[n] ELSE tree[n]]
        PROVE  f \in [DOMAIN tree -> NodeType]
    BY <1>2, <2>3
  <2>4. [n \in DOMAIN tree |-> [tree[n] EXCEPT !.left = new]] \in [DOMAIN tree -> NodeType]
    BY <2>1
  <2>5. [n \in DOMAIN tree |-> [tree[n] EXCEPT !.right = new]] \in [DOMAIN tree -> NodeType]
    BY <2>1
  <2>6. tree \in [DOMAIN tree -> NodeType]
    BY <1>1, <1>2
  <2> HIDE DEF left, right
  <2>7. left \in [DOMAIN tree -> NodeType]
    BY <2>2, <2>3, <2>4
  <2>8. right \in [DOMAIN tree -> NodeType]
    BY <2>2, <2>3, <2>5
  <2>. QED BY <2>6, <2>7, <2>8
<1>4. u \in Seq(NodeType) /\ Len(u) = Len(tree)
  <2>1. u \in [1..Len(tree) -> NodeType]
    BY <1>1, <1>3
  <2>. QED BY <2>1, <1>1
<1>5. \A n \in DOMAIN tree :
        /\ u[n].is_leaf = tree[n].is_leaf /\ u[n].split = tree[n].split
        /\ u[n].size = tree[n].size
        /\ u[n].left = IF Call.parent = n - 1 /\ Call.side = "left" THEN new ELSE tree[n].left
        /\ u[n].right = IF Call.parent = n - 1 /\ Call.side # "left" THEN new
                        ELSE tree[n].right
  <2> SUFFICES ASSUME NEW n \in DOMAIN tree
               PROVE /\ u[n].is_leaf = tree[n].is_leaf /\ u[n].split = tree[n].split
                     /\ u[n].size = tree[n].size
                     /\ u[n].left = IF Call.parent = n - 1 /\ Call.side = "left" THEN new
                                    ELSE tree[n].left
                     /\ u[n].right = IF Call.parent = n - 1 /\ Call.side # "left" THEN new
                                     ELSE tree[n].right
    OBVIOUS
  <2>1. n \in Int /\ n >= 1
    BY <1>1
  <2>2. CASE Call.parent = n - 1
    BY <1>1, <1>2, <2>1, <2>2 DEF NodeType
  <2>3. CASE Call.parent # n - 1
    <3>1. Call.parent + 1 # n
      BY <1>1, <2>1, <2>3
    <3>2. left[n] = tree[n] /\ right[n] = tree[n]
      BY <3>1
    <3>. QED BY <3>2, <2>3
  <2>. QED BY <2>2, <2>3
<1>6. Placed(node) = Append(u, node)
  BY DEF Placed
<1> HIDE DEF u
<1>7. /\ Append(u, node) \in Seq(NodeType) /\ Len(Append(u, node)) = Len(tree) + 1
      /\ Append(u, node)[Len(tree) + 1] = node
      /\ DOMAIN Append(u, node) = 1..(Len(tree) + 1)
      /\ \A n \in DOMAIN tree : Append(u, node)[n] = u[n]
  BY <1>1, <1>4
<1>. QED BY <1>1, <1>5, <1>6, <1>7

----------------------------------------------------------------------------
(* Types.                                                                  *)

\* Something is being built only in a training that owes a tree.
Owed ==
  /\ tree # <<>> \/ stack # <<>> => phase = "build" /\ todo > 0
  /\ Len(grown) = Len(tree)
  /\ phase # "build" => data = <<>> /\ forests = <<>>

LEMMA TypeInit == ASSUME Init PROVE BuildTypeOK /\ Owed
  BY DEF Init, BuildTypeOK, Owed

LEMMA TypeEnter ==
  ASSUME BuildTypeOK, Owed, EnterLeaf \/ EnterSplit
  PROVE  BuildTypeOK' /\ Owed'
<1>1. stack # <<>>
  BY DEF EnterLeaf, EnterSplit
<1>2. /\ UNCHANGED <<phase, begun, data, size, todo, forests>>
      /\ data \in Seq(Nat) /\ tree \in Seq(NodeType) /\ grown \in Seq(Grown)
      /\ stack \in Seq(CallType)
  BY DEF EnterLeaf, EnterSplit, BuildTypeOK, Grown
<1>3. Call.bucket \in SUBSET (DOMAIN data) /\ Call.depth \in Nat /\ Tail(stack) \in Seq(CallType)
  BY <1>1, <1>2, CallTyped, Popped
<1>4. ASSUME NEW x \in Nat, NEW node \in NodeType, tree' = Placed(node),
             grown' = Append(grown, [bucket |-> Call.bucket, depth |-> Call.depth, drawn |-> x])
      PROVE  tree' \in Seq(NodeType) /\ grown' \in Seq(Grown)' /\ Len(grown') = Len(tree')
  <2>1. [bucket |-> Call.bucket, depth |-> Call.depth, drawn |-> x] \in Grown /\ Grown' = Grown
    BY <1>2, <1>3 DEF Grown
  <2>2. Placed(node) \in Seq(NodeType) /\ Len(Placed(node)) = Len(tree) + 1
    BY <1>1, Connected
  <2>. QED BY <1>2, <1>4, <2>1, <2>2 DEF Owed
<1>5. CASE EnterLeaf
  <2>1. Leaf(Cardinality(Call.bucket)) \in NodeType
    BY <1>2, <1>3, BucketsFinite, NodesTyped
  <2>2. tree' \in Seq(NodeType) /\ grown' \in Seq(Grown)' /\ Len(grown') = Len(tree')
    BY <1>4, <1>5, <2>1 DEF EnterLeaf
  <2>3. stack' \in Seq(CallType)' 
    BY <1>2, <1>3, <1>5 DEF EnterLeaf, CallType
  <2>. QED BY <1>1, <1>2, <2>2, <2>3 DEF BuildTypeOK, Owed, Grown
<1>6. CASE EnterSplit
  <2>1. PICK x \in CutPoints(Call.bucket) :
          LET left == Below(Call.bucket, x)
          IN /\ tree' = Placed(Inner(x))
             /\ grown' = Append(grown, [bucket |-> Call.bucket, depth |-> Call.depth, drawn |-> x])
             /\ stack' = <<Side(left, "left"), Side(Call.bucket \ left, "right")>> \o Tail(stack)
    BY <1>6 DEF EnterSplit
  <2>2. x \in Nat
    BY <1>2, <1>3 DEF CutPoints
  <2>3. tree' \in Seq(NodeType) /\ grown' \in Seq(Grown)' /\ Len(grown') = Len(tree')
    BY <1>4, <2>1, <2>2, NodesTyped
  <2>4. \A b \in SUBSET Call.bucket, side \in {"left", "right"} : Side(b, side) \in CallType
    BY <1>2, <1>3 DEF Side, CallType, Indices
  <2>5. Below(Call.bucket, x) \in SUBSET Call.bucket
    BY DEF Below
  <2>6. stack' \in Seq(CallType)
    <3>1. /\ Side(Below(Call.bucket, x), "left") \in CallType
          /\ Side(Call.bucket \ Below(Call.bucket, x), "right") \in CallType
      BY <2>4, <2>5
    <3>. QED BY <1>3, <2>1, <3>1, Pushed
  <2>7. CallType' = CallType
    BY <1>2 DEF CallType
  <2>. QED BY <1>1, <1>2, <2>3, <2>6, <2>7 DEF BuildTypeOK, Owed, Grown
<1>. QED BY <1>5, <1>6

LEMMA TypeOthers ==
  ASSUME BuildTypeOK, Owed, [Next]_vars, ~EnterLeaf, ~EnterSplit
  PROVE  BuildTypeOK' /\ Owed'
<1>1. CASE BeginTraining
  <2>1. PICK d \in Datasets, s \in Sizes, n \in TreeCounts :
           d # <<>> /\ n >= 1 /\ data' = d /\ size' = Max2(s) /\ todo' = n
    BY <1>1 DEF BeginTraining
  <2>2. data' \in Seq(Nat) /\ size' \in Nat /\ size' >= 2 /\ todo' \in Nat
    BY <2>1, ForestAssumption DEF Max2
  <2>. QED BY <1>1, <2>2 DEF BeginTraining, BuildTypeOK, Owed
<1>2. CASE BeginTree
  <2>1. PICK sample \in SUBSET (DOMAIN data) :
           stack' = <<[bucket |-> sample, depth |-> 0, parent |-> -1, side |-> "root"]>>
    BY <1>2 DEF BeginTree
  <2>2. stack' \in Seq(CallType)'
    BY <1>2, <2>1 DEF BeginTree, CallType, Indices
  <2>. QED BY <1>2, <2>2 DEF BeginTree, BuildTypeOK, Owed
<1>3. CASE EndTree
  <2>1. forests' \in Seq(Seq(NodeType)) /\ todo' \in Nat
    BY <1>3 DEF EndTree, BuildTypeOK, Owed
  <2>. QED BY <1>3, <2>1 DEF EndTree, BuildTypeOK, Owed
<1>4. CASE Written /\ Forgotten /\ UNCHANGED <<begun, todo, tree, grown, stack>>
  BY <1>4 DEF Written, Forgotten, BuildTypeOK, Owed, CallType
<1>5. CASE BeginPrediction \/ NoForest \/ Walking \/ UNCHANGED vars
  <2>1. UNCHANGED buildVars /\ phase' \in {"idle", "build", "walk"}
        /\ (phase = "build" <=> phase' = "build")
    BY <1>5 DEF BeginPrediction, NoForest, Walking, WalkDown, EndPath, vars, BuildTypeOK
  <2>. QED BY <2>1 DEF buildVars, BuildTypeOK, Owed, CallType
<1>. QED BY <1>1, <1>2, <1>3, <1>4, <1>5 DEF Next, Training, WriteForest, KilledInWrite

\* The variables of training keep their types, and a tree is built only while owed.
THEOREM BuildTypeCorrect == Spec => [](BuildTypeOK /\ Owed)
<1>1. BuildTypeOK /\ Owed /\ [Next]_vars => (BuildTypeOK /\ Owed)'
  BY TypeEnter, TypeOthers
<1>. QED BY <1>1, TypeInit, PTL DEF Spec

----------------------------------------------------------------------------
(* The shape of a tree.                                                    *)

\* The latencies one side of node n is built from.
SideOf(n, side) ==
  IF side = "left" THEN Below(grown[n].bucket, grown[n].drawn)
  ELSE grown[n].bucket \ Below(grown[n].bucket, grown[n].drawn)

\* A call is the first of its tree or made for a side of a split.
CallOK(c) ==
  IF c.parent = -1 THEN c.depth = 0
  ELSE /\ c.parent + 1 \in DOMAIN tree /\ ~tree[c.parent + 1].is_leaf
       /\ c.depth = grown[c.parent + 1].depth + 1
       /\ c.side \in {"left", "right"}
       /\ c.bucket = SideOf(c.parent + 1, c.side)

LinkOK(n, side, child) ==
  /\ child >= n /\ child < Len(tree)
  /\ grown[child + 1].depth = grown[n].depth + 1
  /\ grown[child + 1].bucket = SideOf(n, side)

Waits(n, side) == \E k \in DOMAIN stack : stack[k].parent = n - 1 /\ stack[k].side = side

NodeOK(n) ==
  IF tree[n].is_leaf THEN tree[n].left = -1 /\ tree[n].right = -1
  ELSE /\ grown[n].depth < MaxDepth(size)
       /\ tree[n].split = Trunc(grown[n].drawn)
       /\ LinkOK(n, "left", tree[n].left) \/ Waits(n, "left")
       /\ LinkOK(n, "right", tree[n].right) \/ Waits(n, "right")

Shape ==
  /\ \A k \in DOMAIN stack : CallOK(stack[k])
  /\ (\E k \in DOMAIN stack : stack[k].parent = -1) => Len(stack) = 1
  /\ \A n \in DOMAIN tree : grown[n].depth <= MaxDepth(size) /\ NodeOK(n)

IInv == BuildTypeOK /\ Owed /\ Shape

LEMMA TypedParts ==
  ASSUME IInv
  PROVE  /\ DOMAIN tree = 1..Len(tree) /\ DOMAIN grown = 1..Len(tree) /\ Len(tree) \in Nat
         /\ \A n \in DOMAIN tree :
              /\ tree[n] \in NodeType /\ grown[n] \in Grown
              /\ tree[n].left \in Int /\ tree[n].right \in Int
              /\ grown[n].depth \in Nat /\ grown[n].drawn \in Nat
         /\ \A k \in DOMAIN stack : /\ stack[k] \in CallType /\ stack[k].parent \in Int
                                    /\ stack[k].parent >= -1 /\ stack[k].depth \in Nat
<1>1. tree \in Seq(NodeType) /\ grown \in Seq(Grown) /\ stack \in Seq(CallType)
      /\ Len(grown) = Len(tree)
  BY DEF IInv, BuildTypeOK, Owed, Grown
<1>2. /\ \A n \in DOMAIN tree : tree[n] \in NodeType /\ grown[n] \in Grown
      /\ \A k \in DOMAIN stack : stack[k] \in CallType
      /\ DOMAIN tree = 1..Len(tree) /\ DOMAIN grown = 1..Len(tree) /\ Len(tree) \in Nat
  BY <1>1
<1>. QED BY <1>2 DEF NodeType, Grown, CallType, Indices

\* What both ways into a node do.
EntersAs(node, x) ==
  /\ stack # <<>> /\ UNCHANGED <<data, size>>
  /\ tree' = Placed(node)
  /\ grown' = Append(grown, [bucket |-> Call.bucket, depth |-> Call.depth, drawn |-> x])
  /\ \A k \in DOMAIN stack : k = 1 \/ \E l \in DOMAIN stack' : stack'[l] = stack[k]

LEMMA GrownSame ==
  ASSUME IInv, NEW node \in NodeType, NEW x \in Nat, EntersAs(node, x)
  PROVE  /\ \A n \in DOMAIN tree : n \in DOMAIN tree' /\ grown'[n] = grown[n]
         /\ DOMAIN tree' = 1..(Len(tree) + 1) /\ Len(tree') = Len(tree) + 1
         /\ tree'[Len(tree) + 1] = node
         /\ grown'[Len(tree) + 1] = [bucket |-> Call.bucket, depth |-> Call.depth, drawn |-> x]
         /\ \A n \in DOMAIN tree, side \in {"left", "right"} : SideOf(n, side)' = SideOf(n, side)
<1>1. /\ tree' \in Seq(NodeType) /\ Len(tree') = Len(tree) + 1 /\ tree'[Len(tree) + 1] = node
      /\ DOMAIN tree' = 1..(Len(tree) + 1)
  BY Connected DEF EntersAs, IInv
<1>2. grown \in Seq(Grown) /\ Len(grown) = Len(tree)
  BY DEF IInv, BuildTypeOK, Owed, Grown
<1>3. /\ \A n \in DOMAIN tree : grown'[n] = grown[n]
      /\ grown'[Len(tree) + 1] = [bucket |-> Call.bucket, depth |-> Call.depth, drawn |-> x]
  BY <1>2, TypedParts DEF EntersAs
<1>4. \A n \in DOMAIN tree, side \in {"left", "right"} : SideOf(n, side)' = SideOf(n, side)
  BY <1>3 DEF SideOf, Below, EntersAs
<1>. QED BY <1>1, <1>3, <1>4, TypedParts

\* The nodes there were keep their shape, and the one that waited is linked.
LEMMA OldNodes ==
  ASSUME IInv, NEW node \in NodeType, NEW x \in Nat, EntersAs(node, x), NEW n \in DOMAIN tree
  PROVE  grown'[n].depth <= MaxDepth(size)' /\ NodeOK(n)'
<1>0. /\ Len(tree') = Len(tree) + 1 /\ Len(tree) \in Nat
      /\ grown'[Len(tree) + 1] = [bucket |-> Call.bucket, depth |-> Call.depth, drawn |-> x]
  BY GrownSame, TypedParts
<1>1. /\ tree'[n].is_leaf = tree[n].is_leaf /\ tree'[n].split = tree[n].split
      /\ tree'[n].left = IF Call.parent = n - 1 /\ Call.side = "left" THEN Len(tree)
                         ELSE tree[n].left
      /\ tree'[n].right = IF Call.parent = n - 1 /\ Call.side # "left" THEN Len(tree)
                          ELSE tree[n].right
  BY Connected DEF EntersAs, IInv
<1>2. grown'[n] = grown[n] /\ MaxDepth(size)' = MaxDepth(size)
  BY GrownSame DEF EntersAs
<1>3. grown[n].depth <= MaxDepth(size) /\ NodeOK(n)
  BY DEF IInv, Shape
<1>4. CallOK(Call) /\ Call = stack[1] /\ 1 \in DOMAIN stack
  BY CallTyped DEF IInv, Shape, EntersAs
<1>5. n \in Int /\ n >= 1 /\ n <= Len(tree)
  BY TypedParts
<1>6. CASE tree[n].is_leaf
  <2>1. Call.parent # n - 1
    BY <1>4, <1>5, <1>6 DEF CallOK
  <2>. QED BY <1>1, <1>2, <1>3, <1>6, <2>1 DEF NodeOK
<1>7. CASE ~tree[n].is_leaf
  <2>1. ASSUME NEW side \in {"left", "right"}, Call.parent = n - 1, Call.side = side,
               NEW child \in Int, child = Len(tree)
        PROVE  LinkOK(n, side, child)'
    <3>1. Call.depth = grown[n].depth + 1 /\ Call.bucket = SideOf(n, side)
      BY <1>4, <1>5, <2>1 DEF CallOK
    <3>2. /\ grown'[child + 1].depth = Call.depth /\ grown'[child + 1].bucket = Call.bucket
          /\ Len(tree') = child + 1
      BY <1>0, <2>1
    <3>3. SideOf(n, side)' = SideOf(n, side)
      BY GrownSame
    <3>4. child >= n /\ child < child + 1
      BY <1>5, <2>1, TypedParts
    <3>. QED BY <1>2, <3>1, <3>2, <3>3, <3>4 DEF LinkOK
  <2>2. ASSUME NEW side \in {"left", "right"}, NEW child \in Int, LinkOK(n, side, child)
        PROVE  LinkOK(n, side, child)'
    <3>1. child + 1 \in DOMAIN tree
      BY <1>5, <2>2, TypedParts DEF LinkOK
    <3>2. grown'[child + 1] = grown[child + 1] /\ SideOf(n, side)' = SideOf(n, side)
      BY <3>1, GrownSame
    <3>3. child >= n /\ child < Len(tree')
      BY <1>0, <2>2 DEF LinkOK
    <3>. QED BY <1>2, <2>2, <3>2, <3>3 DEF LinkOK
  <2>3. ASSUME NEW side \in {"left", "right"}, Waits(n, side),
               ~(Call.parent = n - 1 /\ Call.side = side)
        PROVE  Waits(n, side)'
    BY <1>4, <2>3 DEF Waits, EntersAs
  <2>4. Call.parent = n - 1 => Call.side \in {"left", "right"}
    BY <1>4, <1>5 DEF CallOK
  <2>5. LinkOK(n, "left", tree[n].left)' \/ Waits(n, "left")'
    <3>1. CASE Call.parent = n - 1 /\ Call.side = "left"
      <4>1. tree'[n].left = Len(tree) /\ Len(tree) \in Int
        BY <1>0, <1>1, <3>1
      <4>. QED BY <2>1, <3>1, <4>1 DEF LinkOK
    <3>2. CASE ~(Call.parent = n - 1 /\ Call.side = "left")
      <4>1. tree'[n].left = tree[n].left /\ tree[n].left \in Int
        BY <1>1, <3>2, TypedParts
      <4>2. LinkOK(n, "left", tree[n].left) \/ Waits(n, "left")
        BY <1>3, <1>7 DEF NodeOK
      <4>3. CASE Waits(n, "left")
        BY <2>3, <3>2, <4>3
      <4>4. CASE LinkOK(n, "left", tree[n].left)
        BY <2>2, <4>1, <4>4 DEF LinkOK
      <4>. QED BY <4>2, <4>3, <4>4
    <3>. QED BY <3>1, <3>2
  <2>6. LinkOK(n, "right", tree[n].right)' \/ Waits(n, "right")'
    <3>1. CASE Call.parent = n - 1 /\ Call.side = "right"
      <4>1. tree'[n].right = Len(tree) /\ Len(tree) \in Int
        BY <1>0, <1>1, <3>1
      <4>. QED BY <2>1, <3>1, <4>1 DEF LinkOK
    <3>2. CASE ~(Call.parent = n - 1 /\ Call.side = "right")
      <4>1. tree'[n].right = tree[n].right /\ tree[n].right \in Int
        BY <1>1, <2>4, <3>2, TypedParts
      <4>2. LinkOK(n, "right", tree[n].right) \/ Waits(n, "right")
        BY <1>3, <1>7 DEF NodeOK
      <4>3. CASE Waits(n, "right")
        BY <2>3, <3>2, <4>3
      <4>4. CASE LinkOK(n, "right", tree[n].right)
        BY <2>2, <4>1, <4>4 DEF LinkOK
      <4>. QED BY <4>2, <4>3, <4>4
    <3>. QED BY <3>1, <3>2
  <2>. QED BY <1>1, <1>2, <1>3, <1>7, <2>5, <2>6 DEF NodeOK
<1>. QED BY <1>6, <1>7

\* A call that stays where it was is as right as before.
LEMMA OldCalls ==
  ASSUME IInv, NEW node \in NodeType, NEW x \in Nat, EntersAs(node, x),
         NEW k \in DOMAIN stack, k # 1, NEW c, c = stack[k]
  PROVE  CallOK(c)' /\ c.parent # -1
<1>1. CallOK(c) /\ stack \in Seq(CallType) /\ Len(stack) # 1
  BY DEF IInv, Shape, BuildTypeOK
<1>2. c.parent # -1
  BY <1>1 DEF IInv, Shape
<1>3. c.parent + 1 \in DOMAIN tree /\ ~tree[c.parent + 1].is_leaf
  BY <1>1, <1>2 DEF CallOK
<1>4. /\ grown'[c.parent + 1] = grown[c.parent + 1] /\ c.parent + 1 \in DOMAIN tree'
      /\ SideOf(c.parent + 1, c.side)' = SideOf(c.parent + 1, c.side)
  BY <1>1, <1>2, <1>3, GrownSame DEF CallOK
<1>5. ~tree'[c.parent + 1].is_leaf
  BY <1>3, Connected DEF EntersAs, IInv
<1>. QED BY <1>1, <1>2, <1>4, <1>5 DEF CallOK

LEMMA ShapeLeaf == ASSUME IInv, EnterLeaf PROVE Shape'
<1> DEFINE node == Leaf(Cardinality(Call.bucket))
           q    == Tail(stack)
<1>1. /\ stack # <<>> /\ stack' = q /\ UNCHANGED <<data, size>> /\ tree' = Placed(node)
      /\ grown' = Append(grown, [bucket |-> Call.bucket, depth |-> Call.depth, drawn |-> 0])
  BY DEF EnterLeaf
<1>2. stack \in Seq(CallType) /\ BuildTypeOK /\ data \in Seq(Nat)
  BY DEF IInv, BuildTypeOK
<1>3. node \in NodeType /\ 0 \in Nat
  BY <1>1, <1>2, CallTyped, BucketsFinite, NodesTyped
<1>4. /\ Len(q) = Len(stack) - 1 /\ q \in Seq(CallType)
      /\ \A k \in DOMAIN q : k + 1 \in DOMAIN stack /\ k + 1 # 1 /\ q[k] = stack[k + 1]
      /\ \A k \in DOMAIN stack : k = 1 \/ (k - 1 \in DOMAIN q /\ q[k - 1] = stack[k])
  BY <1>1, <1>2, Popped
<1>5. EntersAs(node, 0)
  BY <1>1, <1>4 DEF EntersAs
<1> HIDE DEF q
<1>6. ASSUME NEW k \in DOMAIN stack'
      PROVE  CallOK(stack[k])' /\ stack'[k].parent # -1
  <2>1. stack'[k] = stack[k + 1] /\ k + 1 \in DOMAIN stack /\ k + 1 # 1
    BY <1>1, <1>4
  <2>2. \A c : c = stack[k + 1] => CallOK(c)' /\ c.parent # -1
    BY <1>3, <1>5, <2>1, OldCalls
  <2>. QED BY <2>1, <2>2 DEF CallOK, SideOf
<1>7. ASSUME NEW n \in DOMAIN tree'
      PROVE  grown'[n].depth <= MaxDepth(size)' /\ NodeOK(n)'
  <2>1. CASE n \in DOMAIN tree
    BY <1>3, <1>5, <2>1, OldNodes
  <2>2. CASE n \notin DOMAIN tree
    <3>0. /\ DOMAIN tree' = 1..(Len(tree) + 1) /\ tree'[Len(tree) + 1] = node
          /\ grown'[Len(tree) + 1].depth = Call.depth
      <4> HIDE DEF node
      <4>1. grown'[Len(tree) + 1] = [bucket |-> Call.bucket, depth |-> Call.depth, drawn |-> 0]
        BY <1>3, <1>5, GrownSame
      <4>. QED BY <1>3, <1>5, <4>1, GrownSame
    <3>1. n = Len(tree) + 1 /\ tree'[n] = node /\ grown'[n].depth = Call.depth
      BY <2>2, <3>0, TypedParts
    <3>2. node.is_leaf /\ node.left = -1 /\ node.right = -1
      BY DEF Leaf
    <3>3. Call.depth <= MaxDepth(size)
      <4>1. CallOK(Call) /\ Call = stack[1] /\ 1 \in DOMAIN stack
        BY <1>1, CallTyped DEF IInv, Shape
      <4>2. CASE Call.parent = -1
        BY <4>1, <4>2, DepthNat DEF CallOK
      <4>3. CASE Call.parent # -1
        <5>1. /\ Call.parent + 1 \in DOMAIN tree /\ ~tree[Call.parent + 1].is_leaf
              /\ Call.depth = grown[Call.parent + 1].depth + 1
          BY <4>1, <4>3 DEF CallOK
        <5>2. grown[Call.parent + 1].depth < MaxDepth(size) /\ grown[Call.parent + 1].depth \in Nat
          BY <5>1, TypedParts DEF IInv, Shape, NodeOK
        <5>. QED BY <5>1, <5>2, DepthNat
      <4>. QED BY <4>2, <4>3
    <3>4. MaxDepth(size)' = MaxDepth(size)
      BY <1>1
    <3>. QED BY <3>1, <3>2, <3>3, <3>4 DEF NodeOK
  <2>. QED BY <2>1, <2>2
<1>. QED BY <1>6, <1>7 DEF Shape

LEMMA ShapeSplit == ASSUME IInv, EnterSplit PROVE Shape'
<1>1. PICK x \in CutPoints(Call.bucket) :
        LET left == Below(Call.bucket, x)
        IN /\ tree' = Placed(Inner(x))
           /\ grown' = Append(grown, [bucket |-> Call.bucket, depth |-> Call.depth, drawn |-> x])
           /\ stack' = <<Side(left, "left"), Side(Call.bucket \ left, "right")>> \o Tail(stack)
  BY DEF EnterSplit
<1> DEFINE a == Side(Below(Call.bucket, x), "left")
           b == Side(Call.bucket \ Below(Call.bucket, x), "right")
           q == Tail(stack)
<1>2. /\ stack # <<>> /\ ~Stops(Call) /\ UNCHANGED <<data, size>>
      /\ stack \in Seq(CallType) /\ BuildTypeOK /\ data \in Seq(Nat) /\ Len(tree) \in Nat
  BY DEF EnterSplit, IInv, BuildTypeOK
<1>3. Call.bucket \in SUBSET (DOMAIN data) /\ Call.depth \in Nat
  BY <1>2, CallTyped
<1>4. x \in Nat /\ Inner(x) \in NodeType
  BY <1>2, <1>3, NodesTyped DEF CutPoints
<1>5. a \in CallType /\ b \in CallType
  <2>1. Below(Call.bucket, x) \in SUBSET (DOMAIN data)
    BY <1>3 DEF Below
  <2>. QED BY <1>2, <1>3, <2>1 DEF Side, CallType, Indices
<1>6. /\ q \in Seq(CallType)
      /\ \A k \in DOMAIN q : k + 1 \in DOMAIN stack /\ k + 1 # 1 /\ q[k] = stack[k + 1]
      /\ \A k \in DOMAIN stack : k = 1 \/ (k - 1 \in DOMAIN q /\ q[k - 1] = stack[k])
  BY <1>2, Popped
<1>7. a = [bucket |-> Below(Call.bucket, x), depth |-> Call.depth + 1,
           parent |-> Len(tree), side |-> "left"]
  BY DEF Side
<1>8. b = [bucket |-> Call.bucket \ Below(Call.bucket, x), depth |-> Call.depth + 1,
           parent |-> Len(tree), side |-> "right"]
  BY DEF Side
<1> HIDE DEF a, b, q
<1>9. /\ stack'[1] = a /\ stack'[2] = b /\ 1 \in DOMAIN stack' /\ 2 \in DOMAIN stack'
      /\ \A k \in DOMAIN stack' : k = 1 \/ k = 2 \/ (k - 2 \in DOMAIN q /\ stack'[k] = q[k - 2])
      /\ \A k \in DOMAIN q : k + 2 \in DOMAIN stack' /\ stack'[k + 2] = q[k]
  <2>1. stack' = <<a, b>> \o q
    BY <1>1 DEF a, b, q
  <2>. QED BY <1>5, <1>6, <2>1, Pushed
<1>10. \A k \in DOMAIN stack : k = 1 \/ \E l \in DOMAIN stack' : stack'[l] = stack[k]
  BY <1>6, <1>9
<1>11. EntersAs(Inner(x), x)
  BY <1>1, <1>2, <1>10 DEF EntersAs
<1>0. PICK new \in Nat : new = Len(tree) + 1
  BY <1>2
<1>12. /\ tree'[new] = Inner(x) /\ new \in DOMAIN tree' /\ DOMAIN tree' = 1..new
       /\ grown'[new] = [bucket |-> Call.bucket, depth |-> Call.depth, drawn |-> x]
  BY <1>0, <1>2, <1>4, <1>11, GrownSame
<1>13. SideOf(new, "left")' = a.bucket /\ SideOf(new, "right")' = b.bucket
  <2>1. Below(Call.bucket, x) = {i \in Call.bucket : data'[i] < x}
    BY <1>2 DEF Below
  <2>2. grown'[new].bucket = Call.bucket /\ grown'[new].drawn = x
    BY <1>12
  <2>3. SideOf(new, "left")' = {i \in Call.bucket : data'[i] < x}
    BY <2>2, <1>2 DEF SideOf, Below
  <2>4. SideOf(new, "right")' = Call.bucket \ {i \in Call.bucket : data'[i] < x}
    BY <2>2, <1>2 DEF SideOf, Below
  <2>. QED BY <2>1, <2>3, <2>4, <1>7, <1>8
<1>14. ASSUME NEW k \in DOMAIN stack'
       PROVE  CallOK(stack[k])' /\ stack'[k].parent # -1
  <2> SUFFICES ASSUME NEW c, c = stack'[k] PROVE CallOK(c)' /\ c.parent # -1
    BY DEF CallOK, SideOf
  <2>1. ~Inner(x).is_leaf
    BY DEF Inner
  <2>2. CASE c = a
    <3>1. /\ c.parent = new - 1 /\ c.side = "left" /\ c.depth = Call.depth + 1
          /\ c.parent # -1 /\ c.parent + 1 = new
      BY <1>0, <1>2, <1>7, <2>2
    <3>2. c.bucket = SideOf(new, "left")'
      BY <1>13, <2>2
    <3>. QED BY <1>12, <2>1, <3>1, <3>2 DEF CallOK
  <2>3. CASE c = b
    <3>1. /\ c.parent = new - 1 /\ c.side = "right" /\ c.depth = Call.depth + 1
          /\ c.parent # -1 /\ c.parent + 1 = new
      BY <1>0, <1>2, <1>8, <2>3
    <3>2. c.bucket = SideOf(new, "right")'
      BY <1>13, <2>3
    <3>. QED BY <1>12, <2>1, <3>1, <3>2 DEF CallOK
  <2>4. CASE c # a /\ c # b
    <3>1. k - 2 \in DOMAIN q /\ c = q[k - 2]
      BY <1>9, <2>4
    <3>2. PICK l \in DOMAIN stack : l # 1 /\ c = stack[l]
      BY <1>6, <3>1
    <3>. QED BY <1>4, <1>11, <3>2, OldCalls
  <2>. QED BY <2>2, <2>3, <2>4
<1>15. ASSUME NEW n \in DOMAIN tree'
       PROVE  grown'[n].depth <= MaxDepth(size)' /\ NodeOK(n)'
  <2>1. CASE n \in DOMAIN tree
    BY <1>4, <1>11, <2>1, OldNodes
  <2>2. CASE n \notin DOMAIN tree
    <3>1. n = new
      BY <1>0, <1>2, <1>12, <2>2, TypedParts
    <3>2. Call.depth < MaxDepth(size) /\ MaxDepth(size)' = MaxDepth(size)
      BY <1>2, <1>3, DepthNat DEF Stops
    <3>3. Waits(n, "left")' /\ Waits(n, "right")'
      BY <1>0, <1>2, <1>7, <1>8, <1>9, <3>1 DEF Waits
    <3>4. ~Inner(x).is_leaf /\ Inner(x).split = Trunc(x)
      BY DEF Inner
    <3>5. /\ ~tree'[n].is_leaf /\ tree'[n].split = Trunc(grown'[n].drawn)
          /\ grown'[n].depth = Call.depth
      BY <1>12, <3>1, <3>4
    <3>6. grown'[n].depth <= MaxDepth(size)'
      BY <1>3, <3>2, <3>5, DepthNat
    <3>. QED BY <3>2, <3>3, <3>5, <3>6 DEF NodeOK, Trunc
  <2>. QED BY <2>1, <2>2
<1>. QED BY <1>14, <1>15 DEF Shape

LEMMA ShapeOthers ==
  ASSUME IInv, [Next]_vars, ~EnterLeaf, ~EnterSplit
  PROVE  Shape'
<1>1. CASE BeginTraining
  BY <1>1 DEF BeginTraining, Shape
<1>2. CASE BeginTree
  <2>1. tree' = <<>> /\ Len(stack') = 1 /\ stack'[1].parent = -1 /\ stack'[1].depth = 0
        /\ DOMAIN stack' = {1}
    BY <1>2 DEF BeginTree
  <2>. QED BY <2>1 DEF Shape, CallOK
<1>3. CASE EndTree
  BY <1>3 DEF EndTree, Shape
<1>4. CASE Written /\ Forgotten /\ UNCHANGED <<begun, todo, tree, grown, stack>>
  BY <1>4 DEF Written, Forgotten, Shape
<1>5. CASE BeginPrediction \/ NoForest \/ Walking \/ UNCHANGED vars
  <2>1. UNCHANGED buildVars
    BY <1>5 DEF BeginPrediction, NoForest, Walking, WalkDown, EndPath, vars
  <2>. QED BY <2>1 DEF buildVars, IInv, Shape, CallOK, NodeOK, LinkOK, Waits, SideOf, Below
<1>. QED BY <1>1, <1>2, <1>3, <1>4, <1>5 DEF Next, Training, WriteForest, KilledInWrite

\* The invariant of the building of trees.
LEMMA ShapeHolds == Spec => []IInv
<1>1. Init => IInv
  BY TypeInit DEF IInv, Shape, Init
<1>2. IInv /\ [Next]_vars => IInv'
  BY TypeEnter, TypeOthers, ShapeLeaf, ShapeSplit, ShapeOthers DEF IInv
<1>. QED BY <1>1, <1>2, PTL DEF Spec

----------------------------------------------------------------------------
\* Every tree has the shape of TreeShape, for any subsample size: no deeper than
\* its logarithm, each side of a split a node further on or a call to come.
THEOREM TreeShapeCorrect == Spec => []TreeShape
<1>1. ASSUME IInv PROVE TreeShape
  <2>1. \A n \in DOMAIN tree, side \in {"left", "right"}, child \in Int :
          LinkOK(n, side, child) => Placed2(n, child)
    BY DEF LinkOK, Placed2
  <2>2. \A n \in DOMAIN tree, side \in {"left", "right"} : 
          ~tree[n].is_leaf /\ Waits(n, side) => Pending(n, side)
    <3> SUFFICES ASSUME NEW n \in DOMAIN tree, NEW side \in {"left", "right"},
                        ~tree[n].is_leaf, Waits(n, side)
                 PROVE  Pending(n, side)
      OBVIOUS
    <3>1. PICK k \in DOMAIN stack : stack[k].parent = n - 1 /\ stack[k].side = side
      BY <1>1 DEF Waits
    <3>2. n \in Int /\ n >= 1
      BY <1>1, TypedParts
    <3>3. stack[k].depth = grown[n].depth + 1
      BY <1>1, <3>1, <3>2 DEF IInv, Shape, CallOK
    <3>. QED BY <3>1, <3>3 DEF Pending
  <2>3. ASSUME NEW k \in DOMAIN stack PROVE stack[k].depth <= MaxDepth(size)
    <3>1. CallOK(stack[k])
      BY <1>1 DEF IInv, Shape
    <3>2. CASE stack[k].parent = -1
      BY <3>1, <3>2, DepthNat DEF CallOK
    <3>3. CASE stack[k].parent # -1
      <4>1. /\ stack[k].parent + 1 \in DOMAIN tree /\ ~tree[stack[k].parent + 1].is_leaf
            /\ stack[k].depth = grown[stack[k].parent + 1].depth + 1
        BY <3>1, <3>3 DEF CallOK
      <4>2. /\ grown[stack[k].parent + 1].depth < MaxDepth(size)
            /\ grown[stack[k].parent + 1].depth \in Nat
        BY <1>1, <4>1, TypedParts DEF IInv, Shape, NodeOK
      <4>. QED BY <4>1, <4>2, DepthNat
    <3>. QED BY <3>2, <3>3
  <2>4. \A n \in DOMAIN tree : tree[n].left \in Int /\ tree[n].right \in Int
    BY <1>1, TypedParts
  <2>5. \A n \in DOMAIN tree : grown[n].depth <= MaxDepth(size) /\ NodeOK(n)
    BY <1>1 DEF IInv, Shape
  <2>6. \A n \in DOMAIN tree :
          IF tree[n].is_leaf THEN tree[n].left = -1 /\ tree[n].right = -1
          ELSE /\ Placed2(n, tree[n].left) \/ Pending(n, "left")
               /\ Placed2(n, tree[n].right) \/ Pending(n, "right")
    BY <2>1, <2>2, <2>4, <2>5 DEF NodeOK
  <2>. QED BY <1>1, <2>3, <2>5, <2>6 DEF TreeShape, IInv, Owed
<1>. QED BY <1>1, ShapeHolds, PTL

\* A latency a finished tree was grown from is sent to the side it was put on,
\* unless it lies between the whole number kept and the cut point drawn.
THEOREM OwnLeafCorrect == Spec => []OwnLeaf
<1>1. ASSUME IInv PROVE OwnLeaf
  <2> SUFFICES ASSUME NEW n \in DOMAIN tree, ~tree[n].is_leaf, stack = <<>>,
                      NEW i \in grown[n].bucket
               PROVE  \/ i \in grown[Route(tree[n], data[i]) + 1].bucket
                      \/ tree[n].split <= data[i] /\ data[i] < grown[n].drawn
    BY DEF OwnLeaf
  <2>1. ~Waits(n, "left") /\ ~Waits(n, "right")
    BY DEF Waits
  <2>2. /\ LinkOK(n, "left", tree[n].left) /\ LinkOK(n, "right", tree[n].right)
        /\ tree[n].split = Trunc(grown[n].drawn)
    BY <1>1, <2>1 DEF IInv, Shape, NodeOK
  <2>3. /\ grown[tree[n].left + 1].bucket = {j \in grown[n].bucket : data[j] < grown[n].drawn}
        /\ grown[tree[n].right + 1].bucket
             = grown[n].bucket \ {j \in grown[n].bucket : data[j] < grown[n].drawn}
    BY <2>2 DEF LinkOK, SideOf, Below
  <2>4. grown[n] \in Grown /\ grown[n].drawn \in Nat
    BY <1>1, TypedParts
  <2>5. data[i] \in Nat
    BY <1>1, <2>4 DEF Grown, IInv, BuildTypeOK
  <2>6. tree[n].split \in Int /\ tree[n].split <= grown[n].drawn
    <3>1. grown[n].drawn \in Int
      BY <2>4
    <3>. QED BY <2>2, <3>1, TruncBelow
  <2>7. CASE data[i] < tree[n].split
    BY <2>3, <2>4, <2>5, <2>6, <2>7 DEF Route
  <2>8. CASE ~(data[i] < tree[n].split)
    BY <2>3, <2>4, <2>5, <2>6, <2>8 DEF Route
  <2>. QED BY <2>7, <2>8
<1>. QED BY <1>1, ShapeHolds, PTL

----------------------------------------------------------------------------
(* No latency is lost or counted twice.                                    *)

Leaves == {n \in DOMAIN tree : tree[n].is_leaf}

Partition ==
  /\ \A n \in Leaves : tree[n].size = Cardinality(grown[n].bucket)
  /\ tree # <<>> => \A i \in grown[1].bucket :
                      \/ \E n \in Leaves : i \in grown[n].bucket
                      \/ \E k \in DOMAIN stack : i \in stack[k].bucket
  /\ \A m, n \in Leaves : m # n => grown[m].bucket \cap grown[n].bucket = {}
  /\ \A k, l \in DOMAIN stack : k # l => stack[k].bucket \cap stack[l].bucket = {}
  /\ \A n \in Leaves, k \in DOMAIN stack : grown[n].bucket \cap stack[k].bucket = {}

\* The first node of a tree is the one of its first call, and the leaves stay.
LEMMA LeavesStay ==
  ASSUME IInv, NEW node \in NodeType, NEW x \in Nat, EntersAs(node, x),
         NEW new \in Nat, new = Len(tree) + 1
  PROVE  /\ Leaves' = Leaves \cup (IF node.is_leaf THEN {new} ELSE {}) /\ new \notin Leaves
         /\ tree'[new] = node /\ grown'[new].bucket = Call.bucket
         /\ \A n \in Leaves : tree'[n].size = tree[n].size /\ grown'[n] = grown[n]
         /\ grown'[1].bucket = IF tree = <<>> THEN Call.bucket ELSE grown[1].bucket
<1>1. /\ \A n \in DOMAIN tree : n \in DOMAIN tree' /\ grown'[n] = grown[n]
      /\ DOMAIN tree' = 1..new /\ tree'[new] = node
      /\ grown'[new] = [bucket |-> Call.bucket, depth |-> Call.depth, drawn |-> x]
  BY GrownSame
<1>2. \A n \in DOMAIN tree : tree'[n].is_leaf = tree[n].is_leaf /\ tree'[n].size = tree[n].size
  BY Connected DEF EntersAs, IInv
<1>3. DOMAIN tree = 1..Len(tree) /\ Len(tree) \in Nat
  BY TypedParts
<1>4. Leaves' = Leaves \cup (IF node.is_leaf THEN {new} ELSE {}) /\ new \notin Leaves
  BY <1>1, <1>2, <1>3 DEF Leaves
<1>5. grown'[1].bucket = IF tree = <<>> THEN Call.bucket ELSE grown[1].bucket
  <2>1. tree \in Seq(NodeType)
    BY DEF IInv, BuildTypeOK
  <2>2. CASE tree = <<>>
    BY <1>1, <2>2
  <2>3. CASE tree # <<>>
    BY <1>1, <1>3, <2>1, <2>3
  <2>. QED BY <2>2, <2>3
<1>. QED BY <1>1, <1>2, <1>4, <1>5 DEF Leaves

LEMMA PartitionLeaf == ASSUME IInv, Partition, EnterLeaf PROVE Partition'
<1> DEFINE node == Leaf(Cardinality(Call.bucket))
           q    == Tail(stack)
<1>1. /\ stack # <<>> /\ stack' = q /\ UNCHANGED <<data, size>> /\ tree' = Placed(node)
      /\ grown' = Append(grown, [bucket |-> Call.bucket, depth |-> Call.depth, drawn |-> 0])
  BY DEF EnterLeaf
<1>2. stack \in Seq(CallType) /\ BuildTypeOK /\ data \in Seq(Nat) /\ tree \in Seq(NodeType)
  BY DEF IInv, BuildTypeOK
<1>3. node \in NodeType /\ 0 \in Nat
  BY <1>1, <1>2, CallTyped, BucketsFinite, NodesTyped
<1>4. /\ \A k \in DOMAIN q : k \in Int /\ k + 1 \in DOMAIN stack /\ k + 1 # 1 /\ q[k] = stack[k + 1]
      /\ \A k \in DOMAIN stack : k = 1 \/ (k - 1 \in DOMAIN q /\ q[k - 1] = stack[k])
  BY <1>1, <1>2, Popped
<1>5. EntersAs(node, 0)
  BY <1>1, <1>4 DEF EntersAs
<1>6. PICK new \in Nat : new = Len(tree) + 1
  BY <1>2
<1>7. node.is_leaf /\ node.size = Cardinality(Call.bucket)
  BY DEF Leaf
<1>8. Call = stack[1] /\ 1 \in DOMAIN stack
  BY <1>1, <1>2, CallTyped
<1> HIDE DEF node, q
<1>9. /\ Leaves' = Leaves \cup {new} /\ new \notin Leaves
      /\ tree'[new] = node /\ grown'[new].bucket = Call.bucket
      /\ \A n \in Leaves : tree'[n].size = tree[n].size /\ grown'[n] = grown[n]
      /\ grown'[1].bucket = IF tree = <<>> THEN Call.bucket ELSE grown[1].bucket
  BY <1>3, <1>5, <1>6, <1>7, LeavesStay
<1>10. (\A n \in Leaves : tree[n].size = Cardinality(grown[n].bucket))'
  BY <1>7, <1>9 DEF Partition
<1>11. \A i \in grown'[1].bucket : \/ \E n \in Leaves' : i \in grown'[n].bucket
                                 \/ \E k \in DOMAIN stack' : i \in stack'[k].bucket
  <2> SUFFICES ASSUME NEW i \in grown'[1].bucket, i \notin Call.bucket
               PROVE  \/ \E n \in Leaves' : i \in grown'[n].bucket
                      \/ \E k \in DOMAIN stack' : i \in stack'[k].bucket
    BY <1>9
  <2>1. \/ \E n \in Leaves : i \in grown[n].bucket
        \/ \E k \in DOMAIN stack : i \in stack[k].bucket
    BY <1>9 DEF Partition
  <2>. QED BY <1>1, <1>4, <1>8, <1>9, <2>1
<1>12. (\A m, n \in Leaves : m # n => grown[m].bucket \cap grown[n].bucket = {})'
  BY <1>8, <1>9 DEF Partition
<1>13. (\A k, l \in DOMAIN stack : k # l => stack[k].bucket \cap stack[l].bucket = {})'
  BY <1>1, <1>4 DEF Partition
<1>14. ASSUME NEW n \in Leaves', NEW k \in DOMAIN stack'
       PROVE  grown'[n].bucket \cap stack'[k].bucket = {}
  <2>1. k + 1 \in DOMAIN stack /\ k + 1 # 1 /\ stack'[k] = stack[k + 1]
    BY <1>1, <1>4
  <2>2. CASE n = new
    BY <1>8, <1>9, <2>1, <2>2 DEF Partition
  <2>3. CASE n \in Leaves
    BY <1>9, <2>1, <2>3 DEF Partition
  <2>. QED BY <1>9, <2>2, <2>3
<1>. QED BY <1>10, <1>11, <1>12, <1>13, <1>14 DEF Partition

LEMMA PartitionSplit == ASSUME IInv, Partition, EnterSplit PROVE Partition'
<1>1. PICK x \in CutPoints(Call.bucket) :
        LET left == Below(Call.bucket, x)
        IN /\ tree' = Placed(Inner(x))
           /\ grown' = Append(grown, [bucket |-> Call.bucket, depth |-> Call.depth, drawn |-> x])
           /\ stack' = <<Side(left, "left"), Side(Call.bucket \ left, "right")>> \o Tail(stack)
  BY DEF EnterSplit
<1> DEFINE a == Side(Below(Call.bucket, x), "left")
           b == Side(Call.bucket \ Below(Call.bucket, x), "right")
           q == Tail(stack)
<1>2. /\ stack # <<>> /\ UNCHANGED <<data, size>>
      /\ stack \in Seq(CallType) /\ BuildTypeOK /\ data \in Seq(Nat) /\ tree \in Seq(NodeType)
  BY DEF EnterSplit, IInv, BuildTypeOK
<1>3. /\ Call.bucket \in SUBSET (DOMAIN data) /\ Call.depth \in Nat
      /\ Call = stack[1] /\ 1 \in DOMAIN stack
  BY <1>2, CallTyped
<1>4. x \in Nat /\ Inner(x) \in NodeType /\ ~Inner(x).is_leaf
  BY <1>2, <1>3, NodesTyped DEF CutPoints, Inner
<1>5. a \in CallType /\ b \in CallType
  <2>1. Below(Call.bucket, x) \in SUBSET (DOMAIN data)
    BY <1>3 DEF Below
  <2>. QED BY <1>2, <1>3, <2>1 DEF Side, CallType, Indices
<1>6. /\ q \in Seq(CallType)
      /\ \A k \in DOMAIN q : k \in Int /\ k + 1 \in DOMAIN stack /\ k + 1 # 1 /\ q[k] = stack[k + 1]
      /\ \A k \in DOMAIN stack : k = 1 \/ (k - 1 \in DOMAIN q /\ q[k - 1] = stack[k])
  BY <1>2, Popped
<1>7. a.bucket \cup b.bucket = Call.bucket /\ a.bucket \cap b.bucket = {}
  BY DEF Side, Below
<1> HIDE DEF a, b, q
<1>8. /\ stack'[1] = a /\ stack'[2] = b /\ 1 \in DOMAIN stack' /\ 2 \in DOMAIN stack'
      /\ \A k \in DOMAIN stack' : k = 1 \/ k = 2 \/ (k - 2 \in DOMAIN q /\ stack'[k] = q[k - 2])
      /\ \A k \in DOMAIN q : k + 2 \in DOMAIN stack' /\ stack'[k + 2] = q[k]
      /\ \A k \in DOMAIN stack' : k \in Int
  <2>1. stack' = <<a, b>> \o q
    BY <1>1 DEF a, b, q
  <2>. QED BY <1>5, <1>6, <2>1, Pushed
<1>9. \A k \in DOMAIN stack : k = 1 \/ \E l \in DOMAIN stack' : stack'[l] = stack[k]
  BY <1>6, <1>8
<1>10. EntersAs(Inner(x), x)
  BY <1>1, <1>2, <1>9 DEF EntersAs
<1>11. PICK new \in Nat : new = Len(tree) + 1
  BY <1>2
<1>12. /\ Leaves' = Leaves
       /\ \A n \in Leaves : tree'[n].size = tree[n].size /\ grown'[n] = grown[n]
       /\ grown'[1].bucket = IF tree = <<>> THEN Call.bucket ELSE grown[1].bucket
  BY <1>4, <1>10, <1>11, LeavesStay
<1>13. \A k \in DOMAIN stack' :
         \/ k = 1 /\ stack'[k].bucket \subseteq Call.bucket
         \/ k = 2 /\ stack'[k].bucket \subseteq Call.bucket
         \/ k # 1 /\ k # 2 /\ k - 1 \in DOMAIN stack /\ k - 1 # 1 /\ stack'[k] = stack[k - 1]
  BY <1>6, <1>7, <1>8
<1>14. (\A n \in Leaves : tree[n].size = Cardinality(grown[n].bucket))'
  BY <1>12 DEF Partition
<1>15. \A i \in grown'[1].bucket : \/ \E n \in Leaves' : i \in grown'[n].bucket
                                 \/ \E k \in DOMAIN stack' : i \in stack'[k].bucket
  <2> SUFFICES ASSUME NEW i \in grown'[1].bucket, i \notin Call.bucket
               PROVE  \/ \E n \in Leaves' : i \in grown'[n].bucket
                      \/ \E k \in DOMAIN stack' : i \in stack'[k].bucket
    BY <1>7, <1>8
  <2>1. \/ \E n \in Leaves : i \in grown[n].bucket
        \/ \E k \in DOMAIN stack : i \in stack[k].bucket
    BY <1>12 DEF Partition
  <2>. QED BY <1>3, <1>6, <1>8, <1>12, <2>1
<1>16. (\A m, n \in Leaves : m # n => grown[m].bucket \cap grown[n].bucket = {})'
  BY <1>12 DEF Partition
<1>17. ASSUME NEW k \in DOMAIN stack', NEW l \in DOMAIN stack', k # l
       PROVE  stack'[k].bucket \cap stack'[l].bucket = {}
  <2>1. \A m \in DOMAIN stack : m # 1 => stack[m].bucket \cap Call.bucket = {}
    BY <1>3 DEF Partition
  <2>2. CASE k \in {1, 2} /\ l \in {1, 2}
    BY <1>7, <1>8, <1>17, <2>2
  <2>3. CASE k \in {1, 2} /\ l \notin {1, 2}
    BY <1>13, <2>1, <2>3
  <2>4. CASE k \notin {1, 2} /\ l \in {1, 2}
    BY <1>13, <2>1, <2>4
  <2>5. CASE k \notin {1, 2} /\ l \notin {1, 2}
    <3>1. k - 1 # l - 1
      BY <1>8, <1>17
    <3>. QED BY <1>13, <2>5, <3>1 DEF Partition
  <2>. QED BY <2>2, <2>3, <2>4, <2>5
<1>18. ASSUME NEW n \in Leaves', NEW k \in DOMAIN stack'
       PROVE  grown'[n].bucket \cap stack'[k].bucket = {}
  BY <1>3, <1>12, <1>13 DEF Partition
<1>. QED BY <1>14, <1>15, <1>16, <1>17, <1>18 DEF Partition

LEMMA PartitionOthers ==
  ASSUME IInv, Partition, [Next]_vars, ~EnterLeaf, ~EnterSplit
  PROVE  Partition'
<1>1. CASE tree' = <<>> /\ stack' = <<>>
  BY <1>1 DEF Partition, Leaves
<1>2. CASE BeginTree
  <2>1. tree' = <<>> /\ DOMAIN stack' = {1}
    BY <1>2 DEF BeginTree
  <2>. QED BY <2>1 DEF Partition, Leaves
<1>3. CASE UNCHANGED <<tree, grown, stack>>
  BY <1>3 DEF Partition, Leaves
<1>. QED BY <1>1, <1>2, <1>3
         DEF Next, Training, BeginTraining, EndTree, WriteForest, KilledInWrite, BeginPrediction,
             NoForest, Walking, WalkDown, EndPath, vars, buildVars

\* Every latency of a sample is in one leaf or waits in one call, and a leaf's size
\* is the number of its latencies, for any latencies and any cut points.
THEOREM LeavesPartitionCorrect == Spec => []LeavesPartition
<1>1. Init => Partition
  BY DEF Init, Partition, Leaves
<1>2. IInv /\ Partition /\ [Next]_vars => Partition'
  BY PartitionLeaf, PartitionSplit, PartitionOthers
<1>3. Partition => LeavesPartition
  BY DEF Partition, LeavesPartition, Leaves
<1>. QED BY <1>1, <1>2, <1>3, ShapeHolds, PTL DEF Spec

----------------------------------------------------------------------------
(* Predictions: the leaves count latencies there are, a file keeps trees of *)
(* such leaves, whole or cut short, and a walk through a whole file has no  *)
(* path exactly if that was trained on one latency.                         *)

\* A size a leaf may have: no more than there are latencies, or made up of nothing
\* but zeros and ones by a file that was cut short.
SizeOK(z) == z \in Nat /\ (z <= 2 \/ \E d \in Datasets : z <= Len(d))

SizedNode == {n \in NodeType : SizeOK(n.size)}

\* The root of a tree for n latencies: a leaf for one; if a leaf for more, of a
\* sample of at least two.
RootOK(t, n) ==
  /\ t # <<>>
  /\ IF n = 1 THEN t[1].is_leaf /\ t[1].size = 1 ELSE t[1].is_leaf => t[1].size >= 2

\* The trees built are of latencies there are.
BuildInv ==
  /\ phase = "build" => data \in Datasets /\ data # <<>>
  /\ tree \in Seq(SizedNode) /\ forests \in Seq(Seq(SizedNode))
  /\ tree = <<>> /\ stack # <<>> => Cardinality(Call.bucket) = Least(size, Len(data))
  /\ tree # <<>> => RootOK(tree, Len(data))
  /\ \A k \in DOMAIN forests : RootOK(forests[k], Len(data))

\* What is left of a tree whose write was cut short.
CutOK(c) ==
  \/ c = NoCut
  \/ \E count \in Nat, nodes, next \in Seq(SizedNode) :
       Len(nodes) <= count /\ c = <<[count |-> count, nodes |-> nodes, next |-> next]>>

FileInv ==
  /\ file.trees \in Seq(Seq(SizedNode)) /\ file.of \in Seq(Nat) /\ CutOK(file.cut)
  /\ file.of # <<>> => /\ file.cut = NoCut
                       /\ \A k \in DOMAIN file.trees : RootOK(file.trees[k], Len(file.of))

\* A walk is in a tree of the model; in the forest of a whole file it stays at the
\* root of each tree if that was trained on one latency, and is below it, or about
\* to leave it, if it was trained on more.
WalkInv ==
  /\ model \in Seq(Seq(SizedNode)) /\ live \in Nat /\ scale \in Sizes \cup {0}
  /\ at \in Nat \X Indices /\ depth \in Nat /\ path \in Nat
  /\ phase = "walk" =>
       /\ at[1] \in DOMAIN model /\ scale \in Sizes
       /\ file.of # <<>> =>
            /\ \A k \in DOMAIN model : RootOK(model[k], Len(file.of))
            /\ Len(file.of) = 1 => path = 0 /\ depth = 0 /\ at[2] = 0
            /\ at[2] = 0 \/ depth > 0

Classes == {"none", "undefined", "normal", "jitter", "suspicious", "anomaly"}

ScoreInv == verdict.class \in Classes /\ OneLatencyScore

\* The average path of a subsample is a number, and none only below two.
LEMMA AverageOf ==
  ASSUME NEW z \in Int, SizeOK(z) \/ z \in Sizes
  PROVE  Average(z) \in Nat /\ (Average(z) = 0 <=> z < 2)
<1>1. z >= 3 => LogTerm(z) \in Nat \ {0}
  <2>1. CASE z \in Sizes
    BY <2>1, ForestAssumption
  <2>2. CASE SizeOK(z)
    <3>1. ASSUME z >= 3, NEW d \in Datasets, z <= Len(d) PROVE LogTerm(z) \in Nat \ {0}
      <4>1. Len(d) \in Nat
        BY ForestAssumption, LenProperties
      <4>2. z \in 3..Len(d)
        BY <3>1, <4>1
      <4>. QED BY <4>2, ForestAssumption
    <3>. QED BY <2>2, <3>1 DEF SizeOK
  <2>. QED BY <2>1, <2>2
<1>2. CASE z = 2
  BY <1>2 DEF Average
<1>3. CASE z < 2
  BY <1>3 DEF Average
<1>4. CASE z >= 3
  BY <1>1, <1>4 DEF Average
<1>. QED BY <1>2, <1>3, <1>4

\* A number cut short is no greater.
LEMMA CutNumberBelow ==
  ASSUME NEW n \in Int, NEW c \in CutNumber(n)
  PROVE  c \in Nat /\ (c = 0 \/ c <= n)
<1>1. CASE c = 0
  BY <1>1
<1>2. ASSUME n >= 0, NEW p \in Powers, c = n \div p
      PROVE  c \in Nat /\ c <= n
  <2>1. p \in Int /\ p > 0 /\ p # 0
    BY DEF Powers
  <2> DEFINE q == n \div p
             r == n % p
  <2>2. q \in Int /\ r \in Int /\ n = p * q + r /\ 0 <= r /\ r < p
    BY <2>1
  <2> HIDE DEF q, r
  <2>3. ~(q <= -1)
    BY <1>2, <2>1, <2>2
  <2>4. q >= 0
    BY <2>2, <2>3
  <2>5. q <= p * q
    BY <2>1, <2>2, <2>4
  <2>6. p * q \in Int
    BY <2>1, <2>2
  <2>7. q <= n
    BY <2>2, <2>5, <2>6
  <2>8. c = q
    BY <1>2 DEF q
  <2>. QED BY <2>2, <2>4, <2>7, <2>8
<1>. QED BY <1>1, <1>2 DEF CutNumber

\* What is read of a size cut short is a size.
LEMMA SizesBelow ==
  ASSUME NEW z, SizeOK(z), NEW c \in Nat, c = 0 \/ c <= z
  PROVE  SizeOK(c)
<1>1. ASSUME NEW d \in Datasets PROVE Len(d) \in Nat
  BY ForestAssumption, LenProperties
<1>. QED BY <1>1 DEF SizeOK

\* What stands for a node that is missing, or was cut short, is a node.
LEMMA GhostsSized == Ghosts \subseteq SizedNode
<1>1. 0 \in Indices /\ SizeOK(0)
  BY DEF Indices, SizeOK
<1>2. \A g \in Garbage : g \in {x \in Int : x % Unit = 0}
  BY ForestAssumption
<1>. QED BY <1>1, <1>2 DEF Ghosts, SizedNode, NodeType

\* What may be read of a node cut short is a node.
LEMMA TornSized ==
  ASSUME NEW n \in SizedNode
  PROVE  TornNodes(n) \subseteq SizedNode
<1>1. /\ n \in NodeType /\ n.left \in Indices /\ n.right \in Indices /\ n.is_leaf \in BOOLEAN
      /\ n.size \in Nat /\ n.split \in Int /\ n.left \in Int /\ n.right \in Int /\ SizeOK(n.size)
  BY DEF SizedNode, NodeType, Indices
<1>2. Unit \in Nat /\ Unit > 0
  BY ForestAssumption
<1>3. SUFFICES ASSUME NEW g \in Ghosts, NEW t,
                      \/ t \in {[g EXCEPT !.left = l] : l \in CutNumber(n.left)}
                      \/ t \in {[g EXCEPT !.left = n.left, !.right = r] :
                                  r \in CutNumber(n.right) \cup {n.right}}
                      \/ t \in {[g EXCEPT !.left = n.left, !.right = n.right,
                                          !.is_leaf = n.is_leaf, !.size = z] :
                                  z \in CutNumber(n.size) \cup {n.size}}
                      \/ t \in {[n EXCEPT !.split = x] :
                                  x \in {Unit * c : c \in CutNumber(n.split \div Unit)}}
               PROVE  t \in SizedNode
  BY DEF TornNodes
<1>4. g \in SizedNode /\ g \in NodeType /\ SizeOK(g.size)
  BY GhostsSized DEF SizedNode
<1>5. \A m \in Int : \A c \in CutNumber(m) : c \in Nat /\ c \in Indices /\ (c = 0 \/ c <= m)
  BY CutNumberBelow DEF Indices
<1>6. CASE t \in {[g EXCEPT !.left = l] : l \in CutNumber(n.left)}
  BY <1>1, <1>4, <1>5, <1>6 DEF SizedNode, NodeType
<1>7. CASE t \in {[g EXCEPT !.left = n.left, !.right = r] : r \in CutNumber(n.right) \cup {n.right}}
  BY <1>1, <1>4, <1>5, <1>7 DEF SizedNode, NodeType
<1>8. CASE t \in {[g EXCEPT !.left = n.left, !.right = n.right, !.is_leaf = n.is_leaf,
                            !.size = z] : z \in CutNumber(n.size) \cup {n.size}}
  <2>1. PICK z \in CutNumber(n.size) \cup {n.size} :
          t = [g EXCEPT !.left = n.left, !.right = n.right, !.is_leaf = n.is_leaf, !.size = z]
    BY <1>8
  <2>2. z \in Nat /\ SizeOK(z)
    BY <1>1, <1>5, SizesBelow
  <2>. QED BY <1>1, <1>4, <2>1, <2>2 DEF SizedNode, NodeType
<1>9. CASE t \in {[n EXCEPT !.split = x] : x \in {Unit * c : c \in CutNumber(n.split \div Unit)}}
  <2>1. n.split \div Unit \in Int
    BY <1>1, <1>2
  <2>2. PICK c \in CutNumber(n.split \div Unit) : t = [n EXCEPT !.split = Unit * c]
    BY <1>9
  <2>3. c \in Nat
    BY <1>5, <2>1
  <2>4. Unit * c \in Int /\ (Unit * c) % Unit = 0
    BY <1>2, <2>3, Multiple
  <2>. QED BY <1>1, <2>2, <2>4 DEF SizedNode, NodeType
<1>. QED BY <1>3, <1>6, <1>7, <1>8, <1>9

\* A file that is read gives trees of nodes.
LEMMA ReloadedSized ==
  ASSUME FileInv, NEW m \in Reloaded
  PROVE  m \in Seq(Seq(SizedNode))
<1>1. CASE file.cut = NoCut
  BY <1>1 DEF Reloaded, FileInv
<1>2. CASE file.cut # NoCut
  <2>1. PICK count \in Nat, nodes \in Seq(SizedNode), next \in Seq(SizedNode) :
          /\ Len(nodes) <= count
          /\ file.cut = <<[count |-> count, nodes |-> nodes, next |-> next]>>
    BY <1>2 DEF FileInv, CutOK
  <2> DEFINE c == [count |-> count, nodes |-> nodes, next |-> next]
             missing == count - Len(nodes)
  <2>2. file.cut[1] = c
    BY <2>1
  <2>3. missing \in Nat
    BY <2>1, LenProperties
  <2>4. Torn(next) \subseteq SizedNode
    <3>1. \A i \in DOMAIN next : next[i] \in SizedNode
      BY ElementOfSeq, LenProperties
    <3>. QED BY <3>1, TornSized, GhostsSized DEF Torn
  <2>5. PICK first \in Torn(c.next), g \in Ghosts : m = Append(file.trees, Refilled(c, first, g))
    <3> HIDE DEF c
    <3>. QED BY <1>2, <2>2 DEF Reloaded
  <2>6. g \in SizedNode /\ first \in SizedNode
    BY <2>4, GhostsSized
  <2> DEFINE rest == [i \in 1..missing |-> IF i = 1 THEN first ELSE g]
  <2>7. Refilled(c, first, g) = nodes \o rest
    BY DEF Refilled
  <2>8. rest \in [1..missing -> SizedNode]
    BY <2>6
  <2> HIDE DEF rest, missing, c
  <2>9. rest \in Seq(SizedNode)
    BY <2>3, <2>8, SeqDef
  <2>10. nodes \o rest \in Seq(SizedNode)
    BY <2>9, ConcatProperties
  <2>. QED BY <2>5, <2>7, <2>10, AppendProperties DEF FileInv
<1>. QED BY <1>1, <1>2

\* A bucket holds no more latencies than there are.
LEMMA BucketSized ==
  ASSUME data \in Seq(Nat), data \in Datasets, NEW b \in SUBSET (DOMAIN data)
  PROVE  SizeOK(Cardinality(b))
<1>1. DOMAIN data = 1..Len(data) /\ Len(data) \in Nat
  OBVIOUS
<1>2. IsFiniteSet(1..Len(data)) /\ Cardinality(1..Len(data)) = Len(data)
  <2>1. 1 \in Int /\ Len(data) \in Int
    BY <1>1
  <2>2. /\ IsFiniteSet(1..Len(data))
        /\ Cardinality(1..Len(data)) = IF 1 > Len(data) THEN 0 ELSE Len(data) - 1 + 1
    BY <2>1, FS_Interval, Zenon
  <2>. QED BY <1>1, <2>2
<1>3. Cardinality(b) <= Len(data)
  BY <1>1, <1>2, FS_Subset
<1>. QED BY <1>3, BucketsFinite DEF SizeOK

\* What a node placed in it does to a tree.
LEMMA PlacedSized ==
  ASSUME BuildTypeOK, Owed, BuildInv, stack # <<>>, NEW node \in SizedNode,
         tree = <<>> => RootOK(<<node>>, Len(data))
  PROVE  Placed(node) \in Seq(SizedNode) /\ RootOK(Placed(node), Len(data))
<1> DEFINE t == Placed(node)
<1>1. node \in NodeType
  BY DEF SizedNode
<1>2. /\ t \in Seq(NodeType) /\ Len(t) = Len(tree) + 1 /\ t[Len(tree) + 1] = node
      /\ DOMAIN t = 1..(Len(tree) + 1) /\ DOMAIN tree = 1..Len(tree)
      /\ \A n \in DOMAIN tree : t[n].is_leaf = tree[n].is_leaf /\ t[n].size = tree[n].size
  BY <1>1, Connected
<1>3. Len(tree) \in Nat /\ \A n \in DOMAIN tree : tree[n] \in SizedNode
  BY ElementOfSeq, LenProperties DEF BuildInv
<1> HIDE DEF t
<1>4. ASSUME NEW n \in DOMAIN t PROVE t[n] \in SizedNode
  <2>1. t[n] \in NodeType
    BY <1>2, ElementOfSeq
  <2>2. n \in DOMAIN tree \/ n = Len(tree) + 1
    BY <1>2, <1>3
  <2>. QED BY <1>2, <1>3, <2>1, <2>2 DEF SizedNode
<1>5. t \in Seq(SizedNode)
  <2>1. t \in [1..Len(t) -> SizedNode] /\ Len(t) \in Nat
    BY <1>2, <1>3, <1>4
  <2>. QED BY <2>1, SeqDef
<1>6. CASE tree = <<>>
  <2>1. Len(tree) = 0
    BY <1>6
  <2>2. t # <<>> /\ t[1] = node /\ <<node>>[1] = node
    BY <1>2, <2>1
  <2>. QED BY <1>5, <1>6, <2>2 DEF RootOK, t
<1>7. CASE tree # <<>>
  <2>1. 1 \in DOMAIN tree /\ t # <<>>
    BY <1>2, <1>3, <1>7, EmptySeq, LenProperties DEF BuildInv
  <2>. QED BY <1>2, <1>5, <1>7, <2>1 DEF RootOK, BuildInv, t
<1>. QED BY <1>6, <1>7

\* A node entered is of a size there may be, and the first is the root.
LEMMA BuildEnters ==
  ASSUME BuildTypeOK, Owed, BuildInv, EnterLeaf \/ EnterSplit
  PROVE  BuildInv'
<1>1. /\ stack # <<>> /\ phase = "build" /\ UNCHANGED <<phase, data, size, forests>>
      /\ data \in Datasets /\ data # <<>> /\ data \in Seq(Nat) /\ size \in Nat /\ size >= 2
  BY DEF EnterLeaf, EnterSplit, BuildInv, BuildTypeOK
<1>2. Call.bucket \in SUBSET (DOMAIN data) /\ Cardinality(Call.bucket) \in Nat
      /\ SizeOK(Cardinality(Call.bucket)) /\ Len(data) \in Nat /\ Len(data) >= 1
  <2>1. Call.bucket \in SUBSET (DOMAIN data)
    BY <1>1, CallTyped
  <2>. QED BY <1>1, <2>1, BucketsFinite, BucketSized
<1>3. tree = <<>> => /\ Len(data) = 1 <=> Cardinality(Call.bucket) = 1
                     /\ Cardinality(Call.bucket) >= 1
  <2>1. tree = <<>> => Cardinality(Call.bucket) = Least(size, Len(data))
    BY <1>1, Zenon DEF BuildInv
  <2> DEFINE n == Cardinality(Call.bucket)
             l == Len(data)
  <2>2. n \in Nat /\ l \in Nat /\ l >= 1 /\ (tree = <<>> => n = Least(size, l))
    BY <1>2, <2>1
  <2> HIDE DEF n, l
  <2>3. tree = <<>> => (l = 1 <=> n = 1) /\ n >= 1
    BY <1>1, <2>2 DEF Least
  <2>. QED BY <2>3 DEF n, l
<1>4. PICK node \in SizedNode :
        tree' = Placed(node) /\ (tree = <<>> => RootOK(<<node>>, Len(data)))
  <2>1. CASE EnterLeaf
    <3> DEFINE node == Leaf(Cardinality(Call.bucket))
    <3>1. node \in SizedNode /\ node.is_leaf /\ node.size = Cardinality(Call.bucket)
      BY <1>2, NodesTyped DEF Leaf, SizedNode
    <3>2. tree' = Placed(node)
      BY <2>1 DEF EnterLeaf
    <3>3. <<node>> # <<>> /\ <<node>>[1] = node
      OBVIOUS
    <3> HIDE DEF node
    <3>4. tree = <<>> => RootOK(<<node>>, Len(data))
      BY <1>2, <1>3, <3>1, <3>3 DEF RootOK
    <3>. QED BY <3>1, <3>2, <3>4
  <2>2. CASE EnterSplit
    <3>1. PICK x \in CutPoints(Call.bucket) : tree' = Placed(Inner(x))
      BY <2>2 DEF EnterSplit
    <3>2. x \in Int
      BY <1>1, <1>2 DEF CutPoints
    <3>3. Inner(x) \in SizedNode /\ ~Inner(x).is_leaf
      BY <3>2, NodesTyped DEF Inner, SizedNode, SizeOK
    <3>4. ~(Cardinality(Call.bucket) <= 1)
      BY <2>2 DEF EnterSplit, Stops
    <3>5. tree = <<>> => Len(data) # 1
      BY <1>2, <1>3, <3>4
    <3>6. <<Inner(x)>> # <<>> /\ <<Inner(x)>>[1] = Inner(x)
      OBVIOUS
    <3>7. tree = <<>> => RootOK(<<Inner(x)>>, Len(data))
      BY <3>3, <3>5, <3>6 DEF RootOK
    <3>. QED BY <3>1, <3>3, <3>7
  <2>. QED BY <2>1, <2>2
<1>5. tree' \in Seq(SizedNode) /\ RootOK(tree', Len(data))
  BY <1>1, <1>4, PlacedSized
<1>6. tree' # <<>>
  BY <1>5 DEF RootOK
<1>. QED BY <1>1, <1>5, <1>6 DEF BuildInv

\* The other steps keep what is known of the trees.
LEMMA BuildOthers ==
  ASSUME BuildTypeOK, Owed, BuildInv, [Next]_vars, ~EnterLeaf, ~EnterSplit
  PROVE  BuildInv'
<1>1. CASE BeginTraining
  <2>1. PICK d \in Datasets : d # <<>> /\ data' = d
    BY <1>1 DEF BeginTraining
  <2>. QED BY <1>1, <2>1 DEF BeginTraining, BuildInv
<1>2. CASE BeginTree
  <2>1. PICK sample \in SUBSET (DOMAIN data) :
          /\ Cardinality(sample) = Least(size, Len(data))
          /\ stack' = <<[bucket |-> sample, depth |-> 0, parent |-> -1, side |-> "root"]>>
    BY <1>2 DEF BeginTree
  <2>2. Call'.bucket = sample
    BY <2>1 DEF Call
  <2>. QED BY <1>2, <2>1, <2>2 DEF BeginTree, BuildInv
<1>3. CASE EndTree
  <2>1. forests' = Append(forests, tree) /\ RootOK(tree, Len(data)) /\ UNCHANGED <<data, phase>>
        /\ tree' = <<>> /\ stack' = <<>>
    BY <1>3 DEF EndTree, BuildInv
  <2>2. forests \in Seq(Seq(SizedNode)) /\ tree \in Seq(SizedNode)
    BY DEF BuildInv
  <2>3. forests' \in Seq(Seq(SizedNode)) /\ Len(forests') = Len(forests) + 1
        /\ \A k \in DOMAIN forests' :
             \/ k \in DOMAIN forests /\ forests'[k] = forests[k]
             \/ forests'[k] = tree
    BY <2>1, <2>2, AppendProperties, LenProperties
  <2>4. \A k \in DOMAIN forests' : RootOK(forests'[k], Len(data))
    BY <2>1, <2>3 DEF BuildInv
  <2>. QED BY <2>1, <2>3, <2>4 DEF BuildInv
<1>4. CASE Written /\ Forgotten /\ UNCHANGED <<tree, grown, stack>>
  BY <1>4 DEF Written, Forgotten, BuildInv
<1>5. CASE BeginPrediction \/ NoForest \/ Walking \/ UNCHANGED vars
  <2>1. UNCHANGED buildVars /\ (phase' = "build" => phase = "build")
    BY <1>5 DEF BeginPrediction, NoForest, Walking, WalkDown, EndPath, vars
  <2>. QED BY <2>1 DEF buildVars, BuildInv, Call
<1>. QED BY <1>1, <1>2, <1>3, <1>4, <1>5 DEF Next, Training, WriteForest, KilledInWrite

\* A file written to its end says what was trained on; one that cannot be opened
\* says what it did.
LEMMA FileWritten ==
  ASSUME BuildTypeOK, BuildInv, FileInv, WriteForest
  PROVE  FileInv'
<1>1. file' = file \/ file' = [trees |-> forests, cut |-> NoCut, of |-> data]
  BY DEF WriteForest
<1>2. /\ forests \in Seq(Seq(SizedNode)) /\ data \in Seq(Nat)
      /\ \A k \in DOMAIN forests : RootOK(forests[k], Len(data))
  BY DEF BuildInv, BuildTypeOK
<1>3. CASE file' = file
  BY <1>3 DEF FileInv
<1>4. CASE file' = [trees |-> forests, cut |-> NoCut, of |-> data]
  BY <1>2, <1>4 DEF FileInv, CutOK
<1>. QED BY <1>1, <1>3, <1>4

\* A file cut short holds trees of the forest and the torn parts of one.
LEMMA FileCut ==
  ASSUME BuildInv, FileInv, KilledInWrite
  PROVE  FileInv'
<1>1. forests \in Seq(Seq(SizedNode)) /\ DOMAIN forests = 1..Len(forests) /\ Len(forests) \in Nat
  BY DEF BuildInv
<1>2. PICK k \in 1..Len(forests) :
        LET t == forests[k]
        IN \E cut \in {NoCut}
               \cup {<<[count |-> c, nodes |-> <<>>, next |-> <<>>]>> : c \in CutNumber(Len(t))}
               \cup {<<[count |-> Len(t), nodes |-> SubSeq(t, 1, n), next |-> <<t[n + 1]>>]>> :
                       n \in 0..(Len(t) - 1)} :
             file' = [trees |-> SubSeq(forests, 1, k - 1), cut |-> cut, of |-> <<>>]
  BY DEF KilledInWrite
<1> DEFINE t == forests[k]
<1>3. t \in Seq(SizedNode) /\ Len(t) \in Nat /\ DOMAIN t = 1..Len(t)
  BY <1>1, ElementOfSeq, LenProperties
<1>4. SubSeq(forests, 1, k - 1) \in Seq(Seq(SizedNode))
  BY <1>1, SubSeqProperties
<1>5. PICK cut : /\ \/ cut = NoCut
                    \/ \E c \in CutNumber(Len(t)) :
                         cut = <<[count |-> c, nodes |-> <<>>, next |-> <<>>]>>
                    \/ \E n \in 0..(Len(t) - 1) :
                         cut = <<[count |-> Len(t), nodes |-> SubSeq(t, 1, n),
                                  next |-> <<t[n + 1]>>]>>
                 /\ file' = [trees |-> SubSeq(forests, 1, k - 1), cut |-> cut, of |-> <<>>]
  BY <1>2
<1> HIDE DEF t
<1>6. CutOK(cut)
  <2>1. CASE cut = NoCut
    BY <2>1 DEF CutOK
  <2>2. ASSUME NEW c \in CutNumber(Len(t)), cut = <<[count |-> c, nodes |-> <<>>, next |-> <<>>]>>
        PROVE  CutOK(cut)
    <3>1. c \in Nat /\ <<>> \in Seq(SizedNode) /\ Len(<<>>) <= c
      BY <1>3, CutNumberBelow
    <3>. QED BY <2>2, <3>1 DEF CutOK
  <2>3. ASSUME NEW n \in 0..(Len(t) - 1),
               cut = <<[count |-> Len(t), nodes |-> SubSeq(t, 1, n), next |-> <<t[n + 1]>>]>>
        PROVE  CutOK(cut)
    <3>1. SubSeq(t, 1, n) \in Seq(SizedNode) /\ Len(SubSeq(t, 1, n)) = n
      BY <1>3, SubSeqProperties
    <3>2. <<t[n + 1]>> \in Seq(SizedNode)
      BY <1>3, ElementOfSeq
    <3>3. n <= Len(t)
      BY <1>3
    <3>. QED BY <1>3, <2>3, <3>1, <3>2, <3>3 DEF CutOK
  <2>. QED BY <1>5, <2>1, <2>2, <2>3
<1>. QED BY <1>4, <1>5, <1>6 DEF FileInv

\* Every step keeps what is known of the file.
LEMMA FileStep ==
  ASSUME BuildTypeOK, BuildInv, FileInv, [Next]_vars
  PROVE  FileInv'
<1>1. CASE UNCHANGED file
  BY <1>1 DEF FileInv
<1>. QED BY <1>1, FileWritten, FileCut
         DEF Next, Training, BeginTraining, BeginTree, EnterLeaf, EnterSplit, EndTree,
             BeginPrediction, NoForest, Walking, WalkDown, EndPath, vars

\* A prediction begins at the root of the first tree it reads.
LEMMA WalkBegins ==
  ASSUME FileInv, WalkInv, BeginPrediction
  PROVE  WalkInv'
<1>1. PICK m \in Reloaded, d \in Datasets, s \in Sizes :
         m # <<>> /\ model' = m /\ (\E i \in DOMAIN d : live' = d[i]) /\ scale' = s
  BY DEF BeginPrediction
<1>2. m \in Seq(Seq(SizedNode)) /\ 1 \in DOMAIN m
  BY <1>1, ReloadedSized, EmptySeq, LenProperties
<1>3. live' \in Nat
  <2>1. d \in Seq(Nat)
    BY ForestAssumption
  <2>. QED BY <1>1, <2>1, ElementOfSeq, LenProperties
<1>4. file.of # <<>> => \A k \in DOMAIN m : RootOK(m[k], Len(file.of))
  <2>1. file.of # <<>> => m = file.trees
    BY DEF FileInv, Reloaded
  <2>. QED BY <2>1 DEF FileInv
<1>5. /\ at' = <<1, 0>> /\ depth' = 0 /\ path' = 0 /\ UNCHANGED file
      /\ 0 \in Indices /\ at'[1] = 1 /\ at'[2] = 0
  BY DEF BeginPrediction, Indices
<1>. QED BY <1>1, <1>2, <1>3, <1>4, <1>5 DEF WalkInv

\* The tree a walk is in, and the node it is at.
LEMMA HereIs ==
  ASSUME WalkInv, phase = "walk"
  PROVE  /\ Here \in Seq(SizedNode) /\ at[1] \in Nat /\ at[1] >= 1 /\ at[1] <= Len(model)
         /\ at[2] \in Indices /\ Len(model) \in Nat /\ at = <<at[1], at[2]>>
         /\ InTree(Here, at[2]) => Here2 \in SizedNode
         /\ file.of # <<>> => RootOK(Here, Len(file.of))
         /\ at[2] = 0 => Here2 = Here[1]
         /\ file.of # <<>> /\ at[2] = 0 => InTree(Here, at[2])
<1>1. model \in Seq(Seq(SizedNode)) /\ at[1] \in DOMAIN model /\ at \in Nat \X Indices
  BY DEF WalkInv
<1>2. Here \in Seq(SizedNode) /\ at[1] \in Nat /\ at[1] >= 1 /\ at[1] <= Len(model)
      /\ at[2] \in Indices /\ Len(model) \in Nat /\ at = <<at[1], at[2]>>
  BY <1>1, ElementOfSeq, LenProperties DEF Here
<1>3. Len(Here) \in Nat /\ at[2] \in Int
  BY <1>2, LenProperties DEF Indices
<1>4. InTree(Here, at[2]) => Here2 \in SizedNode
  <2>1. InTree(Here, at[2]) => at[2] + 1 \in 1..Len(Here)
    BY <1>3 DEF InTree
  <2>2. InTree(Here, at[2]) => Here[at[2] + 1] \in SizedNode
    BY <1>2, <2>1, ElementOfSeq
  <2>. QED BY <2>2 DEF Here2, Node
<1>5. file.of # <<>> => RootOK(Here, Len(file.of))
  BY <1>1 DEF WalkInv, Here
<1>6. at[2] = 0 => Here2 = Here[1]
  BY DEF Here2, Node
<1>7. file.of # <<>> /\ at[2] = 0 => InTree(Here, at[2])
  <2>1. file.of # <<>> => Len(Here) # 0
    BY <1>2, <1>5, EmptySeq DEF RootOK
  <2>. QED BY <1>3, <2>1 DEF InTree
<1>. QED BY <1>2, <1>4, <1>5, <1>6, <1>7

\* A walk that goes down has left the root, and there is one to leave.
LEMMA WalkGoesDown ==
  ASSUME WalkInv, WalkDown
  PROVE  WalkInv'
<1>1. /\ phase = "walk" /\ InTree(Here, at[2]) /\ ~Here2.is_leaf
      /\ at' = <<at[1], Route(Here2, live)>> /\ depth' = Least(depth + 1, MaxWalk)
      /\ UNCHANGED <<phase, file, model, live, scale, path>>
  BY DEF WalkDown
<1>2. Here2 \in SizedNode /\ at[1] \in Nat
  BY <1>1, HereIs
<1>3. Route(Here2, live) \in Indices
  BY <1>2 DEF Route, SizedNode, NodeType
<1>4. depth \in Nat /\ MaxWalk \in Nat /\ MaxWalk > 0
  BY ForestAssumption DEF WalkInv
<1>5. depth' \in Nat /\ depth' > 0
  BY <1>1, <1>4 DEF Least
<1>6. file.of # <<>> => Len(file.of) # 1
  <2>1. file.of # <<>> /\ Len(file.of) = 1 => at[2] = 0 /\ RootOK(Here, 1)
    BY <1>1, HereIs DEF WalkInv
  <2>. QED BY <1>1, <2>1, HereIs DEF RootOK
<1>7. at'[1] = at[1] /\ at' \in Nat \X Indices
  BY <1>1, <1>2, <1>3
<1>. QED BY <1>1, <1>5, <1>6, <1>7 DEF WalkInv

\* The path length of a walk, as it ends in a tree.
Total == path + 1000 * depth + IF InTree(Here, at[2]) THEN Average(Here2.size) ELSE 0

\* The path of a whole file's forest is nothing exactly if it was trained on one
\* latency.
LEMMA TotalOf ==
  ASSUME WalkInv, phase = "walk", InTree(Here, at[2]) => Here2.is_leaf
  PROVE  Total \in Nat /\ (file.of # <<>> => (Total = 0 <=> Len(file.of) = 1))
<1> DEFINE last == IF InTree(Here, at[2]) THEN Average(Here2.size) ELSE 0
<1>1. path \in Nat /\ depth \in Nat
  BY DEF WalkInv
<1>2. InTree(Here, at[2]) => /\ Here2.size \in Int /\ Average(Here2.size) \in Nat
                             /\ Average(Here2.size) = 0 <=> Here2.size < 2
  <2>1. InTree(Here, at[2]) => Here2.size \in Int /\ SizeOK(Here2.size)
    BY HereIs DEF SizedNode, NodeType
  <2>. QED BY <2>1, AverageOf
<1>3. last \in Nat
  BY <1>2
<1>4. file.of # <<>> /\ at[2] = 0 =>
        IF Len(file.of) = 1 THEN last = 0 ELSE last # 0
  <2> SUFFICES ASSUME file.of # <<>>, at[2] = 0
               PROVE  IF Len(file.of) = 1 THEN last = 0 ELSE last # 0
    OBVIOUS
  <2>1. InTree(Here, at[2]) /\ RootOK(Here, Len(file.of)) /\ Here2 = Here[1] /\ Here2.is_leaf
    BY HereIs
  <2>2. CASE Len(file.of) = 1
    <3>1. Here2.size = 1
      BY <2>1, <2>2 DEF RootOK
    <3>. QED BY <1>2, <2>1, <2>2, <3>1
  <2>3. CASE Len(file.of) # 1
    <3>1. Here2.size >= 2
      BY <2>1, <2>3 DEF RootOK
    <3>. QED BY <1>2, <2>1, <2>3, <3>1
  <2>. QED BY <2>2, <2>3
<1>5. Total = path + 1000 * depth + last
  BY DEF Total
<1> HIDE DEF last
<1>6. Total \in Nat /\ (depth > 0 => Total # 0) /\ (last # 0 => Total # 0)
      /\ (path = 0 /\ depth = 0 /\ last = 0 => Total = 0)
  BY <1>1, <1>3, <1>5
<1>7. file.of # <<>> => /\ Len(file.of) = 1 => path = 0 /\ depth = 0 /\ at[2] = 0
                        /\ at[2] = 0 \/ depth > 0
  BY DEF WalkInv
<1>. QED BY <1>4, <1>6, <1>7

\* The classes, and when a score is no number or that of an anomaly.
LEMMA ClassOf ==
  ASSUME NEW total \in Nat, NEW trees \in Nat, trees >= 1, NEW c \in Nat
  PROVE  /\ Class(total, trees, c) \in Classes
         /\ Class(total, trees, c) = "undefined" <=> c = 0 /\ total = 0
         /\ c # 0 /\ total = 0 => Class(total, trees, c) = "anomaly"
<1>1. trees * c \in Nat /\ (c # 0 => trees * c >= 1)
  <2>1. trees * c \in Nat
    OBVIOUS
  <2>2. c # 0 => trees * c >= 1 * c
    OBVIOUS
  <2>. QED BY <2>1, <2>2
<1>2. CASE c = 0 /\ total = 0
  BY <1>2 DEF Class, Classes
<1>3. CASE c = 0 /\ total # 0
  <2>1. total > 0
    BY <1>3
  <2>2. Class(total, trees, c) = "normal"
    BY <1>3, <2>1 DEF Class
  <2>. QED BY <1>3, <2>2 DEF Classes
<1>4. CASE c # 0
  <2> DEFINE k == trees * c
  <2>1. k \in Nat /\ k >= 1 /\ 622 * trees * c = 622 * k /\ 321 * trees * c = 321 * k
    BY <1>1, <1>4
  <2>2. Class(total, trees, c) =
          CASE total >= k                               -> "normal"
            [] total < k /\ 1000 * total >= 622 * k     -> "jitter"
            [] 1000 * total < 622 * k /\ 1000 * total > 321 * k -> "suspicious"
            [] OTHER                                    -> "anomaly"
    BY <1>4, <2>1 DEF Class
  <2> HIDE DEF k
  <2>3. Class(total, trees, c) \in {"normal", "jitter", "suspicious", "anomaly"}
    BY <2>1, <2>2
  <2>4. total = 0 => ~(total >= k) /\ ~(1000 * total >= 622 * k) /\ ~(1000 * total > 321 * k)
    BY <2>1
  <2>5. total = 0 => Class(total, trees, c) = "anomaly"
    BY <2>2, <2>4
  <2>. QED BY <1>4, <2>3, <2>5 DEF Classes
<1>. QED BY <1>2, <1>3, <1>4

\* The last path gives the score, and the others the next tree.
LEMMA PathEnds ==
  ASSUME FileInv, WalkInv, ScoreInv, EndPath
  PROVE  WalkInv' /\ ScoreInv'
<1>1. phase = "walk" /\ (InTree(Here, at[2]) => Here2.is_leaf) /\ UNCHANGED file
  BY DEF EndPath
<1>2. Total \in Nat /\ (file.of # <<>> => (Total = 0 <=> Len(file.of) = 1))
  BY <1>1, TotalOf
<1>3. at[1] \in Nat /\ at[1] >= 1 /\ at[1] <= Len(model) /\ Len(model) \in Nat
      /\ DOMAIN model = 1..Len(model)
  BY <1>1, HereIs, LenProperties DEF WalkInv
<1>4. 0 \in Indices
  BY DEF Indices
<1>5. \/ /\ at[1] < Len(model) /\ path' = Total /\ at' = <<at[1] + 1, 0>> /\ depth' = 0
         /\ UNCHANGED <<phase, model, live, scale, verdict>>
      \/ /\ at[1] = Len(model) /\ phase' = "idle"
         /\ verdict' = [class |-> Class(Total, Len(model), Average(scale)),
                         scale |-> scale, of |-> file.of]
         /\ model' = <<>> /\ live' = 0 /\ scale' = 0
         /\ at' = <<1, 0>> /\ depth' = 0 /\ path' = 0
  BY DEF EndPath, Total
<1>6. CASE at[1] < Len(model)
  <2>1. /\ path' = Total /\ at' = <<at[1] + 1, 0>> /\ depth' = 0
        /\ UNCHANGED <<phase, model, live, scale, verdict, file>>
    BY <1>1, <1>3, <1>5, <1>6
  <2>2. at'[1] = at[1] + 1 /\ at'[2] = 0 /\ at'[1] \in DOMAIN model /\ at' \in Nat \X Indices
    BY <1>3, <1>4, <1>6, <2>1
  <2>3. WalkInv'
    BY <1>2, <2>1, <2>2 DEF WalkInv
  <2>. QED BY <2>1, <2>3 DEF ScoreInv, OneLatencyScore
<1>7. CASE at[1] = Len(model)
  <2>1. /\ phase' = "idle"
        /\ verdict' = [class |-> Class(Total, Len(model), Average(scale)),
                        scale |-> scale, of |-> file.of]
        /\ model' = <<>> /\ live' = 0 /\ scale' = 0
        /\ at' = <<1, 0>> /\ depth' = 0 /\ path' = 0
    BY <1>3, <1>5, <1>7
  <2>2. WalkInv'
    BY <1>4, <2>1 DEF WalkInv
  <2>3. scale \in Sizes /\ scale \in Int /\ Len(file.of) \in Nat
    BY <1>1, ForestAssumption, LenProperties DEF WalkInv, FileInv
  <2>4. Average(scale) \in Nat /\ (Average(scale) = 0 <=> scale < 2)
    BY <2>3, AverageOf
  <2> DEFINE class == Class(Total, Len(model), Average(scale))
  <2>5. /\ class \in Classes
        /\ class = "undefined" <=> Average(scale) = 0 /\ Total = 0
        /\ Average(scale) # 0 /\ Total = 0 => class = "anomaly"
    BY <1>2, <1>3, <2>4, ClassOf
  <2>6. verdict'.class = class /\ verdict'.scale = scale /\ verdict'.of = file.of
    BY <2>1
  <2> HIDE DEF class
  <2>7. scale < 2 <=> scale <= 1
    BY <2>3
  <2>8. scale >= 2 <=> ~(scale < 2)
    BY <2>3
  <2>9. ScoreInv'
    BY <1>2, <2>4, <2>5, <2>6, <2>7, <2>8 DEF ScoreInv, OneLatencyScore
  <2>. QED BY <2>2, <2>9
<1>. QED BY <1>3, <1>5, <1>6, <1>7

\* Every step keeps what is known of the walk and of the verdict.
LEMMA WalkStep ==
  ASSUME FileInv, WalkInv, ScoreInv, [Next]_vars
  PROVE  WalkInv' /\ ScoreInv'
<1>1. CASE BeginPrediction
  BY <1>1, WalkBegins DEF BeginPrediction, ScoreInv, OneLatencyScore
<1>2. CASE WalkDown
  BY <1>2, WalkGoesDown DEF WalkDown, ScoreInv, OneLatencyScore
<1>3. CASE EndPath
  BY <1>3, PathEnds
<1>4. CASE BeginTraining \/ Training \/ KilledInWrite \/ NoForest \/ UNCHANGED vars
  <2>1. UNCHANGED walkVars /\ (phase' = "walk" => phase = "walk" /\ UNCHANGED file)
    BY <1>4 DEF BeginTraining, Training, BeginTree, EnterLeaf, EnterSplit, EndTree, WriteForest,
                Written, Forgotten, KilledInWrite, NoForest, vars
  <2>2. WalkInv'
    BY <2>1 DEF walkVars, WalkInv
  <2>3. verdict' = verdict \/ verdict' = NoVerdict
    BY <1>4 DEF BeginTraining, Training, BeginTree, EnterLeaf, EnterSplit, EndTree, WriteForest,
                KilledInWrite, NoForest, vars
  <2>. QED BY <2>2, <2>3 DEF ScoreInv, OneLatencyScore, NoVerdict, Classes
<1>. QED BY <1>1, <1>2, <1>3, <1>4 DEF Next, Walking

\* What is known of trees, files, walks and verdicts holds throughout.
LEMMA ScoresHold == Spec => [](BuildInv /\ FileInv /\ WalkInv /\ ScoreInv)
<1>1. Init => BuildInv /\ FileInv /\ WalkInv /\ ScoreInv
  <2> SUFFICES ASSUME Init PROVE BuildInv /\ FileInv /\ WalkInv /\ ScoreInv
    OBVIOUS
  <2>1. BuildInv
    BY DEF Init, BuildInv
  <2>2. FileInv
    BY DEF Init, FileInv, CutOK
  <2>3. WalkInv
    BY DEF Init, WalkInv, Indices
  <2>4. ScoreInv
    BY DEF Init, ScoreInv, OneLatencyScore, NoVerdict, Classes
  <2>. QED BY <2>1, <2>2, <2>3, <2>4
<1>2. /\ BuildTypeOK /\ Owed /\ BuildInv /\ FileInv /\ WalkInv /\ ScoreInv /\ [Next]_vars
      => (BuildInv /\ FileInv /\ WalkInv /\ ScoreInv)'
  BY BuildEnters, BuildOthers, FileStep, WalkStep
<1>. QED BY <1>1, <1>2, BuildTypeCorrect, PTL DEF Spec

\* Every variable keeps its type: training and prediction, a file cut short included.
THEOREM ForestTypesCorrect == Spec => []ForestTypeOK
<1>1. SizedNode \subseteq NodeType
  BY DEF SizedNode
<1>2. Sizes \cup {0} \subseteq Int
  BY ForestAssumption
<1>3. Seq(Seq(SizedNode)) \subseteq Seq(Seq(NodeType))
  <2>1. Seq(SizedNode) \subseteq Seq(NodeType)
    BY <1>1, SeqDef
  <2>. QED BY <2>1
<1>4. BuildTypeOK /\ FileInv /\ WalkInv /\ ScoreInv => ForestTypeOK
  BY <1>2, <1>3 DEF FileInv, WalkInv, ScoreInv, Classes, ForestTypeOK, WalkTypeOK
<1>. QED BY <1>4, ScoresHold, BuildTypeCorrect, PTL

\* The score of a whole file is no number exactly for one latency and a subsample
\* below two, and an anomaly for one latency and any other, whatever trees were drawn
\* and whatever the prediction is asked with.
THEOREM OneLatencyScoreCorrect == Spec => []OneLatencyScore
<1>1. ScoreInv => OneLatencyScore
  BY DEF ScoreInv
<1>. QED BY <1>1, ScoresHold, PTL

----------------------------------------------------------------------------
(* The walk of a prediction.                                             *)

\* The children of each inner node are further on in the tree.
Forward(t) ==
  \A n \in DOMAIN t : ~t[n].is_leaf => /\ t[n].left \in n..(Len(t) - 1)
                                       /\ t[n].right \in n..(Len(t) - 1)

AllForward(trees) == \A k \in DOMAIN trees : Forward(trees[k])

\* The walk of a whole file's forest.
WalkOfWhole == phase = "walk" /\ file.of # <<>>

\* A prediction from a file that was written to its end stays in its trees
\* (Predict.cpp:21-35): the check of the index never ends a path.
WalkInTree == WalkOfWhole => InTree(Here, at[2])

\* It goes to a node further on in the same tree with every step, so that it meets no
\* node twice.
WalkForward == [][WalkDown /\ file.of # <<>> => at'[1] = at[1] /\ at'[2] > at[2]]_vars

\* So are the trees that are built, those of a whole file and those that were loaded.
ForwardInv ==
  /\ AllForward(forests)
  /\ file.of # <<>> => AllForward(file.trees)
  /\ WalkOfWhole => AllForward(model)

\* A tree with no call left to make is such a tree.
LEMMA TreeForward ==
  ASSUME BuildTypeOK, TreeShape, stack = <<>>
  PROVE  Forward(tree)
<1>1. tree \in Seq(NodeType) /\ DOMAIN stack = {}
  BY DEF BuildTypeOK
<1>2. ASSUME NEW n \in DOMAIN tree, ~tree[n].is_leaf
      PROVE  tree[n].left \in n..(Len(tree) - 1) /\ tree[n].right \in n..(Len(tree) - 1)
  <2>1. Placed2(n, tree[n].left) /\ Placed2(n, tree[n].right)
    BY <1>1, <1>2 DEF TreeShape, Pending
  <2>2. n \in Int /\ Len(tree) \in Int /\ tree[n] \in NodeType
    BY <1>1, ElementOfSeq, LenProperties
  <2>3. tree[n].left \in Int /\ tree[n].right \in Int
    BY <2>2 DEF NodeType, Indices
  <2>. QED BY <2>1, <2>2, <2>3 DEF Placed2
<1>. QED BY <1>2 DEF Forward

\* A step down a tree of a whole file is a step forward.
LEMMA DownIsForward ==
  ASSUME WalkInv, ForwardInv, WalkDown, file.of # <<>>
  PROVE  at'[1] = at[1] /\ at'[2] \in (at[2] + 1)..(Len(Here) - 1)
<1>1. /\ phase = "walk" /\ InTree(Here, at[2]) /\ ~Here2.is_leaf
      /\ at' = <<at[1], Route(Here2, live)>>
  BY DEF WalkDown
<1>2. Here \in Seq(SizedNode) /\ at[2] \in Int /\ Len(Here) \in Nat
  BY <1>1, HereIs, LenProperties DEF Indices
<1>3. at[2] + 1 \in DOMAIN Here /\ Here2 = Here[at[2] + 1]
  <2>1. at[2] + 1 \in 1..Len(Here)
    BY <1>1, <1>2 DEF InTree
  <2>. QED BY <1>2, <2>1, LenProperties DEF Here2, Node
<1>4. Forward(Here)
  <2>1. at[1] \in DOMAIN model
    BY <1>1 DEF WalkInv
  <2>. QED BY <1>1, <2>1 DEF ForwardInv, WalkOfWhole, AllForward, Here
<1>5. /\ Here2.left \in (at[2] + 1)..(Len(Here) - 1)
      /\ Here2.right \in (at[2] + 1)..(Len(Here) - 1)
  BY <1>1, <1>3, <1>4 DEF Forward
<1>. QED BY <1>1, <1>5 DEF Route

\* Every step keeps the trees so.
LEMMA ForwardStep ==
  ASSUME BuildTypeOK, TreeShape, BuildInv, FileInv, ForwardInv, [Next]_vars
  PROVE  ForwardInv'
<1>1. CASE EndTree
  <2>1. /\ forests' = Append(forests, tree) /\ stack = <<>>
        /\ UNCHANGED <<phase, file, model>>
    BY <1>1 DEF EndTree, walkVars
  <2>2. forests \in Seq(Seq(NodeType)) /\ tree \in Seq(NodeType) /\ Forward(tree)
    BY <2>1, TreeForward DEF BuildTypeOK
  <2>3. \A k \in DOMAIN forests' :
          \/ k \in DOMAIN forests /\ forests'[k] = forests[k]
          \/ forests'[k] = tree
    BY <2>1, <2>2, AppendProperties, LenProperties
  <2>4. AllForward(forests')
    BY <2>2, <2>3 DEF AllForward, ForwardInv
  <2>. QED BY <2>1, <2>4 DEF ForwardInv, WalkOfWhole
<1>2. CASE WriteForest
  <2>1. /\ file' = file \/ file'.trees = forests
        /\ forests' = <<>> /\ phase' = "idle"
    BY <1>2 DEF WriteForest, Forgotten
  <2>. QED BY <2>1 DEF ForwardInv, WalkOfWhole, AllForward
<1>3. CASE KilledInWrite
  <2>1. file'.of = <<>> /\ forests' = <<>>
    BY <1>3 DEF KilledInWrite, Forgotten
  <2>. QED BY <2>1 DEF ForwardInv, WalkOfWhole, AllForward
<1>4. CASE BeginTraining
  <2>1. forests' = <<>> /\ file' = file /\ phase' = "build"
    BY <1>4 DEF BeginTraining
  <2>. QED BY <2>1 DEF ForwardInv, WalkOfWhole, AllForward
<1>5. CASE BeginPrediction
  <2>1. PICK m \in Reloaded : model' = m
    BY <1>5 DEF BeginPrediction
  <2>2. file.of # <<>> => m = file.trees
    BY DEF FileInv, Reloaded
  <2>3. forests' = forests /\ file' = file
    BY <1>5 DEF BeginPrediction, buildVars
  <2>. QED BY <2>1, <2>2, <2>3 DEF ForwardInv, WalkOfWhole
<1>6. CASE EndPath
  <2>1. forests' = forests /\ file' = file /\ phase = "walk"
        /\ (phase' = "idle" \/ (phase' = phase /\ model' = model))
    <3>1. phase' = "idle" \/ (phase' = phase /\ model' = model)
      BY <1>6 DEF EndPath
    <3>. QED BY <1>6, <3>1 DEF EndPath, buildVars
  <2>. QED BY <2>1 DEF ForwardInv, WalkOfWhole
<1>7. CASE UNCHANGED <<phase, forests, file, model>>
  BY <1>7 DEF ForwardInv, WalkOfWhole
<1>. QED BY <1>1, <1>2, <1>3, <1>4, <1>5, <1>6, <1>7
         DEF Next, Training, BeginTree, EnterLeaf, EnterSplit, NoForest, Walking, WalkDown,
             vars, buildVars, walkVars

\* Every step keeps the walk in its tree.
LEMMA InTreeStep ==
  ASSUME FileInv, WalkInv, WalkInv', ForwardInv, WalkInTree, [Next]_vars
  PROVE  WalkInTree'
<1>1. CASE WalkDown
  <2>1. UNCHANGED <<phase, file, model>> /\ phase = "walk"
    BY <1>1 DEF WalkDown
  <2>2. CASE file.of # <<>>
    <3>1. at'[1] = at[1] /\ at'[2] \in (at[2] + 1)..(Len(Here) - 1)
      BY <1>1, <2>2, DownIsForward
    <3>2. Here' = Here
      BY <2>1, <3>1 DEF Here
    <3>3. at[2] \in Int /\ at[2] >= 0 /\ Len(Here) \in Int
      BY <2>1, <2>2, HereIs, LenProperties DEF WalkInTree, WalkOfWhole, InTree, Indices
    <3>4. InTree(Here', at'[2])
      BY <3>1, <3>2, <3>3 DEF InTree
    <3>. QED BY <3>4 DEF WalkInTree
  <2>. QED BY <2>1, <2>2 DEF WalkInTree, WalkOfWhole
<1>2. CASE BeginPrediction \/ EndPath
  <2>1. at'[2] = 0
    BY <1>2 DEF BeginPrediction, EndPath
  <2>2. phase' = "walk" /\ file'.of # <<>> => InTree(Here, at[2])'
    <3>1. (WalkInv /\ phase = "walk" => (file.of # <<>> /\ at[2] = 0 => InTree(Here, at[2])))'
      BY HereIs, PTL
    <3>. QED BY <2>1, <3>1
  <2>. QED BY <2>2 DEF WalkInTree, WalkOfWhole
<1>3. CASE phase' # "walk"
  BY <1>3 DEF WalkInTree, WalkOfWhole
<1>4. CASE UNCHANGED <<phase, file, model, at>>
  BY <1>4 DEF WalkInTree, WalkOfWhole, Here
<1>. QED BY <1>1, <1>2, <1>3, <1>4
         DEF Next, Training, BeginTraining, BeginTree, EnterLeaf, EnterSplit, EndTree, WriteForest,
             Forgotten, KilledInWrite, NoForest, Walking, vars, walkVars

\* Trees go forward and walks stay in them, at every state.
LEMMA ForwardHolds == Spec => [](ForwardInv /\ WalkInTree)
<1>1. Init => ForwardInv /\ WalkInTree
  BY DEF Init, ForwardInv, WalkOfWhole, WalkInTree, AllForward
<1>2. /\ BuildTypeOK /\ TreeShape /\ BuildInv /\ FileInv /\ WalkInv /\ WalkInv'
      /\ ForwardInv /\ WalkInTree /\ [Next]_vars
      => ForwardInv' /\ WalkInTree'
  BY ForwardStep, InTreeStep
<1>. QED BY <1>1, <1>2, BuildTypeCorrect, TreeShapeCorrect, ScoresHold, PTL DEF Spec

\* The index is checked for nothing in a file that was written to its end.
THEOREM WalkInTreeCorrect == Spec => []WalkInTree
  BY ForwardHolds, PTL

\* A walk of a whole file meets no node twice, which is what PredictionEnds rests on.
THEOREM WalkForwardCorrect == Spec => WalkForward
<1>1. /\ WalkInv /\ ForwardInv /\ [Next]_vars
      => [WalkDown /\ file.of # <<>> => at'[1] = at[1] /\ at'[2] > at[2]]_vars
  <2> SUFFICES ASSUME WalkInv, ForwardInv, WalkDown, file.of # <<>>
               PROVE  at'[1] = at[1] /\ at'[2] > at[2]
    OBVIOUS
  <2>1. at'[1] = at[1] /\ at'[2] \in (at[2] + 1)..(Len(Here) - 1)
    BY DownIsForward
  <2>2. at[2] \in Int /\ Len(Here) \in Int
    BY HereIs, LenProperties DEF WalkDown, Indices
  <2>. QED BY <2>1, <2>2
<1>. QED BY <1>1, ForwardHolds, ScoresHold, PTL DEF Spec, WalkForward
=============================================================================
