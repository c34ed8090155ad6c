----------------------------- MODULE IsoForest -----------------------------
(***************************************************************************)
(* The isolation forest over the latencies of a target: training builds    *)
(* random trees and writes them to a text file (Training.cpp), prediction  *)
(* reads the file back and walks every tree with a latency (Predict.cpp).  *)
(* Latencies and cut points are doubles; one is Unit steps of the model.   *)
(***************************************************************************)
EXTENDS Integers, Sequences, FiniteSets

CONSTANTS
  Datasets,    \* the latencies of a database, as sequences
  Sizes,       \* configured subsample sizes
  TreeCounts,  \* configured numbers of trees
  Unit,        \* steps in 1
  Garbage,     \* what an int nothing was written to may hold
  LogTerm(_),  \* 2 * (ln(m - 1) + gamma) - 2 * (m - 1) / m, in thousandths
  MaxWalk,     \* bound: depths told apart
  MaxTrainings \* bound: trainings begun

ASSUME ForestAssumption ==
  /\ Datasets \subseteq Seq(Nat)
  /\ Sizes \subseteq Int /\ TreeCounts \subseteq Int /\ Garbage \subseteq Int
  /\ Unit \in Nat \ {0} /\ \A g \in Garbage : g % Unit = 0
  /\ MaxWalk \in Nat \ {0} /\ MaxTrainings \in Nat
  /\ \A d \in Datasets : \A m \in 3..Len(d) : LogTerm(m) \in Nat \ {0}
  /\ \A s \in Sizes : s >= 3 => LogTerm(s) \in Nat \ {0}

VARIABLES
  phase,    \* "idle", "build" or "walk"
  data,     \* the latencies trained on
  begun,    \* trainings begun, for the bound
  size,     \* subsample_size, at least two
  todo,     \* trees still to build
  forests,  \* the trees built
  tree,     \* the tree being built
  grown,    \* the bucket, depth and cut point of each of its nodes (history)
  stack,    \* the calls of buildTreeRecursive still to make, next one first
  file,     \* the trees in the file, what is left of one cut short, and the
            \* latencies of a file that is whole (history)
  model,    \* the forest a prediction has loaded
  live,     \* the latency it scores
  scale,    \* its subsample size
  at,       \* the tree and the node it is at
  depth,    \* how deep it is
  path,     \* the path lengths so far, in thousandths
  verdict   \* what it said last, with what subsample size, of what file

buildVars == <<begun, data, size, todo, forests, tree, grown, stack>>
walkVars  == <<model, live, scale, at, depth, path>>
vars      == <<phase, buildVars, file, walkVars, verdict>>

\* Mutant: the split value is stored as the double it is.
TruncNot(x) == x

\* A double stored in an int.
Trunc(x) == Unit * (x \div Unit)

Max2(n) == IF n > 2 THEN n ELSE 2
Least(a, b) == IF a < b THEN a ELSE b

\* ceil(log2(s))
MaxDepth(s) == Cardinality({d \in 0..30 : 2^d < s})

\* Node indices count from 0, as in the file.
Node(t, i) == t[i + 1]
InTree(t, i) == i >= 0 /\ i < Len(t)

Leaf(n)  == [left |-> -1, right |-> -1, is_leaf |-> TRUE, size |-> n, split |-> 0]
Inner(x) == [left |-> 0, right |-> 0, is_leaf |-> FALSE, size |-> 0, split |-> Trunc(x)]

NoCut == <<>>
NoVerdict == [class |-> "none", scale |-> 0, of |-> <<>>]

Init ==
  /\ phase = "idle"
  /\ begun = 0 /\ data = <<>> /\ size = 2 /\ todo = 0
  /\ forests = <<>> /\ tree = <<>> /\ grown = <<>> /\ stack = <<>>
  /\ file = [trees |-> <<>>, cut |-> NoCut, of |-> <<>>]
  /\ model = <<>> /\ live = 0 /\ scale = 0 /\ at = <<1, 0>> /\ depth = 0 /\ path = 0
  /\ verdict = NoVerdict

----------------------------------------------------------------------------
\* Without latencies, or trees, there is nothing to write and the old file stays.
BeginTraining ==
  /\ phase = "idle" /\ phase' = "build"
  /\ begun < MaxTrainings /\ begun' = begun + 1
  /\ \E d \in Datasets, s \in Sizes, n \in TreeCounts :
       /\ d # <<>> /\ n >= 1
       /\ data' = d /\ size' = Max2(s) /\ todo' = n
  /\ forests' = <<>> /\ tree' = <<>> /\ grown' = <<>> /\ stack' = <<>>
  /\ verdict' = NoVerdict
  /\ UNCHANGED <<file, walkVars>>

\* The front of the shuffled latencies is any sample of its size.
BeginTree ==
  /\ phase = "build" /\ stack = <<>> /\ tree = <<>> /\ todo > 0
  /\ \E sample \in SUBSET (DOMAIN data) :
       /\ Cardinality(sample) = Least(size, Len(data))
       /\ stack' = <<[bucket |-> sample, depth |-> 0, parent |-> -1, side |-> "root"]>>
  /\ UNCHANGED <<phase, begun, data, size, todo, forests, tree, grown, file, walkVars, verdict>>

Call == Head(stack)

Alike(b) == \A i, j \in b : data[i] = data[j]

\* Mutant: the depth is not looked at.
StopsLate(c) == Cardinality(c.bucket) <= 1 \/ Alike(c.bucket)

Stops(c) == c.depth >= MaxDepth(size) \/ Cardinality(c.bucket) <= 1 \/ Alike(c.bucket)

Below(b, x) == {i \in b : data[i] < x}

\* Any cut point from the least latency up to, and not with, the greatest.
CutPoints(b) == UNION {data[i]..(data[j] - 1) : i, j \in b}

\* Mutant: the right child is not connected.
PlacedLeftOnly(node) ==
  Append(IF Call.side = "left" THEN [tree EXCEPT ![Call.parent + 1].left = Len(tree)] ELSE tree,
         node)

\* The node of a call goes to the end of the tree, and its index to the parent.
Placed(node) ==
  LET t == IF Call.parent < 0 THEN tree
           ELSE IF Call.side = "left" THEN [tree EXCEPT ![Call.parent + 1].left = Len(tree)]
           ELSE [tree EXCEPT ![Call.parent + 1].right = Len(tree)]
  IN Append(t, node)

EnterLeaf ==
  /\ phase = "build" /\ stack # <<>>
  /\ Stops(Call)
  /\ tree' = Placed(Leaf(Cardinality(Call.bucket)))
  /\ grown' = Append(grown, [bucket |-> Call.bucket, depth |-> Call.depth, drawn |-> 0])
  /\ stack' = Tail(stack)
  /\ UNCHANGED <<phase, begun, data, size, todo, forests, file, walkVars, verdict>>

\* The call for one side of a bucket.
Side(b, side) == [bucket |-> b, depth |-> Call.depth + 1, parent |-> Len(tree), side |-> side]

\* Mutant: a latency equal to the cut point is put on neither side.
EnterSplitOpen ==
  /\ phase = "build" /\ stack # <<>>
  /\ ~Stops(Call)
  /\ \E x \in CutPoints(Call.bucket) :
       LET right == {i \in Call.bucket : data[i] > x}
       IN /\ tree' = Placed(Inner(x))
          /\ grown' = Append(grown, [bucket |-> Call.bucket, depth |-> Call.depth, drawn |-> x])
          /\ stack' = <<Side(Below(Call.bucket, x), "left"), Side(right, "right")>> \o Tail(stack)
  /\ UNCHANGED <<phase, begun, data, size, todo, forests, file, walkVars, verdict>>

\* A placeholder, two calls: the children are connected here as they are made, in
\* the code when both calls have returned, and nothing looks at them before.
EnterSplit ==
  /\ phase = "build" /\ stack # <<>>
  /\ ~Stops(Call)
  /\ \E x \in CutPoints(Call.bucket) :
       LET left == Below(Call.bucket, x)
       IN /\ tree' = Placed(Inner(x))
          /\ grown' = Append(grown, [bucket |-> Call.bucket, depth |-> Call.depth, drawn |-> x])
          /\ stack' = <<Side(left, "left"), Side(Call.bucket \ left, "right")>> \o Tail(stack)
  /\ UNCHANGED <<phase, begun, data, size, todo, forests, file, walkVars, verdict>>

EndTree ==
  /\ phase = "build" /\ stack = <<>> /\ tree # <<>>
  /\ forests' = Append(forests, tree)
  /\ tree' = <<>> /\ grown' = <<>>
  /\ todo' = todo - 1
  /\ UNCHANGED <<phase, begun, data, size, stack, file, walkVars, verdict>>

Written == phase = "build" /\ stack = <<>> /\ tree = <<>> /\ todo = 0

\* The forest is gone when the file is written, or cannot be.
Forgotten == phase' = "idle" /\ forests' = <<>> /\ data' = <<>> /\ size' = 2

\* The file is truncated and written; one that cannot be opened stays as it is,
\* which is only printed.
WriteForest ==
  /\ Written /\ Forgotten
  /\ file' \in {file, [trees |-> forests, cut |-> NoCut, of |-> data]}
  /\ UNCHANGED <<begun, todo, tree, grown, stack, walkVars, verdict>>

\* What a number is read as when only its first digits were written.
Powers == {10, 100, 1000, 10000, 100000, 1000000, 10000000, 100000000, 1000000000}
CutNumber(n) == {0} \cup (IF n < 0 THEN {} ELSE {n \div p : p \in Powers})

\* The process dies while it writes tree k: in its header, or in node n + 1.
KilledInWrite ==
  /\ Written /\ Forgotten
  /\ \E k \in 1..Len(forests) :
       LET t == forests[k]
       IN \E cut \in {NoCut}
              \cup {<<[count |-> c, nodes |-> <<>>, next |-> <<>>]>> : c \in CutNumber(Len(t))}
              \cup {<<[count |-> Len(t), nodes |-> SubSeq(t, 1, n), next |-> <<t[n + 1]>>]>> :
                      n \in 0..(Len(t) - 1)} :
            file' = [trees |-> SubSeq(forests, 1, k - 1), cut |-> cut, of |-> <<>>]
  /\ UNCHANGED <<begun, todo, tree, grown, stack, walkVars, verdict>>

\* What a node is read as when the file ends before it, or in one of its numbers:
\* is_leaf and split_value have no initialisers.
Ghosts == {[left |-> 0, right |-> 0, is_leaf |-> b, size |-> 0, split |-> g] :
             b \in BOOLEAN, g \in Garbage}
TornNodes(n) ==
  UNION {{[g EXCEPT !.left = l] : l \in CutNumber(n.left)}
         \cup {[g EXCEPT !.left = n.left, !.right = r] : r \in CutNumber(n.right) \cup {n.right}}
         \cup {[g EXCEPT !.left = n.left, !.right = n.right, !.is_leaf = n.is_leaf,
                         !.size = z] : z \in CutNumber(n.size) \cup {n.size}}
         \cup {[n EXCEPT !.split = x] : x \in {Unit * c : c \in CutNumber(n.split \div Unit)}} : g \in Ghosts}

\* LoadModel believes the count: what is missing is read from a stream that fails,
\* again and again into the same place on the stack.
Refilled(c, first, g) ==
  c.nodes \o [i \in 1..(c.count - Len(c.nodes)) |-> IF i = 1 THEN first ELSE g]
Torn(next) == Ghosts \cup UNION {TornNodes(next[i]) : i \in DOMAIN next}

Reloaded ==
  IF file.cut = NoCut THEN {file.trees}
  ELSE LET c == file.cut[1]
       IN {Append(file.trees, Refilled(c, first, g)) : first \in Torn(c.next), g \in Ghosts}

BeginPrediction ==
  /\ phase = "idle" /\ phase' = "walk"
  /\ \E m \in Reloaded, d \in Datasets, s \in Sizes :
       /\ m # <<>> /\ model' = m
       /\ \E i \in DOMAIN d : live' = d[i]
       /\ scale' = s
  /\ at' = <<1, 0>> /\ depth' = 0 /\ path' = 0
  /\ UNCHANGED <<buildVars, file, verdict>>

\* No file, or none with a tree in it.
NoForest ==
  /\ phase = "idle" /\ <<>> \in Reloaded
  /\ verdict' = NoVerdict
  /\ UNCHANGED <<phase, buildVars, file, walkVars>>

Here  == model[at[1]]
Here2 == Node(Here, at[2])

\* Mutant: a latency equal to the split value goes left.
RouteClosed(node, x) == IF x <= node.split THEN node.left ELSE node.right

Route(node, x) == IF x < node.split THEN node.left ELSE node.right

WalkDown ==
  /\ phase = "walk" /\ InTree(Here, at[2]) /\ ~Here2.is_leaf
  /\ at' = <<at[1], Route(Here2, live)>>
  /\ depth' = Least(depth + 1, MaxWalk)
  /\ UNCHANGED <<phase, buildVars, file, model, live, scale, path, verdict>>

\* Mutant: a subsample of two has no path either.
AverageNoTwo(m) == IF m <= 2 THEN 0 ELSE LogTerm(m)

\* The average path in a tree of m latencies (calculate_c), in thousandths.
Average(m) == IF m = 2 THEN 1000 ELSE IF m < 2 THEN 0 ELSE LogTerm(m)

\* 2^-(mean / c): the classes by the ratio of mean path and average; 0 / 0 is not
\* a number and, like every comparison with one, falls through to the last.
Class(total, trees, c) ==
  CASE c = 0 /\ total = 0            -> "undefined"
    [] c = 0 /\ total > 0            -> "normal"
    [] OTHER -> CASE total >= trees * c                 -> "normal"
                  [] total < trees * c
                     /\ 1000 * total >= 622 * trees * c -> "jitter"
                  [] 1000 * total < 622 * trees * c
                     /\ 1000 * total > 321 * trees * c  -> "suspicious"
                  [] OTHER                              -> "anomaly"

\* A leaf, or an index outside the tree, ends the path; the last tree's ends the
\* prediction.
EndPath ==
  /\ phase = "walk"
  /\ InTree(Here, at[2]) => Here2.is_leaf
  /\ LET total == path + 1000 * depth
                  + IF InTree(Here, at[2]) THEN Average(Here2.size) ELSE 0
     IN \/ /\ at[1] < Len(model)
           /\ path' = total /\ at' = <<at[1] + 1, 0>> /\ depth' = 0
           /\ UNCHANGED <<phase, model, live, scale, verdict>>
        \/ /\ at[1] = Len(model) /\ phase' = "idle"
           /\ verdict' = [class |-> Class(total, Len(model), Average(scale)),
                           scale |-> scale, of |-> file.of]
           /\ model' = <<>> /\ live' = 0 /\ scale' = 0
           /\ at' = <<1, 0>> /\ depth' = 0 /\ path' = 0
  /\ UNCHANGED <<buildVars, file>>

Training == BeginTree \/ EnterLeaf \/ EnterSplit \/ EndTree \/ WriteForest
Walking  == WalkDown \/ EndPath

Next == \/ BeginTraining \/ Training \/ KilledInWrite
        \/ BeginPrediction \/ NoForest \/ Walking

\* A command that has begun goes on.
Spec == Init /\ [][Next]_vars /\ WF_vars(Training) /\ WF_vars(Walking)

----------------------------------------------------------------------------
Indices == {i \in Int : i >= -1}
NodeType == [left : Indices, right : Indices, is_leaf : BOOLEAN, size : Nat,
             split : {x \in Int : x % Unit = 0}]
CallType == [bucket : SUBSET (DOMAIN data), depth : Nat, parent : Indices,
             side : {"root", "left", "right"}]

BuildTypeOK ==
  /\ phase \in {"idle", "build", "walk"} /\ begun \in Nat /\ todo \in Nat
  /\ data \in Seq(Nat) /\ size \in Nat /\ size >= 2
  /\ forests \in Seq(Seq(NodeType)) /\ tree \in Seq(NodeType)
  /\ grown \in Seq([bucket : SUBSET (DOMAIN data), depth : Nat, drawn : Nat])
  /\ stack \in Seq(CallType)

WalkTypeOK ==
  /\ file.trees \in Seq(Seq(NodeType)) /\ file.of \in Seq(Nat)
  /\ model \in Seq(Seq(NodeType)) /\ live \in Nat /\ scale \in Int
  /\ at \in Nat \X Indices /\ depth \in Nat /\ path \in Nat
  /\ verdict.class \in {"none", "undefined", "normal", "jitter", "suspicious", "anomaly"}

\* Every variable has its type: the split value a node keeps (int split_value,
\* Reco_GAN_Struct.hpp:35) is a whole number, whatever was drawn (Training.cpp:75-76).
ForestTypeOK == BuildTypeOK /\ WalkTypeOK

\* A call still to make for a side of node n.
Pending(n, side) == \E k \in DOMAIN stack :
  /\ stack[k].parent = n - 1 /\ stack[k].side = side
  /\ stack[k].depth = grown[n].depth + 1

\* The child of node n is further on in the tree and one level down.
Placed2(n, child) ==
  child >= n /\ child < Len(tree) /\ grown[child + 1].depth = grown[n].depth + 1

\* buildTreeRecursive makes a tree no deeper than the logarithm of the subsample
\* size (Training.cpp:51, :132): a leaf has no children, and each side of a split is
\* a node further on and one level down or a call still to be made (:97-103).
TreeShape ==
  /\ Len(grown) = Len(tree)
  /\ \A k \in DOMAIN stack : stack[k].depth <= MaxDepth(size)
  /\ \A n \in DOMAIN tree :
       /\ grown[n].depth <= MaxDepth(size)
       /\ IF tree[n].is_leaf THEN tree[n].left = -1 /\ tree[n].right = -1
          ELSE /\ Placed2(n, tree[n].left) \/ Pending(n, "left")
               /\ Placed2(n, tree[n].right) \/ Pending(n, "right")

\* Every latency of the sample is counted in one leaf, or waits in one call, and a
\* leaf's size is the number of its latencies (Training.cpp:53-57, :64-71, :84-94):
\* pathLength adds the average path of that many (Predict.cpp:28-29).
LeavesPartition ==
  LET Leaves == {n \in DOMAIN tree : tree[n].is_leaf}
      Calls  == DOMAIN stack
  IN /\ \A n \in Leaves : tree[n].size = Cardinality(grown[n].bucket)
     /\ tree # <<>> => \A i \in grown[1].bucket :
                         \/ \E n \in Leaves : i \in grown[n].bucket
                         \/ \E k \in Calls : i \in stack[k].bucket
     /\ \A m, n \in Leaves : m # n => grown[m].bucket \cap grown[n].bucket = {}
     /\ \A k, l \in Calls : k # l => stack[k].bucket \cap stack[l].bucket = {}
     /\ \A n \in Leaves, k \in Calls : grown[n].bucket \cap stack[k].bucket = {}

\* pathLength sends a latency the tree was grown from to the side it was put on
\* (Predict.cpp:31-34 against Training.cpp:86-93), all the way to its leaf, unless it
\* lies between the whole number the node keeps and the cut point that was drawn:
\* "Floating-point safe" (Training.cpp:73) is true of the cut, not of what is kept.
OwnLeaf ==
  \A n \in DOMAIN tree : ~tree[n].is_leaf /\ stack = <<>> =>
    \A i \in grown[n].bucket :
      \/ i \in grown[Route(tree[n], data[i]) + 1].bucket
      \/ tree[n].split <= data[i] /\ data[i] < grown[n].drawn

\* The score of a whole file divides 0 by 0 (Predict.cpp:66-67) exactly when it was
\* trained on one latency and is asked with a subsample of one or less; with a larger
\* subsample such a forest calls every latency an anomaly (:147-154).
OneLatencyScore ==
  verdict.of # <<>> =>
    /\ verdict.class = "undefined" <=> Len(verdict.of) = 1 /\ verdict.scale <= 1
    /\ Len(verdict.of) = 1 /\ verdict.scale >= 2 => verdict.class = "anomaly"

\* A prediction from a file that was written to its end returns (Predict.cpp:21-35):
\* no walk meets a node twice.  A file cut short can send pathLength round for ever,
\* for the nodes that are missing are read as inner nodes whose children are the root.
PredictionEnds == (phase = "walk" /\ file.of # <<>>) ~> phase = "idle"
=============================================================================
