--------------------------- MODULE SparseTree_proofs ---------------------------
(***************************************************************************)
(* Proofs about SparseTree, for trees of every depth and every hash        *)
(* function: the tree keeps its type, a path looked up before an update    *)
(* of its leaf leads to the root after it, and, if the hash has no         *)
(* collision, the root is reached from no other leaf.                      *)
(***************************************************************************)
EXTENDS SparseTree, WellFoundedInduction, TLAPS

-----------------------------------------------------------------------------
(* The inductive invariant.                                                 *)

Index(e) == 0 .. Width[e] - 1
Stored(e, j) == <<e, j>> \in DOMAIN tree

\* The node above the one insert has just written has yet to be rehashed.
Pending(e, j) == pc = "insert" /\ e = d - 1 /\ j = i \div 2

\* Every function keeps to its loop, and the directory to its type.
LoopInv ==
  /\ pc \in {"new", "idle", "insert", "lookup", "compute", "computed"}
  /\ d \in 0 .. Depth /\ i \in Index(d)
  /\ leaves \in [Users -> Leaves \cup {None}]
  /\ touched \subseteq Users
  /\ pc \in {"compute", "computed", "lookup"} => path # NoPath
  /\ pc = "new" => path = NoPath /\ i = 0

\* The hash of an empty subtree is that of two empty halves.
DefaultsInv ==
  /\ DOMAIN defaults = (IF pc = "new" THEN d ELSE 0) .. Depth
  /\ \A e \in DOMAIN defaults \ {Depth} :
       defaults[e] = HashInner(defaults[e + 1], defaults[e + 1])

\* With a node its parent is stored, and has the hash of its children.
TreeInv ==
  /\ DOMAIN tree \subseteq {<<e, j>> : e \in 0 .. Depth, j \in Nat}
  /\ pc = "new" => DOMAIN tree = {}
  /\ pc = "insert" => Stored(d, i)
  /\ \A e \in 0 .. Depth, j \in Nat : Stored(e, j) => j \in Index(e)
  /\ \A e \in 1 .. Depth, j \in Nat :
       Stored(e, j) => Stored(e - 1, j \div 2) \/ Pending(e - 1, j \div 2)
  /\ \A e \in 0 .. Depth - 1, j \in Nat :
       Stored(e, j) =>
         \/ tree[<<e, j>>] = HashInner(Lookup(e + 1, 2 * j), Lookup(e + 1, 2 * j + 1))
         \/ Pending(e, j)

LeavesInv ==
  \A u \in Users :
    /\ leaves[u] = None => ~Stored(Depth, u)
    /\ leaves[u] # None => Stored(Depth, u) /\ tree[<<Depth, u>>] = HashLeaf(leaves[u])

RootInv == pc \notin {"new", "insert"} => root = Lookup(0, 0)

\* The depth a path has been looked up to.
Reached == IF pc = "lookup" THEN d ELSE 0
Fresh == touched \subseteq {path.index}

\* A path goes up from its leaf, past the siblings of the nodes on its way,
\* which no insert of that leaf touches.
PathInv ==
  path # NoPath =>
    /\ path.index \in Users
    /\ DOMAIN at = Reached .. Depth /\ DOMAIN path.hashes = Reached + 1 .. Depth
    /\ at[Depth] = path.index
    /\ \A e \in Reached .. Depth : at[e] \in Index(e)
    /\ \A e \in Reached + 1 .. Depth : at[e - 1] = at[e] \div 2
    /\ pc \in {"lookup", "compute"} => i = at[d]
    /\ Fresh => \A e \in Reached + 1 .. Depth : path.hashes[e] = Lookup(e, Sibling(at[e]))
    /\ Fresh /\ pc = "insert" => i = at[d]

\* What compute_root has computed so far is the hash of the node it has reached.
ComputeInv ==
  pc \in {"compute", "computed"} /\ Fresh /\ start = LeafHash(path.index) =>
    /\ pc = "compute" => h = Lookup(d, at[d]) /\ hVar = Lookup(d, at[d])
    /\ pc = "computed" => h = root /\ hVar = root

IInv == LoopInv /\ DefaultsInv /\ TreeInv /\ LeavesInv /\ RootInv /\ PathInv /\ ComputeInv

-----------------------------------------------------------------------------
(* Indices.                                                                 *)

\* The parent of a node is one of the level above.
LEMMA HalfIndex ==
  ASSUME NEW e \in 1 .. Depth, NEW j \in Index(e)
  PROVE  j \div 2 \in Index(e - 1)
<1>1. e - 1 \in 0 .. Depth /\ e \in 0 .. Depth
  BY DepthAssumption
<1>2. Width[e] = 2 * Width[e - 1] /\ Width[e - 1] \in Nat /\ Width[e] \in Nat
  BY <1>1, WidthAssumption
<1>3. j \in Nat /\ j < 2 * Width[e - 1]
  BY <1>2 DEF Index
<1>4. j \div 2 \in Nat /\ j \div 2 < Width[e - 1]
  BY <1>2, <1>3
<1> QED  BY <1>2, <1>4 DEF Index

\* Each of an index and its sibling is one of the children of its half.
LEMMA SiblingHalf ==
  ASSUME NEW j \in Nat
  PROVE  /\ j \div 2 \in Nat
         /\ j % 2 = 0 => j = 2 * (j \div 2) /\ Sibling(j) = 2 * (j \div 2) + 1
         /\ j % 2 # 0 => j = 2 * (j \div 2) + 1 /\ Sibling(j) = 2 * (j \div 2)
         /\ Sibling(j) # j /\ Sibling(j) \in Nat
BY DEF Sibling

\* Both children of a node have it as their half.
LEMMA ChildHalf ==
  ASSUME NEW j \in Nat
  PROVE  (2 * j) \div 2 = j /\ (2 * j + 1) \div 2 = j
OBVIOUS

\* Indices are natural numbers.
LEMMA IndexNat ==
  ASSUME NEW e \in 0 .. Depth
  PROVE  Index(e) \subseteq Nat
BY WidthAssumption DEF Index

-----------------------------------------------------------------------------
(* The tree.                                                                *)

\* What storing one node changes.
LEMMA PutTree ==
  ASSUME NEW e, NEW j, NEW y, tree' = Put(tree, <<e, j>>, y), defaults' = defaults
  PROVE  /\ DOMAIN tree' = DOMAIN tree \cup {<<e, j>>}
         /\ tree'[<<e, j>>] = y
         /\ Lookup(e, j)' = y
         /\ \A e2, j2 : <<e2, j2>> # <<e, j>> =>
              /\ Stored(e2, j2)' <=> Stored(e2, j2)
              /\ Stored(e2, j2) => tree'[<<e2, j2>>] = tree[<<e2, j2>>]
              /\ Lookup(e2, j2)' = Lookup(e2, j2)
BY DEF Put, Stored, Lookup

\* With no insert at work every node, stored or not, has the hash of its
\* children.
LEMMA Merkle ==
  ASSUME DefaultsInv, TreeInv, pc \notin {"new", "insert"},
         NEW e \in 0 .. Depth - 1, NEW j \in Nat
  PROVE  Lookup(e, j) = HashInner(Lookup(e + 1, 2 * j), Lookup(e + 1, 2 * j + 1))
<1>1. ~Pending(e, j)
  BY DEF Pending
<1>2. CASE Stored(e, j)
  <2>1. tree[<<e, j>>] = HashInner(Lookup(e + 1, 2 * j), Lookup(e + 1, 2 * j + 1))
    BY <1>1, <1>2 DEF TreeInv
  <2> QED  BY <2>1, <1>2 DEF Lookup, Stored
<1>3. CASE ~Stored(e, j)
  <2>1. e + 1 \in 1 .. Depth /\ (e + 1) - 1 = e /\ 2 * j \in Nat /\ 2 * j + 1 \in Nat
    BY DepthAssumption
  <2>2. ~Stored(e + 1, 2 * j) /\ ~Stored(e + 1, 2 * j + 1)
    <3>1. \A k \in Nat : Stored(e + 1, k) => Stored(e, k \div 2) \/ Pending(e, k \div 2)
      BY <2>1 DEF TreeInv
    <3> QED  BY <3>1, <2>1, <1>1, <1>3, ChildHalf
  <2>3. e \in DOMAIN defaults \ {Depth}
    BY DepthAssumption DEF DefaultsInv
  <2>4. defaults[e] = HashInner(defaults[e + 1], defaults[e + 1])
    BY <2>3 DEF DefaultsInv
  <2> QED  BY <1>3, <2>2, <2>4 DEF Lookup, Stored
<1> QED  BY <1>2, <1>3

\* Steps that leave the tree alone.
LEMMA TreeSame ==
  ASSUME DefaultsInv, TreeInv, LeavesInv, RootInv, UNCHANGED treeVars,
         pc \notin {"new", "insert"}, pc' \notin {"new", "insert"}
  PROVE  DefaultsInv' /\ TreeInv' /\ LeavesInv' /\ RootInv'
<1>1. defaults' = defaults /\ tree' = tree /\ leaves' = leaves /\ root' = root
  BY DEF treeVars
<1>2. \A e, j : /\ Lookup(e, j)' = Lookup(e, j) /\ (Stored(e, j)' <=> Stored(e, j))
                /\ ~Pending(e, j) /\ ~Pending(e, j)'
  BY <1>1 DEF Lookup, Stored, Pending
<1>3. DefaultsInv'
  BY <1>1 DEF DefaultsInv
<1>4. TreeInv'
  BY <1>1, <1>2 DEF TreeInv
<1>5. LeavesInv'
  BY <1>1, <1>2 DEF LeavesInv
<1>6. RootInv'
  BY <1>1, <1>2 DEF RootInv
<1> QED  BY <1>3, <1>4, <1>5, <1>6

\* Steps that leave the path alone.
LEMMA PathSame ==
  ASSUME PathInv, path' = path, at' = at, Reached' = Reached,
         pc' \in {"lookup", "compute", "insert"} =>
           i' = at[d'] \/ (pc' = "insert" /\ ~Fresh'),
         Fresh' => Fresh,
         Fresh' => \A e \in Reached + 1 .. Depth :
                     Lookup(e, Sibling(at[e]))' = Lookup(e, Sibling(at[e]))
  PROVE  PathInv'
<1> SUFFICES ASSUME path # NoPath PROVE PathInv'
  BY DEF PathInv
<1>1. /\ path.index \in Users
      /\ DOMAIN at = Reached .. Depth /\ DOMAIN path.hashes = Reached + 1 .. Depth
      /\ at[Depth] = path.index
      /\ \A e \in Reached .. Depth : at[e] \in Index(e)
      /\ \A e \in Reached + 1 .. Depth : at[e - 1] = at[e] \div 2
      /\ Fresh => \A e \in Reached + 1 .. Depth : path.hashes[e] = Lookup(e, Sibling(at[e]))
  BY DEF PathInv
<1>2. \A e \in Reached .. Depth : at'[e] \in Index(e)'
  BY <1>1 DEF Index
<1>3. ASSUME Fresh', NEW e \in Reached + 1 .. Depth
      PROVE  (path.hashes[e] = Lookup(e, Sibling(at[e])))'
  <2>1. path.hashes[e] = Lookup(e, Sibling(at[e]))'
    BY <1>1, <1>3
  <2> QED  BY <2>1
<1> QED  BY <1>1, <1>2, <1>3 DEF PathInv

-----------------------------------------------------------------------------
(* The steps.                                                               *)

\* new starts from the hash of an empty leaf.
LEMMA InitStep == Init => IInv
<1> SUFFICES ASSUME Init PROVE IInv
  OBVIOUS
<1>1. /\ pc = "new" /\ d = Depth /\ i = 0 /\ path = NoPath /\ touched = {}
      /\ DOMAIN tree = {} /\ leaves = [u \in Users |-> None]
      /\ DOMAIN defaults = {Depth}
  BY DEF Init
<1>2. LoopInv
  BY <1>1, DepthAssumption, WidthAssumption DEF LoopInv, Index
<1>3. DefaultsInv
  BY <1>1, DepthAssumption DEF DefaultsInv
<1>4. TreeInv
  BY <1>1 DEF TreeInv, Stored
<1>5. LeavesInv
  BY <1>1 DEF LeavesInv, Stored
<1>6. RootInv /\ PathInv /\ ComputeInv
  BY <1>1 DEF RootInv, PathInv, ComputeInv
<1> QED  BY <1>2, <1>3, <1>4, <1>5, <1>6 DEF IInv

\* new adds the hash of an empty subtree one level up.
LEMMA NewLevelStep == IInv /\ NewLevel => IInv'
<1> SUFFICES ASSUME IInv, NewLevel PROVE IInv'
  OBVIOUS
<1>1. /\ pc = "new" /\ d > 0 /\ pc' = "new" /\ d' = d - 1 /\ i' = i
      /\ defaults' = Put(defaults, d - 1, HashInner(defaults[d], defaults[d]))
      /\ tree' = tree /\ leaves' = leaves /\ path' = path /\ touched' = touched
  BY DEF NewLevel, pathVars
<1>2. /\ d \in 1 .. Depth /\ i = 0 /\ path = NoPath /\ DOMAIN tree = {}
      /\ DOMAIN defaults = d .. Depth
  BY <1>1, DepthAssumption DEF IInv, LoopInv, TreeInv, DefaultsInv
<1>3. LoopInv'
  <2>1. d - 1 \in 0 .. Depth
    BY <1>2, DepthAssumption
  <2>2. 0 \in Index(d - 1)
    BY <2>1, WidthAssumption DEF Index
  <2> QED  BY <1>1, <1>2, <2>1, <2>2 DEF IInv, LoopInv, Index
<1>4. DefaultsInv'
  <2>1. DOMAIN defaults' = d - 1 .. Depth
    BY <1>1, <1>2, DepthAssumption DEF Put
  <2>2. /\ defaults'[d - 1] = HashInner(defaults[d], defaults[d])
        /\ \A e \in d .. Depth : defaults'[e] = defaults[e]
    BY <1>1, <1>2, DepthAssumption DEF Put
  <2>3. ASSUME NEW e \in d .. Depth, e # Depth
        PROVE  defaults'[e] = HashInner(defaults'[e + 1], defaults'[e + 1])
    <3>1. e \in DOMAIN defaults \ {Depth} /\ e + 1 \in d .. Depth
      BY <1>2, <2>3, DepthAssumption
    <3>2. defaults[e] = HashInner(defaults[e + 1], defaults[e + 1])
      BY <3>1 DEF IInv, DefaultsInv
    <3> QED  BY <2>2, <3>1, <3>2
  <2>4. defaults'[d - 1] = HashInner(defaults'[(d - 1) + 1], defaults'[(d - 1) + 1])
    BY <2>2, <1>2, DepthAssumption
  <2>5. ASSUME NEW e \in (d - 1 .. Depth) \ {Depth}
        PROVE  defaults'[e] = HashInner(defaults'[e + 1], defaults'[e + 1])
    <3>1. e = d - 1 \/ e \in d .. Depth
      BY <1>2, DepthAssumption
    <3> QED  BY <3>1, <2>3, <2>4
  <2> QED  BY <1>1, <2>1, <2>5 DEF DefaultsInv
<1>5. TreeInv'
  BY <1>1, <1>2 DEF TreeInv, Stored
<1>6. LeavesInv'
  BY <1>1, <1>2 DEF IInv, LeavesInv, Stored
<1>7. RootInv' /\ PathInv' /\ ComputeInv'
  BY <1>1, <1>2 DEF RootInv, PathInv, ComputeInv, NoPath
<1> QED  BY <1>3, <1>4, <1>5, <1>6, <1>7 DEF IInv

\* The root of the empty tree.
LEMMA NewEndStep == IInv /\ NewEnd => IInv'
<1> SUFFICES ASSUME IInv, NewEnd PROVE IInv'
  OBVIOUS
<1>1. /\ pc = "new" /\ d = 0 /\ pc' = "idle" /\ d' = d /\ i' = i
      /\ defaults' = defaults /\ root' = defaults[0]
      /\ tree' = tree /\ leaves' = leaves /\ path' = path /\ touched' = touched
  BY DEF NewEnd, pathVars
<1>2. path = NoPath /\ DOMAIN tree = {}
  BY <1>1 DEF IInv, LoopInv, TreeInv
<1>3. LoopInv'
  BY <1>1 DEF IInv, LoopInv, Index
<1>4. DefaultsInv'
  BY <1>1 DEF IInv, DefaultsInv
<1>5. TreeInv'
  BY <1>1, <1>2 DEF TreeInv, Stored
<1>6. LeavesInv'
  BY <1>1, <1>2 DEF IInv, LeavesInv, Stored
<1>7. RootInv' /\ PathInv' /\ ComputeInv'
  BY <1>1, <1>2 DEF RootInv, PathInv, ComputeInv, NoPath, Lookup
<1> QED  BY <1>3, <1>4, <1>5, <1>6, <1>7 DEF IInv

\* insert puts the leaf and has its ancestors to rehash; the path of that leaf
\* holds only siblings of them.
LEMMA InsertStep ==
  ASSUME IInv, NEW u \in Users, NEW v \in Leaves, Insert(u, v)
  PROVE  IInv'
<1>1. /\ pc = "idle" /\ pc' = "insert" /\ d' = Depth /\ i' = u
      /\ leaves' = [leaves EXCEPT ![u] = v]
      /\ tree' = Put(tree, <<Depth, u>>, HashLeaf(v))
      /\ defaults' = defaults /\ touched' = touched \cup {u}
      /\ path' = path /\ at' = at
  BY DEF Insert
<1>2. u \in Index(Depth) /\ u \in Nat /\ Depth \in 0 .. Depth
  BY UsersAssumption, DepthAssumption, WidthAssumption DEF Index
<1>3. /\ DOMAIN tree' = DOMAIN tree \cup {<<Depth, u>>}
      /\ tree'[<<Depth, u>>] = HashLeaf(v)
      /\ \A e, j : <<e, j>> # <<Depth, u>> =>
           /\ Stored(e, j)' <=> Stored(e, j)
           /\ Stored(e, j) => tree'[<<e, j>>] = tree[<<e, j>>]
           /\ Lookup(e, j)' = Lookup(e, j)
  BY <1>1, PutTree
<1>4. /\ \A e, j : Pending(e, j)' <=> (e = Depth - 1 /\ j = u \div 2)
      /\ \A e, j : ~Pending(e, j)
  BY <1>1 DEF Pending
<1>5. \A e, j : Stored(e, j)' <=> Stored(e, j) \/ (e = Depth /\ j = u)
  BY <1>3 DEF Stored
<1>6. LoopInv'
  BY <1>1, <1>2 DEF IInv, LoopInv, Index
<1>7. DefaultsInv'
  BY <1>1 DEF IInv, DefaultsInv
<1>8. TreeInv'
  <2>1. DOMAIN tree' \subseteq {<<e, j>> : e \in 0 .. Depth, j \in Nat}
    BY <1>2, <1>3 DEF IInv, TreeInv
  <2>2. Stored(d, i)'
    BY <1>1, <1>3 DEF Stored
  <2>3. \A e \in 0 .. Depth, j \in Nat : Stored(e, j)' => j \in Index(e)
    BY <1>2, <1>5 DEF IInv, TreeInv
  <2>4. ASSUME NEW e \in 1 .. Depth, NEW j \in Nat, Stored(e, j)'
        PROVE  Stored(e - 1, j \div 2)' \/ Pending(e - 1, j \div 2)'
    <3>1. CASE e = Depth /\ j = u
      BY <3>1, <1>4
    <3>2. CASE Stored(e, j)
      <4>1. Stored(e - 1, j \div 2)
        BY <3>2, <1>4 DEF IInv, TreeInv
      <4> QED  BY <4>1, <1>5
    <3> QED  BY <2>4, <3>1, <3>2, <1>5
  <2>5. ASSUME NEW e \in 0 .. Depth - 1, NEW j \in Nat, Stored(e, j)'
        PROVE  \/ tree'[<<e, j>>] = HashInner(Lookup(e + 1, 2 * j)', Lookup(e + 1, 2 * j + 1)')
               \/ Pending(e, j)'
    <3>1. e # Depth
      BY DepthAssumption
    <3>2. Stored(e, j) /\ tree'[<<e, j>>] = tree[<<e, j>>]
      BY <2>5, <3>1, <1>3, <1>5
    <3>3. tree[<<e, j>>] = HashInner(Lookup(e + 1, 2 * j), Lookup(e + 1, 2 * j + 1))
      BY <3>2, <1>4 DEF IInv, TreeInv
    <3>4. CASE e = Depth - 1 /\ j = u \div 2
      BY <3>4, <1>4
    <3>5. CASE ~(e = Depth - 1 /\ j = u \div 2)
      <4>1. \A k \in {2 * j, 2 * j + 1} : <<e + 1, k>> # <<Depth, u>>
        BY <3>5, ChildHalf, DepthAssumption
      <4>2. Lookup(e + 1, 2 * j)' = Lookup(e + 1, 2 * j)
        BY <4>1, <1>3
      <4>3. Lookup(e + 1, 2 * j + 1)' = Lookup(e + 1, 2 * j + 1)
        BY <4>1, <1>3
      <4> QED  BY <4>2, <4>3, <3>2, <3>3
    <3> QED  BY <3>4, <3>5
  <2> QED  BY <1>1, <2>1, <2>2, <2>3, <2>4, <2>5 DEF TreeInv
<1>9. LeavesInv'
  <2>1. leaves'[u] = v /\ v # None /\ \A w \in Users \ {u} : leaves'[w] = leaves[w]
    BY <1>1, NoneAssumption DEF IInv, LoopInv
  <2>2. Stored(Depth, u)' /\ tree'[<<Depth, u>>] = HashLeaf(v)
    BY <1>3, <1>5
  <2>3. ASSUME NEW w \in Users \ {u}
        PROVE  /\ leaves'[w] = None => ~Stored(Depth, w)'
               /\ leaves'[w] # None =>
                    Stored(Depth, w)' /\ tree'[<<Depth, w>>] = HashLeaf(leaves'[w])
    <3>1. /\ Stored(Depth, w)' <=> Stored(Depth, w)
          /\ Stored(Depth, w) => tree'[<<Depth, w>>] = tree[<<Depth, w>>]
      BY <1>3
    <3> QED  BY <2>1, <3>1 DEF IInv, LeavesInv
  <2> QED  BY <2>1, <2>2, <2>3 DEF LeavesInv
<1>10. RootInv' /\ ComputeInv'
  BY <1>1 DEF RootInv, ComputeInv
<1>11. PathInv'
  <2> SUFFICES ASSUME path # NoPath PROVE PathInv'
    BY <1>1 DEF PathInv
  <2>1. Reached' = 0 /\ Reached = 0 /\ (Fresh' => Fresh /\ u = path.index)
    BY <1>1 DEF Reached, Fresh
  <2>2. /\ at[Depth] = path.index
        /\ \A e \in Reached + 1 .. Depth : at[e] \in Nat
    BY <2>1, IndexNat DEF IInv, PathInv
  <2>3. ASSUME Fresh', NEW e \in Reached + 1 .. Depth
        PROVE  Lookup(e, Sibling(at[e]))' = Lookup(e, Sibling(at[e]))
    <3>1. <<e, Sibling(at[e])>> # <<Depth, u>>
      BY <2>1, <2>2, <2>3, SiblingHalf
    <3> QED  BY <3>1, <1>3, <1>1 DEF Sibling
  <2> QED  BY <1>1, <2>1, <2>2, <2>3, PathSame DEF IInv
<1> QED  BY <1>6, <1>7, <1>8, <1>9, <1>10, <1>11 DEF IInv

\* Rehashing a node restores the hash of its children and has its parent to
\* rehash; while it follows the path, the node is no sibling on it.
LEMMA InsertLevelStep == IInv /\ InsertLevel => IInv'
<1> SUFFICES ASSUME IInv, InsertLevel PROVE IInv'
  OBVIOUS
<1>0. PICK c, up : c = d - 1 /\ up = i \div 2
  OBVIOUS
<1>1. /\ pc = "insert" /\ d > 0 /\ pc' = "insert" /\ d' = c /\ i' = up
      /\ tree' = Put(tree, <<c, up>>, HashInner(Lookup(d, 2 * up), Lookup(d, 2 * up + 1)))
      /\ defaults' = defaults /\ leaves' = leaves /\ touched' = touched
      /\ path' = path /\ at' = at
  BY <1>0 DEF InsertLevel, pathVars
<1>2. /\ d \in 1 .. Depth /\ c \in 0 .. Depth - 1 /\ c \in 0 .. Depth /\ c + 1 = d
      /\ i \in Index(d) /\ i \in Nat
  BY <1>0, <1>1, DepthAssumption, IndexNat DEF IInv, LoopInv
<1>3. up \in Index(c) /\ up \in Nat
  BY <1>0, <1>2, HalfIndex, IndexNat
<1>4. /\ DOMAIN tree' = DOMAIN tree \cup {<<c, up>>}
      /\ tree'[<<c, up>>] = HashInner(Lookup(d, 2 * up), Lookup(d, 2 * up + 1))
      /\ \A e, j : <<e, j>> # <<c, up>> =>
           /\ Stored(e, j)' <=> Stored(e, j)
           /\ Stored(e, j) => tree'[<<e, j>>] = tree[<<e, j>>]
           /\ Lookup(e, j)' = Lookup(e, j)
  BY <1>1, PutTree
<1>5. /\ \A e, j : Pending(e, j)' <=> (e = c - 1 /\ j = up \div 2)
      /\ \A e, j : Pending(e, j) <=> (e = c /\ j = up)
  BY <1>0, <1>1 DEF Pending
<1>6. \A e, j : Stored(e, j)' <=> Stored(e, j) \/ (e = c /\ j = up)
  BY <1>4 DEF Stored
<1>7. LoopInv'
  BY <1>1, <1>2, <1>3 DEF IInv, LoopInv, Index
<1>8. DefaultsInv'
  BY <1>1 DEF IInv, DefaultsInv
<1>9. TreeInv'
  <2>1. DOMAIN tree' \subseteq {<<e, j>> : e \in 0 .. Depth, j \in Nat}
    BY <1>2, <1>3, <1>4 DEF IInv, TreeInv
  <2>2. Stored(d, i)'
    BY <1>1, <1>4 DEF Stored
  <2>3. \A e \in 0 .. Depth, j \in Nat : Stored(e, j)' => j \in Index(e)
    BY <1>3, <1>6 DEF IInv, TreeInv
  <2>4. ASSUME NEW e \in 1 .. Depth, NEW j \in Nat, Stored(e, j)'
        PROVE  Stored(e - 1, j \div 2)' \/ Pending(e - 1, j \div 2)'
    <3>1. CASE e = c /\ j = up
      BY <3>1, <1>5
    <3>2. CASE Stored(e, j)
      <4>1. Stored(e - 1, j \div 2) \/ Pending(e - 1, j \div 2)
        BY <3>2 DEF IInv, TreeInv
      <4> QED  BY <4>1, <1>5, <1>6
    <3> QED  BY <2>4, <3>1, <3>2, <1>6
  <2>5. ASSUME NEW e \in 0 .. Depth - 1, NEW j \in Nat, Stored(e, j)'
        PROVE  \/ tree'[<<e, j>>] = HashInner(Lookup(e + 1, 2 * j)', Lookup(e + 1, 2 * j + 1)')
               \/ Pending(e, j)'
    <3>1. CASE e = c /\ j = up
      <4>1. \A k : <<e + 1, k>> # <<c, up>>
        BY <3>1, <1>2
      <4>2. Lookup(e + 1, 2 * j)' = Lookup(e + 1, 2 * j)
        BY <4>1, <1>4
      <4>3. Lookup(e + 1, 2 * j + 1)' = Lookup(e + 1, 2 * j + 1)
        BY <4>1, <1>4
      <4> QED  BY <3>1, <4>2, <4>3, <1>2, <1>4
    <3>2. CASE ~(e = c /\ j = up)
      <4>1. Stored(e, j) /\ tree'[<<e, j>>] = tree[<<e, j>>]
        BY <2>5, <3>2, <1>4, <1>6
      <4>2. tree[<<e, j>>] = HashInner(Lookup(e + 1, 2 * j), Lookup(e + 1, 2 * j + 1))
        BY <4>1, <3>2, <1>5 DEF IInv, TreeInv
      <4>3. CASE e = c - 1 /\ j = up \div 2
        BY <4>3, <1>5
      <4>4. CASE ~(e = c - 1 /\ j = up \div 2)
        <5>1. \A k \in {2 * j, 2 * j + 1} : <<e + 1, k>> # <<c, up>>
          BY <4>4, <1>2, ChildHalf, DepthAssumption
        <5>2. Lookup(e + 1, 2 * j)' = Lookup(e + 1, 2 * j)
          BY <5>1, <1>4
        <5>3. Lookup(e + 1, 2 * j + 1)' = Lookup(e + 1, 2 * j + 1)
          BY <5>1, <1>4
        <5> QED  BY <5>2, <5>3, <4>1, <4>2
      <4> QED  BY <4>3, <4>4
    <3> QED  BY <3>1, <3>2
  <2> QED  BY <1>1, <2>1, <2>2, <2>3, <2>4, <2>5 DEF TreeInv
<1>10. LeavesInv'
  <2>1. ASSUME NEW w \in Users
        PROVE  /\ Stored(Depth, w)' <=> Stored(Depth, w)
               /\ Stored(Depth, w) => tree'[<<Depth, w>>] = tree[<<Depth, w>>]
    <3>1. <<Depth, w>> # <<c, up>>
      BY <1>2, DepthAssumption
    <3> QED  BY <3>1, <1>4
  <2> QED  BY <1>1, <2>1 DEF IInv, LeavesInv
<1>11. RootInv' /\ ComputeInv'
  BY <1>1 DEF RootInv, ComputeInv
<1>12. PathInv'
  <2> SUFFICES ASSUME path # NoPath PROVE PathInv'
    BY <1>1 DEF PathInv
  <2>1. Reached' = 0 /\ Reached = 0 /\ (Fresh' <=> Fresh)
    BY <1>1 DEF Reached, Fresh
  <2>2. /\ \A e \in 1 .. Depth : at[e - 1] = at[e] \div 2
        /\ \A e \in 0 .. Depth : at[e] \in Nat
        /\ Fresh => i = at[d]
    BY <2>1, <1>1, IndexNat DEF IInv, PathInv
  <2>3. Fresh => up = at[c]
    BY <2>2, <1>2, <1>0
  <2>4. ASSUME Fresh', NEW e \in Reached + 1 .. Depth
        PROVE  Lookup(e, Sibling(at[e]))' = Lookup(e, Sibling(at[e]))
    <3>1. at[e] \in Nat
      BY <2>1, <2>2
    <3>2. <<e, Sibling(at[e])>> # <<c, up>>
      BY <3>1, <2>1, <2>3, <2>4, SiblingHalf
    <3> QED  BY <3>2, <1>4, <1>1 DEF Sibling
  <2> QED  BY <1>1, <2>1, <2>3, <2>4, PathSame DEF IInv
<1> QED  BY <1>7, <1>8, <1>9, <1>10, <1>11, <1>12 DEF IInv

\* The root is stored when insert gets to it.
LEMMA InsertEndStep == IInv /\ InsertEnd => IInv'
<1> SUFFICES ASSUME IInv, InsertEnd PROVE IInv'
  OBVIOUS
<1>1. pc = "insert" /\ d = 0 /\ i = 0
  BY WidthAssumption DEF InsertEnd, IInv, LoopInv, Index
<1>2. Stored(0, 0)
  BY <1>1 DEF IInv, TreeInv
<1>3. /\ pc' = "idle" /\ root' = tree[<<0, 0>>] /\ d' = d /\ i' = i
      /\ defaults' = defaults /\ tree' = tree /\ leaves' = leaves
      /\ path' = path /\ at' = at /\ touched' = touched
  BY <1>2 DEF InsertEnd, Stored, pathVars
<1>4. /\ \A e, j : Lookup(e, j)' = Lookup(e, j) /\ (Stored(e, j)' <=> Stored(e, j))
      /\ \A e \in Nat : \A j : ~Pending(e, j)
  BY <1>1, <1>3 DEF Lookup, Stored, Pending
<1>5. LoopInv'
  BY <1>1, <1>3 DEF IInv, LoopInv, Index
<1>6. DefaultsInv'
  BY <1>1, <1>3 DEF IInv, DefaultsInv
<1>7. TreeInv'
  <2>1. \A e \in 1 .. Depth, j \in Nat : Stored(e, j) => Stored(e - 1, j \div 2)
    <3>1. \A e \in 1 .. Depth, j \in Nat :
            Stored(e, j) => Stored(e - 1, j \div 2) \/ Pending(e - 1, j \div 2)
      BY DEF IInv, TreeInv
    <3>2. \A e \in 1 .. Depth : e - 1 \in Nat
      BY DepthAssumption
    <3> QED  BY <3>1, <3>2, <1>4
  <2>2. \A e \in 0 .. Depth - 1, j \in Nat : Stored(e, j) =>
          tree[<<e, j>>] = HashInner(Lookup(e + 1, 2 * j), Lookup(e + 1, 2 * j + 1))
    <3>1. \A e \in 0 .. Depth - 1, j \in Nat : Stored(e, j) =>
            \/ tree[<<e, j>>] = HashInner(Lookup(e + 1, 2 * j), Lookup(e + 1, 2 * j + 1))
            \/ Pending(e, j)
      BY DEF IInv, TreeInv
    <3>2. \A e \in 0 .. Depth - 1 : e \in Nat
      BY DepthAssumption
    <3> QED  BY <3>1, <3>2, <1>4
  <2> QED  BY <1>3, <1>4, <2>1, <2>2 DEF IInv, TreeInv
<1>8. LeavesInv'
  BY <1>3, <1>4 DEF IInv, LeavesInv
<1>9. RootInv' /\ ComputeInv'
  BY <1>2, <1>3 DEF RootInv, ComputeInv, Lookup, Stored
<1>10. PathInv'
  <2>1. Reached' = Reached /\ (Fresh' <=> Fresh)
    BY <1>1, <1>3 DEF Reached, Fresh
  <2>2. \A e : Lookup(e, Sibling(at[e]))' = Lookup(e, Sibling(at[e]))
    BY <1>3 DEF Lookup, Sibling
  <2> QED  BY <1>3, <2>1, <2>2, PathSame DEF IInv
<1> QED  BY <1>5, <1>6, <1>7, <1>8, <1>9, <1>10 DEF IInv

\* A new path starts at its leaf.
LEMMA LookupPathStep ==
  ASSUME IInv, NEW u \in Users, LookupPath(u)
  PROVE  IInv'
<1>1. /\ pc = "idle" /\ pc' = "lookup" /\ d' = Depth /\ i' = u
      /\ path' = [index |-> u, hashes |-> [x \in {} |-> None]]
      /\ at' = [x \in {Depth} |-> u] /\ touched' = {}
      /\ UNCHANGED treeVars /\ leaves' = leaves
  BY DEF LookupPath, treeVars
<1>2. u \in Index(Depth) /\ Depth \in 0 .. Depth /\ u # None
  BY UsersAssumption, NoneAssumption, DepthAssumption DEF Index
<1>3. path' # NoPath /\ path'.index = u /\ DOMAIN path'.hashes = {}
  BY <1>1, <1>2 DEF NoPath
<1>4. LoopInv'
  BY <1>1, <1>2, <1>3 DEF IInv, LoopInv, Index
<1>5. DefaultsInv' /\ TreeInv' /\ LeavesInv' /\ RootInv'
  BY <1>1, TreeSame DEF IInv
<1>6. PathInv'
  <2>1. Reached' = Depth /\ Depth + 1 .. Depth = {} /\ Depth .. Depth = {Depth}
    BY <1>1, DepthAssumption DEF Reached
  <2>2. at'[Depth] = u /\ DOMAIN at' = {Depth}
    BY <1>1
  <2> QED  BY <1>1, <1>2, <1>3, <2>1, <2>2 DEF PathInv, Index
<1>7. ComputeInv'
  BY <1>1 DEF ComputeInv
<1> QED  BY <1>4, <1>5, <1>6, <1>7 DEF IInv

\* The path grows by the sibling of the node it has reached.
LEMMA LookupLevelStep == IInv /\ LookupLevel => IInv'
<1> SUFFICES ASSUME IInv, LookupLevel PROVE IInv'
  OBVIOUS
<1>0. PICK b, c, k : b = d /\ c = d - 1 /\ k = i
  OBVIOUS
<1>1. /\ pc = "lookup" /\ b > 0 /\ pc' = "lookup" /\ d' = c /\ i' = k \div 2
      /\ path' = [index |-> path.index, hashes |-> Put(path.hashes, b, Lookup(b, Sibling(k)))]
      /\ at' = Put(at, c, k \div 2) /\ touched' = touched
      /\ UNCHANGED treeVars /\ tree' = tree /\ leaves' = leaves /\ defaults' = defaults
  BY <1>0 DEF LookupLevel, treeVars
<1>2. b \in 1 .. Depth /\ c \in 0 .. Depth /\ c + 1 = b /\ c = b - 1 /\ k \in Index(b)
  BY <1>0, <1>1, DepthAssumption DEF IInv, LoopInv
<1>3. k \div 2 \in Index(c)
  BY <1>2, HalfIndex
<1>4. /\ path # NoPath /\ path.index \in Users
      /\ DOMAIN at = b .. Depth /\ DOMAIN path.hashes = b + 1 .. Depth
      /\ at[Depth] = path.index /\ k = at[b]
      /\ \A e \in b .. Depth : at[e] \in Index(e)
      /\ \A e \in b + 1 .. Depth : at[e - 1] = at[e] \div 2
      /\ Fresh => \A e \in b + 1 .. Depth : path.hashes[e] = Lookup(e, Sibling(at[e]))
  BY <1>0, <1>1 DEF IInv, LoopInv, PathInv, Reached
<1>5. path'.index = path.index /\ path' # NoPath
  BY <1>1, <1>4, NoneAssumption DEF NoPath
<1>6. LoopInv'
  BY <1>1, <1>2, <1>3, <1>5 DEF IInv, LoopInv, Index
<1>7. DefaultsInv' /\ TreeInv' /\ LeavesInv' /\ RootInv'
  BY <1>1, TreeSame DEF IInv
<1>8. PathInv'
  <2>1. Reached' = c /\ (Fresh' <=> Fresh)
    BY <1>1, <1>5 DEF Reached, Fresh
  <2>2. /\ DOMAIN at' = c .. Depth /\ at'[c] = k \div 2
        /\ \A e \in b .. Depth : at'[e] = at[e]
    BY <1>1, <1>2, <1>4, DepthAssumption DEF Put
  <2>3. path'.hashes = Put(path.hashes, b, Lookup(b, Sibling(k)))
    BY <1>1
  <2>4. /\ DOMAIN path'.hashes = b .. Depth /\ path'.hashes[b] = Lookup(b, Sibling(k))
        /\ \A e \in b + 1 .. Depth : path'.hashes[e] = path.hashes[e]
    BY <2>3, <1>2, <1>4, DepthAssumption DEF Put
  <2>5. at'[Depth] = path'.index
    BY <2>2, <1>2, <1>4, <1>5, DepthAssumption
  <2>6. ASSUME NEW e \in c .. Depth
        PROVE  at'[e] \in Index(e)
    <3>1. e = c \/ e \in b .. Depth
      BY <1>2, DepthAssumption
    <3> QED  BY <3>1, <2>2, <1>3, <1>4
  <2>7. ASSUME NEW e \in b .. Depth
        PROVE  at'[e - 1] = at'[e] \div 2
    <3>1. CASE e = b
      BY <3>1, <2>2, <1>2, <1>4, DepthAssumption
    <3>2. CASE e # b
      <4>1. e \in b + 1 .. Depth /\ e - 1 \in b .. Depth
        BY <3>2, <1>2, DepthAssumption
      <4> QED  BY <4>1, <2>2, <1>4
    <3> QED  BY <3>1, <3>2
  <2>8. ASSUME Fresh', NEW e \in b .. Depth
        PROVE  path'.hashes[e] = Lookup(e, Sibling(at'[e]))
    <3>1. CASE e = b
      BY <3>1, <2>2, <2>4, <1>2, <1>4, DepthAssumption
    <3>2. CASE e # b
      <4>1. e \in b + 1 .. Depth
        BY <3>2, <1>2, DepthAssumption
      <4> QED  BY <4>1, <2>1, <2>2, <2>4, <2>8, <1>4
    <3> QED  BY <3>1, <3>2
  <2>9. ASSUME Fresh', NEW e \in b .. Depth
        PROVE  (path.hashes[e] = Lookup(e, Sibling(at[e])))'
    BY <2>8, <2>9, <1>1 DEF Lookup
  <2> QED
    BY <1>1, <1>2, <1>4, <1>5, <2>1, <2>2, <2>4, <2>5, <2>6, <2>7, <2>9 DEF PathInv, Index
<1>9. ComputeInv'
  BY <1>1 DEF ComputeInv
<1> QED  BY <1>6, <1>7, <1>8, <1>9 DEF IInv

\* The whole path is there.
LEMMA LookupEndStep == IInv /\ LookupEnd => IInv'
<1> SUFFICES ASSUME IInv, LookupEnd PROVE IInv'
  OBVIOUS
<1>1. /\ pc = "lookup" /\ d = 0 /\ pc' = "idle" /\ d' = d /\ i' = i
      /\ UNCHANGED treeVars /\ tree' = tree /\ leaves' = leaves /\ defaults' = defaults
      /\ path' = path /\ at' = at /\ touched' = touched
  BY DEF LookupEnd, treeVars, pathVars
<1>2. LoopInv'
  BY <1>1 DEF IInv, LoopInv, Index
<1>3. DefaultsInv' /\ TreeInv' /\ LeavesInv' /\ RootInv'
  BY <1>1, TreeSame DEF IInv
<1>4. PathInv'
  <2>1. Reached' = Reached /\ (Fresh' <=> Fresh)
    BY <1>1 DEF Reached, Fresh
  <2>2. \A e : Lookup(e, Sibling(at[e]))' = Lookup(e, Sibling(at[e]))
    BY <1>1 DEF Lookup, Sibling
  <2> QED  BY <1>1, <2>1, <2>2, PathSame DEF IInv
<1>5. ComputeInv'
  BY <1>1 DEF ComputeInv
<1> QED  BY <1>2, <1>3, <1>4, <1>5 DEF IInv

\* Steps of compute_root leave the tree and the path alone.
LEMMA RestSame ==
  ASSUME IInv, UNCHANGED <<treeVars, pathVars>>,
         pc \in {"idle", "compute", "computed"}, pc' \in {"idle", "compute", "computed"},
         path # NoPath, pc' = "compute" => i' = at[d']
  PROVE  DefaultsInv' /\ TreeInv' /\ LeavesInv' /\ RootInv' /\ PathInv'
<1>1. /\ UNCHANGED treeVars /\ tree' = tree /\ defaults' = defaults
      /\ path' = path /\ at' = at /\ touched' = touched
  BY DEF treeVars, pathVars
<1>2. DefaultsInv' /\ TreeInv' /\ LeavesInv' /\ RootInv'
  BY <1>1, TreeSame DEF IInv
<1>3. Reached' = Reached /\ (Fresh' <=> Fresh)
  BY <1>1 DEF Reached, Fresh
<1>4. \A e : Lookup(e, Sibling(at[e]))' = Lookup(e, Sibling(at[e]))
  BY <1>1 DEF Lookup, Sibling
<1> QED  BY <1>1, <1>2, <1>3, <1>4, PathSame DEF IInv

\* The present leaf of the path is the hash of the node it starts at.
LEMMA ComputeRootStep ==
  ASSUME IInv, NEW hash, ComputeRoot(hash)
  PROVE  IInv'
<1>1. /\ pc = "idle" /\ path # NoPath /\ pc' = "compute" /\ d' = Depth /\ i' = path.index
      /\ start' = hash /\ h' = hash /\ hVar' = hash
      /\ UNCHANGED <<treeVars, pathVars>>
  BY DEF ComputeRoot
<1>2. /\ tree' = tree /\ leaves' = leaves /\ defaults' = defaults
      /\ path' = path /\ at' = at /\ touched' = touched
  BY <1>1 DEF treeVars, pathVars
<1>3. path.index \in Users /\ at[Depth] = path.index
  BY <1>1 DEF IInv, PathInv
<1>4. LoopInv'
  <2>1. path.index \in Index(Depth) /\ Depth \in 0 .. Depth
    <3>1. \A u \in Users : u \in Index(Depth)
      BY UsersAssumption DEF Index
    <3> QED  BY <3>1, <1>3, DepthAssumption
  <2> QED  BY <1>1, <1>2, <2>1 DEF IInv, LoopInv, Index
<1>5. DefaultsInv' /\ TreeInv' /\ LeavesInv' /\ RootInv' /\ PathInv'
  BY <1>1, <1>3, RestSame
<1>6. ComputeInv'
  <2>1. LeafHash(path.index) = Lookup(Depth, path.index)
    BY <1>3 DEF IInv, LeavesInv, LeafHash, Lookup, Stored
  <2>2. LeafHash(path.index)' = LeafHash(path.index)
    BY <1>2 DEF LeafHash
  <2>3. Lookup(d, at[d])' = Lookup(Depth, path.index)
    BY <1>1, <1>2, <1>3 DEF Lookup
  <2> QED  BY <1>1, <1>2, <2>1, <2>2, <2>3 DEF ComputeInv
<1> QED  BY <1>4, <1>5, <1>6 DEF IInv

\* Hashing a node with its sibling on the path, on the side its index tells,
\* gives the hash of its parent: natively and in the circuit, whose index bits
\* have the opposite sense.
LEMMA ComputeLevelStep == IInv /\ ComputeLevel => IInv'
<1> SUFFICES ASSUME IInv, ComputeLevel PROVE IInv'
  OBVIOUS
<1>0. PICK b, c, k, q : b = d /\ c = d - 1 /\ k = i /\ q = k \div 2
  OBVIOUS
<1>1. /\ pc = "compute" /\ b > 0 /\ pc' = "compute" /\ d' = c /\ i' = q
      /\ h' = NativeLevel(BitVector(k), path.hashes[b])
      /\ hVar' = CircuitLevel(HashBit(k), path.hashes[b])
      /\ start' = start /\ UNCHANGED <<treeVars, pathVars>>
  BY <1>0 DEF ComputeLevel
<1>2. /\ tree' = tree /\ leaves' = leaves /\ defaults' = defaults
      /\ path' = path /\ at' = at /\ touched' = touched
  BY <1>1 DEF treeVars, pathVars
<1>3. /\ b \in 1 .. Depth /\ c \in 0 .. Depth - 1 /\ c \in 0 .. Depth /\ c + 1 = b /\ c = b - 1
      /\ k \in Index(b) /\ k \in Nat /\ path # NoPath
  BY <1>0, <1>1, DepthAssumption, IndexNat DEF IInv, LoopInv
<1>4. q \in Index(c) /\ q \in Nat
  BY <1>0, <1>3, HalfIndex, IndexNat
<1>5. /\ \A e \in 1 .. Depth : at[e - 1] = at[e] \div 2
      /\ k = at[b]
      /\ Fresh => \A e \in 1 .. Depth : path.hashes[e] = Lookup(e, Sibling(at[e]))
  BY <1>0, <1>1, <1>3 DEF IInv, PathInv, Reached
<1>6. at[c] = q
  BY <1>0, <1>3, <1>5
<1>7. LoopInv'
  BY <1>1, <1>2, <1>3, <1>4 DEF IInv, LoopInv, Index
<1>8. DefaultsInv' /\ TreeInv' /\ LeavesInv' /\ RootInv' /\ PathInv'
  BY <1>1, <1>3, <1>6, RestSame
<1>9. ComputeInv'
  <2> SUFFICES ASSUME Fresh, start = LeafHash(path.index)
               PROVE  h' = Lookup(c, q) /\ hVar' = Lookup(c, q)
    <3>1. Fresh' <=> Fresh
      BY <1>2 DEF Fresh
    <3>2. LeafHash(path.index)' = LeafHash(path.index)
      BY <1>2 DEF LeafHash
    <3>3. Lookup(d, at[d])' = Lookup(c, q)
      BY <1>1, <1>2, <1>6 DEF Lookup
    <3> QED  BY <1>1, <3>1, <3>2, <3>3 DEF ComputeInv
  <2>1. h = Lookup(b, k) /\ hVar = Lookup(b, k)
    BY <1>0, <1>1, <1>5 DEF IInv, ComputeInv
  <2>2. path.hashes[b] = Lookup(b, Sibling(k))
    BY <1>3, <1>5
  <2>3. Lookup(c, q) = HashInner(Lookup(b, 2 * q), Lookup(b, 2 * q + 1))
    BY <1>1, <1>3, <1>4, Merkle DEF IInv
  <2>4. CASE k % 2 = 0
    <3>1. k = 2 * q /\ Sibling(k) = 2 * q + 1
      BY <2>4, <1>0, <1>3, SiblingHalf
    <3>2. h' = HashInner(h, path.hashes[b]) /\ hVar' = HashInner(hVar, path.hashes[b])
      BY <2>4, <1>1 DEF NativeLevel, BitVector, CircuitLevel, HashBit, Select
    <3> QED  BY <2>1, <2>2, <2>3, <3>1, <3>2
  <2>5. CASE k % 2 = 1
    <3>1. k = 2 * q + 1 /\ Sibling(k) = 2 * q
      BY <2>5, <1>0, <1>3, SiblingHalf
    <3>2. h' = HashInner(path.hashes[b], h) /\ hVar' = HashInner(path.hashes[b], hVar)
      BY <2>5, <1>1 DEF NativeLevel, BitVector, CircuitLevel, HashBit, Select
    <3> QED  BY <2>1, <2>2, <2>3, <3>1, <3>2
  <2> QED  BY <2>4, <2>5, <1>3
<1> QED  BY <1>7, <1>8, <1>9 DEF IInv

\* What has been computed at the top is the hash stored there.
LEMMA ComputeEndStep == IInv /\ ComputeEnd => IInv'
<1> SUFFICES ASSUME IInv, ComputeEnd PROVE IInv'
  OBVIOUS
<1>1. /\ pc = "compute" /\ d = 0 /\ pc' = "computed" /\ d' = d /\ i' = i
      /\ start' = start /\ h' = h /\ hVar' = hVar
      /\ UNCHANGED <<treeVars, pathVars>>
  BY DEF ComputeEnd, rootVars
<1>2. /\ leaves' = leaves /\ defaults' = defaults /\ root' = root
      /\ path' = path /\ touched' = touched
  BY <1>1 DEF treeVars, pathVars
<1>3. LoopInv'
  BY <1>1, <1>2 DEF IInv, LoopInv, Index
<1>4. path # NoPath
  BY <1>1 DEF IInv, LoopInv
<1>5. DefaultsInv' /\ TreeInv' /\ LeavesInv' /\ RootInv' /\ PathInv'
  BY <1>1, <1>4, RestSame
<1>6. ComputeInv'
  <2>1. i = 0 /\ at[0] = 0
    BY <1>1, <1>4, WidthAssumption DEF IInv, LoopInv, PathInv, Index
  <2>2. root = Lookup(0, 0)
    BY <1>1 DEF IInv, RootInv
  <2>3. Fresh /\ start = LeafHash(path.index) => h = root /\ hVar = root
    BY <1>1, <2>1, <2>2 DEF IInv, ComputeInv
  <2>4. (Fresh' <=> Fresh) /\ LeafHash(path.index)' = LeafHash(path.index)
    BY <1>2 DEF Fresh, LeafHash
  <2> QED  BY <1>1, <1>2, <2>3, <2>4 DEF ComputeInv
<1> QED  BY <1>3, <1>5, <1>6 DEF IInv

\* The directory is idle again.
LEMMA ReturnStep == IInv /\ Return => IInv'
<1> SUFFICES ASSUME IInv, Return PROVE IInv'
  OBVIOUS
<1>1. /\ pc = "computed" /\ pc' = "idle" /\ d' = d /\ i' = i /\ UNCHANGED <<treeVars, pathVars>>
  BY DEF Return
<1>2. leaves' = leaves /\ path' = path /\ touched' = touched
  BY <1>1 DEF treeVars, pathVars
<1>3. LoopInv'
  BY <1>1, <1>2 DEF IInv, LoopInv, Index
<1>4. path # NoPath
  BY <1>1 DEF IInv, LoopInv
<1>5. DefaultsInv' /\ TreeInv' /\ LeavesInv' /\ RootInv' /\ PathInv'
  BY <1>1, <1>4, RestSame
<1>6. ComputeInv'
  BY <1>1 DEF ComputeInv
<1> QED  BY <1>3, <1>5, <1>6 DEF IInv

\* A step that changes nothing.
LEMMA StutterStep == IInv /\ UNCHANGED vars => IInv'
<1> SUFFICES ASSUME IInv, UNCHANGED vars PROVE IInv'
  OBVIOUS
<1>1. /\ pc' = pc /\ d' = d /\ i' = i /\ defaults' = defaults /\ tree' = tree
      /\ leaves' = leaves /\ root' = root /\ path' = path /\ at' = at
      /\ touched' = touched /\ start' = start /\ h' = h /\ hVar' = hVar
  BY DEF vars, treeVars, pathVars, rootVars
<1>2. LoopInv' /\ DefaultsInv' /\ RootInv'
  BY <1>1 DEF IInv, LoopInv, DefaultsInv, RootInv, Index, Lookup
<1>3. TreeInv'
  BY <1>1 DEF IInv, TreeInv, Stored, Lookup, Pending, Index
<1>4. LeavesInv'
  BY <1>1 DEF IInv, LeavesInv, Stored
<1>5. PathInv'
  BY <1>1 DEF IInv, PathInv, Reached, Fresh, Lookup, Sibling, Index
<1>6. ComputeInv'
  BY <1>1 DEF IInv, ComputeInv, Fresh, LeafHash, Lookup
<1> QED  BY <1>2, <1>3, <1>4, <1>5, <1>6 DEF IInv

-----------------------------------------------------------------------------
(* The theorems.                                                            *)

\* The tree, the path and the computation of a root stay consistent at every
\* step of new, insert, lookup_path and compute_root.
THEOREM SparseTreeInvariant == Spec => []IInv
<1>1. IInv /\ [Next]_vars => IInv'
  <2> SUFFICES ASSUME IInv, [Next]_vars PROVE IInv'
    OBVIOUS
  <2>1. ASSUME NEW u \in Users, NEW v \in Leaves, Insert(u, v) PROVE IInv'
    BY <2>1, InsertStep
  <2>2. ASSUME NEW u \in Users, LookupPath(u) PROVE IInv'
    BY <2>2, LookupPathStep
  <2>3. ASSUME NEW hash \in StartHashes, ComputeRoot(hash) PROVE IInv'
    BY <2>3, ComputeRootStep
  <2> QED
    BY <2>1, <2>2, <2>3, NewLevelStep, NewEndStep, InsertLevelStep, InsertEndStep,
       LookupLevelStep, LookupEndStep, ComputeLevelStep, ComputeEndStep, ReturnStep,
       StutterStep DEF Next
<1> QED  BY <1>1, InitStep, PTL DEF Spec

\* The tree has its type: every index stays within its level, every stored node
\* is one of the tree, and insert never misses the root it expects.
THEOREM SparseTreeTypeCorrect == Spec => []TypeOK
<1>1. IInv => TypeOK
  <2> SUFFICES ASSUME IInv PROVE TypeOK
    OBVIOUS
  <2>1. \A p \in DOMAIN tree : p[1] \in 0 .. Depth /\ p[2] \in 0 .. Width[p[1]] - 1
    <3>1. SUFFICES ASSUME NEW p \in DOMAIN tree
                   PROVE  p[1] \in 0 .. Depth /\ p[2] \in 0 .. Width[p[1]] - 1
      OBVIOUS
    <3>2. PICK e \in 0 .. Depth, j \in Nat : p = <<e, j>>
      BY DEF IInv, TreeInv
    <3>3. j \in Index(e)
      BY <3>2 DEF IInv, TreeInv, Stored
    <3> QED  BY <3>2, <3>3 DEF Index
  <2>2. path = NoPath \/ path.index \in Users
    BY DEF IInv, PathInv
  <2>3. DOMAIN path.hashes \subseteq 1 .. Depth
    <3>1. CASE path = NoPath
      BY <3>1 DEF NoPath
    <3>2. CASE path # NoPath
      BY <3>2, DepthAssumption DEF IInv, LoopInv, PathInv, Reached
    <3> QED  BY <3>1, <3>2
  <2> QED  BY <2>1, <2>2, <2>3 DEF TypeOK, IInv, LoopInv, DefaultsInv, Index
<1> QED  BY <1>1, SparseTreeInvariant, PTL

\* A path looked up before the updates of its leaf leads from the present leaf to
\* the present root, natively and in the circuit, whatever the hash function.
THEOREM SparsePathTracksTree == Spec => []PathTracksTree
<1>1. IInv => PathTracksTree
  BY DEF IInv, ComputeInv, Fresh, PathTracksTree
<1> QED  BY <1>1, SparseTreeInvariant, PTL

-----------------------------------------------------------------------------
(* What the root tells of a leaf.                                           *)

\* hash_inner_node has no collision.
Injective == \A a, b, a2, b2 : HashInner(a, b) = HashInner(a2, b2) => a = a2 /\ b = b2

\* An instance of it.
LEMMA InjectiveUse ==
  ASSUME Injective, NEW a, NEW b, NEW a2, NEW b2, HashInner(a, b) = HashInner(a2, b2)
  PROVE  a = a2 /\ b = b2
BY DEF Injective

\* compute_root only ever arrives at a node of the tree when it began with the
\* leaf that is there.
BindInv ==
  /\ pc = "compute" /\ h = Lookup(d, i) => start = LeafHash(path.index)
  /\ pc = "computed" /\ h = root => start = LeafHash(path.index)

\* Only compute_root moves the hash; going up a level keeps a difference.
LEMMA BindStep ==
  ASSUME Injective, IInv, BindInv, [Next]_vars
  PROVE  BindInv'
<1>1. ASSUME NEW hash, ComputeRoot(hash) PROVE BindInv'
  <2>1. /\ pc = "idle" /\ path # NoPath /\ pc' = "compute" /\ d' = Depth /\ i' = path.index
        /\ start' = hash /\ h' = hash /\ UNCHANGED <<treeVars, pathVars>>
    BY <1>1 DEF ComputeRoot
  <2>2. tree' = tree /\ leaves' = leaves /\ defaults' = defaults /\ path' = path
    BY <2>1 DEF treeVars, pathVars
  <2>3. path.index \in Users
    BY <2>1 DEF IInv, PathInv
  <2>4. LeafHash(path.index) = Lookup(Depth, path.index)
    BY <2>3 DEF IInv, LeavesInv, LeafHash, Lookup, Stored
  <2>5. Lookup(d, i)' = Lookup(Depth, path.index) /\ LeafHash(path.index)' = LeafHash(path.index)
    BY <2>1, <2>2 DEF Lookup, LeafHash
  <2> QED  BY <2>1, <2>4, <2>5 DEF BindInv
<1>2. CASE ComputeLevel
  <2>0. PICK b, c, k, q : b = d /\ c = d - 1 /\ k = i /\ q = k \div 2
    OBVIOUS
  <2>1. /\ pc = "compute" /\ b > 0 /\ pc' = "compute" /\ d' = c /\ i' = q /\ start' = start
        /\ h' = NativeLevel(BitVector(k), path.hashes[b]) /\ UNCHANGED <<treeVars, pathVars>>
    BY <1>2, <2>0 DEF ComputeLevel
  <2>2. tree' = tree /\ leaves' = leaves /\ defaults' = defaults /\ path' = path
    BY <2>1 DEF treeVars, pathVars
  <2>3. b \in 1 .. Depth /\ c \in 0 .. Depth - 1 /\ c + 1 = b /\ k \in Index(b) /\ k \in Nat
    BY <2>0, <2>1, DepthAssumption, IndexNat DEF IInv, LoopInv
  <2>4. q \in Nat
    BY <2>0, <2>3, SiblingHalf
  <2>5. Lookup(c, q) = HashInner(Lookup(b, 2 * q), Lookup(b, 2 * q + 1))
    BY <2>1, <2>3, <2>4, Merkle DEF IInv
  <2>6. h' = Lookup(c, q) => h = Lookup(b, k)
    <3>1. CASE k % 2 = 0
      <4>1. k = 2 * q /\ h' = HashInner(h, path.hashes[b])
        BY <3>1, <2>0, <2>1, <2>3, SiblingHalf DEF NativeLevel, BitVector
      <4>2. HashInner(h, path.hashes[b]) = HashInner(Lookup(b, 2 * q), Lookup(b, 2 * q + 1))
              => h = Lookup(b, 2 * q)
        BY InjectiveUse
      <4> QED  BY <4>1, <4>2, <2>5
    <3>2. CASE k % 2 # 0
      <4>1. k = 2 * q + 1 /\ h' = HashInner(path.hashes[b], h)
        BY <3>2, <2>0, <2>1, <2>3, SiblingHalf DEF NativeLevel, BitVector
      <4>2. HashInner(path.hashes[b], h) = HashInner(Lookup(b, 2 * q), Lookup(b, 2 * q + 1))
              => h = Lookup(b, 2 * q + 1)
        BY InjectiveUse
      <4> QED  BY <4>1, <4>2, <2>5
    <3> QED  BY <3>1, <3>2
  <2>7. Lookup(d, i)' = Lookup(c, q) /\ LeafHash(path.index)' = LeafHash(path.index)
    BY <2>1, <2>2 DEF Lookup, LeafHash
  <2> QED  BY <2>0, <2>1, <2>6, <2>7 DEF BindInv
<1>3. CASE ComputeEnd
  <2>1. /\ pc = "compute" /\ d = 0 /\ pc' = "computed" /\ start' = start /\ h' = h
        /\ root' = root /\ leaves' = leaves /\ defaults' = defaults /\ path' = path
    BY <1>3 DEF ComputeEnd, rootVars, treeVars, pathVars
  <2>2. i = 0 /\ root = Lookup(0, 0)
    BY <2>1, WidthAssumption DEF IInv, LoopInv, RootInv, Index
  <2>3. LeafHash(path.index)' = LeafHash(path.index)
    BY <2>1 DEF LeafHash
  <2> QED  BY <2>1, <2>2, <2>3 DEF BindInv
<1>4. CASE UNCHANGED vars
  BY <1>4 DEF vars, treeVars, pathVars, rootVars, BindInv, Lookup, LeafHash
<1>5. ASSUME pc' \notin {"compute", "computed"} PROVE BindInv'
  BY <1>5 DEF BindInv
<1>6. CASE NewLevel \/ NewEnd \/ InsertLevel \/ InsertEnd \/ LookupLevel \/ LookupEnd \/ Return
  <2>1. pc' \notin {"compute", "computed"}
    BY <1>6 DEF NewLevel, NewEnd, InsertLevel, InsertEnd, LookupLevel, LookupEnd, Return
  <2> QED  BY <2>1, <1>5
<1>7. ASSUME NEW u \in Users, LookupPath(u) PROVE BindInv'
  BY <1>5, <1>7 DEF LookupPath
<1>8. ASSUME NEW u \in Users, NEW v \in Leaves, Insert(u, v) PROVE BindInv'
  BY <1>5, <1>8 DEF Insert
<1> QED  BY <1>1, <1>2, <1>3, <1>4, <1>6, <1>7, <1>8 DEF Next

\* If hash_inner_node has no collision, compute_root leads to the present root
\* only from the user's present leaf, whenever the path was looked up.
THEOREM SparseRootBindsLeaf ==
  ASSUME Injective
  PROVE  Spec => []RootBindsLeaf
<1>1. Init => BindInv
  BY DEF Init, BindInv
<1>2. IInv /\ BindInv /\ [Next]_vars => BindInv'
  BY BindStep
<1>3. BindInv => RootBindsLeaf
  BY DEF BindInv, RootBindsLeaf
<1> QED  BY <1>1, <1>2, <1>3, SparseTreeInvariant, PTL DEF Spec

-----------------------------------------------------------------------------
(* The Merkle root.                                                         *)

\* A set of natural numbers has a least element.
LEMMA Least ==
  ASSUME NEW T, T \subseteq Nat, T # {}
  PROVE  \E x \in T : \A y \in T : x <= y
<1> DEFINE R == OpToRel(<, Nat)
<1>1. IsWellFoundedOn(R, Nat)
  BY NatLessThanWellFounded
<1>2. \A x, y \in Nat : <<y, x>> \in R <=> y < x
  BY DEF OpToRel
<1> HIDE DEF R
<1>3. PICK x \in T : \A y \in T : ~(<<y, x>> \in R)
  BY <1>1, WFMin
<1>4. \A y \in T : ~(y < x)
  BY <1>2, <1>3
<1> QED  BY <1>3, <1>4

\* Induction up to a height, on the set of numbers that have a property.
LEMMA HeightInduction ==
  ASSUME NEW S, 0 \in S, \A n \in 0 .. Depth - 1 : n \in S => n + 1 \in S
  PROVE  \A n \in 0 .. Depth : n \in S
<1> DEFINE T == {n \in 0 .. Depth : n \notin S}
<1> SUFFICES ASSUME T # {} PROVE FALSE
  OBVIOUS
<1>1. T \subseteq Nat
  OBVIOUS
<1> HIDE DEF T
<1>2. PICK m \in T : \A y \in T : m <= y
  BY <1>1, Least
<1> USE DEF T
<1>3. m \in 0 .. Depth /\ m # 0 /\ m \notin S
  BY <1>2
<1>4. m - 1 \in 0 .. Depth - 1 /\ m - 1 \in 0 .. Depth /\ ~(m <= m - 1) /\ (m - 1) + 1 = m
  BY <1>3, DepthAssumption
<1>5. m - 1 \in S
  BY <1>2, <1>4
<1> QED  BY <1>3, <1>4, <1>5

\* The recursion of MerkleTree has a solution: a solution up to a height extends to
\* the next one.
LEMMA MerkleTreeIs ==
  /\ MerkleTree[0] = [j \in 0 .. Width[Depth] - 1 |->
                        IF j \in Users THEN LeafHash(j) ELSE defaults[Depth]]
  /\ \A n \in 1 .. Depth :
       MerkleTree[n] = [j \in 0 .. Width[Depth - n] - 1 |->
                          HashInner(MerkleTree[n - 1][2 * j], MerkleTree[n - 1][2 * j + 1])]
<1> DEFINE Step(g, n) ==
             IF n = 0 THEN [j \in 0 .. Width[Depth] - 1 |->
                              IF j \in Users THEN LeafHash(j) ELSE defaults[Depth]]
             ELSE [j \in 0 .. Width[Depth - n] - 1 |->
                     HashInner(g[n - 1][2 * j], g[n - 1][2 * j + 1])]
           Solves(g, m) == g = [n \in 0 .. m |-> Step(g, n)]
           S == {m \in 0 .. Depth : \E g : Solves(g, m)}
<1>1. ASSUME NEW f, NEW g, NEW n, n # 0 => f[n - 1] = g[n - 1]
      PROVE  Step(f, n) = Step(g, n)
  BY <1>1
<1>2. 0 \in S
  <2> DEFINE g == [n \in 0 .. 0 |-> Step(<<>>, 0)]
  <2>1. Step(g, 0) = Step(<<>>, 0)
    <3> HIDE DEF g
    <3> QED  OBVIOUS
  <2> HIDE DEF Step
  <2>2. g = [n \in 0 .. 0 |-> Step(g, n)]
    <3>1. \A n \in 0 .. 0 : n = 0
      OBVIOUS
    <3>2. \A n \in 0 .. 0 : Step(<<>>, 0) = Step(g, n)
      BY <2>1, <3>1
    <3> QED  BY <3>2
  <2> QED  BY <2>2, DepthAssumption
<1>3. ASSUME NEW m \in 0 .. Depth - 1, m \in S PROVE m + 1 \in S
  <2> HIDE DEF Step
  <2>1. PICK g : g = [n \in 0 .. m |-> Step(g, n)]
    BY <1>3
  <2> DEFINE f == [n \in 0 .. m + 1 |-> IF n = m + 1 THEN Step(g, m + 1) ELSE g[n]]
  <2>2. m \in Nat /\ m + 1 \in 0 .. Depth
    BY DepthAssumption
  <2>3. \A n \in 0 .. m : f[n] = g[n]
    BY <2>2
  <2>4. ASSUME NEW n \in 0 .. m + 1
        PROVE  (IF n = m + 1 THEN Step(g, m + 1) ELSE g[n]) = Step(f, n)
    <3>1. n # 0 => n - 1 \in 0 .. m
      BY <2>2
    <3>2. Step(f, n) = Step(g, n)
      <4>1. n # 0 => f[n - 1] = g[n - 1]
        BY <2>3, <3>1
      <4> HIDE DEF f
      <4> QED  BY <1>1, <4>1
    <3>3. n # m + 1 => n \in 0 .. m
      BY <2>2
    <3>4. n # m + 1 => g[n] = Step(g, n)
      BY <2>1, <3>3
    <3> HIDE DEF f
    <3> QED  BY <3>2, <3>4
  <2>5. f = [n \in 0 .. m + 1 |-> Step(f, n)]
    <3>1. \A n \in 0 .. m + 1 : f[n] = Step(f, n)
      BY <2>4
    <3>2. f = [n \in 0 .. m + 1 |-> f[n]]
      OBVIOUS
    <3> HIDE DEF f
    <3> QED  BY <3>1, <3>2
  <2> QED  BY <2>2, <2>5
<1>4. \E g : Solves(g, Depth)
  <2>1. \A n \in 0 .. Depth : n \in S
    <3> HIDE DEF S
    <3> QED  BY <1>2, <1>3, HeightInduction
  <2> QED  BY <2>1, DepthAssumption
<1>5. MerkleTree = CHOOSE g : Solves(g, Depth)
  BY DEF MerkleTree
<1>6. Solves(MerkleTree, Depth)
  <2> HIDE DEF Solves
  <2> QED  BY <1>4, <1>5
<1>7. \A n \in 0 .. Depth : MerkleTree[n] = Step(MerkleTree, n)
  <2> HIDE DEF Step
  <2> QED  BY <1>6
<1>8. MerkleTree[0] = Step(MerkleTree, 0)
  <2> HIDE DEF Step
  <2> QED  BY <1>7, DepthAssumption
<1>9. ASSUME NEW n \in 1 .. Depth
      PROVE  MerkleTree[n] = [j \in 0 .. Width[Depth - n] - 1 |->
                HashInner(MerkleTree[n - 1][2 * j], MerkleTree[n - 1][2 * j + 1])]
  <2>1. n \in 0 .. Depth /\ n # 0
    BY DepthAssumption
  <2>2. MerkleTree[n] = Step(MerkleTree, n)
    BY <1>7, <2>1
  <2> QED  BY <2>1, <2>2
<1> QED  BY <1>8, <1>9

\* Only the leaves of users are stored.
UsersInv == \A j \in Nat : Stored(Depth, j) => j \in Users

LEMMA UsersStep ==
  ASSUME IInv, UsersInv, [Next]_vars
  PROVE  UsersInv'
<1>1. ASSUME NEW u \in Users, NEW v \in Leaves, Insert(u, v) PROVE UsersInv'
  BY <1>1, PutTree DEF Insert, UsersInv, Stored, Put
<1>2. CASE InsertLevel
  <2>1. /\ d > 0 /\ d \in 0 .. Depth /\ d - 1 # Depth
        /\ tree' = Put(tree, <<d - 1, i \div 2>>,
                        HashInner(Lookup(d, 2 * (i \div 2)), Lookup(d, 2 * (i \div 2) + 1)))
    BY <1>2, DepthAssumption DEF InsertLevel, IInv, LoopInv
  <2>2. DOMAIN tree' = DOMAIN tree \cup {<<d - 1, i \div 2>>}
    BY <2>1 DEF Put
  <2>3. \A j : <<Depth, j>> # <<d - 1, i \div 2>>
    BY <2>1
  <2> QED  BY <2>2, <2>3 DEF UsersInv, Stored
<1>3. tree' = tree => UsersInv'
  BY DEF UsersInv, Stored
<1>4. CASE tree' = tree
  BY <1>3, <1>4
<1>5. NewLevel \/ NewEnd \/ InsertEnd \/ LookupLevel \/ LookupEnd \/ ComputeLevel \/ ComputeEnd
        \/ Return \/ UNCHANGED vars => tree' = tree
  BY DEF NewLevel, NewEnd, InsertEnd, LookupLevel, LookupEnd, ComputeLevel, ComputeEnd, Return,
         vars, treeVars
<1>6. \A u : LookupPath(u) => tree' = tree
  BY DEF LookupPath, treeVars
<1>7. \A hash : ComputeRoot(hash) => tree' = tree
  BY DEF ComputeRoot, treeVars
<1> QED  BY <1>1, <1>2, <1>4, <1>5, <1>6, <1>7 DEF Next

\* With no insert at work every node of the full tree has the hash looked up for it.
LEMMA FullNode ==
  ASSUME IInv, UsersInv, pc \notin {"new", "insert"}
  PROVE  \A n \in 0 .. Depth : \A j \in Index(Depth - n) :
           MerkleTree[n][j] = Lookup(Depth - n, j)
<1> DEFINE S == {n \in 0 .. Depth : \A j \in Index(Depth - n) :
                                     MerkleTree[n][j] = Lookup(Depth - n, j)}
<1>1. ASSUME NEW j \in Index(Depth) PROVE MerkleTree[0][j] = Lookup(Depth, j)
  <2>1. MerkleTree[0][j] = IF j \in Users THEN LeafHash(j) ELSE defaults[Depth]
    BY MerkleTreeIs DEF Index
  <2>2. j \in Nat
    BY IndexNat, DepthAssumption
  <2>3. CASE j \in Users
    BY <2>1, <2>3 DEF IInv, LeavesInv, Lookup, LeafHash, Stored
  <2>4. CASE j \notin Users
    BY <2>1, <2>2, <2>4 DEF UsersInv, Lookup, Stored
  <2> QED  BY <2>3, <2>4
<1>2. 0 \in S
  BY <1>1, DepthAssumption
<1>3. ASSUME NEW n \in 0 .. Depth - 1, n \in S PROVE n + 1 \in S
  <2>1. /\ n + 1 \in 1 .. Depth /\ n + 1 \in 0 .. Depth /\ (n + 1) - 1 = n
        /\ Depth - (n + 1) \in 0 .. Depth - 1 /\ Depth - n = Depth - (n + 1) + 1
        /\ Depth - n \in 1 .. Depth
    BY DepthAssumption
  <2> DEFINE e == Depth - (n + 1)
  <2>2. MerkleTree[n + 1] = [j \in Index(e) |->
                               HashInner(MerkleTree[n][2 * j], MerkleTree[n][2 * j + 1])]
    <3> DEFINE m == n + 1
    <3>1. m \in 1 .. Depth /\ m - 1 = n
      BY <2>1
    <3> HIDE DEF m
    <3>2. MerkleTree[m] = [j \in Index(Depth - m) |->
                             HashInner(MerkleTree[m - 1][2 * j], MerkleTree[m - 1][2 * j + 1])]
      BY <3>1, MerkleTreeIs DEF Index
    <3>3. MerkleTree[m] = [j \in Index(Depth - m) |->
                             HashInner(MerkleTree[n][2 * j], MerkleTree[n][2 * j + 1])]
      BY <3>1, <3>2
    <3> QED  BY <3>3 DEF m
  <2>3. e \in 0 .. Depth - 1 /\ e \in Nat /\ Depth - n = e + 1 /\ e + 1 \in 1 .. Depth
        /\ e \in 0 .. Depth /\ (e + 1) - 1 = e
    BY <2>1, DepthAssumption
  <2> HIDE DEF e
  <2>4. ASSUME NEW j \in Index(e) PROVE MerkleTree[n + 1][j] = Lookup(e, j)
    <3>1. j \in Nat
      BY <2>3, IndexNat
    <3>2. 2 * j \in Index(e + 1) /\ 2 * j + 1 \in Index(e + 1)
      <4> DEFINE w == Width[e]
      <4>1. Width[e + 1] = 2 * w /\ w \in Nat
        BY <2>3, WidthAssumption
      <4>2. j < w
        BY <4>1 DEF Index
      <4> HIDE DEF w
      <4>3. 2 * j \in 0 .. 2 * w - 1 /\ 2 * j + 1 \in 0 .. 2 * w - 1
        BY <3>1, <4>1, <4>2
      <4> QED  BY <4>1, <4>3 DEF Index
    <3>3. /\ MerkleTree[n][2 * j] = Lookup(e + 1, 2 * j)
          /\ MerkleTree[n][2 * j + 1] = Lookup(e + 1, 2 * j + 1)
      BY <1>3, <2>3, <3>2
    <3>4. Lookup(e, j) = HashInner(Lookup(e + 1, 2 * j), Lookup(e + 1, 2 * j + 1))
      BY <2>3, <3>1, Merkle DEF IInv
    <3> QED  BY <2>2, <3>3, <3>4
  <2> QED  BY <2>1, <2>4 DEF e
<1>4. \A n \in 0 .. Depth : n \in S
  <2> HIDE DEF S
  <2> QED  BY <1>2, <1>3, HeightInduction
<1> QED  BY <1>4

\* Between two inserts the root that insert keeps is the Merkle root of the full tree
\* of all leaves, for trees of every depth, whatever was inserted in whatever order
\* and whatever the hash function.
THEOREM SparseRootIsMerkleRoot == Spec => []RootIsMerkleRoot
<1>1. Init => UsersInv
  BY DEF Init, UsersInv, Stored
<1>2. IInv /\ UsersInv /\ [Next]_vars => UsersInv'
  BY UsersStep
<1>3. IInv /\ UsersInv => RootIsMerkleRoot
  <2> SUFFICES ASSUME IInv, UsersInv, pc \notin {"new", "insert"} PROVE root = MerkleTree[Depth][0]
    BY DEF RootIsMerkleRoot
  <2>1. root = Lookup(0, 0)
    BY DEF IInv, RootInv
  <2>2. Depth \in 0 .. Depth /\ Depth - Depth = 0 /\ 0 \in Index(0)
    BY DepthAssumption, WidthAssumption DEF Index
  <2>3. \A j \in Index(Depth - Depth) : MerkleTree[Depth][j] = Lookup(Depth - Depth, j)
    BY <2>2, FullNode
  <2> QED  BY <2>1, <2>2, <2>3
<1> QED  BY <1>1, <1>2, <1>3, SparseTreeInvariant, PTL DEF Spec
=============================================================================
