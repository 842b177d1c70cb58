------------------------------ MODULE SparseTree ------------------------------
(***************************************************************************)
(* The sparse Merkle tree of the key directory (vkd/sparse_tree.rs): a     *)
(* tree of 2^Depth leaves of which only the nodes above inserted leaves    *)
(* are stored; every other node has the hash of an empty subtree of its    *)
(* height.                                                                 *)
(*                                                                         *)
(* The directory looks up the path of a user, inserts the user's new leaf, *)
(* and later computes from the same path the root before the update, to    *)
(* check it, and the root after it; in the circuit this is done by         *)
(* MerkleTreePathVar (vkd/sparse_tree_constraints.rs), whose index bits    *)
(* have the opposite sense.  Each round of a loop is a step here.          *)
(***************************************************************************)
EXTENDS Integers

CONSTANTS
  Depth,            \* DEPTH, 128 in the code
  Width,            \* Width[d] is 2^d, the number of nodes at depth d
  Users,            \* get_index of the users: the leaves in use
  Leaves,           \* values of leaves
  InitialLeaf,      \* INITIAL_LEAF_VALUE
  HashLeaf(_),      \* hash_leaf
  HashInner(_, _),  \* hash_inner_node
  None              \* nothing

ASSUME DepthAssumption == Depth \in Nat
ASSUME WidthAssumption ==
  /\ Width \in [0 .. Depth -> Nat \ {0}]
  /\ Width[0] = 1
  /\ \A d \in 1 .. Depth : Width[d] = 2 * Width[d - 1]
ASSUME UsersAssumption == Users \subseteq 0 .. Width[Depth] - 1
ASSUME NoneAssumption == None \notin Leaves \cup Users

VARIABLES
  pc,        \* the function at work, or "idle", or "computed"
  d, i,      \* its loop variables: a depth, and an index at that depth
  defaults,  \* sparse_initial_hashes, from depth d down to the leaves in new
  tree,      \* the hashes stored, by <<depth, index>>
  leaves,    \* the leaves inserted
  root,
  path,      \* a MerkleTreePath, and the index it is the path of
  at,        \* the index passed at each depth when the path was looked up
  touched,   \* the leaves inserted since then
  start,     \* the hash compute_root began with
  h, hVar    \* current_hash, in compute_root and in its constraints

treeVars == <<defaults, tree, leaves, root>>
pathVars == <<path, at, touched>>
rootVars == <<start, h, hVar>>
vars == <<pc, d, i, treeVars, pathVars, rootVars>>

Lookup(depth, index) ==
  IF <<depth, index>> \in DOMAIN tree THEN tree[<<depth, index>>] ELSE defaults[depth]

Put(f, x, y) == [z \in DOMAIN f \cup {x} |-> IF z = x THEN y ELSE f[z]]

\* i ^ 1
Sibling(index) == IF index % 2 = 0 THEN index + 1 ELSE index - 1

NoPath == [index |-> None, hashes |-> [x \in {} |-> None]]

Init ==
  /\ pc = "new" /\ d = Depth /\ i = 0
  /\ defaults = [x \in {Depth} |-> HashLeaf(InitialLeaf)]
  /\ tree = [x \in {} |-> None] /\ leaves = [u \in Users |-> None]
  /\ root = None
  /\ path = NoPath /\ at = [x \in {} |-> None] /\ touched = {}
  /\ start = None /\ h = None /\ hVar = None

-----------------------------------------------------------------------------
(* new                                                                      *)

NewLevel ==
  /\ pc = "new" /\ d > 0
  /\ defaults' = Put(defaults, d - 1, HashInner(defaults[d], defaults[d]))
  /\ d' = d - 1
  /\ UNCHANGED <<pc, i, tree, leaves, root, pathVars, rootVars>>

NewEnd ==
  /\ pc = "new" /\ d = 0
  /\ root' = defaults[0]
  /\ pc' = "idle"
  /\ UNCHANGED <<d, i, defaults, tree, leaves, pathVars, rootVars>>

-----------------------------------------------------------------------------
(* insert, of a leaf                                                        *)

Insert(u, v) ==
  /\ pc = "idle"
  /\ leaves' = [leaves EXCEPT ![u] = v]
  /\ tree' = Put(tree, <<Depth, u>>, HashLeaf(v))
  /\ pc' = "insert" /\ d' = Depth /\ i' = u
  /\ touched' = touched \cup {u}
  /\ UNCHANGED <<defaults, root, path, at, rootVars>>

\* Mutant of InsertLevel: the children are taken from the node's own depth.
InsertLevelAbove ==
  /\ pc = "insert" /\ d > 0
  /\ LET up == i \div 2
     IN  /\ tree' = Put(tree, <<d - 1, up>>,
                        HashInner(Lookup(d - 1, 2 * up), Lookup(d - 1, 2 * up + 1)))
         /\ i' = up
  /\ d' = d - 1
  /\ UNCHANGED <<pc, defaults, leaves, root, pathVars, rootVars>>

InsertLevel ==
  /\ pc = "insert" /\ d > 0
  /\ LET up == i \div 2
     IN  /\ tree' = Put(tree, <<d - 1, up>>,
                        HashInner(Lookup(d, 2 * up), Lookup(d, 2 * up + 1)))
         /\ i' = up
  /\ d' = d - 1
  /\ UNCHANGED <<pc, defaults, leaves, root, pathVars, rootVars>>

\* Mutant of InsertEnd: the root is not set.
InsertEndOldRoot ==
  /\ pc = "insert" /\ d = 0
  /\ pc' = "idle"
  /\ UNCHANGED <<d, i, treeVars, pathVars, rootVars>>

\* The root is looked up and expected to be stored.
InsertEnd ==
  /\ pc = "insert" /\ d = 0
  /\ IF <<0, 0>> \in DOMAIN tree
     THEN root' = tree[<<0, 0>>] /\ pc' = "idle"
     ELSE pc' = "panicked" /\ UNCHANGED root
  /\ UNCHANGED <<d, i, defaults, tree, leaves, pathVars, rootVars>>

-----------------------------------------------------------------------------
(* lookup_path                                                              *)

LookupPath(u) ==
  /\ pc = "idle"
  /\ pc' = "lookup" /\ d' = Depth /\ i' = u
  /\ path' = [index |-> u, hashes |-> [x \in {} |-> None]]
  /\ at' = [x \in {Depth} |-> u] /\ touched' = {}
  /\ UNCHANGED <<treeVars, rootVars>>

\* Mutant of LookupLevel: the index is not shifted.
LookupLevelUnshifted ==
  /\ pc = "lookup" /\ d > 0
  /\ path' = [index |-> path.index, hashes |-> Put(path.hashes, d, Lookup(d, Sibling(i)))]
  /\ at' = Put(at, d - 1, i)
  /\ d' = d - 1 /\ UNCHANGED i
  /\ UNCHANGED <<pc, treeVars, touched, rootVars>>

LookupLevel ==
  /\ pc = "lookup" /\ d > 0
  /\ path' = [index |-> path.index, hashes |-> Put(path.hashes, d, Lookup(d, Sibling(i)))]
  /\ at' = Put(at, d - 1, i \div 2)
  /\ d' = d - 1 /\ i' = i \div 2
  /\ UNCHANGED <<pc, treeVars, touched, rootVars>>

LookupEnd ==
  /\ pc = "lookup" /\ d = 0
  /\ pc' = "idle"
  /\ UNCHANGED <<d, i, treeVars, pathVars, rootVars>>

-----------------------------------------------------------------------------
(* compute_root, and compute_root_var_from_internal_node                    *)

\* From a leaf, or from the hash the directory has for a leaf that is not there
\* (params.null_leaf).
StartHashes == {HashLeaf(v) : v \in Leaves} \cup {defaults[Depth]}

ComputeRoot(hash) ==
  /\ pc = "idle" /\ path # NoPath
  /\ start' = hash /\ h' = hash /\ hVar' = hash
  /\ pc' = "compute" /\ d' = Depth /\ i' = path.index
  /\ UNCHANGED <<treeVars, pathVars>>

\* to_bit_vector: true for an even index.  The circuit takes the bits of the
\* hash as they are.
BitVector(index) == index % 2 = 0
HashBit(index) == index % 2

\* conditionally_select
Select(bit, x, y) == IF bit = 1 THEN x ELSE y

\* Mutant of NativeLevel: the sense of the bit of the circuit.
NativeLevelInverted(even, sibling) ==
  IF even THEN HashInner(sibling, h) ELSE HashInner(h, sibling)
NativeLevel(even, sibling) ==
  IF even THEN HashInner(h, sibling) ELSE HashInner(sibling, h)
CircuitLevel(bit, sibling) ==
  HashInner(Select(bit, sibling, hVar), Select(bit, hVar, sibling))

ComputeLevel ==
  /\ pc = "compute" /\ d > 0
  /\ h' = NativeLevel(BitVector(i), path.hashes[d])
  /\ hVar' = CircuitLevel(HashBit(i), path.hashes[d])
  /\ d' = d - 1 /\ i' = i \div 2
  /\ UNCHANGED <<pc, treeVars, pathVars, start>>

ComputeEnd ==
  /\ pc = "compute" /\ d = 0
  /\ pc' = "computed"
  /\ UNCHANGED <<d, i, treeVars, pathVars, rootVars>>

\* The caller takes the result.
Return ==
  /\ pc = "computed"
  /\ pc' = "idle" /\ start' = None /\ h' = None /\ hVar' = None
  /\ UNCHANGED <<d, i, treeVars, pathVars>>

-----------------------------------------------------------------------------
Next ==
  \/ NewLevel \/ NewEnd
  \/ (\E u \in Users, v \in Leaves : Insert(u, v)) \/ InsertLevel \/ InsertEnd
  \/ (\E u \in Users : LookupPath(u)) \/ LookupLevel \/ LookupEnd
  \/ (\E hash \in StartHashes : ComputeRoot(hash)) \/ ComputeLevel \/ ComputeEnd \/ Return

Spec == Init /\ [][Next]_vars

-----------------------------------------------------------------------------
(* Properties.                                                              *)

\* The type of the tree and of the paths.
TypeOK ==
  /\ pc \in {"new", "idle", "insert", "lookup", "compute", "computed"}
  /\ d \in 0 .. Depth /\ i \in 0 .. Width[d] - 1
  /\ leaves \in [Users -> Leaves \cup {None}]
  /\ DOMAIN defaults = (IF pc = "new" THEN d ELSE 0) .. Depth
  /\ \A p \in DOMAIN tree : p[1] \in 0 .. Depth /\ p[2] \in 0 .. Width[p[1]] - 1
  /\ path = NoPath \/ path.index \in Users
  /\ DOMAIN path.hashes \subseteq 1 .. Depth
  /\ touched \subseteq Users

\* The hash of the leaf at an index: of an empty one, if none was inserted.
LeafHash(u) == IF leaves[u] = None THEN defaults[Depth] ELSE HashLeaf(leaves[u])

\* The hashes of the full tree of all leaves, the inserted and the empty ones, by
\* height and index.
MerkleTree[n \in 0 .. Depth] ==
  IF n = 0 THEN [j \in 0 .. Width[Depth] - 1 |->
                   IF j \in Users THEN LeafHash(j) ELSE defaults[Depth]]
  ELSE [j \in 0 .. Width[Depth - n] - 1 |->
          HashInner(MerkleTree[n - 1][2 * j], MerkleTree[n - 1][2 * j + 1])]

\* Between two inserts the root is the Merkle root of all leaves, whatever the
\* order in which they came.
RootIsMerkleRoot == pc \notin {"new", "insert"} => root = MerkleTree[Depth][0]

\* A path stays good for its own leaf: as long as no other leaf was inserted
\* since it was looked up, the root computed from the user's present leaf is the
\* present root, natively and in the circuit.  So the path of before an update
\* yields the roots of before and after it.
PathTracksTree ==
  pc = "computed" /\ touched \subseteq {path.index} /\ start = LeafHash(path.index)
    => h = root /\ hVar = root

\* The root binds the leaf: for an injective hash, a path looked up at any time
\* leads to the present root only from the user's present leaf.
RootBindsLeaf ==
  pc = "computed" /\ h = root => start = LeafHash(path.index)
=============================================================================
