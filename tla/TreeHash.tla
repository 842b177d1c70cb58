------------------------------- MODULE TreeHash -------------------------------
(***************************************************************************)
(* MerkleTreeCircuit of tree_hash_circuit.rs, the circuit most binaries    *)
(* prove: one subcircuit per node of a Merkle tree and one of padding.     *)
(* The coordinator generates proving keys for the five kinds of            *)
(* subcircuits and logs the portal trace without building constraints      *)
(* (get_portal_subtraces).  Each worker builds, for each of its            *)
(* subcircuits, an empty circuit with that subcircuit's witnesses only,    *)
(* and generates its constraints over the entries of its subtrace, which   *)
(* it takes one after the other without looking at the wires' names.       *)
(*                                                                         *)
(* So two pieces of code have to agree on every operation on every wire,   *)
(* through a numbering of the nodes by subcircuits.  Hashes are injective: *)
(* a leaf hashes to <<leaf>>, a parent to <<left hash, right hash>>.       *)
(***************************************************************************)
EXTENDS Integers, Sequences, FiniteSets

CONSTANTS
  LeafCounts,    \* numbers of leaves, powers of two
  PortalCounts,  \* values of num_portals_per_subcircuit
  NumWorkers,    \* divides the number of subcircuits
  Zero,          \* the field element, and the digest, of zeros
  None           \* nothing

\* Other parameters make the code panic or loop: it takes log2 of the leaves for
\* the height, has keys for two leaves or more, and counts down from the portals
\* minus one.
ASSUME ParamsAssumption ==
  /\ \A l \in LeafCounts : l \in Nat /\ \E h \in 1 .. l : l = 2^h
  /\ \A p \in PortalCounts : p \in Nat \ {0}
  /\ \A l \in LeafCounts : (2 * l) % NumWorkers = 0
  /\ Zero # None

VARIABLES
  params,     \* numbers of leaves and of portals, and the binary that makes keys
  phase,      \* "keys", "trace", "prove" or "panicked"
  circ,       \* the coordinator's circuit: leaves and root hash
  pks,        \* the shape each proving key was generated for
  wires,      \* var_map of the SetupRomPortalManager
  subtraces,  \* its subtraces
  proofs      \* what the workers have proved

vars == <<params, phase, circ, pks, wires, subtraces, proofs>>

-----------------------------------------------------------------------------
(* Tree math.                                                               *)

Log2(x) == IF x = 0 THEN 0 ELSE CHOOSE k \in 0 .. x : 2^k <= x /\ x < 2^(k + 1)

\* The trailing ones of a node's binary representation.
Level(node) == CHOOSE k \in 0 .. node : node % 2^(k + 1) = 2^k - 1

\* Mutants of LeftChild and RightChild: the nearest nodes.
LeftNeighbour(node) == node - 1
RightNeighbour(node) == node + 1

\* node ^ (1 << (k - 1)) and node ^ (3 << (k - 1)), for a node of k trailing ones.
LeftChild(node) == node - 2^(Level(node) - 1)
RightChild(node) == node + 2^(Level(node) - 1)

RootIdx(numLeaves) == 2^Log2(2 * (numLeaves - 1) + 1) - 1

NumLeaves == params.leaves
NumSubcircuits == 2 * NumLeaves
Subcircuit == 0 .. NumSubcircuits - 1
Node == 0 .. NumSubcircuits - 2

\* Subcircuits go through the nodes by levels, each from left to right: so many nodes
\* are on a level, and so many on the levels below it.
LevelSize(level) == 2^(Log2(NumLeaves) - level)
LevelStart(level) == NumSubcircuits - 2 * LevelSize(level)

SubcircuitIdxToNodeIdx(i) ==
  LET level == CHOOSE l \in 0 .. Level(RootIdx(NumLeaves)) :
                 i \in LevelStart(l) .. LevelStart(l) + LevelSize(l) - 1
      upperHalf == i - LevelStart(level)
  IN  upperHalf * 2^(level + 1) + 2^level - 1

IsPadding(i) == i = NumSubcircuits - 1
IsLeaf(i) == ~IsPadding(i) /\ Level(SubcircuitIdxToNodeIdx(i)) = 0
IsParent(i) == ~IsPadding(i) /\ ~IsLeaf(i)
IsRoot(i) == IsParent(i) /\ SubcircuitIdxToNodeIdx(i) = RootIdx(NumLeaves)

NodeWire(n) == <<"node", n>>
Placeholder == <<"placeholder">>

LeafHash(v) == <<v>>
NodeHash(l, r) == <<l, r>>

\* The hashes that calculate_root computes, level by level, each half as long as the
\* one before it.
HashLevels(leaves) ==
  LET level[k \in 0 .. Log2(Len(leaves))] ==
        IF k = 0 THEN [j \in 1 .. Len(leaves) |-> LeafHash(leaves[j])]
        ELSE [j \in 1 .. Len(level[k - 1]) \div 2 |->
                NodeHash(level[k - 1][2 * j - 1], level[k - 1][2 * j])]
  IN  level
CalculateRoot(leaves) == HashLevels(leaves)[Log2(Len(leaves))][1]

-----------------------------------------------------------------------------
(* The circuit and its witnesses.  EMPTY_LEAF is 0; leaf j of a random      *)
(* circuit is j, as 64 random bytes never come twice.                       *)

RandomCircuit(numLeaves) ==
  LET leaves == [j \in 1 .. numLeaves |-> j]
  IN  [leaves |-> leaves, root |-> CalculateRoot(leaves)]
EmptyCircuit == [leaves |-> [j \in 1 .. NumLeaves |-> 0], root |-> Zero]

LeafIdx(node) == (node \div 2) + 1

GetSerializedWitnesses(c, i) ==
  CASE IsLeaf(i) -> c.leaves[LeafIdx(SubcircuitIdxToNodeIdx(i))]
    [] IsRoot(i) -> c.root
    [] OTHER     -> None

SetSerializedWitnesses(c, i, wit) ==
  CASE IsLeaf(i) -> [c EXCEPT !.leaves[LeafIdx(SubcircuitIdxToNodeIdx(i))] = wit]
    [] IsRoot(i) -> [c EXCEPT !.root = wit]
    [] OTHER     -> c

-----------------------------------------------------------------------------
(* Proving keys.                                                            *)

Binary == {"node", "coordinator"}

\* get_unique_subcircuits; bin/coordinator generates four keys out of four, or
\* the same five.
UniqueSubcircuits ==
  IF params.binary = "coordinator" /\ NumSubcircuits <= 4
  THEN [k \in 1 .. NumSubcircuits |-> k - 1]
  ELSE <<0, 1, NumSubcircuits - 1, NumSubcircuits - 2, NumSubcircuits - 3>>

\* Mutant of RepresentativeSubcircuit: the root is a parent like the others.
RepresentativeWithoutRoot(i) ==
  CASE i = 0                                               -> 0
    [] i \in 1 .. NumLeaves - 1                            -> 1
    [] i \in NumLeaves .. NumSubcircuits - 2               -> NumSubcircuits - 3
    [] OTHER                                               -> i

\* representative_subcircuit, and the file a key is copied to.
RepresentativeSubcircuit(i) ==
  CASE params.binary = "coordinator" /\ NumSubcircuits <= 4 -> i
    [] i = 0                                               -> 0
    [] i \in 1 .. NumLeaves - 1                            -> 1
    [] i \in NumLeaves .. NumSubcircuits - 3               -> NumSubcircuits - 3
    [] OTHER                                               -> i

\* What tells the constraint systems of two subcircuits apart: the hashes made,
\* and with them the operations on wires; the placeholder's first set; and what
\* the wrapper adds at the first and the last subcircuit.
Shape(i) ==
  [kind  |-> CASE IsPadding(i) -> "padding" [] IsLeaf(i) -> "leaf"
               [] IsRoot(i)    -> "root"    [] OTHER     -> "parent",
   first |-> i = 0,
   last  |-> i = NumSubcircuits - 1]

-----------------------------------------------------------------------------
(* The trace.                                                               *)

Dummies == params.portals - 1
Get(w) == [op |-> "get", wire |-> w, val |-> None]
Set(w, v) == [op |-> "set", wire |-> w, val |-> v]

\* do_dummy_ops: the placeholder is got as often as there are portals to fill.
DummyOps == [k \in 1 .. Dummies |-> Get(Placeholder)]

\* The operations of generate_constraints, for a circuit c that has the
\* witnesses of subcircuit i, when the children's hashes are l and r.
Operations(c, i, l, r) ==
  LET node == SubcircuitIdxToNodeIdx(i) IN
  (CASE IsPadding(i) -> <<>>
     [] IsLeaf(i)    -> <<Set(NodeWire(node), LeafHash(c.leaves[LeafIdx(node)]))>>
     [] IsParent(i)  -> <<Get(NodeWire(LeftChild(node))), Get(NodeWire(RightChild(node))),
                          Set(NodeWire(node), NodeHash(l, r))>>)
    \o (IF i = 0 THEN <<Set(Placeholder, Zero)>> ELSE <<>>) \o DummyOps

\* Mutant of SetupOperations: the right child is got first.
SetupRightFirst(i) ==
  LET node == SubcircuitIdxToNodeIdx(i)
      left  == NodeWire(LeftChild(node))
      right == NodeWire(RightChild(node))
  IN
  (CASE i < NumLeaves ->
          <<Set(NodeWire(node), LeafHash(circ.leaves[i + 1]))>>
            \o (IF i = 0 THEN <<Set(Placeholder, Zero)>> ELSE <<>>)
     [] i \in NumLeaves .. NumSubcircuits - 2 ->
          <<Get(right), Get(left),
            Set(NodeWire(node), NodeHash(wires[left], wires[right]))>>
     [] OTHER -> <<>>) \o DummyOps

\* The operations of get_portal_subtraces: all the leaves, then the parents,
\* then the padding.
SetupOperations(i) ==
  LET node == SubcircuitIdxToNodeIdx(i)
      left  == NodeWire(LeftChild(node))
      right == NodeWire(RightChild(node))
  IN
  (CASE i < NumLeaves ->
          <<Set(NodeWire(node), LeafHash(circ.leaves[i + 1]))>>
            \o (IF i = 0 THEN <<Set(Placeholder, Zero)>> ELSE <<>>)
     [] i \in NumLeaves .. NumSubcircuits - 2 ->
          <<Get(left), Get(right),
            Set(NodeWire(node),
                IF {left, right} \subseteq DOMAIN wires
                THEN NodeHash(wires[left], wires[right]) ELSE None)>>
     [] OTHER -> <<>>) \o DummyOps

-----------------------------------------------------------------------------
(* Actions.                                                                 *)

Init ==
  /\ \E l \in LeafCounts, p \in PortalCounts, b \in Binary :
       params = [leaves |-> l, portals |-> p, binary |-> b]
  /\ phase = "keys" /\ circ = RandomCircuit(params.leaves)
  /\ pks = <<>>
  /\ wires = [w \in {} |-> None] /\ subtraces = <<>>
  /\ proofs = [i \in Subcircuit |-> None]

\* gen_pk, for the unique subcircuits in turn.
GenPk ==
  /\ phase = "keys"
  /\ LET i == UniqueSubcircuits[Len(pks) + 1]
     IN  pks' = Append(pks, [idx |-> i, shape |-> Shape(i)])
  /\ phase' = IF Len(pks) + 1 = Len(UniqueSubcircuits) THEN "trace" ELSE "keys"
  /\ UNCHANGED <<params, circ, wires, subtraces, proofs>>

\* The subcircuit whose subtrace is being logged, and what it has logged.
Current == Len(subtraces) - 1
Logged == subtraces[Len(subtraces)]
SubtraceEnds == subtraces # <<>> => Len(Logged) = Len(SetupOperations(Current))

\* The heads of the loops of get_portal_subtraces.
StartSubtrace ==
  /\ phase = "trace" /\ SubtraceEnds
  /\ IF Len(subtraces) < NumSubcircuits
     THEN subtraces' = Append(subtraces, <<>>) /\ UNCHANGED phase
     ELSE phase' = "prove" /\ UNCHANGED subtraces
  /\ UNCHANGED <<params, circ, pks, wires, proofs>>

\* The next get or set of the round, on the SetupRomPortalManager: a get of an unset
\* wire and a second set of one panic.
Access ==
  /\ phase = "trace" /\ ~SubtraceEnds
  /\ LET o == SetupOperations(Current)[Len(Logged) + 1]
     IN  IF (o.op = "get") # (o.wire \in DOMAIN wires)
         THEN phase' = "panicked" /\ UNCHANGED <<wires, subtraces>>
         ELSE /\ wires' = IF o.op = "get" THEN wires
                          ELSE [w \in DOMAIN wires \cup {o.wire} |->
                                  IF w = o.wire THEN o.val ELSE wires[w]]
              /\ subtraces' = [subtraces EXCEPT ![Len(subtraces)] =
                                 Append(@, [wire |-> o.wire, val |-> wires'[o.wire]])]
              /\ UNCHANGED phase
  /\ UNCHANGED <<params, circ, pks, proofs>>

\* get_pk: the key generated for the representative, or a panic.
HasPk(i) == \E k \in DOMAIN pks : pks[k].idx = RepresentativeSubcircuit(i)
Pk(i) == pks[CHOOSE k \in DOMAIN pks : pks[k].idx = RepresentativeSubcircuit(i)].shape

\* A worker generates the constraints of subcircuit i over its subtrace: gets
\* return the entries in turn, sets and the root compare values.  An entry too
\* few panics; an entry too many is one the permutation check finds missing.
Prove(i) ==
  /\ phase = "prove" /\ proofs[i] = None
  /\ LET share == NumSubcircuits \div NumWorkers
     IN  \A j \in Subcircuit : j \div share = i \div share /\ j < i => proofs[j] # None
  /\ LET tr  == subtraces[i + 1]
         own == SetSerializedWitnesses(EmptyCircuit, i, GetSerializedWitnesses(circ, i))
         val(k) == IF k \in DOMAIN tr THEN tr[k].val ELSE None
         ops == Operations(own, i, val(1), val(2))
     IN  IF ~HasPk(i) \/ Len(ops) > Len(tr)
         THEN phase' = "panicked" /\ UNCHANGED proofs
         ELSE /\ proofs' = [proofs EXCEPT ![i] =
                   [keyFits   |-> Pk(i) = Shape(i),
                    satisfied |-> /\ Len(ops) = Len(tr)
                                  /\ \A k \in DOMAIN ops : ops[k].op = "set" => ops[k].val = tr[k].val
                                  /\ IsRoot(i) => NodeHash(val(1), val(2)) = own.root,
                    met       |-> \A k \in DOMAIN ops : ops[k].wire = tr[k].wire]]
              /\ UNCHANGED phase
  /\ UNCHANGED <<params, circ, pks, wires, subtraces>>

Terminated ==
  /\ phase = "panicked" \/ \A i \in Subcircuit : proofs[i] # None
  /\ UNCHANGED vars

Next == GenPk \/ StartSubtrace \/ Access \/ (\E i \in Subcircuit : Prove(i)) \/ Terminated

Spec == Init /\ [][Next]_vars

-----------------------------------------------------------------------------
(* Properties.                                                              *)

\* The two accounts of the trace agree.  The native one gets no wire before it is
\* set and sets none again; and every subcircuit that is proved finds the entries
\* it takes, no more and no fewer, each of the wire it names, although a worker
\* looks at no name.  The constraints hold of them with the witnesses of that
\* subcircuit alone, and the key it is proved with was made for its constraints.
ProofsValid ==
  /\ phase # "panicked"
  /\ \A i \in Subcircuit : proofs[i] # None =>
       proofs[i].satisfied /\ proofs[i].met /\ proofs[i].keyFits

\* The wire of a node holds the root of the tree of the leaves below it, so that
\* the root's is the Merkle root.
WiresHoldSubtreeRoots ==
  \A n \in Node : NodeWire(n) \in DOMAIN wires =>
    LET reach == 2^Level(n) - 1
    IN  wires[NodeWire(n)]
          = CalculateRoot(SubSeq(circ.leaves, (n - reach) \div 2 + 1, (n + reach) \div 2 + 1))

\* Where a wire is used: by which subcircuits, and at which of their entries.
Uses(w) ==
  UNION {{<<i, k>> : k \in {j \in DOMAIN subtraces[i] : subtraces[i][j].wire = w}} :
           i \in DOMAIN subtraces}

\* Every hash goes to one parent: in the whole trace a node's wire appears where
\* it is set and, unless it is the root's, once more, in another subcircuit.
HashesUsedOnce ==
  phase = "prove" =>
    \A n \in Node :
      /\ Cardinality(Uses(NodeWire(n))) = IF n = RootIdx(NumLeaves) THEN 1 ELSE 2
      /\ \A r, s \in Uses(NodeWire(n)) : r # s => r[1] # s[1]
=============================================================================
