--------------------------------- MODULE Vkd ---------------------------------
(***************************************************************************)
(* VerifiableKeyDirectoryCircuit (vkd/vkd.rs, vkd_circuits.rs,             *)
(* vkd_constraints.rs): a directory of keys in a sparse Merkle tree (see   *)
(* SparseTree), a list of updates to it, and the proof, eight subcircuits  *)
(* for each update, that they lead from its initial to its final root.     *)
(*                                                                         *)
(* random makes the directory and the updates; vkd_update_to_subcircuit    *)
(* cuts the updates into primitives, the primitives' inputs and outputs    *)
(* into portal wires; get_portal_subtraces logs the wires with a           *)
(* computation of its own, and the workers' constraints, which look at no  *)
(* name, have to agree with what it logged.  A leaf is                     *)
(* <<username, counter, key>>, and hashes are injective: a leaf hashes to  *)
(* <<leaf>>, an inner node to <<left hash, right hash>>.                   *)
(***************************************************************************)
EXTENDS Integers, Sequences, FiniteSets, SequencesExt

CONSTANTS
  Sizes,        \* log_num_subcircuits, and the range of a counter (u16, so 2^16
                \* in the code), of the circuits looked at
  Depth,        \* DEPTH, 128 in the code
  SplitFactor,  \* SPLIT_FACTOR, 4 in the code: a path is cut into as many parts
  KeyMod,       \* keys repeat after 256
  Genesis,      \* the users, and their indices: of the initial tree,
  User,         \* and of all updates
  Index,        \* get_index
  NumWorkers,   \* divides the number of subcircuits
  None          \* nothing

PathLength == Depth \div SplitFactor

ASSUME ParamsAssumption ==
  /\ \A s \in Sizes : s.logNum \in Nat \ (0 .. 4) /\ s.counterMod \in Nat \ {0}
  /\ SplitFactor \in {2, 4, 8, 16} /\ Depth = SplitFactor * PathLength
  /\ Index \in [{Genesis, User} -> 0 .. 2^Depth - 1] /\ Index[Genesis] # Index[User]
  /\ \A s \in Sizes : 2^s.logNum % NumWorkers = 0

VARIABLES
  size,         \* an element of Sizes
  phase,        \* "random", "keys", "trace", "prove" or "panicked"
  leaves,       \* the leaves of the tree, by user
  users,        \* <<counter, key>>, by user
  initialRoot,
  updates,
  subcircuits,  \* a sequence of primitives for each
  pks,          \* the shape each proving key was generated for
  wires,        \* var_map of the SetupRomPortalManager, and inner_node_memory
  subtraces,    \* its subtraces
  proofs,       \* what the workers have proved
  roots         \* history: the tree's root before and after each update

circVars == <<leaves, users, initialRoot, updates, subcircuits, roots>>
vars == <<size, phase, circVars, pks, wires, subtraces, proofs>>

NumSubcircuits == 2^size.logNum
Subcircuit == 0 .. NumSubcircuits - 1

-----------------------------------------------------------------------------
(* The tree, as the code that uses it sees it.                              *)

LeafHash(leaf) == <<leaf>>
NodeHash(l, r) == <<l, r>>

\* sparse_initial_hashes, by height.
Empty(height) ==
  LET e[n \in 0 .. Depth] ==
        IF n = 0 THEN LeafHash(<<None, 0, 0>>)
        ELSE LET below == e[n - 1] IN NodeHash(below, below)
  IN  e[height]
NullLeaf == Empty(0)

\* lookup_internal_node, of a tree with leaves lv.
Lookup(lv, height, index) ==
  LET node[n \in 0 .. Depth, j \in 0 .. 2^Depth - 1] ==
        LET below == {u \in DOMAIN lv : lv[u] # None /\ Index[u] \div 2^n = j}
        IN  IF below = {} THEN Empty(n)
            ELSE IF n = 0 THEN LeafHash(lv[CHOOSE u \in below : TRUE])
            ELSE NodeHash(node[n - 1, 2 * j], node[n - 1, 2 * j + 1])
  IN  node[height, index]
Root(lv) == Lookup(lv, Depth, 0)

Sibling(index) == IF index % 2 = 0 THEN index + 1 ELSE index - 1
LookupPath(lv, u) == [k \in 1 .. Depth |-> Lookup(lv, k - 1, Sibling(Index[u] \div 2^(k - 1)))]

Bit(index, k) == (index \div 2^(k - 1)) % 2
\* to_bit_vector, of an index of some length: true is even.
BitVector(index, length) == [k \in 1 .. length |-> Bit(index, k) = 0]

\* compute_root, from an internal node.
ComputeRoot(hash, path, even) ==
  LET h[k \in 0 .. Len(path)] ==
        IF k = 0 THEN hash
        ELSE IF even[k] THEN NodeHash(h[k - 1], path[k]) ELSE NodeHash(path[k], h[k - 1])
  IN  h[Len(path)]

\* Mutant of ComputeRootVar: the bits have the sense of the native code.
ComputeRootVarEven(hash, path, index) ==
  LET h[k \in 0 .. Len(path)] ==
        IF k = 0 THEN hash
        ELSE IF Bit(index, k) = 1 THEN NodeHash(h[k - 1], path[k]) ELSE NodeHash(path[k], h[k - 1])
  IN  h[Len(path)]

\* compute_root_var_from_internal_node, of the bits of a field element.
ComputeRootVar(hash, path, index) ==
  LET h[k \in 0 .. Len(path)] ==
        IF k = 0 THEN hash
        ELSE IF Bit(index, k) = 1 THEN NodeHash(path[k], h[k - 1]) ELSE NodeHash(h[k - 1], path[k])
  IN  h[Len(path)]

-----------------------------------------------------------------------------
(* Wires, and the primitives a subcircuit is made of.                       *)

InitialRoot == <<"initial root">>
FinalRoot == <<"final root">>
NullLeafWire == <<"null leaf">>
LeafHashWire(leaf) == <<"leaf hash", leaf>>
PathRoot(pathId, u) == <<"path root", pathId, u>>
IntermediateRoot(pathId, indicator, u) == <<"intermediate root", pathId, indicator, u>>
\* An index is named by the username alone.
IndexWire(indicator, leaf) == <<"index", indicator, leaf[1]>>

Padding == [type |-> "padding"]
WritePublicParameter == [type |-> "write pp"]
Equality(addr1, addr2) == [type |-> "equality", addr1 |-> addr1, addr2 |-> addr2]
HashLeaf(leaf) == [type |-> "hash leaf", leaf |-> leaf]
GetIndex(leaf) == [type |-> "get index", leaf |-> leaf]

\* split, and its part number i.
SplitPath(path, i) == SubSeq(path, i * PathLength + 1, (i + 1) * PathLength)

\* The ComputePathPrimitive of part i of a path, with its wires out of
\* get_node_addresses.
ComputePath(u, pathId, first, i, indexLeaf, path) ==
  [type  |-> "compute path",
   from  |-> IF i = 0 THEN first ELSE IntermediateRoot(pathId, i - 1, u),
   to    |-> IF i = SplitFactor - 1 THEN PathRoot(pathId, u) ELSE IntermediateRoot(pathId, i, u),
   part  |-> i,
   index |-> IndexWire(i, indexLeaf),
   user  |-> indexLeaf[1],
   path  |-> SplitPath(path, i)]

\* get_previous_root_from_update_idx
PreviousRoot(u) == IF u = 0 THEN InitialRoot ELSE PathRoot(1, u - 1)

Next16(counter) == (counter + 1) % size.counterMod

\* Mutant of UpdateSubcircuits: the new path starts from the old leaf, too.
UpdateFromOldLeaf(u, up) ==
  LET leaf1 == <<up.user, up.counter, up.key1>>
      leaf2 == <<up.user, Next16(up.counter), up.key2>>
      old(i) == ComputePath(u, 0, LeafHashWire(leaf1), i, leaf1, up.path)
      new(i) == ComputePath(u, 1, LeafHashWire(leaf1), i, leaf1, up.path)
  IN  [k \in 1 .. SplitFactor |-> <<old(k - 1)>>]
        \o <<<<Equality(PathRoot(0, u), PreviousRoot(u)), HashLeaf(leaf2), new(0)>>>>
        \o [k \in 1 .. SplitFactor - 1 |-> <<new(k)>>]

UpdateSubcircuits(u, up) ==
  LET leaf1 == <<up.user, up.counter, up.key1>>
      leaf2 == <<up.user, Next16(up.counter), up.key2>>
      old(i) == ComputePath(u, 0, LeafHashWire(leaf1), i, leaf1, up.path)
      new(i) == ComputePath(u, 1, LeafHashWire(leaf2), i, leaf1, up.path)
  IN  [k \in 1 .. SplitFactor |-> <<old(k - 1)>>]
        \o <<<<Equality(PathRoot(0, u), PreviousRoot(u)), HashLeaf(leaf2), new(0)>>>>
        \o [k \in 1 .. SplitFactor - 1 |-> <<new(k)>>]

AppendSubcircuits(u, up) ==
  LET leaf == <<up.user, 0, up.key>>
      old(i) == ComputePath(u, 0, NullLeafWire, i, leaf, up.path)
      new(i) == ComputePath(u, 1, LeafHashWire(leaf), i, leaf, up.path)
  IN  <<<<HashLeaf(leaf), GetIndex(leaf), old(0)>>>>
        \o [k \in 1 .. SplitFactor - 2 |-> <<old(k)>>]
        \o <<<<old(SplitFactor - 1), Equality(PathRoot(0, u), PreviousRoot(u))>>>>
        \o [k \in 1 .. SplitFactor |-> <<new(k - 1)>>]

\* Six paddings, the public parameters, the updates, and the check of the final
\* root.
VkdUpdateToSubcircuit(ups) ==
  [k \in 1 .. 6 |-> <<Padding>>] \o <<<<WritePublicParameter>>>>
    \o FlattenSeq([k \in DOMAIN ups |->
         IF ups[k].kind = "append" THEN AppendSubcircuits(k - 1, ups[k])
         ELSE UpdateSubcircuits(k - 1, ups[k])])
    \o <<<<Equality(FinalRoot, PreviousRoot(Len(ups)))>>>>

-----------------------------------------------------------------------------
(* Proving keys.                                                            *)

UniqueSubcircuits == <<0, 6, 7, 8, 10, 19, NumSubcircuits - 1>>

\* get_type
Types(i) == [k \in DOMAIN subcircuits[i + 1] |-> subcircuits[i + 1][k].type]

\* Mutant of RepresentativeSubcircuit: the last part of a path is like the others.
RepresentativePathsAlike(i) ==
  CASE Types(i) = <<"padding">>                                 -> 0
    [] Types(i) = <<"write pp">>                                -> 6
    [] Types(i) = <<"hash leaf", "get index", "compute path">>  -> 7
    [] Types(i)[1] = "compute path"                             -> 8
    [] Types(i) = <<"equality", "hash leaf", "compute path">>   -> 19
    [] Types(i) = <<"equality">>                                -> NumSubcircuits - 1

RepresentativeSubcircuit(i) ==
  CASE Types(i) = <<"padding">>                                 -> 0
    [] Types(i) = <<"write pp">>                                -> 6
    [] Types(i) = <<"hash leaf", "get index", "compute path">>  -> 7
    [] Types(i) = <<"compute path">>                            -> 8
    [] Types(i) = <<"compute path", "equality">>                -> 10
    [] Types(i) = <<"equality", "hash leaf", "compute path">>   -> 19
    [] Types(i) = <<"equality">>                                -> NumSubcircuits - 1

\* What tells the constraint systems of two subcircuits apart: the primitives,
\* and what the wrapper adds at the first and at the last subcircuit.
Shape(i) == [types |-> Types(i), first |-> i = 0, last |-> i = NumSubcircuits - 1]

-----------------------------------------------------------------------------
(* The trace.                                                               *)

FinalRootHash == Root(leaves)

Get(w) == [op |-> "get", wire |-> w, val |-> None]
Set(w, v) == [op |-> "set", wire |-> w, val |-> v]

\* Part i of a user's index as a field element: out of the hash's bytes, and in the
\* circuit out of its bits.
IndexPart(u, i) == (Index[u] \div 2^(i * PathLength)) % 2^PathLength
IndexPartVar(u, i) ==
  LET bits == SplitPath([k \in 1 .. Depth |-> Bit(Index[u], k)], i)
  IN  FoldLeft(LAMBDA n, k : n + bits[k] * 2^(k - 1), 0, [k \in 1 .. PathLength |-> k])

SetPublicParameters ==
  <<Set(InitialRoot, initialRoot), Set(FinalRoot, FinalRootHash), Set(NullLeafWire, NullLeaf)>>
SetLeafHash(leaf) == <<Set(LeafHashWire(leaf), LeafHash(leaf))>>

\* The operations of one primitive in generate_constraints, when the first two
\* values it gets are v1 and v2.
Operations(p, v1, v2) ==
  CASE p.type = "equality"     -> <<Get(p.addr1), Get(p.addr2)>>
    [] p.type = "compute path" -> <<Get(p.from), Get(p.index),
                                    Set(p.to, ComputeRootVar(v1, p.path, v2))>>
    [] p.type = "get index"    -> [k \in 1 .. SplitFactor |->
         Set(IndexWire(k - 1, p.leaf), IndexPartVar(p.leaf[1], k - 1))]
    [] p.type = "hash leaf"    -> SetLeafHash(p.leaf)
    [] p.type = "write pp"     -> SetPublicParameters
    [] p.type = "padding"      -> <<>>

\* Mutant of SetupOperations: the sides of an equality change places.
SetupEqualitySwapped(p, ws) ==
  CASE p.type = "equality"     -> <<Get(p.addr2), Get(p.addr1)>>
    [] p.type = "compute path" ->
         <<Get(p.from), Get(p.index),
           Set(p.to, ComputeRoot(ws[p.from], p.path,
                                 SplitPath(BitVector(Index[p.user], Depth), p.part)))>>
    [] p.type = "get index"    -> [k \in 1 .. SplitFactor |->
         Set(IndexWire(k - 1, p.leaf), IndexPart(p.leaf[1], k - 1))]
    [] p.type = "hash leaf"    -> SetLeafHash(p.leaf)
    [] p.type = "write pp"     -> SetPublicParameters
    [] p.type = "padding"      -> <<>>

\* Its operations in get_portal_subtraces, on wires ws: the root is computed
\* natively, from the index's bits.
SetupOperations(p, ws) ==
  CASE p.type = "equality"     -> <<Get(p.addr1), Get(p.addr2)>>
    [] p.type = "compute path" ->
         <<Get(p.from), Get(p.index),
           Set(p.to, IF p.from \in DOMAIN ws
                     THEN ComputeRoot(ws[p.from], p.path,
                                      SplitPath(BitVector(Index[p.user], Depth), p.part))
                     ELSE None)>>
    [] p.type = "get index"    -> [k \in 1 .. SplitFactor |->
         Set(IndexWire(k - 1, p.leaf), IndexPart(p.leaf[1], k - 1))]
    [] p.type = "hash leaf"    -> SetLeafHash(p.leaf)
    [] p.type = "write pp"     -> SetPublicParameters
    [] p.type = "padding"      -> <<>>

\* One operation on the SetupRomPortalManager m: a get of an unset wire and a
\* second set of one panic.
Apply(m, o) ==
  IF m = None \/ (o.op = "get") # (o.wire \in DOMAIN m.wires) THEN None
  ELSE LET after == IF o.op = "get" THEN m.wires
                    ELSE [w \in DOMAIN m.wires \cup {o.wire} |->
                            IF w = o.wire THEN o.val ELSE m.wires[w]]
       IN  [wires |-> after,
            subtrace |-> Append(m.subtrace, [wire |-> o.wire, val |-> after[o.wire]])]

ApplyPrimitive(m, p) ==
  IF m = None THEN None ELSE FoldLeft(Apply, m, SetupOperations(p, m.wires))

-----------------------------------------------------------------------------
(* random, one update at a time.                                            *)

Init ==
  /\ size \in Sizes /\ phase = "random"
  /\ leaves = [u \in {Genesis, User} |-> IF u = Genesis THEN <<u, 0, 0>> ELSE None]
  /\ users = [u \in {Genesis, User} |-> IF u = Genesis THEN <<0, 0>> ELSE None]
  /\ initialRoot = Root(leaves) /\ roots = <<initialRoot>>
  /\ updates = <<>> /\ subcircuits = <<>>
  /\ pks = <<>>
  /\ wires = [w \in {} |-> None] /\ subtraces = <<>>
  /\ proofs = [i \in Subcircuit |-> None]

\* num_of_updates, after the one append.
NumUpdates == (NumSubcircuits - 8) \div 8 - 1

\* The rest of an iteration: the user's new leaf goes into the tree and the update
\* into the vector, which is cut into subcircuits when it is full.
Record(counter, key, up) ==
  /\ users' = [users EXCEPT ![User] = <<counter, key>>]
  /\ leaves' = [leaves EXCEPT ![User] = <<User, counter, key>>]
  /\ roots' = Append(roots, Root(leaves'))
  /\ updates' = Append(updates, up)
  /\ IF Len(updates') = NumUpdates + 1
     THEN subcircuits' = VkdUpdateToSubcircuit(updates') /\ phase' = "keys"
     ELSE UNCHANGED <<subcircuits, phase>>
  /\ UNCHANGED <<size, initialRoot, pks, wires, subtraces, proofs>>

RandomAppend ==
  /\ phase = "random" /\ updates = <<>>
  /\ Record(0, 0, [kind |-> "append", user |-> User, key |-> 0,
                   path |-> LookupPath(leaves, User)])

\* Mutant of RandomUpdate: the old key is read after the user has the new one.
RandomUpdateLate ==
  /\ phase = "random" /\ updates # <<>>
  /\ LET counter == users[User][1]
         key2 == (Len(updates) - 1) % KeyMod
     IN  Record(Next16(counter), key2,
                [kind |-> "update", user |-> User, counter |-> counter, key1 |-> key2,
                 path |-> LookupPath(leaves, User), key2 |-> key2])

RandomUpdate ==
  /\ phase = "random" /\ updates # <<>>
  /\ LET counter == users[User][1]
         key1 == users[User][2]
         key2 == (Len(updates) - 1) % KeyMod
     IN  Record(Next16(counter), key2,
                [kind |-> "update", user |-> User, counter |-> counter, key1 |-> key1,
                 path |-> LookupPath(leaves, User), key2 |-> key2])

-----------------------------------------------------------------------------
(* The proving session, as the circuit takes part in it.                    *)

\* gen_pk, for the unique subcircuits in turn.
GenPk ==
  /\ phase = "keys"
  /\ LET i == UniqueSubcircuits[Len(pks) + 1]
     IN  pks' = Append(pks, [idx |-> i, shape |-> Shape(i)])
  /\ phase' = IF Len(pks') = Len(UniqueSubcircuits) THEN "trace" ELSE "keys"
  /\ UNCHANGED <<size, circVars, wires, subtraces, proofs>>

\* One round of the loop of get_portal_subtraces.
SetupSubcircuit ==
  /\ phase = "trace"
  /\ LET i == Len(subtraces)
         m == FoldLeft(ApplyPrimitive, [wires |-> wires, subtrace |-> <<>>], subcircuits[i + 1])
     IN  IF m = None
         THEN phase' = "panicked" /\ UNCHANGED <<wires, subtraces>>
         ELSE /\ wires' = m.wires /\ subtraces' = Append(subtraces, m.subtrace)
              /\ phase' = IF i = NumSubcircuits - 1 THEN "prove" ELSE "trace"
  /\ UNCHANGED <<size, circVars, pks, proofs>>

\* get_pk: the key made for the representative, or a panic.
Pk(i) ==
  LET ks == {k \in DOMAIN pks : pks[k].idx = RepresentativeSubcircuit(i)}
  IN  IF ks = {} THEN None ELSE pks[CHOOSE k \in ks : TRUE].shape

\* The constraints of primitive p over what check c has left of subtrace tr: gets
\* return the entries in turn, sets and an equality compare values.
CheckPrimitive(tr, c, p) ==
  LET val(k) == IF c.at + k \in DOMAIN tr THEN tr[c.at + k].val ELSE None
      ops == Operations(p, val(1), val(2))
  IN  [at |-> c.at + Len(ops),
       satisfied |-> /\ c.satisfied
                     /\ \A k \in DOMAIN ops : ops[k].op = "set" => ops[k].val = val(k)
                     /\ p.type = "equality" => val(1) = val(2),
       met |-> c.met /\ \A k \in DOMAIN ops :
                          c.at + k \in DOMAIN tr /\ ops[k].wire = tr[c.at + k].wire]

\* A worker proves subcircuit i.  Its circuit is one it made itself, by random,
\* which always makes the same, with the subcircuit's primitives out of the
\* request.  An entry too few panics; an entry too many is one the permutation
\* check finds missing.
Prove(i) ==
  /\ phase = "prove" /\ proofs[i] = None
  /\ LET share == NumSubcircuits \div NumWorkers
     IN  \A j \in Subcircuit : j \div share = i \div share /\ j < i => proofs[j] # None
  /\ LET tr == subtraces[i + 1]
         check(c, p) == CheckPrimitive(tr, c, p)
         end == FoldLeft(check, [at |-> 0, satisfied |-> TRUE, met |-> TRUE], subcircuits[i + 1])
     IN  IF Pk(i) = None \/ end.at > Len(tr)
         THEN phase' = "panicked" /\ UNCHANGED proofs
         ELSE /\ proofs' = [proofs EXCEPT ![i] =
                   [keyFits   |-> Pk(i) = Shape(i),
                    satisfied |-> end.satisfied /\ end.at = Len(tr),
                    met       |-> end.met]]
              /\ UNCHANGED phase
  /\ UNCHANGED <<size, circVars, pks, wires, subtraces>>

Terminated ==
  /\ phase = "panicked" \/ \A i \in Subcircuit : proofs[i] # None
  /\ UNCHANGED vars

Next ==
  \/ RandomAppend \/ RandomUpdate
  \/ GenPk \/ SetupSubcircuit \/ (\E i \in Subcircuit : Prove(i))
  \/ Terminated

Spec == Init /\ [][Next]_vars

-----------------------------------------------------------------------------
(* Properties.                                                              *)

\* The leaves the updates put into the tree, in order.  The counter wraps around
\* and keys repeat, so a history long enough has one leaf twice.
NewLeaves ==
  [k \in DOMAIN updates |->
     IF updates[k].kind = "append" THEN <<updates[k].user, 0, updates[k].key>>
     ELSE <<updates[k].user, Next16(updates[k].counter), updates[k].key2>>]
LeafRepeats == \E j, k \in DOMAIN updates : j < k /\ NewLeaves[j] = NewLeaves[k]

\* The two accounts of the trace agree: whatever random makes goes through
\* vkd_update_to_subcircuit and get_portal_subtraces with no wire got before it is
\* set, and through generate_constraints with the entries each subcircuit takes,
\* each of the wire it names.  The constraints hold of them: the root of a path
\* out of field elements' bits is the native one, and the roots that equality
\* compares are equal.  A wire is set again, and the circuit panics, exactly when
\* a leaf comes a second time.
ProofsValid ==
  /\ phase = "panicked" => LeafRepeats
  /\ phase = "prove" => ~LeafRepeats
  /\ \A i \in Subcircuit : proofs[i] # None => proofs[i].satisfied /\ proofs[i].met

\* The native verify of the updates: from the initial root every update's path
\* leads to the root so far, and the last one to the tree's.
Verify ==
  LET even(up) == BitVector(Index[up.user], Depth)
      before(up) == ComputeRoot(IF up.kind = "append" THEN NullLeaf
                                ELSE LeafHash(<<up.user, up.counter, up.key1>>), up.path, even(up))
      after(up) == ComputeRoot(IF up.kind = "append" THEN LeafHash(<<up.user, 0, up.key>>)
                               ELSE LeafHash(<<up.user, Next16(up.counter), up.key2>>),
                               up.path, even(up))
      step(s, up) == [ok |-> s.ok /\ before(up) = s.root, root |-> after(up)]
      end == FoldLeft(step, [ok |-> TRUE, root |-> initialRoot], updates)
  IN  end.ok /\ end.root = FinalRootHash

\* verify accepts what random made, after every update.
VerifyAccepts == Verify

\* A few fixed subcircuits stand for all, however many there are: a subcircuit is
\* proved with a key made for its constraints, all but the paddings after the
\* first, which representative_subcircuit maps to the first, whose constraints
\* have the checks of the first leaf besides.
KeysFitButPaddings ==
  \A i \in Subcircuit : proofs[i] # None => (proofs[i].keyFits <=> i \notin 1 .. 5)

-----------------------------------------------------------------------------
(* The circuit implements a key directory.                                  *)

\* The tree of a directory.
RootOf(d) == Root([u \in {Genesis, User} |-> IF d[u] = None THEN None ELSE <<u, d[u][1], d[u][2]>>])

\* The updates the roots of whose paths are both on wires, in order.
Linked == SelectSeq([k \in DOMAIN updates |-> k - 1], LAMBDA u : PathRoot(1, u) \in DOMAIN wires)

Directory == INSTANCE KeyDirectory WITH
  Users     <- {Genesis, User},
  Keys      <- 0 .. KeyMod - 1,
  Digest    <- RootOf,
  dir       <- users,
  history   <- roots,
  links     <- [n \in DOMAIN Linked |->
                  <<wires[PathRoot(0, Linked[n])], wires[PathRoot(1, Linked[n])]>>],
  certified <- \A i \in Subcircuit : proofs[i] # None /\ proofs[i].satisfied

NoWrap == NumUpdates < size.counterMod

\* As long as no counter wraps around, random, the wires of get_portal_subtraces
\* and the workers' proofs make a key directory: versions count up, the tree's
\* root is the digest of the map of users, and the roots of the two paths of every
\* update link the history without a gap.
ImplementsDirectory ==
  /\ NoWrap => Directory!Init
  /\ [][NoWrap => Directory!Next \/ UNCHANGED Directory!vars]_vars
=============================================================================
