------------------------------ MODULE DbCircuits ------------------------------
(***************************************************************************)
(* The two database circuits, from their keys to their proofs:             *)
(* single_tuple_filter_circuit.rs, a row a subcircuit, compares a date of  *)
(* each row with a given one; test_circuit.rs merges segments of the rows, *)
(* a size of segments a subcircuit.                                        *)
(*                                                                         *)
(* ProvingKeys::new makes a circuit of the same size of its own, traces it *)
(* and makes a key for each unique subcircuit; the coordinator traces the  *)
(* circuit to prove; a worker makes an empty circuit, fills in what it is  *)
(* sent of its subcircuit, and proves it.  A number of rows is one of the  *)
(* circuit's parameters, the rows are not.                                 *)
(***************************************************************************)
EXTENDS Integers, Sequences, FiniteSets, SequencesExt

CONSTANTS
  Circuits,     \* [kind |-> "filter" or "sort", rows |-> a sequence of dates,
                \*  right |-> the date the filter compares with]
  One, Twelve,  \* the two dates in the code
  NumWorkers    \* divides the rows of a filter

ASSUME ParamsAssumption ==
  /\ One \in Nat /\ Twelve \in Nat /\ One < Twelve /\ NumWorkers \in Nat \ {0}
  /\ \A c \in Circuits :
       /\ c.kind \in {"filter", "sort"} /\ Len(c.rows) > 1 /\ c.right \in Nat
       /\ \A k \in DOMAIN c.rows : c.rows[k] \in Nat
       /\ c.kind = "filter" => Len(c.rows) % NumWorkers = 0

VARIABLES
  circuit,      \* an element of Circuits
  phase,        \* "generator", "keys", "trace", "prove" or "panicked"
  wires,        \* var_map of the SetupRomPortalManager
  subtraces,
  pks,          \* the shape a key was generated for, by subcircuit
  proofs        \* what the workers have proved, by subcircuit

vars == <<circuit, phase, wires, subtraces, pks, proofs>>

IsFilter == circuit.kind = "filter"
NumRows == Len(circuit.rows)

\* ZkDbSqlCircuit::new, of this size: what the keys are made from and what a
\* worker starts with.
New ==
  [circuit EXCEPT !.rows = [k \in 1 .. NumRows |-> IF IsFilter THEN One ELSE Twelve],
                  !.right = Twelve]

-----------------------------------------------------------------------------
(* The layers of the merge sort.                                            *)

\* Segments are halved, rounding up, until one row is left.
NumLayers ==
  LET layers[n \in 1 .. NumRows] == IF n = 1 THEN 0 ELSE 1 + layers[(n + 1) \div 2]
  IN  layers[NumRows]

\* Layer 0 has the largest segments.
SegmentSize(layer) == 2^(NumLayers - layer - 1)

\* Mutant of NumPairs: a segment without a neighbour is half a pair.
NumPairsUp(layer) == (((NumRows + SegmentSize(layer) - 1) \div SegmentSize(layer)) + 1) \div 2

NumPairs(layer) == ((NumRows + SegmentSize(layer) - 1) \div SegmentSize(layer)) \div 2

LeftStart(layer, pair) == pair * 2 * SegmentSize(layer)
RightStart(layer, pair) == LeftStart(layer, pair) + SegmentSize(layer)
RightEnd(layer, pair) ==
  LET end == RightStart(layer, pair) + SegmentSize(layer)
  IN  IF end < NumRows THEN end ELSE NumRows

\* sorted_indices is 0, 1, ... throughout, so that a segment's indices are its
\* positions.
Rows(first, end) == [k \in 1 .. end - first |-> first + k - 1]
LeftRows(layer, pair) == Rows(LeftStart(layer, pair), RightStart(layer, pair))
RightRows(layer, pair) == Rows(RightStart(layer, pair), RightEnd(layer, pair))

Key(c, row) == c.rows[row + 1]

\* The merge of two sequences of rows; leftOfTies says which of two equal keys is
\* first.
Merge(c, left, right, leftOfTies) ==
  LET last(s, n) == SubSeq(s, Len(s) - n + 1, Len(s))
      \* of the last i of left and the last j of right
      m[i \in 0 .. Len(left), j \in 0 .. Len(right)] ==
        IF i = 0 \/ j = 0 THEN last(left, i) \o last(right, j)
        ELSE LET l == last(left, i)[1]
                 r == last(right, j)[1]
             IN  IF Key(c, l) < Key(c, r) \/ (leftOfTies /\ Key(c, l) = Key(c, r))
                 THEN <<l>> \o m[i - 1, j] ELSE <<r>> \o m[i, j - 1]
  IN  m[Len(left), Len(right)]

\* Mutant of MergeNative: compares as the constraints do.
MergeNativeStrict(c, left, right) == Merge(c, left, right, FALSE)

\* get_portal_subtraces takes the left of two equal keys, generate_constraints the
\* right one.
MergeNative(c, left, right) == Merge(c, left, right, TRUE)
MergeVar(c, left, right) == Merge(c, left, right, FALSE)

-----------------------------------------------------------------------------
(* Subcircuits and what they set.                                           *)

NumSubcircuits == IF IsFilter THEN NumRows ELSE NumLayers
Subcircuit == 0 .. NumSubcircuits - 1

UniqueSubcircuits == IF IsFilter THEN <<0, 1, 3>> ELSE [k \in 1 .. NumLayers |-> k - 1]

\* Mutant of RepresentativeSubcircuit: the last row is like the others.
RepresentativeLastAlike(i) == IF ~IsFilter THEN i ELSE IF i = 0 THEN 0 ELSE 1

RepresentativeSubcircuit(i) ==
  CASE ~IsFilter                                  -> i
    [] IsFilter /\ i = 0                          -> 0
    [] IsFilter /\ i # 0 /\ i = NumRows - 1       -> 3
    [] IsFilter /\ i # 0 /\ i # NumRows - 1       -> 1

Set(w, v) == [wire |-> w, val |-> v]

ComRes(row) == <<"com_res", row>>

\* Mutant of MergedIndices: a name of its own in each layer.
MergedIndicesOfLayer(layer, pair, k) == <<"merged_indices", layer, pair, k>>

MergedIndices(layer, pair, k) == <<"merged_indices", pair, k>>

\* What a layer sets: the merged indices of its pairs, natively or by the constraints.
SetMerged(c, layer, native) ==
  LET merged(left, right) == IF native THEN MergeNative(c, left, right) ELSE MergeVar(c, left, right)
      pair(p) == merged(LeftRows(layer, p), RightRows(layer, p))
  IN  FlattenSeq([p \in 1 .. NumPairs(layer) |->
        [k \in 1 .. Len(pair(p - 1)) |->
           Set(MergedIndices(layer, p - 1, k - 1), pair(p - 1)[k])]])

\* What the loop of get_portal_subtraces sets for subcircuit i of circuit c.
SetupOperations(c, i) ==
  IF IsFilter THEN <<Set(ComRes(i), IF Key(c, i) <= c.right THEN 1 ELSE 0)>>
  ELSE SetMerged(c, i, TRUE)

\* Mutant of Operations: the comparison is strict.
OperationsStrict(c, i) ==
  IF IsFilter THEN <<Set(ComRes(i), IF Key(c, i) < c.right THEN 1 ELSE 0)>>
  ELSE SetMerged(c, i, FALSE)

\* What generate_constraints sets.  is_cmp for Less with equality compares with the
\* right side and one.
Operations(c, i) ==
  IF IsFilter THEN <<Set(ComRes(i), IF Key(c, i) < c.right + 1 THEN 1 ELSE 0)>>
  ELSE SetMerged(c, i, FALSE)

\* What tells the constraints of two subcircuits of c apart: what the wrapper adds
\* to the first and to the last, and the filter's date, a constant in them.
Shape(c, i) == [first |-> i = 0, last |-> i = NumSubcircuits - 1, constant |-> c.right]

-----------------------------------------------------------------------------
(* A session.                                                               *)

NoWires == [w \in {} |-> 0]

Init ==
  /\ circuit \in Circuits /\ phase = "generator"
  /\ wires = NoWires /\ subtraces = <<>>
  /\ pks = [i \in {} |-> 0] /\ proofs = [i \in {} |-> 0]

\* The set-up portal manager panics when a wire is set a second time.
Apply(m, o) ==
  IF m.panicked \/ o.wire \in DOMAIN m.wires THEN [m EXCEPT !.panicked = TRUE]
  ELSE [wires |-> [w \in DOMAIN m.wires \cup {o.wire} |->
                     IF w = o.wire THEN o.val ELSE m.wires[w]],
        subtrace |-> Append(m.subtrace, o), panicked |-> FALSE]

\* One round of get_portal_subtraces, of the key generator's circuit and then of
\* the one to prove.
SetupSubcircuit ==
  /\ phase \in {"generator", "trace"}
  /\ LET i == Len(subtraces)
         c == IF phase = "generator" THEN New ELSE circuit
         m == FoldLeft(Apply, [wires |-> wires, subtrace |-> <<>>, panicked |-> FALSE],
                       SetupOperations(c, i))
     IN  IF m.panicked THEN phase' = "panicked" /\ UNCHANGED <<wires, subtraces>>
         ELSE /\ wires' = m.wires /\ subtraces' = Append(subtraces, m.subtrace)
              /\ phase' = IF i < NumSubcircuits - 1 THEN phase
                          ELSE IF phase = "generator" THEN "keys" ELSE "prove"
  /\ UNCHANGED <<circuit, pks, proofs>>

\* gen_pk for the next unique subcircuit.  It takes the subcircuit's subtrace; and
\* there are no values in key generation, where a merge asks for the result of each
\* comparison.
GenPk ==
  /\ phase = "keys" /\ Cardinality(DOMAIN pks) < Len(UniqueSubcircuits)
  /\ LET i == UniqueSubcircuits[Cardinality(DOMAIN pks) + 1]
         compares == ~IsFilter /\ \E p \in 0 .. NumPairs(i) - 1 :
                       LeftRows(i, p) # <<>> /\ RightRows(i, p) # <<>>
     IN  IF i >= Len(subtraces) \/ compares
         THEN phase' = "panicked" /\ UNCHANGED pks
         ELSE /\ pks' = [k \in DOMAIN pks \cup {i} |-> IF k = i THEN Shape(New, i) ELSE pks[k]]
              /\ UNCHANGED phase
  /\ UNCHANGED <<circuit, wires, subtraces, proofs>>

\* The coordinator begins to trace its own circuit.
StartTrace ==
  /\ phase = "keys" /\ Cardinality(DOMAIN pks) = Len(UniqueSubcircuits)
  /\ phase' = "trace"
  /\ wires' = NoWires /\ subtraces' = <<>>
  /\ UNCHANGED <<circuit, pks, proofs>>

\* The circuit of the filter's worker: a new one, with its row and the date out of
\* the request.
WorkerCircuit(i) == [New EXCEPT !.rows[i + 1] = Key(circuit, i), !.right = circuit.right]

\* A worker proves subcircuit i, after those before it of the same worker.  A prover's
\* portal manager takes the entries in turn and looks at no name.
Prove(i) ==
  /\ phase = "prove" /\ i \notin DOMAIN proofs
  /\ LET share == NumSubcircuits \div NumWorkers
     IN  \A j \in Subcircuit : j \div share = i \div share /\ j < i => j \in DOMAIN proofs
  /\ LET ops == Operations(WorkerCircuit(i), i)
         tr == subtraces[i + 1]
         proof == [keyFits   |-> pks[RepresentativeSubcircuit(i)] = Shape(WorkerCircuit(i), i),
                   satisfied |-> /\ Len(ops) = Len(tr)
                                 /\ \A k \in DOMAIN ops : ops[k].val = tr[k].val,
                   met       |-> \A k \in DOMAIN ops \cap DOMAIN tr : ops[k].wire = tr[k].wire]
     IN  proofs' = [j \in DOMAIN proofs \cup {i} |-> IF j = i THEN proof ELSE proofs[j]]
  /\ UNCHANGED <<circuit, phase, wires, subtraces, pks>>

Terminated ==
  /\ phase = "panicked" \/ (phase = "prove" /\ DOMAIN proofs = Subcircuit)
  /\ UNCHANGED vars

Next ==
  \/ SetupSubcircuit \/ GenPk \/ StartTrace \/ (\E i \in Subcircuit : Prove(i))
  \/ Terminated

Spec == Init /\ [][Next]_vars

-----------------------------------------------------------------------------
(* Properties.                                                              *)

\* Of every row the comparison in the constraints is the one in the native trace,
\* on either side of the date and on it, from a worker's circuit that has only its
\* own row; and keys, trace and proofs of a filter panic only with fewer rows than
\* the fixed unique subcircuits are numbered for.
FilterProofsValid ==
  IsFilter =>
    /\ phase = "panicked" => NumRows < 4
    /\ \A i \in DOMAIN proofs : proofs[i].satisfied /\ proofs[i].met

\* A row of the filter is proved with a key made for its constraints exactly when
\* the date is the one the keys were generated with, a constant in them and not a
\* witness, and it is not the last row of more than four, whose permutation check
\* the key of row 3 is without.
FilterKeysFit ==
  IsFilter => \A i \in DOMAIN proofs :
    proofs[i].keyFits <=> circuit.right = Twelve /\ (i = NumRows - 1 => NumRows = 4)

\* No session of the merge sort comes to its first request: a second layer sets the
\* first layer's wires again, and of a single layer no key can be generated.
SortNeverStarts ==
  ~IsFilter =>
    /\ phase \in {"generator", "keys", "panicked"} /\ pks = [i \in {} |-> 0]
    /\ phase = "keys" => NumLayers = 1

Sorted(c, rows) == \A k \in 1 .. Len(rows) - 1 : Key(c, rows[k]) <= Key(c, rows[k + 1])

\* Every pair of every layer has a right half, so that its length does not wrap
\* around; of sorted halves the merge is sorted, stable and complete; and the
\* native merge and the constraints' agree on sorted halves exactly when they
\* have no key in common.
MergesAgreeButTies ==
  ~IsFilter => \A layer \in Subcircuit : \A pair \in 0 .. NumPairs(layer) - 1 :
    LET left == LeftRows(layer, pair)
        right == RightRows(layer, pair)
        merged == MergeNative(circuit, left, right)
        keys(rows) == {Key(circuit, rows[k]) : k \in DOMAIN rows}
    IN  /\ RightStart(layer, pair) < RightEnd(layer, pair)
        /\ Len(merged) = Len(left) + Len(right)
        /\ ToSet(merged) = ToSet(left) \cup ToSet(right)
        /\ Sorted(circuit, left) /\ Sorted(circuit, right) =>
             /\ \A j, k \in DOMAIN merged : j < k =>
                  \/ Key(circuit, merged[j]) < Key(circuit, merged[k])
                  \/ Key(circuit, merged[j]) = Key(circuit, merged[k]) /\ merged[j] < merged[k]
             /\ MergeVar(circuit, left, right) = merged <=> keys(left) \cap keys(right) = {}
=============================================================================
