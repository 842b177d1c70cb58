----------------------------- MODULE Aggregation -----------------------------
(***************************************************************************)
(* A proving session with the public inputs of its proofs and their        *)
(* aggregation (aggregation.rs, and coordinator.rs from the execution tree *)
(* to the aggregate).                                                      *)
(*                                                                         *)
(* The session itself is ProofSession, step by step; this module adds what *)
(* the steps do to the public inputs: the challenges and the root of the   *)
(* execution tree, which the workers take from their requests and the      *)
(* aggregator from its own state, and which reach the aggregator through   *)
(* the columns of the subcircuits' proving keys.                           *)
(*                                                                         *)
(* A group element is told by what it is made of: a sum of key columns     *)
(* times inputs is the function from the columns to the inputs.            *)
(***************************************************************************)
EXTENDS ProofSession, Integers, Sequences

CONSTANTS
  Representative,   \* whose proving key a subcircuit is proved with
  Faults            \* what may be wrong with the keys and the assignments

ASSUME SubcircuitAssumption ==
  /\ 0 \in Subcircuit /\ Subcircuit \subseteq Nat
  /\ \A i \in Subcircuit : i > 0 => i - 1 \in Subcircuit
  /\ Representative \in [Subcircuit -> Subcircuit]

\* refused[s]: the subcircuits at which stage s panics in the prover or in the
\* circuit's constraints, those whose key is one for another number of witnesses
\* or of constraints and, in a debug build, those whose assignment does not
\* satisfy.  misfit: those that the prover takes, but not the verifier, as their
\* key is one for other constraints.
ASSUME FaultsAssumption ==
  Faults \subseteq [misfit : SUBSET Subcircuit, refused : [{0, 1} -> SUBSET Subcircuit]]

VARIABLES
  memType,    \* P::MEM_TYPE
  debug,      \* is the build one with debug_assert
  faults,     \* what is wrong with this session's keys and assignments
  aggKey,     \* AggProvingKey
  pubs,       \* the public inputs each proof was made under
  inputs,     \* public_inputs of FinalAggState
  folded,     \* prepared_input, once the proofs are aggregated
  panicked

aggVars == <<com, super, proof, aggregate, memType, debug, faults, aggKey, pubs, inputs, folded,
             panicked>>
fixed   == <<memType, debug, faults>>

AggInit ==
  /\ Init
  /\ memType \in {"Rom", "Ram"} /\ debug \in BOOLEAN /\ faults \in Faults
  /\ aggKey = None /\ inputs = None /\ folded = None /\ panicked = FALSE
  /\ pubs = [i \in Subcircuit |-> None]

-----------------------------------------------------------------------------
(* Keys.                                                                    *)

\* gamma_abc_g[k] of a subcircuit's verifying key.
Column(r, k) == [key |-> r, col |-> k]

\* Mutant of NewAggKey: the keys of the subcircuits themselves.
NewAggKeyOwn ==
  /\ aggKey = None
  /\ aggKey' = [i \in Subcircuit |-> [s |-> [k \in 0 .. 3 |-> Column(i, k)], rest |-> i]]
  /\ UNCHANGED <<vars, fixed, pubs, inputs, folded, panicked>>

\* AggProvingKey::new: the first four columns of every key, and the elements
\* (h, the deltas, alpha and beta) that are paired with the rest of a proof.
NewAggKey ==
  /\ aggKey = None
  /\ aggKey' = [i \in Subcircuit |->
                  [s    |-> [k \in 0 .. 3 |-> Column(Representative[i], k)],
                   rest |-> Representative[i]]]
  /\ UNCHANGED <<vars, fixed, pubs, inputs, folded, panicked>>

-----------------------------------------------------------------------------
(* The session.                                                             *)

\* process_stage0_request.
Stage0(i) ==
  /\ ~panicked /\ aggKey # None /\ com[i] = None
  /\ IF i \in faults.refused[0]
     THEN panicked' = TRUE /\ UNCHANGED vars
     ELSE Commit(i) /\ UNCHANGED panicked
  /\ UNCHANGED <<fixed, aggKey, pubs, inputs, folded>>

\* process_stage0_responses, with tipp_pk of the aggregation key.
StartStage1 ==
  /\ aggKey # None /\ FixChallenges
  /\ UNCHANGED <<fixed, aggKey, pubs, inputs, folded, panicked>>

\* RunningEvaluation::new: a challenge is the super-commitment hashed with a
\* string of its own.
Challenge(label) == [label |-> label, com |-> super]
Challenges ==
  IF memType = "Rom"
  THEN <<Challenge("entry_chal"), Challenge("tr_chal")>>
  ELSE <<Challenge("entry_chal_1"), Challenge("entry_chal_2"), Challenge("entry_chal_3"),
         Challenge("tr_chal")>>

\* The tree hashes what was evaluated under the challenges.
Root == [label |-> "root", com |-> super]

\* The challenges in a leaf of the tree, every one a clone of the first, and in
\* the padding leaf, which has none.
LeafChallenges(i) == Challenges
NoChallenges == <<>>

\* Mutant of RequestChallenges: the padding leaf as it is.
RequestChallengesPadding(i) == IF i > 0 THEN LeafChallenges(i - 1) ELSE NoChallenges

\* gen_request: a request holds the leaf before, the first one the padding leaf
\* with the challenges copied from leaf 0.
RequestChallenges(i) == IF i > 0 THEN LeafChallenges(i - 1) ELSE LeafChallenges(0)

\* process_stage1_request: the public inputs, challenges first, are allocated in
\* the order they have in the request.
Stage1(i) ==
  /\ ~panicked /\ super # None /\ proof[i] = None
  /\ IF RequestChallenges(i) = NoChallenges \/ i \in faults.refused[1]
     THEN panicked' = TRUE /\ UNCHANGED <<vars, pubs>>
     ELSE /\ Prove(i) /\ UNCHANGED panicked
          /\ pubs' = [pubs EXCEPT ![i] = RequestChallenges(i) \o <<Root>>]
  /\ UNCHANGED <<fixed, aggKey, inputs, folded>>

IntoAggState ==
  /\ super # None /\ inputs = None
  /\ inputs' = LeafChallenges(0) \o <<Root>>
  /\ UNCHANGED <<vars, fixed, aggKey, pubs, folded, panicked>>

-----------------------------------------------------------------------------
(* The aggregate.                                                           *)

One == [label |-> "one"]

\* The sum of the columns, the first as it is, the others times the inputs.
\* prepare_inputs of the verifier has as many columns as the key.
PrepareInputs(i) ==
  [k \in 0 .. Len(pubs[i]) |->
     <<Column(Representative[i], k), IF k = 0 THEN One ELSE pubs[i][k]>>]

\* agg_subcircuit_proofs takes the columns s0 to s3 and three inputs.
PreparedInput(i) ==
  [k \in 0 .. 3 |-> <<aggKey[i].s[k], IF k = 0 THEN One ELSE inputs[k]>>]

\* The verifier's equation.  It holds for a proof made from a satisfying
\* assignment of the constraints its key was made for, if its input is the one of
\* the public inputs it was made under and it is paired with the elements of its
\* own key.
EquationHolds(i) ==
  /\ i \notin faults.misfit
  /\ PreparedInput(i) = PrepareInputs(i) /\ aggKey[i].rest = Representative[i]

\* The last assertion: the combination of the commitments opens to that of the
\* proofs, which for the ds says that super_com is the commitment to them.
DsMatch == \A i \in Subcircuit : proof[i].com = super[i]

\* gen_agg_proof.  The equations, one by one, with powers of a challenge and
\* multiplied, are debug assertions; the last two follow from the first.
AggSubcircuitProofs ==
  /\ ~panicked /\ inputs # None /\ aggregate = None
  /\ \A i \in Subcircuit : proof[i] # None
  /\ IF (debug => \A i \in Subcircuit : EquationHolds(i)) /\ DsMatch
     THEN /\ Aggregate /\ UNCHANGED panicked
          /\ folded' = [i \in Subcircuit |-> PreparedInput(i)]
     ELSE panicked' = TRUE /\ UNCHANGED <<vars, folded>>
  /\ UNCHANGED <<fixed, aggKey, pubs, inputs>>

Terminated == (aggregate # None \/ panicked) /\ UNCHANGED aggVars

AggStep ==
  \/ NewAggKey \/ StartStage1 \/ IntoAggState \/ AggSubcircuitProofs
  \/ \E i \in Subcircuit : Stage0(i) \/ Stage1(i)

AggNext == AggStep \/ Terminated

\* Every process of a session keeps running.
AggSpec == AggInit /\ [][AggNext]_aggVars /\ WF_aggVars(AggStep)

-----------------------------------------------------------------------------
(* Properties.                                                              *)

\* The aggregate folds the public inputs every one of its proofs was made under
\* into the very columns the verifier of that proof would, for ROM circuits.
\* For RAM circuits, with five inputs, it never does: agg_subcircuit_proofs
\* leaves out tr_chal and the root.
InputsFoldedButRam ==
  aggregate # None =>
    \A i \in Subcircuit :
      /\ inputs = pubs[i]
      /\ memType = "Rom" => folded[i] = PrepareInputs(i)
      /\ memType = "Ram" => folded[i] # PrepareInputs(i)

\* Every session ends with an aggregate unless it was caught: by the prover, that
\* panics where it refuses a subcircuit, or by the debug assertion that a proof
\* verifies under the aggregation key, which fails for every RAM circuit and for
\* a key of other constraints.  A release build delivers an aggregate over both.
\* No other unwrap or assertion from the keys to the aggregate fails.
DeliversUnlessCaught ==
  <>[](IF \/ \E s \in {0, 1} : faults.refused[s] # {}
          \/ debug /\ (memType = "Ram" \/ faults.misfit # {})
       THEN panicked /\ aggregate = None
       ELSE aggregate # None /\ ~panicked)
=============================================================================
