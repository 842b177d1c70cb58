-------------------------- MODULE Aggregation_proofs --------------------------
(***************************************************************************)
(* Theorems about a session, for every set of subcircuits, and about the   *)
(* aggregation built on it, for every number of subcircuits and every      *)
(* layout of their keys.                                                   *)
(***************************************************************************)
EXTENDS Aggregation, TLAPS

-----------------------------------------------------------------------------
(* ProofSession.                                                            *)

(* The inductive invariant: the super-commitment, once there, is the vector *)
(* of all the commitments, and every proof was made from it.                *)

SuperIsCom == super # None => super = com

ProofsOpen ==
  \A i \in Subcircuit :
    proof[i] # None => super # None /\ proof[i] = ProofOf(super[i], super)

AggregateIsProofs ==
  aggregate # None => aggregate = proof /\ \A i \in Subcircuit : proof[i] # None

IInv == TypeOK /\ SuperIsCom /\ ProofsOpen /\ AggregateIsProofs

\* The initial state satisfies the invariant.
LEMMA InitIInv == Init => IInv
  BY NoneAssumption DEF Init, IInv, TypeOK, SuperIsCom, ProofsOpen, AggregateIsProofs

\* A commitment is made only before the challenges are fixed.
LEMMA CommitIInv == ASSUME NEW i \in Subcircuit, IInv, Commit(i) PROVE IInv'
<1> USE DEF IInv, Commit
<1>0. super = None
  BY NoneAssumption DEF SuperIsCom, TypeOK, SuperCom
<1>1. TypeOK'             BY DEF TypeOK
<1>2. SuperIsCom'         BY <1>0 DEF SuperIsCom
<1>3. ProofsOpen'         BY <1>0 DEF ProofsOpen
<1>4. AggregateIsProofs'  BY DEF AggregateIsProofs
<1> QED BY <1>1, <1>2, <1>3, <1>4

\* Fixing the challenges binds every commitment.
LEMMA FixIInv == ASSUME IInv, FixChallenges PROVE IInv'
<1> USE DEF IInv, FixChallenges
<1>1. TypeOK'             BY DEF TypeOK, SuperCom
<1>2. SuperIsCom'         BY DEF SuperIsCom
<1>3. ProofsOpen'         BY DEF ProofsOpen
<1>4. AggregateIsProofs'  BY DEF AggregateIsProofs
<1> QED BY <1>1, <1>2, <1>3, <1>4

\* A proof opens the commitment the super-commitment holds.
LEMMA ProveIInv == ASSUME NEW i \in Subcircuit, IInv, Prove(i) PROVE IInv'
<1> USE DEF IInv, Prove
<1>0. aggregate = None
  BY DEF AggregateIsProofs
<1>1. TypeOK'
  BY <1>0 DEF TypeOK, SuperCom, Proofs, ProofOf
<1>2. SuperIsCom'         BY DEF SuperIsCom
<1>3. ProofsOpen'         BY DEF ProofsOpen, TypeOK
<1>4. AggregateIsProofs'  BY <1>0 DEF AggregateIsProofs
<1> QED BY <1>1, <1>2, <1>3, <1>4

\* The aggregate is taken from the proofs as they are.
LEMMA AggregateIInv == ASSUME IInv, Aggregate PROVE IInv'
<1> USE DEF IInv, Aggregate
<1>1. TypeOK'             BY DEF TypeOK
<1>2. SuperIsCom'         BY DEF SuperIsCom
<1>3. ProofsOpen'         BY DEF ProofsOpen
<1>4. AggregateIsProofs'  BY DEF AggregateIsProofs
<1> QED BY <1>1, <1>2, <1>3, <1>4

\* Every step of a session preserves the invariant.
LEMMA NextIInv == IInv /\ [Next]_vars => IInv'
<1> SUFFICES ASSUME IInv, [Next]_vars PROVE IInv'
  OBVIOUS
<1>1. CASE UNCHANGED vars
  BY <1>1 DEF vars, IInv, TypeOK, SuperIsCom, ProofsOpen, AggregateIsProofs
<1>2. ASSUME NEW i \in Subcircuit, Commit(i) PROVE IInv'
  BY <1>2, CommitIInv
<1>3. ASSUME NEW i \in Subcircuit, Prove(i) PROVE IInv'
  BY <1>3, ProveIInv
<1>4. CASE FixChallenges
  BY <1>4, FixIInv
<1>5. CASE Aggregate
  BY <1>5, AggregateIInv
<1> QED BY <1>1, <1>2, <1>3, <1>4, <1>5 DEF Next

\* Every reachable state of a session is well typed and consistent.
THEOREM SessionInvariant == Spec => []IInv
  BY InitIInv, NextIInv, PTL DEF Spec

\* The aggregate of a session opens, subcircuit by subcircuit, the commitments
\* that all the challenges were derived from (gen_agg_proof's input).
THEOREM SessionSound == Spec => []AggregateConsistent
<1>1. IInv => AggregateConsistent
  <2> SUFFICES ASSUME IInv, aggregate # None, NEW i \in Subcircuit
               PROVE  com[i] \in Com /\ aggregate[i] = ProofOf(com[i], com)
    BY DEF AggregateConsistent
  <2>1. proof[i] # None /\ aggregate = proof
    BY DEF IInv, AggregateIsProofs
  <2>2. super = com /\ super \in SuperCom /\ proof[i] = ProofOf(com[i], com)
    BY <2>1 DEF IInv, ProofsOpen, SuperIsCom, TypeOK
  <2> QED BY <2>1, <2>2 DEF SuperCom
<1> QED BY <1>1, SessionInvariant, PTL

\* Neither the challenges nor the commitments they bind ever change again.
THEOREM SessionChallengesFinal == Spec => ChallengesFinal
<1>1. IInv /\ [Next]_vars => [super # None => UNCHANGED <<com, super>>]_vars
  <2> SUFFICES ASSUME IInv, Next, super # None PROVE UNCHANGED <<com, super>>
    OBVIOUS
  <2>1. \A i \in Subcircuit : com[i] # None
    BY NoneAssumption DEF IInv, TypeOK, SuperIsCom, SuperCom
  <2> QED BY <2>1 DEF Next, Commit, Prove, FixChallenges, Aggregate
<1> QED BY <1>1, SessionInvariant, PTL DEF Spec, ChallengesFinal

-----------------------------------------------------------------------------
(* Aggregation: it is a session.                                            *)

\* A step with inputs and aggregation is a step of the session or none.
LEMMA StepIsSession == [AggNext]_aggVars => [Next]_vars
  BY DEF AggNext, AggStep, Terminated, aggVars, vars, Next, NewAggKey, Stage0, StartStage1,
         Stage1, IntoAggState, AggSubcircuitProofs

\* What happens to the public inputs disturbs nothing of the session: it is a
\* ProofSession.
THEOREM AggregationIsSession == AggSpec => Spec
  BY StepIsSession, PTL DEF AggSpec, AggInit, Spec

\* So the aggregate opens the commitments the challenges were derived from.
THEOREM AggregationConsistent == AggSpec => []AggregateConsistent
  BY AggregationIsSession, SessionSound, PTL

\* And the challenges are derived once.
THEOREM AggregationChallengesFinal == AggSpec => ChallengesFinal
  BY AggregationIsSession, SessionChallengesFinal, PTL

-----------------------------------------------------------------------------
(* The inductive invariant: what is in the aggregation key, in a proof's     *)
(* inputs and in the aggregator's, and that the aggregate was made of them.  *)

KeyInv ==
  aggKey # None =>
    \A i \in Subcircuit : aggKey[i].s = [k \in 0 .. 3 |-> Column(Representative[i], k)]

PublicInputs == Challenges \o <<Root>>

InputsInv == inputs # None => super # None /\ inputs = PublicInputs

PubsInv ==
  /\ DOMAIN pubs = Subcircuit
  /\ \A i \in Subcircuit : proof[i] # None => pubs[i] = PublicInputs

KeyFirst == (\E i \in Subcircuit : com[i] # None) => aggKey # None

AggregateInv ==
  aggregate # None =>
    /\ inputs # None
    /\ \A i \in Subcircuit : folded[i] = PreparedInput(i)

AggIInv ==
  /\ memType \in {"Rom", "Ram"}
  /\ IInv /\ KeyInv /\ InputsInv /\ PubsInv /\ KeyFirst /\ AggregateInv

LEMMA FirstSubcircuit == 0 \in Subcircuit
  BY SubcircuitAssumption

LEMMA InitAggIInv == AggInit => AggIInv
  BY InitIInv DEF AggInit, AggIInv, Init, KeyInv, InputsInv, PubsInv, KeyFirst, AggregateInv

\* Every leaf has the challenges the aggregator's state has.
LEMMA RequestsAgree ==
  \A i \in Subcircuit : RequestChallenges(i) \o <<Root>> = PublicInputs
                        /\ LeafChallenges(0) \o <<Root>> = PublicInputs
  BY DEF RequestChallenges, LeafChallenges, PublicInputs

\* The public inputs change only with the super-commitment.
LEMMA PublicInputsFixed ==
  ASSUME UNCHANGED <<memType, super>> PROVE PublicInputs' = PublicInputs
  BY DEF PublicInputs, Challenges, Challenge, Root

\* The prepared input is a function of the key and the inputs.
LEMMA PreparedFixed ==
  ASSUME UNCHANGED <<aggKey, inputs>>
  PROVE  \A i \in Subcircuit : PreparedInput(i)' = PreparedInput(i)
  BY DEF PreparedInput

LEMMA StepAggIInv == AggIInv /\ [AggNext]_aggVars => AggIInv'
<1> SUFFICES ASSUME AggIInv, [AggNext]_aggVars PROVE AggIInv'
  OBVIOUS
<1>1. IInv'
  BY StepIsSession, NextIInv DEF AggIInv
<1>2. IInv /\ KeyInv /\ InputsInv /\ PubsInv /\ KeyFirst /\ AggregateInv
      /\ memType \in {"Rom", "Ram"}
  BY DEF AggIInv
<1>3. CASE UNCHANGED aggVars
  BY <1>1, <1>2, <1>3, PublicInputsFixed, PreparedFixed
     DEF aggVars, AggIInv, KeyInv, InputsInv, PubsInv, KeyFirst, AggregateInv
<1>4. CASE NewAggKey
  <2>1. com[0] = None
    BY <1>4, <1>2, FirstSubcircuit DEF NewAggKey, KeyFirst
  <2>2. super = None
    BY <1>2, <2>1, FirstSubcircuit, NoneAssumption DEF IInv, SuperIsCom, TypeOK, SuperCom
  <2>3. aggregate = None
    BY <1>2, <2>2, FirstSubcircuit DEF IInv, AggregateIsProofs, ProofsOpen
  <2> QED
    BY <1>1, <1>2, <1>4, <2>3, PublicInputsFixed
       DEF NewAggKey, vars, fixed, AggIInv, KeyInv, InputsInv, PubsInv, KeyFirst, AggregateInv
<1>5. ASSUME NEW i \in Subcircuit, Stage0(i) PROVE AggIInv'
  <2>1. CASE UNCHANGED vars
    BY <1>1, <1>2, <1>5, <2>1, PublicInputsFixed, PreparedFixed
       DEF Stage0, vars, fixed, AggIInv, KeyInv, InputsInv, PubsInv, KeyFirst, AggregateInv
  <2>2. CASE Commit(i)
    BY <1>1, <1>2, <1>5, <2>2, PublicInputsFixed, PreparedFixed
       DEF Stage0, Commit, fixed, AggIInv, KeyInv, InputsInv, PubsInv, KeyFirst, AggregateInv
  <2> QED BY <1>5, <2>1, <2>2 DEF Stage0
<1>6. CASE StartStage1
  <2>1. inputs = None /\ \A i \in Subcircuit : proof[i] = None
    BY <1>2, <1>6 DEF StartStage1, FixChallenges, InputsInv, IInv, ProofsOpen
  <2> QED
    BY <1>1, <1>2, <1>6, <2>1
       DEF StartStage1, FixChallenges, fixed, AggIInv, KeyInv, InputsInv, PubsInv, KeyFirst,
           AggregateInv
<1>7. ASSUME NEW i \in Subcircuit, Stage1(i) PROVE AggIInv'
  <2>1. CASE UNCHANGED <<vars, pubs>>
    BY <1>1, <1>2, <1>7, <2>1, PublicInputsFixed, PreparedFixed
       DEF Stage1, vars, fixed, AggIInv, KeyInv, InputsInv, PubsInv, KeyFirst, AggregateInv
  <2>2. CASE Prove(i) /\ pubs' = [pubs EXCEPT ![i] = RequestChallenges(i) \o <<Root>>]
    <3>1. UNCHANGED <<memType, super, com, aggregate, aggKey, inputs, folded>>
      BY <1>7, <2>2 DEF Stage1, Prove, fixed
    <3>2. pubs' = [pubs EXCEPT ![i] = PublicInputs]
      BY <2>2, RequestsAgree
    <3>3. \A j \in Subcircuit : j # i => proof'[j] = proof[j]
      BY <2>2, <1>2 DEF Prove, IInv, TypeOK
    <3>4. PubsInv'
      BY <1>2, <3>1, <3>2, <3>3, PublicInputsFixed DEF PubsInv
    <3> QED
      BY <1>1, <1>2, <3>1, <3>4, PublicInputsFixed, PreparedFixed
         DEF AggIInv, KeyInv, InputsInv, KeyFirst, AggregateInv
  <2> QED BY <1>7, <2>1, <2>2 DEF Stage1
<1>8. CASE IntoAggState
  <2>1. inputs' = PublicInputs /\ super # None
    BY <1>8, RequestsAgree, FirstSubcircuit DEF IntoAggState
  <2>2. aggregate = None
    BY <1>2, <1>8 DEF IntoAggState, AggregateInv
  <2> QED
    BY <1>1, <1>2, <1>8, <2>1, <2>2, PublicInputsFixed
       DEF IntoAggState, vars, fixed, AggIInv, KeyInv, InputsInv, PubsInv, KeyFirst, AggregateInv
<1>9. CASE AggSubcircuitProofs
  <2>1. UNCHANGED <<memType, super, com, proof, aggKey, inputs, pubs>>
    BY <1>9 DEF AggSubcircuitProofs, Aggregate, vars, fixed
  <2>2. CASE UNCHANGED <<vars, folded>>
    BY <1>1, <1>2, <2>1, <2>2, PublicInputsFixed, PreparedFixed
       DEF vars, AggIInv, KeyInv, InputsInv, PubsInv, KeyFirst, AggregateInv
  <2>3. CASE folded' = [i \in Subcircuit |-> PreparedInput(i)]
    <3>1. AggregateInv'
      BY <1>9, <2>1, <2>3, PreparedFixed DEF AggSubcircuitProofs, AggregateInv
    <3> QED
      BY <1>1, <1>2, <2>1, <3>1, PublicInputsFixed
         DEF AggIInv, KeyInv, InputsInv, PubsInv, KeyFirst
  <2> QED BY <1>9, <2>2, <2>3 DEF AggSubcircuitProofs
<1>10. CASE Terminated
  BY <1>3, <1>10 DEF Terminated
<1> QED
  BY <1>3, <1>4, <1>5, <1>6, <1>7, <1>8, <1>9, <1>10 DEF AggNext, AggStep

\* What the keys, the workers and the aggregator hold in every reachable state.
THEOREM AggregationInvariant == AggSpec => []AggIInv
  BY InitAggIInv, StepAggIInv, PTL DEF AggSpec

-----------------------------------------------------------------------------
(* How many inputs there are.                                                *)

LEMMA LenAppended ==
  ASSUME NEW S, NEW s \in Seq(S), NEW e \in S
  PROVE  Len(s \o <<e>>) = Len(s) + 1
  OBVIOUS

LEMMA NumInputs ==
  /\ memType = "Rom" => Len(PublicInputs) = 3
  /\ memType = "Ram" => Len(PublicInputs) = 5
<1> DEFINE Labels == {"entry_chal", "entry_chal_1", "entry_chal_2", "entry_chal_3",
                      "tr_chal", "root"}
           S == [label : Labels, com : {super}]
<1>1. Root \in S
  BY DEF Root
<1>2. ASSUME NEW T, NEW c \in Seq(T), Root \in T, PublicInputs = c \o <<Root>>
      PROVE  Len(PublicInputs) = Len(c) + 1 /\ Len(c) \in Nat
  BY <1>2, LenAppended
<1>3. ASSUME memType = "Rom" PROVE Len(PublicInputs) = 3
  <2>1. Challenges \in Seq(S) /\ Len(Challenges) = 2
    BY <1>3 DEF Challenges, Challenge
  <2>2. Len(PublicInputs) = Len(Challenges) + 1
    BY <1>1, <1>2, <2>1 DEF PublicInputs
  <2> QED BY <2>1, <2>2
<1>4. ASSUME memType = "Ram" PROVE Len(PublicInputs) = 5
  <2>1. Challenges \in Seq(S) /\ Len(Challenges) = 4
    BY <1>4 DEF Challenges, Challenge
  <2>2. Len(PublicInputs) = Len(Challenges) + 1
    BY <1>1, <1>2, <2>1 DEF PublicInputs
  <2> QED BY <2>1, <2>2
<1> QED BY <1>3, <1>4

\* The aggregate of a ROM circuit folds the inputs of each of its proofs as the
\* verifier of that proof does, that of a RAM circuit never (agg_subcircuit_proofs
\* takes three inputs, set_challenges and new_input make five of them).
THEOREM AggregationFolds == AggSpec => []InputsFoldedButRam
<1>1. AggIInv => InputsFoldedButRam
  <2> SUFFICES ASSUME AggIInv, aggregate # None, NEW i \in Subcircuit
               PROVE  /\ inputs = pubs[i]
                      /\ memType = "Rom" => folded[i] = PrepareInputs(i)
                      /\ memType = "Ram" => folded[i] # PrepareInputs(i)
    BY DEF InputsFoldedButRam
  <2>1. inputs = PublicInputs /\ folded[i] = PreparedInput(i)
    BY DEF AggIInv, AggregateInv, InputsInv
  <2>2. proof[i] # None
    BY DEF AggIInv, IInv, AggregateIsProofs
  <2>3. pubs[i] = PublicInputs
    BY <2>2 DEF AggIInv, PubsInv
  <2>4. com[i] # None
    BY <2>2, NoneAssumption DEF AggIInv, IInv, ProofsOpen, SuperIsCom, TypeOK, SuperCom
  <2>5. aggKey[i].s = [k \in 0 .. 3 |-> Column(Representative[i], k)]
    BY <2>4 DEF AggIInv, KeyFirst, KeyInv
  <2>6. PreparedInput(i) =
          [k \in 0 .. 3 |-> <<Column(Representative[i], k), IF k = 0 THEN One ELSE pubs[i][k]>>]
    BY <2>1, <2>3, <2>5 DEF PreparedInput
  <2>7. ASSUME memType = "Rom" PROVE folded[i] = PrepareInputs(i)
    BY <2>1, <2>3, <2>6, <2>7, NumInputs DEF PrepareInputs
  <2>8. ASSUME memType = "Ram" PROVE folded[i] # PrepareInputs(i)
    <3>1. Len(pubs[i]) = 5
      BY <2>3, <2>8, NumInputs
    <3>2. 5 \in DOMAIN PrepareInputs(i) /\ 5 \notin DOMAIN PreparedInput(i)
      BY <2>6, <3>1 DEF PrepareInputs
    <3> QED BY <2>1, <3>2
  <2> QED BY <2>1, <2>3, <2>7, <2>8
<1> QED BY <1>1, AggregationInvariant, PTL
=============================================================================
