---------------------------- MODULE ProofSession ----------------------------
(***************************************************************************)
(* What one proving session promises, whatever carries its messages.       *)
(*                                                                         *)
(* Every subcircuit is committed to exactly once; only when all of them    *)
(* are is the super-commitment fixed, from which the challenges, the       *)
(* execution tree and its root are derived; only then is a subcircuit      *)
(* proved, and its proof opens the commitment that the super-commitment    *)
(* holds for it; the aggregate is made of one such proof per subcircuit.   *)
(* MpiProof and FileProof carry this session over MPI collectives and over *)
(* files.                                                                  *)
(***************************************************************************)
CONSTANTS
  Subcircuit,   \* the subcircuit indices
  Com,          \* the commitments a worker can make
  None          \* no value yet

VARIABLES
  com,          \* the commitment made for each subcircuit
  super,        \* the super-commitment: the vector of commitments it binds
  proof,        \* for each subcircuit, what its proof is about
  aggregate     \* the proofs the aggregate was computed from

vars == <<com, super, proof, aggregate>>

\* A proof is about a commitment and about the super-commitment its public
\* inputs (the challenges and the tree root) were derived from.
ProofOf(c, sup) == [com |-> c, super |-> sup]

SuperCom == [Subcircuit -> Com]
Proofs   == [com : Com, super : SuperCom]

ASSUME NoneAssumption == None \notin Com \cup SuperCom \cup Proofs

TypeOK ==
  /\ com \in [Subcircuit -> Com \cup {None}]
  /\ super \in SuperCom \cup {None}
  /\ proof \in [Subcircuit -> Proofs \cup {None}]
  /\ aggregate \in {None, proof}

Init ==
  /\ com = [i \in Subcircuit |-> None]
  /\ super = None
  /\ proof = [i \in Subcircuit |-> None]
  /\ aggregate = None

Commit(i) ==
  /\ com[i] = None
  /\ \E c \in Com : com' = [com EXCEPT ![i] = c]
  /\ UNCHANGED <<super, proof, aggregate>>

\* Mutant of FixChallenges: fixing the challenges while one subcircuit may still be uncommitted.
FixChallengesEarly ==
  /\ super = None
  /\ \E c \in Com :
       super' = [i \in Subcircuit |-> IF com[i] = None THEN c ELSE com[i]]
  /\ UNCHANGED <<com, proof, aggregate>>

FixChallenges ==
  /\ super = None
  /\ \A i \in Subcircuit : com[i] # None
  /\ super' = com
  /\ UNCHANGED <<com, proof, aggregate>>

Prove(i) ==
  /\ super # None
  /\ proof[i] = None
  /\ proof' = [proof EXCEPT ![i] = ProofOf(super[i], super)]
  /\ UNCHANGED <<com, super, aggregate>>

\* Mutant of Aggregate: aggregating the proofs there are.
AggregateEarly ==
  /\ aggregate = None
  /\ \E i \in Subcircuit : proof[i] # None
  /\ aggregate' = proof
  /\ UNCHANGED <<com, super, proof>>

Aggregate ==
  /\ aggregate = None
  /\ \A i \in Subcircuit : proof[i] # None
  /\ aggregate' = proof
  /\ UNCHANGED <<com, super, proof>>

Next ==
  \/ \E i \in Subcircuit : Commit(i) \/ Prove(i)
  \/ FixChallenges
  \/ Aggregate

Spec == Init /\ [][Next]_vars

-----------------------------------------------------------------------------
\* Each proof of the aggregate opens the very commitment made for its
\* subcircuit before the challenges were known, under challenges derived from
\* all the commitments of the session (the soundness of the two-stage
\* protocol: process_stage0_responses, process_stage1_request, gen_agg_proof).
AggregateConsistent ==
  aggregate # None =>
    \A i \in Subcircuit : com[i] \in Com /\ aggregate[i] = ProofOf(com[i], com)

\* Once fixed, the challenges are never derived again, and no commitment they
\* were derived from is replaced.
ChallengesFinal == [][super # None => UNCHANGED <<com, super>>]_vars
=============================================================================
