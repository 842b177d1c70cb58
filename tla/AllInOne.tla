------------------------------- MODULE AllInOne -------------------------------
(***************************************************************************)
(* work() of mpi-snark/src/bin/all_in_one.rs: coordinator and workers in   *)
(* one process.  Stage 0 and stage 1 each run over the subcircuits in      *)
(* parallel; between the two no worker state is kept, and a stage 1 task   *)
(* makes a new WorkerState, runs stage 0 on it again from the request      *)
(* saved in a file, and goes on to stage 1.                                *)
(***************************************************************************)
EXTENDS Integers

CONSTANTS
  NumSubcircuits,
  Seeds,      \* seeds a task may draw
  None        \* not done yet

Subcircuit == 1 .. NumSubcircuits

VARIABLES
  stage0Resps,  \* the commitment of each subcircuit, named by its randomness
  stage0Seeds,  \* the seed kept with each commitment
  superCom,     \* the commitments the challenges are derived from
  stage1Resps,  \* the commitment each subcircuit's proof is about
  aggregate     \* "none", "made", or "panicked"

vars == <<stage0Resps, stage0Seeds, superCom, stage1Resps, aggregate>>

Init ==
  /\ stage0Resps = [i \in Subcircuit |-> None]
  /\ stage0Seeds = [i \in Subcircuit |-> None]
  /\ superCom = None
  /\ stage1Resps = [i \in Subcircuit |-> None]
  /\ aggregate = "none"

\* A stage 0 task seeds its generator, from which WorkerState::stage_0 draws all
\* the randomness of the commitment.
Stage0(i) ==
  /\ stage0Resps[i] = None
  /\ \E seed \in Seeds :
       /\ stage0Resps' = [stage0Resps EXCEPT ![i] = seed]
       /\ stage0Seeds' = [stage0Seeds EXCEPT ![i] = seed]
  /\ UNCHANGED <<superCom, stage1Resps, aggregate>>

\* coordinator_state.stage_1
ProcessStage0Responses ==
  /\ superCom = None
  /\ \A i \in Subcircuit : stage0Resps[i] # None
  /\ superCom' = stage0Resps
  /\ UNCHANGED <<stage0Resps, stage0Seeds, stage1Resps, aggregate>>

\* A stage 1 task is handed the seed kept for i, and draws another of the same
\* name that it uses instead.
Stage1(i) ==
  /\ superCom # None /\ stage1Resps[i] = None
  /\ \E seed \in Seeds : stage1Resps' = [stage1Resps EXCEPT ![i] = seed]
  /\ UNCHANGED <<stage0Resps, stage0Seeds, superCom, aggregate>>

\* coordinator_state.aggregate, whose last assertion holds only if the proofs'
\* commitments are those of the super-commitment.
Aggregate ==
  /\ aggregate = "none"
  /\ \A i \in Subcircuit : stage1Resps[i] # None
  /\ aggregate' = IF stage1Resps = superCom THEN "made" ELSE "panicked"
  /\ UNCHANGED <<stage0Resps, stage0Seeds, superCom, stage1Resps>>

Terminated == aggregate # "none" /\ UNCHANGED vars

Next ==
  \/ \E i \in Subcircuit : Stage0(i) \/ Stage1(i)
  \/ ProcessStage0Responses \/ Aggregate \/ Terminated

Spec == Init /\ [][Next]_vars

-----------------------------------------------------------------------------
\* all_in_one.rs:121: "Each commitment comes with a seed so we can reconstruct
\* the commitment in stage1": the commitment a proof is about is the one made
\* in stage 0.
CommitmentReconstructed ==
  \A i \in Subcircuit : stage1Resps[i] # None => stage1Resps[i] = stage0Resps[i]
=============================================================================
