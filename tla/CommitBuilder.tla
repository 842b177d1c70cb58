----------------------------- MODULE CommitBuilder -----------------------------
(***************************************************************************)
(* The commit-and-prove Groth16 of cp-groth16: key generation for a        *)
(* multi-stage circuit, and a CommitmentBuilder that runs the stages of a  *)
(* circuit of the same kind, committing to the witnesses of every stage    *)
(* but the last and proving the last.                                      *)
(*                                                                         *)
(* What ties commitments, key and proof together is the bookkeeping of     *)
(* which witness variables belong to which stage.  A witness variable      *)
(* stands for its value and a column of the QAP for the group elements the *)
(* key has for it; an MSM is the set of its <<column, variable>> terms.    *)
(* Circuits are satisfiable, and told apart by what their stages allocate. *)
(***************************************************************************)
EXTENDS Integers, Sequences

CONSTANTS
  NumStages,   \* total_num_stages()
  Circuits,    \* what the stages of a circuit may allocate
  None         \* not made yet

Stages == 1 .. NumStages

\* A circuit allocates wit witness and inst instance variables in each stage.
ASSUME CircuitsAssumption ==
  /\ NumStages \in Nat \ {0}
  /\ Circuits \subseteq [Stages -> [wit : Nat, inst : Nat]]

Range == [start : Nat, end : Nat]
ConstraintSystem == [wit : Nat, inst : Nat, ranges : Seq(Range)]
Term == [col : Nat, var : Nat]
Key == [inst : Nat, parts : Seq(Range)]
Comm == [delta : Nat, terms : SUBSET Term]
Proof == [ds : Seq(Comm), inst : Nat, last : SUBSET Term]

VARIABLES
  phase,     \* "setup", "committing", "proved", or "failed": an Err or a panic
  keyCirc,   \* the circuit the proving key is generated for
  circ,      \* the circuit of the CommitmentBuilder
  cs,        \* the MultiStageConstraintSystem in use
  key,       \* columns of each stage, and the number of instance variables
  curStage,  \* stages the CommitmentBuilder has committed to
  comms,     \* the commitments made
  proof

vars == <<phase, keyCirc, circ, cs, key, curStage, comms, proof>>

ASSUME NoneAssumption == None \notin Key \cup Proof

\* The one-variable is there from the start.
EmptyCs == [wit |-> 0, inst |-> 1, ranges |-> <<>>]

Init ==
  /\ phase = "setup"
  /\ keyCirc \in Circuits /\ circ \in Circuits
  /\ cs = EmptyCs /\ key = None
  /\ curStage = 0 /\ comms = <<>> /\ proof = None

-----------------------------------------------------------------------------
(* synthesize_with                                                          *)

\* initialize_stage: the stage's range starts at the first variable not yet
\* allocated; nothing is in it so far.
InitializeStage(c) ==
  [c EXCEPT !.ranges = Append(@, [start |-> c.wit, end |-> c.wit])]

\* The closure allocates its variables.
Allocate(c, wit, inst) ==
  [wit |-> c.wit + wit, inst |-> c.inst + inst, ranges |-> c.ranges]

\* Mutant of FinalizeStage: the range is left open.
FinalizeNothing(c) == c
FinalizeStage(c) == [c EXCEPT !.ranges[Len(c.ranges)].end = c.wit]

Synthesize(c, stage) ==
  FinalizeStage(Allocate(InitializeStage(c), stage.wit, stage.inst))

\* The closure returns an error after some of its allocations: the ? of
\* synthesize_with leaves before finalize_stage.
SynthesizeFailing(c, wit, inst) == Allocate(InitializeStage(c), wit, inst)

CurrentRange(c) == c.ranges[Len(c.ranges)]
Size(range) == range.end - range.start

-----------------------------------------------------------------------------
(* generate_parameters                                                      *)

SetupStage ==
  /\ phase = "setup" /\ Len(cs.ranges) < NumStages
  /\ cs' = Synthesize(cs, keyCirc[Len(cs.ranges) + 1])
  /\ UNCHANGED <<phase, keyCirc, circ, key, curStage, comms, proof>>

\* Mutant of Columns: the instance columns are forgotten.
ColumnsUnshifted(c, range) == range

\* Columns are the instance variables, then the witness variables.
Columns(c, range) == [start |-> range.start + c.inst, end |-> range.end + c.inst]

\* deltas_abc_g, one part for each stage.  The CommitmentBuilder to come starts
\* on a constraint system of its own.
FinishSetup ==
  /\ phase = "setup" /\ Len(cs.ranges) = NumStages
  /\ key' = [inst |-> cs.inst, parts |-> [s \in Stages |-> Columns(cs, cs.ranges[s])]]
  /\ phase' = "committing" /\ cs' = EmptyCs
  /\ UNCHANGED <<keyCirc, circ, curStage, comms, proof>>

-----------------------------------------------------------------------------
(* CommitmentBuilder                                                        *)

\* The MSM of a part of the key with the variables of a range as long.
Msm(part, range) ==
  {[col |-> part.start + k, var |-> range.start + k] : k \in 0 .. Size(range) - 1}

\* Mutant of LengthsAgree: the assertion is gone.
LengthsUnchecked(part, range) == TRUE

\* The assertion that the witnesses of a stage are as many as the group elements
\* for it.
LengthsAgree(part, range) == Size(range) = Size(part)

\* Mutant of NextStage: the stage is not counted.
StayAtStage == UNCHANGED curStage
NextStage == curStage' = curStage + 1

\* commit: run the next stage.  A circuit panics at a stage it does not have.
Commit ==
  /\ phase = "committing"
  /\ IF curStage < NumStages
     THEN LET after == Synthesize(cs, circ[curStage + 1])
              range == CurrentRange(after)
              part  == key.parts[curStage + 1]
          IN  /\ cs' = after
              /\ IF LengthsAgree(part, range)
                 THEN /\ comms' = Append(comms,
                           [delta |-> curStage + 1, terms |-> Msm(part, range)])
                      /\ NextStage
                      /\ UNCHANGED phase
                 ELSE phase' = "failed" /\ UNCHANGED <<comms, curStage>>
     ELSE phase' = "failed" /\ UNCHANGED <<cs, comms, curStage>>
  /\ UNCHANGED <<keyCirc, circ, key, proof>>

\* Mutant of CountAgrees: the assertion is gone.
CountUnchecked == TRUE

\* The assertion at the end of prove.
CountAgrees == NumStages = Len(comms) + 1

\* Mutant of Prove: the longer of the two is cut to the length of the other.
ProveTruncated ==
  /\ phase = "committing"
  /\ LET after == Synthesize(cs, circ[NumStages])
         range == CurrentRange(after)
         part  == key.parts[NumStages]
     IN  /\ cs' = after
         /\ IF CountAgrees
            THEN /\ proof' = [ds |-> comms, inst |-> after.inst,
                              last |-> {t \in Msm(part, range) : t.col < part.end}]
                 /\ phase' = "proved"
            ELSE phase' = "failed" /\ UNCHANGED proof
  /\ UNCHANGED <<keyCirc, circ, key, curStage, comms>>

\* prove, with all the commitments made.  It runs the last stage, whatever
\* curStage is; if the last part of the key and the witnesses of the stage differ
\* in length, nothing is made of them.
Prove ==
  /\ phase = "committing"
  /\ LET after == Synthesize(cs, circ[NumStages])
         range == CurrentRange(after)
         part  == key.parts[NumStages]
     IN  /\ cs' = after
         /\ IF CountAgrees
            THEN /\ proof' = [ds |-> comms, inst |-> after.inst,
                              last |-> IF Size(range) = Size(part)
                                       THEN Msm(part, range) ELSE {}]
                 /\ phase' = "proved"
            ELSE phase' = "failed" /\ UNCHANGED proof
  /\ UNCHANGED <<keyCirc, circ, key, curStage, comms>>

\* Constraint generation fails inside commit or prove, and its caller unwraps
\* the error.
SynthesisError ==
  /\ phase = "committing"
  /\ \E s \in {curStage + 1, NumStages} \cap Stages :
       \E wit \in 0 .. circ[s].wit, inst \in 0 .. circ[s].inst :
         cs' = SynthesizeFailing(cs, wit, inst)
  /\ phase' = "failed"
  /\ UNCHANGED <<keyCirc, circ, key, curStage, comms, proof>>

Terminated == phase \in {"proved", "failed"} /\ UNCHANGED vars

Next == SetupStage \/ FinishSetup \/ Commit \/ Prove \/ SynthesisError \/ Terminated

Spec == Init /\ [][Next]_vars

-----------------------------------------------------------------------------
(* verify_proof                                                             *)

\* The terms paired with delta s of the verifying key.
Part(pf, s) == IF s = NumStages THEN pf.last ELSE pf.ds[s].terms

\* The equation holds if there are as many public inputs as the key has
\* instance columns, each commitment is paired with the delta it was made under,
\* and every column of a witness is counted once, with the variable the rest of
\* the proof has in that column.
Verifies(pf) ==
  /\ pf.inst = key.inst
  /\ Len(pf.ds) = NumStages - 1
  /\ \A s \in 1 .. NumStages - 1 : pf.ds[s].delta = s
  /\ \A s \in Stages : \A t \in Part(pf, s) :
       /\ t.var = t.col - pf.inst
       /\ \A r \in Stages : r # s => \A u \in Part(pf, r) : u.col # t.col
  /\ \A s \in Stages : \A c \in key.parts[s].start .. key.parts[s].end - 1 :
       \E t \in Part(pf, s) : t.col = c

-----------------------------------------------------------------------------
(* Properties.                                                              *)

\* The type of the constraint system, the key, the commitments and the proof.
TypeOK ==
  /\ phase \in {"setup", "committing", "proved", "failed"}
  /\ keyCirc \in Circuits /\ circ \in Circuits
  /\ cs \in ConstraintSystem
  /\ key = None <=> phase = "setup"
  /\ key # None => key \in [inst : Nat, parts : [Stages -> Range]]
  /\ curStage \in 0 .. NumStages
  /\ Len(comms) = curStage
  /\ \A s \in 1 .. curStage : comms[s].delta = s /\ comms[s].terms \subseteq Term
  /\ proof # None <=> phase = "proved"

\* What MultiStageConstraintSystem assumes of its ranges: they follow each other
\* without a gap, and every witness variable is in the range of the stage that
\* allocated it, so in one only.  A stage that fails half-way breaks it for its own
\* witnesses alone: they come after those of all the other stages, its range stays
\* empty, and a stage that was committed to before keeps its witnesses.
RangesPartition ==
  /\ \A s \in 1 .. Len(cs.ranges) - 1 : cs.ranges[s].end = cs.ranges[s + 1].start
  /\ \A s, t \in 1 .. Len(cs.ranges) : s < t => cs.ranges[s].end <= cs.ranges[t].start
  /\ \A v \in 0 .. cs.wit - 1 :
       \/ \E s \in 1 .. Len(cs.ranges) : cs.ranges[s].start <= v /\ v < cs.ranges[s].end
       \/ phase = "failed" /\ Size(CurrentRange(cs)) = 0 /\ CurrentRange(cs).start <= v
  /\ \A s \in 1 .. curStage : Size(cs.ranges[s]) = circ[s].wit

\* A proof is made only after every stage but the last was committed to, once,
\* in order, and those stages allocated what they do in the circuit of the key.
StagesMatchKey ==
  phase = "proved" =>
    /\ Len(cs.ranges) = NumStages
    /\ \A s \in Stages : Size(cs.ranges[s]) = circ[s].wit
    /\ \A s \in 1 .. NumStages - 1 : circ[s].wit = keyCirc[s].wit

\* The commitments and the proof of a circuit that allocates what the key's
\* circuit does verify: every witness is accounted for once, in its column, by
\* the commitment of its stage or by the proof.
ProofVerifies ==
  phase = "proved" /\ circ = keyCirc => Verifies(proof)

\* A last stage that allocates another number of witnesses than the key has columns
\* for passes through prove, whose assertion is commented out, but no verifier
\* accepts what comes out of it.
ShortProofRefused ==
  phase = "proved" /\ keyCirc[NumStages].wit \notin {0, circ[NumStages].wit} => ~Verifies(proof)
=============================================================================
