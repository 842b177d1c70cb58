-------------------------- MODULE CommitBuilder_proofs --------------------------
(***************************************************************************)
(* Proofs about CommitBuilder, for every number of stages and every circuit*)
(***************************************************************************)
EXTENDS CommitBuilder, TLAPS

-----------------------------------------------------------------------------
(* The inductive invariant.                                                 *)

\* The ranges of a constraint system no stage of which failed.
Partition(c) ==
  LET n == Len(c.ranges) IN
  /\ c \in ConstraintSystem
  /\ n = 0 => c.wit = 0
  /\ n > 0 => c.ranges[1].start = 0 /\ c.ranges[n].end = c.wit
  /\ \A s \in 1 .. n : c.ranges[s].start <= c.ranges[s].end /\ c.ranges[s].end <= c.wit
  /\ \A s \in 1 .. n - 1 : c.ranges[s].end = c.ranges[s + 1].start
  /\ \A s, t \in 1 .. n : s < t => c.ranges[s].end <= c.ranges[t].start
  /\ \A v \in 0 .. c.wit - 1 : \E s \in 1 .. n :
       c.ranges[s].start <= v /\ v < c.ranges[s].end

\* The stages run so far allocated what they do in circuit d.
Allocated(c, d) == \A s \in 1 .. Len(c.ranges) : Size(c.ranges[s]) = d[s].wit

\* f counts the instance variables of the key's circuit up to each stage.
Counts == [0 .. NumStages -> Nat]
Counted(f, n) == f[0] = 1 /\ \A s \in 1 .. n : f[s] = f[s - 1] + keyCirc[s].inst

\* The parts of the key lie one after the other, as long as in keyCirc.
KeyInv ==
  /\ key \in [inst : Nat, parts : [Stages -> Range]]
  /\ key.parts[1].start = key.inst
  /\ \A s \in Stages : Size(key.parts[s]) = keyCirc[s].wit
  /\ \A s \in 1 .. NumStages - 1 : key.parts[s].end = key.parts[s + 1].start
  /\ \A s, t \in Stages : s < t => key.parts[s].end <= key.parts[t].start

\* The part of the key for stage s has the columns of c's variables of stage s.
Aligned(c, s) ==
  /\ circ[s].wit = keyCirc[s].wit
  /\ key.parts[s].start = c.ranges[s].start + key.inst
  /\ key.parts[s].end = c.ranges[s].end + key.inst

Committed(s) ==
  comms[s] = [delta |-> s, terms |-> Msm(key.parts[s], cs.ranges[s])]

SetupInv ==
  /\ Partition(cs) /\ Allocated(cs, keyCirc)
  /\ Len(cs.ranges) <= NumStages
  /\ key = None /\ curStage = 0 /\ comms = <<>> /\ proof = None

CommittingInv ==
  /\ Partition(cs) /\ Allocated(cs, circ)
  /\ KeyInv
  /\ curStage \in 0 .. NumStages
  /\ Len(cs.ranges) = curStage /\ Len(comms) = curStage
  /\ comms \in Seq(Comm)
  /\ \A s \in 1 .. curStage : Aligned(cs, s) /\ Committed(s)
  /\ proof = None

ProvedInv ==
  /\ Partition(cs) /\ Allocated(cs, circ)
  /\ KeyInv
  /\ curStage = NumStages - 1
  /\ Len(cs.ranges) = NumStages /\ Len(comms) = curStage
  /\ comms \in Seq(Comm)
  /\ \A s \in 1 .. curStage : Aligned(cs, s) /\ Committed(s)
  /\ proof = [ds |-> comms, inst |-> cs.inst,
              last |-> IF Size(cs.ranges[NumStages]) = Size(key.parts[NumStages])
                       THEN Msm(key.parts[NumStages], cs.ranges[NumStages]) ELSE {}]

\* The instance variables of the key, and of the builder when its circuit is the
\* key's.
InstanceInv ==
  /\ phase = "setup" =>
       \E f \in Counts : Counted(f, Len(cs.ranges)) /\ cs.inst = f[Len(cs.ranges)]
  /\ phase \in {"committing", "proved"} =>
       \E f \in Counts :
         /\ Counted(f, NumStages) /\ key.inst = f[NumStages]
         /\ circ = keyCirc => cs.inst = f[Len(cs.ranges)]

IInv ==
  /\ phase \in {"setup", "committing", "proved", "failed"}
  /\ keyCirc \in Circuits /\ circ \in Circuits
  /\ phase = "setup" => SetupInv
  /\ phase = "committing" => CommittingInv
  /\ phase = "proved" => ProvedInv
  /\ phase = "failed" => RangesPartition
  /\ InstanceInv
  /\ TypeOK

-----------------------------------------------------------------------------
(* Sequences.                                                               *)

LEMMA AppendFacts ==
  ASSUME NEW S, NEW q \in Seq(S), NEW e \in S
  PROVE  /\ Append(q, e) \in Seq(S)
         /\ Len(Append(q, e)) = Len(q) + 1 /\ Len(q) \in Nat
         /\ \A s \in 1 .. Len(q) : Append(q, e)[s] = q[s]
         /\ Append(q, e)[Len(q) + 1] = e
OBVIOUS

-----------------------------------------------------------------------------
(* synthesize_with                                                          *)

LEMMA AllocateResult ==
  ASSUME NEW w \in Nat, NEW i \in Nat, NEW q, NEW wit \in Nat, NEW inst \in Nat
  PROVE  Allocate([wit |-> w, inst |-> i, ranges |-> q], wit, inst)
           = [wit |-> w + wit, inst |-> i + inst, ranges |-> q]
BY DEF Allocate

\* What a stage that does not fail leaves: one more range, of the variables it
\* allocated.
LEMMA SynthesizeResult ==
  ASSUME NEW c \in ConstraintSystem, NEW stage \in [wit : Nat, inst : Nat]
  PROVE  Synthesize(c, stage) =
           [wit |-> c.wit + stage.wit, inst |-> c.inst + stage.inst,
            ranges |-> Append(c.ranges, [start |-> c.wit, end |-> c.wit + stage.wit])]
<1> DEFINE r0 == [start |-> c.wit, end |-> c.wit]
           r1 == [start |-> c.wit, end |-> c.wit + stage.wit]
           q0 == Append(c.ranges, r0)
           q1 == Append(c.ranges, r1)
           n  == Len(c.ranges) + 1
           d  == [wit |-> c.wit + stage.wit, inst |-> c.inst + stage.inst, ranges |-> q0]
<1>1. c.ranges \in Seq(Range) /\ c.wit \in Nat /\ c.inst \in Nat
  BY DEF ConstraintSystem
<1>2. stage.wit \in Nat /\ stage.inst \in Nat
  OBVIOUS
<1>3. c = [wit |-> c.wit, inst |-> c.inst, ranges |-> c.ranges]
  BY DEF ConstraintSystem
<1>4. r0 \in Range /\ r1 \in Range
  BY <1>1, <1>2 DEF Range
<1>5. InitializeStage(c) = [wit |-> c.wit, inst |-> c.inst, ranges |-> q0]
  <2> HIDE DEF q0
  <2>1. [[wit |-> c.wit, inst |-> c.inst, ranges |-> c.ranges] EXCEPT !.ranges = q0]
          = [wit |-> c.wit, inst |-> c.inst, ranges |-> q0]
    OBVIOUS
  <2>2. InitializeStage(c) = [c EXCEPT !.ranges = q0]
    BY DEF InitializeStage, q0
  <2> QED BY <1>3, <2>1, <2>2, Zenon
<1>6. Allocate(InitializeStage(c), stage.wit, stage.inst) = d
  <2> HIDE DEF q0
  <2>1. Allocate([wit |-> c.wit, inst |-> c.inst, ranges |-> q0], stage.wit, stage.inst) = d
    BY <1>1, <1>2, AllocateResult
  <2> QED BY <1>5, <2>1, Zenon
<1>7. Len(q0) = n /\ n \in Nat /\ DOMAIN q0 = 1 .. n /\ DOMAIN q1 = 1 .. n
  BY <1>1, <1>4
<1>8. q0[n] = r0 /\ q1[n] = r1 /\ \A s \in 1 .. n - 1 : q0[s] = q1[s]
  BY <1>1, <1>4
<1>9. FinalizeStage(d) = [d EXCEPT !.ranges = [q0 EXCEPT ![n] = [r0 EXCEPT !.end = c.wit + stage.wit]]]
  BY <1>7, <1>8 DEF FinalizeStage
<1>10. [r0 EXCEPT !.end = c.wit + stage.wit] = r1
  OBVIOUS
<1>11. [q0 EXCEPT ![n] = r1] = q1
  <2> DEFINE q2 == [q0 EXCEPT ![n] = r1]
  <2>1. DOMAIN q2 = 1 .. n
    BY <1>7
  <2>2. \A s \in 1 .. n : q2[s] = q1[s]
    <3> TAKE s \in 1 .. n
    <3>1. CASE s = n
      BY <3>1, <1>7, <1>8
    <3>2. CASE s # n
      <4>1. s \in 1 .. n - 1
        BY <3>2, <1>7
      <4> QED BY <4>1, <3>2, <1>7, <1>8
    <3> QED BY <3>1, <3>2
  <2>3. q2 = [s \in 1 .. n |-> q2[s]]
    BY <2>1
  <2>4. q1 = [s \in 1 .. n |-> q1[s]]
    BY <1>7, <1>1, <1>4
  <2> QED BY <2>2, <2>3, <2>4
<1> QED BY <1>6, <1>9, <1>10, <1>11 DEF Synthesize

\* A stage that does not fail leaves the ranges of the others as they are and
\* a partition.
LEMMA SynthesizePartition ==
  ASSUME NEW c, Partition(c), NEW stage \in [wit : Nat, inst : Nat]
  PROVE  LET a == Synthesize(c, stage) n == Len(c.ranges) IN
         /\ Partition(a) /\ n \in Nat
         /\ a.wit = c.wit + stage.wit /\ a.inst = c.inst + stage.inst
         /\ Len(a.ranges) = n + 1
         /\ \A s \in 1 .. n : a.ranges[s] = c.ranges[s]
         /\ a.ranges[n + 1] = [start |-> c.wit, end |-> c.wit + stage.wit]
         /\ Size(a.ranges[n + 1]) = stage.wit
         /\ CurrentRange(a) = a.ranges[n + 1]
<1> DEFINE a == Synthesize(c, stage)
           n == Len(c.ranges)
           r == [start |-> c.wit, end |-> c.wit + stage.wit]
<1>1. c \in ConstraintSystem
  BY DEF Partition
<1>2. /\ c.ranges \in Seq(Range) /\ c.wit \in Nat /\ c.inst \in Nat
      /\ stage.wit \in Nat /\ stage.inst \in Nat
  BY <1>1 DEF ConstraintSystem
<1>3. r \in Range
  BY <1>2 DEF Range
<1>4. a = [wit |-> c.wit + stage.wit, inst |-> c.inst + stage.inst,
           ranges |-> Append(c.ranges, r)]
  BY <1>1, SynthesizeResult
<1>5. /\ a.ranges = Append(c.ranges, r)
      /\ a.wit = c.wit + stage.wit /\ a.inst = c.inst + stage.inst
  BY <1>4
<1>9. r.start = c.wit /\ r.end = c.wit + stage.wit
  OBVIOUS
<1> HIDE DEF a, r
<1>6. /\ a.ranges \in Seq(Range) /\ n \in Nat /\ Len(a.ranges) = n + 1
      /\ \A s \in 1 .. n : a.ranges[s] = c.ranges[s]
      /\ a.ranges[n + 1] = r
  BY <1>2, <1>3, <1>5
<1>7. a \in ConstraintSystem
  <2>1. c.wit + stage.wit \in Nat /\ c.inst + stage.inst \in Nat
    BY <1>2
  <2>2. Append(c.ranges, r) \in Seq(Range)
    BY <1>5, <1>6
  <2> QED BY <1>4, <2>1, <2>2 DEF ConstraintSystem
<1>8. \A s \in 1 .. n : c.ranges[s].start \in Nat /\ c.ranges[s].end \in Nat
  <2> TAKE s \in 1 .. n
  <2>1. c.ranges[s] \in Range
    BY <1>2
  <2> QED BY <2>1 DEF Range
<1>10. Partition(a)
  <2>1. a.ranges[1].start = 0 /\ a.ranges[n + 1].end = a.wit
    <3>1. CASE n = 0
      BY <3>1, <1>2, <1>5, <1>6, <1>9 DEF Partition
    <3>2. CASE n # 0
      BY <3>2, <1>2, <1>5, <1>6, <1>9 DEF Partition
    <3> QED BY <3>1, <3>2
  <2>2. \A s \in 1 .. n + 1 :
          a.ranges[s].start <= a.ranges[s].end /\ a.ranges[s].end <= a.wit
    <3> TAKE s \in 1 .. n + 1
    <3>1. CASE s = n + 1
      BY <3>1, <1>2, <1>5, <1>6, <1>9
    <3>2. CASE s # n + 1
      <4>1. s \in 1 .. n /\ a.ranges[s] = c.ranges[s]
        BY <3>2, <1>6
      <4>2. c.ranges[s].start <= c.ranges[s].end /\ c.ranges[s].end <= c.wit
        BY <4>1 DEF Partition
      <4> QED BY <4>1, <4>2, <1>2, <1>5, <1>8
    <3> QED BY <3>1, <3>2
  <2>3. \A s \in 1 .. n : a.ranges[s].end = a.ranges[s + 1].start
    <3> TAKE s \in 1 .. n
    <3>1. CASE s = n
      BY <3>1, <1>6, <1>9 DEF Partition
    <3>2. CASE s # n
      <4>1. s \in 1 .. n - 1 /\ s \in 1 .. n /\ s + 1 \in 1 .. n
        BY <3>2, <1>6
      <4> QED BY <4>1, <1>6 DEF Partition
    <3> QED BY <3>1, <3>2
  <2>4. \A s, t \in 1 .. n + 1 : s < t => a.ranges[s].end <= a.ranges[t].start
    <3> SUFFICES ASSUME NEW s \in 1 .. n + 1, NEW t \in 1 .. n + 1, s < t
                 PROVE  a.ranges[s].end <= a.ranges[t].start
      OBVIOUS
    <3>1. s \in 1 .. n /\ a.ranges[s] = c.ranges[s]
      BY <1>6
    <3>2. CASE t = n + 1
      BY <3>1, <3>2, <1>6, <1>9 DEF Partition
    <3>3. CASE t # n + 1
      <4>1. t \in 1 .. n /\ a.ranges[t] = c.ranges[t]
        BY <3>3, <1>6
      <4> QED BY <3>1, <4>1 DEF Partition
    <3> QED BY <3>2, <3>3
  <2>5. \A v \in 0 .. a.wit - 1 : \E s \in 1 .. n + 1 :
          a.ranges[s].start <= v /\ v < a.ranges[s].end
    <3> TAKE v \in 0 .. a.wit - 1
    <3>1. CASE v < c.wit
      <4>1. v \in 0 .. c.wit - 1
        BY <3>1, <1>2, <1>5
      <4>2. PICK s \in 1 .. n : c.ranges[s].start <= v /\ v < c.ranges[s].end
        BY <4>1 DEF Partition
      <4>3. s \in 1 .. n + 1 /\ a.ranges[s] = c.ranges[s]
        BY <1>6
      <4> QED BY <4>2, <4>3
    <3>2. CASE ~(v < c.wit)
      <4>1. a.ranges[n + 1].start <= v /\ v < a.ranges[n + 1].end /\ n + 1 \in 1 .. n + 1
        BY <3>2, <1>2, <1>5, <1>6, <1>9
      <4> QED BY <4>1
    <3> QED BY <3>1, <3>2
  <2> QED BY <1>6, <1>7, <2>1, <2>2, <2>3, <2>4, <2>5 DEF Partition
<1>11. Size(a.ranges[n + 1]) = stage.wit
  BY <1>2, <1>6, <1>9 DEF Size
<1>12. CurrentRange(a) = a.ranges[n + 1]
  BY <1>6 DEF CurrentRange
<1> QED BY <1>5, <1>6, <1>10, <1>11, <1>12 DEF a, r

LEMMA EmptyPartition == Partition(EmptyCs) /\ EmptyCs.ranges = <<>> /\ EmptyCs.inst = 1
BY DEF Partition, EmptyCs, ConstraintSystem

\* The terms of an MSM are well typed.
LEMMA MsmType ==
  ASSUME NEW part \in Range, NEW range \in Range
  PROVE  Msm(part, range) \in SUBSET Term
BY DEF Msm, Range, Term, Size

LEMMA CircuitType ==
  ASSUME NEW c \in Circuits, NEW s \in Stages
  PROVE  c[s] \in [wit : Nat, inst : Nat] /\ c[s].wit \in Nat /\ c[s].inst \in Nat
<1>1. c[s] \in [wit : Nat, inst : Nat]
  BY CircuitsAssumption
<1> QED BY <1>1

-----------------------------------------------------------------------------
(* The invariant holds at the start and is kept by every action.            *)

LEMMA InitIInv == Init => IInv
<1> SUFFICES ASSUME Init PROVE IInv
  OBVIOUS
<1>1. NumStages \in Nat
  BY CircuitsAssumption
<1>2. SetupInv
  BY <1>1, EmptyPartition DEF Init, SetupInv, Allocated
<1>3. InstanceInv
  <2> DEFINE f == [s \in 0 .. NumStages |-> 1]
  <2>1. f \in Counts /\ f[0] = 1
    BY <1>1 DEF Counts
  <2>2. Len(cs.ranges) = 0 /\ cs.inst = 1 /\ phase = "setup"
    BY EmptyPartition DEF Init
  <2> HIDE DEF f
  <2>3. Counted(f, Len(cs.ranges)) /\ cs.inst = f[Len(cs.ranges)]
    BY <2>1, <2>2 DEF Counted
  <2> QED BY <2>1, <2>2, <2>3 DEF InstanceInv
<1>4. TypeOK
  <2>1. cs \in ConstraintSystem
    BY EmptyPartition DEF Init, Partition
  <2> QED BY <2>1, <1>1 DEF Init, TypeOK
<1> QED BY <1>2, <1>3, <1>4 DEF IInv, Init

LEMMA SetupStageKeeps ==
  ASSUME IInv, SetupStage
  PROVE  IInv'
<1> DEFINE n == Len(cs.ranges)
           stage == keyCirc[n + 1]
<1>1. /\ phase = "setup" /\ n < NumStages /\ cs' = Synthesize(cs, stage)
      /\ UNCHANGED <<phase, keyCirc, circ, key, curStage, comms, proof>>
  BY DEF SetupStage
<1>2. SetupInv /\ keyCirc \in Circuits /\ circ \in Circuits
  BY <1>1 DEF IInv
<1>3. Partition(cs) /\ Allocated(cs, keyCirc)
  BY <1>2 DEF SetupInv
<1>4. n \in Nat /\ NumStages \in Nat
  BY <1>3, CircuitsAssumption DEF Partition, ConstraintSystem
<1>5. n + 1 \in Stages
  BY <1>1, <1>4 DEF Stages
<1>6. stage \in [wit : Nat, inst : Nat] /\ stage.inst \in Nat
  BY <1>2, <1>5, CircuitType
<1> HIDE DEF stage
<1>7. /\ Partition(cs') /\ cs'.inst = cs.inst + stage.inst
      /\ Len(cs'.ranges) = n + 1
      /\ \A s \in 1 .. n : cs'.ranges[s] = cs.ranges[s]
      /\ Size(cs'.ranges[n + 1]) = stage.wit
  BY <1>1, <1>3, <1>6, SynthesizePartition
<1>8. \A s \in 1 .. Len(cs'.ranges) : Size(cs'.ranges[s]) = keyCirc[s].wit
  <2> TAKE s \in 1 .. Len(cs'.ranges)
  <2>1. CASE s = n + 1
    BY <2>1, <1>7 DEF stage
  <2>2. CASE s # n + 1
    <3>1. s \in 1 .. n
      BY <2>2, <1>4, <1>7
    <3> QED BY <3>1, <1>3, <1>7 DEF Allocated
  <2> QED BY <2>1, <2>2
<1>9. SetupInv'
  BY <1>1, <1>2, <1>4, <1>7, <1>8 DEF SetupInv, Allocated, Partition, Size
<1>10. InstanceInv'
  <2>1. PICK f \in Counts : Counted(f, n) /\ cs.inst = f[n]
    BY <1>1 DEF IInv, InstanceInv
  <2>2. cs'.inst \in Nat
    BY <1>7 DEF Partition, ConstraintSystem
  <2>3. \E g \in Counts : g[n + 1] = cs'.inst /\ \A s \in 0 .. n : g[s] = f[s]
    <3> DEFINE h == [f EXCEPT ![n + 1] = cs'.inst]
    <3>1. h \in Counts /\ h[n + 1] = cs'.inst /\ \A s \in 0 .. n : h[s] = f[s]
      BY <2>2, <1>1, <1>4 DEF Counts
    <3> HIDE DEF h
    <3> QED BY <3>1
  <2>4. PICK g \in Counts : g[n + 1] = cs'.inst /\ \A s \in 0 .. n : g[s] = f[s]
    BY <2>3
  <2>5. g[0] = 1
    BY <2>1, <2>4, <1>4 DEF Counted
  <2>6. ASSUME NEW s \in 1 .. n + 1 PROVE g[s] = g[s - 1] + keyCirc[s].inst
    <3>1. CASE s = n + 1
      BY <3>1, <2>1, <2>4, <1>4, <1>7 DEF stage
    <3>2. CASE s # n + 1
      <4>1. s \in 1 .. n /\ s \in 0 .. n /\ s - 1 \in 0 .. n
        BY <3>2, <1>4
      <4> QED BY <4>1, <2>1, <2>4 DEF Counted
    <3> QED BY <3>1, <3>2
  <2>7. /\ g[0] = 1
        /\ \A s \in 1 .. Len(cs'.ranges) : g[s] = g[s - 1] + keyCirc'[s].inst
        /\ cs'.inst = g[Len(cs'.ranges)] /\ phase' = "setup"
    BY <2>4, <2>5, <2>6, <1>1, <1>7
  <2> QED BY <2>7 DEF InstanceInv, Counted, Counts
<1>11. TypeOK'
  <2>1. cs' \in ConstraintSystem
    BY <1>7 DEF Partition
  <2> QED BY <2>1, <1>1, Zenon DEF TypeOK, IInv
<1> QED BY <1>1, <1>2, <1>9, <1>10, <1>11 DEF IInv

LEMMA FinishSetupKeeps ==
  ASSUME IInv, FinishSetup
  PROVE  IInv'
<1> DEFINE parts == [s \in Stages |-> Columns(cs, cs.ranges[s])]
<1>1. /\ phase = "setup" /\ Len(cs.ranges) = NumStages
      /\ key' = [inst |-> cs.inst, parts |-> parts]
      /\ phase' = "committing" /\ cs' = EmptyCs
      /\ UNCHANGED <<keyCirc, circ, curStage, comms, proof>>
  BY DEF FinishSetup
<1>2. /\ SetupInv /\ Partition(cs) /\ Allocated(cs, keyCirc)
      /\ keyCirc \in Circuits /\ circ \in Circuits
  BY <1>1 DEF IInv, SetupInv
<1>3. NumStages \in Nat \ {0} /\ 1 \in Stages
  BY CircuitsAssumption DEF Stages
<1>4. cs.ranges \in Seq(Range) /\ cs.inst \in Nat
  BY <1>2 DEF Partition, ConstraintSystem
<1>5. ASSUME NEW s \in Stages
      PROVE  /\ cs.ranges[s].start \in Nat /\ cs.ranges[s].end \in Nat
             /\ parts[s] = [start |-> cs.ranges[s].start + cs.inst,
                            end |-> cs.ranges[s].end + cs.inst]
             /\ parts[s].start = cs.ranges[s].start + cs.inst
             /\ parts[s].end = cs.ranges[s].end + cs.inst
  <2>1. cs.ranges[s] \in Range
    BY <1>1, <1>4 DEF Stages
  <2>2. cs.ranges[s].start \in Nat /\ cs.ranges[s].end \in Nat
    BY <2>1 DEF Range
  <2>3. parts[s] = [start |-> cs.ranges[s].start + cs.inst,
                    end |-> cs.ranges[s].end + cs.inst]
    BY DEF Columns
  <2> QED BY <2>2, <2>3
<1>6. parts \in [Stages -> Range]
  <2>1. ASSUME NEW s \in Stages PROVE Columns(cs, cs.ranges[s]) \in Range
    <3>1. cs.ranges[s].start \in Nat /\ cs.ranges[s].end \in Nat
      BY <1>5
    <3>2. cs.ranges[s].start + cs.inst \in Nat /\ cs.ranges[s].end + cs.inst \in Nat
      BY <3>1, <1>4
    <3>3. Columns(cs, cs.ranges[s])
            = [start |-> cs.ranges[s].start + cs.inst, end |-> cs.ranges[s].end + cs.inst]
      BY DEF Columns
    <3> QED BY <3>2, <3>3 DEF Range
  <2> QED BY <2>1
<1> HIDE DEF parts
<1>7. key'.inst = cs.inst /\ key'.parts = parts
  BY <1>1
<1>8. KeyInv'
  <2>1. key' \in [inst : Nat, parts : [Stages -> Range]]
    BY <1>1, <1>4, <1>6
  <2>2. parts[1].start = cs.inst
    <3>1. cs.ranges[1].start = 0
      BY <1>1, <1>2, <1>3 DEF Partition
    <3>2. parts[1].start = cs.ranges[1].start + cs.inst
      BY <1>3, <1>5
    <3> QED BY <3>1, <3>2, <1>4
  <2>3. ASSUME NEW s \in Stages PROVE Size(parts[s]) = keyCirc[s].wit
    <3>1. Size(cs.ranges[s]) = keyCirc[s].wit
      BY <1>1, <1>2 DEF Allocated, Stages
    <3>2. /\ cs.ranges[s].start \in Nat /\ cs.ranges[s].end \in Nat
          /\ parts[s].start = cs.ranges[s].start + cs.inst
          /\ parts[s].end = cs.ranges[s].end + cs.inst
      BY <1>5
    <3> QED BY <3>1, <3>2, <1>4 DEF Size
  <2>4. ASSUME NEW s \in 1 .. NumStages - 1 PROVE parts[s].end = parts[s + 1].start
    <3>1. s \in Stages /\ s + 1 \in Stages
      BY <1>3 DEF Stages
    <3>2. cs.ranges[s].end = cs.ranges[s + 1].start
      BY <1>1, <1>2 DEF Partition
    <3> QED BY <3>1, <3>2, <1>5
  <2>5. ASSUME NEW s \in Stages, NEW t \in Stages, s < t
        PROVE  parts[s].end <= parts[t].start
    <3>1. cs.ranges[s].end <= cs.ranges[t].start
      BY <2>5, <1>1, <1>2 DEF Partition, Stages
    <3>2. /\ cs.ranges[s].end \in Nat /\ cs.ranges[t].start \in Nat
          /\ parts[s].end = cs.ranges[s].end + cs.inst
          /\ parts[t].start = cs.ranges[t].start + cs.inst
      BY <1>5
    <3> QED BY <3>1, <3>2, <1>4
  <2> QED BY <2>1, <2>2, <2>3, <2>4, <2>5, <1>1, <1>7 DEF KeyInv
<1>9. CommittingInv'
  <2>1. Partition(cs') /\ Len(cs'.ranges) = 0 /\ curStage' = 0 /\ comms' = <<>> /\ proof' = None
    BY <1>1, <1>2, EmptyPartition DEF SetupInv
  <2>2. 0 \in 0 .. NumStages
    BY <1>3
  <2> QED BY <2>1, <2>2, <1>8 DEF CommittingInv, Allocated
<1>10. InstanceInv'
  <2>1. PICK f \in Counts : Counted(f, NumStages) /\ cs.inst = f[NumStages]
    BY <1>1 DEF IInv, InstanceInv
  <2>2. cs'.inst = 1 /\ Len(cs'.ranges) = 0
    BY <1>1, EmptyPartition
  <2>3. f[0] = 1 /\ \A s \in 1 .. NumStages : f[s] = f[s - 1] + keyCirc'[s].inst
    BY <2>1, <1>1 DEF Counted
  <2>4. key'.inst = f[NumStages] /\ cs'.inst = f[Len(cs'.ranges)] /\ phase' = "committing"
    BY <2>1, <2>2, <2>3, <1>1, <1>7
  <2> QED BY <2>3, <2>4 DEF InstanceInv, Counted, Counts
<1>11. TypeOK'
  <2>1. key' # None
    <3>1. parts \in Seq(Range)
      BY <1>3, <1>6 DEF Stages
    <3>2. key' \in [inst : Nat, parts : Seq(Range)]
      BY <3>1, <1>1, <1>4
    <3> QED BY <3>2, NoneAssumption DEF Key
  <2>2. cs' \in ConstraintSystem /\ key' \in [inst : Nat, parts : [Stages -> Range]]
    BY <1>1, <1>8, EmptyPartition DEF Partition, KeyInv
  <2>3. /\ curStage' \in 0 .. NumStages /\ Len(comms') = curStage'
        /\ \A s \in 1 .. curStage' : comms'[s].delta = s /\ comms'[s].terms \subseteq Term
    BY <1>1, <1>2, <1>3 DEF SetupInv
  <2>4. proof' = None
    BY <1>1, <1>2 DEF SetupInv
  <2> QED BY <2>1, <2>2, <2>3, <2>4, <1>1, <1>2 DEF TypeOK
<1> QED BY <1>1, <1>2, <1>9, <1>10, <1>11 DEF IInv

\* A stage as long as its part of the key is aligned with it when the stages
\* before it are.
LEMMA AlignedNext ==
  ASSUME KeyInv, NEW c, Partition(c), NEW n \in Nat, Len(c.ranges) = n + 1,
         n + 1 \in Stages, \A s \in 1 .. n : Aligned(c, s),
         Size(c.ranges[n + 1]) = circ[n + 1].wit,
         Size(c.ranges[n + 1]) = Size(key.parts[n + 1])
  PROVE  Aligned(c, n + 1)
<1> DEFINE r == c.ranges[n + 1]
           k == key.parts[n + 1]
<1>1. r \in Range /\ k \in Range /\ key.inst \in Nat
  BY DEF Partition, ConstraintSystem, KeyInv
<1>2. r.start \in Nat /\ r.end \in Nat /\ k.start \in Nat /\ k.end \in Nat
  BY <1>1 DEF Range
<1>3. k.start = r.start + key.inst
  <2>1. CASE n = 0
    <3>1. r.start = 0 /\ k.start = key.inst
      BY <2>1 DEF Partition, KeyInv
    <3> QED BY <3>1, <1>1
  <2>2. CASE n # 0
    <3>1. n \in 1 .. n /\ n \in 1 .. (n + 1) - 1 /\ n \in 1 .. NumStages - 1
      BY <2>2, CircuitsAssumption DEF Stages
    <3>2. c.ranges[n].end = r.start
      BY <3>1 DEF Partition
    <3>3. key.parts[n].end = k.start
      BY <3>1 DEF KeyInv
    <3> QED BY <3>1, <3>2, <3>3 DEF Aligned
  <2> QED BY <2>1, <2>2
<1>4. Size(k) = keyCirc[n + 1].wit
  BY DEF KeyInv
<1>5. k.end - k.start = r.end - r.start
  BY DEF Size
<1>6. circ[n + 1].wit = keyCirc[n + 1].wit
  BY <1>4
<1> HIDE DEF k, r
<1>7. k.end = r.end + key.inst
  BY <1>1, <1>2, <1>3, <1>5
<1> QED BY <1>3, <1>6, <1>7 DEF Aligned, k, r

LEMMA CommitKeeps ==
  ASSUME IInv, Commit
  PROVE  IInv'
<1> DEFINE n == curStage
           stage == circ[n + 1]
           after == Synthesize(cs, stage)
           range == CurrentRange(after)
           part  == key.parts[n + 1]
<1>1. /\ phase = "committing" /\ UNCHANGED <<keyCirc, circ, key, proof>>
      /\ CommittingInv /\ KeyInv /\ keyCirc \in Circuits /\ circ \in Circuits /\ TypeOK
  BY DEF Commit, IInv, CommittingInv
<1>2. /\ Partition(cs) /\ Allocated(cs, circ) /\ Len(cs.ranges) = n /\ Len(comms) = n
      /\ n \in Nat /\ NumStages \in Nat /\ n <= NumStages
      /\ \A s \in 1 .. n : Aligned(cs, s) /\ Committed(s)
      /\ comms \in Seq(Comm) /\ proof = None
  BY <1>1, CircuitsAssumption DEF CommittingInv
<1>3. CASE ~(n < NumStages)
  <2>1. phase' = "failed" /\ UNCHANGED <<cs, comms, curStage>>
    BY <1>3 DEF Commit
  <2>2. TypeOK'
    BY <2>1, <1>1 DEF TypeOK
  <2>3. RangesPartition'
    BY <2>1, <1>1, <1>2 DEF RangesPartition, Partition, Allocated
  <2> QED BY <2>1, <2>2, <2>3, <1>1 DEF IInv, InstanceInv
<1>4. CASE n < NumStages
  <2>1. n + 1 \in Stages
    BY <1>2, <1>4 DEF Stages
  <2>2. stage \in [wit : Nat, inst : Nat]
    BY <1>1, <2>1, CircuitType
  <2>3. cs' = after /\ range = CurrentRange(cs')
    BY <1>4 DEF Commit
  <2> HIDE DEF stage, range
  <2>4. /\ Partition(cs') /\ cs'.inst = cs.inst + stage.inst
        /\ Len(cs'.ranges) = n + 1
        /\ \A s \in 1 .. n : cs'.ranges[s] = cs.ranges[s]
        /\ Size(cs'.ranges[n + 1]) = stage.wit
        /\ range = cs'.ranges[n + 1]
    <3> DEFINE m == Len(cs.ranges)
    <3>1. /\ Partition(cs') /\ cs'.inst = cs.inst + stage.inst
          /\ Len(cs'.ranges) = m + 1
          /\ \A s \in 1 .. m : cs'.ranges[s] = cs.ranges[s]
          /\ Size(cs'.ranges[m + 1]) = stage.wit
          /\ CurrentRange(cs') = cs'.ranges[m + 1]
      BY <1>2, <2>2, <2>3, SynthesizePartition
    <3> QED BY <3>1, <2>3, <1>2
  <2>5. cs' \in ConstraintSystem
    BY <2>4 DEF Partition
  <2>6. CASE ~LengthsAgree(part, range)
    <3>1. phase' = "failed" /\ UNCHANGED <<comms, curStage>>
      BY <1>4, <2>6 DEF Commit, range, stage
    <3>2. TypeOK'
      BY <3>1, <2>5, <1>1 DEF TypeOK
    <3>3. \A s \in 1 .. curStage' : Size(cs'.ranges[s]) = circ'[s].wit
      BY <3>1, <2>4, <1>1, <1>2 DEF Allocated
    <3>4. RangesPartition'
      BY <3>3, <2>4 DEF RangesPartition, Partition
    <3> QED BY <3>1, <3>2, <3>4, <1>1 DEF IInv, InstanceInv
  <2>7. CASE LengthsAgree(part, range)
    <3> DEFINE com == [delta |-> n + 1, terms |-> Msm(part, range)]
    <3>1. /\ comms' = Append(comms, com) /\ curStage' = n + 1 /\ phase' = "committing"
      BY <1>1, <1>4, <2>7 DEF Commit, NextStage, range, stage
    <3>2. part \in Range /\ range \in Range
      <4>1. key.parts \in [Stages -> Range]
        BY <1>1 DEF KeyInv
      <4>2. cs'.ranges \in Seq(Range) /\ n + 1 \in 1 .. Len(cs'.ranges)
        BY <2>4, <1>2 DEF Partition, ConstraintSystem
      <4> QED BY <4>1, <4>2, <2>1, <2>4
    <3>3. com \in Comm
      BY <3>2, <1>2, MsmType DEF Comm
    <3>a. com.delta = n + 1 /\ com.terms = Msm(part, range)
      OBVIOUS
    <3> HIDE DEF com
    <3>4. /\ comms' \in Seq(Comm) /\ Len(comms') = n + 1
          /\ \A s \in 1 .. n : comms'[s] = comms[s]
          /\ comms'[n + 1] = com
      BY <1>2, <3>1, <3>3, AppendFacts
    <3>5. \A s \in 1 .. n : Aligned(cs', s)
      BY <1>2, <2>4 DEF Aligned
    <3>6. Aligned(cs', n + 1)
      BY <1>1, <1>2, <2>1, <2>4, <2>7, <3>5, AlignedNext DEF LengthsAgree, stage
    <3>7. ASSUME NEW s \in 1 .. n + 1
          PROVE  /\ Aligned(cs, s)' /\ Committed(s)'
                 /\ Size(cs'.ranges[s]) = circ[s].wit
      <4>1. CASE s = n + 1
        <5>1. Aligned(cs, s)'
          BY <4>1, <3>6, <1>1 DEF Aligned
        <5>2. Committed(s)'
          BY <4>1, <3>4, <1>1, <2>4 DEF Committed, com
        <5> QED BY <5>1, <5>2, <4>1, <2>4 DEF stage
      <4>2. CASE s # n + 1
        <5>1. s \in 1 .. n
          BY <4>2, <1>2
        <5>2. Aligned(cs, s)'
          BY <5>1, <3>5, <1>1 DEF Aligned
        <5>3. Committed(s)'
          BY <5>1, <1>1, <1>2, <2>4, <3>4 DEF Committed
        <5>4. Size(cs'.ranges[s]) = circ[s].wit
          BY <5>1, <1>2, <2>4 DEF Allocated
        <5> QED BY <5>2, <5>3, <5>4
      <4> QED BY <4>1, <4>2
    <3>8. CommittingInv'
      <4>1. KeyInv'
        BY <1>1 DEF KeyInv
      <4>2. Allocated(cs, circ)'
        BY <3>7, <2>4, <1>1 DEF Allocated
      <4>3. curStage' \in 0 .. NumStages
        BY <3>1, <1>2, <1>4
      <4> QED BY <4>1, <4>2, <4>3, <3>1, <3>4, <3>7, <2>4, <1>1, <1>2 DEF CommittingInv
    <3>9. InstanceInv'
      <4>1. PICK f \in Counts : /\ Counted(f, NumStages) /\ key.inst = f[NumStages]
                                /\ circ = keyCirc => cs.inst = f[n]
        BY <1>1, <1>2 DEF IInv, InstanceInv
      <4>2. circ = keyCirc => cs'.inst = f[n + 1]
        <5> SUFFICES ASSUME circ = keyCirc PROVE cs'.inst = f[n + 1]
          OBVIOUS
        <5>1. f[n + 1] = f[n] + keyCirc[n + 1].inst
          BY <4>1, <2>1, <1>2 DEF Counted, Stages
        <5> QED BY <4>1, <5>1, <2>4 DEF stage
      <4>3. Counted(f, NumStages)'
        BY <4>1, <1>1 DEF Counted
      <4> QED BY <4>1, <4>2, <4>3, <3>1, <2>4, <1>1 DEF InstanceInv
    <3>10. TypeOK'
      <4>1. curStage' \in 0 .. NumStages /\ Len(comms') = curStage'
        BY <3>1, <3>4, <1>2, <1>4
      <4>2. ASSUME NEW s \in 1 .. curStage'
            PROVE  comms'[s].delta = s /\ comms'[s].terms \subseteq Term
        <5>1. CASE s = n + 1
          BY <5>1, <3>4, <3>3, <3>a DEF Comm
        <5>2. CASE s # n + 1
          <6>1. s \in 1 .. curStage /\ comms'[s] = comms[s]
            BY <5>2, <3>1, <3>4, <1>2
          <6> QED BY <6>1, <1>1 DEF TypeOK
        <5> QED BY <5>1, <5>2
      <4> QED BY <4>1, <4>2, <2>5, <3>1, <1>1 DEF TypeOK
    <3> QED BY <3>1, <3>8, <3>9, <3>10, <1>1 DEF IInv
  <2> QED BY <2>6, <2>7
<1> QED BY <1>3, <1>4

LEMMA ProveKeeps ==
  ASSUME IInv, Prove
  PROVE  IInv'
<1> DEFINE n == Len(cs.ranges)
           stage == circ[NumStages]
           after == Synthesize(cs, stage)
           range == CurrentRange(after)
           part  == key.parts[NumStages]
           last  == IF Size(range) = Size(part) THEN Msm(part, range) ELSE {}
<1>1. /\ phase = "committing" /\ UNCHANGED <<keyCirc, circ, key, curStage, comms>>
      /\ CommittingInv /\ KeyInv /\ keyCirc \in Circuits /\ circ \in Circuits /\ TypeOK
  BY DEF Prove, IInv, CommittingInv
<1>2. /\ Partition(cs) /\ Allocated(cs, circ) /\ n = curStage /\ Len(comms) = n
      /\ n \in Nat /\ n <= NumStages
      /\ \A s \in 1 .. n : Aligned(cs, s) /\ Committed(s)
      /\ comms \in Seq(Comm) /\ proof = None
  BY <1>1 DEF CommittingInv
<1>3. NumStages \in Nat \ {0} /\ NumStages \in Stages
  BY CircuitsAssumption DEF Stages
<1>4. stage \in [wit : Nat, inst : Nat]
  BY <1>1, <1>3, CircuitType
<1>5. cs' = after /\ range = CurrentRange(cs')
  BY DEF Prove
<1> HIDE DEF stage, range
<1>6. /\ Partition(cs') /\ cs'.inst = cs.inst + stage.inst
      /\ Len(cs'.ranges) = n + 1
      /\ \A s \in 1 .. n : cs'.ranges[s] = cs.ranges[s]
      /\ Size(cs'.ranges[n + 1]) = stage.wit
      /\ range = cs'.ranges[n + 1]
  BY <1>2, <1>4, <1>5, SynthesizePartition
<1>7. cs' \in ConstraintSystem
  BY <1>6 DEF Partition
<1>8. CASE ~CountAgrees
  <2>1. phase' = "failed" /\ proof' = proof
    BY <1>8 DEF Prove
  <2>2. TypeOK'
    BY <2>1, <1>1, <1>7 DEF TypeOK
  <2>3. \A s \in 1 .. curStage' : Size(cs'.ranges[s]) = circ'[s].wit
    BY <1>1, <1>2, <1>6 DEF Allocated
  <2>4. RangesPartition'
    BY <2>3, <1>6 DEF RangesPartition, Partition
  <2> QED BY <2>1, <2>2, <2>4, <1>1 DEF IInv, InstanceInv
<1>9. CASE CountAgrees
  <2>1. phase' = "proved" /\ proof' = [ds |-> comms, inst |-> cs'.inst, last |-> last]
    BY <1>5, <1>9 DEF Prove, range, stage
  <2>2. n + 1 = NumStages
    BY <1>2, <1>3, <1>9 DEF CountAgrees
  <2>3. ASSUME NEW s \in 1 .. curStage PROVE Aligned(cs, s)' /\ Committed(s)'
    <3>1. s \in 1 .. n /\ cs'.ranges[s] = cs.ranges[s]
      BY <1>2, <1>6
    <3>2. Aligned(cs, s) /\ Committed(s)
      BY <3>1, <1>2
    <3> QED BY <3>1, <3>2, <1>1 DEF Aligned, Committed
  <2>4. ASSUME NEW s \in Stages PROVE Size(cs'.ranges[s]) = circ[s].wit
    <3>1. CASE s = NumStages
      BY <3>1, <2>2, <1>6 DEF stage
    <3>2. CASE s # NumStages
      <4>1. s \in 1 .. n
        BY <3>2, <2>2, <1>3 DEF Stages
      <4> QED BY <4>1, <1>2, <1>6 DEF Allocated
    <3> QED BY <3>1, <3>2
  <2>5. ProvedInv'
    <3>1. KeyInv'
      BY <1>1 DEF KeyInv
    <3>2. Allocated(cs, circ)'
      BY <2>2, <2>4, <1>1, <1>6 DEF Allocated, Stages
    <3>3. curStage' = NumStages - 1 /\ Len(cs'.ranges) = NumStages /\ Len(comms') = curStage'
      BY <2>2, <1>1, <1>2, <1>3, <1>6
    <3>4. proof' = [ds |-> comms', inst |-> cs'.inst,
                    last |-> IF Size(cs'.ranges[NumStages]) = Size(key'.parts[NumStages])
                             THEN Msm(key'.parts[NumStages], cs'.ranges[NumStages]) ELSE {}]
      BY <2>1, <2>2, <1>1, <1>6
    <3> QED BY <3>1, <3>2, <3>3, <3>4, <2>3, <1>1, <1>2, <1>6 DEF ProvedInv
  <2>6. InstanceInv'
    <3>1. PICK f \in Counts : /\ Counted(f, NumStages) /\ key.inst = f[NumStages]
                              /\ circ = keyCirc => cs.inst = f[n]
      BY <1>1 DEF IInv, InstanceInv
    <3>2. circ = keyCirc => cs'.inst = f[n + 1]
      <4> SUFFICES ASSUME circ = keyCirc PROVE cs'.inst = f[n + 1]
        OBVIOUS
      <4>1. f[n + 1] = f[n] + keyCirc[n + 1].inst
        BY <3>1, <2>2, <1>2, <1>3 DEF Counted
      <4> QED BY <3>1, <4>1, <2>2, <1>6 DEF stage
    <3>3. Counted(f, NumStages)'
      BY <3>1, <1>1 DEF Counted
    <3> QED BY <3>1, <3>2, <3>3, <2>1, <1>6, <1>1 DEF InstanceInv
  <2>7. TypeOK'
    <3>1. proof' # None
      <4>1. last \in SUBSET Term
        <5>1. key.parts \in [Stages -> Range]
          BY <1>1 DEF KeyInv
        <5>2. cs'.ranges \in Seq(Range) /\ n + 1 \in 1 .. Len(cs'.ranges)
          BY <1>2, <1>6, <1>7 DEF ConstraintSystem
        <5>3. part \in Range /\ range \in Range
          BY <5>1, <5>2, <1>3, <1>6
        <5> QED BY <5>3, MsmType
      <4>2. cs'.inst \in Nat
        BY <1>7 DEF ConstraintSystem
      <4> QED BY <4>1, <4>2, <2>1, <1>2, NoneAssumption DEF Proof
    <3> QED BY <3>1, <2>1, <1>1, <1>7 DEF TypeOK
  <2> QED BY <2>1, <2>5, <2>6, <2>7, <1>1 DEF IInv
<1> QED BY <1>8, <1>9

LEMMA SynthesisErrorKeeps ==
  ASSUME IInv, SynthesisError
  PROVE  IInv'
<1>1. /\ phase = "committing" /\ phase' = "failed"
      /\ UNCHANGED <<keyCirc, circ, key, curStage, comms, proof>>
      /\ keyCirc \in Circuits /\ circ \in Circuits /\ TypeOK
  BY DEF SynthesisError, IInv
<1>2. PICK s \in {curStage + 1, NumStages} \cap Stages :
        \E wit \in 0 .. circ[s].wit, inst \in 0 .. circ[s].inst :
          cs' = SynthesizeFailing(cs, wit, inst)
  BY DEF SynthesisError
<1>3. PICK wit \in 0 .. circ[s].wit, inst \in 0 .. circ[s].inst :
        cs' = SynthesizeFailing(cs, wit, inst)
  BY <1>2
<1>4. wit \in Nat /\ inst \in Nat
  BY <1>1, <1>3, CircuitType
<1>5. cs.wit \in Nat /\ cs.inst \in Nat /\ cs.ranges \in Seq(Range)
  BY <1>1 DEF TypeOK, ConstraintSystem
<1> DEFINE q == Append(cs.ranges, [start |-> cs.wit, end |-> cs.wit])
<1>6. q \in Seq(Range)
  <2>1. [start |-> cs.wit, end |-> cs.wit] \in Range
    BY <1>5 DEF Range
  <2> QED BY <2>1, <1>5
<1> HIDE DEF q
<1>7. /\ InitializeStage(cs).wit = cs.wit /\ InitializeStage(cs).inst = cs.inst
      /\ InitializeStage(cs).ranges = q
  <2>1. InitializeStage(cs) = [cs EXCEPT !.ranges = q]
    BY DEF InitializeStage, q
  <2>2. cs \in ConstraintSystem
    BY <1>1 DEF TypeOK
  <2> QED BY <2>1, <2>2 DEF ConstraintSystem
<1>8. cs' = [wit |-> cs.wit + wit, inst |-> cs.inst + inst, ranges |-> q]
  BY <1>3, <1>7, Zenon DEF SynthesizeFailing, Allocate
<1>9. cs' \in ConstraintSystem
  <2>1. cs.wit + wit \in Nat /\ cs.inst + inst \in Nat
    BY <1>4, <1>5
  <2> QED BY <2>1, <1>6, <1>8 DEF ConstraintSystem
<1>10. TypeOK'
  <2>1. proof = None
    BY <1>1 DEF TypeOK
  <2> QED BY <2>1, <1>1, <1>9 DEF TypeOK
\* The ranges are those of a stage that allocates nothing.
<1>11. RangesPartition'
  <2> DEFINE n     == Len(cs.ranges)
             stage == [wit |-> 0, inst |-> 0]
             after == Synthesize(cs, stage)
  <2>1. CommittingInv /\ Partition(cs) /\ Allocated(cs, circ) /\ n = curStage
    BY <1>1 DEF IInv, CommittingInv
  <2>2. stage \in [wit : Nat, inst : Nat]
    OBVIOUS
  <2>3. after.ranges = q
    <3>1. cs.wit + stage.wit = cs.wit
      BY <1>5
    <3>2. after.ranges = Append(cs.ranges, [start |-> cs.wit, end |-> cs.wit + stage.wit])
      BY <2>1, <2>2, SynthesizeResult DEF Partition
    <3> QED BY <3>1, <3>2 DEF q
  <2>4. /\ Partition(after) /\ after.wit = cs.wit /\ n \in Nat
        /\ Len(after.ranges) = n + 1
        /\ \A r \in 1 .. n : after.ranges[r] = cs.ranges[r]
        /\ after.ranges[n + 1] = [start |-> cs.wit, end |-> cs.wit]
    <3>1. cs.wit + stage.wit = cs.wit
      BY <1>5
    <3> HIDE DEF stage, after
    <3>2. /\ Partition(after) /\ after.wit = cs.wit + stage.wit /\ n \in Nat
          /\ Len(after.ranges) = n + 1
          /\ \A r \in 1 .. n : after.ranges[r] = cs.ranges[r]
          /\ after.ranges[n + 1] = [start |-> cs.wit, end |-> cs.wit + stage.wit]
      BY <2>1, <2>2, SynthesizePartition DEF after
    <3> QED BY <3>1, <3>2
  <2> HIDE DEF after
  <2>5. cs'.ranges = after.ranges /\ cs'.wit = cs.wit + wit
    BY <1>8, <2>3
  <2>6. /\ CurrentRange(cs') = after.ranges[n + 1]
        /\ Size(CurrentRange(cs')) = 0 /\ CurrentRange(cs').start = cs.wit
    BY <1>5, <2>4, <2>5 DEF CurrentRange, Size
  <2>7. ASSUME NEW v \in 0 .. cs'.wit - 1
        PROVE  \/ \E r \in 1 .. Len(cs'.ranges) :
                    cs'.ranges[r].start <= v /\ v < cs'.ranges[r].end
               \/ cs.wit <= v
    <3>1. CASE v < cs.wit
      <4>1. v \in 0 .. after.wit - 1
        BY <3>1, <1>5, <2>4
      <4> QED BY <4>1, <2>4, <2>5 DEF Partition
    <3>2. CASE ~(v < cs.wit)
      BY <3>2, <1>4, <1>5, <2>5
    <3> QED BY <3>1, <3>2
  <2>8. \A r \in 1 .. curStage' : Size(cs'.ranges[r]) = circ'[r].wit
    BY <1>1, <2>1, <2>4, <2>5 DEF Allocated
  <2>9. /\ \A r \in 1 .. Len(cs'.ranges) - 1 : cs'.ranges[r].end = cs'.ranges[r + 1].start
        /\ \A r, t \in 1 .. Len(cs'.ranges) : r < t => cs'.ranges[r].end <= cs'.ranges[t].start
    BY <2>4, <2>5 DEF Partition
  <2> QED BY <1>1, <2>6, <2>7, <2>8, <2>9 DEF RangesPartition
<1> QED BY <1>1, <1>10, <1>11 DEF IInv, InstanceInv

LEMMA NextIInv == IInv /\ [Next]_vars => IInv'
<1> SUFFICES ASSUME IInv, [Next]_vars PROVE IInv'
  OBVIOUS
<1>1. CASE SetupStage
  BY <1>1, SetupStageKeeps
<1>2. CASE FinishSetup
  BY <1>2, FinishSetupKeeps
<1>3. CASE Commit
  BY <1>3, CommitKeeps
<1>4. CASE Prove
  BY <1>4, ProveKeeps
<1>5. CASE SynthesisError
  BY <1>5, SynthesisErrorKeeps
<1>6. CASE UNCHANGED vars
  <2>1. UNCHANGED <<phase, keyCirc, circ, cs, key, curStage, comms, proof>>
    BY <1>6 DEF vars
  <2> QED BY <2>1 DEF IInv, SetupInv, CommittingInv, ProvedInv, InstanceInv, TypeOK,
                      Partition, Allocated, KeyInv, Aligned, Committed, Counted,
                      RangesPartition
<1> QED BY <1>1, <1>2, <1>3, <1>4, <1>5, <1>6 DEF Next, Terminated

-----------------------------------------------------------------------------
(* The theorems.                                                            *)

\* The invariant holds in every state of key generation and of the builder.
THEOREM BuilderInvariant == Spec => []IInv
BY InitIInv, NextIInv, PTL DEF Spec

\* The constraint system, the key and the commitments keep their types.
THEOREM BuilderTypeCorrect == Spec => []TypeOK
<1>1. IInv => TypeOK
  BY DEF IInv
<1> QED BY <1>1, BuilderInvariant, PTL

\* The ranges kept by initialize_stage and finalize_stage partition the witness
\* variables; a stage that fails loses its own and no other's.
THEOREM BuilderRangesPartition == Spec => []RangesPartition
<1>1. IInv => RangesPartition
  <2> SUFFICES ASSUME IInv PROVE RangesPartition
    OBVIOUS
  <2>1. CASE phase = "failed"
    BY <2>1 DEF IInv
  <2>2. CASE phase = "setup"
    <3>1. Partition(cs) /\ curStage = 0
      BY <2>2 DEF IInv, SetupInv
    <3> QED BY <3>1 DEF Partition, RangesPartition
  <2>3. CASE phase \in {"committing", "proved"}
    <3>1. /\ Partition(cs) /\ Allocated(cs, circ)
          /\ \A s \in 1 .. curStage : s \in 1 .. Len(cs.ranges)
      BY <2>3, CircuitsAssumption DEF IInv, CommittingInv, ProvedInv
    <3> QED BY <3>1 DEF Partition, Allocated, RangesPartition
  <2> QED BY <2>1, <2>2, <2>3 DEF IInv
<1> QED BY <1>1, BuilderInvariant, PTL

\* prove returns a proof only after commit ran every stage before the last one,
\* once, and found it as long as the key's.
THEOREM BuilderStagesMatchKey == Spec => []StagesMatchKey
<1>1. IInv => StagesMatchKey
  <2> SUFFICES ASSUME IInv, phase = "proved"
               PROVE  /\ Len(cs.ranges) = NumStages
                      /\ \A s \in Stages : Size(cs.ranges[s]) = circ[s].wit
                      /\ \A s \in 1 .. NumStages - 1 : circ[s].wit = keyCirc[s].wit
    BY DEF StagesMatchKey
  <2>1. ProvedInv
    BY DEF IInv
  <2> QED BY <2>1 DEF ProvedInv, Allocated, Aligned, Stages
<1> QED BY <1>1, BuilderInvariant, PTL

\* In a proof of the key's circuit the last stage too is aligned, and every part
\* pairs the columns of the key with the variables of the stage.
LEMMA ProofParts ==
  ASSUME IInv, phase = "proved", circ = keyCirc, NEW s \in Stages
  PROVE  Aligned(cs, s) /\ Part(proof, s) = Msm(key.parts[s], cs.ranges[s])
<1>1. ProvedInv /\ KeyInv /\ NumStages \in Nat \ {0}
  BY CircuitsAssumption DEF IInv, ProvedInv
<1>2. proof = [ds |-> comms, inst |-> cs.inst,
               last |-> IF Size(cs.ranges[NumStages]) = Size(key.parts[NumStages])
                        THEN Msm(key.parts[NumStages], cs.ranges[NumStages]) ELSE {}]
  BY <1>1 DEF ProvedInv
<1>3. CASE s # NumStages
  <2>1. s \in 1 .. curStage
    BY <1>1, <1>3 DEF ProvedInv, Stages
  <2>2. Aligned(cs, s) /\ Committed(s)
    BY <1>1, <2>1 DEF ProvedInv
  <2>3. Part(proof, s) = comms[s].terms
    BY <1>2, <1>3 DEF Part
  <2> QED BY <2>2, <2>3 DEF Committed
<1>4. CASE s = NumStages
  <2> DEFINE n == NumStages - 1
  <2>1. n \in Nat /\ Len(cs.ranges) = n + 1 /\ n + 1 = s
    BY <1>1, <1>4 DEF ProvedInv
  <2>2. Partition(cs) /\ \A t \in 1 .. n : Aligned(cs, t)
    BY <1>1 DEF ProvedInv
  <2>3. Size(cs.ranges[s]) = circ[s].wit /\ Size(cs.ranges[s]) = Size(key.parts[s])
    BY <1>1, <2>1 DEF ProvedInv, KeyInv, Allocated
  <2> HIDE DEF n
  <2>4. Aligned(cs, n + 1)
    BY <1>1, <2>1, <2>2, <2>3, AlignedNext
  <2>5. Part(proof, s) = Msm(key.parts[s], cs.ranges[s])
    BY <1>2, <1>4, <2>3 DEF Part
  <2> QED BY <2>1, <2>4, <2>5
<1> QED BY <1>3, <1>4

\* The terms of an aligned part: the columns of the part, each with its variable.
LEMMA AlignedTerms ==
  ASSUME KeyInv, Partition(cs), NEW s \in Stages, Len(cs.ranges) = NumStages, Aligned(cs, s)
  PROVE  /\ key.parts[s].start \in Nat /\ key.parts[s].end \in Nat /\ key.inst \in Nat
         /\ \A t \in Msm(key.parts[s], cs.ranges[s]) :
              /\ t.col \in key.parts[s].start .. key.parts[s].end - 1
              /\ t.var = t.col - key.inst
         /\ \A c \in key.parts[s].start .. key.parts[s].end - 1 :
              \E t \in Msm(key.parts[s], cs.ranges[s]) : t.col = c
<1> DEFINE k == key.parts[s]
           r == cs.ranges[s]
<1>1. k \in Range /\ key.inst \in Nat
  BY DEF KeyInv
<1>2. r \in Range
  BY DEF Partition, ConstraintSystem, Stages
<1>3. k.start \in Nat /\ k.end \in Nat /\ r.start \in Nat /\ r.end \in Nat
  BY <1>1, <1>2 DEF Range
<1>4. k.start = r.start + key.inst /\ k.end = r.end + key.inst
  BY DEF Aligned
<1> HIDE DEF k, r
<1>5. ASSUME NEW t \in Msm(k, r)
      PROVE  t.col \in k.start .. k.end - 1 /\ t.var = t.col - key.inst
  <2>1. PICK j \in 0 .. Size(r) - 1 : t = [col |-> k.start + j, var |-> r.start + j]
    BY DEF Msm
  <2>2. j \in 0 .. (r.end - r.start) - 1
    BY DEF Size
  <2>3. t.col = k.start + j /\ t.var = r.start + j
    BY <2>1
  <2>4. t.col \in k.start .. k.end - 1
    <3>1. r.end - r.start = k.end - k.start
      BY <1>1, <1>3, <1>4
    <3>2. j \in 0 .. (k.end - k.start) - 1
      BY <2>2, <3>1
    <3>3. k.start + j \in k.start .. k.end - 1
      BY <3>2, <1>3
    <3> QED BY <2>3, <3>3
  <2>5. t.var = t.col - key.inst
    BY <2>2, <2>3, <1>1, <1>3, <1>4
  <2> QED BY <2>4, <2>5
<1>6. ASSUME NEW c \in k.start .. k.end - 1
      PROVE  \E t \in Msm(k, r) : t.col = c
  <2> DEFINE j == c - k.start
             t == [col |-> k.start + j, var |-> r.start + j]
  <2>1. j \in 0 .. (r.end - r.start) - 1 /\ k.start + j = c
    <3>1. c \in Int /\ k.start <= c /\ c <= k.end - 1
      BY <1>6, <1>3
    <3>2. key.inst \in Nat /\ k.end - k.start = r.end - r.start
      BY <1>1, <1>3, <1>4
    <3>3. k.start + j = c /\ j \in Int /\ 0 <= j /\ j <= (k.end - k.start) - 1
      BY <3>1, <1>3
    <3> HIDE DEF j
    <3> QED BY <3>2, <3>3, <1>3
  <2> HIDE DEF j
  <2>2. t \in Msm(k, r)
    BY <2>1 DEF Msm, Size
  <2>3. t.col = c
    BY <2>1
  <2> QED BY <2>2, <2>3
<1> QED BY <1>1, <1>3, <1>5, <1>6 DEF k, r

\* commit and prove account for every witness once, in its column: what they
\* make of a circuit like the key's passes verify_proof.
THEOREM BuilderProofVerifies == Spec => []ProofVerifies
<1>1. IInv => ProofVerifies
  <2> SUFFICES ASSUME IInv, phase = "proved", circ = keyCirc
               PROVE  Verifies(proof)
    BY DEF ProofVerifies
  <2>1. /\ ProvedInv /\ KeyInv /\ Partition(cs) /\ Len(cs.ranges) = NumStages
        /\ NumStages \in Nat \ {0}
    BY CircuitsAssumption DEF IInv, ProvedInv
  <2>2. proof.ds = comms /\ proof.inst = cs.inst
    BY <2>1 DEF ProvedInv
  <2>3. proof.inst = key.inst
    <3>1. PICK f \in Counts : /\ key.inst = f[NumStages]
                              /\ circ = keyCirc => cs.inst = f[Len(cs.ranges)]
      BY DEF IInv, InstanceInv
    <3> QED BY <3>1, <2>1, <2>2
  <2>4. Len(proof.ds) = NumStages - 1
    BY <2>1, <2>2 DEF ProvedInv
  <2>5. \A s \in 1 .. NumStages - 1 : proof.ds[s].delta = s
    <3> TAKE s \in 1 .. NumStages - 1
    <3>1. Committed(s)
      BY <2>1 DEF ProvedInv
    <3>2. comms[s] = [delta |-> s, terms |-> Msm(key.parts[s], cs.ranges[s])]
      BY <3>1 DEF Committed
    <3> QED BY <2>2, <3>2
  <2>6. ASSUME NEW s \in Stages
        PROVE  /\ key.parts[s].start \in Nat /\ key.parts[s].end \in Nat
               /\ \A t \in Part(proof, s) :
                    /\ t.col \in key.parts[s].start .. key.parts[s].end - 1
                    /\ t.var = t.col - key.inst
               /\ \A c \in key.parts[s].start .. key.parts[s].end - 1 :
                    \E t \in Part(proof, s) : t.col = c
    <3>1. Aligned(cs, s) /\ Part(proof, s) = Msm(key.parts[s], cs.ranges[s])
      BY ProofParts
    <3> QED BY <3>1, <2>1, AlignedTerms
  <2>7. ASSUME NEW s \in Stages, NEW t \in Part(proof, s),
               NEW r \in Stages, r # s, NEW u \in Part(proof, r)
        PROVE  u.col # t.col
    <3>1. /\ t.col \in key.parts[s].start .. key.parts[s].end - 1
          /\ u.col \in key.parts[r].start .. key.parts[r].end - 1
          /\ key.parts[s].start \in Nat /\ key.parts[s].end \in Nat
          /\ key.parts[r].start \in Nat /\ key.parts[r].end \in Nat
      BY <2>6
    <3>2. s < r \/ r < s
      BY <2>7, <2>1 DEF Stages
    <3>3. key.parts[s].end <= key.parts[r].start \/ key.parts[r].end <= key.parts[s].start
      BY <3>2, <2>1 DEF KeyInv
    <3> QED BY <3>1, <3>3
  <2> QED BY <2>3, <2>4, <2>5, <2>6, <2>7 DEF Verifies
<1> QED BY <1>1, BuilderInvariant, PTL

\* A proof whose last witnesses are not as many as the key's last columns is
\* refused (prover.rs puts a zero in their place): of the columns at least one is
\* paired with no witness.
THEOREM BuilderShortProofRefused == Spec => []ShortProofRefused
<1>1. IInv => ShortProofRefused
  <2> SUFFICES ASSUME IInv, phase = "proved",
                      keyCirc[NumStages].wit \notin {0, circ[NumStages].wit}
               PROVE  ~Verifies(proof)
    BY DEF ShortProofRefused
  <2> DEFINE part == key.parts[NumStages]
  <2>1. ProvedInv /\ KeyInv /\ NumStages \in Stages
    BY CircuitsAssumption DEF IInv, ProvedInv, Stages
  <2>2. keyCirc[NumStages].wit \in Nat
    BY <2>1, CircuitsAssumption DEF IInv
  <2>3. part.start \in Nat /\ part.end \in Nat /\ part.end - part.start = keyCirc[NumStages].wit
    BY <2>1 DEF KeyInv, Range, Size
  <2>4. Size(cs.ranges[NumStages]) = circ[NumStages].wit
    BY <2>1 DEF ProvedInv, Allocated, Stages
  <2>5. Part(proof, NumStages) = {}
    BY <2>1, <2>3, <2>4 DEF ProvedInv, Part, Size
  <2>6. part.start \in part.start .. part.end - 1
    BY <2>2, <2>3
  <2> QED BY <2>1, <2>5, <2>6 DEF Verifies
<1> QED BY <1>1, BuilderInvariant, PTL
=============================================================================
