--------------------------- MODULE FileProof_proofs ---------------------------
(***************************************************************************)
(* Theorems about the file-based prover: what a final proof is about,      *)
(* whoever died and whatever lay on the disk; that an undisturbed session  *)
(* delivers; and that a session of a script that cleans up is a proof      *)
(* session.  They hold for every number of subcircuits, sessions and every *)
(* way to share keys.                                                      *)
(***************************************************************************)
EXTENDS FileProof, FiniteSetTheorems, WellFoundedInduction, TLAPS

-----------------------------------------------------------------------------
(* Who writes what, and when.                                               *)

Phase == {"keys", "stage0", "work0", "stage1", "work1", "end", "over"}

\* The kinds of files written in a phase, and those written before it.
Kinds(ph) ==
  CASE ph = "keys"   -> {"test_circ_params", "g16_pk", "agg_ck"}
    [] ph = "stage0" -> {"stage0_req", "stage0_coordinator_state"}
    [] ph = "work0"  -> {"stage0_resp"}
    [] ph = "stage1" -> {"stage1_req", "final_aggregator_state"}
    [] ph = "work1"  -> {"stage1_resp"}
    [] ph = "end"    -> {"agg_proof"}
    [] ph = "over"   -> {}

DoneKinds(ph) ==
  CASE ph = "keys"   -> {}
    [] ph = "stage0" -> Kinds("keys")
    [] ph = "work0"  -> Kinds("keys") \cup Kinds("stage0")
    [] ph = "stage1" -> Kinds("keys") \cup Kinds("stage0") \cup Kinds("work0")
    [] ph = "work1"  -> Kinds("keys") \cup Kinds("stage0") \cup Kinds("work0") \cup Kinds("stage1")
    [] ph = "end"    -> Kinds("keys") \cup Kinds("stage0") \cup Kinds("work0") \cup Kinds("stage1")
                          \cup Kinds("work1")
    [] ph = "over"   -> Kinds("keys") \cup Kinds("stage0") \cup Kinds("work0") \cup Kinds("stage1")
                          \cup Kinds("work1") \cup Kinds("end")

\* The process that writes f.
Maker(f) == IF f[1] \in {"stage0_resp", "stage1_resp"} THEN f[2] ELSE 0

\* What process p of a phase writes.
Outputs(ph, p) == {f \in File : f[1] \in Kinds(ph) /\ Maker(f) = p}

\* A key file that is a link.
IsLink(f) == f[1] = "g16_pk" /\ f[2] # FirstOf(f[2])

\* The process that writes f has been through with it, or has died.
Settled(f) ==
  \/ f[1] \in DoneKinds(phase)
  \/ f[1] \in Kinds(phase) /\ status[Maker(f)] # "waiting" /\ f \notin DOMAIN writes[Maker(f)]

-----------------------------------------------------------------------------
(* What the files hold.                                                     *)

Content(f) ==
  CASE f[1] = "test_circ_params"                             -> Params
    [] f[1] \in {"g16_pk", "agg_ck"}                         -> Key
    [] f[1] \in {"stage0_req", "stage0_coordinator_state"}   -> Traced
    [] f[1] = "stage0_resp"                                  -> Com
    [] f[1] \in {"stage1_req", "final_aggregator_state"}     -> Request1
    [] f[1] = "stage1_resp"                                  -> Proof
    [] f[1] = "agg_proof"                                    -> Agg

\* What each file holds that is made of nothing but files of session s.
ComOf(i, s)   == [sub |-> i, circ |-> s, key |-> s, seed |-> s]
SuperOf(s)    == [coms |-> [i \in Subcircuit |-> ComOf(i, s)], ck |-> s]
ProofMade(i, s) == [com |-> ComOf(i, s), circ |-> s, super |-> SuperOf(s), valid |-> TRUE]

Expected(f, s) ==
  CASE f[1] = "test_circ_params"                             -> [subcircuits |-> NumSubcircuits]
    [] f[1] \in {"g16_pk", "agg_ck"}                         -> [key |-> s]
    [] f[1] \in {"stage0_req", "stage0_coordinator_state"}   -> [circ |-> s]
    [] f[1] = "stage0_resp"                                  -> ComOf(f[2], s)
    [] f[1] \in {"stage1_req", "final_aggregator_state"}     -> [circ |-> s, super |-> SuperOf(s)]
    [] f[1] = "stage1_resp"                                  -> ProofMade(f[2], s)
    [] f[1] = "agg_proof" ->
         [ck |-> s, super |-> SuperOf(s), proofs |-> [i \in Subcircuit |-> ProofMade(i, s)]]

\* A final proof of one circuit, under one set of keys.
OneCircuitIn(a) ==
  /\ a.super.ck = a.ck
  /\ \E c \in Session : \A i \in Subcircuit :
       /\ a.proofs[i].valid /\ a.proofs[i].circ = c /\ a.proofs[i].super = a.super
       /\ a.proofs[i].com = a.super.coms[i] /\ a.proofs[i].com.circ = c
       /\ a.proofs[i].com.key = a.ck

\* What holds of content c of file f in any session: a worker knows whether its
\* proof is valid, and a debug build asserts the equations.
Sound(f, c) ==
  /\ c \in Content(f)
  /\ f[1] = "stage1_resp" => c.valid = (c.com.circ = c.circ)
  /\ f[1] = "agg_proof" /\ script.debug => OneCircuitIn(c)

-----------------------------------------------------------------------------
(* The inductive invariant.                                                 *)

Undisturbed == ~crashed /\ ~LinksFail

ProcessInv ==
  /\ script \in Scripts /\ session \in Session /\ phase \in Phase /\ crashed \in BOOLEAN
  /\ linked \subseteq Subcircuit
  /\ status \in [Processes -> {"waiting", "running", "exited"}]
  /\ writes = [p \in Processes |-> writes[p]]
  /\ \A p \in Processes :
       /\ status[p] # "waiting" => p \in Procs(phase) /\ phase # "over"
       /\ DOMAIN writes[p] # {} => status[p] = "running"
       /\ DOMAIN writes[p] \subseteq Outputs(phase, p)

\* A process writes what is sound, and links where there are links; so the disk
\* holds nothing else, from whatever session it is.
ContentInv ==
  /\ disk = [f \in File |-> disk[f]]
  /\ \A i \in linked : IsLink(<<"g16_pk", i>>)
  /\ \A f \in File :
       /\ ~Absent(disk[f]) => Sound(f, disk[f])
       /\ IsLink(f) => disk[f] = None
       /\ f \in DOMAIN writes[Maker(f)] =>
            IF IsLink(f) THEN writes[Maker(f)][f] = None
            ELSE Sound(f, writes[Maker(f)][f])

\* After cleaning up, no file is on the disk before its writer is through with
\* it; and no link, in a first session either.
FreshInv ==
  /\ script.clean => \A f \in File : ~Settled(f) => disk[f] = None
  /\ script.clean \/ session = 1 => \A i \in linked : Settled(<<"g16_pk", i>>)

\* What is written is of this session, if nothing is left of another one or the
\* session is undisturbed; and then nothing is missing.
SessionInv ==
  /\ script.clean \/ Undisturbed =>
       \A f \in File :
         f \in DOMAIN writes[Maker(f)] /\ ~IsLink(f) =>
           writes[Maker(f)][f] = Expected(f, session)
  /\ script.clean => \A f \in File : Absent(disk[f]) \/ disk[f] = Expected(f, session)
  /\ Undisturbed =>
       \A f \in File :
         Settled(f) => IF IsLink(f) THEN f[2] \in linked ELSE disk[f] = Expected(f, session)

\* After cleaning up, what a later stage has made or is about to write has all
\* it was made of beside it.
There(f) == ~Absent(disk[f])
Coming(f) == There(f) \/ f \in DOMAIN writes[Maker(f)]

GateInv ==
  script.clean =>
    /\ (\E i \in Subcircuit : Coming(<<"stage1_req", i>>)) =>
         \A i \in Subcircuit : There(<<"stage0_resp", i>>)
    /\ \A i \in Subcircuit : Coming(<<"stage1_resp", i>>) => There(<<"stage1_req", i>>)
    /\ Coming(<<"agg_proof", 0>>) => \A i \in Subcircuit : There(<<"stage1_resp", i>>)

IInv == ProcessInv /\ ContentInv /\ FreshInv /\ SessionInv /\ GateInv

-----------------------------------------------------------------------------
(* Files and processes.                                                     *)

LEMMA FileIs ==
  ASSUME NEW f \in File
  PROVE  /\ f = <<f[1], f[2]>>
         /\ f[1] \in {"g16_pk", "stage0_req", "stage0_resp", "stage1_req", "stage1_resp"}
              => f[2] \in Subcircuit
         /\ f[1] \notin {"g16_pk", "stage0_req", "stage0_resp", "stage1_req", "stage1_resp"}
              => f[2] = 0
         /\ f[1] \in {"g16_pk", "stage0_req", "stage0_resp", "stage1_req", "stage1_resp",
                      "test_circ_params", "agg_ck", "stage0_coordinator_state",
                      "final_aggregator_state", "agg_proof"}
  BY DEF File

LEMMA IsFile ==
  /\ \A k \in {"g16_pk", "stage0_req", "stage0_resp", "stage1_req", "stage1_resp"},
        i \in Subcircuit : <<k, i>> \in File
  /\ \A k \in {"test_circ_params", "agg_ck", "stage0_coordinator_state",
               "final_aggregator_state", "agg_proof"} : <<k, 0>> \in File
  BY DEF File

LEMMA SubcircuitIs == Subcircuit \subseteq Processes /\ 0 \in Processes /\ 0 \notin Subcircuit
  BY FileAssumption DEF Subcircuit, Processes

LEMMA MakerIs == \A f \in File : Maker(f) \in Processes
  BY FileIs, SubcircuitIs DEF Maker

\* A file of a phase is written by one of its processes.
LEMMA MakerRuns ==
  ASSUME NEW ph \in Phase, NEW f \in File, f[1] \in Kinds(ph)
  PROVE  Maker(f) \in Procs(ph)
  BY FileIs DEF Phase, Kinds, Procs, Maker

LEMMA ProcsAre == \A ph \in Phase : Procs(ph) \subseteq Processes
  BY SubcircuitIs DEF Procs

\* No kind of file is written in two phases.
LEMMA KindsApart ==
  ASSUME NEW ph \in Phase
  PROVE  Kinds(ph) \cap DoneKinds(ph) = {}
  BY DEF Phase, Kinds, DoneKinds

LEMMA KindsMove ==
  ASSUME NEW ph \in Phase, ph # "over"
  PROVE  /\ NextPhase(ph) \in Phase
         /\ DoneKinds(NextPhase(ph)) = DoneKinds(ph) \cup Kinds(ph)
  BY DEF Phase, Kinds, DoneKinds, NextPhase

LEMMA AbsentIs == Absent(None) /\ Absent(Torn)
  BY DEF Absent

\* Every group of subcircuits has a first one, which every one of it finds.
LEMMA FirstOfGroup ==
  ASSUME script \in Scripts, NEW i \in Subcircuit
  PROVE  /\ FirstOf(i) \in Subcircuit
         /\ FirstOf(FirstOf(i)) = FirstOf(i)
         /\ FirstOf(i) # i => \E k \in DOMAIN script.groups : Cardinality(script.groups[k]) > 1
<1> DEFINE G == script.groups[GroupOf(i)]
<1>1. GroupOf(i) \in DOMAIN script.groups /\ i \in G
  <2>1. \E k \in DOMAIN script.groups : i \in script.groups[k]
    BY FileAssumption DEF Range
  <2> QED
    BY <2>1 DEF GroupOf
<1>2. G \subseteq Subcircuit
  BY <1>1, FileAssumption DEF Range
<1>3. \E j \in G : \A k \in G : j <= k
  <2>1. G \subseteq Nat /\ G # {}
    BY <1>1, <1>2, FileAssumption DEF Subcircuit
  <2>2. PICK j \in G : \A k \in G : ~(<<k, j>> \in OpToRel(<, Nat))
    BY <2>1, NatLessThanWellFounded, WFMin
  <2>3. ASSUME NEW k \in G PROVE j <= k
    <3>1. j \in Nat /\ k \in Nat
      BY <2>1
    <3>2. k < j => <<k, j>> \in OpToRel(<, Nat)
      BY <3>1 DEF OpToRel
    <3>3. ~(k < j)
      BY <2>2, <3>2
    <3> QED
      BY <3>1, <3>3
  <2> QED
    BY <2>3
<1>4. FirstOf(i) \in G /\ \A k \in G : FirstOf(i) <= k
  BY <1>3 DEF FirstOf
<1>5. GroupOf(FirstOf(i)) = GroupOf(i)
  <2>1. \A k \in DOMAIN script.groups : FirstOf(i) \in script.groups[k] <=> k = GroupOf(i)
    BY <1>1, <1>4, FileAssumption
  <2>2. \A k \in DOMAIN script.groups : i \in script.groups[k] <=> k = GroupOf(i)
    BY <1>1, FileAssumption
  <2> QED
    BY <2>1, <2>2, <1>1 DEF GroupOf
<1>6. FirstOf(FirstOf(i)) = FirstOf(i)
  BY <1>5 DEF FirstOf
<1>7. ASSUME FirstOf(i) # i PROVE Cardinality(G) > 1
  <2>1. IsFiniteSet(G)
    <3>1. IsFiniteSet(Subcircuit)
      BY FS_Interval, FileAssumption DEF Subcircuit
    <3> QED
      BY <1>2, <3>1, FS_Subset
  <2>2. Cardinality(G) \in Nat
    BY <2>1, FS_CardinalityType
  <2>3. Cardinality(G) # 0
    BY <2>1, <1>1, FS_EmptySet
  <2>4. Cardinality(G) # 1
    BY <2>1, <1>1, <1>4, <1>7, FS_Singleton
  <2> QED
    BY <2>2, <2>3, <2>4
<1> QED
  BY <1>1, <1>2, <1>4, <1>6, <1>7

-----------------------------------------------------------------------------
(* What the script, which never changes, decides never changes.             *)

LEMMA ScriptFixed == [Next]_vars => script' = script
  BY DEF Next, vars, Command, GenKeys, StartStage0, StartStage1, EndProof, ProcessStage0Request,
         ProcessStage1Request, Start, Advance, Rerun, Terminated, Exit, Crash, Write, Symlink

LEMMA LinkFixed == script' = script => \A f : IsLink(f)' = IsLink(f)
  BY DEF IsLink, FirstOf, GroupOf

LEMMA SoundFixed == script' = script => \A f, c : Sound(f, c)' = Sound(f, c)
  BY DEF Sound

LEMMA LinksFailFixed == script' = script /\ session' = session => LinksFail' = LinksFail
  BY DEF LinksFail

-----------------------------------------------------------------------------
(* The invariant holds initially.                                           *)

LEMMA InitIInv == Init => IInv
<1> SUFFICES ASSUME Init PROVE IInv
  OBVIOUS
<1> USE DEF Init
<1>1. ProcessInv
  <2>1. session \in Session
    BY FileAssumption DEF Session
  <2>2. \A p \in Processes : status[p] = "waiting" /\ DOMAIN writes[p] = {}
    BY DEF NoWrites
  <2>3. writes = [p \in Processes |-> writes[p]]
    OBVIOUS
  <2>4. status \in [Processes -> {"waiting", "running", "exited"}]
    OBVIOUS
  <2> QED
    BY <2>1, <2>2, <2>3, <2>4 DEF ProcessInv, Phase
<1>2. ContentInv
  BY AbsentIs, MakerIs DEF ContentInv, NoWrites
<1>3. FreshInv
  BY DEF FreshInv
<1>4. \A f \in File : ~Settled(f)
  BY MakerIs DEF Settled, DoneKinds
<1>5. SessionInv
  BY <1>4, AbsentIs, MakerIs DEF SessionInv, NoWrites
<1>6. GateInv
  BY AbsentIs, IsFile, MakerIs DEF GateInv, Coming, There, NoWrites
<1> QED
  BY <1>1, <1>2, <1>3, <1>5, <1>6 DEF IInv

-----------------------------------------------------------------------------
(* A command.                                                               *)

\* Outputs as a command should have them: all of its files, sound, links where
\* they belong, of this session where it sees no other, and after cleaning up
\* only with the inputs there.
Good(p, o) ==
  /\ DOMAIN o = Outputs(phase, p)
  /\ \A f \in Outputs(phase, p) : IF IsLink(f) THEN o[f] = None ELSE Sound(f, o[f])
  /\ script.clean \/ Undisturbed =>
       \A f \in Outputs(phase, p) : ~IsLink(f) => o[f] = Expected(f, session)
  /\ script.clean =>
       /\ phase = "stage1" => \A i \in Subcircuit : There(<<"stage0_resp", i>>)
       /\ phase = "work1"  => There(<<"stage1_req", p>>)
       /\ phase = "end"    => \A i \in Subcircuit : There(<<"stage1_resp", i>>)

LEMMA StartIInv ==
  ASSUME IInv, NEW p, NEW ok, NEW o, Start(p, phase, ok, o), phase # "over",
         ok \in BOOLEAN, ok => Good(p, o), Undisturbed => ok
  PROVE  IInv'
<1> DEFINE w == writes'
           st == status'
<1>1. /\ p \in Processes /\ p \in Procs(phase) /\ status[p] = "waiting"
      /\ UNCHANGED <<script, session, phase, disk, linked, crashed>>
      /\ \A q \in Processes : q # p => status'[q] = status[q] /\ writes'[q] = writes[q]
      /\ status'[p] = IF ok THEN "running" ELSE "exited"
      /\ writes'[p] = IF ok THEN o ELSE writes[p]
      /\ DOMAIN writes[p] = {}
      /\ status' \in [Processes -> {"waiting", "running", "exited"}]
      /\ writes' = [q \in Processes |-> writes'[q]]
  BY ProcsAre DEF Start, IInv, ProcessInv
<1>2. /\ \A f : IsLink(f)' = IsLink(f)
      /\ \A f, c : Sound(f, c)' = Sound(f, c)
      /\ LinksFail' = LinksFail /\ Undisturbed' = Undisturbed
  BY <1>1, LinkFixed, SoundFixed, LinksFailFixed DEF Undisturbed
<1>3. DOMAIN writes'[p] = IF ok THEN Outputs(phase, p) ELSE {}
  BY <1>1 DEF Good
<1>4. ProcessInv'
  <2>1. \A q \in Processes :
          /\ status'[q] # "waiting" => q \in Procs(phase) /\ phase # "over"
          /\ DOMAIN writes'[q] # {} => status'[q] = "running"
          /\ DOMAIN writes'[q] \subseteq Outputs(phase, q)
    BY <1>1, <1>3 DEF IInv, ProcessInv
  <2> QED
    BY <1>1, <2>1 DEF IInv, ProcessInv
<1>5. \A f \in File : Maker(f) # p =>
        /\ Settled(f)' = Settled(f)
        /\ writes'[Maker(f)] = writes[Maker(f)]
  BY <1>1, MakerIs DEF Settled
<1>6. \A f \in File : Maker(f) = p /\ f[1] \in Kinds(phase) => f \in Outputs(phase, p)
  BY DEF Outputs
<1>7. \A f \in File : ~Settled(f)' => ~Settled(f)
  BY <1>1, <1>5 DEF Settled
<1>8. \A f \in File : Settled(f)' => Settled(f) \/ ~ok
  BY <1>1, <1>3, <1>5, <1>6 DEF Settled
<1>9. ContentInv'
  <2>1. ASSUME NEW f \in File, f \in DOMAIN writes'[Maker(f)]
        PROVE  IF IsLink(f) THEN writes'[Maker(f)][f] = None ELSE Sound(f, writes'[Maker(f)][f])
    <3>1. CASE Maker(f) # p
      BY <1>5, <2>1, <3>1 DEF IInv, ContentInv
    <3>2. CASE Maker(f) = p
      BY <1>1, <1>3, <2>1, <3>2 DEF Good
    <3> QED
      BY <3>1, <3>2
  <2> QED
    BY <1>1, <1>2, <2>1 DEF IInv, ContentInv, Absent
<1>10. FreshInv'
  BY <1>1, <1>7, <1>5, IsFile DEF IInv, FreshInv, Settled, ProcessInv
<1>11. SessionInv'
  <2>1. ASSUME script.clean \/ Undisturbed,
               NEW f \in File, f \in DOMAIN writes'[Maker(f)], ~IsLink(f)
        PROVE  writes'[Maker(f)][f] = Expected(f, session)
    <3>1. CASE Maker(f) # p
      BY <1>5, <2>1, <3>1 DEF IInv, SessionInv
    <3>2. CASE Maker(f) = p
      BY <1>1, <1>3, <2>1, <3>2 DEF Good
    <3> QED
      BY <3>1, <3>2
  <2>2. Undisturbed => \A f \in File : Settled(f)' => Settled(f)
    BY <1>8
  <2> QED
    BY <1>1, <1>2, <2>1, <2>2 DEF IInv, SessionInv, Absent
<1>12. GateInv'
  <2> SUFFICES ASSUME script.clean PROVE GateInv'
    BY <1>1 DEF GateInv
  <2>1. \A f : There(f)' = There(f)
    BY <1>1 DEF There, Absent
  <2>2. \A f \in File : Coming(f)' => Coming(f) \/ (ok /\ f \in Outputs(phase, p))
    BY <1>1, <1>3, <1>5, <2>1 DEF Coming
  <2>3. /\ \A i \in Subcircuit : <<"stage1_req", i>> \in Outputs(phase, p) => phase = "stage1"
        /\ \A i \in Subcircuit : <<"stage1_resp", i>> \in Outputs(phase, p) => phase = "work1" /\ i = p
        /\ <<"agg_proof", 0>> \in Outputs(phase, p) => phase = "end"
    BY DEF Outputs, Kinds, Maker, IInv, ProcessInv, Phase
  <2>4. (\E i \in Subcircuit : Coming(<<"stage1_req", i>>)') =>
          \A i \in Subcircuit : There(<<"stage0_resp", i>>)'
    BY <1>1, <2>1, <2>2, <2>3, IsFile DEF IInv, GateInv, Good
  <2>5. \A i \in Subcircuit : Coming(<<"stage1_resp", i>>)' => There(<<"stage1_req", i>>)'
    BY <1>1, <2>1, <2>2, <2>3, IsFile DEF IInv, GateInv, Good
  <2>6. Coming(<<"agg_proof", 0>>)' => \A i \in Subcircuit : There(<<"stage1_resp", i>>)'
    BY <1>1, <2>1, <2>2, <2>3, IsFile DEF IInv, GateInv, Good
  <2> QED
    BY <2>4, <2>5, <2>6 DEF GateInv
<1> QED
  BY <1>4, <1>9, <1>10, <1>11, <1>12 DEF IInv

-----------------------------------------------------------------------------
(* What a command reads.                                                    *)

LEMMA ExpectedIs ==
  ASSUME NEW f \in File, NEW s \in Session
  PROVE  /\ Sound(f, Expected(f, s))
         /\ ~Absent(Expected(f, s))
<1> DEFINE e == Expected(f, s)
<1>1. \A i \in Subcircuit : ComOf(i, s) \in Com
  BY DEF ComOf, Com
<1>2. SuperOf(s) \in SuperCom
  BY <1>1 DEF SuperOf, SuperCom
<1>3. \A i \in Subcircuit : ProofMade(i, s) \in Proof
  BY <1>1, <1>2 DEF ProofMade, Proof
<1>4. [ck |-> s, super |-> SuperOf(s), proofs |-> [i \in Subcircuit |-> ProofMade(i, s)]] \in Agg
  BY <1>2, <1>3 DEF Agg
<1>5. OneCircuitIn([ck |-> s, super |-> SuperOf(s), proofs |-> [i \in Subcircuit |-> ProofMade(i, s)]])
  BY DEF OneCircuitIn, SuperOf, ProofMade, ComOf
<1>6. e \in Content(f)
  <2>1. CASE f[1] = "test_circ_params"
    BY <2>1 DEF Expected, Content, Params
  <2>2. CASE f[1] \in {"g16_pk", "agg_ck"}
    BY <2>2 DEF Expected, Content, Key
  <2>3. CASE f[1] \in {"stage0_req", "stage0_coordinator_state"}
    BY <2>3 DEF Expected, Content, Traced
  <2>4. CASE f[1] = "stage0_resp"
    BY <2>4, <1>1, FileIs DEF Expected, Content
  <2>5. CASE f[1] \in {"stage1_req", "final_aggregator_state"}
    BY <2>5, <1>2 DEF Expected, Content, Request1
  <2>6. CASE f[1] = "stage1_resp"
    BY <2>6, <1>3, FileIs DEF Expected, Content
  <2>7. CASE f[1] = "agg_proof"
    BY <2>7, <1>4 DEF Expected, Content
  <2> QED
    BY <2>1, <2>2, <2>3, <2>4, <2>5, <2>6, <2>7, FileIs
<1>7. f[1] = "stage1_resp" => e.valid = (e.com.circ = e.circ)
  BY DEF Expected, ProofMade, ComOf
<1>8. f[1] = "agg_proof" => OneCircuitIn(e)
  BY <1>5 DEF Expected
<1>9. ~Absent(e)
  BY <1>6, NoFileAssumption, FileIs DEF Absent, Content
<1> QED
  BY <1>6, <1>7, <1>8, <1>9 DEF Sound

\* No command can tell a link from the file it leads to.
LEMMA ReadIs ==
  ASSUME IInv, NEW k, NEW i, <<k, i>> \in File
  PROVE  /\ ~Absent(Read(k, i)) => Sound(<<k, i>>, Read(k, i))
         /\ script.clean /\ ~Absent(Read(k, i)) => Read(k, i) = Expected(<<k, i>>, session)
         /\ Undisturbed /\ k \in DoneKinds(phase) =>
              ~Absent(Read(k, i)) /\ Read(k, i) = Expected(<<k, i>>, session)
         /\ k # "g16_pk" => Read(k, i) = disk[<<k, i>>]
<1>1. CASE ~(k = "g16_pk" /\ i \in linked)
  <2>1. Read(k, i) = disk[<<k, i>>]
    BY <1>1 DEF Read
  <2>2. k \in DoneKinds(phase) => Settled(<<k, i>>)
    BY DEF Settled
  <2>3. Undisturbed /\ k \in DoneKinds(phase) => ~IsLink(<<k, i>>)
    BY <1>1, <2>2 DEF IInv, SessionInv, IsLink
  <2> QED
    BY <2>1, <2>2, <2>3, ExpectedIs DEF IInv, ContentInv, SessionInv, ProcessInv
<1>2. CASE k = "g16_pk" /\ i \in linked
  <2>1. /\ i \in Subcircuit /\ FirstOf(i) \in Subcircuit /\ FirstOf(i) # i
        /\ FirstOf(FirstOf(i)) = FirstOf(i)
        /\ \E n \in DOMAIN script.groups : Cardinality(script.groups[n]) > 1
    BY <1>2, FirstOfGroup DEF IInv, ProcessInv, ContentInv, IsLink
  <2>2. <<k, FirstOf(i)>> \in File /\ ~IsLink(<<k, FirstOf(i)>>)
    BY <2>1, <1>2, IsFile DEF IsLink
  <2>3. \A c : Sound(<<k, FirstOf(i)>>, c) => Sound(<<k, i>>, c)
    BY <1>2 DEF Sound, Content
  <2>4. Expected(<<k, FirstOf(i)>>, session) = Expected(<<k, i>>, session)
    BY <1>2 DEF Expected
  <2>5. CASE ~script.absolute
    <3>1. Absent(Read(k, i))
      BY <1>2, <2>5, AbsentIs DEF Read
    <3>2. ~Undisturbed
      BY <2>1, <2>5 DEF Undisturbed, LinksFail
    <3> QED
      BY <1>2, <3>1, <3>2
  <2>6. CASE script.absolute
    <3>1. Read(k, i) = disk[<<k, FirstOf(i)>>]
      BY <1>2, <2>6 DEF Read
    <3>2. k \in DoneKinds(phase) => Settled(<<k, FirstOf(i)>>)
      BY DEF Settled
    <3> QED
      BY <1>2, <2>2, <2>3, <2>4, <3>1, <3>2, ExpectedIs DEF IInv, ContentInv, SessionInv, ProcessInv
  <2> QED
    BY <2>5, <2>6
<1> QED
  BY <1>1, <1>2

-----------------------------------------------------------------------------
(* The commands.                                                            *)

LEMMA CanReadIs ==
  ASSUME IInv, Undisturbed, NEW k \in DoneKinds(phase), NEW S, \A i \in S : <<k, i>> \in File
  PROVE  CanRead(k, S)
  BY ReadIs DEF CanRead

LEMMA ExpectedKinds ==
  /\ \A i, s : Expected(<<"g16_pk", i>>, s) = [key |-> s] /\ Expected(<<"agg_ck", i>>, s) = [key |-> s]
  /\ \A i, s : /\ Expected(<<"stage0_req", i>>, s) = [circ |-> s]
               /\ Expected(<<"stage0_coordinator_state", i>>, s) = [circ |-> s]
  /\ \A i, s : Expected(<<"stage0_resp", i>>, s) = ComOf(i, s)
  /\ \A i, s :
       /\ Expected(<<"stage1_req", i>>, s) = [circ |-> s, super |-> SuperOf(s)]
       /\ Expected(<<"final_aggregator_state", i>>, s) = [circ |-> s, super |-> SuperOf(s)]
  /\ \A i, s : Expected(<<"stage1_resp", i>>, s) = ProofMade(i, s)
  BY DEF Expected

LEMMA SoundKinds ==
  /\ \A i, c : Sound(<<"g16_pk", i>>, c) \/ Sound(<<"agg_ck", i>>, c) => c \in Key
  /\ \A i, c : Sound(<<"stage0_req", i>>, c) \/ Sound(<<"stage0_coordinator_state", i>>, c)
                 => c \in Traced
  /\ \A i, c : Sound(<<"stage0_resp", i>>, c) => c \in Com
  /\ \A i, c : Sound(<<"stage1_req", i>>, c) \/ Sound(<<"final_aggregator_state", i>>, c)
                 => c \in Request1
  /\ \A i, c : Sound(<<"stage1_resp", i>>, c) => c \in Proof /\ c.valid = (c.com.circ = c.circ)
  BY DEF Sound, Content

LEMMA OutputsAre ==
  /\ Outputs("keys", 0) =
       ({"g16_pk"} \X Subcircuit) \cup ({"test_circ_params", "agg_ck"} \X {0})
  /\ Outputs("stage0", 0) = ({"stage0_req"} \X Subcircuit) \cup {<<"stage0_coordinator_state", 0>>}
  /\ \A i \in Subcircuit : Outputs("work0", i) = {<<"stage0_resp", i>>}
  /\ Outputs("stage1", 0) = ({"stage1_req"} \X Subcircuit) \cup {<<"final_aggregator_state", 0>>}
  /\ \A i \in Subcircuit : Outputs("work1", i) = {<<"stage1_resp", i>>}
  /\ Outputs("end", 0) = {<<"agg_proof", 0>>}
<1> USE DEF Outputs, Kinds, Maker, File
<1>1. Outputs("keys", 0) =
        ({"g16_pk"} \X Subcircuit) \cup ({"test_circ_params", "agg_ck"} \X {0})
  OBVIOUS
<1>2. Outputs("stage0", 0) = ({"stage0_req"} \X Subcircuit) \cup {<<"stage0_coordinator_state", 0>>}
  OBVIOUS
<1>3. \A i \in Subcircuit : Outputs("work0", i) = {<<"stage0_resp", i>>}
  OBVIOUS
<1>4. Outputs("stage1", 0) = ({"stage1_req"} \X Subcircuit) \cup {<<"final_aggregator_state", 0>>}
  OBVIOUS
<1>5. \A i \in Subcircuit : Outputs("work1", i) = {<<"stage1_resp", i>>}
  OBVIOUS
<1>6. Outputs("end", 0) = {<<"agg_proof", 0>>}
  OBVIOUS
<1> QED
  BY <1>1, <1>2, <1>3, <1>4, <1>5, <1>6

LEMMA GenKeysIInv == IInv /\ GenKeys => IInv'
<1> SUFFICES ASSUME IInv, GenKeys PROVE IInv'
  OBVIOUS
<1> DEFINE o == [f \in ({"g16_pk"} \X Subcircuit) \cup ({"test_circ_params", "agg_ck"} \X {0}) |->
                   CASE f[1] = "test_circ_params" -> [subcircuits |-> NumSubcircuits]
                     [] f[1] = "g16_pk" /\ f[2] # FirstOf(f[2]) -> None
                     [] OTHER -> [key |-> session]]
<1>1. phase = "keys" /\ Start(0, phase, TRUE, o)
  BY DEF GenKeys, Start
<1>2. \A f \in Outputs(phase, 0) : o[f] = IF IsLink(f) THEN None ELSE Expected(f, session)
  BY <1>1, OutputsAre DEF IsLink, Expected
<1>3. DOMAIN o = Outputs(phase, 0)
  BY <1>1, OutputsAre
<1> HIDE DEF o
<1>4. Good(0, o)
  BY <1>1, <1>2, <1>3, ExpectedIs DEF Good, Outputs, IInv, ProcessInv
<1> QED
  BY <1>1, <1>4, StartIInv

LEMMA StartStage0IInv == IInv /\ StartStage0 => IInv'
<1> SUFFICES ASSUME IInv, StartStage0 PROVE IInv'
  OBVIOUS
<1> DEFINE ok == CanRead("test_circ_params", {0})
           o  == [f \in ({"stage0_req"} \X Subcircuit) \cup {<<"stage0_coordinator_state", 0>>} |->
                    [circ |-> session]]
<1>1. phase = "stage0" /\ Start(0, phase, ok, o)
  BY DEF StartStage0, Start
<1>2. \A f \in Outputs(phase, 0) : ~IsLink(f) /\ o[f] = Expected(f, session)
  BY <1>1, OutputsAre DEF IsLink, Expected
<1>3. Good(0, o)
  BY <1>1, <1>2, OutputsAre, ExpectedIs DEF Good, Outputs, IInv, ProcessInv
<1>4. Undisturbed => ok
  BY <1>1, CanReadIs, IsFile DEF DoneKinds, Kinds
<1>5. ok \in BOOLEAN
  BY DEF CanRead
<1> HIDE DEF ok, o
<1> QED
  BY <1>1, <1>3, <1>4, <1>5, StartIInv

LEMMA ProcessStage0RequestIInv ==
  ASSUME IInv, NEW i \in Subcircuit, ProcessStage0Request(i) PROVE IInv'
<1> DEFINE ok == CanRead("g16_pk", {i}) /\ CanRead("stage0_req", {i})
           c  == [sub |-> i, circ |-> Read("stage0_req", i).circ,
                  key |-> Read("g16_pk", i).key, seed |-> session]
           o  == IF ok THEN [f \in {<<"stage0_resp", i>>} |-> c] ELSE NoWrites
<1>1. phase = "work0" /\ Start(i, phase, ok, o)
  BY DEF ProcessStage0Request, Start
<1>2. ok => ~Absent(Read("g16_pk", i)) /\ ~Absent(Read("stage0_req", i))
  BY DEF CanRead
<1>3. ok => Sound(<<"stage0_resp", i>>, c)
  BY <1>2, ReadIs, IsFile DEF Sound, Content, Com, Key, Traced, IInv, ProcessInv
<1>4. ok /\ (script.clean \/ Undisturbed) => c = Expected(<<"stage0_resp", i>>, session)
  <2>1. ok /\ (script.clean \/ Undisturbed) =>
          /\ Read("g16_pk", i) = Expected(<<"g16_pk", i>>, session)
          /\ Read("stage0_req", i) = Expected(<<"stage0_req", i>>, session)
    BY <1>1, <1>2, ReadIs, IsFile DEF DoneKinds, Kinds
  <2> QED
    BY <2>1 DEF Expected, ComOf
<1>5. ok => Good(i, o)
  BY <1>1, <1>3, <1>4, OutputsAre DEF Good, IsLink
<1>6. Undisturbed => ok
  BY <1>1, CanReadIs, IsFile DEF DoneKinds, Kinds
<1>7. ok \in BOOLEAN
  BY DEF CanRead
<1> HIDE DEF ok, o
<1> QED
  BY <1>1, <1>5, <1>6, <1>7, StartIInv

LEMMA StartStage1IInv == IInv /\ StartStage1 => IInv'
<1> SUFFICES ASSUME IInv, StartStage1 PROVE IInv'
  OBVIOUS
<1> DEFINE ok == /\ CanRead("test_circ_params", {0}) /\ CanRead("stage0_coordinator_state", {0})
                 /\ CanRead("agg_ck", {0}) /\ CanRead("stage0_resp", Subcircuit)
           req == [circ  |-> Read("stage0_coordinator_state", 0).circ,
                   super |-> [coms |-> Collected, ck |-> Read("agg_ck", 0).key]]
           o == IF ok THEN [f \in ({"stage1_req"} \X Subcircuit)
                                    \cup {<<"final_aggregator_state", 0>>} |-> req]
                      ELSE NoWrites
<1>1. phase = "stage1" /\ Start(0, phase, ok, o)
  BY DEF StartStage1, Start
<1>2. ok => /\ ~Absent(Read("stage0_coordinator_state", 0)) /\ ~Absent(Read("agg_ck", 0))
            /\ \A i \in Subcircuit : ~Absent(Read("stage0_resp", i))
  BY DEF CanRead
<1>3. ok => req \in Request1
  <2>1. ok => Collected \in [Subcircuit -> Com]
    BY <1>2, ReadIs, IsFile, SoundKinds DEF Collected
  <2>2. ok => Read("stage0_coordinator_state", 0).circ \in Session /\ Read("agg_ck", 0).key \in Session
    BY <1>2, ReadIs, IsFile DEF Sound, Content, Traced, Key
  <2> QED
    BY <2>1, <2>2 DEF Request1, SuperCom
<1>4. ok /\ (script.clean \/ Undisturbed) => req = [circ |-> session, super |-> SuperOf(session)]
  <2>1. ok /\ (script.clean \/ Undisturbed) =>
          /\ Read("stage0_coordinator_state", 0) = [circ |-> session]
          /\ Read("agg_ck", 0) = [key |-> session]
          /\ \A i \in Subcircuit : Read("stage0_resp", i) = ComOf(i, session)
    <3>1. {"stage0_coordinator_state", "agg_ck", "stage0_resp"} \subseteq DoneKinds(phase)
      BY <1>1 DEF DoneKinds, Kinds
    <3>2. ok /\ (script.clean \/ Undisturbed) =>
            /\ Read("stage0_coordinator_state", 0) = Expected(<<"stage0_coordinator_state", 0>>, session)
            /\ Read("agg_ck", 0) = Expected(<<"agg_ck", 0>>, session)
            /\ \A i \in Subcircuit : Read("stage0_resp", i) = Expected(<<"stage0_resp", i>>, session)
      BY <1>2, <3>1, ReadIs, IsFile
    <3> QED
      BY <3>2, ExpectedKinds
  <2> QED
    BY <2>1 DEF Collected, SuperOf
<1>5. \A f \in Outputs(phase, 0) :
        /\ ~IsLink(f) /\ (ok => Sound(f, req))
        /\ Expected(f, session) = [circ |-> session, super |-> SuperOf(session)]
  BY <1>1, <1>3, OutputsAre DEF IsLink, Expected, Sound, Content
<1>6. ok => \A i \in Subcircuit : There(<<"stage0_resp", i>>)
  BY <1>2, ReadIs, IsFile DEF There
<1> HIDE DEF req
<1>7. ok => Good(0, o)
  BY <1>1, <1>4, <1>5, <1>6, OutputsAre DEF Good
<1>8. Undisturbed => ok
  BY <1>1, CanReadIs, IsFile DEF DoneKinds, Kinds
<1>9. ok \in BOOLEAN
  BY DEF CanRead
<1> HIDE DEF ok, o
<1> QED
  BY <1>1, <1>7, <1>8, <1>9, StartIInv

LEMMA ProcessStage1RequestIInv ==
  ASSUME IInv, NEW i \in Subcircuit, ProcessStage1Request(i) PROVE IInv'
<1> DEFINE reads == CanRead("g16_pk", {i}) /\ CanRead("stage0_req", {i})
                      /\ CanRead("stage0_resp", {i}) /\ CanRead("stage1_req", {i})
           req   == Read("stage1_req", i)
           valid == Read("stage0_req", i).circ = req.circ
           ok    == reads /\ (script.debug => valid)
           c     == [com |-> Recommit(i), circ |-> req.circ, super |-> req.super, valid |-> valid]
           o     == IF ok THEN [f \in {<<"stage1_resp", i>>} |-> c] ELSE NoWrites
<1>1. phase = "work1" /\ Start(i, phase, ok, o)
  BY DEF ProcessStage1Request, Start
<1>2. ok => /\ ~Absent(Read("g16_pk", i)) /\ ~Absent(Read("stage0_req", i))
            /\ ~Absent(Read("stage0_resp", i)) /\ ~Absent(Read("stage1_req", i))
  BY DEF CanRead
<1>3. ok => Sound(<<"stage1_resp", i>>, c)
  <2>1. ok => Recommit(i) \in Com
    BY <1>2, ReadIs, IsFile DEF Recommit, Sound, Content, Com, Key, Traced, IInv, ProcessInv
  <2>2. ok => req.circ \in Session /\ req.super \in SuperCom
    BY <1>2, ReadIs, IsFile DEF Sound, Content, Request1
  <2>3. ok => c \in Proof
    BY <2>1, <2>2 DEF Proof
  <2>4. c.valid = (c.com.circ = c.circ)
    BY DEF Recommit
  <2> QED
    BY <2>3, <2>4 DEF Sound, Content
<1>4. reads /\ (script.clean \/ Undisturbed) =>
        valid /\ c = Expected(<<"stage1_resp", i>>, session)
  <2>1. reads /\ (script.clean \/ Undisturbed) =>
          /\ Read("g16_pk", i) = [key |-> session]
          /\ Read("stage0_req", i) = [circ |-> session]
          /\ Read("stage0_resp", i) = ComOf(i, session)
          /\ Read("stage1_req", i) = [circ |-> session, super |-> SuperOf(session)]
    <3>1. {"g16_pk", "stage0_req", "stage0_resp", "stage1_req"} \subseteq DoneKinds(phase)
      BY <1>1 DEF DoneKinds, Kinds
    <3>2. reads /\ (script.clean \/ Undisturbed) =>
            \A k \in {"g16_pk", "stage0_req", "stage0_resp", "stage1_req"} :
              Read(k, i) = Expected(<<k, i>>, session)
      BY <3>1, ReadIs, IsFile DEF CanRead
    <3> QED
      BY <3>2, ExpectedKinds
  <2>2. reads /\ (script.clean \/ Undisturbed) => valid /\ Recommit(i) = ComOf(i, session)
    BY <2>1 DEF Recommit, ComOf
  <2>3. reads /\ (script.clean \/ Undisturbed) => c = ProofMade(i, session)
    <3>1. reads /\ (script.clean \/ Undisturbed) =>
            req.circ = session /\ req.super = SuperOf(session) /\ valid = TRUE
      BY <2>1, <2>2
    <3> HIDE DEF reads, req, valid
    <3> QED
      BY <2>2, <3>1 DEF ProofMade
  <2> QED
    BY <2>2, <2>3, ExpectedKinds
<1>5. ok => There(<<"stage1_req", i>>)
  BY <1>2, ReadIs, IsFile DEF There
<1>6. Undisturbed => reads
  BY <1>1, CanReadIs, IsFile DEF DoneKinds, Kinds
<1>7. reads \in BOOLEAN /\ ok \in BOOLEAN
  BY DEF CanRead
<1> HIDE DEF c, reads, valid
<1>8. ok => Good(i, o)
  BY <1>1, <1>3, <1>4, <1>5, OutputsAre DEF Good, IsLink
<1>9. Undisturbed => ok
  BY <1>4, <1>6
<1> HIDE DEF ok, o
<1> QED
  BY <1>1, <1>7, <1>8, <1>9, StartIInv

\* The assertions of a debug build, and what any worker knows of its proof, make
\* the final proof one of a single circuit.
LEMMA AssertedIsOneCircuit ==
  ASSUME NEW ck \in Session, NEW agg \in Request1, NEW proofs \in [Subcircuit -> Proof],
         \A i \in Subcircuit : proofs[i].valid = (proofs[i].com.circ = proofs[i].circ),
         EquationsHold(ck, agg, proofs), DsMatch(ck, agg, proofs)
  PROVE  OneCircuitIn([ck |-> ck, super |-> agg.super, proofs |-> proofs])
<1>1. agg.circ \in Session
  BY DEF Request1
<1>2. \A i \in Subcircuit :
        /\ proofs[i].valid /\ proofs[i].circ = agg.circ /\ proofs[i].super = agg.super
        /\ proofs[i].com = agg.super.coms[i] /\ proofs[i].com.circ = agg.circ
        /\ proofs[i].com.key = ck
  BY DEF EquationsHold, DsMatch
<1>3. agg.super.ck = ck
  BY DEF DsMatch
<1> QED
  BY <1>1, <1>2, <1>3 DEF OneCircuitIn

LEMMA EndProofIInv == IInv /\ EndProof => IInv'
<1> SUFFICES ASSUME IInv, EndProof PROVE IInv'
  OBVIOUS
<1> DEFINE reads  == /\ CanRead("test_circ_params", {0}) /\ CanRead("final_aggregator_state", {0})
                     /\ CanRead("agg_ck", {0}) /\ CanRead("stage1_resp", Subcircuit)
           ck     == Read("agg_ck", 0).key
           agg    == Read("final_aggregator_state", 0)
           proofs == [i \in Subcircuit |-> Read("stage1_resp", i)]
           ok     == /\ reads
                     /\ script.debug => EquationsHold(ck, agg, proofs)
                     /\ DsMatch(ck, agg, proofs)
           c      == [ck |-> ck, super |-> agg.super, proofs |-> proofs]
           o      == IF ok THEN [f \in {<<"agg_proof", 0>>} |-> c] ELSE NoWrites
<1>1. phase = "end" /\ Start(0, phase, ok, o)
  BY DEF EndProof, Start
<1>2. reads => /\ ~Absent(Read("final_aggregator_state", 0)) /\ ~Absent(Read("agg_ck", 0))
               /\ \A i \in Subcircuit : ~Absent(Read("stage1_resp", i))
  BY DEF CanRead
<1>3. reads => /\ ck \in Session /\ agg \in Request1 /\ proofs \in [Subcircuit -> Proof]
               /\ \A i \in Subcircuit : proofs[i].valid = (proofs[i].com.circ = proofs[i].circ)
  <2>1. reads => Read("agg_ck", 0) \in Key /\ agg \in Request1
    BY <1>2, ReadIs, IsFile, SoundKinds
  <2>2. reads => \A i \in Subcircuit :
          /\ Read("stage1_resp", i) \in Proof
          /\ Read("stage1_resp", i).valid
               = (Read("stage1_resp", i).com.circ = Read("stage1_resp", i).circ)
    BY <1>2, ReadIs, IsFile, SoundKinds
  <2> QED
    BY <2>1, <2>2 DEF Key
<1>4. reads /\ (script.clean \/ Undisturbed) =>
        /\ ck = session /\ agg = [circ |-> session, super |-> SuperOf(session)]
        /\ proofs = [i \in Subcircuit |-> ProofMade(i, session)]
  <2>1. reads /\ (script.clean \/ Undisturbed) =>
          /\ Read("agg_ck", 0) = [key |-> session]
          /\ Read("final_aggregator_state", 0) = [circ |-> session, super |-> SuperOf(session)]
          /\ \A i \in Subcircuit : Read("stage1_resp", i) = ProofMade(i, session)
    <3>1. {"agg_ck", "final_aggregator_state", "stage1_resp"} \subseteq DoneKinds(phase)
      BY <1>1 DEF DoneKinds, Kinds
    <3>2. reads /\ (script.clean \/ Undisturbed) =>
            /\ Read("agg_ck", 0) = Expected(<<"agg_ck", 0>>, session)
            /\ Read("final_aggregator_state", 0) = Expected(<<"final_aggregator_state", 0>>, session)
            /\ \A i \in Subcircuit : Read("stage1_resp", i) = Expected(<<"stage1_resp", i>>, session)
      BY <1>2, <3>1, ReadIs, IsFile
    <3> QED
      BY <3>2, ExpectedKinds
  <2> QED
    BY <2>1
<1>5. ok => \A i \in Subcircuit : There(<<"stage1_resp", i>>)
  BY <1>2, ReadIs, IsFile DEF There
<1>6. Undisturbed => reads
  BY <1>1, CanReadIs, IsFile DEF DoneKinds, Kinds
<1>7. reads \in BOOLEAN /\ ok \in BOOLEAN
  BY DEF CanRead, EquationsHold, DsMatch
<1> HIDE DEF reads, ck, agg, proofs
<1>8. ok => Sound(<<"agg_proof", 0>>, c)
  <2>1. reads => c \in Agg
    BY <1>3 DEF Agg, Request1
  <2>2. ok /\ script.debug => OneCircuitIn(c)
    BY <1>3, AssertedIsOneCircuit
  <2> QED
    BY <2>1, <2>2 DEF Sound, Content
<1>9. reads /\ (script.clean \/ Undisturbed) => c = Expected(<<"agg_proof", 0>>, session)
  BY <1>4 DEF Expected
<1>10. reads /\ Undisturbed => EquationsHold(ck, agg, proofs) /\ DsMatch(ck, agg, proofs)
  BY <1>4 DEF EquationsHold, DsMatch, ProofMade, SuperOf, ComOf
<1> HIDE DEF c
<1>11. ok => Good(0, o)
  BY <1>1, <1>5, <1>8, <1>9, OutputsAre DEF Good, IsLink
<1>12. Undisturbed => ok
  BY <1>6, <1>10
<1> HIDE DEF ok, o
<1> QED
  BY <1>1, <1>7, <1>11, <1>12, StartIInv

-----------------------------------------------------------------------------
(* A process at work.                                                       *)

LEMMA SoundPresent ==
  ASSUME NEW f \in File, NEW c, Sound(f, c)
  PROVE  ~Absent(c)
  BY NoFileAssumption, FileIs DEF Sound, Content, Absent

\* What a process has left to write it is still writing.
LEMMA PendingIs ==
  ASSUME IInv, NEW p \in Processes, NEW f \in DOMAIN writes[p]
  PROVE  /\ f \in File /\ f[1] \in Kinds(phase) /\ Maker(f) = p
         /\ status[p] = "running" /\ p \in Procs(phase) /\ phase # "over"
         /\ ~Settled(f)
         /\ writes[p][f] = None <=> IsLink(f)
<1>1. /\ f \in File /\ f[1] \in Kinds(phase) /\ Maker(f) = p
      /\ status[p] = "running" /\ p \in Procs(phase) /\ phase # "over"
  BY DEF IInv, ProcessInv, Outputs
<1>2. ~Settled(f)
  BY <1>1, KindsApart DEF Settled, IInv, ProcessInv
<1>3. writes[p][f] = None <=> IsLink(f)
  BY <1>1, SoundPresent, AbsentIs DEF IInv, ContentInv
<1> QED
  BY <1>1, <1>2, <1>3

\* Process p is through with file f and goes on.
LEMMA WithoutIs ==
  ASSUME IInv, NEW p \in Processes, NEW f \in DOMAIN writes[p], writes' = Without(p, f),
         UNCHANGED <<script, session, phase, status, crashed>>
  PROVE  /\ writes' = [q \in Processes |-> writes'[q]]
         /\ DOMAIN writes'[p] = DOMAIN writes[p] \ {f}
         /\ \A g \in DOMAIN writes'[p] : writes'[p][g] = writes[p][g]
         /\ \A q \in Processes : q # p => writes'[q] = writes[q]
         /\ \A g \in File : Settled(g)' <=> Settled(g) \/ g = f
         /\ \A g \in File : g \in DOMAIN writes'[Maker(g)] => g \in DOMAIN writes[Maker(g)]
         /\ \A g \in File : g \in DOMAIN writes[Maker(g)] /\ g # f => g \in DOMAIN writes'[Maker(g)]
         /\ \A g \in File : g \in DOMAIN writes'[Maker(g)] => writes'[Maker(g)][g] = writes[Maker(g)][g]
         /\ ProcessInv' <=> linked' \subseteq Subcircuit
         /\ \A g : IsLink(g)' = IsLink(g)
         /\ \A g, c : Sound(g, c)' = Sound(g, c)
         /\ LinksFail' = LinksFail /\ Undisturbed' = Undisturbed
<1>1. /\ writes' = [q \in Processes |-> writes'[q]]
      /\ DOMAIN writes'[p] = DOMAIN writes[p] \ {f}
      /\ \A g \in DOMAIN writes'[p] : writes'[p][g] = writes[p][g]
      /\ \A q \in Processes : q # p => writes'[q] = writes[q]
  <2>1. writes = [q \in Processes |-> writes[q]]
    BY DEF IInv, ProcessInv
  <2>2. /\ writes' = [q \in Processes |-> writes'[q]]
        /\ writes'[p] = [g \in DOMAIN writes[p] \ {f} |-> writes[p][g]]
        /\ \A q \in Processes : q # p => writes'[q] = writes[q]
    BY <2>1 DEF Without
  <2> QED
    BY <2>2
<1>2. f \in File /\ Maker(f) = p /\ f[1] \in Kinds(phase) /\ status[p] = "running"
  BY PendingIs
<1>3. \A g \in File :
        /\ g \in DOMAIN writes'[Maker(g)] <=> g \in DOMAIN writes[Maker(g)] /\ g # f
        /\ g \in DOMAIN writes'[Maker(g)] => writes'[Maker(g)][g] = writes[Maker(g)][g]
  <2> TAKE g \in File
  <2>1. CASE Maker(g) = p
    BY <1>1, <2>1
  <2>2. CASE Maker(g) # p
    BY <1>1, <1>2, <2>2, MakerIs
  <2> QED
    BY <2>1, <2>2
<1>4. \A g \in File : Settled(g)' <=> Settled(g) \/ g = f
  BY <1>2, <1>3 DEF Settled
<1>5. \A q \in Processes : DOMAIN writes'[q] \subseteq DOMAIN writes[q]
  BY <1>1
<1>6. ProcessInv' <=> linked' \subseteq Subcircuit
  BY <1>1, <1>5 DEF IInv, ProcessInv, Outputs
<1>7. /\ \A g : IsLink(g)' = IsLink(g)
      /\ \A g, c : Sound(g, c)' = Sound(g, c)
      /\ LinksFail' = LinksFail /\ Undisturbed' = Undisturbed
  BY LinkFixed, SoundFixed, LinksFailFixed DEF Undisturbed
<1> QED
  BY <1>1, <1>3, <1>4, <1>6, <1>7

LEMMA WriteIInv ==
  ASSUME IInv, NEW p \in Processes, NEW f \in File, Write(p, f)
  PROVE  IInv'
<1>1. /\ f \in DOMAIN writes[p] /\ writes[p][f] # None /\ writes' = Without(p, f)
      /\ UNCHANGED <<script, session, phase, linked, status, crashed>>
  BY DEF Write, Current
<1>2. Maker(f) = p /\ ~IsLink(f) /\ Sound(f, writes[p][f]) /\ ~Absent(writes[p][f])
  BY <1>1, PendingIs, SoundPresent DEF IInv, ContentInv
<1>3. /\ disk' = [g \in File |-> disk'[g]]
      /\ disk'[f] = writes[p][f]
      /\ \A g \in File : g # f => disk'[g] = disk[g]
  <2>1. disk = [g \in File |-> disk[g]]
    BY DEF IInv, ContentInv
  <2> QED
    BY <2>1 DEF Write
<1>4. ProcessInv'
  BY <1>1, WithoutIs DEF IInv, ProcessInv
<1>5. ContentInv'
  <2>1. \A g \in File : g \in DOMAIN writes'[Maker(g)] =>
          IF IsLink(g) THEN writes'[Maker(g)][g] = None ELSE Sound(g, writes'[Maker(g)][g])
    BY <1>1, WithoutIs DEF IInv, ContentInv
  <2>2. \A g \in File : /\ ~Absent(disk'[g]) => Sound(g, disk'[g])
                        /\ IsLink(g) => disk'[g] = None
    BY <1>2, <1>3 DEF IInv, ContentInv
  <2> QED
    BY <1>1, <1>3, <2>1, <2>2, WithoutIs DEF IInv, ContentInv, Absent
<1>6. FreshInv'
  BY <1>1, <1>3, WithoutIs, IsFile DEF IInv, FreshInv, ProcessInv
<1>7. SessionInv'
  <2>1. script.clean \/ Undisturbed => disk'[f] = Expected(f, session)
    BY <1>1, <1>2, <1>3 DEF IInv, SessionInv
  <2>2. Undisturbed => \A g \in File :
          Settled(g)' => IF IsLink(g) THEN g[2] \in linked ELSE disk'[g] = Expected(g, session)
    <3>1. \A g \in File : Settled(g)' <=> Settled(g) \/ g = f
      BY <1>1, WithoutIs
    <3> QED
      BY <1>1, <1>2, <1>3, <2>1, <3>1 DEF IInv, SessionInv
  <2>3. script.clean => \A g \in File : Absent(disk'[g]) \/ disk'[g] = Expected(g, session)
    BY <1>3, <2>1 DEF IInv, SessionInv
  <2>4. script.clean \/ Undisturbed =>
          \A g \in File : g \in DOMAIN writes'[Maker(g)] /\ ~IsLink(g) =>
            writes'[Maker(g)][g] = Expected(g, session)
    BY <1>1, WithoutIs DEF IInv, SessionInv
  <2> QED
    BY <1>1, <2>2, <2>3, <2>4, WithoutIs DEF SessionInv, Absent
<1>8. GateInv'
  <2>1. \A g \in File : There(g)' <=> There(g) \/ g = f
    BY <1>2, <1>3 DEF There, Absent
  <2>2. \A g \in File : Coming(g)' => Coming(g)
    BY <1>1, <1>2, <2>1, WithoutIs DEF Coming
  <2> QED
    BY <1>1, <2>1, <2>2, IsFile DEF IInv, GateInv
<1> QED
  BY <1>4, <1>5, <1>6, <1>7, <1>8 DEF IInv

\* Process p dies, maybe leaving files cut short.
LEMMA DieIInv ==
  ASSUME IInv, NEW p \in Processes, p \in Procs(phase), phase # "over",
         NEW torn \in SUBSET {f \in DOMAIN writes[p] : writes[p][f] # None},
         disk' = [f \in File |-> IF f \in torn THEN Torn ELSE disk[f]],
         status' = [status EXCEPT ![p] = "exited"],
         writes' = [writes EXCEPT ![p] = NoWrites],
         UNCHANGED <<script, session, phase, linked>>,
         crashed' \in BOOLEAN, ~Undisturbed'
  PROVE  IInv'
<1>1. /\ status' \in [Processes -> {"waiting", "running", "exited"}]
      /\ writes' = [q \in Processes |-> writes'[q]]
      /\ status'[p] = "exited" /\ DOMAIN writes'[p] = {}
      /\ \A q \in Processes : q # p => status'[q] = status[q] /\ writes'[q] = writes[q]
  <2>1. /\ writes = [q \in Processes |-> writes[q]]
        /\ status \in [Processes -> {"waiting", "running", "exited"}]
    BY DEF IInv, ProcessInv
  <2> QED
    BY <2>1 DEF NoWrites
<1>2. ProcessInv'
  <2>1. \A q \in Processes :
          /\ status'[q] # "waiting" => q \in Procs(phase) /\ phase # "over"
          /\ DOMAIN writes'[q] # {} => status'[q] = "running"
          /\ DOMAIN writes'[q] \subseteq Outputs(phase, q)
    BY <1>1 DEF IInv, ProcessInv
  <2> QED
    BY <1>1, <2>1 DEF IInv, ProcessInv
<1>3. /\ \A f : IsLink(f)' = IsLink(f)
      /\ \A f, c : Sound(f, c)' = Sound(f, c)
  BY LinkFixed, SoundFixed
<1>4. \A f \in File :
        /\ f \in DOMAIN writes'[Maker(f)] =>
             f \in DOMAIN writes[Maker(f)] /\ writes'[Maker(f)][f] = writes[Maker(f)][f]
        /\ Settled(f) => Settled(f)'
  <2> TAKE f \in File
  <2>1. CASE Maker(f) = p
    BY <1>1, <2>1 DEF Settled
  <2>2. CASE Maker(f) # p
    BY <1>1, <2>2, MakerIs DEF Settled
  <2> QED
    BY <2>1, <2>2
<1>5. \A f \in torn : f \in File /\ ~Settled(f) /\ Settled(f)' /\ ~IsLink(f)
  BY <1>1, PendingIs DEF Settled
<1>6. ContentInv'
  <2>1. \A f \in File : /\ ~Absent(disk'[f]) => Sound(f, disk'[f])
                        /\ IsLink(f) => disk'[f] = None
    BY <1>5, AbsentIs DEF IInv, ContentInv
  <2>2. \A f \in File : f \in DOMAIN writes'[Maker(f)] =>
          IF IsLink(f) THEN writes'[Maker(f)][f] = None ELSE Sound(f, writes'[Maker(f)][f])
    BY <1>4 DEF IInv, ContentInv
  <2>3. disk' = [f \in File |-> disk'[f]]
    OBVIOUS
  <2>4. \A i \in linked' : IsLink(<<"g16_pk", i>>)'
    BY <1>3 DEF IInv, ContentInv
  <2> QED
    BY <1>3, <2>1, <2>2, <2>3, <2>4 DEF ContentInv, Absent
<1>7. FreshInv'
  BY <1>4, <1>5, IsFile DEF IInv, FreshInv, ProcessInv
<1>8. SessionInv'
  <2>1. script.clean => \A f \in File : Absent(disk'[f]) \/ disk'[f] = Expected(f, session)
    BY AbsentIs DEF IInv, SessionInv
  <2>2. script.clean =>
          \A f \in File : f \in DOMAIN writes'[Maker(f)] /\ ~IsLink(f) =>
            writes'[Maker(f)][f] = Expected(f, session)
    BY <1>4 DEF IInv, SessionInv
  <2> QED
    BY <1>3, <2>1, <2>2 DEF SessionInv, Absent
<1>9. GateInv'
  <2> SUFFICES ASSUME script.clean PROVE GateInv'
    BY DEF GateInv
  <2>1. \A f \in File : There(f)' <=> There(f)
    BY <1>5, AbsentIs DEF There, Absent, IInv, FreshInv
  <2>2. \A f \in File : Coming(f)' => Coming(f)
    BY <1>4, <2>1 DEF Coming
  <2> QED
    BY <2>1, <2>2, IsFile DEF IInv, GateInv
<1> QED
  BY <1>2, <1>6, <1>7, <1>8, <1>9 DEF IInv

\* A link that is there already is one of an earlier session: in one that counts
\* on the links there is none.
LEMMA SymlinkIInv ==
  ASSUME IInv, NEW p \in Processes, NEW f \in File, Symlink(p, f)
  PROVE  IInv'
<1>1. /\ f \in DOMAIN writes[p] /\ writes[p][f] = None
      /\ UNCHANGED <<script, session, phase, disk, crashed>>
  BY DEF Symlink, Current
<1>2. /\ Maker(f) = p /\ IsLink(f) /\ p \in Procs(phase) /\ phase # "over" /\ ~Settled(f)
      /\ f[1] = "g16_pk" /\ f[2] \in Subcircuit /\ f = <<"g16_pk", f[2]>>
      /\ f[1] \in Kinds(phase)
  BY <1>1, PendingIs, FileIs DEF IsLink
<1>3. CASE f[2] \in linked
  <2>1. ~Undisturbed
    <3>1. \E k \in DOMAIN script.groups : Cardinality(script.groups[k]) > 1
      BY <1>2, FirstOfGroup DEF IsLink, IInv, ProcessInv
    <3>2. ~(script.clean \/ session = 1)
      BY <1>2, <1>3 DEF IInv, FreshInv
    <3>3. session > 1
      BY <3>2, FileAssumption DEF IInv, ProcessInv, Session
    <3> QED
      BY <3>1, <3>2, <3>3 DEF Undisturbed, LinksFail
  <2>2. ~Undisturbed'
    BY <1>1, <2>1, LinksFailFixed DEF Undisturbed
  <2>3. PICK torn \in SUBSET {g \in DOMAIN writes[p] : writes[p][g] # None} :
          disk' = [g \in File |-> IF g \in torn THEN Torn ELSE disk[g]]
    <3> DEFINE none == {}
    <3>1. none \subseteq DOMAIN writes[p] /\ \A g : g \notin none
      OBVIOUS
    <3> HIDE DEF none
    <3>2. disk' = [g \in File |-> IF g \in none THEN Torn ELSE disk[g]]
      BY <1>1, <3>1 DEF IInv, ContentInv
    <3> QED
      BY <3>1, <3>2
  <2>4. /\ status' = [status EXCEPT ![p] = "exited"]
        /\ writes' = [writes EXCEPT ![p] = NoWrites]
        /\ linked' = linked
    BY <1>3 DEF Symlink
  <2>5. crashed' \in BOOLEAN
    BY <1>1 DEF IInv, ProcessInv
  <2> QED
    BY <1>1, <1>2, <2>2, <2>3, <2>4, <2>5, DieIInv
<1>4. CASE f[2] \notin linked
  <2>1. linked' = linked \cup {f[2]} /\ writes' = Without(p, f) /\ status' = status
    BY <1>4 DEF Symlink
  <2>2. ProcessInv'
    BY <1>1, <1>2, <2>1, WithoutIs DEF IInv, ProcessInv
  <2>3. \A g \in File : Settled(g)' <=> Settled(g) \/ g = f
    BY <1>1, <2>1, WithoutIs
  <2>4. ContentInv'
    <3>1. \A g \in File : g \in DOMAIN writes'[Maker(g)] =>
            IF IsLink(g) THEN writes'[Maker(g)][g] = None ELSE Sound(g, writes'[Maker(g)][g])
      BY <1>1, <2>1, WithoutIs DEF IInv, ContentInv
    <3>2. \A i \in linked' : IsLink(<<"g16_pk", i>>)
      BY <1>2, <2>1 DEF IInv, ContentInv
    <3> QED
      BY <1>1, <2>1, <3>1, <3>2, WithoutIs DEF IInv, ContentInv, Absent
  <2>5. FreshInv'
    <3>1. script.clean => \A g \in File : ~Settled(g)' => disk'[g] = None
      BY <1>1, <2>3 DEF IInv, FreshInv
    <3>2. script.clean \/ session = 1 => \A i \in linked' : Settled(<<"g16_pk", i>>)'
      BY <1>1, <1>2, <2>1, <2>3, IsFile DEF IInv, FreshInv, ProcessInv
    <3> QED
      BY <1>1, <3>1, <3>2 DEF FreshInv
  <2>6. SessionInv'
    <3>1. Undisturbed => \A g \in File :
            Settled(g)' => IF IsLink(g) THEN g[2] \in linked' ELSE disk'[g] = Expected(g, session)
      BY <1>1, <1>2, <2>1, <2>3 DEF IInv, SessionInv
    <3>2. script.clean \/ Undisturbed =>
            \A g \in File : g \in DOMAIN writes'[Maker(g)] /\ ~IsLink(g) =>
              writes'[Maker(g)][g] = Expected(g, session)
      BY <1>1, <2>1, WithoutIs DEF IInv, SessionInv
    <3> QED
      BY <1>1, <2>1, <3>1, <3>2, WithoutIs DEF IInv, SessionInv, Absent
  <2>7. GateInv'
    <3>1. \A g \in File : There(g)' <=> There(g)
      BY <1>1 DEF There, Absent
    <3>2. \A g \in File : Coming(g)' => Coming(g)
      BY <1>1, <2>1, <3>1, WithoutIs DEF Coming
    <3> QED
      BY <1>1, <3>1, <3>2, IsFile DEF IInv, GateInv
  <2> QED
    BY <2>2, <2>4, <2>5, <2>6, <2>7 DEF IInv
<1> QED
  BY <1>3, <1>4

LEMMA ExitIInv ==
  ASSUME IInv, NEW p \in Processes, Exit(p)
  PROVE  IInv'
<1>1. /\ status[p] = "running" /\ DOMAIN writes[p] = {} /\ status'[p] = "exited"
      /\ \A q \in Processes : q # p => status'[q] = status[q]
      /\ status' \in [Processes -> {"waiting", "running", "exited"}]
      /\ UNCHANGED <<script, session, phase, disk, linked, writes, crashed>>
  BY DEF Exit, IInv, ProcessInv
<1>2. /\ \A f : IsLink(f)' = IsLink(f)
      /\ \A f, c : Sound(f, c)' = Sound(f, c)
      /\ LinksFail' = LinksFail /\ Undisturbed' = Undisturbed
  BY <1>1, LinkFixed, SoundFixed, LinksFailFixed DEF Undisturbed
<1>3. \A f \in File : Settled(f)' <=> Settled(f)
  BY <1>1, MakerIs DEF Settled
<1>4. ProcessInv'
  BY <1>1 DEF IInv, ProcessInv
<1>5. ContentInv'
  BY <1>1, <1>2 DEF IInv, ContentInv, Absent
<1>6. FreshInv'
  BY <1>1, <1>3, IsFile DEF IInv, FreshInv, ProcessInv
<1>7. SessionInv'
  BY <1>1, <1>2, <1>3 DEF IInv, SessionInv, Absent
<1>8. GateInv'
  BY <1>1 DEF IInv, GateInv, Coming, There, Absent
<1> QED
  BY <1>4, <1>5, <1>6, <1>7, <1>8 DEF IInv

LEMMA CrashIInv ==
  ASSUME IInv, NEW p \in Processes, Crash(p)
  PROVE  IInv'
<1>1. PICK torn \in SUBSET {f \in Current(p) : writes[p][f] # None} :
        disk' = [f \in File |-> IF f \in torn THEN Torn ELSE disk[f]]
  BY DEF Crash
<1>2. torn \in SUBSET {f \in DOMAIN writes[p] : writes[p][f] # None}
  BY DEF Current
<1>3. ~Undisturbed' /\ crashed' \in BOOLEAN
  BY DEF Crash, Undisturbed
<1>4. /\ p \in Procs(phase) /\ phase # "over"
      /\ status' = [status EXCEPT ![p] = "exited"]
      /\ writes' = [writes EXCEPT ![p] = NoWrites]
      /\ UNCHANGED <<script, session, phase, linked>>
  BY DEF Crash
<1> QED
  BY <1>1, <1>2, <1>3, <1>4, DieIInv

-----------------------------------------------------------------------------
(* The script.                                                              *)

\* When all processes have exited, every file of the stage is settled.
LEMMA AdvanceIInv == IInv /\ Advance => IInv'
<1> SUFFICES ASSUME IInv, Advance PROVE IInv'
  OBVIOUS
<1>1. /\ phase # "over" /\ \A p \in Procs(phase) : status[p] = "exited"
      /\ phase' = NextPhase(phase)
      /\ status' = [p \in Processes |-> "waiting"]
      /\ UNCHANGED <<script, session, disk, linked, writes, crashed>>
  BY DEF Advance
<1>2. phase' \in Phase /\ DoneKinds(phase') = DoneKinds(phase) \cup Kinds(phase)
  BY <1>1, KindsMove DEF IInv, ProcessInv
<1>3. \A p \in Processes : DOMAIN writes[p] = {}
  BY <1>1 DEF IInv, ProcessInv
<1>4. \A f \in File : Settled(f)' <=> Settled(f)
  <2> TAKE f \in File
  <2>1. Settled(f)' <=> f[1] \in DoneKinds(phase) \cup Kinds(phase)
    BY <1>1, <1>2, MakerIs DEF Settled
  <2>2. f[1] \in Kinds(phase) => status[Maker(f)] = "exited" /\ DOMAIN writes[Maker(f)] = {}
    BY <1>1, <1>3, MakerRuns, MakerIs DEF IInv, ProcessInv
  <2> QED
    BY <2>1, <2>2 DEF Settled
<1>5. /\ \A f : IsLink(f)' = IsLink(f)
      /\ \A f, c : Sound(f, c)' = Sound(f, c)
      /\ LinksFail' = LinksFail /\ Undisturbed' = Undisturbed
  BY <1>1, LinkFixed, SoundFixed, LinksFailFixed DEF Undisturbed
<1>6. ProcessInv'
  BY <1>1, <1>2, <1>3 DEF IInv, ProcessInv
<1>7. ContentInv'
  BY <1>1, <1>5 DEF IInv, ContentInv, Absent
<1>8. FreshInv'
  BY <1>1, <1>4, IsFile DEF IInv, FreshInv, ProcessInv
<1>9. SessionInv'
  BY <1>1, <1>4, <1>5 DEF IInv, SessionInv, Absent
<1>10. GateInv'
  BY <1>1 DEF IInv, GateInv, Coming, There, Absent
<1> QED
  BY <1>6, <1>7, <1>8, <1>9, <1>10 DEF IInv

\* A session starts with the disk empty, or with files that are sound.
LEMMA RerunIInv == IInv /\ Rerun => IInv'
<1> SUFFICES ASSUME IInv, Rerun PROVE IInv'
  OBVIOUS
<1>1. /\ phase = "over" /\ session < MaxSessions /\ session' = session + 1
      /\ phase' = "keys" /\ crashed' = FALSE
      /\ linked' = IF script.clean THEN {} ELSE linked
      /\ disk' = [f \in File |-> IF script.clean \/ f[1] \in {"stage0_req", "stage1_req"}
                                 THEN None ELSE disk[f]]
      /\ UNCHANGED <<script, status, writes>>
  BY DEF Rerun
<1>2. session' \in Session /\ session' # 1
  BY <1>1, FileAssumption DEF IInv, ProcessInv, Session
<1>3. \A p \in Processes : status[p] = "waiting" /\ DOMAIN writes[p] = {}
  BY <1>1 DEF IInv, ProcessInv
<1>4. \A f \in File : ~Settled(f)'
  BY <1>1, <1>3, MakerIs DEF Settled, DoneKinds
<1>5. /\ \A f : IsLink(f)' = IsLink(f)
      /\ \A f, c : Sound(f, c)' = Sound(f, c)
  BY <1>1, LinkFixed, SoundFixed
<1>6. ProcessInv'
  BY <1>1, <1>2, <1>3 DEF IInv, ProcessInv, Phase
<1>7. ContentInv'
  <2>1. \A f \in File : /\ ~Absent(disk'[f]) => Sound(f, disk'[f])
                        /\ IsLink(f) => disk'[f] = None
    BY <1>1, AbsentIs DEF IInv, ContentInv
  <2>2. \A f \in File : f \notin DOMAIN writes'[Maker(f)]
    BY <1>1, <1>3, MakerIs
  <2>3. disk' = [f \in File |-> disk'[f]] /\ \A i \in linked' : IsLink(<<"g16_pk", i>>)
    BY <1>1 DEF IInv, ContentInv
  <2> QED
    BY <1>5, <2>1, <2>2, <2>3 DEF ContentInv, Absent
<1>8. FreshInv'
  BY <1>1, <1>2, <1>4 DEF FreshInv
<1>9. SessionInv'
  <2>1. \A f \in File : f \notin DOMAIN writes'[Maker(f)]
    BY <1>1, <1>3, MakerIs
  <2>2. script.clean => \A f \in File : Absent(disk'[f])
    BY <1>1, AbsentIs
  <2> QED
    BY <1>1, <1>4, <2>1, <2>2 DEF SessionInv, Absent
<1>10. GateInv'
  <2>1. script.clean => \A f \in File : ~Coming(f)'
    BY <1>1, <1>3, AbsentIs, MakerIs DEF Coming, There, Absent
  <2> QED
    BY <1>1, <2>1, IsFile DEF GateInv
<1> QED
  BY <1>6, <1>7, <1>8, <1>9, <1>10 DEF IInv

-----------------------------------------------------------------------------
(* The invariant, and what it gives.                                        *)

LEMMA NextIInv == IInv /\ [Next]_vars => IInv'
<1> SUFFICES ASSUME IInv, [Next]_vars PROVE IInv'
  OBVIOUS
<1>1. CASE GenKeys
  BY <1>1, GenKeysIInv
<1>2. CASE StartStage0
  BY <1>2, StartStage0IInv
<1>3. CASE StartStage1
  BY <1>3, StartStage1IInv
<1>4. CASE EndProof
  BY <1>4, EndProofIInv
<1>5. ASSUME NEW i \in Subcircuit, ProcessStage0Request(i) PROVE IInv'
  BY <1>5, ProcessStage0RequestIInv
<1>6. ASSUME NEW i \in Subcircuit, ProcessStage1Request(i) PROVE IInv'
  BY <1>6, ProcessStage1RequestIInv
<1>7. CASE Advance
  BY <1>7, AdvanceIInv
<1>8. CASE Rerun
  BY <1>8, RerunIInv
<1>9. ASSUME NEW p \in Processes, Exit(p) PROVE IInv'
  BY <1>9, ExitIInv
<1>10. ASSUME NEW p \in Processes, Crash(p) PROVE IInv'
  BY <1>10, CrashIInv
<1>11. ASSUME NEW p \in Processes, NEW f \in File, Write(p, f) PROVE IInv'
  BY <1>11, WriteIInv
<1>12. ASSUME NEW p \in Processes, NEW f \in File, Symlink(p, f) PROVE IInv'
  BY <1>12, SymlinkIInv
<1>13. CASE UNCHANGED vars
  <2>1. \A f : Settled(f)' <=> Settled(f)
    BY <1>13 DEF vars, Settled
  <2>2. /\ \A f : IsLink(f)' = IsLink(f)
        /\ \A f, c : Sound(f, c)' = Sound(f, c)
        /\ LinksFail' = LinksFail /\ Undisturbed' = Undisturbed
    BY <1>13, LinkFixed, SoundFixed, LinksFailFixed DEF vars, Undisturbed
  <2>3. ProcessInv'
    BY <1>13 DEF vars, IInv, ProcessInv
  <2>4. ContentInv'
    BY <1>13, <2>2 DEF vars, IInv, ContentInv, Absent
  <2>5. FreshInv'
    BY <1>13, <2>1 DEF vars, IInv, FreshInv
  <2>6. SessionInv'
    BY <1>13, <2>1, <2>2 DEF vars, IInv, SessionInv, Absent
  <2>7. GateInv'
    BY <1>13 DEF vars, IInv, GateInv, Coming, There, Absent
  <2> QED
    BY <2>3, <2>4, <2>5, <2>6, <2>7 DEF IInv
<1> QED
  BY <1>1, <1>2, <1>3, <1>4, <1>5, <1>6, <1>7, <1>8, <1>9, <1>10, <1>11, <1>12, <1>13
  DEF Next, Command, Terminated

\* Whoever dies and whatever earlier sessions left: files hold what their kind
\* says, a command that goes ahead after cleaning up has its inputs of the
\* session, and an undisturbed one leaves out nothing.
THEOREM FileInvariant == Spec => []IInv
<1>1. Init => IInv
  BY InitIInv
<1>2. IInv /\ [Next]_vars => IInv'
  BY NextIInv
<1> QED
  BY <1>1, <1>2, PTL DEF Spec

\* A final proof on the disk is of one circuit under one set of keys, if the
\* build asserts what it should or the script removes the files before: the
\* commands bin/coordinator.rs and bin/worker.rs read never mix two sessions in
\* a proof that is written.
THEOREM FileOneCircuit == Spec => []OneCircuit
<1>1. IInv => OneCircuit
  <2> SUFFICES ASSUME IInv, script.debug \/ script.clean, ~Absent(FinalProof)
               PROVE  OneCircuitIn(FinalProof)
    BY DEF OneCircuit, OneCircuitIn
  <2>1. <<"agg_proof", 0>> \in File
    BY IsFile
  <2>2. CASE script.debug
    BY <2>1, <2>2 DEF IInv, ContentInv, Sound, FinalProof
  <2>3. CASE script.clean
    <3>1. FinalProof = Expected(<<"agg_proof", 0>>, session)
      BY <2>1, <2>3 DEF IInv, SessionInv, FinalProof
    <3>2. session \in Session
      BY DEF IInv, ProcessInv
    <3> QED
      BY <3>1, <3>2 DEF Expected, OneCircuitIn, SuperOf, ProofMade, ComOf
  <2> QED
    BY <2>2, <2>3
<1> QED
  BY <1>1, FileInvariant, PTL

\* A session in which nobody dies and the links can be made ends with a final
\* proof of its own circuit, whatever files of earlier sessions it found.
THEOREM FileSessionDelivers == Spec => []SessionDelivers
<1>1. IInv => SessionDelivers
  <2> SUFFICES ASSUME IInv, phase = "over", Undisturbed
               PROVE  /\ ~Absent(FinalProof) /\ FinalProof.ck = session
                      /\ \A i \in Subcircuit : FinalProof.proofs[i].com = ComOf(i, session)
    BY DEF SessionDelivers, Undisturbed, ComOf
  <2>1. <<"agg_proof", 0>> \in File /\ ~IsLink(<<"agg_proof", 0>>) /\ session \in Session
    BY IsFile DEF IsLink, IInv, ProcessInv
  <2>2. Settled(<<"agg_proof", 0>>)
    BY DEF Settled, DoneKinds, Kinds
  <2>3. FinalProof = Expected(<<"agg_proof", 0>>, session)
    BY <2>1, <2>2 DEF IInv, SessionInv, FinalProof
  <2>4. ~Absent(FinalProof)
    BY <2>1, <2>3, ExpectedIs
  <2> QED
    BY <2>3, <2>4 DEF Expected, ProofMade
<1> QED
  BY <1>1, FileInvariant, PTL

-----------------------------------------------------------------------------
(* A session of a script that cleans up is a proof session.                 *)

\* What the proof session sees of the disk: which files are there decides it.
SeenProofOf(i) == [com |-> ComOf(i, session), super |-> SuperOf(session).coms]

SeenCom ==
  [i \in Subcircuit |-> IF There(<<"stage0_resp", i>>) THEN ComOf(i, session) ELSE None]
SeenSuper ==
  IF \E i \in Subcircuit : There(<<"stage1_req", i>>) THEN SuperOf(session).coms ELSE None
SeenProof ==
  [i \in Subcircuit |-> IF There(<<"stage1_resp", i>>) THEN SeenProofOf(i) ELSE None]
SeenAggregate ==
  IF There(<<"agg_proof", 0>>) THEN [i \in Subcircuit |-> SeenProofOf(i)] ELSE None

\* The states of a script that cleans up, and what the session sees in them.
Clean == IInv /\ script.clean
AsSeen ==
  /\ AbsCom = SeenCom /\ AbsSuper = SeenSuper
  /\ AbsProof = SeenProof /\ AbsAggregate = SeenAggregate

LEMMA AbsIs == Clean => AsSeen
<1> SUFFICES ASSUME IInv, script.clean PROVE AsSeen
  BY DEF Clean
<1>1. \A f \in File : There(f) => disk[f] = Expected(f, session)
  BY DEF IInv, SessionInv, There
<1>2. \A k, i : k # "g16_pk" => Read(k, i) = disk[<<k, i>>]
  BY DEF Read
<1>3. AbsCom = SeenCom
  BY <1>1, <1>2, IsFile, ExpectedKinds DEF AbsCom, SeenCom, Here, There
<1>4. AbsSuper = SeenSuper
  <2> DEFINE written == {i \in Subcircuit : ~Absent(Read("stage1_req", i))}
             first == CHOOSE i \in written : TRUE
  <2>1. AbsSuper = IF written = {} THEN None ELSE Read("stage1_req", first).super.coms
    BY DEF AbsSuper
  <2>2. \A i \in Subcircuit : i \in written <=> There(<<"stage1_req", i>>)
    BY <1>2 DEF There
  <2>3. written # {} => first \in written
    OBVIOUS
  <2>4. \A i \in written : Read("stage1_req", i) = [circ |-> session, super |-> SuperOf(session)]
    <3>1. \A i \in Subcircuit : There(<<"stage1_req", i>>) =>
            Read("stage1_req", i) = Expected(<<"stage1_req", i>>, session)
      BY <1>1, <1>2, IsFile
    <3> QED
      BY <2>2, <3>1, ExpectedKinds
  <2>5. written = {} <=> ~\E i \in Subcircuit : There(<<"stage1_req", i>>)
    BY <2>2
  <2> HIDE DEF written, first
  <2> QED
    BY <2>1, <2>3, <2>4, <2>5 DEF SeenSuper
<1>5. \A i \in Subcircuit : Seen(ProofMade(i, session)) = SeenProofOf(i)
  BY DEF Seen, ProofMade, SeenProofOf
<1>6. AbsProof = SeenProof
  BY <1>1, <1>2, <1>5, IsFile, ExpectedKinds DEF AbsProof, SeenProof, There
<1>7. AbsAggregate = SeenAggregate
  <2>1. There(<<"agg_proof", 0>>) =>
          FinalProof.proofs = [i \in Subcircuit |-> ProofMade(i, session)]
    <3>1. There(<<"agg_proof", 0>>) => FinalProof = Expected(<<"agg_proof", 0>>, session)
      BY <1>1, IsFile DEF FinalProof
    <3>2. Expected(<<"agg_proof", 0>>, session).proofs = [i \in Subcircuit |-> ProofMade(i, session)]
      BY DEF Expected
    <3> QED
      BY <3>1, <3>2
  <2>2. There(<<"agg_proof", 0>>) =>
          [i \in Subcircuit |-> Seen(FinalProof.proofs[i])] = [i \in Subcircuit |-> SeenProofOf(i)]
    BY <1>5, <2>1
  <2> QED
    BY <2>2 DEF AbsAggregate, SeenAggregate, There, FinalProof
<1> QED
  BY <1>3, <1>4, <1>6, <1>7 DEF AsSeen

\* Values of the session are not taken for the lack of one.
LEMMA SeenIs ==
  ASSUME session \in Session
  PROVE  /\ SuperOf(session).coms = [i \in Subcircuit |-> ComOf(i, session)]
         /\ SuperOf(session).coms # None
         /\ \A i \in Subcircuit :
              /\ ComOf(i, session) \in Com /\ ComOf(i, session) # None
              /\ SeenProofOf(i) # None
<1>1. \A i \in Subcircuit : ComOf(i, session) \in Com
  BY DEF ComOf, Com
<1>2. SuperOf(session).coms = [i \in Subcircuit |-> ComOf(i, session)]
  BY DEF SuperOf
<1>3. SuperOf(session).coms \in [Subcircuit -> Com]
  BY <1>1, <1>2
<1>4. \A i \in Subcircuit : SeenProofOf(i) \in [com : Com, super : [Subcircuit -> Com]]
  BY <1>1, <1>3 DEF SeenProofOf
<1> QED
  BY <1>1, <1>2, <1>3, <1>4, NoFileAssumption

LEMMA AbsIsNext == Clean' => AsSeen'
  BY AbsIs, PTL

\* A session of the script starts as a proof session does: with nothing there.
Empty == \A f \in File : ~There(f)
SessionStarts == SessionSpec!Init

LEMMA EmptyDisk == Clean /\ Empty => SessionStarts
<1> SUFFICES ASSUME Clean, Empty PROVE SessionStarts
  OBVIOUS
<1>1. /\ \A i \in Subcircuit : /\ ~There(<<"stage0_resp", i>>) /\ ~There(<<"stage1_req", i>>)
                               /\ ~There(<<"stage1_resp", i>>)
      /\ ~There(<<"agg_proof", 0>>)
  BY IsFile DEF Empty
<1> QED
  BY <1>1, AbsIs DEF AsSeen, SeenCom, SeenSuper, SeenProof, SeenAggregate, SessionStarts,
                     SessionSpec!Init

LEMMA EmptyDiskNext == Clean' /\ Empty' => SessionStarts'
  BY EmptyDisk, PTL

\* A step after which the same files are there is one the session does not see.
LEMMA SameFiles ==
  ASSUME Clean, Clean', session' = session,
         \A f \in File : There(f)' <=> There(f)
  PROVE  UNCHANGED SessionSpec!vars
<1>1. /\ \A i \in Subcircuit : /\ There(<<"stage0_resp", i>>)' <=> There(<<"stage0_resp", i>>)
                               /\ There(<<"stage1_req", i>>)' <=> There(<<"stage1_req", i>>)
                               /\ There(<<"stage1_resp", i>>)' <=> There(<<"stage1_resp", i>>)
      /\ There(<<"agg_proof", 0>>)' <=> There(<<"agg_proof", 0>>)
  BY IsFile
<1>2. /\ SeenCom' = SeenCom /\ SeenSuper' = SeenSuper
      /\ SeenProof' = SeenProof /\ SeenAggregate' = SeenAggregate
  BY <1>1 DEF SeenCom, SeenSuper, SeenProof, SeenAggregate, SeenProofOf
<1> QED
  BY <1>2, AbsIs, AbsIsNext DEF AsSeen, SessionSpec!vars

\* A file written is one the session sees being made: a stage 0 response is its
\* commitment; the first stage 1 request fixes the challenges, the others change
\* nothing; a stage 1 response is a proof; the final proof is the aggregate.
LEMMA WriteImplements ==
  ASSUME Clean, Clean', NEW p \in Processes, NEW f \in File, Write(p, f)
  PROVE  SessionSpec!Next \/ UNCHANGED SessionSpec!vars
<1>1. /\ f \in DOMAIN writes[p] /\ writes[p][f] # None
      /\ session' = session /\ session \in Session
      /\ disk' = [disk EXCEPT ![f] = writes[p][f]]
  BY DEF Write, Current, Clean, IInv, ProcessInv
<1>2. /\ Maker(f) = p /\ ~Settled(f) /\ ~IsLink(f) /\ ~Absent(writes[p][f])
  BY <1>1, PendingIs, SoundPresent DEF Clean, IInv, ContentInv
<1>3. ~There(f) /\ Coming(f)
  BY <1>1, <1>2, AbsentIs DEF There, Coming, Clean, IInv, FreshInv
<1>4. \A g \in File : There(g)' <=> There(g) \/ g = f
  <2>1. disk = [g \in File |-> disk[g]]
    BY DEF Clean, IInv, ContentInv
  <2> QED
    BY <1>1, <1>2, <2>1 DEF There, Absent
<1>5. /\ AbsCom = SeenCom /\ AbsSuper = SeenSuper
      /\ AbsProof = SeenProof /\ AbsAggregate = SeenAggregate
      /\ AbsCom' = SeenCom' /\ AbsSuper' = SeenSuper'
      /\ AbsProof' = SeenProof' /\ AbsAggregate' = SeenAggregate'
  BY AbsIs, AbsIsNext DEF AsSeen
<1>6. /\ f[1] # "stage0_resp" => SeenCom' = SeenCom
      /\ f[1] # "stage1_req" => SeenSuper' = SeenSuper
      /\ f[1] # "stage1_resp" => SeenProof' = SeenProof
      /\ f[1] # "agg_proof" => SeenAggregate' = SeenAggregate
  <2>1. \A k \in {"stage0_resp", "stage1_req", "stage1_resp"}, i \in Subcircuit :
          f[1] # k => (There(<<k, i>>)' <=> There(<<k, i>>))
    BY <1>4, IsFile
  <2>2. f[1] # "agg_proof" => (There(<<"agg_proof", 0>>)' <=> There(<<"agg_proof", 0>>))
    BY <1>4, IsFile
  <2> QED
    BY <1>1, <2>1, <2>2 DEF SeenCom, SeenSuper, SeenProof, SeenAggregate, SeenProofOf
<1>7. f = <<f[1], f[2]>>
  BY FileIs
<1>8. CASE f[1] = "stage0_resp"
  <2>1. f[2] \in Subcircuit
    BY <1>8, FileIs
  <2>2. \A i \in Subcircuit :
          There(<<"stage0_resp", i>>)' <=> There(<<"stage0_resp", i>>) \/ i = f[2]
    <3>1. \A i \in Subcircuit : <<"stage0_resp", i>> = f <=> i = f[2]
      BY <1>8, <1>7
    <3> QED
      BY <1>4, <3>1, IsFile
  <2>3. AbsCom[f[2]] = None /\ AbsCom' = [AbsCom EXCEPT ![f[2]] = ComOf(f[2], session)]
    BY <1>1, <1>3, <1>5, <1>7, <1>8, <2>1, <2>2 DEF SeenCom
  <2>4. UNCHANGED <<AbsSuper, AbsProof, AbsAggregate>>
    BY <1>5, <1>6, <1>8
  <2>5. ComOf(f[2], session) \in Com
    BY <1>1, <2>1, SeenIs
  <2>6. SessionSpec!Commit(f[2])
    BY <2>3, <2>4, <2>5 DEF SessionSpec!Commit
  <2> QED
    BY <2>1, <2>6 DEF SessionSpec!Next
<1>9. CASE f[1] = "stage1_req"
  <2>1. f[2] \in Subcircuit
    BY <1>9, FileIs
  <2>2. \A i \in Subcircuit : There(<<"stage0_resp", i>>)
    BY <1>3, <1>7, <1>9, <2>1 DEF Clean, IInv, GateInv
  <2>3. AbsCom = SuperOf(session).coms /\ \A i \in Subcircuit : AbsCom[i] # None
    BY <1>1, <1>5, <2>2, SeenIs DEF SeenCom
  <2>4. AbsSuper' = SuperOf(session).coms
    <3>1. There(<<"stage1_req", f[2]>>)'
      BY <1>4, <1>7, <1>9
    <3> QED
      BY <1>1, <1>5, <2>1, <3>1 DEF SeenSuper
  <2>5. UNCHANGED <<AbsCom, AbsProof, AbsAggregate>>
    BY <1>5, <1>6, <1>9
  <2>6. CASE AbsSuper = None
    BY <2>3, <2>4, <2>5, <2>6 DEF SessionSpec!Next, SessionSpec!FixChallenges
  <2>7. CASE AbsSuper # None
    <3>1. AbsSuper = SuperOf(session).coms
      BY <1>5, <2>7 DEF SeenSuper
    <3> QED
      BY <2>4, <2>5, <3>1 DEF SessionSpec!vars
  <2> QED
    BY <2>6, <2>7
<1>10. CASE f[1] = "stage1_resp"
  <2>1. f[2] \in Subcircuit
    BY <1>10, FileIs
  <2>2. There(<<"stage1_req", f[2]>>)
    BY <1>3, <1>7, <1>10, <2>1 DEF Clean, IInv, GateInv
  <2>3. AbsSuper = SuperOf(session).coms /\ AbsSuper # None
    BY <1>1, <1>5, <2>1, <2>2, SeenIs DEF SeenSuper
  <2>4. \A i \in Subcircuit :
          There(<<"stage1_resp", i>>)' <=> There(<<"stage1_resp", i>>) \/ i = f[2]
    <3>1. \A i \in Subcircuit : <<"stage1_resp", i>> = f <=> i = f[2]
      BY <1>10, <1>7
    <3> QED
      BY <1>4, <3>1, IsFile
  <2>5. AbsProof[f[2]] = None /\ AbsProof' = [AbsProof EXCEPT ![f[2]] = SeenProofOf(f[2])]
    BY <1>1, <1>3, <1>5, <1>7, <1>10, <2>1, <2>4 DEF SeenProof, SeenProofOf
  <2>6. SeenProofOf(f[2]) = [com |-> AbsSuper[f[2]], super |-> AbsSuper]
    BY <1>1, <2>1, <2>3, SeenIs DEF SeenProofOf
  <2>7. UNCHANGED <<AbsCom, AbsSuper, AbsAggregate>>
    BY <1>5, <1>6, <1>10
  <2>8. SessionSpec!Prove(f[2])
    BY <2>3, <2>5, <2>6, <2>7 DEF SessionSpec!Prove, SessionSpec!ProofOf
  <2> QED
    BY <2>1, <2>8 DEF SessionSpec!Next
<1>11. CASE f[1] = "agg_proof"
  <2>1. f = <<"agg_proof", 0>>
    BY <1>7, <1>11, FileIs
  <2>2. \A i \in Subcircuit : There(<<"stage1_resp", i>>)
    BY <1>3, <2>1 DEF Clean, IInv, GateInv
  <2>3. AbsProof = [i \in Subcircuit |-> SeenProofOf(i)]
    BY <1>5, <2>2 DEF SeenProof
  <2>4. \A i \in Subcircuit : AbsProof[i] # None
    BY <1>1, <2>3, SeenIs
  <2>5. AbsAggregate = None /\ AbsAggregate' = [i \in Subcircuit |-> SeenProofOf(i)]
    BY <1>1, <1>3, <1>4, <1>5, <2>1 DEF SeenAggregate, SeenProofOf
  <2>6. UNCHANGED <<AbsCom, AbsSuper, AbsProof>>
    BY <1>5, <1>6, <1>11
  <2> QED
    BY <2>3, <2>4, <2>5, <2>6 DEF SessionSpec!Next, SessionSpec!Aggregate
<1>12. CASE f[1] \notin {"stage0_resp", "stage1_req", "stage1_resp", "agg_proof"}
  BY <1>5, <1>6, <1>12 DEF SessionSpec!vars
<1> QED
  BY <1>8, <1>9, <1>10, <1>11, <1>12

LEMMA CrashImplements ==
  ASSUME Clean, Clean', NEW p \in Processes, Crash(p)
  PROVE  UNCHANGED SessionSpec!vars
<1>1. PICK torn \in SUBSET {f \in Current(p) : writes[p][f] # None} :
        disk' = [f \in File |-> IF f \in torn THEN Torn ELSE disk[f]]
  BY DEF Crash
<1>2. \A f \in torn : disk[f] = None
  BY PendingIs DEF Current, Clean, IInv, FreshInv
<1>3. \A f \in File : There(f)' <=> There(f)
  BY <1>1, <1>2, AbsentIs DEF There, Absent
<1>4. session' = session
  BY DEF Crash
<1> QED
  BY <1>3, <1>4, SameFiles

\* Every step of a session does what the proof session does, or nothing it sees.
LEMMA NextImplements ==
  ASSUME Clean, Clean', [Next]_vars, session' = session
  PROVE  SessionSpec!Next \/ UNCHANGED SessionSpec!vars
<1>1. CASE disk' = disk
  <2>1. \A f \in File : There(f)' <=> There(f)
    BY <1>1 DEF There, Absent
  <2> QED
    BY <2>1, SameFiles
<1>2. ASSUME NEW p \in Processes, NEW f \in File, Write(p, f)
      PROVE  SessionSpec!Next \/ UNCHANGED SessionSpec!vars
  BY <1>2, WriteImplements
<1>3. ASSUME NEW p \in Processes, Crash(p)
      PROVE  SessionSpec!Next \/ UNCHANGED SessionSpec!vars
  BY <1>3, CrashImplements
<1>4. \/ disk' = disk
      \/ \E p \in Processes : Crash(p) \/ \E f \in File : Write(p, f)
  <2>1. ~Rerun
    BY DEF Rerun, Clean, IInv, ProcessInv, Session
  <2> QED
    BY <2>1 DEF Next, vars, Command, GenKeys, StartStage0, StartStage1, EndProof,
                ProcessStage0Request, ProcessStage1Request, Start, Advance, Terminated,
                Exit, Symlink
<1> QED
  BY <1>1, <1>2, <1>3, <1>4

LEMMA RerunEmpties ==
  ASSUME script.clean, [Next]_vars, session' # session
  PROVE  Empty'
<1>1. Rerun
  BY DEF Next, vars, Command, GenKeys, StartStage0, StartStage1, EndProof,
         ProcessStage0Request, ProcessStage1Request, Start, Advance, Terminated,
         Exit, Symlink, Write, Crash
<1> QED
  BY <1>1, AbsentIs DEF Rerun, Empty, There, Absent

\* Each session of a script that cleans up is a proof session, whoever dies in
\* it: the commands of the binaries, each started whatever became of those
\* before it, go ahead only on what a proof session would have there.
THEOREM FileImplementsSession == Spec => ImplementsSession
<1>1. Init => IInv
  BY InitIInv
<1>2. Init => (script.clean => SessionSpec!Init)
  <2> SUFFICES ASSUME Init, script.clean PROVE SessionStarts
    BY DEF SessionStarts
  <2>1. Clean
    BY <1>1 DEF Clean
  <2>2. Empty
    BY AbsentIs DEF Init, Empty, There
  <2> QED
    BY <2>1, <2>2, EmptyDisk
<1>3. IInv /\ IInv' /\ [Next]_vars =>
        [script.clean => IF session' = session THEN SessionSpec!Next \/ UNCHANGED SessionSpec!vars
                                               ELSE SessionSpec!Init']_vars
  <2> SUFFICES ASSUME IInv, IInv', [Next]_vars, script.clean
               PROVE  IF session' = session THEN SessionSpec!Next \/ UNCHANGED SessionSpec!vars
                                            ELSE SessionSpec!Init'
    OBVIOUS
  <2>1. Clean /\ Clean'
    BY ScriptFixed DEF Clean
  <2>2. CASE session' = session
    BY <2>1, <2>2, NextImplements
  <2>3. CASE session' # session
    BY <2>1, <2>3, RerunEmpties, EmptyDiskNext DEF SessionStarts
  <2> QED
    BY <2>2, <2>3
<1> QED
  BY <1>2, <1>3, FileInvariant, PTL DEF Spec, ImplementsSession
=============================================================================
