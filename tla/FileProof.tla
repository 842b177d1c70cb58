------------------------------ MODULE FileProof ------------------------------
(***************************************************************************)
(* Proving sessions carried over files: the commands of the coordinator    *)
(* and worker binaries (bin/coordinator.rs, bin/worker.rs), run by a       *)
(* script one stage after the other, the workers of a stage side by side   *)
(* (distributed-prover/param/run.sh and test_run.sh).                      *)
(*                                                                         *)
(* A command is a process: it reads all its inputs, computes, then writes  *)
(* its outputs.  An input that is missing or cut short makes it panic.  A  *)
(* process may die at any time, leaving the files it was writing cut short.*)
(* The scripts look at no exit status: the next stage follows regardless.  *)
(* Each start-stage0 makes a new random circuit; run.sh leaves everything  *)
(* but the requests of the session before on the disk.                     *)
(***************************************************************************)
EXTENDS Integers, FiniteSets, Functions

CONSTANTS
  NumSubcircuits,
  MaxSessions,      \* bound: how often a script is run
  Scripts,          \* the scripts looked at
  None, Torn        \* no file; a file cut short

Subcircuit == 1 .. NumSubcircuits
Session == 1 .. MaxSessions

\* A script.  groups: the subcircuits that share a proving key, in the order
\* gen-keys writes the keys.  absolute: is the key directory given by an
\* absolute path.  debug: is the build one with debug_assert.  clean: does the
\* script remove all files first (test_run.sh), or only the requests (run.sh).
ASSUME FileAssumption ==
  /\ NumSubcircuits \in Nat \ {0} /\ MaxSessions \in Nat \ {0}
  /\ \A s \in Scripts :
       /\ s.absolute \in BOOLEAN /\ s.debug \in BOOLEAN /\ s.clean \in BOOLEAN
       /\ UNION Range(s.groups) = Subcircuit
       /\ \A k, l \in DOMAIN s.groups : k # l => s.groups[k] \cap s.groups[l] = {}

VARIABLES
  script,   \* the script that is run
  session,  \* how many times it has been started
  phase,    \* the stage the script is at
  disk,     \* content of every file
  linked,   \* the subcircuits whose key file is a symbolic link
  status,   \* "waiting", "running" or "exited", of each process of the phase
  writes,   \* what each running process has left to write
  crashed   \* has a process died in this session

vars == <<script, session, phase, disk, linked, status, writes, crashed>>

\* A circuit, and a set of keys, is the one drawn in a session.  A commitment to
\* a subcircuit is determined by the circuit its subtraces are from, by the key,
\* and by its seed, drawn afresh in each session.  A proof is made with the key
\* of its commitment; it is valid, or made from an assignment that does not
\* satisfy the constraints.
Key      == [key : Session]                                    \* g16_pk, agg_ck
Com      == [sub : Subcircuit, circ : Session, key : Session, seed : Session]
SuperCom == [coms : [Subcircuit -> Com], ck : Session]
Traced   == [circ : Session]                                   \* req0, coordState
Request1 == [circ : Session, super : SuperCom]                 \* req1, aggState
Proof    == [com : Com, circ : Session, super : SuperCom, valid : BOOLEAN]
Agg      == [ck : Session, super : SuperCom, proofs : [Subcircuit -> Proof]]

Params   == [subcircuits : {NumSubcircuits}]                   \* test_circ_params

ASSUME NoFileAssumption ==
  /\ None # Torn
  /\ \A n \in {None, Torn} :
       n \notin Params \cup Key \cup Traced \cup Com \cup Request1 \cup Proof \cup Agg
  /\ None \notin [Subcircuit -> Com] \cup [com : Com, super : [Subcircuit -> Com]]

File ==
  ({"g16_pk", "stage0_req", "stage0_resp", "stage1_req", "stage1_resp"} \X Subcircuit)
    \cup ({"test_circ_params", "agg_ck", "stage0_coordinator_state",
           "final_aggregator_state", "agg_proof"} \X {0})

Absent(c) == c \in {None, Torn}

Procs(ph) == IF ph \in {"work0", "work1"} THEN Subcircuit ELSE {0}
NextPhase(ph) ==
  CASE ph = "keys" -> "stage0" [] ph = "stage0" -> "work0" [] ph = "work0" -> "stage1"
    [] ph = "stage1" -> "work1" [] ph = "work1" -> "end" [] ph = "end" -> "over"

Processes == 0 .. NumSubcircuits
NoWrites == [f \in {} |-> None]

Init ==
  /\ script \in Scripts
  /\ session = 1 /\ phase = "keys" /\ crashed = FALSE
  /\ disk = [f \in File |-> None] /\ linked = {}
  /\ status = [p \in Processes |-> "waiting"]
  /\ writes = [p \in Processes |-> NoWrites]

\* Process p starts, and panics at once unless ok.
Start(p, ph, ok, outputs) ==
  /\ phase = ph /\ p \in Procs(ph) /\ status[p] = "waiting"
  /\ IF ok
     THEN status' = [status EXCEPT ![p] = "running"] /\ writes' = [writes EXCEPT ![p] = outputs]
     ELSE status' = [status EXCEPT ![p] = "exited"] /\ UNCHANGED writes
  /\ UNCHANGED <<script, session, phase, disk, linked, crashed>>

\* The first file of a group is written, the others are links to it.
GroupOf(i) == CHOOSE k \in DOMAIN script.groups : i \in script.groups[k]
FirstOf(i) == CHOOSE j \in script.groups[GroupOf(i)] :
                \A k \in script.groups[GroupOf(i)] : j <= k

\* A link holds the path as it was given: a relative one leads nowhere, since
\* it is followed from the directory of the link.
Read(kind, i) ==
  IF kind = "g16_pk" /\ i \in linked
  THEN IF script.absolute THEN disk[<<kind, FirstOf(i)>>] ELSE None
  ELSE disk[<<kind, i>>]
CanRead(kind, is) == \A i \in is : ~Absent(Read(kind, i))

-----------------------------------------------------------------------------
(* The commands.                                                            *)

\* generate_g16_pks: the circuit's parameters, then new keys for all
\* subcircuits, then the aggregation key that is made of them.  None stands for
\* a link.  The committing keys g16_ck, which no command reads, are left out.
GenKeys ==
  Start(0, "keys", TRUE,
        [f \in ({"g16_pk"} \X Subcircuit) \cup ({"test_circ_params", "agg_ck"} \X {0}) |->
           CASE f[1] = "test_circ_params" -> [subcircuits |-> NumSubcircuits]
             [] f[1] = "g16_pk" /\ f[2] # FirstOf(f[2]) -> None
             [] OTHER -> [key |-> session]])

\* begin_stage0: draw a circuit, trace it; write the requests, then the state.
StartStage0 ==
  Start(0, "stage0", CanRead("test_circ_params", {0}),
        [f \in ({"stage0_req"} \X Subcircuit) \cup {<<"stage0_coordinator_state", 0>>} |->
           [circ |-> session]])

\* worker process-stage0-request
ProcessStage0Request(i) ==
  LET ok == CanRead("g16_pk", {i}) /\ CanRead("stage0_req", {i}) IN
  Start(i, "work0", ok,
        IF ok THEN [f \in {<<"stage0_resp", i>>} |->
                      [sub |-> i, circ |-> Read("stage0_req", i).circ,
                       key |-> Read("g16_pk", i).key, seed |-> session]]
              ELSE NoWrites)

\* Mutant of Collected: the responses in the wrong order.
CollectedReversed == [i \in Subcircuit |-> Read("stage0_resp", NumSubcircuits + 1 - i)]

\* The commitments of the stage 0 responses, by subcircuit.
Collected == [i \in Subcircuit |-> Read("stage0_resp", i)]

\* process_stage0_resps: commit to the commitments under the aggregation key,
\* trace and tree of the circuit of the coordinator's state; write the requests,
\* then the state.
StartStage1 ==
  LET ok == /\ CanRead("test_circ_params", {0}) /\ CanRead("stage0_coordinator_state", {0})
            /\ CanRead("agg_ck", {0}) /\ CanRead("stage0_resp", Subcircuit)
      req == [circ  |-> Read("stage0_coordinator_state", 0).circ,
              super |-> [coms |-> Collected, ck |-> Read("agg_ck", 0).key]]
  IN  Start(0, "stage1", ok,
            IF ok THEN [f \in ({"stage1_req"} \X Subcircuit)
                                \cup {<<"final_aggregator_state", 0>>} |-> req]
                  ELSE NoWrites)

\* worker process-stage1-request: commit again, with the seed of the stage 0
\* response, to the subtraces of the stage 0 request; prove them against the
\* tree of the stage 1 request.  They satisfy its constraints only if both are
\* of the same circuit, which a debug assertion of the prover checks.
Recommit(i) ==
  [sub |-> i, circ |-> Read("stage0_req", i).circ, key |-> Read("g16_pk", i).key,
   seed |-> Read("stage0_resp", i).seed]

ProcessStage1Request(i) ==
  LET reads == CanRead("g16_pk", {i}) /\ CanRead("stage0_req", {i})
                 /\ CanRead("stage0_resp", {i}) /\ CanRead("stage1_req", {i})
      req   == Read("stage1_req", i)
      valid == Read("stage0_req", i).circ = req.circ
      ok    == reads /\ (script.debug => valid)
  IN  Start(i, "work1", ok,
            IF ok THEN [f \in {<<"stage1_resp", i>>} |->
                          [com |-> Recommit(i), circ |-> req.circ, super |-> req.super,
                           valid |-> valid]]
                  ELSE NoWrites)

\* agg_subcircuit_proofs: the last assertion, that the proofs' ds are what the
\* super-commitment binds under the aggregation key at hand.
DsMatch(ck, agg, proofs) ==
  agg.super.ck = ck /\ \A i \in Subcircuit : proofs[i].com = agg.super.coms[i]

\* Mutant of EquationsHold: any key's proof will do.
EquationsHoldAnyKey(ck, agg, proofs) ==
  \A i \in Subcircuit :
    proofs[i].valid /\ proofs[i].super = agg.super /\ proofs[i].circ = agg.circ

\* The debug assertions: each proof's equation holds under the challenges and
\* the root of the aggregator's state and the columns of the aggregation key.
EquationsHold(ck, agg, proofs) ==
  \A i \in Subcircuit :
    /\ proofs[i].valid /\ proofs[i].super = agg.super /\ proofs[i].circ = agg.circ
    /\ proofs[i].com.key = ck

EndProof ==
  LET reads  == /\ CanRead("test_circ_params", {0}) /\ CanRead("final_aggregator_state", {0})
                /\ CanRead("agg_ck", {0}) /\ CanRead("stage1_resp", Subcircuit)
      ck     == Read("agg_ck", 0).key
      agg    == Read("final_aggregator_state", 0)
      proofs == [i \in Subcircuit |-> Read("stage1_resp", i)]
      ok     == /\ reads
                /\ script.debug => EquationsHold(ck, agg, proofs)
                /\ DsMatch(ck, agg, proofs)
  IN  Start(0, "end", ok,
            IF ok THEN [f \in {<<"agg_proof", 0>>} |->
                          [ck |-> ck, super |-> agg.super, proofs |-> proofs]]
                  ELSE NoWrites)

-----------------------------------------------------------------------------
(* Processes.                                                               *)

\* The order a command writes its files in: the requests in any order, before
\* the state; the keys group by group, each file before the links to it.
Rank(f) ==
  CASE f[1] = "test_circ_params" -> 0
    [] f[1] = "g16_pk" -> 2 * GroupOf(f[2]) + (IF f[2] = FirstOf(f[2]) THEN 0 ELSE 1)
    [] f[2] = 0 -> 2 * NumSubcircuits + 2
    [] OTHER -> 1

Current(p) == {f \in DOMAIN writes[p] : \A g \in DOMAIN writes[p] : Rank(f) <= Rank(g)}

Without(p, f) == [writes EXCEPT ![p] = [g \in DOMAIN @ \ {f} |-> @[g]]]

\* Mutant of Write: an existing file is kept.
WriteIfNew(p, f) ==
  /\ f \in Current(p) /\ writes[p][f] # None
  /\ disk' = [disk EXCEPT ![f] = IF Absent(@) THEN writes[p][f] ELSE @]
  /\ writes' = Without(p, f)
  /\ UNCHANGED <<script, session, phase, linked, status, crashed>>

\* serialize_to_path
Write(p, f) ==
  /\ f \in Current(p) /\ writes[p][f] # None
  /\ disk' = [disk EXCEPT ![f] = writes[p][f]]
  /\ writes' = Without(p, f)
  /\ UNCHANGED <<script, session, phase, linked, status, crashed>>

\* serialize_to_paths, after the first file.  A link that is there already is
\* an error, on which the command panics.
Symlink(p, f) ==
  /\ f \in Current(p) /\ writes[p][f] = None
  /\ IF f[2] \in linked
     THEN /\ status' = [status EXCEPT ![p] = "exited"]
          /\ writes' = [writes EXCEPT ![p] = NoWrites]
          /\ UNCHANGED linked
     ELSE /\ linked' = linked \cup {f[2]}
          /\ writes' = Without(p, f)
          /\ UNCHANGED status
  /\ UNCHANGED <<script, session, phase, disk, crashed>>

Exit(p) ==
  /\ status[p] = "running" /\ DOMAIN writes[p] = {}
  /\ status' = [status EXCEPT ![p] = "exited"]
  /\ UNCHANGED <<script, session, phase, disk, linked, writes, crashed>>

\* The process dies before it has started, or with some of the files it may be
\* writing created but not filled.
Crash(p) ==
  /\ p \in Procs(phase) /\ phase # "over" /\ status[p] # "exited"
  /\ \E torn \in SUBSET {f \in Current(p) : writes[p][f] # None} :
       disk' = [f \in File |-> IF f \in torn THEN Torn ELSE disk[f]]
  /\ status' = [status EXCEPT ![p] = "exited"]
  /\ writes' = [writes EXCEPT ![p] = NoWrites]
  /\ crashed' = TRUE
  /\ UNCHANGED <<script, session, phase, linked>>

-----------------------------------------------------------------------------
(* The script.                                                              *)

\* All processes of the stage have exited, well or not.
Advance ==
  /\ phase # "over"
  /\ \A p \in Procs(phase) : status[p] = "exited"
  /\ phase' = NextPhase(phase)
  /\ status' = [p \in Processes |-> "waiting"]
  /\ UNCHANGED <<script, session, disk, linked, writes, crashed>>

\* The script is run again.
Rerun ==
  /\ phase = "over" /\ session < MaxSessions
  /\ session' = session + 1 /\ phase' = "keys" /\ crashed' = FALSE
  /\ linked' = IF script.clean THEN {} ELSE linked
  /\ disk' = [f \in File |-> IF script.clean \/ f[1] \in {"stage0_req", "stage1_req"}
                             THEN None ELSE disk[f]]
  /\ UNCHANGED <<script, status, writes>>

Terminated == phase = "over" /\ session = MaxSessions /\ UNCHANGED vars

Command ==
  \/ GenKeys \/ StartStage0 \/ StartStage1 \/ EndProof
  \/ \E i \in Subcircuit : ProcessStage0Request(i) \/ ProcessStage1Request(i)

Next ==
  \/ Command \/ Advance \/ Rerun \/ Terminated
  \/ \E p \in Processes : Exit(p) \/ Crash(p) \/ \E f \in File : Write(p, f) \/ Symlink(p, f)

Spec == Init /\ [][Next]_vars

-----------------------------------------------------------------------------
(* Properties.                                                              *)

FinalProof == disk[<<"agg_proof", 0>>]

\* Whatever crashed, and whatever earlier sessions left behind, a final proof is
\* about a single circuit and a single set of keys: every subcircuit's proof is
\* valid, opens the commitment the super-commitment holds to that circuit's
\* subtraces, and was made under the challenges of that super-commitment, all
\* with the keys the aggregation key was made of.  A release build, which
\* asserts less, needs the files removed.
OneCircuit ==
  (script.debug \/ script.clean) /\ ~Absent(FinalProof) =>
    /\ FinalProof.super.ck = FinalProof.ck
    /\ \E c \in Session : \A i \in Subcircuit :
         LET p == FinalProof.proofs[i] IN
         /\ p.valid /\ p.circ = c /\ p.super = FinalProof.super
         /\ p.com = FinalProof.super.coms[i] /\ p.com.circ = c
         /\ p.com.key = FinalProof.ck

\* gen-keys makes links for more than four subcircuits, once and for an
\* absolute path.
LinksFail ==
  /\ \E k \in DOMAIN script.groups : Cardinality(script.groups[k]) > 1
  /\ ~script.absolute \/ (session > 1 /\ ~script.clean)

\* A session in which no process dies ends with a final proof of its own
\* circuit under its own keys, whatever earlier sessions left behind, unless the
\* links fail.
SessionDelivers ==
  phase = "over" /\ ~crashed /\ ~LinksFail =>
    /\ ~Absent(FinalProof) /\ FinalProof.ck = session
    /\ \A i \in Subcircuit :
         FinalProof.proofs[i].com = [sub |-> i, circ |-> session, key |-> session, seed |-> session]

-----------------------------------------------------------------------------
(* One run of the script implements a proof session.                        *)

Here(c) == IF Absent(c) THEN None ELSE c

AbsSuper ==
  LET written == {i \in Subcircuit : ~Absent(Read("stage1_req", i))}
  IN  IF written = {} THEN None ELSE Read("stage1_req", CHOOSE i \in written : TRUE).super.coms

Seen(p) == [com |-> p.com, super |-> p.super.coms]

AbsCom == [i \in Subcircuit |-> Here(Read("stage0_resp", i))]
AbsProof ==
  [i \in Subcircuit |-> LET p == Read("stage1_resp", i) IN IF Absent(p) THEN None ELSE Seen(p)]
AbsAggregate ==
  IF Absent(FinalProof) THEN None ELSE [i \in Subcircuit |-> Seen(FinalProof.proofs[i])]

SessionSpec == INSTANCE ProofSession WITH
  com <- AbsCom, super <- AbsSuper, proof <- AbsProof, aggregate <- AbsAggregate

\* Each session of a script that cleans up first, crashes included, is a proof
\* session: what the crashed processes leave undone never lets a later stage go
\* ahead.
ImplementsSession ==
  /\ script.clean => SessionSpec!Init
  /\ [][script.clean => IF session' = session THEN SessionSpec!Next \/ UNCHANGED SessionSpec!vars
                                              ELSE SessionSpec!Init']_vars
=============================================================================
