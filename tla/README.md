# A verification project for hekaton

Hekaton proves a large circuit by cutting it into *subcircuits* that share values over
*portal wires*. Each subcircuit gets a commit-and-prove Groth16 proof; a coordinator hands
out the work, ties the proofs together with an execution tree and with a commitment to all
their commitments, and aggregates them into one proof. This directory holds TLA+ models of
the Rust sources, the TLC configurations that check them, and TLAPS proofs about the parts
where an unbounded result is worth having.

Run everything from this directory: `tlc -config X.cfg M` checks module `M` with the
configuration `X.cfg` (the table under *Runs* says which belong together), `tlapm M.tla`
checks the proofs of a `*_proofs` module.

## 1. Inventory of the system

Paths are relative to `src/`; `dp` is `distributed-prover/src`, `ms` is `mpi-snark/src`,
`cg` is `cp-groth16/src`.

| Component | Sources | State it keeps | Operations |
|---|---|---|---|
| MPI node | `ms/bin/node.rs`, `ms/coordinator.rs`, `ms/worker.rs`, `ms/lib.rs` | `CoordinatorState` (two `Option`al stage states), one `WorkerState` per request, receive buffers | two scatters and a gather per stage, the workers' thread pool |
| Session logic | `dp/coordinator.rs`, `dp/worker.rs` | stage 0 state, stage 1 state, aggregation state; commitment builder, commitment, seed | make requests, process responses, gen/aggregate; `process_stage0_request`, `process_stage1_request` |
| File-based prover | `dp/bin/coordinator.rs`, `dp/bin/worker.rs`, `dp/util.rs`, `param/run.sh` | one file per request, response, key and state | one command per step |
| All-in-one prover | `ms/bin/all_in_one.rs` | responses and request files | both stages in one process |
| Portal wires | `dp/portal_manager/*`, `dp/transcript/*`, `dp/uint32.rs` | transcript, address counter, clock, running evaluations | `get`, `set`, `start_subtrace`, the consistency constraints |
| Execution tree, subcircuit wrapper | `dp/eval_tree.rs`, `dp/subcircuit_circuit.rs` | leaves, tree, the two stages of a subcircuit | hash, prove membership, stage 0 and stage 1 constraints |
| Commit-and-prove Groth16 | `cg/*` | ranges of witnesses per stage, key parts, commitments | key generation, `commit`, `prove`, `verify_proof` |
| Aggregation | `dp/aggregation.rs`, `dp/kzg.rs`, `dp/pairing_ops.rs` | keys | inner-pairing-product arguments |
| Keys and their layout | `ms/data_structures.rs`, `dp/bin/coordinator.rs` (gen-keys) | a key per unique subcircuit, a representative per subcircuit | generate, look up |
| Circuits | `dp/tree_hash_circuit.rs`, `dp/vkd/*`, `dp/vm/*`, `dp/single_tuple_filter_circuit.rs`, `dp/test_circuit.rs` | witnesses per subcircuit | implement `CircuitWithPortals` |

How they interact:

* A **session** has two stages. Stage 0: each worker commits to the subtraces of its
  subcircuit. The coordinator commits to the commitments and hashes that *super-commitment*
  into two challenges, builds the execution tree from the traces and the challenges, and
  sends stage 1 requests. Stage 1: each worker proves its subcircuit against its stage 0
  commitment, under the challenges and the tree root. The coordinator aggregates.
* The session travels over **MPI collectives** (`node.rs`), over **files**
  (`bin/coordinator.rs`, `bin/worker.rs`), or inside **one process** (`all_in_one.rs`).
* A circuit runs **twice**: on the coordinator's set-up portal manager, which records the
  trace, and, subcircuit by subcircuit and in any order, on a worker's prover portal manager,
  which replays the trace and constrains it.
* `CommitmentBuilder` runs the stages of a circuit one `commit` at a time and must keep apart
  which witness belongs to which commitment, in the order the key was generated in.

What is hard here: matching collectives that pair up by call order alone; requests and
kept worker states that are cut into thread chunks separately and must meet again; the order
"all commitments, then the challenges, then the proofs", on which soundness rests; processes
that die between two files; re-runs over leftover files; the off-by-ones at the edges of
subtraces (the first entry, the last entry, the empty subtrace); 32-bit timestamps that wrap;
assertions that are compiled out in release builds. `PROJECT.json` lists each such hazard at
its line with the properties that watch it.

What makes each component correct:

* session: challenges are fixed only after all commitments, no commitment changes afterwards,
  each aggregated proof opens the commitment the super-commitment holds, under the
  session's challenges, and neighbours share a leaf;
* its carriers: each implements the session, panics only for a reason that can be named, and ends;
* portal wires: the trace is that of a memory, an honest trace satisfies all constraints, and
  the constraints compare every entry with its predecessor;
* Groth16 bookkeeping: the ranges partition the witnesses, a proof exists only if stages and
  key agree, and then it verifies;
* aggregation: what is folded into the aggregate is what each proof was made under;
* circuits: the trace that is logged natively is, operation by operation, the one the
  constraints consume; the key a subcircuit is proved with was made for its constraints; and
  what the wires carry is what the circuit is for (Merkle roots, the directory's history, the
  registers).

## 2. Modules

| Module | Models | Extends / instantiates |
|---|---|---|
| `ProofSession` | the abstract session | - |
| `MpiProof` | `node.rs` with coordinator and worker state | instantiates `ProofSession` |
| `MpiProofInv` | the inductive invariant | `MpiProof` |
| `MCMpiProof` | its TLC instance | `MpiProofInv` |
| `MpiProof_proofs` | theorems | `MpiProofInv` |
| `Aggregation` | a session with its public inputs and its aggregate | `ProofSession` |
| `MCAggregation`, `Aggregation_proofs` | its TLC instance, theorems about both | `Aggregation` |
| `FileProof`, `MCFileProof` | the file-based prover, key generation, crashes, re-runs | instantiates `ProofSession` |
| `FileProof_proofs` | theorems about it | `FileProof` |
| `AllInOne` | the one-process prover | - |
| `PortalTrace`, `MCPortalTrace`, `PortalTrace_proofs` | portal managers, sort, tree, constraints; its TLC instance, theorems | - |
| `CommitBuilder`, `MCCommitBuilder`, `CommitBuilder_proofs` | cp-groth16 | - |
| `TreeHash`, `TreeHash_proofs` | the Merkle tree circuit and its keys; theorems | - |
| `SparseTree`, `MCSparseTree`, `SparseTree_proofs` | the sparse Merkle tree and its path check | - |
| `KeyDirectory` | the abstract key directory | - |
| `Vkd`, `MCVkd` | the verifiable key directory | instantiates `KeyDirectory` |
| `Vm` | the virtual machine circuit | - |
| `Vm_proofs` | theorems about it | `Vm` |
| `DbCircuits`, `MCDbCircuits` | the filter and the merge sort | - |

Definitions whose comment starts with *Mutant of* are deliberately wrong versions of the
definition they name. No specification uses them; replacing the original by the mutant must
make TLC report the property that `PROJECT.json` pairs it with. They document what each
property is able to see.

### ProofSession

State: the commitment made per subcircuit (`com`), the super-commitment (`super`, which also
stands for the challenges and the tree root, both functions of it), the proof per subcircuit,
the aggregate. Actions: `Commit`, `FixChallenges`, `Prove`, `Aggregate`. It says what
`dp/coordinator.rs` and `dp/worker.rs` promise whatever carries the messages.

### MpiProof

One variable per piece of state of a rank: `rpc`/`wpc` are the next calls, `pending` the
workers the root's present collective has yet to serve, `stage0State`/`stage1State` the two
`Option`s of `CoordinatorState`, `states` the `WorkerState` per slot, `received` and
`responses` the worker's vectors, `sizes`/`data`/`replies` what travels in each collective. One action
per call: `CoordStage0`, `ScatterSize`, `ScatterData`, `Gather`, `CoordStage1`,
`CoordAggregate` for the root, `ReceiveSize`, `ReceiveData`, `Stage0`, `Stage1`,
`SendResponses` for a worker. A worker's threads are actions on slots: `Ready` lets a
thread take its chunk in order and leaves the threads interleaved, `StateOf` says which `WorkerState` the
request in a slot is zipped with. A failed `unwrap`, assertion or MPI length check, and a division by
zero, is a state of its own (`Panicked`), in which the rank stays.

`env` is what a run cannot choose: whether the build has the feature `parallel` and debug assertions;
the size of the rayon pool on each worker, one thread of which `node.rs:453` leaves to the main thread
(`NumThreads`), so that a pool of one thread makes the worker divide by zero at its first requests
(`node.rs:651`); the subcircuits whose commitment or proof panics in the prover or the constraints (`refused`);
and those whose proof does not verify (`misfit`): all those of a RAM circuit, and those proved with a key
made for other constraints, as paddings of `Vkd`, the last chunk of `Vm` and other filters than the key's
are. `CoordAggregate` has the debug assertions on the equations of single proofs (`EquationHolds`; those on
their combination follow from it) and the assertion at the end (`DsMatch`). That the coordinator's own
run of the circuit panics is left out: such a job ends before its first collective.

The root's scatter serves one worker per step, in any order, and may run ahead of the workers,
as MPI allows. The packing of requests into bytes is not modelled. What must agree is the
length announced by the first scatter and the length of the second; the vector of request
sizes stands for it. The parts of the root's gather buffer have the length of default responses, which is that of
the real ones as long as a proof has one commitment, as `Proof`'s hand-written `Default` has (`Length`,
`DefaultLength`). Wires are keyed by the call they belong to, which is the order of the calls as long as both sides
make the same; a call too many or too few shows as ranks that wait for each other.

### FileProof

`disk` maps each file to its content, to `None`, or to `Torn`. A command is a process: it reads
everything, panics if something cannot be read, then writes its files one by one (`Rank` is the order;
requests in any order, the state file last). `Crash` kills a process at any point and leaves any of the
files it may be writing cut short. `GenKeys` writes a key for each group of subcircuits and `Symlink`
the links to it. The script runs the next stage whatever happened (`Advance`) and may be
run again (`Rerun`). `script` says which script it is: `clean` tells `test_run.sh`, which removes
everything first, from `run.sh`, which only removes requests; `debug` a debug from a release build;
`groups` and `absolute` how keys are shared and linked. A `gen-keys` whose circuit panics, as the merge sort
does that `test_run.sh` asks for (`DbCircuits`), is one that crashes. The committing keys are left out: no command
reads them.

### Aggregation

The steps of `ProofSession`, each with what it does to the public inputs: `NewAggKey` takes columns of
the proving keys, `Stage1` takes challenges and root from a request (`RequestChallenges`, the leaf before),
`IntoAggState` from the coordinator's state, and `AggSubcircuitProofs` folds the inputs into the columns
(`PreparedInput`) beside the verifier's `PrepareInputs`. `faults` is what may be wrong with a session's keys and
assignments: `refused` the subcircuits at which a stage panics in the prover, `misfit` those the prover takes and
the verifier does not, as their key is one for other constraints. A group element is the function from columns to
inputs it is the sum of; the inner-pairing-product arguments are not modelled.

### AllInOne

The tasks of `work()`. A stage 1 task draws a new seed instead of using the one it was handed.

### PortalTrace

The set-up managers log entries (`SetupGet`, `SetupSet`, `StartSubtrace`) into `trace`;
`SortByAddr` makes the address-ordered trace with Rust's stable sort, `GenExecTree` the leaves;
`StartStage1`, `PmGet` and `Finish` are the constraints of a subcircuit, entry by entry, in any
interleaving of subcircuits. `pm` has a manager for each subcircuit that has started. `unsatisfied` collects the constraints that do not hold,
`compared` the adjacent pairs that some constraint looks at. A running evaluation, a product of
`(challenge - entry)`, is the bag of its entries. Timestamps are `TimeBits` wide and wrap around.

### CommitBuilder

`cs.ranges` are the witness ranges of the stages, `key.parts` the columns each stage has in
the proving key, `comms` the commitments, as the set of (column, variable) pairs of their
multi-scalar multiplications. `SetupStage`/`FinishSetup` are key generation, `Commit`, `Prove`
and `SynthesisError` the builder, `Verifies` the verifier's equation in terms of columns.

### TreeHash, Vkd, Vm, DbCircuits

Each is one circuit, `DbCircuits` two, on its way through a session: `GenPk` makes the keys of the unique
subcircuits, `SetupSubcircuit` is a round of `get_portal_subtraces` on the set-up portal manager
(in `TreeHash` and `Vm`, `StartSubtrace` is the head of its loop and `Access` a single `get` or `set`),
`Prove(i)` generates the constraints of subcircuit `i` over its subtrace. The trace is written by
one function and consumed by another, and a prover looks at no wire's name; `proofs[i]` records
whether the key was made for the constraints (`Shape` is what tells two constraint systems apart),
whether the constraints hold, and whether each entry is of the wire the constraints name.

`TreeHash` has the numbering of nodes and subcircuits and both layouts of the keys. In `Vkd`,
`RandomAppend` and `RandomUpdate` are the rounds of `random`, which changes the directory and its
tree; `VkdUpdateToSubcircuit` cuts the updates into subcircuits of primitives; `users` and `roots`
record the directory and its history as `random` makes them. `Vm` has the
address manager and both kinds of memory; timestamps it leaves to `PortalTrace`. What `Vkd` and `Vm` say on the wires is told apart by
what it was computed from.

`KeyDirectory` says what the directory is for: versions that count up, a history of digests, and
links from each digest to the next. `ImplementsDirectory` maps `Vkd` to it: the digest is the tree's
root, a link is the pair of roots on the wires of an update's two paths, and `certified` is that every
subcircuit is proved.

`DbCircuits` has the filter (a row a subcircuit) and the merge sort (a layer a subcircuit). `New` is the
circuit keys are made from and workers start with, `WorkerCircuit` what a worker's request fills in.
`GenPk` panics where key generation asks for a value; no session of the merge sort therefore comes to
`Prove`, and how its witnesses are packed is left out. Dates are below half the field, as `is_cmp`
requires.

### SparseTree

`SparseMerkleTree` and `MerkleTreePath`, every round of a loop a step; `pc` is the function at work
and `d`, `i` its loop variables. `NewLevel`, `NewEnd` are `new`; `Insert`, `InsertLevel`, `InsertEnd` are
`insert`; `LookupPath`, `LookupLevel`, `LookupEnd` are `lookup_path`; `ComputeRoot`, `ComputeLevel`,
`ComputeEnd` fold a hash with a path into a root, natively (`h`) and as the constraints do (`hVar`).
`tree` has the nodes that are stored, `defaults` the hashes of empty subtrees.

## 3. Runs

| Run | Module, configuration | Result | Properties | What it shows |
|---|---|---|---|---|
| `mpi_8x2` | `MCMpiProof`, `MpiProof_8x2.cfg` | pass | `TypeOK`, `PanicsExplained`, `ChallengesBindCommitments`, `AggregateOpensSuperCom`, `ProofsChained`, `CommitmentsFrozen`, `Termination`, `ImplementsSession` | Two workers with four subcircuits each, on pools that make one thread of all four requests, two threads of two, a thread for each, or none at all; debug and release builds; sound keys, keys the prover refuses and keys only the verifier would: every interleaving of the six collectives and of the threads ends in an aggregate of consistent proofs or in a panic that the pool or the keys explain, and implements ProofSession. |
| `aggregation` | `MCAggregation`, `Aggregation.cfg` | pass | `AggregateConsistent`, `InputsFoldedButRam`, `ChallengesFinal`, `DeliversUnlessCaught` | The abstract session with the public inputs of its proofs and their aggregation, ROM and RAM, debug and release, with keys that fit, that the prover refuses and that only the verifier would: commitments, then challenges, then proofs, then one aggregate that folds each proof's inputs as its verifier would. A RAM circuit's inputs are never all folded. The session ends in a panic where the prover refuses a subcircuit and, in a debug build, where a proof does not verify; a release build delivers over it. |
| `portal` | `MCPortalTrace`, `PortalTrace.cfg` | pass | `MemoryConsistent`, `Satisfied`, `NeighboursCompared` | Every trace of up to 5 entries over 2 wires, of ROM wires cut into 3 subtraces at every place and of RAM wires with 2-bit timestamps cut into 2, proved in every order: the memory is consistent, every constraint holds as long as no timestamp is used twice, and the adjacent pairs that are constrained are all of them for ROM, those within the subtraces for RAM. |
| `portal_ram_boundary` | `MCPortalTrace`, `PortalTrace_ram_boundary.cfg` | violation | `PairsCompared` | The RAM manager never constrains the first entry of a subtrace against the entry prepended to it. |
| `file` | `MCFileProof`, `FileProof.cfg` | pass | `OneCircuit`, `SessionDelivers`, `ImplementsSession` | A script run twice, any process dying at any point, for run.sh and test_run.sh, debug and release builds, keys of their own and linked keys. A final proof is of one circuit and one set of keys, and an undisturbed session delivers it whatever the one before left (unless the links fail); every session of a script that cleans up is a ProofSession. |
| `all_in_one` | `AllInOne`, `AllInOne.cfg` | violation | `CommitmentReconstructed` | Stage 1 of all_in_one commits with a new seed and so proves about a commitment other than the one of stage 0. |
| `commit_builder` | `MCCommitBuilder`, `CommitBuilder.cfg` | pass | `RangesPartition`, `StagesMatchKey`, `ProofVerifies`, `ShortProofRefused` | Key generation for any circuit of three stages, and every order of commit and prove on a builder for any other such circuit: witnesses stay with their stage, a mismatch in a committed stage never reaches a proof, what is made of the key's own circuit verifies, and what is made with a last stage of another length does not. |
| `tree_hash` | `TreeHash`, `TreeHash.cfg` | pass | `ProofsValid`, `WiresHoldSubtreeRoots`, `HashesUsedOnce` | Trees of 2 to 16 leaves, with keys laid out by node.rs or by bin/coordinator, proved by two workers: the trace logged without constraints is the one the constraints ask for, every subcircuit is satisfied by its own witnesses, and its key was made for it. |
| `sparse_tree` | `MCSparseTree`, `SparseTree.cfg` | pass | `TypeOK`, `RootIsMerkleRoot`, `PathTracksTree`, `RootBindsLeaf` | A tree of depth 3 with four users, inserts, path look-ups and root computations in every order: the stored part stands for the whole Merkle tree, a path outlives the updates of its own leaf, and it proves nothing but the present leaf. |
| `vkd` | `MCVkd`, `Vkd.cfg` | pass | `ProofsValid`, `VerifyAccepts`, `KeysFitButPaddings`, `ImplementsDirectory` | Directories of 32 and 64 subcircuits (one append and two or six updates), with a counter too wide to wrap and with one that wraps, from random to the last subcircuit's constraints: the updates verify natively, the trace logged natively is the one the constraints ask for, every subcircuit is satisfied and, but for five paddings, proved with a key made for it; the circuit panics exactly when a leaf repeats; and while no counter wraps it implements KeyDirectory. |
| `vm` | `Vm`, `Vm.cfg` | pass | `ProofsValid`, `ChunksHandOver`, `KeysFitButLast` | Virtual machines of 2 to 16 chunks: with portal memory the logged accesses are those the constraints make, kind by kind and wire by wire, and every chunk starts from the registers of the chunk before it; all but the last are proved with a key made for them. |
| `db_circuits` | `MCDbCircuits`, `DbCircuits.cfg` | pass | `FilterProofsValid`, `FilterKeysFit`, `SortNeverStarts`, `MergesAgreeButTies` | Filters of 2, 4 and 8 rows and merge sorts of 2 to 7, from key generation to the proofs: the filter's comparison in the constraints is the native one, its keys fit exactly four rows and the date they were generated with; a merge sort never gets past its keys, and its two merges agree but for ties. |

Bounds, and why they are enough:

* **mpi_8x2**: two workers and four subcircuits each is the least in which a worker has a
  neighbour, and a thread a neighbour while each has several requests to walk through with its
  `WorkerState`s; every index shift then lands on a wrong value. The six environments have two threads
  of two requests beside one of four, more threads than requests, a build without the feature
  `parallel`, and a pool of one thread; release and debug builds over proofs that do not verify; a
  subcircuit refused in stage 0 of each worker, and one in stage 1. Request sizes are distinct for every subcircuit and stage, so no size can reach a wrong
  place unnoticed. Two seeds make two commitments to one subcircuit possible. More workers add only
  repetitions, and the theorems hold for all numbers.
* **file**: two sessions are what it takes for a leftover of another session to exist; two subcircuits
  what it takes for them to come from different sessions, and for a key to be shared. Both scripts,
  both builds, absolute and relative links.
* **portal**: five entries over three subcircuits (two for RAM) include empty subtraces at each
  place, a wire used across a cut, and an address change on a cut. `TimeBits = 2` lets the clock
  wrap in five entries; `Satisfied` is stated for traces short enough not to wrap, as
  the code assumes for `2^32`. More wires than two add no new pair of neighbours.
* **commit_builder**: every circuit of three stages with up to two witnesses and one
  instance per stage, for key and prover independently.
* **aggregation**: four subcircuits, the two in the middle with one key, two commitments; ROM and RAM,
  debug and release; nothing wrong, that key one for the constraints of the first of the two only, a subcircuit
  refused in stage 0 or in stage 1.
* **tree_hash**: 2 to 16 leaves, so that parents of up to four levels and every case of the key
  ranges appear, one or two portals per subcircuit, both layouts of the keys.
* **sparse_tree**: depth 3 and four users, two of them siblings; two leaf values besides the
  initial one, so that a leaf can be changed, changed back, and left alone.
* **vkd**: 32 and 64 subcircuits hold one append and two or six updates, enough for a first, a
  middle and a last update. A path of 8 levels in 4 parts has a first, two middle and a last part;
  the user's index has a different two-bit value in each. Counters that do not wrap, and one that
  wraps after four updates, so that a leaf repeats.
* **vm**: 2 to 16 chunks of 2 or 4 operations on three registers, one of them the operand; 16
  registers would repeat the same accesses.
* **db_circuits**: filters of 2, 4 and 8 rows, fewer than, as many as and more than the fixed unique
  subcircuits stand for, with dates before, on and after the filter's; sorts of 2 to 7 rows, one to three
  layers with and without a segment left over.

Fairness is used by two runs. `Termination` of `MpiProof` assumes weak fairness of the root
and of each worker, and nothing about their threads: each rank is an operating-system process that keeps
running, and a worker's threads are joined by it. No fairness is assumed of the collectives
beyond that. `DeliversUnlessCaught` of `Aggregation` assumes weak fairness of a session's steps as a
whole: whoever carries the session out keeps running. The scripts of `FileProof` may be left to die at
any step, and nothing is claimed to happen there eventually.

Runs marked *violation* show a disagreement between the code and what it says of itself;
section 6 quotes both.

## 4. Proofs

| Module | Theorems |
|---|---|
| `MpiProof_proofs` | `MpiInvariant` and from it `MpiTypeCorrect`, `MpiPanicsExplained`, `MpiChallengesBind`, `MpiAggregateOpens`, `MpiProofsChained`, `MpiCommitmentsFrozen`, and the refinement `MpiImplementsSession`: every run of `node.rs` is a proof session; for every number of workers and subcircuits, every build, every size of the pools and all keys |
| `Aggregation_proofs` | of the session `SessionSound`, `SessionChallengesFinal`, for every set of subcircuits and commitments; `AggregationInvariant`, `AggregationIsSession`, and from them `AggregationConsistent`, `AggregationChallengesFinal`, `AggregationFolds`, for every number of subcircuits and every layout of the keys |
| `FileProof_proofs` | `FileInvariant` and from it `FileOneCircuit`, `FileSessionDelivers`, and the refinement `FileImplementsSession`, for every number of subcircuits, every way to share keys, both scripts and both builds |
| `PortalTrace_proofs` | `PortalInvariant` and from it `PortalMemoryConsistent`, `PortalSatisfied`, `PortalNeighboursCompared`, for all wires and values, traces of any length, any number of subcircuits and any cuts, timestamps of any width |
| `SparseTree_proofs` | `SparseTreeInvariant` and from it `SparseTreeTypeCorrect`, `SparsePathTracksTree`, `SparseRootIsMerkleRoot`, `SparseRootBindsLeaf`, for every depth, all leaves and any hash function (injective for the last) |
| `TreeHash_proofs` | `TreeInvariant` and from it `ProofsAreValid`, `WiresAreRoots`, `HashesAreUsedOnce`, for every power of two of leaves, every number of portals and of workers, and both layouts of the keys |
| `Vm_proofs` | `VmInvariant` and from it `VmProofsValid`, `VmChunksHandOver`, `VmKeysFit`, for every number of chunks, of operations in a chunk and of registers, and both kinds of memory |
| `CommitBuilder_proofs` | `BuilderInvariant`, `BuilderTypeCorrect`, `BuilderRangesPartition`, `BuilderStagesMatchKey`, `BuilderProofVerifies`, `BuilderShortProofRefused`, for every number of stages and all circuits |

Assumptions are the named `ASSUME`s of the modules: the sizes are positive and the workers divide
the subcircuits (`node.rs` asserts it), a rayon pool has at least one thread, `None` is no value of the types it is added to, and `Torn`, which
stands for a file that was cut short, is the content of no whole file (`NoFileAssumption`).

*MpiProof.* None of the safety properties is inductive: `PanicsExplained` says nothing of what is in a
message, and a wrong message in flight would break it a step later. `IInv` (module `MpiProofInv`) therefore says what each
rank knows at each of its calls. `CoordInv` ties `rpc` to the coordinator's
state, `ScatterInv` and `GatherInv` tie what is in a collective to whether the root has served the
worker, `WorkerInv` is a disjunction over `wpc[w]` of what the worker holds there, and `SuperInv` says
that from `CoordStage1` on the super-commitment is the vector of commitments in the
`WorkerState`s. Arithmetic lemmas (`Idx`, `WorkerOf` and `SlotOf` are inverse to each
other) and a lemma that the stable sort of responses already in order is the identity stand
before the step lemmas, one per action. `EnvInv`, inductive together with `IInv`, says why a rank has panicked, and
that a worker without a thread never gets past its first requests; `WorkerInv` goes on saying what a worker that
panicked holds, from which it follows that no panic before stage 1 leaves challenges behind. The
refinement maps a `WorkerState`'s commitment to `com`, `stage1State` or the aggregate's to `super`, and a spent state's response to `proof`; each action
is a step of the session or a stutter.

*CommitBuilder.* `RangesPartition` holds in a failed builder too, but for the witnesses of the stage that
failed: the ranges are then those a stage without witnesses would have left. The invariant says at each
phase what the ranges are: consecutive sums of what the stages allocated (`keyCirc`'s before the key, `circ`'s after it), with the key's parts
shifted by its instance count; from it the terms of each commitment are known, and
`BuilderProofVerifies` follows column by column.

*FileProof.* What can be on the disk is anything two sessions and any number of crashes leave there, so
`IInv` of `FileProof_proofs` says less of a file than that it is there. `ProcessInv`: what a process read is
what its command reads, and it is at one of its pending writes. `ContentInv`: a file that can be read
has content of its kind (`Sound`), a response tells truthfully whether the worker's proof is valid, and
a final proof of a debug build is of one circuit and one set of keys: this gives `FileOneCircuit`.
`FreshInv`: in a script that cleans up, files no command of this session has settled yet are absent.
`SessionInv`: in such a script, and in a session nothing disturbed, each settled file that is there has the
content `Expected` of it, a function of the session's circuit and keys; undisturbed, every settled file is
there (`FileSessionDelivers`). `GateInv`: the outputs of a later stage are there only beside the inputs they
were made from, which is what lets the refinement read a commitment, the super-commitment, a proof and the
aggregate off the disk: a write of the right file is the session's step, any other write, a crash, a
start and an exit are stutters, and `Rerun` is an initial state again.

*PortalTrace.* `Satisfied` is far from inductive. `SetupInv` is the coordinator's run: the cuts are in
order, addresses are dealt out one by one to the wires in use and every address dealt out is in the trace
(`AddressInv`), the map holds what the trace has last at the wire's address (`MapInv`, from which
`MemoryConsistent` is kept), and entries bear their places for as long as the clock has not wrapped
(`ClockInv`). The sort is a theorem about its own definition: `Before` is a strict total order
(`BeforeIs`), so the number of entries that precede one is an injection of the places into themselves
(`RankIs`), hence a bijection, and `Source`, its inverse, rearranges the trace in that order
(`SourceIs`). Then neighbours of the sorted trace have the same address or consecutive ones, since no
address is left out (`NextAddress`); entries of an address lie in the order they were logged in, so the entry
before a read is an entry of its value (`NextRead`); and so no constraint between neighbours fails, wherever the
trace is cut (`NeighboursHold`). A running evaluation is a bag: one more entry adds one
(`EvalNext`), and a bijection of the places leaves it the same (`EvalSorted`), which is the final
permutation check. `ManagerInv` says that a manager at its place has the evaluations of the whole trace
up to there, which makes the leaf it ends in the tree's; `ComparedInv` that what has been compared is
what the managers have met, from which `PortalNeighboursCompared` follows with the lemma that the cuts cover
the trace (`CutOf`).

*Vm.* That the constraints consume what was logged is a fact about the end of the trace; `TraceInv` says it of
every prefix: a subtrace has the operations of its subcircuit as far as they go, at the addresses of their
registers. `AddressInv` is why no `get` panics: a register has one address, and has it from its first write
by subcircuit 0 on (`ReadIsKnown`: that subcircuit reads nothing before its writes are done).
`OperationsAre` says where the reads and writes of the registers are in a subcircuit's operations, however
long a chunk is, from which `VmChunksHandOver` follows with the addresses being distinct. `ProofInv` records
what each proof finds; `NumIs`, that there are at least two subcircuits, needs 2^n, for which the
arithmetic of the provers has no rule, and goes by counting subsets.

*TreeHash.* Most of the module is about numbers. `NodeAt(l, u)` is the `u`-th node of level `l`;
`TrailingOnes` and `LevelAt` prove that its level is `l`, `ChildrenAt` that the XORs of `left_child` and
`right_child` lead to nodes `2u` and `2u + 1` of the level below, `SubcircuitAt` and `PlaceOf` that the subcircuits go
through these nodes in order. `NodeIs` and `KindIs` say it by subcircuits: the `i`-th has its own node
(`NodeInjective`, `NodeSurjective`), a leaf if `i < L`, and the children of the others are those of subcircuits
`2 * (i - L)` and the next. Powers of two come from `PowerIs`, induction on the set of exponents that have a
property (`UpTo`, from the least element of a set), which also gives what the recursive functions compute:
`HashLevelsAre` that the recursion of `calculate_root` has a solution, `HashPart` that the root of an aligned part of the
leaves is a hash of the whole tree, and so `SubtreeIs` that the root below a node is the hash of the
two below its children. The invariant then has the shape of `Vm`'s: `TraceInv` says of every subtrace that it is,
as far as it goes, what its subcircuit's constraints take (`IsSubtrace`), with the values they compute; `WireInv` that a
wire is set exactly from the operation on that sets it (`WireIsSet`: so no `get` and no second `set` panics);
`KeysInv` what each key was made for (`UniqueIs`: the ranges of representatives keep the shape). `UsesAre` finds the two
places of a node's wire in a complete trace.

*SparseTree.* `IInv` says where the loops are (`LoopInv`), that a default hash is that of two empty
halves (`DefaultsInv`), that with a node its parent is stored and has the hash of its children, except
where an insertion still has to go (`TreeInv`), that the leaves are the users' (`LeavesInv`), that
`root` is the top node outside an insertion (`RootInv`), that a path holds the siblings of the nodes on
its way as far as it has been looked up, as long as no other leaf is inserted (`PathInv`), and that the hash
folded over it from the right leaf is the node's at every depth (`ComputeInv`).
`SparseRootIsMerkleRoot` compares the root with `MerkleTree`, the hashes of the full tree of all leaves, a
recursive function over the height: `MerkleTreeIs` proves that its recursion has a solution, by
induction on the height (`HeightInduction`, from the well-foundedness of the natural numbers), and
`FullNode`, by the same induction, that every node of it has the hash the sparse tree looks up.
`SparseRootBindsLeaf` has the injectivity of the hash functions as a hypothesis: `BindInv`
carries a difference at the leaf up to the root. It is about the native check alone, as the inner hash
of the circuit's is a witness nothing constrains (`hash.rs:146`).

*ProofSession.* The invariant adds to the type that a fixed `super` equals `com` and that every
proof is `ProofOf(com[i], com)`.

*Aggregation.* Each step is a step of the session or leaves its variables alone, so what holds of
`ProofSession` holds here. `AggIInv` adds that the aggregation key, once made, has the columns of the
representatives' keys, and that the inputs of the proofs and of the aggregator are the same
`PublicInputs`, a function of the super-commitment. `AggregationFolds` then compares the domains of two
sums: four columns are folded, and a verifying key has four for a ROM and six for a RAM circuit (`NumInputs`).

Left to TLC: `Termination` and `DeliversUnlessCaught` (liveness is out of the prover's reach),
and `Vkd` with its refinement and `DbCircuits`, whose traces are folds over
sequences.

## 5. What is not modelled

* Field and group arithmetic, hashing, pairings and the inner-pairing-product arguments: values are told
  apart by what they were computed from. Hash functions are injective.
* Serialization and message packing, beyond the agreement of sizes; timers and printing.
* The constraints inside the hash and path gadgets: a subcircuit's constraints are evaluated
  on what an honest prover assigns. That they admit nothing else is not claimed.
* The witnesses of the merge sort: its sessions end before a worker is sent any. The TPC-H sketch is
  commented out.
* Failures of MPI ranks other than their own panics. MPI aborts the job; nothing in the code handles it. That the world has as many
  ranks as the workers and the root (`node.rs:385`) is assumed: the code checks only that the workers
  divide the subcircuits.
* `tpch_1.rs` and the `test_*` binaries repeat `node.rs`, `bin/coordinator.rs` and `bin/worker.rs`
  with another circuit. Some files are not compiled at all (`PROJECT.json` names them).

## 6. Findings

* **distributed-prover/portal_manager/ram_portal_manager.rs:172** (code bug, run `portal_ram_boundary`, property `PairsCompared`). RamProverPortalManager::get takes addr_ordered_subtrace[next_entry_idx + 1] for the current entry and compares it with the one after that, so the prepended last entry of the previous subtrace is never compared with the first entry of this one: the address, value and timestamp constraints are missing at the head of every subtrace. subcircuit_circuit.rs:215-216 says "Prepend the last subtrace entry to the addr-ordered subtrace. This necessary for the consistency check." and docs/subcircuit_api_and_protocol.md:31 says the proof "Checks the consistency of `fᵢ₋₁ || addr_trᵢ`". RomProverPortalManager::get does compare the two.
* **mpi-snark/bin/all_in_one.rs:172** (code bug, run `all_in_one`, property `CommitmentReconstructed`). The closure of stage 1 is handed the seed of the stage 0 response and shadows it with a fresh rand::thread_rng() seed, so WorkerState::stage_0 draws another com_seed and the proof's ds differ from the super-commitment's commitments; the assertion that ends agg_subcircuit_proofs then fails. all_in_one.rs:121 says "Each commitment comes with a seed so we can reconstruct the commitment in stage1".

Met while modelling, and part of the models as they are, without a run of their own:

* `distributed-prover/src/vkd/vkd_constraints.rs:205` maps every padding to subcircuit 0, but
  `subcircuit_circuit.rs:193` gives subcircuit 0 checks of its own, so that paddings 1 to 5 are proved with a
  key made for other constraints (`KeysFitButPaddings` says exactly these). `lib.rs:74` calls the
  representative "canonical". The end-to-end test has its `verify_proof` commented out.
* `distributed-prover/src/vm/vm_constraints.rs:96` maps the last chunk to chunk 1, whose
  constraints lack the permutation check of `subcircuit_circuit.rs:257` (`KeysFitButLast`).
* `distributed-prover/src/vm/vm_constraints.rs:29`: with `use_merkle_memory` the trace has all the portal
  accesses and the constraints none, so no running evaluation reaches the next leaf (`ProofsValid`
  of `Vm`). The unit test compares the two only without it.
* `distributed-prover/src/transcript/ram_transcript.rs:306`: `is_padding` chains `.and` on `Result`s,
  which returns the last operand; every write entry counts as padding.
* `distributed-prover/src/vkd/vkd.rs:183`: the counter is a `u16` that wraps in a release build
  while keys repeat after 256 updates. From `log_num_subcircuits = 20` (`vkd.rs:632` allows up to 50) a
  leaf comes a second time and setting its hash wire again panics (`ProofsValid` of `Vkd` says exactly
  when).
* `distributed-prover/src/aggregation.rs:201` folds three public inputs whatever their number, and the
  assertion that there are three is commented out (line 150). A RAM subcircuit has five, so its debug
  assertions fail and a release build aggregates without them (`InputsFoldedButRam`, `DeliversUnlessCaught`).
* `mpi-snark/src/bin/node.rs:453` leaves one thread of the pool to the main thread, so that a worker on a machine
  with one thread has none for its requests and divides by zero in `pool_and_chunk_size` (line 651;
  `PanicsExplained`, `Termination`).
* `distributed-prover/src/util.rs:147`: the links to a shared key fail when they exist, so that `run.sh`
  panics in its first command when it is run again; and they hold the path as it was given, so that a
  relative key directory makes them lead nowhere (`LinksFail`).
* `distributed-prover/src/single_tuple_filter_circuit.rs`: the date is a constant of the constraints and
  not a witness, so keys fit no other date than the one they were generated with; and the key of row 3,
  which stands for the last row, has its permutation check only when there are four rows
  (`FilterKeysFit`).
* `distributed-prover/src/test_circuit.rs`: the layers of the merge sort set wires of the same names, and
  a merge asks for values, which key generation has not, so no proof is ever made (`SortNeverStarts`).
  The constraints take the right of two equal keys (line 265), the native merge the left (line 354;
  `MergesAgreeButTies`). `mpi-snark/src/bin/node.rs:258` builds the circuit's parameters without their field
  `sort_column_idx`.

## 7. Plan

In the order of importance; what is done is marked.

1. The session and its MPI carrier, with proofs (done).
2. The file carrier with crashes and re-runs, with proofs, and the one-process carrier (done).
3. Portal wires, sort, tree and constraints, with proofs (done).
4. The Groth16 bookkeeping, with proofs (done).
5. The Merkle tree circuit with its numbering, trace and key layouts, with proofs for every number of
   leaves (done).
6. The sparse Merkle tree, with proofs, and the key directory as an implementation of an abstract
   one (done; the directory is model-checked).
7. The virtual machine, with proofs (done).
8. The filter and the merge sort (done, model-checked).
9. The public inputs and the aggregate, with proofs (done).
10. More proofs: `DbCircuits` and `Vkd` (which keys fit).
