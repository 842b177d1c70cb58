------------------------------- MODULE MpiProof -------------------------------
(***************************************************************************)
(* One proving run of mpi-snark/src/bin/node.rs: rank 0 is the coordinator,*)
(* every other rank a worker that proves a block of PerWorker consecutive  *)
(* subcircuits on a pool of threads.  The ranks only meet in MPI           *)
(* collectives, which match by the order of the calls:                     *)
(*   scatter of the request sizes, scatter of the requests, gather of the  *)
(*   responses, once for stage 0 and once for stage 1.                     *)
(* The root's call serves the workers one at a time, in any order, and     *)
(* returns when it has served them all; nothing makes it wait for a worker *)
(* to enter a scatter.                                                     *)
(***************************************************************************)
EXTENDS Integers, FiniteSets, Sequences

CONSTANTS
  NumSubcircuits,   \* subcircuits of the circuit being proved
  NumWorkers,       \* worker ranks, the world's size minus one
  Envs,             \* builds and machines a run may happen on
  Seeds,            \* commitment seeds a worker may draw
  ReqSize,          \* ReqSize[s][i]: packed length of i's stage-s request
  None              \* a value not there: Rust's None, or a call not yet made

PerWorker == NumSubcircuits \div NumWorkers

\* work divides by the number of workers and asserts that nothing is left over:
\* with other arguments every rank ends before its first collective.
ASSUME SizesAssumption ==
  /\ NumWorkers \in Nat \ {0}
  /\ NumSubcircuits \in Nat \ {0}
  /\ PerWorker * NumWorkers = NumSubcircuits

Stages     == {0, 1}
Subcircuit == 0 .. NumSubcircuits - 1
Workers    == 1 .. NumWorkers
Slots      == 1 .. PerWorker

\* What a run cannot choose: two settings of the build, the size of the rayon
\* pool of each worker, the subcircuits whose commitment or proof panics in the
\* prover or in the circuit's constraints (a key of another length, in a debug
\* build an assignment that does not satisfy), and the subcircuits whose proof
\* does not verify under the aggregation key (those of a RAM circuit, of whose
\* inputs two are left out, those whose key is one for other constraints).
\* That the coordinator's own run of the circuit panics is left out: such a job
\* ends before the first collective.
Env == [parallel : BOOLEAN,              \* the feature "parallel"
        debug    : BOOLEAN,              \* debug assertions
        pool     : [Workers -> Nat \ {0}],
        refused  : [Stages -> SUBSET Subcircuit],
        misfit   : SUBSET Subcircuit]

ASSUME EnvsAssumption == Envs \subseteq Env

ASSUME ReqSizeAssumption == ReqSize \in [Stages -> [Subcircuit -> Nat]]

-----------------------------------------------------------------------------
(* Values.  A commitment is determined by the subtraces of a subcircuit,    *)
(* which its index stands for, and by the seed of its randomizer.  The      *)
(* super-commitment is the vector of commitments it binds; the challenges   *)
(* are its hash, and the root of the execution tree is a function of the    *)
(* traces and the challenges: both are told apart by it alone.              *)

Com      == [sub : Subcircuit, seed : Seeds]
SuperCom == [Subcircuit -> Com]

\* A leaf of the execution tree: the state after subcircuit pos, or the
\* padding leaf at -1, and the challenges its running evaluations carry.
Leaf == [pos : -1 .. NumSubcircuits - 1, chal : SuperCom \cup {None}]

Stage0Request  == [sub : Subcircuit]
Stage1Request  == [sub : Subcircuit, cur : Leaf, next : Subcircuit, root : SuperCom]
Stage0Response == [sub : Subcircuit, com : Com, seed : Seeds]
Proof ==
  [sub : Subcircuit,                     \* whose constraints and subtraces
   ds : Seq(Com), rand : Seeds,          \* its commitments, and their randomizer
   cur : Leaf, next : Subcircuit,        \* leaf entered, position of leaf left
   root : SuperCom]
Stage1Response == [sub : Subcircuit, proof : Proof]

\* A WorkerState: the subcircuit its commitment builder was made for, with
\* the commitment and the seed of its randomizer; stage 1 consumes it.
WorkerState ==
  [cb : Subcircuit \cup {None}, com : Com \cup {None}, rand : Seeds \cup {None},
   spent : BOOLEAN]

\* What the collectives carry to or from a worker, and what the run computes.
Request  == Stage0Request \cup Stage1Request
Response == Stage0Response \cup Stage1Response
SizeVec  == [Slots -> Nat]
DataMsg  == [size : SizeVec, reqs : [Slots -> Request]]
Reply    == [Slots -> Response]
AggProof == [super : SuperCom, proofs : [Subcircuit -> Proof]]

ASSUME NoneAssumption ==
  None \notin Subcircuit \cup Seeds \cup Com \cup SuperCom \cup Response
             \cup SizeVec \cup DataMsg \cup Reply \cup AggProof
             \cup [com : Com, super : SuperCom]

-----------------------------------------------------------------------------
VARIABLES
  env,           \* the build and the machines, chosen once
  rpc,           \* the coordinator's next call, <<call, stage>>
  pending,       \* workers the coordinator's current collective has yet to serve
  stage0State,   \* coordinator: is there a CoordinatorStage0State
  stage1State,   \* coordinator: the super-commitment of its stage 1 state
  requests,      \* coordinator: the requests of the current stage
  gathered,      \* coordinator: receive buffer of the current gather
  aggregate,     \* coordinator: the proofs aggregated, with their super_com
  wpc,           \* each worker's next call, <<call, stage>>
  bufSize,       \* each worker's receive buffer length
  received,      \* each worker's requests
  states,        \* each worker's WorkerStates
  responses,     \* each worker's responses to the current stage, by slot
  sizes, data, replies  \* what each collective carries: [stage][worker]

rootVars   == <<rpc, pending, stage0State, stage1State, requests, gathered, aggregate>>
workerVars == <<wpc, bufSize, received, states, responses>>
wireVars   == <<sizes, data, replies>>
vars == <<env, rootVars, workerVars, wireVars>>

\* The coordinator deals the requests out in chunks of PerWorker.
Idx(w, j) == (w - 1) * PerWorker + (j - 1)
WorkerOf(i) == (i \div PerWorker) + 1
SlotOf(i)   == (i % PerWorker) + 1

\* The size of the buffer that holds a worker's serialized chunk of requests
\* is the sum of its requests' sizes; what matters of the sum is that both
\* scatters agree on it, so the vector of the chunk's sizes stands for it.
ChunkSize(s, w) == [j \in Slots |-> ReqSize[s][Idx(w, j)]]

\* counts[w]: what scatter_requests announces to rank w.  The vector starts with
\* an empty part for the root, so that rank w finds its own chunk at place w.
Announced(s, w) == ChunkSize(s, w)

\* Mutant of Chunk: displacements off by one.
ChunkShifted(reqs, w) == [j \in Slots |-> reqs[(Idx(w, j) + 1) % NumSubcircuits]]

\* The part of the flattened buffer at displacements[w].
Chunk(reqs, w) == [j \in Slots |-> reqs[Idx(w, j)]]

\* A rank that panics aborts (panic = "abort" in both profiles): it takes no
\* further step, and its variables keep what they held before the call.
Panicked(s) == <<"panicked", s>>

-----------------------------------------------------------------------------
(* compute_responses: the worker's requests are cut in chunks, one thread   *)
(* each, and so are its WorkerStates; a thread walks its two chunks in step.*)

\* One thread of the pool is left to the worker's main thread.  Without the
\* feature "parallel" compute_responses takes no notice of its argument.
NumThreads(w) == IF env.parallel THEN env.pool[w] - 1 ELSE 1

\* pool_and_chunk_size; with no thread to compute on it divides by zero.
ThreadChunk(w) ==
  IF PerWorker >= NumThreads(w) THEN PerWorker \div NumThreads(w) ELSE 1

ChunkOf(w, j)       == (j - 1) \div ThreadChunk(w)
SameThread(w, j, k) == ChunkOf(w, j) = ChunkOf(w, k)

\* Slot j is the next its thread takes up.
Ready(w, j) ==
  /\ responses[w][j] = None
  /\ \A k \in Slots : k < j /\ SameThread(w, j, k) => responses[w][k] # None

\* Mutant of StateOf: the threads share the iterator over the WorkerStates, and
\* each takes the next one there is.
StateOfArrival(w, j) == Cardinality({k \in Slots : responses[w][k] # None}) + 1

\* The WorkerState the request in slot j is handed: in the chunk zipped with
\* the request's chunk, the one at the request's place.
StateOf(w, j) == ChunkOf(w, j) * ThreadChunk(w) + ((j - 1) % ThreadChunk(w)) + 1

-----------------------------------------------------------------------------
Init ==
  /\ env \in Envs
  /\ rpc = <<"prepare", 0>> /\ pending = Workers
  /\ stage0State = FALSE /\ stage1State = None
  /\ requests = None /\ gathered = [w \in Workers |-> None]
  /\ aggregate = None
  /\ wpc = [w \in Workers |-> <<"size", 0>>]
  /\ bufSize = [w \in Workers |-> None]
  /\ received = [w \in Workers |-> None]
  /\ states = [w \in Workers |-> [j \in Slots |->
                 [cb |-> None, com |-> None, rand |-> None, spent |-> FALSE]]]
  /\ responses = [w \in Workers |-> [j \in Slots |-> None]]
  /\ sizes = [s \in Stages |-> [w \in Workers |-> None]]
  /\ data = [s \in Stages |-> [w \in Workers |-> None]]
  /\ replies = [s \in Stages |-> [w \in Workers |-> None]]

\* The coordinator's collective has served w; after the last worker it
\* returns and the coordinator goes on to the call next.
Serve(w, next) ==
  /\ w \in pending
  /\ IF pending = {w}
     THEN pending' = Workers /\ rpc' = next
     ELSE pending' = pending \ {w} /\ UNCHANGED rpc

-----------------------------------------------------------------------------
(* The coordinator.                                                         *)

\* CoordinatorState::stage_0: pick the circuit, trace it, make a request per
\* subcircuit.
CoordStage0 ==
  /\ rpc = <<"prepare", 0>>
  /\ stage0State' = TRUE
  /\ requests' = [i \in Subcircuit |-> [sub |-> i]]
  /\ rpc' = <<"size", 0>>
  /\ UNCHANGED <<pending, stage1State, gathered, aggregate, workerVars, wireVars>>

ScatterSize(s, w) ==
  /\ rpc = <<"size", s>>
  /\ Serve(w, <<"data", s>>)
  /\ sizes' = [sizes EXCEPT ![s][w] = Announced(s, w)]
  /\ UNCHANGED <<stage0State, stage1State, requests, gathered, aggregate,
                 workerVars, data, replies>>

ScatterData(s, w) ==
  /\ rpc = <<"data", s>>
  /\ Serve(w, <<"gather", s>>)
  /\ data' = [data EXCEPT ![s][w] =
                [size |-> ChunkSize(s, w), reqs |-> Chunk(requests, w)]]
  /\ UNCHANGED <<stage0State, stage1State, requests, gathered, aggregate,
                 workerVars, sizes, replies>>

\* The responses to a stage have one length but for the number of commitments
\* in their proofs, which stands for it.
Length(s, resp) == IF s = 0 THEN 0 ELSE Len(resp.proof.ds)

\* Mutant of DefaultLength: the derived default, a proof without commitments.
DefaultLengthDerived(s) == 0

\* The length of a default response: Proof implements Default by hand, with
\* one commitment.
DefaultLength(s) == IF s = 0 THEN 0 ELSE 1

\* The root's gather takes the responses of w into the part of its buffer
\* laid out for w, after those of the workers before it.  The part has room for
\* PerWorker default responses; a longer message is an error of MPI.
Gather(s, w) ==
  /\ rpc = <<"gather", s>>
  /\ replies[s][w] # None
  /\ IF \A j \in Slots : Length(s, replies[s][w][j]) <= DefaultLength(s)
     THEN /\ gathered' = [gathered EXCEPT ![w] = replies[s][w]]
          /\ Serve(w, IF s = 0 THEN <<"prepare", 1>> ELSE <<"aggregate", 1>>)
     ELSE w \in pending /\ rpc' = Panicked(s) /\ UNCHANGED <<pending, gathered>>
  /\ UNCHANGED <<stage0State, stage1State, requests, aggregate, workerVars, wireVars>>

\* The gathered buffer, flattened.
Flattened == [i \in Subcircuit |-> gathered[WorkerOf(i)][SlotOf(i)]]

\* Mutant of Before: the sort runs the wrong way.
BeforeDescending(resps, p, q) ==
  \/ resps[p].sub > resps[q].sub
  \/ resps[p].sub = resps[q].sub /\ p < q

\* sort_by_key(subcircuit_idx), a stable sort: the response at place i is the
\* one with i responses before it.
Before(resps, p, q) ==
  \/ resps[p].sub < resps[q].sub
  \/ resps[p].sub = resps[q].sub /\ p < q

From(resps, i) ==
  CHOOSE p \in Subcircuit : Cardinality({q \in Subcircuit : Before(resps, q, p)}) = i

SortBySubcircuit(resps) == [i \in Subcircuit |-> resps[From(resps, i)]]

\* Mutant of CurLeaf: a subcircuit starts from the leaf it ends in.
CurLeafOwn(i, sup) == [pos |-> i, chal |-> sup]
\* Mutant of CurLeaf: a padding leaf without the challenges.
CurLeafBarePadding(i, sup) ==
  [pos |-> i - 1, chal |-> IF i = 0 THEN None ELSE sup]

\* The leaf subcircuit i starts from: the one its predecessor leaves, or for
\* subcircuit 0 the padding leaf with the challenges of the others.
CurLeaf(i, sup) == [pos |-> i - 1, chal |-> sup]

\* Mutant of GenRequest1: the path of the leaf after the one to end in.
GenRequest1PathAfter(i, sup) ==
  [sub |-> i, cur |-> CurLeaf(i, sup), next |-> i + 1, root |-> sup]

\* The request: the leaf to start from, the authentication path of the leaf to
\* end in, the root.
GenRequest1(i, sup) ==
  [sub |-> i, cur |-> CurLeaf(i, sup), next |-> i, root |-> sup]

\* CoordinatorState::stage_1: take the stage 0 state, commit to the sorted
\* commitments, build the execution tree, make a request per subcircuit.
CoordStage1 ==
  /\ rpc = <<"prepare", 1>>
  /\ IF stage0State
     THEN LET sorted == SortBySubcircuit(Flattened)
              sup    == [i \in Subcircuit |-> sorted[i].com]
          IN  /\ stage1State' = sup
              /\ requests' = [i \in Subcircuit |-> GenRequest1(i, sup)]
              /\ stage0State' = FALSE
              /\ rpc' = <<"size", 1>>
     ELSE rpc' = Panicked(1) /\ UNCHANGED <<stage0State, stage1State, requests>>
  /\ UNCHANGED <<pending, gathered, aggregate, workerVars, wireVars>>

\* Proof p verifies at place i: its key fits, it was made from a satisfying
\* assignment, for the commitment it carries and under the challenges and the
\* root the aggregator has.
EquationHolds(sup, p, i) ==
  /\ i \notin env.misfit
  /\ p.sub = i /\ p.ds = <<[sub |-> i, seed |-> p.rand]>>
  /\ p.cur = [pos |-> i - 1, chal |-> sup] /\ p.next = i /\ p.root = sup

\* agg_subcircuit_proofs takes the super-commitment for the commitment to the
\* proofs' first ds, and asserts at its end that the aggregate proof verifies,
\* which it does only when the two agree.
DsMatch(sup, proofs) ==
  \A i \in Subcircuit : proofs[i].ds # <<>> /\ proofs[i].ds[1] = sup[i]

\* CoordinatorState::aggregate takes the stage 1 state.  The equations, one by
\* one, with powers of a challenge and multiplied, are debug assertions; a build
\* without them aggregates whatever the proofs are.
CoordAggregate ==
  /\ rpc = <<"aggregate", 1>>
  /\ LET sorted == SortBySubcircuit(Flattened)
         proofs == [i \in Subcircuit |-> sorted[i].proof]
     IN  IF /\ stage1State # None
            /\ env.debug => \A i \in Subcircuit : EquationHolds(stage1State, proofs[i], i)
            /\ DsMatch(stage1State, proofs)
         THEN /\ aggregate' = [super |-> stage1State, proofs |-> proofs]
              /\ stage1State' = None
              /\ rpc' = <<"done", 1>>
         ELSE rpc' = Panicked(1) /\ UNCHANGED <<aggregate, stage1State>>
  /\ UNCHANGED <<pending, stage0State, requests, gathered, workerVars, wireVars>>

-----------------------------------------------------------------------------
(* A worker.                                                                *)

ReceiveSize(s, w) ==
  /\ wpc[w] = <<"size", s>>
  /\ sizes[s][w] # None
  /\ bufSize' = [bufSize EXCEPT ![w] = sizes[s][w]]
  /\ wpc' = [wpc EXCEPT ![w] = <<"data", s>>]
  /\ UNCHANGED <<rootVars, received, states, responses, wireVars>>

\* The receive buffer has the length announced before; MPI fails a message of
\* another length.  The requests are then cut for the threads.
ReceiveData(s, w) ==
  /\ wpc[w] = <<"data", s>>
  /\ data[s][w] # None
  /\ IF data[s][w].size = bufSize[w] /\ NumThreads(w) # 0
     THEN /\ received' = [received EXCEPT ![w] = data[s][w].reqs]
          /\ responses' = [responses EXCEPT ![w] = [j \in Slots |-> None]]
          /\ wpc' = [wpc EXCEPT ![w] = <<"compute", s>>]
     ELSE wpc' = [wpc EXCEPT ![w] = Panicked(s)] /\ UNCHANGED <<received, responses>>
  /\ UNCHANGED <<rootVars, bufSize, states, wireVars>>

\* A thread of w runs WorkerState::stage_0 on the request in slot j: it draws
\* a seed, commits, and keeps the builder, the commitment and its randomizer.
Stage0(w, j) ==
  /\ wpc[w] = <<"compute", 0>>
  /\ Ready(w, j)
  /\ LET sub == received[w][j].sub IN
     IF sub \notin env.refused[0]
     THEN /\ \E seed \in Seeds :
               LET com == [sub |-> sub, seed |-> seed]
               IN  /\ states' = [states EXCEPT ![w][StateOf(w, j)] =
                        [cb |-> sub, com |-> com, rand |-> seed, spent |-> FALSE]]
                   /\ responses' = [responses EXCEPT ![w][j] =
                        [sub |-> sub, com |-> com, seed |-> seed]]
          /\ UNCHANGED wpc
     ELSE wpc' = [wpc EXCEPT ![w] = Panicked(0)] /\ UNCHANGED <<responses, states>>
  /\ UNCHANGED <<rootVars, bufSize, received, wireVars>>

\* Mutant of Spend: the commitment leaves with the state.
SpendTakingCom(st) == [st EXCEPT !.spent = TRUE, !.com = None]

\* WorkerState::stage_1 takes self: the state is gone afterwards.
Spend(st) == [st EXCEPT !.spent = TRUE]

\* A thread of w runs WorkerState::stage_1 on slot j, consuming the state:
\* unwrap the builder, assert it was made for the requested subcircuit, prove.
\* The proof has the one commitment of stage 0.
Stage1(w, j) ==
  /\ wpc[w] = <<"compute", 1>>
  /\ Ready(w, j)
  /\ LET st  == states[w][StateOf(w, j)]
         req == received[w][j]
     IN  IF st.cb # None /\ st.cb = req.sub /\ req.sub \notin env.refused[1]
         THEN /\ responses' = [responses EXCEPT ![w][j] =
                   [sub |-> req.sub,
                    proof |-> [sub |-> st.cb, ds |-> <<st.com>>, rand |-> st.rand,
                               cur |-> req.cur, next |-> req.next, root |-> req.root]]]
              /\ states' = [states EXCEPT ![w][StateOf(w, j)] = Spend(@)]
              /\ UNCHANGED wpc
         ELSE wpc' = [wpc EXCEPT ![w] = Panicked(1)] /\ UNCHANGED <<responses, states>>
  /\ UNCHANGED <<rootVars, bufSize, received, wireVars>>

\* All threads are joined: their responses, in slot order, go to the root.
SendResponses(s, w) ==
  /\ wpc[w] = <<"compute", s>>
  /\ \A j \in Slots : responses[w][j] # None
  /\ replies' = [replies EXCEPT ![s][w] = responses[w]]
  /\ wpc' = [wpc EXCEPT ![w] = IF s = 0 THEN <<"size", 1>> ELSE <<"done", 1>>]
  /\ UNCHANGED <<rootVars, bufSize, received, states, responses, sizes, data>>

-----------------------------------------------------------------------------
Coordinator ==
  /\ \/ CoordStage0 \/ CoordStage1 \/ CoordAggregate
     \/ \E s \in Stages, w \in Workers :
          ScatterSize(s, w) \/ ScatterData(s, w) \/ Gather(s, w)
  /\ UNCHANGED env

Compute(w) == \E j \in Slots : Stage0(w, j) \/ Stage1(w, j)

Worker(w) ==
  /\ \/ \E s \in Stages : ReceiveSize(s, w) \/ ReceiveData(s, w) \/ SendResponses(s, w)
     \/ Compute(w)
  /\ UNCHANGED env

Finished == rpc = <<"done", 1>> /\ \A w \in Workers : wpc[w] = <<"done", 1>>

\* MPI ends the job when one of its ranks aborts.
Aborted == rpc[1] = "panicked" \/ \E w \in Workers : wpc[w][1] = "panicked"

\* Every process has returned from work(), or one has aborted.
Terminated == (Finished \/ Aborted) /\ UNCHANGED vars

Next == Coordinator \/ (\E w \in Workers : Worker(w)) \/ Terminated

\* Every rank is an operating-system process that keeps running.
Fairness == WF_vars(Coordinator) /\ \A w \in Workers : WF_vars(Worker(w))

Spec == Init /\ [][Next]_vars /\ Fairness

-----------------------------------------------------------------------------
(* Properties.                                                              *)

RootPc == ({"prepare", "size", "data", "gather", "panicked"} \X Stages)
             \cup {<<"aggregate", 1>>, <<"done", 1>>}
WorkerPc == ({"size", "data", "compute", "panicked"} \X Stages) \cup {<<"done", 1>>}

\* The type of every variable of a node and of what the collectives carry.
TypeOK ==
  /\ env \in Envs
  /\ rpc \in RootPc /\ pending \in SUBSET Workers
  /\ stage0State \in BOOLEAN /\ stage1State \in SuperCom \cup {None}
  /\ requests \in [Subcircuit -> Request] \cup {None}
  /\ gathered \in [Workers -> Reply \cup {None}]
  /\ aggregate \in AggProof \cup {None}
  /\ wpc \in [Workers -> WorkerPc]
  /\ bufSize \in [Workers -> SizeVec \cup {None}]
  /\ received \in [Workers -> [Slots -> Request] \cup {None}]
  /\ states \in [Workers -> [Slots -> WorkerState]]
  /\ responses \in [Workers -> [Slots -> Response \cup {None}]]
  /\ sizes \in [Stages -> [Workers -> SizeVec \cup {None}]]
  /\ data \in [Stages -> [Workers -> DataMsg \cup {None}]]
  /\ replies \in [Stages -> [Workers -> Reply \cup {None}]]

\* A worker panics for one of two reasons only: its rayon pool, in a parallel
\* build, has a single thread, and it divides by zero at its first requests; or
\* the prover refuses one of the subcircuits it was dealt.  Unless that is at
\* stage 1 the run never gets to the challenges.  The coordinator panics only in
\* a debug build, over a proof that does not verify.  None of them leaves an
\* aggregate.  Otherwise both stage states are there to be taken, a worker's
\* builder is the one of the subcircuit it is asked for (worker.rs:175), every
\* message fits the buffer of its scatter or gather, and the aggregate's last
\* assertion (aggregation.rs:348) holds.
PanicsExplained ==
  /\ rpc[1] = "panicked" => env.debug /\ env.misfit # {} /\ aggregate = None
  /\ \A w \in Workers, s \in Stages : wpc[w] = Panicked(s) =>
       /\ \/ s = 0 /\ env.parallel /\ env.pool[w] = 1
          \/ \E j \in Slots : Idx(w, j) \in env.refused[s]
       /\ s = 0 => stage1State = None
       /\ aggregate = None

\* The order the Fiat-Shamir challenges rest on: once the coordinator has
\* hashed the super-commitment into the challenges, every WorkerState holds
\* the commitment the super-commitment has for its subcircuit.
ChallengesBindCommitments ==
  stage1State # None =>
    \A w \in Workers, j \in Slots :
      /\ states[w][j].com = stage1State[Idx(w, j)]
      /\ states[w][j].com.seed = states[w][j].rand

\* The aggregate has one proof per subcircuit, at its place, of the
\* constraints of that subcircuit, under the challenges and the root of the
\* super-commitment, that opens the commitment the super-commitment holds.
AggregateOpensSuperCom ==
  aggregate # None =>
    \A i \in Subcircuit :
      LET p == aggregate.proofs[i] IN
      /\ p.sub = i /\ p.ds = <<aggregate.super[i]>> /\ p.rand = p.ds[1].seed
      /\ p.cur.chal = aggregate.super /\ p.root = aggregate.super

\* Consecutive proofs of the aggregate meet in a leaf: the first starts from
\* the padding leaf, each other from the leaf its predecessor proved to be in
\* the tree.
ProofsChained ==
  aggregate # None =>
    \A i \in Subcircuit :
      aggregate.proofs[i].cur.pos = IF i = 0 THEN -1 ELSE aggregate.proofs[i - 1].next

\* A commitment that the challenges depend on is never replaced: after the
\* first stage 1 request is made no WorkerState changes its commitment or its
\* builder, and a consumed WorkerState is never used again.
CommitmentsFrozen ==
  [][\A w \in Workers, j \in Slots :
       /\ stage1State # None =>
            states'[w][j].com = states[w][j].com /\ states'[w][j].cb = states[w][j].cb
       /\ states[w][j].spent => states'[w][j] = states[w][j]]_vars

\* Every run comes to its end, no collective waits for a call that is never made:
\* the job is aborted where a worker has no thread to compute on or the prover
\* refuses a subcircuit, or where a proof that does not verify meets a debug
\* assertion, and otherwise every node returns, in a release build over such a
\* proof as well.
Termination ==
  <>(IF \/ \E w \in Workers : NumThreads(w) = 0
        \/ \E s \in Stages : env.refused[s] # {}
     THEN Aborted
     ELSE IF env.debug /\ env.misfit # {} THEN rpc = Panicked(1)
     ELSE Finished)

-----------------------------------------------------------------------------
(* The run implements a proof session.                                      *)

AbsCom == [i \in Subcircuit |-> states[WorkerOf(i)][SlotOf(i)].com]

AbsSuper ==
  IF aggregate # None THEN aggregate.super ELSE stage1State

\* The responses of the slot of i are its stage 1 responses once its
\* WorkerState is consumed.
AbsProof ==
  [i \in Subcircuit |->
    IF states[WorkerOf(i)][SlotOf(i)].spent
    THEN LET p == responses[WorkerOf(i)][SlotOf(i)].proof
         IN  [com |-> p.ds[1], super |-> p.root]
    ELSE None]

AbsAggregate ==
  IF aggregate = None THEN None
  ELSE [i \in Subcircuit |->
          [com |-> aggregate.proofs[i].ds[1], super |-> aggregate.proofs[i].root]]

Session == INSTANCE ProofSession WITH
  com <- AbsCom, super <- AbsSuper, proof <- AbsProof, aggregate <- AbsAggregate

\* What node.rs carries over MPI is a proof session.
ImplementsSession == Session!Spec
=============================================================================
