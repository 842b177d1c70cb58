------------------------------ MODULE MpiProofInv ------------------------------
(***************************************************************************)
(* The inductive invariant of MpiProof: what each node knows at each of    *)
(* its calls, and what each collective carries.                            *)
(***************************************************************************)
EXTENDS MpiProof

-----------------------------------------------------------------------------
(* Where the coordinator is in its sequence of calls.                       *)

AfterGather1  == {<<"aggregate", 1>>, <<"done", 1>>, Panicked(1)}
AfterData1    == AfterGather1  \cup {<<"gather", 1>>}
AfterSize1    == AfterData1    \cup {<<"data", 1>>}
AfterPrepare1 == AfterSize1    \cup {<<"size", 1>>}
AfterGather0  == AfterPrepare1 \cup {<<"prepare", 1>>}
AfterData0    == AfterGather0  \cup {<<"gather", 0>>}
AfterSize0    == AfterData0    \cup {<<"data", 0>>}
AfterPrepare0 == AfterSize0    \cup {<<"size", 0>>}

\* The coordinator's call has served w.
SizeServed(s, w) ==
  \/ rpc \in (IF s = 0 THEN AfterSize0 ELSE AfterSize1)
  \/ rpc = <<"size", s>> /\ w \notin pending
DataServed(s, w) ==
  \/ rpc \in (IF s = 0 THEN AfterData0 ELSE AfterData1)
  \/ rpc = <<"data", s>> /\ w \notin pending
GatherServed(s, w) ==
  \/ rpc \in (IF s = 0 THEN AfterGather0 ELSE AfterGather1)
  \/ rpc = <<"gather", s>> /\ w \notin pending

-----------------------------------------------------------------------------
(* What a run without a mishap exchanges, given the super-commitment AbsSuper *)
(* and the commitments in the WorkerStates.                                   *)

Reqs(s) == [i \in Subcircuit |-> IF s = 0 THEN [sub |-> i] ELSE GenRequest1(i, AbsSuper)]

Resp0(w, j) ==
  [sub |-> Idx(w, j), com |-> states[w][j].com, seed |-> states[w][j].rand]

Resp1(w, j) ==
  [sub |-> Idx(w, j),
   proof |-> [sub |-> Idx(w, j), ds |-> <<states[w][j].com>>, rand |-> states[w][j].rand,
              cur |-> CurLeaf(Idx(w, j), AbsSuper), next |-> Idx(w, j),
              root |-> AbsSuper]]

Fresh(w, j) ==
  states[w][j] = [cb |-> None, com |-> None, rand |-> None, spent |-> FALSE]

Committed(w, j, spent) ==
  /\ states[w][j] \in WorkerState
  /\ states[w][j].cb = Idx(w, j)
  /\ states[w][j].com \in Com /\ states[w][j].com.sub = Idx(w, j)
  /\ states[w][j].rand = states[w][j].com.seed
  /\ states[w][j].spent = spent

-----------------------------------------------------------------------------
(* The parts of the invariant.                                              *)

CoordInv ==
  /\ rpc \in RootPc
  /\ pending \in SUBSET Workers /\ pending # {}
  /\ rpc[1] \in {"prepare", "aggregate", "done", "panicked"} => pending = Workers
  /\ stage0State <=> rpc \in AfterPrepare0 \ AfterPrepare1
  /\ rpc \in AfterPrepare0 \ AfterPrepare1 => requests = Reqs(0)
  /\ rpc \in AfterPrepare1 => requests = Reqs(1)
  /\ rpc \notin AfterPrepare1 => stage1State = None /\ aggregate = None
  /\ rpc \in AfterPrepare1 \ {<<"done", 1>>} => stage1State \in SuperCom /\ aggregate = None
  /\ rpc = <<"done", 1>> =>
       /\ stage1State = None /\ aggregate # None
       /\ aggregate.super \in SuperCom
       /\ aggregate = [super |-> aggregate.super,
                       proofs |-> [i \in Subcircuit |->
                                     Resp1(WorkerOf(i), SlotOf(i)).proof]]

\* The super-commitment is made of the commitments in the WorkerStates.
SuperInv ==
  rpc \in AfterPrepare1 =>
    AbsSuper = [i \in Subcircuit |-> states[WorkerOf(i)][SlotOf(i)].com]

ScatterInv(w) ==
  \A s \in Stages :
    /\ sizes[s][w] = IF SizeServed(s, w) THEN ChunkSize(s, w) ELSE None
    /\ data[s][w] =
         IF DataServed(s, w)
         THEN [size |-> ChunkSize(s, w), reqs |-> Chunk(Reqs(s), w)] ELSE None

GatherInv(w) ==
  /\ GatherServed(0, w) => replies[0][w] # None
  /\ GatherServed(1, w) => replies[1][w] # None
  /\ GatherServed(0, w) /\ ~GatherServed(1, w) => gathered[w] = replies[0][w]
  /\ GatherServed(1, w) => gathered[w] = replies[1][w]

\* A worker before its stage 0 requests arrive.
Idle0(w) ==
  /\ replies[0][w] = None /\ replies[1][w] = None
  /\ \A j \in Slots : Fresh(w, j)

Computing0(w) ==
  /\ replies[0][w] = None /\ replies[1][w] = None
  /\ received[w] = Chunk(Reqs(0), w)
  /\ \A j \in Slots : \/ responses[w][j] = None /\ Fresh(w, j)
                      \/ responses[w][j] = Resp0(w, j) /\ Committed(w, j, FALSE)

\* A worker that has answered its stage 0 requests.
Answered0(w) ==
  /\ replies[0][w] = [j \in Slots |-> Resp0(w, j)]
  /\ \A j \in Slots : \E spent \in BOOLEAN : Committed(w, j, spent)

Idle1(w) ==
  /\ replies[1][w] = None
  /\ \A j \in Slots : Committed(w, j, FALSE)

Computing1(w) ==
  /\ replies[1][w] = None /\ rpc \in AfterSize1
  /\ received[w] = Chunk(Reqs(1), w)
  /\ \A j \in Slots : \/ responses[w][j] = None /\ Committed(w, j, FALSE)
                      \/ responses[w][j] = Resp1(w, j) /\ Committed(w, j, TRUE)

\* A worker that has answered its stage 1 requests.
Answered1(w) ==
  /\ rpc \in AfterSize1
  /\ \A j \in Slots : responses[w][j] = Resp1(w, j) /\ Committed(w, j, TRUE)
  /\ replies[1][w] = [j \in Slots |-> Resp1(w, j)]

WorkerInv(w) ==
  \/ wpc[w] = <<"size", 0>> /\ Idle0(w)
  \/ wpc[w] = <<"data", 0>> /\ Idle0(w) /\ bufSize[w] = ChunkSize(0, w)
  \/ wpc[w] = Panicked(0) /\ (Idle0(w) \/ Computing0(w))
  \/ wpc[w] = <<"compute", 0>> /\ Computing0(w)
  \/ wpc[w] = <<"size", 1>> /\ Answered0(w) /\ Idle1(w)
  \/ wpc[w] = <<"data", 1>> /\ Answered0(w) /\ Idle1(w) /\ bufSize[w] = ChunkSize(1, w)
  \/ wpc[w] = <<"compute", 1>> /\ Answered0(w) /\ Computing1(w)
  \/ wpc[w] = Panicked(1) /\ Answered0(w) /\ Computing1(w)
  \/ wpc[w] = <<"done", 1>> /\ Answered0(w) /\ Answered1(w)

\* What the build, the machines and the keys have to do with it: a worker with
\* no thread to compute on gets no further than its first requests, and else only
\* one with a subcircuit the prover refuses panics; the coordinator does only
\* over a proof that does not verify.
EnvInv ==
  /\ \A s \in Stages : rpc = Panicked(s) => s = 1 /\ env.debug /\ env.misfit # {}
  /\ \A w \in Workers :
       /\ \A s \in Stages : wpc[w] = Panicked(s) =>
            (s = 0 /\ NumThreads(w) = 0) \/ \E j \in Slots : Idx(w, j) \in env.refused[s]
       /\ NumThreads(w) = 0 => wpc[w] \in {<<"size", 0>>, <<"data", 0>>, Panicked(0)}

\* IInv and EnvInv together are inductive.
IInv ==
  /\ TypeOK
  /\ CoordInv
  /\ SuperInv
  /\ \A w \in Workers : ScatterInv(w) /\ GatherInv(w) /\ WorkerInv(w)
=============================================================================
