---------------------------- MODULE MpiProof_proofs ----------------------------
(* Theorems about MpiProof, for every number of workers and of threads, and in *)
(* every build.                                                              *)
EXTENDS MpiProofInv, FiniteSetTheorems, TLAPS

-----------------------------------------------------------------------------
(* The deal of the subcircuits to the workers.                              *)

\* Blocks have at least one subcircuit.
LEMMA PerWorkerPos == PerWorker \in Nat \ {0}
<1>1. PerWorker \in Int
  BY SizesAssumption DEF PerWorker
<1>2. PerWorker > 0
  <2> SUFFICES ASSUME PerWorker <= 0 PROVE FALSE
    BY <1>1
  <2>1. ASSUME NEW k \in Int, NEW n \in Nat, k <= 0 PROVE k * n <= 0
    BY <2>1
  <2>2. PerWorker * NumWorkers <= 0
    BY <2>1, <1>1, SizesAssumption
  <2> QED BY <2>2, SizesAssumption
<1> QED BY <1>1, <1>2

\* The request in each slot of each worker is for some subcircuit.
LEMMA IdxType == ASSUME NEW w \in Workers, NEW j \in Slots
                 PROVE  Idx(w, j) \in Subcircuit
<1> DEFINE K == PerWorker
<1> K \in Nat \ {0} /\ NumWorkers \in Nat \ {0} /\ w \in 1 .. NumWorkers /\ j \in 1 .. K
    /\ K * NumWorkers = NumSubcircuits
  BY PerWorkerPos, SizesAssumption DEF Workers, Slots
<1> HIDE DEF K
<1>1. (w - 1) * K >= 0
  OBVIOUS
<1>2. (w - 1) * K + K <= NumWorkers * K
  <2>1. (w - 1) * K + K = w * K
    OBVIOUS
  <2>2. ASSUME NEW a \in Nat, NEW b \in Nat, NEW c \in Nat, a <= b PROVE a * c <= b * c
    BY <2>2
  <2> QED BY <2>1, <2>2
<1> QED BY <1>1, <1>2 DEF Idx, Subcircuit, K

\* Every subcircuit is dealt to one slot of one worker.
LEMMA SlotType == ASSUME NEW i \in Subcircuit
                  PROVE  /\ WorkerOf(i) \in Workers /\ SlotOf(i) \in Slots
                         /\ Idx(WorkerOf(i), SlotOf(i)) = i
<1> DEFINE K == PerWorker  q == i \div K  r == i % K
<1>0. K \in Nat \ {0} /\ NumWorkers \in Nat \ {0} /\ i \in Nat /\ i < NumWorkers * K
  BY PerWorkerPos, SizesAssumption DEF Subcircuit
<1> HIDE DEF K
<1>1. q \in Nat /\ r \in 0 .. K - 1 /\ i = q * K + r
  BY <1>0
<1> HIDE DEF q, r
<1>2. q < NumWorkers
  <2> SUFFICES ASSUME q >= NumWorkers PROVE FALSE
    BY <1>0, <1>1
  <2>1. ASSUME NEW a \in Nat, NEW b \in Nat, NEW c \in Nat, a <= b PROVE a * c <= b * c
    BY <2>1
  <2> QED BY <1>0, <1>1, <2>1
<1>3. WorkerOf(i) = q + 1 /\ SlotOf(i) = r + 1
  BY DEF WorkerOf, SlotOf, q, r, K
<1>4. q + 1 \in 1 .. NumWorkers /\ r + 1 \in 1 .. K
  BY <1>0, <1>1, <1>2
<1>5. ((q + 1) - 1) * K + ((r + 1) - 1) = i
  <2>1. (q + 1) - 1 = q /\ (r + 1) - 1 = r
    BY <1>1, <1>0
  <2> QED BY <2>1, <1>1
<1> QED BY <1>3, <1>4, <1>5 DEF Workers, Slots, Idx, K

\* No two slots hold the same subcircuit.
LEMMA IdxInverse == ASSUME NEW w \in Workers, NEW j \in Slots
                    PROVE  WorkerOf(Idx(w, j)) = w /\ SlotOf(Idx(w, j)) = j
<1> DEFINE K == PerWorker  i == Idx(w, j)  v == WorkerOf(i)  k == SlotOf(i)
<1>0. K \in Nat \ {0} /\ w \in Nat /\ j \in 1 .. K
  BY PerWorkerPos, SizesAssumption DEF Workers, Slots
<1>1. v \in Workers /\ k \in 1 .. K /\ (v - 1) * K + (k - 1) = (w - 1) * K + (j - 1)
  BY SlotType, IdxType DEF Idx, Slots
<1>2. v \in Nat
  BY <1>1, SizesAssumption DEF Workers
<1> HIDE DEF K, i, v, k
<1>3. ASSUME NEW a \in Nat, NEW b \in Nat, NEW x \in 1 .. K, NEW y \in 1 .. K, a < b
      PROVE  (a - 1) * K + (x - 1) < (b - 1) * K + (y - 1)
  <2>1. (b - 1) * K = (a - 1) * K + (b - a) * K
    BY <1>0
  <2>2. (b - a) * K >= K
    BY <1>0, <1>3
  <2>3. (a - 1) * K \in Int /\ (b - 1) * K \in Int /\ (b - a) * K \in Int
    BY <1>0
  <2> QED BY <2>1, <2>2, <2>3, <1>0
<1>4. v = w
  BY <1>0, <1>1, <1>2, <1>3
<1>5. k = j
  BY <1>0, <1>1, <1>2, <1>4
<1> QED BY <1>4, <1>5 DEF i, v, k

-----------------------------------------------------------------------------
(* How a step of a collective at the root changes what has been served.     *)

\* The root's scatter of the sizes serves one worker more.
LEMMA ServeSize ==
  ASSUME NEW s \in Stages, NEW w \in Workers, CoordInv,
         rpc = <<"size", s>>, Serve(w, <<"data", s>>)
  PROVE  /\ \A v \in Workers, t \in Stages :
              /\ SizeServed(t, v)' <=> SizeServed(t, v) \/ (t = s /\ v = w)
              /\ DataServed(t, v)' <=> DataServed(t, v)
              /\ GatherServed(t, v)' <=> GatherServed(t, v)
         /\ pending' \in SUBSET Workers /\ pending' # {}
         /\ rpc' \in {<<"size", s>>, <<"data", s>>}
         /\ rpc' = <<"data", s>> => pending' = Workers
<1> USE DEF SizeServed, DataServed, GatherServed, Serve, CoordInv, Stages,
            AfterSize0, AfterSize1, AfterData0, AfterData1, AfterGather0, AfterGather1, Panicked,
            AfterPrepare1
<1>1. CASE s = 0 /\ pending = {w}  BY <1>1
<1>2. CASE s = 0 /\ pending # {w}  BY <1>2
<1>3. CASE s = 1 /\ pending = {w}  BY <1>3
<1>4. CASE s = 1 /\ pending # {w}  BY <1>4
<1> QED BY <1>1, <1>2, <1>3, <1>4

\* The root's scatter of the requests serves one worker more.
LEMMA ServeData ==
  ASSUME NEW s \in Stages, NEW w \in Workers, CoordInv,
         rpc = <<"data", s>>, Serve(w, <<"gather", s>>)
  PROVE  /\ \A v \in Workers, t \in Stages :
              /\ SizeServed(t, v)' <=> SizeServed(t, v)
              /\ DataServed(t, v)' <=> DataServed(t, v) \/ (t = s /\ v = w)
              /\ GatherServed(t, v)' <=> GatherServed(t, v)
         /\ pending' \in SUBSET Workers /\ pending' # {}
         /\ rpc' \in {<<"data", s>>, <<"gather", s>>}
         /\ rpc' = <<"gather", s>> => pending' = Workers
<1> USE DEF SizeServed, DataServed, GatherServed, Serve, CoordInv, Stages,
            AfterSize0, AfterSize1, AfterData0, AfterData1, AfterGather0, AfterGather1, Panicked,
            AfterPrepare1
<1>1. CASE s = 0 /\ pending = {w}  BY <1>1
<1>2. CASE s = 0 /\ pending # {w}  BY <1>2
<1>3. CASE s = 1 /\ pending = {w}  BY <1>3
<1>4. CASE s = 1 /\ pending # {w}  BY <1>4
<1> QED BY <1>1, <1>2, <1>3, <1>4

\* The root's gather serves one worker more.
LEMMA ServeGather ==
  ASSUME NEW s \in Stages, NEW w \in Workers, CoordInv, rpc = <<"gather", s>>,
         Serve(w, IF s = 0 THEN <<"prepare", 1>> ELSE <<"aggregate", 1>>)
  PROVE  /\ \A v \in Workers, t \in Stages :
              /\ SizeServed(t, v)' <=> SizeServed(t, v)
              /\ DataServed(t, v)' <=> DataServed(t, v)
              /\ GatherServed(t, v)' <=> GatherServed(t, v) \/ (t = s /\ v = w)
         /\ pending' \in SUBSET Workers /\ pending' # {}
         /\ rpc' \in {<<"gather", s>>,
                      IF s = 0 THEN <<"prepare", 1>> ELSE <<"aggregate", 1>>}
         /\ rpc' # rpc => pending' = Workers
<1> USE DEF SizeServed, DataServed, GatherServed, Serve, CoordInv, Stages,
            AfterSize0, AfterSize1, AfterData0, AfterData1, AfterGather0, AfterGather1, Panicked,
            AfterPrepare1
<1>1. CASE s = 0 /\ pending = {w}  BY <1>1
<1>2. CASE s = 0 /\ pending # {w}  BY <1>2
<1>3. CASE s = 1 /\ pending = {w}  BY <1>3
<1>4. CASE s = 1 /\ pending # {w}  BY <1>4
<1> QED BY <1>1, <1>2, <1>3, <1>4

-----------------------------------------------------------------------------
(* What a step leaves alone stays right.                                    *)

\* Requests and responses are a function of the super-commitment and of the
\* WorkerStates.
LEMMA SuperFrame ==
  ASSUME UNCHANGED <<stage1State, aggregate>>
  PROVE  AbsSuper' = AbsSuper /\ \A s \in Stages : Reqs(s)' = Reqs(s)
BY DEF AbsSuper, Reqs, GenRequest1, CurLeaf

\* What was scattered to w stays so while the root's calls have not reached it
\* again.
LEMMA ScatterFrame ==
  ASSUME NEW w \in Workers, ScatterInv(w),
         \A s \in Stages : /\ sizes'[s][w] = sizes[s][w] /\ data'[s][w] = data[s][w]
                           /\ SizeServed(s, w)' <=> SizeServed(s, w)
                           /\ DataServed(s, w)' <=> DataServed(s, w)
                           /\ DataServed(s, w) => Reqs(s)' = Reqs(s)
  PROVE  ScatterInv(w)'
BY DEF ScatterInv, Chunk, ChunkSize

\* What was gathered from w stays so.
LEMMA GatherFrame ==
  ASSUME NEW w \in Workers, GatherInv(w), gathered'[w] = gathered[w],
         \A s \in Stages : /\ replies'[s][w] = replies[s][w]
                           /\ GatherServed(s, w)' <=> GatherServed(s, w)
  PROVE  GatherInv(w)'
BY DEF GatherInv, Stages

\* A worker's requests, WorkerStates and responses stay right as long as the
\* requests it is working on, and so the super-commitment they carry, stay the
\* same.
LEMMA PartsFrame ==
  ASSUME NEW w \in Workers, received'[w] = received[w],
         states'[w] = states[w], responses'[w] = responses[w],
         \A s \in Stages : replies'[s][w] = replies[s][w],
         Reqs(0)' = Reqs(0),
         rpc \in AfterSize1 => rpc' \in AfterSize1 /\ AbsSuper' = AbsSuper
                               /\ Reqs(1)' = Reqs(1)
  PROVE  /\ Idle0(w) => Idle0(w)'
         /\ Computing0(w) => Computing0(w)'
         /\ Answered0(w) => Answered0(w)'
         /\ Idle1(w) => Idle1(w)'
         /\ Computing1(w) => Computing1(w)'
         /\ Answered1(w) => Answered1(w)'
<1>1. \A j \in Slots : /\ Fresh(w, j)' <=> Fresh(w, j)
                       /\ \A b \in BOOLEAN : Committed(w, j, b)' <=> Committed(w, j, b)
                       /\ Resp0(w, j)' = Resp0(w, j)
                       /\ rpc \in AfterSize1 => Resp1(w, j)' = Resp1(w, j)
  BY DEF Fresh, Committed, Resp0, Resp1, CurLeaf, Idx
<1>2. /\ Chunk(Reqs(0), w)' = Chunk(Reqs(0), w)
      /\ rpc \in AfterSize1 => Chunk(Reqs(1), w)' = Chunk(Reqs(1), w)
  BY DEF Chunk
<1>3. Idle0(w) => Idle0(w)'
  BY <1>1 DEF Idle0, Stages
<1>4. Computing0(w) => Computing0(w)'
  BY <1>1, <1>2 DEF Computing0, Stages
<1>5. Answered0(w) => Answered0(w)'
  BY <1>1 DEF Answered0, Stages
<1>6. Idle1(w) => Idle1(w)'
  BY <1>1 DEF Idle1, Stages
<1>7. Computing1(w) => Computing1(w)'
  BY <1>1, <1>2 DEF Computing1, Stages
<1>8. Answered1(w) => Answered1(w)'
  BY <1>1 DEF Answered1, Stages
<1> QED BY <1>3, <1>4, <1>5, <1>6, <1>7, <1>8

\* A worker that does not move keeps its invariant.
LEMMA WorkerFrame ==
  ASSUME NEW w \in Workers, WorkerInv(w),
         wpc'[w] = wpc[w], bufSize'[w] = bufSize[w], received'[w] = received[w],
         states'[w] = states[w], responses'[w] = responses[w],
         \A s \in Stages : replies'[s][w] = replies[s][w],
         Reqs(0)' = Reqs(0),
         rpc \in AfterSize1 => rpc' \in AfterSize1 /\ AbsSuper' = AbsSuper
                               /\ Reqs(1)' = Reqs(1)
  PROVE  WorkerInv(w)'
<1>1. ChunkSize(0, w)' = ChunkSize(0, w) /\ ChunkSize(1, w)' = ChunkSize(1, w)
  BY DEF ChunkSize
<1>2. /\ Idle0(w) => Idle0(w)'
      /\ Computing0(w) => Computing0(w)'
      /\ Answered0(w) => Answered0(w)'
      /\ Idle1(w) => Idle1(w)'
      /\ Computing1(w) => Computing1(w)'
      /\ Answered1(w) => Answered1(w)'
  BY PartsFrame
<1> QED BY <1>1, <1>2 DEF WorkerInv

\* A step that moves no worker leaves the link of the super-commitment to the
\* WorkerStates alone.
LEMMA SuperInvFrame ==
  ASSUME SuperInv, AbsSuper' = AbsSuper, states' = states,
         rpc' \in AfterPrepare1 => rpc \in AfterPrepare1
  PROVE  SuperInv'
BY DEF SuperInv

-----------------------------------------------------------------------------
(* Every action of the coordinator preserves the invariant.                 *)

\* The coordinator starts stage 0.
LEMMA CoordStage0Inv == ASSUME IInv, UNCHANGED env, CoordStage0 PROVE IInv'
<1> USE DEF CoordStage0, rootVars, workerVars, wireVars
<1>0. TypeOK /\ CoordInv /\ SuperInv
      /\ \A w \in Workers : ScatterInv(w) /\ GatherInv(w) /\ WorkerInv(w)
  BY DEF IInv
<1>1. AbsSuper' = AbsSuper /\ \A s \in Stages : Reqs(s)' = Reqs(s)
  BY SuperFrame
<1>2. \A w \in Workers, s \in Stages :
        /\ SizeServed(s, w)' <=> SizeServed(s, w)
        /\ DataServed(s, w)' <=> DataServed(s, w)
        /\ GatherServed(s, w)' <=> GatherServed(s, w)
  BY <1>0 DEF SizeServed, DataServed, GatherServed, CoordInv, Stages, AfterSize0,
              AfterSize1, AfterData0, AfterData1, AfterGather0, AfterGather1, Panicked,
              AfterPrepare1
<1>3. TypeOK'
  BY <1>0 DEF TypeOK, RootPc, Stages, Request, Stage0Request
<1>4. CoordInv'
  <2>1. /\ rpc \notin AfterPrepare1 /\ rpc' \notin AfterPrepare1
        /\ rpc' \in AfterPrepare0 /\ rpc' # <<"done", 1>>
        /\ rpc' \in RootPc /\ rpc[1] = "prepare" /\ rpc'[1] = "size"
    BY DEF RootPc, Panicked, Stages, AfterPrepare0, AfterSize0, AfterSize1, AfterData0,
           AfterData1, AfterGather0, AfterGather1, Panicked, AfterPrepare1
  <2>2. requests' = Reqs(0)'
    BY DEF Reqs
  <2> QED BY <1>0, <2>1, <2>2 DEF CoordInv
<1>5. SuperInv'
  BY <1>0, <1>1, SuperInvFrame DEF AfterSize1, AfterData1, AfterGather1, Panicked, AfterPrepare1
<1>6. ASSUME NEW w \in Workers PROVE (ScatterInv(w) /\ GatherInv(w) /\ WorkerInv(w))'
  <2>1. ScatterInv(w)'  BY <1>0, <1>1, <1>2, ScatterFrame
  <2>2. GatherInv(w)'   BY <1>0, <1>2, GatherFrame
  <2>3. WorkerInv(w)'
    BY <1>0, <1>1, WorkerFrame DEF Stages, AfterSize1, AfterData1, AfterGather1, Panicked
  <2> QED BY <2>1, <2>2, <2>3
<1> QED BY <1>3, <1>4, <1>5, <1>6 DEF IInv

\* The coordinator scatters a size.
LEMMA ScatterSizeInv ==
  ASSUME IInv, UNCHANGED env, NEW s \in Stages, NEW w \in Workers, ScatterSize(s, w)
  PROVE  IInv'
<1> USE DEF ScatterSize, rootVars, workerVars
<1>0. TypeOK /\ CoordInv /\ SuperInv
      /\ \A v \in Workers : ScatterInv(v) /\ GatherInv(v) /\ WorkerInv(v)
  BY DEF IInv
<1>1. AbsSuper' = AbsSuper /\ \A t \in Stages : Reqs(t)' = Reqs(t)
  BY SuperFrame
<1>2. /\ \A v \in Workers, t \in Stages :
              /\ SizeServed(t, v)' <=> SizeServed(t, v) \/ (t = s /\ v = w)
              /\ DataServed(t, v)' <=> DataServed(t, v)
              /\ GatherServed(t, v)' <=> GatherServed(t, v)
      /\ pending' \in SUBSET Workers /\ pending' # {}
      /\ rpc' \in {<<"size", s>>, <<"data", s>>}
      /\ rpc' = <<"data", s>> => pending' = Workers
  BY <1>0, ServeSize
<1>3. TypeOK'
  <2>1. ChunkSize(s, w) \in SizeVec
    BY IdxType, ReqSizeAssumption DEF ChunkSize, SizeVec
  <2>2. sizes' \in [Stages -> [Workers -> SizeVec \cup {None}]]
    BY <1>0, <2>1 DEF TypeOK, Announced
  <2> QED BY <1>0, <1>2, <2>2 DEF TypeOK, RootPc, Stages
<1>4. CoordInv'
  <2>1. rpc \in AfterPrepare1 <=> rpc' \in AfterPrepare1
    BY <1>2 DEF AfterPrepare1, AfterSize1, AfterData1, AfterGather1, Panicked, Stages
  <2>2. rpc \in AfterPrepare0 /\ rpc' \in AfterPrepare0
    BY <1>2 DEF AfterPrepare0, AfterSize0, AfterData0, AfterGather0, AfterPrepare1,
                AfterSize1, AfterData1, AfterGather1, Panicked, Stages
  <2>3. rpc' \in RootPc /\ rpc' # <<"done", 1>> /\ rpc # <<"done", 1>>
    BY <1>2 DEF RootPc, Panicked, Stages
  <2>4. rpc'[1] \notin {"prepare", "aggregate", "done"}
    BY <1>2 DEF Stages
  <2> QED BY <1>0, <1>1, <1>2, <2>1, <2>2, <2>3, <2>4 DEF CoordInv, Stages
<1>5. SuperInv'
  BY <1>0, <1>1, <1>2, SuperInvFrame
     DEF AfterPrepare1, AfterSize1, AfterData1, AfterGather1, Panicked, Stages
<1>6. ASSUME NEW v \in Workers PROVE (ScatterInv(v) /\ GatherInv(v) /\ WorkerInv(v))'
  <2>1. ScatterInv(v)'
    <3>1. \A t \in Stages : sizes'[t][v] = IF t = s /\ v = w THEN ChunkSize(s, w)
                                                             ELSE sizes[t][v]
      BY <1>0 DEF TypeOK, Announced
    <3>2. \A t \in Stages : ChunkSize(t, v)' = ChunkSize(t, v)
                            /\ Chunk(Reqs(t), v)' = Chunk(Reqs(t), v)
      BY <1>1 DEF ChunkSize, Chunk
    <3> QED BY <1>0, <1>2, <3>1, <3>2 DEF ScatterInv
  <2>2. GatherInv(v)'   BY <1>0, <1>2, GatherFrame
  <2>3. WorkerInv(v)'
    BY <1>0, <1>1, <1>2, WorkerFrame DEF Stages, AfterSize1, AfterData1, AfterGather1, Panicked
  <2> QED BY <2>1, <2>2, <2>3
<1> QED BY <1>3, <1>4, <1>5, <1>6 DEF IInv

\* The coordinator scatters a chunk of its requests.
LEMMA ScatterDataInv ==
  ASSUME IInv, UNCHANGED env, NEW s \in Stages, NEW w \in Workers, ScatterData(s, w)
  PROVE  IInv'
<1> USE DEF ScatterData, rootVars, workerVars
<1>0. TypeOK /\ CoordInv /\ SuperInv
      /\ \A v \in Workers : ScatterInv(v) /\ GatherInv(v) /\ WorkerInv(v)
  BY DEF IInv
<1>1. AbsSuper' = AbsSuper /\ \A t \in Stages : Reqs(t)' = Reqs(t)
  BY SuperFrame
<1>2. /\ \A v \in Workers, t \in Stages :
              /\ SizeServed(t, v)' <=> SizeServed(t, v)
              /\ DataServed(t, v)' <=> DataServed(t, v) \/ (t = s /\ v = w)
              /\ GatherServed(t, v)' <=> GatherServed(t, v)
      /\ pending' \in SUBSET Workers /\ pending' # {}
      /\ rpc' \in {<<"data", s>>, <<"gather", s>>}
      /\ rpc' = <<"gather", s>> => pending' = Workers
  BY <1>0, ServeData
<1>3. /\ rpc \in AfterPrepare1 <=> rpc' \in AfterPrepare1
      /\ rpc \in AfterPrepare1 <=> s = 1
      /\ rpc \in AfterPrepare0 /\ rpc' \in AfterPrepare0
  BY <1>2 DEF AfterPrepare0, AfterSize0, AfterData0, AfterGather0, AfterPrepare1,
              AfterSize1, AfterData1, AfterGather1, Panicked, Stages
<1>4. requests = Reqs(s) /\ requests \in [Subcircuit -> Request]
  <2>1. requests = Reqs(s)
    BY <1>0, <1>3 DEF CoordInv, Stages
  <2>2. \A i \in Subcircuit : Reqs(s)[i] \in Request
    <3>1. CASE s = 0
      BY <3>1 DEF Reqs, Request, Stage0Request
    <3>2. CASE s = 1
      <4>1. AbsSuper \in SuperCom
        BY <1>0, <1>3, <3>2 DEF CoordInv, AbsSuper
      <4> QED BY <3>2, <4>1, NoneAssumption, SizesAssumption
              DEF Reqs, Request, GenRequest1, CurLeaf, Stage1Request, Leaf, Subcircuit
    <3> QED BY <3>1, <3>2 DEF Stages
  <2>3. Reqs(s) = [i \in Subcircuit |-> Reqs(s)[i]]
    BY DEF Reqs
  <2> QED BY <2>1, <2>2, <2>3
<1>5. TypeOK'
  <2>1. ChunkSize(s, w) \in SizeVec
    BY IdxType, ReqSizeAssumption DEF ChunkSize, SizeVec
  <2>2. Chunk(requests, w) \in [Slots -> Request]
    BY <1>4, IdxType DEF Chunk
  <2>3. data' \in [Stages -> [Workers -> DataMsg \cup {None}]]
    BY <1>0, <2>1, <2>2 DEF TypeOK, DataMsg
  <2> QED BY <1>0, <1>2, <2>3 DEF TypeOK, RootPc, Stages
<1>6. CoordInv'
  <2>3. rpc' \in RootPc /\ rpc' # <<"done", 1>> /\ rpc # <<"done", 1>>
    BY <1>2 DEF RootPc, Panicked, Stages
  <2>4. rpc'[1] \notin {"prepare", "aggregate", "done"}
    BY <1>2 DEF Stages
  <2> QED BY <1>0, <1>1, <1>2, <1>3, <2>3, <2>4 DEF CoordInv, Stages
<1>7. SuperInv'
  BY <1>0, <1>1, <1>3, SuperInvFrame
<1>8. ASSUME NEW v \in Workers PROVE (ScatterInv(v) /\ GatherInv(v) /\ WorkerInv(v))'
  <2>1. ScatterInv(v)'
    <3>1. \A t \in Stages :
            data'[t][v] = IF t = s /\ v = w
                          THEN [size |-> ChunkSize(s, w), reqs |-> Chunk(requests, w)]
                          ELSE data[t][v]
      BY <1>0 DEF TypeOK
    <3>2. \A t \in Stages : ChunkSize(t, v)' = ChunkSize(t, v)
                            /\ Chunk(Reqs(t), v)' = Chunk(Reqs(t), v)
      BY <1>1 DEF ChunkSize, Chunk
    <3> QED BY <1>0, <1>2, <1>4, <3>1, <3>2 DEF ScatterInv
  <2>2. GatherInv(v)'   BY <1>0, <1>2, GatherFrame
  <2>3. WorkerInv(v)'
    BY <1>0, <1>1, <1>2, WorkerFrame DEF Stages, AfterSize1, AfterData1, AfterGather1, Panicked
  <2> QED BY <2>1, <2>2, <2>3
<1> QED BY <1>5, <1>6, <1>7, <1>8 DEF IInv

\* A proof with the commitment of stage 0 has one commitment.
LEMMA LenOne == ASSUME NEW c PROVE Len(<<c>>) = 1
OBVIOUS

\* What a worker has answered fits the part of the root's buffer laid out for it.
LEMMA GatherFits ==
  ASSUME IInv, NEW s \in Stages, NEW w \in Workers, replies[s][w] # None
  PROVE  \A j \in Slots : Length(s, replies[s][w][j]) <= DefaultLength(s)
<1>1. CASE s = 0
  BY <1>1 DEF Length, DefaultLength
<1>2. CASE s = 1
  <2>1. ~Idle0(w) /\ ~Computing0(w) /\ ~Idle1(w) /\ ~Computing1(w)
    BY <1>2 DEF Idle0, Computing0, Idle1, Computing1
  <2>2. Answered1(w)
    BY <2>1 DEF IInv, WorkerInv
  <2>3. \A j \in Slots : replies[s][w][j].proof.ds = <<states[w][j].com>>
    BY <1>2, <2>2 DEF Answered1, Resp1
  <2>4. ASSUME NEW j \in Slots PROVE Len(replies[s][w][j].proof.ds) = 1
    <3>1. PICK c : replies[s][w][j].proof.ds = <<c>>
      BY <2>3
    <3> QED BY <3>1, LenOne
  <2>5. \A j \in Slots : Length(s, replies[s][w][j]) = 1
    BY <1>2, <2>4 DEF Length
  <2> QED BY <1>2, <2>5 DEF DefaultLength
<1> QED BY <1>1, <1>2 DEF Stages

\* The coordinator gathers the responses of a worker.
LEMMA GatherInvStep ==
  ASSUME IInv, UNCHANGED env, NEW s \in Stages, NEW w \in Workers, Gather(s, w)
  PROVE  IInv'
<1> USE DEF rootVars, workerVars, wireVars
<1>0. TypeOK /\ CoordInv /\ SuperInv
      /\ \A v \in Workers : ScatterInv(v) /\ GatherInv(v) /\ WorkerInv(v)
  BY DEF IInv
<1>00. /\ rpc = <<"gather", s>> /\ replies[s][w] # None
       /\ gathered' = [gathered EXCEPT ![w] = replies[s][w]]
       /\ Serve(w, IF s = 0 THEN <<"prepare", 1>> ELSE <<"aggregate", 1>>)
       /\ UNCHANGED <<stage0State, stage1State, requests, aggregate, workerVars, wireVars>>
  BY GatherFits DEF Gather
<1>1. AbsSuper' = AbsSuper /\ \A t \in Stages : Reqs(t)' = Reqs(t)
  BY <1>00, SuperFrame
<1>2. /\ \A v \in Workers, t \in Stages :
              /\ SizeServed(t, v)' <=> SizeServed(t, v)
              /\ DataServed(t, v)' <=> DataServed(t, v)
              /\ GatherServed(t, v)' <=> GatherServed(t, v) \/ (t = s /\ v = w)
      /\ pending' \in SUBSET Workers /\ pending' # {}
      /\ rpc' \in {<<"gather", s>>, IF s = 0 THEN <<"prepare", 1>> ELSE <<"aggregate", 1>>}
      /\ rpc' # rpc => pending' = Workers
  BY <1>00, <1>0, <1>00, ServeGather
<1>3. /\ rpc \in AfterPrepare1 <=> rpc' \in AfterPrepare1
      /\ rpc \in AfterPrepare1 <=> s = 1
      /\ rpc \in AfterPrepare0 /\ rpc' \in AfterPrepare0
      /\ rpc \in AfterSize1 <=> rpc' \in AfterSize1
  BY <1>00, <1>2 DEF AfterPrepare0, AfterSize0, AfterData0, AfterGather0, AfterPrepare1,
              AfterSize1, AfterData1, AfterGather1, Panicked, Stages
<1>4. /\ rpc' \in RootPc /\ rpc' # <<"done", 1>> /\ rpc # <<"done", 1>>
      /\ rpc'[1] \in {"prepare", "aggregate", "done"} => rpc' # rpc
  BY <1>00, <1>2 DEF RootPc, Panicked, Stages
<1>5. TypeOK'
  <2>1. replies[s][w] \in Reply \cup {None}
    BY <1>00, <1>0 DEF TypeOK
  <2> QED BY <1>00, <1>0, <1>2, <1>4, <2>1 DEF TypeOK
<1>6. CoordInv'
  BY <1>00, <1>0, <1>1, <1>2, <1>3, <1>4 DEF CoordInv, Stages
<1>7. SuperInv'
  BY <1>00, <1>0, <1>1, <1>3, SuperInvFrame
<1>8. ASSUME NEW v \in Workers PROVE (ScatterInv(v) /\ GatherInv(v) /\ WorkerInv(v))'
  <2>1. ScatterInv(v)'  BY <1>00, <1>0, <1>1, <1>2, ScatterFrame
  <2>2. GatherInv(v)'
    <3>1. CASE v # w
      BY <1>00, <3>1, <1>0, <1>2, GatherFrame DEF TypeOK
    <3>2. CASE v = w
      <4>1. gathered'[w] = replies[s][w] /\ replies[s][w] # None
        BY <1>00, <1>0 DEF TypeOK
      <4>2. CASE s = 0
        <5>1. ~GatherServed(1, w)
          BY <1>00, <4>2 DEF GatherServed, AfterGather1, Panicked, Stages
        <5> QED BY <1>00, <4>1, <4>2, <5>1, <1>2, <3>2 DEF GatherInv, Stages
      <4>3. CASE s = 1
        <5>1. GatherServed(0, w)
          BY <1>00, <4>3 DEF GatherServed, AfterGather1, Panicked, AfterData1, AfterSize1,
                      AfterPrepare1, AfterGather0, Stages
        <5> QED BY <1>00, <4>1, <4>3, <5>1, <1>0, <1>2, <3>2 DEF GatherInv, Stages
      <4> QED BY <1>00, <4>2, <4>3 DEF Stages
    <3> QED BY <1>00, <3>1, <3>2
  <2>3. WorkerInv(v)'
    BY <1>00, <1>0, <1>1, <1>3, WorkerFrame DEF Stages
  <2> QED BY <1>00, <2>1, <2>2, <2>3
<1> QED BY <1>00, <1>5, <1>6, <1>7, <1>8 DEF IInv

-----------------------------------------------------------------------------
(* The coordinator computes from what it gathered.                          *)

\* Sorting responses that are in order leaves them where they are.
LEMMA SortSorted ==
  ASSUME NEW resps, \A i \in Subcircuit : resps[i].sub = i
  PROVE  SortBySubcircuit(resps) = [i \in Subcircuit |-> resps[i]]
<1> DEFINE Below(p) == {q \in Subcircuit : Before(resps, q, p)}
<1>1. ASSUME NEW p \in Subcircuit PROVE Cardinality(Below(p)) = p
  <2>1. Below(p) = 0 .. p - 1
    BY SizesAssumption DEF Before, Subcircuit
  <2>2. Cardinality(0 .. p - 1) = p
    BY FS_Interval, SizesAssumption DEF Subcircuit
  <2> QED BY <2>1, <2>2
<1>2. \A i \in Subcircuit : From(resps, i) = i
  BY <1>1 DEF From
<1> QED BY <1>2 DEF SortBySubcircuit

\* The responses to the stage 0 requests, in the order of the subcircuits.
LEMMA Stage0Flattened ==
  ASSUME IInv, rpc = <<"prepare", 1>>
  PROVE  \A i \in Subcircuit :
           /\ Flattened[i] = Resp0(WorkerOf(i), SlotOf(i)) /\ Flattened[i].sub = i
           /\ Flattened[i].com \in Com
           /\ Flattened[i].com = states[WorkerOf(i)][SlotOf(i)].com
<1> TAKE i \in Subcircuit
<1> DEFINE w == WorkerOf(i)  j == SlotOf(i)
<1>1. w \in Workers /\ j \in Slots /\ Idx(w, j) = i
  BY SlotType
<1>2. GatherServed(0, w) /\ ~GatherServed(1, w)
  BY DEF GatherServed, AfterGather0, AfterGather1, Panicked
<1>3. gathered[w] = replies[0][w] /\ replies[0][w] # None
  BY <1>1, <1>2 DEF IInv, GatherInv
<1>4. Answered0(w) /\ Idle1(w)
  <2>1. ~Idle0(w) /\ ~Computing0(w)
    BY <1>3 DEF Idle0, Computing0
  <2>2. ~Computing1(w) /\ ~Answered1(w)
    BY DEF Computing1, Answered1, AfterSize1, AfterData1, AfterGather1, Panicked
  <2> QED BY <1>1, <2>1, <2>2 DEF IInv, WorkerInv
<1>5. replies[0][w] = [k \in Slots |-> Resp0(w, k)] /\ Committed(w, j, FALSE)
  BY <1>1, <1>4 DEF Answered0, Idle1
<1>6. Flattened[i] = Resp0(w, j)
  BY <1>1, <1>3, <1>5 DEF Flattened
<1> QED BY <1>1, <1>5, <1>6 DEF Resp0, Committed

\* The responses to the stage 1 requests, in the order of the subcircuits.
LEMMA Stage1Flattened ==
  ASSUME IInv, rpc = <<"aggregate", 1>>
  PROVE  \A i \in Subcircuit :
           /\ Flattened[i] = Resp1(WorkerOf(i), SlotOf(i)) /\ Flattened[i].sub = i
           /\ Flattened[i].proof \in Proof
           /\ Flattened[i].proof.ds = <<states[WorkerOf(i)][SlotOf(i)].com>>
           /\ Committed(WorkerOf(i), SlotOf(i), TRUE)
           /\ Answered1(WorkerOf(i))
<1> TAKE i \in Subcircuit
<1> DEFINE w == WorkerOf(i)  j == SlotOf(i)
<1>1. w \in Workers /\ j \in Slots /\ Idx(w, j) = i
  BY SlotType
<1>2. GatherServed(1, w)
  BY DEF GatherServed, AfterGather1, Panicked
<1>3. gathered[w] = replies[1][w] /\ replies[1][w] # None
  BY <1>1, <1>2 DEF IInv, GatherInv
<1>4. Answered1(w)
  <2>1. ~Idle0(w) /\ ~Computing0(w) /\ ~Idle1(w) /\ ~Computing1(w)
    BY <1>3 DEF Idle0, Computing0, Idle1, Computing1
  <2> QED BY <1>1, <2>1 DEF IInv, WorkerInv
<1>5. replies[1][w] = [k \in Slots |-> Resp1(w, k)] /\ Committed(w, j, TRUE)
  BY <1>1, <1>4 DEF Answered1
<1>6. Flattened[i] = Resp1(w, j)
  BY <1>1, <1>3, <1>5 DEF Flattened
<1>7. stage1State \in SuperCom /\ AbsSuper = stage1State
  BY DEF IInv, CoordInv, AbsSuper, AfterPrepare1, AfterSize1, AfterData1, AfterGather1, Panicked
<1>8. states[w][j].rand \in Seeds
  BY <1>5 DEF Committed, Com
<1>9. Resp1(w, j).proof \in Proof
  <2>1. i - 1 \in -1 .. NumSubcircuits - 1
    BY SizesAssumption DEF Subcircuit
  <2>2. CurLeaf(i, AbsSuper) \in Leaf
    BY <1>7, <2>1 DEF CurLeaf, Leaf
  <2>3. <<states[w][j].com>> \in Seq(Com)
    BY <1>5 DEF Committed
  <2> QED BY <1>1, <1>5, <1>7, <1>8, <2>2, <2>3 DEF Resp1, Proof, Committed
<1>10. Resp1(w, j).sub = i /\ Resp1(w, j).proof.ds = <<states[w][j].com>>
  BY <1>1 DEF Resp1
<1> QED BY <1>4, <1>5, <1>6, <1>9, <1>10

\* The coordinator commits to the commitments and makes the stage 1 requests.
LEMMA CoordStage1Inv == ASSUME IInv, UNCHANGED env, CoordStage1 PROVE IInv'
<1>0. TypeOK /\ CoordInv /\ SuperInv
      /\ \A w \in Workers : ScatterInv(w) /\ GatherInv(w) /\ WorkerInv(w)
  BY DEF IInv
<1>1. \A i \in Subcircuit : /\ Flattened[i] = Resp0(WorkerOf(i), SlotOf(i))
                            /\ Flattened[i].sub = i /\ Flattened[i].com \in Com
                            /\ Flattened[i].com = states[WorkerOf(i)][SlotOf(i)].com
  BY Stage0Flattened DEF CoordStage1
<1> DEFINE sup == [i \in Subcircuit |-> SortBySubcircuit(Flattened)[i].com]
<1>2. /\ sup = [i \in Subcircuit |-> states[WorkerOf(i)][SlotOf(i)].com]
      /\ sup \in SuperCom
  <2>1. \A i \in Subcircuit : SortBySubcircuit(Flattened)[i] = Flattened[i]
    BY <1>1, SortSorted
  <2> QED BY <1>1, <2>1 DEF SuperCom
<1>3. stage0State /\ rpc = <<"prepare", 1>>
  BY <1>0 DEF CoordStage1, CoordInv, AfterPrepare0, AfterSize0, AfterData0, AfterGather0,
              AfterPrepare1, AfterSize1, AfterData1, AfterGather1, Panicked
<1>4. /\ stage1State' = sup /\ rpc' = <<"size", 1>> /\ stage0State' = FALSE
      /\ requests' = [i \in Subcircuit |-> GenRequest1(i, sup)]
      /\ UNCHANGED <<pending, gathered, aggregate, wpc, bufSize, received, states,
                     responses, sizes, data, replies>>
  BY <1>3 DEF CoordStage1, workerVars, wireVars
<1> HIDE DEF sup
<1>5. aggregate = None /\ AbsSuper' = sup /\ pending = Workers
  BY <1>0, <1>3, <1>4
     DEF CoordInv, AbsSuper, AfterPrepare1, AfterSize1, AfterData1, AfterGather1, Panicked
<1>6. Reqs(0)' = Reqs(0) /\ Reqs(1)' = requests'
  BY <1>4, <1>5 DEF Reqs, GenRequest1, CurLeaf
<1>7. \A w \in Workers, s \in Stages :
        /\ SizeServed(s, w)' <=> SizeServed(s, w)
        /\ DataServed(s, w)' <=> DataServed(s, w)
        /\ GatherServed(s, w)' <=> GatherServed(s, w)
        /\ ~DataServed(1, w)
  BY <1>3, <1>4, <1>5 DEF SizeServed, DataServed, GatherServed, Stages, AfterSize0, AfterSize1,
              AfterData0, AfterData1, AfterGather0, AfterGather1, Panicked, AfterPrepare1
<1>8. TypeOK'
  <2>1. \A i \in Subcircuit : GenRequest1(i, sup) \in Request
    BY <1>2, SizesAssumption
       DEF Request, GenRequest1, CurLeaf, Stage1Request, Leaf, Subcircuit
  <2>2. requests' \in [Subcircuit -> Request]
    BY <1>4, <2>1
  <2> QED BY <1>0, <1>2, <1>4, <2>2 DEF TypeOK, RootPc, Stages
<1>9. CoordInv'
  <2>1. rpc' \in AfterPrepare1 /\ rpc' # <<"done", 1>>
        /\ rpc' \in RootPc /\ pending' \in SUBSET Workers /\ pending' # {}
    BY <1>0, <1>4 DEF CoordInv, AfterPrepare1, RootPc, Panicked, Stages
  <2>2. rpc' \notin AfterPrepare0 \ AfterPrepare1 /\ stage0State' = FALSE
    BY <1>4, <2>1
  <2>3. requests' = Reqs(1)'
    BY <1>6
  <2> QED BY <1>2, <1>4, <1>5, <2>1, <2>2, <2>3 DEF CoordInv
<1>10. SuperInv'
  BY <1>2, <1>4, <1>5 DEF SuperInv
<1>11. ASSUME NEW w \in Workers PROVE (ScatterInv(w) /\ GatherInv(w) /\ WorkerInv(w))'
  <2>1. ScatterInv(w)'  BY <1>0, <1>4, <1>6, <1>7, ScatterFrame DEF Stages
  <2>2. GatherInv(w)'   BY <1>0, <1>4, <1>7, GatherFrame
  <2>3. WorkerInv(w)'
    BY <1>0, <1>3, <1>4, <1>6, WorkerFrame DEF AfterSize1, AfterData1, AfterGather1, Panicked
  <2> QED BY <2>1, <2>2, <2>3
<1> QED BY <1>8, <1>9, <1>10, <1>11 DEF IInv

\* What the coordinator has when it aggregates.
LEMMA AggregateReady ==
  ASSUME IInv, rpc = <<"aggregate", 1>>, NEW proofs,
         proofs = [i \in Subcircuit |-> SortBySubcircuit(Flattened)[i].proof]
  PROVE  /\ stage1State \in SuperCom /\ aggregate = None /\ AbsSuper = stage1State
         /\ pending = Workers /\ stage0State = FALSE /\ requests = Reqs(1)
         /\ proofs = [i \in Subcircuit |-> Resp1(WorkerOf(i), SlotOf(i)).proof]
         /\ proofs \in [Subcircuit -> Proof]
         /\ stage1State # None /\ DsMatch(stage1State, proofs)
         /\ \A i \in Subcircuit : i \notin env.misfit => EquationHolds(stage1State, proofs[i], i)
<1>0. CoordInv /\ SuperInv /\ TypeOK
  BY DEF IInv
<1>1. \A i \in Subcircuit : /\ Flattened[i] = Resp1(WorkerOf(i), SlotOf(i))
                            /\ Flattened[i].sub = i /\ Flattened[i].proof \in Proof
                            /\ Flattened[i].proof.ds = <<states[WorkerOf(i)][SlotOf(i)].com>>
                            /\ Committed(WorkerOf(i), SlotOf(i), TRUE)
  BY Stage1Flattened
<1>2. /\ proofs = [i \in Subcircuit |-> Resp1(WorkerOf(i), SlotOf(i)).proof]
      /\ \A i \in Subcircuit : proofs[i].ds = <<states[WorkerOf(i)][SlotOf(i)].com>>
      /\ proofs \in [Subcircuit -> Proof]
  <2>0. \A i \in Subcircuit : Flattened[i].sub = i
    BY <1>1
  <2>1. \A i \in Subcircuit : SortBySubcircuit(Flattened)[i] = Flattened[i]
    BY <2>0, SortSorted
  <2> QED BY <1>1, <2>1
<1>3. rpc \in AfterPrepare1 /\ rpc # <<"done", 1>>
  BY DEF AfterPrepare1, AfterSize1, AfterData1, AfterGather1
<1>4. /\ stage1State \in SuperCom /\ aggregate = None /\ AbsSuper = stage1State
      /\ pending = Workers /\ stage0State = FALSE /\ requests = Reqs(1)
  <2>1. rpc \in AfterPrepare1 \ {<<"done", 1>>} /\ rpc \notin AfterPrepare0 \ AfterPrepare1
        /\ rpc[1] = "aggregate"
    BY <1>3
  <2> QED BY <1>0, <2>1, <1>3 DEF TypeOK, CoordInv, AbsSuper
<1>5. \A i \in Subcircuit : stage1State[i] = states[WorkerOf(i)][SlotOf(i)].com
  BY <1>0, <1>3, <1>4 DEF SuperInv
<1>6. stage1State # None /\ DsMatch(stage1State, proofs)
  <2>1. ASSUME NEW i \in Subcircuit PROVE proofs[i].ds # <<>> /\ proofs[i].ds[1] = stage1State[i]
    <3>1. proofs[i].ds = <<stage1State[i]>>
      BY <1>2, <1>5
    <3> QED BY <3>1
  <2> QED BY <1>4, <2>1, NoneAssumption DEF DsMatch
<1>7. ASSUME NEW i \in Subcircuit, i \notin env.misfit
      PROVE  EquationHolds(stage1State, proofs[i], i)
  <2> DEFINE w == WorkerOf(i)  j == SlotOf(i)  c == states[w][j].com
  <2>1. w \in Workers /\ j \in Slots /\ Idx(w, j) = i
    BY SlotType
  <2>2. c \in Com /\ c.sub = i /\ states[w][j].rand = c.seed
    BY <1>1, <2>1 DEF Committed
  <2>3. c = [sub |-> i, seed |-> c.seed]
    BY <2>2 DEF Com
  <2>4. /\ proofs[i].sub = i /\ proofs[i].ds = <<c>> /\ proofs[i].rand = c.seed
        /\ proofs[i].cur = CurLeaf(i, stage1State) /\ proofs[i].next = i
        /\ proofs[i].root = stage1State
    <3>1. proofs[i] = Resp1(w, j).proof
      BY <1>2
    <3> QED BY <1>4, <2>1, <2>2, <3>1 DEF Resp1
  <2> HIDE DEF w, j, c
  <2>5. proofs[i].ds = <<[sub |-> i, seed |-> proofs[i].rand]>>
    BY <2>3, <2>4
  <2> QED BY <1>7, <2>4, <2>5 DEF EquationHolds, CurLeaf
<1> QED BY <1>2, <1>4, <1>6, <1>7

\* The coordinator aggregates the proofs.
LEMMA CoordAggregateInv == ASSUME IInv, UNCHANGED env, CoordAggregate PROVE IInv'
<1>0. TypeOK /\ CoordInv /\ SuperInv
      /\ \A w \in Workers : ScatterInv(w) /\ GatherInv(w) /\ WorkerInv(w)
  BY DEF IInv
<1> DEFINE proofs == [i \in Subcircuit |-> SortBySubcircuit(Flattened)[i].proof]
<1>3. /\ rpc = <<"aggregate", 1>>
      /\ rpc \in AfterPrepare1 /\ rpc # <<"done", 1>> /\ rpc \in AfterSize1
  BY DEF CoordAggregate, AfterPrepare1, AfterSize1, AfterData1, AfterGather1
<1>4. /\ stage1State \in SuperCom /\ aggregate = None /\ AbsSuper = stage1State
      /\ pending = Workers /\ stage0State = FALSE /\ requests = Reqs(1)
      /\ proofs = [i \in Subcircuit |-> Resp1(WorkerOf(i), SlotOf(i)).proof]
      /\ proofs \in [Subcircuit -> Proof]
      /\ stage1State # None /\ DsMatch(stage1State, proofs)
  BY <1>3, AggregateReady
<1>5. CASE ~(env.debug => \A i \in Subcircuit : EquationHolds(stage1State, proofs[i], i))
  <2>1. /\ rpc' = Panicked(1)
        /\ UNCHANGED <<pending, stage0State, stage1State, requests, gathered, aggregate, wpc,
                       bufSize, received, states, responses, sizes, data, replies>>
    BY <1>5 DEF CoordAggregate, workerVars, wireVars
  <2>2. AbsSuper' = AbsSuper /\ \A s \in Stages : Reqs(s)' = Reqs(s)
    BY <2>1, SuperFrame
  <2> HIDE DEF proofs
  <2>3. \A w \in Workers, s \in Stages :
          /\ SizeServed(s, w)' <=> SizeServed(s, w)
          /\ DataServed(s, w)' <=> DataServed(s, w)
          /\ GatherServed(s, w)' <=> GatherServed(s, w)
    BY <1>3, <2>1 DEF SizeServed, DataServed, GatherServed, Stages, AfterSize0, AfterSize1,
                AfterData0, AfterData1, AfterGather0, AfterGather1, Panicked, AfterPrepare1
  <2>4. TypeOK'
    BY <1>0, <2>1 DEF TypeOK, RootPc, Panicked, Stages
  <2>5. CoordInv'
    <3>1. /\ rpc' \in AfterPrepare1 \ {<<"done", 1>>} /\ rpc' # <<"done", 1>> /\ rpc' \in RootPc
          /\ rpc' \notin AfterPrepare0 \ AfterPrepare1
      BY <2>1 DEF AfterPrepare1, AfterSize1, AfterData1, AfterGather1, Panicked, RootPc, Stages
    <3>2. requests' = Reqs(1)' /\ pending' = Workers /\ pending' # {} /\ stage0State' = FALSE
      BY <1>0, <1>4, <2>1, <2>2 DEF CoordInv, Stages
    <3>3. stage1State' \in SuperCom' /\ aggregate' = None
      BY <1>4, <2>1
    <3> QED BY <3>1, <3>2, <3>3 DEF CoordInv
  <2>6. SuperInv'
    BY <1>0, <1>3, <2>1, <2>2, SuperInvFrame
  <2>7. ASSUME NEW w \in Workers PROVE (ScatterInv(w) /\ GatherInv(w) /\ WorkerInv(w))'
    <3>1. ScatterInv(w)'  BY <1>0, <2>1, <2>2, <2>3, ScatterFrame
    <3>2. GatherInv(w)'   BY <1>0, <2>1, <2>3, GatherFrame
    <3>3. rpc' \in AfterSize1
      BY <2>1 DEF AfterSize1, AfterData1, AfterGather1
    <3>4. WorkerInv(w)'
      BY <1>0, <2>1, <2>2, <3>3, WorkerFrame DEF Stages
    <3> QED BY <3>1, <3>2, <3>4
  <2> QED BY <2>4, <2>5, <2>6, <2>7 DEF IInv
<1> SUFFICES ASSUME env.debug => \A i \in Subcircuit : EquationHolds(stage1State, proofs[i], i)
             PROVE  IInv'
  BY <1>5
<1>6. /\ aggregate' = [super |-> stage1State, proofs |-> proofs]
      /\ rpc' = <<"done", 1>> /\ stage1State' = None
      /\ UNCHANGED <<pending, stage0State, requests, gathered, wpc, bufSize, received,
                     states, responses, sizes, data, replies>>
  BY <1>4 DEF CoordAggregate, workerVars, wireVars
<1> HIDE DEF proofs
<1>7. aggregate' \in AggProof /\ aggregate' # None
  BY <1>4, <1>6, NoneAssumption DEF AggProof
<1>8. AbsSuper' = AbsSuper /\ \A s \in Stages : Reqs(s)' = Reqs(s)
  <2>1. AbsSuper' = AbsSuper
    BY <1>4, <1>6, <1>7 DEF AbsSuper
  <2> QED BY <2>1 DEF Reqs, GenRequest1, CurLeaf
<1>9. \A w \in Workers, s \in Stages :
        /\ SizeServed(s, w)' <=> SizeServed(s, w)
        /\ DataServed(s, w)' <=> DataServed(s, w)
        /\ GatherServed(s, w)' <=> GatherServed(s, w)
  BY <1>3, <1>6 DEF SizeServed, DataServed, GatherServed, Stages, AfterSize0, AfterSize1,
              AfterData0, AfterData1, AfterGather0, AfterGather1, Panicked, AfterPrepare1
<1>10. TypeOK'
  BY <1>0, <1>6, <1>7 DEF TypeOK, RootPc
<1>11. CoordInv'
  <2>1. rpc' \in AfterPrepare1 /\ rpc'[1] = "done" /\ rpc' \in RootPc
    BY <1>6 DEF AfterPrepare1, AfterSize1, AfterData1, AfterGather1, Panicked, RootPc
  <2>2. proofs = [i \in Subcircuit |-> Resp1(WorkerOf(i), SlotOf(i)).proof]'
    BY <1>4, <1>6, <1>8 DEF Resp1, CurLeaf, Idx, WorkerOf, SlotOf
  <2>3. aggregate'.super = stage1State
    BY <1>6
  <2>4. requests' = Reqs(1)'
    BY <1>4, <1>6, <1>8 DEF Stages
  <2>5. stage0State' = FALSE /\ rpc' \notin AfterPrepare0 \ AfterPrepare1
        /\ pending' = Workers /\ pending' # {}
    BY <1>0, <1>4, <1>6, <2>1 DEF CoordInv
  <2> QED BY <1>4, <1>6, <1>7, <2>1, <2>2, <2>3, <2>4, <2>5 DEF CoordInv
<1>12. SuperInv'
  BY <1>0, <1>3, <1>6, <1>8, SuperInvFrame
<1>13. ASSUME NEW w \in Workers PROVE (ScatterInv(w) /\ GatherInv(w) /\ WorkerInv(w))'
  <2>1. ScatterInv(w)'  BY <1>0, <1>6, <1>8, <1>9, ScatterFrame
  <2>2. GatherInv(w)'   BY <1>0, <1>6, <1>9, GatherFrame
  <2>3. WorkerInv(w)'
    BY <1>0, <1>6, <1>8, WorkerFrame DEF Stages, AfterSize1, AfterData1, AfterGather1, Panicked
  <2> QED BY <2>1, <2>2, <2>3
<1> QED BY <1>10, <1>11, <1>12, <1>13 DEF IInv

-----------------------------------------------------------------------------
(* What a step of a worker leaves alone.                                    *)

\* A worker's step leaves the coordinator where it is.
LEMMA RootFrame ==
  ASSUME UNCHANGED rootVars
  PROVE  /\ AbsSuper' = AbsSuper /\ \A s \in Stages : Reqs(s)' = Reqs(s)
         /\ \A v \in Workers, s \in Stages :
              /\ SizeServed(s, v)' <=> SizeServed(s, v)
              /\ DataServed(s, v)' <=> DataServed(s, v)
              /\ GatherServed(s, v)' <=> GatherServed(s, v)
<1>1. AbsSuper' = AbsSuper /\ \A s \in Stages : Reqs(s)' = Reqs(s)
  BY SuperFrame DEF rootVars
<1> QED BY <1>1 DEF rootVars, SizeServed, DataServed, GatherServed

\* While a worker has work to do the coordinator has not returned, and while it
\* is at stage 0 there is no super-commitment.
LEMMA StillBusy ==
  ASSUME IInv, NEW w \in Workers
  PROVE  /\ wpc[w] # <<"done", 1>> => rpc # <<"done", 1>>
         /\ wpc[w] \in {<<"size", 0>>, <<"data", 0>>, <<"compute", 0>>, Panicked(0)} =>
              rpc \notin AfterPrepare1
<1>1. rpc = <<"done", 1>> => GatherServed(1, w)
  BY DEF GatherServed, AfterGather1, Panicked
<1>2. rpc \in AfterPrepare1 => GatherServed(0, w)
  BY DEF GatherServed, AfterGather0
<1>3. wpc[w] # <<"done", 1>> => replies[1][w] = None
  <2>1. wpc[w] # <<"done", 1>> => Idle0(w) \/ Computing0(w) \/ Idle1(w) \/ Computing1(w)
    BY DEF IInv, WorkerInv, Panicked
  <2> QED BY <2>1 DEF Idle0, Computing0, Idle1, Computing1
<1>4. wpc[w] \in {<<"size", 0>>, <<"data", 0>>, <<"compute", 0>>, Panicked(0)} =>
        replies[0][w] = None
  <2>1. wpc[w] \in {<<"size", 0>>, <<"data", 0>>, <<"compute", 0>>, Panicked(0)} =>
          Idle0(w) \/ Computing0(w)
    BY DEF IInv, WorkerInv, Panicked
  <2> QED BY <2>1 DEF Idle0, Computing0
<1> QED BY <1>1, <1>2, <1>3, <1>4 DEF IInv, GatherInv

\* The coordinator's part of the invariant speaks of the WorkerStates only once
\* it is done.
LEMMA CoordFrame ==
  ASSUME CoordInv, UNCHANGED rootVars, rpc # <<"done", 1>>
  PROVE  CoordInv'
<1>1. \A s \in Stages : Reqs(s)' = Reqs(s)
  BY RootFrame
<1> QED BY <1>1 DEF CoordInv, rootVars, Stages

\* A worker that another worker's step does not touch keeps its invariants.
LEMMA OtherWorkerFrame ==
  ASSUME IInv, UNCHANGED rootVars, NEW v \in Workers,
         wpc'[v] = wpc[v], bufSize'[v] = bufSize[v], received'[v] = received[v],
         states'[v] = states[v], responses'[v] = responses[v],
         \A s \in Stages : /\ sizes'[s][v] = sizes[s][v] /\ data'[s][v] = data[s][v]
                           /\ replies'[s][v] = replies[s][v]
  PROVE  (ScatterInv(v) /\ GatherInv(v) /\ WorkerInv(v))'
<1>0. ScatterInv(v) /\ GatherInv(v) /\ WorkerInv(v)
  BY DEF IInv
<1>1. ScatterInv(v)'  BY <1>0, RootFrame, ScatterFrame
<1>2. GatherInv(v)'   BY <1>0, RootFrame, GatherFrame DEF rootVars
<1>3. WorkerInv(v)'   BY <1>0, RootFrame, WorkerFrame DEF rootVars, Stages
<1> QED BY <1>1, <1>2, <1>3

-----------------------------------------------------------------------------
(* Every action of a worker preserves the invariant.                        *)

\* A worker learns the size of its requests.
LEMMA ReceiveSizeInv ==
  ASSUME IInv, UNCHANGED env, NEW s \in Stages, NEW w \in Workers, ReceiveSize(s, w)
  PROVE  IInv'
<1>0. TypeOK /\ CoordInv /\ SuperInv /\ ScatterInv(w) /\ GatherInv(w) /\ WorkerInv(w)
  BY DEF IInv
<1>1. /\ wpc[w] = <<"size", s>> /\ sizes[s][w] # None
      /\ wpc' = [wpc EXCEPT ![w] = <<"data", s>>]
      /\ bufSize' = [bufSize EXCEPT ![w] = sizes[s][w]]
      /\ UNCHANGED rootVars /\ received' = received /\ states' = states
      /\ responses' = responses /\ sizes' = sizes /\ data' = data /\ replies' = replies
  BY DEF ReceiveSize, wireVars
<1>2. sizes[s][w] = ChunkSize(s, w)
  BY <1>0, <1>1 DEF ScatterInv
<1>3. wpc'[w] = <<"data", s>> /\ bufSize'[w] = ChunkSize(s, w)
  BY <1>0, <1>1, <1>2 DEF TypeOK
<1>4. TypeOK'
  <2>1. sizes[s][w] \in SizeVec
    BY <1>0, <1>1 DEF TypeOK
  <2> QED BY <1>0, <1>1, <2>1 DEF TypeOK, rootVars, WorkerPc, Stages
<1>5. CoordInv'
  BY <1>0, <1>1, StillBusy, CoordFrame
<1>6. SuperInv'
  BY <1>0, <1>1, RootFrame, SuperInvFrame DEF rootVars
<1>7. ASSUME NEW v \in Workers PROVE (ScatterInv(v) /\ GatherInv(v) /\ WorkerInv(v))'
  <2>1. CASE v # w
    BY <1>0, <1>1, <2>1, OtherWorkerFrame DEF TypeOK
  <2>2. CASE v = w
    <3>1. ScatterInv(w)'  BY <1>0, <1>1, RootFrame, ScatterFrame
    <3>2. GatherInv(w)'   BY <1>0, <1>1, RootFrame, GatherFrame DEF rootVars
    <3>3. WorkerInv(w)'
      <4>1. ChunkSize(0, w)' = ChunkSize(0, w) /\ ChunkSize(1, w)' = ChunkSize(1, w)
        BY DEF ChunkSize
      <4>2. \A j \in Slots : /\ Fresh(w, j)' <=> Fresh(w, j)
                             /\ \A b \in BOOLEAN : Committed(w, j, b)' <=> Committed(w, j, b)
                             /\ Resp0(w, j)' = Resp0(w, j)
        BY <1>1 DEF Fresh, Committed, Resp0
      <4>3. CASE s = 0
        <5>1. Idle0(w)   BY <1>0, <1>1, <4>3 DEF WorkerInv, Panicked
        <5>2. Idle0(w)'  BY <1>1, <4>2, <5>1 DEF Idle0
        <5> QED BY <1>3, <4>1, <4>3, <5>2 DEF WorkerInv
      <4>4. CASE s = 1
        <5>1. Answered0(w) /\ Idle1(w)  BY <1>0, <1>1, <4>4 DEF WorkerInv, Panicked
        <5>2. Answered0(w)'  BY <1>1, <4>2, <5>1 DEF Answered0
        <5>3. Idle1(w)'      BY <1>1, <4>2, <5>1 DEF Idle1
        <5> QED BY <1>3, <4>1, <4>4, <5>2, <5>3 DEF WorkerInv
      <4> QED BY <4>3, <4>4 DEF Stages
    <3> QED BY <2>2, <3>1, <3>2, <3>3
  <2> QED BY <2>1, <2>2
<1> QED BY <1>4, <1>5, <1>6, <1>7 DEF IInv

\* A worker receives its requests.
LEMMA ReceiveDataInv ==
  ASSUME IInv, UNCHANGED env, NEW s \in Stages, NEW w \in Workers, ReceiveData(s, w),
         NumThreads(w) # 0
  PROVE  IInv'
<1>0. TypeOK /\ CoordInv /\ SuperInv /\ ScatterInv(w) /\ GatherInv(w) /\ WorkerInv(w)
  BY DEF IInv
<1>1. /\ wpc[w] = <<"data", s>> /\ data[s][w] # None
      /\ UNCHANGED rootVars /\ bufSize' = bufSize /\ states' = states
      /\ sizes' = sizes /\ data' = data /\ replies' = replies
  BY DEF ReceiveData, wireVars
<1>2. /\ data[s][w] = [size |-> ChunkSize(s, w), reqs |-> Chunk(Reqs(s), w)]
      /\ DataServed(s, w)
  BY <1>0, <1>1 DEF ScatterInv
<1>3. data[s][w].size = bufSize[w]
  BY <1>0, <1>1, <1>2 DEF WorkerInv, Panicked, Stages
<1>4. /\ received' = [received EXCEPT ![w] = Chunk(Reqs(s), w)]
      /\ responses' = [responses EXCEPT ![w] = [j \in Slots |-> None]]
      /\ wpc' = [wpc EXCEPT ![w] = <<"compute", s>>]
  BY <1>2, <1>3 DEF ReceiveData
<1>5. TypeOK'
  <2>1. Chunk(Reqs(s), w) \in [Slots -> Request]
    <3>1. data[s][w] \in DataMsg
      BY <1>0, <1>1 DEF TypeOK
    <3> QED BY <1>2, <3>1 DEF DataMsg
  <2>2. received' \in [Workers -> [Slots -> Request] \cup {None}]
    BY <1>0, <1>4, <2>1 DEF TypeOK
  <2>3. responses' \in [Workers -> [Slots -> Response \cup {None}]]
    BY <1>0, <1>4 DEF TypeOK
  <2> QED BY <1>0, <1>1, <1>4, <2>2, <2>3 DEF TypeOK, rootVars, WorkerPc, Stages
<1>6. CoordInv'
  BY <1>0, <1>1, StillBusy, CoordFrame
<1>7. SuperInv'
  BY <1>0, <1>1, RootFrame, SuperInvFrame DEF rootVars
<1>8. ASSUME NEW v \in Workers PROVE (ScatterInv(v) /\ GatherInv(v) /\ WorkerInv(v))'
  <2>1. CASE v # w
    BY <1>0, <1>1, <1>4, <2>1, OtherWorkerFrame DEF TypeOK
  <2>2. CASE v = w
    <3>1. ScatterInv(w)'  BY <1>0, <1>1, RootFrame, ScatterFrame
    <3>2. GatherInv(w)'   BY <1>0, <1>1, RootFrame, GatherFrame DEF rootVars
    <3>3. WorkerInv(w)'
      <4>1. /\ wpc'[w] = <<"compute", s>> /\ received'[w] = Chunk(Reqs(s), w)
            /\ \A j \in Slots : responses'[w][j] = None
        BY <1>0, <1>4 DEF TypeOK
      <4>2. \A j \in Slots : /\ Fresh(w, j)' <=> Fresh(w, j)
                             /\ \A b \in BOOLEAN : Committed(w, j, b)' <=> Committed(w, j, b)
                             /\ Resp0(w, j)' = Resp0(w, j)
        BY <1>1 DEF Fresh, Committed, Resp0
      <4>3. Chunk(Reqs(s), w)' = Chunk(Reqs(s), w)
        BY <1>1, RootFrame DEF Chunk
      <4>4. CASE s = 0
        <5>1. Idle0(w)        BY <1>0, <1>1, <4>4 DEF WorkerInv, Panicked
        <5>2. Computing0(w)'  BY <1>1, <4>1, <4>2, <4>3, <4>4, <5>1 DEF Idle0, Computing0
        <5> QED BY <4>1, <4>4, <5>2 DEF WorkerInv
      <4>5. CASE s = 1
        <5>1. Answered0(w) /\ Idle1(w)  BY <1>0, <1>1, <4>5 DEF WorkerInv, Panicked
        <5>2. Answered0(w)'  BY <1>1, <4>2, <5>1 DEF Answered0
        <5>3. rpc' \in AfterSize1
          BY <1>1, <1>2, <4>5 DEF DataServed, rootVars, AfterSize1
        <5>4. Computing1(w)'
          BY <1>1, <4>1, <4>2, <4>3, <4>5, <5>1, <5>3 DEF Idle1, Computing1
        <5> QED BY <4>1, <4>5, <5>2, <5>4 DEF WorkerInv
      <4> QED BY <4>4, <4>5 DEF Stages
    <3> QED BY <2>2, <3>1, <3>2, <3>3
  <2> QED BY <2>1, <2>2
<1> QED BY <1>5, <1>6, <1>7, <1>8 DEF IInv

\* A worker that panics leaves everything as it was.
LEMMA PanicInv ==
  ASSUME IInv, UNCHANGED env, NEW s \in Stages, NEW w \in Workers,
         wpc' = [wpc EXCEPT ![w] = Panicked(s)],
         UNCHANGED <<rootVars, bufSize, received, states, responses, wireVars>>,
         wpc[w] = <<"compute", s>> \/ (s = 0 /\ wpc[w] = <<"data", 0>>)
  PROVE  IInv'
<1>0. TypeOK /\ CoordInv /\ SuperInv /\ ScatterInv(w) /\ GatherInv(w) /\ WorkerInv(w)
  BY DEF IInv
<1>1. /\ UNCHANGED rootVars /\ bufSize' = bufSize /\ states' = states
      /\ received' = received /\ responses' = responses
      /\ sizes' = sizes /\ data' = data /\ replies' = replies
  BY DEF wireVars
<1>2. \A v \in Workers : v # w => wpc'[v] = wpc[v]
  BY <1>0 DEF TypeOK
<1>3. wpc'[w] = Panicked(s)
  BY <1>0 DEF TypeOK
<1>4. TypeOK'
  BY <1>0, <1>1 DEF TypeOK, rootVars, WorkerPc, Panicked
<1>5. CoordInv'
  <2>1. wpc[w] # <<"done", 1>>
    BY DEF Stages
  <2> QED BY <1>0, <1>1, <2>1, StillBusy, CoordFrame
<1>6. SuperInv'
  BY <1>0, <1>1, RootFrame, SuperInvFrame DEF rootVars
<1>7. ASSUME NEW v \in Workers PROVE (ScatterInv(v) /\ GatherInv(v) /\ WorkerInv(v))'
  <2>1. CASE v # w
    BY <1>1, <1>2, <2>1, OtherWorkerFrame
  <2>2. CASE v = w
    <3>1. ScatterInv(w)'  BY <1>0, <1>1, RootFrame, ScatterFrame
    <3>2. GatherInv(w)'   BY <1>0, <1>1, RootFrame, GatherFrame DEF rootVars
    <3>3. /\ Idle0(w) => Idle0(w)'
          /\ Computing0(w) => Computing0(w)'
          /\ Answered0(w) => Answered0(w)'
          /\ Computing1(w) => Computing1(w)'
      BY <1>1, RootFrame, PartsFrame DEF rootVars, Stages
    <3>4. ASSUME s = 0 PROVE WorkerInv(w)'
      <4>1. Idle0(w) \/ Computing0(w)
        BY <1>0, <3>4 DEF WorkerInv, Panicked
      <4>2. wpc'[w] = <<"panicked", 0>>
        BY <1>3, <3>4 DEF Panicked
      <4>3. Idle0(w)' \/ Computing0(w)'
        BY <3>3, <4>1
      <4> QED BY <4>2, <4>3 DEF WorkerInv, Panicked
    <3>5. ASSUME s = 1 PROVE WorkerInv(w)'
      <4>1. Answered0(w) /\ Computing1(w)
        BY <1>0, <3>5 DEF WorkerInv, Panicked
      <4>2. wpc'[w] = <<"panicked", 1>>
        BY <1>3, <3>5 DEF Panicked
      <4>3. Answered0(w)' /\ Computing1(w)'
        BY <3>3, <4>1
      <4> QED BY <4>2, <4>3 DEF WorkerInv, Panicked
    <3> QED BY <2>2, <3>1, <3>2, <3>4, <3>5 DEF Stages
  <2> QED BY <2>1, <2>2
<1> QED BY <1>4, <1>5, <1>6, <1>7 DEF IInv

\* A worker with no thread to compute on panics at its first requests.
LEMMA ReceiveDataPanic ==
  ASSUME IInv, EnvInv, UNCHANGED env, NEW s \in Stages, NEW w \in Workers, ReceiveData(s, w),
         NumThreads(w) = 0
  PROVE  IInv'
<1>1. /\ wpc[w] = <<"data", s>> /\ wpc' = [wpc EXCEPT ![w] = Panicked(s)]
      /\ UNCHANGED <<rootVars, bufSize, received, states, responses, wireVars>>
  BY DEF ReceiveData
<1>2. s = 0
  BY <1>1 DEF EnvInv, Panicked, Stages
<1> QED BY <1>1, <1>2, PanicInv

\* A worker's step that leaves its builders and commitments alone leaves the
\* super-commitment made of them.
LEMMA SuperKept ==
  ASSUME IInv, UNCHANGED rootVars, NEW w \in Workers,
         wpc[w] = <<"compute", 0>> \/
           \A i \in Subcircuit : states'[WorkerOf(i)][SlotOf(i)].com
                                   = states[WorkerOf(i)][SlotOf(i)].com
  PROVE  SuperInv'
<1>1. CASE wpc[w] = <<"compute", 0>>
  BY <1>1, StillBusy DEF SuperInv, rootVars
<1>2. CASE \A i \in Subcircuit : states'[WorkerOf(i)][SlotOf(i)].com
                                   = states[WorkerOf(i)][SlotOf(i)].com
  <2>1. AbsSuper' = AbsSuper /\ rpc' = rpc /\ SuperInv
    BY RootFrame DEF IInv, rootVars
  <2> QED BY <1>2, <2>1 DEF SuperInv
<1> QED BY <1>1, <1>2

\* The requests and the WorkerStates of a worker are cut in the same places: a
\* request is handed the WorkerState of its own slot.
LEMMA StateOfSlot ==
  ASSUME TypeOK, NEW w \in Workers, NEW j \in Slots, NumThreads(w) # 0
  PROVE  StateOf(w, j) = j
<1> DEFINE K == PerWorker  n == NumThreads(w)  c == ThreadChunk(w)  i == j - 1
<1>1. n \in Nat \ {0}
  <2>1. env \in Env
    BY EnvsAssumption DEF TypeOK
  <2>2. env.pool[w] \in Nat \ {0}
    BY <2>1 DEF Env
  <2> QED BY <2>2 DEF NumThreads
<1>2. K \in Nat \ {0} /\ i \in Nat
  BY PerWorkerPos DEF Slots
<1>3. c \in Nat \ {0}
  <2> HIDE DEF K, n
  <2>1. K >= n => K \div n >= 1 /\ K \div n \in Nat
    BY <1>1, <1>2
  <2>2. c = IF K >= n THEN K \div n ELSE 1
    BY DEF ThreadChunk, K, n
  <2> HIDE DEF c
  <2> QED BY <2>1, <2>2
<1>4. StateOf(w, j) = (i \div c) * c + (i % c) + 1
  BY DEF StateOf, ChunkOf
<1> HIDE DEF c, n, K, i
<1>5. i = (i \div c) * c + (i % c)
  BY <1>2, <1>3
<1>6. i + 1 = j
  BY DEF Slots, i
<1> QED BY <1>4, <1>5, <1>6

\* A worker that computes has threads to compute on.
LEMMA ComputingThreads ==
  ASSUME IInv, EnvInv, NEW w \in Workers, NEW s \in Stages, NEW j \in Slots,
         wpc[w] = <<"compute", s>>
  PROVE  StateOf(w, j) = j
<1>1. NumThreads(w) # 0
  BY DEF EnvInv, Panicked
<1> QED BY <1>1, StateOfSlot DEF IInv

\* What a thread that answers a stage 0 request does.
LEMMA Stage0Effect ==
  ASSUME IInv, EnvInv, NEW w \in Workers, NEW j \in Slots, Stage0(w, j),
         Idx(w, j) \notin env.refused[0]
  PROVE  /\ wpc[w] = <<"compute", 0>> /\ Computing0(w) /\ wpc' = wpc
         /\ \E seed \in Seeds :
              LET com == [sub |-> Idx(w, j), seed |-> seed] IN
              /\ com \in Com
              /\ states' = [states EXCEPT ![w][j] =
                   [cb |-> Idx(w, j), com |-> com, rand |-> seed, spent |-> FALSE]]
              /\ responses' = [responses EXCEPT ![w][j] =
                   [sub |-> Idx(w, j), com |-> com, seed |-> seed]]
<1>0. TypeOK /\ CoordInv /\ SuperInv /\ ScatterInv(w) /\ GatherInv(w) /\ WorkerInv(w)
  BY DEF IInv
<1>1. wpc[w] = <<"compute", 0>> /\ Computing0(w) /\ received[w][j] = [sub |-> Idx(w, j)]
  <2>1. wpc[w] = <<"compute", 0>>
    BY DEF Stage0
  <2>2. Computing0(w)
    BY <1>0, <2>1 DEF WorkerInv, Panicked
  <2> QED BY <2>1, <2>2, IdxType DEF Computing0, Chunk, Reqs
<1> DEFINE C(seed) == [sub |-> Idx(w, j), seed |-> seed]
<1>3. PICK seed \in Seeds :
        /\ states' = [states EXCEPT ![w][j] =
             [cb |-> Idx(w, j), com |-> C(seed), rand |-> seed, spent |-> FALSE]]
        /\ responses' = [responses EXCEPT ![w][j] =
             [sub |-> Idx(w, j), com |-> C(seed), seed |-> seed]]
  <2>1. received[w][j].sub = Idx(w, j) /\ StateOf(w, j) = j
    BY <1>1, ComputingThreads DEF Stages
  <2>2. \E seed \in Seeds :
          /\ states' = [states EXCEPT ![w][StateOf(w, j)] =
               [cb |-> received[w][j].sub, com |-> [sub |-> received[w][j].sub, seed |-> seed],
                rand |-> seed, spent |-> FALSE]]
          /\ responses' = [responses EXCEPT ![w][j] =
               [sub |-> received[w][j].sub,
                com |-> [sub |-> received[w][j].sub, seed |-> seed], seed |-> seed]]
    BY <2>1 DEF Stage0
  <2> QED BY <2>1, <2>2
<1>4. C(seed) \in Com
  BY IdxType DEF Com
<1>5. wpc' = wpc
  BY <1>1 DEF Stage0
<1> QED BY <1>1, <1>3, <1>4, <1>5

\* A thread of a worker answers a stage 0 request.
LEMMA Stage0StepInv ==
  ASSUME IInv, EnvInv, UNCHANGED env, NEW w \in Workers, NEW j \in Slots, Stage0(w, j),
         Idx(w, j) \notin env.refused[0]
  PROVE  IInv'
<1>0. TypeOK /\ CoordInv /\ SuperInv /\ ScatterInv(w) /\ GatherInv(w) /\ WorkerInv(w)
  BY DEF IInv
<1>1. wpc[w] = <<"compute", 0>> /\ Computing0(w)
  BY Stage0Effect
<1>2. /\ UNCHANGED rootVars /\ wpc' = wpc /\ bufSize' = bufSize /\ received' = received
      /\ sizes' = sizes /\ data' = data /\ replies' = replies
  BY Stage0Effect DEF Stage0, wireVars
<1> DEFINE C(seed) == [sub |-> Idx(w, j), seed |-> seed]
<1>3. PICK seed \in Seeds :
        /\ C(seed) \in Com
        /\ states' = [states EXCEPT ![w][j] =
             [cb |-> Idx(w, j), com |-> C(seed), rand |-> seed, spent |-> FALSE]]
        /\ responses' = [responses EXCEPT ![w][j] =
             [sub |-> Idx(w, j), com |-> C(seed), seed |-> seed]]
  BY Stage0Effect
<1>4. Idx(w, j) \in Subcircuit /\ C(seed) \in Com
  BY <1>3, IdxType
<1>5. TypeOK'
  <2>1. states' \in [Workers -> [Slots -> WorkerState]]
    BY <1>0, <1>3, <1>4 DEF TypeOK, WorkerState
  <2>2. responses' \in [Workers -> [Slots -> Response \cup {None}]]
    BY <1>0, <1>3, <1>4 DEF TypeOK, Response, Stage0Response
  <2> QED BY <1>0, <1>2, <2>1, <2>2 DEF TypeOK, rootVars
<1>6. CoordInv'
  BY <1>0, <1>1, <1>2, StillBusy, CoordFrame
<1>7. SuperInv'
  BY <1>1, <1>2, SuperKept
<1>8. ASSUME NEW v \in Workers PROVE (ScatterInv(v) /\ GatherInv(v) /\ WorkerInv(v))'
  <2>1. CASE v # w
    <3>1. states'[v] = states[v] /\ responses'[v] = responses[v]
      BY <1>0, <1>3, <2>1 DEF TypeOK
    <3> QED BY <1>2, <3>1, OtherWorkerFrame
  <2>2. CASE v = w
    <3>1. ScatterInv(w)'  BY <1>0, <1>2, RootFrame, ScatterFrame
    <3>2. GatherInv(w)'   BY <1>0, <1>2, RootFrame, GatherFrame DEF rootVars
    <3>3. Computing0(w)'
      <4>1. replies'[0][w] = None /\ replies'[1][w] = None
            /\ received'[w] = Chunk(Reqs(0), w)'
        BY <1>1, <1>2, RootFrame DEF Computing0, Chunk, Stages
      <4>2. /\ states'[w][j] =
                 [cb |-> Idx(w, j), com |-> C(seed), rand |-> seed, spent |-> FALSE]
            /\ responses'[w][j] = [sub |-> Idx(w, j), com |-> C(seed), seed |-> seed]
        BY <1>0, <1>3 DEF TypeOK
      <4>3. responses'[w][j] = Resp0(w, j)' /\ Committed(w, j, FALSE)'
        BY <1>4, <4>2 DEF Resp0, Committed, WorkerState, Idx, PerWorker
      <4>4. ASSUME NEW k \in Slots, k # j
            PROVE  \/ responses'[w][k] = None /\ Fresh(w, k)'
                   \/ responses'[w][k] = Resp0(w, k)' /\ Committed(w, k, FALSE)'
        <5>1. states'[w][k] = states[w][k] /\ responses'[w][k] = responses[w][k]
          BY <1>0, <1>3, <4>4 DEF TypeOK
        <5> QED BY <1>1, <5>1 DEF Computing0, Fresh, Resp0, Committed
      <4> QED BY <4>1, <4>3, <4>4 DEF Computing0
    <3> QED BY <1>1, <1>2, <2>2, <3>1, <3>2, <3>3 DEF WorkerInv
  <2> QED BY <2>1, <2>2
<1> QED BY <1>5, <1>6, <1>7, <1>8 DEF IInv

\* A response to a stage 1 request is one, and not a missing response.
LEMMA Resp1Type ==
  ASSUME NEW w \in Workers, NEW j \in Slots, NEW spent \in BOOLEAN,
         Committed(w, j, spent), AbsSuper \in SuperCom
  PROVE  Resp1(w, j) \in Response /\ Resp1(w, j) # None
<1>1. Idx(w, j) \in Subcircuit /\ Idx(w, j) - 1 \in -1 .. NumSubcircuits - 1
  BY IdxType, SizesAssumption DEF Subcircuit
<1>2. CurLeaf(Idx(w, j), AbsSuper) \in Leaf
  BY <1>1 DEF CurLeaf, Leaf
<1>3. <<states[w][j].com>> \in Seq(Com) /\ states[w][j].rand \in Seeds
  BY DEF Committed, Com
<1>4. Resp1(w, j).proof \in Proof
  BY <1>1, <1>2, <1>3 DEF Resp1, Proof
<1>5. Resp1(w, j) \in Stage1Response
  BY <1>1, <1>4 DEF Resp1, Stage1Response
<1> QED BY <1>5, NoneAssumption DEF Response

\* What a thread that answers a stage 1 request does.
LEMMA Stage1Effect ==
  ASSUME IInv, EnvInv, NEW w \in Workers, NEW j \in Slots, Stage1(w, j),
         Idx(w, j) \notin env.refused[1]
  PROVE  /\ wpc[w] = <<"compute", 1>> /\ Answered0(w) /\ Computing1(w)
         /\ AbsSuper \in SuperCom /\ Committed(w, j, FALSE)
         /\ responses' = [responses EXCEPT ![w][j] = Resp1(w, j)] /\ wpc' = wpc
         /\ states' = [states EXCEPT ![w][j] = [states[w][j] EXCEPT !.spent = TRUE]]
<1>0. TypeOK /\ CoordInv /\ SuperInv /\ ScatterInv(w) /\ GatherInv(w) /\ WorkerInv(w)
  BY DEF IInv
<1>1. /\ wpc[w] = <<"compute", 1>> /\ Answered0(w) /\ Computing1(w)
      /\ received[w][j] = GenRequest1(Idx(w, j), AbsSuper)
      /\ responses[w][j] = None
  <2>1. wpc[w] = <<"compute", 1>> /\ responses[w][j] = None
    BY DEF Stage1, Ready
  <2>2. Answered0(w) /\ Computing1(w)
    BY <1>0, <2>1 DEF WorkerInv, Panicked
  <2>3. received[w][j] = Reqs(1)[Idx(w, j)]
    BY <2>2 DEF Computing1, Chunk
  <2> QED BY <2>1, <2>2, <2>3, IdxType DEF Reqs
<1>3. AbsSuper \in SuperCom /\ rpc \in AfterSize1
  BY <1>0, <1>1 DEF Computing1, CoordInv, AbsSuper, AfterPrepare1
<1>4. Committed(w, j, FALSE)
  <2>1. Committed(w, j, FALSE) \/ (Resp1(w, j) = None /\ Committed(w, j, TRUE))
    BY <1>1 DEF Computing1
  <2> QED BY <1>3, <2>1, Resp1Type
<1>5. /\ responses' = [responses EXCEPT ![w][j] = Resp1(w, j)] /\ wpc' = wpc
      /\ states' = [states EXCEPT ![w][j] = [states[w][j] EXCEPT !.spent = TRUE]]
  <2>0. StateOf(w, j) = j
    BY <1>1, ComputingThreads DEF Stages
  <2>1. /\ states[w][j].cb # None /\ states[w][j].cb = received[w][j].sub
        /\ received[w][j].sub \notin env.refused[1]
    <3>1. states[w][j].cb = Idx(w, j) /\ received[w][j].sub = Idx(w, j)
      BY <1>1, <1>4 DEF Committed, GenRequest1
    <3> QED BY <3>1, IdxType, NoneAssumption
  <2>2. [sub |-> received[w][j].sub,
         proof |-> [sub |-> states[w][j].cb, ds |-> <<states[w][j].com>>,
                    rand |-> states[w][j].rand, cur |-> received[w][j].cur,
                    next |-> received[w][j].next, root |-> received[w][j].root]]
        = Resp1(w, j)
    BY <1>1, <1>4 DEF Committed, GenRequest1, Resp1
  <2> QED BY <2>0, <2>1, <2>2 DEF Stage1, Spend
<1> QED BY <1>1, <1>3, <1>4, <1>5

\* A thread of a worker answers a stage 1 request.
LEMMA Stage1StepInv ==
  ASSUME IInv, EnvInv, UNCHANGED env, NEW w \in Workers, NEW j \in Slots, Stage1(w, j),
         Idx(w, j) \notin env.refused[1]
  PROVE  IInv'
<1>0. TypeOK /\ CoordInv /\ SuperInv /\ ScatterInv(w) /\ GatherInv(w) /\ WorkerInv(w)
  BY DEF IInv
<1>1. wpc[w] = <<"compute", 1>> /\ Answered0(w) /\ Computing1(w)
  BY Stage1Effect
<1>2. /\ UNCHANGED rootVars /\ bufSize' = bufSize /\ received' = received
      /\ sizes' = sizes /\ data' = data /\ replies' = replies
      /\ states' = [states EXCEPT ![w][j] = [states[w][j] EXCEPT !.spent = TRUE]]
  BY Stage1Effect DEF Stage1, wireVars
<1>3. AbsSuper \in SuperCom
  BY Stage1Effect
<1>4. Committed(w, j, FALSE)
  BY Stage1Effect
<1>5. responses' = [responses EXCEPT ![w][j] = Resp1(w, j)] /\ wpc' = wpc
  BY Stage1Effect
<1>6. \A v \in Workers, k \in Slots :
        states'[v][k] = IF v = w /\ k = j THEN [states[w][j] EXCEPT !.spent = TRUE]
                                          ELSE states[v][k]
  BY <1>0, <1>2 DEF TypeOK
<1>7. /\ Committed(w, j, TRUE)' /\ Resp0(w, j)' = Resp0(w, j) /\ Resp1(w, j)' = Resp1(w, j)
      /\ \A v \in Workers, k \in Slots : states'[v][k].com = states[v][k].com
  <2>1. AbsSuper' = AbsSuper
    BY <1>2, RootFrame
  <2>2. states[w][j] \in WorkerState
    BY <1>0 DEF TypeOK
  <2>3. states'[w][j] = [states[w][j] EXCEPT !.spent = TRUE]
    BY <1>6
  <2>4. /\ states'[w][j].cb = states[w][j].cb /\ states'[w][j].com = states[w][j].com
        /\ states'[w][j].rand = states[w][j].rand /\ states'[w][j].spent = TRUE
        /\ states'[w][j] \in WorkerState
    BY <2>2, <2>3 DEF WorkerState
  <2>5. Committed(w, j, TRUE)'
    BY <1>4, <2>4 DEF Committed, Idx, PerWorker
  <2>6. Resp0(w, j)' = Resp0(w, j)
    BY <2>4 DEF Resp0
  <2>7. Resp1(w, j)' = Resp1(w, j)
    BY <2>1, <2>4 DEF Resp1, CurLeaf
  <2> QED BY <1>6, <2>4, <2>5, <2>6, <2>7
<1>8. TypeOK'
  <2>1. states' \in [Workers -> [Slots -> WorkerState]]
    BY <1>0, <1>2, <1>7 DEF TypeOK, Committed
  <2>2. responses' \in [Workers -> [Slots -> Response \cup {None}]]
    BY <1>0, <1>3, <1>4, <1>5, Resp1Type DEF TypeOK
  <2> QED BY <1>0, <1>2, <1>5, <2>1, <2>2 DEF TypeOK, rootVars
<1>9. CoordInv'
  BY <1>0, <1>1, <1>2, StillBusy, CoordFrame
<1>10. SuperInv'
  BY <1>2, <1>7, SlotType, SuperKept
<1>11. ASSUME NEW v \in Workers PROVE (ScatterInv(v) /\ GatherInv(v) /\ WorkerInv(v))'
  <2>1. CASE v # w
    <3>1. states'[v] = states[v] /\ responses'[v] = responses[v]
      BY <1>0, <1>2, <1>5, <2>1 DEF TypeOK
    <3> QED BY <1>2, <1>5, <3>1, OtherWorkerFrame
  <2>2. CASE v = w
    <3>1. ScatterInv(w)'  BY <1>0, <1>2, RootFrame, ScatterFrame
    <3>2. GatherInv(w)'   BY <1>0, <1>2, RootFrame, GatherFrame DEF rootVars
    <3>3. ASSUME NEW k \in Slots, k # j
          PROVE  /\ responses'[w][k] = responses[w][k] /\ states'[w][k] = states[w][k]
                 /\ \A b \in BOOLEAN : Committed(w, k, b)' <=> Committed(w, k, b)
                 /\ Resp0(w, k)' = Resp0(w, k) /\ Resp1(w, k)' = Resp1(w, k)
      <4>1. responses'[w][k] = responses[w][k] /\ states'[w][k] = states[w][k]
        BY <1>0, <1>5, <1>6, <3>3 DEF TypeOK
      <4> QED BY <1>2, <4>1, RootFrame DEF Committed, Resp0, Resp1, CurLeaf
    <3>4. Answered0(w)'
      <4>1. \A k \in Slots : Resp0(w, k)' = Resp0(w, k)
        BY <1>7, <3>3
      <4>2. \A k \in Slots : \E b \in BOOLEAN : Committed(w, k, b)'
        BY <1>1, <1>7, <3>3 DEF Answered0
      <4> QED BY <1>1, <1>2, <4>1, <4>2 DEF Answered0
    <3>5. Computing1(w)'
      <4>1. replies'[1][w] = None /\ rpc' \in AfterSize1
            /\ received'[w] = Chunk(Reqs(1), w)'
        BY <1>1, <1>2, RootFrame DEF Computing1, Chunk, Stages, rootVars
      <4>2. responses'[w][j] = Resp1(w, j)' /\ Committed(w, j, TRUE)'
        BY <1>0, <1>5, <1>7 DEF TypeOK
      <4>3. \A k \in Slots : k # j =>
              \/ responses'[w][k] = None /\ Committed(w, k, FALSE)'
              \/ responses'[w][k] = Resp1(w, k)' /\ Committed(w, k, TRUE)'
        BY <1>1, <3>3 DEF Computing1
      <4> QED BY <4>1, <4>2, <4>3 DEF Computing1
    <3> QED BY <1>1, <1>5, <2>2, <3>1, <3>2, <3>4, <3>5 DEF WorkerInv
  <2> QED BY <2>1, <2>2
<1> QED BY <1>8, <1>9, <1>10, <1>11 DEF IInv

\* What a thread does on a subcircuit the prover refuses.
LEMMA RefusedEffect ==
  ASSUME IInv, NEW s \in Stages, NEW w \in Workers, NEW j \in Slots,
         \/ s = 0 /\ Stage0(w, j)
         \/ s = 1 /\ Stage1(w, j),
         Idx(w, j) \in env.refused[s]
  PROVE  /\ wpc[w] = <<"compute", s>> /\ wpc' = [wpc EXCEPT ![w] = Panicked(s)]
         /\ UNCHANGED <<rootVars, bufSize, received, states, responses, wireVars>>
<1>1. wpc[w] = <<"compute", s>>
  BY DEF Stage0, Stage1
<1>2. received[w][j].sub = Idx(w, j)
  <2>1. received[w] = Chunk(Reqs(s), w)
    <3>1. IF s = 0 THEN Computing0(w) ELSE Computing1(w)
      BY <1>1 DEF IInv, WorkerInv, Panicked, Stages
    <3> QED BY <3>1 DEF Computing0, Computing1, Stages
  <2>2. received[w][j] = Reqs(s)[Idx(w, j)]
    BY <2>1 DEF Chunk
  <2> QED BY <2>2, IdxType DEF Reqs, GenRequest1
<1> QED BY <1>1, <1>2 DEF Stage0, Stage1

\* A thread's panic ends its worker.
LEMMA RefusedInv ==
  ASSUME IInv, UNCHANGED env, NEW s \in Stages, NEW w \in Workers, NEW j \in Slots,
         \/ s = 0 /\ Stage0(w, j)
         \/ s = 1 /\ Stage1(w, j),
         Idx(w, j) \in env.refused[s]
  PROVE  IInv'
BY RefusedEffect, PanicInv

\* A worker sends its responses.
LEMMA SendResponsesInv ==
  ASSUME IInv, UNCHANGED env, NEW s \in Stages, NEW w \in Workers, SendResponses(s, w)
  PROVE  IInv'
<1>0. TypeOK /\ CoordInv /\ SuperInv /\ ScatterInv(w) /\ GatherInv(w) /\ WorkerInv(w)
  BY DEF IInv
<1>1. /\ wpc[w] = <<"compute", s>> /\ \A j \in Slots : responses[w][j] # None
      /\ replies' = [replies EXCEPT ![s][w] = responses[w]]
      /\ wpc' = [wpc EXCEPT ![w] = IF s = 0 THEN <<"size", 1>> ELSE <<"done", 1>>]
      /\ UNCHANGED rootVars /\ bufSize' = bufSize /\ received' = received
      /\ states' = states /\ responses' = responses /\ sizes' = sizes /\ data' = data
  BY DEF SendResponses
<1>2. /\ \A t \in Stages, v \in Workers :
           replies'[t][v] = IF t = s /\ v = w THEN responses[w] ELSE replies[t][v]
      /\ \A v \in Workers : v # w => wpc'[v] = wpc[v]
      /\ wpc'[w] = IF s = 0 THEN <<"size", 1>> ELSE <<"done", 1>>
  BY <1>0, <1>1 DEF TypeOK
<1>3. \A k \in Slots : /\ \A b \in BOOLEAN : Committed(w, k, b)' <=> Committed(w, k, b)
                       /\ Resp0(w, k)' = Resp0(w, k) /\ Resp1(w, k)' = Resp1(w, k)
  BY <1>1, RootFrame DEF Committed, Resp0, Resp1, CurLeaf
<1>4. TypeOK'
  <2>1. responses[w] \in Reply
    BY <1>0, <1>1 DEF TypeOK, Reply
  <2>2. replies' \in [Stages -> [Workers -> Reply \cup {None}]]
    BY <1>0, <1>1, <2>1 DEF TypeOK
  <2> QED BY <1>0, <1>1, <2>2 DEF TypeOK, rootVars, WorkerPc, Stages
<1>5. CoordInv'
  BY <1>0, <1>1, StillBusy, CoordFrame
<1>6. SuperInv'
  BY <1>0, <1>1, RootFrame, SuperInvFrame DEF rootVars
<1>7. ~GatherServed(s, w)
  <2>1. IF s = 0 THEN Computing0(w) ELSE Computing1(w)
    BY <1>0, <1>1 DEF WorkerInv, Panicked, Stages
  <2>2. replies[s][w] = None
    BY <2>1 DEF Computing0, Computing1, Stages
  <2> QED BY <1>0, <2>2 DEF GatherInv, Stages
<1>8. responses[w] = [j \in Slots |-> responses[w][j]]
  BY <1>0 DEF TypeOK
<1>9. ASSUME NEW v \in Workers PROVE (ScatterInv(v) /\ GatherInv(v) /\ WorkerInv(v))'
  <2>1. CASE v # w
    BY <1>1, <1>2, <2>1, OtherWorkerFrame
  <2>2. CASE v = w
    <3>1. ScatterInv(w)'  BY <1>0, <1>1, RootFrame, ScatterFrame
    <3>2. GatherInv(w)'
      <4>1. \A t \in Stages : GatherServed(t, w)' <=> GatherServed(t, w)
        BY <1>1, RootFrame
      <4>2. gathered'[w] = gathered[w]
        BY <1>1 DEF rootVars
      <4>3. CASE s = 0
        <5>1. ~GatherServed(1, w)
          BY <1>7, <4>3 DEF GatherServed, AfterGather0, AfterPrepare1, AfterSize1, AfterData1,
                            AfterGather1, Panicked
        <5> QED BY <1>0, <1>7, <4>1, <4>3, <5>1 DEF GatherInv, Stages
      <4>4. CASE s = 1
        <5>1. replies'[0][w] = replies[0][w]
          BY <1>2, <4>4 DEF Stages
        <5> QED BY <1>0, <1>7, <4>1, <4>2, <4>4, <5>1 DEF GatherInv, Stages
      <4> QED BY <4>3, <4>4 DEF Stages
    <3>3. WorkerInv(w)'
      <4>1. CASE s = 0
        <5>1. Computing0(w)
          BY <1>0, <1>1, <4>1 DEF WorkerInv, Panicked
        <5>2. /\ \A j \in Slots : responses[w][j] = Resp0(w, j) /\ Committed(w, j, FALSE)
              /\ replies'[0][w] = responses[w] /\ replies'[1][w] = None
          <6>1. \A j \in Slots : responses[w][j] = Resp0(w, j) /\ Committed(w, j, FALSE)
            BY <1>1, <5>1 DEF Computing0
          <6>2. replies'[0][w] = responses[w] /\ replies'[1][w] = replies[1][w]
            BY <1>2, <4>1 DEF Stages
          <6> QED BY <5>1, <6>1, <6>2 DEF Computing0
        <5>3. replies'[0][w] = [j \in Slots |-> Resp0(w, j)']
          BY <1>3, <1>8, <5>2
        <5>4. Answered0(w)'  BY <1>3, <5>2, <5>3 DEF Answered0
        <5>5. Idle1(w)'      BY <1>3, <5>2 DEF Idle1
        <5> QED BY <1>2, <4>1, <5>4, <5>5 DEF WorkerInv
      <4>2. CASE s = 1
        <5>1. Computing1(w) /\ Answered0(w)
          BY <1>0, <1>1, <4>2 DEF WorkerInv, Panicked
        <5>2. /\ \A j \in Slots : responses[w][j] = Resp1(w, j) /\ Committed(w, j, TRUE)
              /\ replies'[1][w] = responses[w] /\ replies'[0][w] = replies[0][w]
          <6>1. \A j \in Slots : responses[w][j] = Resp1(w, j) /\ Committed(w, j, TRUE)
            BY <1>1, <5>1 DEF Computing1
          <6>2. replies'[1][w] = responses[w] /\ replies'[0][w] = replies[0][w]
            BY <1>2, <4>2 DEF Stages
          <6> QED BY <6>1, <6>2
        <5>3. /\ replies'[1][w] = [j \in Slots |-> Resp1(w, j)']
              /\ replies'[0][w] = [j \in Slots |-> Resp0(w, j)']
          BY <1>3, <1>8, <5>1, <5>2 DEF Answered0
        <5>4. Answered0(w)'  BY <1>3, <5>2, <5>3 DEF Answered0
        <5>5. Answered1(w)'
          BY <1>1, <1>3, <5>1, <5>2, <5>3 DEF Answered1, Computing1, rootVars
        <5> QED BY <1>2, <4>2, <5>4, <5>5 DEF WorkerInv
      <4> QED BY <4>1, <4>2 DEF Stages
    <3> QED BY <2>2, <3>1, <3>2, <3>3
  <2> QED BY <2>1, <2>2
<1> QED BY <1>4, <1>5, <1>6, <1>9 DEF IInv

-----------------------------------------------------------------------------
(* The invariant.                                                           *)

\* The invariant holds when the ranks start.
LEMMA InitIInv == Init => IInv
<1> SUFFICES ASSUME Init PROVE IInv
  OBVIOUS
<1>1. TypeOK
  BY DEF Init, TypeOK, RootPc, WorkerPc, Stages, WorkerState
<1>2. CoordInv
  <2>1. Workers # {}
    <3>1. 1 \in Workers
      BY SizesAssumption DEF Workers
    <3> QED BY <3>1
  <2>2. rpc = <<"prepare", 0>>
    BY DEF Init
  <2>3. /\ rpc \in RootPc
        /\ rpc \notin AfterPrepare0 /\ rpc \notin AfterPrepare1
    BY <2>2 DEF RootPc, Panicked, Stages, AfterPrepare0, AfterSize0, AfterData0,
           AfterGather0, AfterPrepare1, AfterSize1, AfterData1, AfterGather1, Panicked
  <2>4. rpc # <<"done", 1>>
    BY <2>2
  <2> QED BY <2>1, <2>3, <2>4 DEF Init, CoordInv
<1>3. SuperInv
  BY DEF Init, SuperInv, AfterPrepare1, AfterSize1, AfterData1, AfterGather1, Panicked
<1>4. ASSUME NEW w \in Workers PROVE ScatterInv(w) /\ GatherInv(w) /\ WorkerInv(w)
  <2>1. \A s \in Stages : ~SizeServed(s, w) /\ ~DataServed(s, w) /\ ~GatherServed(s, w)
    <3>1. rpc = <<"prepare", 0>>
      BY DEF Init
    <3> QED BY <3>1 DEF SizeServed, DataServed, GatherServed, AfterSize0, AfterSize1,
              AfterData0, AfterData1, AfterGather0, AfterGather1, Panicked, AfterPrepare1
  <2>2. ScatterInv(w)
    BY <2>1 DEF Init, ScatterInv
  <2>3. GatherInv(w)
    BY <2>1 DEF GatherInv, Stages
  <2>4. Idle0(w)
    <3>1. replies[0][w] = None /\ replies[1][w] = None
      <4>1. 0 \in Stages /\ 1 \in Stages
        BY DEF Stages
      <4> QED BY <4>1 DEF Init
    <3>2. \A j \in Slots : Fresh(w, j)
      BY DEF Init, Fresh
    <3> QED BY <3>1, <3>2 DEF Idle0
  <2>5. WorkerInv(w)
    BY <2>4 DEF Init, WorkerInv
  <2> QED BY <2>2, <2>3, <2>5
<1> QED BY <1>1, <1>2, <1>3, <1>4 DEF IInv

\* A step that changes nothing preserves the invariant.
LEMMA StutterIInv == ASSUME IInv, UNCHANGED vars PROVE IInv'
<1>0. UNCHANGED rootVars /\ UNCHANGED workerVars /\ UNCHANGED wireVars
  BY DEF vars
<1>1. TypeOK'
  BY <1>0 DEF IInv, TypeOK, vars, rootVars, workerVars, wireVars
<1>2. \A w \in Workers, j \in Slots : Resp1(w, j)' = Resp1(w, j)
  BY <1>0, RootFrame DEF Resp1, CurLeaf, workerVars
<1>3. CoordInv'
  <2>1. \A i \in Subcircuit : Resp1(WorkerOf(i), SlotOf(i))' = Resp1(WorkerOf(i), SlotOf(i))
    BY <1>2, SlotType
  <2>2. \A s \in Stages : Reqs(s)' = Reqs(s)
    BY <1>0, RootFrame
  <2> QED BY <1>0, <2>1, <2>2 DEF IInv, CoordInv, rootVars, Stages
<1>4. SuperInv'
  BY <1>0, RootFrame, SuperInvFrame DEF IInv, rootVars, workerVars
<1>5. ASSUME NEW w \in Workers PROVE (ScatterInv(w) /\ GatherInv(w) /\ WorkerInv(w))'
  BY <1>0, OtherWorkerFrame DEF workerVars, wireVars
<1> QED BY <1>1, <1>3, <1>4, <1>5 DEF IInv

\* Every step preserves the invariant.
LEMMA NextIInv == ASSUME IInv, EnvInv, [Next]_vars PROVE IInv'
<1>1. CASE UNCHANGED vars
  BY <1>1, StutterIInv
<1>2. CASE Coordinator
  BY <1>2, CoordStage0Inv, CoordStage1Inv, CoordAggregateInv, ScatterSizeInv,
     ScatterDataInv, GatherInvStep DEF Coordinator
<1>3. ASSUME NEW w \in Workers, Worker(w) PROVE IInv'
  <2>1. ASSUME NEW j \in Slots, Stage0(w, j) PROVE IInv'
    BY <1>3, <2>1, Stage0StepInv, RefusedInv DEF Worker, Stages
  <2>2. ASSUME NEW j \in Slots, Stage1(w, j) PROVE IInv'
    BY <1>3, <2>2, Stage1StepInv, RefusedInv DEF Worker, Stages
  <2> QED BY <1>3, <2>1, <2>2, ReceiveSizeInv, ReceiveDataInv, ReceiveDataPanic,
             SendResponsesInv DEF Worker, Compute
<1>4. CASE Terminated
  BY <1>4, StutterIInv DEF Terminated
<1> QED BY <1>1, <1>2, <1>3, <1>4 DEF Next

-----------------------------------------------------------------------------
(* Who panics.                                                              *)

\* No rank has panicked when the ranks start.
LEMMA InitEnvInv == Init => EnvInv
BY DEF Init, EnvInv, Panicked

\* The coordinator's calls fail over a proof that does not verify, and only in a
\* debug build; none of its other checks does.
LEMMA CoordinatorPanic ==
  ASSUME IInv, NEW p \in Stages, rpc # Panicked(p), Coordinator, rpc' = Panicked(p)
  PROVE  p = 1 /\ env.debug /\ env.misfit # {}
<1>1. ~CoordStage0
  BY DEF CoordStage0, Panicked
<1>2. ~CoordStage1
  <2> SUFFICES ASSUME rpc = <<"prepare", 1>>, ~stage0State PROVE FALSE
    BY DEF CoordStage1, Panicked
  <2>1. rpc \in AfterPrepare0 \ AfterPrepare1
    BY DEF AfterPrepare0, AfterSize0, AfterData0, AfterGather0, AfterPrepare1,
           AfterSize1, AfterData1, AfterGather1, Panicked
  <2> QED BY <2>1 DEF IInv, CoordInv
<1>3. ASSUME NEW s \in Stages, NEW w \in Workers, ScatterSize(s, w) \/ ScatterData(s, w)
      PROVE  FALSE
  BY <1>3 DEF ScatterSize, ScatterData, Serve, Panicked
<1>4. ASSUME NEW s \in Stages, NEW w \in Workers, Gather(s, w)
      PROVE  FALSE
  BY <1>4, GatherFits DEF Gather, Serve, Panicked
<1>5. CASE CoordAggregate
  <2> DEFINE proofs == [i \in Subcircuit |-> SortBySubcircuit(Flattened)[i].proof]
  <2>1. rpc = <<"aggregate", 1>>
    BY <1>5 DEF CoordAggregate
  <2>2. /\ stage1State # None /\ DsMatch(stage1State, proofs)
        /\ \A i \in Subcircuit : i \notin env.misfit => EquationHolds(stage1State, proofs[i], i)
    BY <2>1, AggregateReady
  <2>3. ~(env.debug => \A i \in Subcircuit : EquationHolds(stage1State, proofs[i], i))
    BY <1>5, <2>2 DEF CoordAggregate, Panicked
  <2>4. p = 1
    BY <1>5 DEF CoordAggregate, Panicked, Stages
  <2> HIDE DEF proofs
  <2> QED BY <2>2, <2>3, <2>4
<1> QED BY <1>1, <1>2, <1>3, <1>4, <1>5 DEF Coordinator

\* A worker panics only where it has no thread to compute on, at its first
\* requests, or where the prover refuses a subcircuit.
LEMMA WorkerPanic ==
  ASSUME IInv, EnvInv, NEW w \in Workers, Worker(w)
  PROVE  /\ \A v \in Workers : v # w => wpc'[v] = wpc[v]
         /\ \A s \in Stages : wpc'[w] = Panicked(s) =>
              \/ wpc[w] = Panicked(s)
              \/ s = 0 /\ NumThreads(w) = 0
              \/ \E j \in Slots : Idx(w, j) \in env.refused[s]
         /\ NumThreads(w) = 0 => wpc'[w] \in {<<"size", 0>>, <<"data", 0>>, Panicked(0)}
<1>0. TypeOK /\ ScatterInv(w) /\ WorkerInv(w) /\ DOMAIN wpc = Workers
  BY DEF IInv, TypeOK
<1>1. NumThreads(w) = 0 => wpc[w] \in {<<"size", 0>>, <<"data", 0>>, Panicked(0)}
  BY DEF EnvInv
<1>2. CASE \E s \in Stages : ReceiveSize(s, w)
  <2>1. PICK s \in Stages :
          wpc[w] = <<"size", s>> /\ wpc' = [wpc EXCEPT ![w] = <<"data", s>>]
    BY <1>2 DEF ReceiveSize
  <2> QED BY <1>0, <1>1, <2>1 DEF Panicked, Stages
<1>3. CASE \E s \in Stages : ReceiveData(s, w)
  <2>1. PICK s \in Stages : ReceiveData(s, w)
    BY <1>3
  <2>2. wpc[w] = <<"data", s>> /\ data[s][w] # None
    BY <2>1 DEF ReceiveData
  <2>3. data[s][w] = [size |-> ChunkSize(s, w), reqs |-> Chunk(Reqs(s), w)]
    BY <1>0, <2>2 DEF ScatterInv
  <2>4. bufSize[w] = ChunkSize(s, w)
    BY <1>0, <2>2 DEF WorkerInv, Stages, Panicked
  <2>5. wpc' = [wpc EXCEPT ![w] = IF NumThreads(w) # 0 THEN <<"compute", s>> ELSE Panicked(s)]
    BY <2>1, <2>3, <2>4 DEF ReceiveData
  <2> QED BY <1>0, <1>1, <2>2, <2>5 DEF Panicked, Stages
<1>4. CASE \E s \in Stages : SendResponses(s, w)
  <2>1. PICK s \in Stages :
          /\ wpc[w] = <<"compute", s>>
          /\ wpc' = [wpc EXCEPT ![w] = IF s = 0 THEN <<"size", 1>> ELSE <<"done", 1>>]
    BY <1>4 DEF SendResponses
  <2> QED BY <1>0, <1>1, <2>1 DEF Panicked, Stages
<1>5. ASSUME NEW s \in Stages, NEW j \in Slots,
             (s = 0 /\ Stage0(w, j)) \/ (s = 1 /\ Stage1(w, j))
      PROVE  /\ wpc[w] = <<"compute", s>>
             /\ \/ wpc' = wpc
                \/ wpc' = [wpc EXCEPT ![w] = Panicked(s)] /\ Idx(w, j) \in env.refused[s]
  <2>1. CASE Idx(w, j) \in env.refused[s]
    BY <1>5, <2>1, RefusedEffect
  <2>2. CASE Idx(w, j) \notin env.refused[s] /\ s = 0
    BY <1>5, <2>2, Stage0Effect
  <2>3. CASE Idx(w, j) \notin env.refused[s] /\ s = 1
    <3>1. Stage1(w, j) /\ Idx(w, j) \notin env.refused[1]
      BY <1>5, <2>3
    <3>2. wpc[w] = <<"compute", 1>> /\ wpc' = wpc
      BY <3>1, Stage1Effect
    <3> QED BY <2>3, <3>2
  <2> QED BY <2>1, <2>2, <2>3 DEF Stages
<1>6. CASE Compute(w)
  <2>1. PICK s \in Stages, j \in Slots :
          /\ wpc[w] = <<"compute", s>>
          /\ \/ wpc' = wpc
             \/ wpc' = [wpc EXCEPT ![w] = Panicked(s)] /\ Idx(w, j) \in env.refused[s]
    <3>1. PICK j \in Slots : Stage0(w, j) \/ Stage1(w, j)
      BY <1>6 DEF Compute
    <3>2. 0 \in Stages /\ 1 \in Stages
      BY DEF Stages
    <3>3. CASE Stage0(w, j)
      BY <1>5, <3>2, <3>3
    <3>4. CASE Stage1(w, j)
      BY <1>5, <3>2, <3>4
    <3> QED BY <3>1, <3>3, <3>4
  <2> QED BY <1>0, <1>1, <2>1 DEF Panicked, Stages
<1> QED BY <1>2, <1>3, <1>4, <1>6 DEF Worker

\* Every step preserves what is known of the panics.
LEMMA NextEnvInv == ASSUME IInv, EnvInv, [Next]_vars PROVE EnvInv'
<1>1. CASE UNCHANGED vars
  BY <1>1 DEF vars, rootVars, workerVars, EnvInv, NumThreads, Panicked, Idx
<1>2. CASE Coordinator
  <2>1. env' = env /\ wpc' = wpc
    BY <1>2 DEF Coordinator, CoordStage0, CoordStage1, CoordAggregate, ScatterSize,
                ScatterData, Gather, workerVars
  <2>2. \A s \in Stages : rpc' = Panicked(s) => s = 1 /\ env.debug /\ env.misfit # {}
    BY <1>2, CoordinatorPanic DEF EnvInv
  <2> QED BY <2>1, <2>2 DEF EnvInv, NumThreads, Panicked, Idx
<1>3. ASSUME NEW w \in Workers, Worker(w) PROVE EnvInv'
  <2>1. env' = env /\ rpc' = rpc
    BY <1>3 DEF Worker, Compute, ReceiveSize, ReceiveData, SendResponses, Stage0, Stage1,
                rootVars
  <2>2. /\ \A v \in Workers : NumThreads(v)' = NumThreads(v)
        /\ \A s \in Stages : Panicked(s)' = Panicked(s)
    BY <2>1 DEF NumThreads, Panicked
  <2>3. ASSUME NEW v \in Workers
        PROVE  /\ \A s \in Stages : wpc'[v] = Panicked(s) =>
                    \/ s = 0 /\ NumThreads(v) = 0
                    \/ \E j \in Slots : Idx(v, j) \in env.refused[s]
               /\ NumThreads(v) = 0 => wpc'[v] \in {<<"size", 0>>, <<"data", 0>>, Panicked(0)}
    BY <1>3, WorkerPanic DEF EnvInv
  <2>4. \A s \in Stages : rpc' = Panicked(s) => s = 1 /\ env.debug /\ env.misfit # {}
    BY <2>1 DEF EnvInv
  <2> QED BY <2>1, <2>2, <2>3, <2>4 DEF EnvInv, Idx, Stages
<1>4. CASE Terminated
  BY <1>1, <1>4 DEF Terminated
<1> QED BY <1>1, <1>2, <1>3, <1>4 DEF Next

\* In every reachable state of a proving run of node.rs, whatever the number of
\* workers, of threads and of subcircuits, and whatever the build, each node
\* knows what the invariant says it knows.
THEOREM MpiInvariant == Spec => [](IInv /\ EnvInv)
<1>1. Init => IInv /\ EnvInv
  BY InitIInv, InitEnvInv
<1>2. (IInv /\ EnvInv) /\ [Next]_vars => (IInv /\ EnvInv)'
  BY NextIInv, NextEnvInv
<1> QED BY <1>1, <1>2, PTL DEF Spec

\* The variables of the nodes keep their types.
THEOREM MpiTypeCorrect == Spec => []TypeOK
<1>1. IInv => TypeOK
  BY DEF IInv
<1> QED BY <1>1, MpiInvariant, PTL

\* A worker panics only where its rayon pool has no thread to spare for the
\* requests (node.rs:651) or where the prover refuses a subcircuit it was dealt,
\* and at stage 0 takes the run with it before the challenges; the coordinator
\* only where a debug build checks a proof that does not verify
\* (aggregation.rs:209, 253, 278).  No other check of a run fails: not the
\* unwraps of the stage states, the worker's assertion (worker.rs:175), the
\* lengths of the scatters' and gathers' buffers, nor the aggregate's last
\* assertion (aggregation.rs:348).
THEOREM MpiPanicsExplained == Spec => []PanicsExplained
<1>1. ASSUME IInv, EnvInv PROVE PanicsExplained
  <2>1. ASSUME rpc[1] = "panicked" PROVE env.debug /\ env.misfit # {} /\ aggregate = None
    <3>1. PICK s \in Stages : rpc = Panicked(s)
      BY <1>1, <2>1 DEF IInv, TypeOK, RootPc, Panicked
    <3>2. rpc = Panicked(1) /\ env.debug /\ env.misfit # {}
      BY <1>1, <3>1 DEF EnvInv
    <3>3. rpc \in AfterPrepare1 \ {<<"done", 1>>}
      BY <3>2 DEF AfterPrepare1, AfterSize1, AfterData1, AfterGather1, Panicked
    <3> QED BY <1>1, <3>2, <3>3 DEF IInv, CoordInv
  <2>2. ASSUME NEW w \in Workers, NEW s \in Stages, wpc[w] = Panicked(s)
        PROVE  /\ \/ s = 0 /\ env.parallel /\ env.pool[w] = 1
                  \/ \E j \in Slots : Idx(w, j) \in env.refused[s]
               /\ s = 0 => stage1State = None
               /\ aggregate = None
    <3>1. NumThreads(w) = 0 => env.parallel /\ env.pool[w] = 1
      <4>1. env.pool[w] \in Nat
        BY <1>1, EnvsAssumption DEF IInv, TypeOK, Env
      <4> QED BY <4>1 DEF NumThreads
    <3>2. \/ s = 0 /\ env.parallel /\ env.pool[w] = 1
          \/ \E j \in Slots : Idx(w, j) \in env.refused[s]
      BY <1>1, <2>2, <3>1 DEF EnvInv
    <3>3. aggregate = None
      <4>1. wpc[w] # <<"done", 1>>
        BY <2>2 DEF Panicked
      <4>2. rpc # <<"done", 1>>
        BY <1>1, <4>1, StillBusy
      <4> QED BY <1>1, <4>2 DEF IInv, CoordInv
    <3>4. ASSUME s = 0 PROVE stage1State = None
      <4>1. rpc \notin AfterPrepare1
        BY <1>1, <2>2, <3>4, StillBusy
      <4> QED BY <1>1, <4>1 DEF IInv, CoordInv
    <3> QED BY <3>2, <3>3, <3>4
  <2> QED BY <2>1, <2>2 DEF PanicsExplained
<1>2. IInv /\ EnvInv => PanicsExplained
  BY <1>1
<1> QED BY <1>2, MpiInvariant, PTL

-----------------------------------------------------------------------------
(* What the invariant says about the challenges and the aggregate.          *)

\* Once the challenges are derived every worker has answered stage 0.
LEMMA ChallengesAnswered ==
  ASSUME IInv, rpc \in AfterPrepare1, NEW w \in Workers
  PROVE  Answered0(w)
<1>1. ~Idle0(w) /\ ~Computing0(w)
  <2>1. GatherServed(0, w)
    BY DEF GatherServed, AfterGather0
  <2> QED BY <2>1 DEF IInv, GatherInv, Idle0, Computing0
<1> QED BY <1>1 DEF IInv, WorkerInv

\* When the coordinator is done every worker has answered stage 1.
LEMMA DoneAnswered ==
  ASSUME IInv, rpc = <<"done", 1>>, NEW w \in Workers
  PROVE  Answered1(w)
<1>1. wpc[w] = <<"done", 1>>
  BY StillBusy
<1> QED BY <1>1 DEF IInv, WorkerInv, Panicked

\* The super-commitment holds the commitment made for each subcircuit, by the
\* worker it is dealt to.
LEMMA SuperHolds ==
  ASSUME IInv, rpc \in AfterPrepare1, NEW w \in Workers, NEW j \in Slots
  PROVE  AbsSuper[Idx(w, j)] = states[w][j].com
BY IdxType, IdxInverse DEF IInv, SuperInv

\* The Fiat-Shamir challenges are derived from all the commitments and the
\* proofs will open those (process_stage0_responses, process_stage1_request).
THEOREM MpiChallengesBind == Spec => []ChallengesBindCommitments
<1>1. IInv => ChallengesBindCommitments
  <2> SUFFICES ASSUME IInv, stage1State # None, NEW w \in Workers, NEW j \in Slots
               PROVE  /\ states[w][j].com = stage1State[Idx(w, j)]
                      /\ states[w][j].com.seed = states[w][j].rand
    BY DEF ChallengesBindCommitments
  <2>1. rpc \in AfterPrepare1 /\ AbsSuper = stage1State
    <3>1. rpc \in AfterPrepare1 /\ rpc # <<"done", 1>>
      BY DEF IInv, CoordInv
    <3> QED BY <3>1 DEF IInv, CoordInv, AbsSuper
  <2>2. \E b \in BOOLEAN : Committed(w, j, b)
    BY <2>1, ChallengesAnswered DEF Answered0
  <2> QED BY <2>1, <2>2, SuperHolds DEF Committed
<1> QED BY <1>1, MpiInvariant, PTL

\* What the aggregate holds for a subcircuit.
LEMMA AggregateProofs ==
  ASSUME IInv, aggregate # None, NEW i \in Subcircuit
  PROVE  /\ AbsSuper = aggregate.super
         /\ aggregate.proofs[i].sub = i /\ aggregate.proofs[i].next = i
         /\ aggregate.proofs[i].ds = <<AbsSuper[i]>>
         /\ aggregate.proofs[i].rand = AbsSuper[i].seed
         /\ aggregate.proofs[i].root = AbsSuper
         /\ aggregate.proofs[i].cur.pos = i - 1
         /\ aggregate.proofs[i].cur.chal = AbsSuper
<1> DEFINE w == WorkerOf(i)  j == SlotOf(i)
<1>1. w \in Workers /\ j \in Slots /\ Idx(w, j) = i
  BY SlotType
<1>2. rpc = <<"done", 1>>
  BY DEF IInv, CoordInv
<1>3. rpc \in AfterPrepare1
  BY <1>2 DEF AfterPrepare1, AfterSize1, AfterData1, AfterGather1, Panicked
<1>4. /\ AbsSuper = aggregate.super
      /\ aggregate.proofs = [k \in Subcircuit |-> Resp1(WorkerOf(k), SlotOf(k)).proof]
  BY <1>2 DEF IInv, CoordInv, AbsSuper
<1>5. Committed(w, j, TRUE) /\ states[w][j].com = AbsSuper[i]
  BY <1>1, <1>2, <1>3, DoneAnswered, SuperHolds DEF Answered1
<1>6. Resp1(w, j).proof =
        [sub |-> i, ds |-> <<AbsSuper[i]>>, rand |-> AbsSuper[i].seed,
         cur |-> CurLeaf(i, AbsSuper), next |-> i, root |-> AbsSuper]
  BY <1>1, <1>5 DEF Resp1, Committed
<1>7. aggregate.proofs[i] = Resp1(w, j).proof
  BY <1>4
<1>8. CurLeaf(i, AbsSuper).pos = i - 1 /\ CurLeaf(i, AbsSuper).chal = AbsSuper
  BY DEF CurLeaf
<1> QED BY <1>4, <1>6, <1>7, <1>8

\* The aggregate opens the super-commitment, subcircuit by subcircuit.
THEOREM MpiAggregateOpens == Spec => []AggregateOpensSuperCom
<1>1. IInv => AggregateOpensSuperCom
  <2> SUFFICES ASSUME IInv, aggregate # None, NEW i \in Subcircuit, NEW p,
                      p = aggregate.proofs[i]
               PROVE  /\ p.sub = i /\ p.ds = <<aggregate.super[i]>>
                      /\ p.rand = p.ds[1].seed
                      /\ p.cur.chal = aggregate.super /\ p.root = aggregate.super
    BY DEF AggregateOpensSuperCom
  <2> QED BY AggregateProofs
<1> QED BY <1>1, MpiInvariant, PTL

\* Consecutive proofs of the aggregate meet in a leaf of the execution tree.
THEOREM MpiProofsChained == Spec => []ProofsChained
<1>1. IInv => ProofsChained
  <2> SUFFICES ASSUME IInv, aggregate # None, NEW i \in Subcircuit
               PROVE  aggregate.proofs[i].cur.pos
                        = IF i = 0 THEN -1 ELSE aggregate.proofs[i - 1].next
    BY DEF ProofsChained
  <2>1. aggregate.proofs[i].cur.pos = i - 1
    BY AggregateProofs
  <2>2. CASE i = 0
    BY <2>1, <2>2
  <2>3. CASE i # 0
    <3>1. i - 1 \in Subcircuit
      BY <2>3, SizesAssumption DEF Subcircuit
    <3>2. aggregate.proofs[i - 1].next = i - 1
      BY <3>1, AggregateProofs
    <3> QED BY <2>1, <2>3, <3>2
  <2> QED BY <2>2, <2>3
<1> QED BY <1>1, MpiInvariant, PTL

-----------------------------------------------------------------------------
(* What no step does.                                                       *)

\* A thread only takes up a slot whose WorkerState has not been consumed, and
\* commits only while there is no super-commitment.
LEMMA SlotStep ==
  ASSUME IInv, EnvInv, NEW w \in Workers, NEW j \in Slots
  PROVE  /\ Stage0(w, j) => stage1State = None /\ rpc \notin AfterPrepare1 /\ Fresh(w, j)
         /\ Stage1(w, j) => Committed(w, j, FALSE) /\ rpc \in AfterPrepare1
<1>1. ASSUME Stage0(w, j)
      PROVE  stage1State = None /\ rpc \notin AfterPrepare1 /\ Fresh(w, j)
  <2>1. wpc[w] = <<"compute", 0>> /\ responses[w][j] = None
    BY <1>1 DEF Stage0, Ready
  <2>2. Computing0(w)
    BY <2>1 DEF IInv, WorkerInv, Panicked
  <2>3. Resp0(w, j) # None \/ ~Committed(w, j, FALSE)
    <3> SUFFICES ASSUME Committed(w, j, FALSE) PROVE Resp0(w, j) # None
      OBVIOUS
    <3>1. Resp0(w, j) \in Stage0Response
      BY IdxType DEF Committed, Resp0, Stage0Response, Com
    <3> QED BY <3>1, NoneAssumption DEF Response
  <2>4. rpc \notin AfterPrepare1
    BY <2>1, StillBusy
  <2> QED BY <2>1, <2>2, <2>3, <2>4 DEF IInv, CoordInv, Computing0
<1>2. ASSUME Stage1(w, j) PROVE Committed(w, j, FALSE) /\ rpc \in AfterPrepare1
  <2>1. wpc[w] = <<"compute", 1>> /\ responses[w][j] = None
    BY <1>2 DEF Stage1, Ready
  <2>2. Computing1(w)
    BY <2>1 DEF IInv, WorkerInv, Panicked
  <2>3. AbsSuper \in SuperCom /\ rpc \in AfterPrepare1
    BY <2>2 DEF Computing1, IInv, CoordInv, AbsSuper, AfterPrepare1
  <2> QED BY <2>1, <2>2, <2>3, Resp1Type DEF Computing1
<1> QED BY <1>1, <1>2

\* Only a thread's step touches a WorkerState, and only that of its slot.
LEMMA StatesStep ==
  ASSUME IInv, EnvInv, Next
  PROVE  \/ states' = states
         \/ \E w \in Workers, j \in Slots :
              /\ Stage0(w, j) \/ Stage1(w, j)
              /\ \A v \in Workers, k \in Slots :
                   v # w \/ k # j => states'[v][k] = states[v][k]
<1>1. CASE Coordinator
  BY <1>1 DEF Coordinator, CoordStage0, CoordStage1, CoordAggregate, ScatterSize,
              ScatterData, Gather, workerVars
<1>2. CASE Terminated
  BY <1>2 DEF Terminated, vars, workerVars
<1>3. ASSUME NEW w \in Workers, Worker(w)
      PROVE  \/ states' = states
             \/ \E j \in Slots :
                  /\ Stage0(w, j) \/ Stage1(w, j)
                  /\ \A v \in Workers, k \in Slots :
                       v # w \/ k # j => states'[v][k] = states[v][k]
  <2>1. ASSUME NEW j \in Slots, Stage0(w, j) \/ Stage1(w, j)
        PROVE  \A v \in Workers, k \in Slots :
                 v # w \/ k # j => states'[v][k] = states[v][k]
    <3>1. \E st : states' = [states EXCEPT ![w][j] = st]
      <4>0. CASE states' = states
        <5>1. states' = [states EXCEPT ![w][j] = states[w][j]]
          BY <4>0 DEF IInv, TypeOK
        <5> QED BY <5>1
      <4>1. CASE Stage0(w, j) /\ Idx(w, j) \notin env.refused[0]
        <5> DEFINE com(seed) == [sub |-> Idx(w, j), seed |-> seed]
                   st(seed)  == [cb |-> Idx(w, j), com |-> com(seed), rand |-> seed,
                                 spent |-> FALSE]
        <5>1. PICK seed \in Seeds : states' = [states EXCEPT ![w][j] = st(seed)]
          BY <4>1, Stage0Effect, Zenon
        <5> HIDE DEF st
        <5> QED BY <5>1
      <4>2. CASE Stage1(w, j) /\ Idx(w, j) \notin env.refused[1]
        <5>1. states' = [states EXCEPT ![w][j] = [states[w][j] EXCEPT !.spent = TRUE]]
          BY <4>2, Stage1Effect
        <5> QED BY <5>1
      <4> QED BY <2>1, <4>0, <4>1, <4>2, RefusedEffect DEF Stages
    <3> QED BY <3>1 DEF IInv, TypeOK
  <2>2. ASSUME NEW s \in Stages, ReceiveSize(s, w) \/ ReceiveData(s, w) \/ SendResponses(s, w)
        PROVE  states' = states
    BY <2>2 DEF ReceiveSize, ReceiveData, SendResponses
  <2> QED BY <1>3, <2>1, <2>2 DEF Worker, Compute
<1> QED BY <1>1, <1>2, <1>3 DEF Next

\* No commitment the challenges depend on is replaced, and no WorkerState is
\* used twice.
THEOREM MpiCommitmentsFrozen == Spec => CommitmentsFrozen
<1> DEFINE Kept(w, j) ==
      /\ stage1State # None =>
           states'[w][j].com = states[w][j].com /\ states'[w][j].cb = states[w][j].cb
      /\ states[w][j].spent => states'[w][j] = states[w][j]
<1>1. IInv /\ EnvInv /\ [Next]_vars => [\A w \in Workers, j \in Slots : Kept(w, j)]_vars
  <2> SUFFICES ASSUME IInv, EnvInv, Next, NEW v \in Workers, NEW k \in Slots PROVE Kept(v, k)
    OBVIOUS
  <2>1. CASE states'[v][k] = states[v][k]
    BY <2>1
  <2>2. CASE Stage0(v, k)
    <3>1. stage1State = None /\ Fresh(v, k)
      BY <2>2, SlotStep
    <3>2. states[v][k].spent = FALSE
      BY <3>1 DEF Fresh
    <3> QED BY <3>1, <3>2
  <2>3. CASE Stage1(v, k) /\ Idx(v, k) \notin env.refused[1]
    <3>1. states[v][k].spent = FALSE /\ states[v][k] \in WorkerState
      BY <2>3, SlotStep DEF Committed
    <3>2. states' = [states EXCEPT ![v][k] = [states[v][k] EXCEPT !.spent = TRUE]]
      BY <2>3, Stage1Effect
    <3>3. states'[v][k] = [states[v][k] EXCEPT !.spent = TRUE]
      BY <3>2 DEF IInv, TypeOK
    <3> QED BY <3>1, <3>3 DEF WorkerState
  <2>4. CASE Stage1(v, k) /\ Idx(v, k) \in env.refused[1]
    BY <2>1, <2>4, RefusedEffect DEF Stages
  <2> QED BY <2>1, <2>2, <2>3, <2>4, StatesStep
<1> QED BY <1>1, MpiInvariant, PTL DEF Spec, CommitmentsFrozen

-----------------------------------------------------------------------------
(* MpiProof implements ProofSession: a thread's stage 0 step commits, the   *)
(* coordinator's stage 1 step fixes the challenges, a thread's stage 1 step *)
(* proves, the coordinator's last step aggregates; every other step is one  *)
(* that the session does not see.                                           *)

\* What the session sees of the slot of subcircuit i.
SlotCom(w, j) == states[w][j].com
SlotProof(w, j) ==
  IF states[w][j].spent
  THEN [com |-> responses[w][j].proof.ds[1], super |-> responses[w][j].proof.root]
  ELSE None

\* The session's commitments and proofs, slot by slot.
LEMMA AbsBySlot ==
  /\ AbsCom = [i \in Subcircuit |-> SlotCom(WorkerOf(i), SlotOf(i))]
  /\ AbsProof = [i \in Subcircuit |-> SlotProof(WorkerOf(i), SlotOf(i))]
BY DEF AbsCom, AbsProof, SlotCom, SlotProof

\* A step that changes what the session sees of no slot changes neither its
\* commitments nor its proofs.
LEMMA SlotsKept ==
  ASSUME \A w \in Workers, j \in Slots :
           SlotCom(w, j)' = SlotCom(w, j) /\ SlotProof(w, j)' = SlotProof(w, j)
  PROVE  AbsCom' = AbsCom /\ AbsProof' = AbsProof
<1>1. \A i \in Subcircuit :
        /\ SlotCom(WorkerOf(i), SlotOf(i))' = SlotCom(WorkerOf(i), SlotOf(i))
        /\ SlotProof(WorkerOf(i), SlotOf(i))' = SlotProof(WorkerOf(i), SlotOf(i))
  BY SlotType
<1>2. /\ AbsCom' = [i \in Subcircuit |-> SlotCom(WorkerOf(i), SlotOf(i))']
      /\ AbsProof' = [i \in Subcircuit |-> SlotProof(WorkerOf(i), SlotOf(i))']
  BY DEF AbsCom, AbsProof, SlotCom, SlotProof
<1> QED BY <1>1, <1>2, AbsBySlot

\* A step that changes what the session sees of one slot.
LEMMA SlotChanged ==
  ASSUME NEW w \in Workers, NEW j \in Slots,
         \A v \in Workers, k \in Slots : v # w \/ k # j =>
           SlotCom(v, k)' = SlotCom(v, k) /\ SlotProof(v, k)' = SlotProof(v, k)
  PROVE  /\ AbsCom' = [AbsCom EXCEPT ![Idx(w, j)] = SlotCom(w, j)']
         /\ AbsProof' = [AbsProof EXCEPT ![Idx(w, j)] = SlotProof(w, j)']
         /\ AbsCom[Idx(w, j)] = SlotCom(w, j) /\ AbsProof[Idx(w, j)] = SlotProof(w, j)
<1>1. \A i \in Subcircuit : i # Idx(w, j) =>
        /\ SlotCom(WorkerOf(i), SlotOf(i))' = SlotCom(WorkerOf(i), SlotOf(i))
        /\ SlotProof(WorkerOf(i), SlotOf(i))' = SlotProof(WorkerOf(i), SlotOf(i))
  BY SlotType
<1>2. /\ AbsCom' = [i \in Subcircuit |-> SlotCom(WorkerOf(i), SlotOf(i))']
      /\ AbsProof' = [i \in Subcircuit |-> SlotProof(WorkerOf(i), SlotOf(i))']
  BY DEF AbsCom, AbsProof, SlotCom, SlotProof
<1>3. /\ Idx(w, j) \in Subcircuit
      /\ WorkerOf(Idx(w, j)) = w /\ SlotOf(Idx(w, j)) = j
  BY IdxType, IdxInverse
<1> QED BY <1>1, <1>2, <1>3, AbsBySlot

-----------------------------------------------------------------------------
\* A run starts as a session starts.
LEMMA InitRefines == Init => Session!Init
<1> SUFFICES ASSUME Init PROVE Session!Init
  OBVIOUS
<1>1. \A i \in Subcircuit : /\ SlotCom(WorkerOf(i), SlotOf(i)) = None
                            /\ SlotProof(WorkerOf(i), SlotOf(i)) = None
  BY SlotType DEF Init, SlotCom, SlotProof
<1>2. AbsSuper = None /\ AbsAggregate = None
  BY DEF Init, AbsSuper, AbsAggregate
<1> QED BY <1>1, <1>2, AbsBySlot DEF Session!Init

\* A thread's stage 0 step commits to its subcircuit.
LEMMA Stage0Commits ==
  ASSUME IInv, EnvInv, NEW w \in Workers, NEW j \in Slots, Stage0(w, j),
         Idx(w, j) \notin env.refused[0]
  PROVE  Session!Commit(Idx(w, j))
<1>1. UNCHANGED rootVars /\ Fresh(w, j)
  BY SlotStep DEF Stage0
<1>2. PICK st, resp :
        /\ st.com \in Com /\ st.spent = FALSE
        /\ states' = [states EXCEPT ![w][j] = st]
        /\ responses' = [responses EXCEPT ![w][j] = resp]
  <2>1. PICK seed \in Seeds :
          LET com == [sub |-> Idx(w, j), seed |-> seed] IN
          /\ com \in Com
          /\ states' = [states EXCEPT ![w][j] =
               [cb |-> Idx(w, j), com |-> com, rand |-> seed, spent |-> FALSE]]
          /\ responses' = [responses EXCEPT ![w][j] =
               [sub |-> Idx(w, j), com |-> com, seed |-> seed]]
    BY Stage0Effect
  <2> DEFINE com == [sub |-> Idx(w, j), seed |-> seed]
             st == [cb |-> Idx(w, j), com |-> com, rand |-> seed, spent |-> FALSE]
             resp == [sub |-> Idx(w, j), com |-> com, seed |-> seed]
  <2>2. /\ st.com \in Com /\ st.spent = FALSE
        /\ states' = [states EXCEPT ![w][j] = st]
        /\ responses' = [responses EXCEPT ![w][j] = resp]
    BY <2>1
  <2> QED BY <2>2
<1>3. /\ \A v \in Workers, k \in Slots : v # w \/ k # j =>
           SlotCom(v, k)' = SlotCom(v, k) /\ SlotProof(v, k)' = SlotProof(v, k)
      /\ states'[w][j] = st
  BY <1>2 DEF SlotCom, SlotProof, IInv, TypeOK
<1>4. /\ SlotCom(w, j)' \in Com /\ SlotProof(w, j)' = None
      /\ SlotCom(w, j) = None /\ SlotProof(w, j) = None
  BY <1>1, <1>2, <1>3 DEF SlotCom, SlotProof, Fresh
<1>5. AbsSuper' = AbsSuper /\ AbsAggregate' = AbsAggregate
  BY <1>1, RootFrame DEF rootVars, AbsAggregate
<1>6. /\ AbsCom' = [AbsCom EXCEPT ![Idx(w, j)] = SlotCom(w, j)']
      /\ AbsProof' = [AbsProof EXCEPT ![Idx(w, j)] = None]
      /\ AbsCom[Idx(w, j)] = None /\ AbsProof[Idx(w, j)] = None
  BY <1>3, <1>4, SlotChanged
<1>7. AbsProof' = AbsProof
  BY <1>6, AbsBySlot
<1> QED BY <1>4, <1>5, <1>6, <1>7 DEF Session!Commit

\* A thread's stage 1 step proves its subcircuit.
LEMMA Stage1Proves ==
  ASSUME IInv, EnvInv, IInv', NEW w \in Workers, NEW j \in Slots, Stage1(w, j),
         Idx(w, j) \notin env.refused[1]
  PROVE  Session!Prove(Idx(w, j))
<1>1. /\ UNCHANGED rootVars /\ Committed(w, j, FALSE) /\ rpc \in AfterPrepare1
      /\ states' = [states EXCEPT ![w][j] = [states[w][j] EXCEPT !.spent = TRUE]]
      /\ responses' = [responses EXCEPT ![w][j] = Resp1(w, j)]
      /\ AbsSuper \in SuperCom
  BY SlotStep, Stage1Effect DEF Stage1
<1>2. /\ states'[w][j] = [states[w][j] EXCEPT !.spent = TRUE]
      /\ responses'[w][j] = Resp1(w, j) /\ states[w][j] \in WorkerState
      /\ \A v \in Workers, k \in Slots : v # w \/ k # j =>
           states'[v][k] = states[v][k] /\ responses'[v][k] = responses[v][k]
  BY <1>1 DEF IInv, TypeOK
<1>3. /\ states'[w][j].com = states[w][j].com /\ states'[w][j].spent = TRUE
      /\ states[w][j].spent = FALSE
  BY <1>1, <1>2 DEF WorkerState, Committed
<1>4. \A v \in Workers, k \in Slots : v # w \/ k # j =>
        SlotCom(v, k)' = SlotCom(v, k) /\ SlotProof(v, k)' = SlotProof(v, k)
  BY <1>2 DEF SlotCom, SlotProof
<1>5. /\ SlotCom(w, j)' = SlotCom(w, j) /\ SlotProof(w, j) = None
      /\ SlotProof(w, j)' = [com |-> states[w][j].com, super |-> AbsSuper]
  BY <1>2, <1>3 DEF SlotCom, SlotProof, Resp1
<1>6. AbsSuper' = AbsSuper /\ AbsAggregate' = AbsAggregate
  BY <1>1, RootFrame DEF rootVars, AbsAggregate
<1>7. AbsSuper[Idx(w, j)] = states[w][j].com /\ AbsSuper # None
  BY <1>1, SuperHolds, NoneAssumption
<1>8. /\ AbsCom' = AbsCom /\ AbsProof[Idx(w, j)] = None
      /\ AbsProof' = [AbsProof EXCEPT ![Idx(w, j)] =
                        [com |-> AbsSuper[Idx(w, j)], super |-> AbsSuper]]
  <2>1. /\ AbsCom' = [AbsCom EXCEPT ![Idx(w, j)] = SlotCom(w, j)']
        /\ AbsProof' = [AbsProof EXCEPT ![Idx(w, j)] = SlotProof(w, j)']
        /\ AbsCom[Idx(w, j)] = SlotCom(w, j) /\ AbsProof[Idx(w, j)] = SlotProof(w, j)
    BY <1>4, SlotChanged
  <2>2. AbsCom' = AbsCom
    BY <1>5, <2>1, AbsBySlot
  <2> QED BY <1>5, <1>7, <2>1, <2>2
<1> QED BY <1>6, <1>7, <1>8 DEF Session!Prove, Session!ProofOf

\* The coordinator's stage 1 step fixes the challenges.
LEMMA CoordStage1Fixes ==
  ASSUME IInv, IInv', CoordStage1
  PROVE  Session!FixChallenges
<1>1. /\ rpc = <<"prepare", 1>> /\ aggregate' = aggregate
      /\ states' = states /\ responses' = responses /\ gathered' = gathered
  BY DEF CoordStage1, workerVars
<1>2. AbsSuper = None /\ aggregate = None
  <2>1. rpc \notin AfterPrepare1
    BY <1>1 DEF AfterPrepare1, AfterSize1, AfterData1, AfterGather1, Panicked
  <2> QED BY <2>1 DEF IInv, CoordInv, AbsSuper
<1>3. AbsCom' = AbsCom /\ AbsProof' = AbsProof
  BY <1>1 DEF AbsCom, AbsProof
<1>4. \A i \in Subcircuit : AbsCom[i] # None
  <2>1. \A i \in Subcircuit : AbsCom[i] \in Com
    BY <1>1, Stage0Flattened DEF AbsCom
  <2> QED BY <2>1, NoneAssumption
<1>5. AbsSuper' = AbsCom
  <2>1. rpc' \in AfterPrepare1
    BY DEF CoordStage1, AfterPrepare1, AfterSize1, AfterData1, AfterGather1
  <2>2. AbsSuper' = AbsCom'
    BY <2>1 DEF IInv, SuperInv, AbsCom
  <2> QED BY <1>3, <2>2
<1>6. AbsAggregate' = AbsAggregate
  BY <1>1 DEF AbsAggregate
<1> QED BY <1>2, <1>3, <1>4, <1>5, <1>6 DEF Session!FixChallenges

\* The coordinator's last step aggregates the proofs.
LEMMA CoordAggregateAggregates ==
  ASSUME IInv, IInv', CoordAggregate, rpc' # Panicked(1)
  PROVE  Session!Aggregate
<1>1. /\ rpc = <<"aggregate", 1>> /\ states' = states /\ responses' = responses
  BY DEF CoordAggregate, workerVars
<1>2. /\ aggregate = None /\ AbsSuper = stage1State /\ stage1State # None
      /\ stage1State \in SuperCom
  <2>1. rpc \in AfterPrepare1 /\ rpc # <<"done", 1>>
    BY <1>1 DEF AfterPrepare1, AfterSize1, AfterData1, AfterGather1, Panicked
  <2> QED BY <2>1, NoneAssumption DEF IInv, CoordInv, AbsSuper
<1>3. rpc' = <<"done", 1>>
  BY DEF CoordAggregate
<1>4. /\ aggregate' # None /\ aggregate'.super = stage1State
      /\ aggregate'.proofs = [i \in Subcircuit |-> SortBySubcircuit(Flattened)[i].proof]
  <2>1. aggregate' # None
    BY <1>3 DEF IInv, CoordInv
  <2>2. aggregate' = aggregate \/
          aggregate' = [super |-> stage1State,
                        proofs |-> [i \in Subcircuit |-> SortBySubcircuit(Flattened)[i].proof]]
    BY <1>3 DEF CoordAggregate, Panicked
  <2> QED BY <1>2, <2>1, <2>2
<1>5. AbsSuper' = AbsSuper
  BY <1>2, <1>4 DEF AbsSuper
<1>6. AbsCom' = AbsCom /\ AbsProof' = AbsProof
  BY <1>1 DEF AbsCom, AbsProof
<1>7. ASSUME NEW i \in Subcircuit
      PROVE  /\ AbsProof[i] = [com |-> aggregate'.proofs[i].ds[1],
                               super |-> aggregate'.proofs[i].root]
             /\ AbsProof[i] # None
  <2> DEFINE w == WorkerOf(i)  j == SlotOf(i)
  <2>1. w \in Workers /\ j \in Slots /\ Idx(w, j) = i
    BY SlotType
  <2>2. /\ Answered1(w) /\ Flattened[i] = Resp1(w, j)
        /\ \A k \in Subcircuit : Flattened[k].sub = k
    BY <1>1, Stage1Flattened
  <2>3. aggregate'.proofs[i] = Resp1(w, j).proof
    <3>1. SortBySubcircuit(Flattened) = [k \in Subcircuit |-> Flattened[k]]
      BY <2>2, SortSorted
    <3> QED BY <1>4, <2>2, <3>1
  <2>4. responses[w][j] = Resp1(w, j) /\ states[w][j].spent = TRUE
        /\ states[w][j].com \in Com
    BY <2>1, <2>2 DEF Answered1, Committed
  <2>5. AbsProof[i] = SlotProof(w, j)
    BY AbsBySlot
  <2>6. SlotProof(w, j) = [com |-> Resp1(w, j).proof.ds[1], super |-> Resp1(w, j).proof.root]
    BY <2>4 DEF SlotProof
  <2>7. Resp1(w, j).proof.ds[1] = states[w][j].com /\ Resp1(w, j).proof.root = AbsSuper
    BY DEF Resp1
  <2>8. AbsProof[i] \in [com : Com, super : SuperCom]
    BY <1>2, <2>4, <2>5, <2>6, <2>7
  <2> QED BY <2>3, <2>5, <2>6, <2>8, NoneAssumption
<1>8. AbsAggregate = None /\ AbsAggregate' = AbsProof
  <2>1. AbsAggregate' = [i \in Subcircuit |-> [com |-> aggregate'.proofs[i].ds[1],
                                               super |-> aggregate'.proofs[i].root]]
    BY <1>4 DEF AbsAggregate
  <2> QED BY <1>2, <1>7, <2>1, AbsBySlot DEF AbsAggregate
<1> QED BY <1>5, <1>6, <1>7, <1>8 DEF Session!Aggregate

\* A panic leaves what the session sees alone.
LEMMA PanicStutters ==
  ASSUME IInv,
         \/ CoordAggregate /\ rpc' = Panicked(1)
         \/ \E w \in Workers, j \in Slots :
              \/ Stage0(w, j) /\ Idx(w, j) \in env.refused[0]
              \/ Stage1(w, j) /\ Idx(w, j) \in env.refused[1]
  PROVE  UNCHANGED Session!vars
<1>1. UNCHANGED <<states, responses, aggregate, stage1State>>
  <2>1. CASE CoordAggregate /\ rpc' = Panicked(1)
    BY <2>1 DEF CoordAggregate, workerVars, Panicked
  <2>2. CASE \E w \in Workers, j \in Slots :
              \/ Stage0(w, j) /\ Idx(w, j) \in env.refused[0]
              \/ Stage1(w, j) /\ Idx(w, j) \in env.refused[1]
    BY <2>2, RefusedEffect DEF rootVars, Stages
  <2> QED BY <2>1, <2>2
<1> QED BY <1>1 DEF Session!vars, AbsCom, AbsSuper, AbsProof, AbsAggregate

\* Any other step leaves what the session sees alone.
LEMMA OtherStutters ==
  ASSUME IInv, EnvInv, Next, ~CoordStage1, ~CoordAggregate,
         \A w \in Workers, j \in Slots : ~Stage0(w, j) /\ ~Stage1(w, j)
  PROVE  UNCHANGED Session!vars
<1>0. states' = states
  BY StatesStep
<1>1. AbsSuper' = AbsSuper /\ AbsAggregate' = AbsAggregate
  <2>1. stage1State' = stage1State /\ aggregate' = aggregate
    BY DEF Next, Coordinator, CoordStage0, ScatterSize, ScatterData, Gather, Worker,
           Compute, ReceiveSize, ReceiveData, SendResponses, Terminated, vars, rootVars
  <2> QED BY <2>1 DEF AbsSuper, AbsAggregate
<1>2. ASSUME NEW w \in Workers, NEW j \in Slots
      PROVE  SlotCom(w, j)' = SlotCom(w, j) /\ SlotProof(w, j)' = SlotProof(w, j)
  <2>1. CASE responses'[w] = responses[w]
    BY <1>0, <2>1 DEF SlotCom, SlotProof
  <2>2. CASE \E s \in Stages : ReceiveData(s, w)
    <3>1. Idle0(w) \/ Idle1(w)
      BY <2>2 DEF ReceiveData, IInv, WorkerInv, Stages, Panicked
    <3>2. states[w][j].spent = FALSE
      BY <3>1 DEF Idle0, Idle1, Fresh, Committed
    <3> QED BY <1>0, <3>2 DEF SlotCom, SlotProof
  <2>3. ASSUME responses'[w] # responses[w] PROVE \E s \in Stages : ReceiveData(s, w)
    <3>1. ~Coordinator /\ ~Terminated
      BY <2>3 DEF Coordinator, CoordStage0, CoordStage1, CoordAggregate, ScatterSize,
                  ScatterData, Gather, Terminated, vars, workerVars
    <3>2. PICK v \in Workers : Worker(v)
      BY <3>1 DEF Next
    <3>3. PICK s \in Stages : ReceiveSize(s, v) \/ ReceiveData(s, v) \/ SendResponses(s, v)
      BY <3>2 DEF Worker, Compute
    <3>4. ReceiveData(s, v)
      BY <2>3, <3>3 DEF ReceiveSize, SendResponses
    <3>5. v = w
      BY <2>3, <3>4 DEF ReceiveData, IInv, TypeOK
    <3> QED BY <3>4, <3>5
  <2> QED BY <2>1, <2>2, <2>3
<1> QED BY <1>1, <1>2, SlotsKept DEF Session!vars

\* Every step of a run is a step of a session, or one it does not see.
LEMMA NextRefines ==
  IInv /\ EnvInv /\ IInv' /\ [Next]_vars => [Session!Next]_(Session!vars)
<1> SUFFICES ASSUME IInv, EnvInv, IInv', [Next]_vars PROVE [Session!Next]_(Session!vars)
  OBVIOUS
<1>1. CASE UNCHANGED vars
  BY <1>1 DEF vars, rootVars, workerVars, Session!vars, AbsCom, AbsSuper, AbsProof,
              AbsAggregate
<1>2. CASE CoordStage1
  BY <1>2, CoordStage1Fixes DEF Session!Next
<1>3. CASE CoordAggregate
  BY <1>3, CoordAggregateAggregates, PanicStutters DEF Session!Next
<1>4. ASSUME NEW w \in Workers, NEW j \in Slots, Stage0(w, j) \/ Stage1(w, j)
      PROVE  Session!Next \/ UNCHANGED Session!vars
  BY <1>4, IdxType, Stage0Commits, Stage1Proves, PanicStutters DEF Session!Next
<1>5. CASE /\ Next /\ ~CoordStage1 /\ ~CoordAggregate
           /\ \A w \in Workers, j \in Slots : ~Stage0(w, j) /\ ~Stage1(w, j)
  BY <1>5, OtherStutters
<1> QED BY <1>1, <1>2, <1>3, <1>4, <1>5

\* A run of node.rs over MPI is a proof session, whatever the numbers of
\* workers, threads and subcircuits.
THEOREM MpiImplementsSession == Spec => ImplementsSession
<1>1. Init => Session!Init
  BY InitRefines
<1>2. IInv /\ EnvInv /\ IInv' /\ [Next]_vars => [Session!Next]_(Session!vars)
  BY NextRefines
<1> QED BY <1>1, <1>2, MpiInvariant, PTL DEF Spec, ImplementsSession, Session!Spec
=============================================================================
