----------------------------- MODULE MCMpiProof -----------------------------
(* Instances of MpiProof for TLC. *)
EXTENDS MpiProofInv

\* Requests differ in length from subcircuit to subcircuit and from stage to
\* stage, so that a size that reaches the wrong worker does not fit.
MCReqSize == [s \in Stages |-> [i \in Subcircuit |-> 1 + i + 10 * s]]

MCEnv(parallel, debug, pool, refused0, refused1, misfit) ==
  [parallel |-> parallel, debug |-> debug, pool |-> pool,
   refused |-> [s \in Stages |-> IF s = 0 THEN refused0 ELSE refused1],
   misfit |-> misfit]

\* With four requests to a worker: two threads of two requests next to one
\* thread of four, more threads than requests, no feature "parallel", a pool of
\* one thread; a release build over proofs that do not verify, a debug build
\* over good ones and over a bad one; a subcircuit of each worker that cannot be
\* committed to, one that can but cannot be proved.
MCEnvs ==
  {MCEnv(TRUE,  FALSE, <<3, 2>>, {}, {}, Subcircuit),
   MCEnv(TRUE,  TRUE,  <<2, 6>>, {}, {}, {}),
   MCEnv(FALSE, TRUE,  <<1, 1>>, {}, {}, {5}),
   MCEnv(TRUE,  FALSE, <<1, 3>>, {}, {}, {}),
   MCEnv(TRUE,  FALSE, <<2, 3>>, {2, 5}, {}, {}),
   MCEnv(FALSE, TRUE,  <<1, 1>>, {}, {6}, {6})}
=============================================================================
