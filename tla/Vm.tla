---------------------------------- MODULE Vm ----------------------------------
(***************************************************************************)
(* VirtualMachine (vm/vm_constraints.rs, vm/memory.rs), a circuit over RAM *)
(* wires: each subcircuit runs a chunk of dummy operations on registers    *)
(* that it reads out of the memory at its start and writes back at its     *)
(* end.  With use_merkle_memory the constraints verify Merkle paths        *)
(* instead of using portal wires.                                          *)
(*                                                                         *)
(* As in TreeHash and Vkd the trace is logged by one piece of code and     *)
(* consumed by another, which looks at no name, nor at whether an entry    *)
(* reads or writes.  Every value is one and is left out; timestamps, the    *)
(* order by address and the consistency checks are in PortalTrace.         *)
(***************************************************************************)
EXTENDS Integers, Sequences

CONSTANTS
  LogNums,        \* values of log_num_subcircuit
  Chunks,         \* values of operations_per_chunk
  MerkleMemory,   \* values of use_merkle_memory
  RegisterNum,    \* REGISTER_NUM, 16 in the code
  NumWorkers      \* divides the number of subcircuits

ASSUME ParamsAssumption ==
  /\ LogNums \subseteq Nat \ {0} /\ Chunks \subseteq Nat \ {0} /\ MerkleMemory \subseteq BOOLEAN
  /\ RegisterNum \in Nat \ {0, 1}
  /\ NumWorkers \in Nat \ {0} /\ \A n \in LogNums : 2^n % NumWorkers = 0

VARIABLES
  params,
  phase,      \* "keys", "trace", "prove" or "panicked"
  pks,        \* the shape each proving key was generated for
  addresses,  \* of the AddressManager: the wires, by their addresses
  subtraces,  \* of the subcircuits so far, the last one being logged
  proofs      \* what the workers have proved

vars == <<params, phase, pks, addresses, subtraces, proofs>>

NumSubcircuits == 2^params.log
Subcircuit == 0 .. NumSubcircuits - 1
Register == 0 .. RegisterNum - 1
NotProved == [done |-> FALSE]

-----------------------------------------------------------------------------
(* Operations on wires; a wire is the number of its register.               *)

Get(r) == [read |-> TRUE, reg |-> r]
Set(r) == [read |-> FALSE, reg |-> r]

GetRegisters == [k \in 1 .. RegisterNum |-> Get(k - 1)]
SetRegisters == [k \in 1 .. RegisterNum |-> Set(k - 1)]

\* s, n times over.
Times(n, s) == [k \in 1 .. n * Len(s) |-> s[((k - 1) % Len(s)) + 1]]

\* do_dummy_operation, as often as a chunk is long.
DoDummyOperation == Times(params.chunk, <<Set(1), Get(1), Get(1)>>)

\* The portal operations of generate_constraints: Merkle memory has none.
Operations(i) ==
  IF params.merkle THEN <<>>
  ELSE IF i = 0 THEN SetRegisters \o DoDummyOperation
  ELSE GetRegisters \o DoDummyOperation \o SetRegisters

SetupChunk == Times(params.chunk, <<Set(1), Get(1), Get(1)>>)

\* Mutant of SetupOperations: the registers are not written back.
SetupWithoutResult(i) ==
  IF i = 0 THEN SetRegisters \o SetupChunk ELSE GetRegisters \o SetupChunk
\* Mutant of SetupOperations: they are written where they should be read.
SetupWritesFirst(i) ==
  IF i = 0 THEN SetRegisters \o SetupChunk ELSE SetRegisters \o SetupChunk \o GetRegisters

\* The operations of get_portal_subtraces, with whatever memory.
SetupOperations(i) ==
  IF i = 0 THEN SetRegisters \o SetupChunk ELSE GetRegisters \o SetupChunk \o SetRegisters

-----------------------------------------------------------------------------
(* The SetupRamPortalManager.                                               *)

Known(r) == \E a \in DOMAIN addresses : addresses[a] = r

\* name_to_addr: an address for a name that has none, from 1 on.
NameToAddr(r) == IF Known(r) THEN addresses ELSE Append(addresses, r)

\* What an operation logs, with the addresses after it.
Entry(addrs, o) == [addr |-> CHOOSE a \in DOMAIN addrs : addrs[a] = o.reg, read |-> o.read]

-----------------------------------------------------------------------------
(* Proving keys.                                                            *)

UniqueSubcircuits == <<0, 1>>
\* Mutant of RepresentativeSubcircuit: the first stands for all but the second.
RepresentativeButSecond(i) == IF i = 1 THEN 1 ELSE 0
RepresentativeSubcircuit(i) == IF i = 0 THEN 0 ELSE 1

\* What tells the constraint systems of two subcircuits apart, and the checks the
\* wrapper adds at the first and at the last.
Shape(i) == [loads |-> i # 0, first |-> i = 0, last |-> i = NumSubcircuits - 1]

-----------------------------------------------------------------------------
(* Actions.                                                                 *)

Init ==
  /\ \E l \in LogNums, c \in Chunks, m \in MerkleMemory :
       params = [log |-> l, chunk |-> c, merkle |-> m]
  /\ phase = "keys" /\ pks = <<>> /\ addresses = <<>> /\ subtraces = <<>>
  /\ proofs = [i \in Subcircuit |-> NotProved]

\* gen_pk, for the unique subcircuits in turn.
GenPk ==
  /\ phase = "keys"
  /\ pks' = Append(pks, Shape(UniqueSubcircuits[Len(pks) + 1]))
  /\ phase' = IF Len(pks') = Len(UniqueSubcircuits) THEN "trace" ELSE "keys"
  /\ UNCHANGED <<params, addresses, subtraces, proofs>>

\* The subcircuit whose subtrace is being logged, and what it has logged.
Current == Len(subtraces) - 1
Logged == subtraces[Len(subtraces)]
SubtraceEnds == subtraces # <<>> => Len(Logged) = Len(SetupOperations(Current))

\* The head of the loop of get_portal_subtraces.
StartSubtrace ==
  /\ phase = "trace" /\ SubtraceEnds
  /\ IF Len(subtraces) < NumSubcircuits
     THEN subtraces' = Append(subtraces, <<>>) /\ UNCHANGED phase
     ELSE phase' = "prove" /\ UNCHANGED subtraces
  /\ UNCHANGED <<params, pks, addresses, proofs>>

\* The next get or set of the round: a get of a wire that was never set, and so has
\* no address, panics.
Access ==
  /\ phase = "trace" /\ ~SubtraceEnds
  /\ LET o == SetupOperations(Current)[Len(Logged) + 1]
     IN  IF o.read /\ ~Known(o.reg)
         THEN phase' = "panicked" /\ UNCHANGED <<addresses, subtraces>>
         ELSE /\ addresses' = NameToAddr(o.reg)
              /\ subtraces' = [subtraces EXCEPT ![Len(subtraces)] =
                                 Append(@, Entry(addresses', o))]
              /\ UNCHANGED phase
  /\ UNCHANGED <<params, pks, proofs>>

Pk(i) == pks[CHOOSE k \in DOMAIN pks : UniqueSubcircuits[k] = RepresentativeSubcircuit(i)]

\* A worker generates the constraints of subcircuit i over its subtrace: an entry
\* too few panics; entries left over are missing in its running evaluations, so
\* that they are not those of the next leaf.
Prove(i) ==
  /\ phase = "prove" /\ proofs[i] = NotProved
  /\ LET share == NumSubcircuits \div NumWorkers
     IN  \A j \in Subcircuit : j \div share = i \div share /\ j < i => proofs[j] # NotProved
  /\ LET tr == subtraces[i + 1]
         ops == Operations(i)
     IN  IF Len(ops) > Len(tr)
         THEN phase' = "panicked" /\ UNCHANGED proofs
         ELSE /\ proofs' = [proofs EXCEPT ![i] =
                   [done      |-> TRUE,
                    keyFits   |-> Pk(i) = Shape(i),
                    satisfied |-> Len(ops) = Len(tr),
                    met       |-> \A k \in DOMAIN ops : /\ addresses[tr[k].addr] = ops[k].reg
                                                        /\ tr[k].read = ops[k].read]]
              /\ UNCHANGED phase
  /\ UNCHANGED <<params, pks, addresses, subtraces>>

Terminated ==
  /\ phase = "panicked" \/ \A i \in Subcircuit : proofs[i].done
  /\ UNCHANGED vars

Next == GenPk \/ StartSubtrace \/ Access \/ (\E i \in Subcircuit : Prove(i)) \/ Terminated

Spec == Init /\ [][Next]_vars

-----------------------------------------------------------------------------
(* Properties.                                                              *)

\* The two accounts of the trace agree: no register is read before it is written,
\* and every entry a subcircuit takes is of the operation that takes it, although
\* the prover looks neither at names nor at the direction of an access.  With
\* portal memory no entry is left over; Merkle memory leaves all of them.
ProofsValid ==
  /\ phase # "panicked"
  /\ \A i \in Subcircuit : proofs[i].done =>
       proofs[i].met /\ (proofs[i].satisfied <=> ~params.merkle)

\* A chunk starts from the registers of the chunk before it: the first access to
\* each is a read, and the last write before it is one of that chunk.
ChunksHandOver ==
  phase = "prove" =>
    \A i \in 2 .. Len(subtraces), r \in DOMAIN addresses :
      /\ \E k \in DOMAIN subtraces[i] :
           /\ subtraces[i][k].addr = r /\ subtraces[i][k].read
           /\ \A l \in 1 .. k - 1 : subtraces[i][l].addr # r
      /\ \E k \in DOMAIN subtraces[i - 1] :
           subtraces[i - 1][k].addr = r /\ ~subtraces[i - 1][k].read

\* Two subcircuits stand for all: a subcircuit is proved with a key made for its
\* constraints, all but the last of more than two, whose permutation check the key
\* of the second is without.
KeysFitButLast ==
  \A i \in Subcircuit : proofs[i].done =>
    (proofs[i].keyFits <=> (i = NumSubcircuits - 1 => i = 1))
=============================================================================
