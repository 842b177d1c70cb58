------------------------------ MODULE PortalTrace ------------------------------
(***************************************************************************)
(* The portal wires of a partitioned circuit, from the trace the           *)
(* coordinator records to the constraints the workers prove about it:      *)
(*   - SetupRomPortalManager and SetupRamPortalManager log every get and   *)
(*     set of a wire, one subtrace per subcircuit;                         *)
(*   - the coordinator sorts the whole trace by address, cuts it into      *)
(*     subtraces of the same sizes, and builds the execution tree;         *)
(*   - each subcircuit, on its own and in any order, replays its gets and  *)
(*     sets on a RomProverPortalManager or RamProverPortalManager, which   *)
(*     constrains the entries it meets.                                    *)
(* The subtraces are kept as one sequence and the places it is cut at.     *)
(***************************************************************************)
EXTENDS Integers, Sequences, FiniteSets, Bags

CONSTANTS
  Circuits,         \* the circuits looked at: P::MEM_TYPE, "Rom" or "Ram", and size
  Names,            \* names of portal wires
  Vals,             \* field elements on the wires; 0 is F::ZERO
  TimeBits,         \* bits of a timestamp; 32 in the code
  MaxEntries,       \* bound on the length of the trace
  None              \* Rust's None

ASSUME PortalAssumption ==
  /\ \A c \in Circuits : c.memType \in {"Rom", "Ram"} /\ c.subcircuits \in Nat \ {0}
  /\ 0 \in Vals
  /\ TimeBits \in Nat /\ MaxEntries \in Nat
  /\ None \notin Vals

VARIABLES
  circuit,     \* the circuit traced
  phase,       \* "setup", "sorted", "stage1", or "panicked"
  trace,       \* time-ordered entries of all subtraces
  starts,      \* how many entries precede each subtrace started
  varMap,      \* the value last set on each wire
  address,     \* the address of each wire, 0 for none yet
  nextAddr,    \* the address of the next new wire
  time,        \* timestamp of the next entry
  addrTrace,   \* the trace in address order
  leaves,      \* leaves of the execution tree
  pm,          \* prover portal manager of each subcircuit that has one
  unsatisfied, \* constraints found not to hold: <<subcircuit, which>>
  compared     \* places of addrTrace constrained against the place before

setupVars == <<circuit, trace, starts, varMap, address, nextAddr, time>>
proverVars == <<pm, unsatisfied, compared>>
vars == <<phase, setupVars, addrTrace, leaves, proverVars>>

NumSubcircuits == circuit.subcircuits
Subcircuit == 1 .. NumSubcircuits
Ram == circuit.memType = "Ram"

\* An entry of the transcript: a ROM entry has no timestamp and no read flag.
Entry(addr, val, i, read) ==
  IF Ram THEN [addr |-> addr, val |-> val, i |-> i, read |-> read]
         ELSE [addr |-> addr, val |-> val]

Padding == Entry(0, 0, 0, FALSE)

\* Subtrace i is what lies after First(i) places, up to place Last(i).
First(i) == starts[i]
Last(i) == IF i < Len(starts) THEN starts[i + 1] ELSE Len(trace)
Size(i) == Last(i) - First(i)

Init ==
  /\ circuit \in Circuits
  /\ phase = "setup"
  /\ trace = <<>> /\ starts = <<>>
  /\ varMap = [n \in Names |-> None]
  /\ address = [n \in Names |-> 0] /\ nextAddr = 1
  /\ time = 0
  /\ addrTrace = <<>> /\ leaves = <<>>
  /\ pm = <<>>
  /\ unsatisfied = {} /\ compared = {}

-----------------------------------------------------------------------------
(* The coordinator's run of the circuit.                                    *)

StartSubtrace ==
  /\ phase = "setup" /\ Len(starts) < NumSubcircuits
  /\ starts' = Append(starts, Len(trace))
  /\ UNCHANGED <<phase, circuit, trace, varMap, address, nextAddr, time,
                 addrTrace, leaves, proverVars>>

\* Mutant of Log: the clock stands still.
LogWithoutTick(addr, val, read) ==
  /\ starts # <<>> /\ Len(trace) < MaxEntries
  /\ trace' = Append(trace, Entry(addr, val, time, read))
  /\ time' = time

\* An entry goes to the subtrace last started; a RAM entry is stamped with the
\* time, an Unsigned32 whose increment wraps around.
Log(addr, val, read) ==
  /\ starts # <<>> /\ Len(trace) < MaxEntries
  /\ trace' = Append(trace, Entry(addr, val, time, read))
  /\ time' = IF Ram THEN (time + 1) % 2^TimeBits ELSE time

\* No circuit gets a wire before it is set: the expect would panic.
SetupGet(n) ==
  /\ phase = "setup" /\ varMap[n] # None
  /\ Log(address[n], varMap[n], TRUE)
  /\ UNCHANGED <<phase, circuit, starts, varMap, address, nextAddr, addrTrace, leaves, proverVars>>

\* AddressManager: the address of a RAM wire, a new one when it is first seen.
NameToAddr(n) == IF address[n] = 0 THEN nextAddr ELSE address[n]
\* Mutant of AddrAfter: the counter stays where it is.
AddrAfterUnmoved(n) == nextAddr
AddrAfter(n) == IF address[n] = 0 THEN nextAddr + 1 ELSE nextAddr

\* A ROM wire is set once, and so always at a new address.
SetupSet(n, v) ==
  /\ phase = "setup" /\ (Ram \/ varMap[n] = None)
  /\ varMap' = [varMap EXCEPT ![n] = v]
  /\ address' = [address EXCEPT ![n] = NameToAddr(n)]
  /\ nextAddr' = AddrAfter(n)
  /\ Log(NameToAddr(n), v, FALSE)
  /\ UNCHANGED <<phase, circuit, starts, addrTrace, leaves, proverVars>>

-----------------------------------------------------------------------------
(* The coordinator: sort by address, build the tree.                        *)

\* Rust's sort_by_key is stable, by (address, timestamp) for RAM.
KeyLess(e, f) ==
  \/ e.addr < f.addr
  \/ Ram /\ e.addr = f.addr /\ e.i < f.i

Before(p, q) ==
  \/ KeyLess(trace[p], trace[q])
  \/ ~KeyLess(trace[q], trace[p]) /\ p < q

\* The place in trace of the entry at place k of the sorted trace.
Source(k) ==
  CHOOSE p \in DOMAIN trace : Cardinality({q \in DOMAIN trace : Before(q, p)}) = k - 1

\* CoordinatorStage0State::new.  A circuit without a portal wire panics here:
\* the sort looks at the first entry.
SortByAddr ==
  /\ phase = "setup" /\ Len(starts) = NumSubcircuits
  /\ IF trace = <<>>
     THEN phase' = "panicked" /\ UNCHANGED addrTrace
     ELSE /\ phase' = "sorted"
          /\ addrTrace' = [k \in DOMAIN trace |-> trace[Source(k)]]
  /\ UNCHANGED <<setupVars, leaves, proverVars>>

\* A running evaluation is the product over the entries it has been updated
\* with of (tr_chal - entry); at random challenges it tells apart bags of
\* entries, and stands for the bag here.
Eval(s, n) ==
  [e \in {s[k] : k \in 1 .. n} |-> Cardinality({k \in 1 .. n : s[k] = e})]

\* Mutant of LeafAfter: an empty subtrace resets the last entry.
LeafOwnSubtrace(i) ==
  [time |-> Eval(trace, Last(i)), addr |-> Eval(addrTrace, Last(i)),
   last |-> IF Size(i) = 0 THEN Padding ELSE addrTrace[Last(i)]]

\* The leaf after subcircuit i.  An empty subtrace leaves the last entry as is.
LeafAfter(i) ==
  [time |-> Eval(trace, Last(i)), addr |-> Eval(addrTrace, Last(i)),
   last |-> IF Last(i) = 0 THEN Padding ELSE addrTrace[Last(i)]]

\* CoordinatorStage1State::new
GenExecTree ==
  /\ phase = "sorted"
  /\ leaves' = [i \in Subcircuit |-> LeafAfter(i)]
  /\ phase' = "stage1"
  /\ UNCHANGED <<setupVars, addrTrace, proverVars>>

\* gen_request: the leaf subcircuit i starts from.
CurLeaf(i) ==
  IF i = 1 THEN [time |-> EmptyBag, addr |-> EmptyBag, last |-> Padding] ELSE leaves[i - 1]

-----------------------------------------------------------------------------
(* A subcircuit's stage 1 constraints.                                      *)

\* The is_eq tests return a Result, and Result's "and" returns its last
\* operand: the one test that counts is the last.
IsPadding(e) == IF Ram THEN e.read = FALSE ELSE e.addr = 0

\* The portal manager for subcircuit i is made from its current leaf, checked
\* to be the default leaf if i is the first.
StartStage1(i) ==
  /\ phase = "stage1" /\ i \notin DOMAIN pm
  /\ LET cur == CurLeaf(i)
         ok  == cur.time = EmptyBag /\ cur.addr = EmptyBag /\ IsPadding(cur.last)
         new == [idx |-> 0, time |-> cur.time, addr |-> cur.addr, done |-> FALSE]
     IN  /\ pm' = [j \in DOMAIN pm \cup {i} |-> IF j = i THEN new ELSE pm[j]]
         /\ unsatisfied' = unsatisfied \cup (IF i = 1 /\ ~ok THEN {<<i, "padding">>} ELSE {})
  /\ UNCHANGED <<phase, setupVars, addrTrace, leaves, compared>>

\* The address-ordered subtrace with the last entry before it prepended, from 0.
Full(i, k) == IF k = 0 THEN CurLeaf(i).last ELSE addrTrace[First(i) + k]

\* The constraints on an entry cur and the entry after it that fail.
RomFailing(cur, next) ==
  LET same == next.addr = cur.addr
      incr == next.addr = cur.addr + 1
  IN  {c \in {"address", "value"} :
        \/ c = "address" /\ ~same /\ ~incr
        \/ c = "value" /\ same /\ next.val # cur.val}

RamFailing(cur, next) ==
  LET same == next.addr = cur.addr
      incr == next.addr = cur.addr + 1
  IN  {c \in {"address", "write", "value", "order"} :
        \/ c = "address" /\ ~same /\ ~incr
        \/ c = "write" /\ incr /\ next.read
        \/ c = "value" /\ same /\ next.read /\ next.val # cur.val
        \/ c = "order" /\ same /\ ~(next.i > cur.i)}

\* Mutant of Pairs: the last pair of a subtrace is left out.
PairsSkippingLast(i, idx) == IF idx + 1 < Size(i) THEN {First(i) + idx + 1} ELSE {}

\* The places in addrTrace of the later entry of the pair compared: ROM compares
\* the prepended subtrace at next_entry_idx and the place after it, RAM one
\* place further on, if it is there.
Pairs(i, idx) ==
  IF Ram THEN {First(i) + idx + 2} \cap (1 .. Last(i)) ELSE {First(i) + idx + 1}

Failing(i, p) ==
  LET cur == Full(i, p - 1 - First(i)) next == Full(i, p - First(i))
  IN  IF Ram THEN RamFailing(cur, next) ELSE RomFailing(cur, next)

\* In RAM an entry's timestamp is one more than that of the entry before it in
\* the time-ordered subtrace.
ClockBroken(i, idx) ==
  /\ Ram /\ idx < Size(i) - 1
  /\ LET p == First(i) + idx + 1 IN trace[p + 1].i # (trace[p].i + 1) % 2^TimeBits

\* The circuit's next get or set.  A set also enforces that its value is the
\* entry's, which the circuit computes as it did for the coordinator.
PmGet(i) ==
  /\ i \in DOMAIN pm /\ ~pm[i].done /\ pm[i].idx < Size(i)
  /\ LET idx   == pm[i].idx
         pairs == Pairs(i, idx)
         bad   == UNION {Failing(i, p) : p \in pairs}
     IN  /\ pm' = [pm EXCEPT ![i] =
                     [idx  |-> idx + 1,
                      time |-> @.time (+) SetToBag({trace[First(i) + idx + 1]}),
                      addr |-> @.addr (+) SetToBag({Full(i, idx + 1)}),
                      done |-> FALSE]]
         /\ compared' = compared \cup pairs
         /\ unsatisfied' = unsatisfied \cup {<<i, c>> : c \in bad}
                             \cup (IF ClockBroken(i, idx) THEN {<<i, "clock">>} ELSE {})
  /\ UNCHANGED <<phase, setupVars, addrTrace, leaves>>

\* The circuit is done: the leaf it ends in must be at its place in the tree,
\* and after the last subcircuit the two evaluations must agree.
Finish(i) ==
  /\ i \in DOMAIN pm /\ ~pm[i].done /\ pm[i].idx = Size(i)
  /\ pm' = [pm EXCEPT ![i].done = TRUE]
  /\ LET leaf == [time |-> pm[i].time, addr |-> pm[i].addr, last |-> Full(i, Size(i))]
     IN  unsatisfied' = unsatisfied
           \cup (IF leaf # leaves[i] THEN {<<i, "leaf">>} ELSE {})
           \cup (IF i = NumSubcircuits /\ pm[i].time # pm[i].addr
                 THEN {<<i, "permutation">>} ELSE {})
  /\ UNCHANGED <<phase, setupVars, addrTrace, leaves, compared>>

-----------------------------------------------------------------------------
Done(i) == i \in DOMAIN pm /\ pm[i].done

AllProved == \A i \in Subcircuit : Done(i)

Terminated == (AllProved \/ phase = "panicked") /\ UNCHANGED vars

Setup ==
  \/ StartSubtrace
  \/ \E n \in Names : SetupGet(n) \/ \E v \in Vals : SetupSet(n, v)

Stage1(i) == StartStage1(i) \/ PmGet(i) \/ Finish(i)

Next ==
  \/ Setup \/ SortByAddr \/ GenExecTree
  \/ \E i \in Subcircuit : Stage1(i)
  \/ Terminated

Spec == Init /\ [][Next]_vars

-----------------------------------------------------------------------------
(* Properties.                                                              *)

\* The trace is that of a memory: a read of RAM returns what was last written
\* at its address, and all entries of a ROM address have one value; distinct
\* addresses tell apart the wires.
MemoryConsistent ==
  \A p \in DOMAIN trace :
    IF Ram
    THEN trace[p].read =>
           \E q \in 1 .. p - 1 :
             /\ trace[q].addr = trace[p].addr /\ ~trace[q].read
             /\ trace[q].val = trace[p].val
             /\ \A r \in q + 1 .. p - 1 : trace[r].addr = trace[p].addr => trace[r].read
    ELSE \A q \in 1 .. p - 1 : trace[q].addr = trace[p].addr => trace[q].val = trace[p].val

\* The trace of a circuit that runs satisfies the constraints of every
\* subcircuit, whatever the cuts (empty subtraces too) and the order the
\* subcircuits are proved in, as long as no timestamp is used twice.
Satisfied == (Ram => Len(trace) <= 2^TimeBits) => unsatisfied = {}

\* The subcircuits together constrain every entry of the address-ordered trace
\* against the entry before it, the padding entry before the first.
PairsCompared == AllProved => compared = DOMAIN addrTrace

\* What is constrained in the end, in whatever order the subcircuits are proved:
\* with ROM wires every entry against the one before it, across the cuts too;
\* with RAM wires the entries within each subtrace, the first of each being left.
NeighboursCompared ==
  AllProved =>
    compared = IF Ram THEN UNION {First(i) + 2 .. Last(i) : i \in Subcircuit}
               ELSE DOMAIN addrTrace
=============================================================================
