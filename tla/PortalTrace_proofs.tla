-------------------------- MODULE PortalTrace_proofs --------------------------
(***************************************************************************)
(* Theorems about the portal wires: the trace of a circuit that runs is    *)
(* that of a memory, it satisfies every constraint the subcircuits prove   *)
(* about it, and which neighbours they compare.  They hold for all wires,  *)
(* traces of any length, ways to cut them and orders to prove in.          *)
(***************************************************************************)
EXTENDS PortalTrace, FiniteSetTheorems, WellFoundedInduction, TLAPS

-----------------------------------------------------------------------------
(* The inductive invariant.                                                 *)

EntryType ==
  IF Ram THEN [addr : Nat, val : Vals, i : Nat, read : BOOLEAN] ELSE [addr : Nat, val : Vals]

TypeInv ==
  /\ circuit \in Circuits
  /\ phase \in {"setup", "sorted", "stage1", "panicked"}
  /\ trace \in Seq(EntryType) /\ starts \in Seq(Nat)
  /\ varMap \in [Names -> Vals \cup {None}] /\ address \in [Names -> Nat]
  /\ nextAddr \in Nat \ {0} /\ time \in Nat

\* The cuts are in order, the first at the start, nothing is logged before it.
CutsInv ==
  /\ Len(starts) <= NumSubcircuits
  /\ phase # "setup" => Len(starts) = NumSubcircuits
  /\ starts = <<>> => trace = <<>>
  /\ \A i \in DOMAIN starts : starts[i] <= Len(trace) /\ (i = 1 => starts[i] = 0)
  /\ \A i, j \in DOMAIN starts : i <= j => starts[i] <= starts[j]

\* Addresses are dealt out one by one, to a wire when it is first set.
AddressInv ==
  /\ \A n \in Names : (varMap[n] # None <=> address[n] # 0) /\ address[n] < nextAddr
  /\ \A n, m \in Names : address[n] # 0 /\ address[n] = address[m] => n = m
  /\ \A p \in DOMAIN trace : trace[p].addr \in 1 .. nextAddr - 1
  /\ \A a \in 1 .. nextAddr - 1 : \E p \in DOMAIN trace : trace[p].addr = a

\* Place q is the last write of RAM at address a before place p.
LastWrite(q, a, p) ==
  /\ q \in 1 .. p - 1
  /\ trace[q].addr = a /\ ~trace[q].read
  /\ \A r \in q + 1 .. p - 1 : trace[r].addr = a => trace[r].read

\* The map of the setup manager holds what the trace has last at the address.
MapInv ==
  \A n \in Names : address[n] # 0 =>
    IF Ram THEN \E q \in DOMAIN trace : LastWrite(q, address[n], Len(trace) + 1)
                                          /\ trace[q].val = varMap[n]
           ELSE \A q \in DOMAIN trace : trace[q].addr = address[n] => trace[q].val = varMap[n]

\* No timestamp is used twice.
Fits == Ram => Len(trace) <= 2^TimeBits

\* As long as the clock has not wrapped around, entries bear their places.
ClockInv ==
  Ram =>
    /\ Len(trace) <= 2^TimeBits => \A p \in DOMAIN trace : trace[p].i = p - 1
    /\ Len(trace) < 2^TimeBits => time = Len(trace)

TreeInv ==
  /\ phase \in {"sorted", "stage1"} =>
       trace # <<>> /\ addrTrace = [k \in DOMAIN trace |-> trace[Source(k)]]
  /\ phase = "stage1" => leaves = [i \in Subcircuit |-> LeafAfter(i)]

\* A manager's evaluations are over the entries before its place, from the first
\* of the whole trace on.
ManagerInv ==
  /\ DOMAIN pm \subseteq Subcircuit /\ pm = [i \in DOMAIN pm |-> pm[i]]
  /\ phase # "stage1" => DOMAIN pm = {} /\ unsatisfied = {}
  /\ \A i \in DOMAIN pm :
       /\ pm[i].idx \in 0 .. Size(i) /\ pm[i].done \in BOOLEAN
       /\ pm[i] = [idx  |-> pm[i].idx,
                   time |-> Eval(trace, First(i) + pm[i].idx),
                   addr |-> Eval(addrTrace, First(i) + pm[i].idx),
                   done |-> pm[i].done]
       /\ pm[i].done => pm[i].idx = Size(i)

ComparedInv ==
  compared = UNION {UNION {Pairs(i, k) : k \in 0 .. pm[i].idx - 1} : i \in DOMAIN pm}

SetupInv == TypeInv /\ CutsInv /\ AddressInv /\ MemoryConsistent /\ MapInv /\ ClockInv
IInv == SetupInv /\ TreeInv /\ ManagerInv /\ ComparedInv /\ Satisfied

-----------------------------------------------------------------------------
(* The coordinator's run.                                                   *)

\* As many timestamps as sets of bits of one.
LEMMA ModulusIs == 2^TimeBits \in Nat \ {0}
<1> DEFINE B == 1 .. TimeBits
<1>1. IsFiniteSet(B) /\ Cardinality(B) = TimeBits
  <2>1. TimeBits \in Nat
    BY PortalAssumption
  <2> QED
    BY <2>1, FS_Interval
<1>2. IsFiniteSet(SUBSET B) /\ Cardinality(SUBSET B) = 2^TimeBits
  BY <1>1, FS_SUBSET
<1>3. SUBSET B # {}
  OBVIOUS
<1> HIDE DEF B
<1> QED
  BY <1>2, <1>3, FS_CardinalityType, FS_EmptySet

LEMMA BeforeWrap ==
  ASSUME NEW m \in Nat \ {0}, NEW x \in Nat, x < m
  PROVE  x % m = x
  OBVIOUS

LEMMA ModuloIs ==
  ASSUME NEW m \in Nat \ {0}, NEW x \in Nat
  PROVE  x % m \in Nat
  OBVIOUS

LEMMA InitIInv == Init => IInv
<1> SUFFICES ASSUME Init PROVE IInv
  OBVIOUS
<1> USE DEF Init
<1>1. TypeInv
  BY DEF TypeInv
<1>2. CutsInv
  BY PortalAssumption DEF CutsInv, NumSubcircuits
<1>3. AddressInv
  BY DEF AddressInv
<1>4. MemoryConsistent /\ MapInv
  BY DEF MemoryConsistent, MapInv
<1>5. ClockInv
  BY DEF ClockInv
<1>6. TreeInv /\ Satisfied
  BY DEF TreeInv, Satisfied
<1>7. DOMAIN pm = {} /\ pm = [i \in DOMAIN pm |-> pm[i]]
  OBVIOUS
<1>8. ManagerInv
  BY <1>7 DEF ManagerInv
<1>9. ComparedInv
  BY <1>7 DEF ComparedInv
<1> QED
  BY <1>1, <1>2, <1>3, <1>4, <1>5, <1>6, <1>8, <1>9 DEF IInv, SetupInv

\* A new entry.
LEMMA LogIs ==
  ASSUME TypeInv, NEW addr \in Nat, NEW val \in Vals, NEW read \in BOOLEAN,
         Log(addr, val, read), circuit' = circuit
  PROVE  /\ starts # <<>>
         /\ trace' \in Seq(EntryType) /\ EntryType' = EntryType
         /\ Ram' = Ram /\ Ram \in BOOLEAN
         /\ Len(trace') = Len(trace) + 1 /\ Len(trace) \in Nat
         /\ DOMAIN trace = 1 .. Len(trace) /\ DOMAIN trace' = 1 .. Len(trace) + 1
         /\ \A p \in DOMAIN trace : trace'[p] = trace[p]
         /\ trace'[Len(trace) + 1].addr = addr /\ trace'[Len(trace) + 1].val = val
         /\ Ram => /\ trace'[Len(trace) + 1].i = time /\ trace'[Len(trace) + 1].read = read
                   /\ time' = (time + 1) % 2^TimeBits
         /\ time' \in Nat
<1>1. Ram' = Ram /\ Ram \in BOOLEAN /\ EntryType' = EntryType
  BY DEF Ram, EntryType
<1>2. Entry(addr, val, time, read) \in EntryType
  BY DEF Entry, EntryType, TypeInv
<1>3. trace \in Seq(EntryType) /\ trace' = Append(trace, Entry(addr, val, time, read))
  BY DEF Log, TypeInv
<1>4. time' \in Nat
  <2>1. time + 1 \in Nat /\ time \in Nat
    BY DEF TypeInv
  <2> QED
    BY <2>1, ModulusIs, ModuloIs DEF Log
<1> QED
  BY <1>1, <1>2, <1>3, <1>4 DEF Log, Entry

\* The value of a new entry is the one the memory holds at its address, unless
\* it is a write.
Holds(addr, val, read) ==
  IF Ram THEN read => \E q \in DOMAIN trace : LastWrite(q, addr, Len(trace) + 1)
                                                /\ trace[q].val = val
         ELSE \A q \in DOMAIN trace : trace[q].addr = addr => trace[q].val = val

LEMMA MemoryStep ==
  ASSUME TypeInv, MemoryConsistent, NEW addr \in Nat, NEW val \in Vals, NEW read \in BOOLEAN,
         Log(addr, val, read), circuit' = circuit, Holds(addr, val, read)
  PROVE  /\ MemoryConsistent'
         /\ Ram => \A a, q : LastWrite(q, a, Len(trace) + 1) =>
                     /\ trace'[q] = trace[q]
                     /\ ~(a = addr /\ ~read) => LastWrite(q, a, Len(trace) + 1)'
<1> DEFINE n == Len(trace)
<1>1. /\ n \in Nat /\ Ram' = Ram /\ Len(trace') = n + 1
      /\ DOMAIN trace = 1 .. n /\ DOMAIN trace' = 1 .. n + 1
      /\ \A p \in 1 .. n : trace'[p] = trace[p]
      /\ trace'[n + 1].addr = addr /\ trace'[n + 1].val = val
      /\ Ram => trace'[n + 1].read = read
  BY LogIs
<1>2. Ram => \A a, q : LastWrite(q, a, n + 1) =>
               /\ trace'[q] = trace[q]
               /\ ~(a = addr /\ ~read) => LastWrite(q, a, Len(trace) + 1)'
  <2> SUFFICES ASSUME Ram, NEW a, NEW q, LastWrite(q, a, n + 1)
               PROVE  /\ trace'[q] = trace[q]
                      /\ ~(a = addr /\ ~read) => LastWrite(q, a, Len(trace) + 1)'
    OBVIOUS
  <2>1. /\ q \in 1 .. n /\ trace[q].addr = a /\ ~trace[q].read
        /\ \A r \in q + 1 .. n : trace[r].addr = a => trace[r].read
    BY <1>1 DEF LastWrite
  <2>2. ASSUME ~(a = addr /\ ~read), NEW r \in q + 1 .. n + 1, trace'[r].addr = a
        PROVE  trace'[r].read
    <3>1. CASE r = n + 1
      BY <1>1, <2>2, <3>1
    <3>2. CASE r # n + 1
      <4>1. r \in 1 .. n /\ r \in q + 1 .. n
        BY <1>1, <2>1, <3>2
      <4> QED
        BY <1>1, <2>1, <2>2, <4>1
    <3> QED
      BY <3>1, <3>2
  <2>3. q \in 1 .. (n + 2) - 1 /\ trace'[q] = trace[q]
    BY <1>1, <2>1
  <2> QED
    BY <1>1, <2>1, <2>2, <2>3 DEF LastWrite
<1>3. \A p \in 1 .. n : \A q \in 1 .. p - 1 : q \in 1 .. n /\ trace'[q] = trace[q]
  BY <1>1
<1>4. CASE Ram
  <2>1. ASSUME NEW p \in 1 .. n, trace'[p].read
        PROVE  \E q \in 1 .. p - 1 :
                 /\ trace'[q].addr = trace'[p].addr /\ ~trace'[q].read
                 /\ trace'[q].val = trace'[p].val
                 /\ \A r \in q + 1 .. p - 1 : trace'[r].addr = trace'[p].addr => trace'[r].read
    <3>1. PICK q \in 1 .. p - 1 :
                 /\ trace[q].addr = trace[p].addr /\ ~trace[q].read
                 /\ trace[q].val = trace[p].val
                 /\ \A r \in q + 1 .. p - 1 : trace[r].addr = trace[p].addr => trace[r].read
      BY <1>1, <1>4, <2>1 DEF MemoryConsistent
    <3>2. \A r \in q + 1 .. p - 1 : r \in 1 .. n
      BY <1>1
    <3> QED
      BY <1>1, <3>1, <3>2
  <2>2. ASSUME read
        PROVE  \E q \in 1 .. n :
                 /\ trace'[q].addr = addr /\ ~trace'[q].read
                 /\ trace'[q].val = val
                 /\ \A r \in q + 1 .. n : trace'[r].addr = addr => trace'[r].read
    <3>1. PICK q \in DOMAIN trace : LastWrite(q, addr, n + 1) /\ trace[q].val = val
      BY <1>4, <2>2 DEF Holds
    <3>2. \A r \in q + 1 .. n : r \in 1 .. n
      BY <1>1, <3>1
    <3>3. /\ trace[q].addr = addr /\ ~trace[q].read
          /\ \A r \in q + 1 .. n : trace[r].addr = addr => trace[r].read
      BY <1>1, <3>1 DEF LastWrite
    <3> QED
      BY <1>1, <3>1, <3>2, <3>3
  <2>3. MemoryConsistent'
    BY <1>1, <1>4, <2>1, <2>2 DEF MemoryConsistent
  <2> QED
    BY <1>2, <2>3
<1>5. CASE ~Ram
  <2>1. ASSUME NEW p \in 1 .. n + 1, NEW q \in 1 .. p - 1, trace'[q].addr = trace'[p].addr
        PROVE  trace'[q].val = trace'[p].val
    <3>1. CASE p = n + 1
      BY <1>1, <1>5, <2>1, <3>1 DEF Holds
    <3>2. CASE p # n + 1
      <4>1. p \in 1 .. n /\ q \in 1 .. n
        BY <1>1, <3>2
      <4> QED
        BY <1>1, <1>5, <2>1, <4>1 DEF MemoryConsistent
    <3> QED
      BY <3>1, <3>2
  <2>2. MemoryConsistent'
    BY <1>1, <1>5, <2>1 DEF MemoryConsistent
  <2> QED
    BY <1>5, <2>2
<1> QED
  BY <1>4, <1>5

\* What the managers are at is not touched before they start.
LEMMA SetupRest ==
  ASSUME IInv, phase # "stage1", phase' # "stage1", phase' # "sorted", UNCHANGED <<circuit, proverVars>>
  PROVE  TreeInv' /\ ManagerInv' /\ ComparedInv' /\ Satisfied'
<1>1. DOMAIN pm = {} /\ unsatisfied = {} /\ compared = {} /\ pm = [i \in DOMAIN pm |-> pm[i]]
  BY DEF IInv, ManagerInv, ComparedInv
<1>2. pm' = pm /\ unsatisfied' = unsatisfied /\ compared' = compared
  BY DEF proverVars
<1>3. TreeInv' /\ Satisfied'
  BY <1>1, <1>2 DEF TreeInv, Satisfied
<1>4. DOMAIN pm' = {} /\ pm' = [i \in DOMAIN pm' |-> pm'[i]] /\ unsatisfied' = {} /\ compared' = {}
  BY <1>1, <1>2
<1>5. ManagerInv'
  BY <1>4 DEF ManagerInv
<1>6. ComparedInv'
  BY <1>4 DEF ComparedInv
<1> QED
  BY <1>3, <1>5, <1>6

LEMMA StartSubtraceIInv == IInv /\ StartSubtrace => IInv'
<1> SUFFICES ASSUME IInv, StartSubtrace PROVE IInv'
  OBVIOUS
<1>1. /\ phase = "setup" /\ phase' = phase /\ Len(starts) < NumSubcircuits
      /\ starts' = Append(starts, Len(trace))
      /\ UNCHANGED <<circuit, trace, varMap, address, nextAddr, time, proverVars>>
  BY DEF StartSubtrace
<1>2. /\ circuit \in Circuits /\ trace \in Seq(EntryType) /\ starts \in Seq(Nat)
      /\ NumSubcircuits \in Nat
  BY PortalAssumption DEF IInv, SetupInv, TypeInv, NumSubcircuits
<1>3. Ram' = Ram /\ EntryType' = EntryType
  BY <1>1 DEF Ram, EntryType
<1>4. Len(trace) \in Nat
  BY <1>2
<1>5. TypeInv'
  BY <1>1, <1>2, <1>3, <1>4 DEF IInv, SetupInv, TypeInv
<1>6. CutsInv'
  <2>1. /\ DOMAIN starts = 1 .. Len(starts) /\ DOMAIN starts' = 1 .. Len(starts) + 1
        /\ Len(starts') = Len(starts) + 1 /\ Len(starts) \in Nat
        /\ \A i \in DOMAIN starts : starts'[i] = starts[i] /\ starts[i] \in Nat
        /\ starts'[Len(starts) + 1] = Len(trace)
        /\ starts' # <<>>
    BY <1>1, <1>2, <1>4
  <2>2. Len(starts') <= NumSubcircuits'
    BY <1>1, <1>2, <2>1 DEF NumSubcircuits
  <2>3. \A i \in DOMAIN starts' : starts'[i] <= Len(trace) /\ (i = 1 => starts'[i] = 0)
    <3>1. Len(starts) = 0 => Len(trace) = 0
      BY <1>2 DEF IInv, SetupInv, CutsInv
    <3> QED
      BY <1>4, <2>1, <3>1 DEF IInv, SetupInv, CutsInv
  <2>4. \A i, j \in DOMAIN starts' : i <= j => starts'[i] <= starts'[j]
    BY <1>4, <2>1 DEF IInv, SetupInv, CutsInv
  <2> QED
    BY <1>1, <2>1, <2>2, <2>3, <2>4 DEF CutsInv
<1>7. AddressInv' /\ MemoryConsistent' /\ MapInv' /\ ClockInv'
  BY <1>1, <1>3 DEF IInv, SetupInv, AddressInv, MemoryConsistent, MapInv, LastWrite, ClockInv
<1> QED
  BY <1>1, <1>5, <1>6, <1>7, SetupRest DEF IInv, SetupInv

\* The cuts and the clock after a new entry.
LEMMA LogStep ==
  ASSUME SetupInv, NEW addr \in Nat, NEW val \in Vals, NEW read \in BOOLEAN,
         Log(addr, val, read), UNCHANGED <<circuit, starts, phase>>
  PROVE  CutsInv' /\ ClockInv'
<1>1. /\ Len(trace) \in Nat /\ Ram' = Ram /\ Len(trace') = Len(trace) + 1 /\ starts # <<>>
      /\ DOMAIN trace = 1 .. Len(trace) /\ DOMAIN trace' = 1 .. Len(trace) + 1
      /\ \A p \in DOMAIN trace : trace'[p] = trace[p]
      /\ Ram => trace'[Len(trace) + 1].i = time /\ time' = (time + 1) % 2^TimeBits
  BY LogIs DEF SetupInv
<1>2. CutsInv'
  <2>1. \A i \in DOMAIN starts : starts[i] \in Nat
    BY DEF SetupInv, TypeInv
  <2> QED
    BY <1>1, <2>1 DEF SetupInv, CutsInv, NumSubcircuits
<1>3. ClockInv'
  <2> DEFINE m == 2^TimeBits
  <2>1. m \in Nat \ {0}
    BY ModulusIs
  <2>2. \A x \in Nat : x < m => x % m = x
    BY <2>1, BeforeWrap
  <2> HIDE DEF m
  <2>3. Ram /\ Len(trace') <= m => \A p \in DOMAIN trace' : trace'[p].i = p - 1
    BY <1>1, <2>1 DEF SetupInv, ClockInv, m
  <2>4. Ram /\ Len(trace') < m => time' = Len(trace')
    BY <1>1, <2>1, <2>2 DEF SetupInv, ClockInv, m
  <2> QED
    BY <1>1, <2>3, <2>4 DEF ClockInv, m
<1> QED
  BY <1>2, <1>3

LEMMA SetupGetIInv == ASSUME IInv, NEW n \in Names, SetupGet(n) PROVE IInv'
<1>1. /\ phase = "setup" /\ varMap[n] # None /\ Log(address[n], varMap[n], TRUE)
      /\ UNCHANGED <<phase, circuit, starts, varMap, address, nextAddr, proverVars>>
  BY DEF SetupGet
<1>2. /\ address[n] \in Nat /\ address[n] # 0 /\ address[n] < nextAddr /\ nextAddr \in Nat
      /\ varMap[n] \in Vals
  BY <1>1 DEF IInv, SetupInv, TypeInv, AddressInv
<1>3. /\ Len(trace) \in Nat /\ Ram' = Ram /\ Len(trace') = Len(trace) + 1
      /\ trace' \in Seq(EntryType) /\ EntryType' = EntryType /\ time' \in Nat
      /\ DOMAIN trace = 1 .. Len(trace) /\ DOMAIN trace' = 1 .. Len(trace) + 1
      /\ \A p \in DOMAIN trace : trace'[p] = trace[p]
      /\ trace'[Len(trace) + 1].addr = address[n] /\ trace'[Len(trace) + 1].val = varMap[n]
  BY <1>1, <1>2, LogIs DEF IInv, SetupInv
<1>4. Holds(address[n], varMap[n], TRUE)
  BY <1>2 DEF Holds, IInv, SetupInv, MapInv
<1>5. /\ MemoryConsistent'
      /\ Ram => \A a, q : LastWrite(q, a, Len(trace) + 1) =>
                  trace'[q] = trace[q] /\ LastWrite(q, a, Len(trace) + 1)'
  BY <1>1, <1>2, <1>4, MemoryStep DEF IInv, SetupInv
<1>6. TypeInv'
  BY <1>1, <1>3 DEF IInv, SetupInv, TypeInv
<1>7. AddressInv'
  <2>1. \A p \in DOMAIN trace' : trace'[p].addr \in 1 .. nextAddr - 1
    BY <1>2, <1>3 DEF IInv, SetupInv, AddressInv
  <2>2. \A b \in 1 .. nextAddr - 1 : \E p \in DOMAIN trace' : trace'[p].addr = b
    BY <1>3 DEF IInv, SetupInv, AddressInv
  <2> QED
    BY <1>1, <2>1, <2>2 DEF IInv, SetupInv, AddressInv
<1>8. MapInv'
  <2> SUFFICES ASSUME NEW m \in Names, address[m] # 0
               PROVE  IF Ram THEN \E q \in DOMAIN trace' :
                                    LastWrite(q, address[m], Len(trace) + 1)' /\ trace'[q].val = varMap[m]
                             ELSE \A q \in DOMAIN trace' :
                                    trace'[q].addr = address[m] => trace'[q].val = varMap[m]
    BY <1>1, <1>3 DEF MapInv
  <2>1. CASE Ram
    BY <1>1, <1>3, <1>5, <2>1 DEF IInv, SetupInv, MapInv
  <2>2. CASE ~Ram
    <3>1. address[n] = address[m] => n = m
      BY <1>2 DEF IInv, SetupInv, AddressInv
    <3> QED
      BY <1>3, <2>2, <3>1 DEF IInv, SetupInv, MapInv
  <2> QED
    BY <2>1, <2>2
<1>9. CutsInv' /\ ClockInv'
  BY <1>1, <1>2, LogStep DEF IInv
<1> QED
  BY <1>1, <1>5, <1>6, <1>7, <1>8, <1>9, SetupRest DEF IInv, SetupInv

LEMMA WithinRange ==
  ASSUME NEW x, NEW y, x \in Nat /\ x # 0 /\ x < y /\ y \in Nat
  PROVE  x \in 1 .. y - 1
  OBVIOUS

LEMMA SetupSetIInv == ASSUME IInv, NEW n \in Names, NEW v \in Vals, SetupSet(n, v) PROVE IInv'
<1> DEFINE a == NameToAddr(n)
<1>1. /\ phase = "setup" /\ (Ram \/ varMap[n] = None) /\ Log(a, v, FALSE)
      /\ varMap' = [varMap EXCEPT ![n] = v] /\ address' = [address EXCEPT ![n] = a]
      /\ nextAddr' = AddrAfter(n)
      /\ UNCHANGED <<phase, circuit, starts, proverVars>>
  BY DEF SetupSet
<1>2. /\ nextAddr \in Nat /\ nextAddr # 0 /\ varMap \in [Names -> Vals \cup {None}]
      /\ address \in [Names -> Nat] /\ v # None
  BY PortalAssumption DEF IInv, SetupInv, TypeInv
<1>3. /\ a \in Nat /\ a # 0 /\ a < nextAddr' /\ nextAddr <= nextAddr' /\ nextAddr' \in Nat
      /\ nextAddr' = nextAddr \/ (nextAddr' = nextAddr + 1 /\ a = nextAddr)
      /\ address[n] # 0 => a = address[n]
      /\ \A m \in Names : m # n /\ address[m] # 0 => address[m] # a
  BY <1>1, <1>2 DEF NameToAddr, AddrAfter, IInv, SetupInv, AddressInv
<1>4. /\ \A m \in Names : m # n => address'[m] = address[m] /\ varMap'[m] = varMap[m]
      /\ address'[n] = a /\ varMap'[n] = v
  BY <1>1, <1>2
<1> HIDE DEF a
<1>5. /\ Len(trace) \in Nat /\ Ram' = Ram /\ Len(trace') = Len(trace) + 1
      /\ trace' \in Seq(EntryType) /\ EntryType' = EntryType /\ time' \in Nat
      /\ DOMAIN trace = 1 .. Len(trace) /\ DOMAIN trace' = 1 .. Len(trace) + 1
      /\ \A p \in DOMAIN trace : trace'[p] = trace[p]
      /\ trace'[Len(trace) + 1].addr = a /\ trace'[Len(trace) + 1].val = v
      /\ Ram => trace'[Len(trace) + 1].read = FALSE
  BY <1>1, <1>3, LogIs DEF IInv, SetupInv
<1>6. ~Ram => address[n] = 0 /\ a = nextAddr
  BY <1>1, <1>2 DEF IInv, SetupInv, AddressInv, NameToAddr, a
<1>7. Holds(a, v, FALSE)
  <2>1. \A q \in DOMAIN trace : ~Ram => trace[q].addr # a
    BY <1>2, <1>6 DEF IInv, SetupInv, AddressInv
  <2> QED
    BY <2>1 DEF Holds
<1>8. /\ MemoryConsistent'
      /\ Ram => \A b, q : LastWrite(q, b, Len(trace) + 1) =>
                  trace'[q] = trace[q] /\ (b # a => LastWrite(q, b, Len(trace) + 1)')
  BY <1>1, <1>3, <1>7, MemoryStep DEF IInv, SetupInv
<1>9. TypeInv'
  BY <1>1, <1>2, <1>3, <1>5 DEF IInv, SetupInv, TypeInv
<1>10. AddressInv'
  <2>1. \A m \in Names : (varMap'[m] # None <=> address'[m] # 0) /\ address'[m] < nextAddr'
    BY <1>2, <1>3, <1>4 DEF IInv, SetupInv, AddressInv
  <2>2. \A m, l \in Names : address'[m] # 0 /\ address'[m] = address'[l] => m = l
    BY <1>3, <1>4 DEF IInv, SetupInv, AddressInv
  <2>3. \A p \in DOMAIN trace' : trace'[p].addr \in 1 .. nextAddr' - 1
    <3>0. a \in Nat /\ a # 0 /\ a < nextAddr' /\ nextAddr' \in Nat
      BY <1>3
    <3>1. a \in 1 .. nextAddr' - 1
      BY <3>0, WithinRange
    <3>2. \A b \in 1 .. nextAddr - 1 : b \in 1 .. nextAddr' - 1
      <4>1. nextAddr <= nextAddr' /\ nextAddr' \in Nat
        BY <1>3
      <4>2. \A b \in 1 .. nextAddr - 1 : b \in Nat /\ b # 0 /\ b < nextAddr'
        BY <1>2, <4>1
      <4> QED
        BY <4>1, <4>2, WithinRange
    <3>3. \A p \in DOMAIN trace : trace[p].addr \in 1 .. nextAddr - 1
      BY DEF IInv, SetupInv, AddressInv
    <3> QED
      BY <1>5, <3>1, <3>2, <3>3
  <2>4. \A b \in 1 .. nextAddr' - 1 : \E p \in DOMAIN trace' : trace'[p].addr = b
    <3> TAKE b \in 1 .. nextAddr' - 1
    <3>1. CASE b = a
      BY <1>5, <3>1
    <3>2. CASE b # a
      <4>1. b \in 1 .. nextAddr - 1
        <5>1. nextAddr' = nextAddr \/ (nextAddr' = nextAddr + 1 /\ a = nextAddr)
          BY <1>3
        <5> QED
          BY <1>2, <3>2, <5>1
      <4>2. PICK p \in DOMAIN trace : trace[p].addr = b
        BY <4>1 DEF IInv, SetupInv, AddressInv
      <4> QED
        BY <1>5, <4>2
    <3> QED
      BY <3>1, <3>2
  <2> QED
    BY <2>1, <2>2, <2>3, <2>4 DEF AddressInv
<1>11. MapInv'
  <2> SUFFICES ASSUME NEW m \in Names, address'[m] # 0
               PROVE  IF Ram THEN \E q \in DOMAIN trace' :
                                    LastWrite(q, address[m], Len(trace) + 1)' /\ trace'[q].val = varMap'[m]
                             ELSE \A q \in DOMAIN trace' :
                                    trace'[q].addr = address'[m] => trace'[q].val = varMap'[m]
    BY <1>5 DEF MapInv
  <2>1. CASE Ram /\ m = n
    <3>1. \A q, b : q = Len(trace) + 1 /\ b = a => LastWrite(q, b, Len(trace) + 1)'
      BY <1>5, <2>1 DEF LastWrite
    <3> QED
      BY <1>4, <1>5, <2>1, <3>1
  <2>2. CASE Ram /\ m # n
    <3>1. address'[m] = address[m] /\ varMap'[m] = varMap[m] /\ address[m] # a
      BY <1>3, <1>4, <2>2
    <3>2. PICK q \in DOMAIN trace : LastWrite(q, address[m], Len(trace) + 1) /\ trace[q].val = varMap[m]
      BY <2>2, <3>1 DEF IInv, SetupInv, MapInv
    <3>3. trace'[q] = trace[q] /\ q \in DOMAIN trace'
      BY <1>5
    <3>4. LastWrite(q, address[m], Len(trace) + 1)'
      BY <1>8, <2>2, <3>1, <3>2
    <3> QED
      BY <2>2, <3>1, <3>2, <3>3, <3>4
  <2>3. CASE ~Ram
    <3>1. \A q \in DOMAIN trace : trace[q].addr # a
      BY <1>2, <1>6, <2>3 DEF IInv, SetupInv, AddressInv
    <3> QED
      BY <1>3, <1>4, <1>5, <2>3, <3>1 DEF IInv, SetupInv, MapInv
  <2> QED
    BY <2>1, <2>2, <2>3
<1>12. CutsInv' /\ ClockInv'
  BY <1>1, <1>3, LogStep DEF IInv
<1> QED
  BY <1>1, <1>8, <1>9, <1>10, <1>11, <1>12, SetupRest DEF IInv, SetupInv

-----------------------------------------------------------------------------
(* The sort.                                                                *)

LEMMA TraceIs ==
  ASSUME TypeInv
  PROVE  /\ Len(trace) \in Nat /\ DOMAIN trace = 1 .. Len(trace)
         /\ \A p \in DOMAIN trace :
              /\ trace[p] \in EntryType /\ trace[p].addr \in Nat
              /\ Ram => trace[p].i \in Nat /\ trace[p].read \in BOOLEAN
         /\ Ram \in BOOLEAN
<1>1. \A e \in EntryType : e.addr \in Nat /\ (Ram => e.i \in Nat /\ e.read \in BOOLEAN)
  BY DEF EntryType
<1>2. trace \in Seq(EntryType)
  BY DEF TypeInv
<1> QED
  BY <1>1, <1>2 DEF Ram

\* The order of the sort is a strict and total one.
LEMMA BeforeIs ==
  ASSUME TypeInv
  PROVE  /\ \A p \in DOMAIN trace : ~Before(p, p)
         /\ \A p, q \in DOMAIN trace : p # q => Before(p, q) \/ Before(q, p)
         /\ \A p, q, r \in DOMAIN trace : Before(p, q) /\ Before(q, r) => Before(p, r)
         /\ \A p, q \in DOMAIN trace : Before(p, q) => trace[p].addr <= trace[q].addr
<1>1. \A p \in DOMAIN trace : p \in Nat /\ trace[p].addr \in Nat /\ (Ram => trace[p].i \in Nat)
  BY TraceIs
<1>2. CASE Ram
  <2>1. \A p, q \in DOMAIN trace :
          Before(p, q) <=> \/ trace[p].addr < trace[q].addr
                           \/ trace[p].addr = trace[q].addr /\ trace[p].i < trace[q].i
                           \/ trace[p].addr = trace[q].addr /\ trace[p].i = trace[q].i /\ p < q
    BY <1>1, <1>2 DEF Before, KeyLess
  <2> QED
    BY <1>1, <1>2, <2>1
<1>3. CASE ~Ram
  <2>1. \A p, q \in DOMAIN trace :
          Before(p, q) <=> \/ trace[p].addr < trace[q].addr
                           \/ trace[p].addr = trace[q].addr /\ p < q
    BY <1>1, <1>3 DEF Before, KeyLess
  <2> QED
    BY <1>1, <2>1
<1> QED
  BY <1>2, <1>3

Preceding(p) == {q \in DOMAIN trace : Before(q, p)}

\* How many entries precede one is its own, and less for those that precede it.
LEMMA RankIs ==
  ASSUME TypeInv
  PROVE  /\ \A p \in DOMAIN trace : Cardinality(Preceding(p)) \in 0 .. Len(trace) - 1
         /\ \A p, q \in DOMAIN trace :
              Before(p, q) => Cardinality(Preceding(p)) < Cardinality(Preceding(q))
<1> DEFINE D == DOMAIN trace
<1>1. IsFiniteSet(D) /\ Cardinality(D) = Len(trace) /\ Len(trace) \in Nat
  BY TraceIs, FS_Interval
<1>2. \A p \in D : Preceding(p) \in SUBSET D /\ p \notin Preceding(p)
  BY BeforeIs DEF Preceding
<1> HIDE DEF D
<1>3. \A p \in D : IsFiniteSet(Preceding(p)) /\ Cardinality(Preceding(p)) \in Nat
  BY <1>1, <1>2, FS_Subset, FS_CardinalityType
<1>4. ASSUME NEW p \in D, NEW S \in SUBSET D, Preceding(p) \subseteq S, p \in S
      PROVE  Cardinality(Preceding(p)) < Cardinality(S)
  <2>1. IsFiniteSet(S) /\ Cardinality(S) \in Nat
    BY <1>1, FS_Subset, FS_CardinalityType
  <2>2. Cardinality(Preceding(p)) <= Cardinality(S)
    BY <1>4, <2>1, FS_Subset
  <2>3. Cardinality(Preceding(p)) # Cardinality(S)
    BY <1>2, <1>4, <2>1, FS_Subset
  <2> QED
    BY <1>3, <2>1, <2>2, <2>3
<1>5. \A p \in D : Cardinality(Preceding(p)) \in 0 .. Len(trace) - 1
  <2> TAKE p \in D
  <2>1. Cardinality(Preceding(p)) < Cardinality(D)
    BY <1>2, <1>4
  <2> QED
    BY <1>1, <1>3, <2>1
<1>6. \A p, q \in D : Before(p, q) => Cardinality(Preceding(p)) < Cardinality(Preceding(q))
  <2> SUFFICES ASSUME NEW p \in D, NEW q \in D, Before(p, q)
               PROVE  Cardinality(Preceding(p)) < Cardinality(Preceding(q))
    OBVIOUS
  <2>1. Preceding(p) \subseteq Preceding(q) /\ p \in Preceding(q)
    BY BeforeIs DEF Preceding, D
  <2> QED
    BY <1>2, <1>4, <2>1
<1> QED
  BY <1>5, <1>6 DEF D

\* So the sorted trace is a rearrangement of the trace, in that order.
LEMMA SourceIs ==
  ASSUME TypeInv
  PROVE  /\ \A k \in DOMAIN trace : Source(k) \in DOMAIN trace
         /\ \A p \in DOMAIN trace : \E k \in DOMAIN trace : Source(k) = p
         /\ \A k, l \in DOMAIN trace : k < l => Before(Source(k), Source(l))
<1> DEFINE D == DOMAIN trace
           rank == [p \in D |-> Cardinality(Preceding(p)) + 1]
<1>1. IsFiniteSet(D) /\ D = 1 .. Len(trace) /\ Len(trace) \in Nat
  BY TraceIs, FS_Interval
<1>2. \A p \in D : rank[p] = Cardinality(Preceding(p)) + 1 /\ Cardinality(Preceding(p)) \in Nat
  BY <1>1, RankIs
<1>3. \A p, q \in D : Before(p, q) => rank[p] < rank[q]
  BY <1>2, RankIs
<1>4. rank \in [D -> D]
  BY <1>1, RankIs
<1>5. \A p, q \in D : rank[p] = rank[q] => p = q
  <2> HIDE DEF rank
  <2> QED
    BY <1>1, <1>3, <1>4, BeforeIs
<1>6. rank \in Surjection(D, D)
  <2> HIDE DEF rank, D
  <2>1. rank \in Injection(D, D)
    BY <1>4, <1>5 DEF Injection, IsInjective
  <2> QED
    BY <1>1, <2>1, FS_Injection
<1>7. \A k \in D : \E p \in D : rank[p] = k
  BY <1>6 DEF Surjection
<1>8. \A k \in D : Source(k) \in D /\ rank[Source(k)] = k
  <2> TAKE k \in D
  <2>1. \E p \in D : Cardinality(Preceding(p)) = k - 1
    BY <1>1, <1>2, <1>7
  <2>2. Source(k) \in D /\ Cardinality(Preceding(Source(k))) = k - 1
    BY <2>1 DEF Source, Preceding
  <2> QED
    BY <1>1, <2>2
<1> HIDE DEF rank
<1>9. \A p \in D : \E k \in D : Source(k) = p
  BY <1>4, <1>5, <1>8
<1>10. \A k, l \in D : k < l => Before(Source(k), Source(l))
  BY <1>1, <1>3, <1>8, BeforeIs
<1> QED
  BY <1>8, <1>9, <1>10

-----------------------------------------------------------------------------
(* Neighbours in the sorted trace.                                          *)

\* The sorted trace: places, and addresses in order.
LEMMA SortedIs ==
  ASSUME SetupInv
  PROVE  /\ DOMAIN trace = 1 .. Len(trace) /\ Len(trace) \in Nat /\ nextAddr \in Nat
         /\ \A j \in DOMAIN trace :
              /\ j \in Nat /\ j # 0 /\ Source(j) \in DOMAIN trace /\ Source(j) \in Nat
              /\ trace[Source(j)].addr \in Nat /\ trace[Source(j)].addr # 0
              /\ trace[Source(j)].addr < nextAddr
         /\ \A p \in DOMAIN trace : \E j \in DOMAIN trace : Source(j) = p
         /\ \A j, l \in DOMAIN trace : j < l =>
              /\ Before(Source(j), Source(l))
              /\ trace[Source(j)].addr <= trace[Source(l)].addr
<1>1. TypeInv /\ nextAddr \in Nat
  BY DEF SetupInv, TypeInv
<1>2. DOMAIN trace = 1 .. Len(trace) /\ Len(trace) \in Nat
  BY <1>1, TraceIs
<1>3. \A p \in DOMAIN trace : /\ p \in Nat /\ p # 0 /\ trace[p].addr \in Nat
                              /\ trace[p].addr # 0 /\ trace[p].addr < nextAddr
  BY <1>1, <1>2 DEF SetupInv, AddressInv
<1>4. /\ \A j \in DOMAIN trace : Source(j) \in DOMAIN trace
      /\ \A p \in DOMAIN trace : \E j \in DOMAIN trace : Source(j) = p
      /\ \A j, l \in DOMAIN trace : j < l => Before(Source(j), Source(l))
  BY <1>1, SourceIs
<1>5. \A j, l \in DOMAIN trace : j < l => trace[Source(j)].addr <= trace[Source(l)].addr
  BY <1>1, <1>4, BeforeIs
<1> QED
  BY <1>1, <1>2, <1>3, <1>4, <1>5

\* No address is left out.
LEMMA NextAddress ==
  ASSUME SetupInv, NEW k \in DOMAIN trace
  PROVE  /\ k = 1 => trace[Source(k)].addr = 1
         /\ k # 1 => /\ k - 1 \in DOMAIN trace
                     /\ \/ trace[Source(k)].addr = trace[Source(k - 1)].addr
                        \/ trace[Source(k)].addr = trace[Source(k - 1)].addr + 1
<1> DEFINE addr(j) == trace[Source(j)].addr
           n == Len(trace)
<1>1. /\ n \in Nat /\ k \in 1 .. n /\ nextAddr \in Nat /\ DOMAIN trace = 1 .. n
      /\ \A j \in 1 .. n : addr(j) \in Nat /\ addr(j) # 0 /\ addr(j) < nextAddr
      /\ \A j, l \in 1 .. n : j < l => addr(j) <= addr(l)
  BY SortedIs
<1>2. ASSUME NEW a \in Nat, a # 0, a < addr(k)
      PROVE  \E m \in 1 .. n : m < k /\ addr(m) = a
  <2>1. a \in 1 .. nextAddr - 1
    <3>1. addr(k) \in Nat /\ addr(k) < nextAddr
      BY <1>1
    <3> HIDE DEF addr
    <3> QED
      BY <1>1, <1>2, <3>1
  <2>2. PICK p \in DOMAIN trace : trace[p].addr = a
    BY <2>1 DEF SetupInv, AddressInv
  <2>3. PICK m \in 1 .. n : Source(m) = p
    BY <1>1, SortedIs
  <2>4. addr(m) = a
    BY <2>2, <2>3
  <2> HIDE DEF addr
  <2>5. ~(k < m) /\ m # k
    BY <1>1, <1>2, <2>4
  <2> QED
    BY <1>1, <2>4, <2>5
<1> HIDE DEF addr, n
<1>3. CASE k = 1
  <2>1. addr(k) \in Nat /\ addr(k) # 0 /\ ~(1 < addr(k))
    BY <1>1, <1>2, <1>3
  <2>2. addr(k) = 1
    BY <2>1
  <2> QED
    BY <1>3, <2>2 DEF addr
<1>4. CASE k # 1
  <2>1. k - 1 \in 1 .. n /\ k - 1 < k
    BY <1>1, <1>4
  <2>2. addr(k - 1) <= addr(k) /\ addr(k - 1) \in Nat /\ addr(k) \in Nat
    BY <1>1, <2>1
  <2>3. ~(addr(k - 1) + 1 < addr(k))
    <3> SUFFICES ASSUME addr(k - 1) + 1 < addr(k) PROVE FALSE
      OBVIOUS
    <3>1. PICK m \in 1 .. n : m < k /\ addr(m) = addr(k - 1) + 1
      BY <1>2, <2>2
    <3>2. m = k - 1 \/ m < k - 1
      BY <1>1, <2>1, <3>1
    <3> QED
      BY <1>1, <2>1, <2>2, <3>1, <3>2
  <2>4. addr(k) = addr(k - 1) \/ addr(k) = addr(k - 1) + 1
    BY <2>2, <2>3
  <2> QED
    BY <1>1, <1>4, <2>1, <2>4 DEF addr
<1> QED
  BY <1>3, <1>4

\* The entries of one address lie in the order they were logged in.
LEMMA BeforeSame ==
  ASSUME SetupInv, Ram, Fits, NEW p \in DOMAIN trace, NEW q \in DOMAIN trace,
         trace[p].addr = trace[q].addr
  PROVE  /\ Before(p, q) <=> p < q
         /\ p < q => trace[p].i < trace[q].i
<1>1. trace[p].i = p - 1 /\ trace[q].i = q - 1 /\ p \in Nat /\ q \in Nat
  BY TraceIs DEF SetupInv, ClockInv, Fits
<1>2. trace[p].addr \in Nat
  BY TraceIs DEF SetupInv
<1> QED
  BY <1>1, <1>2 DEF Before, KeyLess

\* A read lies behind an entry of its address and value.
LEMMA NextRead ==
  ASSUME SetupInv, Ram, Fits, NEW k \in DOMAIN trace, trace[Source(k)].read
  PROVE  /\ k # 1
         /\ trace[Source(k - 1)].addr = trace[Source(k)].addr
         /\ trace[Source(k - 1)].val = trace[Source(k)].val
<1> DEFINE n == Len(trace)
           p == Source(k)
           a == trace[p].addr
           p0 == Source(k - 1)
<1>1. /\ n \in Nat /\ DOMAIN trace = 1 .. n
      /\ \A j \in 1 .. n : Source(j) \in 1 .. n
      /\ \A r \in 1 .. n : \E j \in 1 .. n : Source(j) = r
      /\ \A j, l \in 1 .. n : j < l => Before(Source(j), Source(l))
      /\ \A j, l \in 1 .. n : j < l => trace[Source(j)].addr <= trace[Source(l)].addr
      /\ \A r \in 1 .. n : trace[r].addr \in Nat
  BY SortedIs, TraceIs DEF SetupInv
<1>2. PICK q \in 1 .. p - 1 :
        /\ trace[q].addr = a /\ ~trace[q].read /\ trace[q].val = trace[p].val
        /\ \A r \in q + 1 .. p - 1 : trace[r].addr = a => trace[r].read
  BY <1>1 DEF SetupInv, MemoryConsistent
<1>3. p \in 1 .. n /\ k \in 1 .. n /\ a \in Nat
  BY <1>1
<1>4. q \in 1 .. n /\ q < p
  <2> HIDE DEF p
  <2> QED
    BY <1>1, <1>2, <1>3
<1>5. PICK m \in 1 .. n : Source(m) = q
  BY <1>1, <1>4
<1>6. ~Before(p, q)
  <2>1. p \in DOMAIN trace /\ q \in DOMAIN trace /\ trace[p].addr = trace[q].addr
    BY <1>1, <1>2, <1>3, <1>4
  <2>2. p \in Nat /\ q \in Nat /\ ~(p < q)
    <3> HIDE DEF p
    <3> QED
      BY <1>1, <1>3, <1>4
  <2> HIDE DEF p
  <2> QED
    BY <2>1, <2>2, BeforeSame
<1>7. m < k
  <2>1. ~(k < m)
    BY <1>1, <1>3, <1>5, <1>6
  <2>2. m # k
    <3>1. p # q
      <4> HIDE DEF p
      <4> QED
        BY <1>1, <1>3, <1>4
    <3> QED
      BY <1>5, <3>1
  <2> HIDE DEF n
  <2> QED
    BY <1>1, <1>3, <1>5, <2>1, <2>2
<1>8. k # 1 /\ k - 1 \in 1 .. n /\ k - 1 < k /\ (m = k - 1 \/ m < k - 1)
  <2>1. n \in Nat /\ k \in 1 .. n /\ m \in 1 .. n
    BY <1>1, <1>3, <1>5
  <2> HIDE DEF n
  <2> QED
    BY <1>7, <2>1
<1>9. p0 \in 1 .. n /\ trace[p0].addr = a
  <2>1. p0 \in 1 .. n /\ trace[p0].addr <= a /\ trace[p0].addr \in Nat
    BY <1>1, <1>3, <1>8
  <2>2. a <= trace[p0].addr
    BY <1>1, <1>2, <1>5, <1>8
  <2> HIDE DEF p0, a
  <2> QED
    BY <1>3, <2>1, <2>2
<1>10. CASE m = k - 1
  BY <1>2, <1>5, <1>8, <1>9, <1>10
<1>11. CASE m < k - 1
  <2>1. Before(q, p0) /\ Before(p0, p)
    BY <1>1, <1>3, <1>5, <1>8, <1>11
  <2> HIDE DEF p0, p
  <2>2. q < p0 /\ p0 < p
    BY <1>1, <1>2, <1>3, <1>4, <1>9, <2>1, BeforeSame
  <2> HIDE DEF n, a
  <2>3. p0 \in q + 1 .. p - 1 /\ trace[p0].read
    <3>1. p0 \in q + 1 .. p - 1
      BY <1>3, <1>4, <1>9, <2>2
    <3> QED
      BY <1>2, <1>9, <3>1
  <2>4. PICK w \in 1 .. p0 - 1 :
          /\ trace[w].addr = a /\ ~trace[w].read /\ trace[w].val = trace[p0].val
          /\ \A r \in w + 1 .. p0 - 1 : trace[r].addr = a => trace[r].read
    BY <1>1, <1>9, <2>3 DEF SetupInv, MemoryConsistent
  <2>5. ~(w < q)
    <3>1. w < q => q \in w + 1 .. p0 - 1
      BY <1>4, <1>9, <2>2
    <3> QED
      BY <1>2, <2>4, <3>1
  <2>6. ~(q < w)
    <3>1. q < w => w \in q + 1 .. p - 1
      BY <1>3, <1>4, <1>9, <2>2
    <3> QED
      BY <1>2, <2>4, <3>1
  <2>7. w = q
    BY <1>4, <1>9, <2>5, <2>6
  <2> QED
    BY <1>2, <1>8, <1>9, <2>4, <2>7 DEF p0, p, a
<1> QED
  BY <1>8, <1>10, <1>11

\* The entry before place k of the sorted trace.
EntryBefore(k) == IF k = 1 THEN Padding ELSE trace[Source(k - 1)]

\* No constraint between neighbours fails, wherever the trace is cut.
LEMMA NeighboursHold ==
  ASSUME SetupInv, Fits, NEW k \in DOMAIN trace
  PROVE  /\ Ram => RamFailing(EntryBefore(k), trace[Source(k)]) = {}
         /\ ~Ram => RomFailing(EntryBefore(k), trace[Source(k)]) = {}
<1> DEFINE cur == EntryBefore(k)
           next == trace[Source(k)]
<1>1. /\ DOMAIN trace = 1 .. Len(trace) /\ Len(trace) \in Nat
      /\ \A j \in DOMAIN trace : Source(j) \in DOMAIN trace /\ trace[Source(j)].addr \in Nat
      /\ \A j, l \in DOMAIN trace : j < l => Before(Source(j), Source(l))
  BY TraceIs, SourceIs DEF SetupInv
<1>2. next.addr \in Nat /\ cur.addr \in Nat /\ (next.addr = cur.addr \/ next.addr = cur.addr + 1)
  <2>1. Padding.addr = 0
    BY DEF Padding, Entry
  <2>2. k = 1 => cur.addr = 0 /\ next.addr = 1
    BY <2>1, NextAddress DEF EntryBefore
  <2>3. k # 1 => /\ k - 1 \in DOMAIN trace /\ cur = trace[Source(k - 1)]
                 /\ next.addr = cur.addr \/ next.addr = cur.addr + 1
    BY NextAddress DEF EntryBefore
  <2>4. next.addr \in Nat /\ (k # 1 => cur.addr \in Nat)
    BY <1>1, <2>3
  <2> QED
    BY <2>2, <2>3, <2>4
<1>3. next.addr = cur.addr => k # 1 /\ k - 1 \in DOMAIN trace /\ cur = trace[Source(k - 1)]
  BY NextAddress DEF EntryBefore, Padding, Entry
<1>4. CASE Ram
  <2>1. next.read => next.addr = cur.addr /\ next.val = cur.val
    BY <1>4, NextRead DEF EntryBefore
  <2>2. next.addr = cur.addr => cur.i < next.i
    <3> SUFFICES ASSUME next.addr = cur.addr PROVE cur.i < next.i
      OBVIOUS
    <3>1. Before(Source(k - 1), Source(k))
      BY <1>1, <1>3
    <3> QED
      BY <1>1, <1>3, <1>4, <3>1, BeforeSame
  <2>3. next.addr = cur.addr => cur.i \in Nat /\ next.i \in Nat
    BY <1>1, <1>3, <1>4, TraceIs DEF SetupInv
  <2> HIDE DEF cur, next
  <2>4. RamFailing(cur, next) = {}
    BY <1>2, <2>1, <2>2, <2>3 DEF RamFailing
  <2> QED
    BY <1>4, <2>4 DEF cur, next
<1>5. CASE ~Ram
  <2>1. next.addr = cur.addr => next.val = cur.val
    <3> SUFFICES ASSUME next.addr = cur.addr PROVE next.val = cur.val
      OBVIOUS
    <3> DEFINE p == Source(k)
               q == Source(k - 1)
    <3>1. p \in 1 .. Len(trace) /\ q \in 1 .. Len(trace) /\ cur = trace[q] /\ trace[p].addr = trace[q].addr
      BY <1>1, <1>3
    <3>2. CASE q < p
      <4>1. q \in 1 .. p - 1
        BY <1>1, <3>1, <3>2
      <4> QED
        BY <1>1, <1>5, <3>1, <4>1 DEF SetupInv, MemoryConsistent
    <3>3. CASE p < q
      <4>1. p \in 1 .. q - 1
        BY <1>1, <3>1, <3>3
      <4> QED
        BY <1>1, <1>5, <3>1, <4>1 DEF SetupInv, MemoryConsistent
    <3>4. CASE p = q
      BY <3>1, <3>4
    <3> QED
      BY <1>1, <3>1, <3>2, <3>3, <3>4
  <2> HIDE DEF cur, next
  <2>2. RomFailing(cur, next) = {}
    BY <1>2, <2>1 DEF RomFailing
  <2> QED
    BY <1>5, <2>2 DEF cur, next
<1> QED
  BY <1>4, <1>5

-----------------------------------------------------------------------------
(* The running evaluations.                                                 *)

LEMMA EvalZero == \A s : Eval(s, 0) = EmptyBag
  BY DEF Eval, EmptyBag, SetToBag

Copies(e, B) == IF e \in DOMAIN B THEN B[e] ELSE 0

\* One entry more.
LEMMA EvalNext ==
  ASSUME NEW s, NEW n \in Nat
  PROVE  Eval(s, n + 1) = Eval(s, n) (+) SetToBag({s[n + 1]})
<1> DEFINE E == {s[k] : k \in 1 .. n}
           last == s[n + 1]
           At(m, e) == {k \in 1 .. m : s[k] = e}
<1>1. 1 .. n + 1 = (1 .. n) \cup {n + 1} /\ n + 1 \notin 1 .. n
  OBVIOUS
<1>2. {s[k] : k \in 1 .. n + 1} = E \cup {last}
  BY <1>1
<1>3. \A e : IsFiniteSet(At(n, e)) /\ Cardinality(At(n, e)) \in Nat
  <2> TAKE e
  <2>1. IsFiniteSet(1 .. n) /\ At(n, e) \in SUBSET (1 .. n)
    BY FS_Interval
  <2> HIDE DEF At
  <2> QED
    BY <2>1, FS_Subset, FS_CardinalityType
<1>4. \A e : Cardinality(At(n + 1, e)) = Cardinality(At(n, e)) + (IF e = last THEN 1 ELSE 0)
  <2> TAKE e
  <2>1. CASE e = last
    <3>1. At(n + 1, e) = At(n, e) \cup {n + 1} /\ n + 1 \notin At(n, e)
      BY <1>1, <2>1
    <3> HIDE DEF At, last
    <3>2. Cardinality(At(n, e) \cup {n + 1}) = Cardinality(At(n, e)) + 1
      BY <1>3, <3>1, FS_AddElement
    <3> QED
      BY <2>1, <3>1, <3>2
  <2>2. CASE e # last
    <3>1. At(n + 1, e) = At(n, e)
      BY <1>1, <2>2
    <3> HIDE DEF At, last
    <3> QED
      BY <1>3, <2>2, <3>1
  <2> QED
    BY <2>1, <2>2
<1>5. \A e : e \notin E => Cardinality(At(n, e)) = 0
  <2>1. \A e : e \notin E => At(n, e) = {}
    OBVIOUS
  <2> HIDE DEF At, E
  <2> QED
    BY <2>1, FS_EmptySet
<1>6. /\ Eval(s, n + 1) = [e \in E \cup {last} |-> Cardinality(At(n + 1, e))]
      /\ Eval(s, n) = [e \in E |-> Cardinality(At(n, e))]
  BY <1>2 DEF Eval
<1>7. Eval(s, n) (+) SetToBag({last}) =
        [e \in E \cup {last} |-> Copies(e, Eval(s, n)) + Copies(e, SetToBag({last}))]
  <2>1. DOMAIN Eval(s, n) = E /\ DOMAIN SetToBag({last}) = {last}
    BY <1>6 DEF SetToBag
  <2> HIDE DEF E, last
  <2> QED
    BY <2>1 DEF (+), Copies
<1> HIDE DEF At, E, last
<1>8. \A e \in E \cup {last} :
        Cardinality(At(n + 1, e)) = Copies(e, Eval(s, n)) + Copies(e, SetToBag({last}))
  <2> TAKE e \in E \cup {last}
  <2>1. Copies(e, Eval(s, n)) = Cardinality(At(n, e))
    BY <1>5, <1>6 DEF Copies
  <2>2. Copies(e, SetToBag({last})) = IF e = last THEN 1 ELSE 0
    BY DEF Copies, SetToBag
  <2> QED
    BY <1>4, <2>1, <2>2
<1> QED
  BY <1>6, <1>7, <1>8 DEF last

\* The evaluations of the whole trace agree: sorting loses no entry and makes
\* none up.
LEMMA EvalSorted ==
  ASSUME TypeInv, addrTrace = [k \in DOMAIN trace |-> trace[Source(k)]]
  PROVE  Eval(addrTrace, Len(trace)) = Eval(trace, Len(trace))
<1> DEFINE D == 1 .. Len(trace)
<1>1. /\ IsFiniteSet(D) /\ DOMAIN trace = D
      /\ \A k \in D : Source(k) \in D
      /\ \A p \in D : \E k \in D : Source(k) = p
      /\ \A k, l \in D : Source(k) = Source(l) => k = l
  <2>1. IsFiniteSet(D) /\ DOMAIN trace = D /\ Len(trace) \in Nat
    BY TraceIs, FS_Interval
  <2>2. \A k, l \in D : k < l => Source(k) # Source(l)
    BY <2>1, SourceIs, BeforeIs
  <2>3. \A k, l \in D : k < l \/ l < k \/ k = l
    BY <2>1
  <2> HIDE DEF D
  <2> QED
    BY <2>1, <2>2, <2>3, SourceIs
<1> HIDE DEF D
<1>2. {addrTrace[k] : k \in D} = {trace[p] : p \in D}
  BY <1>1
<1>3. ASSUME NEW e
      PROVE  Cardinality({k \in D : addrTrace[k] = e}) = Cardinality({p \in D : trace[p] = e})
  <2> DEFINE K == {k \in D : addrTrace[k] = e}
             P == {p \in D : trace[p] = e}
             f == [k \in K |-> Source(k)]
  <2>1. IsFiniteSet(K)
    <3>1. K \in SUBSET D
      OBVIOUS
    <3> HIDE DEF K
    <3> QED
      BY <1>1, <3>1, FS_Subset
  <2>2. f \in [K -> P]
    BY <1>1
  <2>3. \A k, l \in K : f[k] = f[l] => k = l
    BY <1>1
  <2>4. \A p \in P : \E k \in K : f[k] = p
    BY <1>1
  <2> HIDE DEF K, P, f
  <2>5. f \in Bijection(K, P)
    BY <2>2, <2>3, <2>4 DEF Bijection, Injection, Surjection, IsInjective
  <2>6. Cardinality(P) = Cardinality(K)
    BY <2>1, <2>5, FS_Bijection DEF ExistsBijection
  <2> QED
    BY <2>6 DEF K, P
<1> QED
  BY <1>2, <1>3 DEF Eval, D

-----------------------------------------------------------------------------
(* The cuts.                                                                *)

LEMMA CutIs ==
  ASSUME SetupInv, phase # "setup", NEW i \in Subcircuit
  PROVE  /\ First(i) \in Nat /\ Last(i) \in Nat /\ Size(i) \in Nat
         /\ Last(i) = First(i) + Size(i) /\ Last(i) <= Len(trace) /\ Len(trace) \in Nat
         /\ i = 1 => First(i) = 0
         /\ i # 1 => i - 1 \in Subcircuit /\ Last(i - 1) = First(i)
         /\ i = NumSubcircuits => Last(i) = Len(trace)
<1>1. /\ NumSubcircuits \in Nat /\ i \in 1 .. NumSubcircuits /\ Len(trace) \in Nat
      /\ Len(starts) = NumSubcircuits /\ DOMAIN starts = 1 .. NumSubcircuits
      /\ \A j \in 1 .. NumSubcircuits : starts[j] \in Nat /\ starts[j] <= Len(trace)
      /\ \A j, l \in 1 .. NumSubcircuits : j <= l => starts[j] <= starts[l]
      /\ i = 1 => starts[i] = 0
  <2>1. starts \in Seq(Nat) /\ circuit \in Circuits
    BY DEF SetupInv, TypeInv
  <2>2. NumSubcircuits \in Nat /\ Len(starts) = NumSubcircuits
    BY <2>1, PortalAssumption DEF NumSubcircuits, SetupInv, CutsInv
  <2>3. Len(trace) \in Nat
    BY TraceIs DEF SetupInv
  <2> QED
    BY <2>1, <2>2, <2>3 DEF SetupInv, CutsInv, Subcircuit
<1>2. CASE i = NumSubcircuits
  <2>1. First(i) = starts[i] /\ Last(i) = Len(trace)
    BY <1>1, <1>2 DEF First, Last
  <2> QED
    BY <1>1, <1>2, <2>1 DEF Size, Subcircuit, Last, First
<1>3. CASE i # NumSubcircuits
  <2>1. i < NumSubcircuits /\ i + 1 \in 1 .. NumSubcircuits
    BY <1>1, <1>3
  <2>2. First(i) = starts[i] /\ Last(i) = starts[i + 1]
    BY <1>1, <2>1 DEF First, Last
  <2> QED
    BY <1>1, <1>3, <2>1, <2>2 DEF Size, Subcircuit, Last, First
<1> QED
  BY <1>2, <1>3

\* Every entry lies in some subtrace: the first that ends at its place or later.
LEMMA CutOf ==
  ASSUME SetupInv, phase # "setup", NEW p \in 1 .. Len(trace)
  PROVE  \E i \in Subcircuit : p \in First(i) + 1 .. Last(i)
<1> DEFINE Reaching == {i \in Subcircuit : p <= Last(i)}
<1>1. NumSubcircuits \in Nat \ {0}
  BY PortalAssumption DEF SetupInv, TypeInv, NumSubcircuits
<1>2. NumSubcircuits \in Reaching
  <2>1. NumSubcircuits \in Subcircuit
    BY <1>1 DEF Subcircuit
  <2>2. Last(NumSubcircuits) = Len(trace) /\ Len(trace) \in Nat
    BY <2>1, CutIs
  <2> QED
    BY <2>1, <2>2
<1>3. Reaching \subseteq Nat
  BY DEF Subcircuit
<1>4. PICK i \in Reaching : \A j \in Nat : <<j, i>> \in OpToRel(<, Nat) => j \notin Reaching
  <2> HIDE DEF Reaching
  <2> QED
    BY <1>2, <1>3, NatLessThanWellFounded, WFMin
<1>5. \A j \in Reaching : ~(j < i)
  BY <1>3, <1>4 DEF OpToRel
<1>6. i \in Subcircuit /\ p <= Last(i)
  OBVIOUS
<1>7. First(i) < p
  <2>1. CASE i = 1
    BY <1>6, <2>1, CutIs
  <2>2. CASE i # 1
    <3>1. i - 1 \in Subcircuit /\ Last(i - 1) = First(i) /\ First(i) \in Nat
      BY <1>6, <2>2, CutIs
    <3>2. i - 1 < i
      BY <1>6 DEF Subcircuit
    <3>3. ~(p <= Last(i - 1))
      BY <1>5, <3>1, <3>2
    <3> QED
      BY <3>1, <3>3
  <2> QED
    BY <2>1, <2>2
<1> QED
  BY <1>6, <1>7, CutIs

-----------------------------------------------------------------------------
(* What a subcircuit starts from and meets.                                 *)

LEMMA CurLeafIs ==
  ASSUME SetupInv, TreeInv, phase = "stage1", NEW i \in Subcircuit
  PROVE  CurLeaf(i) = [time |-> Eval(trace, First(i)), addr |-> Eval(addrTrace, First(i)),
                       last |-> IF First(i) = 0 THEN Padding ELSE addrTrace[First(i)]]
<1>1. CASE i = 1
  BY <1>1, CutIs, EvalZero DEF CurLeaf
<1>2. CASE i # 1
  <2>1. i - 1 \in Subcircuit /\ Last(i - 1) = First(i)
    BY <1>2, CutIs
  <2>2. leaves[i - 1] = LeafAfter(i - 1)
    BY <2>1 DEF TreeInv
  <2> QED
    BY <1>2, <2>1, <2>2 DEF CurLeaf, LeafAfter
<1> QED
  BY <1>1, <1>2

LEMMA FullIs ==
  ASSUME SetupInv, TreeInv, phase = "stage1", NEW i \in Subcircuit, NEW k \in 0 .. Size(i)
  PROVE  Full(i, k) = IF First(i) + k = 0 THEN Padding ELSE addrTrace[First(i) + k]
<1>1. First(i) \in Nat /\ Size(i) \in Nat
  BY CutIs
<1>2. CurLeaf(i).last = IF First(i) = 0 THEN Padding ELSE addrTrace[First(i)]
  BY CurLeafIs
<1>3. CASE k = 0
  BY <1>1, <1>2, <1>3 DEF Full
<1>4. CASE k # 0
  BY <1>1, <1>4 DEF Full
<1> QED
  BY <1>3, <1>4

\* No pair a subcircuit compares breaks a constraint.
LEMMA FailingNone ==
  ASSUME SetupInv, TreeInv, phase = "stage1", Fits,
         NEW i \in Subcircuit, NEW p \in First(i) + 1 .. Last(i)
  PROVE  Failing(i, p) = {}
<1> DEFINE j == p - 1 - First(i)
           k == p - First(i)
<1>1. /\ First(i) \in Nat /\ Size(i) \in Nat /\ Last(i) = First(i) + Size(i)
      /\ Last(i) <= Len(trace) /\ Len(trace) \in Nat
  BY CutIs
<1>2. /\ j \in 0 .. Size(i) /\ k \in 0 .. Size(i)
      /\ First(i) + j = p - 1 /\ First(i) + k = p /\ p \in 1 .. Len(trace)
      /\ p # 1 => p - 1 \in 1 .. Len(trace)
      /\ p \in Nat
  BY <1>1
<1>3. DOMAIN trace = 1 .. Len(trace) /\ addrTrace = [n \in DOMAIN trace |-> trace[Source(n)]]
  BY TraceIs DEF SetupInv, TreeInv
<1> HIDE DEF j, k
<1>4. Full(i, j) = EntryBefore(p)
  <2>1. Full(i, j) = IF p - 1 = 0 THEN Padding ELSE addrTrace[p - 1]
    BY <1>2, FullIs
  <2> QED
    BY <1>2, <1>3, <2>1 DEF EntryBefore
<1>5. Full(i, k) = trace[Source(p)]
  <2>1. Full(i, k) = IF p = 0 THEN Padding ELSE addrTrace[p]
    BY <1>2, FullIs
  <2> QED
    BY <1>2, <1>3, <2>1
<1>6. Failing(i, p) = IF Ram THEN RamFailing(EntryBefore(p), trace[Source(p)])
                             ELSE RomFailing(EntryBefore(p), trace[Source(p)])
  BY <1>4, <1>5 DEF Failing, j, k
<1>7. p \in DOMAIN trace
  BY <1>2, <1>3
<1> QED
  BY <1>6, <1>7, NeighboursHold

\* Nor does the clock.
LEMMA ClockHolds ==
  ASSUME SetupInv, phase # "setup", Fits, NEW i \in Subcircuit, NEW k \in Nat
  PROVE  ~ClockBroken(i, k)
<1> SUFFICES ASSUME Ram, k < Size(i) - 1
             PROVE  trace[First(i) + k + 1 + 1].i
                      = (trace[First(i) + k + 1].i + 1) % 2^TimeBits
  BY DEF ClockBroken
<1> DEFINE p == First(i) + k + 1
           m == 2^TimeBits
<1>1. p \in 1 .. Len(trace) /\ p + 1 \in 1 .. Len(trace) /\ Len(trace) \in Nat
  BY CutIs
<1>2. m \in Nat \ {0} /\ Len(trace) <= m
  BY ModulusIs DEF Fits
<1> HIDE DEF p, m
<1>3. trace[p].i = p - 1 /\ trace[p + 1].i = (p + 1) - 1
  BY <1>1, <1>2, TraceIs DEF SetupInv, ClockInv, m
<1>4. p \in Nat /\ p < m /\ (p - 1) + 1 = p /\ (p + 1) - 1 = p
  BY <1>1, <1>2
<1>5. p % m = p
  BY <1>2, <1>4, BeforeWrap
<1>6. trace[p + 1].i = (trace[p].i + 1) % m
  BY <1>3, <1>4, <1>5
<1> QED
  BY <1>6 DEF p, m

-----------------------------------------------------------------------------
(* The coordinator's steps after the run, and the subcircuits'.             *)

\* What the trace and its cuts say is not changed after the run.
LEMMA SetupStays ==
  ASSUME SetupInv, UNCHANGED setupVars,
         phase' \in {"sorted", "stage1", "panicked"},
         phase # "setup" \/ Len(starts) = NumSubcircuits
  PROVE  /\ SetupInv'
         /\ Ram' = Ram /\ Fits' = Fits /\ Subcircuit' = Subcircuit
         /\ NumSubcircuits' = NumSubcircuits
         /\ \A i : First(i)' = First(i) /\ Last(i)' = Last(i) /\ Size(i)' = Size(i)
         /\ \A k : Source(k)' = Source(k)
         /\ \A i, k : Pairs(i, k)' = Pairs(i, k)
<1> USE DEF setupVars
<1>1. Ram' = Ram /\ NumSubcircuits' = NumSubcircuits /\ Subcircuit' = Subcircuit
  BY DEF Ram, NumSubcircuits, Subcircuit
<1>2. Fits' = Fits /\ EntryType' = EntryType
  BY <1>1 DEF Fits, EntryType
<1>3. TypeInv'
  BY <1>2 DEF SetupInv, TypeInv
<1>4. CutsInv'
  BY <1>1 DEF SetupInv, CutsInv
<1>5. AddressInv' /\ MemoryConsistent' /\ MapInv' /\ ClockInv'
  BY <1>1 DEF SetupInv, AddressInv, MemoryConsistent, MapInv, LastWrite, ClockInv
<1>6. \A i : First(i)' = First(i) /\ Last(i)' = Last(i) /\ Size(i)' = Size(i)
  BY DEF First, Last, Size
<1>7. \A k : Source(k)' = Source(k)
  BY <1>1 DEF Source, Before, KeyLess
<1>8. \A i, k : Pairs(i, k)' = Pairs(i, k)
  BY <1>1, <1>6 DEF Pairs
<1> QED
  BY <1>1, <1>2, <1>3, <1>4, <1>5, <1>6, <1>7, <1>8 DEF SetupInv

LEMMA SortByAddrIInv == IInv /\ SortByAddr => IInv'
<1> SUFFICES ASSUME IInv, SortByAddr PROVE IInv'
  OBVIOUS
<1>1. /\ phase = "setup" /\ Len(starts) = NumSubcircuits
      /\ UNCHANGED setupVars /\ UNCHANGED proverVars /\ UNCHANGED leaves
      /\ phase' \in {"sorted", "panicked"}
      /\ phase' = "sorted" =>
           trace # <<>> /\ addrTrace' = [k \in DOMAIN trace |-> trace[Source(k)]]
  BY DEF SortByAddr
<1>2. SetupInv' /\ \A k : Source(k)' = Source(k)
  BY <1>1, SetupStays DEF IInv
<1>3. trace' = trace /\ pm' = pm /\ unsatisfied' = unsatisfied /\ compared' = compared
  BY <1>1 DEF setupVars, proverVars
<1>4. DOMAIN pm = {} /\ unsatisfied = {} /\ compared = {} /\ pm = [i \in DOMAIN pm |-> pm[i]]
  BY <1>1 DEF IInv, ManagerInv, ComparedInv
<1>5. TreeInv'
  BY <1>1, <1>2, <1>3 DEF TreeInv
<1>6. DOMAIN pm' = {} /\ pm' = [i \in DOMAIN pm' |-> pm'[i]] /\ unsatisfied' = {} /\ compared' = {}
  BY <1>3, <1>4
<1>7. ManagerInv'
  BY <1>6 DEF ManagerInv
<1>8. ComparedInv' /\ Satisfied'
  BY <1>6 DEF ComparedInv, Satisfied
<1> QED
  BY <1>2, <1>5, <1>7, <1>8 DEF IInv

LEMMA GenExecTreeIInv == IInv /\ GenExecTree => IInv'
<1> SUFFICES ASSUME IInv, GenExecTree PROVE IInv'
  OBVIOUS
<1>1. /\ phase = "sorted" /\ phase' = "stage1"
      /\ UNCHANGED setupVars /\ UNCHANGED proverVars /\ addrTrace' = addrTrace
      /\ leaves' = [i \in Subcircuit |-> LeafAfter(i)]
  BY DEF GenExecTree
<1>2. /\ SetupInv' /\ Ram' = Ram /\ Subcircuit' = Subcircuit
      /\ \A k : Source(k)' = Source(k)
      /\ \A i : Last(i)' = Last(i) /\ Size(i)' = Size(i)
  BY <1>1, SetupStays DEF IInv
<1>3. trace' = trace /\ pm' = pm /\ unsatisfied' = unsatisfied /\ compared' = compared
  BY <1>1 DEF setupVars, proverVars
<1>4. \A i : LeafAfter(i)' = LeafAfter(i)
  BY <1>1, <1>2, <1>3 DEF LeafAfter, Eval, Padding, Entry
<1>5. TreeInv'
  BY <1>1, <1>2, <1>3, <1>4 DEF TreeInv, IInv
<1>6. DOMAIN pm = {} /\ unsatisfied = {} /\ compared = {} /\ pm = [i \in DOMAIN pm |-> pm[i]]
  BY <1>1 DEF IInv, ManagerInv, ComparedInv
<1>7. DOMAIN pm' = {} /\ pm' = [i \in DOMAIN pm' |-> pm'[i]] /\ unsatisfied' = {} /\ compared' = {}
  BY <1>3, <1>6
<1>8. ManagerInv'
  BY <1>7 DEF ManagerInv
<1>9. ComparedInv' /\ Satisfied'
  BY <1>7 DEF ComparedInv, Satisfied
<1> QED
  BY <1>2, <1>5, <1>8, <1>9 DEF IInv

\* A manager whose evaluations are over the entries before its place.
Manager(i, k, d) ==
  [idx |-> k, time |-> Eval(trace, First(i) + k), addr |-> Eval(addrTrace, First(i) + k), done |-> d]

\* A manager that is done.
LEMMA ManagerDone ==
  ASSUME NEW a, NEW b, NEW c, NEW d, NEW r,
         r = [idx |-> a, time |-> b, addr |-> c, done |-> d]
  PROVE  [r EXCEPT !.done = TRUE] = [idx |-> a, time |-> b, addr |-> c, done |-> TRUE]
<1>1. \A q \in [idx : {a}, time : {b}, addr : {c}, done : {d}] :
        [q EXCEPT !.done = TRUE] \in [idx : {a}, time : {b}, addr : {c}, done : {TRUE}]
  OBVIOUS
<1>2. ASSUME NEW q, q \in [idx : {a}, time : {b}, addr : {c}, done : {TRUE}]
      PROVE  q = [idx |-> a, time |-> b, addr |-> c, done |-> TRUE]
  BY <1>2
<1>3. r \in [idx : {a}, time : {b}, addr : {c}, done : {d}]
  OBVIOUS
<1> QED
  BY <1>1, <1>2, <1>3, Zenon

\* The managers when that of subcircuit i is at place k.
Managers(i, k, d) == [j \in DOMAIN pm \cup {i} |-> IF j = i THEN Manager(i, k, d) ELSE pm[j]]

\* What managers m have compared.
PairsOf(m) == UNION {UNION {Pairs(j, l) : l \in 0 .. m[j].idx - 1} : j \in DOMAIN m}

\* A step of a subcircuit: its manager is left at place k, done or not.
LEMMA Stage1Step ==
  ASSUME IInv, phase = "stage1", UNCHANGED <<phase, setupVars, addrTrace, leaves>>,
         NEW i \in Subcircuit, NEW k \in 0 .. Size(i), NEW d \in BOOLEAN,
         d => k = Size(i),
         pm' = Managers(i, k, d), compared' = PairsOf(pm'),
         Fits => unsatisfied' = {}
  PROVE  IInv'
<1>a. pm' = [j \in DOMAIN pm \cup {i} |-> IF j = i THEN Manager(i, k, d) ELSE pm[j]]
  BY DEF Managers
<1>b. compared' = UNION {UNION {Pairs(j, l) : l \in 0 .. pm'[j].idx - 1} : j \in DOMAIN pm'}
  BY DEF PairsOf
<1>1. /\ SetupInv' /\ Ram' = Ram /\ Fits' = Fits /\ Subcircuit' = Subcircuit
      /\ \A j : First(j)' = First(j) /\ Last(j)' = Last(j) /\ Size(j)' = Size(j)
      /\ \A j : Source(j)' = Source(j)
      /\ \A j, l : Pairs(j, l)' = Pairs(j, l)
  BY SetupStays DEF IInv
<1>2. trace' = trace /\ addrTrace' = addrTrace /\ leaves' = leaves /\ phase' = "stage1"
  BY DEF setupVars
<1>3. \A s, n : Eval(s, n)' = Eval(s, n)
  OBVIOUS
<1>4. TreeInv'
  <2>1. \A j : LeafAfter(j)' = LeafAfter(j)
    BY <1>1, <1>2 DEF LeafAfter, Eval, Padding, Entry
  <2> QED
    BY <1>1, <1>2, <2>1 DEF TreeInv, IInv
<1>5. ManagerInv'
  <2>1. DOMAIN pm' = DOMAIN pm \cup {i} /\ DOMAIN pm' \subseteq Subcircuit
        /\ pm' = [j \in DOMAIN pm' |-> pm'[j]]
    BY <1>a DEF IInv, ManagerInv
  <2>2. ASSUME NEW j \in DOMAIN pm'
        PROVE  /\ pm'[j].idx \in 0 .. Size(j) /\ pm'[j].done \in BOOLEAN
               /\ pm'[j] = [idx  |-> pm'[j].idx,
                            time |-> Eval(trace, First(j) + pm'[j].idx),
                            addr |-> Eval(addrTrace, First(j) + pm'[j].idx),
                            done |-> pm'[j].done]
               /\ pm'[j].done => pm'[j].idx = Size(j)
    <3>1. CASE j = i
      <4>1. pm'[i] = Manager(i, k, d)
        BY <1>a
      <4> QED
        BY <3>1, <4>1 DEF Manager
    <3>2. CASE j # i
      <4>1. pm'[j] = pm[j] /\ j \in DOMAIN pm
        BY <1>a, <2>1, <3>2
      <4> QED
        BY <4>1 DEF IInv, ManagerInv
    <3> QED
      BY <3>1, <3>2
  <2>3. \A j \in DOMAIN pm' :
          pm'[j] = [idx  |-> pm'[j].idx,
                    time |-> Eval(trace', First(j)' + pm'[j].idx),
                    addr |-> Eval(addrTrace', First(j)' + pm'[j].idx),
                    done |-> pm'[j].done]
    <3> TAKE j \in DOMAIN pm'
    <3>1. \A n : /\ Eval(trace', First(j)' + n) = Eval(trace, First(j) + n)
                /\ Eval(addrTrace', First(j)' + n) = Eval(addrTrace, First(j) + n)
      BY <1>1, <1>2
    <3> QED
      BY <2>2, <3>1
  <2>4. \A j \in DOMAIN pm' :
          /\ pm'[j].idx \in 0 .. Size(j)' /\ pm'[j].done \in BOOLEAN
          /\ pm'[j].done => pm'[j].idx = Size(j)'
    BY <1>1, <2>2
  <2>5. DOMAIN pm' \subseteq Subcircuit'
    BY <1>1, <2>1
  <2> QED
    BY <1>2, <2>1, <2>3, <2>4, <2>5 DEF ManagerInv
<1>6. ComparedInv'
  <2> DEFINE After(j) == UNION {Pairs(j, l)' : l \in 0 .. pm'[j].idx - 1}
             Now(j)   == UNION {Pairs(j, l) : l \in 0 .. pm'[j].idx - 1}
  <2>1. \A j : After(j) = Now(j)
    <3> TAKE j
    <3>1. {Pairs(j, l)' : l \in 0 .. pm'[j].idx - 1} = {Pairs(j, l) : l \in 0 .. pm'[j].idx - 1}
      BY <1>1
    <3> QED
      BY <3>1
  <2>2. compared' = UNION {Now(j) : j \in DOMAIN pm'}
    BY <1>b
  <2> HIDE DEF Now
  <2>3. compared' = UNION {After(j) : j \in DOMAIN pm'}
    <3> HIDE DEF After
    <3>1. \A S : {After(j) : j \in S} = {Now(j) : j \in S}
      BY <2>1
    <3>2. {After(j) : j \in DOMAIN pm'} = {Now(j) : j \in DOMAIN pm'}
      BY <3>1
    <3> QED
      BY <2>2, <3>2
  <2> QED
    BY <2>3 DEF ComparedInv
<1>7. Satisfied'
  BY <1>1 DEF Satisfied, Fits
<1> QED
  BY <1>1, <1>4, <1>5, <1>6, <1>7 DEF IInv

\* On its way to place k, subcircuit i compares these pairs.
Meets(i, k, pairs) ==
  IF i \in DOMAIN pm
  THEN \/ k = pm[i].idx /\ pairs = {}
       \/ k = pm[i].idx + 1 /\ pairs = Pairs(i, pm[i].idx)
  ELSE k = 0 /\ pairs = {}

\* What has been compared so far, place by place.
LEMMA ComparedIs ==
  ASSUME IInv, NEW i \in Subcircuit, NEW k \in Nat, NEW d, NEW pairs,
         compared' = compared \cup pairs,
         Meets(i, k, pairs), pm' = Managers(i, k, d)
  PROVE  compared' = PairsOf(pm')
<1> DEFINE Upto(j, n) == UNION {Pairs(j, l) : l \in 0 .. n - 1}
<1>1. /\ DOMAIN pm' = DOMAIN pm \cup {i} /\ pm'[i].idx = k
      /\ \A j \in DOMAIN pm : j # i => pm'[j] = pm[j]
  BY DEF Manager, Managers
<1>2. \A j \in DOMAIN pm : pm[j].idx \in Nat
  BY CutIs DEF IInv, ManagerInv
<1>3. \A j : Upto(j, 0) = {}
  OBVIOUS
<1>4. \A j : \A n \in Nat : Upto(j, n + 1) = Upto(j, n) \cup Pairs(j, n)
  <2> TAKE j
  <2> TAKE n \in Nat
  <2>1. 0 .. (n + 1) - 1 = (0 .. n - 1) \cup {n}
    OBVIOUS
  <2> QED
    BY <2>1
<1>5. compared = UNION {Upto(j, pm[j].idx) : j \in DOMAIN pm}
  BY DEF IInv, ComparedInv
<1> DEFINE New == pm'
<1>6. /\ DOMAIN New = DOMAIN pm \cup {i} /\ New[i].idx = k
      /\ \A j \in DOMAIN pm : j # i => New[j] = pm[j]
  BY <1>1
<1> HIDE DEF Upto, New
<1>7. compared' = UNION {Upto(j, New[j].idx) : j \in DOMAIN New}
  <2>1. CASE i \in DOMAIN pm
    <3>1. Upto(i, New[i].idx) = Upto(i, pm[i].idx) \cup pairs
      BY <1>2, <1>3, <1>4, <1>6, <2>1 DEF Meets
    <3>2. DOMAIN New = DOMAIN pm
      BY <1>6, <2>1
    <3>3. \A x : x \in UNION {Upto(j, New[j].idx) : j \in DOMAIN pm}
                   <=> x \in UNION {Upto(j, pm[j].idx) : j \in DOMAIN pm} \/ x \in pairs
      BY <1>6, <2>1, <3>1
    <3> QED
      BY <1>5, <3>2, <3>3
  <2>2. CASE i \notin DOMAIN pm
    <3>1. Upto(i, New[i].idx) = {} /\ pairs = {}
      BY <1>3, <1>6, <2>2 DEF Meets
    <3>2. \A x : x \in UNION {Upto(j, New[j].idx) : j \in DOMAIN New}
                   <=> x \in UNION {Upto(j, pm[j].idx) : j \in DOMAIN pm}
      BY <1>6, <2>2, <3>1
    <3> QED
      BY <1>5, <3>1, <3>2
  <2> QED
    BY <2>1, <2>2
<1> QED
  BY <1>7 DEF Upto, New, PairsOf

LEMMA StartStage1IInv == ASSUME IInv, NEW i \in Subcircuit, StartStage1(i) PROVE IInv'
<1> DEFINE cur == CurLeaf(i)
           ok  == cur.time = EmptyBag /\ cur.addr = EmptyBag /\ IsPadding(cur.last)
           new == [idx |-> 0, time |-> cur.time, addr |-> cur.addr, done |-> FALSE]
<1>1. /\ phase = "stage1" /\ i \notin DOMAIN pm
      /\ pm' = [j \in DOMAIN pm \cup {i} |-> IF j = i THEN new ELSE pm[j]]
      /\ unsatisfied' = unsatisfied \cup (IF i = 1 /\ ~ok THEN {<<i, "padding">>} ELSE {})
      /\ UNCHANGED <<phase, setupVars, addrTrace, leaves>> /\ compared' = compared
  BY DEF StartStage1
<1>2. First(i) \in Nat /\ Size(i) \in Nat /\ (i = 1 => First(i) = 0)
  BY <1>1, CutIs DEF IInv
<1>3. cur = [time |-> Eval(trace, First(i)), addr |-> Eval(addrTrace, First(i)),
             last |-> IF First(i) = 0 THEN Padding ELSE addrTrace[First(i)]]
  BY <1>1, CurLeafIs DEF IInv
<1>4. new = Manager(i, 0, FALSE)
  <2>1. First(i) + 0 = First(i)
    BY <1>2
  <2>2. cur.time = Eval(trace, First(i)) /\ cur.addr = Eval(addrTrace, First(i))
    BY <1>3
  <2> HIDE DEF cur
  <2> QED
    BY <2>1, <2>2 DEF Manager
<1>5. i = 1 => ok
  <2>1. IsPadding(Padding)
    BY DEF IsPadding, Padding, Entry
  <2> QED
    BY <1>2, <1>3, <2>1, EvalZero
<1> HIDE DEF new, ok, cur
<1>6. Fits => unsatisfied' = {}
  BY <1>1, <1>5 DEF IInv, Satisfied, Fits
<1>7. pm' = Managers(i, 0, FALSE)
  BY <1>1, <1>4 DEF Managers
<1>8. compared' = PairsOf(pm')
  <2>1. compared' = compared \cup {} /\ Meets(i, 0, {})
    BY <1>1 DEF Meets
  <2> QED
    BY <1>7, <2>1, ComparedIs
<1>9. 0 \in 0 .. Size(i)
  BY <1>2
<1> QED
  BY <1>1, <1>6, <1>7, <1>8, <1>9, Stage1Step

\* The manager of a subcircuit that has started.
LEMMA ManagerIs ==
  ASSUME IInv, phase = "stage1", NEW i \in DOMAIN pm
  PROVE  /\ i \in Subcircuit /\ DOMAIN pm \cup {i} = DOMAIN pm
         /\ pm[i].idx \in 0 .. Size(i) /\ pm[i].idx \in Nat
         /\ pm[i] = Manager(i, pm[i].idx, pm[i].done)
         /\ pm = [j \in DOMAIN pm |-> pm[j]]
<1>1. i \in Subcircuit
  BY DEF IInv, ManagerInv
<1>2. Size(i) \in Nat
  BY <1>1, CutIs DEF IInv
<1> QED
  BY <1>1, <1>2 DEF IInv, ManagerInv, Manager

LEMMA PmGetIInv == ASSUME IInv, phase = "stage1", NEW i \in DOMAIN pm, PmGet(i) PROVE IInv'
<1> DEFINE k     == pm[i].idx
           pairs == Pairs(i, k)
           bad   == UNION {Failing(i, p) : p \in pairs}
           f     == First(i)
<1>1. /\ ~pm[i].done /\ k < Size(i)
      /\ pm' = [pm EXCEPT ![i] = [idx  |-> k + 1,
                                time |-> @.time (+) SetToBag({trace[f + k + 1]}),
                                addr |-> @.addr (+) SetToBag({Full(i, k + 1)}),
                                done |-> FALSE]]
      /\ compared' = compared \cup pairs
      /\ unsatisfied' = unsatisfied \cup {<<i, c>> : c \in bad}
                          \cup (IF ClockBroken(i, k) THEN {<<i, "clock">>} ELSE {})
      /\ UNCHANGED <<phase, setupVars, addrTrace, leaves>>
  BY DEF PmGet
<1>2. /\ i \in Subcircuit /\ DOMAIN pm \cup {i} = DOMAIN pm /\ k \in Nat
      /\ pm[i] = Manager(i, k, FALSE)
      /\ pm = [j \in DOMAIN pm |-> pm[j]]
  <2>1. pm[i].done = FALSE
    BY <1>1 DEF IInv, ManagerInv
  <2> QED
    BY <2>1, ManagerIs
<1>3. /\ f \in Nat /\ Size(i) \in Nat /\ Last(i) = f + Size(i)
  BY <1>2, CutIs DEF IInv
<1>4. Full(i, k + 1) = addrTrace[f + k + 1]
  <2>1. k + 1 \in 0 .. Size(i) /\ f + (k + 1) = f + k + 1 /\ f + k + 1 # 0
    BY <1>1, <1>2, <1>3
  <2> QED
    BY <1>2, <2>1, FullIs DEF IInv
<1>5. pm'[i] = Manager(i, k + 1, FALSE)
  <2>1. pm'[i] = [idx |-> k + 1,
                  time |-> Eval(trace, f + k) (+) SetToBag({trace[f + k + 1]}),
                  addr |-> Eval(addrTrace, f + k) (+) SetToBag({addrTrace[f + k + 1]}),
                  done |-> FALSE]
    <3>1. pm[i].time = Eval(trace, f + k) /\ pm[i].addr = Eval(addrTrace, f + k)
      BY <1>2 DEF Manager
    <3>2. pm'[i] = [idx  |-> k + 1,
                    time |-> pm[i].time (+) SetToBag({trace[f + k + 1]}),
                    addr |-> pm[i].addr (+) SetToBag({addrTrace[f + k + 1]}),
                    done |-> FALSE]
      BY <1>1, <1>4
    <3> QED
      BY <3>1, <3>2
  <2>2. /\ Eval(trace, f + k + 1) = Eval(trace, f + k) (+) SetToBag({trace[f + k + 1]})
        /\ Eval(addrTrace, f + k + 1)
             = Eval(addrTrace, f + k) (+) SetToBag({addrTrace[f + k + 1]})
        /\ f + (k + 1) = f + k + 1
    <3>1. f + k \in Nat /\ (f + k) + 1 = f + k + 1 /\ f + (k + 1) = f + k + 1
      BY <1>2, <1>3
    <3> QED
      BY <3>1, EvalNext
  <2> QED
    BY <2>1, <2>2 DEF Manager
<1>6. pm' = Managers(i, k + 1, FALSE)
  BY <1>1, <1>2, <1>5 DEF Managers
<1>7. pairs \subseteq f + 1 .. Last(i)
  BY <1>1, <1>2, <1>3 DEF Pairs
<1>8. Fits => unsatisfied' = {}
  <2> SUFFICES ASSUME Fits PROVE unsatisfied' = {}
    OBVIOUS
  <2>1. unsatisfied = {}
    BY DEF IInv, Satisfied, Fits
  <2>2. \A p \in pairs : Failing(i, p) = {}
    BY <1>2, <1>7, FailingNone DEF IInv
  <2>3. ~ClockBroken(i, k)
    BY <1>2, ClockHolds DEF IInv
  <2>4. bad = {}
    BY <2>2
  <2> HIDE DEF bad
  <2> QED
    BY <1>1, <2>1, <2>3, <2>4
<1>9. k + 1 \in Nat /\ k + 1 \in 0 .. Size(i)
  BY <1>1, <1>2, <1>3
<1>10. compared' = PairsOf(pm')
  <2>1. Meets(i, k + 1, pairs)
    BY DEF Meets
  <2> HIDE DEF pairs, k
  <2> QED
    BY <1>1, <1>2, <1>6, <1>9, <2>1, ComparedIs
<1> HIDE DEF k
<1> QED
  BY <1>1, <1>2, <1>6, <1>8, <1>9, <1>10, Stage1Step

LEMMA FinishIInv == ASSUME IInv, phase = "stage1", NEW i \in DOMAIN pm, Finish(i) PROVE IInv'
<1> DEFINE k    == pm[i].idx
           leaf == [time |-> pm[i].time, addr |-> pm[i].addr, last |-> Full(i, Size(i))]
<1>1. /\ k = Size(i)
      /\ pm' = [pm EXCEPT ![i].done = TRUE]
      /\ unsatisfied' = unsatisfied
           \cup (IF leaf # leaves[i] THEN {<<i, "leaf">>} ELSE {})
           \cup (IF i = NumSubcircuits /\ pm[i].time # pm[i].addr
                 THEN {<<i, "permutation">>} ELSE {})
      /\ UNCHANGED <<phase, setupVars, addrTrace, leaves>> /\ compared' = compared
  BY DEF Finish
<1>2. /\ i \in Subcircuit /\ DOMAIN pm \cup {i} = DOMAIN pm
      /\ k \in Nat /\ k \in 0 .. Size(i)
      /\ pm[i] = Manager(i, k, pm[i].done)
      /\ pm = [j \in DOMAIN pm |-> pm[j]]
  BY ManagerIs
<1>3. First(i) \in Nat /\ Size(i) \in Nat /\ Last(i) = First(i) + k
  BY <1>1, <1>2, CutIs DEF IInv
<1>4. pm'[i] = Manager(i, k, TRUE)
  <2>1. pm'[i] = [pm[i] EXCEPT !.done = TRUE]
    BY <1>1
  <2> DEFINE d == pm[i].done
  <2>2. pm[i] = Manager(i, k, d)
    BY <1>2
  <2> HIDE DEF k, d
  <2>3. [pm[i] EXCEPT !.done = TRUE] = Manager(i, k, TRUE)
    BY <2>2, ManagerDone DEF Manager
  <2> QED
    BY <2>1, <2>3
<1>5. pm' = Managers(i, k, TRUE)
  BY <1>1, <1>2, <1>4 DEF Managers
<1>6. pm[i].time = Eval(trace, Last(i)) /\ pm[i].addr = Eval(addrTrace, Last(i))
  BY <1>2, <1>3 DEF Manager
<1>7. leaf = leaves[i]
  <2>1. leaves[i] = LeafAfter(i)
    BY <1>2 DEF IInv, TreeInv
  <2>2. Full(i, Size(i)) = IF Last(i) = 0 THEN Padding ELSE addrTrace[Last(i)]
    BY <1>1, <1>2, <1>3, FullIs DEF IInv
  <2> QED
    BY <1>6, <2>1, <2>2 DEF LeafAfter
<1>8. i = NumSubcircuits => pm[i].time = pm[i].addr
  <2>1. i = NumSubcircuits => Last(i) = Len(trace)
    BY <1>2, CutIs DEF IInv
  <2>2. Eval(addrTrace, Len(trace)) = Eval(trace, Len(trace))
    BY EvalSorted DEF IInv, SetupInv, TreeInv
  <2> QED
    BY <1>6, <2>1, <2>2
<1> HIDE DEF leaf
<1>9. Fits => unsatisfied' = {}
  BY <1>1, <1>7, <1>8 DEF IInv, Satisfied, Fits
<1>10. compared' = PairsOf(pm')
  <2>1. compared' = compared \cup {} /\ Meets(i, k, {})
    BY <1>1 DEF Meets
  <2> HIDE DEF k
  <2> QED
    BY <1>2, <1>5, <2>1, ComparedIs
<1> QED
  BY <1>1, <1>2, <1>5, <1>9, <1>10, Stage1Step

-----------------------------------------------------------------------------
(* The invariant, and what follows.                                         *)

LEMMA StutterIInv == IInv /\ UNCHANGED vars => IInv'
<1> SUFFICES ASSUME IInv, UNCHANGED vars PROVE IInv'
  OBVIOUS
<1> USE DEF vars, setupVars, proverVars
<1>1. Ram' = Ram /\ NumSubcircuits' = NumSubcircuits /\ Subcircuit' = Subcircuit
  BY DEF Ram, NumSubcircuits, Subcircuit
<1>2. EntryType' = EntryType
  BY <1>1 DEF EntryType
<1>3. TypeInv' /\ CutsInv' /\ AddressInv' /\ MemoryConsistent' /\ MapInv' /\ ClockInv'
  BY <1>1, <1>2 DEF IInv, SetupInv, TypeInv, CutsInv, AddressInv, MemoryConsistent, MapInv,
                    LastWrite, ClockInv
<1>4. /\ \A i : First(i)' = First(i) /\ Last(i)' = Last(i) /\ Size(i)' = Size(i)
      /\ \A k : Source(k)' = Source(k)
  BY <1>1 DEF First, Last, Size, Source, Before, KeyLess
<1>5. /\ \A i : LeafAfter(i)' = LeafAfter(i)
      /\ \A i, k : Pairs(i, k)' = Pairs(i, k)
  BY <1>1, <1>4 DEF LeafAfter, Eval, Padding, Entry, Pairs
<1>6. TreeInv'
  BY <1>1, <1>4, <1>5 DEF IInv, TreeInv
<1>7. ManagerInv'
  <2>1. /\ trace' = trace /\ addrTrace' = addrTrace /\ pm' = pm
        /\ phase' = phase /\ unsatisfied' = unsatisfied
    OBVIOUS
  <2>2. \A j, n : /\ Eval(trace', First(j)' + n) = Eval(trace, First(j) + n)
                 /\ Eval(addrTrace', First(j)' + n) = Eval(addrTrace, First(j) + n)
    BY <1>4, <2>1
  <2> QED
    BY <1>1, <1>4, <2>1, <2>2 DEF IInv, ManagerInv
<1>8. ComparedInv'
  BY <1>5 DEF IInv, ComparedInv
<1>9. Satisfied'
  BY <1>1 DEF IInv, Satisfied
<1> QED
  BY <1>3, <1>6, <1>7, <1>8, <1>9 DEF IInv, SetupInv

LEMMA NextIInv == IInv /\ [Next]_vars => IInv'
<1> SUFFICES ASSUME IInv, [Next]_vars PROVE IInv'
  OBVIOUS
<1>1. CASE StartSubtrace
  BY <1>1, StartSubtraceIInv
<1>2. ASSUME NEW n \in Names, SetupGet(n) PROVE IInv'
  BY <1>2, SetupGetIInv
<1>3. ASSUME NEW n \in Names, NEW v \in Vals, SetupSet(n, v) PROVE IInv'
  BY <1>3, SetupSetIInv
<1>4. CASE SortByAddr
  BY <1>4, SortByAddrIInv
<1>5. CASE GenExecTree
  BY <1>5, GenExecTreeIInv
<1>6. ASSUME NEW i \in Subcircuit, Stage1(i) PROVE IInv'
  <2>1. CASE StartStage1(i)
    BY <2>1, StartStage1IInv
  <2>2. i \in DOMAIN pm => phase = "stage1"
    BY DEF IInv, ManagerInv
  <2>3. CASE PmGet(i)
    BY <2>2, <2>3, PmGetIInv DEF PmGet
  <2>4. CASE Finish(i)
    BY <2>2, <2>4, FinishIInv DEF Finish
  <2> QED
    BY <1>6, <2>1, <2>3, <2>4 DEF Stage1
<1>7. CASE UNCHANGED vars
  BY <1>7, StutterIInv
<1>8. CASE Terminated
  BY <1>7, <1>8 DEF Terminated
<1> QED
  BY <1>1, <1>2, <1>3, <1>4, <1>5, <1>6, <1>7, <1>8 DEF Next, Setup

\* The trace and its cuts, the tree, what the managers are at and have compared
\* are as the code's structure has them, in every state of every behaviour.
THEOREM PortalInvariant == Spec => []IInv
<1> QED
  BY InitIInv, NextIInv, PTL DEF Spec

\* The trace the setup managers record is that of a memory: a read of RAM returns
\* what was last written to the wire, and a ROM wire has one value.
THEOREM PortalMemoryConsistent == Spec => []MemoryConsistent
<1>1. IInv => MemoryConsistent
  BY DEF IInv, SetupInv
<1> QED
  BY <1>1, PortalInvariant, PTL

\* The trace of a circuit that runs satisfies every subcircuit's constraints:
\* those between neighbours of the sorted trace, the clock, the leaves and the
\* permutation, as long as no timestamp is used twice.
THEOREM PortalSatisfied == Spec => []Satisfied
<1>1. IInv => Satisfied
  BY DEF IInv
<1> QED
  BY <1>1, PortalInvariant, PTL

LEMMA ComparedInTheEnd == IInv => NeighboursCompared
<1> SUFFICES ASSUME IInv, AllProved
             PROVE  compared = IF Ram THEN UNION {First(i) + 2 .. Last(i) : i \in Subcircuit}
                               ELSE DOMAIN addrTrace
  BY DEF NeighboursCompared
<1>1. DOMAIN pm = Subcircuit /\ \A i \in Subcircuit : pm[i].done /\ pm[i].idx = Size(i)
  BY DEF AllProved, Done, IInv, ManagerInv
<1>2. phase = "stage1" /\ SetupInv /\ TreeInv
  <2>1. NumSubcircuits \in Nat \ {0}
    BY PortalAssumption DEF IInv, SetupInv, TypeInv, NumSubcircuits
  <2>2. 1 \in Subcircuit
    BY <2>1 DEF Subcircuit
  <2> QED
    BY <1>1, <2>2 DEF IInv, ManagerInv
<1>3. \A i \in Subcircuit : /\ First(i) \in Nat /\ Size(i) \in Nat /\ Last(i) = First(i) + Size(i)
                            /\ Last(i) <= Len(trace) /\ Len(trace) \in Nat
  BY <1>2, CutIs
<1>4. \A x : x \in compared <=>
               \E i \in Subcircuit : \E k \in 0 .. Size(i) - 1 : x \in Pairs(i, k)
  BY <1>1 DEF IInv, ComparedInv
<1>5. CASE Ram
  <2>1. ASSUME NEW i \in Subcircuit, NEW x
        PROVE  (\E k \in 0 .. Size(i) - 1 : x \in Pairs(i, k)) <=> x \in First(i) + 2 .. Last(i)
    <3> DEFINE f == First(i)
               s == Size(i)
    <3>1. f \in Nat /\ s \in Nat /\ Last(i) = f + s
      BY <1>3
    <3>2. \A k : Pairs(i, k) = {f + k + 2} \cap (1 .. Last(i))
      BY <1>5 DEF Pairs
    <3> HIDE DEF f, s
    <3>3. ASSUME NEW k \in 0 .. s - 1, x \in {f + k + 2} \cap (1 .. f + s)
          PROVE  x \in f + 2 .. f + s
      BY <3>1, <3>3
    <3>4. ASSUME x \in f + 2 .. f + s
          PROVE  x - f - 2 \in 0 .. s - 1 /\ x \in {f + (x - f - 2) + 2} \cap (1 .. f + s)
      BY <3>1, <3>4
    <3> QED
      BY <3>1, <3>2, <3>3, <3>4 DEF f, s
  <2> QED
    BY <1>4, <1>5, <2>1
<1>6. CASE ~Ram
  <2>1. DOMAIN addrTrace = 1 .. Len(trace)
    BY <1>2, TraceIs DEF SetupInv, TreeInv
  <2>2. ASSUME NEW i \in Subcircuit, NEW x
        PROVE  (\E k \in 0 .. Size(i) - 1 : x \in Pairs(i, k)) <=> x \in First(i) + 1 .. Last(i)
    <3> DEFINE f == First(i)
               s == Size(i)
    <3>1. f \in Nat /\ s \in Nat /\ Last(i) = f + s
      BY <1>3
    <3>2. \A k : Pairs(i, k) = {f + k + 1}
      BY <1>6 DEF Pairs
    <3> HIDE DEF f, s
    <3>3. ASSUME NEW k \in 0 .. s - 1, x = f + k + 1
          PROVE  x \in f + 1 .. f + s
      BY <3>1, <3>3
    <3>4. ASSUME x \in f + 1 .. f + s
          PROVE  x - f - 1 \in 0 .. s - 1 /\ x = f + (x - f - 1) + 1
      BY <3>1, <3>4
    <3> QED
      BY <3>1, <3>2, <3>3, <3>4 DEF f, s
  <2>3. \A x \in 1 .. Len(trace) : \E i \in Subcircuit : x \in First(i) + 1 .. Last(i)
    BY <1>2, CutOf
  <2>4. \A i \in Subcircuit : First(i) + 1 .. Last(i) \subseteq 1 .. Len(trace)
    BY <1>3
  <2>5. \A x : x \in compared <=> x \in 1 .. Len(trace)
    BY <1>4, <2>2, <2>3, <2>4
  <2> QED
    BY <1>6, <2>1, <2>5
<1> QED
  BY <1>5, <1>6

\* When every subcircuit is done, in whatever order they were proved, each entry of
\* a ROM trace has been compared with the one before it, across the cuts too; of a
\* RAM trace each entry but the first of every subtrace.
THEOREM PortalNeighboursCompared == Spec => []NeighboursCompared
<1> QED
  BY ComparedInTheEnd, PortalInvariant, PTL
=============================================================================
