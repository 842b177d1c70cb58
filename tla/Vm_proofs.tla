------------------------------- MODULE Vm_proofs -------------------------------
(***************************************************************************)
(* Theorems about the virtual machine circuit: the two accounts of its     *)
(* memory accesses agree, a chunk starts from the registers of the one     *)
(* before it, and which keys fit.  They hold for every number of chunks,   *)
(* of operations in a chunk and of registers.                              *)
(***************************************************************************)
EXTENDS Vm, FiniteSetTheorems, TLAPS

-----------------------------------------------------------------------------
(* The inductive invariant.                                                 *)

Operation == [read : BOOLEAN, reg : Register]

TypeInv ==
  /\ params.log \in LogNums /\ params.chunk \in Chunks /\ params.merkle \in BOOLEAN
  /\ phase \in {"keys", "trace", "prove"}
  /\ addresses \in Seq(Register)
  /\ subtraces \in Seq(Seq([addr : Nat, read : BOOLEAN]))

KeysInv ==
  /\ pks \in Seq({Shape(0), Shape(1)})
  /\ IF phase = "keys" THEN Len(pks) < 2 ELSE Len(pks) = 2
  /\ \A k \in DOMAIN pks : pks[k] = Shape(k - 1)

\* A subtrace has the operations of its subcircuit, as far as they go; all but
\* the last are complete.
TraceInv ==
  /\ phase = "keys" => subtraces = <<>>
  /\ Len(subtraces) <= NumSubcircuits
  /\ phase = "prove" => Len(subtraces) = NumSubcircuits /\ SubtraceEnds
  /\ \A j \in DOMAIN subtraces :
       /\ Len(subtraces[j]) <= Len(SetupOperations(j - 1))
       /\ j < Len(subtraces) => Len(subtraces[j]) = Len(SetupOperations(j - 1))
       /\ \A k \in DOMAIN subtraces[j] :
            /\ subtraces[j][k].addr \in DOMAIN addresses
            /\ addresses[subtraces[j][k].addr] = SetupOperations(j - 1)[k].reg
            /\ subtraces[j][k].read = SetupOperations(j - 1)[k].read

\* A register has one address, from its first write by subcircuit 0 on.
AddressInv ==
  /\ \A a, b \in DOMAIN addresses : addresses[a] = addresses[b] => a = b
  /\ \A r \in Register :
       subtraces # <<>> /\ (Len(subtraces) > 1 \/ r < Len(subtraces[1])) => Known(r)

\* What a proof finds.
ProofInv ==
  /\ proofs = [i \in Subcircuit |-> proofs[i]]
  /\ \A i \in Subcircuit :
       \/ proofs[i] = NotProved
       \/ proofs[i] = [done      |-> TRUE,
                       keyFits   |-> i = NumSubcircuits - 1 => i = 1,
                       satisfied |-> ~params.merkle,
                       met       |-> TRUE]

IInv == TypeInv /\ KeysInv /\ TraceInv /\ AddressInv /\ ProofInv

-----------------------------------------------------------------------------
(* Subcircuits and their operations.                                        *)

LEMMA NumIs ==
  ASSUME TypeInv
  PROVE  NumSubcircuits \in Nat /\ NumSubcircuits >= 2
<1> DEFINE n == params.log
           B == 1 .. n
<1>1. n \in Nat \ {0}
  BY ParamsAssumption DEF TypeInv
<1>2. IsFiniteSet(B) /\ Cardinality(B) = n
  BY <1>1, FS_Interval
<1>3. IsFiniteSet(SUBSET B) /\ Cardinality(SUBSET B) = 2^n
  BY <1>2, FS_SUBSET
<1>4. {{}, {1}} \subseteq SUBSET B
  BY <1>1
<1>5. IsFiniteSet({{}, {1}}) /\ Cardinality({{}, {1}}) = 2
  <2> DEFINE e == {{}}
             o == {1}
  <2>1. {{}, {1}} = e \cup {o} /\ o \notin e
    OBVIOUS
  <2>2. Cardinality(e) = 1 /\ IsFiniteSet(e)
    BY FS_Singleton
  <2> HIDE DEF e, o
  <2>3. IsFiniteSet(e \cup {o}) /\ Cardinality(e \cup {o}) = Cardinality(e) + 1
    BY <2>1, <2>2, FS_AddElement
  <2> QED
    BY <2>1, <2>2, <2>3
<1> HIDE DEF B, n
<1>6. Cardinality(SUBSET B) \in Nat /\ 2 <= Cardinality(SUBSET B)
  BY <1>3, <1>4, <1>5, FS_Subset, FS_CardinalityType
<1> QED
  BY <1>3, <1>6 DEF NumSubcircuits, n

LEMMA TimesIs ==
  ASSUME NEW n \in Nat, NEW S, NEW a \in S, NEW b \in S, NEW c \in S
  PROVE  Times(n, <<a, b, c>>) \in Seq(S) /\ Len(Times(n, <<a, b, c>>)) = 3 * n
<1> DEFINE s == <<a, b, c>>
           t == [k \in 1 .. 3 * n |-> s[((k - 1) % 3) + 1]]
<1>1. s \in Seq(S) /\ Len(s) = 3 /\ \A j \in 1 .. 3 : s[j] \in S
  OBVIOUS
<1>2. Times(n, s) = t
  <2>1. n * Len(s) = 3 * n
    BY <1>1
  <2> HIDE DEF s
  <2> QED
    BY <1>1, <2>1 DEF Times
<1>3. \A k \in 1 .. 3 * n : ((k - 1) % 3) + 1 \in 1 .. 3
  OBVIOUS
<1> HIDE DEF s
<1>4. t \in [1 .. 3 * n -> S] /\ 3 * n \in Nat
  BY <1>1, <1>3
<1>5. t \in Seq(S) /\ Len(t) = 3 * n
  <2> HIDE DEF t
  <2> QED
    BY <1>4
<1> QED
  BY <1>2, <1>5 DEF s

LEMMA OperationsAre ==
  ASSUME TypeInv, NEW i \in Nat
  PROVE  LET ops == SetupOperations(i)
             m   == RegisterNum + 3 * params.chunk
         IN  /\ ops \in Seq(Operation)
             /\ RegisterNum \in Nat /\ RegisterNum > 1 /\ m \in Nat /\ m >= RegisterNum
             /\ Len(ops) = IF i = 0 THEN m ELSE m + RegisterNum
             /\ \A r \in Register :
                  /\ r + 1 \in 1 .. Len(ops) /\ ops[r + 1].reg = r
                  /\ ops[r + 1].read <=> i # 0
                  /\ i # 0 => /\ m + r + 1 \in 1 .. Len(ops)
                              /\ ops[m + r + 1].reg = r /\ ~ops[m + r + 1].read
             /\ ~params.merkle => Operations(i) = ops
             /\ params.merkle => Operations(i) = <<>>
<1> DEFINE N == RegisterNum
           n == params.chunk
           T == SetupChunk
<1>1. N \in Nat /\ N > 1 /\ n \in Nat /\ Register = 0 .. N - 1 /\ 1 \in Register
  <2>1. RegisterNum \in Nat \ {0, 1} /\ params.chunk \in Nat
    BY ParamsAssumption DEF TypeInv
  <2> QED
    BY <2>1 DEF Register
<1>2. T \in Seq(Operation) /\ Len(T) = 3 * n
  <2>1. Set(1) \in Operation /\ Get(1) \in Operation
    BY <1>1 DEF Operation, Get, Set
  <2>2. T = Times(n, <<Set(1), Get(1), Get(1)>>)
    BY DEF SetupChunk
  <2> HIDE DEF T, n
  <2> QED
    BY <1>1, <2>1, <2>2, TimesIs
<1>3. /\ GetRegisters \in Seq(Operation) /\ Len(GetRegisters) = N
      /\ SetRegisters \in Seq(Operation) /\ Len(SetRegisters) = N
      /\ \A r \in Register : /\ r + 1 \in 1 .. N
                             /\ GetRegisters[r + 1] = [read |-> TRUE, reg |-> r]
                             /\ SetRegisters[r + 1] = [read |-> FALSE, reg |-> r]
  <2>1. \A k \in 1 .. N : Get(k - 1) \in Operation /\ Set(k - 1) \in Operation
    BY <1>1 DEF Get, Set, Operation
  <2>2. GetRegisters \in [1 .. N -> Operation] /\ SetRegisters \in [1 .. N -> Operation]
    BY <2>1 DEF GetRegisters, SetRegisters
  <2>3. \A r \in Register : r + 1 \in 1 .. N /\ (r + 1) - 1 = r
    BY <1>1
  <2> QED
    BY <1>1, <2>2, <2>3 DEF GetRegisters, SetRegisters, Get, Set
<1>4. Operations(i) = IF params.merkle THEN <<>> ELSE SetupOperations(i)
  BY DEF Operations, SetupOperations, DoDummyOperation, SetupChunk
<1> HIDE DEF T, N, n
<1>5. CASE i = 0
  <2>1. SetupOperations(i) = SetRegisters \o T
    BY <1>5 DEF SetupOperations, T
  <2>2. \A r \in Register : (SetRegisters \o T)[r + 1] = SetRegisters[r + 1]
    BY <1>1, <1>2, <1>3
  <2>3. SetRegisters \o T \in Seq(Operation) /\ Len(SetRegisters \o T) = N + 3 * n
    BY <1>1, <1>2, <1>3
  <2>4. \A r \in Register : SetupOperations(i)[r + 1] = [read |-> FALSE, reg |-> r]
    BY <1>3, <2>1, <2>2
  <2>5. \A r \in Register : r + 1 \in 1 .. N + 3 * n
    BY <1>1, <1>3
  <2> DEFINE S == SetupOperations(i)
             m == N + 3 * n
  <2>6. S \in Seq(Operation) /\ Len(S) = m /\ m \in Nat /\ m >= N
    BY <1>1, <2>1, <2>3
  <2>7. \A r \in Register : r + 1 \in 1 .. m /\ S[r + 1].reg = r /\ ~S[r + 1].read
    <3> HIDE DEF S, m
    <3> TAKE r \in Register
    <3>1. S[r + 1] = [read |-> FALSE, reg |-> r]
      BY <2>4 DEF S
    <3>2. r + 1 \in 1 .. m
      BY <2>5 DEF m
    <3> QED
      BY <3>1, <3>2
  <2> HIDE DEF S
  <2>8. (~params.merkle => Operations(i) = S) /\ (params.merkle => Operations(i) = <<>>)
    BY <1>4 DEF S, TypeInv
  <2> HIDE DEF m
  <2> QED
    BY <1>1, <1>5, <2>6, <2>7, <2>8 DEF N, n, m, S
<1>6. CASE i # 0
  <2> DEFINE u == GetRegisters \o T
  <2>1. SetupOperations(i) = u \o SetRegisters
    BY <1>6 DEF SetupOperations, T
  <2>2. /\ u \in Seq(Operation) /\ Len(u) = N + 3 * n
        /\ \A r \in Register : u[r + 1] = GetRegisters[r + 1]
    BY <1>1, <1>2, <1>3
  <2> HIDE DEF u
  <2>3. \A r \in Register :
          /\ (u \o SetRegisters)[r + 1] = u[r + 1]
          /\ (u \o SetRegisters)[N + 3 * n + r + 1] = SetRegisters[r + 1]
    BY <1>1, <1>3, <2>2
  <2>4. u \o SetRegisters \in Seq(Operation) /\ Len(u \o SetRegisters) = N + 3 * n + N
    BY <1>1, <1>3, <2>2
  <2>5. \A r \in Register :
          /\ SetupOperations(i)[r + 1] = [read |-> TRUE, reg |-> r]
          /\ SetupOperations(i)[N + 3 * n + r + 1] = [read |-> FALSE, reg |-> r]
    BY <1>3, <2>1, <2>2, <2>3
  <2>6. \A r \in Register : /\ r + 1 \in 1 .. N + 3 * n + N
                            /\ N + 3 * n + r + 1 \in 1 .. N + 3 * n + N
    BY <1>1, <1>3
  <2> DEFINE S == SetupOperations(i)
             m == N + 3 * n
  <2>7. S \in Seq(Operation) /\ Len(S) = m + N /\ m \in Nat /\ m >= N
    BY <1>1, <2>1, <2>4
  <2>8. \A r \in Register : /\ r + 1 \in 1 .. m + N /\ S[r + 1].reg = r /\ S[r + 1].read
                            /\ m + r + 1 \in 1 .. m + N
                            /\ S[m + r + 1].reg = r /\ ~S[m + r + 1].read
    <3> HIDE DEF S, m
    <3> TAKE r \in Register
    <3>1. /\ S[r + 1] = [read |-> TRUE, reg |-> r]
          /\ S[m + r + 1] = [read |-> FALSE, reg |-> r]
      BY <2>5 DEF S, m
    <3>2. r + 1 \in 1 .. m + N /\ m + r + 1 \in 1 .. m + N
      BY <2>6 DEF m
    <3> QED
      BY <3>1, <3>2
  <2> HIDE DEF S
  <2>9. (~params.merkle => Operations(i) = S) /\ (params.merkle => Operations(i) = <<>>)
    BY <1>4 DEF S, TypeInv
  <2> HIDE DEF m
  <2> QED
    BY <1>1, <1>6, <2>7, <2>8, <2>9 DEF N, n, m, S
<1> QED
  BY <1>5, <1>6

-----------------------------------------------------------------------------
(* The setup manager.                                                       *)

LEMMA InitIInv == Init => IInv
<1> SUFFICES ASSUME Init PROVE IInv
  OBVIOUS
<1>1. PICK l \in LogNums, c \in Chunks, m \in MerkleMemory :
        params = [log |-> l, chunk |-> c, merkle |-> m]
  BY DEF Init
<1>2. TypeInv
  BY <1>1, ParamsAssumption DEF Init, TypeInv
<1>3. KeysInv
  BY DEF Init, KeysInv
<1>4. TraceInv
  BY <1>2, NumIs DEF Init, TraceInv
<1>5. AddressInv
  BY DEF Init, AddressInv
<1>6. ProofInv
  BY DEF Init, ProofInv
<1> QED
  BY <1>2, <1>3, <1>4, <1>5, <1>6 DEF IInv

\* The subtrace being logged.
LEMMA CurrentIs ==
  ASSUME IInv, subtraces # <<>>
  PROVE  /\ Len(subtraces) \in Nat \ {0} /\ Len(subtraces) \in DOMAIN subtraces
         /\ DOMAIN subtraces = 1 .. Len(subtraces)
         /\ Current \in Nat /\ Current = Len(subtraces) - 1
         /\ Logged \in Seq([addr : Nat, read : BOOLEAN]) /\ Len(Logged) \in Nat
         /\ DOMAIN Logged = 1 .. Len(Logged)
         /\ SetupOperations(Current) \in Seq(Operation)
         /\ Len(Logged) <= Len(SetupOperations(Current))
         /\ Len(SetupOperations(Current)) \in Nat
<1>1. subtraces \in Seq(Seq([addr : Nat, read : BOOLEAN]))
  BY DEF IInv, TypeInv
<1>2. /\ Len(subtraces) \in Nat \ {0} /\ Len(subtraces) \in DOMAIN subtraces
      /\ DOMAIN subtraces = 1 .. Len(subtraces)
      /\ Logged \in Seq([addr : Nat, read : BOOLEAN])
  BY <1>1 DEF Logged
<1>3. Current \in Nat /\ Current = Len(subtraces) - 1
  BY <1>2 DEF Current
<1>4. SetupOperations(Current) \in Seq(Operation)
  BY <1>3, OperationsAre DEF IInv
<1>5. Len(Logged) <= Len(SetupOperations(Current))
  BY <1>2, <1>3 DEF IInv, TraceInv, Logged, Current
<1> QED
  BY <1>2, <1>3, <1>4, <1>5

LEMMA PlacesAre == ASSUME NEW S, NEW s \in Seq(S) PROVE \A x \in DOMAIN s : x \in Nat
  OBVIOUS

\* What an operation's wire, its first address and its entry come to.
LEMMA NameToAddrIs ==
  ASSUME TypeInv, AddressInv, NEW r \in Register
  PROVE  LET addrs == NameToAddr(r)
             a  == CHOOSE x \in DOMAIN addrs : addrs[x] = r
         IN  /\ addrs \in Seq(Register) /\ DOMAIN addresses \subseteq DOMAIN addrs
             /\ \A b \in DOMAIN addresses : addrs[b] = addresses[b]
             /\ \A b, c \in DOMAIN addrs : addrs[b] = addrs[c] => b = c
             /\ a \in DOMAIN addrs /\ a \in Nat /\ addrs[a] = r
<1> DEFINE addrs == NameToAddr(r)
<1>1. addresses \in Seq(Register) /\ DOMAIN addresses = 1 .. Len(addresses) /\ Len(addresses) \in Nat
  BY DEF TypeInv
<1>2. /\ addrs \in Seq(Register) /\ DOMAIN addresses \subseteq DOMAIN addrs
      /\ \A b \in DOMAIN addresses : addrs[b] = addresses[b]
      /\ \A b, c \in DOMAIN addrs : addrs[b] = addrs[c] => b = c
      /\ \E x \in DOMAIN addrs : addrs[x] = r
  <2>1. CASE Known(r)
    BY <1>1, <2>1 DEF NameToAddr, Known, AddressInv
  <2>2. CASE ~Known(r)
    <3>1. addrs = Append(addresses, r) /\ \A b \in DOMAIN addresses : addresses[b] # r
      BY <2>2 DEF NameToAddr, Known
    <3> HIDE DEF addrs
    <3>2. /\ addrs \in Seq(Register) /\ DOMAIN addrs = 1 .. Len(addresses) + 1
          /\ \A b \in 1 .. Len(addresses) : addrs[b] = addresses[b]
          /\ addrs[Len(addresses) + 1] = r
      BY <1>1, <3>1
    <3> QED
      BY <1>1, <3>1, <3>2 DEF AddressInv
  <2> QED
    BY <2>1, <2>2
<1> HIDE DEF addrs
<1>3. \A x \in DOMAIN addrs : x \in Nat
  <2>1. addrs \in Seq(Register)
    BY <1>2
  <2> QED
    BY <2>1, PlacesAre
<1> QED
  BY <1>2, <1>3 DEF addrs

\* No register is read before it is written.
LEMMA ReadIsKnown ==
  ASSUME IInv, subtraces # <<>>, ~SubtraceEnds
  PROVE  LET o == SetupOperations(Current)[Len(Logged) + 1]
         IN  /\ o \in Operation /\ (o.read => Known(o.reg))
             /\ Len(Logged) + 1 \in 1 .. Len(SetupOperations(Current))
<1> DEFINE k == Len(Logged) + 1
           o == SetupOperations(Current)[k]
<1>1. /\ Current \in Nat /\ Current = Len(subtraces) - 1 /\ Len(subtraces) \in Nat \ {0}
      /\ SetupOperations(Current) \in Seq(Operation)
      /\ k \in 1 .. Len(SetupOperations(Current)) /\ k - 1 = Len(Logged)
  BY CurrentIs DEF SubtraceEnds
<1>2. o \in Operation
  BY <1>1
<1>3. o.reg \in Register
  BY <1>2 DEF Operation
<1>4. CASE Current # 0
  <2>1. Len(subtraces) > 1
    BY <1>1, <1>4
  <2> QED
    BY <1>1, <1>2, <1>3, <2>1 DEF IInv, AddressInv
<1>5. CASE Current = 0
  <2>1. Len(subtraces) = 1 /\ Logged = subtraces[1]
    <3>1. Len(subtraces) = 1
      <4> HIDE DEF k, o
      <4> QED
        BY <1>1, <1>5
    <3> QED
      BY <3>1 DEF Logged
  <2>2. ASSUME o.read PROVE o.reg < Len(Logged)
    <3>1. ~(k - 1 \in Register)
      <4>1. k - 1 \in Register => ~SetupOperations(0)[(k - 1) + 1].read
        BY OperationsAre DEF IInv
      <4>2. (k - 1) + 1 = k
        BY <1>1
      <4> QED
        BY <1>5, <2>2, <4>1, <4>2
    <3>2. RegisterNum \in Nat /\ o.reg \in 0 .. RegisterNum - 1 /\ ~(k - 1 \in 0 .. RegisterNum - 1)
      BY <1>3, <3>1, ParamsAssumption DEF Register
    <3>3. k - 1 \in Nat
      BY <1>1
    <3> HIDE DEF o, k
    <3> QED
      BY <1>1, <3>2, <3>3
  <2> QED
    BY <1>1, <1>2, <1>3, <2>1, <2>2 DEF IInv, AddressInv
<1> QED
  BY <1>1, <1>2, <1>4, <1>5

LEMMA AccessIInv == IInv /\ Access => IInv'
<1> SUFFICES ASSUME IInv, Access PROVE IInv'
  OBVIOUS
<1> DEFINE n     == Len(subtraces)
           ops   == SetupOperations(Current)
           k     == Len(Logged) + 1
           o     == ops[k]
           addrs == NameToAddr(o.reg)
           a     == CHOOSE x \in DOMAIN addrs : addrs[x] = o.reg
           e     == [addr |-> a, read |-> o.read]
           st    == Append(Logged, e)
<1>1. subtraces # <<>> /\ ~SubtraceEnds /\ phase = "trace"
  BY DEF Access, SubtraceEnds
<1>2. /\ n \in Nat \ {0} /\ n \in DOMAIN subtraces /\ DOMAIN subtraces = 1 .. n
      /\ Current \in Nat /\ Current = n - 1
      /\ Logged \in Seq([addr : Nat, read : BOOLEAN]) /\ Len(Logged) \in Nat
      /\ ops \in Seq(Operation)
  BY <1>1, CurrentIs
<1>3. o \in Operation /\ (o.read => Known(o.reg)) /\ k \in 1 .. Len(ops)
  BY <1>1, ReadIsKnown
<1>4. o.reg \in Register /\ o.read \in BOOLEAN
  BY <1>3 DEF Operation
<1>5. /\ addresses' = addrs
      /\ subtraces' = [subtraces EXCEPT ![n] = Append(@, Entry(addresses', o))]
      /\ UNCHANGED <<params, phase, pks, proofs>>
  BY <1>1, <1>3 DEF Access
<1>6. /\ addrs \in Seq(Register) /\ DOMAIN addresses \subseteq DOMAIN addrs
      /\ \A b \in DOMAIN addresses : addrs[b] = addresses[b]
      /\ \A b, c \in DOMAIN addrs : addrs[b] = addrs[c] => b = c
      /\ a \in DOMAIN addrs /\ a \in Nat /\ addrs[a] = o.reg
  BY <1>4, NameToAddrIs DEF IInv
<1>7. subtraces' = [subtraces EXCEPT ![n] = st]
  <2>1. Entry(addrs, o) = e
    BY DEF Entry
  <2> QED
    BY <1>5, <2>1 DEF Logged
<1>8. e \in [addr : Nat, read : BOOLEAN] /\ e.addr = a /\ e.read = o.read
  BY <1>4, <1>6
<1> HIDE DEF o, ops, addrs, a, e
<1>9. /\ st \in Seq([addr : Nat, read : BOOLEAN]) /\ Len(st) = k
      /\ DOMAIN st = 1 .. k /\ DOMAIN Logged = 1 .. k - 1
      /\ st[k] = e /\ \A l \in 1 .. k - 1 : st[l] = Logged[l]
  BY <1>2, <1>8
<1> HIDE DEF st
<1>10. /\ Len(subtraces') = n /\ DOMAIN subtraces' = 1 .. n
       /\ subtraces' \in Seq(Seq([addr : Nat, read : BOOLEAN]))
       /\ subtraces'[n] = st /\ \A j \in 1 .. n : j # n => subtraces'[j] = subtraces[j]
  <2>1. subtraces \in Seq(Seq([addr : Nat, read : BOOLEAN]))
    BY DEF IInv, TypeInv
  <2> DEFINE T == Seq([addr : Nat, read : BOOLEAN])
  <2>2. subtraces \in [1 .. n -> T] /\ st \in T
    BY <1>2, <1>9, <2>1
  <2> HIDE DEF T
  <2>3. /\ subtraces' \in [1 .. n -> T] /\ subtraces'[n] = st
        /\ \A j \in 1 .. n : j # n => subtraces'[j] = subtraces[j]
    BY <1>2, <1>7, <2>2
  <2>4. subtraces' \in Seq(T) /\ Len(subtraces') = n
    <3>1. n \in Nat
      BY <1>2
    <3> HIDE DEF n
    <3> QED
      BY <2>3, <3>1
  <2> QED
    BY <2>3, <2>4 DEF T
<1>11. TypeInv' /\ KeysInv' /\ ProofInv'
  <2>1. TypeInv'
    BY <1>5, <1>6, <1>10 DEF IInv, TypeInv
  <2>2. KeysInv'
    BY <1>5 DEF IInv, KeysInv, Shape, NumSubcircuits
  <2>3. ProofInv'
    BY <1>5 DEF IInv, ProofInv, Subcircuit, NumSubcircuits
  <2> QED
    BY <2>1, <2>2, <2>3
<1>12. \A j : SetupOperations(j)' = SetupOperations(j)
  BY <1>5 DEF SetupOperations, SetupChunk
<1>13. TraceInv'
  <2>1. ASSUME NEW j \in 1 .. n
        PROVE  /\ Len(subtraces'[j]) <= Len(SetupOperations(j - 1))
               /\ j < n => Len(subtraces'[j]) = Len(SetupOperations(j - 1))
               /\ \A l \in DOMAIN subtraces'[j] :
                    /\ subtraces'[j][l].addr \in DOMAIN addrs
                    /\ addrs[subtraces'[j][l].addr] = SetupOperations(j - 1)[l].reg
                    /\ subtraces'[j][l].read = SetupOperations(j - 1)[l].read
    <3>1. CASE j # n
      <4>1. subtraces'[j] = subtraces[j]
        BY <1>10, <3>1
      <4>2. /\ Len(subtraces[j]) <= Len(SetupOperations(j - 1))
            /\ j < n => Len(subtraces[j]) = Len(SetupOperations(j - 1))
            /\ \A l \in DOMAIN subtraces[j] :
                 /\ subtraces[j][l].addr \in DOMAIN addresses
                 /\ addresses[subtraces[j][l].addr] = SetupOperations(j - 1)[l].reg
                 /\ subtraces[j][l].read = SetupOperations(j - 1)[l].read
        BY <1>2, <2>1 DEF IInv, TraceInv
      <4>3. ASSUME NEW l \in DOMAIN subtraces[j]
            PROVE  /\ subtraces[j][l].addr \in DOMAIN addrs
                   /\ addrs[subtraces[j][l].addr] = SetupOperations(j - 1)[l].reg
                   /\ subtraces[j][l].read = SetupOperations(j - 1)[l].read
        BY <1>6, <4>2
      <4> HIDE DEF n
      <4> QED
        BY <4>1, <4>2, <4>3
    <3>2. CASE j = n
      <4>1. SetupOperations(j - 1) = ops /\ subtraces'[j] = st
        BY <1>2, <1>10, <3>2 DEF ops
      <4>2. \A l \in 1 .. k - 1 :
              /\ Logged[l].addr \in DOMAIN addresses
              /\ addresses[Logged[l].addr] = ops[l].reg /\ Logged[l].read = ops[l].read
        BY <1>2, <1>9 DEF IInv, TraceInv, Logged, ops, Current
      <4>3. ASSUME NEW l \in 1 .. k
            PROVE  st[l].addr \in DOMAIN addrs /\ addrs[st[l].addr] = ops[l].reg /\ st[l].read = ops[l].read
        <5>1. CASE l = k
          BY <1>6, <1>8, <1>9, <5>1 DEF o
        <5>2. CASE l # k
          <6>1. l \in 1 .. k - 1
            BY <1>2, <5>2
          <6> QED
            BY <1>6, <1>9, <4>2, <6>1
        <5> QED
          BY <5>1, <5>2
      <4>4. Len(st) <= Len(ops) /\ DOMAIN st = 1 .. k /\ ~(j < n)
        BY <1>2, <1>3, <1>9, <3>2
      <4> QED
        BY <4>1, <4>3, <4>4
    <3> QED
      BY <3>1, <3>2
  <2>2. n <= NumSubcircuits' /\ phase' # "prove" /\ phase' # "keys"
    BY <1>1, <1>5 DEF IInv, TraceInv, NumSubcircuits
  <2>3. \A j \in DOMAIN subtraces' :
          /\ Len(subtraces'[j]) <= Len(SetupOperations(j - 1)')
          /\ j < Len(subtraces') => Len(subtraces'[j]) = Len(SetupOperations(j - 1)')
          /\ \A l \in DOMAIN subtraces'[j] :
               /\ subtraces'[j][l].addr \in DOMAIN addresses'
               /\ addresses'[subtraces'[j][l].addr] = SetupOperations(j - 1)'[l].reg
               /\ subtraces'[j][l].read = SetupOperations(j - 1)'[l].read
    <3>1. addresses' = addrs /\ DOMAIN subtraces' = 1 .. n /\ Len(subtraces') = n
      BY <1>5, <1>10
    <3> TAKE j \in DOMAIN subtraces'
    <3>2. SetupOperations(j - 1)' = SetupOperations(j - 1) /\ j \in 1 .. n
      BY <1>12, <3>1
    <3> HIDE DEF n
    <3> QED
      BY <2>1, <3>1, <3>2
  <2> QED
    BY <1>10, <2>2, <2>3 DEF TraceInv
<1>14. AddressInv'
  <2>1. \A r \in Register : Known(r) => Known(r)'
    BY <1>5, <1>6 DEF Known
  <2>2. \A r : r = o.reg => Known(r)'
    BY <1>5, <1>6 DEF Known
  <2>3. ASSUME NEW r \in Register, n > 1 \/ r < Len(subtraces'[1])
        PROVE  Known(r)'
    <3>1. CASE n > 1
      BY <1>1, <2>1, <3>1 DEF IInv, AddressInv
    <3>2. CASE n = 1
      <4>1. subtraces'[1] = st /\ Logged = subtraces[1] /\ r < k
        BY <1>2, <1>9, <1>10, <2>3, <3>2 DEF Logged
      <4>2. CASE r < Len(Logged)
        BY <1>1, <2>1, <4>1, <4>2 DEF IInv, AddressInv
      <4>3. CASE ~(r < Len(Logged))
        <5>1. r + 1 = k
          BY <1>2, <4>1, <4>3, ParamsAssumption DEF Register
        <5>2. SetupOperations(0)[r + 1].reg = r
          BY OperationsAre DEF IInv
        <5>3. o.reg = r
          BY <1>2, <3>2, <5>1, <5>2 DEF o, ops
        <5> QED
          BY <2>2, <5>3
      <4> QED
        BY <4>2, <4>3
    <3> QED
      BY <1>2, <3>1, <3>2
  <2> QED
    BY <1>5, <1>6, <1>10, <2>3 DEF AddressInv
<1> QED
  BY <1>11, <1>13, <1>14 DEF IInv

LEMMA StartSubtraceIInv == IInv /\ StartSubtrace => IInv'
<1> SUFFICES ASSUME IInv, StartSubtrace PROVE IInv'
  OBVIOUS
<1> DEFINE n == Len(subtraces)
           T == Seq([addr : Nat, read : BOOLEAN])
<1>1. /\ phase = "trace" /\ SubtraceEnds
      /\ IF n < NumSubcircuits THEN subtraces' = Append(subtraces, <<>>) /\ phase' = phase
                               ELSE phase' = "prove" /\ subtraces' = subtraces
      /\ UNCHANGED <<params, pks, addresses, proofs>>
  BY DEF StartSubtrace
<1>2. subtraces \in Seq(T) /\ n \in Nat /\ DOMAIN subtraces = 1 .. n
  BY DEF IInv, TypeInv
<1>3. NumSubcircuits \in Nat /\ NumSubcircuits' = NumSubcircuits /\ n <= NumSubcircuits
  BY <1>1, NumIs DEF IInv, TraceInv, NumSubcircuits
<1>4. KeysInv' /\ ProofInv'
  <2>1. phase' # "keys"
    BY <1>1
  <2>2. KeysInv'
    BY <1>1, <2>1 DEF IInv, KeysInv, Shape, NumSubcircuits
  <2>3. ProofInv'
    BY <1>1 DEF IInv, ProofInv, Subcircuit, NumSubcircuits
  <2> QED
    BY <2>2, <2>3
<1>5. \A j : SetupOperations(j)' = SetupOperations(j)
  BY <1>1 DEF SetupOperations, SetupChunk
<1>6. n > 0 => Len(subtraces[n]) = Len(SetupOperations(n - 1))
  <2>1. n > 0 => subtraces # <<>>
    BY <1>2
  <2> QED
    BY <1>1, <2>1 DEF SubtraceEnds, Logged, Current
<1>7. \A j \in 1 .. n :
        /\ Len(subtraces[j]) = Len(SetupOperations(j - 1))
        /\ \A k \in DOMAIN subtraces[j] :
             /\ subtraces[j][k].addr \in DOMAIN addresses
             /\ addresses[subtraces[j][k].addr] = SetupOperations(j - 1)[k].reg
             /\ subtraces[j][k].read = SetupOperations(j - 1)[k].read
  <2> TAKE j \in 1 .. n
  <2>1. CASE j = n
    <3>1. n > 0
      BY <1>2, <2>1
    <3>2. Len(subtraces[j]) = Len(SetupOperations(j - 1))
      <4> HIDE DEF n
      <4> QED
        BY <1>6, <2>1, <3>1
    <3> QED
      BY <1>2, <3>2 DEF IInv, TraceInv
  <2>2. CASE j # n
    <3>1. j < n
      <4> HIDE DEF n
      <4> QED
        BY <1>2, <2>2
    <3> QED
      BY <1>2, <3>1 DEF IInv, TraceInv
  <2> QED
    BY <2>1, <2>2
<1>8. \A j \in 1 .. n : Len(SetupOperations(j - 1)) \in Nat
  <2> TAKE j \in 1 .. n
  <2>1. j - 1 \in Nat
    BY <1>2
  <2>2. SetupOperations(j - 1) \in Seq(Operation)
    BY <2>1, OperationsAre DEF IInv
  <2> QED
    BY <2>2
<1>9. CASE n < NumSubcircuits
  <2>1. subtraces' = Append(subtraces, <<>>) /\ phase' = "trace"
    BY <1>1, <1>9
  <2> HIDE DEF T
  <2>2. <<>> \in T
    BY DEF T
  <2>3. /\ subtraces' \in Seq(T) /\ Len(subtraces') = n + 1 /\ DOMAIN subtraces' = 1 .. n + 1
        /\ subtraces'[n + 1] = <<>> /\ \A j \in 1 .. n : subtraces'[j] = subtraces[j]
    BY <1>2, <2>1, <2>2
  <2>4. TypeInv'
    BY <1>1, <2>1, <2>3 DEF IInv, TypeInv, T, Register
  <2>5. TraceInv'
    <3>1. Len(<<>>) = 0 /\ DOMAIN <<>> = {}
      OBVIOUS
    <3>2. Len(SetupOperations(n)) \in Nat
      <4>1. SetupOperations(n) \in Seq(Operation)
        BY <1>2, OperationsAre DEF IInv
      <4> QED
        BY <4>1
    <3> HIDE DEF n
    <3>3. ASSUME NEW j \in 1 .. n + 1
          PROVE  /\ Len(subtraces'[j]) <= Len(SetupOperations(j - 1))
                 /\ j < n + 1 => Len(subtraces'[j]) = Len(SetupOperations(j - 1))
                 /\ \A k \in DOMAIN subtraces'[j] :
                      /\ subtraces'[j][k].addr \in DOMAIN addresses
                      /\ addresses[subtraces'[j][k].addr] = SetupOperations(j - 1)[k].reg
                      /\ subtraces'[j][k].read = SetupOperations(j - 1)[k].read
      <4>1. CASE j = n + 1
        <5>1. subtraces'[j] = <<>> /\ j - 1 = n /\ ~(j < n + 1)
          BY <1>2, <2>3, <4>1
        <5> QED
          BY <3>1, <3>2, <5>1
      <4>2. CASE j # n + 1
        <5>1. j \in 1 .. n /\ subtraces'[j] = subtraces[j]
          BY <1>2, <2>3, <4>2
        <5> QED
          BY <1>7, <1>8, <5>1
      <4> QED
        BY <4>1, <4>2
    <3>4. \A j \in DOMAIN subtraces' :
            /\ Len(subtraces'[j]) <= Len(SetupOperations(j - 1)')
            /\ j < Len(subtraces') => Len(subtraces'[j]) = Len(SetupOperations(j - 1)')
            /\ \A k \in DOMAIN subtraces'[j] :
                 /\ subtraces'[j][k].addr \in DOMAIN addresses'
                 /\ addresses'[subtraces'[j][k].addr] = SetupOperations(j - 1)'[k].reg
                 /\ subtraces'[j][k].read = SetupOperations(j - 1)'[k].read
      BY <1>1, <1>5, <2>3, <3>3
    <3>5. Len(subtraces') <= NumSubcircuits' /\ phase' # "prove" /\ phase' # "keys"
      BY <1>2, <1>3, <1>9, <2>1, <2>3 DEF n
    <3> QED
      BY <3>4, <3>5 DEF TraceInv
  <2>6. AddressInv'
    <3>1. \A r : Known(r)' <=> Known(r)
      BY <1>1 DEF Known
    <3>2. ASSUME NEW r \in Register, n + 1 > 1 \/ r < Len(subtraces'[1])
          PROVE  Known(r)
      <4>1. r \in Nat
        BY DEF Register
      <4>2. n > 0
        <5>1. CASE n = 0
          <6>1. subtraces'[1] = <<>>
            BY <2>3, <5>1
          <6> QED
            BY <3>2, <4>1, <5>1, <6>1
        <5> QED
          BY <1>2, <5>1
      <4>3. subtraces # <<>>
        BY <1>2, <4>2
      <4>4. CASE n > 1
        BY <4>3, <4>4 DEF IInv, AddressInv
      <4>5. CASE n = 1
        <5>1. r < Len(subtraces[1])
          <6>1. r + 1 \in 1 .. Len(SetupOperations(0))
            BY OperationsAre DEF IInv
          <6>2. Len(subtraces[1]) = Len(SetupOperations(0)) /\ Len(SetupOperations(0)) \in Nat
            <7>1. 1 \in 1 .. n /\ 1 - 1 = 0
              BY <4>5
            <7> QED
              BY <1>7, <1>8, <7>1
          <6> QED
            BY <4>1, <6>1, <6>2
        <5> QED
          BY <4>3, <5>1 DEF IInv, AddressInv
      <4> QED
        BY <1>2, <4>2, <4>4, <4>5
    <3>3. Register' = Register /\ addresses' = addresses
      BY <1>1 DEF Register
    <3>4. \A r \in Register : subtraces' # <<>> /\ (Len(subtraces') > 1 \/ r < Len(subtraces'[1])) => Known(r)'
      BY <2>3, <3>1, <3>2
    <3>5. \A a, b \in DOMAIN addresses' : addresses'[a] = addresses'[b] => a = b
      BY <3>3 DEF IInv, AddressInv
    <3> QED
      BY <3>4, <3>5 DEF AddressInv
  <2> QED
    BY <1>4, <2>4, <2>5, <2>6 DEF IInv
<1>10. CASE ~(n < NumSubcircuits)
  <2>1. subtraces' = subtraces /\ phase' = "prove" /\ n = NumSubcircuits
    <3> HIDE DEF n, T
    <3> QED
      BY <1>1, <1>2, <1>3, <1>10
  <2>2. TypeInv'
    BY <1>1, <2>1 DEF IInv, TypeInv, Register
  <2>3. SubtraceEnds'
    BY <1>1, <1>5, <2>1 DEF SubtraceEnds, Logged, Current
  <2>4. TraceInv'
    BY <1>1, <1>3, <1>5, <2>1, <2>3 DEF IInv, TraceInv
  <2>5. AddressInv'
    BY <1>1, <2>1 DEF IInv, AddressInv, Known, Register
  <2> QED
    BY <1>4, <2>2, <2>4, <2>5 DEF IInv
<1> QED
  BY <1>9, <1>10

-----------------------------------------------------------------------------
(* Keys and proofs.                                                         *)

LEMMA GenPkIInv == IInv /\ GenPk => IInv'
<1> SUFFICES ASSUME IInv, GenPk PROVE IInv'
  OBVIOUS
<1>1. /\ phase = "keys" /\ pks' = Append(pks, Shape(UniqueSubcircuits[Len(pks) + 1]))
      /\ phase' = IF Len(pks') = Len(UniqueSubcircuits) THEN "trace" ELSE "keys"
      /\ UNCHANGED <<params, addresses, subtraces, proofs>>
  BY DEF GenPk
<1>2. pks \in Seq({Shape(0), Shape(1)}) /\ Len(pks) \in {0, 1}
  <2>1. pks \in Seq({Shape(0), Shape(1)}) /\ Len(pks) < 2
    BY <1>1 DEF IInv, KeysInv
  <2>2. Len(pks) \in Nat
    <3> DEFINE S == {Shape(0), Shape(1)}
    <3>1. pks \in Seq(S)
      BY <2>1
    <3> HIDE DEF S
    <3> QED
      BY <3>1
  <2>3. Len(pks) < 2
    BY <2>1
  <2>4. Len(pks) \in {0, 1}
    BY <2>2, <2>3
  <2> QED
    BY <2>1, <2>4
<1>3. Len(UniqueSubcircuits) = 2 /\ UniqueSubcircuits[Len(pks) + 1] = Len(pks)
  BY <1>2 DEF UniqueSubcircuits
<1>4. pks' = Append(pks, Shape(Len(pks))) /\ Shape(Len(pks)) \in {Shape(0), Shape(1)}
  BY <1>1, <1>2, <1>3
<1>5. /\ pks' \in Seq({Shape(0), Shape(1)}) /\ Len(pks') = Len(pks) + 1
      /\ \A k \in DOMAIN pks' : pks'[k] = Shape(k - 1)
  <2> DEFINE S == {Shape(0), Shape(1)}
             s == Shape(Len(pks))
  <2>1. pks \in Seq(S) /\ s \in S /\ pks' = Append(pks, s)
    BY <1>2, <1>4
  <2> HIDE DEF S, s
  <2>2. /\ pks' \in Seq(S) /\ Len(pks') = Len(pks) + 1 /\ DOMAIN pks' = 1 .. Len(pks) + 1
        /\ pks'[Len(pks) + 1] = s /\ Len(pks) \in Nat /\ DOMAIN pks = 1 .. Len(pks)
        /\ \A k \in 1 .. Len(pks) : pks'[k] = pks[k]
    BY <2>1
  <2>3. ASSUME NEW k \in 1 .. Len(pks) + 1 PROVE pks'[k] = Shape(k - 1)
    <3>1. CASE k = Len(pks) + 1
      <4>1. k - 1 = Len(pks)
        BY <2>2, <3>1
      <4> QED
        BY <2>2, <3>1, <4>1 DEF s
    <3>2. CASE k # Len(pks) + 1
      <4>1. k \in DOMAIN pks
        BY <2>2, <3>2
      <4> QED
        BY <2>2, <4>1 DEF IInv, KeysInv
    <3> QED
      BY <3>1, <3>2
  <2> QED
    BY <2>2, <2>3 DEF S
<1>6. \A k : Shape(k)' = Shape(k)
  BY <1>1 DEF Shape, NumSubcircuits
<1>7. KeysInv'
  BY <1>1, <1>2, <1>3, <1>5, <1>6 DEF KeysInv
<1>8. TypeInv' /\ AddressInv'
  BY <1>1 DEF IInv, TypeInv, AddressInv, Known, Register
<1>9. TraceInv'
  <2>1. phase' # "prove" /\ subtraces' = <<>> /\ NumSubcircuits' = NumSubcircuits
    BY <1>1 DEF IInv, TraceInv, NumSubcircuits
  <2> QED
    BY <1>1, <2>1 DEF IInv, TraceInv
<1>10. ProofInv'
  BY <1>1 DEF IInv, ProofInv, Subcircuit, NumSubcircuits
<1> QED
  BY <1>7, <1>8, <1>9, <1>10 DEF IInv

\* What subcircuit i's key was made for.
LEMMA KeyIs ==
  ASSUME IInv, phase = "prove", NEW i \in Subcircuit
  PROVE  Pk(i) = Shape(i) <=> (i = NumSubcircuits - 1 => i = 1)
<1>1. NumSubcircuits \in Nat /\ NumSubcircuits >= 2 /\ i \in 0 .. NumSubcircuits - 1
  BY NumIs DEF IInv, Subcircuit
<1>2. DOMAIN pks = 1 .. 2 /\ pks[1] = Shape(0) /\ pks[2] = Shape(1)
  <2>1. DOMAIN pks = 1 .. 2 /\ \A k \in DOMAIN pks : pks[k] = Shape(k - 1)
    BY DEF IInv, KeysInv
  <2> QED
    BY <2>1
<1>3. Pk(i) = IF i = 0 THEN Shape(0) ELSE Shape(1)
  <2>1. UniqueSubcircuits[1] = 0 /\ UniqueSubcircuits[2] = 1
    BY DEF UniqueSubcircuits
  <2>2. RepresentativeSubcircuit(i) = IF i = 0 THEN 0 ELSE 1
    BY DEF RepresentativeSubcircuit
  <2>3. \A k \in 1 .. 2 : k = 1 \/ k = 2
    OBVIOUS
  <2>4. (CHOOSE k \in DOMAIN pks : UniqueSubcircuits[k] = RepresentativeSubcircuit(i))
          = IF i = 0 THEN 1 ELSE 2
    BY <1>2, <2>1, <2>2, <2>3
  <2> QED
    BY <1>2, <2>4 DEF Pk
<1>4. CASE i = 0
  BY <1>1, <1>3, <1>4
<1>5. CASE i # 0
  <2>1. Pk(i) = Shape(i) <=> ((1 = NumSubcircuits - 1) <=> (i = NumSubcircuits - 1))
    BY <1>3, <1>5 DEF Shape
  <2> QED
    BY <1>1, <1>5, <2>1
<1> QED
  BY <1>4, <1>5

LEMMA ProveIInv == ASSUME IInv, NEW i \in Subcircuit, Prove(i) PROVE IInv'
<1> DEFINE tr  == subtraces[i + 1]
           ops == Operations(i)
           all == SetupOperations(i)
           p   == [done      |-> TRUE,
                   keyFits   |-> Pk(i) = Shape(i),
                   satisfied |-> Len(ops) = Len(tr),
                   met       |-> \A k \in DOMAIN ops : /\ addresses[tr[k].addr] = ops[k].reg
                                                       /\ tr[k].read = ops[k].read]
<1>1. phase = "prove"
  BY DEF Prove
<1>2. /\ NumSubcircuits \in Nat /\ i \in Nat /\ i + 1 \in 1 .. NumSubcircuits
      /\ Len(subtraces) = NumSubcircuits /\ DOMAIN subtraces = 1 .. NumSubcircuits
      /\ (i + 1) - 1 = i
  <2>1. NumSubcircuits \in Nat /\ i \in 0 .. NumSubcircuits - 1
    BY NumIs DEF IInv, Subcircuit
  <2>2. Len(subtraces) = NumSubcircuits /\ subtraces \in Seq(Seq([addr : Nat, read : BOOLEAN]))
    BY <1>1 DEF IInv, TraceInv, TypeInv
  <2> QED
    BY <2>1, <2>2
<1>3. Len(tr) = Len(all)
  <2>1. CASE i + 1 < NumSubcircuits
    BY <1>2, <2>1 DEF IInv, TraceInv
  <2>2. CASE i + 1 = NumSubcircuits
    <3>1. subtraces # <<>> /\ SubtraceEnds
      BY <1>1, <1>2 DEF IInv, TraceInv
    <3>2. Logged = tr /\ Current = i
      BY <1>2, <2>2 DEF Logged, Current
    <3> QED
      BY <3>1, <3>2 DEF SubtraceEnds
  <2> QED
    BY <1>2, <2>1, <2>2
<1>4. \A k \in DOMAIN tr : addresses[tr[k].addr] = all[k].reg /\ tr[k].read = all[k].read
  BY <1>2 DEF IInv, TraceInv
<1>5. /\ all \in Seq(Operation) /\ Len(all) \in Nat \ {0}
      /\ (~params.merkle => ops = all) /\ (params.merkle => ops = <<>>)
  <2>1. /\ all \in Seq(Operation)
        /\ (~params.merkle => ops = all) /\ (params.merkle => ops = <<>>)
    BY <1>2, OperationsAre DEF IInv
  <2>2. 0 \in Register
    <3>1. RegisterNum \in Nat \ {0, 1}
      BY ParamsAssumption
    <3> QED
      BY <3>1 DEF Register
  <2>3. 0 + 1 \in 1 .. Len(all)
    BY <1>2, <2>2, OperationsAre DEF IInv
  <2> QED
    BY <2>1, <2>3
<1>6. tr \in Seq([addr : Nat, read : BOOLEAN])
  BY <1>2 DEF IInv, TypeInv
<1> HIDE DEF tr, ops, all
<1>7. /\ ~(Len(ops) > Len(tr))
      /\ (Len(ops) = Len(tr)) = ~params.merkle
      /\ \A k \in DOMAIN ops : addresses[tr[k].addr] = ops[k].reg /\ tr[k].read = ops[k].read
  <2>1. CASE params.merkle
    <3>1. ops = <<>> /\ Len(ops) = 0 /\ DOMAIN ops = {}
      BY <1>5, <2>1
    <3> QED
      BY <1>3, <1>5, <2>1, <3>1
  <2>2. CASE ~params.merkle
    <3>1. ops = all /\ DOMAIN ops = 1 .. Len(all) /\ DOMAIN tr = 1 .. Len(tr)
      BY <1>5, <1>6, <2>2
    <3> QED
      BY <1>3, <1>4, <1>5, <2>2, <3>1
  <2> QED
    BY <2>1, <2>2
<1>8. /\ proofs' = [proofs EXCEPT ![i] = p]
      /\ UNCHANGED <<params, phase, pks, addresses, subtraces>>
  BY <1>7 DEF Prove, tr, ops
<1>9. p = [done      |-> TRUE,
           keyFits   |-> i = NumSubcircuits - 1 => i = 1,
           satisfied |-> ~params.merkle,
           met       |-> TRUE]
  <2>1. (Pk(i) = Shape(i)) = (i = NumSubcircuits - 1 => i = 1)
    BY <1>1, KeyIs
  <2>2. (\A k \in DOMAIN ops : addresses[tr[k].addr] = ops[k].reg /\ tr[k].read = ops[k].read)
          = TRUE
    BY <1>7
  <2> QED
    BY <1>7, <2>1, <2>2
<1> HIDE DEF p
<1>10. ProofInv'
  <2>1. /\ Subcircuit' = Subcircuit /\ NumSubcircuits' = NumSubcircuits /\ params' = params
        /\ NotProved' = NotProved
    BY <1>8 DEF Subcircuit, NumSubcircuits, NotProved
  <2>2. proofs' = [j \in Subcircuit |-> IF j = i THEN p ELSE proofs[j]]
    BY <1>8 DEF IInv, ProofInv
  <2> QED
    BY <1>9, <2>1, <2>2 DEF IInv, ProofInv
<1>11. TypeInv' /\ KeysInv' /\ AddressInv'
  BY <1>8 DEF IInv, TypeInv, KeysInv, AddressInv, Known, Register, Shape, NumSubcircuits
<1>12. TraceInv'
  <2>1. \A j : SetupOperations(j)' = SetupOperations(j)
    BY <1>8 DEF SetupOperations, SetupChunk
  <2>2. SubtraceEnds' = SubtraceEnds /\ NumSubcircuits' = NumSubcircuits
    BY <1>8, <2>1 DEF SubtraceEnds, Logged, Current, NumSubcircuits
  <2> QED
    BY <1>8, <2>1, <2>2 DEF IInv, TraceInv
<1> QED
  BY <1>10, <1>11, <1>12 DEF IInv

LEMMA StutterIInv == IInv /\ UNCHANGED vars => IInv'
<1> SUFFICES ASSUME IInv, UNCHANGED vars PROVE IInv'
  OBVIOUS
<1> USE DEF vars
<1>1. TypeInv' /\ KeysInv' /\ AddressInv' /\ ProofInv'
  BY DEF IInv, TypeInv, KeysInv, AddressInv, ProofInv, Known, Register, Shape, Subcircuit,
         NumSubcircuits
<1>2. TraceInv'
  <2>1. \A j : SetupOperations(j)' = SetupOperations(j)
    BY DEF SetupOperations, SetupChunk
  <2>2. SubtraceEnds' = SubtraceEnds /\ NumSubcircuits' = NumSubcircuits
    BY <2>1 DEF SubtraceEnds, Logged, Current, NumSubcircuits
  <2> QED
    BY <2>1, <2>2 DEF IInv, TraceInv
<1> QED
  BY <1>1, <1>2 DEF IInv

LEMMA NextIInv == IInv /\ [Next]_vars => IInv'
<1> SUFFICES ASSUME IInv, [Next]_vars PROVE IInv'
  OBVIOUS
<1>1. CASE GenPk
  BY <1>1, GenPkIInv
<1>2. CASE StartSubtrace
  BY <1>2, StartSubtraceIInv
<1>3. CASE Access
  BY <1>3, AccessIInv
<1>4. ASSUME NEW i \in Subcircuit, Prove(i) PROVE IInv'
  BY <1>4, ProveIInv
<1>5. CASE Terminated \/ UNCHANGED vars
  BY <1>5, StutterIInv DEF Terminated
<1> QED
  BY <1>1, <1>2, <1>3, <1>4, <1>5 DEF Next

\* Type correctness, with the keys, the subtraces as far as they are logged, the
\* addresses given out and what the proofs find.
THEOREM VmInvariant == Spec => []IInv
<1>1. Init => IInv
  BY InitIInv
<1>2. IInv /\ [Next]_vars => IInv'
  BY NextIInv
<1> QED
  BY <1>1, <1>2, PTL DEF Spec

-----------------------------------------------------------------------------
(* The properties.                                                          *)

\* What a finished proof found.
LEMMA ProofIs ==
  ASSUME IInv, NEW i \in Subcircuit, proofs[i].done
  PROVE  /\ proofs[i].keyFits <=> (i = NumSubcircuits - 1 => i = 1)
         /\ proofs[i].satisfied <=> ~params.merkle
         /\ proofs[i].met
<1> DEFINE fits == i = NumSubcircuits - 1 => i = 1
           portal == ~params.merkle
<1>1. proofs[i] # NotProved
  BY DEF NotProved
<1>2. proofs[i] = [done |-> TRUE, keyFits |-> fits, satisfied |-> portal, met |-> TRUE]
  BY <1>1 DEF IInv, ProofInv
<1> HIDE DEF fits, portal
<1>3. proofs[i].keyFits = fits /\ proofs[i].satisfied = portal /\ proofs[i].met = TRUE
  BY <1>2
<1> QED
  BY <1>3 DEF fits, portal

\* The operations get_portal_subtraces logs are those generate_constraints
\* consumes, however many chunks, operations and registers: nothing panics, every
\* entry meets its operation, and only Merkle memory leaves entries over.
THEOREM VmProofsValid == Spec => []ProofsValid
<1>1. ASSUME IInv PROVE ProofsValid
  <2>1. phase # "panicked"
    BY <1>1 DEF IInv, TypeInv
  <2>2. ASSUME NEW i \in Subcircuit, proofs[i].done
        PROVE  proofs[i].met /\ (proofs[i].satisfied <=> ~params.merkle)
    BY <1>1, <2>2, ProofIs
  <2> QED
    BY <2>1, <2>2 DEF ProofsValid
<1> QED
  BY <1>1, VmInvariant, PTL

\* Two keys, for subcircuits 0 and 1, fit all subcircuits but the last of more
\* than two, which checks the permutation besides.
THEOREM VmKeysFit == Spec => []KeysFitButLast
<1>1. ASSUME IInv PROVE KeysFitButLast
  <2>1. ASSUME NEW i \in Subcircuit, proofs[i].done
        PROVE  proofs[i].keyFits <=> (i = NumSubcircuits - 1 => i = 1)
    BY <1>1, <2>1, ProofIs
  <2> QED
    BY <2>1 DEF KeysFitButLast
<1> QED
  BY <1>1, VmInvariant, PTL

\* In a complete trace entry k of subtrace i is operation k of subcircuit i - 1.
LEMMA TraceIs ==
  ASSUME IInv, phase = "prove", NEW i \in 1 .. Len(subtraces)
  PROVE  /\ subtraces[i] \in Seq([addr : Nat, read : BOOLEAN])
         /\ DOMAIN subtraces[i] = 1 .. Len(SetupOperations(i - 1))
         /\ \A k \in DOMAIN subtraces[i] :
              /\ subtraces[i][k].addr \in DOMAIN addresses
              /\ addresses[subtraces[i][k].addr] = SetupOperations(i - 1)[k].reg
              /\ subtraces[i][k].read = SetupOperations(i - 1)[k].read
<1>1. /\ subtraces \in Seq(Seq([addr : Nat, read : BOOLEAN])) /\ Len(subtraces) \in Nat
      /\ DOMAIN subtraces = 1 .. Len(subtraces)
  BY DEF IInv, TypeInv
<1>2. subtraces[i] \in Seq([addr : Nat, read : BOOLEAN])
  BY <1>1
<1>3. Len(subtraces[i]) = Len(SetupOperations(i - 1))
  <2>1. CASE i = Len(subtraces)
    <3>1. subtraces # <<>> /\ SubtraceEnds
      BY <1>1 DEF IInv, TraceInv
    <3> QED
      BY <2>1, <3>1 DEF SubtraceEnds, Logged, Current
  <2>2. CASE i # Len(subtraces)
    <3>1. i < Len(subtraces)
      <4> DEFINE n == Len(subtraces)
      <4>1. n \in Nat /\ i \in 1 .. n /\ i # n
        BY <1>1, <2>2
      <4> HIDE DEF n
      <4>2. i < n
        BY <4>1
      <4> QED
        BY <4>2 DEF n
    <3> QED
      BY <1>1, <3>1 DEF IInv, TraceInv
  <2> QED
    BY <2>1, <2>2
<1>4. DOMAIN subtraces[i] = 1 .. Len(SetupOperations(i - 1))
  BY <1>2, <1>3
<1> QED
  BY <1>1, <1>2, <1>4 DEF IInv, TraceInv

\* Every subcircuit writes each register, and each but the first starts by reading
\* them in turn.
LEMMA RegistersAre ==
  ASSUME TypeInv, NEW i \in Nat, NEW r \in Register
  PROVE  /\ i # 0 => /\ r + 1 \in 1 .. Len(SetupOperations(i))
                     /\ SetupOperations(i)[r + 1].reg = r /\ SetupOperations(i)[r + 1].read
         /\ \E k \in 1 .. Len(SetupOperations(i)) :
              SetupOperations(i)[k].reg = r /\ ~SetupOperations(i)[k].read
<1> DEFINE S == SetupOperations(i)
           m == RegisterNum + 3 * params.chunk
<1>1. /\ r + 1 \in 1 .. Len(S) /\ S[r + 1].reg = r
      /\ S[r + 1].read <=> i # 0
      /\ i # 0 => /\ m + r + 1 \in 1 .. Len(S)
                  /\ S[m + r + 1].reg = r /\ ~S[m + r + 1].read
  BY OperationsAre
<1> HIDE DEF S, m
<1> QED
  <2>1. i = 0 => \E k \in 1 .. Len(S) : S[k].reg = r /\ ~S[k].read
    BY <1>1
  <2>2. i # 0 => \E k \in 1 .. Len(S) : S[k].reg = r /\ ~S[k].read
    BY <1>1
  <2> QED
    BY <1>1, <2>1, <2>2 DEF S

\* Every subcircuit but the first starts by reading each register, before any other
\* access to it, and the subcircuit before it writes each register.
THEOREM VmChunksHandOver == Spec => []ChunksHandOver
<1>1. ASSUME IInv PROVE ChunksHandOver
  <2> SUFFICES ASSUME phase = "prove", NEW i \in 2 .. Len(subtraces), NEW a \in DOMAIN addresses
               PROVE  /\ \E k \in DOMAIN subtraces[i] :
                           /\ subtraces[i][k].addr = a /\ subtraces[i][k].read
                           /\ \A l \in 1 .. k - 1 : subtraces[i][l].addr # a
                      /\ \E k \in DOMAIN subtraces[i - 1] :
                           subtraces[i - 1][k].addr = a /\ ~subtraces[i - 1][k].read
    BY DEF ChunksHandOver
  <2> DEFINE r == addresses[a]
             S == SetupOperations(i - 1)
             P == SetupOperations(i - 2)
             st == subtraces[i]
             su == subtraces[i - 1]
  <2>1. r \in Register
    BY <1>1 DEF IInv, TypeInv
  <2>2. \A b \in DOMAIN addresses : addresses[b] = r => b = a
    BY <1>1 DEF IInv, AddressInv
  <2>3. Len(subtraces) \in Nat
    BY <1>1 DEF IInv, TypeInv
  <2>4. /\ i \in 1 .. Len(subtraces) /\ i - 1 \in 1 .. Len(subtraces) /\ (i - 1) - 1 = i - 2
        /\ i - 1 \in Nat /\ i - 1 # 0 /\ i - 2 \in Nat
    BY <2>3
  <2>5. /\ DOMAIN st = 1 .. Len(S)
        /\ \A k \in DOMAIN st : /\ st[k].addr \in DOMAIN addresses
                                /\ addresses[st[k].addr] = S[k].reg
                                /\ st[k].read = S[k].read
    BY <1>1, <2>4, TraceIs
  <2>6. /\ DOMAIN su = 1 .. Len(P)
        /\ \A k \in DOMAIN su : /\ su[k].addr \in DOMAIN addresses
                                /\ addresses[su[k].addr] = P[k].reg
                                /\ su[k].read = P[k].read
    <3>1. /\ DOMAIN su = 1 .. Len(SetupOperations((i - 1) - 1))
          /\ \A k \in DOMAIN su : /\ su[k].addr \in DOMAIN addresses
                                  /\ addresses[su[k].addr] = SetupOperations((i - 1) - 1)[k].reg
                                  /\ su[k].read = SetupOperations((i - 1) - 1)[k].read
      <4> DEFINE j == i - 1
      <4>1. j \in 1 .. Len(subtraces)
        BY <2>4
      <4> HIDE DEF j
      <4>2. /\ DOMAIN subtraces[j] = 1 .. Len(SetupOperations(j - 1))
            /\ \A k \in DOMAIN subtraces[j] :
                 /\ subtraces[j][k].addr \in DOMAIN addresses
                 /\ addresses[subtraces[j][k].addr] = SetupOperations(j - 1)[k].reg
                 /\ subtraces[j][k].read = SetupOperations(j - 1)[k].read
        BY <1>1, <4>1, TraceIs
      <4> QED
        BY <4>2 DEF j
    <3> QED
      BY <2>4, <3>1
  <2>7. \A q \in Register : q + 1 \in 1 .. Len(S) /\ S[q + 1].reg = q /\ S[q + 1].read
    <3> DEFINE j == i - 1
    <3>1. j \in Nat /\ j # 0 /\ TypeInv
      BY <1>1, <2>4 DEF IInv
    <3> HIDE DEF j
    <3>2. \A q \in Register : /\ q + 1 \in 1 .. Len(SetupOperations(j))
                              /\ SetupOperations(j)[q + 1].reg = q
                              /\ SetupOperations(j)[q + 1].read
      BY <3>1, RegistersAre
    <3> QED
      BY <3>2 DEF j
  <2>8. \E k \in 1 .. Len(P) : P[k].reg = r /\ ~P[k].read
    <3> DEFINE j == i - 2
    <3>1. j \in Nat /\ TypeInv
      BY <1>1, <2>4 DEF IInv
    <3> HIDE DEF j, r
    <3>2. \E k \in 1 .. Len(SetupOperations(j)) :
            SetupOperations(j)[k].reg = r /\ ~SetupOperations(j)[k].read
      BY <2>1, <3>1, RegistersAre
    <3> QED
      BY <3>2 DEF j
  <2>9. r \in Nat /\ \A l \in 1 .. r : l - 1 \in Register /\ (l - 1) + 1 = l /\ l - 1 # r
    <3>1. RegisterNum \in Nat
      BY ParamsAssumption
    <3> HIDE DEF r
    <3> QED
      BY <2>1, <3>1 DEF Register
  <2> HIDE DEF r, S, P, st, su
  <2>10. r + 1 \in DOMAIN st /\ st[r + 1].addr = a /\ st[r + 1].read
    BY <2>1, <2>2, <2>5, <2>7
  <2>11. ASSUME NEW l \in 1 .. r PROVE st[l].addr # a
    <3>1. l \in DOMAIN st /\ S[l].reg = l - 1
      BY <2>5, <2>7, <2>9
    <3> QED
      BY <2>5, <2>9, <3>1 DEF r
  <2>12. \E k \in DOMAIN su : su[k].addr = a /\ ~su[k].read
    BY <2>2, <2>6, <2>8
  <2>13. (r + 1) - 1 = r
    BY <2>9
  <2>14. \E k \in DOMAIN st : /\ st[k].addr = a /\ st[k].read
                              /\ \A l \in 1 .. k - 1 : st[l].addr # a
    BY <2>10, <2>11, <2>13
  <2> QED
    BY <2>12, <2>14 DEF st, su
<1> QED
  BY <1>1, VmInvariant, PTL
=============================================================================
