--------------------------- MODULE PodNetworkProofs ---------------------------
(***************************************************************************)
(* Theorems about PodNetwork.tla, for any sandboxes, tasks, interfaces and *)
(* RDMA devices, and about the addresses of RandomIPAM.tla, for any size   *)
(* of the bytes and any number of them.                                    *)
(***************************************************************************)
EXTENDS PreparedAddresses, FoldLemmas, TLAPS

USE PodNetworkAssumption

(* The four ways for Configure to return an error.                         *)
Failure(t) == pc[t] \in {"opened", "resolved"} /\ Fail(t)

LEMMA NextCases ==
    ASSUME Next
    PROVE  \/ \E s \in Sandboxes : RunPodSandbox(s) \/ StopPodSandbox(s) \/ EndNamespace(s)
           \/ \E t \in Tasks : \/ GetNamespace(t) \/ ResolveRdma(t) \/ MoveRdma(t)
                               \/ MoveLink(t) \/ AddMacvlan(t) \/ Failure(t)
                               \/ DestroyMacvlan(t)
           \/ \E i \in HostDevices : ReturnLink(i)
           \/ \E r \in RdmaDevices : ReturnRdma(r)
BY DEF Next, Configure, Kernel, Failure, ResolveRdmaFails, MoveRdmaFails,
       MoveLinkFails, AddMacvlanFails

LEMMA InitEstablishes == Init => IInv
<1> SUFFICES ASSUME Init PROVE IInv
    OBVIOUS
<1>1. TypeOK
    BY DEF Init, TypeOK
<1>2. ResolvedIsHeld /\ StartedIsSupported
    BY DEF Init, ResolvedIsHeld, StartedIsSupported
<1>3. ConfiguredIsThere /\ SplitIsReported
    BY DEF Init, ConfiguredIsThere, SplitIsReported
<1> QED
    BY <1>1, <1>2, <1>3 DEF IInv

LEMMA TypePreserved ==
    ASSUME TypeOK, [Next]_vars
    PROVE  TypeOK'
<1>1. ASSUME NEW s \in Sandboxes,
             RunPodSandbox(s) \/ StopPodSandbox(s) \/ EndNamespace(s)
      PROVE  TypeOK'
    BY <1>1 DEF TypeOK, RunPodSandbox, StopPodSandbox, EndNamespace
<1>2. ASSUME NEW t \in Tasks, GetNamespace(t) \/ Failure(t)
      PROVE  TypeOK'
    BY <1>2 DEF TypeOK, GetNamespace, Failure, Fail, Goto
<1>3. ASSUME NEW t \in Tasks, ResolveRdma(t)
      PROVE  TypeOK'
  <2>1. RDMADevicesForNetdev(HostDevice[t]) \subseteq RdmaOf(HostDevice[t])
      BY DEF RDMADevicesForNetdev
  <2>2. RdmaOf(HostDevice[t]) \subseteq RdmaDevices
      BY DEF RdmaOf
  <2> QED
      BY <1>3, <2>1, <2>2 DEF TypeOK, ResolveRdma, Goto
<1>4. ASSUME NEW t \in Tasks, MoveRdma(t)
      PROVE  TypeOK'
    BY <1>4 DEF TypeOK, MoveRdma
<1>5. ASSUME NEW t \in Tasks, MoveLink(t) \/ AddMacvlan(t)
      PROVE  TypeOK'
    BY <1>5 DEF TypeOK, MoveLink, AddMacvlan, Goto
<1>6. ASSUME NEW i \in HostDevices, ReturnLink(i)
      PROVE  TypeOK'
    BY <1>6 DEF TypeOK, ReturnLink
<1>7. ASSUME NEW r \in RdmaDevices, ReturnRdma(r)
      PROVE  TypeOK'
    BY <1>7 DEF TypeOK, ReturnRdma
<1>8. ASSUME NEW t \in Tasks, DestroyMacvlan(t)
      PROVE  TypeOK'
    BY <1>8 DEF TypeOK, DestroyMacvlan
<1>9. CASE UNCHANGED vars
    BY <1>9 DEF TypeOK, vars
<1> QED
    BY <1>1, <1>2, <1>3, <1>4, <1>5, <1>6, <1>7, <1>8, <1>9, NextCases

LEMMA HeldPreserved ==
    ASSUME IInv, [Next]_vars
    PROVE  ResolvedIsHeld'
<1> USE DEF IInv, TypeOK, ResolvedIsHeld
<1>1. ASSUME NEW s \in Sandboxes, RunPodSandbox(s)
      PROVE  ResolvedIsHeld'
    BY <1>1 DEF RunPodSandbox, StartedIsSupported
<1>2. ASSUME NEW s \in Sandboxes, StopPodSandbox(s) \/ EndNamespace(s)
      PROVE  ResolvedIsHeld'
    BY <1>2 DEF StopPodSandbox, EndNamespace
<1>3. ASSUME NEW t \in Tasks, GetNamespace(t) \/ Failure(t)
      PROVE  ResolvedIsHeld'
    BY <1>3 DEF GetNamespace, Failure, Fail, Goto
<1>4. ASSUME NEW t \in Tasks, ResolveRdma(t)
      PROVE  ResolvedIsHeld'
    BY <1>4 DEF ResolveRdma, Goto
<1>5. ASSUME NEW t \in Tasks, MoveRdma(t)
      PROVE  ResolvedIsHeld'
    BY <1>5 DEF MoveRdma
<1>6. ASSUME NEW t \in Tasks, MoveLink(t) \/ AddMacvlan(t)
      PROVE  ResolvedIsHeld'
    BY <1>6 DEF MoveLink, AddMacvlan, Goto
<1>7. ASSUME NEW i \in HostDevices, ReturnLink(i)
      PROVE  ResolvedIsHeld'
    BY <1>7 DEF ReturnLink
<1>8. ASSUME NEW r \in RdmaDevices, ReturnRdma(r)
      PROVE  ResolvedIsHeld'
    BY <1>8 DEF ReturnRdma, CleaningUp
<1>9. ASSUME NEW t \in Tasks, DestroyMacvlan(t)
      PROVE  ResolvedIsHeld'
    BY <1>9 DEF DestroyMacvlan
<1>10. CASE UNCHANGED vars
    BY <1>10 DEF vars
<1> QED
    BY <1>1, <1>2, <1>3, <1>4, <1>5, <1>6, <1>7, <1>8, <1>9, <1>10, NextCases

LEMMA StartedPreserved ==
    ASSUME IInv, [Next]_vars
    PROVE  StartedIsSupported'
<1> USE DEF IInv, TypeOK, StartedIsSupported
<1>1. ASSUME NEW s \in Sandboxes,
             RunPodSandbox(s) \/ StopPodSandbox(s) \/ EndNamespace(s)
      PROVE  StartedIsSupported'
    BY <1>1 DEF RunPodSandbox, StopPodSandbox, EndNamespace, CleaningUp
<1>2. ASSUME NEW t \in Tasks, GetNamespace(t) \/ Failure(t)
      PROVE  StartedIsSupported'
    BY <1>2 DEF GetNamespace, Failure, Fail, Goto, Turn
<1>3. ASSUME NEW t \in Tasks, ResolveRdma(t)
      PROVE  StartedIsSupported'
    BY <1>3 DEF ResolveRdma, Goto
<1>4. ASSUME NEW t \in Tasks, MoveRdma(t)
      PROVE  StartedIsSupported'
    BY <1>4 DEF MoveRdma
<1>5. ASSUME NEW t \in Tasks, MoveLink(t) \/ AddMacvlan(t)
      PROVE  StartedIsSupported'
    BY <1>5 DEF MoveLink, AddMacvlan, Goto
<1>6. ASSUME NEW i \in HostDevices, ReturnLink(i)
      PROVE  StartedIsSupported'
    BY <1>6 DEF ReturnLink
<1>7. ASSUME NEW r \in RdmaDevices, ReturnRdma(r)
      PROVE  StartedIsSupported'
    BY <1>7 DEF ReturnRdma
<1>8. ASSUME NEW t \in Tasks, DestroyMacvlan(t)
      PROVE  StartedIsSupported'
    BY <1>8 DEF DestroyMacvlan
<1>9. CASE UNCHANGED vars
    BY <1>9 DEF vars
<1> QED
    BY <1>1, <1>2, <1>3, <1>4, <1>5, <1>6, <1>7, <1>8, <1>9, NextCases

LEMMA ConfiguredPreserved ==
    ASSUME IInv, [Next]_vars
    PROVE  ConfiguredIsThere'
<1> USE DEF IInv, TypeOK, ConfiguredIsThere
<1>1. ASSUME NEW s \in Sandboxes,
             RunPodSandbox(s) \/ StopPodSandbox(s) \/ EndNamespace(s)
      PROVE  ConfiguredIsThere'
    BY <1>1 DEF RunPodSandbox, StopPodSandbox, EndNamespace, StartedIsSupported
<1>2. ASSUME NEW t \in Tasks, GetNamespace(t) \/ Failure(t)
      PROVE  ConfiguredIsThere'
    BY <1>2 DEF GetNamespace, Failure, Fail, Goto
<1>3. ASSUME NEW t \in Tasks, ResolveRdma(t)
      PROVE  ConfiguredIsThere'
    BY <1>3 DEF ResolveRdma, Goto
<1>4. ASSUME NEW t \in Tasks, MoveRdma(t)
      PROVE  ConfiguredIsThere'
    BY <1>4 DEF MoveRdma
<1>5. ASSUME NEW t \in Tasks, MoveLink(t)
      PROVE  ConfiguredIsThere'
    BY <1>5 DEF MoveLink, Goto, ResolvedIsHeld
<1>6. ASSUME NEW t \in Tasks, AddMacvlan(t)
      PROVE  ConfiguredIsThere'
    BY <1>6 DEF AddMacvlan, Goto
<1>7. ASSUME NEW i \in HostDevices, ReturnLink(i)
      PROVE  ConfiguredIsThere'
    BY <1>7 DEF ReturnLink, CleaningUp
<1>8. ASSUME NEW r \in RdmaDevices, ReturnRdma(r)
      PROVE  ConfiguredIsThere'
    BY <1>8 DEF ReturnRdma, CleaningUp
<1>9. ASSUME NEW t \in Tasks, DestroyMacvlan(t)
      PROVE  ConfiguredIsThere'
    BY <1>9 DEF DestroyMacvlan, CleaningUp
<1>10. CASE UNCHANGED vars
    BY <1>10 DEF vars
<1> QED
    BY <1>1, <1>2, <1>3, <1>4, <1>5, <1>6, <1>7, <1>8, <1>9, <1>10, NextCases

LEMMA SplitPreserved ==
    ASSUME IInv, [Next]_vars
    PROVE  SplitIsReported'
<1> USE DEF IInv, TypeOK, SplitIsReported
<1>1. ASSUME NEW s \in Sandboxes,
             RunPodSandbox(s) \/ StopPodSandbox(s) \/ EndNamespace(s)
      PROVE  SplitIsReported'
    BY <1>1 DEF RunPodSandbox, StopPodSandbox, EndNamespace, StartedIsSupported
<1>2. ASSUME NEW t \in Tasks, GetNamespace(t) \/ Failure(t)
      PROVE  SplitIsReported'
    BY <1>2 DEF GetNamespace, Failure, Fail, Goto
<1>3. ASSUME NEW t \in Tasks, ResolveRdma(t)
      PROVE  SplitIsReported'
    BY <1>3 DEF ResolveRdma, Goto
<1>4. ASSUME NEW t \in Tasks, MoveRdma(t)
      PROVE  SplitIsReported'
    BY <1>4 DEF MoveRdma, RdmaOf
<1>5. ASSUME NEW t \in Tasks, MoveLink(t)
      PROVE  SplitIsReported'
    BY <1>5 DEF MoveLink, Goto
<1>6. ASSUME NEW t \in Tasks, AddMacvlan(t)
      PROVE  SplitIsReported'
    BY <1>6 DEF AddMacvlan, Goto
<1>7. ASSUME NEW i \in HostDevices, ReturnLink(i)
      PROVE  SplitIsReported'
    BY <1>7 DEF ReturnLink, CleaningUp
<1>8. ASSUME NEW r \in RdmaDevices, ReturnRdma(r)
      PROVE  SplitIsReported'
    BY <1>8 DEF ReturnRdma
<1>9. ASSUME NEW t \in Tasks, DestroyMacvlan(t)
      PROVE  SplitIsReported'
    BY <1>9 DEF DestroyMacvlan
<1>10. CASE UNCHANGED vars
    BY <1>10 DEF vars
<1> QED
    BY <1>1, <1>2, <1>3, <1>4, <1>5, <1>6, <1>7, <1>8, <1>9, <1>10, NextCases

-----------------------------------------------------------------------------
(* Every reachable state is well typed.                                    *)
THEOREM TypeCorrect == Spec => []TypeOK
<1>1. Init => TypeOK
    BY InitEstablishes DEF IInv
<1>2. TypeOK /\ [Next]_vars => TypeOK'
    BY TypePreserved
<1> QED
    BY <1>1, <1>2, PTL DEF Spec

(* The invariant is inductive and holds always, whatever the kernel, the   *)
(* runtime and the goroutines do and wherever Configure fails.             *)
THEOREM Inductive == Spec => []IInv
<1>1. IInv /\ [Next]_vars => IInv'
    BY TypePreserved, HeldPreserved, StartedPreserved,
       ConfiguredPreserved, SplitPreserved DEF IInv
<1> QED
    BY InitEstablishes, <1>1, PTL DEF Spec

(* A device that Configure has reported as configured is in its running    *)
(* sandbox, with its RDMA devices if all of them were on the host when     *)
(* Configure looked (hostdevice.go:187-265, macvlan.go:175-242).           *)
THEOREM ConfiguredStays == Spec => []ConfiguredIsThere
<1>1. IInv => ConfiguredIsThere
    BY DEF IInv
<1> QED
    BY Inductive, <1>1, PTL

(* RDMA devices that are in a running sandbox without their interface are  *)
(* still being moved, or Configure has returned an error                   *)
(* (hostdevice.go:244-262).  Of RDMA devices that Configure left on the    *)
(* host it says nothing.                                                   *)
THEOREM MovedAloneIsReported == Spec => []SplitIsReported
<1>1. IInv => SplitIsReported
    BY DEF IInv
<1> QED
    BY Inductive, <1>1, PTL

-----------------------------------------------------------------------------
(* Addresses                                                               *)

HIDE PodNetworkAssumption
USE RandomIPAMAssumption

(* The number of values of a byte.                                         *)
Base == Pow(ByteBits)

(* A byte has at least two values.                                         *)
LEMMA BaseFacts == Base \in Nat \ {0} /\ Base >= 2 /\ 2^ByteBits = Base
<1>1. Base \in Nat \ {0} /\ 2^ByteBits = Base
  BY PowerFacts DEF Base, Pow
<1>2. ByteBits - 1 \in Nat /\ (ByteBits - 1) + 1 = ByteBits
  OBVIOUS
<1>3. Pow(ByteBits) = 2 * Pow(ByteBits - 1) /\ Pow(ByteBits - 1) \in Nat \ {0}
  BY <1>2, PowerFacts
<1> QED
  BY <1>1, <1>3 DEF Base

(* The values of the first bytes of an address.                            *)
ValuesOf(v, a) ==
    /\ v \in [0..AddressBytes -> Nat]
    /\ v[0] = 0
    /\ \A n \in 1..AddressBytes : v[n] = v[n - 1] * Base + a[n]
    /\ Value(a) = v[AddressBytes]

(* The value of an address is that of its bytes, taken one by one.         *)
LEMMA ValueUnfolds ==
    ASSUME NEW a \in [1..AddressBytes -> Nat]
    PROVE  \E v : ValuesOf(v, a)
<1> DEFINE S == 1..AddressBytes
           chosen == [s \in SUBSET S |-> Max(s)]
           step == [p \in S \X Nat |-> p[2] * 2^ByteBits + a[p[1]]]
           Unfolds(g) == g = [s \in SUBSET S |->
                                 IF s = {} THEN 0
                                 ELSE g[s \ {Max(s)}] * 2^ByteBits + a[Max(s)]]
<1>1. IsFiniteSet(S) /\ DOMAIN a = S
  BY FS_Interval
<1>2. \A s \in SUBSET S : s # {} => chosen[s] \in s /\ chosen[s] = Max(s)
  BY GreatestPosition
<1>3. \A x \in S, n \in Nat : step[<<x, n>>] \in Nat /\ step[<<x, n>>] = n * 2^ByteBits + a[x]
  <2> DEFINE b == 2^ByteBits
  <2>1. b \in Nat
    BY BaseFacts
  <2> HIDE DEF b
  <2>2. \A x \in S, n \in Nat : n * b + a[x] \in Nat
    BY <2>1
  <2>3. \A x \in S, n \in Nat : step[<<x, n>>] = n * b + a[x]
    BY DEF b
  <2> QED
    BY <2>2, <2>3 DEF b
<1>4. PICK g : Solves(g, S, chosen, Nat, 0, step)
  <2> HIDE DEF S, chosen, step
  <2>1. IsRecursion(S, chosen, Nat, 0, step)
    BY <1>1, <1>2, <1>3 DEF IsRecursion
  <2> QED
    BY <2>1, RecursionExists
<1>5. Unfolds(g)
  <2>1. ASSUME NEW s \in SUBSET S, s # {}
        PROVE  step[<<chosen[s], g[s \ {chosen[s]}]>>] = g[s \ {Max(s)}] * 2^ByteBits + a[Max(s)]
    <3>1. Max(s) \in S /\ g[s \ {Max(s)}] \in Nat /\ chosen[s] = Max(s)
      BY <1>2, <1>4, <2>1 DEF Solves
    <3> HIDE DEF chosen, S, step
    <3> QED
      BY <1>3, <3>1
  <2> HIDE DEF step, chosen, S
  <2>2. g = [s \in SUBSET S |-> g[s]]
    BY <1>4 DEF Solves
  <2> QED
    BY <1>4, <2>1, <2>2 DEF Solves
<1> DEFINE h == CHOOSE f : Unfolds(f)
<1>6. Value(a) = h[S]
  BY <1>1, Zenon DEF Value, FoldLeft, MapThenFoldSet
<1>7. Unfolds(h)
  <2> HIDE DEF Unfolds
  <2> QED
    BY <1>5
<1> HIDE DEF h
<1> DEFINE v == [n \in 0..AddressBytes |-> h[1..n]]
<1>8. v[0] = 0
  BY <1>7
<1>9. ASSUME NEW n \in 1..AddressBytes
      PROVE  v[n] = v[n - 1] * Base + a[n]
  <2>1. /\ 1..n \in SUBSET S /\ n \in 1..n /\ 1..n # {}
        /\ (1..n) \ {n} = 1..(n - 1) /\ n - 1 \in 0..AddressBytes
    <3>1. n \in Nat /\ n >= 1 /\ n <= AddressBytes
      OBVIOUS
    <3>2. 1..n \in SUBSET S /\ n \in 1..n /\ n - 1 \in 0..AddressBytes
      BY <3>1
    <3>3. (1..n) \ {n} = 1..(n - 1)
      BY <3>1
    <3> QED
      BY <3>2, <3>3
  <2>2. Max(1..n) = n
    <3>1. Max(1..n) \in 1..n /\ \A y \in 1..n : Max(1..n) >= y
      BY <2>1, GreatestPosition
    <3> QED
      BY <3>1
  <2>3. h[1..n] = h[1..(n - 1)] * 2^ByteBits + a[n]
    BY <1>7, <2>1, <2>2
  <2> QED
    BY <2>1, <2>3, BaseFacts
<1>10. \A n \in 0..AddressBytes : v[n] \in Nat
  <2> DEFINE Bad == {n \in 0..AddressBytes : v[n] \notin Nat}
  <2>1. SUFFICES ASSUME Bad # {} PROVE FALSE
    OBVIOUS
  <2> HIDE DEF v
  <2>2. PICK m \in Bad : \A k \in Bad : m <= k
    <3>1. Bad \in SUBSET Nat
      OBVIOUS
    <3> HIDE DEF Bad
    <3> QED
      BY <2>1, <3>1, LeastNumber
  <2>3. m \in 1..AddressBytes /\ v[m] \notin Nat
    BY <1>8
  <2>4. m - 1 \in 0..AddressBytes /\ ~ (m <= m - 1)
    BY <2>3
  <2>5. v[m - 1] \in Nat
    BY <2>2, <2>4
  <2> QED
    <3>1. v[m] = v[m - 1] * Base + a[m] /\ a[m] \in Nat
      BY <1>9, <2>3
    <3>2. v[m - 1] * Base \in Nat
      BY <2>5, BaseFacts
    <3> QED
      BY <2>3, <3>1, <3>2
<1>11. Value(a) = v[AddressBytes]
  BY <1>6
<1>12. v \in [0..AddressBytes -> Nat]
  BY <1>10
<1> HIDE DEF v
<1> QED
  BY <1>8, <1>9, <1>11, <1>12 DEF ValuesOf

(* The value of the first n bytes.                                         *)
Upto(a, n) == (CHOOSE v : ValuesOf(v, a))[n]

(* The value of the first bytes grows by one byte at a time.               *)
LEMMA UptoFacts ==
    ASSUME NEW a \in [1..AddressBytes -> Nat]
    PROVE  /\ Upto(a, 0) = 0 /\ Value(a) = Upto(a, AddressBytes)
           /\ \A n \in 0..AddressBytes : Upto(a, n) \in Nat
           /\ \A n \in 1..AddressBytes : Upto(a, n) = Upto(a, n - 1) * Base + a[n]
<1> DEFINE v == CHOOSE v : ValuesOf(v, a)
<1>1. ValuesOf(v, a)
  BY ValueUnfolds
<1>2. \A n : Upto(a, n) = v[n]
  BY DEF Upto
<1> HIDE DEF v
<1>3. /\ v \in [0..AddressBytes -> Nat] /\ v[0] = 0 /\ Value(a) = v[AddressBytes]
      /\ \A n \in 1..AddressBytes : v[n] = v[n - 1] * Base + a[n]
  BY <1>1 DEF ValuesOf
<1>4. ASSUME NEW n \in 0..AddressBytes PROVE Upto(a, n) \in Nat
  <2>1. v[n] \in Nat
    BY <1>3
  <2> QED
    BY <1>2, <2>1
<1>5. ASSUME NEW n \in 1..AddressBytes
      PROVE  Upto(a, n) = Upto(a, n - 1) * Base + a[n]
  <2>1. Upto(a, n) = v[n] /\ Upto(a, n - 1) = v[n - 1]
    BY <1>2
  <2>2. v[n] = v[n - 1] * Base + a[n]
    BY <1>3
  <2> QED
    BY <2>1, <2>2
<1> QED
  BY <1>2, <1>3, <1>4, <1>5

(* Adding host bits byte by byte adds their value.                         *)
LEMMA ValueAdds ==
    ASSUME NEW a \in [1..AddressBytes -> Nat], NEW b \in [1..AddressBytes -> Nat]
    PROVE  Value([i \in 1..AddressBytes |-> a[i] + b[i]]) = Value(a) + Value(b)
<1> DEFINE c == [i \in 1..AddressBytes |-> a[i] + b[i]]
           Bad == {n \in 0..AddressBytes : Upto(c, n) # Upto(a, n) + Upto(b, n)}
<1>1. c \in [1..AddressBytes -> Nat]
  OBVIOUS
<1>2. Bad = {}
  <2>1. SUFFICES ASSUME Bad # {} PROVE FALSE
    OBVIOUS
  <2> HIDE DEF c
  <2>2. PICK m \in Bad : \A k \in Bad : m <= k
    <3>1. Bad \in SUBSET Nat
      OBVIOUS
    <3> HIDE DEF Bad
    <3> QED
      BY <2>1, <3>1, LeastNumber
  <2>3. m \in 0..AddressBytes /\ Upto(c, m) # Upto(a, m) + Upto(b, m)
    OBVIOUS
  <2>4. m \in 1..AddressBytes
    <3>1. Upto(a, 0) = 0 /\ Upto(b, 0) = 0 /\ Upto(c, 0) = 0
      BY <1>1, UptoFacts
    <3>2. m # 0
      BY <2>3, <3>1
    <3> QED
      BY <2>3, <3>2
  <2>5. m - 1 \in 0..AddressBytes /\ ~ (m <= m - 1)
    BY <2>4
  <2>6. Upto(c, m - 1) = Upto(a, m - 1) + Upto(b, m - 1)
    BY <2>2, <2>5
  <2>7. /\ Upto(a, m) = Upto(a, m - 1) * Base + a[m]
        /\ Upto(b, m) = Upto(b, m - 1) * Base + b[m]
        /\ Upto(c, m) = Upto(c, m - 1) * Base + c[m]
        /\ Upto(a, m - 1) \in Nat /\ Upto(b, m - 1) \in Nat
    BY <1>1, <2>4, <2>5, UptoFacts
  <2>8. c[m] = a[m] + b[m] /\ a[m] \in Nat /\ b[m] \in Nat
    BY <2>4 DEF c
  <2> DEFINE x == Upto(a, m - 1)
             y == Upto(b, m - 1)
  <2>9. (x + y) * Base = x * Base + y * Base /\ x * Base \in Nat /\ y * Base \in Nat
    <3>1. x \in Nat /\ y \in Nat /\ Base \in Nat
      BY <2>7, BaseFacts
    <3> HIDE DEF x, y
    <3> QED
      BY <3>1
  <2> QED
    BY <2>3, <2>6, <2>7, <2>8, <2>9
<1>3. AddressBytes \in 0..AddressBytes
  OBVIOUS
<1>4. Upto(c, AddressBytes) = Upto(a, AddressBytes) + Upto(b, AddressBytes)
  <2> HIDE DEF c
  <2> QED
    BY <1>2, <1>3
<1>5. /\ Value(c) = Upto(c, AddressBytes) /\ Value(a) = Upto(a, AddressBytes)
      /\ Value(b) = Upto(b, AddressBytes)
  <2> HIDE DEF c
  <2> QED
    BY <1>1, UptoFacts
<1> QED
  BY <1>4, <1>5

(* The value of the first bytes depends on no others.                      *)
LEMMA UptoAgrees ==
    ASSUME NEW a \in [1..AddressBytes -> Nat], NEW b \in [1..AddressBytes -> Nat],
           NEW n \in 0..AddressBytes, \A i \in 1..n : a[i] = b[i]
    PROVE  Upto(a, n) = Upto(b, n)
<1> DEFINE Bad == {k \in 0..n : Upto(a, k) # Upto(b, k)}
<1>1. SUFFICES ASSUME Bad # {} PROVE FALSE
  OBVIOUS
<1>2. PICK m \in Bad : \A k \in Bad : m <= k
  <2>1. Bad \in SUBSET Nat
    OBVIOUS
  <2> HIDE DEF Bad
  <2> QED
    BY <1>1, <2>1, LeastNumber
<1>3. m \in 0..n /\ Upto(a, m) # Upto(b, m)
  OBVIOUS
<1>4. m # 0
  BY <1>3, UptoFacts
<1>5. m \in 1..AddressBytes /\ m \in 1..n /\ m - 1 \in 0..n /\ ~ (m <= m - 1)
  BY <1>3, <1>4
<1>6. Upto(a, m - 1) = Upto(b, m - 1)
  BY <1>2, <1>5
<1>7. a[m] = b[m]
  BY <1>5
<1>8. /\ Upto(a, m) = Upto(a, m - 1) * Base + a[m]
      /\ Upto(b, m) = Upto(b, m - 1) * Base + b[m]
  BY <1>5, UptoFacts
<1> QED
  BY <1>3, <1>6, <1>7, <1>8

-----------------------------------------------------------------------------
(* Masks                                                                   *)

(* The bits of the first n bytes that the mask leaves to the host.         *)
Width(ones, n) == IF ones <= ByteBits * n THEN ByteBits * n - ones ELSE 0

(* A byte's mask leaves no bit, all, or those up to the mask's end         *)
(* (common.go:147-148).                                                    *)
LEMMA MaskFacts ==
    ASSUME NEW ones \in 0..Bits, NEW n \in 1..AddressBytes
    PROVE  LET b == ByteBits * (n - 1)
           IN  /\ b \in Nat /\ ByteBits * n = b + ByteBits /\ b + ByteBits <= Bits
               /\ HostMask(ones, n) \in 0..(Base - 1)
               /\ ones <= b => HostMask(ones, n) = Base - 1
               /\ ones > b => HostMask(ones, n) = Pow(Width(ones, n)) - 1
<1> DEFINE b == ByteBits * (n - 1)
<1>1. b \in Nat /\ ByteBits * n = b + ByteBits /\ b + ByteBits <= Bits /\ ones \in Nat
  <2>1. n - 1 \in Nat /\ AddressBytes - n \in Nat /\ n \in Nat
    OBVIOUS
  <2>2. b \in Nat
    BY <2>1
  <2>3. ByteBits * n = b + ByteBits
    BY <2>1
  <2>4. ByteBits * AddressBytes = ByteBits * n + ByteBits * (AddressBytes - n)
    BY <2>1
  <2>5. ByteBits * (AddressBytes - n) \in Nat /\ ByteBits * n \in Nat
    BY <2>1
  <2>6. Bits \in Nat
    BY DEF Bits
  <2> QED
    BY <2>2, <2>3, <2>4, <2>5, <2>6 DEF Bits
<1> HIDE DEF b
<1> DEFINE masked == IF ones < b THEN 0 ELSE Min({ones - b, ByteBits})
<1>2. HostMask(ones, n) = Pow(ByteBits - masked) - 1
  BY DEF HostMask, Pow, b
<1>3. masked = IF ones <= b THEN 0 ELSE IF ones - b <= ByteBits THEN ones - b ELSE ByteBits
  <2>1. ASSUME ~ (ones < b)
        PROVE  Min({ones - b, ByteBits}) = IF ones - b <= ByteBits THEN ones - b ELSE ByteBits
    BY <1>1, <2>1 DEF Min
  <2> QED
    BY <1>1, <2>1
<1> HIDE DEF masked
<1>4. masked \in 0..ByteBits
  BY <1>1, <1>3
<1>5. HostMask(ones, n) \in 0..(Base - 1)
  <2>1. ByteBits - masked \in Nat /\ masked \in Nat /\ (ByteBits - masked) + masked = ByteBits
    BY <1>4
  <2>2. Base = Pow(ByteBits - masked) * Pow(masked)
    BY <2>1, PowerOfSum DEF Base
  <2>3. Pow(ByteBits - masked) \in Nat \ {0} /\ Pow(masked) \in Nat \ {0}
    BY <2>1, PowerFacts
  <2>4. Pow(ByteBits - masked) <= Base
    BY <2>2, <2>3
  <2> QED
    BY <1>2, <2>3, <2>4, BaseFacts
<1>6. ASSUME ones <= b PROVE HostMask(ones, n) = Base - 1
  <2>1. masked = 0 /\ ByteBits - masked = ByteBits
    BY <1>3, <1>6
  <2> QED
    BY <1>2, <2>1 DEF Base
<1>7. ASSUME ones > b PROVE HostMask(ones, n) = Pow(Width(ones, n)) - 1
  <2>1. ByteBits - masked = Width(ones, n)
    BY <1>1, <1>3, <1>7 DEF Width
  <2> QED
    BY <1>2, <2>1
<1> QED
  BY <1>1, <1>5, <1>6, <1>7 DEF b

(* The host bits of the last address of a subnet.                          *)
AllOnes(ones) == [i \in 1..AddressBytes |-> HostMask(ones, i)]

(* They are host bits themselves.                                          *)
LEMMA AllOnesTyped ==
    ASSUME NEW ones \in 0..Bits
    PROVE  /\ AllOnes(ones) \in [1..AddressBytes -> Nat]
           /\ AllOnes(ones) \in HostBits(ones)
<1>1. \A i \in 1..AddressBytes : HostMask(ones, i) \in 0..(Base - 1)
  BY MaskFacts
<1>2. Byte = 0..(Base - 1) /\ Base \in Nat
  BY BaseFacts DEF Byte
<1> QED
  BY <1>1, <1>2 DEF AllOnes, HostBits, Address

(* The last address of the first n bytes.                                  *)
LEMMA AllOnesUpto ==
    ASSUME NEW ones \in 0..Bits, NEW n \in 0..AddressBytes
    PROVE  Upto(AllOnes(ones), n) = Pow(Width(ones, n)) - 1
<1> DEFINE a == AllOnes(ones)
           Bad == {k \in 0..AddressBytes : Upto(a, k) # Pow(Width(ones, k)) - 1}
<1>1. SUFFICES ASSUME Bad # {} PROVE FALSE
  OBVIOUS
<1>2. a \in [1..AddressBytes -> Nat] /\ ones \in Nat
  BY AllOnesTyped DEF Bits
<1>a. \A i \in 1..AddressBytes : a[i] = HostMask(ones, i)
  BY DEF AllOnes
<1> HIDE DEF a
<1>3. PICK m \in Bad : \A k \in Bad : m <= k
  <2>1. Bad \in SUBSET Nat
    OBVIOUS
  <2> HIDE DEF Bad
  <2> QED
    BY <1>1, <2>1, LeastNumber
<1>4. m \in 0..AddressBytes /\ Upto(a, m) # Pow(Width(ones, m)) - 1
  OBVIOUS
<1>5. m # 0
  <2>1. Width(ones, 0) = 0
    BY <1>2 DEF Width
  <2>2. Upto(a, 0) = 0 /\ Pow(0) = 1
    BY <1>2, UptoFacts, PowerFacts
  <2> QED
    BY <1>4, <2>1, <2>2
<1>6. m \in 1..AddressBytes /\ m - 1 \in 0..AddressBytes /\ ~ (m <= m - 1)
  BY <1>4, <1>5
<1> DEFINE b == ByteBits * (m - 1)
<1>7. Upto(a, m - 1) = Pow(Width(ones, m - 1)) - 1
  BY <1>3, <1>6
<1>8. Upto(a, m) = Upto(a, m - 1) * Base + HostMask(ones, m)
  <2>1. Upto(a, m) = Upto(a, m - 1) * Base + a[m]
    BY <1>2, <1>6, UptoFacts
  <2> QED
    BY <1>a, <1>6, <2>1
<1>9. /\ b \in Nat /\ ByteBits * m = b + ByteBits
      /\ ones <= b => HostMask(ones, m) = Base - 1
      /\ ones > b => HostMask(ones, m) = Pow(Width(ones, m)) - 1
  BY <1>6, MaskFacts
<1>10. Width(ones, m - 1) = IF ones <= b THEN b - ones ELSE 0
  BY DEF Width
<1>11. Width(ones, m) = IF ones <= b + ByteBits THEN b + ByteBits - ones ELSE 0
  BY <1>9 DEF Width
<1> HIDE DEF b
<1>12. CASE ones <= b
  <2>1. b - ones \in Nat /\ Width(ones, m) = (b - ones) + ByteBits
    BY <1>2, <1>9, <1>11, <1>12
  <2>2. Pow(Width(ones, m)) = Pow(b - ones) * Base
    BY <2>1, PowerOfSum DEF Base
  <2>3. Upto(a, m) = (Pow(b - ones) - 1) * Base + (Base - 1)
    BY <1>7, <1>8, <1>9, <1>10, <1>12
  <2>4. Pow(b - ones) \in Nat /\ Base \in Nat
    BY <2>1, PowerFacts, BaseFacts
  <2>5. (Pow(b - ones) - 1) * Base + (Base - 1) = Pow(b - ones) * Base - 1
    BY <2>4
  <2> QED
    BY <1>4, <2>2, <2>3, <2>5
<1>13. CASE ones > b
  <2>1. Width(ones, m - 1) = 0
    BY <1>2, <1>9, <1>10, <1>13
  <2>2. Upto(a, m - 1) = 0
    BY <1>7, <2>1, PowerFacts
  <2>3. Width(ones, m) \in Nat
    BY <1>2, <1>9, <1>11
  <2>4. Pow(Width(ones, m)) - 1 \in Nat
    <3> DEFINE p == Pow(Width(ones, m))
    <3>1. p \in Nat \ {0}
      BY <2>3, PowerFacts
    <3> HIDE DEF p
    <3>2. p - 1 \in Nat
      BY <3>1
    <3> QED
      BY <3>2 DEF p
  <2> QED
    BY <1>4, <1>8, <1>9, <1>13, <2>2, <2>4, BaseFacts
<1> QED
  BY <1>2, <1>9, <1>12, <1>13

(* Host bits are the bytes within the masks.                               *)
LEMMA HostBitsTyped ==
    ASSUME NEW ones \in 0..Bits
    PROVE  /\ HostBits(ones) \subseteq [1..AddressBytes -> Nat]
           /\ \A h \in [1..AddressBytes -> Nat] :
                 h \in HostBits(ones) <=> \A i \in 1..AddressBytes : h[i] <= HostMask(ones, i)
<1>1. Byte = 0..(Base - 1) /\ Base \in Nat
  BY BaseFacts DEF Byte
<1>2. \A i \in 1..AddressBytes : HostMask(ones, i) \in 0..(Base - 1)
  BY MaskFacts
<1>3. HostBits(ones) \subseteq [1..AddressBytes -> Nat]
  BY <1>1 DEF HostBits, Address
<1>4. ASSUME NEW h \in [1..AddressBytes -> Nat], \A i \in 1..AddressBytes : h[i] <= HostMask(ones, i)
      PROVE  h \in HostBits(ones)
  <2>1. \A i \in 1..AddressBytes : h[i] \in Byte
    BY <1>1, <1>2, <1>4
  <2> QED
    BY <1>4, <2>1 DEF HostBits, Address
<1> QED
  BY <1>3, <1>4 DEF HostBits

(* Host bits do not exceed the last address, and are its or the first's    *)
(* only if each byte is.                                                   *)
LEMMA HostBitsUpto ==
    ASSUME NEW ones \in 0..Bits, NEW h \in HostBits(ones), NEW n \in 0..AddressBytes
    PROVE  /\ Upto(h, n) <= Upto(AllOnes(ones), n)
           /\ Upto(h, n) = 0 <=> \A i \in 1..n : h[i] = 0
           /\ Upto(h, n) = Upto(AllOnes(ones), n) <=> \A i \in 1..n : h[i] = HostMask(ones, i)
<1> DEFINE a == AllOnes(ones)
           Good(k) == /\ Upto(h, k) <= Upto(a, k)
                      /\ Upto(h, k) = 0 <=> \A i \in 1..k : h[i] = 0
                      /\ Upto(h, k) = Upto(a, k) <=> \A i \in 1..k : h[i] = HostMask(ones, i)
           Bad == {k \in 0..AddressBytes : ~ Good(k)}
<1>1. SUFFICES ASSUME Bad # {} PROVE FALSE
  OBVIOUS
<1>2. h \in [1..AddressBytes -> Nat] /\ a \in [1..AddressBytes -> Nat]
  BY HostBitsTyped, AllOnesTyped
<1>3. \A i \in 1..AddressBytes : /\ a[i] = HostMask(ones, i) /\ h[i] \in Nat /\ a[i] \in Nat
                                  /\ h[i] <= HostMask(ones, i)
  BY <1>2 DEF AllOnes, HostBits
<1> HIDE DEF a
<1>4. PICK m \in Bad : \A k \in Bad : m <= k
  <2>1. Bad \in SUBSET Nat
    OBVIOUS
  <2> HIDE DEF Bad
  <2> QED
    BY <1>1, <2>1, LeastNumber
<1>5. m \in 0..AddressBytes /\ ~ Good(m)
  OBVIOUS
<1>6. m # 0
  <2>1. Upto(h, 0) = 0 /\ Upto(a, 0) = 0
    BY <1>2, UptoFacts
  <2>2. Good(0)
    BY <2>1
  <2> HIDE DEF Good
  <2> QED
    BY <1>5, <2>2
<1>7. m \in 1..AddressBytes /\ m - 1 \in 0..AddressBytes /\ ~ (m <= m - 1)
  BY <1>5, <1>6
<1>8. Good(m - 1)
  <2>1. m - 1 \notin Bad
    <3> HIDE DEF Bad
    <3> QED
      BY <1>4, <1>7
  <2> HIDE DEF Good
  <2> QED
    BY <1>7, <2>1
<1> DEFINE x == Upto(h, m - 1)
           y == Upto(a, m - 1)
<1>9. /\ Upto(h, m) = x * Base + h[m] /\ Upto(a, m) = y * Base + a[m]
      /\ x \in Nat /\ y \in Nat
  BY <1>2, <1>7, UptoFacts
<1>10. h[m] \in Nat /\ a[m] \in Nat /\ h[m] <= a[m] /\ a[m] = HostMask(ones, m)
  BY <1>3, <1>7
<1>11. x <= y
  BY <1>8
<1>12. /\ x * Base + h[m] <= y * Base + a[m]
       /\ x * Base + h[m] = 0 <=> x = 0 /\ h[m] = 0
       /\ x * Base + h[m] = y * Base + a[m] <=> x = y /\ h[m] = a[m]
  <2> HIDE DEF x, y
  <2>1. PICK z \in Nat : y = x + z
    <3>1. y - x \in Nat /\ y = x + (y - x)
      BY <1>9, <1>11
    <3> QED
      BY <3>1
  <2>2. y * Base = x * Base + z * Base /\ x * Base \in Nat /\ z * Base \in Nat
    BY <1>9, <2>1, BaseFacts
  <2>3. z * Base = 0 <=> z = 0
    BY <2>1, BaseFacts
  <2>4. x * Base = 0 <=> x = 0
    BY <1>9, BaseFacts
  <2> QED
    BY <1>9, <1>10, <2>1, <2>2, <2>3, <2>4
<1>13. 1..m = (1..(m - 1)) \cup {m}
  BY <1>7
<1>14. (\A i \in 1..m : h[i] = 0) <=> (\A i \in 1..(m - 1) : h[i] = 0) /\ h[m] = 0
  BY <1>13
<1>15. (\A i \in 1..m : h[i] = HostMask(ones, i)) <=>
          (\A i \in 1..(m - 1) : h[i] = HostMask(ones, i)) /\ h[m] = HostMask(ones, m)
  BY <1>13
<1>16. Good(m)
  BY <1>8, <1>9, <1>10, <1>12, <1>14, <1>15
<1> HIDE DEF Good
<1> QED
  BY <1>5, <1>16

(* Every number up to the value of the first n bytes of the last address   *)
(* is that of host bits.                                                   *)
LEMMA HostBitsReach ==
    ASSUME NEW ones \in 0..Bits, NEW n \in 0..AddressBytes,
           NEW x \in 0..Upto(AllOnes(ones), n)
    PROVE  \E h \in HostBits(ones) : Upto(h, n) = x
<1> DEFINE a == AllOnes(ones)
           Reached(k, v) == \E h \in HostBits(ones) : Upto(h, k) = v
           Bad == {k \in 0..AddressBytes : ~ \A v \in 0..Upto(a, k) : Reached(k, v)}
<1>1. SUFFICES ASSUME Bad # {} PROVE FALSE
  OBVIOUS
<1>2. a \in [1..AddressBytes -> Nat] /\ a \in HostBits(ones)
  BY AllOnesTyped
<1>3. \A i \in 1..AddressBytes : a[i] = HostMask(ones, i)
  BY DEF AllOnes
<1> HIDE DEF a
<1>4. PICK m \in Bad : \A k \in Bad : m <= k
  <2>1. Bad \in SUBSET Nat
    OBVIOUS
  <2> HIDE DEF Bad
  <2> QED
    BY <1>1, <2>1, LeastNumber
<1>5. PICK w \in 0..Upto(a, m) : m \in 0..AddressBytes /\ ~ Reached(m, w)
  OBVIOUS
<1>6. m # 0
  <2>1. Upto(a, 0) = 0
    BY <1>2, UptoFacts
  <2>2. Reached(0, 0)
    BY <1>2, <2>1
  <2> HIDE DEF Reached
  <2> QED
    BY <1>5, <2>1, <2>2
<1>7. m \in 1..AddressBytes /\ m - 1 \in 0..AddressBytes /\ ~ (m <= m - 1)
  BY <1>5, <1>6
<1>8. \A v \in 0..Upto(a, m - 1) : Reached(m - 1, v)
  <2>1. m - 1 \notin Bad
    <3> HIDE DEF Bad
    <3> QED
      BY <1>4, <1>7
  <2> HIDE DEF Reached
  <2> QED
    BY <1>7, <2>1
<1>9. /\ Upto(a, m) = Upto(a, m - 1) * Base + a[m]
      /\ Upto(a, m - 1) \in Nat /\ a[m] = HostMask(ones, m)
  BY <1>2, <1>3, <1>7, UptoFacts
(* To put a byte after the first ones.                                     *)
<1>10. ASSUME NEW q \in 0..Upto(a, m - 1), NEW r \in 0..HostMask(ones, m), w = q * Base + r
       PROVE  FALSE
  <2>1. PICK h \in HostBits(ones) : Upto(h, m - 1) = q
    BY <1>8
  <2> DEFINE g == [h EXCEPT ![m] = r]
  <2>2. h \in [1..AddressBytes -> Nat] /\ r \in Nat
    <3>1. h \in [1..AddressBytes -> Nat]
      BY HostBitsTyped
    <3>2. HostMask(ones, m) \in 0..(Base - 1)
      BY <1>7, MaskFacts
    <3>3. r \in Nat
      BY <3>2, BaseFacts
    <3> QED
      BY <3>1, <3>3
  <2>3. /\ g \in [1..AddressBytes -> Nat] /\ g[m] = r
        /\ \A i \in 1..AddressBytes : i # m => g[i] = h[i]
    BY <1>7, <2>2
  <2> HIDE DEF g
  <2>4. g \in HostBits(ones)
    <3>1. \A i \in 1..AddressBytes : h[i] <= HostMask(ones, i)
      BY DEF HostBits
    <3>2. r <= HostMask(ones, m)
      BY <1>7, MaskFacts
    <3>3. \A i \in 1..AddressBytes : g[i] <= HostMask(ones, i)
      BY <2>3, <3>1, <3>2
    <3> QED
      BY <2>3, <3>3, HostBitsTyped
  <2>5. Upto(g, m - 1) = Upto(h, m - 1)
    <3>1. \A i \in 1..(m - 1) : i \in 1..AddressBytes /\ i # m
      BY <1>7
    <3>2. \A i \in 1..(m - 1) : g[i] = h[i]
      BY <2>3, <3>1
    <3> QED
      BY <1>7, <2>2, <2>3, <3>2, UptoAgrees
  <2>6. Upto(g, m) = Upto(g, m - 1) * Base + g[m]
    BY <1>7, <2>3, UptoFacts
  <2>7. Upto(g, m) = w
    BY <1>10, <2>1, <2>3, <2>5, <2>6
  <2> QED
    BY <1>5, <2>4, <2>7
<1> DEFINE b == ByteBits * (m - 1)
<1>11. /\ b \in Nat /\ HostMask(ones, m) \in 0..(Base - 1)
       /\ ones <= b => HostMask(ones, m) = Base - 1
       /\ ones > b => HostMask(ones, m) = Pow(Width(ones, m)) - 1
  BY <1>7, MaskFacts
<1>12. w \in Nat /\ w <= Upto(a, m - 1) * Base + HostMask(ones, m)
  <2>1. Upto(a, m) \in Nat
    BY <1>2, <1>7, UptoFacts
  <2> QED
    BY <1>5, <1>9, <2>1
<1>13. CASE ones <= b
  <2> DEFINE q == w \div Base
             r == w % Base
             y == Upto(a, m - 1)
  <2>1. w = q * Base + r /\ q \in Nat /\ r \in 0..(Base - 1)
    BY <1>12, BaseFacts
  <2>2. w <= y * Base + (Base - 1) /\ y \in Nat
    BY <1>9, <1>11, <1>12, <1>13
  <2> HIDE DEF q, r, y
  <2>3. q <= y
    <3>1. SUFFICES ASSUME q > y PROVE FALSE
      BY <2>1, <2>2
    <3>2. PICK z \in Nat : q = y + 1 + z
      <4>1. q - y - 1 \in Nat /\ q = y + 1 + (q - y - 1)
        BY <2>1, <2>2, <3>1
      <4> QED
        BY <4>1
    <3>3. q * Base = y * Base + Base + z * Base /\ z * Base \in Nat /\ y * Base \in Nat
      BY <2>2, <3>2, BaseFacts
    <3> QED
      BY <2>1, <2>2, <3>3, BaseFacts
  <2>4. q \in 0..Upto(a, m - 1) /\ r \in 0..HostMask(ones, m)
    BY <1>9, <1>11, <1>13, <2>1, <2>2, <2>3 DEF y
  <2> QED
    BY <1>10, <2>1, <2>4
<1>14. CASE ones > b
  <2>1. Width(ones, m - 1) = 0
    BY <1>11, <1>14 DEF Width
  <2>2. Upto(a, m - 1) = Pow(Width(ones, m - 1)) - 1
    BY <1>7, AllOnesUpto DEF a
  <2>3. Upto(a, m - 1) = 0
    BY <2>1, <2>2, PowerFacts
  <2>4. 0 \in 0..Upto(a, m - 1) /\ w \in 0..HostMask(ones, m) /\ w = 0 * Base + w
    BY <1>11, <1>12, <2>3, BaseFacts
  <2> QED
    BY <1>10, <2>4
<1>15. ones \in Nat
  BY DEF Bits
<1> QED
  BY <1>11, <1>13, <1>14, <1>15

-----------------------------------------------------------------------------
(* Random addresses                                                        *)

(* The host bits used by a subnet have every value but the first and the   *)
(* last.                                                                   *)
LEMMA UsableValues ==
    ASSUME NEW ones \in 0..Bits
    PROVE  /\ Pow(Bits - ones) \in Nat
           /\ \A h \in HostBits(ones) :
                 Usable(h, ones) => Value(h) \in Nat /\ 0 < Value(h) /\ Value(h) < Pow(Bits - ones) - 1
           /\ \A v \in Nat : 0 < v /\ v < Pow(Bits - ones) - 1 =>
                 \E h \in HostBits(ones) : Usable(h, ones) /\ Value(h) = v
<1> DEFINE top == Upto(AllOnes(ones), AddressBytes)
<1>1. ones \in Nat /\ Bits - ones \in Nat /\ AddressBytes \in 0..AddressBytes
      /\ Width(ones, AddressBytes) = Bits - ones
  BY DEF Bits, Width
<1>2. Pow(Bits - ones) \in Nat /\ top = Pow(Bits - ones) - 1
  BY <1>1, AllOnesUpto, PowerFacts
<1>3. top \in Nat
  BY <1>1, AllOnesTyped, UptoFacts
<1>4. ASSUME NEW h \in HostBits(ones)
      PROVE  /\ Value(h) \in Nat /\ Value(h) = Upto(h, AddressBytes)
             /\ Usable(h, ones) <=> 0 < Value(h) /\ Value(h) < top
  <2>1. h \in [1..AddressBytes -> Nat]
    BY HostBitsTyped
  <2>2. Value(h) = Upto(h, AddressBytes) /\ Value(h) \in Nat
    BY <1>1, <2>1, UptoFacts
  <2>3. /\ Value(h) <= top
        /\ Value(h) = 0 <=> \A i \in 1..AddressBytes : h[i] = 0
        /\ Value(h) = top <=> \A i \in 1..AddressBytes : h[i] = HostMask(ones, i)
    BY <1>1, <2>2, HostBitsUpto
  <2>4. Usable(h, ones) <=> Value(h) # 0 /\ Value(h) # top
    BY <2>3 DEF Usable
  <2> HIDE DEF top
  <2> QED
    BY <1>3, <2>2, <2>3, <2>4
<1>5. ASSUME NEW v \in Nat, 0 < v, v < top
      PROVE  \E h \in HostBits(ones) : Usable(h, ones) /\ Value(h) = v
  <2>1. v \in 0..Upto(AllOnes(ones), AddressBytes)
    BY <1>3, <1>5
  <2>2. PICK h \in HostBits(ones) : Upto(h, AddressBytes) = v
    BY <1>1, <2>1, HostBitsReach
  <2> QED
    BY <1>4, <1>5, <2>2
<1> HIDE DEF top
<1> QED
  BY <1>2, <1>4, <1>5

(* What a random address may be: any but the first and the last.           *)
LEMMA RandomAddresses ==
    ASSUME NEW s \in Subnets
    PROVE  LET first == Value(s.ip)
               last == first + 2^(Bits - s.ones) - 1
           IN  {Value(i) : i \in GenerateRandomIP(s)} = {v \in first..last : first < v /\ v < last}
<1> DEFINE ones == s.ones
           first == Value(s.ip)
           size == Pow(Bits - ones)
           last == first + size - 1
           At(h) == [i \in 1..AddressBytes |-> s.ip[i] + h[i]]
           Hosts == {h \in HostBits(ones) : Usable(h, ones)}
           Given == {Value(i) : i \in GenerateRandomIP(s)}
           Inner == {v \in first..last : first < v /\ v < last}
<1>1. s.ip \in [1..AddressBytes -> Nat] /\ ones \in 0..Bits
  BY BaseFacts DEF Subnets, Address, Byte
<1>2. first \in Nat
  BY <1>1, UptoFacts
<1>3. /\ size \in Nat
      /\ \A h \in HostBits(ones) :
            Usable(h, ones) => Value(h) \in Nat /\ 0 < Value(h) /\ Value(h) < size - 1
      /\ \A v \in Nat : 0 < v /\ v < size - 1 =>
            \E h \in HostBits(ones) : Usable(h, ones) /\ Value(h) = v
  BY <1>1, UsableValues
<1>4. \A h \in Hosts : Value(At(h)) = first + Value(h)
  <2>1. ASSUME NEW h \in Hosts PROVE Value(At(h)) = first + Value(h)
    <3>1. h \in [1..AddressBytes -> Nat]
      BY <1>1, HostBitsTyped
    <3> QED
      BY <1>1, <3>1, ValueAdds
  <2> QED
    BY <2>1
<1>5. GenerateRandomIP(s) = IF Bits - ones < 2 THEN {} ELSE {At(h) : h \in Hosts}
  BY Zenon DEF GenerateRandomIP
<1>6. Bits \in Nat /\ ones \in Nat /\ Bits - ones \in Nat
  BY <1>1 DEF Bits
<1>7. CASE Bits - ones < 2
  <2>1. Bits - ones = 0 \/ Bits - ones = 1
    BY <1>6, <1>7
  <2>2. size = 1 \/ size = 2
    BY <2>1, PowerFacts
  <2>3. Given = {}
    BY <1>5, <1>7
  <2>4. Inner = {}
    <3> HIDE DEF first, size
    <3> QED
      BY <1>2, <2>2
  <2> HIDE DEF Given, Inner, first, size
  <2>5. Given = Inner
    BY <2>3, <2>4
  <2> QED
    BY <2>5 DEF Given, Inner, first, size, Pow
<1>8. CASE ~ (Bits - ones < 2)
  <2>1. Given = {Value(At(h)) : h \in Hosts}
    <3>1. GenerateRandomIP(s) = {At(h) : h \in Hosts}
      BY <1>5, <1>8
    <3> HIDE DEF Hosts, At
    <3> QED
      BY <3>1
  <2>2. Given = {first + Value(h) : h \in Hosts}
    <3> HIDE DEF Hosts, At, first, Given
    <3> QED
      BY <1>4, <2>1
  <2>3. \A h \in Hosts : Value(h) \in Nat /\ 0 < Value(h) /\ Value(h) < size - 1
    BY <1>3
  <2>4. \A v \in Nat : 0 < v /\ v < size - 1 => \E h \in Hosts : Value(h) = v
    BY <1>3
  <2> HIDE DEF Hosts, first, size
  <2>5. ASSUME NEW v \in Given PROVE v \in Inner
    <3>1. PICK h \in Hosts : v = first + Value(h)
      BY <2>2, <2>5
    <3> QED
      BY <1>2, <1>3, <2>3, <3>1
  <2>6. ASSUME NEW v \in Inner PROVE v \in Given
    <3>1. v - first \in Nat /\ 0 < v - first /\ v - first < size - 1 /\ v = first + (v - first)
      BY <1>2, <1>3
    <3>2. PICK h \in Hosts : Value(h) = v - first
      BY <2>4, <3>1
    <3> QED
      BY <2>2, <3>1, <3>2
  <2> HIDE DEF Given, Inner
  <2>7. Given = Inner
    BY <2>5, <2>6
  <2> QED
    BY <2>7 DEF Given, Inner, first, size, Hosts, Pow
<1> QED
  BY <1>7, <1>8

(* The loop over two entries takes the first, then the second.             *)
LEMMA PairAllocates ==
    ASSUME NEW one, NEW two
    PROVE  AllocateIPs(<<one, two>>) = AppendIP(AppendIP({<<>>}, one), two)
<1> DEFINE S == {1, 2}
           l == <<one, two>>
           Unfolds(g) == g = [s \in SUBSET S |->
                                 IF s = {} THEN {<<>>}
                                 ELSE AppendIP(g[s \ {Max(s)}], l[Max(s)])]
           f == [s \in SUBSET S |->
                    IF s = {} THEN {<<>>}
                    ELSE IF s = {1} THEN AppendIP({<<>>}, one)
                    ELSE IF s = {2} THEN AppendIP({<<>>}, two)
                    ELSE AppendIP(AppendIP({<<>>}, one), two)]
           h == CHOOSE g : Unfolds(g)
<1>1. DOMAIN l = S /\ l[1] = one /\ l[2] = two
  <2>1. 1..2 = {1, 2}
    OBVIOUS
  <2> QED
    BY <2>1
<1>2. SUBSET S = {{}, {1}, {2}, S} /\ S # {} /\ S # {1} /\ S # {2}
  OBVIOUS
<1>3. Max({1}) = 1 /\ Max({2}) = 2 /\ Max(S) = 2
  <2>1. Max({1}) = 1 /\ Max({2}) = 2
    BY DEF Max
  <2>2. Max(S) \in S /\ Max(S) >= 2
    <3>1. S \subseteq 1..2 /\ S # {} /\ 2 \in Nat /\ 2 \in S
      OBVIOUS
    <3> HIDE DEF S
    <3> QED
      BY <3>1, GreatestPosition
  <2> QED
    BY <2>1, <2>2
<1>4. {1} \ {1} = {} /\ {2} \ {2} = {} /\ S \ {2} = {1} /\ {1} # {} /\ {2} # {} /\ {1} # {2}
  OBVIOUS
<1>5. AllocateIPs(<<one, two>>) = h[S]
  BY <1>1, Zenon DEF AllocateIPs, FoldLeft, MapThenFoldSet
<1> HIDE DEF l, S
<1>6. Unfolds(f)
  <2>1. ASSUME NEW s \in SUBSET S
        PROVE  f[s] = IF s = {} THEN {<<>>} ELSE AppendIP(f[s \ {Max(s)}], l[Max(s)])
    <3>1. {} \in SUBSET S /\ {1} \in SUBSET S /\ S \in SUBSET S
      BY <1>2
    <3>2. f[{}] = {<<>>} /\ f[{1}] = AppendIP({<<>>}, one)
      BY <1>4, <3>1
    <3> QED
      BY <1>1, <1>2, <1>3, <1>4, <2>1, <3>2
  <2>2. f = [s \in SUBSET S |-> f[s]]
    OBVIOUS
  <2> HIDE DEF f
  <2> QED
    BY <2>1, <2>2, Zenon
<1>7. Unfolds(h)
  <2> HIDE DEF Unfolds, f
  <2> QED
    BY <1>6
<1> HIDE DEF h
<1>8. /\ h[{}] = {<<>>}
      /\ h[{1}] = AppendIP(h[{1} \ {Max({1})}], l[Max({1})])
      /\ h[S] = AppendIP(h[S \ {Max(S)}], l[Max(S)])
  BY <1>2, <1>4, <1>7
<1>9. h[S] = AppendIP(AppendIP({<<>>}, one), two)
  BY <1>1, <1>3, <1>4, <1>8
<1> QED
  BY <1>5, <1>9

(* Of the two lists of RandomIPUsable, the first gets an address of the    *)
(* subnet and the second, one of whose entries has no subnet, gets none.   *)
LEMMA ListsAllocate ==
    ASSUME NEW s \in Subnets
    PROVE  LET ips == AllocateIPs(<<[provider |-> "DHCP", subnet |-> NoSubnet],
                                    [provider |-> "Random", subnet |-> s]>>)
           IN  /\ {x[1] : x \in ips} = GenerateRandomIP(s)
               /\ AllocateIPs(<<[provider |-> "Random", subnet |-> s],
                                [provider |-> "Random", subnet |-> NoSubnet]>>) = {}
<1> DEFINE none == [provider |-> "DHCP", subnet |-> NoSubnet]
           random == [provider |-> "Random", subnet |-> s]
           broken == [provider |-> "Random", subnet |-> NoSubnet]
<1>1. s # NoSubnet
  <2>1. s \in [ip : [1..AddressBytes -> Nat], ones : Nat]
    <3>1. s \in [ip : Address, ones : 0..Bits]
      BY DEF Subnets
    <3>2. Address \subseteq [1..AddressBytes -> Nat] /\ 0..Bits \subseteq Nat
      BY BaseFacts DEF Address, Byte, Bits
    <3> QED
      BY <3>1, <3>2
  <2> QED
    BY <2>1
<1>2. AppendIP({<<>>}, none) = {<<>>}
  BY DEF AppendIP
<1>3. AppendIP({<<>>}, random) = {Append(<<>>, ip) : ip \in GenerateRandomIP(s)}
  BY <1>1 DEF AppendIP
<1>4. AllocateIPs(<<none, random>>) = {Append(<<>>, ip) : ip \in GenerateRandomIP(s)}
  <2> HIDE DEF none, random
  <2> QED
    BY <1>2, <1>3, PairAllocates
<1>5. \A ip : Append(<<>>, ip)[1] = ip
  OBVIOUS
<1>6. {x[1] : x \in AllocateIPs(<<none, random>>)} = GenerateRandomIP(s)
  <2> DEFINE given == GenerateRandomIP(s)
             ips == AllocateIPs(<<none, random>>)
  <2>1. ips = {Append(<<>>, ip) : ip \in given}
    BY <1>4
  <2> HIDE DEF given, ips
  <2>2. {x[1] : x \in ips} = {Append(<<>>, ip)[1] : ip \in given}
    BY <2>1
  <2>3. {Append(<<>>, ip)[1] : ip \in given} = {ip : ip \in given}
    BY <1>5
  <2>4. {ip : ip \in given} = given
    OBVIOUS
  <2> QED
    BY <2>2, <2>3, <2>4 DEF given, ips
<1>7. \A results : AppendIP(results, broken) = {}
  BY DEF AppendIP
<1>8. AllocateIPs(<<random, broken>>) = {}
  <2> HIDE DEF broken, random
  <2> QED
    BY <1>7, PairAllocates
<1> QED
  BY <1>6, <1>8

(* A random address may be any of its subnet but the first and the last;   *)
(* where there is no other, and only there, an error is returned; a list   *)
(* yields one address for each random entry (common.go:103-164).           *)
THEOREM RandomUsable == RandomIPUsable
<1>1. ASSUME NEW s \in Subnets
      PROVE  LET first == Value(s.ip)
                 last == first + 2^(Bits - s.ones) - 1
             IN  {Value(i) : i \in GenerateRandomIP(s)} = {v \in first..last : first < v /\ v < last}
  BY RandomAddresses
<1>2. ASSUME NEW s \in Subnets
      PROVE  LET ips == AllocateIPs(<<[provider |-> "DHCP", subnet |-> NoSubnet],
                                      [provider |-> "Random", subnet |-> s]>>)
             IN  /\ {x[1] : x \in ips} = GenerateRandomIP(s)
                 /\ AllocateIPs(<<[provider |-> "Random", subnet |-> s],
                                  [provider |-> "Random", subnet |-> NoSubnet]>>) = {}
  BY ListsAllocate
<1> QED
  BY <1>1, <1>2, Zenon DEF RandomIPUsable

(* The addresses that claims are prepared with are usable in every state.  *)
THEOREM AddressesUsable == Spec => []PreparedAddressesUsable
<1>1. PreparedAddressesUsable
    BY RandomUsable DEF PreparedAddressesUsable
<1> QED
    BY <1>1, PTL
=============================================================================
