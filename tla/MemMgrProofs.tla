---------------------------- MODULE MemMgrProofs ----------------------------
(***************************************************************************)
(* MemMgr is type correct, its counters are exact and the budgets hold, for*)
(* any number of threads and blocks, any request limits, any configured    *)
(* total and any width of size_t: the proofs.  Blocks returned through the *)
(* wrong pool (WrongPool) cost the callers memory and never the system.    *)
(***************************************************************************)
EXTENDS MemMgrInv, WrongPool, FiniteSetTheorems, TLAPS

-----------------------------------------------------------------------------
(* What the proofs need to know about SumOver.  Sums are cardinalities, so *)
(* every fact follows from the library's facts about finite sets.          *)

(* A sum of natural numbers over a finite set is a natural number.         *)
LEMMA SumType ==
  ASSUME NEW S, IsFiniteSet(S), NEW f, \A x \in S : f[x] \in Nat
  PROVE  IsFiniteSet(BytesOf(S, f)) /\ SumOver(S, f) \in Nat
<1> DEFINE part(x) == {x} \X (1 .. f[x])
           parts == {part(x) : x \in S}
           g == [x \in S |-> part(x)]
<1>1. IsFiniteSet(parts)
  <2>1. g \in Surjection(S, parts)
    BY DEF Surjection
  <2>2. QED
    BY <2>1, FS_Surjection, Zenon
<1>2. ASSUME NEW T \in parts
      PROVE  IsFiniteSet(T)
  <2>1. PICK x \in S : T = {x} \X (1 .. f[x])
    BY <1>2
  <2>2. IsFiniteSet({x})
    BY FS_Singleton, Zenon
  <2>3. IsFiniteSet(1 .. f[x])
    BY FS_Interval
  <2>4. QED
    BY <2>1, <2>2, <2>3, FS_Product, Zenon
<1>3. IsFiniteSet(UNION parts)
  BY <1>1, <1>2, FS_UNION, Zenon
<1>4. QED
  BY <1>3, FS_CardinalityType DEF BytesOf, SumOver

(* The bytes of one element are as many as its value.                      *)
LEMMA SumPart ==
  ASSUME NEW x, NEW n \in Nat
  PROVE  /\ IsFiniteSet({x} \X (1 .. n))
         /\ Cardinality({x} \X (1 .. n)) = n
<1>1. IsFiniteSet({x}) /\ Cardinality({x}) = 1
  BY FS_Singleton, Zenon
<1>2. IsFiniteSet(1 .. n) /\ Cardinality(1 .. n) = n
  BY FS_Interval
<1>3. /\ IsFiniteSet({x} \X (1 .. n))
      /\ Cardinality({x} \X (1 .. n)) = Cardinality({x}) * Cardinality(1 .. n)
  BY <1>1, <1>2, FS_Product, Zenon
<1>4. QED
  BY <1>1, <1>2, <1>3

LEMMA SumEmpty == \A f : SumOver({}, f) = 0
BY FS_EmptySet DEF SumOver, BytesOf

(* The sum depends only on the values at the elements summed over.         *)
LEMMA SumSame ==
  ASSUME NEW S, NEW f, NEW g, \A x \in S : f[x] = g[x]
  PROVE  SumOver(S, f) = SumOver(S, g)
<1>1. BytesOf(S, f) = BytesOf(S, g)
  BY DEF BytesOf
<1>2. QED
  BY <1>1 DEF SumOver

(* Adding an element adds its value.                                       *)
LEMMA SumAdd ==
  ASSUME NEW S, IsFiniteSet(S), NEW x, x \notin S,
         NEW f, \A y \in S \cup {x} : f[y] \in Nat
  PROVE  SumOver(S \cup {x}, f) = SumOver(S, f) + f[x]
<1> DEFINE A == BytesOf(S, f)
           B == {x} \X (1 .. f[x])
<1>1. BytesOf(S \cup {x}, f) = A \cup B
  BY DEF BytesOf
<1>2. IsFiniteSet(A) /\ Cardinality(A) \in Nat
  BY SumType DEF SumOver
<1>3. IsFiniteSet(B) /\ Cardinality(B) = f[x]
  BY SumPart
<1>4. A \cap B = {}
  BY DEF BytesOf
<1>5. Cardinality(A \cup B) = Cardinality(A) + Cardinality(B)
                              - Cardinality(A \cap B)
  BY <1>2, <1>3, FS_Union, Zenon
<1>6. Cardinality(A \cap B) = 0
  BY <1>4, FS_EmptySet, Zenon
<1>7. f[x] \in Nat
  OBVIOUS
<1>8. Cardinality(A \cup B) = Cardinality(A) + f[x]
  BY <1>2, <1>3, <1>5, <1>6, <1>7
<1>9. QED
  BY <1>1, <1>8, Zenon DEF SumOver

(* Removing an element takes its value away.                               *)
LEMMA SumRemove ==
  ASSUME NEW S, IsFiniteSet(S), NEW x \in S,
         NEW f, \A y \in S : f[y] \in Nat
  PROVE  /\ SumOver(S \ {x}, f) \in Nat
         /\ SumOver(S, f) = SumOver(S \ {x}, f) + f[x]
<1>1. IsFiniteSet(S \ {x})
  BY FS_Difference
<1>2. S = (S \ {x}) \cup {x}
  OBVIOUS
<1>3. SumOver((S \ {x}) \cup {x}, f) = SumOver(S \ {x}, f) + f[x]
  BY <1>1, SumAdd
<1>4. SumOver(S \ {x}, f) \in Nat
  BY <1>1, SumType
<1>5. QED
  BY <1>2, <1>3, <1>4

(* A sum grows along an injection that does not decrease the values.       *)
LEMMA SumInjection ==
  ASSUME NEW S, IsFiniteSet(S), NEW f, \A x \in S : f[x] \in Nat,
         NEW T, NEW g, NEW h \in [T -> S],
         \A x, y \in T : h[x] = h[y] => x = y,
         \A x \in T : g[x] \in Nat /\ g[x] <= f[h[x]]
  PROVE  SumOver(T, g) <= SumOver(S, f)
<1> DEFINE F == [z \in BytesOf(T, g) |-> <<h[z[1]], z[2]>>]
<1>1. F \in [BytesOf(T, g) -> BytesOf(S, f)]
  <2>1. SUFFICES ASSUME NEW z \in BytesOf(T, g)
                 PROVE  <<h[z[1]], z[2]>> \in BytesOf(S, f)
    OBVIOUS
  <2>2. PICK x \in T : \E i \in 1 .. g[x] : z = <<x, i>>
    BY DEF BytesOf
  <2>3. PICK i \in 1 .. g[x] : z = <<x, i>>
    BY <2>2
  <2>4. h[x] \in S /\ i \in 1 .. f[h[x]]
    BY <2>3
  <2>5. QED
    BY <2>3, <2>4 DEF BytesOf
<1>2. ASSUME NEW y \in BytesOf(T, g), NEW z \in BytesOf(T, g), F[y] = F[z]
      PROVE  y = z
  <2>1. PICK a \in T : \E i \in 1 .. g[a] : y = <<a, i>>
    BY DEF BytesOf
  <2>2. PICK b \in T : \E j \in 1 .. g[b] : z = <<b, j>>
    BY DEF BytesOf
  <2>3. h[a] = h[b] /\ y[2] = z[2]
    BY <1>2, <2>1, <2>2
  <2>4. QED
    BY <2>1, <2>2, <2>3
<1>3. F \in Injection(BytesOf(T, g), BytesOf(S, f))
  BY <1>1, <1>2 DEF Injection, IsInjective
<1>4. IsFiniteSet(BytesOf(S, f))
  BY SumType
<1>5. QED
  BY <1>3, <1>4, FS_Injection, Zenon DEF SumOver

(* A sum of values no larger than M is at most M for each element.         *)
LEMMA SumBound ==
  ASSUME NEW S, IsFiniteSet(S), NEW M \in Nat,
         NEW f, \A x \in S : f[x] \in 0 .. M
  PROVE  SumOver(S, f) <= M * Cardinality(S)
<1>1. IsFiniteSet(1 .. M) /\ Cardinality(1 .. M) = M
  BY FS_Interval
<1>2. /\ IsFiniteSet(S \X (1 .. M))
      /\ Cardinality(S \X (1 .. M)) = Cardinality(S) * Cardinality(1 .. M)
  BY <1>1, FS_Product, Zenon
<1>3. BytesOf(S, f) \in SUBSET (S \X (1 .. M))
  BY DEF BytesOf
<1>4. Cardinality(BytesOf(S, f)) <= Cardinality(S \X (1 .. M))
  BY <1>2, <1>3, FS_Subset, Zenon
<1>5. Cardinality(S) \in Nat
  BY FS_CardinalityType
<1>6. QED
  BY <1>1, <1>2, <1>4, <1>5 DEF SumOver

(* What one element contributes to a sum.                                  *)
Share(x, S, f) == IF x \in S THEN f[x] ELSE 0

(* Taking an element's contribution out of the sum leaves the others'.     *)
LEMMA SumOthers ==
  ASSUME NEW S, IsFiniteSet(S), NEW f, \A y \in S : f[y] \in Nat, NEW x
  PROVE  /\ SumOver(S \ {x}, f) \in Nat
         /\ Share(x, S, f) \in Nat
         /\ SumOver(S, f) = SumOver(S \ {x}, f) + Share(x, S, f)
<1>1. CASE x \in S
  BY <1>1, SumRemove DEF Share
<1>2. CASE x \notin S
  <2>1. S \ {x} = S
    BY <1>2
  <2>2. SumOver(S, f) \in Nat
    BY SumType
  <2>3. QED
    BY <1>2, <2>1, <2>2 DEF Share
<1>3. QED
  BY <1>1, <1>2

(* When only x changes, the sum changes by what x contributes.             *)
LEMMA SumChange ==
  ASSUME NEW S, IsFiniteSet(S), NEW f, \A y \in S : f[y] \in Nat,
         NEW T, IsFiniteSet(T), NEW g, \A y \in T : g[y] \in Nat,
         NEW x, S \ {x} = T \ {x}, \A y \in S \ {x} : f[y] = g[y]
  PROVE  /\ SumOver(S, f) \in Nat /\ Share(x, S, f) \in Nat
         /\ SumOver(T, g) \in Nat /\ Share(x, T, g) \in Nat
         /\ Share(x, S, f) <= SumOver(S, f)
         /\ SumOver(T, g) = SumOver(S, f) - Share(x, S, f) + Share(x, T, g)
<1>1. SumOver(S \ {x}, f) = SumOver(T \ {x}, g)
  BY SumSame
<1>2. /\ SumOver(S \ {x}, f) \in Nat
      /\ Share(x, S, f) \in Nat
      /\ SumOver(S, f) = SumOver(S \ {x}, f) + Share(x, S, f)
  BY SumOthers
<1>3. /\ Share(x, T, g) \in Nat
      /\ SumOver(T, g) = SumOver(T \ {x}, g) + Share(x, T, g)
  BY SumOthers
<1>4. QED
  BY <1>1, <1>2, <1>3

(* Disjoint subsets of a finite set do not outnumber it.                   *)
LEMMA DisjointCount ==
  ASSUME NEW T, IsFiniteSet(T),
         NEW A \in SUBSET T, NEW B \in SUBSET T, A \cap B = {}
  PROVE  /\ IsFiniteSet(A) /\ Cardinality(A) \in Nat
         /\ IsFiniteSet(B) /\ Cardinality(B) \in Nat
         /\ Cardinality(A \cup B) = Cardinality(A) + Cardinality(B)
         /\ Cardinality(A) + Cardinality(B) <= Cardinality(T)
<1>1. IsFiniteSet(A) /\ IsFiniteSet(B)
  BY FS_Subset, Zenon
<1>2. /\ Cardinality(A) \in Nat /\ Cardinality(B) \in Nat
      /\ Cardinality(T) \in Nat
  BY <1>1, FS_CardinalityType, Zenon
<1>3. Cardinality(A \cup B) = Cardinality(A) + Cardinality(B)
                              - Cardinality(A \cap B)
  BY <1>1, FS_Union, Zenon
<1>4. Cardinality(A \cap B) = 0
  BY FS_EmptySet, Zenon
<1>5. A \cup B \in SUBSET T
  OBVIOUS
<1>6. Cardinality(A \cup B) <= Cardinality(T)
  BY <1>5, FS_Subset, Zenon
<1>7. QED
  BY <1>1, <1>2, <1>3, <1>4, <1>6

-----------------------------------------------------------------------------
(* Machine arithmetic within the signed range is exact.                    *)

LEMMA WordType == \A x \in Int : Word(x) \in SizeT
BY SizeModAssumption DEF Word, SizeT

LEMMA WordExact == \A x \in SizeT : Word(x) = x
BY SizeModAssumption DEF Word, SizeT

(* policyMgrAdjustAlloc given a difference of two sizes adds it.           *)
LEMMA AdjustUp ==
  ASSUME NEW u \in Nat, NEW d \in Nat, 2 * (u + d) < SizeMod
  PROVE  Word(AsSigned(u) + AsSigned(Word(d))) = u + d
<1>1. Word(d) = d /\ AsSigned(d) = d /\ AsSigned(u) = u
  BY WordExact, SizeModAssumption DEF AsSigned, SizeT
<1>2. QED
  BY <1>1, WordExact, SizeModAssumption DEF SizeT

(* policyMgrAdjustAlloc given a negated size subtracts it.                 *)
LEMMA AdjustDown ==
  ASSUME NEW u \in Nat, NEW d \in Nat, d <= u, 2 * u < SizeMod
  PROVE  Word(AsSigned(u) + AsSigned(Word(-d))) = u - d
<1>1. AsSigned(u) = u
  BY DEF AsSigned
<1>2. AsSigned(Word(-d)) = -d
  <2>1. CASE d = 0
    BY <2>1, WordExact, SizeModAssumption DEF AsSigned, SizeT
  <2>2. CASE d > 0
    <3>1. Word(-d) = SizeMod - d
      BY <2>2, SizeModAssumption DEF Word
    <3>2. QED
      BY <3>1, <2>2, SizeModAssumption DEF AsSigned
  <2>3. QED
    BY <2>1, <2>2
<1>3. QED
  BY <1>1, <1>2, WordExact, SizeModAssumption DEF SizeT

(* The two shares are sizes, and the storage share is within the total,    *)
(* even when 50 * total overflows.                                         *)
LEMMA SplitType ==
  ASSUME NEW total \in SizeT
  PROVE  /\ PoolSplit(total) \in [Pool -> SizeT]
         /\ PoolSplit(total)[StoragePool] <= total
<1> DEFINE exec == Word(ExecPoolQuota * total) \div 100
<1>1. exec \in 0 .. total
  <2>1. Word(ExecPoolQuota * total) \in 0 .. 50 * total
    BY SizeModAssumption DEF Word, SizeT, ExecPoolQuota
  <2>2. QED
    BY <2>1, SizeModAssumption DEF SizeT
<1>2. Word(total - exec) = total - exec
  BY <1>1, WordExact, SizeModAssumption DEF SizeT
<1>3. PoolSplit(total) = [p \in Pool |-> IF p = ExecPool THEN exec
                                         ELSE total - exec]
  BY <1>2 DEF PoolSplit
<1>4. PoolSplit(total)[StoragePool] = total - exec
  BY <1>3 DEF Pool, ExecPool, StoragePool
<1> HIDE DEF exec
<1>5. exec \in SizeT /\ total - exec \in SizeT /\ total - exec <= total
  BY <1>1, SizeModAssumption DEF SizeT
<1>6. QED
  BY <1>3, <1>4, <1>5

-----------------------------------------------------------------------------
(* The byte counts are natural numbers.                                    *)

LEMMA ThreadCount == Cardinality(Threads) \in Nat
BY MemMgrAssumption, FS_CardinalityType

LEMMA HeapFits == HeapBytes \in SizeT
<1>1. 2 * (HeapBytes + Cardinality(Threads)
                       * (MaxReq[ExecPool] + MaxSlack)) < SizeMod
  BY CapacityAssumption DEF Pool
<1>2. MaxReq[ExecPool] + MaxSlack \in Nat
  BY ReqSizeAssumption, MemMgrAssumption DEF Pool, SizeT
<1>3. Cardinality(Threads) * (MaxReq[ExecPool] + MaxSlack) \in Nat
  BY <1>2, ThreadCount
<1>4. QED
  BY <1>1, <1>3, MemMgrAssumption, SizeModAssumption DEF SizeT

LEMMA PoolLiveType ==
  ASSUME TypeOK, NEW p
  PROVE  /\ IsFiniteSet({b \in Blocks : tag[b] = p})
         /\ PoolLive(p) \in Nat
<1> DEFINE S == {b \in Blocks : tag[b] = p}
<1>1. IsFiniteSet(S)
  BY MemMgrAssumption, FS_Subset
<1>2. \A b \in S : heap[b] \in Nat
  BY MemMgrAssumption DEF TypeOK
<1>3. QED
  BY <1>1, <1>2, SumType DEF PoolLive

LEMMA LiveBytesType ==
  ASSUME TypeOK
  PROVE  LiveBytes \in Nat
<1>1. PoolLive(ExecPool) \in Nat /\ PoolLive(StoragePool) \in Nat
  BY PoolLiveType, Zenon
<1>2. QED
  BY <1>1 DEF LiveBytes

LEMMA CallersFinite ==
  ASSUME NEW p, NEW points
  PROVE  /\ IsFiniteSet(Callers(p, points))
         /\ Cardinality(Callers(p, points)) \in Nat
BY MemMgrAssumption, FS_Subset, FS_CardinalityType DEF Callers

LEMMA ClaimedType ==
  ASSUME TypeOK, NEW p
  PROVE  Claimed(p) \in Nat
<1> DEFINE S == Callers(p, {"malloc", "rollback", "refund"})
<1>1. \A t \in S : num_bytes[t] \in Nat
  BY DEF TypeOK, SizeT, Callers
<1>2. QED
  BY <1>1, CallersFinite, SumType DEF Claimed

(* The excess of a block in the hands of allocMem.                         *)
LEMMA ExcessType ==
  ASSUME SafeInv, NEW p
  PROVE  /\ \A t \in Callers(p, {"settle"}) :
              /\ Excess[t] = heap[ptr[t]] - num_bytes[t]
              /\ Excess[t] \in 0 .. MaxSlack
         /\ Unsettled(p) \in Nat
<1>1. ASSUME NEW t \in Callers(p, {"settle"})
      PROVE  /\ Excess[t] = heap[ptr[t]] - num_bytes[t]
             /\ Excess[t] \in 0 .. MaxSlack
  <2>1. t \in Threads /\ pc[t] = "settle"
    BY DEF Callers
  <2>2. num_bytes[t] \in Nat
    BY <2>1 DEF SafeInv, TypeOK, SizeT
  <2>3. heap[ptr[t]] \in num_bytes[t] .. num_bytes[t] + MaxSlack
    BY <2>1 DEF SafeInv, FrameInv, CallInv, UsableSizes
  <2>4. QED
    BY <2>1, <2>2, <2>3, MemMgrAssumption DEF Excess
<1>2. \A t \in Callers(p, {"settle"}) : Excess[t] \in Nat
  BY <1>1
<1>3. Unsettled(p) \in Nat
  BY <1>2, CallersFinite, SumType DEF Unsettled
<1>4. QED
  BY <1>1, <1>3

-----------------------------------------------------------------------------
(* TypeOK and FrameInv are inductive together: a step changes the frame of *)
(* one thread, and at most the block that thread has hold of.              *)

LEMMA SafeInit == Init => SafeInv
<1> SUFFICES ASSUME Init
             PROVE  SafeInv
  OBVIOUS
<1>1. PolicyTypeOK
  <2>1. PICK total \in Totals : InitPolicyMgr(total)
    BY DEF Init
  <2>2. total \in SizeT /\ 0 \in SizeT
    BY MemMgrAssumption, SizeModAssumption DEF SizeT
  <2>3. QED
    BY <2>1, <2>2, SplitType DEF InitPolicyMgr, PolicyTypeOK
<1>2. TypeOK
  BY <1>1, MemMgrAssumption, SizeModAssumption
  DEF Init, TypeOK, PC, SizeT
<1>3. FrameInv
  BY MemMgrAssumption, ReqSizeAssumption
  DEF Init, FrameInv, CallInv, OwnershipInv, BlockInv
<1>4. QED
  BY <1>2, <1>3 DEF SafeInv

(* The counters stay sizes whatever is added to them.                      *)
LEMMA PolicyStep ==
  ASSUME PolicyTypeOK, NEW p \in Pool, NEW n \in Int
  PROVE  /\ PolicyMgrAlloc(p, n, used_memory) \in [Pool -> SizeT]
         /\ PolicyMgrAdjustAlloc(p, n, used_memory) \in [Pool -> SizeT]
<1>1. used_memory \in [Pool -> SizeT] /\ used_memory[p] \in Int
  BY DEF PolicyTypeOK, SizeT
<1>2. AsSigned(used_memory[p]) \in Int
  BY <1>1, SizeModAssumption DEF AsSigned
<1>3. /\ Word(used_memory[p] + n) \in SizeT
      /\ Word(AsSigned(used_memory[p]) + n) \in SizeT
  BY <1>1, <1>2, WordType
<1>4. QED
  BY <1>1, <1>3 DEF PolicyMgrAlloc, PolicyMgrAdjustAlloc

(* A step that gives a counter a correction keeps it a size.               *)
LEMMA AdjustType ==
  ASSUME TypeOK, NEW t \in Threads, pool[t] \in Pool,
         NEW n \in Int, AdjustAlloc(t, AsSigned(Word(n)))
  PROVE  PolicyTypeOK'
<1>1. AsSigned(Word(n)) \in Int
  <2>1. Word(n) \in Int
    BY WordType DEF SizeT
  <2>2. QED
    BY <2>1, SizeModAssumption DEF AsSigned
<1>2. used_memory' \in [Pool -> SizeT]
  BY <1>1, PolicyStep DEF TypeOK, AdjustAlloc
<1>3. QED
  BY <1>2 DEF TypeOK, AdjustAlloc, PolicyTypeOK

LEMMA SafeCallAlloc ==
  ASSUME SafeInv, NEW t \in Threads, NEW p \in Pool, NEW n \in SizeT,
         CallAlloc(t, p, n)
  PROVE  SafeInv'
<1> USE DEF CallAlloc, Goto, policy_vars, heap_vars
<1>1. TypeOK'
  BY MemMgrAssumption DEF SafeInv, TypeOK, PolicyTypeOK, PC
<1>2. CallInv'
  BY DEF SafeInv, TypeOK, FrameInv, CallInv, UsableSizes
<1>3. OwnershipInv' /\ BlockInv'
  BY DEF SafeInv, FrameInv, OwnershipInv, BlockInv
<1>4. QED
  BY <1>1, <1>2, <1>3 DEF SafeInv, FrameInv

LEMMA SafeReserve ==
  ASSUME SafeInv, NEW t \in Threads, Reserve(t)
  PROVE  SafeInv'
<1> USE DEF Reserve, Goto, heap_vars
<1>1. pool[t] \in Pool /\ num_bytes[t] \in Int
  BY DEF SafeInv, TypeOK, SizeT
<1>2. used_memory' \in [Pool -> SizeT]
  BY <1>1, PolicyStep DEF SafeInv, TypeOK
<1>3. TypeOK'
  BY <1>1, <1>2 DEF SafeInv, TypeOK, PolicyTypeOK, PC
<1>4. num_bytes[t] \in MinReq[pool[t]] .. MaxReq[pool[t]]
  BY DEF Admits
<1>5. CallInv'
  BY <1>4 DEF SafeInv, TypeOK, FrameInv, CallInv, UsableSizes
<1>6. OwnershipInv' /\ BlockInv'
  BY DEF SafeInv, FrameInv, OwnershipInv, BlockInv
<1>7. QED
  BY <1>3, <1>5, <1>6 DEF SafeInv, FrameInv

LEMMA SafeJeMalloc ==
  ASSUME SafeInv, NEW t \in Threads, NEW b \in Blocks,
         NEW s \in UsableSizes(num_bytes[t]), JeMalloc(t, b, s)
  PROVE  SafeInv'
<1> USE DEF JeMalloc, Goto, policy_vars
<1>1. pool[t] \in Pool /\ num_bytes[t] \in Nat
  BY DEF SafeInv, TypeOK, SizeT
<1>2. /\ s \in Nat /\ s > 0
      /\ s <= MaxReq[pool[t]] + MaxSlack
  <2>1. num_bytes[t] \in MinReq[pool[t]] .. MaxReq[pool[t]]
    BY DEF SafeInv, FrameInv, CallInv
  <2>2. MinReq[pool[t]] > 0 /\ MinReq[pool[t]] \in Int
                           /\ MaxReq[pool[t]] \in Int
    BY <1>1, ReqSizeAssumption DEF SizeT
  <2>3. QED
    BY <1>1, <2>1, <2>2, MemMgrAssumption DEF UsableSizes
<1>3. s \in 0 .. HeapBytes
  <2>1. LiveBytes \in Nat
    BY LiveBytesType DEF SafeInv
  <2>2. QED
    BY <1>2, <2>1, MemMgrAssumption
<1>4. tag[b] = NoPool /\ b \notin held
  BY MemMgrAssumption DEF SafeInv, FrameInv, BlockInv
<1>5. \A u \in Threads : pc[u] \in {"settle", "free"} => ptr[u] # b
  BY <1>4, MemMgrAssumption DEF SafeInv, TypeOK, FrameInv, CallInv
<1>6. TypeOK'
  BY <1>1, <1>3, MemMgrAssumption DEF SafeInv, TypeOK, PolicyTypeOK, PC
<1>7. CallInv'
  BY <1>1, <1>4, <1>5 DEF SafeInv, TypeOK, FrameInv, CallInv, UsableSizes
<1>8. OwnershipInv'
  BY <1>5, MemMgrAssumption DEF SafeInv, TypeOK, FrameInv, OwnershipInv
<1>9. BlockInv'
  BY <1>1, <1>2, <1>4, MemMgrAssumption
  DEF SafeInv, TypeOK, FrameInv, BlockInv
<1>10. QED
  BY <1>6, <1>7, <1>8, <1>9 DEF SafeInv, FrameInv

LEMMA SafeJeMallocFails ==
  ASSUME SafeInv, NEW t \in Threads, JeMallocFails(t)
  PROVE  SafeInv'
<1> USE DEF JeMallocFails, Goto, policy_vars, heap_vars
<1>1. TypeOK'
  BY DEF SafeInv, TypeOK, PolicyTypeOK, PC
<1>2. CallInv'
  BY DEF SafeInv, TypeOK, FrameInv, CallInv, UsableSizes
<1>3. OwnershipInv' /\ BlockInv'
  BY DEF SafeInv, TypeOK, FrameInv, OwnershipInv, BlockInv
<1>4. QED
  BY <1>1, <1>2, <1>3 DEF SafeInv, FrameInv

LEMMA SafeCallFree ==
  ASSUME SafeInv, NEW t \in Threads, NEW b \in Blocks, CallFree(t, b)
  PROVE  SafeInv'
<1> USE DEF CallFree, Goto, policy_vars, heap_vars
<1>1. /\ tag[b] \in Pool
      /\ \E p \in Pool : heap[b] <= MaxReq[p] + MaxSlack
  BY DEF SafeInv, FrameInv, BlockInv
<1>2. heap[b] \in SizeT
  BY HeapFits, MemMgrAssumption, SizeModAssumption DEF SafeInv, TypeOK, SizeT
<1>3. TypeOK'
  BY <1>1, <1>2, MemMgrAssumption
  DEF SafeInv, TypeOK, PolicyTypeOK, PC
<1>4. \A u \in Threads : ptr[u] # b
  BY MemMgrAssumption DEF SafeInv, TypeOK, FrameInv, CallInv
<1>5. CallInv'
  BY <1>1, MemMgrAssumption
  DEF SafeInv, TypeOK, FrameInv, CallInv, UsableSizes
<1>6. OwnershipInv'
  BY <1>4 DEF SafeInv, TypeOK, FrameInv, OwnershipInv
<1>7. BlockInv'
  BY DEF SafeInv, TypeOK, FrameInv, BlockInv
<1>8. QED
  BY <1>3, <1>5, <1>6, <1>7 DEF SafeInv, FrameInv

LEMMA SafeJeFree ==
  ASSUME SafeInv, NEW t \in Threads, JeFree(t)
  PROVE  SafeInv'
<1> USE DEF JeFree, Goto, policy_vars
<1>1. ptr[t] \in Blocks /\ ptr[t] \notin held
  BY MemMgrAssumption DEF SafeInv, TypeOK, FrameInv, CallInv
<1>2. \A u \in Threads \ {t} : ptr[u] # ptr[t]
  BY <1>1, MemMgrAssumption DEF SafeInv, FrameInv, OwnershipInv
<1>3. TypeOK'
  BY <1>1, MemMgrAssumption DEF SafeInv, TypeOK, PolicyTypeOK, PC
<1>4. CallInv'
  BY <1>1, <1>2, MemMgrAssumption
  DEF SafeInv, TypeOK, FrameInv, CallInv, UsableSizes
<1>5. OwnershipInv'
  BY DEF SafeInv, TypeOK, FrameInv, OwnershipInv
<1>6. BlockInv'
  BY <1>1, MemMgrAssumption DEF SafeInv, TypeOK, FrameInv, BlockInv
<1>7. QED
  BY <1>3, <1>4, <1>5, <1>6 DEF SafeInv, FrameInv

(* A call that returns without a block leaves nothing behind ...           *)
LEMMA SafeReturn ==
  ASSUME SafeInv, PolicyTypeOK', NEW t \in Threads,
         NEW from \in {"decide", "rollback", "refund"}, Return(t, from),
         UNCHANGED <<heap_vars, held>>
  PROVE  SafeInv'
<1> USE DEF Return, Goto, heap_vars
<1>1. TypeOK'
  BY MemMgrAssumption, SizeModAssumption DEF SafeInv, TypeOK, PC, SizeT
<1>2. CallInv'
  BY DEF SafeInv, TypeOK, FrameInv, CallInv, UsableSizes
<1>3. OwnershipInv' /\ BlockInv'
  BY DEF SafeInv, TypeOK, FrameInv, OwnershipInv, BlockInv
<1>4. QED
  BY <1>1, <1>2, <1>3 DEF SafeInv, FrameInv

(* ... and one that returns its block leaves it to the callers.            *)
LEMMA SafeReturnBlock ==
  ASSUME SafeInv, PolicyTypeOK', NEW t \in Threads, Return(t, "settle"),
         held' = held \cup {ptr[t]}, UNCHANGED heap_vars
  PROVE  SafeInv'
<1> USE DEF Return, Goto, heap_vars
<1>1. pool[t] \in Pool /\ ptr[t] \in Blocks
  BY MemMgrAssumption DEF SafeInv, TypeOK
<1>2. TypeOK'
  BY <1>1, MemMgrAssumption, SizeModAssumption
  DEF SafeInv, TypeOK, PC, SizeT
<1>3. CallInv'
  BY <1>1 DEF SafeInv, TypeOK, FrameInv, CallInv, OwnershipInv, UsableSizes
<1>4. OwnershipInv'
  BY DEF SafeInv, TypeOK, FrameInv, OwnershipInv
<1>5. BlockInv'
  BY <1>1 DEF SafeInv, TypeOK, FrameInv, CallInv, BlockInv
<1>6. QED
  BY <1>2, <1>3, <1>4, <1>5 DEF SafeInv, FrameInv

LEMMA SafeRefuse ==
  ASSUME SafeInv, NEW t \in Threads, Refuse(t)
  PROVE  SafeInv'
<1>1. PolicyTypeOK'
  BY DEF Refuse, policy_vars, SafeInv, TypeOK, PolicyTypeOK
<1>2. QED
  BY <1>1, SafeReturn DEF Refuse

LEMMA SafeSettle ==
  ASSUME SafeInv, NEW t \in Threads, Settle(t)
  PROVE  SafeInv'
<1> USE DEF Settle
<1>1. pool[t] \in Pool /\ heap[ptr[t]] - num_bytes[t] \in Int
  BY MemMgrAssumption DEF Return, Goto, SafeInv, TypeOK, SizeT
<1>2. PolicyTypeOK'
  <2>1. CASE heap[ptr[t]] > num_bytes[t]
    BY <1>1, <2>1, AdjustType DEF SafeInv
  <2>2. CASE ~ (heap[ptr[t]] > num_bytes[t])
    BY <2>2 DEF policy_vars, SafeInv, TypeOK, PolicyTypeOK
  <2>3. QED
    BY <2>1, <2>2
<1>3. QED
  BY <1>2, SafeReturnBlock

LEMMA SafeGiveBack ==
  ASSUME SafeInv, NEW t \in Threads, Rollback(t) \/ Refund(t)
  PROVE  SafeInv'
<1>1. pool[t] \in Pool /\ - num_bytes[t] \in Int
  BY DEF Rollback, Refund, Return, Goto, SafeInv, TypeOK, SizeT
<1>2. PolicyTypeOK'
  BY <1>1, AdjustType DEF Rollback, Refund, SafeInv
<1>3. QED
  BY <1>2, SafeReturn DEF Rollback, Refund

LEMMA SafeStutter == SafeInv /\ UNCHANGED vars => SafeInv'
BY DEF vars, policy_vars, call_vars, heap_vars, SafeInv, TypeOK,
       PolicyTypeOK, FrameInv, CallInv, OwnershipInv, BlockInv, UsableSizes

LEMMA SafeNext == SafeInv /\ [Next]_vars => SafeInv'
<1> SUFFICES ASSUME SafeInv, [Next]_vars
             PROVE  SafeInv'
  OBVIOUS
<1>1. CASE UNCHANGED vars
  BY <1>1, SafeStutter
<1>2. ASSUME NEW t \in Threads, Caller(t)
      PROVE  SafeInv'
  BY <1>2, SafeCallAlloc, SafeCallFree, MemMgrAssumption DEF Caller
<1>3. ASSUME NEW t \in Threads, Step(t)
      PROVE  SafeInv'
  BY <1>3, SafeReserve, SafeRefuse, SafeJeMalloc, SafeJeMallocFails,
     SafeSettle, SafeGiveBack, SafeJeFree DEF Step
<1>4. QED
  BY <1>1, <1>2, <1>3 DEF Next

(* A call frees through the pool it entered with, and keeps to its block.  *)
LEMMA PoolKept ==
  ASSUME SafeInv, PoolInv, NEW t \in Threads,
         \/ \E p, n : CallAlloc(t, p, n)
         \/ \E b \in Blocks : CallFree(t, b)
         \/ Step(t)
  PROVE  PoolInv'
<1> USE DEF SafeInv, TypeOK, PoolInv, Goto, heap_vars
<1>1. ASSUME NEW p, NEW n, CallAlloc(t, p, n)
      PROVE  PoolInv'
  BY <1>1 DEF CallAlloc
<1>2. ASSUME NEW b \in Blocks, CallFree(t, b)
      PROVE  PoolInv'
  BY <1>2 DEF CallFree
<1>3. ASSUME NEW b \in Blocks, NEW s, JeMalloc(t, b, s)
      PROVE  PoolInv'
  <2>1. tag[b] = NoPool
    BY <1>3 DEF JeMalloc, FrameInv, BlockInv
  <2>2. \A u \in Threads : pc[u] = "free" => ptr[u] # b
    BY <2>1, MemMgrAssumption
  <2>3. QED
    BY <1>3, <2>2 DEF JeMalloc
<1>4. CASE JeFree(t)
  <2>1. \A u \in Threads \ {t} : ptr[u] # ptr[t]
    BY <1>4 DEF JeFree, FrameInv, OwnershipInv
  <2>2. QED
    BY <1>4, <2>1 DEF JeFree
<1>5. CASE \/ Reserve(t) \/ Refuse(t) \/ JeMallocFails(t)
           \/ Settle(t) \/ Rollback(t) \/ Refund(t)
  BY <1>5 DEF Reserve, Refuse, JeMallocFails, Settle, Rollback, Refund, Return
<1>6. QED
  BY <1>1, <1>2, <1>3, <1>4, <1>5 DEF Step

(* In every reachable state the variables have their types, a call is in   *)
(* progress exactly when it has a pool, and it has a block exactly between *)
(* je_malloc and the return of allocMem and between the size query and     *)
(* je_free of freeMem.                                                     *)
THEOREM TypeCorrect == Spec => []TypeOK
<1>1. SafeInv => TypeOK
  BY DEF SafeInv
<1>2. QED
  BY <1>1, SafeInit, SafeNext, PTL DEF Spec

-----------------------------------------------------------------------------
(* A step of thread t on block b changes each byte count by what t, or b,  *)
(* contributes to it.                                                      *)

ClaimPoints == {"malloc", "rollback", "refund"}

SlackMax == [t \in Threads |-> MaxSlack]

ClaimOf(t, p) == Share(t, Callers(p, ClaimPoints), num_bytes)
ExcessOf(t, p) == Share(t, Callers(p, {"settle"}), Excess)
PendingOf(t, p) == Share(t, Callers(p, {"malloc"}), SlackMax)
LiveOf(b, p) == Share(b, {c \in Blocks : tag[c] = p}, heap)

(* Nobody but t moves, and the block it works on is nobody else's.         *)
OnlyMoves(t) ==
  \A u \in Threads \ {t} :
    /\ pc'[u] = pc[u] /\ pool'[u] = pool[u] /\ num_bytes'[u] = num_bytes[u]
    /\ pc[u] = "settle" => ptr'[u] = ptr[u] /\ heap'[ptr[u]] = heap[ptr[u]]

LEMMA ClaimedChange ==
  ASSUME SafeInv, SafeInv', NEW t \in Threads, OnlyMoves(t), NEW p
  PROVE  /\ Claimed(p) \in Nat /\ Claimed(p)' \in Nat
         /\ ClaimOf(t, p) \in Nat /\ ClaimOf(t, p)' \in Nat
         /\ ClaimOf(t, p) <= Claimed(p)
         /\ Claimed(p)' = Claimed(p) - ClaimOf(t, p) + ClaimOf(t, p)'
<1> DEFINE S == Callers(p, ClaimPoints)
           T == {u \in Threads : pool'[u] = p /\ pc'[u] \in ClaimPoints}
           f == num_bytes
           g == num_bytes'
<1>1. IsFiniteSet(S) /\ IsFiniteSet(T)
  BY CallersFinite, MemMgrAssumption, FS_Subset
<1>2. /\ \A u \in S : f[u] \in Nat
      /\ \A u \in T : g[u] \in Nat
  BY DEF SafeInv, TypeOK, SizeT, Callers
<1>3. /\ S \ {t} = T \ {t}
      /\ \A u \in S \ {t} : f[u] = g[u]
  BY DEF OnlyMoves, Callers
<1>4. /\ Claimed(p) = SumOver(S, f) /\ Claimed(p)' = SumOver(T, g)
      /\ ClaimOf(t, p) = Share(t, S, f) /\ ClaimOf(t, p)' = Share(t, T, g)
  BY DEF Claimed, ClaimOf, Callers, ClaimPoints, SumOver, BytesOf, Share
<1> HIDE DEF S, T, f, g
<1>5. QED
  BY <1>1, <1>2, <1>3, <1>4, SumChange

LEMMA UnsettledChange ==
  ASSUME SafeInv, SafeInv', NEW t \in Threads, OnlyMoves(t), NEW p
  PROVE  /\ Unsettled(p) \in Nat /\ Unsettled(p)' \in Nat
         /\ ExcessOf(t, p) \in Nat /\ ExcessOf(t, p)' \in Nat
         /\ ExcessOf(t, p) <= Unsettled(p)
         /\ Unsettled(p)' = Unsettled(p) - ExcessOf(t, p) + ExcessOf(t, p)'
<1> DEFINE S == Callers(p, {"settle"})
           T == {u \in Threads : pool'[u] = p /\ pc'[u] \in {"settle"}}
           f == Excess
           g == [u \in Threads |-> IF pc'[u] = "settle"
                                   THEN heap'[ptr'[u]] - num_bytes'[u] ELSE 0]
<1>1. IsFiniteSet(S) /\ IsFiniteSet(T)
  BY CallersFinite, MemMgrAssumption, FS_Subset
<1>2. \A u \in S : f[u] \in Nat
  BY ExcessType
<1>3. \A u \in T : g[u] \in Nat
  <2>1. SUFFICES ASSUME NEW u \in T
                 PROVE  heap'[ptr'[u]] - num_bytes'[u] \in Nat
    OBVIOUS
  <2>2. num_bytes'[u] \in Nat
    BY DEF SafeInv, TypeOK, SizeT
  <2>3. heap'[ptr'[u]] \in num_bytes'[u] .. num_bytes'[u] + MaxSlack
    BY DEF SafeInv, FrameInv, CallInv, UsableSizes
  <2>4. QED
    BY <2>2, <2>3, MemMgrAssumption
<1>4. S \ {t} = T \ {t}
  BY DEF OnlyMoves, Callers
<1>5. \A u \in S \ {t} : f[u] = g[u]
  BY DEF OnlyMoves, Callers, Excess
<1>6. /\ Unsettled(p) = SumOver(S, f) /\ Unsettled(p)' = SumOver(T, g)
      /\ ExcessOf(t, p) = Share(t, S, f) /\ ExcessOf(t, p)' = Share(t, T, g)
  BY DEF Unsettled, ExcessOf, Callers, Excess, SumOver, BytesOf, Share
<1> HIDE DEF S, T, f, g
<1>7. QED
  BY <1>1, <1>2, <1>3, <1>4, <1>5, <1>6, SumChange

LEMMA PendingChange ==
  ASSUME SafeInv, SafeInv', NEW t \in Threads, OnlyMoves(t), NEW p
  PROVE  /\ Pending(p) \in Nat /\ Pending(p)' \in Nat
         /\ PendingOf(t, p) \in Nat /\ PendingOf(t, p)' \in Nat
         /\ PendingOf(t, p) <= Pending(p)
         /\ Pending(p)' = Pending(p) - PendingOf(t, p) + PendingOf(t, p)'
<1> DEFINE S == Callers(p, {"malloc"})
           T == {u \in Threads : pool'[u] = p /\ pc'[u] \in {"malloc"}}
           f == SlackMax
<1>1. IsFiniteSet(S) /\ IsFiniteSet(T)
  BY CallersFinite, MemMgrAssumption, FS_Subset
<1>2. /\ \A u \in S : f[u] \in Nat
      /\ \A u \in T : f[u] \in Nat
  BY MemMgrAssumption DEF Callers, SlackMax
<1>3. S \ {t} = T \ {t}
  BY DEF OnlyMoves, Callers
<1>4. /\ Pending(p) = SumOver(S, f) /\ Pending(p)' = SumOver(T, f)
      /\ PendingOf(t, p) = Share(t, S, f) /\ PendingOf(t, p)' = Share(t, T, f)
  BY DEF Pending, PendingOf, Callers, SlackMax, SumOver, BytesOf, Share
<1> HIDE DEF S, T, f
<1>5. QED
  BY <1>1, <1>2, <1>3, <1>4, SumChange

LEMMA PoolLiveChange ==
  ASSUME SafeInv, SafeInv', NEW b,
         \A c \in Blocks \ {b} : heap'[c] = heap[c] /\ tag'[c] = tag[c], NEW p
  PROVE  /\ PoolLive(p) \in Nat /\ PoolLive(p)' \in Nat
         /\ LiveOf(b, p) \in Nat /\ LiveOf(b, p)' \in Nat
         /\ LiveOf(b, p) <= PoolLive(p)
         /\ PoolLive(p)' = PoolLive(p) - LiveOf(b, p) + LiveOf(b, p)'
<1> DEFINE S == {c \in Blocks : tag[c] = p}
           T == {c \in Blocks : tag'[c] = p}
           f == heap
           g == heap'
<1>1. IsFiniteSet(S) /\ IsFiniteSet(T)
  BY MemMgrAssumption, FS_Subset
<1>2. /\ \A c \in S : f[c] \in Nat
      /\ \A c \in T : g[c] \in Nat
  BY MemMgrAssumption DEF SafeInv, TypeOK
<1>3. S \ {b} = T \ {b} /\ \A c \in S \ {b} : f[c] = g[c]
  OBVIOUS
<1>4. /\ PoolLive(p) = SumOver(S, f) /\ PoolLive(p)' = SumOver(T, g)
      /\ LiveOf(b, p) = Share(b, S, f) /\ LiveOf(b, p)' = Share(b, T, g)
  BY DEF PoolLive, LiveOf, SumOver, BytesOf, Share
<1> HIDE DEF S, T, f, g
<1>5. QED
  BY <1>1, <1>2, <1>3, <1>4, SumChange

-----------------------------------------------------------------------------
(* Bounds on the counters.                                                 *)

LEMMA UsedType ==
  ASSUME TypeOK, NEW p \in Pool
  PROVE  used_memory[p] \in Nat /\ used_memory[p] < SizeMod
BY SizeModAssumption DEF TypeOK, PolicyTypeOK, SizeT

(* The largest block of either pool.                                       *)
MaxBlock ==
  MaxSlack + IF MaxReq[ExecPool] <= MaxReq[StoragePool]
             THEN MaxReq[StoragePool] ELSE MaxReq[ExecPool]

LEMMA MaxBlockFits ==
  /\ MaxBlock \in Nat
  /\ \A p \in Pool : MaxReq[p] + MaxSlack <= MaxBlock
  /\ 2 * (HeapBytes + MaxBlock * Cardinality(Threads)) < SizeMod
<1>1. PICK p \in Pool : MaxBlock = MaxReq[p] + MaxSlack
  BY MemMgrAssumption, ReqSizeAssumption DEF MaxBlock, Pool, SizeT
<1>2. \A q \in Pool : MaxReq[q] \in Nat
  BY ReqSizeAssumption DEF SizeT
<1>3. 2 * (HeapBytes + Cardinality(Threads) * MaxBlock) < SizeMod
  BY <1>1, CapacityAssumption
<1>4. MaxBlock \in Nat
  BY <1>1, <1>2, MemMgrAssumption
<1>5. \A q \in Pool : MaxReq[q] + MaxSlack <= MaxBlock
  BY <1>2, MemMgrAssumption DEF MaxBlock, Pool
<1>6. Cardinality(Threads) * MaxBlock = MaxBlock * Cardinality(Threads)
  BY <1>4, ThreadCount
<1>7. QED
  BY <1>3, <1>4, <1>5, <1>6

(* A call claims one block's worth at most.                                *)
LEMMA ClaimedBound ==
  ASSUME SafeInv, NEW p \in Pool
  PROVE  /\ Claimed(p) \in Nat
         /\ Claimed(p) <= MaxBlock * Cardinality(Callers(p, ClaimPoints))
<1> DEFINE S == Callers(p, ClaimPoints)
<1>1. \A q \in Pool : MaxReq[q] \in Nat
  BY ReqSizeAssumption DEF SizeT
<1>2. \A t \in S : num_bytes[t] \in 0 .. MaxBlock
  <2>1. SUFFICES ASSUME NEW t \in S
                 PROVE  num_bytes[t] \in 0 .. MaxBlock
    OBVIOUS
  <2>2. num_bytes[t] \in Nat
    BY DEF SafeInv, TypeOK, SizeT, Callers
  <2>3. PICK q \in Pool : num_bytes[t] <= MaxReq[q] + MaxSlack
    <3>1. CASE pc[t] = "refund"
      BY <3>1 DEF SafeInv, FrameInv, CallInv, Callers
    <3>2. CASE pc[t] \in {"malloc", "rollback"}
      <4>1. num_bytes[t] \in MinReq[p] .. MaxReq[p]
        BY <3>2 DEF SafeInv, FrameInv, CallInv, Callers
      <4>2. QED
        BY <1>1, <2>2, <4>1, MemMgrAssumption
    <3>3. QED
      BY <3>1, <3>2 DEF Callers, ClaimPoints
  <2>4. QED
    BY <1>1, <2>2, <2>3, MaxBlockFits, MemMgrAssumption
<1>3. IsFiniteSet(S)
  BY CallersFinite
<1>4. Claimed(p) = SumOver(S, num_bytes)
  BY DEF Claimed, ClaimPoints
<1>5. \A t \in S : num_bytes[t] \in Nat
  BY <1>2, MaxBlockFits
<1> HIDE DEF S
<1>6. SumOver(S, num_bytes) <= MaxBlock * Cardinality(S)
  BY <1>2, <1>3, SumBound, MaxBlockFits
<1>7. SumOver(S, num_bytes) \in Nat
  BY <1>3, <1>5, SumType
<1>8. QED
  BY <1>4, <1>6, <1>7 DEF S

(* What is live and what is claimed, of both pools together, leave the top *)
(* bit of a size_t clear.                                                  *)
LEMMA ChargesFit ==
  ASSUME SafeInv, HeapInv
  PROVE  /\ \A p \in Pool : PoolLive(p) \in Nat /\ Claimed(p) \in Nat
         /\ 2 * (LiveBytes + Claimed(ExecPool) + Claimed(StoragePool)) < SizeMod
<1> DEFINE C(p) == Callers(p, ClaimPoints)
           most == MaxBlock * Cardinality(Threads)
<1>1. \A p \in Pool : PoolLive(p) \in Nat /\ Claimed(p) \in Nat
  BY PoolLiveType, ClaimedBound, Zenon DEF SafeInv
<1>2. /\ Claimed(ExecPool) <= MaxBlock * Cardinality(C(ExecPool))
      /\ Claimed(StoragePool) <= MaxBlock * Cardinality(C(StoragePool))
      /\ Claimed(ExecPool) \in Nat /\ Claimed(StoragePool) \in Nat
  BY <1>1, ClaimedBound, Zenon DEF Pool
<1>3. /\ C(ExecPool) \in SUBSET Threads /\ C(StoragePool) \in SUBSET Threads
      /\ C(ExecPool) \cap C(StoragePool) = {}
  BY DEF Callers, ExecPool, StoragePool
<1> HIDE DEF C
<1>4. /\ Cardinality(C(ExecPool)) \in Nat
      /\ Cardinality(C(StoragePool)) \in Nat
      /\ Cardinality(C(ExecPool)) + Cardinality(C(StoragePool))
           <= Cardinality(Threads)
  BY <1>3, DisjointCount, MemMgrAssumption
<1>5. MaxBlock * (Cardinality(C(ExecPool)) + Cardinality(C(StoragePool)))
        <= most
  BY <1>4, ThreadCount, MaxBlockFits
<1>6. Claimed(ExecPool) + Claimed(StoragePool) <= most /\ most \in Nat
  BY <1>2, <1>4, <1>5, ThreadCount, MaxBlockFits
<1>7. 2 * (HeapBytes + most) < SizeMod
  BY MaxBlockFits
<1> HIDE DEF most
<1>8. LiveBytes \in Nat /\ LiveBytes <= HeapBytes
  BY LiveBytesType DEF SafeInv, HeapInv
<1>9. QED
  BY <1>1, <1>2, <1>6, <1>7, <1>8, MemMgrAssumption, SizeModAssumption

(* An excess is part of a live block, and blocks have one caller at most.  *)
LEMMA UnsettledLive ==
  ASSUME SafeInv, NEW p \in Pool
  PROVE  Unsettled(p) <= PoolLive(p)
<1> DEFINE S == {b \in Blocks : tag[b] = p}
           T == Callers(p, {"settle"})
           h == [t \in T |-> ptr[t]]
<1>1. \A t \in T : ptr[t] \in S
  BY MemMgrAssumption DEF SafeInv, TypeOK, FrameInv, CallInv, Callers
<1>2. \A t, u \in T : h[t] = h[u] => t = u
  BY MemMgrAssumption
  DEF SafeInv, TypeOK, FrameInv, OwnershipInv, Callers
<1>3. \A b \in S : heap[b] \in Nat
  BY MemMgrAssumption DEF SafeInv, TypeOK
<1>4. \A t \in T : Excess[t] \in Nat /\ Excess[t] <= heap[h[t]]
  <2>1. SUFFICES ASSUME NEW t \in T
                 PROVE  Excess[t] \in Nat /\ Excess[t] <= heap[ptr[t]]
    OBVIOUS
  <2>2. num_bytes[t] \in Nat
    BY DEF SafeInv, TypeOK, SizeT, Callers
  <2>3. Excess[t] = heap[ptr[t]] - num_bytes[t] /\ Excess[t] \in Nat
    BY ExcessType
  <2>4. heap[ptr[t]] \in Nat
    BY <1>1, <1>3
  <2>5. QED
    BY <2>2, <2>3, <2>4
<1>5. IsFiniteSet(S)
  BY PoolLiveType, Zenon DEF SafeInv
<1>6. h \in [T -> S]
  BY <1>1
<1> HIDE DEF S, T, h
<1>7. SumOver(T, Excess) <= SumOver(S, heap)
  BY <1>2, <1>3, <1>4, <1>5, <1>6, SumInjection
<1>8. QED
  BY <1>7 DEF Unsettled, PoolLive, S, T

(* The counters fit, and have what their claims will take back.            *)
LEMMA CountersFit ==
  ASSUME SafeInv, HeapInv, Accounting, NEW p \in Pool
  PROVE  /\ used_memory[p] \in Nat /\ Unsettled(p) \in Nat
         /\ Claimed(p) \in Nat /\ PoolLive(p) \in Nat
         /\ Claimed(p) <= used_memory[p]
         /\ 2 * (used_memory[p] + Unsettled(p)) < SizeMod
<1>1. used_memory[p] \in Nat
  BY UsedType DEF SafeInv
<1>2. Unsettled(p) \in Nat
  BY ExcessType
<1>3. used_memory[p] + Unsettled(p) = PoolLive(p) + Claimed(p)
  BY DEF Accounting
<1>4. /\ \A q \in Pool : PoolLive(q) \in Nat /\ Claimed(q) \in Nat
      /\ 2 * (PoolLive(ExecPool) + PoolLive(StoragePool)
              + Claimed(ExecPool) + Claimed(StoragePool)) < SizeMod
  BY ChargesFit DEF LiveBytes
<1>5. 2 * (PoolLive(p) + Claimed(p)) < SizeMod
  BY <1>4, SizeModAssumption DEF Pool
<1>6. QED
  BY <1>1, <1>2, <1>3, <1>4, <1>5, UnsettledLive

(* Threads between their decision and their return have at most MaxSlack   *)
(* each to settle, now or once je_malloc has answered.                     *)
SlackBounded ==
  Unsettled(ExecPool) + Pending(ExecPool)
  + Unsettled(StoragePool) + Pending(StoragePool)
    <= MaxSlack * Cardinality(Threads)

LEMMA PendingType ==
  ASSUME NEW p
  PROVE  /\ Pending(p) \in Nat
         /\ Pending(p) <= MaxSlack * Cardinality(Callers(p, {"malloc"}))
<1> DEFINE S == Callers(p, {"malloc"})
<1>1. \A t \in S : SlackMax[t] \in Nat /\ SlackMax[t] \in 0 .. MaxSlack
  BY MemMgrAssumption DEF Callers, SlackMax
<1>2. IsFiniteSet(S) /\ Cardinality(S) \in Nat
  BY CallersFinite
<1>3. Pending(p) = SumOver(S, SlackMax)
  BY DEF Pending, SlackMax
<1> HIDE DEF S
<1>4. SumOver(S, SlackMax) <= MaxSlack * Cardinality(S)
  BY <1>1, <1>2, SumBound, MemMgrAssumption
<1>5. SumOver(S, SlackMax) \in Nat
  BY <1>1, <1>2, SumType
<1>6. QED
  BY <1>3, <1>4, <1>5 DEF S

LEMMA UnsettledBound ==
  ASSUME SafeInv, NEW p
  PROVE  /\ Unsettled(p) \in Nat
         /\ Unsettled(p) <= MaxSlack * Cardinality(Callers(p, {"settle"}))
<1> DEFINE S == Callers(p, {"settle"})
<1>1. \A t \in S : Excess[t] \in 0 .. MaxSlack
  BY ExcessType
<1>2. IsFiniteSet(S) /\ Cardinality(S) \in Nat
  BY CallersFinite
<1>3. Unsettled(p) = SumOver(S, Excess) /\ Unsettled(p) \in Nat
  BY ExcessType DEF Unsettled
<1> HIDE DEF S
<1>4. SumOver(S, Excess) <= MaxSlack * Cardinality(S)
  BY <1>1, <1>2, SumBound, MemMgrAssumption
<1>5. QED
  BY <1>3, <1>4 DEF S

LEMMA SlackBound == SafeInv => SlackBounded
<1> SUFFICES ASSUME SafeInv
             PROVE  SlackBounded
  OBVIOUS
<1> DEFINE A(p) == Callers(p, {"settle"})
           B(p) == Callers(p, {"malloc"})
           C(p) == A(p) \cup B(p)
<1>1. \A p : /\ A(p) \in SUBSET Threads /\ B(p) \in SUBSET Threads
             /\ A(p) \cap B(p) = {}
  BY DEF Callers
<1>2. /\ C(ExecPool) \in SUBSET Threads /\ C(StoragePool) \in SUBSET Threads
      /\ C(ExecPool) \cap C(StoragePool) = {}
  BY DEF Callers, ExecPool, StoragePool
<1>3. ASSUME NEW p
      PROVE  /\ Cardinality(A(p)) \in Nat /\ Cardinality(B(p)) \in Nat
             /\ Cardinality(C(p)) = Cardinality(A(p)) + Cardinality(B(p))
  <2>1. /\ A(p) \in SUBSET Threads /\ B(p) \in SUBSET Threads
        /\ A(p) \cap B(p) = {}
    BY <1>1
  <2>2. IsFiniteSet(Threads)
    BY MemMgrAssumption
  <2> HIDE DEF A, B
  <2>3. QED
    BY <2>1, <2>2, DisjointCount, Zenon
<1>4. /\ Cardinality(C(ExecPool)) \in Nat
      /\ Cardinality(C(StoragePool)) \in Nat
      /\ Cardinality(C(ExecPool)) + Cardinality(C(StoragePool))
           <= Cardinality(Threads)
  <2> HIDE DEF C
  <2>1. QED
    BY <1>2, DisjointCount, MemMgrAssumption
<1>5. ASSUME NEW p
      PROVE  /\ Unsettled(p) + Pending(p) \in Nat
             /\ Unsettled(p) + Pending(p) <= MaxSlack * Cardinality(C(p))
  <2>1. /\ Unsettled(p) \in Nat
        /\ Unsettled(p) <= MaxSlack * Cardinality(A(p))
    BY UnsettledBound
  <2>2. /\ Pending(p) \in Nat
        /\ Pending(p) <= MaxSlack * Cardinality(B(p))
    BY PendingType
  <2>3. MaxSlack \in Nat
    BY MemMgrAssumption
  <2> HIDE DEF A, B, C
  <2>4. QED
    BY <1>3, <2>1, <2>2, <2>3
<1>6. /\ Unsettled(ExecPool) + Pending(ExecPool)
           <= MaxSlack * Cardinality(C(ExecPool))
      /\ Unsettled(StoragePool) + Pending(StoragePool)
           <= MaxSlack * Cardinality(C(StoragePool))
      /\ Unsettled(ExecPool) \in Nat /\ Pending(ExecPool) \in Nat
      /\ Unsettled(StoragePool) \in Nat /\ Pending(StoragePool) \in Nat
  BY <1>5, UnsettledBound, PendingType, Zenon
<1> HIDE DEF A, B, C
<1>7. MaxSlack * (Cardinality(C(ExecPool)) + Cardinality(C(StoragePool)))
        <= MaxSlack * Cardinality(Threads)
  BY <1>4, ThreadCount, MemMgrAssumption
<1>8. QED
  BY <1>4, <1>6, <1>7, ThreadCount, MemMgrAssumption DEF SlackBounded

LEMMA SlackBoundNext == SafeInv' => SlackBounded'
BY SlackBound, PTL

-----------------------------------------------------------------------------
(* Every step keeps the counters, the heap and the exposure in agreement.  *)

LEMMA Shares ==
  ASSUME NEW t \in Threads, NEW p
  PROVE  /\ ClaimOf(t, p) = IF pool[t] = p /\ pc[t] \in ClaimPoints
                            THEN num_bytes[t] ELSE 0
         /\ ExcessOf(t, p) = IF pool[t] = p /\ pc[t] = "settle"
                             THEN heap[ptr[t]] - num_bytes[t] ELSE 0
         /\ PendingOf(t, p) = IF pool[t] = p /\ pc[t] = "malloc"
                              THEN MaxSlack ELSE 0
         /\ ClaimOf(t, p)' = IF pool'[t] = p /\ pc'[t] \in ClaimPoints
                             THEN num_bytes'[t] ELSE 0
         /\ ExcessOf(t, p)' = IF pool'[t] = p /\ pc'[t] = "settle"
                              THEN heap'[ptr'[t]] - num_bytes'[t] ELSE 0
         /\ PendingOf(t, p)' = IF pool'[t] = p /\ pc'[t] = "malloc"
                               THEN MaxSlack ELSE 0
BY DEF ClaimOf, ExcessOf, PendingOf, Share, Callers, Excess, SlackMax

LEMMA HeapUnchanged ==
  ASSUME UNCHANGED heap_vars
  PROVE  \A p : PoolLive(p)' = PoolLive(p)
BY DEF heap_vars, PoolLive, SumOver, BytesOf

(* The invariant follows from what a step does to the counts of each pool. *)
LEMMA SumsFollow ==
  ASSUME IInv, UNCHANGED <<total_memory, total_pool_mem>>,
         \A p \in Pool :
           /\ used_memory'[p] \in Nat /\ Unsettled(p)' \in Nat
           /\ Pending(p)' \in Nat /\ PoolLive(p)' \in Nat
           /\ Claimed(p)' \in Nat
           /\ used_memory'[p] + Unsettled(p)' = PoolLive(p)' + Claimed(p)'
           /\ used_memory'[p] + Unsettled(p)' + Pending(p)'
                <= used_memory[p] + Unsettled(p) + Pending(p)
           /\ PoolLive(p)' <= PoolLive(p)
  PROVE  SumInv'
<1>1. /\ ExecPool \in Pool /\ StoragePool \in Pool
      /\ total_memory \in Nat /\ total_pool_mem[StoragePool] \in Nat
  BY DEF Pool, IInv, TypeOK, PolicyTypeOK, SizeT
<1>2. \A p \in Pool : /\ used_memory[p] \in Nat /\ Unsettled(p) \in Nat
                      /\ Pending(p) \in Nat /\ PoolLive(p) \in Nat
  BY CountersFit, PendingType DEF IInv, SafeInv, SumInv
<1>3. HeapInv'
  BY <1>1, <1>2, MemMgrAssumption DEF IInv, SumInv, HeapInv, LiveBytes
<1>4. QuotaInv' /\ Accounting'
  BY DEF IInv, SumInv, QuotaInv, Accounting
<1>5. ExposureInv'
  <2> DEFINE most == MaxSlack * Cardinality(Threads)
  <2>1. most \in Nat
    BY MemMgrAssumption, ThreadCount
  <2>2. /\ Exposure(ExecPool) + Exposure(StoragePool) <= total_memory + most
        /\ Exposure(StoragePool) <= total_pool_mem[StoragePool] + most
    BY DEF IInv, SumInv, ExposureInv
  <2>3. \A p \in Pool : /\ Exposure(p) \in Nat /\ Exposure(p)' \in Nat
                        /\ Exposure(p)' <= Exposure(p)
    BY <1>2 DEF Exposure
  <2> HIDE DEF most
  <2>4. /\ Exposure(ExecPool)' + Exposure(StoragePool)'
             <= total_memory + most
        /\ Exposure(StoragePool)' <= total_pool_mem[StoragePool] + most
    BY <1>1, <2>1, <2>2, <2>3
  <2>5. QED
    BY <2>4 DEF ExposureInv, most
<1>6. QED
  BY <1>3, <1>4, <1>5 DEF SumInv

(* Entering allocMem, being refused, and je_malloc failing move no byte.   *)
LEMMA SumQuiet ==
  ASSUME IInv, SafeInv', NEW t \in Threads, OnlyMoves(t),
         UNCHANGED <<policy_vars, heap_vars>>,
         \A p \in Pool : /\ ClaimOf(t, p)' = ClaimOf(t, p)
                         /\ ExcessOf(t, p)' = ExcessOf(t, p)
                         /\ PendingOf(t, p)' <= PendingOf(t, p)
  PROVE  SumInv'
<1>1. ASSUME NEW p \in Pool
      PROVE  /\ Claimed(p)' = Claimed(p) /\ Unsettled(p)' = Unsettled(p)
             /\ Pending(p)' \in Nat /\ Pending(p)' <= Pending(p)
             /\ PoolLive(p)' = PoolLive(p)
  <2>1. Claimed(p)' = Claimed(p)
    BY ClaimedChange DEF IInv, SafeInv
  <2>2. Unsettled(p)' = Unsettled(p)
    BY UnsettledChange DEF IInv, SafeInv
  <2>3. Pending(p)' \in Nat /\ Pending(p)' <= Pending(p)
    BY PendingChange DEF IInv, SafeInv
  <2>4. QED
    BY <2>1, <2>2, <2>3, HeapUnchanged
<1>2. \A p \in Pool :
        /\ used_memory[p] \in Nat /\ Unsettled(p) \in Nat
        /\ Pending(p) \in Nat /\ PoolLive(p) \in Nat /\ Claimed(p) \in Nat
        /\ used_memory[p] + Unsettled(p) = PoolLive(p) + Claimed(p)
  BY CountersFit, PendingType DEF IInv, SafeInv, SumInv, Accounting
<1>3. QED
  BY <1>1, <1>2, SumsFollow DEF policy_vars

LEMMA SumCallAlloc ==
  ASSUME IInv, SafeInv', NEW t \in Threads, NEW q, NEW n, CallAlloc(t, q, n)
  PROVE  SumInv'
<1> USE DEF CallAlloc, Goto, heap_vars
<1>1. OnlyMoves(t)
  BY DEF OnlyMoves, IInv, TypeOK
<1>2. \A p \in Pool : /\ ClaimOf(t, p)' = ClaimOf(t, p)
                      /\ ExcessOf(t, p)' = ExcessOf(t, p)
                      /\ PendingOf(t, p)' <= PendingOf(t, p)
  BY Shares DEF IInv, TypeOK, ClaimPoints
<1>3. QED
  BY <1>1, <1>2, SumQuiet

LEMMA SumRefuse ==
  ASSUME IInv, SafeInv', NEW t \in Threads, Refuse(t)
  PROVE  SumInv'
<1> USE DEF Refuse, Return, Goto, heap_vars
<1>1. OnlyMoves(t)
  BY DEF OnlyMoves, IInv, TypeOK
<1>2. \A p \in Pool : /\ ClaimOf(t, p)' = ClaimOf(t, p)
                      /\ ExcessOf(t, p)' = ExcessOf(t, p)
                      /\ PendingOf(t, p)' <= PendingOf(t, p)
  BY Shares DEF IInv, TypeOK, ClaimPoints
<1>3. QED
  BY <1>1, <1>2, SumQuiet

LEMMA SumJeMallocFails ==
  ASSUME IInv, SafeInv', NEW t \in Threads, JeMallocFails(t)
  PROVE  SumInv'
<1> USE DEF JeMallocFails, Goto, heap_vars
<1>1. OnlyMoves(t)
  BY DEF OnlyMoves, IInv, TypeOK
<1>2. \A p \in Pool : /\ ClaimOf(t, p)' = ClaimOf(t, p)
                      /\ ExcessOf(t, p)' = ExcessOf(t, p)
                      /\ PendingOf(t, p)' <= PendingOf(t, p)
  BY Shares, MemMgrAssumption DEF IInv, TypeOK, ClaimPoints
<1>3. QED
  BY <1>1, <1>2, SumQuiet

(* Entering freeMem moves no byte either: the block stays charged.         *)
LEMMA SumCallFree ==
  ASSUME IInv, SafeInv', NEW t \in Threads, NEW b, CallFree(t, b)
  PROVE  SumInv'
<1> USE DEF CallFree, Goto, heap_vars
<1>1. OnlyMoves(t)
  BY DEF OnlyMoves, IInv, TypeOK
<1>2. \A p \in Pool : /\ ClaimOf(t, p)' = ClaimOf(t, p)
                      /\ ExcessOf(t, p)' = ExcessOf(t, p)
                      /\ PendingOf(t, p)' <= PendingOf(t, p)
  BY Shares DEF IInv, TypeOK, ClaimPoints
<1>3. QED
  BY <1>1, <1>2, SumQuiet

LEMMA AdjustEffect ==
  ASSUME TypeOK, NEW t \in Threads, pool[t] \in Pool, NEW d, AdjustAlloc(t, d)
  PROVE  /\ UNCHANGED <<total_memory, total_pool_mem>>
         /\ \A p \in Pool :
              used_memory'[p] = IF p = pool[t]
                                THEN Word(AsSigned(used_memory[p]) + d)
                                ELSE used_memory[p]
BY DEF TypeOK, PolicyTypeOK, AdjustAlloc, PolicyMgrAdjustAlloc

(* A refund and a rollback take back exactly what was claimed.             *)
LEMMA SumGiveBack ==
  ASSUME IInv, SafeInv', NEW t \in Threads, OnlyMoves(t),
         pc[t] \in {"rollback", "refund"}, pc'[t] = "idle",
         AdjustAlloc(t, AsSigned(Word(-num_bytes[t]))), UNCHANGED heap_vars
  PROVE  SumInv'
<1>1. pool[t] \in Pool /\ num_bytes[t] \in Nat
  BY DEF IInv, TypeOK, SizeT
<1>2. ASSUME NEW p \in Pool
      PROVE  /\ used_memory[p] \in Nat /\ Unsettled(p) \in Nat
             /\ Claimed(p) \in Nat /\ PoolLive(p) \in Nat
             /\ Claimed(p) <= used_memory[p]
             /\ 2 * (used_memory[p] + Unsettled(p)) < SizeMod
             /\ used_memory[p] + Unsettled(p) = PoolLive(p) + Claimed(p)
  BY CountersFit DEF IInv, SafeInv, SumInv, Accounting
<1>3. ASSUME NEW p \in Pool
      PROVE  /\ ClaimOf(t, p) = IF p = pool[t] THEN num_bytes[t] ELSE 0
             /\ ClaimOf(t, p)' = 0
             /\ ExcessOf(t, p)' = ExcessOf(t, p)
             /\ PendingOf(t, p)' = PendingOf(t, p)
  BY Shares DEF ClaimPoints
<1>4. ASSUME NEW p \in Pool
      PROVE  /\ ClaimOf(t, p) \in Nat /\ ClaimOf(t, p) <= Claimed(p)
             /\ Claimed(p)' = Claimed(p) - ClaimOf(t, p)
             /\ Unsettled(p)' = Unsettled(p)
             /\ Pending(p)' \in Nat /\ Pending(p)' = Pending(p)
             /\ PoolLive(p)' = PoolLive(p)
  <2>1. /\ ClaimOf(t, p) \in Nat /\ ClaimOf(t, p) <= Claimed(p)
        /\ Claimed(p)' = Claimed(p) - ClaimOf(t, p)
    BY <1>2, <1>3, ClaimedChange DEF IInv, SafeInv
  <2>2. Unsettled(p)' = Unsettled(p)
    BY <1>3, UnsettledChange DEF IInv, SafeInv
  <2>3. Pending(p)' \in Nat /\ Pending(p)' = Pending(p)
    BY <1>3, PendingChange DEF IInv, SafeInv
  <2>4. QED
    BY <2>1, <2>2, <2>3, HeapUnchanged
<1>5. ASSUME NEW p \in Pool
      PROVE  used_memory'[p] = used_memory[p] - ClaimOf(t, p)
  <2>1. CASE p = pool[t]
    <3>1. ClaimOf(t, p) = num_bytes[t] /\ num_bytes[t] <= used_memory[p]
      BY <1>2, <1>3, <1>4, <2>1
    <3>2. Word(AsSigned(used_memory[p]) + AsSigned(Word(-num_bytes[t])))
            = used_memory[p] - num_bytes[t]
      BY <1>1, <1>2, <3>1, AdjustDown, SizeModAssumption
    <3>3. QED
      BY <1>1, <2>1, <3>1, <3>2, AdjustEffect DEF IInv
  <2>2. CASE p # pool[t]
    BY <1>1, <1>2, <1>3, <2>2, AdjustEffect DEF IInv
  <2>3. QED
    BY <2>1, <2>2
<1>6. UNCHANGED <<total_memory, total_pool_mem>>
  BY DEF AdjustAlloc
<1>7. QED
  BY <1>2, <1>4, <1>5, <1>6, SumsFollow

LEMMA SumRollback ==
  ASSUME IInv, SafeInv', NEW t \in Threads, Rollback(t)
  PROVE  SumInv'
<1> USE DEF Rollback, Return, Goto
<1>1. OnlyMoves(t)
  BY DEF OnlyMoves, IInv, TypeOK, heap_vars
<1>2. pc'[t] = "idle"
  BY DEF IInv, TypeOK
<1>3. QED
  BY <1>1, <1>2, SumGiveBack

LEMMA SumRefund ==
  ASSUME IInv, SafeInv', NEW t \in Threads, Refund(t)
  PROVE  SumInv'
<1> USE DEF Refund, Return, Goto
<1>1. OnlyMoves(t)
  BY DEF OnlyMoves, IInv, TypeOK, heap_vars
<1>2. pc'[t] = "idle"
  BY DEF IInv, TypeOK
<1>3. QED
  BY <1>1, <1>2, SumGiveBack

(* Settling charges exactly the excess.                                    *)
LEMMA SumSettle ==
  ASSUME IInv, SafeInv', NEW t \in Threads, Settle(t)
  PROVE  SumInv'
<1> USE DEF Settle, Return, Goto, heap_vars
<1> DEFINE e == heap[ptr[t]] - num_bytes[t]
<1>1. pool[t] \in Pool /\ pc'[t] = "idle" /\ OnlyMoves(t)
  BY DEF OnlyMoves, IInv, TypeOK
<1>2. heap[ptr[t]] \in Nat /\ num_bytes[t] \in Nat /\ e \in Nat
  <2>1. num_bytes[t] \in Nat
    BY DEF IInv, TypeOK, SizeT
  <2>2. heap[ptr[t]] \in num_bytes[t] .. num_bytes[t] + MaxSlack
    BY DEF IInv, FrameInv, CallInv, UsableSizes
  <2>3. QED
    BY <2>1, <2>2, MemMgrAssumption
<1>3. ASSUME NEW p \in Pool
      PROVE  /\ used_memory[p] \in Nat /\ Unsettled(p) \in Nat
             /\ Claimed(p) \in Nat /\ PoolLive(p) \in Nat
             /\ 2 * (used_memory[p] + Unsettled(p)) < SizeMod
             /\ used_memory[p] + Unsettled(p) = PoolLive(p) + Claimed(p)
  BY CountersFit DEF IInv, SafeInv, SumInv, Accounting
<1>4. ASSUME NEW p \in Pool
      PROVE  /\ ExcessOf(t, p) = IF p = pool[t] THEN e ELSE 0
             /\ ExcessOf(t, p)' = 0
             /\ ClaimOf(t, p)' = ClaimOf(t, p)
             /\ PendingOf(t, p)' = PendingOf(t, p)
  BY <1>1, Shares DEF ClaimPoints
<1>5. ASSUME NEW p \in Pool
      PROVE  /\ ExcessOf(t, p) \in Nat /\ ExcessOf(t, p) <= Unsettled(p)
             /\ Unsettled(p)' = Unsettled(p) - ExcessOf(t, p)
             /\ Claimed(p)' = Claimed(p)
             /\ Pending(p)' \in Nat /\ Pending(p)' = Pending(p)
             /\ PoolLive(p)' = PoolLive(p)
  <2>1. /\ ExcessOf(t, p) \in Nat /\ ExcessOf(t, p) <= Unsettled(p)
        /\ Unsettled(p)' = Unsettled(p) - ExcessOf(t, p)
    BY <1>1, <1>3, <1>4, UnsettledChange DEF IInv, SafeInv
  <2>2. Claimed(p)' = Claimed(p)
    BY <1>1, <1>4, ClaimedChange DEF IInv, SafeInv
  <2>3. Pending(p)' \in Nat /\ Pending(p)' = Pending(p)
    BY <1>1, <1>4, PendingChange DEF IInv, SafeInv
  <2>4. QED
    BY <2>1, <2>2, <2>3, HeapUnchanged
<1> HIDE DEF e
<1>6. /\ UNCHANGED <<total_memory, total_pool_mem>>
      /\ \A p \in Pool : used_memory'[p] = used_memory[p] + ExcessOf(t, p)
  <2>1. CASE heap[ptr[t]] > num_bytes[t]
    <3>1. AdjustAlloc(t, AsSigned(Word(e)))
      BY <2>1 DEF e
    <3>2. ASSUME NEW p \in Pool
          PROVE  used_memory'[p] = used_memory[p] + ExcessOf(t, p)
      <4>1. CASE p = pool[t]
        <5>1. ExcessOf(t, p) = e /\ e <= Unsettled(p)
          BY <1>4, <1>5, <4>1
        <5>2. AsSigned(Word(e)) = e
          BY <1>2, <1>3, <5>1, WordExact, SizeModAssumption
          DEF AsSigned, SizeT
        <5>3. Word(AsSigned(used_memory[p]) + AsSigned(Word(e)))
                = used_memory[p] + e
          <6>1. 2 * (used_memory[p] + e) < SizeMod
            BY <1>2, <1>3, <5>1, SizeModAssumption
          <6>2. QED
            BY <1>2, <1>3, <5>2, <6>1, AdjustUp, WordExact, SizeModAssumption
            DEF AsSigned, SizeT
        <5>4. QED
          BY <1>1, <3>1, <4>1, <5>1, <5>3, AdjustEffect DEF IInv
      <4>2. CASE p # pool[t]
        BY <1>1, <1>3, <1>4, <3>1, <4>2, AdjustEffect DEF IInv
      <4>3. QED
        BY <4>1, <4>2
    <3>3. QED
      BY <3>1, <3>2 DEF AdjustAlloc
  <2>2. CASE ~ (heap[ptr[t]] > num_bytes[t])
    <3>1. e = 0
      BY <1>2, <2>2 DEF e
    <3>2. QED
      BY <1>3, <1>4, <2>2, <3>1 DEF policy_vars
  <2>3. QED
    BY <2>1, <2>2
<1>7. QED
  BY <1>3, <1>5, <1>6, SumsFollow

(* je_free turns the bytes of the block into a claim on its pool.          *)
LEMMA SumJeFree ==
  ASSUME IInv, SafeInv', NEW t \in Threads, JeFree(t)
  PROVE  SumInv'
<1> USE DEF JeFree, Goto
<1>0. PICK b \in Blocks : b = ptr[t]
  BY MemMgrAssumption DEF IInv, TypeOK
<1>1. /\ pool[t] \in Pool /\ num_bytes[t] \in Nat /\ pc'[t] = "refund"
      /\ heap[b] = num_bytes[t] /\ tag[b] = pool[t]
  BY <1>0 DEF IInv, TypeOK, SizeT, FrameInv, CallInv, PoolInv
<1>2. OnlyMoves(t)
  BY <1>0, <1>1, MemMgrAssumption
  DEF OnlyMoves, IInv, TypeOK, FrameInv, OwnershipInv
<1>3. ASSUME NEW p \in Pool
      PROVE  /\ used_memory[p] \in Nat /\ Unsettled(p) \in Nat
             /\ Claimed(p) \in Nat /\ PoolLive(p) \in Nat
             /\ used_memory[p] + Unsettled(p) = PoolLive(p) + Claimed(p)
  BY CountersFit DEF IInv, SafeInv, SumInv, Accounting
<1>4. ASSUME NEW p \in Pool
      PROVE  /\ ClaimOf(t, p) = 0
             /\ ClaimOf(t, p)' = IF p = pool[t] THEN num_bytes[t] ELSE 0
             /\ ExcessOf(t, p)' = ExcessOf(t, p)
             /\ PendingOf(t, p)' = PendingOf(t, p)
             /\ LiveOf(b, p) = IF p = pool[t] THEN num_bytes[t] ELSE 0
             /\ LiveOf(b, p)' = 0
  <2>1. /\ ClaimOf(t, p) = 0
        /\ ClaimOf(t, p)' = IF p = pool[t] THEN num_bytes[t] ELSE 0
        /\ ExcessOf(t, p)' = ExcessOf(t, p)
        /\ PendingOf(t, p)' = PendingOf(t, p)
    BY <1>1, Shares DEF ClaimPoints
  <2>2. LiveOf(b, p) = IF p = pool[t] THEN num_bytes[t] ELSE 0
    BY <1>1 DEF LiveOf, Share
  <2>3. tag'[b] # p
    BY <1>0, MemMgrAssumption DEF IInv, TypeOK
  <2>4. LiveOf(b, p)' = 0
    BY <2>3 DEF LiveOf, Share
  <2>5. QED
    BY <2>1, <2>2, <2>4
<1>5. ASSUME NEW p \in Pool
      PROVE  /\ LiveOf(b, p) \in Nat /\ LiveOf(b, p) <= PoolLive(p)
             /\ PoolLive(p)' = PoolLive(p) - LiveOf(b, p)
             /\ Claimed(p)' = Claimed(p) + LiveOf(b, p)
             /\ Unsettled(p)' = Unsettled(p)
             /\ Pending(p)' \in Nat /\ Pending(p)' = Pending(p)
  <2>1. \A c \in Blocks \ {b} : heap'[c] = heap[c] /\ tag'[c] = tag[c]
    BY <1>0 DEF IInv, TypeOK
  <2>2. /\ LiveOf(b, p) \in Nat /\ LiveOf(b, p) <= PoolLive(p)
        /\ PoolLive(p)' = PoolLive(p) - LiveOf(b, p) + LiveOf(b, p)'
    BY <2>1, PoolLiveChange DEF IInv, SafeInv
  <2>3. Claimed(p)' = Claimed(p) + LiveOf(b, p)
    BY <1>2, <1>3, <1>4, ClaimedChange DEF IInv, SafeInv
  <2>4. Unsettled(p)' = Unsettled(p)
    BY <1>2, <1>4, UnsettledChange DEF IInv, SafeInv
  <2>5. Pending(p)' \in Nat /\ Pending(p)' = Pending(p)
    BY <1>2, <1>4, PendingChange DEF IInv, SafeInv
  <2>6. QED
    BY <1>3, <1>4, <2>2, <2>3, <2>4, <2>5
<1>6. QED
  BY <1>3, <1>5, SumsFollow DEF policy_vars

(* A block goes from claimed to live, and its excess stays to be settled.  *)
LEMMA SumJeMalloc ==
  ASSUME IInv, SafeInv', NEW t \in Threads, NEW b \in Blocks,
         NEW s \in UsableSizes(num_bytes[t]), JeMalloc(t, b, s)
  PROVE  SumInv'
<1> USE DEF JeMalloc, Goto
<1> DEFINE n == num_bytes[t]
           Mine(p, k) == IF p = pool[t] THEN k ELSE 0
<1>1. /\ pool[t] \in Pool /\ n \in Nat /\ pc'[t] = "settle"
      /\ s \in Nat /\ n <= s /\ s - n <= MaxSlack /\ MaxSlack \in Nat
  BY MemMgrAssumption DEF IInv, TypeOK, SizeT, UsableSizes
<1>2. \A u \in Threads : pc[u] = "settle" => ptr[u] # b
  BY MemMgrAssumption DEF IInv, TypeOK, FrameInv, CallInv, BlockInv
<1>3. OnlyMoves(t)
  BY <1>2 DEF OnlyMoves, IInv, TypeOK
<1>4. ASSUME NEW p \in Pool
      PROVE  /\ used_memory[p] \in Nat /\ Unsettled(p) \in Nat
             /\ Claimed(p) \in Nat /\ PoolLive(p) \in Nat
             /\ Pending(p) \in Nat
             /\ used_memory[p] + Unsettled(p) = PoolLive(p) + Claimed(p)
  BY CountersFit, PendingType DEF IInv, SafeInv, SumInv, Accounting
<1>5. ASSUME NEW p \in Pool
      PROVE  /\ Claimed(p)' = Claimed(p) - Mine(p, n)
             /\ Mine(p, n) <= Claimed(p)
             /\ Unsettled(p)' = Unsettled(p) + Mine(p, s - n)
             /\ Pending(p)' = Pending(p) - Mine(p, MaxSlack)
             /\ Mine(p, MaxSlack) <= Pending(p)
             /\ PoolLive(p)' = PoolLive(p) + Mine(p, s)
  <2>1. /\ ClaimOf(t, p) = Mine(p, n) /\ ClaimOf(t, p)' = 0
        /\ ExcessOf(t, p) = 0 /\ ExcessOf(t, p)' = Mine(p, s - n)
        /\ PendingOf(t, p) = Mine(p, MaxSlack) /\ PendingOf(t, p)' = 0
    <3>1. heap'[ptr'[t]] = s /\ num_bytes'[t] = n
      BY DEF IInv, TypeOK
    <3>2. QED
      BY <1>1, <3>1, Shares DEF ClaimPoints
  <2>2. LiveOf(b, p) = 0 /\ LiveOf(b, p)' = Mine(p, s)
    BY DEF IInv, TypeOK, LiveOf, Share
  <2>3. \A c \in Blocks \ {b} : heap'[c] = heap[c] /\ tag'[c] = tag[c]
    BY DEF IInv, TypeOK
  <2>4. PoolLive(p)' = PoolLive(p) - LiveOf(b, p) + LiveOf(b, p)'
    BY <2>3, PoolLiveChange DEF IInv, SafeInv
  <2> HIDE DEF n, Mine
  <2>5. Claimed(p)' = Claimed(p) - Mine(p, n) /\ Mine(p, n) <= Claimed(p)
    BY <1>3, <1>4, <2>1, ClaimedChange DEF IInv, SafeInv
  <2>6. Unsettled(p)' = Unsettled(p) + Mine(p, s - n)
    BY <1>3, <1>4, <2>1, UnsettledChange DEF IInv, SafeInv
  <2>7. /\ Pending(p)' = Pending(p) - Mine(p, MaxSlack)
        /\ Mine(p, MaxSlack) <= Pending(p)
    BY <1>3, <1>4, <2>1, PendingChange DEF IInv, SafeInv
  <2>8. PoolLive(p)' = PoolLive(p) + Mine(p, s)
    <3>1. LiveOf(b, p)' \in Nat
      BY <2>3, PoolLiveChange DEF IInv, SafeInv
    <3>2. QED
      BY <1>4, <2>2, <2>4, <3>1
  <2>9. QED
    BY <2>5, <2>6, <2>7, <2>8
<1>6. UNCHANGED policy_vars
  OBVIOUS
<1>7. Accounting'
  BY <1>1, <1>4, <1>5 DEF policy_vars, Accounting
<1>8. QuotaInv'
  BY DEF policy_vars, IInv, SumInv, QuotaInv
<1>9. HeapInv'
  <2>1. LiveBytes' = LiveBytes + s
    <3>1. /\ PoolLive(ExecPool)' = PoolLive(ExecPool) + Mine(ExecPool, s)
          /\ PoolLive(StoragePool)'
               = PoolLive(StoragePool) + Mine(StoragePool, s)
      BY <1>5, Zenon DEF Pool
    <3>2. PoolLive(ExecPool) \in Nat /\ PoolLive(StoragePool) \in Nat
      BY <1>4, Zenon DEF Pool
    <3>3. QED
      BY <1>1, <3>1, <3>2 DEF LiveBytes, Pool, ExecPool, StoragePool
  <2>2. QED
    BY <2>1 DEF HeapInv
<1>10. ExposureInv'
  <2> DEFINE most == MaxSlack * Cardinality(Threads)
  <2>1. most \in Nat
    BY MemMgrAssumption, ThreadCount
  <2>2. /\ Exposure(ExecPool) + Exposure(StoragePool) <= total_memory + most
        /\ Exposure(StoragePool) <= total_pool_mem[StoragePool] + most
    BY DEF IInv, SumInv, ExposureInv
  <2>3. ASSUME NEW p \in Pool
        PROVE  /\ Exposure(p) \in Nat /\ Exposure(p)' \in Nat
               /\ Exposure(p)' <= Exposure(p)
    BY <1>1, <1>4, <1>5 DEF Exposure, policy_vars
  <2>4. /\ ExecPool \in Pool /\ StoragePool \in Pool
        /\ total_memory \in Nat /\ total_pool_mem[StoragePool] \in Nat
    BY DEF Pool, IInv, TypeOK, PolicyTypeOK, SizeT
  <2> HIDE DEF most
  <2>5. /\ Exposure(ExecPool)' + Exposure(StoragePool)'
             <= total_memory + most
        /\ Exposure(StoragePool)' <= total_pool_mem[StoragePool] + most
    BY <2>1, <2>2, <2>3, <2>4
  <2>6. QED
    BY <2>5 DEF ExposureInv, policy_vars, most
<1>11. QED
  BY <1>7, <1>8, <1>9, <1>10 DEF SumInv

(* Below the top bit, the tests of policyMgrAlloc are those of integers.   *)
LEMMA AdmitsExact ==
  ASSUME IInv, NEW p \in Pool, NEW n \in SizeT
  PROVE  Admits(p, n, used_memory) <=>
           /\ n \in MinReq[p] .. MaxReq[p]
           /\ p = StoragePool =>
                used_memory[StoragePool] + n <= total_pool_mem[StoragePool]
           /\ used_memory[ExecPool] + used_memory[StoragePool] + n
                <= total_memory
<1> DEFINE e == used_memory[ExecPool]
           s == used_memory[StoragePool]
           quota == total_pool_mem[StoragePool]
<1>1. /\ ExecPool \in Pool /\ StoragePool \in Pool /\ n \in Nat
      /\ total_memory \in Nat /\ total_memory < SizeMod
      /\ quota \in Nat /\ quota <= total_memory
  BY SizeModAssumption
  DEF Pool, IInv, TypeOK, PolicyTypeOK, SizeT, SumInv, QuotaInv
<1>2. /\ e \in Nat /\ s \in Nat /\ e + s < SizeMod
  <2>1. /\ e \in Nat /\ Unsettled(ExecPool) \in Nat
        /\ 2 * (e + Unsettled(ExecPool)) < SizeMod
    BY <1>1, CountersFit DEF IInv, SafeInv, SumInv
  <2>2. /\ s \in Nat /\ Unsettled(StoragePool) \in Nat
        /\ 2 * (s + Unsettled(StoragePool)) < SizeMod
    BY <1>1, CountersFit DEF IInv, SafeInv, SumInv
  <2> HIDE DEF e, s
  <2>3. QED
    BY <2>1, <2>2, SizeModAssumption
<1> HIDE DEF e, s, quota
<1>3. Word(e + s) = e + s
  BY <1>2, WordExact, SizeModAssumption DEF SizeT
<1>4. n <= total_memory => Word(total_memory - n) = total_memory - n
  BY <1>1, WordExact, SizeModAssumption DEF SizeT
<1>5. n <= quota => Word(quota - n) = quota - n
  BY <1>1, WordExact, SizeModAssumption DEF SizeT
<1>6. CASE p = ExecPool
  <2>1. Admits(p, n, used_memory) <=>
          /\ n \in MinReq[p] .. MaxReq[p]
          /\ n <= total_memory
          /\ Word(total_memory - n) >= e
          /\ Word(total_memory - n) >= Word(e + s)
    BY <1>6 DEF Admits, e, s
  <2>2. (/\ n <= total_memory
         /\ Word(total_memory - n) >= e
         /\ Word(total_memory - n) >= Word(e + s))
        <=> e + s + n <= total_memory
    BY <1>1, <1>2, <1>3, <1>4
  <2>3. p # StoragePool
    BY <1>6 DEF ExecPool, StoragePool
  <2>4. QED
    BY <2>1, <2>2, <2>3 DEF e, s
<1>7. CASE p = StoragePool
  <2>1. Admits(p, n, used_memory) <=>
          /\ n \in MinReq[p] .. MaxReq[p]
          /\ n <= quota
          /\ Word(quota - n) >= s
          /\ Word(total_memory - n) >= Word(e + s)
    BY <1>7 DEF Admits, e, s, quota, ExecPool, StoragePool
  <2>2. (/\ n <= quota
         /\ Word(quota - n) >= s
         /\ Word(total_memory - n) >= Word(e + s))
        <=> s + n <= quota /\ e + s + n <= total_memory
    BY <1>1, <1>2, <1>3, <1>4, <1>5
  <2>3. QED
    BY <1>7, <2>1, <2>2 DEF e, s, quota
<1>8. QED
  BY <1>6, <1>7 DEF Pool

(* A grant stays within the total, so all it exposes is slack.             *)
LEMMA SumReserve ==
  ASSUME IInv, SafeInv', NEW t \in Threads, Reserve(t)
  PROVE  SumInv'
<1> USE DEF Reserve, Goto
<1> DEFINE n == num_bytes[t]
           Mine(p, k) == IF p = pool[t] THEN k ELSE 0
<1>1. pool[t] \in Pool /\ n \in SizeT /\ n \in Nat /\ pc'[t] = "malloc"
  BY DEF IInv, TypeOK, SizeT
<1>2. OnlyMoves(t)
  BY DEF OnlyMoves, IInv, TypeOK, heap_vars
<1>3. ASSUME NEW p \in Pool
      PROVE  /\ used_memory[p] \in Nat /\ Unsettled(p) \in Nat
             /\ Claimed(p) \in Nat /\ PoolLive(p) \in Nat
             /\ used_memory[p] + Unsettled(p) = PoolLive(p) + Claimed(p)
  BY CountersFit DEF IInv, SafeInv, SumInv, Accounting
<1>4. /\ ExecPool \in Pool /\ StoragePool \in Pool
      /\ total_memory \in Nat /\ total_memory < SizeMod
      /\ total_pool_mem[StoragePool] \in Nat
  BY SizeModAssumption DEF Pool, IInv, TypeOK, PolicyTypeOK, SizeT
<1>5. /\ pool[t] = StoragePool =>
           used_memory[StoragePool] + n <= total_pool_mem[StoragePool]
      /\ used_memory[ExecPool] + used_memory[StoragePool] + n
           <= total_memory
  BY <1>1, AdmitsExact
<1>6. ASSUME NEW p \in Pool
      PROVE  used_memory'[p] = used_memory[p] + Mine(p, n)
  <2>1. CASE p = pool[t]
    <3>1. used_memory[p] + n < SizeMod
      <4>1. used_memory[ExecPool] \in Nat /\ used_memory[StoragePool] \in Nat
        BY <1>3, <1>4
      <4>2. QED
        BY <1>1, <1>4, <1>5, <2>1, <4>1, SizeModAssumption DEF Pool
    <3>2. Word(used_memory[p] + n) = used_memory[p] + n
      BY <1>1, <1>3, <3>1, WordExact, SizeModAssumption DEF SizeT
    <3>3. QED
      BY <2>1, <3>2 DEF PolicyMgrAlloc, IInv, TypeOK, PolicyTypeOK
  <2>2. CASE p # pool[t]
    BY <1>3, <2>2 DEF PolicyMgrAlloc, IInv, TypeOK, PolicyTypeOK
  <2>3. QED
    BY <2>1, <2>2
<1>7. ASSUME NEW p \in Pool
      PROVE  /\ Claimed(p)' = Claimed(p) + Mine(p, n)
             /\ Unsettled(p)' = Unsettled(p)
             /\ Pending(p)' \in Nat
             /\ PoolLive(p)' = PoolLive(p)
  <2>1. /\ ClaimOf(t, p) = 0 /\ ClaimOf(t, p)' = Mine(p, n)
        /\ ExcessOf(t, p)' = ExcessOf(t, p)
    BY <1>1, Shares DEF ClaimPoints
  <2> HIDE DEF n, Mine
  <2>2. Claimed(p)' = Claimed(p) + Mine(p, n)
    BY <1>2, <1>3, <2>1, ClaimedChange DEF IInv, SafeInv
  <2>3. Unsettled(p)' = Unsettled(p)
    BY <1>2, <2>1, UnsettledChange DEF IInv, SafeInv
  <2>4. Pending(p)' \in Nat
    BY <1>2, PendingChange DEF IInv, SafeInv
  <2>5. QED
    BY <2>2, <2>3, <2>4, HeapUnchanged
<1>8. Accounting'
  <2>1. SUFFICES ASSUME NEW p \in Pool
                 PROVE  used_memory'[p] + Unsettled(p)'
                          = PoolLive(p)' + Claimed(p)'
    BY DEF Accounting
  <2> DEFINE m == Mine(p, n)
  <2>2. m \in Nat
    BY <1>1
  <2>3. used_memory'[p] = used_memory[p] + m
    BY <1>6
  <2>4. /\ Claimed(p)' = Claimed(p) + m
        /\ Unsettled(p)' = Unsettled(p) /\ PoolLive(p)' = PoolLive(p)
    BY <1>7
  <2>5. /\ used_memory[p] \in Nat /\ Unsettled(p) \in Nat
        /\ Claimed(p) \in Nat /\ PoolLive(p) \in Nat
        /\ used_memory[p] + Unsettled(p) = PoolLive(p) + Claimed(p)
    BY <1>3
  <2> HIDE DEF m
  <2>6. QED
    BY <2>2, <2>3, <2>4, <2>5
<1>9. QuotaInv'
  BY DEF IInv, SumInv, QuotaInv
<1>10. HeapInv'
  <2>1. /\ PoolLive(ExecPool)' = PoolLive(ExecPool)
        /\ PoolLive(StoragePool)' = PoolLive(StoragePool)
    BY <1>4, <1>7, Zenon
  <2>2. QED
    BY <2>1 DEF IInv, SumInv, HeapInv, LiveBytes
<1>11. ExposureInv'
  <2> DEFINE most == MaxSlack * Cardinality(Threads)
  <2>1. most \in Nat
    BY MemMgrAssumption, ThreadCount
  <2>2. \A p \in Pool : /\ used_memory[p] \in Nat /\ used_memory'[p] \in Nat
                        /\ Unsettled(p)' \in Nat /\ Pending(p)' \in Nat
    BY <1>1, <1>3, <1>6, <1>7
  <2>3. Unsettled(ExecPool)' + Pending(ExecPool)'
        + Unsettled(StoragePool)' + Pending(StoragePool)' <= most
    BY SlackBoundNext DEF SlackBounded
  <2>4. used_memory'[ExecPool] + used_memory'[StoragePool] <= total_memory
    <3>1. CASE pool[t] = ExecPool
      BY <1>1, <1>3, <1>4, <1>5, <1>6, <3>1 DEF ExecPool, StoragePool
    <3>2. CASE pool[t] = StoragePool
      BY <1>1, <1>3, <1>4, <1>5, <1>6, <3>2 DEF ExecPool, StoragePool
    <3>3. QED
      BY <1>1, <3>1, <3>2 DEF Pool
  <2>5. CASE pool[t] = StoragePool
    <3>1. used_memory'[StoragePool] <= total_pool_mem[StoragePool]
      BY <1>4, <1>5, <1>6, <2>5
    <3> HIDE DEF most
    <3>2. /\ Exposure(ExecPool)' + Exposure(StoragePool)'
               <= total_memory + most
          /\ Exposure(StoragePool)' <= total_pool_mem[StoragePool] + most
      BY <1>4, <2>1, <2>2, <2>3, <2>4, <3>1 DEF Exposure
    <3>3. QED
      BY <3>2 DEF ExposureInv, most
  <2>6. CASE pool[t] # StoragePool
    <3>1. Exposure(StoragePool)' = Exposure(StoragePool)
      <4>1. PendingOf(t, StoragePool)' = PendingOf(t, StoragePool)
        BY <2>6, Shares
      <4>2. Pending(StoragePool)' = Pending(StoragePool)
        BY <1>2, <4>1, PendingChange DEF IInv, SafeInv
      <4>3. /\ used_memory'[StoragePool] = used_memory[StoragePool]
            /\ Unsettled(StoragePool)' = Unsettled(StoragePool)
        BY <1>3, <1>4, <1>6, <1>7, <2>6
      <4>4. QED
        BY <4>2, <4>3 DEF Exposure
    <3>2. Exposure(StoragePool) <= total_pool_mem[StoragePool] + most
      BY DEF IInv, SumInv, ExposureInv
    <3> HIDE DEF most
    <3>3. Exposure(ExecPool)' + Exposure(StoragePool)'
            <= total_memory + most
      BY <1>4, <2>1, <2>2, <2>3, <2>4 DEF Exposure
    <3>4. QED
      BY <3>1, <3>2, <3>3 DEF ExposureInv, most
  <2>7. QED
    BY <2>5, <2>6
<1>12. QED
  BY <1>8, <1>9, <1>10, <1>11 DEF SumInv

LEMMA SumStutter == IInv /\ UNCHANGED vars => SumInv'
<1> SUFFICES ASSUME IInv, UNCHANGED vars
             PROVE  SumInv'
  OBVIOUS
<1> USE DEF vars, policy_vars, call_vars, heap_vars
<1>1. \A p : /\ Unsettled(p)' = Unsettled(p) /\ Claimed(p)' = Claimed(p)
             /\ Pending(p)' = Pending(p) /\ PoolLive(p)' = PoolLive(p)
  BY DEF Unsettled, Claimed, Pending, PoolLive, Excess, Callers, SumOver,
         BytesOf
<1>2. SumInv
  BY DEF IInv
<1>3. QED
  BY <1>1, <1>2 DEF SumInv, HeapInv, QuotaInv, Accounting, ExposureInv,
                    Exposure, LiveBytes

-----------------------------------------------------------------------------
(* The inductive invariant.                                                *)

LEMMA IInvInit == Init => IInv
<1> SUFFICES ASSUME Init
             PROVE  IInv
  OBVIOUS
<1>1. SafeInv
  BY SafeInit
<1>2. PICK total \in Totals : InitPolicyMgr(total)
  BY DEF Init
<1>3. total \in SizeT /\ total_memory \in Nat
  BY <1>2, MemMgrAssumption, SizeModAssumption DEF InitPolicyMgr, SizeT
<1>4. QuotaInv /\ total_pool_mem[StoragePool] \in Nat
  <2>1. StoragePool \in Pool
    BY DEF Pool
  <2>2. QED
    BY <1>2, <1>3, <2>1, SplitType DEF InitPolicyMgr, QuotaInv, SizeT
<1>5. ASSUME NEW p \in Pool
      PROVE  /\ used_memory[p] = 0 /\ PoolLive(p) = 0 /\ Claimed(p) = 0
             /\ Unsettled(p) = 0 /\ Pending(p) = 0
  <2>1. \A points : Callers(p, points) = {}
    BY MemMgrAssumption DEF Init, Callers
  <2>2. {b \in Blocks : tag[b] = p} = {}
    BY MemMgrAssumption DEF Init
  <2>3. used_memory[p] = 0
    BY <1>2 DEF InitPolicyMgr
  <2>4. QED
    BY <2>1, <2>2, <2>3, SumEmpty
    DEF PoolLive, Claimed, Unsettled, Pending
<1>6. /\ PoolLive(ExecPool) = 0 /\ PoolLive(StoragePool) = 0
      /\ Exposure(ExecPool) = 0 /\ Exposure(StoragePool) = 0
  BY <1>5 DEF Pool, Exposure
<1>7. HeapInv /\ Accounting
  BY <1>5, <1>6, MemMgrAssumption DEF HeapInv, LiveBytes, Accounting
<1>8. ExposureInv
  <2>1. MaxSlack * Cardinality(Threads) \in Nat
    BY MemMgrAssumption, ThreadCount
  <2>2. QED
    BY <1>3, <1>4, <1>6, <2>1 DEF ExposureInv
<1>9. PoolInv
  BY DEF Init, PoolInv
<1>10. QED
  BY <1>1, <1>4, <1>7, <1>8, <1>9 DEF IInv, SafeInv, SumInv

LEMMA IInvNext == IInv /\ [Next]_vars => IInv'
<1> SUFFICES ASSUME IInv, [Next]_vars
             PROVE  IInv'
  OBVIOUS
<1>1. SafeInv'
  BY SafeNext DEF IInv, SafeInv
<1>2. CASE UNCHANGED vars
  <2>1. PoolInv'
    BY <1>2 DEF vars, call_vars, heap_vars, IInv, PoolInv
  <2>2. QED
    BY <1>2, <2>1, SumStutter, <1>1 DEF IInv, SafeInv
<1>3. ASSUME NEW t \in Threads, Caller(t)
      PROVE  PoolInv' /\ SumInv'
  BY <1>1, <1>3, PoolKept, SumCallAlloc, SumCallFree DEF Caller, IInv, SafeInv
<1>4. ASSUME NEW t \in Threads, Step(t)
      PROVE  PoolInv' /\ SumInv'
  <2>1. PoolInv'
    BY <1>4, PoolKept DEF IInv, SafeInv
  <2>2. SumInv'
    BY <1>1, <1>4, SumReserve, SumRefuse, SumJeMalloc, SumJeMallocFails,
       SumSettle, SumRollback, SumJeFree, SumRefund DEF Step
  <2>3. QED
    BY <2>1, <2>2
<1>5. QED
  BY <1>1, <1>2, <1>3, <1>4 DEF Next, IInv, SafeInv

(* In every reachable state the counters, the calls in flight and the heap *)
(* stand in the relation each critical section of the policy manager needs *)
(* to find: the invariant all the theorems below follow from.              *)
THEOREM InvariantHolds == Spec => []IInv
BY IInvInit, IInvNext, PTL DEF Spec

-----------------------------------------------------------------------------
(* What the invariant gives.                                               *)

(* Whatever the interleaving of allocMem and freeMem, each counter equals  *)
(* the pool's live bytes and claims less its unsettled excess: no          *)
(* correction is lost, applied twice, or applied to the wrong pool.        *)
THEOREM CountersExact == Spec => []Accounting
<1>1. IInv => Accounting
  BY DEF IInv, SumInv
<1>2. QED
  BY <1>1, InvariantHolds, PTL

(* The counters, with the excesses that calls in flight may still charge,  *)
(* pass the total and the storage share by one excess per thread at most.  *)
THEOREM ExposureHolds == Spec => []ExposureInv
<1>1. IInv => ExposureInv
  BY DEF IInv, SumInv
<1>2. QED
  BY <1>1, InvariantHolds, PTL

(* However long the program runs, the blocks live at once pass the         *)
(* configured total by at most one excess for each thread.                 *)
THEOREM BudgetHolds == Spec => []LiveWithinBudget
<1>1. ASSUME IInv
      PROVE  LiveWithinBudget
  <2> DEFINE most == MaxSlack * Cardinality(Threads)
  <2>1. \A p \in Pool : /\ used_memory[p] \in Nat /\ Unsettled(p) \in Nat
                        /\ Claimed(p) \in Nat /\ PoolLive(p) \in Nat
                        /\ Pending(p) \in Nat
                        /\ used_memory[p] + Unsettled(p)
                             = PoolLive(p) + Claimed(p)
    BY <1>1, CountersFit, PendingType DEF IInv, SafeInv, SumInv, Accounting
  <2>2. \A p \in Pool : /\ PoolLive(p) \in Nat /\ Exposure(p) \in Nat
                        /\ PoolLive(p) <= Exposure(p)
    BY <2>1 DEF Exposure
  <2>3. Exposure(ExecPool) + Exposure(StoragePool) <= total_memory + most
    BY <1>1 DEF IInv, SumInv, ExposureInv
  <2>4. total_memory \in Nat /\ most \in Nat
    BY <1>1, ThreadCount, MemMgrAssumption
    DEF IInv, TypeOK, PolicyTypeOK, SizeT
  <2>5. ExecPool \in Pool /\ StoragePool \in Pool
    BY DEF Pool
  <2> HIDE DEF most
  <2>6. LiveBytes <= total_memory + most
    BY <2>2, <2>3, <2>4, <2>5 DEF LiveBytes
  <2>7. QED
    BY <2>6 DEF LiveWithinBudget, most
<1>2. QED
  BY <1>1, InvariantHolds, PTL

(* The blocks live for the storage pool pass its share by at most one      *)
(* excess for each thread, whatever the execution pool borrows.            *)
THEOREM StorageQuotaHolds == Spec => []StorageWithinQuota
<1>1. ASSUME IInv
      PROVE  StorageWithinQuota
  <2> DEFINE p == StoragePool
             most == MaxSlack * Cardinality(Threads)
  <2>1. p \in Pool
    BY DEF Pool
  <2>2. /\ used_memory[p] \in Nat /\ Unsettled(p) \in Nat
        /\ Claimed(p) \in Nat /\ PoolLive(p) \in Nat /\ Pending(p) \in Nat
        /\ used_memory[p] + Unsettled(p) = PoolLive(p) + Claimed(p)
    BY <1>1, <2>1, CountersFit, PendingType
    DEF IInv, SafeInv, SumInv, Accounting
  <2>3. Exposure(p) <= total_pool_mem[p] + most
    BY <1>1 DEF IInv, SumInv, ExposureInv
  <2>4. total_pool_mem[p] \in Nat /\ most \in Nat
    BY <1>1, <2>1, ThreadCount, MemMgrAssumption
    DEF IInv, TypeOK, PolicyTypeOK, SizeT
  <2> HIDE DEF p, most
  <2>5. PoolLive(p) <= total_pool_mem[p] + most
    BY <2>2, <2>3, <2>4 DEF Exposure
  <2>6. QED
    BY <2>5 DEF StorageWithinQuota, p, most
<1>2. QED
  BY <1>1, InvariantHolds, PTL

(* Alone between decision and return, a thread finds the counters equal to *)
(* the memory in use.                                                      *)
LEMMA AloneExact ==
  ASSUME IInv, NEW t \in Threads, pc[t] = "decide", Alone(t)
  PROVE  \A p \in Pool : used_memory[p] = PoolLive(p)
<1>1. \A p : /\ Callers(p, {"malloc", "rollback", "refund"}) = {}
             /\ Callers(p, {"settle"}) = {}
  BY DEF Alone, Callers
<1>2. \A p : Claimed(p) = 0 /\ Unsettled(p) = 0
  BY <1>1, SumEmpty DEF Claimed, Unsettled
<1>3. \A p \in Pool : /\ used_memory[p] \in Nat /\ PoolLive(p) \in Nat
                      /\ used_memory[p] + Unsettled(p)
                           = PoolLive(p) + Claimed(p)
  BY CountersFit DEF IInv, SafeInv, SumInv, Accounting
<1>4. QED
  BY <1>2, <1>3

(* A request decided while no other call is between its decision and its   *)
(* return is granted if and only if it fits the memory really in use: the  *)
(* history of the program leaves no trace in the counters.                 *)
THEOREM DecisionsAreExact == Spec => DecisionsExact
<1>1. ASSUME IInv, NEW t \in Threads, pc[t] = "decide", Alone(t)
      PROVE  Admits(pool[t], num_bytes[t], used_memory)
               <=> Fits(pool[t], num_bytes[t])
  <2> DEFINE p == pool[t]
             n == num_bytes[t]
  <2>1. p \in Pool /\ n \in SizeT /\ n \in Nat
    BY <1>1 DEF IInv, TypeOK, SizeT
  <2>2. Admits(p, n, used_memory) <=>
          /\ n \in MinReq[p] .. MaxReq[p]
          /\ p = StoragePool =>
               used_memory[StoragePool] + n <= total_pool_mem[StoragePool]
          /\ used_memory[ExecPool] + used_memory[StoragePool] + n
               <= total_memory
    BY <1>1, <2>1, AdmitsExact
  <2>3. /\ used_memory[ExecPool] = PoolLive(ExecPool)
        /\ used_memory[StoragePool] = PoolLive(StoragePool)
    BY <1>1, AloneExact, Zenon DEF Pool
  <2> HIDE DEF p, n
  <2>4. QED
    BY <2>2, <2>3 DEF Fits, LiveBytes, p, n
<1>2. IInv /\ [Next]_vars =>
        [\A t \in Threads : Alone(t) =>
           /\ Reserve(t) => Fits(pool[t], num_bytes[t])
           /\ Refuse(t) => ~ Fits(pool[t], num_bytes[t])]_vars
  BY <1>1 DEF Reserve, Refuse, Return, Goto
<1>3. QED
  BY <1>2, InvariantHolds, PTL DEF DecisionsExact, Spec

-----------------------------------------------------------------------------
(* The manager implements the ledger.  The counters are what the ledger    *)
(* derives from the bytes lent and the calls in progress, so the decisions *)
(* are the same; a step of a call is a step of the ledger, or none.        *)

(* The sums of the ledger are sums.                                        *)
LEMMA LedgerSums == \A S, f : Contract!SumOver(S, f) = SumOver(S, f)
<1>1. \A S : Contract!Cardinality(S) = Cardinality(S)
  BY DEF Contract!Cardinality, Cardinality
<1>2. QED
  BY <1>1 DEF Contract!SumOver, SumOver, Contract!BytesOf, BytesOf

(* What the ledger books to a pool is what the counter of the pool says.   *)
LEMMA BookedIsUsed ==
  ASSUME IInv, NEW p \in Pool
  PROVE  Contract!Booked(p) = used_memory[p]
<1> DEFINE S == Callers(p, {"malloc", "rollback", "refund"})
           T == Callers(p, {"settle"})
           bytes == [t \in Threads |-> Entries[t].bytes]
<1>1. /\ S = {t \in Threads : /\ Entries[t].pool = p
                              /\ Entries[t].at \in {"promised", "returned"}}
      /\ \A t \in S : bytes[t] = num_bytes[t]
  BY MemMgrAssumption DEF Entries, Entry, Callers, IInv, TypeOK, PC
<1>2. /\ T = {t \in Threads : /\ Entries[t].pool = p
                              /\ Entries[t].at \in {"excess"}}
      /\ \A t \in T : bytes[t] = Excess[t]
  BY MemMgrAssumption DEF Entries, Entry, Callers, IInv, TypeOK, PC
<1>3. Lent[p] = PoolLive(p)
  BY DEF Lent
<1>4. Contract!Booked(p)
        = PoolLive(p) + SumOver(S, bytes) - SumOver(T, bytes)
  BY <1>1, <1>2, <1>3, LedgerSums DEF Contract!Booked, Contract!BytesAt
<1> HIDE DEF S, T, bytes
<1>5. SumOver(S, bytes) = SumOver(S, num_bytes)
  BY <1>1, SumSame
<1>6. SumOver(T, bytes) = SumOver(T, Excess)
  BY <1>2, SumSame
<1>7. Contract!Booked(p) = PoolLive(p) + Claimed(p) - Unsettled(p)
  BY <1>4, <1>5, <1>6 DEF S, T, Claimed, Unsettled
<1>8. /\ used_memory[p] \in Nat /\ Unsettled(p) \in Nat
      /\ Claimed(p) \in Nat /\ PoolLive(p) \in Nat
      /\ used_memory[p] + Unsettled(p) = PoolLive(p) + Claimed(p)
  BY CountersFit DEF IInv, SafeInv, SumInv, Accounting
<1>9. QED
  BY <1>7, <1>8

(* So the tests of policyMgrAlloc, on machine words, decide as the ledger. *)
LEMMA AdmitsAsLedger ==
  ASSUME IInv, NEW p \in Pool, NEW n \in SizeT
  PROVE  Admits(p, n, used_memory) <=> Contract!Fits(p, n)
<1>1. /\ Contract!Booked(ExecPool) = used_memory[ExecPool]
      /\ Contract!Booked(StoragePool) = used_memory[StoragePool]
  BY BookedIsUsed, Zenon DEF Pool
<1>2. QED
  BY <1>1, AdmitsExact DEF Contract!Fits

(* A step of one thread leaves the ledger's view of the others as it was.  *)
LEMMA OneCallMoves ==
  ASSUME TypeOK, NEW t \in Threads, OnlyMoves(t)
  PROVE  Entries' = [Entries EXCEPT ![t] = Entries'[t]]
<1>1. ASSUME NEW u \in Threads \ {t}
      PROVE  Entries'[u] = Entries[u]
  <2>1. /\ pc'[u] = pc[u] /\ pool'[u] = pool[u] /\ num_bytes'[u] = num_bytes[u]
        /\ pc[u] = "settle" => ptr'[u] = ptr[u] /\ heap'[ptr[u]] = heap[ptr[u]]
    BY DEF OnlyMoves
  <2>2. Excess'[u] = Excess[u]
    BY <2>1 DEF Excess
  <2>3. pc[u] \in PC
    BY DEF TypeOK
  <2>4. Entry(u)' = Entry(u)
    BY <2>1, <2>2, <2>3 DEF Entry, PC
  <2>5. QED
    BY <2>4 DEF Entries
<1>2. /\ Entries = [u \in Threads |-> Entries[u]]
      /\ Entries' = [u \in Threads |-> Entries'[u]]
  BY DEF Entries
<1> HIDE DEF Entries
<1>3. QED
  BY <1>1, <1>2

(* Steps that leave the heap alone leave the bytes lent alone.             *)
LEMMA NothingLent ==
  ASSUME UNCHANGED heap_vars
  PROVE  UNCHANGED Lent
BY HeapUnchanged DEF Lent

LEMMA LedgerStarts == Init => Contract!LedgerInit
<1> SUFFICES ASSUME Init
             PROVE  Contract!LedgerInit
  OBVIOUS
<1>1. PICK total \in Totals : InitPolicyMgr(total)
  BY DEF Init
<1>2. total_memory \in Totals
  BY <1>1 DEF InitPolicyMgr
<1>3. total_pool_mem[StoragePool] \in 0 .. total_memory
  <2>1. IInv /\ StoragePool \in Pool
    BY IInvInit DEF Pool
  <2>2. QED
    BY <2>1 DEF IInv, SumInv, QuotaInv, TypeOK, PolicyTypeOK, SizeT
<1>4. ASSUME NEW p \in Pool
      PROVE  PoolLive(p) = 0
  <2>1. {b \in Blocks : tag[b] = p} = {}
    BY MemMgrAssumption DEF Init
  <2>2. QED
    BY <2>1, SumEmpty DEF PoolLive
<1>5. Lent = [p \in Contract!Pools |-> 0]
  BY <1>4 DEF Lent, Contract!Pools, Pool
<1>6. Entries = [t \in Threads |-> Contract!Idle]
  BY DEF Init, Entries, Entry, Contract!Idle
<1>7. QED
  BY <1>2, <1>3, <1>5, <1>6 DEF Contract!LedgerInit

(* Entering a routine: a request is asked for; a free asks for nothing.    *)
LEMMA LedgerEnter ==
  ASSUME IInv, NEW t \in Threads, Caller(t)
  PROVE  Contract!LedgerNext \/ UNCHANGED Contract!ledger_vars
<1>1. ASSUME NEW p \in Pool, NEW n \in Requests, CallAlloc(t, p, n)
      PROVE  Contract!Ask(t, p, n)
  <2> USE <1>1 DEF CallAlloc, Goto
  <2>1. OnlyMoves(t)
    BY DEF OnlyMoves, IInv, TypeOK, heap_vars
  <2>2. Entries[t].at = "idle"
    BY DEF Entries, Entry
  <2>3. Entries'[t] = Contract!Call("asked", p, n)
    BY DEF Entries, Entry, Contract!Call, IInv, TypeOK
  <2>4. QED
    BY <2>1, <2>2, <2>3, OneCallMoves, NothingLent
    DEF IInv, Contract!Ask, Contract!Moves, policy_vars
<1>2. ASSUME NEW b \in Blocks, CallFree(t, b)
      PROVE  UNCHANGED Contract!ledger_vars
  <2> USE <1>2 DEF CallFree, Goto
  <2>1. OnlyMoves(t)
    BY DEF OnlyMoves, IInv, TypeOK, heap_vars
  <2>2. Entries'[t] = Entries[t]
    BY DEF Entries, Entry, IInv, TypeOK
  <2>3. Entries' = Entries
    BY <2>1, <2>2, OneCallMoves DEF IInv, Entries
  <2>4. QED
    BY <2>3, NothingLent DEF Contract!ledger_vars, policy_vars
<1>3. QED
  BY <1>1, <1>2 DEF Caller, Contract!LedgerNext, Contract!Pools, Pool

(* The decision: the manager grants what the ledger grants, and refuses    *)
(* what it refuses.                                                        *)
LEMMA LedgerDecides ==
  ASSUME IInv, NEW t \in Threads, Reserve(t) \/ Refuse(t)
  PROVE  Contract!LedgerNext
<1> DEFINE p == pool[t]
           n == num_bytes[t]
<1>1. pc[t] = "decide" /\ p \in Pool /\ n \in SizeT
  BY DEF Reserve, Refuse, Return, Goto, IInv, TypeOK
<1>2. Entries[t] = Contract!Call("asked", p, n)
  BY <1>1 DEF Entries, Entry, Contract!Call
<1>3. /\ Entries[t].at = "asked" /\ Entries[t].pool = p
      /\ Entries[t].bytes = n
  BY <1>2 DEF Contract!Call
<1>4. Admits(p, n, used_memory) <=> Contract!Fits(p, n)
  BY <1>1, AdmitsAsLedger
<1>5. OnlyMoves(t)
  BY DEF OnlyMoves, Reserve, Refuse, Return, Goto, IInv, TypeOK, heap_vars
<1>6. UNCHANGED <<total_memory, total_pool_mem, Lent>>
  BY NothingLent DEF Reserve, Refuse, policy_vars
<1>7. CASE Reserve(t)
  <2>1. Entries'[t] = Contract!Call("promised", p, n)
    BY <1>7 DEF Reserve, Goto, Entries, Entry, Contract!Call, IInv, TypeOK
  <2>2. Contract!Fits(p, n)
    BY <1>4, <1>7 DEF Reserve
  <2>3. Contract!Grant(t)
    BY <1>3, <1>5, <1>6, <2>1, <2>2, OneCallMoves
    DEF IInv, Contract!Grant, Contract!Moves
  <2>4. QED
    BY <2>3 DEF Contract!LedgerNext
<1>8. CASE Refuse(t)
  <2>1. Entries'[t] = Contract!Idle
    BY <1>8
    DEF Refuse, Return, Goto, Entries, Entry, Contract!Idle, IInv, TypeOK
  <2>2. ~ Contract!Fits(p, n)
    BY <1>4, <1>8 DEF Refuse
  <2>3. Contract!Refuse(t)
    BY <1>3, <1>5, <1>6, <2>1, <2>2, OneCallMoves
    DEF IInv, Contract!Refuse, Contract!Moves
  <2>4. QED
    BY <2>3 DEF Contract!LedgerNext
<1>9. QED
  BY <1>7, <1>8

(* je_malloc: the bytes promised are lent, and an excess with them.        *)
LEMMA LedgerLends ==
  ASSUME IInv, IInv', NEW t \in Threads, NEW b \in Blocks,
         NEW s \in UsableSizes(num_bytes[t]), JeMalloc(t, b, s)
  PROVE  Contract!Lend(t, s - num_bytes[t])
<1> USE DEF JeMalloc, Goto
<1> DEFINE n == num_bytes[t]
           p == pool[t]
<1>1. p \in Pool /\ n \in Nat /\ s \in Nat
  BY MemMgrAssumption DEF IInv, TypeOK, SizeT, UsableSizes
<1>2. \A u \in Threads : pc[u] = "settle" => ptr[u] # b
  BY MemMgrAssumption DEF IInv, TypeOK, FrameInv, CallInv, BlockInv
<1>3. OnlyMoves(t)
  BY <1>2 DEF OnlyMoves, IInv, TypeOK
<1>4. /\ Entries[t].at = "promised" /\ Entries[t].pool = p
      /\ Entries[t].bytes = n
  BY DEF Entries, Entry
<1>5. Entries'[t] = Contract!Call("excess", p, s - n)
  <2>1. pc'[t] = "settle" /\ Excess'[t] = s - n
    BY DEF Excess, IInv, TypeOK
  <2>2. QED
    BY <2>1 DEF Entries, Entry, Contract!Call
<1>6. ASSUME NEW q \in Pool
      PROVE  PoolLive(q)' = IF q = p THEN PoolLive(q) + n + (s - n)
                            ELSE PoolLive(q)
  <2>1. LiveOf(b, q) = 0 /\ LiveOf(b, q)' = IF q = p THEN s ELSE 0
    BY DEF IInv, TypeOK, LiveOf, Share
  <2>2. \A c \in Blocks \ {b} : heap'[c] = heap[c] /\ tag'[c] = tag[c]
    BY DEF IInv, TypeOK
  <2>3. /\ PoolLive(q) \in Nat /\ PoolLive(q)' \in Nat
        /\ PoolLive(q)' = PoolLive(q) - LiveOf(b, q) + LiveOf(b, q)'
    BY <2>2, PoolLiveChange DEF IInv, SafeInv
  <2>4. QED
    BY <1>1, <2>1, <2>3
<1>7. Lent' = [Lent EXCEPT ![p] = @ + n + (s - n)]
  BY <1>1, <1>6 DEF Lent
<1>8. QED
  BY <1>3, <1>4, <1>5, <1>7, OneCallMoves
  DEF IInv, Contract!Lend, Contract!Moves, policy_vars

(* je_free: the bytes of the block are taken back.                         *)
LEMMA LedgerTakesBack ==
  ASSUME IInv, IInv', NEW t \in Threads, JeFree(t)
  PROVE  /\ Contract!TakeBack(t, pool[t], num_bytes[t])
         /\ pool[t] \in Pool /\ num_bytes[t] \in 1 .. Lent[pool[t]]
<1> USE DEF JeFree, Goto
<1> DEFINE n == num_bytes[t]
           p == pool[t]
<1>0. PICK b \in Blocks : b = ptr[t]
  BY MemMgrAssumption DEF IInv, TypeOK
<1>1. /\ p \in Pool /\ n \in Nat /\ heap[b] = n /\ tag[b] = p /\ n # 0
      /\ heap[b] \in Nat
  BY <1>0, MemMgrAssumption
  DEF IInv, TypeOK, SizeT, FrameInv, CallInv, BlockInv, PoolInv
<1>2. OnlyMoves(t)
  BY <1>0, <1>1, MemMgrAssumption
  DEF OnlyMoves, IInv, TypeOK, FrameInv, OwnershipInv
<1>3. Entries[t].at = "idle"
  BY DEF Entries, Entry
<1>4. Entries'[t] = Contract!Call("returned", p, n)
  BY DEF Entries, Entry, Contract!Call, IInv, TypeOK
<1>5. ASSUME NEW q \in Pool
      PROVE  /\ PoolLive(q)' = IF q = p THEN PoolLive(q) - n ELSE PoolLive(q)
             /\ PoolLive(q) \in Nat
             /\ q = p => n <= PoolLive(q)
  <2>1. LiveOf(b, q) = IF q = p THEN n ELSE 0
    BY <1>1 DEF LiveOf, Share
  <2>2. tag'[b] # q
    BY <1>0, MemMgrAssumption DEF IInv, TypeOK
  <2>3. LiveOf(b, q)' = 0
    BY <2>2 DEF LiveOf, Share
  <2>4. \A c \in Blocks \ {b} : heap'[c] = heap[c] /\ tag'[c] = tag[c]
    BY <1>0 DEF IInv, TypeOK
  <2>5. /\ PoolLive(q) \in Nat /\ PoolLive(q)' \in Nat
        /\ LiveOf(b, q) <= PoolLive(q)
        /\ PoolLive(q)' = PoolLive(q) - LiveOf(b, q) + LiveOf(b, q)'
    BY <2>4, PoolLiveChange DEF IInv, SafeInv
  <2>6. QED
    BY <1>1, <2>1, <2>3, <2>5
<1>6. Lent' = [Lent EXCEPT ![p] = @ - n]
  BY <1>1, <1>5 DEF Lent
<1>7. n \in 1 .. Lent[p]
  BY <1>1, <1>5 DEF Lent
<1>8. Contract!TakeBack(t, p, n)
  BY <1>2, <1>3, <1>4, <1>6, OneCallMoves
  DEF IInv, Contract!TakeBack, Contract!Moves, policy_vars
<1>9. QED
  BY <1>1, <1>7, <1>8

(* The corrections that end a call are one action of the ledger, whose     *)
(* books they do not change: they were right already.                      *)
LEMMA LedgerReturns ==
  ASSUME IInv, NEW t \in Threads, Settle(t) \/ Rollback(t) \/ Refund(t)
  PROVE  Contract!Return(t)
<1>1. /\ pc[t] \in {"settle", "rollback", "refund"} /\ pc'[t] = "idle"
      /\ UNCHANGED heap_vars /\ UNCHANGED <<total_memory, total_pool_mem>>
  BY DEF Settle, Rollback, Refund, Return, Goto, AdjustAlloc, policy_vars, IInv, TypeOK
<1>2. OnlyMoves(t)
  BY DEF OnlyMoves, Settle, Rollback, Refund, Return, Goto, IInv, TypeOK, heap_vars
<1>3. Entries[t].at \in {"promised", "excess", "returned"}
  BY <1>1 DEF Entries, Entry
<1>4. Entries'[t] = Contract!Idle
  BY <1>1 DEF Entries, Entry, Contract!Idle
<1>5. QED
  BY <1>1, <1>2, <1>3, <1>4, OneCallMoves, NothingLent
  DEF IInv, Contract!Return, Contract!Moves

(* When je_malloc fails the promise stands until it is rolled back.        *)
LEMMA LedgerStands ==
  ASSUME IInv, NEW t \in Threads, JeMallocFails(t)
  PROVE  UNCHANGED Contract!ledger_vars
<1> USE DEF JeMallocFails, Goto
<1>1. OnlyMoves(t)
  BY DEF OnlyMoves, IInv, TypeOK, heap_vars
<1>2. Entries'[t] = Entries[t]
  BY DEF Entries, Entry, IInv, TypeOK
<1>3. Entries' = Entries
  BY <1>1, <1>2, OneCallMoves DEF IInv, Entries
<1>4. QED
  BY <1>3, NothingLent DEF Contract!ledger_vars, policy_vars

LEMMA LedgerContinues ==
  IInv /\ IInv' /\ [Next]_vars => [Contract!LedgerNext]_Contract!ledger_vars
<1> SUFFICES ASSUME IInv, IInv', [Next]_vars
             PROVE  Contract!LedgerNext \/ UNCHANGED Contract!ledger_vars
  OBVIOUS
<1>1. CASE UNCHANGED vars
  BY <1>1, NothingLent
  DEF vars, policy_vars, call_vars, heap_vars, Entries, Entry, Excess,
      Contract!ledger_vars
<1>2. ASSUME NEW t \in Threads, Caller(t)
      PROVE  Contract!LedgerNext \/ UNCHANGED Contract!ledger_vars
  BY <1>2, LedgerEnter
<1>3. ASSUME NEW t \in Threads, Step(t)
      PROVE  Contract!LedgerNext \/ UNCHANGED Contract!ledger_vars
  <2>1. CASE Reserve(t) \/ Refuse(t)
    BY <2>1, LedgerDecides
  <2>2. ASSUME NEW b \in Blocks, NEW s \in UsableSizes(num_bytes[t]), JeMalloc(t, b, s)
        PROVE  Contract!LedgerNext
    <3>1. s - num_bytes[t] \in 0 .. MaxSlack
      BY MemMgrAssumption DEF IInv, TypeOK, SizeT, UsableSizes
    <3>2. Contract!Lend(t, s - num_bytes[t])
      BY <2>2, LedgerLends
    <3>3. QED
      BY <3>1, <3>2 DEF Contract!LedgerNext
  <2>3. CASE JeMallocFails(t)
    BY <2>3, LedgerStands
  <2>4. CASE JeFree(t)
    BY <2>4, LedgerTakesBack DEF Contract!LedgerNext, Contract!Pools, Pool
  <2>5. CASE Settle(t) \/ Rollback(t) \/ Refund(t)
    BY <2>5, LedgerReturns DEF Contract!LedgerNext
  <2>6. QED
    BY <1>3, <2>1, <2>2, <2>3, <2>4, <2>5 DEF Step
<1>4. QED
  BY <1>1, <1>2, <1>3 DEF Next

(* For any number of threads and blocks and any width of size_t, the       *)
(* manager is the ledger: what its counters, its machine words and the     *)
(* interleaving of its calls decide, plain integers decide one call at a   *)
(* time on the bytes lent.                                                 *)
THEOREM LedgerImplemented == Spec => KeepsLedger
BY InvariantHolds, LedgerStarts, LedgerContinues, PTL
DEF Spec, KeepsLedger, Contract!LedgerSpec

-----------------------------------------------------------------------------
(* Blocks freed through the other pool's routine.  What each call knows of *)
(* its block (SafeInv) does not depend on the routine the block goes back  *)
(* through; what does is PoolInv, which is not among the hypotheses here.  *)

(* What the callers have been granted and not given back, in both pools.   *)
Charged == LiveBytes + Claimed(ExecPool) + Claimed(StoragePool)

(* What the counters say it is, together with what they are still to be    *)
(* told.                                                                   *)
CounterSum ==
  used_memory[ExecPool] + used_memory[StoragePool]
  + Unsettled(ExecPool) + Unsettled(StoragePool)

(* One of the counters may have gone below zero, never both.               *)
CounterSumInv == CounterSum \in {Charged, Charged + SizeMod}

(* What is charged, and what granted requests may still charge.            *)
TotalExposure == Charged + Pending(ExecPool) + Pending(StoragePool)

TotalExposureInv ==
  TotalExposure <= total_memory + MaxSlack * Cardinality(Threads)

MisuseInv ==
  SafeInv /\ HeapInv /\ QuotaInv /\ CounterSumInv /\ TotalExposureInv

-----------------------------------------------------------------------------
(* Machine arithmetic that may wrap.                                       *)

(* Adding less than half the range wraps once at most.                     *)
LEMMA WordNear ==
  ASSUME NEW x \in Int, - SizeMod <= x, x < 2 * SizeMod
  PROVE  /\ Word(x) \in {x - SizeMod, x, x + SizeMod}
         /\ Word(x) \in SizeT
<1>1. SizeMod \in Nat /\ SizeMod > 1
  BY SizeModAssumption
<1>2. Word(x) \in SizeT
  BY WordType
<1>3. CASE x < 0
  <2>1. Word(x) = x + SizeMod
    BY <1>1, <1>3 DEF Word
  <2>2. QED
    BY <1>2, <2>1
<1>4. CASE x \in SizeT
  BY <1>4, WordExact
<1>5. CASE x >= SizeMod
  <2>1. Word(x) = x - SizeMod
    BY <1>1, <1>5 DEF Word
  <2>2. QED
    BY <1>2, <2>1
<1>6. QED
  BY <1>1, <1>2, <1>3, <1>4, <1>5 DEF SizeT

LEMMA AdjustNear ==
  ASSUME NEW u \in SizeT, NEW d \in Int, - SizeMod < 2 * d, 2 * d < SizeMod
  PROVE  /\ Word(AsSigned(u) + AsSigned(Word(d)))
              \in {u + d - SizeMod, u + d, u + d + SizeMod}
         /\ Word(AsSigned(u) + AsSigned(Word(d))) \in SizeT
<1>1. SizeMod \in Nat /\ SizeMod > 1
  BY SizeModAssumption
<1>2. AsSigned(Word(d)) = d
  <2>1. CASE d >= 0
    BY <1>1, <2>1, WordExact DEF AsSigned, SizeT
  <2>2. CASE d < 0
    <3>1. Word(d) = d + SizeMod
      BY <1>1, <2>2 DEF Word
    <3>2. QED
      BY <1>1, <2>2, <3>1 DEF AsSigned
  <2>3. QED
    BY <2>1, <2>2
<1>3. /\ AsSigned(u) \in {u, u - SizeMod} /\ AsSigned(u) \in Int
      /\ - SizeMod <= 2 * AsSigned(u) /\ 2 * AsSigned(u) < SizeMod
  BY <1>1 DEF AsSigned, SizeT
<1>4. AsSigned(u) + d \in Int /\ - SizeMod <= AsSigned(u) + d
                             /\ AsSigned(u) + d < SizeMod
  BY <1>1, <1>3
<1>5. /\ Word(AsSigned(u) + d) \in {AsSigned(u) + d, AsSigned(u) + d + SizeMod}
      /\ Word(AsSigned(u) + d) \in SizeT
  BY <1>1, <1>4, WordNear DEF SizeT
<1>6. QED
  BY <1>1, <1>2, <1>3, <1>5 DEF SizeT

-----------------------------------------------------------------------------
(* What each call knows of its block.                                      *)

LEMMA SafeCallFreeOther ==
  ASSUME SafeInv, NEW t \in Threads, NEW b \in Blocks, CallFreeOther(t, b)
  PROVE  SafeInv'
<1> USE DEF CallFreeOther, Goto, policy_vars, heap_vars
<1>1. /\ tag[b] \in Pool /\ Other(tag[b]) \in Pool
      /\ \E p \in Pool : heap[b] <= MaxReq[p] + MaxSlack
  BY DEF SafeInv, FrameInv, BlockInv, Other, Pool
<1>2. heap[b] \in SizeT
  BY HeapFits, MemMgrAssumption, SizeModAssumption DEF SafeInv, TypeOK, SizeT
<1>3. TypeOK'
  BY <1>1, <1>2, MemMgrAssumption
  DEF SafeInv, TypeOK, PolicyTypeOK, PC
<1>4. \A u \in Threads : ptr[u] # b
  BY MemMgrAssumption DEF SafeInv, TypeOK, FrameInv, CallInv
<1>5. CallInv'
  BY <1>1, MemMgrAssumption
  DEF SafeInv, TypeOK, FrameInv, CallInv, UsableSizes
<1>6. OwnershipInv'
  BY <1>4 DEF SafeInv, TypeOK, FrameInv, OwnershipInv
<1>7. BlockInv'
  BY DEF SafeInv, TypeOK, FrameInv, BlockInv
<1>8. QED
  BY <1>3, <1>5, <1>6, <1>7 DEF SafeInv, FrameInv

LEMMA SafeMisuse == SafeInv /\ [MisuseNext]_vars => SafeInv'
BY SafeNext, SafeCallFreeOther DEF MisuseNext

-----------------------------------------------------------------------------
(* Bounds on the sums.                                                     *)

SumsBounded ==
  /\ Charged \in Nat /\ CounterSum \in Nat /\ TotalExposure \in Nat
  /\ 2 * Charged < SizeMod
  /\ Unsettled(ExecPool) + Unsettled(StoragePool) <= Charged
  /\ CounterSum < Charged + 2 * SizeMod

LEMMA PoolTypes ==
  ASSUME SafeInv, NEW p \in Pool
  PROVE  /\ used_memory[p] \in SizeT /\ used_memory[p] \in Nat
         /\ used_memory[p] < SizeMod
         /\ Unsettled(p) \in Nat /\ Claimed(p) \in Nat
         /\ PoolLive(p) \in Nat /\ Pending(p) \in Nat
         /\ Unsettled(p) <= PoolLive(p)
<1>1. /\ used_memory[p] \in SizeT /\ used_memory[p] \in Nat
      /\ used_memory[p] < SizeMod
  BY UsedType DEF SafeInv, TypeOK, PolicyTypeOK
<1>2. Unsettled(p) \in Nat /\ Unsettled(p) <= PoolLive(p)
  BY ExcessType, UnsettledLive
<1>3. Claimed(p) \in Nat /\ PoolLive(p) \in Nat /\ Pending(p) \in Nat
  BY ClaimedType, PoolLiveType, PendingType, Zenon DEF SafeInv
<1>4. QED
  BY <1>1, <1>2, <1>3

LEMMA SumBounds == SafeInv /\ HeapInv => SumsBounded
<1> SUFFICES ASSUME SafeInv, HeapInv
             PROVE  SumsBounded
  OBVIOUS
<1>1. \A p \in Pool :
        /\ used_memory[p] \in Nat /\ used_memory[p] < SizeMod
        /\ Unsettled(p) \in Nat /\ Claimed(p) \in Nat
        /\ PoolLive(p) \in Nat /\ Pending(p) \in Nat
        /\ Unsettled(p) <= PoolLive(p)
  BY PoolTypes
<1>2. 2 * Charged < SizeMod
  BY ChargesFit DEF Charged
<1>3. ExecPool \in Pool /\ StoragePool \in Pool
  BY DEF Pool
<1>4. QED
  BY <1>1, <1>2, <1>3, SizeModAssumption
  DEF SumsBounded, Charged, CounterSum, TotalExposure, LiveBytes

LEMMA SumBoundsNext == SafeInv' /\ HeapInv' => SumsBounded'
BY SumBounds, PTL

(* A step whose counters move by what the charges move by, give or take a  *)
(* wrap of either, keeps the sum of the counters right.                    *)
LEMMA CountersFollow ==
  ASSUME MisuseInv, SafeInv', HeapInv', NEW d \in Int,
         Charged' = Charged + d,
         CounterSum' \in {CounterSum + d - SizeMod, CounterSum + d,
                          CounterSum + d + SizeMod}
  PROVE  CounterSumInv'
<1>1. SumsBounded /\ SumsBounded'
  BY SumBounds, SumBoundsNext DEF MisuseInv
<1>2. CounterSum \in {Charged, Charged + SizeMod}
  BY DEF MisuseInv, CounterSumInv
<1>3. /\ Charged \in Nat /\ Charged' \in Nat
      /\ CounterSum \in Nat /\ CounterSum' \in Nat
      /\ 2 * Charged' < SizeMod /\ CounterSum' < Charged' + 2 * SizeMod
  BY <1>1 DEF SumsBounded
<1>4. CounterSum' \in {Charged', Charged' + SizeMod}
  BY <1>2, <1>3, SizeModAssumption
<1>5. QED
  BY <1>4 DEF CounterSumInv

(* The invariant follows when nothing new is exposed.                      *)
LEMMA MisuseFollows ==
  ASSUME MisuseInv, SafeInv', HeapInv',
         UNCHANGED <<total_memory, total_pool_mem>>, NEW d \in Int,
         Charged' = Charged + d,
         CounterSum' \in {CounterSum + d - SizeMod, CounterSum + d,
                          CounterSum + d + SizeMod},
         TotalExposure' <= TotalExposure
  PROVE  MisuseInv'
<1>1. CounterSumInv'
  BY CountersFollow
<1>2. TotalExposureInv'
  <2>1. TotalExposure \in Nat /\ TotalExposure' \in Nat
    BY SumBounds, SumBoundsNext DEF MisuseInv, SumsBounded
  <2> DEFINE most == total_memory + MaxSlack * Cardinality(Threads)
  <2>2. most \in Nat
    BY MemMgrAssumption, ThreadCount
    DEF MisuseInv, SafeInv, TypeOK, PolicyTypeOK, SizeT
  <2>3. TotalExposure <= most
    BY DEF MisuseInv, TotalExposureInv
  <2> HIDE DEF most
  <2>4. TotalExposure' <= most
    BY <2>1, <2>2, <2>3
  <2>5. QED
    BY <2>4 DEF TotalExposureInv, most
<1>3. QED
  BY <1>1, <1>2 DEF MisuseInv, QuotaInv

-----------------------------------------------------------------------------
(* Each step.                                                              *)

(* Entering either routine, being refused, and je_malloc failing.          *)
LEMMA MisuseQuiet ==
  ASSUME MisuseInv, SafeInv', NEW t \in Threads, OnlyMoves(t),
         UNCHANGED <<policy_vars, heap_vars>>,
         \A p \in Pool : /\ ClaimOf(t, p)' = ClaimOf(t, p)
                         /\ ExcessOf(t, p)' = ExcessOf(t, p)
                         /\ PendingOf(t, p)' <= PendingOf(t, p)
  PROVE  MisuseInv'
<1>1. ASSUME NEW p \in Pool
      PROVE  /\ Claimed(p)' = Claimed(p) /\ Claimed(p) \in Nat
             /\ Unsettled(p)' = Unsettled(p) /\ Unsettled(p) \in Nat
             /\ Pending(p) \in Nat /\ Pending(p)' \in Nat
             /\ Pending(p)' <= Pending(p)
             /\ PoolLive(p)' = PoolLive(p) /\ PoolLive(p) \in Nat
             /\ used_memory[p] \in Nat
  <2>1. Claimed(p)' = Claimed(p)
    BY ClaimedChange DEF MisuseInv
  <2>2. Unsettled(p)' = Unsettled(p)
    BY UnsettledChange DEF MisuseInv
  <2>3. /\ Pending(p) \in Nat /\ Pending(p)' \in Nat
        /\ Pending(p)' <= Pending(p)
    BY PendingChange DEF MisuseInv
  <2>4. QED
    BY <2>1, <2>2, <2>3, HeapUnchanged, PoolTypes DEF MisuseInv
<1>2. ExecPool \in Pool /\ StoragePool \in Pool
  BY DEF Pool
<1>3. /\ Charged' = Charged + 0 /\ CounterSum' = CounterSum + 0
      /\ LiveBytes' = LiveBytes /\ TotalExposure' <= TotalExposure
  BY <1>1, <1>2 DEF Charged, CounterSum, LiveBytes, TotalExposure, policy_vars
<1>4. HeapInv'
  BY <1>3 DEF MisuseInv, HeapInv
<1>5. QED
  BY <1>3, <1>4, MisuseFollows DEF policy_vars

LEMMA MisuseEnter ==
  ASSUME MisuseInv, SafeInv', NEW t \in Threads,
         \/ \E q, n : CallAlloc(t, q, n)
         \/ \E b : CallFree(t, b) \/ CallFreeOther(t, b)
         \/ Refuse(t)
         \/ JeMallocFails(t)
  PROVE  MisuseInv'
<1> USE DEF CallAlloc, CallFree, CallFreeOther, Refuse, JeMallocFails, Return,
            Goto, heap_vars
<1>1. OnlyMoves(t)
  BY DEF OnlyMoves, MisuseInv, SafeInv, TypeOK
<1>2. UNCHANGED <<policy_vars, heap_vars>>
  OBVIOUS
<1>3. \/ pc[t] \in {"idle", "decide"} /\ pc'[t] \in {"decide", "free", "idle"}
      \/ /\ pc[t] = "malloc" /\ pc'[t] = "rollback"
         /\ pool'[t] = pool[t] /\ num_bytes'[t] = num_bytes[t]
  BY DEF MisuseInv, SafeInv, TypeOK
<1>4. \A p \in Pool : /\ ClaimOf(t, p)' = ClaimOf(t, p)
                      /\ ExcessOf(t, p)' = ExcessOf(t, p)
                      /\ PendingOf(t, p)' <= PendingOf(t, p)
  BY <1>3, Shares, MemMgrAssumption DEF ClaimPoints
<1>5. QED
  BY <1>1, <1>2, <1>4, MisuseQuiet

(* A refund and a rollback take back what was claimed, through whichever   *)
(* counter; that counter may wrap.                                         *)
LEMMA MisuseGiveBack ==
  ASSUME MisuseInv, SafeInv', NEW t \in Threads, Rollback(t) \/ Refund(t)
  PROVE  MisuseInv'
<1> DEFINE n == num_bytes[t]
           Mine(p) == IF p = pool[t] THEN n ELSE 0
<1>1. /\ pool[t] \in Pool /\ n \in Nat /\ pc'[t] = "idle"
      /\ pc[t] \in {"rollback", "refund"} /\ OnlyMoves(t)
      /\ UNCHANGED heap_vars
  BY DEF Rollback, Refund, Return, Goto, OnlyMoves, heap_vars, MisuseInv,
         SafeInv, TypeOK, SizeT
<1>2. ASSUME NEW p \in Pool
      PROVE  /\ ClaimOf(t, p) = Mine(p) /\ ClaimOf(t, p)' = 0
             /\ ExcessOf(t, p)' = ExcessOf(t, p)
             /\ PendingOf(t, p)' = PendingOf(t, p)
  BY <1>1, Shares DEF ClaimPoints
<1>3. ASSUME NEW p \in Pool
      PROVE  /\ Mine(p) <= Claimed(p) /\ Claimed(p)' = Claimed(p) - Mine(p)
             /\ Unsettled(p)' = Unsettled(p) /\ Pending(p)' = Pending(p)
             /\ PoolLive(p)' = PoolLive(p)
  <2> HIDE DEF n, Mine
  <2>1. Claimed(p)' = Claimed(p) - Mine(p) /\ Mine(p) <= Claimed(p)
    BY <1>1, <1>2, ClaimedChange DEF MisuseInv
  <2>2. Unsettled(p)' = Unsettled(p)
    BY <1>1, <1>2, UnsettledChange DEF MisuseInv
  <2>3. Pending(p)' = Pending(p)
    BY <1>1, <1>2, PendingChange DEF MisuseInv
  <2>4. QED
    BY <1>1, <2>1, <2>2, <2>3, HeapUnchanged
<1>4. \A p \in Pool : /\ used_memory[p] \in SizeT /\ used_memory[p] \in Nat
                      /\ Unsettled(p) \in Nat /\ Claimed(p) \in Nat
                      /\ PoolLive(p) \in Nat /\ Pending(p) \in Nat
  BY PoolTypes DEF MisuseInv
<1>5. /\ UNCHANGED <<total_memory, total_pool_mem>>
      /\ \A p \in Pool :
           used_memory'[p] = IF p = pool[t]
                             THEN Word(AsSigned(used_memory[p])
                                       + AsSigned(Word(-n)))
                             ELSE used_memory[p]
  BY <1>1, AdjustEffect DEF Rollback, Refund, MisuseInv, SafeInv
<1>6. 2 * n < SizeMod
  <2>1. /\ 2 * (LiveBytes + Claimed(ExecPool) + Claimed(StoragePool)) < SizeMod
        /\ LiveBytes \in Nat
    BY ChargesFit, LiveBytesType DEF MisuseInv, SafeInv
  <2>2. n <= Claimed(pool[t])
    BY <1>1, <1>3
  <2> HIDE DEF n
  <2>3. QED
    BY <1>1, <1>4, <2>1, <2>2, SizeModAssumption DEF Pool
<1> DEFINE v == used_memory'[pool[t]]
           u == used_memory[pool[t]]
<1>7. v \in {u + -n - SizeMod, u + -n, u + -n + SizeMod}
  <2>1. u \in SizeT /\ -n \in Int /\ -SizeMod < 2 * (-n) /\ 2 * (-n) < SizeMod
    BY <1>1, <1>4, <1>6, SizeModAssumption
  <2>2. v = Word(AsSigned(u) + AsSigned(Word(-n)))
    BY <1>1, <1>5
  <2> HIDE DEF u, v, n
  <2>3. QED
    BY <2>1, <2>2, AdjustNear
<1>8. /\ LiveBytes' = LiveBytes /\ Charged' = Charged + -n
      /\ TotalExposure' <= TotalExposure
      /\ CounterSum' \in {CounterSum + -n - SizeMod, CounterSum + -n,
                          CounterSum + -n + SizeMod}
  <2>1. CASE pool[t] = ExecPool
    <3>1. /\ Claimed(ExecPool)' = Claimed(ExecPool) - n
          /\ Claimed(StoragePool)' = Claimed(StoragePool)
          /\ v = used_memory'[ExecPool] /\ u = used_memory[ExecPool]
          /\ used_memory'[StoragePool] = used_memory[StoragePool]
      BY <1>3, <1>4, <1>5, <2>1 DEF Pool, ExecPool, StoragePool
    <3> HIDE DEF n, u, v
    <3>2. QED
      BY <1>1, <1>3, <1>4, <1>7, <3>1, SizeModAssumption
      DEF Pool, Charged, CounterSum, TotalExposure, LiveBytes
  <2>2. CASE pool[t] = StoragePool
    <3>1. /\ Claimed(StoragePool)' = Claimed(StoragePool) - n
          /\ Claimed(ExecPool)' = Claimed(ExecPool)
          /\ v = used_memory'[StoragePool] /\ u = used_memory[StoragePool]
          /\ used_memory'[ExecPool] = used_memory[ExecPool]
      BY <1>3, <1>4, <1>5, <2>2 DEF Pool, ExecPool, StoragePool
    <3> HIDE DEF n, u, v
    <3>2. QED
      BY <1>1, <1>3, <1>4, <1>7, <3>1, SizeModAssumption
      DEF Pool, Charged, CounterSum, TotalExposure, LiveBytes
  <2>3. QED
    BY <1>1, <2>1, <2>2 DEF Pool
<1>9. HeapInv'
  BY <1>8 DEF MisuseInv, HeapInv
<1>10. -n \in Int
  BY <1>1
<1> HIDE DEF n
<1>11. QED
  BY <1>5, <1>8, <1>9, <1>10, MisuseFollows

(* Settling moves the excess from what is unsettled to the counter.        *)
LEMMA MisuseSettle ==
  ASSUME MisuseInv, SafeInv', NEW t \in Threads, Settle(t)
  PROVE  MisuseInv'
<1> DEFINE e == heap[ptr[t]] - num_bytes[t]
           Mine(p) == IF p = pool[t] THEN e ELSE 0
<1>1. /\ pool[t] \in Pool /\ pc'[t] = "idle" /\ pc[t] = "settle"
      /\ OnlyMoves(t) /\ UNCHANGED heap_vars
  BY DEF Settle, Return, Goto, OnlyMoves, heap_vars, MisuseInv, SafeInv, TypeOK
<1>2. heap[ptr[t]] \in Nat /\ num_bytes[t] \in Nat /\ e \in Nat
  <2>1. num_bytes[t] \in Nat
    BY DEF MisuseInv, SafeInv, TypeOK, SizeT
  <2>2. heap[ptr[t]] \in num_bytes[t] .. num_bytes[t] + MaxSlack
    BY <1>1 DEF MisuseInv, SafeInv, FrameInv, CallInv, UsableSizes
  <2>3. QED
    BY <2>1, <2>2, MemMgrAssumption
<1>3. ASSUME NEW p \in Pool
      PROVE  /\ ExcessOf(t, p) = Mine(p) /\ ExcessOf(t, p)' = 0
             /\ ClaimOf(t, p)' = ClaimOf(t, p)
             /\ PendingOf(t, p)' = PendingOf(t, p)
  BY <1>1, Shares DEF ClaimPoints
<1>4. ASSUME NEW p \in Pool
      PROVE  /\ Mine(p) <= Unsettled(p)
             /\ Unsettled(p)' = Unsettled(p) - Mine(p)
             /\ Claimed(p)' = Claimed(p) /\ Pending(p)' = Pending(p)
             /\ PoolLive(p)' = PoolLive(p)
  <2> HIDE DEF e, Mine
  <2>1. Unsettled(p)' = Unsettled(p) - Mine(p) /\ Mine(p) <= Unsettled(p)
    BY <1>1, <1>3, UnsettledChange DEF MisuseInv
  <2>2. Claimed(p)' = Claimed(p)
    BY <1>1, <1>3, ClaimedChange DEF MisuseInv
  <2>3. Pending(p)' = Pending(p)
    BY <1>1, <1>3, PendingChange DEF MisuseInv
  <2>4. QED
    BY <1>1, <2>1, <2>2, <2>3, HeapUnchanged
<1>5. \A p \in Pool : /\ used_memory[p] \in SizeT /\ used_memory[p] \in Nat
                      /\ Unsettled(p) \in Nat /\ Claimed(p) \in Nat
                      /\ PoolLive(p) \in Nat /\ Pending(p) \in Nat
  BY PoolTypes DEF MisuseInv
<1>6. 2 * e < SizeMod
  <2>1. /\ 2 * Charged < SizeMod /\ Charged \in Nat
        /\ Unsettled(ExecPool) + Unsettled(StoragePool) <= Charged
    BY SumBounds DEF MisuseInv, SumsBounded
  <2>2. e <= Unsettled(pool[t])
    BY <1>1, <1>4
  <2> HIDE DEF e
  <2>3. QED
    BY <1>1, <1>2, <1>5, <2>1, <2>2, SizeModAssumption DEF Pool
<1> DEFINE v == used_memory'[pool[t]]
           u == used_memory[pool[t]]
<1>7. /\ UNCHANGED <<total_memory, total_pool_mem>>
      /\ \A p \in Pool : p # pool[t] => used_memory'[p] = used_memory[p]
      /\ v \in {u + e - SizeMod, u + e, u + e + SizeMod}
  <2>1. CASE heap[ptr[t]] > num_bytes[t]
    <3>1. AdjustAlloc(t, AsSigned(Word(e)))
      BY <2>1 DEF Settle
    <3>2. /\ UNCHANGED <<total_memory, total_pool_mem>>
          /\ \A p \in Pool : p # pool[t] => used_memory'[p] = used_memory[p]
          /\ v = Word(AsSigned(u) + AsSigned(Word(e)))
      BY <1>1, <3>1, AdjustEffect DEF MisuseInv, SafeInv
    <3>3. u \in SizeT /\ e \in Int /\ -SizeMod < 2 * e
      BY <1>1, <1>2, <1>5, SizeModAssumption
    <3> HIDE DEF u, v, e
    <3>4. QED
      BY <1>6, <3>2, <3>3, AdjustNear
  <2>2. CASE ~ (heap[ptr[t]] > num_bytes[t])
    <3>1. e = 0
      BY <1>2, <2>2
    <3>2. UNCHANGED policy_vars
      BY <2>2 DEF Settle
    <3>3. v = u /\ u \in Nat
      BY <1>1, <1>5, <3>2 DEF policy_vars
    <3>4. UNCHANGED <<total_memory, total_pool_mem, used_memory>>
      BY <3>2 DEF policy_vars
    <3> HIDE DEF u, v, e
    <3>5. v \in {u + e - SizeMod, u + e, u + e + SizeMod}
      BY <3>1, <3>3, SizeModAssumption
    <3>6. QED
      BY <3>4, <3>5
  <2>3. QED
    BY <2>1, <2>2
<1>8. /\ LiveBytes' = LiveBytes /\ Charged' = Charged + 0
      /\ TotalExposure' <= TotalExposure
      /\ CounterSum' \in {CounterSum + 0 - SizeMod, CounterSum + 0,
                          CounterSum + 0 + SizeMod}
  <2>1. CASE pool[t] = ExecPool
    <3>1. /\ Unsettled(ExecPool)' = Unsettled(ExecPool) - e
          /\ Unsettled(StoragePool)' = Unsettled(StoragePool)
          /\ v = used_memory'[ExecPool] /\ u = used_memory[ExecPool]
          /\ used_memory'[StoragePool] = used_memory[StoragePool]
      BY <1>4, <1>5, <1>7, <2>1 DEF Pool, ExecPool, StoragePool
    <3> HIDE DEF e, u, v
    <3>2. QED
      BY <1>2, <1>4, <1>5, <1>7, <3>1, SizeModAssumption
      DEF Pool, Charged, CounterSum, TotalExposure, LiveBytes
  <2>2. CASE pool[t] = StoragePool
    <3>1. /\ Unsettled(StoragePool)' = Unsettled(StoragePool) - e
          /\ Unsettled(ExecPool)' = Unsettled(ExecPool)
          /\ v = used_memory'[StoragePool] /\ u = used_memory[StoragePool]
          /\ used_memory'[ExecPool] = used_memory[ExecPool]
      BY <1>4, <1>5, <1>7, <2>2 DEF Pool, ExecPool, StoragePool
    <3> HIDE DEF e, u, v
    <3>2. QED
      BY <1>2, <1>4, <1>5, <1>7, <3>1, SizeModAssumption
      DEF Pool, Charged, CounterSum, TotalExposure, LiveBytes
  <2>3. QED
    BY <1>1, <2>1, <2>2 DEF Pool
<1>9. HeapInv'
  BY <1>8 DEF MisuseInv, HeapInv
<1>10. QED
  BY <1>7, <1>8, <1>9, MisuseFollows

(* je_free turns the bytes of the block into a claim, on the other pool if *)
(* the block came back through the other routine.                          *)
LEMMA MisuseJeFree ==
  ASSUME MisuseInv, SafeInv', NEW t \in Threads, JeFree(t)
  PROVE  MisuseInv'
<1> USE DEF JeFree, Goto
<1> DEFINE n == num_bytes[t]
<1>1. PICK b \in Blocks : b = ptr[t]
  BY MemMgrAssumption DEF MisuseInv, SafeInv, TypeOK
<1>2. /\ pool[t] \in Pool /\ n \in Nat /\ pc'[t] = "refund"
      /\ heap[b] = n /\ tag[b] \in Pool
  BY <1>1 DEF MisuseInv, SafeInv, TypeOK, SizeT, FrameInv, CallInv
<1>3. OnlyMoves(t)
  BY <1>1, <1>2, MemMgrAssumption
  DEF OnlyMoves, MisuseInv, SafeInv, TypeOK, FrameInv, OwnershipInv
<1>4. \A c \in Blocks \ {b} : heap'[c] = heap[c] /\ tag'[c] = tag[c]
  BY <1>1 DEF MisuseInv, SafeInv, TypeOK
<1>5. ASSUME NEW p \in Pool
      PROVE  /\ ClaimOf(t, p) = 0
             /\ ClaimOf(t, p)' = IF p = pool[t] THEN n ELSE 0
             /\ ExcessOf(t, p)' = ExcessOf(t, p)
             /\ PendingOf(t, p)' = PendingOf(t, p)
             /\ LiveOf(b, p) = IF p = tag[b] THEN n ELSE 0
             /\ LiveOf(b, p)' = 0
  <2>1. /\ ClaimOf(t, p) = 0
        /\ ClaimOf(t, p)' = IF p = pool[t] THEN n ELSE 0
        /\ ExcessOf(t, p)' = ExcessOf(t, p)
        /\ PendingOf(t, p)' = PendingOf(t, p)
    BY <1>2, Shares DEF ClaimPoints
  <2>2. LiveOf(b, p) = IF p = tag[b] THEN n ELSE 0
    BY <1>2 DEF LiveOf, Share
  <2>3. tag'[b] # p
    BY <1>1, MemMgrAssumption DEF MisuseInv, SafeInv, TypeOK
  <2>4. LiveOf(b, p)' = 0
    BY <2>3 DEF LiveOf, Share
  <2>5. QED
    BY <2>1, <2>2, <2>4
<1> HIDE DEF n
<1>6. ASSUME NEW p \in Pool
      PROVE  /\ Claimed(p)' = Claimed(p) + IF p = pool[t] THEN n ELSE 0
             /\ PoolLive(p)' = PoolLive(p) - IF p = tag[b] THEN n ELSE 0
             /\ Unsettled(p)' = Unsettled(p) /\ Pending(p)' = Pending(p)
             /\ Claimed(p) \in Nat /\ PoolLive(p) \in Nat
             /\ Unsettled(p) \in Nat /\ Pending(p) \in Nat
             /\ used_memory[p] \in Nat
  <2>1. /\ Claimed(p) \in Nat /\ PoolLive(p) \in Nat /\ Unsettled(p) \in Nat
        /\ Pending(p) \in Nat /\ used_memory[p] \in Nat
    BY PoolTypes DEF MisuseInv
  <2>2. Claimed(p)' = Claimed(p) + IF p = pool[t] THEN n ELSE 0
    BY <1>2, <1>3, <1>5, <2>1, ClaimedChange DEF MisuseInv
  <2>3. PoolLive(p)' = PoolLive(p) - IF p = tag[b] THEN n ELSE 0
    BY <1>2, <1>4, <1>5, <2>1, PoolLiveChange DEF MisuseInv
  <2>4. Unsettled(p)' = Unsettled(p)
    BY <1>3, <1>5, UnsettledChange DEF MisuseInv
  <2>5. Pending(p)' = Pending(p)
    BY <1>3, <1>5, PendingChange DEF MisuseInv
  <2>6. QED
    BY <2>1, <2>2, <2>3, <2>4, <2>5
<1>7. /\ Claimed(ExecPool)' + Claimed(StoragePool)'
           = Claimed(ExecPool) + Claimed(StoragePool) + n
      /\ LiveBytes' = LiveBytes - n
  BY <1>2, <1>6 DEF LiveBytes, Pool, ExecPool, StoragePool
<1>8. /\ Charged' = Charged + 0 /\ CounterSum' = CounterSum + 0
      /\ TotalExposure' <= TotalExposure /\ LiveBytes' <= LiveBytes
      /\ LiveBytes \in Nat /\ LiveBytes' \in Nat
  <2>1. LiveBytes \in Nat /\ n \in Nat
    BY <1>2, LiveBytesType DEF MisuseInv, SafeInv
  <2>2. ExecPool \in Pool /\ StoragePool \in Pool
    BY DEF Pool
  <2>3. Charged' = Charged + 0
    BY <1>6, <1>7, <2>1, <2>2 DEF Charged
  <2>4. CounterSum' = CounterSum + 0
    BY <1>6, <2>2 DEF CounterSum, policy_vars
  <2>5. TotalExposure' <= TotalExposure
    BY <1>6, <2>1, <2>2, <2>3 DEF TotalExposure, Charged
  <2>6. LiveBytes' \in Nat
    <3>1. PoolLive(ExecPool)' \in Nat /\ PoolLive(StoragePool)' \in Nat
      BY <1>4, <2>2, PoolLiveChange, Zenon DEF MisuseInv
    <3>2. QED
      BY <3>1 DEF LiveBytes
  <2>7. QED
    BY <1>7, <2>1, <2>3, <2>4, <2>5, <2>6
<1>9. HeapInv'
  BY <1>8, MemMgrAssumption DEF MisuseInv, HeapInv
<1>10. QED
  BY <1>8, <1>9, MisuseFollows DEF policy_vars

(* A request becomes a live block and an excess still to be settled, which *)
(* had been allowed for.                                                   *)
LEMMA MisuseJeMalloc ==
  ASSUME MisuseInv, SafeInv', NEW t \in Threads, NEW b \in Blocks,
         NEW s \in UsableSizes(num_bytes[t]), JeMalloc(t, b, s)
  PROVE  MisuseInv'
<1> USE DEF JeMalloc, Goto
<1> DEFINE n == num_bytes[t]
           Mine(p, k) == IF p = pool[t] THEN k ELSE 0
<1>1. /\ pool[t] \in Pool /\ n \in Nat /\ pc'[t] = "settle"
      /\ s \in Nat /\ n <= s /\ s - n <= MaxSlack /\ MaxSlack \in Nat
  BY MemMgrAssumption DEF MisuseInv, SafeInv, TypeOK, SizeT, UsableSizes
<1>2. \A u \in Threads : pc[u] = "settle" => ptr[u] # b
  BY MemMgrAssumption
  DEF MisuseInv, SafeInv, TypeOK, FrameInv, CallInv, BlockInv
<1>3. OnlyMoves(t)
  BY <1>2 DEF OnlyMoves, MisuseInv, SafeInv, TypeOK
<1>4. \A c \in Blocks \ {b} : heap'[c] = heap[c] /\ tag'[c] = tag[c]
  BY DEF MisuseInv, SafeInv, TypeOK
<1>5. ASSUME NEW p \in Pool
      PROVE  /\ Claimed(p)' = Claimed(p) - Mine(p, n)
             /\ Unsettled(p)' = Unsettled(p) + Mine(p, s - n)
             /\ Pending(p)' = Pending(p) - Mine(p, MaxSlack)
             /\ PoolLive(p)' = PoolLive(p) + Mine(p, s)
  <2>1. /\ ClaimOf(t, p) = Mine(p, n) /\ ClaimOf(t, p)' = 0
        /\ ExcessOf(t, p) = 0 /\ ExcessOf(t, p)' = Mine(p, s - n)
        /\ PendingOf(t, p) = Mine(p, MaxSlack) /\ PendingOf(t, p)' = 0
    <3>1. heap'[ptr'[t]] = s /\ num_bytes'[t] = n
      BY DEF MisuseInv, SafeInv, TypeOK
    <3>2. QED
      BY <1>1, <3>1, Shares DEF ClaimPoints
  <2>2. LiveOf(b, p) = 0 /\ LiveOf(b, p)' = Mine(p, s)
    BY DEF MisuseInv, SafeInv, TypeOK, LiveOf, Share
  <2>3. /\ Claimed(p) \in Nat /\ PoolLive(p) \in Nat /\ Unsettled(p) \in Nat
        /\ Pending(p) \in Nat
    BY PoolTypes DEF MisuseInv
  <2>4. Mine(p, n) \in Nat /\ Mine(p, s - n) \in Nat /\ Mine(p, s) \in Nat
        /\ Mine(p, MaxSlack) \in Nat
    BY <1>1
  <2> HIDE DEF n, Mine
  <2>5. Claimed(p)' = Claimed(p) - Mine(p, n)
    BY <1>3, <2>1, <2>3, <2>4, ClaimedChange DEF MisuseInv
  <2>6. Unsettled(p)' = Unsettled(p) + Mine(p, s - n)
    BY <1>3, <2>1, <2>3, <2>4, UnsettledChange DEF MisuseInv
  <2>7. Pending(p)' = Pending(p) - Mine(p, MaxSlack)
    BY <1>3, <2>1, <2>3, <2>4, PendingChange DEF MisuseInv
  <2>8. PoolLive(p)' = PoolLive(p) + Mine(p, s)
    BY <1>4, <2>2, <2>3, <2>4, PoolLiveChange DEF MisuseInv
  <2>9. QED
    BY <2>5, <2>6, <2>7, <2>8
<1>6. \A p \in Pool : /\ used_memory[p] \in Nat /\ Unsettled(p) \in Nat
                      /\ Claimed(p) \in Nat /\ PoolLive(p) \in Nat
                      /\ Pending(p) \in Nat
  BY PoolTypes DEF MisuseInv
<1>7. /\ Claimed(ExecPool)' + Claimed(StoragePool)'
           = Claimed(ExecPool) + Claimed(StoragePool) - n
      /\ Unsettled(ExecPool)' + Unsettled(StoragePool)'
           = Unsettled(ExecPool) + Unsettled(StoragePool) + (s - n)
      /\ Pending(ExecPool)' + Pending(StoragePool)'
           = Pending(ExecPool) + Pending(StoragePool) - MaxSlack
      /\ PoolLive(ExecPool)' + PoolLive(StoragePool)'
           = PoolLive(ExecPool) + PoolLive(StoragePool) + s
  <2>1. CASE pool[t] = ExecPool
    BY <1>1, <1>5, <1>6, <2>1 DEF Pool, ExecPool, StoragePool
  <2>2. CASE pool[t] = StoragePool
    BY <1>1, <1>5, <1>6, <2>2 DEF Pool, ExecPool, StoragePool
  <2>3. QED
    BY <1>1, <2>1, <2>2 DEF Pool
<1>8. ExecPool \in Pool /\ StoragePool \in Pool
  BY DEF Pool
<1>9. \A p \in Pool : /\ Unsettled(p)' \in Nat /\ Claimed(p)' \in Nat
                      /\ PoolLive(p)' \in Nat /\ Pending(p)' \in Nat
  BY <1>3, <1>4, ClaimedChange, UnsettledChange, PendingChange, PoolLiveChange,
     Zenon DEF MisuseInv
<1> HIDE DEF n
<1>10. /\ LiveBytes' = LiveBytes + s /\ Charged' = Charged + (s - n)
       /\ CounterSum' = CounterSum + (s - n)
       /\ TotalExposure' <= TotalExposure
  BY <1>1, <1>6, <1>7, <1>8, <1>9
  DEF Charged, CounterSum, TotalExposure, LiveBytes, policy_vars
<1>11. HeapInv'
  BY <1>10 DEF HeapInv
<1>12. s - n \in Int
  BY <1>1
<1>13. QED
  BY <1>10, <1>11, <1>12, MisuseFollows DEF policy_vars

(* The sum policyMgrAlloc compares with the total is what is charged, less *)
(* the excesses not settled yet: a grant keeps to the total.               *)
LEMMA TotalTested ==
  ASSUME MisuseInv, NEW p \in Pool, NEW n \in SizeT,
         Admits(p, n, used_memory)
  PROVE  Charged + n <= total_memory + Unsettled(ExecPool)
                        + Unsettled(StoragePool)
<1> DEFINE sum == used_memory[ExecPool] + used_memory[StoragePool]
           uns == Unsettled(ExecPool) + Unsettled(StoragePool)
<1>1. /\ total_memory \in Nat /\ total_memory < SizeMod
      /\ total_pool_mem[StoragePool] \in Nat
      /\ total_pool_mem[StoragePool] <= total_memory
      /\ n \in Nat /\ SizeMod \in Nat
  BY SizeModAssumption
  DEF MisuseInv, SafeInv, TypeOK, PolicyTypeOK, SizeT, Pool, QuotaInv
<1>2. n <= total_memory
  <2>1. CASE p = ExecPool
    BY <2>1 DEF Admits
  <2>2. CASE p = StoragePool
    BY <1>1, <2>2 DEF Admits, ExecPool, StoragePool
  <2>3. QED
    BY <2>1, <2>2 DEF Pool
<1>3. Word(total_memory - n) = total_memory - n
  BY <1>1, <1>2, WordExact, SizeModAssumption DEF SizeT
<1>4. Word(sum) <= total_memory - n
  BY <1>3, WordType DEF Admits
<1>5. /\ Charged \in Nat /\ uns \in Nat /\ uns <= Charged
      /\ 2 * Charged < SizeMod /\ sum \in Nat
      /\ sum + uns \in {Charged, Charged + SizeMod}
  <2>1. SumsBounded
    BY SumBounds DEF MisuseInv
  <2>2. \A q \in Pool : used_memory[q] \in Nat /\ Unsettled(q) \in Nat
    BY PoolTypes DEF MisuseInv
  <2>3. sum + uns = CounterSum
    BY <2>2 DEF CounterSum, Pool
  <2>4. QED
    BY <2>1, <2>2, <2>3 DEF SumsBounded, MisuseInv, CounterSumInv, Pool
<1> HIDE DEF sum, uns
<1>6. Word(sum) = Charged - uns
  <2>1. CASE sum = Charged - uns
    BY <1>1, <1>5, <2>1, WordExact DEF SizeT
  <2>2. CASE sum = Charged - uns + SizeMod
    <3>1. sum >= SizeMod /\ sum < 2 * SizeMod
      BY <1>1, <1>5, <2>2
    <3>2. Word(sum) = sum - SizeMod
      BY <1>1, <1>5, <3>1, SizeModAssumption DEF Word
    <3>3. QED
      BY <1>1, <1>5, <2>2, <3>2
  <2>3. QED
    BY <1>1, <1>5, <2>1, <2>2
<1>7. Charged + n <= total_memory + uns
  BY <1>1, <1>4, <1>5, <1>6
<1>8. Unsettled(ExecPool) \in Nat /\ Unsettled(StoragePool) \in Nat
  BY PoolTypes DEF MisuseInv, Pool
<1>9. QED
  BY <1>1, <1>5, <1>7, <1>8 DEF uns

LEMMA MisuseReserve ==
  ASSUME MisuseInv, SafeInv', NEW t \in Threads, Reserve(t)
  PROVE  MisuseInv'
<1> USE DEF Reserve, Goto
<1> DEFINE n == num_bytes[t]
           Mine(p, k) == IF p = pool[t] THEN k ELSE 0
<1>1. /\ pool[t] \in Pool /\ n \in SizeT /\ n \in Nat /\ n < SizeMod
      /\ pc'[t] = "malloc"
  BY SizeModAssumption DEF MisuseInv, SafeInv, TypeOK, SizeT
<1>2. OnlyMoves(t)
  BY DEF OnlyMoves, MisuseInv, SafeInv, TypeOK, heap_vars
<1>3. ASSUME NEW p \in Pool
      PROVE  /\ Claimed(p)' = Claimed(p) + Mine(p, n)
             /\ Unsettled(p)' = Unsettled(p)
             /\ PoolLive(p)' = PoolLive(p)
             /\ Pending(p)' \in Nat
  <2>1. /\ ClaimOf(t, p) = 0 /\ ClaimOf(t, p)' = Mine(p, n)
        /\ ExcessOf(t, p)' = ExcessOf(t, p)
    BY <1>1, Shares DEF ClaimPoints
  <2> HIDE DEF n, Mine
  <2>2. Claimed(p) \in Nat
    BY PoolTypes DEF MisuseInv
  <2>3. Claimed(p)' = Claimed(p) + Mine(p, n)
    BY <1>2, <2>1, <2>2, ClaimedChange DEF MisuseInv
  <2>4. Unsettled(p)' = Unsettled(p)
    BY <1>2, <2>1, UnsettledChange DEF MisuseInv
  <2>5. Pending(p)' \in Nat
    BY <1>2, PendingChange DEF MisuseInv
  <2>6. QED
    BY <2>3, <2>4, <2>5, HeapUnchanged
<1>4. \A p \in Pool : /\ used_memory[p] \in SizeT /\ used_memory[p] \in Nat
                      /\ used_memory[p] < SizeMod
                      /\ Unsettled(p) \in Nat /\ Claimed(p) \in Nat
                      /\ PoolLive(p) \in Nat
  BY PoolTypes DEF MisuseInv
<1> DEFINE v == used_memory'[pool[t]]
           u == used_memory[pool[t]]
<1>5. /\ \A p \in Pool : p # pool[t] => used_memory'[p] = used_memory[p]
      /\ v \in {u + n - SizeMod, u + n, u + n + SizeMod}
  <2>1. used_memory' = [used_memory EXCEPT ![pool[t]] = Word(@ + n)]
    BY DEF PolicyMgrAlloc
  <2>2. v = Word(u + n) /\ \A p \in Pool : p # pool[t] =>
                              used_memory'[p] = used_memory[p]
    BY <1>1, <2>1 DEF MisuseInv, SafeInv, TypeOK, PolicyTypeOK
  <2>3. /\ u \in Int /\ n \in Int /\ SizeMod \in Int
        /\ - SizeMod <= u + n /\ u + n < 2 * SizeMod
    BY <1>1, <1>4, SizeModAssumption
  <2> HIDE DEF u, v, n, Reserve, Goto
  <2>4. Word(u + n) \in {u + n - SizeMod, u + n, u + n + SizeMod}
    BY <2>3, WordNear
  <2>5. QED
    BY <2>2, <2>3, <2>4
<1>6. /\ LiveBytes' = LiveBytes /\ Charged' = Charged + n
      /\ CounterSum' \in {CounterSum + n - SizeMod, CounterSum + n,
                          CounterSum + n + SizeMod}
  <2>1. CASE pool[t] = ExecPool
    <3>1. /\ Claimed(ExecPool)' = Claimed(ExecPool) + n
          /\ Claimed(StoragePool)' = Claimed(StoragePool)
          /\ v = used_memory'[ExecPool] /\ u = used_memory[ExecPool]
          /\ used_memory'[StoragePool] = used_memory[StoragePool]
      BY <1>3, <1>4, <1>5, <2>1 DEF Pool, ExecPool, StoragePool
    <3> HIDE DEF n, u, v
    <3>2. QED
      BY <1>1, <1>3, <1>4, <1>5, <3>1, SizeModAssumption
      DEF Pool, Charged, CounterSum, LiveBytes
  <2>2. CASE pool[t] = StoragePool
    <3>1. /\ Claimed(StoragePool)' = Claimed(StoragePool) + n
          /\ Claimed(ExecPool)' = Claimed(ExecPool)
          /\ v = used_memory'[StoragePool] /\ u = used_memory[StoragePool]
          /\ used_memory'[ExecPool] = used_memory[ExecPool]
      BY <1>3, <1>4, <1>5, <2>2 DEF Pool, ExecPool, StoragePool
    <3> HIDE DEF n, u, v
    <3>2. QED
      BY <1>1, <1>3, <1>4, <1>5, <3>1, SizeModAssumption
      DEF Pool, Charged, CounterSum, LiveBytes
  <2>3. QED
    BY <1>1, <2>1, <2>2 DEF Pool
<1>7. HeapInv'
  BY <1>6 DEF MisuseInv, HeapInv
<1>8. CounterSumInv'
  <2>1. n \in Int
    BY <1>1
  <2> HIDE DEF n
  <2>2. QED
    BY <1>6, <1>7, <2>1, CountersFollow
<1>9. TotalExposureInv'
  <2> DEFINE most == MaxSlack * Cardinality(Threads)
  <2>1. Charged + n <= total_memory + Unsettled(ExecPool)
                       + Unsettled(StoragePool)
    BY <1>1, TotalTested
  <2>2. Unsettled(ExecPool)' + Pending(ExecPool)'
        + Unsettled(StoragePool)' + Pending(StoragePool)' <= most
    BY SlackBoundNext DEF SlackBounded
  <2>3. most \in Nat /\ total_memory \in Nat
    BY MemMgrAssumption, ThreadCount
    DEF MisuseInv, SafeInv, TypeOK, PolicyTypeOK, SizeT
  <2>4. Charged \in Nat
    BY SumBounds DEF MisuseInv, SumsBounded
  <2>5. ExecPool \in Pool /\ StoragePool \in Pool
    BY DEF Pool
  <2>6. /\ Pending(ExecPool)' \in Nat /\ Pending(StoragePool)' \in Nat
        /\ Unsettled(ExecPool)' = Unsettled(ExecPool)
        /\ Unsettled(StoragePool)' = Unsettled(StoragePool)
        /\ Unsettled(ExecPool) \in Nat /\ Unsettled(StoragePool) \in Nat
    BY <1>3, <1>4, <2>5
  <2> HIDE DEF most, n
  <2>7. TotalExposure' <= total_memory + most
    BY <1>1, <1>6, <2>1, <2>2, <2>3, <2>4, <2>6 DEF TotalExposure
  <2>8. QED
    BY <2>7 DEF TotalExposureInv, most
<1>10. QED
  BY <1>7, <1>8, <1>9 DEF MisuseInv, QuotaInv

-----------------------------------------------------------------------------
(* The invariant, and what it gives.                                       *)

LEMMA MisuseInit == Init => MisuseInv
<1> SUFFICES ASSUME Init
             PROVE  MisuseInv
  OBVIOUS
<1>1. IInv
  BY IInvInit
<1>2. SafeInv /\ HeapInv /\ QuotaInv
  BY <1>1 DEF IInv, SafeInv, SumInv
<1>3. \A p \in Pool : /\ used_memory[p] \in Nat /\ Unsettled(p) \in Nat
                      /\ Claimed(p) \in Nat /\ PoolLive(p) \in Nat
                      /\ Pending(p) \in Nat
                      /\ used_memory[p] + Unsettled(p)
                           = PoolLive(p) + Claimed(p)
  BY <1>1, <1>2, PoolTypes DEF IInv, SumInv, Accounting
<1>4. ExecPool \in Pool /\ StoragePool \in Pool
  BY DEF Pool
<1>5. CounterSum = Charged
  BY <1>3, <1>4 DEF CounterSum, Charged, LiveBytes
<1>6. TotalExposure = Exposure(ExecPool) + Exposure(StoragePool)
  BY <1>3, <1>4 DEF TotalExposure, Charged, LiveBytes, Exposure
<1>7. TotalExposureInv
  BY <1>1, <1>6 DEF TotalExposureInv, IInv, SumInv, ExposureInv
<1>8. QED
  BY <1>2, <1>5, <1>7 DEF MisuseInv, CounterSumInv

LEMMA MisuseStutter == MisuseInv /\ UNCHANGED vars => MisuseInv'
<1> SUFFICES ASSUME MisuseInv, UNCHANGED vars
             PROVE  MisuseInv'
  OBVIOUS
<1>1. SafeInv'
  BY SafeStutter DEF MisuseInv
<1> USE DEF vars, policy_vars, call_vars, heap_vars
<1>2. \A p : /\ Unsettled(p)' = Unsettled(p) /\ Claimed(p)' = Claimed(p)
             /\ Pending(p)' = Pending(p) /\ PoolLive(p)' = PoolLive(p)
  BY DEF Unsettled, Claimed, Pending, PoolLive, Excess, Callers, SumOver,
         BytesOf
<1>3. QED
  BY <1>1, <1>2
  DEF MisuseInv, HeapInv, QuotaInv, CounterSumInv, CounterSum, Charged,
      TotalExposureInv, TotalExposure, LiveBytes

LEMMA MisuseKeeps == MisuseInv /\ [MisuseNext]_vars => MisuseInv'
<1> SUFFICES ASSUME MisuseInv, [MisuseNext]_vars
             PROVE  MisuseInv'
  OBVIOUS
<1>1. SafeInv'
  BY SafeMisuse DEF MisuseInv
<1>2. CASE UNCHANGED vars
  BY <1>2, MisuseStutter
<1>3. ASSUME NEW t \in Threads, Caller(t)
      PROVE  MisuseInv'
  BY <1>1, <1>3, MisuseEnter DEF Caller
<1>4. ASSUME NEW t \in Threads, Step(t)
      PROVE  MisuseInv'
  BY <1>1, <1>4, MisuseEnter, MisuseReserve, MisuseJeMalloc, MisuseSettle,
     MisuseGiveBack, MisuseJeFree DEF Step
<1>5. ASSUME NEW t \in Threads, NEW b \in Blocks, CallFreeOther(t, b)
      PROVE  MisuseInv'
  BY <1>1, <1>5, MisuseEnter
<1>6. QED
  BY <1>2, <1>3, <1>4, <1>5 DEF MisuseNext, Next

LEMMA MisuseHolds == MisuseSpec => []MisuseInv
BY MisuseInit, MisuseKeeps, PTL DEF MisuseSpec

(* Whichever routines the blocks go back through, the sum that             *)
(* policyMgrAlloc computes in a size_t is exact at every instant, although *)
(* one of its terms may have gone below zero and wrapped.                  *)
THEOREM TotalIsAccounted == MisuseSpec => []TotalAccounted
<1>1. ASSUME MisuseInv
      PROVE  TotalAccounted
  <2>1. /\ Charged \in Nat /\ 2 * Charged < SizeMod
        /\ CounterSum \in {Charged, Charged + SizeMod}
    BY <1>1, SumBounds DEF MisuseInv, SumsBounded, CounterSumInv
  <2>2. Word(CounterSum) = Charged
    <3>1. CASE CounterSum = Charged
      BY <2>1, <3>1, WordExact, SizeModAssumption DEF SizeT
    <3>2. CASE CounterSum = Charged + SizeMod
      BY <2>1, <3>2, SizeModAssumption DEF Word
    <3>3. QED
      BY <2>1, <3>1, <3>2
  <2>3. QED
    BY <2>2 DEF TotalAccounted, CounterSum, Charged
<1>2. QED
  BY <1>1, MisuseHolds, PTL

(* Blocks returned through the wrong pool never let live memory pass the   *)
(* total by more than one excess for each thread: the last test of         *)
(* policyMgrAlloc holds the system's limit when the pools' shares are      *)
(* gone.                                                                   *)
THEOREM MisuseKeepsBudget == MisuseSpec => []MisuseWithinBudget
<1>1. ASSUME MisuseInv
      PROVE  MisuseWithinBudget
  <2> DEFINE most == total_memory + MaxSlack * Cardinality(Threads)
  <2>1. TotalExposure <= most /\ most \in Nat
    BY <1>1, MemMgrAssumption, ThreadCount
    DEF MisuseInv, TotalExposureInv, SafeInv, TypeOK, PolicyTypeOK, SizeT
  <2>2. \A p \in Pool : /\ Claimed(p) \in Nat /\ Pending(p) \in Nat
                        /\ PoolLive(p) \in Nat
    BY <1>1, PoolTypes DEF MisuseInv
  <2>3. ExecPool \in Pool /\ StoragePool \in Pool
    BY DEF Pool
  <2> HIDE DEF most
  <2>4. LiveBytes <= most
    BY <2>1, <2>2, <2>3 DEF TotalExposure, Charged, LiveBytes
  <2>5. QED
    BY <2>4 DEF MisuseWithinBudget, most
<1>2. QED
  BY <1>1, MisuseHolds, PTL
=============================================================================
