------------------------- MODULE TestProgramsProofs -------------------------
(***************************************************************************)
(* What the test program relies on, for any tests that free what they keep *)
(* and any number of failures of je_malloc: between two calls of setUp the *)
(* manager, seen without the blocks that were lost before, is the manager  *)
(* of MemMgr, started anew.                                                *)
(***************************************************************************)
EXTENDS TestPrograms, MemMgrProofs

(* The heap of the running test.                                           *)
session_heap == [b \in Blocks |-> IF b \in lost THEN 0 ELSE heap[b]]
session_tag == [b \in Blocks |-> IF b \in lost THEN NoPool ELSE tag[b]]

Session == INSTANCE MemMgrProofs
  WITH Totals <- SizeT, heap <- session_heap, tag <- session_tag,
       held <- held \ lost

HeapTypeOK ==
  /\ heap \in [Blocks -> Nat]
  /\ tag \in [Blocks -> Pool \cup {NoPool}]
  /\ held \subseteq Blocks
  /\ lost \subseteq {b \in Blocks : heap[b] > 0}

(* Where main and Unity are; the mutex lives from setUp to tearDown.       *)
ControlInv ==
  /\ at \in {"outside", "main", "setUp", "test", "tearDown", "conclude"}
  /\ suite \in 0 .. Len(Suites) /\ (at # "outside" => suite > 0)
  /\ test \in Nat \ {0}
  /\ at \in {"setUp", "test", "tearDown", "conclude"} => test <= Len(Tests)
  /\ line \in Nat \ {0}
  /\ at = "setUp" => line = 1
  /\ at = "test" => line <= Len(Script) + 1
  /\ slot \in [Slots -> Blocks \cup {NULL}]
  /\ mutex \in BOOLEAN /\ (mutex <=> at \in {"test", "tearDown"})
  /\ at \in {"main", "setUp", "test"} =>
       CurrentTestFailed = 0 /\ CurrentTestIgnored = 0

(* A call in progress is the one its test's instruction made.              *)
PhaseInv ==
  \A t \in Threads :
    /\ pc[t] # "idle" => at = "test" /\ line <= Len(Script)
    /\ pc[t] \in {"decide", "malloc", "settle", "rollback"} =>
         Now.op = "alloc" /\ pool[t] = Now.pool /\ num_bytes[t] = Now.size
    /\ pc[t] \in {"free", "refund"} => Now.op = "free"
    /\ pc[t] = "free" => ptr[t] = slot[Now.slot]
    /\ pc[t] = "refund" => slot[Now.slot] \in Blocks /\ heap[slot[Now.slot]] = 0
    /\ pc[t] = "idle" => num_bytes[t] = 0

(* What the test has obtained is not what earlier tests left behind.       *)
SlotInv ==
  at = "test" =>
    \A j \in 1 .. line - 1 :
      Script[j].op = "alloc" => slot[Script[j].slot] \notin lost

(* The block b that instruction i obtained is still there for the test to  *)
(* free; if it was to be refused, that is the next thing tested.           *)
Keeps(i, b) ==
  /\ Script[i].op = "alloc" /\ slot[Script[i].slot] = b
  /\ \A k \in i + 1 .. line - 1 :
       Script[k].op \in {"alloc", "free"} => Script[k].slot # Script[i].slot
  /\ ExpectsNull(Script, i) => line = i + 1

(* A block of the running test is in the hands of a call or kept by it.    *)
KeptInv ==
  at = "test" =>
    \A b \in Blocks \ lost :
      heap[b] > 0 =>
        \/ \E t \in Threads : pc[t] \in {"settle", "free"} /\ ptr[t] = b
        \/ \E i \in 1 .. line - 1 : Keeps(i, b)

FreedInv ==
  at \in {"tearDown", "conclude"} /\ CurrentTestFailed = 0 =>
    \A b \in Blocks \ lost : heap[b] = 0

ProgramInv ==
  /\ HeapTypeOK /\ ControlInv /\ PhaseInv /\ SlotInv /\ KeptInv /\ FreedInv
  /\ Session!IInv

-----------------------------------------------------------------------------
(* The instance of MemMgr and the module it is an instance of.             *)

LEMMA SessionConstants ==
  /\ Session!Pool = Pool /\ Session!SizeT = SizeT
  /\ Session!ExecPool = ExecPool /\ Session!StoragePool = StoragePool
  /\ \A S : Session!Cardinality(S) = Cardinality(S)
  /\ \A S : Session!IsFiniteSet(S) <=> IsFiniteSet(S)
  /\ \A S, f : Session!SumOver(S, f) = SumOver(S, f)
<1>1. /\ Session!Pool = Pool /\ Session!SizeT = SizeT
      /\ Session!ExecPool = ExecPool /\ Session!StoragePool = StoragePool
  BY DEF Session!Pool, Pool, Session!ExecPool, ExecPool, Session!StoragePool,
         StoragePool, Session!SizeT, SizeT
<1>2. \A S : Session!Cardinality(S) = Cardinality(S)
  BY DEF Session!Cardinality, Cardinality
<1>3. \A S : Session!IsFiniteSet(S) <=> IsFiniteSet(S)
  BY DEF Session!IsFiniteSet, IsFiniteSet
<1>4. \A S, f : Session!SumOver(S, f) = SumOver(S, f)
  BY <1>2 DEF Session!SumOver, SumOver, Session!BytesOf, BytesOf
<1>5. QED
  BY <1>1, <1>2, <1>3, <1>4

LEMMA SessionOperators ==
  /\ \A n : Session!UsableSizes(n) = UsableSizes(n)
  /\ \A n : Session!AsSigned(Session!Word(n)) = AsSigned(Word(n))
  /\ \A n : Session!PoolSplit(n) = PoolSplit(n)
  /\ \A p, n, u : Session!Admits(p, n, u) <=> Admits(p, n, u)
  /\ \A p, n, u : Session!PolicyMgrAlloc(p, n, u) = PolicyMgrAlloc(p, n, u)
  /\ \A p, n, u : Session!PolicyMgrAdjustAlloc(p, n, u)
                    = PolicyMgrAdjustAlloc(p, n, u)
<1> USE DEF Word, Session!Word, AsSigned, Session!AsSigned
<1>1. \A n : Session!UsableSizes(n) = UsableSizes(n)
  BY DEF UsableSizes, Session!UsableSizes
<1>2. \A n : Session!AsSigned(Session!Word(n)) = AsSigned(Word(n))
  OBVIOUS
<1>3. \A n : Session!PoolSplit(n) = PoolSplit(n)
  BY SessionConstants
  DEF PoolSplit, Session!PoolSplit, ExecPoolQuota, Session!ExecPoolQuota
<1>4. \A p, n, u : Session!Admits(p, n, u) <=> Admits(p, n, u)
  BY SessionConstants DEF Admits, Session!Admits
<1>5. /\ \A p, n, u : Session!PolicyMgrAlloc(p, n, u) = PolicyMgrAlloc(p, n, u)
      /\ \A p, n, u : Session!PolicyMgrAdjustAlloc(p, n, u)
                        = PolicyMgrAdjustAlloc(p, n, u)
  BY DEF PolicyMgrAlloc, Session!PolicyMgrAlloc, PolicyMgrAdjustAlloc,
         Session!PolicyMgrAdjustAlloc
<1>6. QED
  BY <1>1, <1>2, <1>3, <1>4, <1>5

(* What the theorems of MemMgr assume.                                     *)
LEMMA SessionAssumptions ==
  /\ SizeMod \in Nat /\ SizeMod > 1
  /\ /\ MinReq \in [Session!Pool -> Session!SizeT]
     /\ MaxReq \in [Session!Pool -> Session!SizeT]
     /\ \A p \in Session!Pool : 0 < MinReq[p] /\ MinReq[p] <= MaxReq[p]
  /\ /\ Session!IsFiniteSet(Threads) /\ Session!IsFiniteSet(Blocks)
     /\ NULL \notin Blocks /\ NoPool \notin Session!Pool
     /\ SizeT \subseteq Session!SizeT /\ Requests \subseteq Session!SizeT
     /\ HeapBytes \in Nat /\ MaxSlack \in Nat
  /\ \A p \in Session!Pool :
       2 * (HeapBytes + Session!Cardinality(Threads) * (MaxReq[p] + MaxSlack))
         < SizeMod
BY SessionConstants, SizeModAssumption, ReqSizeAssumption, MemMgrAssumption,
   CapacityAssumption

LEMMA SessionStarts == Session!Init => Session!IInv
BY SessionAssumptions, Session!IInvInit

LEMMA SessionContinues ==
  Session!IInv /\ [Session!Next]_Session!vars => Session!IInv'
BY SessionAssumptions, Session!IInvNext

(* What the session knows of the calls in progress.                        *)
LEMMA InvTypes ==
  ASSUME ProgramInv
  PROVE  /\ PolicyTypeOK
         /\ pc \in [Threads -> PC] /\ pool \in [Threads -> Pool \cup {NoPool}]
         /\ num_bytes \in [Threads -> SizeT]
         /\ ptr \in [Threads -> Blocks \cup {NULL}]
         /\ \A t \in Threads :
              /\ pc[t] = "idle" <=> pool[t] = NoPool
              /\ pc[t] \in {"settle", "free"} <=> ptr[t] # NULL
              /\ pc[t] \in {"settle", "free"} => ptr[t] \in Blocks \ lost
              /\ pc[t] = "malloc" =>
                   num_bytes[t] \in MinReq[pool[t]] .. MaxReq[pool[t]]
         /\ \A b \in Blocks \ lost : heap[b] = 0 <=> tag[b] = NoPool
<1>1. Session!TypeOK /\ Session!FrameInv /\ HeapTypeOK
  BY DEF ProgramInv, Session!IInv
<1>2. /\ PolicyTypeOK
      /\ pc \in [Threads -> PC] /\ pool \in [Threads -> Pool \cup {NoPool}]
      /\ num_bytes \in [Threads -> SizeT]
      /\ ptr \in [Threads -> Blocks \cup {NULL}]
      /\ \A t \in Threads :
           /\ pc[t] = "idle" <=> pool[t] = NoPool
           /\ pc[t] \in {"settle", "free"} <=> ptr[t] # NULL
  BY <1>1, SessionConstants
  DEF Session!TypeOK, PolicyTypeOK, Session!PolicyTypeOK, PC, Session!PC
<1>3. ASSUME NEW t \in Threads, pc[t] \in {"settle", "free"}
      PROVE  ptr[t] \in Blocks \ lost
  <2>1. ptr[t] \in Blocks /\ session_tag[ptr[t]] \in Pool
    BY <1>1, <1>2, <1>3, SessionConstants DEF Session!FrameInv, Session!CallInv
  <2>2. QED
    BY <2>1, MemMgrAssumption DEF session_tag
<1>4. \A t \in Threads :
        pc[t] = "malloc" => num_bytes[t] \in MinReq[pool[t]] .. MaxReq[pool[t]]
  BY <1>1 DEF Session!FrameInv, Session!CallInv
<1>5. \A b \in Blocks \ lost : heap[b] = 0 <=> tag[b] = NoPool
  BY <1>1, SessionConstants
  DEF Session!FrameInv, Session!BlockInv, session_heap, session_tag
<1>6. QED
  BY <1>2, <1>3, <1>4, <1>5

-----------------------------------------------------------------------------
(* The bytes of the session are those of the blocks that are not lost.     *)

LEMMA SessionBytes ==
  ASSUME NEW p \in Pool
  PROVE  Session!PoolLive(p) = SumOver({b \in Blocks \ lost : tag[b] = p}, heap)
<1>1. {b \in Blocks : session_tag[b] = p} = {b \in Blocks \ lost : tag[b] = p}
  BY MemMgrAssumption DEF session_tag
<1>2. \A b \in {c \in Blocks \ lost : tag[c] = p} : session_heap[b] = heap[b]
  BY DEF session_heap
<1>3. SumOver({b \in Blocks \ lost : tag[b] = p}, session_heap)
        = SumOver({b \in Blocks \ lost : tag[b] = p}, heap)
  BY <1>2, SumSame
<1>4. QED
  BY <1>1, <1>3, SessionConstants DEF Session!PoolLive

(* There is no less room for the session than for all blocks.              *)
LEMMA SessionRoom ==
  ASSUME HeapTypeOK
  PROVE  /\ Session!LiveBytes \in Nat /\ LiveBytes \in Nat
         /\ Session!LiveBytes <= LiveBytes
<1>1. ASSUME NEW p \in Pool
      PROVE  /\ Session!PoolLive(p) \in Nat /\ PoolLive(p) \in Nat
             /\ Session!PoolLive(p) <= PoolLive(p)
  <2> DEFINE S == {b \in Blocks : tag[b] = p}
             T == {b \in Blocks \ lost : tag[b] = p}
             h == [b \in T |-> b]
  <2>1. IsFiniteSet(S) /\ IsFiniteSet(T)
    BY MemMgrAssumption, FS_Subset
  <2>2. \A b \in S : heap[b] \in Nat
    BY DEF HeapTypeOK
  <2>3. /\ h \in [T -> S] /\ \A x, y \in T : h[x] = h[y] => x = y
        /\ \A x \in T : heap[x] \in Nat /\ heap[x] <= heap[h[x]]
    BY <2>2
  <2> HIDE DEF h
  <2>4. SumOver(T, heap) <= SumOver(S, heap)
    BY <2>1, <2>2, <2>3, SumInjection
  <2>5. SumOver(T, heap) \in Nat /\ SumOver(S, heap) \in Nat
    BY <2>1, <2>2, SumType
  <2>6. QED
    BY <2>4, <2>5, SessionBytes DEF PoolLive
<1>2. ExecPool \in Pool /\ StoragePool \in Pool
  BY DEF Pool
<1>3. QED
  BY <1>1, <1>2, SessionConstants DEF LiveBytes, Session!LiveBytes

-----------------------------------------------------------------------------
(* Every step of the program is a step of the session, or starts another.  *)

(* The script that runs is one of those of src/tests.c.                    *)
LEMMA ScriptType ==
  ASSUME ControlInv, at \in {"setUp", "test"}
  PROVE  /\ Len(Script) \in Nat
         /\ \A i \in 1 .. Len(Script) :
              /\ Script[i] \in Instructions
              /\ Script[i].slot \in Slots
              /\ Script[i].op \in {"alloc", "free", "null", "block", "size"}
         /\ FreesWhatItKeeps(Script) /\ ServedClosely(Script)
<1>1. suite \in 1 .. Len(Suites) /\ test \in 1 .. Len(Tests)
  BY DEF ControlInv
<1>2. /\ Script \in Seq(Instructions)
      /\ FreesWhatItKeeps(Script) /\ ServedClosely(Script)
  BY <1>1, TestsAssumption DEF Script, Tests
<1>3. \A x \in Instructions :
        /\ x.slot \in Slots
        /\ x.op \in {"alloc", "free", "null", "block", "size"}
  BY DEF Instructions
<1>4. QED
  BY <1>2, <1>3

LEMMA CurrentInstruction ==
  ASSUME ProgramInv, at = "test", line <= Len(Script)
  PROVE  /\ line \in 1 .. Len(Script) /\ Now \in Instructions
         /\ Now.slot \in Slots
         /\ Now.op = "alloc" => Now.pool \in Pool /\ Now.size \in Requests
<1>1. ControlInv
  BY DEF ProgramInv
<1>2. line \in 1 .. Len(Script)
  BY <1>1, ScriptType DEF ControlInv
<1>3. Now \in Instructions /\ Now.slot \in Slots
  BY <1>1, <1>2, ScriptType DEF Now
<1>4. Now.op = "alloc" => Now.pool \in Pool /\ Now.size \in Requests
  BY <1>3 DEF Instructions
<1>5. QED
  BY <1>2, <1>3, <1>4

(* A call takes its pool, its size and its slot from the instruction.      *)
LEMMA CallTypes ==
  ASSUME ProgramInv, NEW t \in Threads, pc[t] # "idle"
  PROVE  /\ at = "test" /\ line \in 1 .. Len(Script)
         /\ Now.slot \in Slots
         /\ slot[Now.slot] \in Blocks \cup {NULL}
<1>1. at = "test" /\ line <= Len(Script)
  BY DEF ProgramInv, PhaseInv
<1>2. QED
  BY <1>1, CurrentInstruction DEF ProgramInv, ControlInv

(* What a session consists of, but for the blocks.                         *)
LEMMA SessionStutters ==
  ASSUME UNCHANGED vars, UNCHANGED lost
  PROVE  UNCHANGED Session!vars
BY DEF vars, policy_vars, call_vars, heap_vars, Session!vars,
       Session!policy_vars, Session!call_vars, Session!heap_vars,
       session_heap, session_tag

LEMMA SessionCallAlloc ==
  ASSUME ProgramInv, NEW t \in Threads, CallAllocNow(t)
  PROVE  Session!Next
<1>1. Now.pool \in Session!Pool /\ Now.size \in Requests
  BY CurrentInstruction, SessionConstants DEF CallAllocNow, Ready
<1>2. Session!CallAlloc(t, Now.pool, Now.size)
  BY DEF CallAllocNow, CallAlloc, Goto, Session!CallAlloc, Session!Goto,
         policy_vars, heap_vars, Session!policy_vars, Session!heap_vars,
         session_heap, session_tag, watch_vars
<1>3. QED
  BY <1>1, <1>2 DEF Session!Next, Session!Caller

LEMMA SessionReserve ==
  ASSUME ProgramInv, NEW t \in Threads, Reserve(t), UNCHANGED lost
  PROVE  Session!Next
<1>1. Session!Reserve(t)
  BY SessionOperators
  DEF Reserve, Goto, Session!Reserve, Session!Goto, heap_vars,
      Session!heap_vars, session_heap, session_tag
<1>2. QED
  BY <1>1 DEF Session!Next, Session!Step

(* What je_malloc returns for the request of a test.                       *)
LEMMA ServedSize ==
  ASSUME ProgramInv, NEW t \in Threads, pc[t] = "malloc"
  PROVE  /\ UsableSize(num_bytes[t]) \in UsableSizes(num_bytes[t])
         /\ UsableSize(num_bytes[t]) \in Nat
<1>1. /\ Now.op = "alloc" /\ pool[t] = Now.pool /\ num_bytes[t] = Now.size
      /\ at = "test" /\ line \in 1 .. Len(Script)
  BY CallTypes DEF ProgramInv, PhaseInv
<1>2. num_bytes[t] \in MinReq[pool[t]] .. MaxReq[pool[t]]
  BY InvTypes
<1>3. ServedClosely(Script) /\ num_bytes[t] \in Nat
  BY <1>1, ScriptType, InvTypes, SizeModAssumption DEF ProgramInv, SizeT
<1>4. UsableSize(num_bytes[t]) \in UsableSizes(num_bytes[t])
  BY <1>1, <1>2, <1>3 DEF ServedClosely, Now
<1>5. QED
  BY <1>3, <1>4, MemMgrAssumption DEF UsableSizes

LEMMA SessionJeMalloc ==
  ASSUME ProgramInv, NEW t \in Threads, pc[t] = "malloc",
         \E b \in Blocks : heap[b] = 0,
         JeMalloc(t, FreeBlock, UsableSize(num_bytes[t])), UNCHANGED lost
  PROVE  Session!Next
<1> DEFINE b == FreeBlock
           s == UsableSize(num_bytes[t])
<1>1. b \in Blocks /\ heap[b] = 0
  BY DEF FreeBlock
<1>2. b \notin lost
  BY <1>1 DEF ProgramInv, HeapTypeOK
<1>3. s \in Session!UsableSizes(num_bytes[t])
  BY ServedSize, SessionOperators
<1>4. s \in Nat
  BY ServedSize
<1> HIDE DEF b, s
<1>5. Session!LiveBytes + s <= HeapBytes
  <2>1. LiveBytes + s <= HeapBytes
    BY DEF JeMalloc, b, s
  <2>2. QED
    BY <1>4, <2>1, SessionRoom, MemMgrAssumption DEF ProgramInv
<1>6. JeMalloc(t, b, s)
  BY DEF b, s
<1>7. /\ session_heap' = [session_heap EXCEPT ![b] = s]
      /\ session_tag' = [session_tag EXCEPT ![b] = pool[t]]
  <2>1. /\ heap' = [heap EXCEPT ![b] = s] /\ tag' = [tag EXCEPT ![b] = pool[t]]
        /\ lost' = lost
    BY <1>6 DEF JeMalloc
  <2>2. heap \in [Blocks -> Nat] /\ tag \in [Blocks -> Pool \cup {NoPool}]
    BY DEF ProgramInv, HeapTypeOK
  <2>3. \A c \in Blocks :
          /\ heap'[c] = IF c = b THEN s ELSE heap[c]
          /\ tag'[c] = IF c = b THEN pool[t] ELSE tag[c]
    BY <2>1, <2>2
  <2>4. session_heap' = [session_heap EXCEPT ![b] = s]
    BY <1>1, <1>2, <2>1, <2>3 DEF session_heap
  <2>5. session_tag' = [session_tag EXCEPT ![b] = pool[t]]
    BY <1>1, <1>2, <2>1, <2>3 DEF session_tag
  <2>6. QED
    BY <2>4, <2>5
<1>8. session_heap[b] = 0
  BY <1>1, <1>2 DEF session_heap
<1>9. Session!JeMalloc(t, b, s)
  BY <1>5, <1>6, <1>7, <1>8
  DEF JeMalloc, Goto, Session!JeMalloc, Session!Goto, policy_vars,
      Session!policy_vars
<1>10. QED
  BY <1>1, <1>3, <1>9 DEF Session!Next, Session!Step

LEMMA SessionJeFree ==
  ASSUME ProgramInv, NEW t \in Threads, JeFree(t), UNCHANGED lost
  PROVE  Session!Next
<1>1. ptr[t] \in Blocks \ lost
  BY InvTypes DEF JeFree, Goto
<1>2. /\ session_heap' = [session_heap EXCEPT ![ptr[t]] = 0]
      /\ session_tag' = [session_tag EXCEPT ![ptr[t]] = NoPool]
  BY <1>1 DEF JeFree, session_heap, session_tag, ProgramInv, HeapTypeOK
<1>3. Session!JeFree(t)
  BY <1>2 DEF JeFree, Goto, Session!JeFree, Session!Goto, policy_vars,
      Session!policy_vars
<1>4. QED
  BY <1>3 DEF Session!Next, Session!Step

LEMMA SessionJeMallocFails ==
  ASSUME ProgramInv, NEW t \in Threads, JeMallocFails(t), UNCHANGED lost
  PROVE  Session!Next
<1>1. Session!JeMallocFails(t)
  BY DEF JeMallocFails, Goto, Session!JeMallocFails, Session!Goto, policy_vars,
         Session!policy_vars, heap_vars, Session!heap_vars, session_heap, session_tag
<1>2. QED
  BY <1>1 DEF Session!Next, Session!Step

LEMMA SessionReturns ==
  ASSUME ProgramInv, NEW t \in Threads, UNCHANGED lost,
         Refuse(t) \/ Settle(t) \/ Rollback(t) \/ Refund(t)
  PROVE  Session!Next
<1> USE SessionOperators DEF Return, Goto, AdjustAlloc, policy_vars, heap_vars,
    Session!Return, Session!Goto, Session!AdjustAlloc, Session!policy_vars,
    Session!heap_vars
<1>1. UNCHANGED heap_vars => UNCHANGED Session!heap_vars
  BY DEF session_heap, session_tag
<1>2. Refuse(t) => Session!Refuse(t)
  BY <1>1 DEF Refuse, Session!Refuse
<1>3. Rollback(t) => Session!Rollback(t)
  BY <1>1 DEF Rollback, Session!Rollback
<1>4. Refund(t) => Session!Refund(t)
  BY <1>1 DEF Refund, Session!Refund
<1>5. ASSUME Settle(t)
      PROVE  Session!Settle(t)
  <2>1. ptr[t] \in Blocks \ lost
    BY <1>5, InvTypes DEF Settle
  <2>2. session_heap[ptr[t]] = heap[ptr[t]]
    BY <2>1 DEF session_heap
  <2>3. held' \ lost' = (held \ lost) \cup {ptr[t]}
    BY <1>5, <2>1 DEF Settle
  <2>4. QED
    BY <1>1, <1>5, <2>2, <2>3 DEF Settle, Session!Settle
<1>6. QED
  BY <1>2, <1>3, <1>4, <1>5 DEF Session!Next, Session!Step

LEMMA SessionCallFree ==
  ASSUME ProgramInv, NEW t \in Threads, CallFreeNow(t)
  PROVE  slot[Now.slot] \in Blocks \ lost /\ Session!Next
<1> DEFINE b == slot[Now.slot]
<1>1. /\ at = "test" /\ line \in 1 .. Len(Script) /\ Now.op = "free"
      /\ Now.slot \in Slots /\ ControlInv
  BY CurrentInstruction DEF CallFreeNow, Ready, ProgramInv
<1>2. b \in Blocks \ lost
  <2>1. PICK j \in 1 .. line - 1 :
          Script[j].op = "alloc" /\ Script[j].slot = Now.slot
    BY <1>1, ScriptType DEF FreesWhatItKeeps, Now
  <2>2. b \notin lost
    BY <1>1, <2>1 DEF ProgramInv, SlotInv
  <2>3. b \in held /\ held \subseteq Blocks
    BY DEF CallFreeNow, CallFree, ProgramInv, HeapTypeOK
  <2>4. QED
    BY <2>2, <2>3
<1>3. CallFree(t, b) /\ UNCHANGED lost
  BY DEF CallFreeNow, watch_vars
<1> HIDE DEF b
<1>4. session_heap[b] = heap[b] /\ session_tag[b] = tag[b]
  BY <1>2 DEF session_heap, session_tag
<1>5. held' \ lost' = (held \ lost) \ {b}
  BY <1>3 DEF CallFree
<1>6. Session!CallFree(t, b)
  BY <1>2, <1>3, <1>4, <1>5
  DEF CallFree, Goto, Session!CallFree, Session!Goto, policy_vars, heap_vars,
      Session!policy_vars, Session!heap_vars, session_heap, session_tag
<1>7. QED
  BY <1>2, <1>6 DEF Session!Next, Session!Caller, b

(* setUp starts a session without blocks.                                  *)
LEMMA SessionBegins ==
  ASSUME ProgramInv, SetUp
  PROVE  Session!Init'
<1>1. at = "setUp" /\ suite \in 1 .. Len(Suites)
  BY DEF SetUp, ProgramInv, ControlInv
<1>2. \A t \in Threads : pc[t] = "idle" /\ pool[t] = NoPool
                         /\ num_bytes[t] = 0 /\ ptr[t] = NULL
  BY <1>1, InvTypes DEF ProgramInv, PhaseInv
<1>3. /\ pc' = [t \in Threads |-> "idle"] /\ pool' = [t \in Threads |-> NoPool]
      /\ num_bytes' = [t \in Threads |-> 0] /\ ptr' = [t \in Threads |-> NULL]
  BY <1>2, InvTypes DEF SetUp, call_vars
<1>4. /\ lost' = {b \in Blocks : heap[b] > 0}
      /\ heap' = heap /\ tag' = tag /\ held' = held
  BY DEF SetUp, heap_vars
<1>5. session_heap' = [b \in Blocks |-> 0]
  BY <1>4 DEF ProgramInv, HeapTypeOK, session_heap
<1>6. ASSUME NEW b \in Blocks, b \notin lost'
      PROVE  tag[b] = NoPool
  BY <1>4, <1>6, InvTypes DEF ProgramInv, HeapTypeOK
<1>7. session_tag' = [b \in Blocks |-> NoPool]
  BY <1>4, <1>6 DEF session_tag
<1>8. held' \ lost' = {}
  <2>1. ASSUME NEW b \in held, b \notin lost'
        PROVE  FALSE
    <3>1. b \in Blocks /\ heap[b] = 0 /\ b \notin lost
      BY <1>4, <2>1 DEF ProgramInv, HeapTypeOK
    <3>2. session_tag[b] \in Pool
      BY <3>1, SessionConstants
      DEF ProgramInv, Session!IInv, Session!FrameInv, Session!BlockInv
    <3>3. tag[b] = NoPool
      BY <1>6, <2>1, <3>1
    <3>4. QED
      BY <3>1, <3>2, <3>3, MemMgrAssumption DEF session_tag
  <2>2. QED
    BY <1>4, <2>1
<1>9. \E total \in SizeT :
        /\ total_memory' = total
        /\ total_pool_mem' = Session!PoolSplit(total)
        /\ used_memory' = [p \in Session!Pool |-> 0]
  <2>1. Suites[suite].total \in SizeT
    BY <1>1, TestsAssumption
  <2>2. QED
    BY <2>1, SessionOperators, SessionConstants DEF SetUp
<1>10. QED
  BY <1>3, <1>5, <1>7, <1>8, <1>9, SessionConstants
  DEF Session!Init, Session!InitPolicyMgr

LEMMA SessionStartsNext == Session!Init' => Session!IInv'
BY SessionStarts, PTL

(* The session is never out of step with the manager.                      *)
LEMMA SessionStep ==
  ASSUME ProgramInv, [ProgramNext]_program_vars
  PROVE  Session!IInv'
<1>1. CASE SetUp
  BY <1>1, SessionBegins, SessionStartsNext
<1>2. CASE UNCHANGED vars /\ UNCHANGED lost
  BY <1>2, SessionStutters, SessionContinues DEF ProgramInv
<1>3. CASE Session!Next
  BY <1>3, SessionContinues DEF ProgramInv
<1>4. BeginSuite \/ StartTest \/ TearDown \/ Conclude \/ EndSuite
        => UNCHANGED vars /\ UNCHANGED lost
  BY DEF BeginSuite, StartTest, TearDown, Conclude, EndSuite, watch_vars
<1>5. ASSUME NEW t \in Threads, TestStep(t)
      PROVE  Session!Next \/ (UNCHANGED vars /\ UNCHANGED lost)
  <2>1. CASE CallAllocNow(t)
    BY <2>1, SessionCallAlloc
  <2>2. CASE InCall(t)
    <3>1. UNCHANGED lost
      BY <2>2 DEF InCall, watch_vars
    <3>2. QED
      BY <2>2, <3>1, SessionReserve, SessionJeMalloc, SessionJeFree DEF InCall
  <2>3. CASE MallocFails(t)
    BY <2>3, SessionJeMallocFails DEF MallocFails
  <2>4. CASE AllocReturns(t)
    BY <2>4, SessionReturns DEF AllocReturns, watch_vars
  <2>5. CASE CallFreeNow(t)
    BY <2>5, SessionCallFree
  <2>6. CASE FreeReturns(t)
    BY <2>6, SessionReturns DEF FreeReturns, watch_vars
  <2>7. CASE TestAssert(t) \/ Crash(t) \/ ReturnFromTest
    BY <2>7 DEF TestAssert, Crash, ReturnFromTest, watch_vars
  <2>8. QED
    BY <1>5, <2>1, <2>2, <2>3, <2>4, <2>5, <2>6, <2>7 DEF TestStep
<1>6. Stopped => UNCHANGED vars /\ UNCHANGED lost
  BY DEF Stopped, program_vars, watch_vars
<1>7. UNCHANGED program_vars => UNCHANGED vars /\ UNCHANGED lost
  BY DEF program_vars, watch_vars
<1>8. QED
  BY <1>1, <1>2, <1>3, <1>4, <1>5, <1>6, <1>7 DEF ProgramNext, MainStep

-----------------------------------------------------------------------------
(* The rest of the invariant is inductive.                                 *)

LEMMA ProgramInvInit == ProgramInit => ProgramInv
<1> SUFFICES ASSUME ProgramInit
             PROVE  ProgramInv
  OBVIOUS
<1> USE DEF ProgramInit, U!UnityInit
<1>1. HeapTypeOK
  BY DEF HeapTypeOK
<1>2. ControlInv
  <2>1. Len(Suites) = 3
    BY DEF Suites
  <2>2. slot \in [Slots -> Blocks \cup {NULL}]
    OBVIOUS
  <2>3. at = "outside" /\ suite \in 0 .. Len(Suites)
    BY <2>1
  <2>4. test \in Nat \ {0} /\ line \in Nat \ {0}
    OBVIOUS
  <2>5. mutex \in BOOLEAN /\ ~ mutex
    OBVIOUS
  <2> HIDE DEF ProgramInit, U!UnityInit
  <2>6. QED
    BY <2>2, <2>3, <2>4, <2>5 DEF ControlInv
<1>3. PhaseInv /\ SlotInv /\ KeptInv /\ FreedInv
  BY DEF PhaseInv, SlotInv, KeptInv, FreedInv
<1>4. Session!Init
  <2>1. /\ session_heap = [b \in Blocks |-> 0]
        /\ session_tag = [b \in Blocks |-> NoPool]
        /\ held \ lost = {}
    BY DEF session_heap, session_tag
  <2>2. 0 \in SizeT /\ Session!PoolSplit(0) = [p \in Pool |-> 0]
    BY SizeModAssumption, SessionOperators
    DEF SizeT, PoolSplit, Word, ExecPoolQuota, Pool
  <2>3. QED
    BY <2>1, <2>2, SessionConstants DEF Session!Init, Session!InitPolicyMgr
<1>5. QED
  BY <1>1, <1>2, <1>3, <1>4, SessionStarts DEF ProgramInv

(* What main, setUp and tearDown, and the steps of a test, leave alone.    *)
LEMMA MainLeaves ==
  BeginSuite \/ StartTest \/ SetUp \/ TearDown \/ Conclude \/ EndSuite
    => UNCHANGED <<call_vars, heap_vars, held, slot>>
BY DEF BeginSuite, StartTest, SetUp, TearDown, Conclude, EndSuite, vars,
       script_vars, call_vars, heap_vars

LEMMA TestLeaves ==
  ASSUME NEW t \in Threads, TestStep(t)
  PROVE  /\ UNCHANGED <<suite, test, lost, mutex>>
         /\ at = "test" \/ UNCHANGED unity_vars
BY DEF TestStep, CallAllocNow, InCall, MallocFails, AllocReturns, CallFreeNow,
       FreeReturns, TestAssert, Crash, ReturnFromTest, Ready, script_vars,
       watch_vars

LEMMA HeapStep ==
  ASSUME ProgramInv, ProgramNext
  PROVE  HeapTypeOK'
<1> USE DEF HeapTypeOK
<1>1. HeapTypeOK
  BY DEF ProgramInv
<1>2. CASE MainStep
  <2>1. /\ UNCHANGED <<heap, tag, held>>
        /\ lost' \in {lost, {b \in Blocks : heap[b] > 0}}
    BY <1>2, MainLeaves
    DEF MainStep, heap_vars, BeginSuite, StartTest, SetUp, TearDown, Conclude,
        EndSuite, watch_vars
  <2>2. QED
    BY <1>1, <2>1
<1>3. ASSUME NEW t \in Threads, TestStep(t)
      PROVE  HeapTypeOK'
  <2>1. UNCHANGED lost
    BY <1>3, TestLeaves
  <2>3. CASE InCall(t)
    <3>1. CASE Reserve(t)
      BY <1>1, <2>1, <3>1 DEF Reserve, heap_vars
    <3>2. CASE /\ pc[t] = "malloc" /\ \E b \in Blocks : heap[b] = 0
               /\ JeMalloc(t, FreeBlock, UsableSize(num_bytes[t]))
      <4> DEFINE s == UsableSize(num_bytes[t])
      <4>1. FreeBlock \in Blocks /\ heap[FreeBlock] = 0
        BY <3>2 DEF FreeBlock
      <4>2. s \in Nat
        BY <3>2, ServedSize
      <4> HIDE DEF s
      <4>3. pool[t] \in Pool
        BY <3>2, InvTypes
      <4>4. /\ heap' = [heap EXCEPT ![FreeBlock] = s]
            /\ tag' = [tag EXCEPT ![FreeBlock] = pool[t]]
            /\ held' = held
        BY <3>2 DEF JeMalloc, s
      <4>5. QED
        BY <1>1, <2>1, <4>1, <4>2, <4>3, <4>4
    <3>3. CASE JeFree(t)
      <4>1. ptr[t] \in Blocks \ lost
        BY <3>3, InvTypes DEF JeFree, Goto
      <4>2. QED
        BY <1>1, <2>1, <3>3, <4>1 DEF JeFree
    <3>4. QED
      BY <2>3, <3>1, <3>2, <3>3 DEF InCall
  <2>4. CASE AllocReturns(t)
    <3>1. pc[t] = "settle" => ptr[t] \in Blocks
      BY InvTypes
    <3>2. UNCHANGED heap_vars /\ held' \subseteq held \cup Blocks
      BY <2>4, <3>1 DEF AllocReturns, Refuse, Settle, Rollback, Return, Goto
    <3>3. QED
      BY <1>1, <2>1, <3>2 DEF heap_vars
  <2>5. CASE CallFreeNow(t) \/ FreeReturns(t)
    BY <1>1, <2>1, <2>5 DEF CallFreeNow, CallFree, FreeReturns, Refund, heap_vars
  <2>6. CASE CallAllocNow(t) \/ MallocFails(t)
    BY <1>1, <2>1, <2>6
    DEF CallAllocNow, CallAlloc, MallocFails, JeMallocFails, heap_vars
  <2>7. CASE TestAssert(t) \/ Crash(t) \/ ReturnFromTest
    BY <1>1, <2>1, <2>7 DEF TestAssert, Crash, ReturnFromTest, vars, heap_vars
  <2>8. QED
    BY <1>3, <2>3, <2>4, <2>5, <2>6, <2>7 DEF TestStep
<1>4. CASE Stopped
  BY <1>1, <1>4 DEF Stopped, program_vars, vars, heap_vars, watch_vars
<1>5. QED
  BY <1>2, <1>3, <1>4 DEF ProgramNext

(* A test runs one script to its end.                                      *)
LEMMA ScriptStays ==
  ASSUME UNCHANGED <<suite, test>>
  PROVE  UNCHANGED <<Tests, Script>>
BY DEF Tests, Script

LEMMA ControlMain ==
  ASSUME ProgramInv, MainStep
  PROVE  ControlInv'
<1> USE DEF ControlInv
<1>1. ControlInv
  BY DEF ProgramInv
<1>2. slot' = slot
  BY MainLeaves DEF MainStep
<1>3. CASE BeginSuite
  BY <1>1, <1>2, <1>3 DEF BeginSuite, U!UnityBegin, watch_vars
<1>4. CASE StartTest
  <2>1. UNCHANGED <<Tests, Script>>
    BY <1>4, ScriptStays DEF StartTest
  <2>2. QED
    BY <1>1, <1>2, <1>4, <2>1
    DEF StartTest, U!RunTest, U!flag_vars
<1>5. CASE SetUp
  <2>1. UNCHANGED <<Tests, Script, suite, test, line>>
    BY <1>5, ScriptStays DEF SetUp, script_vars
  <2>2. Len(Script) \in Nat
    BY <1>1, <1>5, ScriptType DEF SetUp
  <2>3. QED
    BY <1>1, <1>2, <1>5, <2>1, <2>2 DEF SetUp, U!Leave, U!flag_vars
<1>6. CASE TearDown
  <2>1. UNCHANGED <<Tests, Script, suite, test, line>>
    BY <1>6, ScriptStays DEF TearDown, script_vars
  <2>2. QED
    BY <1>1, <1>2, <1>6, <2>1 DEF TearDown, U!Leave
<1>7. CASE Conclude
  BY <1>1, <1>2, <1>7 DEF Conclude, U!UnityConcludeTest, watch_vars
<1>8. CASE EndSuite
  <2>1. UNCHANGED <<suite, test, line>>
    BY <1>8 DEF EndSuite, script_vars
  <2>2. QED
    BY <1>1, <1>2, <1>8, <2>1 DEF EndSuite, U!UnityEnd, watch_vars
<1>9. QED
  BY <1>3, <1>4, <1>5, <1>6, <1>7, <1>8 DEF MainStep

(* A step of a test stays in the test, or leaves it for tearDown.          *)
LEMMA ControlTest ==
  ASSUME ProgramInv, NEW t \in Threads, TestStep(t)
  PROVE  ControlInv'
<1>1. ControlInv
  BY DEF ProgramInv
<1>2. /\ UNCHANGED <<Tests, Script, suite, test, mutex>>
  BY TestLeaves, ScriptStays
<1>3. CASE UNCHANGED <<at, CurrentTestFailed, CurrentTestIgnored, line, slot>>
  BY <1>1, <1>2, <1>3 DEF ControlInv
<1>4. (/\ CallAllocNow(t) \/ InCall(t) \/ MallocFails(t) \/ CallFreeNow(t)
          \/ Crash(t))
        => UNCHANGED <<at, CurrentTestFailed, CurrentTestIgnored, line, slot>>
  BY DEF CallAllocNow, InCall, MallocFails, CallFreeNow, Crash, unity_vars,
         script_vars
<1>5. CASE AllocReturns(t) \/ FreeReturns(t)
  <2>1. pc[t] # "idle"
    BY <1>5 DEF AllocReturns, FreeReturns, Refuse, Settle, Rollback, Refund,
                Return, Goto
  <2>2. /\ at = "test" /\ line <= Len(Script) /\ Len(Script) \in Nat
    BY <2>1, CallTypes, ScriptType DEF ProgramInv
  <2>3. slot' \in [Slots -> Blocks \cup {NULL}]
    <3>1. ptr[t] \in Blocks \cup {NULL}
      BY InvTypes
    <3>2. QED
      BY <1>1, <1>5, <3>1 DEF ControlInv, AllocReturns, FreeReturns
  <2>4. /\ UNCHANGED <<at, CurrentTestFailed, CurrentTestIgnored>>
        /\ line' = line + 1
    BY <1>5 DEF AllocReturns, FreeReturns, unity_vars
  <2>5. QED
    BY <1>1, <1>2, <2>2, <2>3, <2>4 DEF ControlInv
<1>6. CASE TestAssert(t)
  <2>1. at = "test" /\ line <= Len(Script) /\ line' = line + 1 /\ slot' = slot
    BY <1>6 DEF TestAssert, Ready
  <2>2. Len(Script) \in Nat
    BY <1>1, <2>1, ScriptType
  <2>3. ~ U!FailOrIgnore
    BY <1>1, <2>1 DEF ControlInv, U!FailOrIgnore
  <2>4. CASE U!AssertionHolds
    BY <1>1, <1>2, <2>1, <2>2, <2>3, <2>4
    DEF ControlInv, U!AssertionHolds, U!flag_vars
  <2>5. CASE U!UnityFail
    BY <1>1, <1>2, <2>1, <2>2, <2>3, <2>5
    DEF ControlInv, U!UnityFail, U!Abort
  <2>6. QED
    BY <1>6, <2>4, <2>5 DEF TestAssert
<1>7. CASE ReturnFromTest
  BY <1>1, <1>2, <1>7 DEF ControlInv, ReturnFromTest, U!Leave, script_vars
<1>8. QED
  BY <1>3, <1>4, <1>5, <1>6, <1>7 DEF TestStep

LEMMA OnlyThread == \A t, u \in Threads : t = u
BY OneThread

(* Between tests no call is in progress.                                   *)
LEMMA PhaseMain ==
  ASSUME ProgramInv, MainStep
  PROVE  PhaseInv'
<1>1. at # "test"
  BY DEF MainStep, BeginSuite, StartTest, SetUp, TearDown, Conclude, EndSuite,
         U!UnityBegin, U!RunTest, U!UnityConcludeTest, U!UnityEnd
<1>2. UNCHANGED call_vars
  BY MainLeaves DEF MainStep
<1>3. \A t \in Threads : pc[t] = "idle" /\ num_bytes[t] = 0
  BY <1>1 DEF ProgramInv, PhaseInv
<1>4. QED
  BY <1>2, <1>3 DEF PhaseInv, call_vars

LEMMA PhaseTest ==
  ASSUME ProgramInv, NEW t \in Threads, TestStep(t)
  PROVE  PhaseInv'
<1> DEFINE Phase(u) ==
             /\ pc[u] # "idle" => at = "test" /\ line <= Len(Script)
             /\ pc[u] \in {"decide", "malloc", "settle", "rollback"} =>
                  Now.op = "alloc" /\ pool[u] = Now.pool /\ num_bytes[u] = Now.size
             /\ pc[u] \in {"free", "refund"} => Now.op = "free"
             /\ pc[u] = "free" => ptr[u] = slot[Now.slot]
             /\ pc[u] = "refund" =>
                  slot[Now.slot] \in Blocks /\ heap[slot[Now.slot]] = 0
             /\ pc[u] = "idle" => num_bytes[u] = 0
<1> SUFFICES Phase(t)'
  BY OnlyThread DEF PhaseInv
<1>1. Phase(t)
  BY DEF ProgramInv, PhaseInv
<1>2. /\ pc \in [Threads -> PC] /\ num_bytes \in [Threads -> SizeT]
      /\ pool \in [Threads -> Pool \cup {NoPool}]
      /\ ptr \in [Threads -> Blocks \cup {NULL}]
  BY InvTypes
<1>3. UNCHANGED <<Tests, Script>>
  BY TestLeaves, ScriptStays
<1>4. line' = line => Now' = Now
  BY <1>3 DEF Now
<1>5. CASE CallAllocNow(t)
  BY <1>1, <1>2, <1>3, <1>4, <1>5
  DEF CallAllocNow, CallAlloc, Ready, Goto, unity_vars, script_vars
<1>6. CASE InCall(t)
  <2>1. UNCHANGED <<at, line, slot>>
    BY <1>6 DEF InCall, unity_vars, script_vars
  <2>2. CASE Reserve(t)
    BY <1>1, <1>2, <1>3, <1>4, <2>1, <2>2 DEF Reserve, Goto
  <2>3. CASE JeMalloc(t, FreeBlock, UsableSize(num_bytes[t]))
    BY <1>1, <1>2, <1>3, <1>4, <2>1, <2>3 DEF JeMalloc, Goto
  <2>4. CASE JeFree(t)
    <3>1. ptr[t] \in Blocks /\ ptr[t] = slot[Now.slot] /\ Now.op = "free"
      BY <1>1, <2>4, InvTypes DEF JeFree, Goto
    <3>2. heap'[ptr[t]] = 0
      BY <2>4, <3>1 DEF JeFree, ProgramInv, HeapTypeOK
    <3>3. QED
      BY <1>1, <1>2, <1>3, <1>4, <2>1, <2>4, <3>1, <3>2 DEF JeFree, Goto
  <2>5. QED
    BY <1>6, <2>2, <2>3, <2>4 DEF InCall
<1>7. CASE MallocFails(t)
  BY <1>1, <1>2, <1>3, <1>4, <1>7
  DEF MallocFails, JeMallocFails, Goto, unity_vars, script_vars
<1>8. CASE AllocReturns(t) \/ FreeReturns(t)
  BY <1>2, <1>8
  DEF AllocReturns, FreeReturns, Refuse, Settle, Rollback, Refund, Return, Goto
<1>9. CASE CallFreeNow(t)
  BY <1>1, <1>2, <1>3, <1>4, <1>9
  DEF CallFreeNow, CallFree, Ready, Goto, unity_vars, script_vars
<1>10. CASE TestAssert(t) \/ Crash(t) \/ ReturnFromTest
  <2>1. pc[t] = "idle"
    <3>1. CASE ReturnFromTest
      <4>1. line > Len(Script) /\ at = "test"
        BY <3>1 DEF ReturnFromTest
      <4>2. line \in Nat /\ Len(Script) \in Nat
        BY <4>1, ScriptType DEF ProgramInv, ControlInv
      <4>3. QED
        BY <1>1, <4>1, <4>2
    <3>2. QED
      BY <1>10, <3>1 DEF TestAssert, Crash, Ready
  <2>2. UNCHANGED call_vars
    BY <1>10 DEF TestAssert, Crash, ReturnFromTest, vars
  <2>3. QED
    BY <1>1, <2>1, <2>2 DEF call_vars
<1>11. QED
  BY <1>5, <1>6, <1>7, <1>8, <1>9, <1>10 DEF TestStep

(* The steps of a test are taken while it runs, and its script is typed.   *)
LEMMA TestRuns ==
  ASSUME ProgramInv, NEW t \in Threads, TestStep(t)
  PROVE  /\ at = "test" /\ line \in Nat \ {0} /\ Len(Script) \in Nat
         /\ line <= Len(Script) + 1
         /\ UNCHANGED <<lost, Script>>
         /\ \A i \in 1 .. Len(Script) : Script[i].slot \in Slots
         /\ FreesWhatItKeeps(Script)
<1>1. pc[t] = "idle" => at = "test"
  BY DEF TestStep, CallAllocNow, InCall, MallocFails, AllocReturns, CallFreeNow,
         FreeReturns, TestAssert, Crash, ReturnFromTest, Ready, Reserve, JeFree,
         JeMallocFails, Refuse, Settle, Rollback, Refund, Return, Goto
<1>2. at = "test"
  BY <1>1 DEF ProgramInv, PhaseInv
<1>3. QED
  BY <1>2, TestLeaves, ScriptStays, ScriptType DEF ProgramInv, ControlInv

(* What a step of a test does to the line and the slots: ...               *)
Stays == UNCHANGED <<line, slot>>

(* ... it passes an instruction that obtains nothing, ...                  *)
Passes ==
  /\ line' = line + 1 /\ slot' = slot
  /\ line \in 1 .. Len(Script) /\ Now.op # "alloc"

(* ... or stores what an allocation has returned.                          *)
Stores(t) ==
  /\ line' = line + 1 /\ line \in 1 .. Len(Script) /\ Now.op = "alloc"
  /\ slot' = [slot EXCEPT ![Now.slot] = IF pc[t] = "settle" THEN ptr[t] ELSE NULL]

LEMMA TestMoves ==
  ASSUME ProgramInv, NEW t \in Threads, TestStep(t)
  PROVE  \/ Stays
         \/ Passes /\ (FreeReturns(t) \/ TestAssert(t))
         \/ Stores(t) /\ AllocReturns(t)
<1>1. CASE CallAllocNow(t) \/ InCall(t) \/ MallocFails(t) \/ CallFreeNow(t)
           \/ Crash(t) \/ ReturnFromTest
  BY <1>1 DEF Stays, CallAllocNow, InCall, MallocFails, CallFreeNow, Crash,
              ReturnFromTest, script_vars
<1>2. CASE AllocReturns(t)
  <2>1. pc[t] \in {"decide", "settle", "rollback"}
    BY <1>2 DEF AllocReturns, Refuse, Settle, Rollback, Return, Goto
  <2>2. line \in 1 .. Len(Script) /\ Now.op = "alloc"
    BY <2>1, CallTypes DEF ProgramInv, PhaseInv
  <2>3. Stores(t)
    BY <1>2, <2>2 DEF AllocReturns, Stores
  <2>4. QED
    BY <1>2, <2>3
<1>3. CASE FreeReturns(t)
  <2>1. pc[t] = "refund"
    BY <1>3 DEF FreeReturns, Refund, Return, Goto
  <2>2. line \in 1 .. Len(Script) /\ Now.op = "free"
    BY <2>1, CallTypes DEF ProgramInv, PhaseInv
  <2>3. Passes
    BY <1>3, <2>2 DEF FreeReturns, Passes
  <2>4. QED
    BY <1>3, <2>3
<1>4. CASE TestAssert(t)
  <2>1. line \in 1 .. Len(Script) /\ Now.op # "alloc"
    BY <1>4, CurrentInstruction DEF TestAssert, Ready
  <2>2. Passes
    BY <1>4, <2>1 DEF TestAssert, Passes
  <2>3. QED
    BY <1>4, <2>2
<1>5. QED
  BY <1>1, <1>2, <1>3, <1>4 DEF TestStep

LEMMA SlotStep ==
  ASSUME ProgramInv, MainStep \/ \E t \in Threads : TestStep(t)
  PROVE  SlotInv'
<1>1. CASE MainStep
  <2>1. at' = "test" => line' = 1
    BY <1>1
    DEF MainStep, BeginSuite, StartTest, SetUp, TearDown, Conclude, EndSuite,
        U!UnityBegin, U!RunTest, U!UnityConcludeTest, U!UnityEnd, U!Leave,
        script_vars, ProgramInv, ControlInv
  <2>2. QED
    BY <2>1 DEF SlotInv
<1>2. ASSUME NEW t \in Threads, TestStep(t), NEW j \in 1 .. line' - 1,
             Script[j].op = "alloc"
      PROVE  slot'[Script[j].slot] \notin lost
  <2>1. at = "test" /\ line \in Nat \ {0} /\ SlotInv
    BY <1>2, TestRuns DEF ProgramInv
  <2>2. CASE Stays
    BY <1>2, <2>1, <2>2 DEF Stays, SlotInv
  <2>3. CASE Passes
    <3>1. j # line
      BY <1>2, <2>3 DEF Passes, Now
    <3>2. j \in 1 .. line - 1
      BY <2>1, <2>3, <3>1 DEF Passes
    <3>3. QED
      BY <1>2, <2>1, <2>3, <3>2 DEF Passes, SlotInv
  <2>4. CASE Stores(t)
    <3>1. Now.slot \in Slots /\ Script[j].slot \in Slots /\ j \in 1 .. line
      <4>1. j \in 1 .. line /\ line \in 1 .. Len(Script) /\ Len(Script) \in Nat
        BY <1>2, <2>1, <2>4, TestRuns DEF Stores
      <4>2. QED
        BY <1>2, <4>1, TestRuns DEF Now
    <3>2. (IF pc[t] = "settle" THEN ptr[t] ELSE NULL) \notin lost
      BY InvTypes, MemMgrAssumption DEF ProgramInv, HeapTypeOK
    <3>3. slot \in [Slots -> Blocks \cup {NULL}]
      BY DEF ProgramInv, ControlInv
    <3>4. CASE Script[j].slot = Now.slot
      BY <2>4, <3>1, <3>2, <3>3, <3>4 DEF Stores
    <3>5. CASE Script[j].slot # Now.slot
      <4>1. j \in 1 .. line - 1
        BY <2>1, <3>1, <3>5 DEF Now
      <4>2. QED
        BY <1>2, <2>1, <2>4, <3>1, <3>3, <3>5, <4>1 DEF Stores, SlotInv
    <3>6. QED
      BY <3>4, <3>5
  <2>5. QED
    BY <1>2, <2>2, <2>3, <2>4, TestMoves
<1>3. QED
  BY <1>1, <1>2, TestRuns DEF SlotInv

(* No step of a test gives a kept block away.                              *)
LEMMA KeptStep ==
  ASSUME ProgramInv, MainStep \/ \E t \in Threads : TestStep(t)
  PROVE  KeptInv'
<1>1. CASE MainStep
  <2>1. at' # "test" \/ SetUp
    BY <1>1
    DEF MainStep, BeginSuite, StartTest, TearDown, Conclude, EndSuite,
        U!UnityBegin, U!RunTest, U!UnityConcludeTest, U!UnityEnd, U!Leave
  <2>2. CASE SetUp
    <3>1. lost' = {b \in Blocks : heap[b] > 0} /\ heap' = heap
      BY <2>2 DEF SetUp, heap_vars
    <3>2. QED
      BY <3>1 DEF KeptInv
  <2>3. QED
    BY <2>1, <2>2 DEF KeptInv
<1>2. ASSUME NEW t \in Threads, TestStep(t), at' = "test",
             NEW b \in Blocks \ lost, heap'[b] > 0
      PROVE  \/ pc'[t] \in {"settle", "free"} /\ ptr'[t] = b
             \/ \E i \in 1 .. line' - 1 : Keeps(i, b)'
  <2>1. /\ at = "test" /\ line \in Nat \ {0} /\ Len(Script) \in Nat
        /\ lost' = lost /\ Script' = Script
        /\ line <= Len(Script) + 1 /\ FreesWhatItKeeps(Script)
        /\ \A i \in 1 .. Len(Script) : Script[i].slot \in Slots
    BY <1>2, TestRuns
  <2>2. heap[b] > 0 =>
          \/ pc[t] \in {"settle", "free"} /\ ptr[t] = b
          \/ \E i \in 1 .. line - 1 : Keeps(i, b)
    BY <2>1, OnlyThread DEF ProgramInv, KeptInv
  <2>3. /\ pc \in [Threads -> PC] /\ ptr \in [Threads -> Blocks \cup {NULL}]
        /\ heap \in [Blocks -> Nat] /\ slot \in [Slots -> Blocks \cup {NULL}]
    BY InvTypes DEF ProgramInv, HeapTypeOK, ControlInv
  <2>4. CASE Stays
    <3>1. ASSUME \E i \in 1 .. line - 1 : Keeps(i, b)
          PROVE  \E i \in 1 .. line' - 1 : Keeps(i, b)'
      BY <2>1, <2>4, <3>1 DEF Stays, Keeps, ExpectsNull
    <3>2. CASE CallAllocNow(t) \/ MallocFails(t) \/ Crash(t)
      <4>1. heap' = heap /\ ~ (pc[t] \in {"settle", "free"})
        BY <3>2
        DEF CallAllocNow, CallAlloc, MallocFails, JeMallocFails, Crash, Ready,
            Goto, heap_vars, vars
      <4>2. QED
        BY <1>2, <2>2, <3>1, <4>1
    <3>3. CASE CallFreeNow(t)
      <4>1. heap' = heap /\ pc[t] = "idle"
        BY <3>3 DEF CallFreeNow, CallFree, Ready, heap_vars
      <4>2. QED
        BY <1>2, <2>2, <3>1, <4>1
    <3>4. CASE InCall(t)
      <4>1. CASE Reserve(t)
        <5>1. heap' = heap /\ pc[t] = "decide"
          BY <4>1 DEF Reserve, Goto, heap_vars
        <5>2. QED
          BY <1>2, <2>2, <3>1, <5>1
      <4>2. CASE JeMalloc(t, FreeBlock, UsableSize(num_bytes[t]))
        <5>1. /\ pc[t] = "malloc" /\ pc'[t] = "settle" /\ ptr'[t] = FreeBlock
              /\ b # FreeBlock => heap'[b] = heap[b]
          BY <2>3, <4>2 DEF JeMalloc, Goto
        <5>2. QED
          BY <1>2, <2>2, <3>1, <5>1
      <4>3. CASE JeFree(t)
        <5>1. ptr[t] \in Blocks /\ heap' = [heap EXCEPT ![ptr[t]] = 0]
          BY <4>3, InvTypes DEF JeFree, Goto
        <5>2. b # ptr[t] /\ heap[b] > 0
          BY <1>2, <2>3, <5>1
        <5>3. QED
          BY <2>2, <3>1, <5>2
      <4>4. QED
        BY <3>4, <4>1, <4>2, <4>3 DEF InCall
    <3>5. CASE ReturnFromTest
      BY <1>2, <3>5 DEF ReturnFromTest, U!Leave
    <3>6. CASE AllocReturns(t) \/ FreeReturns(t) \/ TestAssert(t)
      BY <2>1, <2>4, <3>6 DEF Stays, AllocReturns, FreeReturns, TestAssert
    <3>7. QED
      BY <1>2, <3>2, <3>3, <3>4, <3>5, <3>6 DEF TestStep
  <2>5. CASE Passes /\ FreeReturns(t)
    <3>1. pc[t] = "refund" /\ heap' = heap /\ slot' = slot /\ line' = line + 1
      BY <2>5 DEF FreeReturns, Refund, Return, Goto, heap_vars
    <3>2. /\ Now.op = "free" /\ heap[slot[Now.slot]] = 0
          /\ line \in 1 .. Len(Script)
      BY <3>1, CallTypes DEF ProgramInv, PhaseInv
    <3>3. PICK i \in 1 .. line - 1 : Keeps(i, b)
      BY <1>2, <2>2, <3>1
    <3>4. Script[i].slot # Now.slot
      BY <1>2, <3>1, <3>2, <3>3 DEF Keeps
    <3>5. ~ ExpectsNull(Script, i)
      BY <3>2, <3>3 DEF Keeps, ExpectsNull, Now
    <3>6. Keeps(i, b)'
      BY <2>1, <3>1, <3>3, <3>4, <3>5 DEF Keeps, ExpectsNull, Now
    <3>7. QED
      BY <2>1, <3>1, <3>6
  <2>6. CASE Passes /\ TestAssert(t)
    <3>1. /\ pc[t] = "idle" /\ heap' = heap /\ slot' = slot /\ line' = line + 1
          /\ Now.op \in {"null", "block", "size"} /\ line \in 1 .. Len(Script)
      BY <2>6 DEF Passes, TestAssert, Ready, vars, heap_vars
    <3>2. Holds
      <4>1. ASSUME U!UnityFail
            PROVE  FALSE
        BY <1>2, <2>1, <4>1 DEF U!UnityFail, U!Abort
      <4>2. QED
        BY <2>6, <4>1 DEF TestAssert
    <3>3. PICK i \in 1 .. line - 1 : Keeps(i, b)
      BY <1>2, <2>2, <3>1
    <3>4. ~ ExpectsNull(Script, i)
      <4>1. ASSUME ExpectsNull(Script, i)
            PROVE  FALSE
        <5>1. /\ line = i + 1 /\ Now.op = "null" /\ Now.slot = Script[i].slot
              /\ slot[Script[i].slot] = b
          BY <3>3, <4>1 DEF Keeps, ExpectsNull, Now
        <5>2. slot[Now.slot] = NULL
          BY <3>2, <5>1 DEF Holds
        <5>3. QED
          BY <5>1, <5>2, MemMgrAssumption
      <4>2. QED
        BY <4>1
    <3>5. Keeps(i, b)'
      BY <2>1, <3>1, <3>3, <3>4 DEF Keeps, ExpectsNull, Now
    <3>6. QED
      BY <2>1, <3>1, <3>5
  <2>7. CASE Stores(t) /\ AllocReturns(t)
    <3> DEFINE v == IF pc[t] = "settle" THEN ptr[t] ELSE NULL
    <3>1. /\ line' = line + 1 /\ line \in 1 .. Len(Script) /\ Now.op = "alloc"
          /\ slot' = [slot EXCEPT ![Now.slot] = v] /\ Now.slot \in Slots
      BY <2>1, <2>7 DEF Stores, Now
    <3>2. heap' = heap /\ pc[t] # "free"
      BY <2>7 DEF AllocReturns, Refuse, Settle, Rollback, Return, Goto, heap_vars
    <3>3. CASE pc[t] = "settle" /\ ptr[t] = b
      <4>1. slot'[Now.slot] = b
        BY <2>3, <3>1, <3>3
      <4> HIDE DEF v
      <4>2. ASSUME NEW i \in 1 .. line' - 1, i = line
            PROVE  Keeps(i, b)'
        BY <2>1, <3>1, <4>1, <4>2 DEF Keeps, Now
      <4>3. line \in 1 .. line' - 1
        BY <2>1, <3>1
      <4>4. QED
        BY <4>2, <4>3
    <3> HIDE DEF v
    <3>4. ASSUME NEW i \in 1 .. line - 1, Keeps(i, b)
          PROVE  Keeps(i, b)'
      <4>1. ~ ExpectsNull(Script, i)
        BY <3>1, <3>4 DEF Keeps, ExpectsNull, Now
      <4>2. Script[i].op = "alloc" /\ i \in 1 .. Len(Script)
        BY <2>1, <3>1, <3>4 DEF Keeps
      <4>3. PICK k \in i + 1 .. Len(Script) :
              /\ Script[k].op = "free" /\ Script[k].slot = Script[i].slot
              /\ \A j \in i + 1 .. k - 1 :
                   Script[j].op = "alloc" => Script[j].slot # Script[i].slot
        BY <2>1, <4>1, <4>2 DEF FreesWhatItKeeps
      <4>4. ~ (k \in i + 1 .. line - 1) /\ k # line
        BY <3>1, <3>4, <4>3 DEF Keeps, Now
      <4>5. line \in i + 1 .. k - 1
        BY <2>1, <4>3, <4>4
      <4>6. Script[i].slot # Now.slot /\ Script[i].slot \in Slots
        BY <2>1, <3>1, <4>2, <4>3, <4>5 DEF Now
      <4>7. slot'[Script[i].slot] = b
        BY <2>3, <3>1, <3>4, <4>6 DEF Keeps
      <4>8. QED
        BY <2>1, <3>1, <3>4, <4>1, <4>6, <4>7 DEF Keeps, Now
    <3>5. CASE \E i \in 1 .. line - 1 : Keeps(i, b)
      BY <2>1, <3>1, <3>4, <3>5
    <3>6. QED
      BY <1>2, <2>2, <3>2, <3>3, <3>5
  <2>8. QED
    BY <1>2, <2>4, <2>5, <2>6, <2>7, TestMoves
<1>3. QED
  <2>1. CASE \E t \in Threads : TestStep(t)
    <3>1. PICK t \in Threads : TestStep(t)
      BY <2>1
    <3>2. lost' = lost
      BY <3>1, TestRuns
    <3>3. QED
      BY <1>2, <3>1, <3>2 DEF KeptInv
  <2>2. QED
    BY <1>1, <2>1

(* A test that reaches the end of its script keeps nothing.                *)
LEMMA FreedStep ==
  ASSUME ProgramInv, MainStep \/ \E t \in Threads : TestStep(t)
  PROVE  FreedInv'
<1>1. CASE MainStep
  <2>1. UNCHANGED heap
    BY <1>1, MainLeaves DEF MainStep, heap_vars
  <2>2. at' \in {"tearDown", "conclude"} =>
          /\ at \in {"tearDown", "conclude"} /\ lost' = lost
          /\ CurrentTestFailed' = CurrentTestFailed
    BY <1>1
    DEF MainStep, BeginSuite, StartTest, SetUp, TearDown, Conclude, EndSuite,
        U!UnityBegin, U!RunTest, U!UnityConcludeTest, U!UnityEnd, U!Leave,
        U!flag_vars
  <2>3. QED
    BY <2>1, <2>2 DEF ProgramInv, FreedInv
<1>2. ASSUME NEW t \in Threads, TestStep(t), at' \in {"tearDown", "conclude"},
             CurrentTestFailed' = 0, NEW b \in Blocks \ lost
      PROVE  heap'[b] = 0
  <2>1. /\ at = "test" /\ line \in Nat \ {0} /\ Len(Script) \in Nat
        /\ line <= Len(Script) + 1 /\ FreesWhatItKeeps(Script)
    BY <1>2, TestRuns
  <2>2. ReturnFromTest
    <3>1. TestAssert(t) \/ ReturnFromTest
      BY <1>2, <2>1
      DEF TestStep, CallAllocNow, InCall, MallocFails, AllocReturns, CallFreeNow,
          FreeReturns, Crash, unity_vars
    <3>2. ~ U!FailOrIgnore
      BY <2>1 DEF ProgramInv, ControlInv, U!FailOrIgnore
    <3>3. ~ U!AssertionHolds /\ ~ U!UnityFail
      BY <1>2, <2>1, <3>2 DEF U!AssertionHolds, U!UnityFail
    <3>4. QED
      BY <3>1, <3>3 DEF TestAssert
  <2>3. heap' = heap /\ line = Len(Script) + 1
    BY <2>1, <2>2 DEF ReturnFromTest, vars, heap_vars
  <2>4. pc[t] = "idle"
    BY <2>1, <2>3 DEF ProgramInv, PhaseInv
  <2>5. ASSUME heap[b] > 0
        PROVE  FALSE
    <3>1. PICK i \in 1 .. line - 1 : Keeps(i, b)
      BY <2>1, <2>4, <2>5, OnlyThread DEF ProgramInv, KeptInv
    <3>2. ~ ExpectsNull(Script, i) /\ Script[i].op = "alloc"
      BY <2>1, <2>3, <3>1 DEF Keeps, ExpectsNull
    <3>3. i \in 1 .. Len(Script)
      BY <2>1, <2>3
    <3>4. PICK k \in i + 1 .. Len(Script) :
            Script[k].op = "free" /\ Script[k].slot = Script[i].slot
      BY <2>1, <3>2, <3>3 DEF FreesWhatItKeeps
    <3>5. k \in i + 1 .. line - 1
      BY <2>1, <2>3, <3>4
    <3>6. QED
      BY <3>1, <3>4, <3>5 DEF Keeps
  <2>6. heap[b] \in Nat
    BY DEF ProgramInv, HeapTypeOK
  <2>7. QED
    BY <2>3, <2>5, <2>6
<1>3. QED
  <2>1. CASE \E t \in Threads : TestStep(t)
    <3>1. PICK t \in Threads : TestStep(t)
      BY <2>1
    <3>2. lost' = lost
      BY <3>1, TestRuns
    <3>3. QED
      BY <1>2, <3>1, <3>2 DEF FreedInv
  <2>2. QED
    BY <1>1, <2>1

LEMMA ProgramStutter ==
  ASSUME ProgramInv, UNCHANGED program_vars
  PROVE  /\ HeapTypeOK' /\ ControlInv' /\ PhaseInv' /\ SlotInv' /\ KeptInv'
         /\ FreedInv'
<1> USE DEF program_vars, vars, unity_vars, script_vars, watch_vars, call_vars,
            heap_vars, ProgramInv
<1>1. UNCHANGED <<Tests, Script, Now>>
  BY ScriptStays DEF Now
<1>2. HeapTypeOK' /\ ControlInv' /\ PhaseInv'
  BY <1>1 DEF HeapTypeOK, ControlInv, PhaseInv
<1>3. SlotInv' /\ FreedInv'
  BY <1>1 DEF SlotInv, FreedInv
<1>4. KeptInv'
  BY <1>1 DEF KeptInv, Keeps, ExpectsNull
<1>5. QED
  BY <1>2, <1>3, <1>4

LEMMA ProgramInvNext == ProgramInv /\ [ProgramNext]_program_vars => ProgramInv'
<1> SUFFICES ASSUME ProgramInv, [ProgramNext]_program_vars
             PROVE  ProgramInv'
  OBVIOUS
<1>1. Session!IInv'
  BY SessionStep
<1>2. CASE ProgramNext /\ (MainStep \/ \E t \in Threads : TestStep(t))
  <2>1. HeapTypeOK'
    BY <1>2, HeapStep
  <2>2. ControlInv'
    BY <1>2, ControlMain, ControlTest
  <2>3. PhaseInv'
    BY <1>2, PhaseMain, PhaseTest
  <2>4. SlotInv' /\ KeptInv' /\ FreedInv'
    BY <1>2, SlotStep, KeptStep, FreedStep
  <2>5. QED
    BY <1>1, <2>1, <2>2, <2>3, <2>4 DEF ProgramInv
<1>3. CASE UNCHANGED program_vars
  BY <1>1, <1>3, ProgramStutter DEF ProgramInv
<1>4. QED
  BY <1>2, <1>3 DEF ProgramNext, Stopped

-----------------------------------------------------------------------------
(* What the invariant gives.                                               *)

(* Whatever the tests do and wherever they are left, the mutex is          *)
(* destroyed before it is initialised again, and no call uses it in        *)
(* between.                                                                *)
THEOREM MutexLifetimeHolds == ProgramSpec => []MutexLifetime
<1>1. ProgramInv => MutexLifetime
  BY DEF ProgramInv, ControlInv, PhaseInv, MutexLifetime
<1>2. QED
  BY <1>1, ProgramInvInit, ProgramInvNext, PTL DEF ProgramSpec

(* Whatever earlier tests left behind, the counters account for every byte *)
(* the running test obtained and for none that was lost before it.         *)
THEOREM SessionAccountingHolds == ProgramSpec => []SessionAccounting
<1>1. ProgramInv => SessionAccounting
  <2> SUFFICES ASSUME ProgramInv, NEW p \in Pool
               PROVE  used_memory[p] + Unsettled(p)
                        = SumOver({b \in Blocks \ lost : tag[b] = p}, heap)
                          + Claimed(p)
    BY DEF SessionAccounting
  <2>1. used_memory[p] + Session!Unsettled(p)
          = Session!PoolLive(p) + Session!Claimed(p)
    BY SessionConstants
    DEF ProgramInv, Session!IInv, Session!SumInv, Session!Accounting
  <2>2. \A points : Session!Callers(p, points) = Callers(p, points)
    BY DEF Session!Callers, Callers
  <2>3. Session!Claimed(p) = Claimed(p)
    BY <2>2, SessionConstants DEF Session!Claimed, Claimed
  <2>4. \A t \in Callers(p, {"settle"}) : Session!Excess[t] = Excess[t]
    BY InvTypes DEF Callers, Session!Excess, Excess, session_heap
  <2>5. SumOver(Callers(p, {"settle"}), Session!Excess) = Unsettled(p)
    BY <2>4, SumSame DEF Unsettled
  <2>6. Session!Unsettled(p) = Unsettled(p)
    BY <2>2, <2>5, SessionConstants DEF Session!Unsettled
  <2>7. QED
    BY <2>1, <2>3, <2>6, SessionBytes
<1>2. QED
  BY <1>1, ProgramInvInit, ProgramInvNext, PTL DEF ProgramSpec

(* A test that passes has freed every block it obtained.                   *)
THEOREM PassingTestsFreeAllHolds == ProgramSpec => []PassingTestsFreeAll
<1>1. ProgramInv => PassingTestsFreeAll
  BY DEF ProgramInv, FreedInv, PassingTestsFreeAll
<1>2. QED
  BY <1>1, ProgramInvInit, ProgramInvNext, PTL DEF ProgramSpec

(* The program drives Unity as UnityRunner allows any user's code to: each *)
(* of its steps, however many it takes inside an allocation, is one step   *)
(* of Unity or none.                                                       *)
THEOREM ProgramRunsUnity == ProgramSpec => U!UnitySpec
<1> USE DEF unity_vars, U!unity_vars, U!counter_vars, U!flag_vars, U!history_vars
<1>1. ProgramInit => U!UnityInit
  BY DEF ProgramInit
<1>2. ProgramNext => [U!UnityNext]_U!unity_vars
  <2>1. MainStep => U!UnityNext
    BY DEF MainStep, BeginSuite, StartTest, SetUp, TearDown, Conclude, EndSuite,
           U!UnityNext, U!UserStep
  <2>2. ASSUME NEW t \in Threads, TestStep(t)
        PROVE  U!UnityNext \/ UNCHANGED unity_vars
    BY <2>2
    DEF TestStep, CallAllocNow, InCall, MallocFails, AllocReturns, CallFreeNow,
        FreeReturns, TestAssert, Crash, ReturnFromTest, U!UnityNext, U!UserStep
  <2>3. Stopped => UNCHANGED unity_vars
    BY DEF Stopped, program_vars
  <2>4. QED
    BY <2>1, <2>2, <2>3 DEF ProgramNext
<1>3. UNCHANGED program_vars => UNCHANGED U!unity_vars
  BY DEF program_vars
<1>4. [ProgramNext]_program_vars => [U!UnityNext]_U!unity_vars
  BY <1>2, <1>3
<1>5. QED
  BY <1>1, <1>4, PTL DEF ProgramSpec, U!UnitySpec

-----------------------------------------------------------------------------
(* Why the tests pass.  As long as je_malloc has not failed a test, the    *)
(* heap of its session is what its script says it has taken.               *)

(* The total its suite sets, and the shares, are those of the running test.*)
TotalInv ==
  at = "test" =>
    /\ total_memory = Suites[suite].total
    /\ total_pool_mem = PoolSplit(Suites[suite].total)

(* The block of allocation j is where the script left it.                  *)
Stored(j) ==
  LET b == slot[Script[j].slot]
  IN  /\ b \in Blocks \ lost
      /\ heap[b] = UsableSize(Script[j].size) /\ tag[b] = Script[j].pool

(* A call in progress has given the block of allocation j back.            *)
Released(j) == \E t \in Threads : pc[t] = "refund" /\ Now.slot = Script[j].slot

(* Every allocation the script keeps has a block of its own, one that was  *)
(* to be refused has none, and a call in progress is granted what it may   *)
(* be, in a block that no other allocation has.                            *)
LedgerInv ==
  at = "test" /\ ~ failed =>
    /\ \A j \in Kept(Script, line) : Stored(j) \/ Released(j)
    /\ \A j, k \in Kept(Script, line) :
         slot[Script[j].slot] = slot[Script[k].slot] => j = k
    /\ line > 1 /\ Script[line - 1].op = "alloc" /\ ExpectsNull(Script, line - 1)
         => slot[Script[line - 1].slot] = NULL
    /\ \A t \in Threads :
         /\ pc[t] # "rollback"
         /\ pc[t] \in {"malloc", "settle"} => ~ ExpectsNull(Script, line)
         /\ pc[t] = "settle" =>
              /\ heap[ptr[t]] = UsableSize(num_bytes[t]) /\ tag[ptr[t]] = pool[t]
              /\ \A j \in Kept(Script, line) : slot[Script[j].slot] # ptr[t]

ExpectInv == ProgramInv /\ TotalInv /\ LedgerInv /\ FailsOnlyWithMalloc

(* What a script keeps changes with its allocations and its releases.      *)
LEMMA KeptNext ==
  ASSUME NEW script, NEW i \in Nat \ {0}
  PROVE  Kept(script, i + 1) =
           {j \in Kept(script, i) :
              script[i].op \in {"alloc", "free"} => script[i].slot # script[j].slot}
           \cup (IF script[i].op = "alloc" /\ ~ ExpectsNull(script, i) THEN {i} ELSE {})
<1>1. ASSUME NEW j \in 1 .. i
      PROVE  j + 1 .. (i + 1) - 1 = IF j = i THEN {} ELSE (j + 1 .. i - 1) \cup {i}
  <2>1. \A k \in Int : k \in j + 1 .. (i + 1) - 1 <=>
                          j # i /\ (k \in j + 1 .. i - 1 \/ k = i)
    OBVIOUS
  <2>2. (j + 1 .. (i + 1) - 1) \subseteq Int /\ (j + 1 .. i - 1) \subseteq Int /\ i \in Int
    OBVIOUS
  <2>3. QED
    BY <2>1, <2>2
<1>2. 1 .. (i + 1) - 1 = (1 .. i - 1) \cup {i} /\ i \notin 1 .. i - 1
  OBVIOUS
<1>3. ASSUME NEW j
      PROVE  j \in Kept(script, i + 1) <=>
               \/ /\ j \in Kept(script, i)
                  /\ script[i].op \in {"alloc", "free"} => script[i].slot # script[j].slot
               \/ j = i /\ script[i].op = "alloc" /\ ~ ExpectsNull(script, i)
  <2>1. CASE j \in 1 .. i - 1
    <3>1. j + 1 .. (i + 1) - 1 = (j + 1 .. i - 1) \cup {i} /\ j # i /\ j \in 1 .. (i + 1) - 1
      BY <2>1, <1>1
    <3>2. QED
      BY <2>1, <3>1, Zenon DEF Kept
  <2>2. CASE j = i
    <3>1. j + 1 .. (i + 1) - 1 = {} /\ j \in 1 .. (i + 1) - 1 /\ j \notin 1 .. i - 1
      BY <2>2, <1>1
    <3>2. QED
      BY <2>2, <3>1, Zenon DEF Kept
  <2>3. CASE j \notin 1 .. i - 1 /\ j # i
    <3>1. j \notin 1 .. (i + 1) - 1
      BY <1>2, <2>3
    <3>2. QED
      BY <2>3, <3>1, Zenon DEF Kept
  <2>4. QED
    BY <2>1, <2>2, <2>3
<1>4. QED
  BY <1>3

(* What the running test asserts follows from what it has taken.           *)
LEMMA ScriptAsserts ==
  ASSUME ControlInv, at = "test"
  PROVE  AssertsWhatFollows(Script, Suites[suite].total)
<1>1. suite \in 1 .. Len(Suites) /\ test \in 1 .. Len(Tests)
  BY DEF ControlInv
<1>2. QED
  BY <1>1, TestsAssumption DEF Script, Tests

(* An allocation the script keeps was one that had room.                   *)
LEMMA KeptFacts ==
  ASSUME ControlInv, at = "test", NEW j \in Kept(Script, line)
  PROVE  /\ j \in 1 .. line - 1 /\ j \in 1 .. Len(Script)
         /\ Script[j].op = "alloc" /\ ~ ExpectsNull(Script, j)
         /\ Script[j].slot \in Slots /\ Script[j].pool \in Pool
         /\ UsableSize(Script[j].size) \in Nat \ {0}
<1>1. /\ j \in 1 .. line - 1 /\ Script[j].op = "alloc" /\ ~ ExpectsNull(Script, j)
  BY DEF Kept
<1>2. j \in 1 .. Len(Script)
  BY <1>1, ScriptType DEF ControlInv
<1>3. Script[j] \in Instructions /\ ServedClosely(Script)
  BY <1>2, ScriptType
<1>4. Script[j].slot \in Slots /\ Script[j].pool \in Pool
  BY <1>1, <1>3 DEF Instructions
<1>5. HasRoom(Script, j, Suites[suite].total)
  BY <1>1, <1>2, ScriptAsserts DEF AssertsWhatFollows
<1>6. Script[j].size \in MinReq[Script[j].pool] .. MaxReq[Script[j].pool]
  BY <1>5 DEF HasRoom
<1>7. UsableSize(Script[j].size) \in UsableSizes(Script[j].size)
  BY <1>1, <1>2, <1>3, <1>6 DEF ServedClosely
<1>8. /\ MinReq[Script[j].pool] \in Nat \ {0} /\ MaxReq[Script[j].pool] \in Nat
      /\ MaxSlack \in Nat
  BY <1>4, ReqSizeAssumption, SizeModAssumption, MemMgrAssumption DEF SizeT
<1> DEFINE n == Script[j].size
           u == UsableSize(n)
<1>9. n \in Nat \ {0}
  BY <1>6, <1>8
<1> HIDE DEF n
<1>10. u \in Nat \ {0}
  <2>1. u \in n .. n + MaxSlack
    BY <1>7 DEF UsableSizes, n
  <2> HIDE DEF u
  <2>2. QED
    BY <1>8, <1>9, <2>1
<1>11. QED
  BY <1>1, <1>2, <1>4, <1>10 DEF n

(* When a request is decided, the bytes of the session are those the       *)
(* script has taken: its blocks and the allocations it keeps are paired.   *)
LEMMA ChargeIsLive ==
  ASSUME ExpectInv, ~ failed, NEW t \in Threads, pc[t] = "decide", NEW p \in Pool
  PROVE  Session!PoolLive(p) = Charge(Script, line, p)
<1> DEFINE K == Kept(Script, line)
           S == {j \in K : Script[j].pool = p}
           f == [j \in S |-> UsableSize(Script[j].size)]
           T == {b \in Blocks \ lost : tag[b] = p}
           block(j) == slot[Script[j].slot]
<1>1. /\ at = "test" /\ ControlInv /\ HeapTypeOK /\ line \in 1 .. Len(Script)
      /\ Len(Script) \in Nat
  BY CallTypes, ScriptType DEF ExpectInv, ProgramInv
<1>2. \A u \in Threads : pc[u] = "decide"
  BY OnlyThread
<1>3. \A j \in K : Stored(j)
  BY <1>1, <1>2 DEF ExpectInv, LedgerInv, Released
<1>4. \A j, k \in K : block(j) = block(k) => j = k
  BY <1>1 DEF ExpectInv, LedgerInv
<1>5. \A j \in S : block(j) \in T /\ f[j] = heap[block(j)] /\ f[j] \in Nat
  BY <1>1, <1>3, KeptFacts DEF Stored
<1>6. \A b \in T : heap[b] \in Nat
  BY <1>1 DEF HeapTypeOK
<1>7. ASSUME NEW b \in T
      PROVE  \E j \in S : block(j) = b
  <2>1. heap[b] > 0
    <3>1. heap[b] # 0
      BY InvTypes, MemMgrAssumption DEF ExpectInv
    <3>2. QED
      BY <1>6, <3>1
  <2>2. PICK j \in 1 .. line - 1 : Keeps(j, b)
    BY <1>1, <1>2, <2>1 DEF ExpectInv, ProgramInv, KeptInv
  <2>3. ~ ExpectsNull(Script, j)
    <3>1. ASSUME ExpectsNull(Script, j)
          PROVE  FALSE
      <4>1. line = j + 1 /\ Script[j].op = "alloc" /\ slot[Script[j].slot] = b
        BY <2>2, <3>1 DEF Keeps
      <4>2. line - 1 = j /\ line > 1
        BY <4>1
      <4>3. slot[Script[j].slot] = NULL
        BY <1>1, <3>1, <4>1, <4>2 DEF ExpectInv, LedgerInv
      <4>4. QED
        BY <4>1, <4>3, MemMgrAssumption
    <3>2. QED
      BY <3>1
  <2>4. j \in K /\ block(j) = b
    BY <2>2, <2>3 DEF Keeps, Kept
  <2>5. Script[j].pool = p
    BY <1>3, <2>4 DEF Stored
  <2>6. QED
    BY <2>4, <2>5
<1>8. IsFiniteSet(S) /\ IsFiniteSet(T)
  <2>1. S \subseteq 1 .. line - 1
    BY DEF Kept
  <2>2. IsFiniteSet(1 .. line - 1)
    BY <1>1, FS_Interval
  <2>3. QED
    BY <2>1, <2>2, FS_Subset, MemMgrAssumption
<1> DEFINE h == [j \in S |-> block(j)]
           g == [b \in T |-> CHOOSE j \in S : block(j) = b]
<1>9. /\ h \in [S -> T] /\ \A x, y \in S : h[x] = h[y] => x = y
      /\ \A x \in S : f[x] \in Nat /\ f[x] <= heap[h[x]]
  <2>1. \A x \in S : h[x] = block(x) /\ f[x] <= f[x]
    BY <1>5
  <2> HIDE DEF f
  <2>2. QED
    BY <1>4, <1>5, <2>1
<1>10. /\ g \in [T -> S] /\ \A x, y \in T : g[x] = g[y] => x = y
       /\ \A x \in T : heap[x] \in Nat /\ heap[x] <= f[g[x]]
  <2>1. \A x \in T : g[x] \in S /\ block(g[x]) = x
    BY <1>7
  <2>2. \A x \in T : heap[x] <= heap[x]
    BY <1>6
  <2>3. g \in [T -> S]
    BY <2>1
  <2> HIDE DEF f, g, S, T, block
  <2>4. QED
    BY <1>5, <1>6, <2>1, <2>2, <2>3
<1>11. \A j \in S : f[j] \in Nat
  BY <1>5
<1>12. Charge(Script, line, p) = SumOver(S, f)
  BY DEF Charge
<1> HIDE DEF f, g, h, S, T, block
<1>13. SumOver(S, f) <= SumOver(T, heap)
  BY <1>6, <1>8, <1>9, SumInjection
<1>14. SumOver(T, heap) <= SumOver(S, f)
  BY <1>8, <1>10, <1>11, SumInjection
<1>15. SumOver(S, f) \in Nat /\ SumOver(T, heap) \in Nat
  BY <1>6, <1>8, <1>11, SumType
<1>16. SumOver(T, heap) = SumOver(S, f)
  BY <1>13, <1>14, <1>15
<1>17. QED
  BY <1>12, <1>16, SessionBytes DEF T

(* So the manager decides as the script expects.                           *)
LEMMA DecidesAsExpected ==
  ASSUME ExpectInv, ~ failed, NEW t \in Threads, pc[t] = "decide"
  PROVE  Admits(pool[t], num_bytes[t], used_memory) <=> ~ ExpectsNull(Script, line)
<1> DEFINE p == pool[t]
           n == num_bytes[t]
           total == Suites[suite].total
<1>1. /\ at = "test" /\ line \in 1 .. Len(Script) /\ ControlInv /\ Session!IInv
      /\ Now.op = "alloc" /\ pool[t] = Now.pool /\ num_bytes[t] = Now.size
  BY CallTypes DEF ExpectInv, ProgramInv, PhaseInv
<1>2. p \in Pool /\ n \in SizeT
  <2>1. pool[t] # NoPool /\ pool[t] \in Pool \cup {NoPool} /\ num_bytes[t] \in SizeT
    BY InvTypes DEF ExpectInv
  <2>2. QED
    BY <2>1
<1>3. /\ total_memory = total /\ total_pool_mem = PoolSplit(total)
  BY <1>1 DEF ExpectInv, TotalInv
<1>4. Session!Alone(t)
  BY OnlyThread DEF Session!Alone
<1>5. \A q \in Pool : used_memory[q] = Charge(Script, line, q)
  <2>1. \A q \in Session!Pool : used_memory[q] = Session!PoolLive(q)
    BY <1>1, <1>4, SessionAssumptions, Session!AloneExact
  <2>2. QED
    BY <2>1, ChargeIsLive, SessionConstants
<1> HIDE DEF p, n, total
<1>6. Session!Admits(p, n, used_memory) <=>
        /\ n \in MinReq[p] .. MaxReq[p]
        /\ p = StoragePool =>
             used_memory[StoragePool] + n <= total_pool_mem[StoragePool]
        /\ used_memory[ExecPool] + used_memory[StoragePool] + n <= total_memory
  <2>1. p \in Session!Pool /\ n \in Session!SizeT
    BY <1>2, SessionConstants
  <2>2. QED
    BY <1>1, <2>1, SessionConstants, SessionAssumptions, Session!AdmitsExact
<1>7. ExecPool \in Pool /\ StoragePool \in Pool
  BY DEF Pool
<1>8. Admits(p, n, used_memory) <=>
        /\ n \in MinReq[p] .. MaxReq[p]
        /\ p = StoragePool => Charge(Script, line, p) + n <= PoolSplit(total)[p]
        /\ Charge(Script, line, ExecPool) + Charge(Script, line, StoragePool) + n <= total
  <2>1. /\ used_memory[ExecPool] = Charge(Script, line, ExecPool)
        /\ used_memory[StoragePool] = Charge(Script, line, StoragePool)
    BY <1>5, <1>7
  <2>2. QED
    BY <1>3, <1>6, <2>1, SessionOperators
<1>9. HasRoom(Script, line, total) <=> Admits(p, n, used_memory)
  <2>1. Script[line].pool = p /\ Script[line].size = n
    BY <1>1 DEF Now, p, n
  <2>2. QED
    BY <1>8, <2>1 DEF HasRoom
<1>10. ExpectsNull(Script, line) <=> ~ HasRoom(Script, line, total)
  BY <1>1, ScriptAsserts DEF AssertsWhatFollows, Now, total
<1>11. QED
  BY <1>9, <1>10 DEF p, n

(* And every assertion of the script holds.                                *)
LEMMA AssertionHolds ==
  ASSUME ExpectInv, ~ failed, NEW t \in Threads, TestAssert(t)
  PROVE  Holds
<1>1. /\ at = "test" /\ pc[t] = "idle" /\ line \in 1 .. Len(Script) /\ ControlInv
      /\ Now.op \in {"null", "block", "size"}
  BY CurrentInstruction DEF TestAssert, Ready, ExpectInv, ProgramInv
<1>2. \A j \in Kept(Script, line) : Stored(j)
  BY <1>1, OnlyThread DEF ExpectInv, LedgerInv, Released
<1>3. AssertsWhatFollows(Script, Suites[suite].total)
  BY <1>1, ScriptAsserts
<1>4. CASE Now.op = "null"
  <2>1. line > 1 /\ Script[line - 1].op = "alloc" /\ ExpectsNull(Script, line - 1)
    BY <1>1, <1>3, <1>4 DEF AssertsWhatFollows, Now
  <2>2. slot[Script[line - 1].slot] = NULL
    BY <1>1, <2>1 DEF ExpectInv, LedgerInv
  <2>3. Now.slot = Script[line - 1].slot
    <3>1. Script[(line - 1) + 1].slot = Script[line - 1].slot
      BY <2>1 DEF ExpectsNull
    <3>2. (line - 1) + 1 = line
      BY <1>1
    <3>3. QED
      BY <3>1, <3>2 DEF Now
  <2>4. QED
    BY <1>4, <2>2, <2>3 DEF Holds
<1>5. CASE Now.op \in {"block", "size"}
  <2>1. PICK j \in Kept(Script, line) :
          /\ Script[j].slot = Now.slot
          /\ Now.op = "size" => UsableSize(Script[j].size) = Now.size
    BY <1>1, <1>3, <1>5 DEF AssertsWhatFollows, Now
  <2>2. slot[Now.slot] \in Blocks /\ heap[slot[Now.slot]] = UsableSize(Script[j].size)
    BY <1>2, <2>1 DEF Stored
  <2>3. CASE Now.op = "block"
    BY <2>2, <2>3, MemMgrAssumption DEF Holds
  <2>4. CASE Now.op = "size"
    BY <2>1, <2>2, <2>4 DEF Holds
  <2>5. QED
    BY <1>5, <2>3, <2>4
<1>6. QED
  BY <1>1, <1>4, <1>5

-----------------------------------------------------------------------------
(* The ledger is inductive.                                                *)

LEMMA ExpectMain ==
  ASSUME ExpectInv, MainStep
  PROVE  TotalInv' /\ LedgerInv' /\ FailsOnlyWithMalloc'
<1> USE DEF MainStep, U!UnityBegin, U!RunTest, U!UnityConcludeTest, U!UnityEnd, U!Leave
<1>1. at' = "test" => SetUp
  BY DEF BeginSuite, StartTest, TearDown, Conclude, EndSuite
<1>2. CASE SetUp
  <2>1. /\ suite' = suite /\ Suites' = Suites /\ line' = line /\ failed' = failed /\ pc' = pc
        /\ CurrentTestFailed' = CurrentTestFailed
    BY <1>2 DEF SetUp, script_vars, call_vars, U!flag_vars, Suites
  <2>2. line = 1 /\ \A t \in Threads : pc[t] = "idle"
    BY <1>2 DEF SetUp, ExpectInv, ProgramInv, ControlInv, PhaseInv
  <2>3. TotalInv'
    <3>1. PoolSplit(Suites[suite].total)' = PoolSplit(Suites[suite].total)
      BY <2>1 DEF PoolSplit
    <3>2. QED
      BY <1>2, <2>1, <3>1 DEF SetUp, TotalInv
  <2>4. Kept(Script, line)' = {}
    BY <2>1, <2>2 DEF Kept
  <2>5. LedgerInv'
    BY <2>1, <2>2, <2>4 DEF LedgerInv
  <2>6. QED
    BY <2>1, <2>3, <2>5 DEF ExpectInv, FailsOnlyWithMalloc
<1>3. CASE ~ SetUp
  <2>1. TotalInv' /\ LedgerInv'
    BY <1>1, <1>3 DEF TotalInv, LedgerInv
  <2>2. FailsOnlyWithMalloc'
    BY <1>3
    DEF BeginSuite, StartTest, TearDown, Conclude, EndSuite, U!flag_vars, watch_vars,
        ExpectInv, ProgramInv, ControlInv, FailsOnlyWithMalloc
  <2>3. QED
    BY <2>1, <2>2
<1>4. QED
  BY <1>2, <1>3

(* What the next state has to show, in terms of the script that stays.     *)
LEMMA LedgerNext ==
  ASSUME UNCHANGED Script,
         \A j \in Kept(Script, line') :
           \/ Stored(j)'
           \/ \E t \in Threads : pc'[t] = "refund" /\ Now'.slot = Script[j].slot,
         \A j, k \in Kept(Script, line') :
           slot'[Script[j].slot] = slot'[Script[k].slot] => j = k,
         line' > 1 /\ Script[line' - 1].op = "alloc" /\ ExpectsNull(Script, line' - 1)
           => slot'[Script[line' - 1].slot] = NULL,
         \A t \in Threads :
           /\ pc'[t] # "rollback"
           /\ pc'[t] \in {"malloc", "settle"} => ~ ExpectsNull(Script, line')
           /\ pc'[t] = "settle" =>
                /\ heap'[ptr'[t]] = UsableSize(num_bytes'[t])
                /\ tag'[ptr'[t]] = pool'[t]
                /\ \A j \in Kept(Script, line') : slot'[Script[j].slot] # ptr'[t]
  PROVE  LedgerInv'
<1>1. Kept(Script, line)' = Kept(Script, line')
  BY DEF Kept, ExpectsNull
<1>2. /\ ExpectsNull(Script, line)' <=> ExpectsNull(Script, line')
      /\ ExpectsNull(Script, line - 1)' <=> ExpectsNull(Script, line' - 1)
  BY DEF ExpectsNull
<1>3. \A t \in Threads : UsableSize(num_bytes[t])' = UsableSize(num_bytes'[t])
  BY DEF UsableSize
<1>4. QED
  BY <1>1, <1>2, <1>3 DEF LedgerInv, Released

(* A block that is where the script left it stays there.                   *)
LEMMA StoredStays ==
  ASSUME NEW j, Stored(j), UNCHANGED <<Script, lost>>,
         slot'[Script[j].slot] = slot[Script[j].slot],
         heap'[slot[Script[j].slot]] = heap[slot[Script[j].slot]],
         tag'[slot[Script[j].slot]] = tag[slot[Script[j].slot]]
  PROVE  Stored(j)'
<1>1. UsableSize(Script[j].size)' = UsableSize(Script[j].size)
  BY DEF UsableSize
<1>2. QED
  BY <1>1 DEF Stored

LEMMA LedgerCall ==
  ASSUME ExpectInv, ~ failed, NEW t \in Threads, at = "test",
         UNCHANGED <<suite, test, lost, line, slot>>,
         CallAllocNow(t) \/ CallFreeNow(t) \/ Crash(t) \/ InCall(t)
  PROVE  LedgerInv'
<1> DEFINE K == Kept(Script, line)
           block(j) == slot[Script[j].slot]
<1>1. /\ UNCHANGED Script /\ Now' = Now /\ LedgerInv /\ ControlInv /\ HeapTypeOK
  BY ScriptStays DEF Now, ExpectInv, ProgramInv
<1>2. /\ \A j \in K : Stored(j) \/ (pc[t] = "refund" /\ Now.slot = Script[j].slot)
      /\ \A j, k \in K : block(j) = block(k) => j = k
      /\ line > 1 /\ Script[line - 1].op = "alloc" /\ ExpectsNull(Script, line - 1)
           => slot[Script[line - 1].slot] = NULL
      /\ pc[t] # "rollback"
      /\ pc[t] \in {"malloc", "settle"} => ~ ExpectsNull(Script, line)
      /\ pc[t] = "settle" =>
           /\ heap[ptr[t]] = UsableSize(num_bytes[t]) /\ tag[ptr[t]] = pool[t]
           /\ \A j \in K : block(j) # ptr[t]
  BY <1>1, OnlyThread DEF LedgerInv, Released
<1>3. /\ pc \in [Threads -> PC] /\ ptr \in [Threads -> Blocks \cup {NULL}]
      /\ heap \in [Blocks -> Nat] /\ tag \in [Blocks -> Pool \cup {NoPool}]
  BY <1>1, InvTypes DEF ExpectInv, HeapTypeOK
<1>4. \A j \in K : Stored(j) => block(j) \in Blocks \ lost /\ heap[block(j)] # 0
  BY <1>1, KeptFacts DEF Stored
<1>5. ASSUME \A j \in K : \/ Stored(j)'
                          \/ pc'[t] = "refund" /\ Now.slot = Script[j].slot,
             pc'[t] # "rollback",
             pc'[t] \in {"malloc", "settle"} => ~ ExpectsNull(Script, line),
             pc'[t] = "settle" =>
               /\ heap'[ptr'[t]] = UsableSize(num_bytes'[t]) /\ tag'[ptr'[t]] = pool'[t]
               /\ \A j \in K : block(j) # ptr'[t]
      PROVE  LedgerInv'
  BY <1>1, <1>2, <1>5, OnlyThread, LedgerNext
<1> HIDE DEF K
<1>6. ASSUME UNCHANGED <<heap, tag>>, pc[t] # "refund"
      PROVE  \A j \in K : Stored(j)'
  BY <1>1, <1>2, <1>6, StoredStays
<1>7. CASE CallAllocNow(t) \/ CallFreeNow(t) \/ Crash(t)
  <2>1. pc[t] = "idle" /\ pc'[t] \in {"idle", "decide", "free"} /\ UNCHANGED <<heap, tag>>
    BY <1>3, <1>7
    DEF CallAllocNow, CallAlloc, CallFreeNow, CallFree, Crash, Ready, Goto, heap_vars,
        vars, call_vars
  <2>2. QED
    BY <1>5, <1>6, <2>1
<1>8. CASE Reserve(t)
  <2>1. /\ pc[t] = "decide" /\ pc'[t] = "malloc" /\ UNCHANGED <<heap, tag>>
        /\ Admits(pool[t], num_bytes[t], used_memory)
    BY <1>3, <1>8 DEF Reserve, Goto, heap_vars
  <2>2. ~ ExpectsNull(Script, line)
    BY <2>1, DecidesAsExpected
  <2>3. QED
    BY <1>5, <1>6, <2>1, <2>2
<1>9. CASE /\ pc[t] = "malloc" /\ \E b \in Blocks : heap[b] = 0
           /\ JeMalloc(t, FreeBlock, UsableSize(num_bytes[t]))
  <2> DEFINE b == FreeBlock
             s == UsableSize(num_bytes[t])
  <2>1. b \in Blocks /\ heap[b] = 0
    BY <1>9 DEF FreeBlock
  <2>2. /\ heap' = [heap EXCEPT ![b] = s] /\ tag' = [tag EXCEPT ![b] = pool[t]]
        /\ ptr' = [ptr EXCEPT ![t] = b] /\ num_bytes' = num_bytes /\ pool' = pool
        /\ pc'[t] = "settle"
    BY <1>3, <1>9 DEF JeMalloc, Goto
  <2> HIDE DEF b, s
  <2>3. \A j \in K : Stored(j) /\ block(j) # b
    BY <1>2, <1>4, <1>9, <2>1
  <2>4. \A j \in K : Stored(j)'
    BY <1>1, <1>3, <1>4, <2>2, <2>3, StoredStays
  <2>5. /\ ptr'[t] = b /\ heap'[b] = s /\ tag'[b] = pool[t]
    BY <1>3, <2>1, <2>2
  <2>6. heap'[ptr'[t]] = UsableSize(num_bytes'[t]) /\ tag'[ptr'[t]] = pool'[t]
    BY <2>2, <2>5 DEF s
  <2>7. QED
    BY <1>2, <1>5, <1>9, <2>2, <2>3, <2>4, <2>5, <2>6
<1>10. CASE JeFree(t)
  <2>1. /\ pc[t] = "free" /\ pc'[t] = "refund" /\ ptr[t] \in Blocks
        /\ heap' = [heap EXCEPT ![ptr[t]] = 0] /\ tag' = [tag EXCEPT ![ptr[t]] = NoPool]
    BY <1>3, <1>10, InvTypes DEF JeFree, Goto, ExpectInv
  <2>2. /\ Now.op = "free" /\ ptr[t] = slot[Now.slot] /\ line \in 1 .. Len(Script)
    BY <2>1, CallTypes DEF ExpectInv, ProgramInv, PhaseInv
  <2>3. PICK k \in K : Script[k].slot = Now.slot
    BY <1>1, <2>2, ScriptAsserts DEF AssertsWhatFollows, Now, K
  <2>4. ASSUME NEW j \in K, Now.slot # Script[j].slot
        PROVE  Stored(j)'
    <3>1. Stored(j) /\ block(j) # ptr[t]
      BY <1>2, <2>1, <2>2, <2>3, <2>4
    <3>2. heap'[block(j)] = heap[block(j)] /\ tag'[block(j)] = tag[block(j)]
      BY <1>3, <1>4, <2>1, <3>1
    <3>3. QED
      BY <1>1, <3>1, <3>2, StoredStays
  <2>5. QED
    BY <1>5, <2>1, <2>4
<1>11. QED
  BY <1>7, <1>8, <1>9, <1>10 DEF InCall

LEMMA LedgerPasses ==
  ASSUME ExpectInv, ~ failed, NEW t \in Threads, at = "test",
         UNCHANGED <<suite, test, lost>>, Passes, FreeReturns(t) \/ TestAssert(t)
  PROVE  LedgerInv'
<1> DEFINE K == Kept(Script, line)
           block(j) == slot[Script[j].slot]
<1>1. /\ UNCHANGED Script /\ LedgerInv /\ ControlInv
      /\ line \in Nat \ {0} /\ line' = line + 1 /\ slot' = slot /\ Now.op # "alloc"
  BY ScriptStays DEF ExpectInv, ProgramInv, ControlInv, Passes
<1>2. /\ \A j \in K : Stored(j) \/ (pc[t] = "refund" /\ Now.slot = Script[j].slot)
      /\ \A j, k \in K : block(j) = block(k) => j = k
  BY <1>1, OnlyThread DEF LedgerInv, Released
<1>3. Kept(Script, line') =
        {j \in K : Script[line].op \in {"alloc", "free"} => Script[line].slot # Script[j].slot}
  BY <1>1, KeptNext DEF Now
<1>4. /\ UNCHANGED <<heap, tag>> /\ pc'[t] = "idle"
      /\ pc[t] = "idle" \/ (pc[t] = "refund" /\ Now.op = "free")
  <2>1. pc \in [Threads -> PC] /\ (pc[t] = "refund" => Now.op = "free")
    BY InvTypes DEF ExpectInv, ProgramInv, PhaseInv
  <2>2. QED
    BY <2>1
    DEF FreeReturns, Refund, Return, Goto, TestAssert, Ready, vars, heap_vars, call_vars
<1> HIDE DEF K
<1>5. ASSUME NEW j \in Kept(Script, line')
      PROVE  Stored(j)'
  <2>1. j \in K /\ (pc[t] = "refund" => Now.slot # Script[j].slot)
    BY <1>3, <1>4, <1>5 DEF Now
  <2>2. Stored(j)
    BY <1>2, <2>1
  <2>3. QED
    BY <1>1, <1>4, <2>2, StoredStays
<1>6. \A j, k \in Kept(Script, line') :
        slot'[Script[j].slot] = slot'[Script[k].slot] => j = k
  BY <1>1, <1>2, <1>3
<1>7. ~ (Script[line' - 1].op = "alloc")
  <2>1. line' - 1 = line
    BY <1>1
  <2>2. QED
    BY <1>1, <2>1 DEF Now
<1>8. QED
  BY <1>1, <1>4, <1>5, <1>6, <1>7, OnlyThread, LedgerNext

LEMMA LedgerStores ==
  ASSUME ExpectInv, ~ failed, NEW t \in Threads, at = "test",
         UNCHANGED <<suite, test, lost>>, Stores(t), AllocReturns(t)
  PROVE  LedgerInv'
<1> DEFINE K == Kept(Script, line)
           block(j) == slot[Script[j].slot]
           v == IF pc[t] = "settle" THEN ptr[t] ELSE NULL
<1>1. /\ UNCHANGED Script /\ LedgerInv /\ ControlInv
      /\ line \in Nat \ {0} /\ line \in 1 .. Len(Script) /\ line' = line + 1
      /\ Now.op = "alloc" /\ Now.slot \in Slots
      /\ slot' = [slot EXCEPT ![Now.slot] = v] /\ slot \in [Slots -> Blocks \cup {NULL}]
  BY ScriptStays, ScriptType DEF ExpectInv, ProgramInv, ControlInv, Stores, Now
<1>2. /\ \A j \in K : Stored(j) \/ pc[t] = "refund"
      /\ \A j, k \in K : block(j) = block(k) => j = k
      /\ pc[t] # "rollback"
      /\ pc[t] = "settle" =>
           /\ ~ ExpectsNull(Script, line)
           /\ heap[ptr[t]] = UsableSize(num_bytes[t]) /\ tag[ptr[t]] = pool[t]
           /\ \A j \in K : block(j) # ptr[t]
  BY <1>1, OnlyThread DEF LedgerInv, Released
<1>3. /\ UNCHANGED <<heap, tag>> /\ pc'[t] = "idle"
      /\ \/ pc[t] = "settle"
         \/ pc[t] = "decide" /\ ~ Admits(pool[t], num_bytes[t], used_memory)
  <2>1. pc \in [Threads -> PC]
    BY InvTypes DEF ExpectInv
  <2>2. QED
    BY <1>2, <2>1 DEF AllocReturns, Refuse, Settle, Rollback, Return, Goto, heap_vars
<1>4. pc[t] = "settle" <=> ~ ExpectsNull(Script, line)
  BY <1>2, <1>3, DecidesAsExpected
<1>5. Kept(Script, line') = {j \in K : Now.slot # Script[j].slot}
                            \cup (IF pc[t] = "settle" THEN {line} ELSE {})
  BY <1>1, <1>4, KeptNext DEF Now
<1>6. /\ pc[t] = "settle" => ptr[t] \in Blocks \ lost
      /\ pool[t] = Now.pool /\ num_bytes[t] = Now.size
  BY <1>3, InvTypes DEF ExpectInv, ProgramInv, PhaseInv
<1>7. \A j \in K : Stored(j) /\ Script[j].slot \in Slots
  BY <1>1, <1>2, <1>3, KeptFacts
<1> HIDE DEF K, v
<1>8. ASSUME NEW j \in K, Now.slot # Script[j].slot
      PROVE  slot'[Script[j].slot] = block(j)
  BY <1>1, <1>7, <1>8
<1>9. slot'[Script[line].slot] = v
  BY <1>1 DEF Now
<1>10. ASSUME NEW j \in Kept(Script, line')
       PROVE  Stored(j)'
  <2>1. CASE j \in K /\ Now.slot # Script[j].slot
    BY <1>1, <1>3, <1>7, <1>8, <2>1, StoredStays
  <2>2. CASE j = line /\ pc[t] = "settle"
    <3>1. /\ slot'[Script[j].slot] = ptr[t] /\ ptr[t] \in Blocks \ lost
          /\ heap[ptr[t]] = UsableSize(Script[j].size) /\ tag[ptr[t]] = Script[j].pool
      BY <1>2, <1>6, <1>9, <2>2 DEF v, Now
    <3>2. UsableSize(Script[j].size)' = UsableSize(Script[j].size)
      BY <1>1 DEF UsableSize
    <3>3. QED
      BY <1>1, <1>3, <3>1, <3>2 DEF Stored
  <2>3. QED
    BY <1>5, <1>10, <2>1, <2>2
<1>11. ASSUME NEW j \in Kept(Script, line'), NEW k \in Kept(Script, line'),
              slot'[Script[j].slot] = slot'[Script[k].slot]
       PROVE  j = k
  <2>1. ASSUME NEW i \in Kept(Script, line')
        PROVE  \/ i \in K /\ slot'[Script[i].slot] = block(i)
               \/ i = line /\ pc[t] = "settle" /\ slot'[Script[i].slot] = ptr[t]
    BY <1>5, <1>8, <1>9, <2>1 DEF v
  <2>2. QED
    BY <1>2, <1>11, <2>1
<1>12. ASSUME ExpectsNull(Script, line' - 1)
       PROVE  slot'[Script[line' - 1].slot] = NULL
  <2>1. line' - 1 = line
    BY <1>1
  <2>2. QED
    BY <1>4, <1>9, <1>12, <2>1 DEF v
<1>13. QED
  BY <1>1, <1>3, <1>10, <1>11, <1>12, OnlyThread, LedgerNext

LEMMA ExpectTest ==
  ASSUME ExpectInv, NEW t \in Threads, TestStep(t)
  PROVE  TotalInv' /\ LedgerInv' /\ FailsOnlyWithMalloc'
<1>1. /\ at = "test" /\ UNCHANGED <<suite, test, lost>>
  BY TestRuns, TestLeaves DEF ExpectInv
<1>2. UNCHANGED <<total_memory, total_pool_mem>>
  BY DEF TestStep, CallAllocNow, CallAlloc, InCall, Reserve, JeMalloc, JeFree, MallocFails,
         JeMallocFails, AllocReturns, Refuse, Settle, Rollback, CallFreeNow, CallFree,
         FreeReturns, Refund, TestAssert, Crash, ReturnFromTest, AdjustAlloc, policy_vars, vars
<1>3. TotalInv'
  <2>1. /\ (Suites[suite].total)' = Suites[suite].total
        /\ PoolSplit(Suites[suite].total)' = PoolSplit(Suites[suite].total)
    BY <1>1 DEF PoolSplit, Suites
  <2>2. QED
    BY <1>1, <1>2, <2>1 DEF ExpectInv, TotalInv
<1>4. MallocFails(t) \/ failed' = failed
  BY DEF TestStep, CallAllocNow, InCall, AllocReturns, CallFreeNow, FreeReturns, TestAssert,
         Crash, ReturnFromTest, watch_vars
<1>5. CASE failed'
  BY <1>3, <1>5 DEF LedgerInv, FailsOnlyWithMalloc
<1>6. CASE ~ failed' /\ failed' = failed
  <2>1. ~ MallocFails(t)
    BY <1>6 DEF MallocFails
  <2>2. LedgerInv'
    <3>1. CASE Stays /\ ~ ReturnFromTest
      <4>1. line' = line /\ slot' = slot /\ line \in Nat
        BY <3>1, TestRuns DEF Stays, ExpectInv
      <4>2. ~ AllocReturns(t) /\ ~ FreeReturns(t) /\ ~ TestAssert(t)
        BY <4>1 DEF AllocReturns, FreeReturns, TestAssert
      <4>3. QED
        BY <1>1, <1>6, <2>1, <3>1, <4>1, <4>2, LedgerCall DEF TestStep
    <3>2. CASE ReturnFromTest
      BY <3>2 DEF ReturnFromTest, U!Leave, LedgerInv
    <3>3. QED
      BY <1>1, <1>6, <3>1, <3>2, TestMoves, LedgerPasses, LedgerStores DEF ExpectInv
  <2>3. FailsOnlyWithMalloc'
    <3>1. CASE TestAssert(t)
      <4>1. Holds
        BY <1>6, <3>1, AssertionHolds
      <4>2. CurrentTestFailed' = CurrentTestFailed
        BY <3>1, <4>1 DEF TestAssert, U!AssertionHolds, U!flag_vars
      <4>3. QED
        BY <1>6, <4>2 DEF ExpectInv, FailsOnlyWithMalloc
    <3>2. CASE ~ TestAssert(t)
      <4>1. CurrentTestFailed' = CurrentTestFailed
        BY <3>2
        DEF TestStep, CallAllocNow, InCall, MallocFails, AllocReturns, CallFreeNow,
            FreeReturns, Crash, ReturnFromTest, unity_vars, U!Leave, U!flag_vars
      <4>2. QED
        BY <1>6, <4>1 DEF ExpectInv, FailsOnlyWithMalloc
    <3>3. QED
      BY <3>1, <3>2
  <2>4. QED
    BY <1>3, <2>2, <2>3
<1>7. QED
  BY <1>4, <1>5, <1>6 DEF MallocFails

LEMMA ExpectInvInit == ProgramInit => ExpectInv
<1>1. ASSUME ProgramInit
      PROVE  TotalInv /\ LedgerInv /\ FailsOnlyWithMalloc
  BY <1>1 DEF ProgramInit, U!UnityInit, TotalInv, LedgerInv, FailsOnlyWithMalloc
<1>2. QED
  BY <1>1, ProgramInvInit DEF ExpectInv

LEMMA ExpectInvNext == ExpectInv /\ [ProgramNext]_program_vars => ExpectInv'
<1> SUFFICES ASSUME ExpectInv, [ProgramNext]_program_vars
             PROVE  ExpectInv'
  OBVIOUS
<1>1. ProgramInv'
  BY ProgramInvNext DEF ExpectInv
<1>2. CASE MainStep \/ \E t \in Threads : TestStep(t)
  BY <1>1, <1>2, ExpectMain, ExpectTest DEF ExpectInv
<1>3. CASE UNCHANGED program_vars
  <2>1. UNCHANGED <<at, suite, test, line, slot, lost, failed, CurrentTestFailed, pc, pool,
                    num_bytes, ptr, heap, tag, total_memory, total_pool_mem>>
    BY <1>3 DEF program_vars, vars, unity_vars, script_vars, watch_vars, call_vars, heap_vars,
                policy_vars
  <2>2. UNCHANGED <<Script, Now>>
    BY <2>1, ScriptStays DEF Now
  <2>3. TotalInv'
    <3>1. /\ (Suites[suite].total)' = Suites[suite].total
          /\ PoolSplit(Suites[suite].total)' = PoolSplit(Suites[suite].total)
      BY <2>1 DEF PoolSplit, Suites
    <3>2. QED
      BY <2>1, <3>1 DEF ExpectInv, TotalInv
  <2>4. LedgerInv'
    <3>1. \A j : Stored(j) => Stored(j)'
      BY <2>1, <2>2, StoredStays
    <3>2. CASE at = "test" /\ ~ failed
      <4>1. LedgerInv
        BY DEF ExpectInv
      <4>2. QED
        BY <2>1, <2>2, <3>1, <3>2, <4>1, LedgerNext DEF LedgerInv, Released
    <3>3. QED
      BY <2>1, <3>2 DEF LedgerInv
  <2>5. QED
    BY <1>1, <2>1, <2>3, <2>4 DEF ExpectInv, FailsOnlyWithMalloc
<1>4. QED
  BY <1>2, <1>3 DEF ProgramNext, Stopped

(* What src/tests.c asserts is what the manager does, for any tests whose  *)
(* assertions follow from the sizes they ask for and any number of         *)
(* failures of je_malloc: a test fails only if je_malloc has returned NULL *)
(* to that very test, whatever earlier tests left behind.                  *)
THEOREM FailsOnlyWithMallocHolds == ProgramSpec => []FailsOnlyWithMalloc
<1>1. ExpectInv => FailsOnlyWithMalloc
  BY DEF ExpectInv
<1>2. QED
  BY <1>1, ExpectInvInit, ExpectInvNext, PTL DEF ProgramSpec
=============================================================================
