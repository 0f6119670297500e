----------------------- MODULE ConcurrencyTestProofs ------------------------
(***************************************************************************)
(* The concurrency test gives back every byte, for any number of threads   *)
(* and rounds: every live block is in the hands of a call or of the caller *)
(* it was returned to, and every block a caller holds is in an array, or   *)
(* in the variable, it will be freed from.                                 *)
(***************************************************************************)
EXTENDS ConcurrencyTest, MemMgrProofs

Freeing(t) == pc[t] \in {"free", "refund"}

Allocating(t) == pc[t] \in {"decide", "malloc", "settle", "rollback"}

(* The block b will be freed by t: it is pe or ps, or in an array and not  *)
(* the one that is being freed.                                            *)
Keeps(t, b) ==
  \/ got[t] = b /\ ~ Freeing(t)
  \/ \E i \in 1 .. Len(kept[t]) :
       kept[t][i] = b /\ (Freeing(t) /\ got[t] = NULL => i > 1)

ScriptTypeOK ==
  /\ main \in {"setUp", "create", "join", "tearDown", "end"}
  /\ run \in [Threads -> {"none", "running", "finished"}]
  /\ loop \in [Threads -> 1 .. 4]
  /\ left \in [Threads -> Nat]
  /\ op \in [Threads -> 1 .. 4]
  /\ got \in [Threads -> Blocks \cup {NULL}]
  /\ kept \in [Threads -> Seq(Blocks)]

(* Where the script is.                                                    *)
ScriptInv ==
  \A t \in Threads :
    /\ op[t] <= Len(LoopBody[loop[t]])
    /\ left[t] = 0 => op[t] = 1
    /\ got[t] # NULL => left[t] > 0
    /\ Allocating(t) => left[t] > 0 /\ got[t] = NULL
    /\ Freeing(t) => got[t] # NULL \/ kept[t] # <<>>

(* Where RUN_TEST is.                                                      *)
RunInv ==
  \A t \in Threads :
    /\ main = "setUp" => run[t] = "none"
    /\ main \in {"tearDown", "end"} => run[t] = "finished"
    /\ pc[t] # "idle" => run[t] = "running"
    /\ run[t] = "finished" => got[t] = NULL /\ kept[t] = <<>>

(* No block is lost.                                                       *)
NoLeak == \A b \in Blocks : heap[b] # 0 => b \in held \/ \E t \in Threads : ptr[t] = b

KeptInv == \A b \in held : \E t \in Threads : Keeps(t, b)

(* Before setUp the counters are zero, and no call has been made.          *)
Fresh ==
  /\ pc = [t \in Threads |-> "idle"]
  /\ pool = [t \in Threads |-> NoPool]
  /\ num_bytes = [t \in Threads |-> 0]
  /\ ptr = [t \in Threads |-> NULL]
  /\ heap = [b \in Blocks |-> 0]
  /\ tag = [b \in Blocks |-> NoPool]
  /\ held = {}

TestInv ==
  /\ ScriptTypeOK /\ ScriptInv /\ RunInv /\ NoLeak /\ KeptInv
  /\ IF main = "setUp" THEN Fresh ELSE IInv

LEMMA TestInvInit == TestInit => TestInv
<1> SUFFICES ASSUME TestInit
             PROVE  TestInv
  OBVIOUS
<1> USE DEF TestInit
<1>1. ScriptTypeOK
  BY TestAssumption DEF ScriptTypeOK
<1>2. ScriptInv
  BY TestAssumption DEF ScriptInv, LoopBody, Allocating, Freeing
<1>3. RunInv /\ NoLeak /\ KeptInv
  BY DEF RunInv, NoLeak, KeptInv
<1>4. main = "setUp" /\ Fresh
  BY DEF Fresh
<1>5. QED
  BY <1>1, <1>2, <1>3, <1>4 DEF TestInv

-----------------------------------------------------------------------------
(* RUN_TEST.                                                               *)

LEMMA SetUpInits == Fresh /\ SetUp => Init'
BY DEF Fresh, SetUp, Init, InitPolicyMgr, call_vars, heap_vars

(* What IInvInit says of the state setUp leaves.                           *)
LEMMA IInvInitNext == Init' => IInv'
BY IInvInit, PTL

LEMMA MainKeeps ==
  ASSUME TestInv, Main
  PROVE  TestInv'
<1> USE DEF TestInv
<1>1. CASE SetUp
  <2>1. main = "setUp" /\ main' = "create" /\ IInv'
    BY <1>1, SetUpInits, IInvInitNext DEF SetUp
  <2>2. UNCHANGED <<call_vars, heap_vars, held, run, script_vars>>
    BY <1>1 DEF SetUp
  <2>3. ScriptTypeOK' /\ ScriptInv' /\ RunInv'
    BY <2>1, <2>2
    DEF ScriptTypeOK, ScriptInv, RunInv, Allocating, Freeing, script_vars,
         call_vars, Fresh
  <2>4. NoLeak' /\ KeptInv'
    BY <2>1, <2>2 DEF NoLeak, KeptInv, heap_vars, Fresh
  <2>5. QED
    BY <2>1, <2>3, <2>4
<1>2. ASSUME UNCHANGED <<vars, script_vars>>, main # "setUp", main' # "setUp",
             ScriptTypeOK', RunInv'
      PROVE  TestInv'
  <2>1. IInv'
    BY <1>2, IInvNext
  <2>2. ScriptInv'
    BY <1>2 DEF ScriptInv, Allocating, Freeing, script_vars, vars,
                call_vars
  <2>3. NoLeak' /\ KeptInv'
    BY <1>2 DEF NoLeak, KeptInv, Keeps, Freeing, vars, call_vars, heap_vars, script_vars
  <2>4. QED
    BY <1>2, <2>1, <2>2, <2>3
<1>3. CASE \E t \in Threads : Create(t)
  <2>1. /\ UNCHANGED <<vars, script_vars>>
        /\ main # "setUp" /\ main' # "setUp" /\ ScriptTypeOK'
    BY <1>3 DEF Create, ScriptTypeOK, script_vars
  <2>2. RunInv'
    BY <1>3 DEF Create, RunInv, ScriptTypeOK, script_vars, vars, call_vars
  <2>3. QED
    BY <1>2, <2>1, <2>2
<1>4. CASE Join
  <2>1. /\ UNCHANGED <<vars, script_vars>>
        /\ main # "setUp" /\ main' # "setUp" /\ ScriptTypeOK'
    BY <1>4 DEF Join, ScriptTypeOK, script_vars
  <2>2. RunInv'
    BY <1>4 DEF Join, RunInv, ScriptTypeOK, script_vars, vars, call_vars
  <2>3. QED
    BY <1>2, <2>1, <2>2
<1>5. CASE TearDown
  <2>1. /\ UNCHANGED <<vars, script_vars>>
        /\ main # "setUp" /\ main' # "setUp" /\ ScriptTypeOK'
    BY <1>5 DEF TearDown, ScriptTypeOK, script_vars
  <2>2. RunInv'
    BY <1>5 DEF TearDown, RunInv, ScriptTypeOK, script_vars, vars, call_vars
  <2>3. QED
    BY <1>2, <2>1, <2>2
<1>6. QED
  BY <1>1, <1>3, <1>4, <1>5 DEF Main

-----------------------------------------------------------------------------
(* The threads.                                                            *)

(* A thread steps only while the manager lives.                            *)
LEMMA ThreadRuns ==
  ASSUME TestInv, NEW t \in Threads, ThreadStep(t)
  PROVE  /\ main \in {"create", "join"} /\ main' = main /\ run[t] = "running"
         /\ IInv
<1>1. run[t] = "running"
  BY DEF ThreadStep, CallAllocNext, CallFreeNext, InCall, Returned, Freed, NextLoop,
         Finish, LoopDone, AtRest, TestInv, RunInv, Reserve, Refuse, JeMalloc,
         JeMallocFails, JeFree, Settle, Rollback, Refund, Return, Goto
<1>2. main' = main
  BY DEF ThreadStep, CallAllocNext, CallFreeNext, InCall, Returned, Freed, NextLoop,
         Finish, main_vars
<1>3. QED
  BY <1>1, <1>2 DEF TestInv, RunInv, ScriptTypeOK

LEMMA BodyLengths ==
  /\ Len(LoopBody) = 4
  /\ Len(LoopBody[1]) = 4 /\ Len(LoopBody[2]) = 1
  /\ Len(LoopBody[3]) = 1 /\ Len(LoopBody[4]) = 2
BY DEF LoopBody

LEMMA BodyLength ==
  ASSUME NEW l \in 1 .. 4
  PROVE  Len(LoopBody[l]) \in 1 .. 4
<1>1. l = 1 \/ l = 2 \/ l = 3 \/ l = 4
  OBVIOUS
<1>2. Len(LoopBody[l]) \in {1, 2, 4}
  BY <1>1, BodyLengths, Zenon
<1>3. {1, 2, 4} \subseteq 1 .. 4
  OBVIOUS
<1>4. QED
  BY <1>2, <1>3, Zenon

(* What the script asks for is a request of a pool.                        *)
LEMMA ScriptRequests ==
  ASSUME TestInv, NEW t \in Threads, NEW n \in Current(t).sizes
  PROVE  Current(t).pool \in Pool /\ n \in SizeT
<1>1. /\ AnySize(ExecPool) \subseteq SizeT /\ AnySize(StoragePool) \subseteq SizeT
      /\ SmallExec \in SizeT /\ MaxReq[StoragePool] \in SizeT
  BY ReqSizeAssumption, TestAssumption, SizeModAssumption DEF AnySize, SizeT, Pool
<1>2. loop[t] \in 1 .. 4 /\ op[t] \in 1 .. 4 /\ op[t] <= Len(LoopBody[loop[t]])
  BY DEF TestInv, ScriptTypeOK, ScriptInv
<1>3. CASE loop[t] = 1
  <2>1. \A i \in 1 .. 4 : LoopBody[1][i].pool \in Pool /\ LoopBody[1][i].sizes \subseteq SizeT
    BY <1>1 DEF LoopBody, Alloc, Pool
  <2>2. QED
    BY <1>2, <1>3, <2>1 DEF Current
<1>4. CASE loop[t] \in {2, 3}
  <2>1. \A l \in {2, 3} : LoopBody[l][1].pool \in Pool /\ LoopBody[l][1].sizes \subseteq SizeT
    BY <1>1 DEF LoopBody, Alloc, Pool
  <2>2. Len(LoopBody[loop[t]]) = 1
    BY <1>4, BodyLengths
  <2>3. op[t] = 1
    BY <1>2, <2>2
  <2>4. QED
    BY <1>4, <2>1, <2>3 DEF Current
<1>5. CASE loop[t] = 4
  <2>1. \A i \in 1 .. 2 : LoopBody[4][i].pool \in Pool /\ LoopBody[4][i].sizes \subseteq SizeT
    BY <1>1 DEF LoopBody, Alloc, Pool
  <2>2. op[t] \in 1 .. 2
    BY <1>2, <1>5, BodyLengths
  <2>3. QED
    BY <1>5, <2>1, <2>2 DEF Current
<1>6. QED
  BY <1>2, <1>3, <1>4, <1>5

(* The manager's invariant does not depend on what the threads ask for.    *)
LEMMA ThreadKeepsIInv ==
  ASSUME TestInv, NEW t \in Threads, ThreadStep(t)
  PROVE  IInv'
<1>1. IInv
  BY ThreadRuns
<1>2. CASE CallAllocNext(t)
  <2>1. PICK n \in Current(t).sizes : CallAlloc(t, Current(t).pool, n)
    BY <1>2 DEF CallAllocNext
  <2>2. Current(t).pool \in Pool /\ n \in SizeT
    BY ScriptRequests
  <2>3. SafeInv'
    BY <1>1, <2>1, <2>2, SafeCallAlloc DEF IInv, SafeInv
  <2>4. PoolInv'
    BY <1>1, <2>1, PoolKept DEF IInv, SafeInv
  <2>5. QED
    BY <1>1, <2>1, <2>3, <2>4, SumCallAlloc DEF IInv, SafeInv
<1>3. CASE CallFreeNext(t)
  <2>1. \E b \in Blocks : CallFree(t, b)
    BY <1>1, <1>3 DEF CallFreeNext, CallFree, IInv, TypeOK
  <2>2. QED
    BY <1>1, <2>1, IInvNext DEF Caller, Next
<1>4. CASE InCall(t) \/ Returned(t) \/ Freed(t)
  <2>1. Step(t)
    BY <1>4 DEF InCall, Returned, Freed, Step
  <2>2. QED
    BY <1>1, <2>1, IInvNext DEF Next
<1>5. CASE NextLoop(t) \/ Finish(t)
  BY <1>1, <1>5, IInvNext DEF NextLoop, Finish
<1>6. QED
  BY <1>2, <1>3, <1>4, <1>5 DEF ThreadStep

-----------------------------------------------------------------------------
(* The script.                                                             *)

(* At the end of the body left counts an iteration less and op is 1 again. *)
LEMMA AdvanceKeeps ==
  ASSUME TestInv, NEW t \in Threads, Advance(t), left[t] > 0
  PROVE  /\ left' \in [Threads -> Nat] /\ op' \in [Threads -> 1 .. 4]
         /\ loop' = loop
         /\ op'[t] <= Len(LoopBody[loop[t]])
         /\ left'[t] = 0 => op'[t] = 1
         /\ \A u \in Threads \ {t} : left'[u] = left[u] /\ op'[u] = op[u]
<1>1. /\ loop[t] \in 1 .. 4 /\ op[t] \in 1 .. 4 /\ left[t] \in Nat
      /\ left \in [Threads -> Nat] /\ op \in [Threads -> 1 .. 4]
      /\ op[t] <= Len(LoopBody[loop[t]])
  BY DEF TestInv, ScriptTypeOK, ScriptInv
<1>2. Len(LoopBody[loop[t]]) \in 1 .. 4
  BY <1>1, BodyLength
<1> DEFINE m == Len(LoopBody[loop[t]])
           last == op[t] = m
           newLeft == IF last THEN left[t] - 1 ELSE left[t]
           newOp == IF last THEN 1 ELSE op[t] + 1
<1>3. /\ left' = [left EXCEPT ![t] = newLeft] /\ op' = [op EXCEPT ![t] = newOp]
      /\ loop' = loop
  BY DEF Advance
<1>4. m \in 1 .. 4 /\ op[t] <= m
  BY <1>1, <1>2
<1> HIDE DEF m
<1>5. newLeft \in Nat /\ newOp \in 1 .. 4 /\ newOp <= m /\ (newLeft = 0 => newOp = 1)
  <2>1. CASE last
    BY <1>1, <1>4, <2>1
  <2>2. CASE ~ last
    BY <1>1, <1>4, <2>2
  <2>3. QED
    BY <2>1, <2>2
<1> HIDE DEF newLeft, newOp
<1>6. /\ left' \in [Threads -> Nat] /\ op' \in [Threads -> 1 .. 4]
      /\ op'[t] = newOp /\ left'[t] = newLeft
      /\ \A u \in Threads \ {t} : left'[u] = left[u] /\ op'[u] = op[u]
  BY <1>1, <1>3, <1>5
<1>7. QED
  BY <1>3, <1>5, <1>6 DEF m

(* The thread that steps keeps its place in the script, and the others     *)
(* stay where they are.                                                    *)
LEMMA ScriptOthers ==
  ASSUME TestInv, NEW t \in Threads, ThreadStep(t)
  PROVE  \A u \in Threads \ {t} :
           /\ pc'[u] = pc[u] /\ run'[u] = run[u] /\ loop'[u] = loop[u]
           /\ left'[u] = left[u] /\ op'[u] = op[u]
           /\ got'[u] = got[u] /\ kept'[u] = kept[u] /\ ptr'[u] = ptr[u]
<1>1. IInv
  BY ThreadRuns
<1> USE DEF TestInv, ScriptTypeOK, IInv, TypeOK
<1>2. CASE CallAllocNext(t)
  BY <1>1, <1>2 DEF CallAllocNext, CallAlloc, Goto, main_vars, script_vars
<1>3. CASE CallFreeNext(t)
  BY <1>1, <1>3 DEF CallFreeNext, CallFree, Goto, main_vars, script_vars
<1>4. CASE InCall(t)
  BY <1>1, <1>4 DEF InCall, Reserve, JeMalloc, JeMallocFails, JeFree, Goto, main_vars,
                    script_vars
<1>5. CASE Returned(t)
  BY <1>1, <1>5 DEF Returned, Refuse, Settle, Rollback, Return, Goto, Advance, main_vars
<1>6. CASE Freed(t)
  BY <1>1, <1>6 DEF Freed, Refund, Return, Goto, Advance, main_vars
<1>7. CASE NextLoop(t)
  BY <1>1, <1>7 DEF NextLoop, vars, call_vars, main_vars
<1>8. CASE Finish(t)
  BY <1>1, <1>8 DEF Finish, vars, call_vars, script_vars
<1>9. QED
  BY <1>2, <1>3, <1>4, <1>5, <1>6, <1>7, <1>8 DEF ThreadStep

(* Where the script of t, and RUN_TEST, are.                               *)
ScriptAt(t) ==
  /\ op[t] <= Len(LoopBody[loop[t]])
  /\ left[t] = 0 => op[t] = 1
  /\ got[t] # NULL => left[t] > 0
  /\ Allocating(t) => left[t] > 0 /\ got[t] = NULL
  /\ Freeing(t) => got[t] # NULL \/ kept[t] # <<>>
  /\ pc[t] # "idle" => run[t] = "running"
  /\ run[t] = "finished" => got[t] = NULL /\ kept[t] = <<>>

LEMMA ThreadKeepsScript ==
  ASSUME TestInv, NEW t \in Threads, ThreadStep(t)
  PROVE  ScriptTypeOK' /\ ScriptInv' /\ RunInv'
<1>1. /\ IInv /\ ScriptAt(t) /\ run[t] = "running" /\ main' = main
      /\ main \in {"create", "join"}
  BY ThreadRuns DEF TestInv, ScriptInv, RunInv, ScriptAt
<1>2. /\ loop[t] \in 1 .. 4 /\ op[t] \in 1 .. 4 /\ left[t] \in Nat
      /\ got[t] \in Blocks \cup {NULL} /\ kept[t] \in Seq(Blocks)
      /\ pc \in [Threads -> PC] /\ ptr[t] \in Blocks \cup {NULL}
      /\ pc[t] = "settle" => ptr[t] # NULL
  BY <1>1 DEF TestInv, ScriptTypeOK, IInv, TypeOK
<1>3. ScriptTypeOK' /\ ScriptAt(t)'
  <2> USE DEF ScriptAt, Allocating, Freeing
  <2>1. CASE CallAllocNext(t)
    <3>1. /\ pc[t] = "idle" /\ pc'[t] = "decide" /\ UNCHANGED <<run, script_vars>>
          /\ got[t] = NULL /\ left[t] > 0
      BY <1>2, <2>1 DEF CallAllocNext, CallAlloc, Goto, main_vars
    <3>2. QED
      BY <1>1, <1>2, <3>1 DEF TestInv, ScriptTypeOK, script_vars
  <2>2. CASE CallFreeNext(t)
    <3>1. /\ pc[t] = "idle" /\ pc'[t] = "free" /\ UNCHANGED <<run, script_vars>>
          /\ got[t] # NULL \/ kept[t] # <<>>
      BY <1>2, <2>2 DEF CallFreeNext, CallFree, Goto, main_vars
    <3>2. QED
      BY <1>1, <1>2, <3>1 DEF TestInv, ScriptTypeOK, script_vars
  <2>3. CASE InCall(t)
    <3>1. /\ pc[t] # "idle" /\ UNCHANGED <<run, script_vars>>
          /\ \/ Allocating(t) /\ Allocating(t)' /\ pc'[t] \notin {"free", "refund"}
             \/ Freeing(t) /\ Freeing(t)' /\ pc'[t] = "refund"
      BY <1>2, <2>3
      DEF InCall, Reserve, JeMalloc, JeMallocFails, JeFree, Goto, main_vars
    <3>2. QED
      BY <1>1, <1>2, <3>1 DEF TestInv, ScriptTypeOK, script_vars
  <2>4. CASE Returned(t)
    <3>1. /\ Allocating(t) /\ pc'[t] = "idle" /\ run' = run
      BY <1>2, <2>4 DEF Returned, Refuse, Settle, Rollback, Return, Goto, main_vars
    <3>2. Result(t) \in Blocks \cup {NULL} /\ left[t] > 0 /\ got[t] = NULL
      BY <1>1, <1>2, <3>1 DEF Result
    <3>3. CASE Result(t) = NULL
      <4>1. Advance(t) /\ UNCHANGED <<got, kept>>
        BY <2>4, <3>3 DEF Returned
      <4>2. QED
        BY <1>1, <3>1, <3>2, <4>1, AdvanceKeeps DEF TestInv, ScriptTypeOK
    <3>4. CASE Result(t) # NULL /\ Current(t).keep
      <4>1. /\ Advance(t) /\ got' = got
            /\ kept' = [kept EXCEPT ![t] = Append(@, Result(t))]
        BY <2>4, <3>4 DEF Returned
      <4>2. kept' \in [Threads -> Seq(Blocks)]
        BY <1>2, <3>2, <3>4, <4>1 DEF TestInv, ScriptTypeOK
      <4>3. QED
        BY <1>1, <3>1, <3>2, <4>1, <4>2, AdvanceKeeps
        DEF TestInv, ScriptTypeOK
    <3>5. CASE Result(t) # NULL /\ ~ Current(t).keep
      <4>1. got' = [got EXCEPT ![t] = Result(t)] /\ UNCHANGED <<loop, left, op, kept>>
        BY <2>4, <3>5 DEF Returned
      <4>2. QED
        BY <1>1, <1>2, <3>1, <3>2, <4>1 DEF TestInv, ScriptTypeOK
    <3>6. QED
      BY <3>3, <3>4, <3>5
  <2>5. CASE Freed(t)
    <3>1. Freeing(t) /\ pc'[t] = "idle" /\ run' = run
      BY <1>2, <2>5 DEF Freed, Refund, Return, Goto, main_vars
    <3>2. CASE got[t] # NULL
      <4>1. got' = [got EXCEPT ![t] = NULL] /\ Advance(t) /\ kept' = kept /\ left[t] > 0
        BY <1>1, <2>5, <3>2 DEF Freed
      <4>2. QED
        BY <1>1, <3>1, <4>1, AdvanceKeeps DEF TestInv, ScriptTypeOK
    <3>3. CASE got[t] = NULL
      <4>1. kept' = [kept EXCEPT ![t] = Tail(@)] /\ UNCHANGED <<loop, left, op, got>>
        BY <2>5, <3>3 DEF Freed
      <4>2. Tail(kept[t]) \in Seq(Blocks)
        BY <1>1, <1>2, <3>1, <3>3
      <4>3. kept' \in [Threads -> Seq(Blocks)]
        BY <4>1, <4>2 DEF TestInv, ScriptTypeOK
      <4>4. QED
        BY <1>1, <1>2, <3>1, <4>1, <4>3 DEF TestInv, ScriptTypeOK
    <3>4. QED
      BY <3>2, <3>3
  <2>6. CASE NextLoop(t)
    <3>1. /\ LoopDone(t) /\ UNCHANGED <<vars, main_vars, op, got, kept>>
          /\ loop[t] < 4 /\ loop' = [loop EXCEPT ![t] = @ + 1]
      BY <2>6, BodyLengths DEF NextLoop
    <3>2. PICK n \in 0 .. Rounds - 1 : left' = [left EXCEPT ![t] = n]
      BY <2>6 DEF NextLoop
    <3>3. op[t] = 1 /\ got[t] = NULL /\ pc[t] = "idle" /\ kept[t] = <<>>
      BY <1>1, <3>1 DEF LoopDone, AtRest
    <3>4. n \in Nat /\ loop'[t] \in 1 .. 4 /\ loop' \in [Threads -> 1 .. 4]
      BY <1>2, <3>1, <3>2, TestAssumption DEF TestInv, ScriptTypeOK
    <3>5. Len(LoopBody[loop'[t]]) \in 1 .. 4
      BY <3>4, BodyLength
    <3>6. op'[t] <= Len(LoopBody[loop'[t]])
      <4>1. \A m \in 1 .. 4 : 1 <= m
        OBVIOUS
      <4>2. op'[t] = 1
        BY <3>1, <3>3
      <4>3. QED
        BY <3>5, <4>1, <4>2, Zenon
    <3>7. QED
      BY <1>1, <3>1, <3>2, <3>3, <3>4, <3>6
      DEF TestInv, ScriptTypeOK, vars, call_vars, main_vars
  <2>7. CASE Finish(t)
    <3>1. /\ LoopDone(t) /\ run' = [run EXCEPT ![t] = "finished"]
          /\ UNCHANGED <<vars, script_vars>>
      BY <2>7 DEF Finish
    <3>2. QED
      BY <1>1, <1>2, <3>1
      DEF LoopDone, AtRest, TestInv, ScriptTypeOK, vars, call_vars, script_vars
  <2>8. QED
    BY <2>1, <2>2, <2>3, <2>4, <2>5, <2>6, <2>7 DEF ThreadStep
<1>4. ASSUME NEW u \in Threads \ {t}
      PROVE  ScriptAt(u)'
  <2>1. ScriptAt(u)
    BY DEF TestInv, ScriptInv, RunInv, ScriptAt
  <2>2. QED
    BY <2>1, ScriptOthers DEF ScriptAt, Allocating, Freeing
<1>5. \A u \in Threads : ScriptAt(u)'
  BY <1>3, <1>4
<1>6. QED
  BY <1>1, <1>3, <1>5 DEF ScriptInv, RunInv, ScriptAt

-----------------------------------------------------------------------------
(* The blocks.                                                             *)

(* A block stays in somebody's hands: the call's that got it from          *)
(* je_malloc, its caller's, the call's that frees it.                      *)
LEMMA ThreadKeepsNoLeak ==
  ASSUME TestInv, NEW t \in Threads, ThreadStep(t)
  PROVE  NoLeak'
<1>1. IInv /\ NoLeak /\ ptr[t] \in Blocks \cup {NULL}
  BY ThreadRuns DEF TestInv, IInv, TypeOK
<1>2. \A u \in Threads \ {t} : ptr'[u] = ptr[u]
  BY ScriptOthers
<1>3. SUFFICES ASSUME NEW b \in Blocks, heap'[b] # 0, b \notin held'
               PROVE  \E u \in Threads : ptr'[u] = b
  BY DEF NoLeak
<1>4. CASE heap[b] # 0 /\ b \notin held /\ (ptr[t] = b => ptr'[t] = b)
  <2>1. PICK u \in Threads : ptr[u] = b
    BY <1>1, <1>4 DEF NoLeak
  <2>2. QED
    BY <1>2, <1>4, <2>1
<1>5. CASE CallAllocNext(t) \/ NextLoop(t) \/ Finish(t)
  BY <1>3, <1>4, <1>5
  DEF CallAllocNext, CallAlloc, NextLoop, Finish, vars, call_vars, heap_vars
<1>6. CASE CallFreeNext(t)
  <2>1. PICK c \in Blocks : CallFree(t, c)
    BY <1>1, <1>6 DEF CallFreeNext, CallFree, IInv, TypeOK
  <2>2. /\ ptr[t] = NULL /\ ptr'[t] = c
        /\ heap' = heap /\ held' = held \ {c}
    BY <1>1, <2>1 DEF CallFree, Goto, heap_vars, IInv, TypeOK
  <2>3. QED
    BY <1>3, <1>4, <2>2, MemMgrAssumption
<1>7. CASE InCall(t)
  <2>1. CASE Reserve(t) \/ JeMallocFails(t)
    BY <1>3, <1>4, <2>1 DEF Reserve, JeMallocFails, heap_vars
  <2>2. ASSUME NEW c \in Blocks, NEW n, JeMalloc(t, c, n)
        PROVE  \E u \in Threads : ptr'[u] = b
    <3>1. /\ ptr[t] = NULL /\ ptr'[t] = c /\ held' = held
          /\ heap' = [heap EXCEPT ![c] = n]
      BY <1>1, <2>2 DEF JeMalloc, Goto, IInv, TypeOK
    <3>2. b # c => heap[b] # 0
      BY <1>1, <1>3, <3>1 DEF IInv, TypeOK
    <3>3. QED
      BY <1>3, <1>4, <3>1, <3>2, MemMgrAssumption
  <2>3. CASE JeFree(t)
    <3>1. /\ ptr[t] # NULL /\ held' = held /\ heap' = [heap EXCEPT ![ptr[t]] = 0]
      BY <1>1, <2>3 DEF JeFree, Goto, IInv, TypeOK
    <3>2. b # ptr[t] /\ heap[b] # 0
      BY <1>1, <1>3, <3>1 DEF IInv, TypeOK
    <3>3. QED
      BY <1>3, <1>4, <3>1, <3>2
  <2>4. QED
    BY <1>7, <2>1, <2>2, <2>3 DEF InCall
<1>8. CASE Returned(t)
  <2>1. CASE Refuse(t) \/ Rollback(t)
    <3>1. ptr[t] = NULL /\ UNCHANGED <<heap, held>>
      BY <1>1, <2>1 DEF Refuse, Rollback, Return, Goto, heap_vars, IInv, TypeOK
    <3>2. QED
      BY <1>3, <1>4, <3>1, MemMgrAssumption
  <2>2. CASE Settle(t)
    <3>1. heap' = heap /\ held' = held \cup {ptr[t]}
      BY <2>2 DEF Settle, heap_vars
    <3>2. QED
      BY <1>3, <1>4, <3>1
  <2>3. QED
    BY <1>8, <2>1, <2>2 DEF Returned
<1>9. CASE Freed(t)
  <2>1. ptr[t] = NULL /\ UNCHANGED <<heap, held>>
    BY <1>1, <1>9 DEF Freed, Refund, Return, Goto, heap_vars, IInv, TypeOK
  <2>2. QED
    BY <1>3, <1>4, <2>1, MemMgrAssumption
<1>10. QED
  BY <1>5, <1>6, <1>7, <1>8, <1>9 DEF ThreadStep

(* Every block a caller holds is in a place it will be freed from: it is   *)
(* stored when it is returned, stays when another is freed, and is not     *)
(* overwritten.                                                            *)
LEMMA ThreadKeepsKept ==
  ASSUME TestInv, NEW t \in Threads, ThreadStep(t)
  PROVE  KeptInv'
<1>1. IInv /\ KeptInv /\ ScriptAt(t)
  BY ThreadRuns DEF TestInv, ScriptInv, RunInv, ScriptAt
<1>2. /\ got[t] \in Blocks \cup {NULL} /\ kept[t] \in Seq(Blocks)
      /\ ptr[t] \in Blocks \cup {NULL} /\ pc \in [Threads -> PC]
      /\ held \subseteq Blocks
  BY <1>1 DEF TestInv, ScriptTypeOK, IInv, TypeOK
<1>3. ASSUME NEW b \in held, Keeps(t, b) => Keeps(t, b)'
      PROVE  \E u \in Threads : Keeps(u, b)'
  <2>1. PICK u \in Threads : Keeps(u, b)
    BY <1>1 DEF KeptInv
  <2>2. u # t => Keeps(u, b)'
    BY <2>1, ScriptOthers DEF Keeps, Freeing
  <2>3. QED
    BY <1>3, <2>1, <2>2
<1>4. SUFFICES ASSUME NEW b \in held'
               PROVE  \E u \in Threads : Keeps(u, b)'
  BY DEF KeptInv
<1>5. CASE CallAllocNext(t) \/ NextLoop(t) \/ Finish(t)
  <2>1. /\ held' = held /\ UNCHANGED <<got, kept>> /\ ~ Freeing(t)'
    BY <1>2, <1>5
    DEF CallAllocNext, CallAlloc, Goto, NextLoop, Finish, LoopDone, AtRest, vars,
        call_vars, script_vars, Freeing
  <2>2. QED
    BY <1>3, <1>4, <2>1 DEF Keeps
<1>6. CASE CallFreeNext(t)
  <2>1. PICK c \in held : /\ CallFree(t, c)
                          /\ \/ got[t] = c
                             \/ got[t] = NULL /\ kept[t] # <<>> /\ c = Head(kept[t])
    BY <1>6 DEF CallFreeNext, CallFree
  <2>2. /\ UNCHANGED <<got, kept>> /\ held' = held \ {c} /\ ~ Freeing(t)
    BY <1>6, <2>1 DEF CallFreeNext, CallFree, Goto, script_vars, Freeing
  <2>3. c # NULL
    BY <1>2, MemMgrAssumption
  <2>4. b # c /\ b # NULL /\ b \in held
    BY <1>2, <1>4, <2>2, MemMgrAssumption
  <2>5. Keeps(t, b) => Keeps(t, b)'
    <3>1. CASE got[t] = c
      BY <2>2, <2>3, <2>4, <3>1 DEF Keeps
    <3>2. CASE got[t] = NULL /\ c = kept[t][1]
      <4>1. SUFFICES ASSUME NEW i \in 1 .. Len(kept[t]), kept[t][i] = b
                     PROVE  Keeps(t, b)'
        BY <2>4, <3>2 DEF Keeps
      <4>2. i > 1
        BY <2>4, <3>2, <4>1, <1>2
      <4>3. QED
        BY <2>2, <4>1, <4>2 DEF Keeps
    <3>3. QED
      BY <1>2, <2>1, <3>1, <3>2
  <2>6. QED
    BY <1>3, <2>4, <2>5
<1>7. CASE InCall(t)
  <2>1. /\ held' = held /\ UNCHANGED <<got, kept>>
        /\ Freeing(t)' <=> Freeing(t)
    BY <1>2, <1>7 DEF InCall, Reserve, JeMalloc, JeMallocFails, JeFree, Goto, Freeing,
                      script_vars
  <2>2. QED
    BY <1>3, <1>4, <2>1 DEF Keeps
<1>8. CASE Returned(t)
  <2>1. /\ ~ Freeing(t) /\ ~ Freeing(t)' /\ got[t] = NULL
        /\ pc[t] = "settle" => ptr[t] # NULL
        /\ pc[t] = "settle" <=> Settle(t)
    BY <1>1, <1>2, <1>8
    DEF Returned, Refuse, Settle, Rollback, Return, Goto, Freeing, ScriptAt, Allocating,
        IInv, TypeOK
  <2>2. held' \subseteq held \cup ({Result(t)} \ {NULL})
    BY <1>8, <2>1 DEF Returned, Refuse, Settle, Rollback, Return, Goto, Result
  <2>3. CASE Result(t) = NULL
    <3>1. UNCHANGED <<got, kept>> /\ b \in held
      BY <1>4, <1>8, <2>2, <2>3 DEF Returned
    <3>2. QED
      BY <1>3, <2>1, <3>1 DEF Keeps
  <2>4. CASE Result(t) # NULL /\ Current(t).keep
    <3>1. got' = got /\ kept' = [kept EXCEPT ![t] = Append(@, Result(t))]
      BY <1>8, <2>4 DEF Returned
    <3>2. Result(t) \in Blocks
      BY <1>2, <2>4 DEF Result
    <3>3. kept'[t] = Append(kept[t], Result(t))
      BY <3>1 DEF TestInv, ScriptTypeOK
    <3>4. /\ Len(kept'[t]) = Len(kept[t]) + 1
          /\ kept'[t][Len(kept[t]) + 1] = Result(t)
          /\ \A i \in 1 .. Len(kept[t]) : kept'[t][i] = kept[t][i]
      BY <1>2, <3>2, <3>3
    <3>5. CASE b = Result(t)
      BY <1>2, <2>1, <3>4, <3>5 DEF Keeps
    <3>6. CASE b # Result(t)
      <4>1. Keeps(t, b) => Keeps(t, b)'
        BY <1>2, <2>1, <3>1, <3>4 DEF Keeps
      <4>2. QED
        BY <1>3, <1>4, <2>2, <3>6, <4>1
    <3>7. QED
      BY <3>5, <3>6
  <2>5. CASE Result(t) # NULL /\ ~ Current(t).keep
    <3>1. got'[t] = Result(t) /\ kept' = kept
      BY <1>8, <2>5 DEF Returned, TestInv, ScriptTypeOK
    <3>2. CASE b = Result(t)
      BY <2>1, <3>1, <3>2 DEF Keeps
    <3>3. CASE b # Result(t)
      <4>1. b \in held /\ b # NULL
        BY <1>2, <1>4, <2>2, <3>3, MemMgrAssumption
      <4>2. Keeps(t, b) => Keeps(t, b)'
        BY <2>1, <3>1, <4>1 DEF Keeps
      <4>3. QED
        BY <1>3, <4>1, <4>2
    <3>4. QED
      BY <3>2, <3>3
  <2>6. QED
    BY <2>3, <2>4, <2>5
<1>9. CASE Freed(t)
  <2>1. held' = held /\ Freeing(t) /\ ~ Freeing(t)' /\ b \in held
    BY <1>2, <1>4, <1>9 DEF Freed, Refund, Return, Goto, Freeing
  <2>2. CASE got[t] # NULL
    <3>1. kept' = kept
      BY <1>9, <2>2 DEF Freed
    <3>2. Keeps(t, b) => Keeps(t, b)'
      BY <2>1, <3>1 DEF Keeps
    <3>3. QED
      BY <1>3, <2>1, <3>2
  <2>3. CASE got[t] = NULL
    <3>1. kept'[t] = Tail(kept[t]) /\ kept[t] # <<>>
      BY <1>1, <1>9, <2>1, <2>3 DEF Freed, TestInv, ScriptTypeOK, ScriptAt
    <3>2. Keeps(t, b) => Keeps(t, b)'
      <4>1. SUFFICES ASSUME NEW i \in 1 .. Len(kept[t]), kept[t][i] = b, i > 1
                     PROVE  Keeps(t, b)'
        BY <2>1, <2>3 DEF Keeps
      <4>2. i - 1 \in 1 .. Len(kept'[t]) /\ kept'[t][i - 1] = b
        BY <1>2, <3>1, <4>1
      <4>3. QED
        BY <2>1, <4>2 DEF Keeps
    <3>3. QED
      BY <1>3, <2>1, <3>2
  <2>4. QED
    BY <2>2, <2>3
<1>10. QED
  BY <1>5, <1>6, <1>7, <1>8, <1>9 DEF ThreadStep

-----------------------------------------------------------------------------
(* The theorems.                                                           *)

LEMMA TestStutter ==
  ASSUME TestInv, UNCHANGED test_vars
  PROVE  TestInv'
<1>1. UNCHANGED <<vars, main, run, loop, left, op, got, kept>>
  BY DEF test_vars, main_vars, script_vars
<1>2. ScriptTypeOK' /\ RunInv'
  BY <1>1 DEF TestInv, ScriptTypeOK, RunInv, vars, call_vars
<1>3. ScriptInv'
  BY <1>1 DEF TestInv, ScriptInv, Allocating, Freeing, vars, call_vars
<1>4. NoLeak' /\ KeptInv'
  BY <1>1 DEF TestInv, NoLeak, KeptInv, Keeps, Freeing, vars, call_vars, heap_vars
<1>5. CASE main = "setUp"
  BY <1>1, <1>2, <1>3, <1>4, <1>5 DEF TestInv, Fresh, vars, call_vars, heap_vars
<1>6. CASE main # "setUp"
  <2>1. IInv'
    BY <1>1, <1>6, IInvNext DEF TestInv
  <2>2. QED
    BY <1>1, <1>2, <1>3, <1>4, <1>6, <2>1 DEF TestInv
<1>7. QED
  BY <1>5, <1>6

LEMMA TestInvNext == TestInv /\ [TestNext]_test_vars => TestInv'
<1> SUFFICES ASSUME TestInv, [TestNext]_test_vars
             PROVE  TestInv'
  OBVIOUS
<1>1. CASE Main
  BY <1>1, MainKeeps
<1>2. ASSUME NEW t \in Threads, ThreadStep(t)
      PROVE  TestInv'
  <2>1. main' # "setUp"
    BY <1>2, ThreadRuns
  <2>2. IInv' /\ ScriptTypeOK' /\ ScriptInv' /\ RunInv'
    BY <1>2, ThreadKeepsIInv, ThreadKeepsScript
  <2>3. NoLeak' /\ KeptInv'
    BY <1>2, ThreadKeepsNoLeak, ThreadKeepsKept
  <2>4. QED
    BY <2>1, <2>2, <2>3 DEF TestInv
<1>3. CASE UNCHANGED test_vars
  BY <1>3, TestStutter
<1>4. QED
  BY <1>1, <1>2, <1>3 DEF TestNext, Ended

(* Every state of the test satisfies the invariant: no block is lost by    *)
(* the threads, nor by the calls they make.                                *)
THEOREM TestInvariantHolds == TestSpec => []TestInv
BY TestInvInit, TestInvNext, PTL DEF TestSpec

(* For any number of threads and rounds, the mutex is used only between    *)
(* setUp and tearDown: main joins every thread, and a thread that has      *)
(* finished is in no call.                                                 *)
THEOREM UsedWhileInitialisedHolds == TestSpec => []UsedWhileInitialised
<1>1. TestInv => UsedWhileInitialised
  BY DEF TestInv, ScriptTypeOK, RunInv, UsedWhileInitialised
<1>2. QED
  BY <1>1, TestInvariantHolds, PTL

(* For any number of threads, rounds, refusals and failed allocations, the *)
(* test gives back every byte: after the last thread is joined nothing is  *)
(* live and nothing is charged to a pool.                                  *)
THEOREM CleanAtTearDownHolds == TestSpec => []CleanAtTearDown
<1>1. ASSUME TestInv, main \in {"tearDown", "end"}
      PROVE  LiveBytes = 0 /\ \A p \in Pool : used_memory[p] = 0
  <2>1. IInv
    BY <1>1 DEF TestInv
  <2>2. \A t \in Threads : /\ pc[t] = "idle" /\ got[t] = NULL /\ kept[t] = <<>>
                           /\ ptr[t] = NULL
    BY <1>1, <2>1 DEF TestInv, RunInv, IInv, TypeOK
  <2>3. held = {}
    <3>1. SUFFICES ASSUME NEW b \in held
                   PROVE  FALSE
      OBVIOUS
    <3>2. PICK t \in Threads : Keeps(t, b)
      BY <1>1 DEF TestInv, KeptInv
    <3>3. b # NULL
      BY <2>1, MemMgrAssumption DEF IInv, TypeOK
    <3>4. QED
      BY <2>2, <3>2, <3>3 DEF Keeps
  <2>4. \A b \in Blocks : tag[b] = NoPool
    <3>1. \A b \in Blocks : heap[b] = 0
      BY <1>1, <2>2, <2>3, MemMgrAssumption DEF TestInv, NoLeak
    <3>2. QED
      BY <2>1, <3>1 DEF IInv, FrameInv, BlockInv
  <2>5. \A p \in Pool : PoolLive(p) = 0
    <3>1. \A p \in Pool : {b \in Blocks : tag[b] = p} = {}
      BY <2>4, MemMgrAssumption
    <3>2. QED
      BY <3>1, SumEmpty DEF PoolLive
  <2>6. \A p \in Pool : Claimed(p) = 0 /\ Unsettled(p) = 0
    <3>1. \A p \in Pool : /\ Callers(p, {"malloc", "rollback", "refund"}) = {}
                          /\ Callers(p, {"settle"}) = {}
      BY <2>2 DEF Callers
    <3>2. QED
      BY <3>1, SumEmpty DEF Claimed, Unsettled
  <2>7. \A p \in Pool : /\ used_memory[p] \in Nat
                        /\ used_memory[p] + Unsettled(p) = PoolLive(p) + Claimed(p)
    BY <2>1, CountersFit DEF IInv, SafeInv, SumInv, Accounting
  <2>8. QED
    BY <2>5, <2>6, <2>7 DEF LiveBytes, Pool
<1>2. QED
  BY <1>1, TestInvariantHolds, PTL DEF CleanAtTearDown
=============================================================================
