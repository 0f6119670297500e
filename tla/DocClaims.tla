------------------------------ MODULE DocClaims ------------------------------
(***************************************************************************)
(* What README.md and the comments of the source say of the memory manager *)
(* and its code does not do.                                               *)
(***************************************************************************)
EXTENDS MemMgr

-----------------------------------------------------------------------------

(* policy_mgr.c:82 "can't go over total_system_memory": the memory in use, *)
(* as the policy manager itself accounts for it, stays within the total.   *)
UsedWithinTotal ==
  used_memory[ExecPool] + used_memory[StoragePool] <= total_memory

Taken == LiveBytes
         + SumOver({t \in Threads : pc[t] \in {"malloc", "rollback"}}, num_bytes)

(* README.md:127 "An execution request will fail only when the entire      *)
(* memory is full": a request of a legal size is refused only when it does *)
(* not fit beside the live blocks and those je_malloc is being asked for.  *)
ExecRefusedOnlyWhenFull ==
  [][\A t \in Threads :
       /\ Refuse(t) /\ pool[t] = ExecPool
       /\ num_bytes[t] \in MinReq[ExecPool] .. MaxReq[ExecPool]
       => Taken + num_bytes[t] > total_memory]_vars
=============================================================================
