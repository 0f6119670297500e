------------------------------- MODULE Ledger -------------------------------
(***************************************************************************)
(* What the memory manager promises, in plain integers: a ledger of the    *)
(* bytes lent to each pool, and of the difference each call in progress    *)
(* makes to it.  There are no addresses, no counters and no machine words; *)
(* a decision is taken on what is lent and on nothing that came before.    *)
(***************************************************************************)
EXTENDS ByteSums

CONSTANTS
  Threads, ExecPool, StoragePool, NoPool, MinReq, MaxReq, Totals, Requests, MaxSlack

VARIABLES
  total,   \* bytes there are to lend
  share,   \* of these, the most that storage requests may have
  lent,    \* bytes lent to each pool
  call     \* what each thread is asking for, or is still to be booked for

ledger_vars == <<total, share, lent, call>>

Pools == {ExecPool, StoragePool}

Idle == [at |-> "idle", pool |-> NoPool, bytes |-> 0]

Call(at, p, n) == [at |-> at, pool |-> p, bytes |-> n]

(* The bytes of the calls at one of the points that concern pool p.        *)
BytesAt(p, points) ==
  SumOver({t \in Threads : call[t].pool = p /\ call[t].at \in points},
          [t \in Threads |-> call[t].bytes])

(* What counts against pool p: what is lent, what is promised or returned  *)
(* and not yet written off, but not what was lent above the request.       *)
Booked(p) == lent[p] + BytesAt(p, {"promised", "returned"}) - BytesAt(p, {"excess"})

(* A request is granted if and only if it is of a legal size and fits what *)
(* is left: of the whole, and for storage of its share too.                *)
Fits(p, n) ==
  /\ n \in MinReq[p] .. MaxReq[p]
  /\ p = StoragePool => Booked(p) + n <= share
  /\ Booked(ExecPool) + Booked(StoragePool) + n <= total

LedgerInit ==
  /\ total \in Totals
  /\ share \in 0 .. total
  /\ lent = [p \in Pools |-> 0]
  /\ call = [t \in Threads |-> Idle]

Moves(t, from, to) ==
  /\ call[t].at = from
  /\ call' = [call EXCEPT ![t] = to]
  /\ UNCHANGED <<total, share>>

Ask(t, p, n) == Moves(t, "idle", Call("asked", p, n)) /\ UNCHANGED lent

Grant(t) ==
  /\ Moves(t, "asked", Call("promised", call[t].pool, call[t].bytes))
  /\ Fits(call[t].pool, call[t].bytes)
  /\ UNCHANGED lent

Refuse(t) ==
  /\ Moves(t, "asked", Idle)
  /\ ~ Fits(call[t].pool, call[t].bytes)
  /\ UNCHANGED lent

(* A granted request is lent its bytes and an excess, which is bounded ... *)
Lend(t, excess) ==
  /\ Moves(t, "promised", Call("excess", call[t].pool, excess))
  /\ lent' = [lent EXCEPT ![call[t].pool] = @ + call[t].bytes + excess]

(* ... and what is given back stays booked until the call returns.         *)
TakeBack(t, p, n) ==
  /\ Moves(t, "idle", Call("returned", p, n))
  /\ lent' = [lent EXCEPT ![p] = @ - n]

(* The call returns, and with it goes its difference.                      *)
Return(t) ==
  /\ \E from \in {"promised", "excess", "returned"} : Moves(t, from, Idle)
  /\ UNCHANGED lent

LedgerNext ==
  \E t \in Threads :
    \/ \E p \in Pools, n \in Requests : Ask(t, p, n)
    \/ Grant(t)
    \/ Refuse(t)
    \/ \E excess \in 0 .. MaxSlack : Lend(t, excess)
    \/ \E p \in Pools : \E n \in 1 .. lent[p] : TakeBack(t, p, n)
    \/ Return(t)

LedgerSpec == LedgerInit /\ [][LedgerNext]_ledger_vars
=============================================================================
