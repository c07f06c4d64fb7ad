--------------------------- MODULE MandateLedger ----------------------------
(***************************************************************************)
(* Conservation ledgers opened under archived policy versions              *)
(* (openline_lite/mandate_ledger.py).  Refused calls change nothing and    *)
(* are no steps.                                                           *)
(***************************************************************************)
EXTENDS PolicyArchive

CONSTANTS Ledgers,     \* MandateLedger objects
          Actors,      \* actor ids
          MaxReceipts  \* bound: length of a ledger's receipt list

ASSUME LedgerConstants ==
    /\ IsFiniteSet(Actors)
    /\ MaxReceipts \in Nat

VARIABLE ledger        \* ledger[l]: the object's fields, or Absent

vars == <<archive, ledger>>

\* The dictionary of actors: its keys, and a balance of 0 for everyone else.
Balances == [Actors -> Nat]

Receipt == [event: {"internal_allocation", "external_consequence"},
            amount: Nat \ {0}, balance: Balances, committed: Nat,
            capacity: Nat, binding: Binding]

LedgerState == [binding: Binding, capacity: Nat \ {0}, admitted: SUBSET Actors,
                balance: Balances, committed: Nat, receipts: Seq(Receipt)]

\* live_unspent: the sum of the balances, as the number of units held.
Units(balance) == UNION {{a} \X (1..balance[a]) : a \in Actors}

LiveUnspent(balance) == Cardinality(Units(balance))

\* check_invariant
Conserved(balance, committed, capacity) ==
    LiveUnspent(balance) + committed = capacity

TypeOK == ArchiveTypeOK /\ ledger \in [Ledgers -> LedgerState \cup {Absent}]

Init == ArchiveInit /\ ledger = [l \in Ledgers |-> Absent]

Begin(l, v, s) ==
    /\ ledger[l] = Absent
    /\ archive[v] # Absent
    /\ LET policy == archive[v].content IN
       /\ s \in Sections(policy)
       /\ policy[s] > 0
       /\ ledger' = [ledger EXCEPT ![l] =
             [binding |-> MakeBinding(v, policy, s), capacity |-> policy[s],
              admitted |-> {}, balance |-> [a \in Actors |-> 0],
              committed |-> 0, receipts |-> <<>>]]
    /\ UNCHANGED archive

\* The mandate vests in the first actor; the ones admitted later bring nothing.
Vested(admitted, capacity) == IF admitted = {} THEN capacity ELSE 0

AdmitActor(l, a) ==
    /\ ledger[l] # Absent
    /\ a \notin ledger[l].admitted
    /\ ledger' = [ledger EXCEPT
          ![l].admitted = @ \cup {a},
          ![l].balance[a] = Vested(ledger[l].admitted, ledger[l].capacity)]
    /\ UNCHANGED archive

\* The balances after a gains n, or loses -n.
Credit(balance, a, n) == [balance EXCEPT ![a] = @ + n]

\* A deviation: the receipt shows the committed capacity from before the call.
RecordEarly(l, event, amount, balance, committed) ==
    /\ Len(ledger[l].receipts) < MaxReceipts
    /\ ledger' = [ledger EXCEPT
          ![l].balance = balance,
          ![l].committed = committed,
          ![l].receipts = Append(@,
              [event |-> event, amount |-> amount, balance |-> balance,
               committed |-> ledger[l].committed, capacity |-> ledger[l].capacity,
               binding |-> ledger[l].binding])]

\* _record: the receipt of an operation shows the state after it.
Record(l, event, amount, balance, committed) ==
    /\ Len(ledger[l].receipts) < MaxReceipts
    /\ ledger' = [ledger EXCEPT
          ![l].balance = balance,
          ![l].committed = committed,
          ![l].receipts = Append(@,
              [event |-> event, amount |-> amount, balance |-> balance,
               committed |-> committed, capacity |-> ledger[l].capacity,
               binding |-> ledger[l].binding])]

\* A deviation: the actor has to be admitted, its balance is not looked at.
SpendsAnything(l, a, amount) ==
    /\ ledger[l] # Absent
    /\ amount > 0
    /\ a \in ledger[l].admitted

\* The refusals allocate and commit_external share.
CanSpend(l, a, amount) ==
    /\ ledger[l] # Absent
    /\ amount > 0
    /\ a \in ledger[l].admitted
    /\ ledger[l].balance[a] >= amount

\* A deviation: both new balances are computed from the ones before the call.
Overwrite(balance, from, to, amount) ==
    [balance EXCEPT ![from] = balance[from] - amount, ![to] = balance[to] + amount]

\* from and to may be one actor: the amount is taken first and then given back.
Move(balance, from, to, amount) == Credit(Credit(balance, from, -amount), to, amount)

Allocate(l, from, to, amount) ==
    /\ CanSpend(l, from, amount)
    /\ to \in ledger[l].admitted
    /\ Record(l, "internal_allocation", amount,
              Move(ledger[l].balance, from, to, amount), ledger[l].committed)
    /\ UNCHANGED archive

CommitExternal(l, a, amount) ==
    /\ CanSpend(l, a, amount)
    /\ Record(l, "external_consequence", amount,
              Credit(ledger[l].balance, a, -amount), ledger[l].committed + amount)
    /\ UNCHANGED archive

\* No amount above the capacity passes a guard.
Amounts(l) == IF ledger[l] = Absent THEN {} ELSE 1..ledger[l].capacity

LedgerNext(l) ==
    \/ \E v \in Versions, s \in Names : Begin(l, v, s)
    \/ \E a \in Actors : AdmitActor(l, a)
    \/ \E from, to \in Actors, n \in Amounts(l) : Allocate(l, from, to, n)
    \/ \E a \in Actors, n \in Amounts(l) : CommitExternal(l, a, n)

Next ==
    \/ \E v \in Versions, p \in Policies : Admit(v, p) /\ UNCHANGED ledger
    \/ \E l \in Ledgers : LedgerNext(l)

Spec == Init /\ [][Next]_vars

\* The same with callers that write to the policies root_content gave them.
SharedNext ==
    \/ Next
    \/ \E v \in Versions, p \in Policies : WriteThrough(v, p) /\ UNCHANGED ledger

SharedSpec == Init /\ [][SharedNext]_vars

----------------------------------------------------------------------------
(* Properties.                                                             *)

Open(l) == ledger[l] # Absent

\* live unspent authority + externally committed == original capacity, from the
\* first admitted actor on, however capacity is split, renamed and spent.
Conservation ==
    \A l \in Ledgers : Open(l) /\ ledger[l].admitted # {} =>
        Conserved(ledger[l].balance, ledger[l].committed, ledger[l].capacity)

\* Receipts stay explainable: the binding of every receipt verifies for ever, the
\* bound section is where its capacity comes from, and its balances add up.
ReceiptsReplay ==
    \A l \in Ledgers : Open(l) => \A i \in DOMAIN ledger[l].receipts :
        LET r == ledger[l].receipts[i] IN
        /\ Verifies(r.binding)
        /\ r.capacity = archive[r.binding.version].content[r.binding.section]
        /\ Conserved(r.balance, r.committed, r.capacity)

\* The receipts tell the whole history: committed capacity grows from receipt to
\* receipt by exactly the amounts of the external consequences, up to the ledger.
CommittedBefore(trail, i) == IF i = 1 THEN 0 ELSE trail[i-1].committed

Spends(r) == IF r.event = "external_consequence" THEN r.amount ELSE 0

TrailOf(x) ==
    /\ x.committed = CommittedBefore(x.receipts, Len(x.receipts) + 1)
    /\ \A i \in DOMAIN x.receipts :
          x.receipts[i].committed
            = CommittedBefore(x.receipts, i) + Spends(x.receipts[i])

ReceiptTrail == \A l \in Ledgers : Open(l) => TrailOf(ledger[l])

\* What every operation keeps up, ledger by ledger: the binding verifies, nobody
\* outside the mandate holds a unit, and every receipt binds and adds up.
Accounted(x) ==
    /\ Verifies(x.binding)
    /\ x.capacity = archive[x.binding.version].content[x.binding.section]
    /\ \A a \in Actors \ x.admitted : x.balance[a] = 0
    /\ x.admitted = {} => x.committed = 0 /\ x.receipts = <<>>
    /\ x.admitted # {} => Conserved(x.balance, x.committed, x.capacity)
    /\ \A i \in DOMAIN x.receipts :
          /\ x.receipts[i].binding = x.binding
          /\ x.receipts[i].capacity = x.capacity
          /\ Conserved(x.receipts[i].balance, x.receipts[i].committed, x.capacity)
    /\ TrailOf(x)

\* The inductive invariant: every archived root is the hash of its content, and
\* every ledger is accounted for.
LedgerInv ==
    /\ \A v \in Versions :
          archive[v] # Absent => archive[v].root = RootHash(v, archive[v].content)
    /\ \A l \in Ledgers : Open(l) => Accounted(ledger[l])
=============================================================================
