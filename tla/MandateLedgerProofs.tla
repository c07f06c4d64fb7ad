------------------------ MODULE MandateLedgerProofs -------------------------
(***************************************************************************)
(* Proofs about MandateLedger for every set of versions, policies, ledgers *)
(* and actors: type correctness, conservation and the receipt trail.       *)
(***************************************************************************)
EXTENDS MandateLedger, FiniteSetTheorems, TLAPS

----------------------------------------------------------------------------
(* Counting units: what one changed balance does to live_unspent.          *)

\* The units one actor holds, and those of all the others.
Column(b, a) == {a} \X (1..b[a])

Others(b, a) == UNION {Column(b, c) : c \in Actors \ {a}}

\* An actor's balance is the number of units in its column.
LEMMA ColumnSize ==
    ASSUME NEW b \in Balances, NEW a \in Actors
    PROVE  IsFiniteSet(Column(b, a)) /\ Cardinality(Column(b, a)) = b[a]
<1>1. b[a] \in Nat
  BY DEF Balances
<1>2. IsFiniteSet(1..b[a]) /\ Cardinality(1..b[a]) = b[a]
  BY <1>1, FS_Interval
<1>3. IsFiniteSet({a}) /\ Cardinality({a}) = 1
  BY FS_Singleton
<1>4. IsFiniteSet({a} \X (1..b[a]))
      /\ Cardinality({a} \X (1..b[a])) = Cardinality({a}) * Cardinality(1..b[a])
  BY <1>2, <1>3, FS_Product
<1> QED
  BY <1>1, <1>2, <1>3, <1>4 DEF Column

\* Finitely many actors hold finitely many units.
LEMMA UnitsFinite ==
    ASSUME NEW b \in Balances
    PROVE  IsFiniteSet(Units(b)) /\ LiveUnspent(b) \in Nat
<1> DEFINE Columns == {Column(b, a) : a \in Actors}
           col == [a \in Actors |-> Column(b, a)]
<1>1. col \in Surjection(Actors, Columns)
  BY DEF Surjection
<1>2. IsFiniteSet(Columns)
  BY <1>1, LedgerConstants, FS_Surjection
<1>3. \A T \in Columns : IsFiniteSet(T)
  BY ColumnSize
<1> HIDE DEF Columns
<1>4. IsFiniteSet(UNION Columns)
  BY <1>2, <1>3, FS_UNION
<1>5. IsFiniteSet(Units(b))
  BY <1>4 DEF Columns, Units, Column
<1> QED
  BY <1>5, FS_CardinalityType DEF LiveUnspent

\* live_unspent is one actor's balance and what the others hold.
LEMMA UnitsSplit ==
    ASSUME NEW b \in Balances, NEW a \in Actors
    PROVE  /\ Cardinality(Others(b, a)) \in Nat
           /\ LiveUnspent(b) = b[a] + Cardinality(Others(b, a))
<1>1. Units(b) = Column(b, a) \cup Others(b, a)
  BY DEF Units, Others, Column
<1>2. Column(b, a) \cap Others(b, a) = {}
  BY DEF Others, Column
<1>3. IsFiniteSet(Others(b, a))
  BY <1>1, UnitsFinite, FS_Subset
<1>4. Cardinality(Others(b, a)) \in Nat
  BY <1>3, FS_CardinalityType
<1>5. Cardinality(Units(b)) =
        Cardinality(Column(b, a)) + Cardinality(Others(b, a))
          - Cardinality(Column(b, a) \cap Others(b, a))
  BY <1>1, <1>3, ColumnSize, FS_Union
<1>6. Cardinality(Column(b, a) \cap Others(b, a)) = 0
  BY <1>2, FS_EmptySet
<1>7. b[a] \in Nat
  BY DEF Balances
<1>8. Cardinality(Column(b, a)) = b[a]
  BY ColumnSize
<1> QED
  BY <1>4, <1>5, <1>6, <1>7, <1>8 DEF LiveUnspent

\* Setting one balance to n changes live_unspent by the difference.
LEMMA SetBalance ==
    ASSUME NEW b \in Balances, NEW a \in Actors, NEW n \in Nat
    PROVE  /\ [b EXCEPT ![a] = n] \in Balances
           /\ LiveUnspent([b EXCEPT ![a] = n]) = LiveUnspent(b) - b[a] + n
<1> DEFINE c == [b EXCEPT ![a] = n]
<1>1. c \in Balances /\ c[a] = n /\ \A d \in Actors \ {a} : c[d] = b[d]
  BY DEF Balances
<1> HIDE DEF c
<1>2. \A d \in Actors \ {a} : Column(c, d) = Column(b, d)
  BY <1>1 DEF Column
<1>3. Others(c, a) = Others(b, a)
  BY <1>2 DEF Others
<1>4. LiveUnspent(c) = n + Cardinality(Others(b, a))
  BY <1>1, <1>3, UnitsSplit
<1>5. LiveUnspent(b) = b[a] + Cardinality(Others(b, a))
  BY UnitsSplit
<1>6. b[a] \in Nat /\ Cardinality(Others(b, a)) \in Nat
  BY UnitsSplit DEF Balances
<1>7. LiveUnspent(c) = LiveUnspent(b) - b[a] + n
  BY <1>4, <1>5, <1>6
<1> QED
  BY <1>1, <1>7 DEF c

\* Crediting an actor with n raises live_unspent by n, debits included.
LEMMA CreditUnits ==
    ASSUME NEW b \in Balances, NEW a \in Actors, NEW n \in Int, b[a] + n >= 0
    PROVE  /\ Credit(b, a, n) \in Balances
           /\ LiveUnspent(Credit(b, a, n)) = LiveUnspent(b) + n
           /\ \A c \in Actors : Credit(b, a, n)[c] = IF c = a THEN b[a] + n ELSE b[c]
<1> DEFINE m == b[a] + n
<1>1. b[a] \in Nat /\ m \in Nat
  BY DEF Balances
<1>2. Credit(b, a, n) = [b EXCEPT ![a] = m]
  BY DEF Credit
<1>3. LiveUnspent(b) \in Nat
  BY UnitsFinite
<1>4. /\ Credit(b, a, n) \in Balances
      /\ LiveUnspent(Credit(b, a, n)) = LiveUnspent(b) - b[a] + m
  <2> HIDE DEF m
  <2> QED
    BY <1>1, <1>2, SetBalance
<1>5. \A c \in Actors : Credit(b, a, n)[c] = IF c = a THEN b[a] + n ELSE b[c]
  BY <1>2 DEF Balances
<1> QED
  BY <1>1, <1>3, <1>4, <1>5

\* An allocation leaves live_unspent alone, also from an actor to itself.
LEMMA MoveUnits ==
    ASSUME NEW b \in Balances, NEW from \in Actors, NEW to \in Actors,
           NEW n \in Nat, b[from] >= n
    PROVE  /\ Move(b, from, to, n) \in Balances
           /\ LiveUnspent(Move(b, from, to, n)) = LiveUnspent(b)
           /\ \A c \in Actors \ {from, to} : Move(b, from, to, n)[c] = b[c]
<1> DEFINE taken == Credit(b, from, -n)
<1>0. b[from] \in Nat /\ -n \in Int /\ b[from] + (-n) >= 0
  BY DEF Balances
<1>1. /\ taken \in Balances
      /\ LiveUnspent(taken) = LiveUnspent(b) + (-n)
      /\ \A c \in Actors : c # from => taken[c] = b[c]
  BY <1>0, CreditUnits
<1> HIDE DEF taken
<1>2. taken[to] \in Nat /\ taken[to] + n >= 0
  BY <1>1 DEF Balances
<1>3. /\ Credit(taken, to, n) \in Balances
      /\ LiveUnspent(Credit(taken, to, n)) = LiveUnspent(taken) + n
      /\ \A c \in Actors : c # to => Credit(taken, to, n)[c] = taken[c]
  BY <1>1, <1>2, CreditUnits
<1>4. LiveUnspent(b) \in Nat
  BY UnitsFinite
<1>5. Move(b, from, to, n) = Credit(taken, to, n)
  BY DEF Move, taken
<1> QED
  BY <1>1, <1>3, <1>4, <1>5

\* Nobody holds anything before the first actor is admitted.
LEMMA NoUnits ==
    ASSUME NEW b \in Balances, \A a \in Actors : b[a] = 0
    PROVE  LiveUnspent(b) = 0
<1>1. Units(b) = {}
  BY DEF Units
<1> QED
  BY <1>1, FS_EmptySet DEF LiveUnspent

----------------------------------------------------------------------------
(* What one operation does to one ledger.                                  *)

\* A binding made from a policy is a binding record.
LEMMA BindingTyped ==
    ASSUME NEW v \in Versions, NEW p \in Policies, NEW s \in Sections(p)
    PROVE  MakeBinding(v, p, s) \in Binding
<1>1. s \in Names /\ p[s] \in Int
  BY PolicyConstants DEF Sections
<1> QED
  BY <1>1 DEF MakeBinding, Binding, RootHash, Roots

\* begin opens an accounted ledger over what the archive holds.
LEMMA BeginAccounted ==
    ASSUME ArchiveTypeOK, NEW v \in Versions, archive[v] # Absent,
           archive[v].root = RootHash(v, archive[v].content),
           NEW s \in Sections(archive[v].content), archive[v].content[s] > 0,
           NEW y, y = [binding |-> MakeBinding(v, archive[v].content, s),
                       capacity |-> archive[v].content[s],
                       admitted |-> {}, balance |-> [a \in Actors |-> 0],
                       committed |-> 0, receipts |-> <<>>]
    PROVE  y \in LedgerState /\ Accounted(y)
<1> DEFINE p == archive[v].content
<1>1. p \in Policies
  BY DEF ArchiveTypeOK
<1>2. p[s] \in Nat \ {0}
  BY <1>1, PolicyConstants DEF Sections
<1>3. MakeBinding(v, p, s) \in Binding
  BY <1>1, BindingTyped
<1>4. [a \in Actors |-> 0] \in Balances
  BY DEF Balances
<1>5. y \in LedgerState
  BY <1>2, <1>3, <1>4 DEF LedgerState
<1>6. Verifies(y.binding) /\ y.capacity = archive[y.binding.version].content[y.binding.section]
  BY DEF Verifies, MakeBinding
<1>7. TrailOf(y)
  BY DEF TrailOf, CommittedBefore
<1> QED
  BY <1>5, <1>6, <1>7 DEF Accounted

\* admit_actor vests the whole capacity once, in the first actor.
LEMMA AdmitAccounted ==
    ASSUME NEW x \in LedgerState, Accounted(x), NEW a \in Actors \ x.admitted,
           NEW y, y = [x EXCEPT !.admitted = x.admitted \cup {a},
                                !.balance = [x.balance EXCEPT
                                    ![a] = Vested(x.admitted, x.capacity)]]
    PROVE  y \in LedgerState /\ Accounted(y)
<1> DEFINE n == Vested(x.admitted, x.capacity)
<1>1. x.balance \in Balances /\ x.balance[a] = 0 /\ n \in Nat
  BY DEF LedgerState, Accounted, Vested
<1>2. /\ [x.balance EXCEPT ![a] = n] \in Balances
      /\ LiveUnspent([x.balance EXCEPT ![a] = n]) = LiveUnspent(x.balance) - x.balance[a] + n
  <2> HIDE DEF n
  <2> QED
    BY <1>1, SetBalance
<1>3. LiveUnspent(x.balance) \in Nat /\ x.committed \in Nat /\ x.capacity \in Nat
  BY <1>1, UnitsFinite DEF LedgerState
<1>4. /\ y.balance = [x.balance EXCEPT ![a] = n]
      /\ y.admitted = x.admitted \cup {a}
      /\ y.binding = x.binding /\ y.capacity = x.capacity
      /\ y.committed = x.committed /\ y.receipts = x.receipts
  BY DEF LedgerState
<1>5. y \in LedgerState
  BY <1>1, <1>2 DEF LedgerState
<1>6. Conserved(y.balance, y.committed, y.capacity)
  <2>1. CASE x.admitted = {}
    <3>1. \A c \in Actors : x.balance[c] = 0
      BY <2>1 DEF Accounted
    <3>2. LiveUnspent(x.balance) = 0
      BY <1>1, <3>1, NoUnits
    <3>3. x.committed = 0 /\ n = x.capacity
      BY <2>1 DEF Accounted, Vested
    <3> QED
      BY <1>1, <1>2, <1>3, <1>4, <3>2, <3>3 DEF Conserved
  <2>2. CASE x.admitted # {}
    <3>1. n = 0 /\ Conserved(x.balance, x.committed, x.capacity)
      BY <2>2 DEF Accounted, Vested
    <3> QED
      BY <1>1, <1>2, <1>3, <1>4, <3>1 DEF Conserved
  <2> QED
    BY <2>1, <2>2
<1>7. \A c \in Actors \ y.admitted : y.balance[c] = 0
  <2> SUFFICES ASSUME NEW c \in Actors, c \notin x.admitted, c # a
               PROVE  y.balance[c] = 0
    BY <1>4
  <2>1. x.balance[c] = 0
    BY DEF Accounted
  <2>2. y.balance[c] = x.balance[c]
    BY <1>1, <1>4 DEF Balances
  <2> QED
    BY <2>1, <2>2
<1>8. TrailOf(y)
  BY <1>4 DEF Accounted, TrailOf
<1> QED
  BY <1>4, <1>5, <1>6, <1>7, <1>8 DEF Accounted

\* The record _record leaves behind.
Recorded(x, event, amount, balance, committed) ==
    [x EXCEPT !.balance = balance, !.committed = committed,
              !.receipts = Append(x.receipts,
                  [event |-> event, amount |-> amount, balance |-> balance,
                   committed |-> committed, capacity |-> x.capacity,
                   binding |-> x.binding])]

\* A conserving operation of an admitted actor, once recorded, is accounted for.
LEMMA RecordAccounted ==
    ASSUME NEW x \in LedgerState, Accounted(x), x.admitted # {},
           NEW event \in {"internal_allocation", "external_consequence"},
           NEW amount \in Nat \ {0}, NEW balance \in Balances, NEW committed \in Nat,
           \A c \in Actors \ x.admitted : balance[c] = 0,
           Conserved(balance, committed, x.capacity),
           committed = x.committed + IF event = "external_consequence" THEN amount ELSE 0,
           NEW y, y = Recorded(x, event, amount, balance, committed)
    PROVE  y \in LedgerState /\ Accounted(y)
<1> DEFINE r == [event |-> event, amount |-> amount, balance |-> balance,
                 committed |-> committed, capacity |-> x.capacity,
                 binding |-> x.binding]
<1>1. r \in Receipt
  BY DEF Receipt, LedgerState
<1>2. /\ y.balance = balance /\ y.committed = committed
      /\ y.receipts = Append(x.receipts, r)
      /\ y.binding = x.binding /\ y.capacity = x.capacity /\ y.admitted = x.admitted
  BY DEF LedgerState, Recorded
<1>3. x.receipts \in Seq(Receipt)
  BY DEF LedgerState
<1>4. y \in LedgerState
  <2>1. y = [x EXCEPT !.balance = balance, !.committed = committed,
                      !.receipts = Append(x.receipts, r)]
    BY DEF Recorded
  <2> HIDE DEF r
  <2>2. Append(x.receipts, r) \in Seq(Receipt)
    BY <1>1, <1>3
  <2> QED
    BY <2>1, <2>2 DEF LedgerState
<1>5. /\ r.committed = committed /\ r.balance = balance
      /\ r.capacity = x.capacity /\ r.binding = x.binding
      /\ Spends(r) = IF event = "external_consequence" THEN amount ELSE 0
  BY DEF Spends
<1> HIDE DEF r
<1> DEFINE k == Len(x.receipts)
<1>6. /\ k \in Nat /\ Len(y.receipts) = k + 1 /\ y.receipts[k + 1] = r
      /\ \A i \in 1..k : y.receipts[i] = x.receipts[i]
      /\ DOMAIN x.receipts = 1..k /\ DOMAIN y.receipts = 1..(k + 1)
  BY <1>1, <1>2, <1>3
<1> HIDE DEF k
<1>7. \A i \in DOMAIN y.receipts :
        /\ y.receipts[i].binding = y.binding
        /\ y.receipts[i].capacity = y.capacity
        /\ Conserved(y.receipts[i].balance, y.receipts[i].committed, y.capacity)
  <2> SUFFICES ASSUME NEW i \in 1..(k + 1)
               PROVE  /\ y.receipts[i].binding = y.binding
                      /\ y.receipts[i].capacity = y.capacity
                      /\ Conserved(y.receipts[i].balance, y.receipts[i].committed, y.capacity)
    BY <1>6
  <2>1. CASE i = k + 1
    BY <1>2, <1>5, <1>6, <2>1
  <2>2. CASE i \in 1..k
    <3>1. /\ x.receipts[i].binding = x.binding
          /\ x.receipts[i].capacity = x.capacity
          /\ Conserved(x.receipts[i].balance, x.receipts[i].committed, x.capacity)
      BY <1>6, <2>2 DEF Accounted
    <3> QED
      BY <1>2, <1>6, <2>2, <3>1
  <2> QED
    BY <1>6, <2>1, <2>2
<1>8. \A i \in 1..(k + 1) :
        CommittedBefore(y.receipts, i) = CommittedBefore(x.receipts, i)
  <2> SUFFICES ASSUME NEW i \in 1..(k + 1), i # 1
               PROVE  y.receipts[i-1] = x.receipts[i-1]
    BY DEF CommittedBefore
  <2> QED
    BY <1>6
<1>9. x.committed = CommittedBefore(x.receipts, k + 1)
  BY DEF Accounted, TrailOf, k
<1>10. TrailOf(y)
  <2>1. CommittedBefore(y.receipts, (k + 1) + 1) = committed
    BY <1>5, <1>6 DEF CommittedBefore
  <2>2. \A i \in 1..(k + 1) :
          y.receipts[i].committed = CommittedBefore(y.receipts, i) + Spends(y.receipts[i])
    <3> TAKE i \in 1..(k + 1)
    <3>1. CASE i = k + 1
      BY <1>5, <1>6, <1>8, <1>9, <3>1
    <3>2. CASE i \in 1..k
      <4>1. x.receipts[i].committed = CommittedBefore(x.receipts, i) + Spends(x.receipts[i])
        BY <1>6, <3>2 DEF Accounted, TrailOf
      <4> QED
        BY <1>6, <1>8, <3>2, <4>1
    <3> QED
      BY <1>6, <3>1, <3>2
  <2> QED
    BY <1>2, <1>6, <2>1, <2>2 DEF TrailOf
<1>11. /\ Verifies(y.binding)
       /\ y.capacity = archive[y.binding.version].content[y.binding.section]
  BY <1>2 DEF Accounted
<1>12. /\ \A c \in Actors \ y.admitted : y.balance[c] = 0
       /\ y.admitted # {} /\ Conserved(y.balance, y.committed, y.capacity)
  BY <1>2
<1> QED
  BY <1>4, <1>7, <1>10, <1>11, <1>12 DEF Accounted

----------------------------------------------------------------------------
(* The inductive invariant.                                                *)

Inv == TypeOK /\ LedgerInv

\* A step that replaces one ledger by an accounted one keeps the invariant.
LEMMA OneLedger ==
    ASSUME Inv, NEW l \in Ledgers, NEW y \in LedgerState, Accounted(y),
           ledger' = [ledger EXCEPT ![l] = y], UNCHANGED archive
    PROVE  Inv'
<1>1. TypeOK'
  BY DEF Inv, TypeOK, ArchiveTypeOK
<1>2. \A x : Accounted(x) => Accounted(x)'
  BY DEF Accounted, Verifies
<1>3. ASSUME NEW k \in Ledgers, Open(k)' PROVE Accounted(ledger[k])'
  <2>1. CASE k = l
    <3>1. ledger'[k] = y
      BY <2>1 DEF Inv, TypeOK
    <3> QED
      BY <3>1 DEF Accounted, Verifies
  <2>2. CASE k # l
    <3>1. ledger'[k] = ledger[k] /\ Accounted(ledger[k])
      BY <1>3, <2>2 DEF Inv, TypeOK, LedgerInv, Open
    <3> QED
      BY <3>1 DEF Accounted, Verifies
  <2> QED
    BY <2>1, <2>2
<1>4. \A v \in Versions :
        archive'[v] # Absent => archive'[v].root = RootHash(v, archive'[v].content)
  BY DEF Inv, LedgerInv
<1> QED
  BY <1>1, <1>3, <1>4 DEF Inv, LedgerInv

----------------------------------------------------------------------------
(* Every action of the specification.                                      *)

\* Nothing archived and nothing opened is accounted for.
LEMMA InitInv == Init => Inv
BY DEF Init, ArchiveInit, Inv, TypeOK, ArchiveTypeOK, LedgerInv, Open

\* admit adds a version nobody is bound to yet, or changes nothing.
LEMMA AdmitInv ==
    ASSUME Inv, NEW v \in Versions, NEW p \in Policies, Admit(v, p), UNCHANGED ledger
    PROVE  Inv'
<1>1. CASE UNCHANGED archive
  BY <1>1 DEF Inv, TypeOK, ArchiveTypeOK, LedgerInv, Open, Accounted, Verifies
<1>2. CASE /\ archive[v] = Absent
           /\ archive' = [archive EXCEPT ![v] = [root |-> RootHash(v, p), content |-> p]]
  <2>1. ArchiveTypeOK'
    BY <1>2 DEF Inv, TypeOK, ArchiveTypeOK, RootHash, Roots
  <2>2. \A w \in Versions :
          archive'[w] # Absent => archive'[w].root = RootHash(w, archive'[w].content)
    BY <1>2 DEF Inv, TypeOK, ArchiveTypeOK, LedgerInv
  <2>3. ASSUME NEW l \in Ledgers, Open(l)' PROVE Accounted(ledger[l])'
    <3>1. Accounted(ledger[l]) /\ ledger[l] \in LedgerState
      BY <2>3 DEF Inv, TypeOK, LedgerInv, Open
    <3>2. /\ ledger[l].binding.version \in Versions
          /\ ledger[l].binding.version # v
      BY <1>2, <3>1 DEF LedgerState, Binding, Accounted, Verifies
    <3>3. archive'[ledger[l].binding.version] = archive[ledger[l].binding.version]
      BY <1>2, <3>2 DEF Inv, TypeOK, ArchiveTypeOK
    <3> QED
      BY <3>1, <3>3 DEF Accounted, Verifies
  <2> QED
    BY <2>1, <2>2, <2>3 DEF Inv, TypeOK, LedgerInv
<1> QED
  BY <1>1, <1>2 DEF Admit

\* begin opens a ledger that is accounted for.
LEMMA BeginInv ==
    ASSUME Inv, NEW l \in Ledgers, NEW v \in Versions, NEW s \in Names, Begin(l, v, s)
    PROVE  Inv'
<1> DEFINE y == [binding |-> MakeBinding(v, archive[v].content, s),
                 capacity |-> archive[v].content[s],
                 admitted |-> {}, balance |-> [a \in Actors |-> 0],
                 committed |-> 0, receipts |-> <<>>]
<1>1. /\ archive[v] # Absent
      /\ s \in Sections(archive[v].content)
      /\ archive[v].content[s] > 0
      /\ ledger' = [ledger EXCEPT ![l] = y]
      /\ UNCHANGED archive
  BY DEF Begin
<1>2. ArchiveTypeOK /\ archive[v].root = RootHash(v, archive[v].content)
  BY <1>1 DEF Inv, TypeOK, LedgerInv
<1>3. y \in LedgerState /\ Accounted(y)
  BY <1>1, <1>2, BeginAccounted
<1> HIDE DEF y
<1> QED
  BY <1>1, <1>3, OneLedger

\* admit_actor keeps its ledger accounted for.
LEMMA AdmitActorInv ==
    ASSUME Inv, NEW l \in Ledgers, NEW a \in Actors, AdmitActor(l, a)
    PROVE  Inv'
<1> DEFINE x == ledger[l]
           y == [x EXCEPT !.admitted = x.admitted \cup {a},
                          !.balance = [x.balance EXCEPT
                              ![a] = Vested(x.admitted, x.capacity)]]
<1>1. x \in LedgerState /\ Accounted(x)
  BY DEF Inv, TypeOK, LedgerInv, Open, AdmitActor
<1>2. a \in Actors \ x.admitted
  BY DEF AdmitActor
<1>3. y \in LedgerState /\ Accounted(y)
  BY <1>1, <1>2, AdmitAccounted
<1>4. ledger' = [ledger EXCEPT ![l] = y] /\ UNCHANGED archive
  BY <1>1 DEF AdmitActor, Inv, TypeOK, LedgerState
<1> HIDE DEF y
<1> QED
  BY <1>3, <1>4, OneLedger

\* What the two operations that spend have in common.
LEMMA RecordInv ==
    ASSUME Inv, NEW l \in Ledgers, ledger[l] # Absent, ledger[l].admitted # {},
           NEW event \in {"internal_allocation", "external_consequence"},
           NEW amount \in Nat \ {0}, NEW balance \in Balances, NEW committed \in Nat,
           \A c \in Actors \ ledger[l].admitted : balance[c] = 0,
           Conserved(balance, committed, ledger[l].capacity),
           committed = ledger[l].committed
                         + IF event = "external_consequence" THEN amount ELSE 0,
           Record(l, event, amount, balance, committed), UNCHANGED archive
    PROVE  Inv'
<1> DEFINE x == ledger[l]
           y == Recorded(x, event, amount, balance, committed)
<1>1. x \in LedgerState /\ Accounted(x)
  BY DEF Inv, TypeOK, LedgerInv, Open
<1>2. y \in LedgerState /\ Accounted(y)
  BY <1>1, RecordAccounted
<1>3. ledger' = [ledger EXCEPT ![l] = y]
  BY <1>1 DEF Record, Recorded, Inv, TypeOK, LedgerState
<1> HIDE DEF y
<1> QED
  BY <1>2, <1>3, OneLedger

\* The guard both share, in the terms the lemmas about units need.
LEMMA SpenderFacts ==
    ASSUME Inv, NEW l \in Ledgers, NEW a \in Actors, NEW n \in Amounts(l),
           CanSpend(l, a, n)
    PROVE  /\ ledger[l] # Absent /\ ledger[l].admitted # {} /\ a \in ledger[l].admitted
           /\ n \in Nat \ {0} /\ ledger[l].balance[a] >= n
           /\ ledger[l].balance \in Balances
           /\ ledger[l].committed \in Nat /\ ledger[l].capacity \in Nat
           /\ Conserved(ledger[l].balance, ledger[l].committed, ledger[l].capacity)
           /\ \A c \in Actors \ ledger[l].admitted : ledger[l].balance[c] = 0
<1>1. ledger[l] # Absent /\ ledger[l] \in LedgerState /\ Accounted(ledger[l])
  BY DEF CanSpend, Inv, TypeOK, LedgerInv, Open
<1>2. n \in Nat \ {0} /\ a \in ledger[l].admitted /\ ledger[l].balance[a] >= n
  BY <1>1 DEF CanSpend, Amounts, LedgerState
<1> QED
  BY <1>1, <1>2 DEF LedgerState, Accounted

\* allocate keeps its ledger accounted for.
LEMMA AllocateInv ==
    ASSUME Inv, NEW l \in Ledgers, NEW from \in Actors, NEW to \in Actors,
           NEW n \in Amounts(l), Allocate(l, from, to, n)
    PROVE  Inv'
<1> DEFINE x == ledger[l]
           moved == Move(x.balance, from, to, n)
<1>1. CanSpend(l, from, n) /\ to \in x.admitted /\ UNCHANGED archive
      /\ Record(l, "internal_allocation", n, moved, x.committed)
  BY DEF Allocate
<1>2. /\ x # Absent /\ x.admitted # {} /\ from \in x.admitted
      /\ n \in Nat \ {0} /\ x.balance[from] >= n /\ x.balance \in Balances
      /\ x.committed \in Nat /\ x.capacity \in Nat
      /\ Conserved(x.balance, x.committed, x.capacity)
      /\ \A c \in Actors \ x.admitted : x.balance[c] = 0
  BY <1>1, SpenderFacts
<1> HIDE DEF x
<1>3. /\ moved \in Balances
      /\ LiveUnspent(moved) = LiveUnspent(x.balance)
      /\ \A c \in Actors \ {from, to} : moved[c] = x.balance[c]
  BY <1>2, MoveUnits
<1> HIDE DEF moved
<1>4. Conserved(moved, x.committed, x.capacity)
  BY <1>2, <1>3 DEF Conserved
<1>5. \A c \in Actors \ x.admitted : moved[c] = 0
  BY <1>1, <1>2, <1>3
<1>6. x.committed = x.committed
        + IF "internal_allocation" = "external_consequence" THEN n ELSE 0
  BY <1>2
<1> QED
  BY <1>1, <1>2, <1>3, <1>4, <1>5, <1>6, RecordInv DEF x

\* commit_external keeps its ledger accounted for.
LEMMA CommitExternalInv ==
    ASSUME Inv, NEW l \in Ledgers, NEW a \in Actors, NEW n \in Amounts(l),
           CommitExternal(l, a, n)
    PROVE  Inv'
<1> DEFINE x == ledger[l]
           left == Credit(x.balance, a, -n)
           committed == x.committed + n
<1>1. CanSpend(l, a, n) /\ UNCHANGED archive
      /\ Record(l, "external_consequence", n, left, committed)
  BY DEF CommitExternal
<1>2. /\ x # Absent /\ x.admitted # {} /\ a \in x.admitted
      /\ n \in Nat \ {0} /\ x.balance[a] >= n /\ x.balance \in Balances
      /\ x.committed \in Nat /\ x.capacity \in Nat
      /\ Conserved(x.balance, x.committed, x.capacity)
      /\ \A c \in Actors \ x.admitted : x.balance[c] = 0
  BY <1>1, SpenderFacts
<1> HIDE DEF x
<1>3. -n \in Int /\ x.balance[a] + (-n) >= 0 /\ x.balance[a] \in Nat
  BY <1>2 DEF Balances
<1>4. /\ left \in Balances
      /\ LiveUnspent(left) = LiveUnspent(x.balance) + (-n)
      /\ \A c \in Actors : c # a => left[c] = x.balance[c]
  BY <1>2, <1>3, CreditUnits
<1>5. LiveUnspent(x.balance) \in Nat
  BY <1>2, UnitsFinite
<1> HIDE DEF left
<1>6. committed \in Nat /\ Conserved(left, committed, x.capacity)
  BY <1>2, <1>4, <1>5 DEF Conserved
<1>7. \A c \in Actors \ x.admitted : left[c] = 0
  BY <1>2, <1>4
<1>8. committed = x.committed
        + IF "external_consequence" = "external_consequence" THEN n ELSE 0
  OBVIOUS
<1> HIDE DEF committed
<1> QED
  BY <1>1, <1>2, <1>4, <1>6, <1>7, <1>8, RecordInv DEF x

\* Every step keeps the inductive invariant.
LEMMA NextInv == Inv /\ [Next]_vars => Inv'
<1> SUFFICES ASSUME Inv, [Next]_vars PROVE Inv'
  OBVIOUS
<1>1. ASSUME NEW v \in Versions, NEW p \in Policies, Admit(v, p), UNCHANGED ledger
      PROVE  Inv'
  BY <1>1, AdmitInv
<1>2. ASSUME NEW l \in Ledgers, LedgerNext(l) PROVE Inv'
  <2>1. ASSUME NEW v \in Versions, NEW s \in Names, Begin(l, v, s) PROVE Inv'
    BY <2>1, BeginInv
  <2>2. ASSUME NEW a \in Actors, AdmitActor(l, a) PROVE Inv'
    BY <2>2, AdmitActorInv
  <2>3. ASSUME NEW from \in Actors, NEW to \in Actors, NEW n \in Amounts(l),
               Allocate(l, from, to, n)
        PROVE  Inv'
    BY <2>3, AllocateInv
  <2>4. ASSUME NEW a \in Actors, NEW n \in Amounts(l), CommitExternal(l, a, n)
        PROVE  Inv'
    BY <2>4, CommitExternalInv
  <2> QED
    BY <1>2, <2>1, <2>2, <2>3, <2>4 DEF LedgerNext
<1>3. CASE UNCHANGED vars
  BY <1>3 DEF vars, Inv, TypeOK, ArchiveTypeOK, LedgerInv, Open, Accounted, Verifies
<1> QED
  BY <1>1, <1>2, <1>3 DEF Next

----------------------------------------------------------------------------
(* The theorems.                                                           *)

\* Every reachable archive and ledger is accounted for.
THEOREM Invariance == Spec => []Inv
<1>1. Init => Inv
  BY InitInv
<1>2. Inv /\ [Next]_vars => Inv'
  BY NextInv
<1> QED
  BY <1>1, <1>2, PTL DEF Spec

\* Balances stay natural numbers and every receipt is a receipt (TypeOK), for any
\* number of actors and any capacity: no sequence of calls drives a balance below 0.
THEOREM Typing == Spec => []TypeOK
<1>1. Inv => TypeOK
  BY DEF Inv
<1> QED
  BY <1>1, Invariance, PTL

\* check_invariant holds after every operation of every ledger with an actor.
THEOREM ConservationHolds == Spec => []Conservation
<1>1. Inv => Conservation
  BY DEF Inv, LedgerInv, Conservation, Accounted
<1> QED
  BY <1>1, Invariance, PTL

\* Receipts verify against the archive and add up, however long they are kept.
THEOREM ReceiptsAlwaysReplay == Spec => []ReceiptsReplay
<1>1. ASSUME Inv, NEW l \in Ledgers, Open(l), NEW i \in DOMAIN ledger[l].receipts
      PROVE  LET r == ledger[l].receipts[i] IN
             /\ Verifies(r.binding)
             /\ r.capacity = archive[r.binding.version].content[r.binding.section]
             /\ Conserved(r.balance, r.committed, r.capacity)
  <2>1. Accounted(ledger[l])
    BY <1>1 DEF Inv, LedgerInv
  <2> QED
    BY <1>1, <2>1 DEF Accounted
<1>2. Inv => ReceiptsReplay
  BY <1>1 DEF ReceiptsReplay
<1> QED
  BY <1>2, Invariance, PTL

\* The receipts of a ledger account for every unit it ever committed.
THEOREM ReceiptTrailHolds == Spec => []ReceiptTrail
<1>1. Inv => ReceiptTrail
  BY DEF Inv, LedgerInv, ReceiptTrail, Accounted
<1> QED
  BY <1>1, Invariance, PTL

\* While nobody writes to the archive's own policies, a version label verifies
\* exactly the one policy admitted under it.
THEOREM OneRootHolds == Spec => []OneRootPerVersion
<1>1. ASSUME Inv, NEW v \in Versions, NEW p \in Policies, NEW s \in Sections(p)
      PROVE  Verifies(MakeBinding(v, p, s)) <=>
                 archive[v] # Absent /\ archive[v].root = RootHash(v, p)
  <2>1. archive[v] # Absent => archive[v].root = RootHash(v, archive[v].content)
    BY <1>1 DEF Inv, LedgerInv
  <2>2. \A q : RootHash(v, p) = RootHash(v, q) <=> p = q
    BY DEF RootHash
  <2>3. /\ MakeBinding(v, p, s).version = v /\ MakeBinding(v, p, s).root = RootHash(v, p)
        /\ MakeBinding(v, p, s).section = s /\ MakeBinding(v, p, s).hash = p[s]
    BY DEF MakeBinding
  <2> QED
    BY <1>1, <2>1, <2>2, <2>3 DEF Verifies
<1>2. Inv => OneRootPerVersion
  BY <1>1 DEF OneRootPerVersion
<1> QED
  BY <1>2, Invariance, PTL

=============================================================================
