-------------------------- MODULE InscriptionsProofs --------------------------
(***************************************************************************)
(* Theorems about Inscriptions, for every first coins, every number and list   *)
(* of transactions, and every set of addresses.                                *)
(***************************************************************************)
EXTENDS Inscriptions, DataInduction, SequenceTheorems, TLAPS

-----------------------------------------------------------------------------
(* A list of numbers, and a list of coins, one after the other.             *)

\* Everything below the sum falls in one number of the list.
LEMMA FallsIn ==
  ASSUME NEW s \in Seq(Nat), NEW up, SumsTo(up, s), \A k \in 0 .. Len(s) : \A j \in 0 .. k : up[j] <= up[k],
         NEW q \in Nat, q < up[Len(s)]
  PROVE  \E k \in 1 .. Len(s) : up[k - 1] <= q /\ q < up[k]
<1> DEFINE T == {k \in 0 .. Len(s) : q < up[k]}
<1>1. Len(s) \in Nat /\ up[0] = 0 /\ \A k \in 0 .. Len(s) : up[k] \in Nat
  <2>1. Len(s) \in Nat
    OBVIOUS
  <2>2. up \in [0 .. Len(s) -> Nat] /\ up[0] = 0
    BY Zenon DEF SumsTo
  <2> QED BY <2>1, <2>2
<1>2. T \in SUBSET Nat /\ T # {}
  BY <1>1
<1>3. PICK k \in T : \A m \in T : k <= m
  <2> HIDE DEF T
  <2> QED BY <1>2, Least
<1>4. k \in 0 .. Len(s) /\ q < up[k] /\ k # 0
  BY <1>1, <1>3
<1>5. k - 1 \in 0 .. Len(s) /\ k - 1 \notin T
  BY <1>1, <1>3, <1>4
<1>6. up[k - 1] <= q
  BY <1>1, <1>5
<1> QED BY <1>1, <1>4, <1>6

-----------------------------------------------------------------------------
(* First in, first out.                                                     *)

Worths(ins) == [k \in 1 .. Len(ins) |-> Value(ins[k])]

\* all[k]: the units of the first k inputs.
Pools(all, ins, V) ==
  /\ all \in [0 .. Len(ins) -> Seq(V)] /\ all[0] = <<>>
  /\ \A n \in 1 .. Len(ins) : all[n] = all[n - 1] \o coins[ins[n]].units

\* The units of the inputs are those of one after the other.
LEMMA PoolSteps ==
  ASSUME NEW V, \A o \in DOMAIN coins : coins[o].units \in Seq(V), NEW ins \in Seq(DOMAIN coins)
  PROVE  \E all : Pools(all, ins, V) /\ Units(ins) = all[Len(ins)]
<1> DEFINE W == Seq(V)
           last == Len(ins)
           own == [n \in 1 .. last |-> coins[ins[n]].units]
           step == [n \in 1 .. last |-> [v \in W |-> v \o own[n]]]
           D(f, n) == IF n = 0 THEN <<>> ELSE f[n - 1] \o coins[ins[n]].units
           left == CHOOSE f : f = [n \in 0 .. Len(ins) |-> D(f, n)]
<1>0. last \in Nat /\ <<>> \in W /\ \A n \in 1 .. last : ins[n] \in DOMAIN coins
  OBVIOUS
<1>1. \A n \in 1 .. last : own[n] \in W /\ own[n] = coins[ins[n]].units
  BY <1>0
<1>2. step \in [1 .. last -> [W -> W]] /\ \A n \in 1 .. last : \A v \in W : step[n][v] = v \o own[n]
  <2> HIDE DEF last, own
  <2> QED BY <1>0, <1>1
<1>3. PICK f : Stepwise(f, last, W, <<>>, step)
  <2> HIDE DEF W, last, step
  <2> QED BY <1>0, <1>2, StepwiseExists
<1>4. f \in [0 .. last -> W] /\ f[0] = <<>> /\ \A n \in 1 .. last : f[n] = step[n][f[n - 1]]
  <2> HIDE DEF W, last, step
  <2> QED BY <1>3 DEF Stepwise
<1>5. \A n \in 1 .. last : f[n] = f[n - 1] \o coins[ins[n]].units
  <2> SUFFICES ASSUME NEW n \in 1 .. last PROVE f[n] = f[n - 1] \o coins[ins[n]].units
    OBVIOUS
  <2>1. n - 1 \in 0 .. last /\ f[n] = step[n][f[n - 1]]
    <3> HIDE DEF step, W
    <3> QED BY <1>0, <1>4
  <2>2. f[n - 1] \in W
    <3> HIDE DEF step, W, last
    <3> QED BY <1>4, <2>1
  <2> HIDE DEF step, W, last, own
  <2> QED BY <1>1, <1>2, <2>1, <2>2
<1>6. left = [n \in 0 .. Len(ins) |-> D(left, n)]
  <2>1. ASSUME NEW n \in 0 .. last PROVE f[n] = D(f, n)
    <3> HIDE DEF step, W, own
    <3>1. CASE n = 0
      BY <1>4, <3>1
    <3>2. CASE n # 0
      <4>1. n \in 1 .. last
        BY <1>0, <3>2
      <4> HIDE DEF last
      <4> QED BY <1>5, <3>2, <4>1
    <3> QED BY <3>1, <3>2
  <2>2. f = [n \in 0 .. Len(ins) |-> D(f, n)]
    <3> HIDE DEF step, W, D
    <3> QED BY <1>4, <2>1
  <2> QED BY <2>2
<1>7. Units(ins) = left[Len(ins)]
  BY DEF Units
<1> HIDE DEF left
<1>8. \A n \in 0 .. last : left[n] = D(left, n)
  <2> HIDE DEF D
  <2> QED BY <1>6
<1>9. left[0] = <<>> /\ \A n \in 1 .. last : left[n] = left[n - 1] \o coins[ins[n]].units
  <2> HIDE DEF step, W, own
  <2>1. left[0] = <<>>
    BY <1>0, <1>8
  <2>2. ASSUME NEW n \in 1 .. last PROVE left[n] = left[n - 1] \o coins[ins[n]].units
    <3>1. n \in 0 .. last /\ n # 0
      BY <1>0
    <3>2. left[n] = D(left, n)
      <4> HIDE DEF D, last
      <4> QED BY <1>8, <3>1
    <3> HIDE DEF last
    <3> QED BY <3>1, <3>2
  <2> QED BY <2>1, <2>2
<1> DEFINE T == {n \in 0 .. last : left[n] = f[n]}
<1>10. 0 \in T
  <2> HIDE DEF W, step, own, D
  <2> QED BY <1>0, <1>4, <1>9
<1>11. ASSUME NEW n \in 0 .. last - 1, n \in T PROVE n + 1 \in T
  <2>1. n + 1 \in 1 .. last /\ n + 1 \in 0 .. last /\ (n + 1) - 1 = n
    BY <1>0
  <2> HIDE DEF W, step, last, D, own
  <2> QED BY <1>5, <1>9, <1>11, <2>1
<1>12. 0 .. last \subseteq T
  <2> HIDE DEF T, last
  <2> QED BY <1>0, <1>10, <1>11, UpTo
<1>13. left[Len(ins)] = f[Len(ins)]
  <2> HIDE DEF W, step, D, own
  <2> QED BY <1>0, <1>12
<1>14. Pools(f, ins, V)
  <2> HIDE DEF step, D, own
  <2> QED BY <1>4, <1>5 DEF Pools
<1> QED BY <1>7, <1>13, <1>14

\* One more input.
LEMMA PoolsAt ==
  ASSUME NEW V, NEW ins \in Seq(DOMAIN coins), NEW all, Pools(all, ins, V), NEW k \in 0 .. Len(ins) - 1
  PROVE  all[k] \in Seq(V) /\ all[k + 1] = all[k] \o coins[ins[k + 1]].units
<1>1. k + 1 \in 1 .. Len(ins) /\ k \in 0 .. Len(ins) /\ (k + 1) - 1 = k
  OBVIOUS
<1>2. all[k + 1] = all[(k + 1) - 1] \o coins[ins[k + 1]].units
  BY <1>1, Zenon DEF Pools
<1>3. all \in [0 .. Len(ins) -> Seq(V)]
  BY Zenon DEF Pools
<1> QED BY <1>1, <1>2, <1>3

\* The values before an input are those of the inputs before it.
LEMMA OffsetIs ==
  ASSUME NEW ins \in Seq(DOMAIN coins), NEW k \in 1 .. Len(ins)
  PROVE  OffsetOfInput(ins, k) = AddUp(SubSeq(Worths(ins), 1, k - 1))
<1> DEFINE s == [n \in 1 .. k - 1 |-> Value(ins[n])]
           r == SubSeq(Worths(ins), 1, k - 1)
<1>1. Len(ins) \in Nat /\ k - 1 \in 0 .. Len(ins)
  OBVIOUS
<1>2. r = [n \in 1 .. k - 1 |-> Worths(ins)[n]]
  BY <1>1
<1>3. \A n \in 1 .. k - 1 : Worths(ins)[n] = Value(ins[n])
  BY <1>1 DEF Worths
<1>4. s = r
  <2> HIDE DEF r
  <2> QED BY <1>2, <1>3
<1> QED BY <1>4 DEF OffsetOfInput

\* Every unit of an input is at the input's offset in the pool, and nothing else is in the pool.
LEMMA InputsLaidOut ==
  ASSUME NEW V, \A o \in DOMAIN coins : coins[o].units \in Seq(V), NEW ins \in Seq(DOMAIN coins)
  PROVE  /\ Units(ins) \in Seq(V) /\ Len(Units(ins)) = AddUp(Worths(ins))
         /\ \A k \in 1 .. Len(ins) :
              /\ OffsetOfInput(ins, k) \in Nat
              /\ \A j \in 1 .. Value(ins[k]) :
                   /\ OffsetOfInput(ins, k) + j \in 1 .. Len(Units(ins))
                   /\ Units(ins)[OffsetOfInput(ins, k) + j] = coins[ins[k]].units[j]
         /\ \A q \in 1 .. Len(Units(ins)) : \E k \in 1 .. Len(ins) : \E j \in 1 .. Value(ins[k]) :
              q = OffsetOfInput(ins, k) + j
<1> DEFINE s == Worths(ins)
<1>1. Len(ins) \in Nat /\ \A k \in 1 .. Len(ins) : ins[k] \in DOMAIN coins
  OBVIOUS
<1>2. \A k \in 1 .. Len(ins) : Value(ins[k]) \in Nat
  BY <1>1 DEF Value
<1>3. s \in Seq(Nat) /\ Len(s) = Len(ins) /\ \A k \in 1 .. Len(ins) : s[k] = Value(ins[k])
  BY <1>1, <1>2 DEF Worths
<1> HIDE DEF s
<1>4. PICK all : Pools(all, ins, V) /\ Units(ins) = all[Len(ins)]
  BY PoolSteps
<1>5. PICK up : /\ SumsTo(up, s) /\ AddUp(s) = up[Len(s)]
                /\ \A k \in 0 .. Len(s) : AddUp(SubSeq(s, 1, k)) = up[k]
                /\ \A k \in 0 .. Len(s) : \A i \in 0 .. k : up[i] <= up[k]
  BY <1>3, SumPrefixes
<1>6. up \in [0 .. Len(ins) -> Nat] /\ up[0] = 0 /\ all \in [0 .. Len(ins) -> Seq(V)] /\ all[0] = <<>>
  <2>1. up \in [0 .. Len(s) -> Nat] /\ up[0] = 0
    BY <1>5, Zenon DEF SumsTo
  <2>2. all \in [0 .. Len(ins) -> Seq(V)] /\ all[0] = <<>>
    BY <1>4, Zenon DEF Pools
  <2> QED BY <1>3, <2>1, <2>2
<1>7. \A k \in 1 .. Len(ins) : OffsetOfInput(ins, k) = up[k - 1] /\ up[k - 1] \in Nat
  <2> SUFFICES ASSUME NEW k \in 1 .. Len(ins) PROVE OffsetOfInput(ins, k) = up[k - 1] /\ up[k - 1] \in Nat
    OBVIOUS
  <2>1. k - 1 \in 0 .. Len(ins) /\ OffsetOfInput(ins, k) = AddUp(SubSeq(s, 1, k - 1))
    BY <1>1, OffsetIs DEF s
  <2> QED BY <1>3, <1>5, <1>6, <2>1
<1> DEFINE Laid(n, k) ==
             \A j \in 1 .. Value(ins[k]) :
               up[k - 1] + j \in 1 .. Len(all[n]) /\ all[n][up[k - 1] + j] = coins[ins[k]].units[j]
           T == {n \in 0 .. Len(ins) : Len(all[n]) = up[n] /\ \A k \in 1 .. n : Laid(n, k)}
<1>8. 0 \in T
  BY <1>1, <1>6
<1>9. ASSUME NEW n \in 0 .. Len(ins) - 1, n \in T PROVE n + 1 \in T
  <2> DEFINE a == all[n]
             b == coins[ins[n + 1]].units
             c == all[n + 1]
  <2>1. /\ up[n] \in Nat /\ s[n + 1] \in Nat /\ up[n + 1] = up[n] + s[n + 1] /\ n \in Nat
        /\ n + 1 \in 1 .. Len(ins) /\ (n + 1) - 1 = n
    BY <1>3, <1>5, SumsAt
  <2>2. a \in Seq(V) /\ c = a \o b
    BY <1>4, PoolsAt
  <2>3. b \in Seq(V) /\ Len(b) = s[n + 1] /\ Value(ins[n + 1]) = Len(b)
    BY <1>1, <1>3, <2>1 DEF Value
  <2>4. Len(a) = up[n] /\ \A k \in 1 .. n : Laid(n, k)
    BY <1>9
  <2> HIDE DEF a, b, c
  <2>5. /\ Len(c) = Len(a) + Len(b) /\ Len(a) \in Nat /\ Len(b) \in Nat
        /\ \A i \in 1 .. Len(a) : c[i] = a[i]
        /\ \A i \in 1 .. Len(b) : c[Len(a) + i] = b[i]
    BY <2>2, <2>3, ConcatProperties
  <2>6. Len(c) = up[n + 1]
    BY <2>1, <2>3, <2>4, <2>5
  <2>7. ASSUME NEW k \in 1 .. n + 1 PROVE Laid(n + 1, k)
    <3> SUFFICES ASSUME NEW j \in 1 .. Value(ins[k])
                 PROVE  up[k - 1] + j \in 1 .. Len(c) /\ c[up[k - 1] + j] = coins[ins[k]].units[j]
      BY DEF c
    <3>1. CASE k = n + 1
      <4>1. j \in 1 .. Len(b) /\ up[k - 1] = Len(a)
        BY <2>1, <2>3, <2>4, <3>1
      <4>2. Len(a) + j \in 1 .. Len(c) /\ c[Len(a) + j] = b[j]
        BY <2>5, <4>1
      <4> QED BY <3>1, <4>1, <4>2 DEF b
    <3>2. CASE k # n + 1
      <4>1. k \in 1 .. n
        BY <2>1, <3>2
      <4>2. up[k - 1] + j \in 1 .. Len(a) /\ a[up[k - 1] + j] = coins[ins[k]].units[j]
        BY <2>4, <4>1 DEF a
      <4>3. up[k - 1] + j \in 1 .. Len(c)
        BY <2>5, <4>2
      <4> QED BY <2>5, <4>2, <4>3
    <3> QED BY <3>1, <3>2
  <2> HIDE DEF Laid
  <2> QED BY <2>1, <2>6, <2>7 DEF c
<1>10. 0 .. Len(ins) \subseteq T
  <2> HIDE DEF T
  <2> QED BY <1>1, <1>8, <1>9, UpTo
<1>11. Len(all[Len(ins)]) = up[Len(ins)] /\ \A k \in 1 .. Len(ins) : Laid(Len(ins), k)
  <2> HIDE DEF Laid
  <2> QED BY <1>1, <1>10
<1>12. Units(ins) \in Seq(V) /\ Len(Units(ins)) = AddUp(Worths(ins))
  BY <1>1, <1>3, <1>4, <1>5, <1>6, <1>11 DEF s
<1>13. ASSUME NEW k \in 1 .. Len(ins)
       PROVE  /\ OffsetOfInput(ins, k) \in Nat
              /\ \A j \in 1 .. Value(ins[k]) :
                   /\ OffsetOfInput(ins, k) + j \in 1 .. Len(Units(ins))
                   /\ Units(ins)[OffsetOfInput(ins, k) + j] = coins[ins[k]].units[j]
  BY <1>4, <1>7, <1>11
<1>14. ASSUME NEW q \in 1 .. Len(Units(ins))
       PROVE  \E k \in 1 .. Len(ins) : \E j \in 1 .. Value(ins[k]) : q = OffsetOfInput(ins, k) + j
  <2>1. q - 1 \in Nat /\ q - 1 < up[Len(s)]
    BY <1>3, <1>4, <1>6, <1>11, <1>12
  <2>2. PICK k \in 1 .. Len(s) : up[k - 1] <= q - 1 /\ q - 1 < up[k]
    BY <1>3, <1>5, <2>1, FallsIn
  <2>3. k - 1 \in 0 .. Len(s) - 1 /\ (k - 1) + 1 = k /\ k \in 1 .. Len(ins)
    BY <1>3
  <2>4. up[k - 1] \in Nat /\ up[k] = up[k - 1] + Value(ins[k]) /\ Value(ins[k]) \in Nat
    BY <1>3, <1>5, <2>3, SumsAt
  <2>5. q - up[k - 1] \in 1 .. Value(ins[k]) /\ q = up[k - 1] + (q - up[k - 1])
    BY <2>1, <2>2, <2>4
  <2> QED BY <1>7, <2>3, <2>5
<1> QED BY <1>12, <1>13, <1>14

-----------------------------------------------------------------------------
(* What is always so.                                                       *)

Holder == Addresses \cup {NoAddress}
CoinType == [units : Seq(1 .. Total), to : Holder]

\* Where two coins hold a unit, they are one coin and it is one unit.
UnitsApart ==
  \A o, p \in DOMAIN coins : \A j \in 1 .. Value(o), n \in 1 .. Value(p) :
    coins[o].units[j] = coins[p].units[n] => o = p /\ j = n
ChainOK ==
  /\ txs \in 0 .. MaxTxs /\ height \in 0 .. txs
  /\ coins \in [DOMAIN coins -> CoinType] /\ DOMAIN coins \subseteq (0 .. txs) \X (1 .. MaxOuts)
  /\ UnitsApart

RecordType ==
  [number : 0 .. MaxTxs - 1, parents : Seq(1 .. MaxTxs), parent : 0 .. MaxTxs,
   children : Seq(1 .. MaxTxs), location : TxOut \cup {Burned}, owner : Holder]
RecordsOK ==
  /\ Ids \subseteq 1 .. txs
  /\ inscriptions \in [Ids -> RecordType] /\ \A p \in Ids : Range(inscriptions[p].children) \subseteq Ids
  /\ unit \in [Ids -> 0 .. Total]
  /\ beside \in [Ids -> SUBSET Ids]

\* What locations says of an outpoint.
Carries(o, i, n) == \E k \in 1 .. Len(Here(o)) : Here(o)[k].id = i /\ Here(o)[k].offset = n
Matches ==
  \A o \in DOMAIN coins, i \in Ids, n \in Nat :
    Carries(o, i, n) <=> n < Value(o) /\ coins[o].units[n + 1] = unit[i]
InRow ==
  \A o \in DOMAIN locations : \A k, n \in 1 .. Len(locations[o]) :
    k < n => locations[o][k].id # locations[o][n].id /\ locations[o][k].offset <= locations[o][n].offset
Placed ==
  \A i \in Ids :
    /\ \A o \in DOMAIN coins : \A j \in 1 .. Value(o) :
         coins[o].units[j] = unit[i] => inscriptions[i].location = o /\ inscriptions[i].owner = coins[o].to
    /\ (\A o \in DOMAIN coins : \A j \in 1 .. Value(o) : coins[o].units[j] # unit[i])
         => inscriptions[i].location = Burned
IndexOK ==
  /\ DOMAIN locations \subseteq DOMAIN coins
  /\ \A o \in DOMAIN locations : locations[o] \in Seq([id : Ids, offset : Nat])
  /\ Matches /\ InRow /\ Placed

-----------------------------------------------------------------------------
(* The outputs.                                                             *)

OutType == [value : Nat, to : Holder]

\* A list of outputs is one.
LEMMA OutputsSeq ==
  ASSUME NEW outs \in Outputs
  PROVE  /\ outs \in Seq(OutType) /\ Len(outs) \in 0 .. MaxOuts /\ DOMAIN outs = 1 .. Len(outs)
         /\ \A k \in 1 .. Len(outs) : outs[k].value \in Nat /\ outs[k].to \in Holder
         /\ Values(outs) \in Seq(Nat) /\ Len(Values(outs)) = Len(outs)
         /\ \A k \in 1 .. Len(outs) : Values(outs)[k] = outs[k].value
<1>1. PICK n \in 0 .. MaxOuts : outs \in [1 .. n -> OutType]
  BY Zenon DEF Outputs, OutType, Holder
<1>2. n \in Nat /\ MaxOuts \in Nat
  BY InscriptionsAssumption
<1>3. outs \in Seq(OutType) /\ Len(outs) = n /\ DOMAIN outs = 1 .. Len(outs)
  BY <1>1, <1>2
<1>4. \A k \in 1 .. Len(outs) : outs[k] \in OutType
  BY <1>3
<1>5. \A k \in 1 .. Len(outs) : outs[k].value \in Nat /\ outs[k].to \in Holder
  BY <1>4 DEF OutType
<1>6. Values(outs) \in Seq(Nat) /\ Len(Values(outs)) = Len(outs)
      /\ \A k \in 1 .. Len(outs) : Values(outs)[k] = outs[k].value
  BY <1>2, <1>3, <1>5 DEF Values
<1> QED BY <1>1, <1>3, <1>5, <1>6

\* The outputs lie one after the other, and leave no gap.
LEMMA OutputsLaidOut ==
  ASSUME NEW outs \in Outputs
  PROVE  /\ AddUp(Values(outs)) \in Nat
         /\ \A k \in 1 .. Len(outs) :
              Start(outs, k) \in Nat /\ Start(outs, k) + outs[k].value <= AddUp(Values(outs))
         /\ \A k, m \in 1 .. Len(outs) : k < m => Start(outs, k) + outs[k].value <= Start(outs, m)
         /\ \A q \in Nat : q < AddUp(Values(outs)) =>
              \E k \in 1 .. Len(outs) : Start(outs, k) <= q /\ q < Start(outs, k) + outs[k].value
<1> DEFINE s == Values(outs)
<1>1. /\ s \in Seq(Nat) /\ Len(s) = Len(outs) /\ Len(s) \in Nat
      /\ \A k \in 1 .. Len(outs) : s[k] = outs[k].value
  BY OutputsSeq
<1>2. PICK up : /\ SumsTo(up, s) /\ AddUp(s) = up[Len(s)]
                /\ \A k \in 0 .. Len(s) : AddUp(SubSeq(s, 1, k)) = up[k]
                /\ \A k \in 0 .. Len(s) : \A i \in 0 .. k : up[i] <= up[k]
  <2> HIDE DEF s
  <2> QED BY <1>1, SumPrefixes
<1>3. up \in [0 .. Len(s) -> Nat] /\ up[0] = 0
  BY <1>2, Zenon DEF SumsTo
<1>4. \A k \in 1 .. Len(s) : Start(outs, k) = up[k - 1] /\ up[k - 1] \in Nat /\ up[k] = up[k - 1] + outs[k].value
                             /\ up[k] \in Nat
  <2> SUFFICES ASSUME NEW k \in 1 .. Len(s)
               PROVE  /\ Start(outs, k) = up[k - 1] /\ up[k - 1] \in Nat /\ up[k] = up[k - 1] + outs[k].value
                      /\ up[k] \in Nat
    OBVIOUS
  <2>1. k - 1 \in 0 .. Len(s) - 1 /\ k - 1 \in 0 .. Len(s) /\ (k - 1) + 1 = k
    BY <1>1
  <2>2. Start(outs, k) = up[k - 1]
    BY <1>2, <2>1 DEF Start
  <2> HIDE DEF s
  <2>3. up[k - 1] \in Nat /\ s[k] \in Nat /\ up[k] = up[k - 1] + s[k]
    BY <1>1, <1>2, <2>1, SumsAt
  <2> QED BY <1>1, <2>2, <2>3
<1> HIDE DEF s
<1>5. up[Len(s)] \in Nat
  BY <1>1, <1>3
<1>6. ASSUME NEW k \in 1 .. Len(s) PROVE up[k] <= up[Len(s)]
  <2>1. k \in 0 .. Len(s) /\ Len(s) \in 0 .. Len(s)
    BY <1>1
  <2> QED BY <1>2, <2>1
<1>7. ASSUME NEW k \in 1 .. Len(s), NEW m \in 1 .. Len(s), k < m PROVE up[k] <= up[m - 1]
  <2>1. m - 1 \in 0 .. Len(s) /\ k \in 0 .. m - 1
    BY <1>1, <1>7
  <2> QED BY <1>2, <2>1
<1>8. ASSUME NEW q \in Nat, q < up[Len(s)]
      PROVE  \E k \in 1 .. Len(s) : up[k - 1] <= q /\ q < up[k]
  BY <1>1, <1>2, <1>8, FallsIn
<1>9. AddUp(Values(outs)) = up[Len(s)]
  BY <1>2 DEF s
<1>10. \A k \in 1 .. Len(s) : Start(outs, k) \in Nat /\ Start(outs, k) + outs[k].value <= up[Len(s)]
  BY <1>4, <1>6
<1>11. ASSUME NEW k \in 1 .. Len(s), NEW m \in 1 .. Len(s), k < m
       PROVE  Start(outs, k) + outs[k].value <= Start(outs, m)
  <2>1. Start(outs, k) = up[k - 1] /\ up[k] = up[k - 1] + outs[k].value /\ Start(outs, m) = up[m - 1]
    BY <1>4
  <2> QED BY <1>7, <1>11, <2>1
<1>12. ASSUME NEW q \in Nat, q < up[Len(s)]
       PROVE  \E k \in 1 .. Len(s) : Start(outs, k) <= q /\ q < Start(outs, k) + outs[k].value
  <2>1. PICK k \in 1 .. Len(s) : up[k - 1] <= q /\ q < up[k]
    BY <1>8, <1>12
  <2>2. Start(outs, k) = up[k - 1] /\ up[k] = up[k - 1] + outs[k].value
    BY <1>4
  <2> QED BY <2>1, <2>2
<1> HIDE DEF Holder, OutType
<1> QED BY <1>1, <1>5, <1>9, <1>10, <1>11, <1>12

\* An inscription goes to the output its offset falls in.
LEMMA PlaceIs ==
  ASSUME NEW outs \in Outputs, NEW m, m.at \in Nat
  PROVE  /\ Place(m, outs) \in 0 .. Len(outs)
         /\ \A k \in 1 .. Len(outs) :
              Place(m, outs) = k <=> Start(outs, k) <= m.at /\ m.at < Start(outs, k) + outs[k].value
         /\ Place(m, outs) = 0 => m.at >= AddUp(Values(outs))
<1> DEFINE In(k) == Start(outs, k) <= m.at /\ m.at < Start(outs, k) + outs[k].value
           A == AssignToOutput(m.at, outs)
<1>1. Len(outs) \in Nat /\ \A k \in 1 .. Len(outs) : outs[k].value \in Nat
  BY OutputsSeq
<1>2. /\ AddUp(Values(outs)) \in Nat
      /\ \A k \in 1 .. Len(outs) : Start(outs, k) \in Nat
      /\ \A k, n \in 1 .. Len(outs) : k < n => Start(outs, k) + outs[k].value <= Start(outs, n)
  BY OutputsLaidOut
<1>3. m.at < AddUp(Values(outs)) => \E k \in 1 .. Len(outs) : In(k)
  BY OutputsLaidOut
<1>4. A = {k \in 1 .. Len(outs) : In(k)}
  BY DEF AssignToOutput
<1>5. Place(m, outs) = IF A = {} THEN 0 ELSE Min(A)
  BY DEF Place
<1>6. ASSUME NEW k \in 1 .. Len(outs), NEW n \in 1 .. Len(outs), In(k), In(n) PROVE k = n
  <2>1. k < n \/ n < k \/ k = n
    OBVIOUS
  <2>2. CASE k < n
    BY <1>1, <1>2, <1>6, <2>2
  <2>3. CASE n < k
    BY <1>1, <1>2, <1>6, <2>3
  <2> QED BY <2>1, <2>2, <2>3
<1> HIDE DEF In
<1>7. ASSUME NEW k \in 1 .. Len(outs), In(k) PROVE A # {} /\ Min(A) = k
  <2>1. A = {k}
    <3> HIDE DEF A
    <3> QED BY <1>4, <1>6, <1>7
  <2>2. Min({k}) = k
    <3>1. k <= k
      OBVIOUS
    <3> QED BY <3>1 DEF Min
  <2> QED BY <2>1, <2>2
<1>8. ASSUME A # {} PROVE \E k \in 1 .. Len(outs) : In(k) /\ Min(A) = k
  <2> HIDE DEF A
  <2>1. PICK k \in 1 .. Len(outs) : In(k)
    BY <1>4, <1>8
  <2> QED BY <1>7, <2>1
<1> HIDE DEF A
<1>9. Place(m, outs) \in 0 .. Len(outs)
  BY <1>1, <1>5, <1>8
<1>10. ASSUME NEW k \in 1 .. Len(outs) PROVE Place(m, outs) = k <=> In(k)
  <2>1. k # 0
    OBVIOUS
  <2> QED BY <1>5, <1>7, <1>8, <2>1
<1>11. Place(m, outs) = 0 => m.at >= AddUp(Values(outs))
  <2> SUFFICES ASSUME m.at < AddUp(Values(outs)) PROVE Place(m, outs) # 0
    BY <1>2
  <2>1. PICK k \in 1 .. Len(outs) : In(k)
    BY <1>3
  <2> QED BY <1>10, <2>1
<1> QED BY <1>9, <1>10, <1>11 DEF In

-----------------------------------------------------------------------------
(* What goes in.                                                            *)

\* Every coin has units of its own, by number.
LEMMA CoinsAre ==
  ASSUME ChainOK
  PROVE  \A o \in DOMAIN coins :
           /\ coins[o].units \in Seq(1 .. Total) /\ coins[o].to \in Holder
           /\ Value(o) = Len(coins[o].units) /\ Value(o) \in Nat
           /\ \A j \in 1 .. Value(o) : coins[o].units[j] \in 1 .. Total
<1>1. \A o \in DOMAIN coins : coins[o] \in CoinType
  BY DEF ChainOK
<1>2. SUFFICES ASSUME NEW o \in DOMAIN coins
               PROVE  /\ coins[o].units \in Seq(1 .. Total) /\ coins[o].to \in Holder
                      /\ Value(o) = Len(coins[o].units) /\ Value(o) \in Nat
                      /\ \A j \in 1 .. Value(o) : coins[o].units[j] \in 1 .. Total
  OBVIOUS
<1>3. coins[o].units \in Seq(1 .. Total) /\ coins[o].to \in Holder
  BY <1>1 DEF CoinType
<1> DEFINE u == coins[o].units
           S == 1 .. Total
<1>4. u \in Seq(S) /\ Value(o) = Len(u)
  BY <1>3 DEF Value
<1> HIDE DEF u, S
<1>5. Len(u) \in Nat /\ \A j \in 1 .. Len(u) : u[j] \in S
  BY <1>4
<1> QED BY <1>3, <1>4, <1>5 DEF u, S

\* The pool holds every unit once, and just those of the inputs.
LEMMA PoolOnce ==
  ASSUME ChainOK, NEW ins \in Seq(DOMAIN coins), Spends(ins)
  PROVE  /\ Units(ins) \in Seq(1 .. Total)
         /\ \A q, r \in 1 .. Len(Units(ins)) : Units(ins)[q] = Units(ins)[r] => q = r
         /\ \A o \in DOMAIN coins : \A j \in 1 .. Value(o), q \in 1 .. Len(Units(ins)) :
              Units(ins)[q] = coins[o].units[j] => o \in Range(ins)
         /\ \A o \in Range(ins) : \A j \in 1 .. Value(o) :
              \E q \in 1 .. Len(Units(ins)) : Units(ins)[q] = coins[o].units[j]
<1> DEFINE pool == Units(ins)
           off(k) == OffsetOfInput(ins, k)
<1>1. /\ pool \in Seq(1 .. Total)
      /\ \A k \in 1 .. Len(ins) :
           /\ off(k) \in Nat
           /\ \A j \in 1 .. Value(ins[k]) :
                off(k) + j \in 1 .. Len(pool) /\ pool[off(k) + j] = coins[ins[k]].units[j]
      /\ \A q \in 1 .. Len(pool) : \E k \in 1 .. Len(ins) : \E j \in 1 .. Value(ins[k]) : q = off(k) + j
  <2>1. \A o \in DOMAIN coins : coins[o].units \in Seq(1 .. Total)
    BY CoinsAre
  <2> QED BY <2>1, InputsLaidOut
<1>2. /\ Range(ins) = {ins[k] : k \in 1 .. Len(ins)} /\ Range(ins) \subseteq DOMAIN coins
      /\ \A k \in 1 .. Len(ins) : ins[k] \in DOMAIN coins
      /\ \A k, n \in 1 .. Len(ins) : ins[k] = ins[n] => k = n
  BY DEF Spends, Range
<1>3. \A o, p \in DOMAIN coins : \A j \in 1 .. Value(o), n \in 1 .. Value(p) :
        coins[o].units[j] = coins[p].units[n] => o = p /\ j = n
  BY DEF ChainOK, UnitsApart
<1> HIDE DEF pool, off
<1>4. ASSUME NEW q \in 1 .. Len(pool)
      PROVE  \E k \in 1 .. Len(ins) : \E j \in 1 .. Value(ins[k]) :
               q = off(k) + j /\ pool[q] = coins[ins[k]].units[j]
  <2>1. PICK k \in 1 .. Len(ins) : \E j \in 1 .. Value(ins[k]) : q = off(k) + j
    BY <1>1
  <2>2. PICK j \in 1 .. Value(ins[k]) : q = off(k) + j
    BY <2>1
  <2>3. pool[off(k) + j] = coins[ins[k]].units[j]
    BY <1>1, <2>2
  <2> QED BY <2>2, <2>3
<1>5. ASSUME NEW q \in 1 .. Len(pool), NEW r \in 1 .. Len(pool), pool[q] = pool[r] PROVE q = r
  <2>1. PICK k \in 1 .. Len(ins) :
          \E j \in 1 .. Value(ins[k]) : q = off(k) + j /\ pool[q] = coins[ins[k]].units[j]
    BY <1>4
  <2>2. PICK j \in 1 .. Value(ins[k]) : q = off(k) + j /\ pool[q] = coins[ins[k]].units[j]
    BY <2>1
  <2>3. PICK m \in 1 .. Len(ins) :
          \E n \in 1 .. Value(ins[m]) : r = off(m) + n /\ pool[r] = coins[ins[m]].units[n]
    BY <1>4
  <2>4. PICK n \in 1 .. Value(ins[m]) : r = off(m) + n /\ pool[r] = coins[ins[m]].units[n]
    BY <2>3
  <2>5. ins[k] = ins[m] /\ j = n
    BY <1>2, <1>3, <1>5, <2>2, <2>4
  <2>6. k = m
    BY <1>2, <2>5
  <2> QED BY <2>2, <2>4, <2>5, <2>6
<1>6. ASSUME NEW o \in DOMAIN coins, NEW j \in 1 .. Value(o), NEW q \in 1 .. Len(pool), pool[q] = coins[o].units[j]
      PROVE  o \in Range(ins)
  <2>1. PICK k \in 1 .. Len(ins) : \E n \in 1 .. Value(ins[k]) : pool[q] = coins[ins[k]].units[n]
    BY <1>4
  <2>2. PICK n \in 1 .. Value(ins[k]) : pool[q] = coins[ins[k]].units[n]
    BY <2>1
  <2>3. ins[k] = o
    <3>1. coins[ins[k]].units[n] = coins[o].units[j] /\ ins[k] \in DOMAIN coins
      BY <1>2, <1>6, <2>2
    <3> QED BY <1>3, <2>2, <3>1
  <2> QED BY <1>2, <2>3
<1>7. ASSUME NEW o \in Range(ins), NEW j \in 1 .. Value(o)
      PROVE  \E q \in 1 .. Len(pool) : pool[q] = coins[o].units[j]
  <2>1. PICK k \in 1 .. Len(ins) : ins[k] = o
    BY <1>2
  <2> QED BY <1>1, <2>1
<1> QED BY <1>1, <1>5, <1>6, <1>7 DEF pool

\* A transaction takes the coins it spends away and puts the pool on its outputs, in order.
LEMMA MoveIs ==
  ASSUME ChainOK, NEW ins \in Seq(DOMAIN coins), Spends(ins), NEW outs \in Outputs, Pays(ins, outs),
         MoveCoins(txs + 1, ins, outs)
  PROVE  /\ DOMAIN coins' = (DOMAIN coins \ Range(ins)) \cup {<<txs + 1, k>> : k \in 1 .. Len(outs)}
         /\ \A o \in DOMAIN coins \ Range(ins) : coins'[o] = coins[o]
         /\ \A o \in DOMAIN coins : o[1] # txs + 1
         /\ \A k \in 1 .. Len(outs) :
              /\ coins'[<<txs + 1, k>>] = [units |-> coins'[<<txs + 1, k>>].units, to |-> outs[k].to]
              /\ coins'[<<txs + 1, k>>].units \in Seq(1 .. Total)
              /\ Len(coins'[<<txs + 1, k>>].units) = outs[k].value
              /\ \A j \in 1 .. outs[k].value :
                   /\ Start(outs, k) + j \in 1 .. Len(Units(ins))
                   /\ coins'[<<txs + 1, k>>].units[j] = Units(ins)[Start(outs, k) + j]
         /\ AddUp(Values(outs)) <= Len(Units(ins))
<1> DEFINE t == txs + 1
           pool == Units(ins)
           made == {<<t, k>> : k \in 1 .. Len(outs)}
           slice(k) == SubSeq(pool, Start(outs, k) + 1, Start(outs, k) + outs[k].value)
<1>1. DOMAIN coins \subseteq (0 .. txs) \X (1 .. MaxOuts) /\ txs \in Nat
  BY InscriptionsAssumption DEF ChainOK
<1>2. \A o \in DOMAIN coins : o[1] # t /\ o \notin made
  BY <1>1
<1>3. /\ DOMAIN coins' = (DOMAIN coins \ Range(ins)) \cup made
      /\ \A o \in DOMAIN coins \ Range(ins) : coins'[o] = coins[o]
      /\ \A k \in 1 .. Len(outs) : coins'[<<t, k>>] = [units |-> slice(k), to |-> outs[k].to]
  <2>1. coins' = [o \in (DOMAIN coins \ Range(ins)) \cup made |->
                    IF o \in made THEN [units |-> slice(o[2]), to |-> outs[o[2]].to] ELSE coins[o]]
    BY DEF MoveCoins
  <2>2. \A k \in 1 .. Len(outs) : <<t, k>> \in made /\ <<t, k>>[2] = k
    OBVIOUS
  <2> HIDE DEF made, slice, t
  <2> QED BY <1>2, <2>1, <2>2
<1>4. pool \in Seq(1 .. Total) /\ Len(pool) = AddUp(Worths(ins))
  <2>1. \A o \in DOMAIN coins : coins[o].units \in Seq(1 .. Total)
    BY CoinsAre
  <2> QED BY <2>1, InputsLaidOut
<1>5. AddUp(Values(outs)) <= Len(pool)
  BY <1>4 DEF Pays, Worths
<1> HIDE DEF pool
<1>6. ASSUME NEW k \in 1 .. Len(outs)
      PROVE  /\ slice(k) \in Seq(1 .. Total) /\ Len(slice(k)) = outs[k].value
             /\ \A j \in 1 .. outs[k].value :
                  Start(outs, k) + j \in 1 .. Len(pool) /\ slice(k)[j] = pool[Start(outs, k) + j]
  <2> DEFINE a == Start(outs, k)
             v == outs[k].value
  <2>1. a \in Nat /\ v \in Nat /\ a + v <= AddUp(Values(outs)) /\ AddUp(Values(outs)) \in Nat
    BY OutputsLaidOut, OutputsSeq
  <2>2. Len(pool) \in Nat
    BY <1>4
  <2>3. a + v <= Len(pool)
    BY <1>5, <2>1, <2>2
  <2> HIDE DEF a, v
  <2>4. /\ SubSeq(pool, a + 1, a + v) \in Seq(1 .. Total) /\ Len(SubSeq(pool, a + 1, a + v)) = v
        /\ \A j \in 1 .. v : a + j \in 1 .. Len(pool) /\ SubSeq(pool, a + 1, a + v)[j] = pool[a + j]
    <3> DEFINE S == 1 .. Total
               m == a + 1
               n == a + v
    <3>1. \A j \in 1 .. v : a + j \in 1 .. Len(pool) /\ m + j - 1 = a + j
      BY <2>1, <2>2, <2>3
    <3>2. m \in Int /\ n \in Int /\ n - m + 1 = v /\ (m <= n <=> v # 0)
      BY <2>1
    <3>3. \A j \in m .. n : pool[j] \in S
      <4>1. \A j \in m .. n : j \in 1 .. Len(pool)
        BY <2>1, <2>2, <2>3
      <4> HIDE DEF m, n, S
      <4> QED BY <1>4, <4>1, ElementOfSeq DEF S
    <3> HIDE DEF m, n, S
    <3>4. /\ SubSeq(pool, m, n) \in Seq(S) /\ Len(SubSeq(pool, m, n)) = IF m <= n THEN n - m + 1 ELSE 0
          /\ \A j \in 1 .. n - m + 1 : SubSeq(pool, m, n)[j] = pool[m + j - 1]
      BY <3>2, <3>3, SubSeqProperties
    <3>5. Len(SubSeq(pool, m, n)) = v
      BY <2>1, <3>2, <3>4
    <3> QED BY <3>1, <3>2, <3>4, <3>5 DEF S, m, n
  <2> QED BY <2>4 DEF a, v
<1> HIDE DEF slice
<1>7. \A k \in 1 .. Len(outs) :
        /\ coins'[<<t, k>>].units = slice(k)
        /\ coins'[<<t, k>>] = [units |-> coins'[<<t, k>>].units, to |-> outs[k].to]
  <2> SUFFICES ASSUME NEW k \in 1 .. Len(outs)
               PROVE  /\ coins'[<<t, k>>].units = slice(k)
                      /\ coins'[<<t, k>>] = [units |-> coins'[<<t, k>>].units, to |-> outs[k].to]
    OBVIOUS
  <2>1. coins'[<<t, k>>] = [units |-> slice(k), to |-> outs[k].to]
    BY <1>3
  <2>2. coins'[<<t, k>>].units = slice(k)
    BY <2>1
  <2> QED BY <2>1, <2>2
<1> QED BY <1>2, <1>3, <1>5, <1>6, <1>7 DEF pool

\* An inscription is carried in at an offset exactly if its unit is there in the pool.
LEMMA CarriedIs ==
  ASSUME ChainOK, RecordsOK, IndexOK, NEW ins \in Seq(DOMAIN coins), Spends(ins)
  PROVE  /\ \A c \in Carried(ins) : c = [id |-> c.id, at |-> c.at] /\ c.id \in Ids /\ c.at \in Nat
         /\ \A i \in Ids, q \in Nat :
              [id |-> i, at |-> q] \in Carried(ins)
                <=> q + 1 \in 1 .. Len(Units(ins)) /\ Units(ins)[q + 1] = unit[i]
<1> DEFINE pool == Units(ins)
           off(k) == OffsetOfInput(ins, k)
           Row == [id : Ids, offset : Nat]
<1>1. /\ pool \in Seq(1 .. Total)
      /\ \A k \in 1 .. Len(ins) :
           /\ off(k) \in Nat
           /\ \A j \in 1 .. Value(ins[k]) :
                off(k) + j \in 1 .. Len(pool) /\ pool[off(k) + j] = coins[ins[k]].units[j]
      /\ \A q \in 1 .. Len(pool) : \E k \in 1 .. Len(ins) : \E j \in 1 .. Value(ins[k]) : q = off(k) + j
  <2>1. \A o \in DOMAIN coins : coins[o].units \in Seq(1 .. Total)
    BY CoinsAre
  <2> QED BY <2>1, InputsLaidOut
<1>2. \A k \in 1 .. Len(ins) : ins[k] \in DOMAIN coins /\ Value(ins[k]) \in Nat
  <2>1. \A k \in 1 .. Len(ins) : ins[k] \in DOMAIN coins
    OBVIOUS
  <2> QED BY <2>1, CoinsAre
<1>3. \A o : Here(o) \in Seq(Row)
  <2>1. <<>> \in Seq(Row)
    OBVIOUS
  <2>2. \A o \in DOMAIN locations : locations[o] \in Seq(Row)
    BY DEF IndexOK
  <2> HIDE DEF Row
  <2> QED BY <2>1, <2>2 DEF Here
<1>4. \A c : c \in Carried(ins) <=>
        \E k \in 1 .. Len(ins) : \E n \in 1 .. Len(Here(ins[k])) :
          c = [id |-> Here(ins[k])[n].id, at |-> off(k) + Here(ins[k])[n].offset]
  <2>1. \A o : Range(Here(o)) = {Here(o)[n] : n \in 1 .. Len(Here(o))}
    <3> HIDE DEF Row
    <3> QED BY <1>3 DEF Range
  <2> QED BY <2>1 DEF Carried
<1>5. \A o : \A n \in 1 .. Len(Here(o)) : Here(o)[n].id \in Ids /\ Here(o)[n].offset \in Nat
  <2> SUFFICES ASSUME NEW o, NEW n \in 1 .. Len(Here(o)) PROVE Here(o)[n].id \in Ids /\ Here(o)[n].offset \in Nat
    OBVIOUS
  <2>1. Here(o)[n] \in Row
    <3> HIDE DEF Row
    <3> QED BY <1>3, ElementOfSeq
  <2> QED BY <2>1
<1>6. \A o \in DOMAIN coins, i \in Ids, n \in Nat :
        Carries(o, i, n) <=> n < Value(o) /\ coins[o].units[n + 1] = unit[i]
  BY DEF IndexOK, Matches
<1> HIDE DEF pool, off, Row
<1>7. ASSUME NEW c \in Carried(ins) PROVE c = [id |-> c.id, at |-> c.at] /\ c.id \in Ids /\ c.at \in Nat
  <2>1. PICK k \in 1 .. Len(ins) : \E n \in 1 .. Len(Here(ins[k])) :
               c = [id |-> Here(ins[k])[n].id, at |-> off(k) + Here(ins[k])[n].offset]
    BY <1>4
  <2>2. PICK n \in 1 .. Len(Here(ins[k])) :
               c = [id |-> Here(ins[k])[n].id, at |-> off(k) + Here(ins[k])[n].offset]
    BY <2>1
  <2>3. off(k) \in Nat /\ Here(ins[k])[n].id \in Ids /\ Here(ins[k])[n].offset \in Nat
    BY <1>1, <1>5
  <2> QED BY <2>2, <2>3
<1>8. ASSUME NEW i \in Ids, NEW q \in Nat, [id |-> i, at |-> q] \in Carried(ins)
      PROVE  q + 1 \in 1 .. Len(pool) /\ pool[q + 1] = unit[i]
  <2>1. PICK k \in 1 .. Len(ins) : \E n \in 1 .. Len(Here(ins[k])) :
               [id |-> i, at |-> q] = [id |-> Here(ins[k])[n].id, at |-> off(k) + Here(ins[k])[n].offset]
    BY <1>4, <1>8
  <2>2. PICK n \in 1 .. Len(Here(ins[k])) :
               [id |-> i, at |-> q] = [id |-> Here(ins[k])[n].id, at |-> off(k) + Here(ins[k])[n].offset]
    BY <2>1
  <2> DEFINE x == Here(ins[k])[n].offset
  <2>3. i = Here(ins[k])[n].id /\ q = off(k) + x
    BY <2>2
  <2>4. x \in Nat /\ off(k) \in Nat /\ ins[k] \in DOMAIN coins /\ Value(ins[k]) \in Nat
    BY <1>1, <1>2, <1>5
  <2>5. Carries(ins[k], i, x)
    BY <2>3 DEF Carries
  <2> HIDE DEF x
  <2>6. x < Value(ins[k]) /\ coins[ins[k]].units[x + 1] = unit[i]
    BY <1>6, <2>4, <2>5
  <2>7. x + 1 \in 1 .. Value(ins[k]) /\ q + 1 = off(k) + (x + 1)
    BY <2>3, <2>4, <2>6
  <2>8. off(k) + (x + 1) \in 1 .. Len(pool) /\ pool[off(k) + (x + 1)] = coins[ins[k]].units[x + 1]
    BY <1>1, <2>7
  <2> QED BY <2>6, <2>7, <2>8
<1>9. ASSUME NEW i \in Ids, NEW q \in Nat, q + 1 \in 1 .. Len(pool), pool[q + 1] = unit[i]
      PROVE  [id |-> i, at |-> q] \in Carried(ins)
  <2>1. PICK k \in 1 .. Len(ins) : \E j \in 1 .. Value(ins[k]) : q + 1 = off(k) + j
    BY <1>1, <1>9
  <2>2. PICK j \in 1 .. Value(ins[k]) : q + 1 = off(k) + j
    BY <2>1
  <2>3. off(k) \in Nat /\ ins[k] \in DOMAIN coins /\ Value(ins[k]) \in Nat
    BY <1>1, <1>2
  <2>4. j - 1 \in Nat /\ j - 1 < Value(ins[k]) /\ (j - 1) + 1 = j /\ off(k) + (j - 1) = q
    BY <2>2, <2>3
  <2>5. coins[ins[k]].units[j] = unit[i]
    <3>1. pool[off(k) + j] = coins[ins[k]].units[j]
      BY <1>1, <2>2
    <3> QED BY <1>9, <2>2, <3>1
  <2>6. Carries(ins[k], i, j - 1)
    BY <1>6, <2>3, <2>4, <2>5
  <2>7. PICK n \in 1 .. Len(Here(ins[k])) : Here(ins[k])[n].id = i /\ Here(ins[k])[n].offset = j - 1
    BY <2>6 DEF Carries
  <2>8. [id |-> i, at |-> q] = [id |-> Here(ins[k])[n].id, at |-> off(k) + Here(ins[k])[n].offset]
    BY <2>4, <2>7
  <2> QED BY <1>4, <2>8
<1> QED BY <1>7, <1>8, <1>9 DEF pool

\* What is carried in is what had its unit in an input.
LEMMA InputIdsAre ==
  ASSUME ChainOK, RecordsOK, IndexOK, NEW ins \in Seq(DOMAIN coins), Spends(ins)
  PROVE  InputIds(ins) = {i \in Ids : unit[i] \in Range(Units(ins))}
<1> DEFINE pool == Units(ins)
<1>1. /\ \A c \in Carried(ins) : c = [id |-> c.id, at |-> c.at] /\ c.id \in Ids /\ c.at \in Nat
      /\ \A i \in Ids, q \in Nat :
           [id |-> i, at |-> q] \in Carried(ins) <=> q + 1 \in 1 .. Len(pool) /\ pool[q + 1] = unit[i]
  BY CarriedIs
<1>2. pool \in Seq(1 .. Total)
  BY PoolOnce
<1> HIDE DEF pool
<1>3. Range(pool) = {pool[n] : n \in 1 .. Len(pool)}
  <2>1. DOMAIN pool = 1 .. Len(pool)
    BY <1>2
  <2> QED BY <2>1 DEF Range
<1>4. ASSUME NEW i \in InputIds(ins) PROVE i \in Ids /\ unit[i] \in Range(pool)
  <2>1. PICK c \in Carried(ins) : c.id = i
    BY DEF InputIds
  <2>2. [id |-> i, at |-> c.at] \in Carried(ins) /\ i \in Ids /\ c.at \in Nat
    BY <1>1, <2>1
  <2>3. c.at + 1 \in 1 .. Len(pool) /\ pool[c.at + 1] = unit[i]
    BY <1>1, <2>2
  <2> QED BY <1>3, <2>2, <2>3
<1>5. ASSUME NEW i \in Ids, unit[i] \in Range(pool) PROVE i \in InputIds(ins)
  <2>1. PICK n \in 1 .. Len(pool) : pool[n] = unit[i]
    BY <1>3, <1>5
  <2>2. n - 1 \in Nat /\ (n - 1) + 1 = n
    OBVIOUS
  <2>3. [id |-> i, at |-> n - 1] \in Carried(ins)
    BY <1>1, <2>1, <2>2
  <2>4. [id |-> i, at |-> n - 1].id = i
    OBVIOUS
  <2> QED BY <2>3, <2>4 DEF InputIds
<1> QED BY <1>4, <1>5 DEF pool

\* What moves: each inscription once, at the place its unit is in the pool; the new one at the first
\* unit, if there is one.
Unit(t, ins, reveals, i) == IF reveals /\ i = t THEN Head(Append(Units(ins), 0)) ELSE unit[i]
Known(t, reveals) == IF reveals THEN Ids \cup {t} ELSE Ids

\* What moves, a reveal among it, is the inscriptions whose units are in the pool, each at its place.
LEMMA MovingIs ==
  ASSUME ChainOK, RecordsOK, IndexOK, NEW ins \in Seq(DOMAIN coins), Spends(ins), NEW reveals \in BOOLEAN,
         NEW t, t \notin Ids
  PROVE  /\ \A m \in Moving(t, ins, reveals) :
              m = [id |-> m.id, at |-> m.at] /\ m.id \in Known(t, reveals) /\ m.at \in Nat
         /\ \A m, n \in Moving(t, ins, reveals) : m.id = n.id => m = n
         /\ \A i \in Known(t, reveals), q \in Nat : q + 1 \in 1 .. Len(Units(ins)) =>
              ([id |-> i, at |-> q] \in Moving(t, ins, reveals) <=> Units(ins)[q + 1] = Unit(t, ins, reveals, i))
         /\ \A m \in Moving(t, ins, reveals) : m.at + 1 \notin 1 .. Len(Units(ins)) =>
              m.id = t /\ reveals /\ Len(Units(ins)) = 0 /\ Unit(t, ins, reveals, m.id) = 0
<1> DEFINE pool == Units(ins)
           moving == Moving(t, ins, reveals)
           first == Head(Append(pool, 0))
<1>1. /\ \A c \in Carried(ins) : c = [id |-> c.id, at |-> c.at] /\ c.id \in Ids /\ c.at \in Nat
      /\ \A i \in Ids, q \in Nat :
           [id |-> i, at |-> q] \in Carried(ins) <=> q + 1 \in 1 .. Len(pool) /\ pool[q + 1] = unit[i]
  BY CarriedIs
<1>2. pool \in Seq(1 .. Total) /\ \A q, r \in 1 .. Len(pool) : pool[q] = pool[r] => q = r
  BY PoolOnce
<1>3. \A m : m \in moving <=> m \in Carried(ins) \/ (reveals /\ m = [id |-> t, at |-> 0])
  BY DEF Moving
<1> HIDE DEF pool, moving
<1>4. Len(pool) \in Nat /\ (Len(pool) = 0 => first = 0) /\ (Len(pool) # 0 => 1 \in 1 .. Len(pool) /\ first = pool[1])
  <2>1. Len(pool) \in Nat /\ first = Append(pool, 0)[1]
    <3> DEFINE V == (1 .. Total) \cup {0}
               U == 1 .. Total
    <3>1. U \subseteq V /\ 0 \in V /\ pool \in Seq(U)
      BY <1>2
    <3> HIDE DEF V, U
    <3>2. pool \in Seq(V)
      BY <3>1, SeqMonotonic
    <3> QED BY <3>1, <3>2 DEF first
  <2>2. CASE Len(pool) = 0
    BY <1>2, <2>1, <2>2
  <2>3. CASE Len(pool) # 0
    <3> HIDE DEF first
    <3> QED BY <1>2, <2>1, <2>3
  <2> QED BY <2>1, <2>2, <2>3
<1> HIDE DEF first
<1>5. Unit(t, ins, reveals, t) = IF reveals THEN first ELSE unit[t]
  BY DEF Unit, first, pool
<1>6. \A i \in Ids : Unit(t, ins, reveals, i) = unit[i]
  BY DEF Unit
<1>7. ASSUME NEW m \in moving
      PROVE  m = [id |-> m.id, at |-> m.at] /\ m.id \in Known(t, reveals) /\ m.at \in Nat
  <2>1. CASE m \in Carried(ins)
    BY <1>1, <2>1 DEF Known
  <2>2. CASE reveals /\ m = [id |-> t, at |-> 0]
    <3>1. m.id = t /\ m.at = 0
      BY <2>2
    <3>2. m.id \in Known(t, reveals)
      BY <2>2, <3>1 DEF Known
    <3>3. m = [id |-> m.id, at |-> m.at] /\ m.at \in Nat
      BY <2>2, <3>1
    <3> QED BY <3>2, <3>3
  <2>3. m \in Carried(ins) \/ (reveals /\ m = [id |-> t, at |-> 0])
    BY <1>3
  <2> HIDE DEF Known
  <2> QED BY <2>1, <2>2, <2>3, Zenon
<1>8. ASSUME NEW m \in moving, NEW n \in moving, m.id = n.id PROVE m = n
  <2>1. CASE m \in Carried(ins) /\ n \in Carried(ins)
    <3>1. /\ m = [id |-> m.id, at |-> m.at] /\ m.id \in Ids /\ m.at \in Nat
          /\ n = [id |-> m.id, at |-> n.at] /\ n.at \in Nat
      <4>1. m = [id |-> m.id, at |-> m.at] /\ m.id \in Ids /\ m.at \in Nat
        BY <1>1, <2>1
      <4>2. n = [id |-> n.id, at |-> n.at] /\ n.at \in Nat
        BY <1>1, <2>1
      <4> QED BY <1>8, <4>1, <4>2, Zenon
    <3>2. [id |-> m.id, at |-> m.at] \in Carried(ins) /\ [id |-> m.id, at |-> n.at] \in Carried(ins)
      BY <2>1, <3>1
    <3>3. /\ m.at + 1 \in 1 .. Len(pool) /\ pool[m.at + 1] = unit[m.id]
          /\ n.at + 1 \in 1 .. Len(pool) /\ pool[n.at + 1] = unit[m.id]
      BY <1>1, <3>1, <3>2
    <3>4. m.at + 1 = n.at + 1
      BY <1>2, <3>3
    <3>5. m.at = n.at
      BY <3>1, <3>4
    <3> QED BY <3>1, <3>5
  <2>2. CASE m \notin Carried(ins) \/ n \notin Carried(ins)
    <3>1. \A c \in moving : c.id = t => c = [id |-> t, at |-> 0]
      BY <1>1, <1>3
    <3>2. m.id = t
      BY <1>3, <1>8, <2>2
    <3> QED BY <1>8, <3>1, <3>2
  <2> QED BY <2>1, <2>2
<1>9. ASSUME NEW i \in Known(t, reveals), NEW q \in Nat, q + 1 \in 1 .. Len(pool)
      PROVE  [id |-> i, at |-> q] \in moving <=> pool[q + 1] = Unit(t, ins, reveals, i)
  <2>1. CASE i \in Ids
    <3>1. [id |-> i, at |-> q] # [id |-> t, at |-> 0]
      BY <2>1
    <3>2. [id |-> i, at |-> q] \in moving <=> [id |-> i, at |-> q] \in Carried(ins)
      BY <1>3, <3>1, Zenon
    <3>3. [id |-> i, at |-> q] \in Carried(ins) <=> pool[q + 1] = unit[i]
      BY <1>1, <1>9, <2>1
    <3>4. Unit(t, ins, reveals, i) = unit[i]
      BY <1>6, <2>1
    <3> QED BY <3>2, <3>3, <3>4, Zenon
  <2>2. CASE i = t /\ reveals
    <3>1. [id |-> t, at |-> q] \notin Carried(ins)
      <4>1. [id |-> t, at |-> q].id = t
        OBVIOUS
      <4> QED BY <1>1, <4>1
    <3>2. [id |-> t, at |-> q] \in moving <=> q = 0
      BY <1>3, <2>2, <3>1
    <3>3. Len(pool) # 0 /\ Unit(t, ins, reveals, t) = pool[1] /\ 1 \in 1 .. Len(pool)
      BY <1>4, <1>5, <1>9, <2>2
    <3>4. pool[q + 1] = pool[1] <=> q = 0
      <4>1. pool[q + 1] = pool[1] => q + 1 = 1
        BY <1>2, <1>9, <3>3
      <4> QED BY <4>1
    <3> QED BY <2>2, <3>2, <3>3, <3>4
  <2> QED BY <2>1, <2>2 DEF Known
<1>10. ASSUME NEW m \in moving, m.at + 1 \notin 1 .. Len(pool)
       PROVE  m.id = t /\ reveals /\ Len(pool) = 0 /\ Unit(t, ins, reveals, m.id) = 0
  <2>1. m \notin Carried(ins)
    <3> SUFFICES ASSUME m \in Carried(ins) PROVE FALSE
      OBVIOUS
    <3>1. [id |-> m.id, at |-> m.at] \in Carried(ins) /\ m.id \in Ids /\ m.at \in Nat
      BY <1>1
    <3> QED BY <1>1, <1>10, <3>1
  <2>2. reveals /\ m.id = t /\ m.at = 0
    BY <1>3, <2>1
  <2>3. Len(pool) = 0
    BY <1>4, <1>10, <2>2
  <2> QED BY <1>4, <1>5, <2>2, <2>3
<1> QED BY <1>7, <1>8, <1>9, <1>10 DEF pool, moving

-----------------------------------------------------------------------------
(* Lists.                                                                   *)

\* A list without repetitions that is as long as the set it is of has all of it.
LEMMA AllThere ==
  ASSUME NEW S, IsFiniteSet(S), NEW s \in [1 .. Cardinality(S) -> S],
         \A k, n \in 1 .. Cardinality(S) : k < n => s[k] # s[n]
  PROVE  \A m \in S : \E k \in 1 .. Cardinality(S) : s[k] = m
<1> DEFINE c == Cardinality(S)
           D == 1 .. c
<1>1. c \in Nat
  BY FS_CardinalityType
<1>2. IsFiniteSet(D) /\ Cardinality(D) = c
  <2> HIDE DEF c
  <2> QED BY <1>1, FS_Interval
<1>3. \A k, n \in D : s[k] = s[n] => k = n
  <2> SUFFICES ASSUME NEW k \in D, NEW n \in D, s[k] = s[n] PROVE k = n
    OBVIOUS
  <2>1. ~(k < n) /\ ~(n < k)
    OBVIOUS
  <2> QED BY <1>1, <2>1
<1> HIDE DEF c, D
<1>4. s \in [D -> S]
  BY DEF D, c
<1>5. s \in Injection(D, S)
  BY <1>3, <1>4 DEF Injection, IsInjective
<1>6. s \in Surjection(D, S)
  BY <1>2, <1>5, FS_Injection DEF c
<1> QED BY <1>6 DEF Surjection, D, c

Precedes(m, n, records) ==
  m.at < n.at \/ (m.at = n.at /\ records[m.id].number <= records[n.id].number)
Lists(s, S, records) ==
  s \in [1 .. Cardinality(S) -> S]
  /\ \A k, n \in 1 .. Cardinality(S) : k < n => s[k] # s[n] /\ Precedes(s[k], s[n], records)

\* A finite set of what moves can be put in order.
LEMMA OrderExists ==
  ASSUME NEW ms, IsFiniteSet(ms), NEW records, \A m \in ms : m.at \in Nat /\ records[m.id].number \in Nat
  PROVE  \E s : Lists(s, ms, records)
<1> DEFINE T == {S \in SUBSET ms : \E s : Lists(s, S, records)}
<1>1. {} \in T
  <2>1. Cardinality({}) = 0
    BY FS_EmptySet
  <2>2. Lists([k \in 1 .. 0 |-> 0], {}, records)
    BY <2>1 DEF Lists
  <2> QED BY <2>2
<1>2. ASSUME NEW S \in SUBSET ms, S # {}, \A x \in S : S \ {x} \in T PROVE S \in T
  <2>1. PICK x \in S : \A m \in S : Precedes(x, m, records)
    <3> DEFINE A == {m.at : m \in S}
    <3>1. A \in SUBSET Nat /\ A # {}
      BY <1>2
    <3>2. PICK a \in A : \A b \in A : a <= b
      <4> HIDE DEF A
      <4> QED BY <3>1, Least
    <3> DEFINE F == {m \in S : m.at = a}
               N == {records[m.id].number : m \in F}
    <3>3. N \in SUBSET Nat /\ N # {}
      BY <3>2
    <3>4. PICK n \in N : \A b \in N : n <= b
      <4> HIDE DEF N
      <4> QED BY <3>3, Least
    <3>5. PICK x \in F : records[x.id].number = n
      BY <3>4
    <3>6. ASSUME NEW m \in S PROVE Precedes(x, m, records)
      <4>1. a <= m.at /\ x.at = a /\ m.at \in Nat /\ a \in Nat
        BY <3>1, <3>2, <3>5
      <4>2. m.at = a => n <= records[m.id].number
        BY <3>4
      <4> QED BY <3>5, <4>1, <4>2 DEF Precedes
    <3> QED BY <3>5, <3>6
  <2> DEFINE R == S \ {x}
             c == Cardinality(R)
  <2>2. Cardinality(S) = c + 1 /\ c \in Nat
    <3>1. Cardinality(S) \in Nat /\ Cardinality(S) > 0 /\ Cardinality(R) = Cardinality(S) - 1
      BY OneLess
    <3> QED BY <3>1
  <2>3. PICK s : Lists(s, R, records)
    BY <1>2
  <2>4. /\ s \in [1 .. c -> R]
        /\ \A k, n \in 1 .. c : k < n => s[k] # s[n] /\ Precedes(s[k], s[n], records)
    BY <2>3 DEF Lists
  <2> DEFINE u == [k \in 1 .. c + 1 |-> IF k = 1 THEN x ELSE s[k - 1]]
  <2>5. u[1] = x /\ \A k \in 2 .. c + 1 : k - 1 \in 1 .. c /\ u[k] = s[k - 1] /\ u[k] \in R
    <3> HIDE DEF R, c
    <3> QED BY <2>2, <2>4
  <2>6. u \in [1 .. c + 1 -> S]
    <3>1. ASSUME NEW k \in 1 .. c + 1 PROVE u[k] \in S
      <4>1. CASE k = 1
        <5> HIDE DEF u
        <5> QED BY <2>5, <4>1
      <4>2. CASE k # 1
        <5>1. k \in 2 .. c + 1
          BY <2>2, <4>2
        <5> HIDE DEF u, c
        <5> QED BY <2>5, <5>1
      <4> QED BY <4>1, <4>2
    <3> HIDE DEF R, c
    <3> QED BY <3>1
  <2> HIDE DEF u, c
  <2>7. ASSUME NEW k \in 1 .. c + 1, NEW n \in 1 .. c + 1, k < n
        PROVE  u[k] # u[n] /\ Precedes(u[k], u[n], records)
    <3>1. n \in 2 .. c + 1
      BY <2>2, <2>7
    <3>2. CASE k = 1
      BY <2>1, <2>5, <3>1, <3>2
    <3>3. CASE k # 1
      <4>1. k \in 2 .. c + 1 /\ k - 1 \in 1 .. c /\ n - 1 \in 1 .. c /\ k - 1 < n - 1
        BY <2>2, <2>7, <3>1, <3>3
      <4>2. u[k] = s[k - 1] /\ u[n] = s[n - 1]
        BY <2>5, <3>1, <4>1
      <4> QED BY <2>4, <4>1, <4>2
    <3> QED BY <3>2, <3>3
  <2>8. Lists(u, S, records)
    BY <2>2, <2>6, <2>7 DEF Lists
  <2> QED BY <2>8
<1>3. ms \in T
  <2> HIDE DEF T
  <2> QED BY <1>1, <1>2, SmallerSet
<1> QED BY <1>3

\* In order: all of them, each once, by their offsets.
LEMMA InOrderIs ==
  ASSUME NEW ms, IsFiniteSet(ms), NEW records, \A m \in ms : m.at \in Nat /\ records[m.id].number \in Nat
  PROVE  /\ InOrder(ms, records) \in [1 .. Cardinality(ms) -> ms] /\ Cardinality(ms) \in Nat
         /\ Len(InOrder(ms, records)) = Cardinality(ms)
         /\ \A m \in ms : \E k \in 1 .. Cardinality(ms) : InOrder(ms, records)[k] = m
         /\ \A k, n \in 1 .. Cardinality(ms) :
              k < n => /\ InOrder(ms, records)[k] # InOrder(ms, records)[n]
                       /\ InOrder(ms, records)[k].at <= InOrder(ms, records)[n].at
<1> DEFINE c == Cardinality(ms)
           o == InOrder(ms, records)
<1>1. c \in Nat
  BY FS_CardinalityType
<1>2. PICK s : Lists(s, ms, records)
  BY OrderExists
<1>3. o \in [1 .. c -> ms] /\ \A k, n \in DOMAIN o : k < n => o[k] # o[n] /\ Precedes(o[k], o[n], records)
  <2>1. s \in [1 .. c -> ms] /\ \A k, n \in DOMAIN s : k < n => s[k] # s[n] /\ Precedes(s[k], s[n], records)
    BY <1>2 DEF Lists
  <2> DEFINE F == [1 .. c -> ms]
             Good(r) == \A k, n \in DOMAIN r : k < n => r[k] # r[n] /\ Precedes(r[k], r[n], records)
  <2>2. o = CHOOSE r \in F : Good(r)
    BY DEF InOrder, Precedes
  <2>3. s \in F /\ Good(s)
    BY <2>1
  <2>4. o \in F /\ Good(o)
    <3> HIDE DEF o, c, F, Good
    <3> QED BY <2>2, <2>3
  <2> QED BY <2>4
<1> HIDE DEF o, c
<1>4. DOMAIN o = 1 .. c /\ Len(o) = c
  BY <1>1, <1>3
<1>5. \A k, n \in 1 .. c : k < n => o[k] # o[n] /\ o[k].at <= o[n].at
  <2> SUFFICES ASSUME NEW k \in 1 .. c, NEW n \in 1 .. c, k < n PROVE o[k] # o[n] /\ o[k].at <= o[n].at
    OBVIOUS
  <2>1. o[k] # o[n] /\ Precedes(o[k], o[n], records)
    BY <1>3, <1>4
  <2>2. o[k] \in ms /\ o[n] \in ms
    BY <1>3
  <2>3. o[k].at \in Nat /\ o[n].at \in Nat
    BY <2>2
  <2> QED BY <2>1, <2>3 DEF Precedes
<1>6. \A m \in ms : \E k \in 1 .. c : o[k] = m
  BY <1>3, <1>4, AllThere DEF c
<1> QED BY <1>1, <1>3, <1>4, <1>5, <1>6 DEF o, c

-----------------------------------------------------------------------------
(* A reveal.                                                                *)

\* What is in a list.
LEMMA InList ==
  ASSUME NEW S, NEW s \in Seq(S)
  PROVE  Len(s) \in Nat /\ DOMAIN s = 1 .. Len(s) /\ Range(s) = {s[k] : k \in 1 .. Len(s)} /\ \A k \in 1 .. Len(s) : s[k] \in S
<1>1. Len(s) \in Nat /\ DOMAIN s = 1 .. Len(s) /\ \A k \in 1 .. Len(s) : s[k] \in S
  OBVIOUS
<1> QED BY <1>1 DEF Range

\* Two lists, one after the other, have what each of them has.
LEMMA InBoth ==
  ASSUME NEW S, NEW c \in Seq(S), NEW d \in Seq(S)
  PROVE  c \o d \in Seq(S) /\ Range(c \o d) = Range(c) \cup Range(d)
<1> DEFINE e == c \o d
<1>1. e \in Seq(S) /\ Len(e) = Len(c) + Len(d) /\ Len(c) \in Nat /\ Len(d) \in Nat
  OBVIOUS
<1>2. \A i \in 1 .. Len(c) + Len(d) : e[i] = IF i <= Len(c) THEN c[i] ELSE d[i - Len(c)]
  BY ConcatProperties
<1> HIDE DEF e
<1>3. /\ Range(c) = {c[k] : k \in 1 .. Len(c)} /\ Range(d) = {d[k] : k \in 1 .. Len(d)}
      /\ Range(e) = {e[k] : k \in 1 .. Len(e)}
  BY <1>1, InList
<1>4. ASSUME NEW k \in 1 .. Len(c) PROVE c[k] \in Range(e)
  <2>1. k \in 1 .. Len(e) /\ e[k] = c[k]
    BY <1>1, <1>2
  <2> QED BY <1>3, <2>1
<1>5. ASSUME NEW k \in 1 .. Len(d) PROVE d[k] \in Range(e)
  <2>1. Len(c) + k \in 1 .. Len(e) /\ e[Len(c) + k] = d[k]
    BY <1>1, <1>2
  <2> QED BY <1>3, <2>1
<1>6. ASSUME NEW k \in 1 .. Len(e) PROVE e[k] \in Range(c) \cup Range(d)
  <2>1. CASE k <= Len(c)
    <3>1. k \in 1 .. Len(c) /\ e[k] = c[k]
      BY <1>1, <1>2, <2>1
    <3> QED BY <1>3, <3>1
  <2>2. CASE ~(k <= Len(c))
    <3>1. k - Len(c) \in 1 .. Len(d) /\ e[k] = d[k - Len(c)]
      BY <1>1, <1>2, <2>2
    <3> QED BY <1>3, <3>1
  <2> QED BY <2>1, <2>2
<1> QED BY <1>1, <1>3, <1>4, <1>5, <1>6 DEF e

\* The first of some places of a list is one of them.
LEMMA FirstOfIs ==
  ASSUME NEW S, NEW claims \in Seq(S), NEW V \in SUBSET (1 .. Len(claims)), V # {}
  PROVE  Min(V) \in V /\ FirstOf(claims, V) \in S
<1>1. PICK k \in V : \A m \in V : k <= m
  <2>1. V \in SUBSET Nat
    OBVIOUS
  <2> QED BY <2>1, Least
<1>2. Min(V) \in V
  BY <1>1 DEF Min
<1>3. claims[Min(V)] \in S
  BY <1>2, InList
<1> QED BY <1>2, <1>3 DEF FirstOf

\* The records of inscriptions after a reveal: one more, and it is listed as a child where it counts.
Revealed(t, ins, reveals, claims) ==
  LET records == WithReveal(t, ins, reveals, claims)
      counts(p) == reveals /\ \E k \in Verified(ins, claims) : claims[k] = p IN
    /\ t \notin Ids /\ t \in 1 .. MaxTxs
    /\ records \in [Known(t, reveals) -> RecordType]
    /\ \A i \in Ids :
         /\ records[i].parents = inscriptions[i].parents /\ records[i].parent = inscriptions[i].parent
         /\ records[i].location = inscriptions[i].location /\ records[i].owner = inscriptions[i].owner
         /\ Range(records[i].children) = Range(inscriptions[i].children) \cup (IF counts(i) THEN {t} ELSE {})
    /\ reveals => /\ records[t].parents = claims /\ records[t].children = <<>>
                  /\ records[t].parent = FirstOf(claims, Verified(ins, claims))

\* A reveal makes its record and gives its parents a child.
LEMMA RevealIs ==
  ASSUME ChainOK, RecordsOK, IndexOK, txs < MaxTxs, NEW ins \in Seq(DOMAIN coins), Spends(ins),
         NEW claims \in Seq(1 .. MaxTxs), NEW reveals \in BOOLEAN, NEW t, t = txs + 1
  PROVE  Revealed(t, ins, reveals, claims)
<1> DEFINE records == WithReveal(t, ins, reveals, claims)
           counts(p) == reveals /\ \E k \in Verified(ins, claims) : claims[k] = p
           S == 1 .. MaxTxs
<1>1. txs \in Nat /\ MaxTxs \in Nat /\ t \in S /\ Ids \subseteq 1 .. txs
  BY InscriptionsAssumption DEF ChainOK, RecordsOK
<1>2. t \notin Ids /\ Ids \subseteq S
  BY <1>1
<1>3. Cardinality(Ids) \in 0 .. MaxTxs - 1
  <2>1. IsFiniteSet(1 .. txs) /\ Cardinality(1 .. txs) = txs
    BY <1>1, FS_Interval
  <2>2. IsFiniteSet(Ids) /\ Cardinality(Ids) <= txs
    BY <1>1, <2>1, FS_Subset
  <2>3. Cardinality(Ids) \in Nat
    BY <2>2, FS_CardinalityType
  <2> QED BY <1>1, <2>2, <2>3
<1>4. Verified(ins, claims) = {k \in 1 .. Len(claims) : claims[k] \in InputIds(ins)}
  BY DEF Verified, Among
<1>5. FirstOf(claims, Verified(ins, claims)) \in 0 .. MaxTxs
  <2>1. CASE Verified(ins, claims) = {}
    BY <1>1, <2>1 DEF FirstOf
  <2>2. CASE Verified(ins, claims) # {}
    <3>1. FirstOf(claims, Verified(ins, claims)) \in S
      <4> DEFINE V == Verified(ins, claims)
      <4>1. V \in SUBSET (1 .. Len(claims))
        BY <1>4
      <4> HIDE DEF V
      <4> QED BY <2>2, <4>1, FirstOfIs DEF V
    <3> QED BY <1>1, <3>1
  <2> QED BY <2>1, <2>2
<1>6. Record(ins, claims) \in RecordType
  <2>1. claims \in Seq(S) /\ <<>> \in Seq(S)
    OBVIOUS
  <2>2. Burned \in TxOut \cup {Burned} /\ NoAddress \in Holder
    BY DEF Holder
  <2> HIDE DEF S
  <2> QED BY <1>3, <1>5, <2>1, <2>2 DEF Record, RecordType, S
<1>7. \A i \in Ids : inscriptions[i] \in RecordType
  BY DEF RecordsOK
<1> DEFINE more(i) == [k \in 1 .. Times(i, ins, claims) |-> t]
           with(i) == [inscriptions[i] EXCEPT !.children = @ \o more(i)]
<1>8. ASSUME NEW i
      PROVE  /\ Times(i, ins, claims) \in Nat
             /\ Times(i, ins, claims) # 0 <=> \E k \in Verified(ins, claims) : claims[k] = i
  <2> DEFINE Q == {k \in Verified(ins, claims) : claims[k] = i}
  <2>1. IsFiniteSet(Q)
    <3>1. Len(claims) \in Nat /\ Q \subseteq 1 .. Len(claims)
      BY <1>4
    <3>2. IsFiniteSet(1 .. Len(claims))
      BY <3>1, FS_Interval
    <3> HIDE DEF Q
    <3> QED BY <3>1, <3>2, FS_Subset
  <2>2. Cardinality(Q) \in Nat /\ (Cardinality(Q) = 0 <=> Q = {})
    BY <2>1, FS_CardinalityType, FS_EmptySet
  <2> QED BY <2>2 DEF Times
<1>9. ASSUME NEW i \in Ids
      PROVE  /\ with(i) \in RecordType
             /\ with(i).parents = inscriptions[i].parents /\ with(i).parent = inscriptions[i].parent
             /\ with(i).location = inscriptions[i].location /\ with(i).owner = inscriptions[i].owner
             /\ Range(with(i).children) = Range(inscriptions[i].children)
                  \cup (IF \E k \in Verified(ins, claims) : claims[k] = i THEN {t} ELSE {})
  <2> DEFINE c == inscriptions[i].children
             n == Times(i, ins, claims)
             d == more(i)
  <2>1. inscriptions[i] \in RecordType /\ c \in Seq(S) /\ n \in Nat
    BY <1>7, <1>8 DEF RecordType
  <2> HIDE DEF n
  <2>2. d \in Seq(S) /\ Len(d) = n /\ \A k \in 1 .. n : d[k] = t
    BY <1>1, <2>1 DEF n
  <2> HIDE DEF c, d, S
  <2>3. c \o d \in Seq(S) /\ Range(c \o d) = Range(c) \cup Range(d)
    BY <2>1, <2>2, InBoth
  <2>4. Range(d) = IF n # 0 THEN {t} ELSE {}
    <3>1. Range(d) = {d[k] : k \in 1 .. n}
      BY <2>2, InList
    <3>2. n # 0 => 1 \in 1 .. n
      BY <2>1
    <3>3. n = 0 => \A k \in 1 .. n : FALSE
      OBVIOUS
    <3> QED BY <2>2, <3>1, <3>2, <3>3
  <2>5. Range(c \o d) = Range(c) \cup (IF n # 0 THEN {t} ELSE {})
    BY <2>3, <2>4
  <2>6. with(i) = [inscriptions[i] EXCEPT !.children = c \o d]
    BY DEF c, d
  <2> HIDE DEF with
  <2>7. /\ with(i) \in RecordType /\ with(i).children = c \o d
        /\ with(i).parents = inscriptions[i].parents /\ with(i).parent = inscriptions[i].parent
        /\ with(i).location = inscriptions[i].location /\ with(i).owner = inscriptions[i].owner
    BY <2>1, <2>3, <2>6 DEF RecordType, S
  <2>8. n # 0 <=> \E k \in Verified(ins, claims) : claims[k] = i
    BY <1>8 DEF n
  <2> QED BY <2>5, <2>7, <2>8 DEF c
<1> HIDE DEF with
<1>10. CASE ~reveals
  <2>1. records = inscriptions /\ Known(t, reveals) = Ids
    BY <1>10 DEF WithReveal, Known
  <2>2. inscriptions \in [Ids -> RecordType]
    BY DEF RecordsOK
  <2> HIDE DEF records
  <2> QED BY <1>1, <1>2, <1>10, <2>1, <2>2 DEF records, Revealed
<1>11. CASE reveals
  <2>1. Known(t, reveals) = Ids \cup {t}
    BY <1>11 DEF Known
  <2>2. records = [i \in Ids \cup {t} |-> IF i = t THEN Record(ins, claims) ELSE with(i)]
    BY <1>11 DEF WithReveal, with
  <2> HIDE DEF records
  <2>3. records[t] = Record(ins, claims) /\ \A i \in Ids : records[i] = with(i)
    BY <1>2, <2>2
  <2>4. records \in [Known(t, reveals) -> RecordType]
    BY <1>6, <1>9, <2>1, <2>2
  <2>5. /\ records[t].parents = claims /\ records[t].children = <<>>
        /\ records[t].parent = FirstOf(claims, Verified(ins, claims))
    BY <2>3 DEF Record
  <2>6. \A i \in Ids :
          /\ records[i].parents = inscriptions[i].parents /\ records[i].parent = inscriptions[i].parent
          /\ records[i].location = inscriptions[i].location /\ records[i].owner = inscriptions[i].owner
          /\ Range(records[i].children)
               = Range(inscriptions[i].children) \cup (IF counts(i) THEN {t} ELSE {})
    BY <1>9, <1>11, <2>3
  <2> QED BY <1>1, <1>2, <2>4, <2>5, <2>6 DEF records, Revealed
<1> QED BY <1>10, <1>11

-----------------------------------------------------------------------------
(* Where they go.                                                           *)

\* What goes on output k.
Lands(t, ins, outs, reveals, k) == {m \in Moving(t, ins, reveals) : Place(m, outs) = k}

\* There is an end to what moves.
LEMMA MovingFinite ==
  ASSUME NEW K, IsFiniteSet(K), NEW M, \A m \in M : m.id \in K, \A m, n \in M : m.id = n.id => m = n
  PROVE  IsFiniteSet(M)
<1> DEFINE f == [m \in M |-> m.id]
<1>1. f \in Injection(M, K)
  BY DEF Injection, IsInjective
<1> QED BY <1>1, FS_Injection

\* Records and locations after a transaction.
Assigned(t, ins, outs, reveals, records) ==
  LET K == Known(t, reveals)
      moving == Moving(t, ins, reveals) IN
    /\ DOMAIN inscriptions' = K
    /\ \A i \in K : (\A m \in moving : m.id # i) => inscriptions'[i] = records[i]
    /\ \A m \in moving :
         inscriptions'[m.id] =
           [records[m.id] EXCEPT !.location = IF Place(m, outs) = 0 THEN Burned ELSE <<t, Place(m, outs)>>,
                                 !.owner = IF Place(m, outs) = 0 THEN NoAddress
                                           ELSE outs[Place(m, outs)].to]
    /\ DOMAIN locations' \subseteq (DOMAIN locations \ Range(ins)) \cup {<<t, k>> : k \in 1 .. Len(outs)}
    /\ \A o \in DOMAIN coins \ Range(ins) : Here(o)' = Here(o)
    /\ \A k \in 1 .. Len(outs) :
         LET put == InOrder(Lands(t, ins, outs, reveals, k), records) IN
           Here(<<t, k>>)' = [n \in 1 .. Len(put) |->
                                [id |-> put[n].id, offset |-> put[n].at - Start(outs, k)]]

\* A transaction assigns every inscription that moves.
LEMMA AssignIs ==
  ASSUME ChainOK, RecordsOK, IndexOK, NEW ins \in Seq(DOMAIN coins), Spends(ins), NEW outs \in Outputs,
         NEW reveals \in BOOLEAN, NEW t, t = txs + 1, t \notin Ids, NEW records \in [Known(t, reveals) -> RecordType],
         Assign(t, ins, outs, reveals, records)
  PROVE  Assigned(t, ins, outs, reveals, records)
<1> DEFINE K == Known(t, reveals)
           moving == Moving(t, ins, reveals)
           at(i) == CHOOSE m \in moving : m.id = i
           put == [k \in 1 .. Len(outs) |-> InOrder(Lands(t, ins, outs, reveals, k), records)]
           filled == {k \in 1 .. Len(outs) : put[k] # <<>>}
           made == {<<t, k>> : k \in filled}
           row(k) == [n \in 1 .. Len(put[k]) |-> [id |-> put[k][n].id, offset |-> put[k][n].at - Start(outs, k)]]
           moved(i) == LET k == Place(at(i), outs) IN
                         [records[i] EXCEPT !.location = IF k = 0 THEN Burned ELSE <<t, k>>,
                                            !.owner = IF k = 0 THEN NoAddress ELSE outs[k].to]
<1>1. inscriptions' = [i \in DOMAIN records |-> IF ~\E m \in moving : m.id = i THEN records[i] ELSE moved(i)]
  BY DEF Assign
<1>2. locations' = [o \in (DOMAIN locations \ Range(ins)) \cup made |->
                      IF o[1] = t THEN row(o[2]) ELSE locations[o]]
  BY DEF Assign, Lands
<1>3. /\ \A m \in moving : m.id \in K
      /\ \A m, n \in moving : m.id = n.id => m = n
  BY MovingIs
<1>4. \A m \in moving : at(m.id) = m
  <2> HIDE DEF moving
  <2> QED BY <1>3
<1>5. \A o \in DOMAIN coins : o[1] # t
  <2>1. DOMAIN coins \subseteq (0 .. txs) \X (1 .. MaxOuts) /\ txs \in Nat
    BY InscriptionsAssumption DEF ChainOK
  <2> QED BY <2>1
<1>6. DOMAIN locations \subseteq DOMAIN coins
  BY DEF IndexOK
<1> HIDE DEF moving, at, put, K
<1>7. DOMAIN inscriptions' = K /\ \A i \in K : (\A m \in moving : m.id # i) => inscriptions'[i] = records[i]
  <2> HIDE DEF moved
  <2> QED BY <1>1 DEF K
<1>8. \A m \in moving : inscriptions'[m.id] = moved(m.id)
  <2> HIDE DEF moved
  <2> QED BY <1>1, <1>3 DEF K
<1>9. DOMAIN locations' \subseteq (DOMAIN locations \ Range(ins)) \cup {<<t, k>> : k \in 1 .. Len(outs)}
  BY <1>2
<1>10. ASSUME NEW o \in DOMAIN coins \ Range(ins) PROVE Here(o)' = Here(o)
  <2>1. o \notin made
    BY <1>5
  <2>2. o \in DOMAIN locations' <=> o \in DOMAIN locations
    <3> HIDE DEF made, row
    <3> QED BY <1>2, <2>1
  <2>3. o \in DOMAIN locations => locations'[o] = locations[o]
    <3> HIDE DEF made, row
    <3> QED BY <1>2, <1>5
  <2> QED BY <2>2, <2>3 DEF Here
<1>11. ASSUME NEW k \in 1 .. Len(outs) PROVE Here(<<t, k>>)' = row(k)
  <2>1. <<t, k>> \notin DOMAIN locations
    BY <1>5, <1>6
  <2>2. CASE k \in filled
    <3>1. <<t, k>> \in DOMAIN locations' /\ locations'[<<t, k>>] = row(k)
      <4>1. <<t, k>> \in made /\ <<t, k>>[1] = t /\ <<t, k>>[2] = k
        BY <2>2
      <4> HIDE DEF made, row
      <4> QED BY <1>2, <4>1
    <3> QED BY <3>1 DEF Here
  <2>3. CASE k \notin filled
    <3>1. <<t, k>> \notin DOMAIN locations'
      <4>1. <<t, k>> \notin made
        BY <2>3
      <4> HIDE DEF made, row
      <4> QED BY <1>2, <2>1, <4>1
    <3>2. put[k] = <<>>
      BY <2>3
    <3>3. row(k) = <<>>
      BY <3>2
    <3> QED BY <3>1, <3>3 DEF Here
  <2> QED BY <2>2, <2>3
<1>12. \A k \in 1 .. Len(outs) : put[k] = InOrder(Lands(t, ins, outs, reveals, k), records)
  BY DEF put
<1>13. \A m \in moving : inscriptions'[m.id] =
         [records[m.id] EXCEPT !.location = IF Place(m, outs) = 0 THEN Burned ELSE <<t, Place(m, outs)>>,
                               !.owner = IF Place(m, outs) = 0 THEN NoAddress ELSE outs[Place(m, outs)].to]
  BY <1>4, <1>8
<1>14. ASSUME NEW k \in 1 .. Len(outs)
       PROVE  LET list == InOrder(Lands(t, ins, outs, reveals, k), records) IN
                Here(<<t, k>>)' = [n \in 1 .. Len(list) |->
                                     [id |-> list[n].id, offset |-> list[n].at - Start(outs, k)]]
  <2>1. put[k] = InOrder(Lands(t, ins, outs, reveals, k), records) /\ Here(<<t, k>>)' = row(k)
    BY <1>11, <1>12
  <2> QED BY <2>1
<1> HIDE DEF row
<1>15. LET known == Known(t, reveals)
             movers == Moving(t, ins, reveals)
         IN  /\ DOMAIN inscriptions' = known
             /\ \A i \in known : (\A m \in movers : m.id # i) => inscriptions'[i] = records[i]
             /\ \A m \in movers :
                  inscriptions'[m.id] =
                    [records[m.id] EXCEPT !.location = IF Place(m, outs) = 0 THEN Burned ELSE <<t, Place(m, outs)>>,
                                          !.owner = IF Place(m, outs) = 0 THEN NoAddress
                                                    ELSE outs[Place(m, outs)].to]
             /\ DOMAIN locations' \subseteq (DOMAIN locations \ Range(ins)) \cup {<<t, k>> : k \in 1 .. Len(outs)}
             /\ \A o \in DOMAIN coins \ Range(ins) : Here(o)' = Here(o)
             /\ \A k \in 1 .. Len(outs) :
                  LET list == InOrder(Lands(t, ins, outs, reveals, k), records) IN
                    Here(<<t, k>>)' = [n \in 1 .. Len(list) |->
                                         [id |-> list[n].id, offset |-> list[n].at - Start(outs, k)]]
  BY <1>7, <1>9, <1>10, <1>13, <1>14 DEF moving, K
<1> QED BY <1>15, Zenon DEF Assigned

\* A list of what lies between two places.
Between(put, c, K, M, a, v) ==
  /\ \A n \in 1 .. c : put[n] \in M /\ a <= put[n].at /\ put[n].at < a + v
  /\ \A m \in M : m = [id |-> m.id, at |-> m.at] /\ m.id \in K /\ m.at \in Nat
  /\ \A m \in M : a <= m.at /\ m.at < a + v => \E n \in 1 .. c : put[n] = m
  /\ \A m, n \in M : m.id = n.id => m = n
  /\ \A j, n \in 1 .. c : j < n => put[j] # put[n] /\ put[j].at <= put[n].at
\* The same with its places counted from the first.
Counted(row, K, M, a, v) ==
  /\ row \in Seq([id : K, offset : Nat])
  /\ \A i \in K, n \in Nat :
       (\E j \in 1 .. Len(row) : row[j].id = i /\ row[j].offset = n)
         <=> n < v /\ [id |-> i, at |-> a + n] \in M
  /\ \A j, n \in 1 .. Len(row) : j < n => row[j].id # row[n].id /\ row[j].offset <= row[n].offset

\* The list, counted so.
FromFirst(put, c, a) == [n \in 1 .. c |-> [id |-> put[n].id, offset |-> put[n].at - a]]

\* Counting the places from the first changes nothing else.
LEMMA RowOf ==
  ASSUME NEW K, NEW M, NEW c \in Nat, NEW a \in Nat, NEW v \in Nat, NEW put, Between(put, c, K, M, a, v),
         NEW row, row = FromFirst(put, c, a)
  PROVE  Counted(row, K, M, a, v)
<1> USE DEF FromFirst
<1>0. /\ \A n \in 1 .. c : put[n] \in M /\ a <= put[n].at /\ put[n].at < a + v
      /\ \A m \in M : m = [id |-> m.id, at |-> m.at] /\ m.id \in K /\ m.at \in Nat
      /\ \A m \in M : a <= m.at /\ m.at < a + v => \E n \in 1 .. c : put[n] = m
      /\ \A m, n \in M : m.id = n.id => m = n
      /\ \A j, n \in 1 .. c : j < n => put[j] # put[n] /\ put[j].at <= put[n].at
  BY Zenon DEF Between
<1>1. \A n \in 1 .. c : put[n] \in M
  BY <1>0
<1>2. ASSUME NEW n \in 1 .. c
      PROVE  /\ put[n] = [id |-> put[n].id, at |-> put[n].at] /\ put[n].id \in K /\ put[n].at \in Nat
             /\ a <= put[n].at /\ put[n].at < a + v
             /\ row[n] = [id |-> put[n].id, offset |-> put[n].at - a]
  <2>1. put[n] \in M
    BY <1>1
  <2>2. put[n] = [id |-> put[n].id, at |-> put[n].at] /\ put[n].id \in K /\ put[n].at \in Nat
    BY <1>0, <2>1
  <2>3. a <= put[n].at /\ put[n].at < a + v
    BY <1>0
  <2>4. row[n] = [id |-> put[n].id, offset |-> put[n].at - a]
    OBVIOUS
  <2> QED BY <2>2, <2>3, <2>4
<1>3. ASSUME NEW n \in 1 .. c
      PROVE  row[n] \in [id : K, offset : Nat] /\ row[n].id = put[n].id /\ row[n].offset = put[n].at - a
  <2> DEFINE p == put[n]
  <2>1. p.id \in K /\ p.at \in Nat /\ a <= p.at /\ row[n] = [id |-> p.id, offset |-> p.at - a]
    BY <1>2
  <2> HIDE DEF p
  <2>2. p.at - a \in Nat
    BY <2>1
  <2>3. row[n] \in [id : K, offset : Nat] /\ row[n].id = p.id /\ row[n].offset = p.at - a
    BY <2>1, <2>2
  <2> QED BY <2>3 DEF p
<1>4. row \in Seq([id : K, offset : Nat]) /\ Len(row) = c
  <2> DEFINE R == [id : K, offset : Nat]
  <2>1. row \in [1 .. c -> R]
    <3>1. \A n \in 1 .. c : row[n] \in R
      BY <1>3
    <3>2. row = [n \in 1 .. c |-> row[n]]
      OBVIOUS
    <3> HIDE DEF R
    <3> QED BY <3>1, <3>2
  <2> HIDE DEF R
  <2>2. row \in Seq(R) /\ Len(row) = c
    BY <2>1
  <2> QED BY <2>2 DEF R
<1>5. ASSUME NEW i \in K, NEW n \in Nat, NEW j \in 1 .. c, row[j].id = i, row[j].offset = n
      PROVE  n < v /\ [id |-> i, at |-> a + n] \in M
  <2> DEFINE p == put[j]
  <2>1. p \in M /\ p = [id |-> p.id, at |-> p.at] /\ p.at \in Nat /\ a <= p.at /\ p.at < a + v
    BY <1>1, <1>2
  <2>2. p.id = i /\ p.at - a = n
    BY <1>3, <1>5
  <2> HIDE DEF p
  <2>3. p.at = a + n /\ n < v
    BY <2>1, <2>2
  <2> QED BY <2>1, <2>2, <2>3
<1>6. ASSUME NEW i \in K, NEW n \in Nat, n < v, [id |-> i, at |-> a + n] \in M
      PROVE  \E j \in 1 .. c : row[j].id = i /\ row[j].offset = n
  <2> DEFINE m == [id |-> i, at |-> a + n]
  <2>1. m.id = i /\ m.at = a + n /\ m \in M
    BY <1>6
  <2> HIDE DEF m
  <2>2. a <= m.at /\ m.at < a + v
    BY <1>6, <2>1
  <2>3. PICK j \in 1 .. c : put[j] = m
    BY <1>0, <2>1, <2>2
  <2>4. row[j].id = i /\ row[j].offset = (a + n) - a
    BY <1>3, <2>1, <2>3
  <2> QED BY <2>4
<1>7. ASSUME NEW j \in 1 .. c, NEW n \in 1 .. c, j < n PROVE row[j].id # row[n].id /\ row[j].offset <= row[n].offset
  <2> DEFINE p == put[j]
             q == put[n]
  <2>1. p # q /\ p.at <= q.at /\ p \in M /\ q \in M
    BY <1>0, <1>1, <1>7
  <2>2. p.at \in Nat /\ q.at \in Nat
    BY <1>2
  <2>3. row[j].id = p.id /\ row[j].offset = p.at - a /\ row[n].id = q.id /\ row[n].offset = q.at - a
    BY <1>3
  <2> HIDE DEF p, q
  <2>4. p.id # q.id
    BY <1>0, <2>1
  <2> QED BY <2>1, <2>2, <2>3, <2>4
<1>8. ASSUME NEW i \in K, NEW n \in Nat
      PROVE  (\E j \in 1 .. c : row[j].id = i /\ row[j].offset = n) <=> n < v /\ [id |-> i, at |-> a + n] \in M
  BY <1>5, <1>6, Zenon
<1> DEFINE l == Len(row)
<1>9. l = c
  BY <1>4
<1> HIDE DEF l
<1>10. \A i \in K, n \in Nat :
         (\E j \in 1 .. l : row[j].id = i /\ row[j].offset = n) <=> n < v /\ [id |-> i, at |-> a + n] \in M
  BY <1>8, <1>9, Zenon
<1>11. \A j, n \in 1 .. l : j < n => row[j].id # row[n].id /\ row[j].offset <= row[n].offset
  BY <1>7, <1>9
<1> QED BY <1>4, <1>10, <1>11, Zenon DEF l, Counted

\* What lands on an output is listed there, each at its offset in the output, in order.
LEMMA RowIs ==
  ASSUME ChainOK, RecordsOK, IndexOK, NEW ins \in Seq(DOMAIN coins), Spends(ins), NEW outs \in Outputs,
         NEW reveals \in BOOLEAN, NEW t, t = txs + 1, t \notin Ids, NEW records \in [Known(t, reveals) -> RecordType],
         NEW k \in 1 .. Len(outs), NEW put, put = InOrder(Lands(t, ins, outs, reveals, k), records), NEW row,
         row = [n \in 1 .. Len(put) |-> [id |-> put[n].id, offset |-> put[n].at - Start(outs, k)]]
  PROVE  Counted(row, Known(t, reveals), Moving(t, ins, reveals), Start(outs, k), outs[k].value)
<1> DEFINE K == Known(t, reveals)
           M == Moving(t, ins, reveals)
           lands == Lands(t, ins, outs, reveals, k)
           a == Start(outs, k)
           v == outs[k].value
<1>1. /\ \A m \in M : m = [id |-> m.id, at |-> m.at] /\ m.id \in K /\ m.at \in Nat
      /\ \A m, n \in M : m.id = n.id => m = n
  BY MovingIs
<1>2. IsFiniteSet(K)
  <2>1. Ids \subseteq 1 .. txs /\ txs \in Nat
    BY InscriptionsAssumption DEF RecordsOK, ChainOK
  <2>2. IsFiniteSet(1 .. txs)
    BY <2>1, FS_Interval
  <2>3. IsFiniteSet(Ids) /\ IsFiniteSet(Ids \cup {t})
    BY <2>1, <2>2, FS_Subset, FS_AddElement
  <2> QED BY <2>3 DEF Known
<1>3. lands \subseteq M /\ \A m \in M : m \in lands <=> Place(m, outs) = k
  BY DEF Lands
<1>4. a \in Nat /\ v \in Nat
  BY OutputsLaidOut, OutputsSeq
<1>5. \A m \in M : Place(m, outs) = k <=> a <= m.at /\ m.at < a + v
  <2> SUFFICES ASSUME NEW m \in M PROVE Place(m, outs) = k <=> a <= m.at /\ m.at < a + v
    OBVIOUS
  <2>1. m.at \in Nat
    BY <1>1
  <2> QED BY <2>1, PlaceIs
<1>6. \A m \in lands : m.at \in Nat /\ records[m.id].number \in Nat
  <2> SUFFICES ASSUME NEW m \in lands PROVE m.at \in Nat /\ records[m.id].number \in Nat
    OBVIOUS
  <2>1. m.at \in Nat /\ m.id \in K
    BY <1>1, <1>3
  <2>2. records[m.id] \in RecordType
    BY <2>1
  <2>3. records[m.id].number \in 0 .. MaxTxs - 1
    BY <2>2 DEF RecordType
  <2> QED BY <2>1, <2>3
<1>7. IsFiniteSet(lands)
  <2>1. IsFiniteSet(M)
    <3> HIDE DEF M, K
    <3> QED BY <1>1, <1>2, MovingFinite
  <2> HIDE DEF M, lands
  <2> QED BY <1>3, <2>1, FS_Subset
<1> DEFINE c == Cardinality(lands)
<1>8. /\ put \in [1 .. c -> lands] /\ c \in Nat /\ Len(put) = c
      /\ \A m \in lands : \E n \in 1 .. c : put[n] = m
      /\ \A j, n \in 1 .. c : j < n => put[j] # put[n] /\ put[j].at <= put[n].at
  <2>1. put = InOrder(lands, records)
    OBVIOUS
  <2> HIDE DEF lands
  <2> QED BY <1>6, <1>7, <2>1, InOrderIs
<1> HIDE DEF c, K, M, lands, a, v
<1>9. \A n \in 1 .. c : put[n] \in M /\ a <= put[n].at /\ put[n].at < a + v
  <2> SUFFICES ASSUME NEW n \in 1 .. c PROVE put[n] \in M /\ a <= put[n].at /\ put[n].at < a + v
    OBVIOUS
  <2>1. put[n] \in lands
    BY <1>8
  <2> QED BY <1>3, <1>5, <2>1
<1>10. \A m \in M : a <= m.at /\ m.at < a + v => \E n \in 1 .. c : put[n] = m
  BY <1>3, <1>5, <1>8
<1>11. row = [n \in 1 .. c |-> [id |-> put[n].id, offset |-> put[n].at - a]]
  BY <1>8 DEF a
<1>12. c \in Nat /\ Between(put, c, K, M, a, v)
  <2>1. c \in Nat /\ \A j, n \in 1 .. c : j < n => put[j] # put[n] /\ put[j].at <= put[n].at
    BY <1>8
  <2> QED BY <1>1, <1>9, <1>10, <2>1, Zenon DEF Between
<1>13. Counted(row, K, M, a, v)
  <2>1. row = FromFirst(put, c, a)
    BY <1>11, Zenon DEF FromFirst
  <2>2. a \in Nat /\ v \in Nat
    BY <1>4
  <2> QED BY <1>12, <2>1, <2>2, RowOf
<1> QED BY <1>13, Zenon DEF K, M, a, v

-----------------------------------------------------------------------------
(* The chain goes on.                                                       *)

\* The coins a transaction makes share no units.
LEMMA ApartAfter ==
  ASSUME ChainOK, NEW ins \in Seq(DOMAIN coins), Spends(ins), NEW outs \in Outputs, Pays(ins, outs),
         MoveCoins(txs + 1, ins, outs)
  PROVE  UnitsApart'
<1> DEFINE t == txs + 1
           pool == Units(ins)
           a(k) == Start(outs, k)
           u(o) == coins'[o].units
           old == DOMAIN coins \ Range(ins)
<1>1. /\ DOMAIN coins' = old \cup {<<t, k>> : k \in 1 .. Len(outs)}
      /\ \A o \in old : coins'[o] = coins[o]
      /\ \A k \in 1 .. Len(outs) :
           /\ Len(u(<<t, k>>)) = outs[k].value
           /\ \A j \in 1 .. outs[k].value : a(k) + j \in 1 .. Len(pool) /\ u(<<t, k>>)[j] = pool[a(k) + j]
  BY MoveIs
<1>2. /\ \A q, r \in 1 .. Len(pool) : pool[q] = pool[r] => q = r
      /\ \A o \in DOMAIN coins : \A j \in 1 .. Value(o), q \in 1 .. Len(pool) :
           pool[q] = coins[o].units[j] => o \in Range(ins)
  BY PoolOnce
<1>3. \A o, p \in DOMAIN coins : \A j \in 1 .. Value(o), n \in 1 .. Value(p) :
        coins[o].units[j] = coins[p].units[n] => o = p /\ j = n
  BY DEF ChainOK, UnitsApart
<1>4. /\ \A k \in 1 .. Len(outs) : a(k) \in Nat /\ outs[k].value \in Nat
      /\ \A k, m \in 1 .. Len(outs) : k < m => a(k) + outs[k].value <= a(m)
  BY OutputsLaidOut, OutputsSeq
<1> HIDE DEF pool, a, t
<1>5. ASSUME NEW o \in old, NEW p \in old, NEW j \in 1 .. Len(u(o)), NEW n \in 1 .. Len(u(p)), u(o)[j] = u(p)[n]
      PROVE  o = p /\ j = n
  <2>1. u(o) = coins[o].units /\ u(p) = coins[p].units /\ Value(o) = Len(u(o)) /\ Value(p) = Len(u(p))
    BY <1>1 DEF Value
  <2> QED BY <1>3, <1>5, <2>1
<1>6. ASSUME NEW o \in old, NEW k \in 1 .. Len(outs), NEW j \in 1 .. Len(u(o)), NEW n \in 1 .. Len(u(<<t, k>>)),
             u(o)[j] = u(<<t, k>>)[n]
      PROVE  FALSE
  <2>1. u(o) = coins[o].units /\ Value(o) = Len(u(o)) /\ o \in DOMAIN coins /\ o \notin Range(ins)
    BY <1>1 DEF Value
  <2>2. a(k) + n \in 1 .. Len(pool) /\ u(<<t, k>>)[n] = pool[a(k) + n]
    BY <1>1
  <2> QED BY <1>2, <1>6, <2>1, <2>2
<1>7. ASSUME NEW k \in 1 .. Len(outs), NEW m \in 1 .. Len(outs), NEW j \in 1 .. Len(u(<<t, k>>)),
             NEW n \in 1 .. Len(u(<<t, m>>)), u(<<t, k>>)[j] = u(<<t, m>>)[n]
      PROVE  k = m /\ j = n
  <2>1. /\ a(k) + j \in 1 .. Len(pool) /\ u(<<t, k>>)[j] = pool[a(k) + j] /\ j \in 1 .. outs[k].value
        /\ a(m) + n \in 1 .. Len(pool) /\ u(<<t, m>>)[n] = pool[a(m) + n] /\ n \in 1 .. outs[m].value
    BY <1>1
  <2>2. a(k) + j = a(m) + n
    BY <1>2, <1>7, <2>1
  <2>3. a(k) \in Nat /\ a(m) \in Nat /\ outs[k].value \in Nat /\ outs[m].value \in Nat
    BY <1>4
  <2>4. ~(k < m) /\ ~(m < k)
    <3>1. k < m => a(k) + outs[k].value <= a(m)
      BY <1>4
    <3>2. m < k => a(m) + outs[m].value <= a(k)
      BY <1>4
    <3> QED BY <2>1, <2>2, <2>3, <3>1, <3>2
  <2>5. k = m
    BY <2>4
  <2> QED BY <2>1, <2>2, <2>3, <2>5
<1> HIDE DEF u, old
<1>8. ASSUME NEW o \in DOMAIN coins', NEW p \in DOMAIN coins', NEW j \in 1 .. Len(u(o)), NEW n \in 1 .. Len(u(p)),
             u(o)[j] = u(p)[n]
      PROVE  o = p /\ j = n
  <2>1. CASE o \in old /\ p \in old
    BY <1>5, <1>8, <2>1
  <2>2. CASE o \in old /\ p \notin old
    <3>1. PICK k \in 1 .. Len(outs) : p = <<t, k>>
      BY <1>1, <2>2
    <3> QED BY <1>6, <1>8, <2>2, <3>1
  <2>3. CASE o \notin old /\ p \in old
    <3>1. PICK k \in 1 .. Len(outs) : o = <<t, k>>
      BY <1>1, <2>3
    <3> QED BY <1>6, <1>8, <2>3, <3>1
  <2>4. CASE o \notin old /\ p \notin old
    <3>1. PICK k \in 1 .. Len(outs) : o = <<t, k>>
      BY <1>1, <2>4
    <3>2. PICK m \in 1 .. Len(outs) : p = <<t, m>>
      BY <1>1, <2>4
    <3> QED BY <1>7, <1>8, <3>1, <3>2
  <2> QED BY <2>1, <2>2, <2>3, <2>4
<1> QED BY <1>8 DEF UnitsApart, Value, u

\* The chain stays as it should be.
LEMMA ChainAfter ==
  ASSUME ChainOK, txs < MaxTxs, NEW ins \in Seq(DOMAIN coins), Spends(ins), NEW outs \in Outputs, Pays(ins, outs),
         MoveCoins(txs + 1, ins, outs), txs' = txs + 1, height' \in {height, height + 1}
  PROVE  ChainOK'
<1> DEFINE t == txs + 1
           old == DOMAIN coins \ Range(ins)
           U == Seq(1 .. Total)
<1>1. txs \in Nat /\ MaxTxs \in Nat /\ height \in 0 .. txs
  BY InscriptionsAssumption DEF ChainOK
<1>2. txs' \in 0 .. MaxTxs /\ height' \in 0 .. txs'
  BY <1>1
<1>3. /\ DOMAIN coins' = old \cup {<<t, k>> : k \in 1 .. Len(outs)}
      /\ \A o \in old : coins'[o] = coins[o]
      /\ \A k \in 1 .. Len(outs) :
           /\ coins'[<<t, k>>] = [units |-> coins'[<<t, k>>].units, to |-> outs[k].to]
           /\ coins'[<<t, k>>].units \in U
  BY MoveIs
<1>4. Len(outs) \in 0 .. MaxOuts /\ \A k \in 1 .. Len(outs) : outs[k].to \in Holder
  BY OutputsSeq
<1>5. /\ coins \in [DOMAIN coins -> CoinType] /\ DOMAIN coins \subseteq (0 .. txs) \X (1 .. MaxOuts)
  BY DEF ChainOK
<1>6. \A o \in DOMAIN coins' : coins'[o] \in CoinType
  <2> SUFFICES ASSUME NEW o \in DOMAIN coins' PROVE coins'[o] \in CoinType
    OBVIOUS
  <2>1. CASE o \in old
    BY <1>3, <1>5, <2>1
  <2>2. CASE o \notin old
    <3>1. PICK k \in 1 .. Len(outs) : o = <<t, k>>
      BY <1>3, <2>2
    <3> HIDE DEF U, t
    <3>2. coins'[o].units \in U /\ coins'[o] = [units |-> coins'[o].units, to |-> outs[k].to] /\ outs[k].to \in Holder
      BY <1>3, <1>4, <3>1
    <3> QED BY <3>2 DEF CoinType, U
  <2> QED BY <2>1, <2>2
<1>7. coins' = [o \in DOMAIN coins' |-> coins'[o]]
  BY DEF MoveCoins
<1>8. coins' \in [DOMAIN coins' -> CoinType]
  BY <1>6, <1>7
<1>9. DOMAIN coins' \subseteq (0 .. txs') \X (1 .. MaxOuts)
  <2>1. \A k \in 1 .. Len(outs) : k \in 1 .. MaxOuts
    BY <1>4, InscriptionsAssumption
  <2>2. txs' = t /\ t \in 0 .. t /\ 0 .. txs \subseteq 0 .. t
    BY <1>1
  <2> HIDE DEF t
  <2> QED BY <1>3, <1>5, <2>1, <2>2
<1>10. UnitsApart'
  BY ApartAfter
<1>11. CoinType' = CoinType
  BY DEF CoinType, Holder
<1> QED BY <1>2, <1>8, <1>9, <1>10, <1>11 DEF ChainOK

-----------------------------------------------------------------------------
(* The index goes with the chain.                                           *)

\* The units of all but the new one stay what they are.
UnitsKept(t, ins, reveals) ==
  /\ \A i \in Ids : i \in Known(t, reveals) /\ i # t /\ Unit(t, ins, reveals, i) = unit[i]
  /\ \A i \in Known(t, reveals) : i \notin Ids => i = t /\ reveals
  /\ reveals => IF Len(Units(ins)) = 0 THEN Unit(t, ins, reveals, t) = 0
                ELSE 1 \in 1 .. Len(Units(ins)) /\ Unit(t, ins, reveals, t) = Units(ins)[1]
  /\ [id |-> t, at |-> 0] \in Moving(t, ins, reveals) \/ ~reveals

\* A transaction leaves the old ones on their units, and puts the new one on the first of the pool.
LEMMA UnitIs ==
  ASSUME ChainOK, RecordsOK, IndexOK, NEW ins \in Seq(DOMAIN coins), Spends(ins), NEW reveals \in BOOLEAN,
         NEW t, t \notin Ids
  PROVE  UnitsKept(t, ins, reveals)
<1> DEFINE pool == Units(ins)
           S == 1 .. Total
<1>1. pool \in Seq(S)
  BY PoolOnce
<1>2. ASSUME NEW i \in Ids PROVE i \in Known(t, reveals) /\ i # t /\ Unit(t, ins, reveals, i) = unit[i]
  <2>1. i # t
    OBVIOUS
  <2> QED BY <2>1, Zenon DEF Known, Unit
<1>3. \A i \in Known(t, reveals) : i \notin Ids => i = t /\ reveals
  BY Zenon DEF Known
<1>4. reveals => Unit(t, ins, reveals, t) = Head(Append(pool, 0))
  BY Zenon DEF Unit
<1> HIDE DEF pool, S
<1>5. IF Len(pool) = 0 THEN Head(Append(pool, 0)) = 0 ELSE 1 \in 1 .. Len(pool) /\ Head(Append(pool, 0)) = pool[1]
  <2>1. CASE Len(pool) = 0
    <3>1. pool = <<>>
      BY <1>1, <2>1
    <3> QED BY <2>1, <3>1
  <2>2. CASE Len(pool) # 0
    <3>1. Len(pool) \in Nat /\ 1 \in 1 .. Len(pool)
      BY <1>1, <2>2
    <3>2. Head(Append(pool, 0)) = pool[1]
      <4>1. pool \in Seq(S \cup {0}) /\ pool # <<>>
        BY <1>1, <3>1
      <4>2. Head(Append(pool, 0)) = Head(pool)
        BY <4>1, HeadTailAppend
      <4>3. Head(pool) = pool[1]
        BY <1>1, <4>1
      <4> QED BY <4>2, <4>3
    <3> QED BY <2>2, <3>1, <3>2
  <2> QED BY <2>1, <2>2
<1>6. [id |-> t, at |-> 0] \in Moving(t, ins, reveals) \/ ~reveals
  BY Zenon DEF Moving
<1>7. reveals => IF Len(pool) = 0 THEN Unit(t, ins, reveals, t) = 0
                 ELSE 1 \in 1 .. Len(pool) /\ Unit(t, ins, reveals, t) = pool[1]
  BY <1>4, <1>5, Zenon
<1> QED BY <1>2, <1>3, <1>6, <1>7, Zenon DEF pool, UnitsKept

\* The index matches the chain after every transaction.
LEMMA IndexAfter ==
  ASSUME ChainOK, RecordsOK, IndexOK, txs < MaxTxs, NEW ins \in Seq(DOMAIN coins), Spends(ins), NEW outs \in Outputs,
         Pays(ins, outs), NEW claims \in Seq(1 .. MaxTxs), NEW reveals \in BOOLEAN, NEW t, t = txs + 1,
         MoveCoins(t, ins, outs), \A i \in Known(t, reveals) : unit'[i] = Unit(t, ins, reveals, i),
         Assign(t, ins, outs, reveals, WithReveal(t, ins, reveals, claims))
  PROVE  IndexOK'
<1> DEFINE K == Known(t, reveals)
           M == Moving(t, ins, reveals)
           pool == Units(ins)
           U(i) == Unit(t, ins, reveals, i)
           a(k) == Start(outs, k)
           v(k) == outs[k].value
           n0 == Len(outs)
           old == DOMAIN coins \ Range(ins)
           records == WithReveal(t, ins, reveals, claims)
           u(o) == coins'[o].units
           here(o) == Here(o)'
           S == 1 .. Total
           E == [id : K, offset : Nat]
<1>1. /\ t \notin Ids /\ records \in [K -> RecordType]
      /\ \A i \in Ids : records[i].location = inscriptions[i].location /\ records[i].owner = inscriptions[i].owner
  <2>1. Revealed(t, ins, reveals, claims)
    BY RevealIs
  <2> QED BY <2>1, Zenon DEF Revealed
<1>2. MoveCoins(txs + 1, ins, outs)
  OBVIOUS
<1>3. /\ DOMAIN coins' = old \cup {<<t, k>> : k \in 1 .. n0}
      /\ \A o \in old : coins'[o] = coins[o]
      /\ \A o \in DOMAIN coins : o[1] # t
      /\ \A k \in 1 .. n0 :
           /\ coins'[<<t, k>>] = [units |-> u(<<t, k>>), to |-> outs[k].to]
           /\ u(<<t, k>>) \in Seq(S)
           /\ Len(u(<<t, k>>)) = v(k)
           /\ \A j \in 1 .. v(k) : a(k) + j \in 1 .. Len(pool) /\ u(<<t, k>>)[j] = pool[a(k) + j]
      /\ AddUp(Values(outs)) <= Len(pool)
  <2>1. /\ DOMAIN coins' = (DOMAIN coins \ Range(ins)) \cup {<<txs + 1, k>> : k \in 1 .. Len(outs)}
        /\ \A o \in DOMAIN coins \ Range(ins) : coins'[o] = coins[o]
        /\ \A o \in DOMAIN coins : o[1] # txs + 1
        /\ \A k \in 1 .. Len(outs) :
             /\ coins'[<<txs + 1, k>>] = [units |-> coins'[<<txs + 1, k>>].units, to |-> outs[k].to]
             /\ coins'[<<txs + 1, k>>].units \in Seq(1 .. Total)
             /\ Len(coins'[<<txs + 1, k>>].units) = outs[k].value
             /\ \A j \in 1 .. outs[k].value :
                  /\ Start(outs, k) + j \in 1 .. Len(Units(ins))
                  /\ coins'[<<txs + 1, k>>].units[j] = Units(ins)[Start(outs, k) + j]
        /\ AddUp(Values(outs)) <= Len(Units(ins))
    BY <1>2, MoveIs
  <2>2. DOMAIN coins' = old \cup {<<t, k>> : k \in 1 .. n0}
    BY <2>1
  <2>3. \A o \in DOMAIN coins : o[1] # t
    BY <2>1
  <2>4. ASSUME NEW k \in 1 .. n0
        PROVE  /\ coins'[<<t, k>>] = [units |-> u(<<t, k>>), to |-> outs[k].to]
               /\ u(<<t, k>>) \in Seq(S)
               /\ Len(u(<<t, k>>)) = v(k)
               /\ \A j \in 1 .. v(k) : a(k) + j \in 1 .. Len(pool) /\ u(<<t, k>>)[j] = pool[a(k) + j]
    <3>1. <<txs + 1, k>> = <<t, k>>
      OBVIOUS
    <3> DEFINE w == <<txs + 1, k>>
    <3>2. /\ coins'[w] = [units |-> coins'[w].units, to |-> outs[k].to]
          /\ coins'[w].units \in Seq(1 .. Total)
          /\ Len(coins'[w].units) = outs[k].value
          /\ \A j \in 1 .. outs[k].value :
               /\ Start(outs, k) + j \in 1 .. Len(Units(ins))
               /\ coins'[w].units[j] = Units(ins)[Start(outs, k) + j]
      BY <2>1
    <3>3. w = <<t, k>>
      OBVIOUS
    <3> HIDE DEF w
    <3> QED BY <3>2, <3>3
  <2> QED BY <2>1, <2>2, <2>3, <2>4, Zenon
<1>4. /\ pool \in Seq(S)
      /\ \A q, r \in 1 .. Len(pool) : pool[q] = pool[r] => q = r
      /\ \A o \in DOMAIN coins : \A j \in 1 .. Value(o), q \in 1 .. Len(pool) :
           pool[q] = coins[o].units[j] => o \in Range(ins)
      /\ \A o \in Range(ins) : \A j \in 1 .. Value(o) : \E q \in 1 .. Len(pool) : pool[q] = coins[o].units[j]
  BY PoolOnce
<1>5. /\ \A o \in DOMAIN coins : Value(o) = Len(coins[o].units) /\ Value(o) \in Nat
                                 /\ \A j \in 1 .. Value(o) : coins[o].units[j] \in S
  BY CoinsAre
<1>6. /\ \A m \in M : m = [id |-> m.id, at |-> m.at] /\ m.id \in K /\ m.at \in Nat
      /\ \A m, n \in M : m.id = n.id => m = n
      /\ \A i \in K, q \in Nat : q + 1 \in 1 .. Len(pool) => ([id |-> i, at |-> q] \in M <=> pool[q + 1] = U(i))
      /\ \A m \in M : m.at + 1 \notin 1 .. Len(pool) => m.id = t /\ Len(pool) = 0 /\ U(m.id) = 0
  BY <1>1, MovingIs
<1>7. /\ \A i \in Ids : i \in K /\ i # t /\ U(i) = unit[i]
      /\ \A i \in K : i \notin Ids => i = t /\ [id |-> t, at |-> 0] \in M
      /\ \A i \in K : i \notin Ids => IF Len(pool) = 0 THEN U(i) = 0 ELSE 1 \in 1 .. Len(pool) /\ U(i) = pool[1]
  <2>1. /\ \A i \in Ids : i \in K /\ i # t /\ U(i) = unit[i]
        /\ \A i \in K : i \notin Ids => i = t /\ reveals
        /\ reveals => IF Len(pool) = 0 THEN U(t) = 0 ELSE 1 \in 1 .. Len(pool) /\ U(t) = pool[1]
        /\ [id |-> t, at |-> 0] \in M \/ ~reveals
    <3>1. UnitsKept(t, ins, reveals)
      BY <1>1, UnitIs
    <3> QED BY <3>1, Zenon DEF UnitsKept
  <2> HIDE DEF K, M, pool, U
  <2>2. ASSUME NEW i \in K, i \notin Ids
        PROVE  i = t /\ [id |-> t, at |-> 0] \in M
               /\ IF Len(pool) = 0 THEN U(i) = 0 ELSE 1 \in 1 .. Len(pool) /\ U(i) = pool[1]
    BY <2>1, <2>2, Zenon
  <2> QED BY <2>1, <2>2, Zenon
<1>8. /\ DOMAIN inscriptions' = K
      /\ \A i \in K : (\A m \in M : m.id # i) => inscriptions'[i] = records[i]
      /\ \A m \in M :
           inscriptions'[m.id] =
             [records[m.id] EXCEPT !.location = IF Place(m, outs) = 0 THEN Burned ELSE <<t, Place(m, outs)>>,
                                   !.owner = IF Place(m, outs) = 0 THEN NoAddress ELSE outs[Place(m, outs)].to]
      /\ DOMAIN locations' \subseteq (DOMAIN locations \ Range(ins)) \cup {<<t, k>> : k \in 1 .. n0}
      /\ \A o \in old : here(o) = Here(o)
      /\ \A k \in 1 .. n0 :
           LET put == InOrder(Lands(t, ins, outs, reveals, k), records) IN
             here(<<t, k>>) = [n \in 1 .. Len(put) |-> [id |-> put[n].id, offset |-> put[n].at - a(k)]]
  <2> HIDE DEF records
  <2> DEFINE R == records
  <2>0. R \in [Known(t, reveals) -> RecordType] /\ Assign(t, ins, outs, reveals, R) /\ t \notin Ids
    BY <1>1 DEF records
  <2> HIDE DEF R
  <2>1. Assigned(t, ins, outs, reveals, R)
    BY <2>0, AssignIs
  <2> QED BY <2>1, Zenon DEF R, Assigned
<1>9. ASSUME NEW k \in 1 .. n0 PROVE Counted(here(<<t, k>>), K, M, a(k), v(k))
  <2> DEFINE put == InOrder(Lands(t, ins, outs, reveals, k), records)
  <2>1. here(<<t, k>>) = [n \in 1 .. Len(put) |-> [id |-> put[n].id, offset |-> put[n].at - a(k)]]
    BY <1>8
  <2> DEFINE row == here(<<t, k>>)
  <2>2. row = [n \in 1 .. Len(put) |-> [id |-> put[n].id, offset |-> put[n].at - Start(outs, k)]]
    BY <2>1
  <2> HIDE DEF put, row, records
  <2>3. put = InOrder(Lands(t, ins, outs, reveals, k), records)
    BY DEF put
  <2>4. Counted(row, Known(t, reveals), Moving(t, ins, reveals), Start(outs, k), outs[k].value)
    BY <1>1, <2>2, <2>3, RowIs
  <2> QED BY <2>4 DEF row
<1>10. /\ \A k \in 1 .. n0 : a(k) \in Nat /\ v(k) \in Nat /\ a(k) + v(k) <= AddUp(Values(outs))
       /\ AddUp(Values(outs)) \in Nat /\ n0 \in Nat
  <2>1. /\ AddUp(Values(outs)) \in Nat
        /\ \A k \in 1 .. Len(outs) : Start(outs, k) \in Nat /\ Start(outs, k) + outs[k].value <= AddUp(Values(outs))
    BY OutputsLaidOut
  <2>2. Len(outs) \in 0 .. MaxOuts /\ \A k \in 1 .. Len(outs) : outs[k].value \in Nat
    BY OutputsSeq
  <2> QED BY <2>1, <2>2, InscriptionsAssumption
<1>11. \A m \in M : /\ Place(m, outs) \in 0 .. n0
                    /\ \A k \in 1 .. n0 : Place(m, outs) = k <=> a(k) <= m.at /\ m.at < a(k) + v(k)
  <2> SUFFICES ASSUME NEW m \in M
               PROVE  /\ Place(m, outs) \in 0 .. n0
                      /\ \A k \in 1 .. n0 : Place(m, outs) = k <=> a(k) <= m.at /\ m.at < a(k) + v(k)
    OBVIOUS
  <2>1. m.at \in Nat
    BY <1>6
  <2> QED BY <2>1, PlaceIs
<1>12. \A i \in K : unit'[i] = U(i)
  OBVIOUS
<1>13. /\ DOMAIN locations \subseteq DOMAIN coins
       /\ \A o \in DOMAIN locations : locations[o] \in Seq([id : Ids, offset : Nat])
       /\ \A o \in DOMAIN coins, i \in Ids, n \in Nat :
            (\E k \in 1 .. Len(Here(o)) : Here(o)[k].id = i /\ Here(o)[k].offset = n)
              <=> n < Value(o) /\ coins[o].units[n + 1] = unit[i]
       /\ \A o \in DOMAIN locations : \A k, n \in 1 .. Len(locations[o]) :
            k < n => locations[o][k].id # locations[o][n].id /\ locations[o][k].offset <= locations[o][n].offset
       /\ Placed
  BY DEF IndexOK, Matches, InRow, Carries
<1>14. \A i \in K : U(i) \in Nat
  <2> SUFFICES ASSUME NEW i \in K PROVE U(i) \in Nat
    OBVIOUS
  <2>1. CASE i \in Ids
    <3>1. U(i) = unit[i] /\ unit[i] \in 0 .. Total
      BY <1>7, <2>1 DEF RecordsOK
    <3> QED BY <3>1
  <2>2. CASE i \notin Ids
    <3>1. U(i) = 0 \/ (1 \in 1 .. Len(pool) /\ U(i) = pool[1])
      BY <1>7, <2>2
    <3> DEFINE x == U(i)
    <3>2. x = 0 \/ (1 \in 1 .. Len(pool) /\ x = pool[1])
      BY <3>1
    <3>3. pool \in Seq(Nat)
      <4>1. S \subseteq Nat
        OBVIOUS
      <4> HIDE DEF pool, S
      <4> QED BY <1>4, <4>1, SeqMonotonic
    <3> HIDE DEF pool, U, x
    <3>4. x \in Nat
      BY <3>2, <3>3
    <3> QED BY <3>4 DEF x
  <2> QED BY <2>1, <2>2
<1>15. \A m \in M : inscriptions'[m.id].location = (IF Place(m, outs) = 0 THEN Burned ELSE <<t, Place(m, outs)>>)
                    /\ inscriptions'[m.id].owner = (IF Place(m, outs) = 0 THEN NoAddress ELSE outs[Place(m, outs)].to)
  <2> SUFFICES ASSUME NEW m \in M
               PROVE  /\ inscriptions'[m.id].location = (IF Place(m, outs) = 0 THEN Burned ELSE <<t, Place(m, outs)>>)
                      /\ inscriptions'[m.id].owner
                           = (IF Place(m, outs) = 0 THEN NoAddress ELSE outs[Place(m, outs)].to)
    OBVIOUS
  <2> DEFINE r == records[m.id]
             l == IF Place(m, outs) = 0 THEN Burned ELSE <<t, Place(m, outs)>>
             w == IF Place(m, outs) = 0 THEN NoAddress ELSE outs[Place(m, outs)].to
  <2>1. inscriptions'[m.id] = [r EXCEPT !.location = l, !.owner = w]
    BY <1>8
  <2>2. r \in RecordType
    BY <1>1, <1>6
  <2> HIDE DEF r, l, w
  <2>3. [r EXCEPT !.location = l, !.owner = w].location = l /\ [r EXCEPT !.location = l, !.owner = w].owner = w
    BY <2>2 DEF RecordType
  <2> QED BY <2>1, <2>3 DEF l, w
<1>16. ASSUME NEW k \in 1 .. n0
       PROVE  coins'[<<t, k>>].to = outs[k].to /\ <<t, k>> \in DOMAIN coins' /\ <<t, k>> \notin DOMAIN coins
  <2>1. coins'[<<t, k>>] = [units |-> u(<<t, k>>), to |-> outs[k].to] /\ <<t, k>> \in DOMAIN coins'
    BY <1>3
  <2>2. <<t, k>> \notin DOMAIN coins
    <3>1. <<t, k>>[1] = t
      OBVIOUS
    <3> QED BY <1>3, <3>1
  <2> HIDE DEF u
  <2> QED BY <2>1, <2>2
<1>17. DOMAIN inscriptions' = K
  BY <1>8
<1> HIDE DEF K, M, pool, U, a, v, n0, old, records, u, here, S, E
<1>18. ASSUME NEW o \in DOMAIN coins' PROVE o \in old \/ \E k \in 1 .. n0 : o = <<t, k>>
  BY <1>3
<1>19. ASSUME NEW o \in old PROVE o \in DOMAIN coins /\ o \notin Range(ins) /\ here(o) = Here(o) /\ coins'[o] = coins[o] /\ u(o) = coins[o].units /\ Len(u(o)) = Value(o)
  BY <1>3, <1>5, <1>8 DEF old, u
<1>20. ASSUME NEW i \in K, NEW k \in 1 .. n0, NEW n \in Nat
       PROVE (\E j \in 1 .. Len(here(<<t, k>>)) : here(<<t, k>>)[j].id = i /\ here(<<t, k>>)[j].offset = n)
               <=> n < Len(u(<<t, k>>)) /\ u(<<t, k>>)[n + 1] = U(i)
  <2>1. (\E j \in 1 .. Len(here(<<t, k>>)) : here(<<t, k>>)[j].id = i /\ here(<<t, k>>)[j].offset = n)
               <=> n < v(k) /\ [id |-> i, at |-> a(k) + n] \in M
    BY <1>9, Zenon DEF Counted
  <2>2. Len(u(<<t, k>>)) = v(k) /\ v(k) \in Nat /\ a(k) \in Nat
    BY <1>3, <1>10
  <2>3. CASE n < v(k)
    <3>1. n + 1 \in 1 .. v(k) /\ a(k) + n \in Nat /\ a(k) + (n + 1) = (a(k) + n) + 1
      BY <2>2, <2>3
    <3>2. (a(k) + n) + 1 \in 1 .. Len(pool) /\ u(<<t, k>>)[n + 1] = pool[(a(k) + n) + 1]
      BY <1>3, <3>1
    <3>3. [id |-> i, at |-> a(k) + n] \in M <=> pool[(a(k) + n) + 1] = U(i)
      BY <1>6, <3>1, <3>2
    <3> QED BY <2>1, <2>2, <2>3, <3>2, <3>3
  <2>4. CASE ~(n < v(k))
    BY <2>1, <2>2, <2>4
  <2> QED BY <2>3, <2>4
<1>21. ASSUME NEW i \in K, i \notin Ids, NEW o \in old, NEW j \in 1 .. Len(u(o)) PROVE u(o)[j] # U(i)
  <2>1. o \in DOMAIN coins /\ o \notin Range(ins) /\ u(o) = coins[o].units /\ j \in 1 .. Value(o)
    BY <1>19
  <2>2. u(o)[j] \in S /\ 0 \notin S
    BY <1>5, <2>1 DEF S
  <2>3. U(i) = 0 \/ (1 \in 1 .. Len(pool) /\ U(i) = pool[1])
    BY <1>7, <1>21
  <2> QED BY <1>4, <2>1, <2>2, <2>3
<1>22. ASSUME NEW o \in old, NEW i \in K, NEW n \in Nat
       PROVE (\E j \in 1 .. Len(here(o)) : here(o)[j].id = i /\ here(o)[j].offset = n)
               <=> n < Len(u(o)) /\ u(o)[n + 1] = U(i)
  <2>1. o \in DOMAIN coins /\ here(o) = Here(o) /\ u(o) = coins[o].units /\ Len(u(o)) = Value(o) /\ Value(o) \in Nat
    BY <1>5, <1>19
  <2>2. CASE i \in Ids
    <3>1. U(i) = unit[i]
      BY <1>7, <2>2
    <3>2. (\E k \in 1 .. Len(Here(o)) : Here(o)[k].id = i /\ Here(o)[k].offset = n)
              <=> n < Value(o) /\ coins[o].units[n + 1] = unit[i]
      BY <1>13, <2>1, <2>2
    <3> QED BY <2>1, <3>1, <3>2
  <2>3. CASE i \notin Ids
    <3>1. \A j \in 1 .. Len(here(o)) : here(o)[j].id \in Ids
      <4>1. CASE o \in DOMAIN locations
        <5>1. here(o) = locations[o] /\ locations[o] \in Seq([id : Ids, offset : Nat])
          BY <1>13, <2>1, <4>1 DEF Here
        <5> DEFINE R == [id : Ids, offset : Nat]
                   h == here(o)
        <5>2. h \in Seq(R)
          BY <5>1
        <5> HIDE DEF R, h
        <5>3. \A j \in 1 .. Len(h) : h[j] \in R
          BY <5>2
        <5> QED BY <5>3 DEF R, h
      <4>2. CASE o \notin DOMAIN locations
        BY <2>1, <4>2 DEF Here
      <4> QED BY <4>1, <4>2
    <3>2. n < Len(u(o)) => n + 1 \in 1 .. Len(u(o))
      BY <2>1
    <3> QED BY <1>21, <2>3, <3>1, <3>2
  <2> QED BY <2>2, <2>3
<1>23. Matches'
  <2> SUFFICES ASSUME NEW o \in DOMAIN coins', NEW i \in Ids', NEW n \in Nat
               PROVE Carries(o, i, n)' <=> (n < Value(o)' /\ coins'[o].units[n + 1] = unit'[i])
    BY Zenon DEF Matches
  <2>1. i \in K /\ unit'[i] = U(i)
    BY <1>12, <1>17 DEF Ids
  <2>2. Value(o)' = Len(u(o)) /\ coins'[o].units = u(o)
    BY DEF Value, u
  <2>3. Carries(o, i, n)' <=> \E j \in 1 .. Len(here(o)) : here(o)[j].id = i /\ here(o)[j].offset = n
    BY DEF Carries, here
  <2>4. (\E j \in 1 .. Len(here(o)) : here(o)[j].id = i /\ here(o)[j].offset = n)
               <=> n < Len(u(o)) /\ u(o)[n + 1] = U(i)
    <3>1. CASE o \in old
      BY <1>22, <2>1, <3>1
    <3>2. CASE o \notin old
      <4>1. PICK k \in 1 .. n0 : o = <<t, k>>
        BY <1>18, <3>2
      <4> QED BY <1>20, <2>1, <4>1
    <3> QED BY <3>1, <3>2
  <2> QED BY <2>1, <2>2, <2>3, <2>4
<1>24. DOMAIN locations' \subseteq DOMAIN coins'
  BY <1>3, <1>8, <1>13 DEF old
<1>25. ASSUME NEW o \in DOMAIN locations'
       PROVE  /\ locations'[o] \in Seq(E)
              /\ \A k, n \in 1 .. Len(locations'[o]) :
                   k < n => /\ locations'[o][k].id # locations'[o][n].id
                            /\ locations'[o][k].offset <= locations'[o][n].offset
  <2>1. here(o) = locations'[o]
    BY DEF here, Here
  <2>2. CASE o \in old
    <3>1. o \in DOMAIN locations
      <4>1. \A k \in 1 .. n0 : o # <<t, k>>
        BY <1>16, <1>19, <2>2
      <4> QED BY <1>8, <4>1
    <3>2. locations'[o] = locations[o]
      BY <1>19, <2>1, <2>2, <3>1 DEF Here
    <3>3. [id : Ids, offset : Nat] \subseteq E
      BY <1>7 DEF E
    <3> DEFINE R == [id : Ids, offset : Nat]
               l == locations[o]
    <3>4. l \in Seq(R) /\ R \subseteq E
      BY <1>13, <3>1, <3>3
    <3>5. \A k, n \in 1 .. Len(l) : k < n => l[k].id # l[n].id /\ l[k].offset <= l[n].offset
      BY <1>13, <3>1
    <3> HIDE DEF R, l
    <3>6. l \in Seq(E)
      BY <3>4, SeqMonotonic
    <3>7. locations'[o] = l
      BY <3>2 DEF l
    <3> QED BY <3>5, <3>6, <3>7
  <2>3. CASE o \notin old
    <3>1. PICK k \in 1 .. n0 : o = <<t, k>>
      BY <1>18, <1>24, <2>3
    <3>2. Counted(here(o), K, M, a(k), v(k))
      BY <1>9, <3>1
    <3>3. /\ here(o) \in Seq(E)
          /\ \A j, n \in 1 .. Len(here(o)) :
               j < n => here(o)[j].id # here(o)[n].id /\ here(o)[j].offset <= here(o)[n].offset
      BY <3>2, Zenon DEF Counted, E
    <3> QED BY <2>1, <3>3
  <2> QED BY <2>2, <2>3
<1>26. ASSUME NEW i \in K, NEW m \in M, m.id = i,
              NEW o \in DOMAIN coins', NEW j \in 1 .. Len(u(o)), u(o)[j] = U(i)
       PROVE  inscriptions'[i].location = o /\ inscriptions'[i].owner = coins'[o].to
  <2>1. m = [id |-> i, at |-> m.at] /\ m.at \in Nat
    BY <1>6, <1>26
  <2>2. u(o)[j] \in S /\ 0 \notin S
    <3>1. CASE o \in old
      BY <1>5, <1>19, <3>1 DEF S
    <3>2. CASE o \notin old
      <4>1. PICK k \in 1 .. n0 : o = <<t, k>>
        BY <1>18, <3>2
      <4> DEFINE w == u(o)
      <4>2. w \in Seq(S) /\ j \in 1 .. Len(w)
        BY <1>3, <4>1
      <4> HIDE DEF w
      <4>3. w[j] \in S
        BY <4>2
      <4> QED BY <4>3 DEF w, S
    <3> QED BY <3>1, <3>2
  <2>3. m.at + 1 \in 1 .. Len(pool)
    <3>1. U(i) # 0
      BY <1>26, <2>2
    <3> QED BY <1>6, <1>26, <3>1
  <2>4. pool[m.at + 1] = U(i)
    BY <1>6, <2>1, <2>3
  <2>5. o \notin old
    <3> SUFFICES ASSUME o \in old PROVE FALSE
      OBVIOUS
    <3>1. o \in DOMAIN coins /\ o \notin Range(ins) /\ u(o) = coins[o].units /\ j \in 1 .. Value(o)
      BY <1>19
    <3> QED BY <1>4, <1>26, <2>3, <2>4, <3>1
  <2>6. PICK k \in 1 .. n0 : o = <<t, k>>
    BY <1>18, <2>5
  <2>7. a(k) + j \in 1 .. Len(pool) /\ u(o)[j] = pool[a(k) + j] /\ j \in 1 .. v(k) /\ v(k) \in Nat /\ a(k) \in Nat
    BY <1>3, <1>10, <2>6
  <2>8. a(k) + j = m.at + 1
    BY <1>4, <1>26, <2>3, <2>4, <2>7
  <2>9. Place(m, outs) = k
    <3>1. a(k) <= m.at /\ m.at < a(k) + v(k)
      BY <2>1, <2>7, <2>8
    <3> QED BY <1>11, <3>1
  <2>10. k # 0
    OBVIOUS
  <2> QED BY <1>15, <1>16, <1>26, <2>6, <2>9, <2>10
<1>27. ASSUME NEW i \in K, NEW m \in M, m.id = i,
              \A o \in DOMAIN coins' : \A j \in 1 .. Len(u(o)) : u(o)[j] # U(i)
       PROVE  inscriptions'[i].location = Burned
  <2>1. m = [id |-> i, at |-> m.at] /\ m.at \in Nat
    BY <1>6, <1>27
  <2>2. SUFFICES ASSUME Place(m, outs) # 0 PROVE FALSE
    BY <1>15, <1>27
  <2> DEFINE k == Place(m, outs)
  <2>3. k \in 1 .. n0 /\ a(k) <= m.at /\ m.at < a(k) + v(k)
    <3>1. k \in 0 .. n0
      BY <1>11
    <3>2. k \in 1 .. n0
      BY <1>10, <2>2, <3>1
    <3> QED BY <1>11, <3>2
  <2>4. a(k) \in Nat /\ v(k) \in Nat /\ a(k) + v(k) <= AddUp(Values(outs)) /\ AddUp(Values(outs)) \in Nat
    BY <1>10, <2>3
  <2> HIDE DEF k
  <2> DEFINE j == m.at - a(k) + 1
  <2>5. j \in 1 .. v(k) /\ a(k) + j = m.at + 1
    BY <2>1, <2>3, <2>4
  <2> HIDE DEF j
  <2>6. /\ <<t, k>> \in DOMAIN coins' /\ a(k) + j \in 1 .. Len(pool) /\ j \in 1 .. Len(u(<<t, k>>))
        /\ u(<<t, k>>)[j] = pool[m.at + 1]
    <3>1. <<t, k>> \in DOMAIN coins'
      BY <1>16, <2>3
    <3>2. Len(u(<<t, k>>)) = v(k) /\ a(k) + j \in 1 .. Len(pool) /\ u(<<t, k>>)[j] = pool[a(k) + j]
      BY <1>3, <2>3, <2>5
    <3> QED BY <2>5, <3>1, <3>2
  <2>7. pool[m.at + 1] = U(i)
    BY <1>6, <2>1, <2>5, <2>6
  <2> QED BY <1>27, <2>6, <2>7
<1>28. ASSUME NEW i \in K, \A m \in M : m.id # i
       PROVE  /\ i \in Ids /\ U(i) = unit[i] /\ \A q \in 1 .. Len(pool) : pool[q] # unit[i]
              /\ inscriptions'[i].location = inscriptions[i].location /\ inscriptions'[i].owner = inscriptions[i].owner
  <2>1. i \in Ids
    <3> SUFFICES ASSUME i \notin Ids PROVE FALSE
      OBVIOUS
    <3>1. i = t /\ [id |-> t, at |-> 0] \in M
      BY <1>7
    <3>2. [id |-> t, at |-> 0].id = t
      OBVIOUS
    <3> QED BY <1>28, <3>1, <3>2
  <2>2. U(i) = unit[i]
    BY <1>7, <2>1
  <2>3. ASSUME NEW q \in 1 .. Len(pool), pool[q] = unit[i] PROVE FALSE
    <3>1. q - 1 \in Nat /\ (q - 1) + 1 = q
      OBVIOUS
    <3>2. [id |-> i, at |-> q - 1] \in M
      BY <1>6, <2>2, <2>3, <3>1
    <3>3. [id |-> i, at |-> q - 1].id = i
      OBVIOUS
    <3> QED BY <1>28, <3>2, <3>3
  <2>4. inscriptions'[i] = records[i]
    BY <1>8, <1>28
  <2> QED BY <1>1, <2>1, <2>2, <2>3, <2>4
<1>29. ASSUME NEW i \in K, \A m \in M : m.id # i,
              NEW o \in DOMAIN coins', NEW j \in 1 .. Len(u(o)), u(o)[j] = U(i)
       PROVE  inscriptions'[i].location = o /\ inscriptions'[i].owner = coins'[o].to
  <2>1. /\ i \in Ids /\ U(i) = unit[i] /\ \A q \in 1 .. Len(pool) : pool[q] # unit[i]
        /\ inscriptions'[i].location = inscriptions[i].location /\ inscriptions'[i].owner = inscriptions[i].owner
    BY <1>28, <1>29
  <2>2. o \in old
    <3> SUFFICES ASSUME o \notin old PROVE FALSE
      OBVIOUS
    <3>1. PICK k \in 1 .. n0 : o = <<t, k>>
      BY <1>18
    <3>2. a(k) + j \in 1 .. Len(pool) /\ u(o)[j] = pool[a(k) + j]
      BY <1>3, <3>1
    <3> QED BY <1>29, <2>1, <3>2
  <2>3. o \in DOMAIN coins /\ coins'[o] = coins[o] /\ u(o) = coins[o].units /\ j \in 1 .. Value(o)
    BY <1>19, <2>2
  <2>4. inscriptions[i].location = o /\ inscriptions[i].owner = coins[o].to
    BY <1>13, <1>29, <2>1, <2>3 DEF Placed
  <2> QED BY <2>1, <2>3, <2>4
<1>30. ASSUME NEW i \in K, \A m \in M : m.id # i,
              \A o \in DOMAIN coins' : \A j \in 1 .. Len(u(o)) : u(o)[j] # U(i)
       PROVE  inscriptions'[i].location = Burned
  <2>1. /\ i \in Ids /\ U(i) = unit[i] /\ \A q \in 1 .. Len(pool) : pool[q] # unit[i]
        /\ inscriptions'[i].location = inscriptions[i].location
    BY <1>28, <1>30
  <2>2. ASSUME NEW o \in DOMAIN coins, NEW j \in 1 .. Value(o), coins[o].units[j] = unit[i] PROVE FALSE
    <3>1. CASE o \in Range(ins)
      BY <1>4, <2>1, <2>2, <3>1
    <3>2. CASE o \notin Range(ins)
      <4>1. o \in old /\ o \in DOMAIN coins'
        BY <1>3, <3>2 DEF old
      <4>2. u(o) = coins[o].units /\ j \in 1 .. Len(u(o))
        BY <1>19, <4>1
      <4> QED BY <1>30, <2>1, <2>2, <4>1, <4>2
    <3> QED BY <3>1, <3>2
  <2> QED BY <1>13, <2>1, <2>2 DEF Placed
<1>31. Placed'
  <2> SUFFICES ASSUME NEW i \in K
               PROVE  /\ \A o \in DOMAIN coins' : \A j \in 1 .. Len(u(o)) :
                           u(o)[j] = U(i) => inscriptions'[i].location = o /\ inscriptions'[i].owner = coins'[o].to
                      /\ (\A o \in DOMAIN coins' : \A j \in 1 .. Len(u(o)) : u(o)[j] # U(i))
                           => inscriptions'[i].location = Burned
    BY <1>12, <1>17 DEF Placed, Ids, Value, Burned, u
  <2>1. CASE \E m \in M : m.id = i
    BY <1>26, <1>27, <2>1
  <2>2. CASE ~\E m \in M : m.id = i
    BY <1>29, <1>30, <2>2
  <2> QED BY <2>1, <2>2
<1>32. Ids' = K
  BY <1>17 DEF Ids
<1>33. \A o \in DOMAIN locations' : locations'[o] \in Seq([id : Ids', offset : Nat])
  BY <1>25, <1>32 DEF E
<1>34. InRow'
  BY <1>25 DEF InRow
<1> QED BY <1>23, <1>24, <1>31, <1>33, <1>34, Zenon DEF IndexOK

\* Only where an inscription is, and whose it is, changes as it moves.
LEMMA RecordIs ==
  ASSUME ChainOK, RecordsOK, IndexOK, txs < MaxTxs, NEW ins \in Seq(DOMAIN coins), Spends(ins), NEW outs \in Outputs,
         NEW reveals \in BOOLEAN, NEW t, t = txs + 1, t \notin Ids, NEW records \in [Known(t, reveals) -> RecordType],
         Assign(t, ins, outs, reveals, records)
  PROVE  /\ inscriptions' \in [Known(t, reveals) -> RecordType]
         /\ \A i \in Known(t, reveals) :
              /\ inscriptions'[i].parents = records[i].parents /\ inscriptions'[i].parent = records[i].parent
              /\ inscriptions'[i].children = records[i].children
<1> DEFINE K == Known(t, reveals)
           M == Moving(t, ins, reveals)
           l(m) == IF Place(m, outs) = 0 THEN Burned ELSE <<t, Place(m, outs)>>
           w(m) == IF Place(m, outs) = 0 THEN NoAddress ELSE outs[Place(m, outs)].to
<1>1. Assigned(t, ins, outs, reveals, records)
  BY AssignIs
<1>2. /\ DOMAIN inscriptions' = K
      /\ \A i \in K : (\A m \in M : m.id # i) => inscriptions'[i] = records[i]
      /\ \A m \in M : inscriptions'[m.id] = [records[m.id] EXCEPT !.location = l(m), !.owner = w(m)]
  BY <1>1, Zenon DEF Assigned
<1>3. \A m \in M : m.at \in Nat /\ m.id \in K
  BY MovingIs
<1>4. ASSUME NEW m \in M PROVE l(m) \in TxOut \cup {Burned} /\ w(m) \in Holder
  <2>1. Place(m, outs) \in 0 .. Len(outs) /\ Len(outs) \in 0 .. MaxOuts /\ \A k \in 1 .. Len(outs) : outs[k].to \in Holder
    BY <1>3, PlaceIs, OutputsSeq
  <2>2. t \in 0 .. MaxTxs /\ MaxOuts \in Nat
    BY InscriptionsAssumption DEF ChainOK
  <2>3. CASE Place(m, outs) = 0
    BY <2>3 DEF Holder
  <2>4. CASE Place(m, outs) # 0
    <3>1. Place(m, outs) \in 1 .. Len(outs) /\ Place(m, outs) \in 1 .. MaxOuts
      BY <2>1, <2>2, <2>4
    <3> QED BY <2>1, <2>2, <2>4, <3>1 DEF TxOut
  <2> QED BY <2>3, <2>4
<1> HIDE DEF K, M, l, w
<1>5. ASSUME NEW i \in K
      PROVE  /\ inscriptions'[i] \in RecordType
             /\ inscriptions'[i].parents = records[i].parents /\ inscriptions'[i].parent = records[i].parent
             /\ inscriptions'[i].children = records[i].children
  <2> DEFINE r == records[i]
  <2>1. r \in RecordType
    BY DEF K
  <2>2. CASE \A m \in M : m.id # i
    BY <1>2, <2>1, <2>2
  <2>3. CASE \E m \in M : m.id = i
    <3>1. PICK m \in M : m.id = i
      BY <2>3
    <3> DEFINE x == l(m)
               y == w(m)
    <3>2. inscriptions'[i] = [r EXCEPT !.location = x, !.owner = y]
      BY <1>2, <3>1
    <3>3. x \in TxOut \cup {Burned} /\ y \in Holder
      BY <1>4
    <3> HIDE DEF x, y, r
    <3>4. [r EXCEPT !.location = x, !.owner = y] \in RecordType
      <4> DEFINE L == TxOut \cup {Burned}
      <4>1. x \in L
        BY <3>3
      <4> HIDE DEF L
      <4>2. r \in [number : 0 .. MaxTxs - 1, parents : Seq(1 .. MaxTxs), parent : 0 .. MaxTxs,
                   children : Seq(1 .. MaxTxs), location : L, owner : Holder]
        BY <2>1 DEF RecordType, L
      <4>3. [r EXCEPT !.location = x, !.owner = y]
              \in [number : 0 .. MaxTxs - 1, parents : Seq(1 .. MaxTxs), parent : 0 .. MaxTxs,
                   children : Seq(1 .. MaxTxs), location : L, owner : Holder]
        BY <3>3, <4>1, <4>2
      <4> QED BY <4>3 DEF RecordType, L
    <3>5. [r EXCEPT !.location = x, !.owner = y].parents = r.parents
          /\ [r EXCEPT !.location = x, !.owner = y].parent = r.parent
          /\ [r EXCEPT !.location = x, !.owner = y].children = r.children
      BY <2>1 DEF RecordType
    <3> QED BY <3>2, <3>4, <3>5 DEF r
  <2> QED BY <2>2, <2>3
<1>6. inscriptions' = [i \in DOMAIN inscriptions' |-> inscriptions'[i]]
  BY DEF Assign
<1>7. inscriptions' \in [K -> RecordType]
  <2> HIDE DEF RecordType
  <2> QED BY <1>2, <1>5, <1>6
<1> QED BY <1>5, <1>7 DEF K

\* The units and the company of the inscriptions after a transaction.
UnitsAfter(t, ins, reveals) == [i \in Known(t, reveals) |-> Unit(t, ins, reveals, i)]
BesideAfter(t, ins, reveals) ==
  [i \in Known(t, reveals) |->
     IF reveals /\ i = t THEN {p \in Ids : unit[p] \in Range(Units(ins))} ELSE beside[i]]

\* The records stay in order, and their parents are those whose units went in.
LEMMA RecordsAfter ==
  ASSUME ChainOK, RecordsOK, IndexOK, ParentsWereSpent, txs < MaxTxs, NEW ins \in Seq(DOMAIN coins), Spends(ins),
         NEW outs \in Outputs, NEW claims \in Seq(1 .. MaxTxs), NEW reveals \in BOOLEAN, NEW t, t = txs + 1, txs' = t,
         unit' = UnitsAfter(t, ins, reveals), beside' = BesideAfter(t, ins, reveals),
         Assign(t, ins, outs, reveals, WithReveal(t, ins, reveals, claims))
  PROVE  RecordsOK' /\ ParentsWereSpent'
<1> USE DEF UnitsAfter, BesideAfter
<1> DEFINE K == Known(t, reveals)
           records == WithReveal(t, ins, reveals, claims)
           counts(p) == reveals /\ \E k \in Verified(ins, claims) : claims[k] = p
           pool == Units(ins)
           U(i) == Unit(t, ins, reveals, i)
           rec(i) == inscriptions'[i]
<1>1. /\ t \notin Ids /\ t \in 1 .. MaxTxs
      /\ records \in [K -> RecordType]
      /\ \A i \in Ids :
           /\ records[i].parents = inscriptions[i].parents /\ records[i].parent = inscriptions[i].parent
           /\ Range(records[i].children) = Range(inscriptions[i].children) \cup (IF counts(i) THEN {t} ELSE {})
      /\ reveals => /\ records[t].parents = claims /\ records[t].children = <<>>
                    /\ records[t].parent = FirstOf(claims, Verified(ins, claims))
  <2>1. Revealed(t, ins, reveals, claims)
    BY RevealIs
  <2> QED BY <2>1, Zenon DEF Revealed
<1>2. /\ inscriptions' \in [K -> RecordType]
      /\ \A i \in K : rec(i).parents = records[i].parents /\ rec(i).parent = records[i].parent
                      /\ rec(i).children = records[i].children
  <2> DEFINE R == records
  <2>1. R \in [Known(t, reveals) -> RecordType] /\ Assign(t, ins, outs, reveals, R)
    BY <1>1
  <2> HIDE DEF R
  <2>2. /\ inscriptions' \in [Known(t, reveals) -> RecordType]
        /\ \A i \in Known(t, reveals) :
             /\ inscriptions'[i].parents = R[i].parents /\ inscriptions'[i].parent = R[i].parent
             /\ inscriptions'[i].children = R[i].children
    BY <1>1, <2>1, RecordIs
  <2> QED BY <2>2, Zenon DEF R
<1>3. InputIds(ins) = {i \in Ids : unit[i] \in Range(pool)}
  BY InputIdsAre
<1>4. Verified(ins, claims) = Among(claims, InputIds(ins))
  BY DEF Verified
<1>5. /\ \A i \in Ids : i \in K /\ i # t /\ U(i) = unit[i]
      /\ \A i \in K : i \notin Ids => i = t /\ reveals
      /\ reveals => IF Len(pool) = 0 THEN U(t) = 0 ELSE 1 \in 1 .. Len(pool) /\ U(t) = pool[1]
  <2> HIDE DEF records, counts
  <2>1. t \notin Ids
    BY <1>1
  <2>2. UnitsKept(t, ins, reveals)
    BY <2>1, UnitIs
  <2> QED BY <2>2, Zenon DEF UnitsKept
<1>6. /\ Ids \subseteq 1 .. txs /\ \A p \in Ids : Range(inscriptions[p].children) \subseteq Ids
      /\ unit \in [Ids -> 0 .. Total] /\ beside \in [Ids -> SUBSET Ids]
  BY DEF RecordsOK
<1>7. pool \in Seq(1 .. Total) /\ 1 .. Total \subseteq 0 .. Total /\ 0 \in 0 .. Total
  <2>1. Total \in Nat
    <3>1. Funds \in Seq(Nat)
      BY InscriptionsAssumption
    <3>2. PICK up : SumsTo(up, Funds) /\ AddUp(Funds) = up[Len(Funds)]
      BY <3>1, SumSteps
    <3>3. up \in [0 .. Len(Funds) -> Nat] /\ Len(Funds) \in 0 .. Len(Funds)
      BY <3>1, <3>2 DEF SumsTo
    <3> QED BY <3>2, <3>3 DEF Total
  <2> QED BY <2>1, PoolOnce
<1>8. DOMAIN inscriptions' = K
  BY <1>2
<1>9. Ids' = K
  BY <1>8 DEF Ids
<1>10. \A i \in K : beside'[i] = IF reveals /\ i = t THEN InputIds(ins) ELSE beside[i]
  BY <1>3
<1> HIDE DEF K, records, counts, pool, U, rec
<1>11. ASSUME NEW i \in K PROVE U(i) \in 0 .. Total
  <2>1. CASE i \in Ids
    BY <1>5, <1>6, <2>1
  <2>2. CASE i \notin Ids
    <3> DEFINE S == 1 .. Total
    <3>1. pool \in Seq(S) /\ (U(i) = 0 \/ (1 \in 1 .. Len(pool) /\ U(i) = pool[1]))
      BY <1>5, <1>7, <2>2
    <3>2. S \subseteq 0 .. Total
      BY <1>7
    <3> HIDE DEF S
    <3>3. U(i) = 0 \/ U(i) \in S
      BY <3>1
    <3> QED BY <1>7, <3>2, <3>3
  <2> QED BY <2>1, <2>2
<1>12. K \subseteq 1 .. txs'
  <2>1. txs \in Nat
    BY InscriptionsAssumption DEF ChainOK
  <2>2. t \in 1 .. t /\ 1 .. txs \subseteq 1 .. t
    BY <2>1
  <2> QED BY <1>5, <1>6, <2>2
<1>13. ASSUME NEW p \in K
       PROVE  Range(rec(p).children) = IF p = t THEN {} ELSE Range(inscriptions[p].children)
                                                             \cup (IF counts(p) THEN {t} ELSE {})
  <2>1. CASE p = t
    <3>1. rec(p).children = <<>>
      BY <1>1, <1>2, <1>5, <2>1
    <3>2. Range(<<>>) = {}
      BY DEF Range
    <3> QED BY <2>1, <3>1, <3>2
  <2>2. CASE p # t
    <3>1. p \in Ids
      BY <1>5, <2>2
    <3>2. rec(p).children = records[p].children
      BY <1>2
    <3> QED BY <1>1, <2>2, <3>1, <3>2
  <2> QED BY <2>1, <2>2
<1>14. \A p \in K : Range(rec(p).children) \subseteq K
  <2> SUFFICES ASSUME NEW p \in K, NEW c \in Range(rec(p).children) PROVE c \in K
    OBVIOUS
  <2>1. p # t /\ p \in Ids
    BY <1>5, <1>13
  <2>2. c \in Range(inscriptions[p].children) \/ (counts(p) /\ c = t)
    BY <1>13, <2>1
  <2>3. counts(p) => t \in K
    BY Zenon DEF counts, K, Known
  <2> QED BY <1>5, <1>6, <2>1, <2>2, <2>3
<1>15. unit' \in [K -> 0 .. Total]
  BY <1>11 DEF K, U
<1>16. beside' \in [K -> SUBSET K]
  <2>1. \A i \in K : beside'[i] \in SUBSET K
    <3> SUFFICES ASSUME NEW i \in K PROVE beside'[i] \in SUBSET K
      OBVIOUS
    <3>1. InputIds(ins) \subseteq Ids
      BY <1>3
    <3>2. Ids \subseteq K
      BY <1>5
    <3>3. CASE reveals /\ i = t
      <4>1. beside'[i] = InputIds(ins)
        BY <1>10, <3>3, Zenon
      <4> QED BY <3>1, <3>2, <4>1
    <3>4. CASE ~(reveals /\ i = t)
      <4>1. beside'[i] = beside[i]
        BY <1>10, <3>4, Zenon
      <4>2. i \in Ids
        BY <1>5, <3>4, Zenon
      <4> QED BY <1>6, <3>2, <4>1, <4>2
    <3> QED BY <3>3, <3>4
  <2>2. beside' = [i \in K |-> beside'[i]]
    BY DEF K
  <2> QED BY <2>1, <2>2
<1>17. RecordsOK'
  <2>1. inscriptions' \in [Ids' -> RecordType'] /\ \A p \in Ids' : Range(inscriptions'[p].children) \subseteq Ids'
    <3>1. RecordType' = RecordType
      BY DEF RecordType, TxOut, Burned, Holder
    <3> QED BY <1>2, <1>9, <1>14, <3>1 DEF rec
  <2>2. Total' = Total
    BY DEF Total
  <2>3. unit' \in [Ids' -> 0 .. Total'] /\ beside' \in [Ids' -> SUBSET Ids'] /\ Ids' \subseteq 1 .. txs'
    BY <1>9, <1>12, <1>15, <1>16, <2>2
  <2> HIDE DEF RecordType, Total, Ids
  <2> QED BY <2>1, <2>3, Zenon DEF RecordsOK
<1> DEFINE true(i) == Among(rec(i).parents, beside'[i])
<1>18. ASSUME NEW i \in Ids
       PROVE  /\ rec(i).parents = inscriptions[i].parents /\ rec(i).parent = inscriptions[i].parent
              /\ true(i) = Among(inscriptions[i].parents, beside[i])
  <2>1. i \in K /\ i # t
    BY <1>5
  <2>2. beside'[i] = beside[i]
    BY <1>10, <2>1, Zenon
  <2>3. rec(i).parents = inscriptions[i].parents /\ rec(i).parent = inscriptions[i].parent
    BY <1>1, <1>2, <2>1
  <2> QED BY <2>2, <2>3
<1>19. ASSUME NEW i \in K, i \notin Ids
       PROVE  /\ rec(i).parents = claims /\ rec(i).parent = FirstOf(claims, Verified(ins, claims))
              /\ true(i) = Verified(ins, claims)
  <2>1. i = t /\ reveals
    BY <1>5, <1>19
  <2>2. beside'[i] = InputIds(ins)
    BY <1>10, <2>1, Zenon
  <2>3. rec(i).parents = claims /\ rec(i).parent = FirstOf(claims, Verified(ins, claims))
    BY <1>1, <1>2, <2>1
  <2> QED BY <1>4, <2>2, <2>3
<1>20. \A i \in Ids :
         /\ inscriptions[i].parent = FirstOf(inscriptions[i].parents, Among(inscriptions[i].parents, beside[i]))
         /\ \A p \in Ids : i \in Range(inscriptions[p].children)
                             <=> \E k \in Among(inscriptions[i].parents, beside[i]) : inscriptions[i].parents[k] = p
  BY DEF ParentsWereSpent
<1>21. \A c, B, k : k \in Among(c, B) => c[k] \in B
  BY DEF Among
<1> HIDE DEF true
<1>22. ASSUME NEW i \in K PROVE rec(i).parent = FirstOf(rec(i).parents, true(i))
  <2>1. CASE i \in Ids
    BY <1>18, <1>20, <2>1
  <2>2. CASE i \notin Ids
    BY <1>19, <2>2
  <2> QED BY <2>1, <2>2
<1>23. ASSUME NEW i \in K, NEW p \in K
       PROVE  i \in Range(rec(p).children) <=> \E k \in true(i) : rec(i).parents[k] = p
  <2>1. ASSUME NEW k \in true(i), rec(i).parents[k] = p PROVE p \in Ids
    <3>1. p \in beside'[i]
      BY <1>21, <2>1 DEF true
    <3>2. beside'[i] \subseteq Ids
      <4>1. CASE i \in Ids
        <5>1. beside'[i] = beside[i]
          BY <1>5, <1>10, <4>1, Zenon
        <5> QED BY <1>6, <4>1, <5>1
      <4>2. CASE i \notin Ids
        <5>1. i = t /\ reveals
          BY <1>5, <4>2
        <5>2. beside'[i] = InputIds(ins)
          BY <1>10, <5>1, Zenon
        <5> QED BY <1>3, <5>2
      <4> QED BY <4>1, <4>2
    <3> QED BY <3>1, <3>2
  <2>2. CASE p \notin Ids
    <3>1. p = t
      BY <1>5, <2>2
    <3>2. Range(rec(p).children) = {}
      BY <1>13, <3>1
    <3> QED BY <2>1, <2>2, <3>2
  <2>3. CASE p \in Ids
    <3>1. p # t /\ Range(rec(p).children) = Range(inscriptions[p].children) \cup (IF counts(p) THEN {t} ELSE {})
      BY <1>5, <1>13, <2>3
    <3>2. CASE i \in Ids
      <4>1. i # t
        BY <1>5, <3>2
      <4>2. i \in Range(rec(p).children) <=> i \in Range(inscriptions[p].children)
        BY <3>1, <4>1
      <4> QED BY <1>18, <1>20, <2>3, <3>2, <4>2
    <3>3. CASE i \notin Ids
      <4>1. i = t /\ reveals
        BY <1>5, <3>3
      <4>2. t \notin Range(inscriptions[p].children)
        BY <1>1, <1>6, <2>3
      <4>3. i \in Range(rec(p).children) <=> counts(p)
        BY <3>1, <4>1, <4>2
      <4>4. counts(p) <=> \E k \in Verified(ins, claims) : claims[k] = p
        BY <4>1 DEF counts
      <4> QED BY <1>19, <3>3, <4>3, <4>4
    <3> QED BY <3>2, <3>3
  <2> QED BY <2>2, <2>3
<1>24. ParentsWereSpent'
  BY <1>9, <1>22, <1>23 DEF ParentsWereSpent, rec, true
<1> QED BY <1>17, <1>24

-----------------------------------------------------------------------------
(* The tip.                                                                 *)

\* The coins of a transaction are as its outputs say.
Paid(t, ins, outs) ==
  /\ \A o \in DOMAIN coins : o \notin Range(ins) => o \in DOMAIN coins' /\ coins'[o] = coins[o]
  /\ \A k \in 1 .. Len(outs) :
       /\ <<t, k>> \in DOMAIN coins' /\ coins'[<<t, k>>].to = outs[k].to
       /\ Len(coins'[<<t, k>>].units) = outs[k].value /\ <<t, k>> \in TxOut

\* The chain after a transaction: what it spends is gone, what it pays is there.
LEMMA PaidIs ==
  ASSUME ChainOK, txs < MaxTxs, NEW ins \in Seq(DOMAIN coins), Spends(ins), NEW outs \in Outputs, Pays(ins, outs),
         NEW t, t = txs + 1, MoveCoins(t, ins, outs)
  PROVE  Paid(t, ins, outs)
<1>1. MoveCoins(txs + 1, ins, outs)
  OBVIOUS
<1>2. /\ DOMAIN coins' = (DOMAIN coins \ Range(ins)) \cup {<<txs + 1, k>> : k \in 1 .. Len(outs)}
      /\ \A o \in DOMAIN coins \ Range(ins) : coins'[o] = coins[o]
      /\ \A k \in 1 .. Len(outs) :
           /\ coins'[<<txs + 1, k>>] = [units |-> coins'[<<txs + 1, k>>].units, to |-> outs[k].to]
           /\ Len(coins'[<<txs + 1, k>>].units) = outs[k].value
  BY <1>1, MoveIs
<1>3. ASSUME NEW k \in 1 .. Len(outs)
      PROVE  /\ <<t, k>> \in DOMAIN coins' /\ coins'[<<t, k>>].to = outs[k].to
             /\ Len(coins'[<<t, k>>].units) = outs[k].value /\ <<t, k>> \in TxOut
  <2> DEFINE w == <<txs + 1, k>>
             x == coins'[w].units
  <2>1. coins'[w] = [units |-> x, to |-> outs[k].to] /\ Len(x) = outs[k].value /\ w \in DOMAIN coins'
    BY <1>2
  <2>2. w = <<t, k>>
    OBVIOUS
  <2>3. w \in TxOut
    <3>1. k \in 1 .. MaxOuts /\ t \in 0 .. MaxTxs
      BY OutputsSeq, InscriptionsAssumption DEF ChainOK
    <3> HIDE DEF w
    <3> QED BY <2>2, <3>1 DEF TxOut
  <2>4. Len(coins'[w].units) = outs[k].value
    BY <2>1
  <2> HIDE DEF w, x
  <2>5. coins'[w].to = outs[k].to
    BY <2>1
  <2> QED BY <2>1, <2>2, <2>3, <2>4, <2>5
<1>4. \A o \in DOMAIN coins : o \notin Range(ins) => o \in DOMAIN coins' /\ coins'[o] = coins[o]
  BY <1>2
<1> QED BY <1>3, <1>4 DEF Paid

TipType == [outpoint : TxOut, address : Holder, value : Nat]
TipOK == (alphaTip # NoTip => alphaTip \in TipType) /\ TipIsTheCarrier

\* The tip goes where the carrier goes.
LEMMA TipAfter ==
  ASSUME ChainOK, RecordsOK, IndexOK, TipOK, txs < MaxTxs, NEW ins \in Seq(DOMAIN coins), Spends(ins),
         NEW outs \in Outputs, Pays(ins, outs), NEW claims \in Seq(1 .. MaxTxs), NEW reveals \in BOOLEAN,
         NEW t, t = txs + 1, MoveCoins(t, ins, outs),
         Assign(t, ins, outs, reveals, WithReveal(t, ins, reveals, claims)), FollowAlphaTip(t, ins, outs)
  PROVE  TipOK'
<1> DEFINE old == DOMAIN coins \ Range(ins)
           Here2(tip) == tip \in TipType /\ tip.outpoint \in DOMAIN coins'
                         /\ coins'[tip.outpoint].to = tip.address /\ Len(coins'[tip.outpoint].units) = tip.value
<1>1. /\ \A o \in DOMAIN coins : o \notin Range(ins) => o \in DOMAIN coins' /\ coins'[o] = coins[o]
      /\ \A k \in 1 .. Len(outs) :
           /\ <<t, k>> \in DOMAIN coins' /\ coins'[<<t, k>>].to = outs[k].to
           /\ Len(coins'[<<t, k>>].units) = outs[k].value /\ <<t, k>> \in TxOut
  <2>1. Paid(t, ins, outs)
    BY PaidIs
  <2> QED BY <2>1, Zenon DEF Paid
<1>2. Len(outs) \in Nat /\ \A k \in 1 .. Len(outs) : outs[k].value \in Nat /\ outs[k].to \in Holder
  BY OutputsSeq, InscriptionsAssumption
<1> HIDE DEF Here2
<1>3. ASSUME NEW k \in 1 .. Len(outs), NEW tip,
             tip = [outpoint |-> <<t, k>>, address |-> outs[k].to, value |-> outs[k].value]
      PROVE  Here2(tip)
  BY <1>1, <1>2, <1>3 DEF Here2, TipType
<1>4. SUFFICES alphaTip' = NoTip \/ Here2(alphaTip')
  <2>1. TipType' = TipType /\ NoTip' = NoTip
    BY DEF TipType, TxOut, Holder, NoTip
  <2>2. Here2(alphaTip') => TipOK'
    BY <2>1 DEF Here2, TipOK, TipIsTheCarrier, Value
  <2>3. alphaTip' = NoTip => TipOK'
    BY <2>1 DEF TipOK, TipIsTheCarrier
  <2> QED BY <2>2, <2>3
<1>5. CASE alphaTip = NoTip
  <2>1. CASE t # AlphaRoot \/ t \notin DOMAIN inscriptions'
    BY <1>5, <2>1 DEF FollowAlphaTip
  <2>2. CASE ~(t # AlphaRoot \/ t \notin DOMAIN inscriptions')
    <3> DEFINE o == inscriptions'[t].location
    <3>1. alphaTip' = IF o = Burned THEN NoTip
                      ELSE [outpoint |-> o, address |-> outs[o[2]].to, value |-> outs[o[2]].value]
      BY <1>5, <2>2 DEF FollowAlphaTip
    <3>2. CASE o = Burned
      BY <3>1, <3>2
    <3>3. CASE o # Burned
      <4> DEFINE records == WithReveal(t, ins, reveals, claims)
                 m == [id |-> t, at |-> 0]
      <4>1. t \notin Ids /\ records \in [Known(t, reveals) -> RecordType]
        <5>1. Revealed(t, ins, reveals, claims)
          BY RevealIs
        <5> QED BY <5>1, Zenon DEF Revealed
      <4> HIDE DEF records
      <4>2. Assigned(t, ins, outs, reveals, records)
        BY <4>1, AssignIs DEF records
      <4>3. m \in Moving(t, ins, reveals) /\ t \in Known(t, reveals)
        <5>1. t \in Known(t, reveals)
          BY <2>2, <4>2, Zenon DEF Assigned
        <5>2. UnitsKept(t, ins, reveals)
          BY <4>1, UnitIs
        <5> QED BY <4>1, <5>1, <5>2, Zenon DEF UnitsKept
      <4>4. m.id = t /\ m.at = 0
        OBVIOUS
      <4> HIDE DEF m
      <4> DEFINE l == IF Place(m, outs) = 0 THEN Burned ELSE <<t, Place(m, outs)>>
                 w == IF Place(m, outs) = 0 THEN NoAddress ELSE outs[Place(m, outs)].to
                 r == records[t]
      <4>5. inscriptions'[t] = [r EXCEPT !.location = l, !.owner = w]
        <5>1. inscriptions'[m.id] = [records[m.id] EXCEPT !.location = l, !.owner = w]
          BY <4>2, <4>3, Zenon DEF Assigned
        <5> QED BY <4>4, <5>1, Zenon
      <4>6. r \in RecordType
        BY <4>1, <4>3
      <4> HIDE DEF l, w, r
      <4>7. o = l
        BY <4>5, <4>6 DEF RecordType
      <4>8. Place(m, outs) \in 1 .. Len(outs) /\ o = <<t, Place(m, outs)>>
        <5>1. Place(m, outs) \in 0 .. Len(outs)
          BY <4>4, PlaceIs
        <5>2. Place(m, outs) # 0 /\ l = <<t, Place(m, outs)>>
          BY <3>3, <4>7 DEF l
        <5> QED BY <1>2, <4>7, <5>1, <5>2
      <4>9. o[2] = Place(m, outs)
        BY <4>8
      <4> HIDE DEF o
      <4> DEFINE k == Place(m, outs)
      <4>10. alphaTip' = [outpoint |-> <<t, k>>, address |-> outs[k].to, value |-> outs[k].value]
        BY <3>1, <3>3, <4>8, <4>9
      <4> QED BY <1>3, <4>8, <4>10
    <3> QED BY <3>2, <3>3
  <2> QED BY <2>1, <2>2
<1>6. CASE alphaTip # NoTip /\ alphaTip.outpoint \notin Range(ins)
  <2>1. alphaTip' = alphaTip
    BY <1>6 DEF FollowAlphaTip
  <2>2. /\ alphaTip \in TipType /\ alphaTip.outpoint \in DOMAIN coins
        /\ coins[alphaTip.outpoint].to = alphaTip.address /\ Len(coins[alphaTip.outpoint].units) = alphaTip.value
    BY <1>6 DEF TipOK, TipIsTheCarrier, Value
  <2>3. alphaTip.outpoint \in DOMAIN coins' /\ coins'[alphaTip.outpoint] = coins[alphaTip.outpoint]
    BY <1>1, <1>6, <2>2
  <2>4. Here2(alphaTip)
    BY <2>2, <2>3 DEF Here2
  <2> QED BY <2>1, <2>4
<1>7. CASE alphaTip # NoTip /\ alphaTip.outpoint \in Range(ins)
  <2>1. CASE Successors(outs) = {}
    BY <1>7, <2>1 DEF FollowAlphaTip
  <2>2. CASE Successors(outs) # {}
    <3> DEFINE k == Max(Successors(outs))
               p == <<t, k>>
    <3>1. alphaTip' = [alphaTip EXCEPT !.outpoint = p]
      BY <1>7, <2>2 DEF FollowAlphaTip
    <3>2. Successors(outs) \in SUBSET (0 .. Len(outs))
      BY <1>2 DEF Successors
    <3>3. k \in Successors(outs)
      BY <1>2, <2>2, <3>2, Greatest
    <3>4. k \in 1 .. Len(outs) /\ outs[k].to = alphaTip.address /\ outs[k].value = alphaTip.value
      BY <3>3 DEF Successors, Same
    <3>5. alphaTip \in TipType
      BY <1>7 DEF TipOK
    <3> HIDE DEF k, p
    <3>6. alphaTip' = [outpoint |-> p, address |-> alphaTip.address, value |-> alphaTip.value]
      BY <3>1, <3>5 DEF TipType
    <3> QED BY <1>3, <3>4, <3>6 DEF p
  <2> QED BY <2>1, <2>2
<1> QED BY <1>5, <1>6, <1>7

-----------------------------------------------------------------------------
(* The ledger.                                                              *)

\* Where a list has one of some things.
Hits(s, T) == {n \in DOMAIN s : s[n] \in T}

\* There are so many of them; all of the list, if it has nothing else.
LEMMA HitsFinite ==
  ASSUME NEW V, NEW s \in Seq(V), NEW T
  PROVE  /\ IsFiniteSet(Hits(s, T)) /\ Cardinality(Hits(s, T)) \in Nat /\ Cardinality(Hits(s, T)) <= Len(s)
         /\ (\A n \in 1 .. Len(s) : s[n] \in T) => Cardinality(Hits(s, T)) = Len(s)
<1>1. Len(s) \in Nat /\ DOMAIN s = 1 .. Len(s)
  OBVIOUS
<1>2. IsFiniteSet(1 .. Len(s)) /\ Cardinality(1 .. Len(s)) = Len(s)
  <2> DEFINE n == Len(s)
  <2>1. n \in Nat /\ 1 \in Int /\ n \in Int
    BY <1>1
  <2> HIDE DEF n
  <2>2. IsFiniteSet(1 .. n) /\ Cardinality(1 .. n) = n
    BY <2>1, FS_Interval
  <2> QED BY <2>2 DEF n
<1>3. Hits(s, T) \subseteq 1 .. Len(s)
  BY <1>1 DEF Hits
<1>4. (\A n \in 1 .. Len(s) : s[n] \in T) => Hits(s, T) = 1 .. Len(s)
  BY <1>1 DEF Hits
<1>5. IsFiniteSet(Hits(s, T)) /\ Cardinality(Hits(s, T)) <= Cardinality(1 .. Len(s))
  BY <1>2, <1>3, FS_Subset
<1> QED BY <1>2, <1>4, <1>5, FS_CardinalityType

\* A list that goes on with at most one more of them.
LEMMA HitsMore ==
  ASSUME NEW V, NEW s \in Seq(V), NEW e \in Seq(V), NEW T,
         \A m, n \in 1 .. Len(e) : e[m] \in T /\ e[n] \in T => m = n
  PROVE  Cardinality(Hits(s \o e, T))
           = Cardinality(Hits(s, T)) + (IF \E n \in 1 .. Len(e) : e[n] \in T THEN 1 ELSE 0)
<1> DEFINE c == s \o e
<1>1. c \in Seq(V) /\ Len(c) = Len(s) + Len(e) /\ Len(s) \in Nat /\ Len(e) \in Nat
  OBVIOUS
<1>2. \A i \in 1 .. Len(s) + Len(e) : c[i] = IF i <= Len(s) THEN s[i] ELSE e[i - Len(s)]
  BY ConcatProperties
<1>3. DOMAIN c = 1 .. Len(c) /\ DOMAIN s = 1 .. Len(s)
  BY <1>1
<1> HIDE DEF c
<1>4. IsFiniteSet(Hits(s, T)) /\ Cardinality(Hits(s, T)) \in Nat
  BY HitsFinite
<1>5. ASSUME NEW i \in 1 .. Len(s) PROVE i \in Hits(c, T) <=> i \in Hits(s, T)
  <2>1. i \in 1 .. Len(c) /\ c[i] = s[i]
    BY <1>1, <1>2
  <2> QED BY <1>3, <2>1 DEF Hits
<1>6. ASSUME NEW i \in 1 .. Len(e) PROVE Len(s) + i \in Hits(c, T) <=> e[i] \in T
  <2>1. Len(s) + i \in 1 .. Len(c) /\ ~(Len(s) + i <= Len(s)) /\ (Len(s) + i) - Len(s) = i
    BY <1>1
  <2>2. c[Len(s) + i] = e[i]
    BY <1>1, <1>2, <2>1
  <2> QED BY <1>3, <2>1, <2>2 DEF Hits
<1>7. ASSUME NEW i \in Hits(c, T), i \notin 1 .. Len(s) PROVE \E n \in 1 .. Len(e) : i = Len(s) + n /\ e[n] \in T
  <2>1. i \in 1 .. Len(c)
    BY <1>3 DEF Hits
  <2>2. i - Len(s) \in 1 .. Len(e) /\ i = Len(s) + (i - Len(s))
    BY <1>1, <1>7, <2>1
  <2> QED BY <1>6, <2>2
<1>8. Hits(s, T) \subseteq 1 .. Len(s)
  BY <1>3 DEF Hits
<1>9. CASE \E n \in 1 .. Len(e) : e[n] \in T
  <2>1. PICK n \in 1 .. Len(e) : e[n] \in T
    BY <1>9
  <2>2. Len(s) + n \notin 1 .. Len(s)
    BY <1>1
  <2>3. Hits(c, T) = Hits(s, T) \cup {Len(s) + n}
    <3>1. ASSUME NEW i \in Hits(c, T) PROVE i \in Hits(s, T) \cup {Len(s) + n}
      <4>1. CASE i \in 1 .. Len(s)
        BY <1>5, <4>1
      <4>2. CASE i \notin 1 .. Len(s)
        <5>1. PICK m \in 1 .. Len(e) : i = Len(s) + m /\ e[m] \in T
          BY <1>7, <4>2
        <5> QED BY <2>1, <5>1
      <4> QED BY <4>1, <4>2
    <3>2. Hits(s, T) \subseteq Hits(c, T)
      BY <1>5, <1>8
    <3>3. Len(s) + n \in Hits(c, T)
      BY <1>6, <2>1
    <3> QED BY <3>1, <3>2, <3>3
  <2>4. Len(s) + n \notin Hits(s, T)
    BY <1>8, <2>2
  <2> QED BY <1>4, <1>9, <2>3, <2>4, FS_AddElement DEF c
<1>10. CASE ~\E n \in 1 .. Len(e) : e[n] \in T
  <2>1. Hits(c, T) = Hits(s, T)
    BY <1>5, <1>7, <1>8, <1>10
  <2> QED BY <1>4, <1>10, <2>1 DEF c
<1> QED BY <1>9, <1>10

\* What counts goes up with what is added.
LEMMA CountIs ==
  ASSUME NEW s \in Seq(Nat), NEW asOf \in Nat
  PROVE  /\ Count(s, asOf) \in Nat /\ Count(s, asOf) <= Len(s)
         /\ (\A n \in 1 .. Len(s) : s[n] <= asOf) => Count(s, asOf) = Len(s)
         /\ \A h \in Nat : /\ Append(s, h) \in Seq(Nat) /\ Len(Append(s, h)) = Len(s) + 1
                           /\ Count(Append(s, h), asOf) = Count(s, asOf) + (IF h <= asOf THEN 1 ELSE 0)
                           /\ \A n \in 1 .. Len(s) + 1 : Append(s, h)[n] = IF n <= Len(s) THEN s[n] ELSE h
<1>1. \A c \in Seq(Nat) : Count(c, asOf) = Cardinality(Hits(c, 0 .. asOf))
  <2> SUFFICES ASSUME NEW c \in Seq(Nat) PROVE Count(c, asOf) = Cardinality(Hits(c, 0 .. asOf))
    OBVIOUS
  <2>1. \A n \in DOMAIN c : c[n] \in Nat
    OBVIOUS
  <2>2. {n \in DOMAIN c : c[n] <= asOf} = {n \in DOMAIN c : c[n] \in 0 .. asOf}
    BY <2>1
  <2> QED BY <2>2 DEF Count, Hits
<1>2. \A n \in 1 .. Len(s) : s[n] \in Nat
  OBVIOUS
<1>3. (\A n \in 1 .. Len(s) : s[n] <= asOf) => \A n \in 1 .. Len(s) : s[n] \in 0 .. asOf
  BY <1>2
<1>4. ASSUME NEW h \in Nat
      PROVE  /\ Append(s, h) \in Seq(Nat) /\ Len(Append(s, h)) = Len(s) + 1
             /\ Count(Append(s, h), asOf) = Count(s, asOf) + (IF h <= asOf THEN 1 ELSE 0)
             /\ \A n \in 1 .. Len(s) + 1 : Append(s, h)[n] = IF n <= Len(s) THEN s[n] ELSE h
  <2> DEFINE e == <<h>>
             T == 0 .. asOf
  <2>1. e \in Seq(Nat) /\ Len(e) = 1 /\ e[1] = h /\ Append(s, h) = s \o e
    BY AppendIsConcat
  <2>2. Append(s, h) \in Seq(Nat) /\ Len(Append(s, h)) = Len(s) + 1
    OBVIOUS
  <2>3. (\E n \in 1 .. Len(e) : e[n] \in T) <=> h <= asOf
    BY <2>1
  <2>4. \A m, n \in 1 .. Len(e) : e[m] \in T /\ e[n] \in T => m = n
    BY <2>1
  <2> HIDE DEF e, T
  <2>5. Cardinality(Hits(s \o e, T)) = Cardinality(Hits(s, T)) + (IF \E n \in 1 .. Len(e) : e[n] \in T THEN 1 ELSE 0)
    BY <2>1, <2>4, HitsMore
  <2>6. \A n \in 1 .. Len(s) + 1 : Append(s, h)[n] = IF n <= Len(s) THEN s[n] ELSE h
    BY AppendProperties
  <2>7. Cardinality(Hits(s \o e, T)) = Cardinality(Hits(s, T)) + (IF h <= asOf THEN 1 ELSE 0)
    BY <2>3, <2>5
  <2>8. Count(Append(s, h), asOf) = Cardinality(Hits(s \o e, T)) /\ Count(s, asOf) = Cardinality(Hits(s, T))
    BY <1>1, <2>1, <2>2 DEF T
  <2> QED BY <2>2, <2>6, <2>7, <2>8
<1>5. Count(s, asOf) \in Nat /\ Count(s, asOf) <= Len(s)
  BY <1>1, HitsFinite
<1>6. (\A n \in 1 .. Len(s) : s[n] <= asOf) => Count(s, asOf) = Len(s)
  BY <1>1, <1>3, HitsFinite
<1> QED BY <1>4, <1>5, <1>6

EntryType == [who : Addresses, did : Actions, at : Nat, tx : Nat]
Done(a, k, asOf) == {n \in DOMAIN history : history[n].who = a /\ history[n].did = k /\ history[n].at <= asOf}
Capped(k, d) == IF d < MaxTimes[k] THEN d ELSE MaxTimes[k]
Kept(s, k, h) == s \in Seq(Nat) /\ Len(s) <= MaxTimes[k] /\ \A n \in 1 .. Len(s) : s[n] <= h
LedgerOK ==
  /\ DOMAIN actors \subseteq Addresses /\ IsFiniteSet(DOMAIN actors)
  /\ actors \in [DOMAIN actors -> [Actions -> Seq(Nat)]]
  /\ \A a \in DOMAIN actors : \A k \in Actions : Kept(actors[a][k], k, height)
  /\ history \in Seq(EntryType) /\ \A n \in 1 .. Len(history) : history[n].at <= height
  /\ \A asOf \in Nat, a \in Addresses, k \in Actions :
       Count(Heights(a)[k], asOf) = Capped(k, Cardinality(Done(a, k, asOf)))

\* What a transaction earns: at its height, and each action once.
Once(e, h) ==
  /\ e \in Seq(EntryType)
  /\ \A n \in 1 .. Len(e) : e[n].at = h
  /\ \A m, n \in 1 .. Len(e) : e[m].did = e[n].did => m = n

\* What a transaction earns is at its height, and each action once.
LEMMA EarnedIs ==
  ASSUME NEW t \in Nat, NEW h \in Nat, NEW ins, NEW took, NEW outs \in Outputs, NEW minted \in 0 .. Len(outs),
         \A i \in DOMAIN inscriptions' : inscriptions'[i].owner \in Holder
  PROVE  Once(Earned(t, h, ins, took, minted, outs), h)
<1> DEFINE rec == inscriptions'[t]
           kind == IF took THEN "etch"
                   ELSE IF AlphaRoot \in Range(rec.parents) /\ alphaTip # NoTip /\ alphaTip.outpoint \in Range(ins)
                   THEN "alpha" ELSE "inscribe"
           X == t \in DOMAIN inscriptions' /\ rec.owner # NoAddress
           Y == minted # 0 /\ outs[minted].to # NoAddress
           x == [who |-> rec.owner, did |-> kind, at |-> h, tx |-> t]
           y == [who |-> outs[minted].to, did |-> "coin", at |-> h, tx |-> t]
<1>1. Earned(t, h, ins, took, minted, outs) = (IF X THEN <<x>> ELSE <<>>) \o (IF Y THEN <<y>> ELSE <<>>)
  BY DEF Earned
<1>2. Actions = {"inscribe", "alpha", "etch", "coin"}
  BY InscriptionsAssumption DEF Actions
<1>3. kind \in {"etch", "alpha", "inscribe"}
  OBVIOUS
<1> HIDE DEF kind
<1>4. X => x \in EntryType
  BY <1>2, <1>3 DEF EntryType, Holder
<1>5. Y => y \in EntryType
  <2> SUFFICES ASSUME Y PROVE y \in EntryType
    OBVIOUS
  <2>1. minted \in 1 .. Len(outs)
    BY OutputsSeq
  <2>2. outs[minted].to \in Addresses
    BY <2>1, OutputsSeq DEF Holder
  <2> QED BY <1>2, <2>2 DEF EntryType
<1>6. x.at = h /\ y.at = h /\ x.did = kind /\ y.did = "coin"
  OBVIOUS
<1>7. x.did # y.did
  BY <1>3, <1>6
<1> HIDE DEF x, y, X, Y, rec
<1>8. ASSUME X, Y PROVE Once(<<x>> \o <<y>>, h)
  <2> DEFINE p == <<x>>
             q == <<y>>
             c == p \o q
  <2>1. p \in Seq(EntryType) /\ q \in Seq(EntryType) /\ Len(p) = 1 /\ Len(q) = 1 /\ p[1] = x /\ q[1] = y
    <3>1. \A z \in EntryType : <<z>> \in Seq(EntryType) /\ Len(<<z>>) = 1 /\ <<z>>[1] = z
      <4> HIDE DEF EntryType
      <4> QED OBVIOUS
    <3>2. x \in EntryType /\ y \in EntryType
      BY <1>4, <1>5, <1>8
    <3> HIDE DEF EntryType
    <3>3. <<x>> \in Seq(EntryType) /\ Len(<<x>>) = 1 /\ <<x>>[1] = x
      BY <3>1, <3>2, Zenon
    <3>4. <<y>> \in Seq(EntryType) /\ Len(<<y>>) = 1 /\ <<y>>[1] = y
      BY <3>1, <3>2, Zenon
    <3> QED BY <3>3, <3>4, Zenon
  <2> HIDE DEF p, q
  <2>2. c \in Seq(EntryType) /\ Len(c) = 2
    <3> HIDE DEF EntryType
    <3>1. c \in Seq(EntryType)
      BY <2>1
    <3>0. p \in Seq(EntryType) /\ q \in Seq(EntryType)
      BY <2>1
    <3>2. Len(c) = Len(p) + Len(q)
      BY <3>0, ConcatProperties, Zenon
    <3> HIDE DEF c
    <3> QED BY <2>1, <3>1, <3>2
  <2>3. c[1] = x /\ c[2] = y
    <3> HIDE DEF EntryType
    <3>1. \A i \in 1 .. Len(p) + Len(q) : c[i] = IF i <= Len(p) THEN p[i] ELSE q[i - Len(p)]
      BY <2>1, ConcatProperties
    <3> HIDE DEF c
    <3> QED BY <2>1, <3>1
  <2> HIDE DEF c
  <2>4. \A n \in 1 .. Len(c) : c[n].at = h
    BY <1>6, <2>2, <2>3
  <2>5. \A m, n \in 1 .. Len(c) : c[m].did = c[n].did => m = n
    BY <1>7, <2>2, <2>3
  <2>6. Once(c, h)
    BY <2>2, <2>4, <2>5 DEF Once
  <2> QED BY <2>6 DEF c, p, q
<1>9. ASSUME NEW z \in EntryType, z.at = h PROVE Once(<<z>>, h)
  <2>1. <<z>> \in Seq(EntryType)
    <3> HIDE DEF EntryType
    <3> QED OBVIOUS
  <2> QED BY <1>9, <2>1 DEF Once
<1>10. Once(<<>>, h)
  BY DEF Once
<1>11. <<x>> \o <<>> = <<x>> /\ <<>> \o <<y>> = <<y>> /\ <<>> \o <<>> = <<>>
  OBVIOUS
<1>12. CASE X /\ Y
  BY <1>1, <1>8, <1>12
<1>13. CASE X /\ ~Y
  BY <1>1, <1>4, <1>6, <1>9, <1>11, <1>13
<1>14. CASE ~X /\ Y
  BY <1>1, <1>5, <1>6, <1>9, <1>11, <1>14
<1>15. CASE ~X /\ ~Y
  BY <1>1, <1>10, <1>11, <1>15
<1> QED BY <1>12, <1>13, <1>14, <1>15

\* The ledger keeps the first of each action and counts no other, whatever snapshot is asked for later.
LEMMA LedgerStep ==
  ASSUME LedgerOK, height \in Nat, NEW h \in {height, height + 1}, height' = h, NEW e, Once(e, h),
         history' = history \o e,
         actors' = [a \in DOMAIN actors \cup {x.who : x \in Range(e)} |->
           [k \in Actions |-> IF \E x \in Range(e) : x.who = a /\ x.did = k
                              THEN Recorded(Heights(a)[k], k, h) ELSE Heights(a)[k]]]
  PROVE  LedgerOK'
<1> DEFINE did(a, k) == \E n \in 1 .. Len(e) : e[n].who = a /\ e[n].did = k
           s(a, k) == Heights(a)[k]
           s2(a, k) == Heights(a)'[k]
           who == {x.who : x \in Range(e)}
<1>1. /\ e \in Seq(EntryType) /\ Len(e) \in Nat /\ DOMAIN e = 1 .. Len(e)
      /\ \A n \in 1 .. Len(e) : e[n] \in EntryType /\ e[n].at = h
      /\ \A m, n \in 1 .. Len(e) : e[m].did = e[n].did => m = n
  <2>1. e \in Seq(EntryType)
    BY DEF Once
  <2>2. Len(e) \in Nat /\ DOMAIN e = 1 .. Len(e) /\ \A n \in 1 .. Len(e) : e[n] \in EntryType
    <3> HIDE DEF EntryType
    <3> QED BY <2>1
  <2> QED BY <2>1, <2>2 DEF Once
<1>2. \A n \in 1 .. Len(e) : e[n].who \in Addresses /\ e[n].did \in Actions
  BY <1>1 DEF EntryType
<1>3. Range(e) = {e[n] : n \in 1 .. Len(e)}
  BY <1>1 DEF Range
<1>4. \A k \in Actions : MaxTimes[k] \in Nat
  BY InscriptionsAssumption DEF Actions
<1>5. h \in Nat /\ height <= h
  OBVIOUS
<1>6. /\ DOMAIN actors \subseteq Addresses /\ IsFiniteSet(DOMAIN actors)
      /\ actors \in [DOMAIN actors -> [Actions -> Seq(Nat)]]
      /\ \A a \in DOMAIN actors : \A k \in Actions : Kept(actors[a][k], k, height)
      /\ history \in Seq(EntryType) /\ \A n \in 1 .. Len(history) : history[n].at <= height
      /\ \A asOf \in Nat, a \in Addresses, k \in Actions : Count(s(a, k), asOf) = Capped(k, Cardinality(Done(a, k, asOf)))
  BY DEF LedgerOK
<1>7. ASSUME NEW a \in Addresses, NEW k \in Actions PROVE Kept(s(a, k), k, height)
  <2>1. CASE a \in DOMAIN actors
    BY <1>6, <2>1 DEF Heights
  <2>2. CASE a \notin DOMAIN actors
    <3>1. s(a, k) = <<>>
      BY <2>2 DEF Heights, NoHeights
    <3>2. Kept(<<>>, k, height)
      BY <1>4 DEF Kept
    <3> QED BY <3>1, <3>2
  <2> QED BY <2>1, <2>2
<1>8. DOMAIN actors' = DOMAIN actors \cup who
  OBVIOUS
<1>9. ASSUME NEW a \in DOMAIN actors', NEW k \in Actions
      PROVE  actors'[a][k] = IF did(a, k) THEN Recorded(s(a, k), k, h) ELSE s(a, k)
  BY <1>3
<1>10. ASSUME NEW a \in Addresses, NEW k \in Actions
       PROVE  s2(a, k) = IF did(a, k) THEN Recorded(s(a, k), k, h) ELSE s(a, k)
  <2>1. CASE a \in DOMAIN actors'
    BY <1>9, <2>1 DEF Heights
  <2>2. CASE a \notin DOMAIN actors'
    <3>1. ~did(a, k)
      BY <1>3, <1>8, <2>2
    <3>2. s2(a, k) = <<>> /\ s(a, k) = <<>>
      BY <1>8, <2>2 DEF Heights, NoHeights
    <3> QED BY <3>1, <3>2
  <2> QED BY <2>1, <2>2
<1>11. actors' = [a \in DOMAIN actors' |-> actors'[a]] /\ \A a \in DOMAIN actors' : DOMAIN actors'[a] = Actions
                 /\ actors'[a] = [k \in Actions |-> actors'[a][k]]
  OBVIOUS
<1>12. ASSUME NEW asOf \in Nat, NEW a \in Addresses, NEW k \in Actions
       PROVE  /\ Cardinality(Done(a, k, asOf)) \in Nat
              /\ Cardinality(Done(a, k, asOf)') = Cardinality(Done(a, k, asOf))
                                                   + (IF did(a, k) /\ h <= asOf THEN 1 ELSE 0)
  <2> DEFINE T == {x \in EntryType : x.who = a /\ x.did = k /\ x.at <= asOf}
             H == history
  <2>1. H \in Seq(EntryType)
    BY <1>6
  <2>2. \A c \in Seq(EntryType) :
          {n \in DOMAIN c : c[n].who = a /\ c[n].did = k /\ c[n].at <= asOf} = Hits(c, T)
    <3> SUFFICES ASSUME NEW c \in Seq(EntryType)
                 PROVE {n \in DOMAIN c : c[n].who = a /\ c[n].did = k /\ c[n].at <= asOf} = Hits(c, T)
      OBVIOUS
    <3>1. \A n \in DOMAIN c : c[n] \in EntryType
      <4> HIDE DEF EntryType
      <4> QED OBVIOUS
    <3> HIDE DEF EntryType
    <3> QED BY <3>1 DEF Hits
  <2>3. history' \in Seq(EntryType)
    <3> HIDE DEF EntryType
    <3> QED BY <1>1, <1>6
  <2>4. Done(a, k, asOf) = Hits(H, T) /\ Done(a, k, asOf)' = Hits(H \o e, T)
    <3>1. Done(a, k, asOf)' = {n \in DOMAIN history' : history'[n].who = a /\ history'[n].did = k /\ history'[n].at <= asOf}
      BY DEF Done
    <3> HIDE DEF T
    <3> QED BY <2>1, <2>2, <2>3, <3>1 DEF Done
  <2>5. \A n \in 1 .. Len(e) : e[n] \in T <=> e[n].who = a /\ e[n].did = k /\ h <= asOf
    BY <1>1
  <2> HIDE DEF T, H
  <2>6. \A m, n \in 1 .. Len(e) : e[m] \in T /\ e[n] \in T => m = n
    BY <1>1, <2>5
  <2>7. Cardinality(Hits(H \o e, T)) = Cardinality(Hits(H, T)) + (IF \E n \in 1 .. Len(e) : e[n] \in T THEN 1 ELSE 0)
    BY <1>1, <2>1, <2>6, HitsMore
  <2>8. (\E n \in 1 .. Len(e) : e[n] \in T) <=> did(a, k) /\ h <= asOf
    BY <2>5
  <2>9. Cardinality(Hits(H, T)) \in Nat
    BY <2>1, HitsFinite
  <2> HIDE DEF did
  <2> QED BY <2>4, <2>7, <2>8, <2>9
<1> HIDE DEF did, s, s2, who
<1>13. ASSUME NEW asOf \in Nat, NEW a \in Addresses, NEW k \in Actions
       PROVE  /\ Kept(s2(a, k), k, h)
              /\ Count(s2(a, k), asOf) = Capped(k, Cardinality(Done(a, k, asOf)'))
  <2> DEFINE l == s(a, k)
             max == MaxTimes[k]
             d == Cardinality(Done(a, k, asOf))
             d2 == Cardinality(Done(a, k, asOf)')
  <2>1. /\ l \in Seq(Nat) /\ Len(l) <= max /\ \A n \in 1 .. Len(l) : l[n] <= height
    BY <1>7 DEF Kept
  <2>2. d \in Nat /\ d2 = d + (IF did(a, k) /\ h <= asOf THEN 1 ELSE 0) /\ max \in Nat
    BY <1>4, <1>12
  <2>3. Count(l, asOf) = IF d < max THEN d ELSE max
    BY <1>6 DEF Capped
  <2> HIDE DEF l, max, d, d2
  <2>4. Len(l) \in Nat /\ \A n \in 1 .. Len(l) : l[n] \in Nat
    BY <2>1
  <2>5. \A n \in 1 .. Len(l) : l[n] <= h
    BY <1>5, <2>1, <2>4
  <2>6. /\ Count(l, asOf) \in Nat
        /\ (\A n \in 1 .. Len(l) : l[n] <= asOf) => Count(l, asOf) = Len(l)
        /\ Append(l, h) \in Seq(Nat) /\ Len(Append(l, h)) = Len(l) + 1
        /\ Count(Append(l, h), asOf) = Count(l, asOf) + (IF h <= asOf THEN 1 ELSE 0)
        /\ \A n \in 1 .. Len(l) + 1 : Append(l, h)[n] = IF n <= Len(l) THEN l[n] ELSE h
    <3>1. l \in Seq(Nat) /\ h \in Nat
      BY <1>5, <2>1
    <3>2. Count(l, asOf) \in Nat /\ ((\A n \in 1 .. Len(l) : l[n] <= asOf) => Count(l, asOf) = Len(l))
      BY <3>1, CountIs
    <3>3. /\ Append(l, h) \in Seq(Nat) /\ Len(Append(l, h)) = Len(l) + 1
          /\ Count(Append(l, h), asOf) = Count(l, asOf) + (IF h <= asOf THEN 1 ELSE 0)
          /\ \A n \in 1 .. Len(l) + 1 : Append(l, h)[n] = IF n <= Len(l) THEN l[n] ELSE h
      BY <3>1, CountIs
    <3> QED BY <3>2, <3>3
  <2>7. CASE ~did(a, k)
    <3>1. s2(a, k) = l /\ d2 = d
      BY <1>10, <2>2, <2>7 DEF l
    <3>2. Kept(l, k, h)
      BY <2>1, <2>5 DEF Kept, max
    <3> QED BY <2>3, <3>1, <3>2 DEF Capped, d2, max
  <2>8. CASE did(a, k) /\ ~(Len(l) < max)
    <3>1. s2(a, k) = l
      BY <1>10, <2>8 DEF l, Recorded, max
    <3>2. Kept(l, k, h)
      BY <2>1, <2>5 DEF Kept, max
    <3>3. Count(l, asOf) = IF d2 < max THEN d2 ELSE max
      <4>1. CASE h <= asOf
        <5>1. \A n \in 1 .. Len(l) : l[n] <= asOf
          BY <1>5, <2>4, <2>5, <4>1
        <5>2. Count(l, asOf) = max
          BY <2>1, <2>2, <2>4, <2>6, <2>8, <5>1
        <5> QED BY <2>2, <2>3, <5>2
      <4>2. CASE ~(h <= asOf)
        BY <2>2, <2>3, <4>2
      <4> QED BY <4>1, <4>2
    <3> QED BY <3>1, <3>2, <3>3 DEF Capped, d2, max
  <2>9. CASE did(a, k) /\ Len(l) < max
    <3> DEFINE c == Append(l, h)
    <3>1. s2(a, k) = c
      BY <1>10, <2>9 DEF l, Recorded, max
    <3>2. \A n \in 1 .. Len(l) + 1 : c[n] <= h
      <4> SUFFICES ASSUME NEW n \in 1 .. Len(l) + 1 PROVE c[n] <= h
        OBVIOUS
      <4>1. CASE n <= Len(l)
        <5>1. n \in 1 .. Len(l)
          BY <2>4, <4>1
        <5> QED BY <2>5, <2>6, <4>1, <5>1
      <4>2. CASE ~(n <= Len(l))
        BY <1>5, <2>6, <4>2
      <4> QED BY <4>1, <4>2
    <3>3. Kept(c, k, h)
      BY <2>2, <2>4, <2>6, <2>9, <3>2 DEF Kept, max
    <3>4. Count(c, asOf) = IF d2 < max THEN d2 ELSE max
      <4>1. CASE h <= asOf
        <5>1. \A n \in 1 .. Len(l) : l[n] <= asOf
          BY <1>5, <2>4, <2>5, <4>1
        <5>2. Count(l, asOf) = Len(l)
          BY <2>6, <5>1
        <5>3. d = Len(l)
          BY <2>2, <2>3, <2>4, <2>9, <5>2
        <5> QED BY <2>2, <2>4, <2>6, <2>9, <4>1, <5>2, <5>3
      <4>2. CASE ~(h <= asOf)
        BY <2>2, <2>3, <2>6, <4>2
      <4> QED BY <4>1, <4>2
    <3> QED BY <3>1, <3>3, <3>4 DEF Capped, d2, max
  <2> QED BY <2>7, <2>8, <2>9
<1>14. ASSUME NEW a \in DOMAIN actors', NEW k \in Actions
       PROVE  a \in Addresses /\ Kept(actors'[a][k], k, h)
  <2>1. a \in Addresses
    BY <1>2, <1>3, <1>6, <1>8 DEF who
  <2>2. actors'[a][k] = s2(a, k)
    BY DEF s2, Heights
  <2>3. 0 \in Nat
    OBVIOUS
  <2> QED BY <1>13, <2>1, <2>2, <2>3
<1>15. IsFiniteSet(DOMAIN actors')
  <2> DEFINE N == 1 .. Len(e)
             f == [n \in N |-> e[n].who]
  <2>1. IsFiniteSet(N)
    <3> DEFINE n == Len(e)
    <3>1. n \in Int /\ 1 \in Int
      BY <1>1
    <3> HIDE DEF n
    <3>2. IsFiniteSet(1 .. n)
      BY <3>1, FS_Interval
    <3> QED BY <3>2 DEF n
  <2>2. who = {e[n].who : n \in N}
    BY <1>3 DEF who
  <2> HIDE DEF N
  <2>3. f \in Surjection(N, who)
    BY <2>2 DEF Surjection
  <2> HIDE DEF f
  <2>4. IsFiniteSet(who)
    BY <2>1, <2>3, FS_Surjection
  <2> QED BY <1>6, <1>8, <2>4, FS_Union
<1>16. actors' \in [DOMAIN actors' -> [Actions -> Seq(Nat)]]
  <2>1. \A a \in DOMAIN actors' : actors'[a] \in [Actions -> Seq(Nat)]
    BY <1>11, <1>14 DEF Kept
  <2> QED BY <1>11, <2>1
<1>17. history' \in Seq(EntryType) /\ \A n \in 1 .. Len(history') : history'[n].at <= h
  <2> DEFINE H == history
             c == history \o e
  <2>1. H \in Seq(EntryType) /\ e \in Seq(EntryType)
    BY <1>1, <1>6
  <2>2. c \in Seq(EntryType) /\ Len(c) = Len(H) + Len(e) /\ Len(H) \in Nat
    <3> HIDE DEF EntryType
    <3> QED BY <2>1
  <2>3. \A i \in 1 .. Len(H) + Len(e) : c[i] = IF i <= Len(H) THEN H[i] ELSE e[i - Len(H)]
    <3> HIDE DEF EntryType
    <3> QED BY <2>1, ConcatProperties
  <2>4. \A n \in 1 .. Len(H) : H[n].at <= height /\ H[n].at \in Nat
    <3>1. \A n \in 1 .. Len(H) : H[n] \in EntryType
      <4> HIDE DEF EntryType, H
      <4> QED BY <2>1
    <3> QED BY <1>6, <3>1 DEF EntryType
  <2> HIDE DEF c, H
  <2>5. ASSUME NEW n \in 1 .. Len(c) PROVE c[n].at <= h
    <3>1. CASE n <= Len(H)
      <4>1. n \in 1 .. Len(H) /\ c[n] = H[n]
        BY <2>2, <2>3, <3>1
      <4> QED BY <1>5, <2>4, <4>1
    <3>2. CASE ~(n <= Len(H))
      <4>1. n - Len(H) \in 1 .. Len(e) /\ c[n] = e[n - Len(H)]
        BY <1>1, <2>2, <2>3, <3>2
      <4> QED BY <1>1, <1>5, <4>1
    <3> QED BY <3>1, <3>2
  <2>6. history' = c
    BY DEF c
  <2> QED BY <2>2, <2>5, <2>6
<1>18. EntryType' = EntryType
  BY DEF EntryType, Actions
<1>19. \A asOf \in Nat, a \in Addresses, k \in Actions :
         Count(Heights(a)'[k], asOf) = Capped(k, Cardinality(Done(a, k, asOf)'))
  BY <1>13 DEF s2
<1>20. DOMAIN actors' \subseteq Addresses
  <2>1. \A n \in 1 .. Len(e) : e[n].who \in Addresses
    BY <1>2
  <2> QED BY <1>3, <1>6, <1>8, <2>1 DEF who
<1>21. \A a \in DOMAIN actors' : \A k \in Actions : Kept(actors'[a][k], k, height')
  BY <1>14
<1> QED BY <1>15, <1>16, <1>17, <1>18, <1>19, <1>20, <1>21 DEF LedgerOK, Actions, Kept, Count, Capped

\* A number is so many times another, and what is left.
LEMMA Divides ==
  ASSUME NEW x \in Nat, NEW d \in Nat, d > 0
  PROVE  x \div d \in Nat /\ (x % d) \in 0 .. d - 1 /\ x = d * (x \div d) + (x % d)
OBVIOUS

\* What is less so many times is less.
LEMMA Cancels ==
  ASSUME NEW d \in Nat, d > 0, NEW a \in Int, NEW b \in Int, d * a <= d * b
  PROVE  a <= b
OBVIOUS

-----------------------------------------------------------------------------
(* Sharing out.                                                             *)

\* Floors first, and one more for those with the largest remainders, as many as there is left to give.
SharedOut(R, w, rank, supply, total, floors, rems, left, ahead, part) ==
  /\ IsFiniteSet(R) /\ R # {} /\ supply \in Nat
  /\ \A x \in R : w[x] \in Nat /\ w[x] > 0 /\ rank[x] \in Nat
  /\ \A x, y \in R : rank[x] = rank[y] => x = y
  /\ total = SumOver(w, R) /\ left = supply - SumOver(floors, R)
  /\ \A x \in R : floors[x] = (supply * w[x]) \div total /\ rems[x] = (supply * w[x]) % total
  /\ ahead = [x \in R |-> {y \in R : rems[y] > rems[x] \/ (rems[y] = rems[x] /\ rank[y] < rank[x])}]
  /\ \A x \in R : part[x] = floors[x] + (IF Cardinality(ahead[x]) < left THEN 1 ELSE 0)

\* The parts come to all there is, and each is within one of what is due.
LEMMA ShareOut ==
  ASSUME NEW R, NEW w, NEW rank, NEW supply, NEW total, NEW floors, NEW rems, NEW left, NEW ahead, NEW part,
         SharedOut(R, w, rank, supply, total, floors, rems, left, ahead, part)
  PROVE  /\ SumOver(part, R) = supply /\ total \in Nat
         /\ \A x \in R : /\ part[x] \in Nat
                         /\ part[x] * total - supply * w[x] < total
                         /\ -(part[x] * total - supply * w[x]) < total
<1>1. /\ IsFiniteSet(R) /\ R # {} /\ supply \in Nat
      /\ \A x \in R : w[x] \in Nat /\ w[x] > 0 /\ rank[x] \in Nat
      /\ \A x, y \in R : rank[x] = rank[y] => x = y
      /\ total = SumOver(w, R) /\ left = supply - SumOver(floors, R)
      /\ \A x \in R : floors[x] = (supply * w[x]) \div total /\ rems[x] = (supply * w[x]) % total
      /\ ahead = [x \in R |-> {y \in R : rems[y] > rems[x] \/ (rems[y] = rems[x] /\ rank[y] < rank[x])}]
      /\ \A x \in R : part[x] = floors[x] + (IF Cardinality(ahead[x]) < left THEN 1 ELSE 0)
  BY Zenon DEF SharedOut
<1>2. total \in Nat /\ total > 0
  <2>1. PICK x \in R : TRUE
    BY <1>1
  <2>2. total \in Nat
    BY <1>1, SumNumber
  <2>3. IsFiniteSet(R \ {x})
    BY <1>1, FS_Subset
  <2>4. SumOver(w, R) = w[x] + SumOver(w, R \ {x})
    BY <1>1, SumTake
  <2>5. SumOver(w, R \ {x}) \in Nat
    BY <1>1, <2>3, SumNumber
  <2>6. w[x] \in Nat /\ w[x] > 0
    BY <1>1
  <2> QED BY <1>1, <2>2, <2>4, <2>5, <2>6
<1>3. ASSUME NEW x \in R
      PROVE  /\ supply * w[x] \in Nat /\ floors[x] \in Nat /\ rems[x] \in Nat /\ rems[x] < total
             /\ supply * w[x] = total * floors[x] + rems[x] /\ total * floors[x] \in Nat
  <2> DEFINE e == supply * w[x]
  <2>1. \A a, b \in Nat : a * b \in Nat
    OBVIOUS
  <2>2. e \in Nat
    BY <1>1, <2>1
  <2>3. floors[x] = e \div total /\ rems[x] = e % total
    BY <1>1
  <2> HIDE DEF e
  <2>4. e \div total \in Nat /\ (e % total) \in 0 .. total - 1 /\ e = total * (e \div total) + (e % total)
    BY <1>2, <2>2, Divides
  <2>5. floors[x] \in Nat /\ rems[x] \in Nat /\ rems[x] < total /\ e = total * floors[x] + rems[x]
    BY <1>2, <2>3, <2>4
  <2>6. total * floors[x] \in Nat
    BY <1>2, <2>1, <2>5
  <2> QED BY <2>2, <2>5, <2>6 DEF e
<1> DEFINE exact == [x \in R |-> supply * w[x]]
           lots == [x \in R |-> total * floors[x]]
           F == SumOver(floors, R)
           M == SumOver(rems, R)
           n == Cardinality(R)
<1>4. F \in Nat /\ M \in Nat /\ n \in Nat
  BY <1>1, <1>3, SumNumber, FS_CardinalityType
<1>5. supply * total = total * F + M
  <2>1. SumOver(exact, R) = supply * total
    <3>1. \A x \in R : w[x] \in Nat /\ exact[x] = supply * w[x]
      BY <1>1
    <3> HIDE DEF exact
    <3> QED BY <1>1, <3>1, SumTimes
  <2>2. SumOver(lots, R) = total * F
    <3>1. \A x \in R : floors[x] \in Nat /\ lots[x] = total * floors[x]
      BY <1>3
    <3> HIDE DEF lots
    <3> QED BY <1>1, <1>2, <3>1, SumTimes
  <2>3. SumOver(exact, R) = SumOver(lots, R) + M
    <3>1. \A x \in R : lots[x] \in Nat /\ rems[x] \in Nat /\ exact[x] = lots[x] + rems[x]
      BY <1>3
    <3> HIDE DEF exact, lots
    <3> QED BY <1>1, <3>1, SumPlus
  <2> HIDE DEF exact, lots, F, M
  <2> QED BY <2>1, <2>2, <2>3
<1> HIDE DEF F, M
<1>6. left = supply - F
  BY <1>1 DEF F
<1>7. total * left = M /\ left \in Int
  <2>1. \A a, b, c \in Int : a * (b - c) = a * b - a * c /\ a * b = b * a /\ a * b \in Int
    OBVIOUS
  <2>2. total * left = total * supply - total * F /\ total * supply = supply * total
    BY <1>1, <1>2, <1>4, <1>6, <2>1
  <2>3. total * F \in Int
    BY <1>2, <1>4, <2>1
  <2> QED BY <1>1, <1>4, <1>5, <1>6, <2>2, <2>3
<1> DEFINE T == {x \in R : Cardinality(ahead[x]) < left}
           one == [x \in R |-> IF x \in T THEN 1 ELSE 0]
\* Each part of a set of one for each is worth the total, at least the remainders that are in it.
<1>8. ASSUME NEW Q \in SUBSET R, \A x \in R \ Q : rems[x] = 0
      PROVE  Cardinality(Q) \in Nat /\ left <= Cardinality(Q)
  <2> DEFINE ones == [x \in R |-> IF x \in Q THEN 1 ELSE 0]
             most == [x \in R |-> total * ones[x]]
  <2>1. \A x \in R : ones[x] = (IF x \in Q THEN 1 ELSE 0) /\ ones[x] \in Nat /\ most[x] = total * ones[x]
    OBVIOUS
  <2>2. \A x \in R : most[x] = IF x \in Q THEN total ELSE 0
    BY <1>2
  <2> HIDE DEF ones, most
  <2>3. SumOver(ones, R) = Cardinality(Q) /\ Cardinality(Q) \in Nat
    BY <1>1, <2>1, SumOnes
  <2>4. SumOver(most, R) = total * SumOver(ones, R)
    BY <1>1, <1>2, <2>1, SumTimes
  <2>5. \A x \in R : rems[x] \in Nat /\ most[x] \in Nat /\ rems[x] <= most[x]
    BY <1>2, <1>3, <1>8, <2>2
  <2>6. M <= SumOver(most, R)
    BY <1>1, <2>5, SumAtMost DEF M
  <2>7. total * left <= total * Cardinality(Q)
    BY <1>7, <2>3, <2>4, <2>6
  <2> QED BY <1>2, <1>7, <2>3, <2>7, Cancels
<1>9. left \in 0 .. n
  <2>1. 0 <= left
    <3>1. total * 0 <= total * left
      BY <1>2, <1>4, <1>7
    <3> QED BY <1>2, <1>7, <3>1, Cancels
  <2>2. left <= n
    BY <1>8 DEF n
  <2> QED BY <1>4, <1>7, <2>1, <2>2
<1>10. /\ Cardinality(T) = left
       /\ \A x, y \in R : Cardinality(ahead[x]) < left /\ ~(Cardinality(ahead[y]) < left) => x \in ahead[y]
  <2>1. ahead \in [R -> SUBSET R]
    BY <1>1
  <2>2. \A x, y \in R : y \in ahead[x] <=> (rems[y] > rems[x] \/ (rems[y] = rems[x] /\ rank[y] < rank[x]))
    BY <1>1
  <2>3. \A x \in R : rems[x] \in Nat /\ rank[x] \in Nat
    BY <1>1, <1>3
  <2>4. \A x \in R : x \notin ahead[x]
    BY <2>2, <2>3
  <2>5. ASSUME NEW x \in R, NEW y \in R, x # y PROVE x \in ahead[y] \/ y \in ahead[x]
    <3>1. rank[x] # rank[y]
      BY <1>1, <2>5
    <3> QED BY <2>2, <2>3, <3>1
  <2>6. ASSUME NEW x \in R, NEW y \in R, y \in ahead[x] PROVE ahead[y] \subseteq ahead[x]
    <3> SUFFICES ASSUME NEW z \in R, z \in ahead[y] PROVE z \in ahead[x]
      BY <2>1
    <3> QED BY <2>2, <2>3, <2>6
  <2> HIDE DEF n
  <2>7. left \in 0 .. Cardinality(R)
    BY <1>9 DEF n
  <2>8. /\ Cardinality({x \in R : Cardinality(ahead[x]) < left}) = left
        /\ \A x, y \in R : Cardinality(ahead[x]) < left /\ ~(Cardinality(ahead[y]) < left) => x \in ahead[y]
    <3>1. \A x, y \in R : x # y => x \in ahead[y] \/ y \in ahead[x]
      BY <2>5
    <3>2. \A x, y \in R : y \in ahead[x] => ahead[y] \subseteq ahead[x]
      BY <2>6
    <3>3. IsFiniteSet(R)
      BY <1>1
    <3> QED BY <2>1, <2>4, <2>7, <3>1, <3>2, <3>3, FirstInOrder
  <2> QED BY <2>8
<1>11. SumOver(part, R) = supply
  <2>1. \A x \in R : one[x] = IF x \in T THEN 1 ELSE 0
    OBVIOUS
  <2>2. \A x \in R : part[x] = floors[x] + one[x] /\ floors[x] \in Nat /\ one[x] \in Nat
    BY <1>1, <1>3
  <2>3. T \in SUBSET R
    OBVIOUS
  <2> HIDE DEF one, T
  <2>4. SumOver(one, R) = left
    BY <1>1, <1>10, <2>1, <2>3, SumOnes
  <2>5. SumOver(part, R) = SumOver(floors, R) + SumOver(one, R)
    BY <1>1, <2>2, SumPlus
  <2> QED BY <1>1, <1>4, <1>6, <2>4, <2>5 DEF F
<1>12. ASSUME NEW x \in T PROVE rems[x] > 0
  <2> SUFFICES ASSUME rems[x] = 0 PROVE FALSE
    BY <1>3
  <2>1. x \in R /\ Cardinality(ahead[x]) < left
    OBVIOUS
  <2>2. ASSUME NEW y \in R \ T PROVE rems[y] = 0
    <3>1. x \in ahead[y]
      BY <1>10, <2>1
    <3>2. rems[x] > rems[y] \/ rems[x] = rems[y]
      BY <1>1, <3>1
    <3> QED BY <1>3, <3>2
  <2> DEFINE Q == T \ {x}
  <2>3. \A y \in R \ Q : rems[y] = 0
    BY <2>2
  <2>4. Q \in SUBSET R
    OBVIOUS
  <2>5. IsFiniteSet(T) /\ T \in SUBSET R
    BY <1>1, FS_Subset
  <2> HIDE DEF T
  <2>6. Cardinality(Q) = Cardinality(T) - 1
    BY <2>5, FS_RemoveElement
  <2> HIDE DEF Q
  <2>7. left <= Cardinality(Q)
    BY <1>8, <2>3, <2>4
  <2> QED BY <1>7, <1>10, <2>6, <2>7
<1>13. ASSUME NEW x \in R
       PROVE  /\ part[x] \in Nat /\ part[x] * total - supply * w[x] < total
              /\ -(part[x] * total - supply * w[x]) < total
  <2> DEFINE e == supply * w[x]
             f == floors[x]
             r == rems[x]
  <2>1. e = total * f + r /\ f \in Nat /\ r \in Nat /\ r < total /\ total * f \in Nat /\ e \in Nat
    BY <1>3
  <2>2. part[x] = f + (IF x \in T THEN 1 ELSE 0) /\ (x \in T => r > 0)
    BY <1>1, <1>12
  <2> HIDE DEF e, f, r, T
  <2>3. CASE x \in T
    <3>1. part[x] = f + 1 /\ r > 0
      BY <2>2, <2>3
    <3>2. (f + 1) * total = total * f + total
      BY <1>2, <2>1
    <3>3. (f + 1) * total - e = total - r
      BY <1>2, <2>1, <3>2
    <3>4. (f + 1) * total - e < total /\ -((f + 1) * total - e) < total
      BY <1>2, <2>1, <3>1, <3>3
    <3>5. f + 1 \in Nat
      BY <2>1
    <3> QED BY <3>1, <3>4, <3>5 DEF e
  <2>4. CASE x \notin T
    <3>1. part[x] = f
      BY <2>1, <2>2, <2>4
    <3>2. f * total = total * f
      BY <1>2, <2>1
    <3>3. f * total - e = -r
      BY <1>2, <2>1, <3>2
    <3>4. f * total - e < total /\ -(f * total - e) < total
      BY <1>2, <2>1, <3>3
    <3> QED BY <2>1, <3>1, <3>4 DEF e
  <2> QED BY <2>3, <2>4
<1> QED BY <1>2, <1>11, <1>13

-----------------------------------------------------------------------------
(* Giving the supply away.                                                  *)

\* The shares of an address are its counts, added up.
LEMMA SharesAre ==
  ASSUME NEW a, NEW asOf \in Nat, \A k \in Actions : Heights(a)[k] \in Seq(Nat)
  PROVE  Shares(a, asOf) \in Nat
<1> DEFINE S == Actions
           w == [k \in S |-> Count(Heights(a)[k], asOf)]
           D(f, s) == IF s = {} THEN 0 ELSE Count(Heights(a)[Chosen(s)], asOf) + f[s \ {Chosen(s)}]
           left == CHOOSE f : f = [s \in SUBSET S |-> D(f, s)]
<1>1. IsFiniteSet(S)
  <2>1. S = {"inscribe", "alpha", "etch", "coin"}
    BY InscriptionsAssumption DEF Actions
  <2>2. IsFiniteSet({"inscribe"} \cup {"alpha"} \cup {"etch"} \cup {"coin"})
    <3>1. IsFiniteSet({"inscribe"})
      BY FS_Singleton
    <3>2. IsFiniteSet({"inscribe"} \cup {"alpha"})
      BY <3>1, FS_AddElement
    <3>3. IsFiniteSet(({"inscribe"} \cup {"alpha"}) \cup {"etch"})
      BY <3>2, FS_AddElement
    <3>4. IsFiniteSet((({"inscribe"} \cup {"alpha"}) \cup {"etch"}) \cup {"coin"})
      BY <3>3, FS_AddElement
    <3> QED BY <3>4
  <2>3. {"inscribe", "alpha", "etch", "coin"} = {"inscribe"} \cup {"alpha"} \cup {"etch"} \cup {"coin"}
    OBVIOUS
  <2> QED BY <2>1, <2>2, <2>3
<1>2. \A k \in S : w[k] \in Nat
  <2> SUFFICES ASSUME NEW k \in S PROVE Count(Heights(a)[k], asOf) \in Nat
    OBVIOUS
  <2> QED BY CountIs
<1>3. Shares(a, asOf) = left[S]
  BY DEF Shares, MapThenSumSet, MapThenFoldSet, Chosen
<1>4. \A s \in SUBSET S : s # {} => Chosen(s) \in S /\ w[Chosen(s)] = Count(Heights(a)[Chosen(s)], asOf)
  BY DEF Chosen
<1>5. \A f : Fixed(f, w, S) <=> f = [s \in SUBSET S |-> D(f, s)]
  <2> SUFFICES ASSUME NEW f PROVE Fixed(f, w, S) <=> f = [s \in SUBSET S |-> D(f, s)]
    OBVIOUS
  <2>1. [s \in SUBSET S |-> IF s = {} THEN 0 ELSE w[Chosen(s)] + f[s \ {Chosen(s)}]] = [s \in SUBSET S |-> D(f, s)]
    <3> HIDE DEF w
    <3> QED BY <1>4
  <2> HIDE DEF w, D
  <2> QED BY <2>1, Zenon DEF Fixed
<1> HIDE DEF w, D, S
<1>6. PICK g : Fixed(g, w, S)
  BY <1>1, <1>2, SumFixed
<1>7. Fixed(left, w, S)
  <2>1. left = [s \in SUBSET S |-> D(left, s)]
    BY <1>5, <1>6
  <2> HIDE DEF left
  <2> QED BY <1>5, <2>1
<1> HIDE DEF left
<1> QED BY <1>1, <1>2, <1>3, <1>7, SumFixed

\* Those who have shares.
LEMMA RollIs ==
  ASSUME LedgerOK, height \in Nat
  PROVE  /\ IsFiniteSet(Roll(height)) /\ Roll(height) \subseteq Addresses
         /\ \A a \in Roll(height) : Shares(a, height) \in Nat /\ Shares(a, height) > 0
<1>1. /\ DOMAIN actors \subseteq Addresses /\ IsFiniteSet(DOMAIN actors)
      /\ actors \in [DOMAIN actors -> [Actions -> Seq(Nat)]]
  BY DEF LedgerOK
<1>2. Roll(height) \subseteq DOMAIN actors /\ \A a \in Roll(height) : Shares(a, height) > 0
  BY DEF Roll
<1>3. ASSUME NEW a \in Roll(height) PROVE Shares(a, height) \in Nat
  <2>1. \A k \in Actions : Heights(a)[k] \in Seq(Nat)
    BY <1>1, <1>2 DEF Heights
  <2> QED BY <2>1, SharesAre
<1> QED BY <1>1, <1>2, <1>3, FS_Subset

SharesOfAll(R, asOf) == MapThenSumSet(LAMBDA a : Shares(a, asOf), R)
FloorsOfAll(R, asOf, supply, total) == MapThenSumSet(LAMBDA a : (supply * Shares(a, asOf)) \div total, R)

\* The shares of all are a sum.
LEMMA RollSums ==
  ASSUME NEW R, IsFiniteSet(R), NEW asOf, NEW w, \A a \in R : w[a] = Shares(a, asOf) /\ w[a] \in Nat
  PROVE  SharesOfAll(R, asOf) = SumOver(w, R)
<1> DEFINE D(f, s) == IF s = {} THEN 0 ELSE Shares(Chosen(s), asOf) + f[s \ {Chosen(s)}]
           left == CHOOSE f : f = [s \in SUBSET R |-> D(f, s)]
<1>3. SharesOfAll(R, asOf) = left[R]
  BY DEF SharesOfAll, MapThenSumSet, MapThenFoldSet, Chosen
<1>4. \A s \in SUBSET R : s # {} => Chosen(s) \in R /\ w[Chosen(s)] = Shares(Chosen(s), asOf)
  BY DEF Chosen
<1>5. \A f : Fixed(f, w, R) <=> f = [s \in SUBSET R |-> D(f, s)]
  <2> SUFFICES ASSUME NEW f PROVE Fixed(f, w, R) <=> f = [s \in SUBSET R |-> D(f, s)]
    OBVIOUS
  <2>1. [s \in SUBSET R |-> IF s = {} THEN 0 ELSE w[Chosen(s)] + f[s \ {Chosen(s)}]] = [s \in SUBSET R |-> D(f, s)]
    BY <1>4
  <2> HIDE DEF D
  <2> QED BY <2>1, Zenon DEF Fixed
<1> HIDE DEF D
<1>6. PICK g : Fixed(g, w, R)
  BY SumFixed
<1>7. Fixed(left, w, R)
  <2>1. left = [s \in SUBSET R |-> D(left, s)]
    BY <1>5, <1>6
  <2> HIDE DEF left
  <2> QED BY <1>5, <2>1
<1> HIDE DEF left
<1> QED BY <1>3, <1>7, SumFixed

\* What the floors come to is a sum.
LEMMA FloorSums ==
  ASSUME NEW R, IsFiniteSet(R), NEW asOf, NEW supply, NEW total, NEW w,
         \A a \in R : w[a] = (supply * Shares(a, asOf)) \div total /\ w[a] \in Nat
  PROVE  FloorsOfAll(R, asOf, supply, total) = SumOver(w, R)
<1> DEFINE D(f, s) == IF s = {} THEN 0
                      ELSE ((supply * Shares(Chosen(s), asOf)) \div total) + f[s \ {Chosen(s)}]
           left == CHOOSE f : f = [s \in SUBSET R |-> D(f, s)]
<1>3. FloorsOfAll(R, asOf, supply, total) = left[R]
  BY DEF FloorsOfAll, MapThenSumSet, MapThenFoldSet, Chosen
<1>4. \A s \in SUBSET R : s # {} =>
        Chosen(s) \in R /\ w[Chosen(s)] = (supply * Shares(Chosen(s), asOf)) \div total
  BY DEF Chosen
<1>5. \A f : Fixed(f, w, R) <=> f = [s \in SUBSET R |-> D(f, s)]
  <2> SUFFICES ASSUME NEW f PROVE Fixed(f, w, R) <=> f = [s \in SUBSET R |-> D(f, s)]
    OBVIOUS
  <2>1. [s \in SUBSET R |-> IF s = {} THEN 0 ELSE w[Chosen(s)] + f[s \ {Chosen(s)}]] = [s \in SUBSET R |-> D(f, s)]
    BY <1>4
  <2> HIDE DEF D
  <2> QED BY <2>1, Zenon DEF Fixed
<1> HIDE DEF D
<1>6. PICK g : Fixed(g, w, R)
  BY SumFixed
<1>7. Fixed(left, w, R)
  <2>1. left = [s \in SUBSET R |-> D(left, s)]
    BY <1>5, <1>6
  <2> HIDE DEF left
  <2> QED BY <1>5, <2>1
<1> HIDE DEF left
<1> QED BY <1>3, <1>7, SumFixed

\* All of the supply goes, and each gets within one of what is due.
LEMMA AllocateIs ==
  ASSUME LedgerOK, height \in Nat
  PROVE  AllOfItAllocated
<1> DEFINE R == Roll(height)
           sh == [a \in R |-> Shares(a, height)]
<1>1. /\ IsFiniteSet(R) /\ R \subseteq Addresses
      /\ \A a \in R : sh[a] = Shares(a, height) /\ sh[a] \in Nat /\ sh[a] > 0
  BY RollIs
<1> HIDE DEF R, sh
<1> DEFINE total == MapThenSumSet(LAMBDA a : Shares(a, height), R)
<1>2. total = SumOver(sh, R) /\ total \in Nat
  <2>1. SharesOfAll(R, height) = SumOver(sh, R)
    BY <1>1, RollSums
  <2>2. total = SharesOfAll(R, height)
    BY DEF SharesOfAll
  <2>3. SumOver(sh, R) \in Nat
    BY <1>1, SumNumber
  <2> HIDE DEF total
  <2> QED BY <2>1, <2>2, <2>3
<1>3. ASSUME R # {} PROVE total > 0
  <2>1. PICK a \in R : TRUE
    BY <1>3
  <2>2. IsFiniteSet(R \ {a})
    BY <1>1, FS_Subset
  <2>3. SumOver(sh, R) = sh[a] + SumOver(sh, R \ {a})
    BY <1>1, SumTake
  <2>4. SumOver(sh, R \ {a}) \in Nat
    BY <1>1, <2>2, SumNumber
  <2> QED BY <1>1, <1>2, <2>3, <2>4
<1> HIDE DEF total
<1>4. ASSUME NEW supply \in Nat, R # {}
      PROVE  /\ SumOver(Allocate(height, supply), R) = supply
             /\ \A a \in R : LET off == Allocate(height, supply)[a] * total - supply * Shares(a, height) IN
                               off < total /\ -off < total
  <2> DEFINE fl == [a \in R |-> (supply * Shares(a, height)) \div total]
             rem == [a \in R |-> (supply * Shares(a, height)) % total]
             left == supply - MapThenSumSet(LAMBDA a : (supply * Shares(a, height)) \div total, R)
             ahead == [a \in R |-> {b \in R : rem[b] > rem[a] \/ (rem[b] = rem[a] /\ Rank[b] < Rank[a])}]
             part == Allocate(height, supply)
  <2>1. \A a \in R : fl[a] = (supply * Shares(a, height)) \div total /\ fl[a] \in Nat
    <3> SUFFICES ASSUME NEW a \in R PROVE (supply * Shares(a, height)) \div total \in Nat
      OBVIOUS
    <3> DEFINE e == supply * Shares(a, height)
    <3>1. e \in Nat
      <4>1. \A x, y \in Nat : x * y \in Nat
        OBVIOUS
      <4>2. Shares(a, height) \in Nat
        BY <1>1
      <4> QED BY <4>1, <4>2
    <3> HIDE DEF e
    <3>2. e \div total \in Nat
      BY <1>2, <1>3, <1>4, <3>1, Divides
    <3> QED BY <3>2 DEF e
  <2>2. \A a \in R : rem[a] = (supply * Shares(a, height)) % total
    OBVIOUS
  <2>3. \A a \in R :
          part[a] = ((supply * Shares(a, height)) \div total)
                    + (IF Cardinality({b \in R : \/ (supply * Shares(b, height)) % total
                                                      > (supply * Shares(a, height)) % total
                                                 \/ /\ (supply * Shares(b, height)) % total
                                                         = (supply * Shares(a, height)) % total
                                                    /\ Rank[b] < Rank[a]}) < left THEN 1 ELSE 0)
    BY DEF Allocate, R, total
  <2> HIDE DEF fl, rem, part, left
  <2>4. ASSUME NEW a \in R
        PROVE  {b \in R : \/ (supply * Shares(b, height)) % total > (supply * Shares(a, height)) % total
                          \/ /\ (supply * Shares(b, height)) % total = (supply * Shares(a, height)) % total
                             /\ Rank[b] < Rank[a]} = ahead[a]
    <3>1. ahead[a] = {b \in R : rem[b] > rem[a] \/ (rem[b] = rem[a] /\ Rank[b] < Rank[a])}
      OBVIOUS
    <3> HIDE DEF ahead
    <3> QED BY <2>2, <3>1
  <2>5. left = supply - SumOver(fl, R)
    <3>1. FloorsOfAll(R, height, supply, total) = SumOver(fl, R)
      BY <1>1, <2>1, FloorSums
    <3>2. left = supply - FloorsOfAll(R, height, supply, total)
      BY DEF left, FloorsOfAll
    <3> QED BY <3>1, <3>2
  <2>6. \A a \in R : part[a] = fl[a] + (IF Cardinality(ahead[a]) < left THEN 1 ELSE 0)
    <3> HIDE DEF ahead
    <3> QED BY <2>1, <2>3, <2>4
  <2>7. /\ \A a \in R : Rank[a] \in Nat
        /\ \A a, b \in R : Rank[a] = Rank[b] => a = b
    BY <1>1, InscriptionsAssumption
  <2>8. SharedOut(R, sh, Rank, supply, total, fl, rem, left, ahead, part)
    <3>1. \A a \in R : fl[a] = (supply * sh[a]) \div total /\ rem[a] = (supply * sh[a]) % total
      BY <1>1, <2>1, <2>2
    <3>2. ahead = [a \in R |-> {b \in R : rem[b] > rem[a] \/ (rem[b] = rem[a] /\ Rank[b] < Rank[a])}]
      OBVIOUS
    <3>3. \A a \in R : sh[a] \in Nat /\ sh[a] > 0 /\ Rank[a] \in Nat
      BY <1>1, <2>7
    <3> HIDE DEF ahead
    <3> QED BY <1>1, <1>2, <1>4, <2>5, <2>6, <2>7, <3>1, <3>2, <3>3, Zenon DEF SharedOut
  <2> HIDE DEF ahead
  <2>9. /\ SumOver(part, R) = supply
        /\ \A a \in R : part[a] * total - supply * sh[a] < total /\ -(part[a] * total - supply * sh[a]) < total
    BY <2>8, ShareOut
  <2>10. \A a \in R : sh[a] = Shares(a, height)
    BY <1>1
  <2> QED BY <2>9, <2>10 DEF part
<1>5. ASSUME NEW supply \in {1, 5}, R # {}
      PROVE  LET p == Allocate(height, supply)
                 all == MapThenSumSet(LAMBDA a : Shares(a, height), R) IN
               /\ MapThenSumSet(LAMBDA a : p[a], R) = supply
               /\ \A a \in R : LET off == p[a] * all - supply * Shares(a, height) IN off < all /\ -off < all
  <2> DEFINE p == Allocate(height, supply)
  <2>1. supply \in Nat
    OBVIOUS
  <2>2. /\ SumOver(p, R) = supply
        /\ \A a \in R : p[a] * total - supply * Shares(a, height) < total
                       /\ -(p[a] * total - supply * Shares(a, height)) < total
    BY <1>4, <1>5, <2>1
  <2> HIDE DEF p
  <2>3. MapThenSumSet(LAMBDA a : p[a], R) = supply
    BY <2>2, Zenon DEF SumOver
  <2>4. \A a \in R : p[a] * total - supply * Shares(a, height) < total
                   /\ -(p[a] * total - supply * Shares(a, height)) < total
    BY <2>2
  <2> QED BY <2>3, <2>4, Zenon DEF total, p
<1> QED BY <1>5, Zenon DEF AllOfItAllocated, R

-----------------------------------------------------------------------------
(* All of it.                                                               *)

IndexInv == ChainOK /\ RecordsOK /\ IndexOK /\ ParentsWereSpent /\ TipOK /\ LedgerOK

\* The first coins hold units of their own.
LEMMA FirstCoins ==
  ASSUME InscriptionsInit
  PROVE  ChainOK
<1> DEFINE L == Len(Funds)
<1>1. Funds \in Seq(Nat) /\ L \in Nat /\ L <= MaxOuts /\ MaxTxs \in Nat /\ MaxOuts \in Nat
      /\ \A k \in 1 .. L : Funds[k] \in Nat
  BY InscriptionsAssumption
<1>2. PICK up : /\ SumsTo(up, Funds) /\ AddUp(Funds) = up[L]
                /\ \A k \in 0 .. L : AddUp(SubSeq(Funds, 1, k)) = up[k]
                /\ \A k \in 0 .. L : \A i \in 0 .. k : up[i] <= up[k]
  BY <1>1, SumPrefixes
<1>3. up \in [0 .. L -> Nat] /\ up[0] = 0
  BY <1>2, Zenon DEF SumsTo
<1>4. coins = [o \in {<<0, k>> : k \in 1 .. L} |->
                 [units |-> [n \in 1 .. Funds[o[2]] |-> UnitsBefore(o[2]) + n], to |-> NoAddress]]
      /\ txs = 0 /\ height = 0
  BY DEF InscriptionsInit
<1> HIDE DEF L
<1>5. ASSUME NEW k \in 1 .. L
      PROVE  /\ UnitsBefore(k) = up[k - 1] /\ up[k - 1] \in Nat /\ up[k] = up[k - 1] + Funds[k]
             /\ up[k] \in Nat /\ up[k] <= Total
  <2>1. k - 1 \in 0 .. Len(Funds) - 1 /\ k - 1 \in 0 .. L /\ (k - 1) + 1 = k /\ k \in 0 .. L /\ L \in 0 .. L
    BY <1>1 DEF L
  <2>2. UnitsBefore(k) = up[k - 1]
    BY <1>2, <2>1 DEF UnitsBefore
  <2>3. up[k - 1] \in Nat /\ up[k] = up[k - 1] + Funds[k]
    BY <1>1, <1>2, <2>1, SumsAt
  <2>4. up[k] <= up[L]
    BY <1>2, <2>1
  <2> QED BY <1>2, <1>3, <2>1, <2>2, <2>3, <2>4 DEF Total
<1>6. Total \in Nat
  <2>1. L \in 0 .. L
    BY <1>1
  <2> QED BY <1>2, <1>3, <2>1 DEF Total
<1>7. ASSUME NEW k \in 1 .. L
      PROVE  /\ coins[<<0, k>>] = [units |-> coins[<<0, k>>].units, to |-> NoAddress]
             /\ coins[<<0, k>>].units \in Seq(1 .. Total) /\ Value(<<0, k>>) = Funds[k] /\ <<0, k>> \in DOMAIN coins
             /\ \A j \in 1 .. Funds[k] : coins[<<0, k>>].units[j] = up[k - 1] + j
  <2>1. <<0, k>> \in {<<0, n>> : n \in 1 .. L} /\ <<0, k>>[2] = k
    OBVIOUS
  <2>2. coins[<<0, k>>] = [units |-> [n \in 1 .. Funds[k] |-> UnitsBefore(k) + n], to |-> NoAddress]
    BY <1>4, <2>1
  <2> DEFINE u == [n \in 1 .. Funds[k] |-> UnitsBefore(k) + n]
  <2>3. Funds[k] \in Nat /\ UnitsBefore(k) = up[k - 1] /\ up[k - 1] \in Nat /\ up[k - 1] + Funds[k] <= Total
    BY <1>1, <1>5
  <2>4. \A n \in 1 .. Funds[k] : UnitsBefore(k) + n \in 1 .. Total
    BY <1>6, <2>3
  <2>5. u \in [1 .. Funds[k] -> 1 .. Total]
    BY <2>4
  <2>6. u \in Seq(1 .. Total) /\ Len(u) = Funds[k] /\ \A j \in 1 .. Funds[k] : u[j] = up[k - 1] + j
    <3>1. \A j \in 1 .. Funds[k] : u[j] = up[k - 1] + j
      BY <2>3
    <3> DEFINE S == 1 .. Total
               c == Funds[k]
    <3>2. c \in Nat /\ u \in [1 .. c -> S]
      BY <2>3, <2>5
    <3> HIDE DEF u, S, c
    <3>3. u \in Seq(S) /\ Len(u) = c
      BY <3>2
    <3> QED BY <3>1, <3>3 DEF S, c
  <2>7. coins[<<0, k>>].units = u
    BY <2>2
  <2> HIDE DEF u
  <2>8. <<0, k>> \in DOMAIN coins
    BY <1>4, <2>1
  <2>9. coins[<<0, k>>] = [units |-> coins[<<0, k>>].units, to |-> NoAddress]
    BY <2>2, <2>7 DEF u
  <2> QED BY <2>6, <2>7, <2>8, <2>9 DEF Value
<1>8. DOMAIN coins = {<<0, k>> : k \in 1 .. L}
  BY <1>4
<1>9. coins \in [DOMAIN coins -> CoinType]
  <2>1. coins = [o \in DOMAIN coins |-> coins[o]]
    BY <1>4
  <2>2. ASSUME NEW o \in DOMAIN coins PROVE coins[o] \in CoinType
    <3>1. PICK k \in 1 .. L : o = <<0, k>>
      BY <1>8
    <3>2. coins[o] = [units |-> coins[o].units, to |-> NoAddress] /\ coins[o].units \in Seq(1 .. Total)
      BY <1>7, <3>1
    <3> QED BY <3>2 DEF CoinType, Holder
  <2> QED BY <2>1, <2>2
<1>10. UnitsApart
  <2> SUFFICES ASSUME NEW o \in DOMAIN coins, NEW p \in DOMAIN coins, NEW j \in 1 .. Value(o), NEW n \in 1 .. Value(p),
                      coins[o].units[j] = coins[p].units[n]
               PROVE  o = p /\ j = n
    BY DEF UnitsApart
  <2>1. PICK k \in 1 .. L : o = <<0, k>>
    BY <1>8
  <2>2. PICK m \in 1 .. L : p = <<0, m>>
    BY <1>8
  <2>3. /\ j \in 1 .. Funds[k] /\ n \in 1 .. Funds[m] /\ Funds[k] \in Nat /\ Funds[m] \in Nat
        /\ up[k - 1] + j = up[m - 1] + n
    <3>1. j \in 1 .. Funds[k] /\ n \in 1 .. Funds[m]
      BY <1>7, <2>1, <2>2
    <3>2. coins[o].units[j] = up[k - 1] + j /\ coins[p].units[n] = up[m - 1] + n
      BY <1>7, <2>1, <2>2, <3>1
    <3> QED BY <1>1, <3>1, <3>2
  <2>4. /\ up[k - 1] \in Nat /\ up[k] = up[k - 1] + Funds[k] /\ up[m - 1] \in Nat /\ up[m] = up[m - 1] + Funds[m]
    BY <1>5
  <2>5. ASSUME k < m PROVE FALSE
    <3>1. m - 1 \in 0 .. L /\ k \in 0 .. m - 1
      BY <1>1, <2>5
    <3>2. up[k] <= up[m - 1]
      BY <1>2, <3>1
    <3> QED BY <2>3, <2>4, <3>2
  <2>6. ASSUME m < k PROVE FALSE
    <3>1. k - 1 \in 0 .. L /\ m \in 0 .. k - 1
      BY <1>1, <2>6
    <3>2. up[m] <= up[k - 1]
      BY <1>2, <3>1
    <3> QED BY <2>3, <2>4, <3>2
  <2>7. k = m
    BY <2>5, <2>6
  <2> QED BY <2>1, <2>2, <2>3, <2>4, <2>7
<1>11. DOMAIN coins \subseteq (0 .. txs) \X (1 .. MaxOuts)
  BY <1>1, <1>4, <1>8
<1> QED BY <1>1, <1>4, <1>9, <1>10, <1>11 DEF ChainOK

\* It holds at the start.
LEMMA IndexStart ==
  ASSUME InscriptionsInit
  PROVE  IndexInv
<1>1. /\ unit = <<>> /\ beside = <<>> /\ inscriptions = <<>> /\ locations = <<>> /\ txs = 0 /\ height = 0
      /\ alphaTip = NoTip /\ actors = <<>> /\ history = <<>>
  BY DEF InscriptionsInit
<1>2. DOMAIN unit = {} /\ DOMAIN beside = {} /\ Ids = {} /\ DOMAIN locations = {} /\ DOMAIN actors = {}
  BY <1>1 DEF Ids
<1>3. \A S : <<>> \in [{} -> S]
  OBVIOUS
<1>4. ChainOK
  BY FirstCoins
<1>5. RecordsOK
  <2> HIDE DEF RecordType
  <2> QED BY <1>1, <1>2, <1>3 DEF RecordsOK
<1>6. IndexOK
  BY <1>2 DEF IndexOK, Matches, InRow, Placed
<1>7. ParentsWereSpent
  BY <1>2 DEF ParentsWereSpent
<1>8. TipOK
  BY <1>1 DEF TipOK, TipIsTheCarrier
<1>9. LedgerOK
  <2>1. history \in Seq(EntryType) /\ Len(history) = 0 /\ DOMAIN history = {}
    <3> HIDE DEF EntryType
    <3> QED BY <1>1
  <2>2. ASSUME NEW asOf \in Nat, NEW a \in Addresses, NEW k \in Actions
        PROVE  Count(Heights(a)[k], asOf) = Capped(k, Cardinality(Done(a, k, asOf)))
    <3>1. Heights(a)[k] = <<>>
      BY <1>2 DEF Heights, NoHeights
    <3>2. Count(<<>>, asOf) = 0
      <4>1. <<>> \in Seq(Nat) /\ Len(<<>>) = 0
        OBVIOUS
      <4>2. Count(<<>>, asOf) \in Nat /\ Count(<<>>, asOf) <= Len(<<>>)
        BY <4>1, CountIs
      <4> QED BY <4>1, <4>2
    <3>3. Done(a, k, asOf) = {}
      BY <2>1 DEF Done
    <3>4. Cardinality({}) = 0
      BY FS_EmptySet
    <3>5. MaxTimes[k] \in Nat
      BY InscriptionsAssumption DEF Actions
    <3> QED BY <3>1, <3>2, <3>3, <3>4, <3>5 DEF Capped
  <2>3. IsFiniteSet({})
    BY FS_EmptySet
  <2>4. actors \in [DOMAIN actors -> [Actions -> Seq(Nat)]]
    BY <1>1, <1>2, <1>3
  <2>5. \A n \in 1 .. Len(history) : history[n].at <= height
    BY <2>1
  <2>6. \A a \in DOMAIN actors : \A k \in Actions : Kept(actors[a][k], k, height)
    BY <1>2
  <2>7. DOMAIN actors \subseteq Addresses /\ IsFiniteSet(DOMAIN actors)
    BY <1>2, <2>3
  <2> QED BY <2>1, <2>2, <2>4, <2>5, <2>6, <2>7 DEF LedgerOK
<1> QED BY <1>4, <1>5, <1>6, <1>7, <1>8, <1>9 DEF IndexInv

\* A transaction keeps it.
LEMMA IndexStep ==
  ASSUME IndexInv, NEW ins \in Seq(DOMAIN coins), NEW outs \in Outputs, NEW claims \in Seq(1 .. MaxTxs),
         NEW reveals \in BOOLEAN, NEW took \in BOOLEAN, NEW minted \in 0 .. Len(outs), NEW h \in height .. height + 1,
         NEW t, t = txs + 1, Apply(ins, outs, reveals, claims, took, minted, h)
  PROVE  IndexInv'
<1>1. ChainOK /\ RecordsOK /\ IndexOK /\ ParentsWereSpent /\ TipOK /\ LedgerOK
  BY DEF IndexInv
<1>2. /\ txs < MaxTxs /\ Spends(ins) /\ Pays(ins, outs) /\ h \in {height, height + 1} /\ txs' = t /\ height' = h
      /\ MoveCoins(t, ins, outs)
      /\ Assign(t, ins, outs, reveals, WithReveal(t, ins, reveals, claims))
      /\ NoteActions(t, h, ins, took, minted, outs)
      /\ FollowAlphaTip(t, ins, outs)
  BY Zenon DEF Apply
<1>3. /\ unit' = IF reveals THEN [i \in Ids \cup {t} |-> IF i = t THEN Head(Append(Units(ins), 0)) ELSE unit[i]]
                          ELSE unit
      /\ beside' = IF reveals THEN [i \in Ids \cup {t} |->
                                      IF i = t THEN {p \in Ids : unit[p] \in Range(Units(ins))} ELSE beside[i]]
                              ELSE beside
  BY Zenon DEF Apply
<1>4. unit = [i \in Ids |-> unit[i]] /\ beside = [i \in Ids |-> beside[i]]
  BY <1>1 DEF RecordsOK
<1>5. unit' = [i \in Known(t, reveals) |-> Unit(t, ins, reveals, i)]
  <2>1. CASE reveals
    <3>1. Known(t, reveals) = Ids \cup {t}
      BY <2>1 DEF Known
    <3>2. \A i : Unit(t, ins, reveals, i) = IF i = t THEN Head(Append(Units(ins), 0)) ELSE unit[i]
      BY <2>1 DEF Unit
    <3>3. unit' = [i \in Ids \cup {t} |-> IF i = t THEN Head(Append(Units(ins), 0)) ELSE unit[i]]
      BY <1>3, <2>1
    <3> QED BY <3>1, <3>2, <3>3
  <2>2. CASE ~reveals
    <3>1. Known(t, reveals) = Ids
      BY <2>2 DEF Known
    <3>2. \A i : Unit(t, ins, reveals, i) = unit[i]
      BY <2>2 DEF Unit
    <3>3. unit' = unit
      BY <1>3, <2>2
    <3> QED BY <1>4, <3>1, <3>2, <3>3
  <2> QED BY <2>1, <2>2
<1>6. beside' = [i \in Known(t, reveals) |->
                   IF reveals /\ i = t THEN {p \in Ids : unit[p] \in Range(Units(ins))} ELSE beside[i]]
  <2>1. CASE reveals
    <3>1. Known(t, reveals) = Ids \cup {t}
      BY <2>1 DEF Known
    <3>3. beside' = [i \in Ids \cup {t} |->
                       IF i = t THEN {p \in Ids : unit[p] \in Range(Units(ins))} ELSE beside[i]]
      BY <1>3, <2>1
    <3> QED BY <2>1, <3>1, <3>3
  <2>2. CASE ~reveals
    <3>1. Known(t, reveals) = Ids
      BY <2>2 DEF Known
    <3>3. beside' = beside
      BY <1>3, <2>2
    <3> QED BY <1>4, <2>2, <3>1, <3>3
  <2> QED BY <2>1, <2>2
<1>7. \A i \in Known(t, reveals) : unit'[i] = Unit(t, ins, reveals, i)
  BY <1>5
<1>8. ChainOK'
  <2>1. MoveCoins(txs + 1, ins, outs) /\ txs' = txs + 1 /\ height' \in {height, height + 1}
    BY <1>2
  <2> QED BY <1>1, <1>2, <2>1, ChainAfter
<1>9. IndexOK'
  BY <1>1, <1>2, <1>7, IndexAfter
<1>10. RecordsOK' /\ ParentsWereSpent'
  <2>1. /\ ChainOK /\ RecordsOK /\ IndexOK /\ ParentsWereSpent /\ txs < MaxTxs /\ Spends(ins) /\ txs' = t
        /\ Assign(t, ins, outs, reveals, WithReveal(t, ins, reveals, claims))
    BY <1>1, <1>2
  <2>2. unit' = UnitsAfter(t, ins, reveals) /\ beside' = BesideAfter(t, ins, reveals)
    BY <1>5, <1>6, Zenon DEF UnitsAfter, BesideAfter
  <2> QED BY <2>1, <2>2, RecordsAfter
<1>11. TipOK'
  BY <1>1, <1>2, TipAfter
<1>12. LedgerOK'
  <2>1. txs \in Nat /\ height \in Nat
    <3>1. txs \in 0 .. MaxTxs /\ height \in 0 .. txs
      BY <1>1 DEF ChainOK
    <3> QED BY <3>1, InscriptionsAssumption
  <2>2. t \in Nat /\ h \in Nat
    BY <1>2, <2>1
  <2>3. \A i \in DOMAIN inscriptions' : inscriptions'[i].owner \in Holder
    <3>1. inscriptions' \in [DOMAIN inscriptions' -> RecordType]
      BY <1>10, Zenon DEF RecordsOK, Ids
    <3>2. \A i \in DOMAIN inscriptions' : inscriptions'[i] \in RecordType
      <4> HIDE DEF RecordType
      <4> QED BY <3>1
    <3>3. \A r \in RecordType : r.owner \in Holder
      BY DEF RecordType
    <3> HIDE DEF RecordType
    <3> QED BY <3>2, <3>3
  <2>4. PICK e : e = Earned(t, h, ins, took, minted, outs)
    OBVIOUS
  <2>5. Once(e, h)
    BY <2>2, <2>3, <2>4, EarnedIs
  <2>6. history' = history \o e
    BY <1>2, <2>4, Zenon DEF NoteActions
  <2>7. actors' = [a \in DOMAIN actors \cup {x.who : x \in Range(e)} |->
                     [k \in Actions |-> IF \E x \in Range(e) : x.who = a /\ x.did = k
                                        THEN Recorded(Heights(a)[k], k, h) ELSE Heights(a)[k]]]
    BY <1>2, <2>4, Zenon DEF NoteActions
  <2> QED BY <1>1, <1>2, <2>1, <2>5, <2>6, <2>7, LedgerStep
<1> QED BY <1>8, <1>9, <1>10, <1>11, <1>12, Zenon DEF IndexInv

\* And so does every step.
LEMMA IndexSteps ==
  IndexInv /\ [InscriptionsNext]_inscriptionVars => IndexInv'
<1> SUFFICES ASSUME IndexInv, [InscriptionsNext]_inscriptionVars PROVE IndexInv'
  OBVIOUS
<1>1. CASE InscriptionsNext
  <2>1. PICK ins \in Seq(DOMAIN coins), outs \in Outputs, claims \in Seq(1 .. MaxTxs), reveals \in BOOLEAN,
             took \in BOOLEAN :
          \E minted \in 0 .. Len(outs), h \in height .. height + 1 : Apply(ins, outs, reveals, claims, took, minted, h)
    BY <1>1, Zenon DEF InscriptionsNext
  <2>2. PICK minted \in 0 .. Len(outs), h \in height .. height + 1 :
          Apply(ins, outs, reveals, claims, took, minted, h)
    BY <2>1
  <2>3. PICK t : t = txs + 1
    OBVIOUS
  <2> QED BY <2>2, <2>3, IndexStep
<1>2. CASE UNCHANGED inscriptionVars
  <2>1. /\ coins' = coins /\ unit' = unit /\ beside' = beside /\ txs' = txs /\ height' = height
        /\ inscriptions' = inscriptions /\ locations' = locations /\ alphaTip' = alphaTip /\ actors' = actors
        /\ history' = history
    BY <1>2 DEF inscriptionVars, index, drop
  <2>2. Ids' = Ids /\ \A o : Here(o)' = Here(o) /\ Value(o)' = Value(o)
    BY <2>1 DEF Ids, Here, Value
  <2>3. ChainOK'
    BY <2>1, <2>2 DEF IndexInv, ChainOK, UnitsApart
  <2>4. RecordsOK'
    <3> HIDE DEF RecordType
    <3> QED BY <2>1, <2>2 DEF IndexInv, RecordsOK
  <2>5. IndexOK'
    <3>1. DOMAIN locations' \subseteq DOMAIN coins' /\ \A o \in DOMAIN locations' : locations'[o] \in Seq([id : Ids', offset : Nat])
      BY <2>1, <2>2 DEF IndexInv, IndexOK
    <3>2. \A o, i, n : Carries(o, i, n)' <=> Carries(o, i, n)
      BY <2>2 DEF Carries
    <3>3. Matches'
      BY <2>1, <2>2, <3>2 DEF IndexInv, IndexOK, Matches
    <3>4. InRow'
      BY <2>1 DEF IndexInv, IndexOK, InRow
    <3>5. Placed'
      BY <2>1, <2>2 DEF IndexInv, IndexOK, Placed
    <3> QED BY <3>1, <3>3, <3>4, <3>5, Zenon DEF IndexOK
  <2>6. ParentsWereSpent'
    BY <2>1, <2>2 DEF IndexInv, ParentsWereSpent
  <2>7. TipOK'
    BY <2>1, <2>2 DEF IndexInv, TipOK, TipIsTheCarrier
  <2>8. LedgerOK'
    <3>1. \A a : Heights(a)' = Heights(a)
      BY <2>1 DEF Heights
    <3>2. \A a, k, asOf : Done(a, k, asOf)' = Done(a, k, asOf)
      BY <2>1 DEF Done
    <3> HIDE DEF EntryType, Kept, Capped
    <3> QED BY <2>1, <3>1, <3>2 DEF IndexInv, LedgerOK
  <2> QED BY <2>3, <2>4, <2>5, <2>6, <2>7, <2>8, Zenon DEF IndexInv
<1> QED BY <1>1, <1>2

\* The index says where the unit of an inscription is, for it carries just those.
LEMMA WhereIs ==
  ASSUME IndexInv
  PROVE  WhereItsUnitIs
<1>1. ChainOK /\ IndexOK
  BY DEF IndexInv
<1>2. /\ DOMAIN locations \subseteq DOMAIN coins
      /\ \A o \in DOMAIN locations : locations[o] \in Seq([id : Ids, offset : Nat])
      /\ Matches /\ Placed
  BY <1>1 DEF IndexOK
<1>3. \A o \in DOMAIN coins : Value(o) \in Nat /\ DOMAIN coins[o].units = 1 .. Value(o)
  <2> SUFFICES ASSUME NEW o \in DOMAIN coins PROVE Value(o) \in Nat /\ DOMAIN coins[o].units = 1 .. Value(o)
    OBVIOUS
  <2>1. coins[o].units \in Seq(1 .. Total) /\ Value(o) = Len(coins[o].units) /\ Value(o) \in Nat
    BY <1>1, CoinsAre
  <2> QED BY <2>1
<1>4. \A o \in DOMAIN coins : \A x : x \in Range(coins[o].units) <=> \E j \in 1 .. Value(o) : coins[o].units[j] = x
  BY <1>3 DEF Range
<1> SUFFICES ASSUME NEW i \in Ids
             PROVE  LET on == {o \in DOMAIN coins : unit[i] \in Range(coins[o].units)} IN
                      IF on = {} THEN inscriptions[i].location = Burned
                      ELSE \A o \in on :
                             /\ inscriptions[i].location = o /\ inscriptions[i].owner = coins[o].to
                             /\ \E m \in Range(Here(o)) : m.id = i /\ coins[o].units[m.offset + 1] = unit[i]
  BY DEF WhereItsUnitIs
<1> DEFINE on == {o \in DOMAIN coins : unit[i] \in Range(coins[o].units)}
<1>5. on = {} => inscriptions[i].location = Burned
  <2> SUFFICES ASSUME on = {} PROVE inscriptions[i].location = Burned
    OBVIOUS
  <2>1. \A o \in DOMAIN coins : unit[i] \notin Range(coins[o].units)
    OBVIOUS
  <2>2. \A o \in DOMAIN coins : \A j \in 1 .. Value(o) : coins[o].units[j] # unit[i]
    BY <1>4, <2>1
  <2> QED BY <1>2, <2>2 DEF Placed
<1>6. ASSUME NEW o \in on
      PROVE  /\ inscriptions[i].location = o /\ inscriptions[i].owner = coins[o].to
             /\ \E m \in Range(Here(o)) : m.id = i /\ coins[o].units[m.offset + 1] = unit[i]
  <2>1. PICK j \in 1 .. Value(o) : coins[o].units[j] = unit[i]
    BY <1>4
  <2>2. inscriptions[i].location = o /\ inscriptions[i].owner = coins[o].to
    BY <1>2, <2>1 DEF Placed
  <2>3. j - 1 \in Nat /\ j - 1 < Value(o) /\ (j - 1) + 1 = j
    BY <1>3
  <2>4. Carries(o, i, j - 1)
    BY <1>2, <2>1, <2>3 DEF Matches
  <2>5. PICK k \in 1 .. Len(Here(o)) : Here(o)[k].id = i /\ Here(o)[k].offset = j - 1
    BY <2>4 DEF Carries
  <2>6. DOMAIN Here(o) = 1 .. Len(Here(o))
    <3> DEFINE S == [id : Ids, offset : Nat]
    <3>1. Here(o) = <<>> \/ Here(o) \in Seq(S)
      BY <1>2 DEF Here
    <3> HIDE DEF S
    <3> QED BY <3>1
  <2>7. Here(o)[k] \in Range(Here(o))
    BY <2>5, <2>6 DEF Range
  <2> QED BY <2>1, <2>2, <2>3, <2>5, <2>7
<1> HIDE DEF on
<1> QED BY <1>5, <1>6, Zenon DEF on

\* Those of a place are the inscriptions whose record names it.
LEMMA RecordsName ==
  ASSUME IndexInv, NEW o \in DOMAIN locations
  PROVE  /\ locations[o] \in Seq([id : Ids, offset : Nat])
         /\ \A k \in 1 .. Len(locations[o]) :
              locations[o][k].id \in Ids /\ inscriptions[locations[o][k].id].location = o
         /\ \A i \in Ids : inscriptions[i].location = o => \E k \in 1 .. Len(locations[o]) : locations[o][k].id = i
<1>1. ChainOK /\ IndexOK
  BY DEF IndexInv
<1>2. /\ DOMAIN locations \subseteq DOMAIN coins
      /\ \A p \in DOMAIN locations : locations[p] \in Seq([id : Ids, offset : Nat])
      /\ Matches /\ Placed
  BY <1>1 DEF IndexOK
<1>3. o \in DOMAIN coins /\ Value(o) \in Nat /\ Here(o) = locations[o]
  BY <1>1, <1>2, CoinsAre DEF Here
<1>4. o # Burned
  <2>1. DOMAIN coins \subseteq (0 .. txs) \X (1 .. MaxOuts)
    BY <1>1 DEF ChainOK
  <2>2. o[2] \in 1 .. MaxOuts
    BY <1>3, <2>1
  <2> QED BY <2>2 DEF Burned
<1>5. ASSUME NEW k \in 1 .. Len(locations[o])
      PROVE  locations[o][k].id \in Ids /\ inscriptions[locations[o][k].id].location = o
  <2> DEFINE i == locations[o][k].id
             n == locations[o][k].offset
  <2>1. locations[o][k] \in [id : Ids, offset : Nat]
    <3> DEFINE S == [id : Ids, offset : Nat]
    <3>1. locations[o] \in Seq(S)
      BY <1>2
    <3> HIDE DEF S
    <3>2. locations[o][k] \in S
      BY <3>1
    <3> QED BY <3>2 DEF S
  <2>2. i \in Ids /\ n \in Nat
    BY <2>1
  <2>3. Carries(o, i, n)
    BY <1>3 DEF Carries
  <2> HIDE DEF i, n
  <2>4. n < Value(o) /\ coins[o].units[n + 1] = unit[i]
    BY <1>2, <1>3, <2>2, <2>3 DEF Matches
  <2>5. n + 1 \in 1 .. Value(o)
    BY <1>3, <2>2, <2>4
  <2>6. inscriptions[i].location = o
    BY <1>2, <1>3, <2>2, <2>4, <2>5 DEF Placed
  <2> QED BY <2>2, <2>6 DEF i
<1>6. ASSUME NEW i \in Ids, inscriptions[i].location = o
      PROVE  \E k \in 1 .. Len(locations[o]) : locations[o][k].id = i
  <2>1. PICK p \in DOMAIN coins : \E j \in 1 .. Value(p) : coins[p].units[j] = unit[i]
    BY <1>2, <1>4, <1>6 DEF Placed
  <2>2. PICK j \in 1 .. Value(p) : coins[p].units[j] = unit[i]
    BY <2>1
  <2>3. p = o
    BY <1>2, <1>6, <2>2 DEF Placed
  <2>4. j - 1 \in Nat /\ j - 1 < Value(o) /\ (j - 1) + 1 = j
    BY <1>3, <2>3
  <2>5. Carries(o, i, j - 1)
    BY <1>2, <1>3, <2>2, <2>3, <2>4 DEF Matches
  <2> QED BY <1>3, <2>5 DEF Carries
<1> QED BY <1>2, <1>5, <1>6

\* Both views of a place agree.
LEMMA ViewsAgree ==
  ASSUME IndexInv
  PROVE  LocationsAgree
<1>1. IndexOK /\ RecordsOK /\ ChainOK
  BY DEF IndexInv
<1>2. DOMAIN locations \subseteq DOMAIN coins /\ InRow
  BY <1>1 DEF IndexOK
<1>3. ASSUME NEW o \in DOMAIN locations
      PROVE  /\ {m.id : m \in Range(locations[o])} = {i \in Ids : inscriptions[i].location = o}
             /\ Len(locations[o]) = Cardinality({i \in Ids : inscriptions[i].location = o})
             /\ \A k, n \in 1 .. Len(locations[o]) : k < n => locations[o][k].offset <= locations[o][n].offset
  <2> DEFINE row == locations[o]
             at == {i \in Ids : inscriptions[i].location = o}
             f == [k \in 1 .. Len(row) |-> row[k].id]
  <2>1. /\ row \in Seq([id : Ids, offset : Nat])
        /\ \A k \in 1 .. Len(row) : row[k].id \in Ids /\ inscriptions[row[k].id].location = o
        /\ \A i \in Ids : inscriptions[i].location = o => \E k \in 1 .. Len(row) : row[k].id = i
    BY RecordsName
  <2>2. Len(row) \in Nat /\ DOMAIN row = 1 .. Len(row)
    <3> DEFINE S == [id : Ids, offset : Nat]
    <3>1. row \in Seq(S)
      BY <2>1
    <3> HIDE DEF S, row
    <3> QED BY <3>1
  <2>3. \A k, n \in 1 .. Len(row) : k < n => row[k].id # row[n].id /\ row[k].offset <= row[n].offset
    BY <1>2 DEF InRow
  <2> HIDE DEF row
  <2>4. {m.id : m \in Range(row)} = at
    <3>1. \A m : m \in Range(row) <=> \E k \in 1 .. Len(row) : m = row[k]
      BY <2>2 DEF Range
    <3>2. \A i : i \in at <=> \E k \in 1 .. Len(row) : i = row[k].id
      BY <2>1
    <3> HIDE DEF at
    <3>3. \A i : i \in {m.id : m \in Range(row)} <=> i \in at
      BY <3>1, <3>2
    <3> QED BY <3>3
  <2>5. f \in [1 .. Len(row) -> at]
    BY <2>1
  <2>6. \A k, n \in 1 .. Len(row) : f[k] = f[n] => k = n
    BY <2>2, <2>3
  <2>7. \A i \in at : \E k \in 1 .. Len(row) : f[k] = i
    BY <2>1
  <2>8. Len(row) = Cardinality(at)
    <3> DEFINE L == Len(row)
    <3>1. L \in Nat
      BY <2>2
    <3> HIDE DEF f, at
    <3>2. f \in Bijection(1 .. L, at)
      BY <2>5, <2>6, <2>7 DEF Bijection, Injection, Surjection, IsInjective
    <3> HIDE DEF L
    <3>3. ExistsBijection(1 .. L, at)
      BY <3>2 DEF ExistsBijection
    <3>4. IsFiniteSet(1 .. L) /\ Cardinality(1 .. L) = L
      <4>1. 1 \in Int /\ L \in Int
        BY <3>1
      <4>2. IsFiniteSet(1 .. L) /\ Cardinality(1 .. L) = IF 1 > L THEN 0 ELSE L - 1 + 1
        BY <4>1, FS_Interval
      <4> QED BY <3>1, <4>2
    <3>5. Cardinality(at) = Cardinality(1 .. L)
      BY <3>3, <3>4, FS_Bijection
    <3> QED BY <3>4, <3>5 DEF L
  <2> QED BY <2>3, <2>4, <2>8 DEF row
<1> QED BY <1>2, <1>3, Zenon DEF LocationsAgree

\* The types.
LEMMA IndexTyped ==
  ASSUME IndexInv
  PROVE  InscriptionsTypeOK
<1>1. ChainOK /\ RecordsOK /\ IndexOK /\ TipOK /\ LedgerOK
  BY DEF IndexInv
<1>2. /\ MaxTxs \in Nat /\ txs \in 0 .. MaxTxs /\ height \in 0 .. txs /\ txs \in Nat
      /\ DOMAIN coins \subseteq (0 .. txs) \X (1 .. MaxOuts)
  BY <1>1, InscriptionsAssumption DEF ChainOK
<1>3. DOMAIN coins \subseteq TxOut
  <2>1. 0 .. txs \subseteq 0 .. MaxTxs
    BY <1>2
  <2> QED BY <1>2, <2>1 DEF TxOut
<1>4. ASSUME NEW o \in DOMAIN coins
      PROVE  Range(coins[o].units) \subseteq 1 .. Total /\ coins[o].to \in Addresses \cup {NoAddress}
  <2>1. coins[o].units \in Seq(1 .. Total) /\ coins[o].to \in Holder
    BY <1>1, CoinsAre
  <2> DEFINE S == 1 .. Total
             u == coins[o].units
  <2>2. u \in Seq(S)
    BY <2>1
  <2> HIDE DEF S, u
  <2>3. Range(u) \subseteq S
    BY <2>2 DEF Range
  <2> QED BY <2>1, <2>3 DEF Holder, S, u
<1>5. Ids \subseteq 1 .. MaxTxs /\ DOMAIN unit = Ids /\ DOMAIN beside = Ids
  <2> HIDE DEF RecordType
  <2>1. Ids \subseteq 1 .. txs
    BY <1>1 DEF RecordsOK
  <2>2. DOMAIN unit = Ids /\ DOMAIN beside = Ids
    BY <1>1 DEF RecordsOK
  <2> QED BY <1>2, <2>1, <2>2
<1>6. ASSUME NEW i \in Ids
      PROVE  /\ inscriptions[i].number \in 0 .. MaxTxs - 1
             /\ inscriptions[i].location \in TxOut \cup {Burned}
             /\ inscriptions[i].owner \in Addresses \cup {NoAddress}
             /\ Range(inscriptions[i].parents) \cup Range(inscriptions[i].children) \subseteq 1 .. MaxTxs
  <2> DEFINE r == inscriptions[i]
             S == 1 .. MaxTxs
  <2>1. r \in RecordType
    <3> HIDE DEF RecordType
    <3> QED BY <1>1 DEF RecordsOK
  <2>2. \A x \in RecordType : /\ x.number \in 0 .. MaxTxs - 1 /\ x.location \in TxOut \cup {Burned}
                              /\ x.owner \in Holder /\ x.parents \in Seq(S) /\ x.children \in Seq(S)
    BY DEF RecordType
  <2> HIDE DEF RecordType, r
  <2>3. r.parents \in Seq(S) /\ r.children \in Seq(S)
    BY <2>1, <2>2
  <2> HIDE DEF S
  <2>4. Range(r.parents) \subseteq S /\ Range(r.children) \subseteq S
    BY <2>3 DEF Range
  <2>5. r.number \in 0 .. MaxTxs - 1 /\ r.location \in TxOut \cup {Burned} /\ r.owner \in Holder
    BY <2>1, <2>2
  <2> QED BY <2>4, <2>5 DEF r, S, Holder
<1>7. DOMAIN locations \subseteq TxOut
  BY <1>1, <1>3 DEF IndexOK
<1>8. alphaTip = NoTip \/ alphaTip.outpoint \in TxOut
  BY <1>1 DEF TipOK, TipType
<1>9. \A a \in DOMAIN actors : \A k \in Actions : Len(actors[a][k]) \in 0 .. MaxTimes[k]
  <2> SUFFICES ASSUME NEW a \in DOMAIN actors, NEW k \in Actions PROVE Len(actors[a][k]) \in 0 .. MaxTimes[k]
    OBVIOUS
  <2>1. Kept(actors[a][k], k, height)
    BY <1>1, Zenon DEF LedgerOK
  <2>2. actors[a][k] \in Seq(Nat) /\ Len(actors[a][k]) <= MaxTimes[k] /\ Len(actors[a][k]) \in Nat
    BY <2>1 DEF Kept
  <2>3. MaxTimes[k] \in Nat
    BY InscriptionsAssumption DEF Actions
  <2> QED BY <2>2, <2>3
<1>10. txs \in 0 .. MaxTxs /\ height \in 0 .. MaxTxs
  BY <1>2
<1> QED BY <1>3, <1>4, <1>5, <1>6, <1>7, <1>8, <1>9, <1>10, Zenon DEF InscriptionsTypeOK

\* Any snapshot can be answered.
LEMMA Answerable ==
  ASSUME IndexInv
  PROVE  SnapshotAnswerable
<1> SUFFICES ASSUME NEW asOf \in 0 .. height, NEW a \in Addresses, NEW k \in Actions
             PROVE  Count(Heights(a)[k], asOf) = Min({MaxTimes[k], Cardinality(Done(a, k, asOf))})
  BY Zenon DEF SnapshotAnswerable, Done
<1>1. LedgerOK /\ asOf \in Nat
  <2>1. ChainOK /\ LedgerOK
    BY DEF IndexInv
  <2>2. txs \in 0 .. MaxTxs /\ height \in 0 .. txs
    BY <2>1 DEF ChainOK
  <2> QED BY <2>1, <2>2, InscriptionsAssumption
<1>2. Count(Heights(a)[k], asOf) = Capped(k, Cardinality(Done(a, k, asOf)))
  BY <1>1, Zenon DEF LedgerOK
<1> DEFINE d == Cardinality(Done(a, k, asOf))
           x == MaxTimes[k]
<1>3. x \in Nat
  BY InscriptionsAssumption DEF Actions
<1>4. d \in Nat
  <2>1. history \in Seq(EntryType)
    BY <1>1 DEF LedgerOK
  <2>2. DOMAIN history = 1 .. Len(history) /\ Len(history) \in Nat
    <3> HIDE DEF EntryType
    <3> QED BY <2>1
  <2> DEFINE L == Len(history)
  <2>3. 1 \in Int /\ L \in Int
    BY <2>2
  <2> HIDE DEF L
  <2>4. IsFiniteSet(1 .. L)
    BY <2>3, FS_Interval
  <2>5. Done(a, k, asOf) \subseteq 1 .. L
    BY <2>2 DEF Done, L
  <2>6. IsFiniteSet(Done(a, k, asOf))
    BY <2>4, <2>5, FS_Subset
  <2> QED BY <2>6, FS_CardinalityType
<1>5. Count(Heights(a)[k], asOf) = IF d < x THEN d ELSE x
  BY <1>2 DEF Capped
<1> HIDE DEF d, x
<1>6. Min({x, d}) = IF d < x THEN d ELSE x
  <2>1. d \in {x, d} /\ x \in {x, d}
    OBVIOUS
  <2>2. \A m \in {x, d} : (\A n \in {x, d} : m <= n) => m = IF d < x THEN d ELSE x
    BY <1>3, <1>4
  <2>3. \E m \in {x, d} : \A n \in {x, d} : m <= n
    BY <1>3, <1>4
  <2> QED BY <2>2, <2>3 DEF Min
<1> QED BY <1>5, <1>6 DEF d, x

\* What always holds makes the index sound.
LEMMA IndexEnough ==
  ASSUME IndexInv
  PROVE  IndexSound
<1>1. ChainOK /\ LedgerOK /\ ParentsWereSpent /\ TipOK
  BY DEF IndexInv
<1>2. height \in Nat
  <2>1. txs \in 0 .. MaxTxs /\ height \in 0 .. txs
    BY <1>1 DEF ChainOK
  <2> QED BY <2>1, InscriptionsAssumption
<1>3. AllOfItAllocated
  BY <1>1, <1>2, AllocateIs
<1>4. TipIsTheCarrier
  BY <1>1 DEF TipOK
<1>5. InscriptionsTypeOK /\ WhereItsUnitIs /\ LocationsAgree /\ SnapshotAnswerable
  BY IndexTyped, WhereIs, ViewsAgree, Answerable
<1> QED BY <1>1, <1>3, <1>4, <1>5, Zenon DEF IndexSound

\* Whatever transactions come, each unit stays in one coin, the index carries what the coins hold, and
\* the ledger counts as the history does (indexer.js:96-172, airdrop.js:77-108).
THEOREM IndexInvariant == InscriptionsSpec => []IndexInv
<1>1. InscriptionsInit => IndexInv
  BY IndexStart
<1>2. IndexInv /\ [InscriptionsNext]_inscriptionVars => IndexInv'
  BY IndexSteps
<1> QED BY <1>1, <1>2, PTL DEF InscriptionsSpec

\* What the index says of every inscription - its output, its offset, its holder, its verified parent -
\* and of the tip is what the units on the chain say, after any transactions (indexer.js:96-172); a
\* snapshot of the drop of any height can be answered at any later time, and its supply is given away
\* exactly (airdrop.js:77-189).
THEOREM IndexCorrect == InscriptionsSpec => []IndexSound
<1>1. IndexInv => IndexSound
  BY IndexEnough
<1> QED BY <1>1, IndexInvariant, PTL
===============================================================================
