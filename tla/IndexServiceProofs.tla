------------------------- MODULE IndexServiceProofs -------------------------
(***************************************************************************)
(* Theorems about IndexService, for every trail depth, snapshot interval and *)
(* count, and every way the node's chain may move.                          *)
(***************************************************************************)
EXTENDS IndexService, SequenceTheorems, TLAPS

\* The trail is the end of the blocks counted.
TrailOf(t, blocks) ==
  /\ DOMAIN t = {h \in 1..Len(blocks) : h >= Len(blocks) - TrailDepth}
  /\ \A h \in DOMAIN t : t[h] = blocks[h]

\* Each snapshot is a whole state: a chain with its trail, of an allowed height.
Whole(c) ==
  /\ c.ledger # <<>> /\ Len(c.ledger) <= MaxHeight
  /\ Linked(c.ledger) /\ TrailOf(c.trail, c.ledger)
  /\ (From + Len(c.ledger) - 1) % Interval = 0
SnapshotsWhole == \A i \in DOMAIN snapshots : Whole(snapshots[i])

\* A snapshot no higher than the ledger is a past of the ledger, or was made on
\* a chain abandoned since, and then a later one of the same height is.
Past(i) == StartOf(snapshots[i].ledger, ledger)
SnapshotsPlaced ==
  \A i \in DOMAIN snapshots : Len(snapshots[i].ledger) <= Top =>
    \/ Past(i)
    \/ \E k \in DOMAIN snapshots :
         i < k /\ Len(snapshots[k].ledger) = Len(snapshots[i].ledger) /\ Past(k)

\* Where the scan stands.
Cursor ==
  /\ pc = "fetch" => height = Top + 1 /\ height <= tip
  /\ pc = "fork" => height <= Top /\ ledger # <<>>
Witnessed ==
  /\ pc # "idle" => ~synced
  /\ pc \in {"count", "fetch"} => agreed
  /\ FreshAnswer

IInv == TypeOK /\ OneChain /\ SnapshotsWhole /\ SnapshotsPlaced /\ Cursor /\ Witnessed

-----------------------------------------------------------------------------
\* What a Hash is, and a block of the node's chain is one.
LEMMA HashIs == \A c : c \in Hash <=> c \in Block /\ Len(c) <= MaxHeight
<1>1. ASSUME NEW c \in Hash PROVE c \in Block /\ Len(c) <= MaxHeight
  BY IndexAssumption DEF Hash, Block
<1>2. ASSUME NEW c \in Block, Len(c) <= MaxHeight PROVE c \in Hash
  <2>1. Len(c) \in 0..MaxHeight /\ c \in [1..Len(c) -> Label]
    BY <1>2, LenProperties, IndexAssumption DEF Block
  <2> QED BY <2>1 DEF Hash
<1> QED BY <1>1, <1>2

\* The block at a height of a bounded chain is a bounded chain.
LEMMA BlockTyped ==
  ASSUME NEW c \in Hash, NEW h \in 0..Len(c)
  PROVE  BlockAt(c, h) \in Hash
<1>1. c \in Seq(Label) /\ Len(c) \in Nat /\ Len(c) <= MaxHeight
  BY HashIs DEF Block
<1>2. \A i \in 1..h : c[i] \in Label
  BY <1>1
<1>3. SubSeq(c, 1, h) \in Seq(Label) /\ Len(SubSeq(c, 1, h)) <= MaxHeight
  BY <1>1, <1>2, SubSeqProperties, IndexAssumption
<1> QED BY <1>3, HashIs DEF Block, BlockAt

\* Recording a block keeps the trail the end of the ledger.
LEMMA RecordTrail ==
  ASSUME NEW l \in Seq(Hash), NEW t \in Trails, TrailOf(t, l), NEW b \in Hash,
         Len(l) + 1 <= MaxHeight
  PROVE  /\ Record(t, Len(l) + 1, b) \in Trails
         /\ TrailOf(Record(t, Len(l) + 1, b), Append(l, b))
<1> DEFINE r == Record(t, Len(l) + 1, b)
           q == Append(l, b)
           D == {h \in 1..Len(q) : h >= Len(q) - TrailDepth}
<1>1. /\ Len(q) = Len(l) + 1 /\ Len(l) \in Nat
      /\ q[Len(q)] = b /\ \A i \in 1..Len(l) : q[i] = l[i]
      /\ \A i \in 1..Len(q) : q[i] \in Hash
  BY AppendProperties, ElementOfSeq
<1> HIDE DEF q
<1>2. DOMAIN r = D
  BY <1>1, IndexAssumption DEF TrailOf, Record
<1>3. \A h \in D : r[h] = q[h]
  BY <1>1, <1>2 DEF TrailOf, Record
<1>4. r \in [D -> Hash]
  <2>1. r = [h \in D |-> r[h]]
    BY <1>2 DEF Record
  <2> HIDE DEF r
  <2> QED BY <2>1, <1>3, <1>1
<1>5. D \in SUBSET (1..MaxHeight)
  BY <1>1, IndexAssumption
<1> HIDE DEF r
<1>6. r \in Trails
  BY <1>4, <1>5 DEF Trails
<1>7. TrailOf(r, q)
  BY <1>2, <1>3 DEF TrailOf
<1> QED BY <1>6, <1>7 DEF r, q

-----------------------------------------------------------------------------
\* Pushing a copy keeps the last Kept of them, in order.
LEMMA Pushed ==
  ASSUME NEW c \in Copy, snapshots \in Seq(Copy), Len(snapshots) <= Kept
  PROVE  LET q == Keep(Append(snapshots, c)) IN
         /\ q \in Seq(Copy) /\ Len(q) <= Kept /\ Len(q) >= 1
         /\ \E s \in {0, 1} :
              /\ Len(q) = Len(snapshots) + 1 - s
              /\ q[Len(q)] = c
              /\ \A i \in 1..(Len(q) - 1) : i + s \in 1..Len(snapshots) /\ q[i] = snapshots[i + s]
<1> DEFINE p == Append(snapshots, c)
           Good(q, t) == /\ Len(q) = Len(snapshots) + 1 - t
                         /\ q[Len(q)] = c
                         /\ \A i \in 1..(Len(q) - 1) : i + t \in 1..Len(snapshots) /\ q[i] = snapshots[i + t]
<1>1. /\ p \in Seq(Copy) /\ p # <<>> /\ Len(p) = Len(snapshots) + 1 /\ Len(snapshots) \in Nat
      /\ p[Len(snapshots) + 1] = c
      /\ \A i \in 1..Len(snapshots) : p[i] = snapshots[i]
  BY AppendProperties
<1> HIDE DEF p
<1>2. /\ Tail(p) \in Seq(Copy) /\ Len(Tail(p)) = Len(p) - 1
      /\ \A i \in 1..Len(Tail(p)) : Tail(p)[i] = p[i + 1]
  BY <1>1, HeadTailProperties
<1> DEFINE Goal == /\ Keep(p) \in Seq(Copy) /\ Len(Keep(p)) <= Kept /\ Len(Keep(p)) >= 1
                   /\ \E t \in {0, 1} : Good(Keep(p), t)
<1>3. ASSUME Len(p) > Kept PROVE Goal
  <2> DEFINE q == Tail(p)
  <2>1. Keep(p) = q
    BY <1>3 DEF Keep
  <2>2. Len(q) = Len(snapshots) /\ Len(snapshots) = Kept /\ q \in Seq(Copy)
    BY <1>1, <1>2, <1>3, IndexAssumption
  <2>3. \A i \in 1..Len(q) : q[i] = p[i + 1]
    BY <1>2
  <2> HIDE DEF q
  <2>4. Good(q, 1)
    BY <1>1, <2>2, <2>3, IndexAssumption
  <2> QED BY <2>1, <2>2, <2>4, IndexAssumption
<1>4. ASSUME ~(Len(p) > Kept) PROVE Goal
  <2>1. Keep(p) = p /\ Good(p, 0) /\ Len(p) <= Kept
    BY <1>1, <1>4, IndexAssumption DEF Keep
  <2> QED BY <1>1, <2>1
<1>5. Goal
  BY <1>3, <1>4
<1> QED BY <1>5 DEF p

\* Applying a block that fits keeps the ledger one chain, and every snapshot in
\* its place: one that the new block makes as high as the ledger is followed by
\* the copy pushed at that height.
LEMMA ApplyKeeps ==
  ASSUME IInv, NEW b \in Hash, Top + 1 <= MaxHeight, Continues(Top + 1, b), Apply(b)
  PROVE  /\ ledger' \in Seq(Hash) /\ Top' = Top + 1 /\ trail' \in Trails
         /\ snapshots' \in Seq(Copy) /\ Len(snapshots') <= Kept
         /\ OneChain' /\ SnapshotsWhole' /\ SnapshotsPlaced'
         /\ ledger'[Top + 1] = b /\ StartOf(ledger, ledger')
         /\ ledger # <<>> => ParentOf(b) = ledger[Top]
<1> USE IndexAssumption DEF IInv
<1>1. /\ ledger \in Seq(Hash) /\ Top \in Nat /\ trail \in Trails /\ TrailOf(trail, ledger)
      /\ snapshots \in Seq(Copy) /\ reorgs \in Nat /\ Linked(ledger)
  BY LenProperties DEF TypeOK, Top, OneChain, TrailOf
<1>2. /\ ledger' \in Seq(Hash) /\ Top' = Top + 1 /\ ledger'[Top + 1] = b
      /\ ledger' # <<>> /\ Len(ledger') = Top + 1
      /\ \A i \in 1..Top : ledger'[i] = ledger[i]
  BY <1>1, AppendProperties DEF Apply, Top
<1>3. trail' \in Trails /\ TrailOf(trail', ledger')
  BY <1>1, RecordTrail DEF Apply, Top
<1>4. ledger # <<>> => ParentOf(b) = ledger[Top]
  <2> SUFFICES ASSUME ledger # <<>> PROVE ParentOf(b) = ledger[Top]
    OBVIOUS
  <2>1. Top >= 1
    BY <1>1, EmptySeq DEF Top
  <2>2. Top \in DOMAIN trail /\ trail[Top] = ledger[Top]
    BY <1>1, <2>1 DEF TrailOf, Top
  <2> QED BY <1>1, <2>2 DEF Continues
<1>5. Linked(ledger')
  <2>1. Top >= 1 => ledger # <<>>
    BY <1>1, EmptySeq DEF Top
  <2> SUFFICES ASSUME NEW i \in 2..(Top + 1) PROVE ParentOf(ledger'[i]) = ledger'[i - 1]
    BY <1>2 DEF Linked
  <2>2. CASE i = Top + 1
    BY <1>1, <1>2, <1>4, <2>1, <2>2
  <2>3. CASE i \in 2..Top
    BY <1>1, <1>2, <2>3 DEF Linked, Top
  <2> QED BY <1>1, <2>2, <2>3
<1>6. OneChain'
  BY <1>2, <1>3, <1>5 DEF OneChain, TrailOf, Top
<1>7. StartOf(ledger, ledger')
  BY <1>1, <1>2 DEF StartOf, Top
<1> DEFINE c == [ledger |-> ledger', trail |-> trail', reorgs |-> reorgs]
<1>8. c \in Copy /\ c.ledger = ledger' /\ c.trail = trail'
  BY <1>1, <1>2, <1>3 DEF Copy
<1>9. CASE (From + Top) % Interval = 0
  <2>1. snapshots' = Keep(Append(snapshots, c))
    BY <1>9 DEF Apply
  <2>2. Whole(c)
    <3>1. From + Len(ledger') - 1 = From + Top
      BY <1>1, <1>2
    <3> QED BY <1>2, <1>3, <1>5, <1>8, <1>9, <3>1 DEF Whole
  <2> HIDE DEF c
  <2>3. PICK s \in {0, 1} :
          /\ snapshots' \in Seq(Copy) /\ Len(snapshots') <= Kept /\ Len(snapshots') >= 1
          /\ Len(snapshots') = Len(snapshots) + 1 - s
          /\ snapshots'[Len(snapshots')] = c
          /\ \A i \in 1..(Len(snapshots') - 1) :
               i + s \in 1..Len(snapshots) /\ snapshots'[i] = snapshots[i + s]
    BY <1>1, <1>8, <2>1, Pushed DEF TypeOK
  <2> DEFINE n == Len(snapshots')
  <2>4. DOMAIN snapshots' = 1..n /\ n \in Nat /\ DOMAIN snapshots = 1..Len(snapshots)
    BY <2>3, <1>1, LenProperties
  <2> HIDE DEF n
  <2>5. SnapshotsWhole'
    <3> SUFFICES ASSUME NEW i \in 1..n PROVE Whole(snapshots'[i])
      BY <2>4 DEF SnapshotsWhole, Whole, TrailOf
    <3>1. CASE i = n
      BY <2>2, <2>3, <3>1 DEF n
    <3>2. CASE i < n
      <4>1. i + s \in DOMAIN snapshots /\ snapshots'[i] = snapshots[i + s]
        BY <2>3, <2>4, <3>2 DEF n
      <4> QED BY <4>1 DEF SnapshotsWhole
    <3> QED BY <2>4, <3>1, <3>2
  <2>6. SnapshotsPlaced'
    <3> SUFFICES ASSUME NEW i \in 1..n, Len(snapshots'[i].ledger) <= Top + 1
                 PROVE  \/ StartOf(snapshots'[i].ledger, ledger')
                        \/ \E k \in 1..n : /\ i < k
                                           /\ Len(snapshots'[k].ledger) = Len(snapshots'[i].ledger)
                                           /\ StartOf(snapshots'[k].ledger, ledger')
      BY <1>2, <2>4 DEF SnapshotsPlaced, Past
    <3>1. snapshots'[n].ledger = ledger' /\ StartOf(ledger', ledger') /\ n \in 1..n
      BY <1>2, <1>8, <2>3, <2>4 DEF n, StartOf
    <3>2. CASE i = n
      BY <3>1, <3>2
    <3>3. CASE i < n /\ Len(snapshots'[i].ledger) = Top + 1
      BY <1>2, <3>1, <3>3
    <3>4. CASE i < n /\ Len(snapshots'[i].ledger) <= Top
      <4>1. i + s \in 1..Len(snapshots) /\ snapshots'[i] = snapshots[i + s]
        BY <2>3, <2>4, <3>4 DEF n
      <4>2. CASE Past(i + s)
        BY <1>1, <1>2, <4>1, <4>2 DEF Past, StartOf, Top
      <4>3. ASSUME NEW k \in 1..Len(snapshots), i + s < k,
                   Len(snapshots[k].ledger) = Len(snapshots[i + s].ledger), Past(k)
            PROVE  \E m \in 1..n : /\ i < m
                                   /\ Len(snapshots'[m].ledger) = Len(snapshots'[i].ledger)
                                   /\ StartOf(snapshots'[m].ledger, ledger')
        <5>1. k - s \in 1..(n - 1) /\ i < k - s /\ snapshots'[k - s] = snapshots[k]
          BY <2>3, <2>4, <4>3 DEF n
        <5>2. StartOf(snapshots[k].ledger, ledger')
          BY <1>1, <1>2, <4>3 DEF Past, StartOf, Top
        <5> QED BY <2>4, <4>1, <4>3, <5>1, <5>2
      <4> QED BY <2>4, <3>4, <4>1, <4>2, <4>3 DEF SnapshotsPlaced
    <3>5. Len(snapshots'[i].ledger) \in Nat
      BY <2>3, <2>4, ElementOfSeq, LenProperties DEF n, Copy
    <3> QED BY <1>1, <2>4, <3>2, <3>3, <3>4, <3>5
  <2> QED BY <1>2, <1>3, <1>4, <1>6, <1>7, <2>3, <2>5, <2>6
<1>10. CASE (From + Top) % Interval # 0
  <2>1. snapshots' = snapshots
    BY <1>10 DEF Apply
  <2>2. SnapshotsWhole'
    BY <2>1 DEF SnapshotsWhole, Whole, TrailOf
  <2>3. SnapshotsPlaced'
    <3> SUFFICES ASSUME NEW i \in DOMAIN snapshots, Len(snapshots[i].ledger) <= Top + 1
                 PROVE  \/ StartOf(snapshots[i].ledger, ledger')
                        \/ \E k \in DOMAIN snapshots :
                             /\ i < k
                             /\ Len(snapshots[k].ledger) = Len(snapshots[i].ledger)
                             /\ StartOf(snapshots[k].ledger, ledger')
      BY <1>2, <2>1 DEF SnapshotsPlaced, Past
    <3>1. Len(snapshots[i].ledger) \in Nat
      BY <1>1, ElementOfSeq, LenProperties DEF Copy
    <3>2. Len(snapshots[i].ledger) # Top + 1
      <4> SUFFICES ASSUME Len(snapshots[i].ledger) = Top + 1 PROVE FALSE
        OBVIOUS
      <4>1. From + Len(snapshots[i].ledger) - 1 = From + Top
        BY <1>1
      <4> QED BY <1>10, <4>1 DEF SnapshotsWhole, Whole
    <3>3. \A k \in DOMAIN snapshots : Past(k) => StartOf(snapshots[k].ledger, ledger')
      <4> TAKE k \in DOMAIN snapshots
      <4>1. Len(snapshots[k].ledger) \in Nat
        BY <1>1, ElementOfSeq, LenProperties DEF Copy
      <4> QED BY <1>1, <1>2, <4>1 DEF Past, StartOf, Top
    <3> QED BY <1>1, <3>1, <3>2, <3>3 DEF SnapshotsPlaced
  <2> QED BY <1>1, <1>2, <1>3, <1>4, <1>6, <1>7, <2>1, <2>2, <2>3 DEF TypeOK
<1> QED BY <1>9, <1>10

-----------------------------------------------------------------------------
\* The parts of the invariant that speak of the index alone.
Index == OneChain /\ SnapshotsWhole /\ SnapshotsPlaced
IndexTyped == ledger \in Seq(Hash) /\ trail \in Trails /\ snapshots \in Seq(Copy) /\ Len(snapshots) <= Kept

\* A step of the node, or of the scan between two blocks, keeps the index as it is.
LEMMA IndexKept == IInv /\ UNCHANGED index => Index' /\ IndexTyped'
<1> SUFFICES ASSUME IInv, UNCHANGED index PROVE Index' /\ IndexTyped'
  OBVIOUS
<1>1. ledger' = ledger /\ trail' = trail /\ snapshots' = snapshots
  BY DEF index
<1>2. OneChain' /\ IndexTyped'
  BY <1>1 DEF IInv, TypeOK, IndexTyped, OneChain, Linked, Top
<1>3. SnapshotsWhole'
  BY <1>1 DEF IInv, SnapshotsWhole, Whole, TrailOf
<1>4. SnapshotsPlaced'
  BY <1>1 DEF IInv, SnapshotsPlaced, Past, StartOf, Top
<1> QED BY <1>2, <1>3, <1>4 DEF Index

\* What is read out of a snapshot has its type.
LEMMA CopyTyped ==
  ASSUME NEW copies \in Seq(Copy), NEW k \in DOMAIN copies
  PROVE  /\ copies[k] \in Copy /\ copies[k].ledger \in Seq(Hash) /\ copies[k].trail \in Trails
         /\ Len(copies[k].ledger) \in Nat
<1>1. copies[k] \in Copy
  BY ElementOfSeq, LenProperties
<1> QED BY <1>1, LenProperties DEF Copy

\* The snapshot repair() picks is a past of the ledger.
LEMMA PickedIsPast ==
  ASSUME IInv, NEW fork \in DOMAIN trail, NEW i \in DOMAIN snapshots, Picked(i, fork)
  PROVE  Past(i)
<1>1. /\ fork \in Nat /\ fork <= Top /\ Top \in Nat
      /\ Len(snapshots[i].ledger) <= fork /\ Len(snapshots[i].ledger) \in Nat
  BY ElementOfSeq, LenProperties DEF IInv, TypeOK, OneChain, Top, Picked, Within, Copy
<1>2. DOMAIN snapshots \subseteq Nat
  BY LenProperties DEF IInv, TypeOK
<1>3. ASSUME NEW k \in DOMAIN snapshots, i < k, Len(snapshots[k].ledger) = Len(snapshots[i].ledger)
      PROVE  FALSE
  BY <1>1, <1>2, <1>3 DEF Picked, Within
<1> QED BY <1>1, <1>3 DEF IInv, SnapshotsPlaced

\* Rewinding leaves a ledger of one chain, an earlier one of this very index
\* (indexservice.js:347-366, 414-429).
LEMMA RestoreKeeps ==
  ASSUME IInv, NEW fork \in DOMAIN trail, NEW i \in DOMAIN snapshots, Picked(i, fork),
         Restore(snapshots[i]), UNCHANGED snapshots
  PROVE  Index' /\ IndexTyped' /\ StartOf(ledger', ledger)
<1>1. /\ snapshots[i] \in Copy /\ Whole(snapshots[i])
      /\ \A k \in DOMAIN snapshots : Len(snapshots[k].ledger) \in Nat
  BY CopyTyped DEF IInv, TypeOK, SnapshotsWhole
<1>2. Past(i)
  BY PickedIsPast
<1>3. ledger' \in Seq(Hash) /\ trail' \in Trails /\ Linked(ledger') /\ TrailOf(trail', ledger')
  BY <1>1 DEF Restore, Copy, Whole
<1>4. StartOf(ledger', ledger) /\ Len(ledger') \in Nat /\ Len(ledger) \in Nat
  BY <1>1, <1>2 DEF Past, Restore, IInv, TypeOK
<1>5. OneChain'
  BY <1>3 DEF OneChain, TrailOf, Top
<1>6. SnapshotsWhole'
  BY DEF IInv, SnapshotsWhole, Whole, TrailOf
<1>7. SnapshotsPlaced'
  <2>1. \A k \in DOMAIN snapshots :
          Past(k) /\ Len(snapshots[k].ledger) <= Len(ledger') => StartOf(snapshots[k].ledger, ledger')
    BY <1>1, <1>4 DEF Past, StartOf
  <2> SUFFICES ASSUME NEW k \in DOMAIN snapshots, Len(snapshots[k].ledger) <= Len(ledger')
               PROVE  \/ StartOf(snapshots[k].ledger, ledger')
                      \/ \E m \in DOMAIN snapshots :
                           /\ k < m /\ Len(snapshots[m].ledger) = Len(snapshots[k].ledger)
                           /\ StartOf(snapshots[m].ledger, ledger')
    BY DEF SnapshotsPlaced, Past, Top
  <2>2. Len(snapshots[k].ledger) <= Top
    BY <1>1, <1>4 DEF StartOf, Top
  <2> QED BY <1>1, <2>1, <2>2 DEF IInv, SnapshotsPlaced
<1> QED BY <1>3, <1>4, <1>5, <1>6, <1>7 DEF Index, IndexTyped, IInv, TypeOK

\* With nothing counted there is nothing to be wrong about.
LEMMA EmptyKeeps ==
  ASSUME IInv, Rebuild, snapshots' = snapshots \/ snapshots' = <<>>
  PROVE  Index' /\ IndexTyped' /\ StartOf(ledger', ledger)
<1>1. ledger' = <<>> /\ Len(ledger') = 0 /\ DOMAIN trail' = {} /\ ledger' \in Seq(Hash)
  BY DEF Rebuild, NoTrail
<1>2. trail' \in Trails
  <2>1. trail' \in [{} -> Hash]
    BY DEF Rebuild, NoTrail
  <2> QED BY <2>1 DEF Trails
<1>3. OneChain'
  BY <1>1 DEF OneChain, Linked, Top
<1>4. snapshots' \in Seq(Copy) /\ Len(snapshots') <= Kept
  <2>1. CASE snapshots' = snapshots
    BY <2>1 DEF IInv, TypeOK
  <2>2. CASE snapshots' = <<>>
    BY <2>2, IndexAssumption
  <2> QED BY <2>1, <2>2
<1>5. \A i \in DOMAIN snapshots' :
        /\ Whole(snapshots'[i]) /\ Len(snapshots'[i].ledger) \in Nat
        /\ snapshots'[i].ledger # <<>> /\ snapshots'[i].ledger \in Seq(Hash)
  <2>1. CASE snapshots' = snapshots
    BY <1>4, <2>1, CopyTyped DEF IInv, SnapshotsWhole, Whole
  <2>2. CASE snapshots' = <<>>
    BY <2>2
  <2> QED BY <2>1, <2>2
<1>6. \A i \in DOMAIN snapshots' : Len(snapshots'[i].ledger) > 0
  BY <1>5, EmptySeq
<1>7. SnapshotsWhole' /\ SnapshotsPlaced'
  BY <1>1, <1>5, <1>6 DEF SnapshotsWhole, SnapshotsPlaced, Whole, TrailOf, Top
<1> QED BY <1>1, <1>2, <1>3, <1>4, <1>7, LenProperties DEF Index, IndexTyped, StartOf, IInv, TypeOK

-----------------------------------------------------------------------------
\* The parts that speak of the scan: numbers, and flags.
Counts ==
  /\ node \in Hash /\ reorgs \in Nat /\ repaired \in Nat
  /\ pc \in {"idle", "tip", "count", "fetch", "fork"}
  /\ height \in 0..MaxHeight /\ tip \in 0..MaxHeight /\ attempt \in 0..MaxRepairs
  /\ moves \in 0..MaxMoves /\ faults \in 0..MaxFaults /\ restarts \in 0..MaxRestarts
Flags == synced \in BOOLEAN /\ agreed \in BOOLEAN /\ Witnessed

\* What the history variable remembers over a step.
LEMMA Watched ==
  ASSUME IInv, Watch
  PROVE  /\ agreed' \in BOOLEAN
         /\ pc = "idle" /\ pc' = "idle" => agreed' = agreed
         /\ pc # "idle" /\ Agrees(ledger', node') => agreed'
         /\ pc # "idle" /\ ledger' = ledger /\ agreed => agreed'
<1>1. agreed \in BOOLEAN
  BY DEF IInv, TypeOK
<1>2. Agrees(ledger', node') \in BOOLEAN
  BY DEF Agrees
<1> QED BY <1>1, <1>2, Zenon DEF Watch

\* The flags, after a step that leaves the ledger alone, or that ends or restarts
\* the round trip of the scan.
LEMMA FlagsKept ==
  ASSUME IInv, Watch, pc # "idle", synced' = synced, pc' \notin {"count", "fetch"}
  PROVE  Flags'
<1> QED BY Watched, Zenon DEF IInv, TypeOK, Flags, Witnessed, FreshAnswer

\* The node's chain grows or is replaced: no counter of the scan moves.
LEMMA NodeStep == IInv /\ (NodeExtends \/ NodeReorgs) /\ Watch => Counts' /\ Cursor' /\ Flags'
<1> SUFFICES ASSUME IInv, NodeExtends \/ NodeReorgs, Watch PROVE Counts' /\ Cursor' /\ Flags'
  OBVIOUS
<1>1. UNCHANGED <<index, scan, faults, restarts>>
  BY DEF NodeExtends, NodeReorgs, bounds
<1>2. node' \in Hash
  <2>1. ASSUME NEW l \in Label, node' = Append(node, l), Len(node) < MaxHeight PROVE node' \in Hash
    <3>1. node \in Seq(Label) /\ Len(node) \in Nat
      BY HashIs, LenProperties DEF IInv, TypeOK, Block
    <3>2. node' \in Seq(Label) /\ Len(node') = Len(node) + 1
      BY <2>1, <3>1, AppendProperties
    <3>3. node' \in Block /\ Len(node') <= MaxHeight
      BY <2>1, <3>1, <3>2, IndexAssumption DEF Block
    <3> QED BY <3>3, HashIs
  <2> QED BY <2>1 DEF NodeExtends, NodeReorgs
<1>3. moves' \in 0..MaxMoves
  BY IndexAssumption DEF IInv, TypeOK, NodeExtends, NodeReorgs, bounds
<1>4. Counts' /\ Cursor'
  BY <1>1, <1>2, <1>3 DEF index, scan, IInv, TypeOK, Counts, Cursor, Top
<1>5. pc' = pc /\ synced' = synced /\ ledger' = ledger
  BY <1>1 DEF index, scan
<1> QED BY <1>4, <1>5, Watched, Zenon DEF IInv, TypeOK, Flags, Witnessed, FreshAnswer

\* What every step of the scan starts from.
LEMMA Standing ==
  ASSUME IInv
  PROVE  /\ node \in Hash /\ Len(node) \in 0..MaxHeight
         /\ Top \in 0..MaxHeight /\ DOMAIN trail \subseteq 1..Top
         /\ (ledger # <<>> <=> Top > 0)
         /\ ledger # <<>> => Top \in DOMAIN trail /\ trail[Top] = ledger[Top]
<1>1. node \in Hash /\ Len(node) \in 0..MaxHeight
  BY HashIs, LenProperties DEF IInv, TypeOK, Block
<1>2. Top \in 0..MaxHeight /\ (ledger # <<>> <=> Top > 0)
  BY IndexAssumption, LenProperties, EmptySeq DEF IInv, TypeOK, Top
<1>3. DOMAIN trail \subseteq 1..Top /\ (Top > 0 => Top \in DOMAIN trail /\ trail[Top] = ledger[Top])
  BY <1>2, IndexAssumption DEF IInv, OneChain
<1> QED BY <1>1, <1>2, <1>3

\* A sync starts with no repairs made and with `synced` cleared.
LEMMA SyncStartStep == IInv /\ SyncStart /\ Watch => Counts' /\ Cursor' /\ Flags'
<1> SUFFICES ASSUME IInv, SyncStart, Watch PROVE Counts' /\ Cursor' /\ Flags'
  OBVIOUS
<1>1. Counts' /\ Cursor'
  BY IndexAssumption DEF SyncStart, index, bounds, IInv, TypeOK, Counts, Cursor
<1>2. Flags'
  BY Watched, Zenon DEF SyncStart, Flags, Witnessed, FreshAnswer
<1> QED BY <1>1, <1>2

\* The tip is looked at (tipMoved).
LEMMA CheckTipStep == IInv /\ CheckTip /\ Watch => Counts' /\ Cursor' /\ Flags'
<1> SUFFICES ASSUME IInv, CheckTip, Watch PROVE Counts' /\ Cursor' /\ Flags'
  OBVIOUS
<1>1. /\ pc = "tip" /\ UNCHANGED <<node, index, tip, attempt, synced, moves, restarts>>
      /\ pc' \in {"count", "fork"}
      /\ pc' = "count" => height' = height /\ faults' = faults /\ (ledger # <<>> => SameBlock(Top))
      /\ pc' = "fork" => ledger # <<>> /\ height' = Top
      /\ faults' = faults \/ (faults < MaxFaults /\ faults' = faults + 1)
  BY DEF CheckTip, NodeSilent
<1>2. faults' \in 0..MaxFaults /\ height' \in 0..MaxHeight
  BY <1>1, Standing, IndexAssumption DEF IInv, TypeOK
<1>3. Counts' /\ Cursor'
  BY <1>1, <1>2, Standing DEF index, IInv, TypeOK, Counts, Cursor, Top
<1>4. pc' = "count" => Agrees(ledger', node')
  BY <1>1, Standing DEF index, SameBlock, Agrees, Top
<1>5. Flags'
  BY <1>1, <1>4, Watched, Zenon DEF IInv, TypeOK, Flags, Witnessed, FreshAnswer
<1> QED BY <1>3, <1>5

\* The block count arrives, or does not.
LEMMA GetCountStep == IInv /\ GetCount /\ Watch => Counts' /\ Cursor' /\ Flags'
<1> SUFFICES ASSUME IInv, GetCount, Watch PROVE Counts' /\ Cursor' /\ Flags'
  OBVIOUS
<1>1. /\ pc = "count" /\ UNCHANGED <<node, index, attempt, moves, restarts>>
      /\ \/ /\ tip' = Len(node) /\ NextHeight(Top + 1, tip') /\ faults' = faults
         \/ /\ faults < MaxFaults /\ faults' = faults + 1 /\ Throw /\ tip' = tip
  BY DEF GetCount, NodeSilent
<1>2. /\ pc' = "fetch" => height' = Top + 1 /\ height' <= tip' /\ tip' = Len(node)
      /\ pc' \in {"fetch", "idle"} /\ (pc' = "fetch" => synced' = synced)
      /\ pc' = "idle" => height' = height
      /\ synced' = TRUE \/ synced' = synced
      /\ tip' \in {Len(node), tip}
  BY <1>1 DEF NextHeight, Throw
<1>3. faults' \in 0..MaxFaults /\ height' \in 0..MaxHeight /\ tip' \in 0..MaxHeight
  BY <1>1, <1>2, Standing, IndexAssumption DEF IInv, TypeOK
<1>4. Counts' /\ Cursor'
  BY <1>1, <1>2, <1>3 DEF index, IInv, TypeOK, Counts, Cursor, Top
<1>5. agreed'
  BY <1>1, Watched, Zenon DEF index, IInv, Witnessed
<1>6. synced' \in BOOLEAN /\ (pc' # "idle" => ~synced')
  <2>1. synced = FALSE
    <3>1. synced \in BOOLEAN /\ ~synced
      BY <1>1, Zenon DEF IInv, TypeOK, Witnessed
    <3> QED BY <3>1
  <2>2. synced' \in {TRUE, FALSE} /\ (pc' # "idle" => synced' = FALSE)
    BY <1>2, <2>1
  <2> QED BY <2>2
<1>7. Flags'
  BY <1>5, <1>6, Watched, Zenon DEF Flags, Witnessed, FreshAnswer
<1> QED BY <1>4, <1>7

\* findFork steps one height down, and stays within the trail.
LEMMA NotFoundStep == IInv /\ NotFound /\ Watch => Counts' /\ Cursor' /\ Flags'
<1> SUFFICES ASSUME IInv, NotFound, Watch PROVE Counts' /\ Cursor' /\ Flags'
  OBVIOUS
<1>1. /\ pc = "fork" /\ height \in 1..Top /\ height' = height - 1
      /\ UNCHANGED <<node, index, pc, tip, attempt, synced, bounds>>
  BY Standing DEF NotFound
<1>4. height' \in 0..MaxHeight /\ height' <= Top
  BY <1>1, Standing, IndexAssumption
<1>2. Counts' /\ Cursor'
  BY <1>1, <1>4 DEF index, bounds, IInv, TypeOK, Counts, Cursor, Top
<1>3. Flags'
  BY <1>1, FlagsKept
<1> QED BY <1>2, <1>3

\* A rewind: the attempt counter stays within MAX_REPAIRS.
LEMMA RepairStep == IInv /\ Repair /\ Watch => Counts' /\ Cursor' /\ Flags'
<1> SUFFICES ASSUME IInv, Repair, Watch PROVE Counts' /\ Cursor' /\ Flags'
  OBVIOUS
<1>1. PICK i \in DOMAIN snapshots :
        /\ CountRepair(snapshots[i])
        /\ \/ attempt < MaxRepairs /\ pc' = "tip" /\ attempt' = attempt + 1
           \/ attempt = MaxRepairs /\ pc' = "idle" /\ attempt' = attempt
  BY DEF Repair
<1>2. pc = "fork" /\ UNCHANGED <<node, snapshots, height, tip, synced, moves, faults, restarts>>
  BY DEF Repair, bounds
<1>3. snapshots[i].reorgs \in Nat
  BY CopyTyped DEF IInv, TypeOK, Copy
<1>4. reorgs' \in Nat /\ repaired' \in Nat /\ attempt' \in 0..MaxRepairs
  BY <1>1, <1>3, IndexAssumption DEF CountRepair, IInv, TypeOK
<1>5. Counts' /\ Cursor'
  BY <1>1, <1>2, <1>4 DEF IInv, TypeOK, Counts, Cursor
<1>6. Flags'
  BY <1>1, <1>2, FlagsKept
<1> QED BY <1>5, <1>6

\* ReorgTooDeep ends the sync, which then has not returned normally.
LEMMA TooDeepStep == IInv /\ TooDeep /\ Watch => Counts' /\ Cursor' /\ Flags'
<1> SUFFICES ASSUME IInv, TooDeep, Watch PROVE Counts' /\ Cursor' /\ Flags'
  OBVIOUS
<1>1. /\ pc = "fork" /\ pc' = "idle"
      /\ UNCHANGED <<node, reorgs, repaired, height, tip, attempt, synced, moves, restarts>>
      /\ faults' = faults \/ (faults < MaxFaults /\ faults' = faults + 1)
  BY DEF TooDeep, Throw, NodeSilent
<1>2. faults' \in 0..MaxFaults
  BY <1>1, IndexAssumption DEF IInv, TypeOK
<1>3. Counts' /\ Cursor'
  BY <1>1, <1>2 DEF IInv, TypeOK, Counts, Cursor
<1>4. Flags'
  BY <1>1, FlagsKept
<1> QED BY <1>3, <1>4

\* A new process starts from nothing.
LEMMA RestartStep == IInv /\ Restart /\ Watch => Counts' /\ Cursor' /\ Flags'
<1> SUFFICES ASSUME IInv, Restart, Watch PROVE Counts' /\ Cursor' /\ Flags'
  OBVIOUS
<1>1. Counts' /\ Cursor'
  BY IndexAssumption DEF Restart, IInv, TypeOK, Counts, Cursor
<1>2. Flags'
  BY Watched, Zenon DEF Restart, Flags, Witnessed, FreshAnswer
<1> QED BY <1>1, <1>2

\* A block arrives: it extends the one chain counted and comes next in it, or it is
\* not counted (applyBlock, indexservice.js:311-334).
LEMMA FetchBlockStep ==
  IInv /\ FetchBlock /\ Watch => /\ Counts' /\ Cursor' /\ Flags'
                                 /\ Index' /\ IndexTyped' /\ Top' <= MaxHeight
<1> SUFFICES ASSUME IInv, FetchBlock, Watch
             PROVE  /\ Counts' /\ Cursor' /\ Flags'
                    /\ Index' /\ IndexTyped' /\ Top' <= MaxHeight
  OBVIOUS
<1> DEFINE b == BlockAt(node, height)
<1>1. /\ pc = "fetch" /\ height = Top + 1 /\ height <= tip /\ tip \in 0..MaxHeight
      /\ UNCHANGED <<node, tip, attempt, moves, restarts>>
      /\ Top \in 0..MaxHeight
  BY Standing DEF FetchBlock, IInv, Cursor, TypeOK
<1>2. height <= Len(node) => b \in Hash
  BY <1>1, Standing, BlockTyped, IndexAssumption
<1> HIDE DEF b
<1>3. CASE /\ height <= Len(node) /\ Continues(height, b) /\ Apply(b) /\ NextHeight(height + 1, tip)
           /\ UNCHANGED faults
  <2>1. Top + 1 <= MaxHeight /\ Continues(Top + 1, b)
    BY <1>1, <1>3, IndexAssumption
  <2>2. /\ ledger' \in Seq(Hash) /\ Top' = Top + 1 /\ trail' \in Trails
        /\ snapshots' \in Seq(Copy) /\ Len(snapshots') <= Kept
        /\ OneChain' /\ SnapshotsWhole' /\ SnapshotsPlaced'
        /\ ledger'[Top + 1] = b
    BY <1>2, <1>3, <2>1, ApplyKeeps
  <2>3. Agrees(ledger', node')
    BY <1>1, <1>3, <2>2 DEF Agrees, Top, b
  <2>4. agreed'
    BY <1>1, <2>3, Watched
  <2>5. /\ pc' = "fetch" => height' = Top' + 1 /\ height' <= tip'
        /\ pc' \in {"fetch", "idle"} /\ height' \in {height, height + 1}
        /\ pc' = "idle" => height' = height
        /\ pc' = "fetch" => synced' = synced
        /\ synced' = TRUE \/ synced' = synced
    BY <1>1, <1>3, <2>2 DEF NextHeight
  <2>6. height' \in 0..MaxHeight
    BY <1>1, <2>1, <2>2, <2>5, IndexAssumption
  <2>7. reorgs' = reorgs /\ repaired' = repaired /\ faults' = faults
    BY <1>3 DEF Apply
  <2>8. Counts' /\ Cursor'
    BY <1>1, <2>5, <2>6, <2>7 DEF IInv, TypeOK, Counts, Cursor
  <2>9. synced = FALSE
    <3>1. synced \in BOOLEAN /\ ~synced
      BY <1>1, Zenon DEF IInv, TypeOK, Witnessed
    <3> QED BY <3>1
  <2>10. synced' \in {TRUE, FALSE} /\ (pc' # "idle" => synced' = FALSE)
    BY <2>5, <2>9
  <2>11. synced' \in BOOLEAN /\ (pc' # "idle" => ~synced')
    BY <2>10
  <2>12. Flags'
    BY <2>4, <2>11, Watched, Zenon DEF Flags, Witnessed, FreshAnswer
  <2> QED BY <2>1, <2>2, <2>8, <2>12 DEF Index, IndexTyped
<1>4. CASE /\ ~Continues(height, b) /\ pc' = "fork" /\ height' = height - 1
           /\ UNCHANGED <<index, faults, synced>>
  <2>1. ledger # <<>>
    BY <1>1, <1>4, Standing DEF Continues
  <2>2. Counts' /\ Cursor'
    BY <1>1, <1>4, <2>1, IndexAssumption DEF index, IInv, TypeOK, Counts, Cursor, Top
  <2>3. Flags'
    BY <1>1, <1>4, FlagsKept
  <2>4. Index' /\ IndexTyped' /\ Top' = Top
    BY <1>4, IndexKept DEF index, Top
  <2> QED BY <1>1, <2>2, <2>3, <2>4
<1>5. CASE (UNCHANGED faults \/ NodeSilent) /\ Throw /\ UNCHANGED index
  <2>1. /\ pc' = "idle" /\ UNCHANGED <<height, synced>>
        /\ faults' = faults \/ (faults < MaxFaults /\ faults' = faults + 1)
    BY <1>5 DEF Throw, NodeSilent
  <2>2. faults' \in 0..MaxFaults
    BY <2>1, IndexAssumption DEF IInv, TypeOK
  <2>3. Counts' /\ Cursor'
    BY <1>1, <1>5, <2>1, <2>2 DEF index, IInv, TypeOK, Counts, Cursor
  <2>4. Flags'
    BY <1>1, <2>1, FlagsKept
  <2>5. Index' /\ IndexTyped' /\ Top' = Top
    BY <1>5, IndexKept DEF index, Top
  <2> QED BY <1>1, <2>3, <2>4, <2>5
<1> QED BY <1>3, <1>4, <1>5 DEF FetchBlock, b

\* A step that leaves the index alone, or forgets blocks, keeps the whole of it.
LEMMA Assembled ==
  ASSUME Counts', Cursor', Flags', Index', IndexTyped', Top' <= MaxHeight
  PROVE  IInv'
<1>1. TypeOK'
  BY DEF Counts, Flags, IndexTyped, TypeOK
<1> QED BY <1>1 DEF Index, Flags, IInv

\* An index that has only forgotten blocks is no longer than it was.
LEMMA Shorter ==
  ASSUME IInv, StartOf(ledger', ledger), IndexTyped'
  PROVE  Top' <= MaxHeight
<1>1. Top' \in Nat /\ Top \in 0..MaxHeight
  BY Standing, LenProperties DEF IndexTyped, Top
<1> QED BY <1>1, IndexAssumption DEF StartOf, Top

\* Every step keeps the inductive invariant: one case per answer of the node.
LEMMA Step == IInv /\ [Next]_vars => IInv'
<1> SUFFICES ASSUME IInv, [Next]_vars PROVE IInv'
  OBVIOUS
<1>1. ASSUME UNCHANGED index, Counts', Cursor', Flags' PROVE IInv'
  <2>1. Index' /\ IndexTyped' /\ Top' <= MaxHeight
    BY <1>1, IndexKept, Standing, IndexAssumption DEF index, Top
  <2> QED BY <1>1, <2>1, Assembled
<1>2. CASE (NodeExtends \/ NodeReorgs) /\ Watch
  BY <1>1, <1>2, NodeStep DEF NodeExtends, NodeReorgs
<1>3. CASE SyncStart /\ Watch
  BY <1>1, <1>3, SyncStartStep DEF SyncStart
<1>4. CASE CheckTip /\ Watch
  BY <1>1, <1>4, CheckTipStep DEF CheckTip
<1>5. CASE GetCount /\ Watch
  BY <1>1, <1>5, GetCountStep DEF GetCount
<1>6. CASE FetchBlock /\ Watch
  BY <1>6, FetchBlockStep, Assembled
<1>7. CASE NotFound /\ Watch
  BY <1>1, <1>7, NotFoundStep DEF NotFound
<1>8. CASE Repair /\ Watch
  <2>1. PICK i \in DOMAIN snapshots :
          Picked(i, height) /\ (Restore(snapshots[i]) \/ Rebuild)
    BY <1>8 DEF Repair
  <2>2. height \in DOMAIN trail /\ UNCHANGED snapshots
    BY <1>8 DEF Repair
  <2>3. Index' /\ IndexTyped' /\ StartOf(ledger', ledger)
    BY <2>1, <2>2, RestoreKeeps, EmptyKeeps
  <2> QED BY <1>8, <2>3, RepairStep, Shorter, Assembled
<1>9. CASE TooDeep /\ Watch
  <2>1. Rebuild /\ snapshots' = snapshots
    BY <1>9 DEF TooDeep
  <2> QED BY <1>9, <2>1, EmptyKeeps, TooDeepStep, Shorter, Assembled
<1>10. CASE Restart /\ Watch
  <2>1. Rebuild /\ snapshots' = <<>>
    BY <1>10 DEF Restart, Rebuild
  <2> QED BY <1>10, <2>1, EmptyKeeps, RestartStep, Shorter, Assembled
<1>11. CASE UNCHANGED vars
  <2>1. Counts' /\ Cursor' /\ UNCHANGED index
    BY <1>11 DEF vars, index, scan, bounds, IInv, TypeOK, Counts, Cursor, Top
  <2>2. pc' = pc /\ synced' = synced /\ agreed' = agreed
    BY <1>11 DEF vars, scan
  <2>3. Flags'
    BY <2>2, Zenon DEF IInv, TypeOK, Flags, Witnessed, FreshAnswer
  <2> QED BY <1>1, <2>1, <2>3
<1> QED BY <1>2, <1>3, <1>4, <1>5, <1>6, <1>7, <1>8, <1>9, <1>10, <1>11 DEF Next, Sync

\* A new service has the inductive invariant.
LEMMA Start == Init => IInv
<1> SUFFICES ASSUME Init PROVE IInv
  OBVIOUS
<1>1. ledger = <<>> /\ Len(ledger) = 0 /\ DOMAIN trail = {} /\ snapshots = <<>>
      /\ Len(snapshots) = 0 /\ DOMAIN snapshots = {} /\ ledger \in Seq(Hash) /\ snapshots \in Seq(Copy)
  BY DEF Init, NoTrail
<1>2. trail \in Trails
  <2>1. trail \in [{} -> Hash]
    BY DEF Init, NoTrail
  <2> QED BY <2>1 DEF Trails
<1>3. node \in Hash
  <2>1. node \in Block /\ Len(node) <= MaxHeight
    BY IndexAssumption DEF Init, Block
  <2> QED BY <2>1, HashIs
<1>4. synced \in BOOLEAN /\ agreed \in BOOLEAN
  BY DEF Init
<1>5. TypeOK
  BY <1>1, <1>2, <1>3, <1>4, IndexAssumption DEF Init, TypeOK, Top
<1>6. OneChain /\ SnapshotsWhole /\ SnapshotsPlaced
  BY <1>1 DEF OneChain, Linked, SnapshotsWhole, SnapshotsPlaced, Top
<1>7. Cursor /\ Witnessed
  BY DEF Init, Cursor, Witnessed, FreshAnswer
<1> QED BY <1>5, <1>6, <1>7 DEF IInv

-----------------------------------------------------------------------------
\* IInv is an inductive invariant: it holds of every reachable state.
THEOREM Inductive == Spec => []IInv
  BY Start, Step, PTL DEF Spec

\* The variables have their types, and the index is never higher than the chain
\* can be.
THEOREM TypeCorrect == Spec => []TypeOK
<1>1. IInv => TypeOK
  BY DEF IInv
<1> QED BY <1>1, Inductive, PTL

\* After any number of reorganisations the state is that of one chain, never a
\* mixture of two, and the trail is the end of that chain.
THEOREM StateOfOneChain == Spec => []OneChain
<1>1. IInv => OneChain
  BY DEF IInv
<1> QED BY <1>1, Inductive, PTL

\* repair() never rewinds to a state made on a chain abandoned since, whatever
\* fork findFork reports.
THEOREM RewindsRight == Spec => []RewindsOnItsOwnChain
<1>1. IInv => RewindsOnItsOwnChain
  BY PickedIsPast DEF RewindsOnItsOwnChain, Past
<1> QED BY <1>1, Inductive, PTL

\* A sync that returns has seen the ledger be the start of the node's chain.
THEOREM ReturnsFresh == Spec => []FreshAnswer
<1>1. IInv => FreshAnswer
  BY DEF IInv, Witnessed
<1> QED BY <1>1, Inductive, PTL

\* The first state is one of the follower's.
LEMMA FollowerStart == Init => Follower!Init
<1>1. <<>> \in Block
  BY DEF Block
<1> QED BY <1>1 DEF Init, Follower!Init, Follower!Block

\* Every step of the scan is a step of the follower, or changes nothing of it.
LEMMA FollowerStep == IInv /\ [Next]_vars => [Follower!Next]_<<node, ledger>>
<1> SUFFICES ASSUME IInv, [Next]_vars
             PROVE  Follower!Next \/ UNCHANGED <<node, ledger>>
  OBVIOUS
<1>1. CASE (NodeExtends \/ NodeReorgs) /\ Watch
  <2>1. node' \in Block /\ ledger' = ledger
    BY <1>1, NodeStep, HashIs DEF Counts, NodeExtends, NodeReorgs, index
  <2> QED BY <2>1 DEF Follower!Next, Follower!Move, Follower!Block, Block
<1>2. CASE SyncStart \/ CheckTip \/ GetCount \/ NotFound
  BY <1>2 DEF SyncStart, CheckTip, GetCount, NotFound, index
<1>3. CASE FetchBlock
  <2> DEFINE b == BlockAt(node, height)
  <2>1. /\ pc = "fetch" /\ height = Top + 1 /\ height <= tip /\ tip \in 0..MaxHeight
        /\ node' = node /\ Top \in 0..MaxHeight /\ (ledger # <<>> <=> Top > 0)
    BY <1>3, Standing DEF FetchBlock, IInv, Cursor, TypeOK
  <2>2. CASE UNCHANGED index
    BY <2>1, <2>2 DEF index
  <2>3. CASE height <= Len(node) /\ Continues(height, b) /\ Apply(b)
    <3>1. b \in Hash
      BY <2>1, <2>3, Standing, BlockTyped, IndexAssumption
    <3> HIDE DEF b
    <3>2. ledger # <<>> => ParentOf(b) = ledger[Top]
      <4>1. Top + 1 <= MaxHeight /\ Continues(Top + 1, b) /\ Apply(b)
        BY <2>1, <2>3, IndexAssumption
      <4> QED BY <3>1, <4>1, ApplyKeeps
    <3>3. ledger' = Append(ledger, b)
      BY <2>3 DEF Apply
    <3>4. Follower!Read
      BY <2>1, <2>3, <3>2, <3>3
         DEF b, Top, BlockAt, ParentOf, Follower!Read, Follower!ParentOf, Follower!BlockAt
    <3> QED BY <3>4 DEF Follower!Next
  <2> QED BY <1>3, <2>2, <2>3 DEF FetchBlock, Throw
<1>4. CASE Repair \/ TooDeep \/ Restart
  <2>1. node' = node /\ StartOf(ledger', ledger) /\ ledger' \in Seq(Hash)
    <3>1. CASE Repair
      <4>1. PICK i \in DOMAIN snapshots :
              Picked(i, height) /\ (Restore(snapshots[i]) \/ Rebuild)
        BY <3>1 DEF Repair
      <4>2. height \in DOMAIN trail /\ UNCHANGED <<snapshots, node>>
        BY <3>1 DEF Repair
      <4> QED BY <4>1, <4>2, RestoreKeeps, EmptyKeeps DEF IndexTyped
    <3>2. CASE TooDeep
      BY <3>2, EmptyKeeps DEF TooDeep, IndexTyped
    <3>3. CASE Restart
      BY <3>3, EmptyKeeps DEF Restart, Rebuild, IndexTyped
    <3> QED BY <1>4, <3>1, <3>2, <3>3
  <2>2. Hash \subseteq Block
    BY HashIs
  <2>3. ledger' \in Seq(Block)
    <3>1. Len(ledger') \in Nat /\ \A i \in 1..Len(ledger') : ledger'[i] \in Block
      BY <2>1, <2>2, LenProperties, ElementOfSeq
    <3> QED BY <2>1, <3>1, SeqDef, LenProperties
  <2>4. Follower!Rewind
    BY <2>1, <2>3 DEF Follower!Rewind, Follower!StartOf, StartOf, Follower!Block, Block
  <2> QED BY <2>4 DEF Follower!Next
<1>5. CASE UNCHANGED vars
  BY <1>5 DEF vars, index
<1> QED BY <1>1, <1>2, <1>3, <1>4, <1>5 DEF Next, Sync

\* The index implements the abstract follower of a chain: it only counts the next
\* block on top of the last one, or forgets the latest it counted.
THEOREM Implements == Spec => FollowsTheChain
<1>1. Spec => []IInv
  BY Inductive
<1> QED BY <1>1, FollowerStart, FollowerStep, PTL DEF Spec, FollowsTheChain, Follower!Spec
=============================================================================
