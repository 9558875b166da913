------------------------ MODULE PriorityQueueProofs ------------------------
(***************************************************************************)
(* Theorems about the heap, for any number of jobs and any priorities.     *)
(***************************************************************************)
EXTENDS PriorityQueue, SequenceLemmas

(* The parent of an index is before it, and has it as one of its children. *)
LEMMA ParentIs ==
    ASSUME NEW i \in Nat, i > 1
    PROVE  /\ Parent(i) \in 1..(i - 1)
           /\ \A p \in Nat : Parent(i) = p <=> i \in {2 * p, 2 * p + 1}
BY DEF Parent

(* A sequence without its last element.                                    *)
LEMMA FrontIs ==
    ASSUME NEW S, NEW s \in Seq(S), s # <<>>
    PROVE  /\ SubSeq(s, 1, Len(s) - 1) \in Seq(S)
           /\ Len(SubSeq(s, 1, Len(s) - 1)) = Len(s) - 1
           /\ \A i \in 1..(Len(s) - 1) : SubSeq(s, 1, Len(s) - 1)[i] = s[i]
<1>1. Len(s) \in Nat /\ Len(s) # 0 /\ \A i \in 1..Len(s) : s[i] \in S
  BY EmptySeq, LenProperties, ElementOfSeq
<1> DEFINE n == Len(s) - 1
<1>2. 1 \in Int /\ n \in Int /\ n >= 0 /\ \A i \in 1..n : s[i] \in S
  BY <1>1
<1> HIDE DEF n
<1>3. /\ SubSeq(s, 1, n) \in Seq(S)
      /\ Len(SubSeq(s, 1, n)) = IF 1 <= n THEN n-1+1 ELSE 0
      /\ \A i \in 1 .. n-1+1 : SubSeq(s, 1, n)[i] = s[1+i-1]
  <2>1. SubSeq(s, 1, n) \in Seq(S)
    BY <1>2, SubSeqProperties
  <2>2. Len(SubSeq(s, 1, n)) = IF 1 <= n THEN n-1+1 ELSE 0
    BY <1>2, SubSeqProperties
  <2>3. \A i \in 1 .. n-1+1 : SubSeq(s, 1, n)[i] = s[1+i-1]
    BY <1>2, SubSeqProperties
  <2>. QED BY <2>1, <2>2, <2>3
<1>4. Len(SubSeq(s, 1, n)) = n
  BY <1>2, <1>3
<1>5. \A i \in 1 .. n : SubSeq(s, 1, n)[i] = s[i]
  <2> TAKE i \in 1..n
  <2>1. i \in 1..n-1+1 /\ 1+i-1 = i
    BY <1>2
  <2>. QED
    BY <1>3, <2>1
<1>. QED
  BY <1>3, <1>4, <1>5 DEF n

-----------------------------------------------------------------------------
(* Every job on the heap has a sequence number of its own, none above the  *)
(* counter: TypeOK needs it, since only a job that is nowhere is pushed.   *)
Numbered ==
    /\ \A i \in 1..Len(items) : seq[items[i]] # 0
    /\ \A j \in Jobs : seq[j] <= insertSeq
    /\ \A j, k \in Jobs : seq[j] = seq[k] /\ seq[j] # 0 => j = k

(* A swap exchanges two items and leaves the others.                       *)
LEMMA SwapIs ==
    ASSUME TypeOK, NEW a \in 1..Len(items), NEW b \in 1..Len(items), Swap(a, b)
    PROVE  /\ items' \in Seq(Jobs)
           /\ Len(items') = Len(items)
           /\ \A i \in 1..Len(items) :
                items'[i] = IF i = a THEN items[b] ELSE IF i = b THEN items[a] ELSE items[i]
           /\ Range(items') = Range(items)
           /\ heapIdx' \in [Jobs -> Nat]
           /\ \A i \in 1..Len(items) : heapIdx'[items'[i]] = i - 1
<1>1. /\ items \in Seq(Jobs) /\ Len(items) \in Nat
      /\ DOMAIN items = 1..Len(items)
      /\ \A i \in 1..Len(items) : items[i] \in Jobs /\ heapIdx[items[i]] = i - 1
      /\ heapIdx \in [Jobs -> Nat]
  BY ElementOfSeq, LenProperties DEF TypeOK
<1> DEFINE t == [items EXCEPT ![a] = items[b]]
<1>2. t \in Seq(Jobs) /\ Len(t) = Len(items)
      /\ \A i \in 1..Len(items) : t[i] = IF i = a THEN items[b] ELSE items[i]
  BY <1>1, ExceptSeq
<1>3. items' = [t EXCEPT ![b] = items[a]]
  BY <1>1 DEF Swap
<1> HIDE DEF t
<1>4. items' \in Seq(Jobs) /\ Len(items') = Len(items)
      /\ \A i \in 1..Len(items) : items'[i] = IF i = b THEN items[a] ELSE t[i]
  BY <1>1, <1>2, <1>3, ExceptSeq
<1>5. \A i \in 1..Len(items) :
        items'[i] = IF i = a THEN items[b] ELSE IF i = b THEN items[a] ELSE items[i]
  BY <1>2, <1>4
<1>6. DOMAIN items' = 1..Len(items)
  BY <1>4, LenProperties
<1>7. Range(items') = Range(items)
  BY <1>1, <1>5, <1>6 DEF Range
<1>8. /\ heapIdx' \in [Jobs -> Nat]
      /\ \A j \in Jobs : heapIdx'[j] = IF j = items[a] THEN b - 1
                                       ELSE IF j = items[b] THEN a - 1 ELSE heapIdx[j]
  BY <1>1 DEF Swap
<1>9. ASSUME NEW i \in 1..Len(items) PROVE heapIdx'[items'[i]] = i - 1
  <2>1. \A k \in 1..Len(items) : items[i] = items[k] => i = k
    BY <1>1
  <2>2. CASE i = a
    BY <1>1, <1>5, <1>8, <2>2
  <2>3. CASE i = b /\ i # a
    BY <1>1, <1>5, <1>8, <2>3
  <2>4. CASE i # a /\ i # b
    BY <1>1, <1>5, <1>8, <2>1, <2>4
  <2>. QED
    BY <2>2, <2>3, <2>4
<1>. QED
  BY <1>4, <1>5, <1>7, <1>8, <1>9

(* Every step keeps the types, the places of the jobs and their numbers.   *)
LEMMA TypeStep == TypeOK /\ Numbered /\ [Next]_vars => TypeOK' /\ Numbered'
<1> SUFFICES ASSUME TypeOK, Numbered, [Next]_vars PROVE TypeOK' /\ Numbered'
  OBVIOUS
<1>0. /\ items \in Seq(Jobs) /\ Len(items) \in Nat
      /\ \A i \in 1..Len(items) : items[i] \in Jobs
      /\ items # <<>> <=> Len(items) # 0
  BY ElementOfSeq, LenProperties, EmptySeq DEF TypeOK
<1>1. ASSUME NEW j \in Jobs, Push(j) PROVE TypeOK' /\ Numbered'
  <2>1. /\ items' = Append(items, j)
        /\ seq' = [seq EXCEPT ![j] = insertSeq + 1]
        /\ seq[j] = 0
        /\ insertSeq' = insertSeq + 1
        /\ heapIdx' = [heapIdx EXCEPT ![j] = Len(items)]
        /\ op' = "up" /\ cur' = Len(items) + 1
        /\ UNCHANGED <<taken, drained, closed>>
    BY <1>1 DEF Push
  <2>2. /\ items' \in Seq(Jobs) /\ Len(items') = Len(items) + 1
        /\ \A i \in 1..Len(items) : items'[i] = items[i]
        /\ items'[Len(items) + 1] = j
        /\ items' # <<>>
    BY <1>0, <2>1, AppendProperties
  <2>3. \A i \in 1..Len(items) : items[i] # j
    BY <2>1 DEF Numbered
  <2>4. \A i \in 1..Len(items') : heapIdx'[items'[i]] = i - 1
    <3> TAKE i \in 1..Len(items')
    <3>1. CASE i = Len(items) + 1
      BY <2>1, <2>2, <3>1 DEF TypeOK
    <3>2. CASE i \in 1..Len(items)
      <4>1. items'[i] = items[i] /\ items[i] \in Jobs /\ items[i] # j
        BY <1>0, <2>2, <2>3, <3>2
      <4>2. heapIdx'[items[i]] = heapIdx[items[i]]
        BY <2>1, <4>1 DEF TypeOK
      <4>. QED
        BY <3>2, <4>1, <4>2 DEF TypeOK
    <3>. QED
      BY <1>0, <2>2, <3>1, <3>2
  <2>5. TypeOK'
    <3>1. heapIdx' \in [Jobs -> Nat] /\ seq' \in [Jobs -> Nat] /\ insertSeq' \in Nat
      BY <1>0, <2>1 DEF TypeOK
    <3>2. cur' \in Nat \ {0} /\ cur' <= Len(items')
      BY <1>0, <2>1, <2>2
    <3>3. closed' \in BOOLEAN
      BY <2>1, Zenon DEF TypeOK
    <3>4. taken' \in Jobs \cup {NoJob} /\ drained' \subseteq Jobs
      BY <2>1 DEF TypeOK
    <3>5. op' = "up"
      BY <2>1
    <3>. QED
      BY <2>2, <2>4, <3>1, <3>2, <3>3, <3>4, <3>5 DEF TypeOK
  <2>6. Numbered'
    <3>1. ASSUME NEW i \in 1..Len(items') PROVE seq'[items'[i]] # 0
      <4>1. CASE i = Len(items) + 1
        BY <2>1, <2>2, <4>1 DEF TypeOK
      <4>2. CASE i \in 1..Len(items)
        <5>1. items'[i] = items[i] /\ items[i] \in Jobs /\ items[i] # j
          BY <1>0, <2>2, <2>3, <4>2
        <5>. QED
          BY <2>1, <4>2, <5>1 DEF TypeOK, Numbered
      <4>. QED
        BY <1>0, <2>2, <4>1, <4>2
    <3>2. /\ \A k \in Jobs : seq'[k] <= insertSeq'
          /\ \A k, l \in Jobs : seq'[k] = seq'[l] /\ seq'[k] # 0 => k = l
      BY <2>1 DEF TypeOK, Numbered
    <3>. QED
      BY <3>1, <3>2 DEF Numbered
  <2>. QED
    BY <2>5, <2>6
<1>2. ASSUME NEW a \in 1..Len(items), NEW b \in 1..Len(items), Swap(a, b),
             UNCHANGED <<insertSeq, seq, taken, drained, closed>>,
             op' \in {"up", "down"}, cur' \in 1..Len(items),
             op' = "down" => cur' < Len(items) \/ cur' = 1
      PROVE  TypeOK' /\ Numbered'
  <2>1. /\ items' \in Seq(Jobs) /\ Len(items') = Len(items)
        /\ \A i \in 1..Len(items) : \E k \in 1..Len(items) : items'[i] = items[k]
        /\ heapIdx' \in [Jobs -> Nat]
        /\ \A i \in 1..Len(items) : heapIdx'[items'[i]] = i - 1
    BY <1>2, SwapIs
  <2>2. items' # <<>>
    BY <1>0, <1>2, <2>1, EmptySeq
  <2>3. \A i \in 1..Len(items') : heapIdx'[items'[i]] = i - 1
    BY <2>1
  <2>4. UNCHANGED <<insertSeq, seq, taken, drained, closed>>
    BY <1>2
  <2>5. /\ op' \in {"up", "down"} /\ cur' \in Nat \ {0} /\ cur' <= Len(items')
        /\ op' = "down" => cur' < Len(items') \/ cur' = 1
    BY <1>0, <1>2, <2>1
  <2>6. TypeOK'
    BY <2>1, <2>2, <2>3, <2>4, <2>5 DEF TypeOK
  <2>7. \A i \in 1..Len(items') : seq[items'[i]] # 0
    <3> TAKE i \in 1..Len(items')
    <3>1. PICK k \in 1..Len(items) : items'[i] = items[k]
      BY <2>1
    <3>. QED
      BY <3>1 DEF Numbered
  <2>8. Numbered'
    BY <2>4, <2>7 DEF Numbered
  <2>. QED
    BY <2>6, <2>8
<1>3. CASE UpSwap
  <2>1. cur \in 1..Len(items) /\ Parent(cur) \in 1..Len(items)
    BY <1>0, <1>3, ParentIs DEF UpSwap, TypeOK
  <2>. QED
    BY <1>2, <1>3, <2>1 DEF UpSwap
<1>4. CASE UpEnd
  BY <1>4 DEF UpEnd, TypeOK, Numbered
<1>5. CASE PopSwap
  <2>1. 1 \in 1..Len(items) /\ Len(items) \in 1..Len(items)
    BY <1>0, <1>5 DEF PopSwap
  <2>. QED
    BY <1>2, <1>5, <2>1 DEF PopSwap
<1>6. CASE DownSwap
  <2>1. cur \in Nat \ {0}
    BY DEF TypeOK
  <2>2. /\ cur \in 1..Len(items) /\ BestChild(Len(items) - 1) \in 1..Len(items)
        /\ BestChild(Len(items) - 1) < Len(items)
    BY <1>0, <1>6, <2>1 DEF DownSwap, Sinks, BestChild
  <2>. QED
    BY <1>2, <1>6, <2>2 DEF DownSwap
<1>7. CASE DownEnd
  <2>1. /\ taken' = items[Len(items)]
        /\ items' = SubSeq(items, 1, Len(items) - 1)
        /\ op' = "none"
        /\ UNCHANGED <<heapIdx, insertSeq, seq, cur, drained, closed>>
        /\ Len(items) # 0
    BY <1>0, <1>7 DEF DownEnd, TypeOK
  <2>2. /\ items' \in Seq(Jobs) /\ Len(items') = Len(items) - 1
        /\ \A i \in 1..Len(items) - 1 : items'[i] = items[i]
    BY <1>0, <2>1, FrontIs
  <2>3. taken' \in Jobs
    BY <1>0, <2>1
  <2>4. TypeOK'
    <3>1. \A i \in 1..Len(items') : heapIdx'[items'[i]] = i - 1
      <4> TAKE i \in 1..Len(items')
      <4>1. i \in 1..Len(items) - 1 /\ i \in 1..Len(items)
        BY <1>0, <2>2
      <4>2. heapIdx' = heapIdx /\ items'[i] = items[i]
        BY <2>1, <2>2, <4>1
      <4>. QED
        BY <4>1, <4>2 DEF TypeOK
    <3>2. closed' \in BOOLEAN
      BY <2>1, Zenon DEF TypeOK
    <3>3. /\ heapIdx' \in [Jobs -> Nat] /\ insertSeq' \in Nat /\ seq' \in [Jobs -> Nat]
          /\ cur' \in Nat \ {0} /\ drained' \subseteq Jobs
      BY <2>1 DEF TypeOK
    <3>. QED
      BY <2>1, <2>2, <2>3, <3>1, <3>2, <3>3 DEF TypeOK
  <2>. QED
    BY <1>0, <2>1, <2>2, <2>4 DEF Numbered
<1>8. CASE Drain
  <2>1. Range(items) \subseteq Jobs
    BY <1>0, LenProperties DEF Range
  <2>2. items' = <<>> /\ items' \in Seq(Jobs) /\ Len(items') = 0
    BY <1>8, EmptySeq DEF Drain
  <2>3. TypeOK'
    BY <1>8, <2>1, <2>2 DEF Drain, TypeOK
  <2>. QED
    BY <1>8, <2>2, <2>3 DEF Drain, Numbered
<1>9. CASE UNCHANGED vars
  BY <1>9 DEF vars, TypeOK, Numbered
<1>. QED
  BY <1>1, <1>3, <1>4, <1>5, <1>6, <1>7, <1>8, <1>9 DEF Next

-----------------------------------------------------------------------------
(* The order of the heap during a sift.  On the way up only the item at    *)
(* cur may be before its parent; on the way down, among the items that     *)
(* stay, only the children of cur may be before it.  In both cases what    *)
(* hangs under cur is not before what cur hangs under, so that the swap of *)
(* the two keeps the order around them.                                    *)
OrderedUp ==
    \A i \in 2..Len(items) :
        /\ i # cur => ~Less(i, Parent(i))
        /\ Parent(i) = cur /\ cur > 1 => ~Less(i, Parent(cur))

OrderedDown ==
    \A i \in 2..(Len(items) - 1) :
        /\ Parent(i) # cur => ~Less(i, Parent(i))
        /\ Parent(i) = cur /\ cur > 1 => ~Less(i, Parent(cur))

SiftOrder == HeapOrder /\ (op = "up" => OrderedUp) /\ (op = "down" => OrderedDown)

(* Before is a strict weak order, and total on jobs of different numbers.  *)
LEMMA BeforeIsOrder ==
    ASSUME TypeOK, NEW j \in Jobs, NEW k \in Jobs, NEW l \in Jobs
    PROVE  /\ Before(j, k) => ~Before(k, j)
           /\ ~Before(j, k) /\ ~Before(k, l) => ~Before(j, l)
           /\ seq[j] # seq[k] => Before(j, k) \/ Before(k, j)
<1>1. /\ Priority[j] \in Int /\ Priority[k] \in Int /\ Priority[l] \in Int
      /\ seq[j] \in Nat /\ seq[k] \in Nat /\ seq[l] \in Nat
  BY PriorityAssumption DEF TypeOK
<1>. QED
  BY <1>1 DEF Before

(* A swap of an item with its parent, when it is before it.                *)
LEMMA UpSwapOrder ==
    ASSUME TypeOK, SiftOrder, UpSwap
    PROVE  SiftOrder'
<1> DEFINE n == Len(items)
<1>0. PICK p \in Nat : p = Parent(cur)
  BY DEF Parent, TypeOK
<1>1. /\ op = "up" /\ op' = "up" /\ cur \in 2..n /\ cur' = p /\ seq' = seq /\ n \in Nat
      /\ p \in 1..(cur - 1)
      /\ Before(items[cur], items[p])
      /\ Swap(cur, p)
  BY <1>0, LenProperties, ParentIs DEF UpSwap, TypeOK, Less
<1>2. /\ items' \in Seq(Jobs) /\ Len(items') = n
      /\ \A i \in 1..n : items[i] \in Jobs
      /\ items'[cur] = items[p] /\ items'[p] = items[cur]
      /\ \A i \in 1..n : i # cur /\ i # p => items'[i] = items[i]
  <2>1. cur \in 1..n /\ p \in 1..n
    BY <1>1
  <2>2. \A i \in 1..n : items[i] \in Jobs
    BY ElementOfSeq DEF TypeOK
  <2>3. /\ items' \in Seq(Jobs) /\ Len(items') = n
        /\ \A i \in 1..n : items'[i] = IF i = cur THEN items[p] ELSE IF i = p THEN items[cur] ELSE items[i]
    BY <1>1, <2>1, SwapIs
  <2>4. items'[cur] = items[p] /\ items'[p] = items[cur]
    BY <2>1, <2>3
  <2>5. \A i \in 1..n : i # cur /\ i # p => items'[i] = items[i]
    BY <2>3
  <2>. QED
    BY <2>2, <2>3, <2>4, <2>5
<1>3. \A i \in 2..n : i \in 1..n /\ Parent(i) \in 1..(i - 1) /\ Parent(i) \in 1..n
  BY <1>1, ParentIs
<1>5. /\ cur \in 2..n /\ cur \in 1..n /\ p \in 1..n /\ p < cur
      /\ items[cur] \in Jobs /\ items[p] \in Jobs
      /\ ~Before(items[p], items[cur])
  <2>1. cur \in 2..n /\ cur \in 1..n /\ p \in 1..n /\ p < cur
    BY <1>1
  <2>2. items[cur] \in Jobs /\ items[p] \in Jobs
    BY <1>2, <2>1
  <2>. QED
    BY <1>1, <2>1, <2>2, BeforeIsOrder
<1>4. \A i \in 2..n : /\ i # cur => ~Before(items[i], items[Parent(i)])
                      /\ Parent(i) = cur => ~Before(items[i], items[p])
  BY <1>0, <1>1 DEF SiftOrder, OrderedUp, Less
<1>6. ASSUME NEW i \in 2..n
      PROVE  /\ i # p => ~Before(items'[i], items'[Parent(i)])
             /\ Parent(i) = p /\ p > 1 => ~Before(items'[i], items'[Parent(p)])
  <2>1. i \in 1..n /\ Parent(i) \in 1..n /\ Parent(i) # i /\ items[i] \in Jobs
    <3>1. i \in 1..n /\ Parent(i) \in 1..(i - 1) /\ Parent(i) \in 1..n
      BY <1>3
    <3>. QED
      BY <1>2, <3>1
  <2>2. ASSUME i # p PROVE ~Before(items'[i], items'[Parent(i)])
    <3>1. CASE i = cur
      <4>1. items'[i] = items[p] /\ items'[Parent(i)] = items[cur]
        BY <1>0, <1>2, <3>1
      <4>. QED
        BY <1>5, <4>1
    <3>2. CASE Parent(i) = cur
      <4>1. items'[i] = items[i] /\ items'[Parent(i)] = items[p]
        BY <1>2, <2>1, <2>2, <3>2
      <4>. QED
        BY <1>4, <3>2, <4>1
    <3>3. CASE Parent(i) = p /\ i # cur
      <4>1. items'[i] = items[i] /\ items'[Parent(i)] = items[cur]
        BY <1>2, <2>1, <2>2, <3>3
      <4>2. ~Before(items[i], items[p])
        BY <1>4, <3>3
      <4>. QED
        BY <1>5, <2>1, <4>1, <4>2, BeforeIsOrder
    <3>4. CASE i # cur /\ Parent(i) # p /\ Parent(i) # cur
      <4>1. items'[i] = items[i] /\ items'[Parent(i)] = items[Parent(i)]
        BY <1>2, <2>1, <2>2, <3>4
      <4>. QED
        BY <1>4, <3>4, <4>1
    <3>. QED
      BY <3>1, <3>2, <3>3, <3>4
  <2>3. ASSUME Parent(i) = p, p > 1 PROVE ~Before(items'[i], items'[Parent(p)])
    <3>0. p \in 2..n
      BY <1>5, <2>3
    <3>1. /\ Parent(p) \in 1..(p - 1) /\ Parent(p) \in 1..n
      BY <1>3, <3>0
    <3>2. Parent(p) # p /\ Parent(p) # cur /\ p # cur
      BY <1>5, <3>1
    <3>3. ~Before(items[p], items[Parent(p)])
      BY <1>4, <3>0, <3>2
    <3>4. items'[Parent(p)] = items[Parent(p)] /\ items[Parent(p)] \in Jobs
      BY <1>2, <3>1, <3>2
    <3>5. CASE i = cur
      BY <1>2, <3>3, <3>4, <3>5
    <3>6. CASE i # cur
      <4>1. ~Before(items[i], items[p])
        BY <1>4, <2>3, <3>6
      <4>2. items'[i] = items[i]
        BY <1>2, <2>1, <2>3, <3>6
      <4>. QED
        BY <1>5, <2>1, <3>3, <3>4, <4>1, <4>2, BeforeIsOrder
    <3>. QED
      BY <3>5, <3>6
  <2>. QED
    BY <2>2, <2>3
<1>7. OrderedUp'
  <2> SUFFICES ASSUME NEW i \in 2..n
               PROVE  /\ i # p => ~Less(i, Parent(i))'
                      /\ Parent(i) = p /\ p > 1 => ~Less(i, Parent(p))'
    BY <1>1, <1>2 DEF OrderedUp
  <2>. QED
    BY <1>1, <1>6 DEF Less, Before
<1>. QED
  BY <1>1, <1>7 DEF SiftOrder, HeapOrder

(* A swap of an item with its best child, when that is before it.          *)
LEMMA DownSwapOrder ==
    ASSUME TypeOK, SiftOrder, DownSwap
    PROVE  SiftOrder'
<1> DEFINE m == Len(items) - 1
<1>0. PICK b \in Nat : b = BestChild(m)
  BY LenProperties DEF BestChild, TypeOK
<1>1. /\ op = "down" /\ op' = "down" /\ cur' = b /\ seq' = seq
      /\ cur \in Nat /\ cur > 0 /\ m \in Nat /\ Len(items) = m + 1
      /\ b \in {2 * cur, 2 * cur + 1} /\ b <= m
      /\ Before(items[b], items[cur])
      /\ \A s \in {2 * cur, 2 * cur + 1} : s <= m /\ s # b => ~Before(items[s], items[b])
      /\ Swap(cur, b)
  <2>1. /\ cur \in Nat /\ cur > 0 /\ Len(items) \in Nat /\ op = "down" /\ op' = "down" /\ seq' = seq
        /\ cur' = b /\ Swap(cur, b) /\ 2 * cur <= m /\ Before(items[b], items[cur])
    BY <1>0, LenProperties DEF DownSwap, Sinks, TypeOK, Less
  <2>2. items[2 * cur] \in Jobs /\ (2 * cur + 1 <= m => items[2 * cur + 1] \in Jobs)
    BY <2>1, ElementOfSeq DEF TypeOK
  <2>3. CASE 2 * cur + 1 <= m /\ Before(items[2 * cur + 1], items[2 * cur])
    <3>1. b = 2 * cur + 1 /\ ~Before(items[2 * cur], items[b])
      BY <1>0, <2>2, <2>3, BeforeIsOrder DEF BestChild, Less
    <3>. QED
      BY <2>1, <2>3, <3>1
  <2>4. CASE ~(2 * cur + 1 <= m /\ Before(items[2 * cur + 1], items[2 * cur]))
    <3>1. b = 2 * cur
      BY <1>0, <2>4 DEF BestChild, Less
    <3>. QED
      BY <2>1, <2>4, <3>1
  <2>. QED
    BY <2>3, <2>4
<1>2. /\ items' \in Seq(Jobs) /\ Len(items') = m + 1
      /\ \A i \in 1..m : items[i] \in Jobs
      /\ items'[cur] = items[b] /\ items'[b] = items[cur]
      /\ \A i \in 1..m : i # cur /\ i # b => items'[i] = items[i]
  <2>1. cur \in 1..Len(items) /\ b \in 1..Len(items) /\ 1..m \subseteq 1..Len(items)
    BY <1>1
  <2>2. \A i \in 1..m : items[i] \in Jobs
    BY <2>1, ElementOfSeq DEF TypeOK
  <2>3. /\ items' \in Seq(Jobs) /\ Len(items') = Len(items)
        /\ \A i \in 1..Len(items) :
                items'[i] = IF i = cur THEN items[b] ELSE IF i = b THEN items[cur] ELSE items[i]
    BY <1>1, <2>1, SwapIs
  <2>4. items'[cur] = items[b] /\ items'[b] = items[cur]
    BY <2>1, <2>3
  <2>5. \A i \in 1..m : i # cur /\ i # b => items'[i] = items[i]
    BY <2>1, <2>3
  <2>6. Len(items') = m + 1
    BY <1>1, <2>3
  <2>. QED
    BY <2>2, <2>3, <2>4, <2>5, <2>6
<1>3. \A i \in 2..m : /\ i \in 1..m /\ Parent(i) \in 1..(i - 1) /\ Parent(i) \in 1..m
                      /\ \A p \in Nat : Parent(i) = p <=> i \in {2 * p, 2 * p + 1}
  BY <1>1, ParentIs
<1>4. \A i \in 2..m : /\ Parent(i) # cur => ~Before(items[i], items[Parent(i)])
                      /\ Parent(i) = cur /\ cur > 1 => ~Before(items[i], items[Parent(cur)])
  BY <1>1 DEF SiftOrder, OrderedDown, Less
<1>5. /\ b \in 2..m /\ b \in 1..m /\ Parent(b) = cur /\ cur \in 1..m /\ b > cur
      /\ items[b] \in Jobs /\ items[cur] \in Jobs
      /\ ~Before(items[cur], items[b])
  <2>1. b \in 2..m /\ b \in 1..m /\ cur \in 1..m /\ b > cur
    BY <1>1
  <2>2. Parent(b) = cur
    BY <1>1, <1>3, <2>1
  <2>3. items[b] \in Jobs /\ items[cur] \in Jobs
    BY <1>2, <2>1
  <2>. QED
    BY <1>1, <2>1, <2>2, <2>3, BeforeIsOrder
<1>6. ASSUME NEW i \in 2..m
      PROVE  /\ Parent(i) # b => ~Before(items'[i], items'[Parent(i)])
             /\ Parent(i) = b => ~Before(items'[i], items'[cur])
  <2>1. i \in 1..m /\ Parent(i) \in 1..m /\ Parent(i) \in 1..(i - 1) /\ Parent(i) # i
    <3>1. i \in 1..m /\ Parent(i) \in 1..(i - 1) /\ Parent(i) \in 1..m
      BY <1>3
    <3>. QED
      BY <3>1
  <2>2. ASSUME Parent(i) # b PROVE ~Before(items'[i], items'[Parent(i)])
    <3>1. CASE i = b
      <4>1. items'[i] = items[cur] /\ items'[Parent(i)] = items[b]
        BY <1>2, <1>5, <3>1
      <4>. QED
        BY <1>5, <4>1
    <3>2. CASE Parent(i) = cur /\ i # b
      <4>1. i \in {2 * cur, 2 * cur + 1} /\ i <= m
        BY <1>1, <1>3, <3>2
      <4>2. ~Before(items[i], items[b])
        BY <1>1, <3>2, <4>1
      <4>3. items'[i] = items[i] /\ items'[Parent(i)] = items[b]
        BY <1>2, <2>1, <3>2
      <4>. QED
        BY <4>2, <4>3
    <3>3. CASE i = cur
      <4>1. cur > 1
        BY <2>1, <3>3
      <4>2. ~Before(items[b], items[Parent(cur)])
        BY <1>4, <1>5, <4>1
      <4>3. items'[i] = items[b] /\ items'[Parent(i)] = items[Parent(cur)]
        BY <1>2, <2>1, <2>2, <3>3
      <4>. QED
        BY <4>2, <4>3
    <3>4. CASE i # cur /\ i # b /\ Parent(i) # cur
      <4>1. items'[i] = items[i] /\ items'[Parent(i)] = items[Parent(i)]
        BY <1>2, <2>1, <2>2, <3>4
      <4>. QED
        BY <1>4, <3>4, <4>1
    <3>. QED
      BY <3>1, <3>2, <3>3, <3>4
  <2>3. ASSUME Parent(i) = b PROVE ~Before(items'[i], items'[cur])
    <3>0. i # cur /\ i # b /\ b # cur
      BY <1>5, <2>1, <2>3
    <3>1. items'[i] = items[i] /\ items'[cur] = items[b]
      BY <1>2, <2>1, <3>0
    <3>2. ~Before(items[i], items[Parent(i)])
      BY <1>4, <2>3, <3>0
    <3>. QED
      BY <2>3, <3>1, <3>2
  <2>. QED
    BY <2>2, <2>3
<1>7. OrderedDown'
  <2> SUFFICES ASSUME NEW i \in 2..m
               PROVE  /\ Parent(i) # b => ~Less(i, Parent(i))'
                      /\ Parent(i) = b /\ b > 1 => ~Less(i, Parent(b))'
    BY <1>1, <1>2 DEF OrderedDown
  <2>. QED
    BY <1>1, <1>5, <1>6 DEF Less, Before
<1>. QED
  BY <1>1, <1>7 DEF SiftOrder, HeapOrder

(* A pop takes the root out and leaves only its children to be looked at.  *)
LEMMA PopSwapOrder ==
    ASSUME TypeOK, SiftOrder, PopSwap
    PROVE  SiftOrder'
<1> DEFINE n == Len(items)
<1>1. /\ op = "none" /\ op' = "down" /\ cur' = 1 /\ seq' = seq /\ n \in Nat /\ n > 0
      /\ Swap(1, n)
  BY LenProperties, EmptySeq DEF PopSwap, TypeOK
<1>2. /\ items' \in Seq(Jobs) /\ Len(items') = n
      /\ \A i \in 2..(n - 1) : items'[i] = items[i]
  <2>1. 1 \in 1..n /\ n \in 1..n
    BY <1>1
  <2>. QED
    BY <1>1, <2>1, SwapIs
<1>3. \A i \in 2..n : ~Less(i, Parent(i))
  BY <1>1 DEF SiftOrder, HeapOrder
<1>4. ASSUME NEW i \in 2..(n - 1), Parent(i) # 1 PROVE ~Less(i, Parent(i))'
  <2>1. Parent(i) \in 2..(n - 1)
    <3>1. Parent(i) \in 1..(i - 1)
      BY <1>1, ParentIs
    <3>. QED
      BY <1>1, <1>4, <3>1
  <2>2. items'[i] = items[i] /\ items'[Parent(i)] = items[Parent(i)] /\ ~Less(i, Parent(i))
    BY <1>1, <1>2, <1>3, <2>1
  <2>. QED
    BY <1>1, <2>2 DEF Less, Before
<1>. QED
  BY <1>1, <1>2, <1>4 DEF SiftOrder, HeapOrder, OrderedDown

(* Every step keeps the order of the heap.                                 *)
LEMMA OrderStep == TypeOK /\ Numbered /\ SiftOrder /\ [Next]_vars => SiftOrder'
<1> SUFFICES ASSUME TypeOK, Numbered, SiftOrder, [Next]_vars PROVE SiftOrder'
  OBVIOUS
<1>0. /\ items \in Seq(Jobs) /\ Len(items) \in Nat
      /\ \A i \in 2..Len(items) : Parent(i) \in 1..(i - 1)
  BY LenProperties, ParentIs DEF TypeOK
<1>1. ASSUME NEW j \in Jobs, Push(j) PROVE SiftOrder'
  <2>1. /\ op = "none" /\ op' = "up" /\ cur' = Len(items) + 1
        /\ items' = Append(items, j) /\ seq' = [seq EXCEPT ![j] = insertSeq + 1]
        /\ seq[j] = 0
    BY <1>1 DEF Push
  <2>2. /\ Len(items') = Len(items) + 1
        /\ \A i \in 1..Len(items) : items'[i] = items[i]
    BY <1>0, <2>1, AppendProperties
  <2>3. \A i \in 1..Len(items) : seq'[items'[i]] = seq[items[i]]
    <3> TAKE i \in 1..Len(items)
    <3>1. items'[i] = items[i] /\ items[i] \in Jobs /\ seq[items[i]] # 0
      BY <1>0, <2>2, ElementOfSeq DEF Numbered
    <3>. QED
      BY <2>1, <3>1 DEF TypeOK
  <2>4. ASSUME NEW i \in 2..Len(items) PROVE ~Less(i, Parent(i))'
    <3>1. /\ items'[i] = items[i] /\ items'[Parent(i)] = items[Parent(i)]
          /\ seq'[items[i]] = seq[items[i]] /\ seq'[items[Parent(i)]] = seq[items[Parent(i)]]
      <4>1. i \in 1..Len(items) /\ Parent(i) \in 1..Len(items)
        BY <1>0
      <4>. QED
        BY <2>2, <2>3, <4>1
    <3>2. ~Less(i, Parent(i))
      BY <2>1 DEF SiftOrder, HeapOrder
    <3>. QED
      BY <3>1, <3>2 DEF Less, Before
  <2>5. \A i \in 2..(Len(items) + 1) : Parent(i) # Len(items) + 1
    BY <1>0, ParentIs
  <2>. QED
    BY <1>0, <2>1, <2>2, <2>4, <2>5 DEF SiftOrder, HeapOrder, OrderedUp
<1>2. CASE UpSwap
  BY <1>2, UpSwapOrder
<1>3. CASE UpEnd
  <2>1. /\ op = "up" /\ op' = "none" /\ items' = items /\ seq' = seq
        /\ cur > 1 => ~Less(cur, Parent(cur))
    BY <1>3 DEF UpEnd
  <2>2. \A i \in 2..Len(items) : ~Less(i, Parent(i))
    BY <1>0, <2>1 DEF SiftOrder, OrderedUp
  <2>. QED
    BY <2>1, <2>2 DEF SiftOrder, HeapOrder, Less, Before
<1>4. CASE PopSwap
  BY <1>4, PopSwapOrder
<1>5. CASE DownSwap
  BY <1>5, DownSwapOrder
<1>6. CASE DownEnd
  <2> DEFINE m == Len(items) - 1
  <2>1. /\ op = "down" /\ op' = "none" /\ seq' = seq
        /\ items' = SubSeq(items, 1, m) /\ ~Sinks(m)
        /\ cur \in Nat /\ cur > 0 /\ items # <<>>
    BY <1>6 DEF DownEnd, TypeOK
  <2>2. /\ Len(items') = m /\ m \in Nat
        /\ \A i \in 1..m : items'[i] = items[i] /\ items[i] \in Jobs
    BY <1>0, <2>1, FrontIs, EmptySeq, ElementOfSeq
  <2>3. \A s \in {2 * cur, 2 * cur + 1} : s <= m => ~Before(items[s], items[cur])
    <3>1. CASE 2 * cur > m
      BY <2>1, <2>2, <3>1
    <3>2. CASE 2 * cur <= m
      <4>1. /\ items[cur] \in Jobs /\ items[2 * cur] \in Jobs
            /\ 2 * cur + 1 <= m => items[2 * cur + 1] \in Jobs
        BY <2>1, <2>2, <3>2
      <4>. QED
        BY <2>1, <2>2, <3>2, <4>1, BeforeIsOrder DEF Sinks, BestChild, Less
    <3>. QED
      BY <2>1, <2>2, <3>1, <3>2
  <2>4. ASSUME NEW i \in 2..m PROVE ~Less(i, Parent(i))'
    <3>1. /\ Parent(i) \in 1..m /\ i \in 1..m
          /\ Parent(i) = cur => i \in {2 * cur, 2 * cur + 1}
      BY <2>1, <2>2, ParentIs
    <3>2. ~Before(items[i], items[Parent(i)])
      <4>1. CASE Parent(i) = cur
        BY <2>3, <3>1, <4>1
      <4>2. CASE Parent(i) # cur
        BY <2>1, <4>2 DEF SiftOrder, OrderedDown, Less
      <4>. QED
        BY <4>1, <4>2
    <3>3. items'[i] = items[i] /\ items'[Parent(i)] = items[Parent(i)]
      BY <2>2, <3>1
    <3>. QED
      BY <2>1, <3>2, <3>3 DEF Less, Before
  <2>. QED
    BY <2>1, <2>2, <2>4 DEF SiftOrder, HeapOrder
<1>7. CASE Drain
  <2>1. op' = "none" /\ Len(items') = 0
    BY <1>7, EmptySeq DEF Drain
  <2>. QED
    BY <2>1 DEF SiftOrder, HeapOrder
<1>8. CASE UNCHANGED vars
  BY <1>8 DEF vars, SiftOrder, HeapOrder, OrderedUp, OrderedDown, Less, Before
<1>. QED
  BY <1>1, <1>2, <1>3, <1>4, <1>5, <1>6, <1>7, <1>8 DEF Next

-----------------------------------------------------------------------------
(* The heap starts empty.                                                  *)
LEMMA InitInvariant == Init => TypeOK /\ Numbered /\ SiftOrder
<1> SUFFICES ASSUME Init PROVE TypeOK /\ Numbered /\ SiftOrder
  OBVIOUS
<1>1. items = <<>> /\ items \in Seq(Jobs) /\ Len(items) = 0
  BY EmptySeq DEF Init
<1>2. TypeOK
  <2>1. closed \in BOOLEAN
    BY Zenon DEF Init
  <2>2. heapIdx \in [Jobs -> Nat] /\ seq \in [Jobs -> Nat]
    BY DEF Init
  <2>3. /\ insertSeq \in Nat /\ op = "none" /\ cur \in Nat \ {0}
        /\ taken \in Jobs \cup {NoJob} /\ drained \subseteq Jobs
    BY DEF Init
  <2>. QED
    BY <1>1, <2>1, <2>2, <2>3 DEF TypeOK
<1>3. Numbered
  BY <1>1 DEF Init, Numbered
<1>4. SiftOrder
  BY <1>1 DEF Init, SiftOrder, HeapOrder
<1>. QED
  BY <1>2, <1>3, <1>4

(* The inductive invariant.                                                *)
LEMMA Invariance == Spec => [](TypeOK /\ Numbered /\ SiftOrder)
BY InitInvariant, TypeStep, OrderStep, PTL DEF Spec

(* Every variable keeps its type and every job on the heap knows its place *)
(* there (priorityQueue.Push, Pop and Swap keep heapIdx).                  *)
THEOREM QueueTypes == Spec => []TypeOK
BY Invariance, PTL

(* Between two operations no job is before the one at its parent: the      *)
(* sifts of container/heap restore the order (dispatcher_queue.go, Less).  *)
THEOREM HeapOrderHolds == Spec => []HeapOrder
<1>1. SiftOrder => HeapOrder
  BY DEF SiftOrder
<1>. QED
  BY <1>1, Invariance, PTL

-----------------------------------------------------------------------------
(* In an ordered heap the root is before every other job: else the least   *)
(* index of one that it is not before would have its parent after it.      *)
LEMMA RootIsFirst ==
    ASSUME TypeOK, Numbered, HeapOrder, op = "none", items # <<>>
    PROVE  \A k \in Range(items) \ {items[1]} : Before(items[1], k)
<1> DEFINE n == Len(items)
<1>1. /\ n \in Nat /\ n > 0 /\ \A i \in 1..n : items[i] \in Jobs
      /\ DOMAIN items = 1..n
  BY LenProperties, ElementOfSeq, EmptySeq DEF TypeOK
<1>2. ASSUME NEW i \in 1..n PROVE ~Before(items[i], items[1])
  <2> DEFINE S == {k \in 1..n : Before(items[k], items[1])}
  <2>1. SUFFICES ASSUME S # {} PROVE FALSE
    OBVIOUS
  <2>2. PICK k \in S : \A l \in S : k <= l
    <3> HIDE DEF S
    <3>1. S \in SUBSET (1..n)
      BY DEF S
    <3>. QED
      BY <1>1, <2>1, <3>1, LeastIndex
  <2>3. k \in 1..n /\ Before(items[k], items[1])
    OBVIOUS
  <2>4. k # 1
    BY <1>1, <2>3, BeforeIsOrder
  <2>5. Parent(k) \in 1..(k - 1)
    BY <2>3, <2>4, ParentIs
  <2>6. ~Before(items[Parent(k)], items[1])
    BY <1>1, <2>2, <2>3, <2>5
  <2>7. ~Before(items[k], items[Parent(k)])
    BY <2>3, <2>4 DEF HeapOrder, Less
  <2>8. items[1] \in Jobs /\ items[k] \in Jobs /\ items[Parent(k)] \in Jobs
    BY <1>1, <2>3, <2>5
  <2>. QED
    BY <2>3, <2>6, <2>7, <2>8, BeforeIsOrder
<1>3. ASSUME NEW i \in 1..n, items[i] # items[1] PROVE Before(items[1], items[i])
  <2>1. items[1] \in Jobs /\ items[i] \in Jobs /\ seq[items[i]] # 0
    BY <1>1 DEF Numbered
  <2>2. seq[items[1]] # seq[items[i]]
    BY <1>3, <2>1 DEF Numbered
  <2>. QED
    BY <1>2, <2>1, <2>2, BeforeIsOrder
<1>. QED
  BY <1>1, <1>3 DEF Range

(* Every step of the heap is a step of the queue, or none: a job enters    *)
(* where it is pushed and leaves where its pop swaps it to the end.        *)
LEMMA QueueStep ==
    ASSUME TypeOK, Numbered, HeapOrder, [Next]_vars
    PROVE  [Queue!Next]_(Queue!queueVars)
<1> DEFINE Q == Range(items) \ Popping
           T == IF op = "down" THEN items[Len(items)] ELSE taken
<1>0. /\ items \in Seq(Jobs) /\ Len(items) \in Nat
      /\ DOMAIN items = 1..Len(items)
      /\ \A i \in 1..Len(items) : items[i] \in Jobs /\ heapIdx[items[i]] = i - 1
      /\ items # <<>> <=> Len(items) # 0
  BY LenProperties, ElementOfSeq, EmptySeq DEF TypeOK
<1>10. Len(items) \in Nat
  BY <1>0
<1>9. \A i, k \in 1..Len(items) : items[i] = items[k] => i = k
  BY <1>0
<1>1. ASSUME NEW j \in Jobs, Push(j) PROVE Queue!Push(j)
  <2>1. items' \in Seq(Jobs) /\ Range(items') = Range(items) \cup {j}
    BY <1>0, <1>1, AppendProperties, RangeAppend DEF Push
  <2>. QED
    BY <1>1, <2>1 DEF Push, Queue!Push, Popping
<1>2. CASE UpSwap
  <2>1. Range(items') = Range(items)
    <3>1. cur \in 1..Len(items) /\ Parent(cur) \in 1..Len(items)
      BY <1>0, <1>2, ParentIs DEF UpSwap, TypeOK
    <3>. QED
      BY <1>2, <3>1, SwapIs DEF UpSwap
  <2>. QED
    BY <1>2, <2>1 DEF UpSwap, Popping, Queue!queueVars
<1>3. CASE UpEnd
  BY <1>3 DEF UpEnd, Popping, Queue!queueVars
<1>4. CASE PopSwap
  <2>1. /\ op = "none" /\ op' = "down" /\ items # <<>> /\ Swap(1, Len(items))
        /\ UNCHANGED <<insertSeq, seq, taken, drained>>
        /\ 1 \in 1..Len(items) /\ Len(items) \in 1..Len(items)
    BY <1>0, <1>4 DEF PopSwap
  <2>2. Range(items') = Range(items) /\ items'[Len(items')] = items[1]
    BY <1>0, <2>1, SwapIs
  <2>3. items[1] \in Range(items) /\ items[1] \in Jobs
    BY <1>0, <2>1 DEF Range
  <2>4. \A k \in Range(items) \ {items[1]} : Queue!Sooner(items[1], k)
    BY <2>1, RootIsFirst DEF Before, Queue!Sooner
  <2>5. Queue!Pop(items[1])
    BY <2>1, <2>2, <2>3, <2>4 DEF Queue!Pop, Popping
  <2>. QED
    BY <2>3, <2>5 DEF Queue!Next
<1>5. CASE DownSwap
  <2>0. cur \in Nat \ {0}
    BY DEF TypeOK
  <2>1. PICK b \in Nat : b = BestChild(Len(items) - 1)
    BY <2>0 DEF BestChild
  <2>2. cur \in 1..Len(items) /\ b \in 1..Len(items) /\ cur # Len(items) /\ b # Len(items)
    <3>1. 2 * cur <= Len(items) - 1
      BY <1>5 DEF DownSwap, Sinks
    <3>2. b \in {2 * cur, 2 * cur + 1} /\ b <= Len(items) - 1
      BY <2>1, <3>1 DEF BestChild
    <3>. QED
      BY <1>10, <2>0, <3>1, <3>2
  <2>3. Swap(cur, b)
    BY <1>5, <2>1 DEF DownSwap
  <2>4. Len(items) \in 1..Len(items)
    BY <1>10, <2>2
  <2>5. Range(items') = Range(items) /\ items'[Len(items')] = items[Len(items)]
    <3>1. /\ Len(items') = Len(items) /\ Range(items') = Range(items)
          /\ items'[Len(items)] = IF Len(items) = cur THEN items[b]
                                 ELSE IF Len(items) = b THEN items[cur] ELSE items[Len(items)]
      BY <2>2, <2>3, <2>4, SwapIs
    <3>. QED
      BY <2>2, <3>1
  <2>. QED
    BY <1>5, <2>5 DEF DownSwap, Popping, Queue!queueVars
<1>6. CASE DownEnd
  <2>1. /\ op = "down" /\ op' = "none" /\ taken' = items[Len(items)]
        /\ items' = SubSeq(items, 1, Len(items) - 1)
        /\ UNCHANGED <<insertSeq, seq, drained>>
        /\ Len(items) # 0
    BY <1>0, <1>6 DEF DownEnd, TypeOK
  <2>2. /\ items' \in Seq(Jobs) /\ Len(items') = Len(items) - 1
        /\ \A i \in 1..Len(items) - 1 : items'[i] = items[i]
    BY <1>0, <2>1, FrontIs
  <2>3. DOMAIN items' = 1..Len(items) - 1
    BY <2>2, LenProperties
  <2>4. Range(items') = Range(items) \ {items[Len(items)]}
    <3>1. ASSUME NEW x \in Range(items') PROVE x \in Range(items) \ {items[Len(items)]}
      <4>1. PICK i \in 1..Len(items) - 1 : x = items'[i]
        BY <2>3 DEF Range
      <4>2. i \in 1..Len(items) /\ Len(items) \in 1..Len(items) /\ i # Len(items)
        BY <1>10, <4>1
      <4>3. x = items[i]
        BY <2>2, <4>1
      <4>. QED
        BY <1>0, <1>9, <4>2, <4>3 DEF Range
    <3>2. ASSUME NEW x \in Range(items), x # items[Len(items)] PROVE x \in Range(items')
      <4>1. PICK i \in 1..Len(items) : x = items[i]
        BY <1>0 DEF Range
      <4>2. i \in 1..Len(items) - 1
        BY <1>0, <3>2, <4>1
      <4>. QED
        BY <2>2, <2>3, <4>1, <4>2 DEF Range
    <3>. QED
      BY <3>1, <3>2
  <2>. QED
    BY <2>1, <2>4 DEF Popping, Queue!queueVars
<1>7. CASE Drain
  <2>1. Range(items') = {}
    BY <1>7 DEF Drain, Range
  <2>. QED
    BY <1>7, <2>1 DEF Drain, Popping, Queue!Drain, Queue!Next
<1>8. CASE UNCHANGED vars
  BY <1>8 DEF vars, Popping, Queue!queueVars
<1>. QED
  BY <1>1, <1>2, <1>3, <1>4, <1>5, <1>6, <1>7, <1>8 DEF Next, Queue!Next

(* The heap implements the queue the dispatcher relies on: a pop returns   *)
(* the job of the highest priority, the earliest among equals.             *)
THEOREM QueueRefinement == Spec => ImplementsQueue
<1>1. Init => Queue!Init
  BY EmptySeq DEF Init, Queue!Init, Popping, Range
<1>2. SiftOrder => HeapOrder
  BY DEF SiftOrder
<1>. QED
  BY <1>1, <1>2, Invariance, QueueStep, PTL DEF Spec, ImplementsQueue, Queue!Spec
=============================================================================
