---------------------- MODULE ApplicationRuntimeProofs ----------------------
(***************************************************************************)
(* Lemmas about the methods of ApplicationRuntimeState, for every module   *)
(* that proves something of the tasks that call them.                      *)
(***************************************************************************)
EXTENDS ApplicationRuntime, SequenceTheorems, FiniteSetTheorems, WellFoundedInduction, TLAPS

-----------------------------------------------------------------------------
(* RemoveFirst, the VecDeque::remove of ThreadCell::release *)

\* A set of numbers has its minimum.
LEMMA SmallestNumber ==
    ASSUME NEW S, S \subseteq Nat, S # {}
    PROVE  Min(S) \in S /\ \A y \in S : Min(S) <= y
<1>1. IsWellFoundedOn(OpToRel(<, Nat), Nat)
  BY NatLessThanWellFounded
<1>2. PICK x \in S : \A y \in S : ~ (<<y, x>> \in OpToRel(<, Nat))
  BY <1>1, WFMin
<1>3. \A y \in S : ~ (y < x)
  BY <1>2 DEF OpToRel
<1>4. \A y \in S : x <= y
  BY <1>3
<1> QED
  BY <1>4 DEF Min

\* The index at which RemoveFirst cuts a sequence that holds s[k] exactly once.
LEMMA UniqueIndex ==
    ASSUME NEW S, NEW s \in Seq(S), NEW k \in 1..Len(s),
           \A i \in 1..Len(s) : s[i] = s[k] => i = k
    PROVE  /\ {i \in 1..Len(s) : s[i] = s[k]} # {}
           /\ Min({i \in 1..Len(s) : s[i] = s[k]}) = k
<1>1. {i \in 1..Len(s) : s[i] = s[k]} = {k}
  OBVIOUS
<1>2. Min({k}) = k
  BY LenProperties DEF Min
<1> QED
  BY <1>1, <1>2

\* Removing the only occurrence of an operation closes the gap and keeps the
\* order of the others.
LEMMA RemoveFirstUnique ==
    ASSUME NEW S, NEW s \in Seq(S), NEW k \in 1..Len(s),
           \A i \in 1..Len(s) : s[i] = s[k] => i = k
    PROVE  /\ RemoveFirst(s, s[k]) \in Seq(S)
           /\ Len(RemoveFirst(s, s[k])) = Len(s) - 1
           /\ \A i \in 1..(Len(s) - 1) :
                 RemoveFirst(s, s[k])[i] = IF i < k THEN s[i] ELSE s[i + 1]
<1>1. Len(s) \in Nat /\ \A i \in 1..Len(s) : s[i] \in S
  BY LenProperties, ElementOfSeq
<1>2. RemoveFirst(s, s[k]) = SubSeq(s, 1, k - 1) \o SubSeq(s, k + 1, Len(s))
  BY UniqueIndex DEF RemoveFirst, RemoveAt, SelectInSeq
<1> DEFINE front == SubSeq(s, 1, k - 1)
           back == SubSeq(s, k + 1, Len(s))
<1>3. /\ front \in Seq(S)
      /\ Len(front) = k - 1
      /\ \A i \in 1..(k - 1) : front[i] = s[i]
  BY <1>1, SubSeqProperties
<1>4. /\ back \in Seq(S)
      /\ Len(back) = Len(s) - k
      /\ \A i \in 1..(Len(s) - k) : back[i] = s[k + i]
  BY <1>1, SubSeqProperties
<1> HIDE DEF front, back
<1>5. /\ front \o back \in Seq(S)
      /\ Len(front \o back) = Len(s) - 1
      /\ \A i \in 1..(Len(s) - 1) :
            (front \o back)[i] = IF i <= k - 1 THEN front[i] ELSE back[i - (k - 1)]
  <2>1. Len(front) + Len(back) = Len(s) - 1
    BY <1>1, <1>3, <1>4
  <2>2. /\ front \o back \in Seq(S)
        /\ Len(front \o back) = Len(front) + Len(back)
        /\ \A i \in 1..(Len(front) + Len(back)) :
              (front \o back)[i] = IF i <= Len(front) THEN front[i]
                                                     ELSE back[i - Len(front)]
    BY <1>3, <1>4, ConcatProperties
  <2> QED
    BY <2>1, <2>2, <1>3
<1>6. ASSUME NEW i \in 1..(Len(s) - 1)
      PROVE  (front \o back)[i] = IF i < k THEN s[i] ELSE s[i + 1]
  <2>1. CASE i < k
    BY <2>1, <1>1, <1>3, <1>5
  <2>2. CASE ~(i < k)
    <3>1. i - (k - 1) \in 1..(Len(s) - k) /\ k + (i - (k - 1)) = i + 1
      BY <2>2, <1>1
    <3>2. back[i - (k - 1)] = s[k + (i - (k - 1))]
      BY <3>1, <1>4
    <3>3. (front \o back)[i] = back[i - (k - 1)]
      BY <2>2, <1>1, <1>5
    <3> QED
      BY <2>2, <3>1, <3>2, <3>3
  <2> QED
    BY <2>1, <2>2
<1>7. RemoveFirst(s, s[k]) = front \o back
  BY <1>2 DEF front, back
<1> QED
  BY <1>5, <1>6, <1>7

\* An operation that is not in the cell leaves it alone.
LEMMA RemoveFirstAbsent ==
    ASSUME NEW s, NEW e, \A i \in 1..Len(s) : s[i] # e
    PROVE  RemoveFirst(s, e) = s
  BY DEF RemoveFirst

\* Whether or not the operation is in the cell, and however often: the result is
\* a cell, and it holds every other operation that the cell held.
LEMMA RemoveFirstKeeps ==
    ASSUME NEW S, NEW s \in Seq(S), NEW e
    PROVE  /\ RemoveFirst(s, e) \in Seq(S)
           /\ \A i \in 1..Len(s) : s[i] # e =>
                 \E j \in 1..Len(RemoveFirst(s, e)) : RemoveFirst(s, e)[j] = s[i]
<1> DEFINE at == {i \in 1..Len(s) : s[i] = e}
<1>0. Len(s) \in Nat
  BY LenProperties
<1>1. CASE at = {}
  BY <1>1, RemoveFirstAbsent
<1>2. CASE at # {}
  <2>1. PICK k \in at : k = Min(at)
    <3>1. at \subseteq Nat
      BY <1>0
    <3> QED
      BY <3>1, <1>2, SmallestNumber
  <2>2. k \in 1..Len(s) /\ s[k] = e
    OBVIOUS
  <2>3. RemoveFirst(s, e) = SubSeq(s, 1, k - 1) \o SubSeq(s, k + 1, Len(s))
    BY <1>2, <2>1 DEF RemoveFirst, RemoveAt, SelectInSeq
  <2> DEFINE front == SubSeq(s, 1, k - 1)
             back == SubSeq(s, k + 1, Len(s))
  <2>4. front \in Seq(S) /\ Len(front) = k - 1 /\ \A i \in 1..(k - 1) : front[i] = s[i]
    BY <1>0, <2>2, SubSeqProperties
  <2>5. /\ back \in Seq(S)
        /\ Len(back) = Len(s) - k
        /\ \A i \in 1..(Len(s) - k) : back[i] = s[k + i]
    BY <1>0, <2>2, SubSeqProperties
  <2> HIDE DEF front, back, at
  <2>6. /\ front \o back \in Seq(S)
        /\ Len(front \o back) = Len(s) - 1
        /\ \A i \in 1..Len(front) : (front \o back)[i] = front[i]
        /\ \A i \in 1..Len(back) : (front \o back)[Len(front) + i] = back[i]
    <3>1. Len(front) \in Nat /\ Len(back) \in Nat /\ Len(front) + Len(back) = Len(s) - 1
      BY <1>0, <2>2, <2>4, <2>5
    <3>2. /\ front \o back \in Seq(S)
          /\ Len(front \o back) = Len(front) + Len(back)
          /\ \A i \in 1..(Len(front) + Len(back)) :
                (front \o back)[i] = IF i <= Len(front) THEN front[i]
                                                       ELSE back[i - Len(front)]
      BY <2>4, <2>5, ConcatProperties
    <3>3. \A i \in 1..Len(front) : (front \o back)[i] = front[i]
      BY <3>1, <3>2
    <3>4. ASSUME NEW i \in 1..Len(back)
          PROVE  (front \o back)[Len(front) + i] = back[i]
      <4>1. /\ Len(front) + i \in 1..(Len(front) + Len(back))
            /\ ~(Len(front) + i <= Len(front))
            /\ (Len(front) + i) - Len(front) = i
        BY <3>1
      <4> QED
        BY <4>1, <3>2
    <3> QED
      BY <3>1, <3>2, <3>3, <3>4
  <2>7. ASSUME NEW i \in 1..Len(s), s[i] # e
        PROVE  \E j \in 1..(Len(s) - 1) : (front \o back)[j] = s[i]
    <3>1. CASE i < k
      BY <3>1, <1>0, <2>2, <2>4, <2>6
    <3>2. CASE i > k
      <4>1. i - k \in 1..(Len(s) - k) /\ k + (i - k) = i /\ i - 1 \in 1..(Len(s) - 1)
        BY <3>2, <1>0, <2>2
      <4>2. Len(front) + (i - k) = i - 1
        BY <4>1, <2>2, <2>4
      <4>3. back[i - k] = s[i] /\ (front \o back)[i - 1] = back[i - k]
        BY <4>1, <4>2, <2>5, <2>6
      <4> QED
        BY <4>1, <4>3
    <3>3. CASE i = k
      BY <3>3, <2>2, <2>7
    <3>4. i \in Int /\ k \in Int
      BY <1>0, <2>2
    <3>5. i < k \/ i > k \/ i = k
      BY <3>4
    <3> QED
      BY <3>1, <3>2, <3>3, <3>5
  <2>8. RemoveFirst(s, e) = front \o back
    BY <2>3 DEF front, back
  <2> QED
    BY <2>6, <2>7, <2>8
<1> QED
  BY <1>1, <1>2

-----------------------------------------------------------------------------
(* The ready signals *)

\* A reservation signals its own operation, and only at once if it is alone.
LEMMA ReserveReadyProperties ==
    ASSUME NEW cell \in Seq(Operations), NEW r \in [Operations -> Signal],
           NEW op \in Operations
    PROVE  /\ ReserveReady(cell, r, op) \in [Operations -> Signal]
           /\ \A o \in Operations \ {op} : ReserveReady(cell, r, op)[o] = r[o]
           /\ ReserveReady(cell, r, op)[op] =
                 IF Len(cell) = 0 THEN "sent" ELSE "waiting"
<1> DEFINE queued == [r EXCEPT ![op] = "waiting"]
<1>1. queued \in [Operations -> Signal] /\ queued[op] = "waiting"
  BY DEF Signal
<1>2. <<op>> # <<>> /\ Head(<<op>>) = op
  OBVIOUS
<1>3. ReleaseFrontWaiter(<<op>>, queued) = [queued EXCEPT ![op] = "sent"]
  BY <1>1, <1>2 DEF ReleaseFrontWaiter
<1> QED
  BY <1>1, <1>3 DEF ReserveReady, Signal

\* A release signals the operation behind the front when the front leaves, and
\* touches no other signal than that one and its own.
LEMMA ReleaseReadyProperties ==
    ASSUME NEW cell \in Seq(Operations), NEW r \in [Operations -> Signal],
           NEW op \in Operations
    PROVE  /\ ReleaseReady(cell, r, op) \in [Operations -> Signal]
           /\ \A o \in Operations :
                 /\ o # op
                 /\ ~(2 <= Len(cell) /\ cell[1] = op /\ o = cell[2])
                 => ReleaseReady(cell, r, op)[o] = r[o]
           /\ (/\ 2 <= Len(cell)
               /\ cell[1] = op
               /\ cell[2] # op
               /\ r[cell[2]] = "waiting")
              => ReleaseReady(cell, r, op)[cell[2]] = "sent"
<1> DEFINE left == [r EXCEPT ![op] = IF @ = "waiting" THEN "dropped" ELSE @]
<1>1. /\ left \in [Operations -> Signal]
      /\ \A o \in Operations \ {op} : left[o] = r[o]
  BY DEF Signal
<1> HIDE DEF left
<1>2. CASE ~(cell # <<>> /\ Head(cell) = op)
  <2>1. ReleaseReady(cell, r, op) = left
    BY <1>2 DEF ReleaseReady, left
  <2>2. ~(2 <= Len(cell) /\ cell[1] = op)
    BY <1>2
  <2> QED
    BY <1>1, <2>1, <2>2
<1>3. CASE cell # <<>> /\ Head(cell) = op
  <2>1. ReleaseReady(cell, r, op) = ReleaseFrontWaiter(Tail(cell), left)
    BY <1>3 DEF ReleaseReady, left
  <2>2. /\ Tail(cell) \in Seq(Operations)
        /\ Len(Tail(cell)) = Len(cell) - 1
        /\ \A i \in 1..Len(Tail(cell)) : Tail(cell)[i] = cell[i + 1]
        /\ cell[1] = op
    BY <1>3, HeadTailProperties
  <2>3. CASE Tail(cell) = <<>>
    <3>1. ReleaseReady(cell, r, op) = left
      BY <2>1, <2>3 DEF ReleaseFrontWaiter
    <3>2. ~(2 <= Len(cell))
      <4>1. Len(Tail(cell)) = 0
        BY <2>3, EmptySeq
      <4>2. Len(cell) \in Nat /\ Len(cell) - 1 = 0
        BY <4>1, <2>2, LenProperties
      <4> QED
        BY <4>2
    <3> QED
      BY <1>1, <3>1, <3>2
  <2>4. CASE Tail(cell) # <<>>
    <3>1. /\ Head(Tail(cell)) = cell[2]
          /\ cell[2] \in Operations
          /\ 2 <= Len(cell)
      BY <2>2, <2>4, HeadTailProperties
    <3>2. ReleaseReady(cell, r, op) =
             IF left[cell[2]] = "waiting" THEN [left EXCEPT ![cell[2]] = "sent"] ELSE left
      BY <2>1, <2>4, <3>1 DEF ReleaseFrontWaiter
    <3> QED
      BY <1>1, <2>2, <3>1, <3>2 DEF Signal
  <2> QED
    BY <2>3, <2>4
<1> QED
  BY <1>2, <1>3

-----------------------------------------------------------------------------
(* The methods *)

\* The parts of the runtime's state that no lane method touches out of type.
LEMMA RecordActivityType ==
    ASSUME NEW thread, NEW cell, NEW accepted, activity_revision \in Nat,
           RecordActivityTransition(thread, cell, accepted)
    PROVE  activity_revision' \in Nat
  BY DEF RecordActivityTransition

\* ThreadCell::reserve keeps the types and adds the operation to its lane only.
LEMMA ReserveTyped ==
    ASSUME RuntimeTypeOK, NEW l \in Lanes, NEW op \in Operations, NEW durable,
           Reserve(l, op, durable)
    PROVE  /\ cells' \in [Lanes -> Seq(Operations)]
           /\ ready' \in [Operations -> Signal]
           /\ durable_accepted' \subseteq Operations
           /\ accepted_operations' \in Nat
           /\ Has(l, {op})'
           /\ \A k \in Lanes, o \in Operations : Has(k, {o}) => Has(k, {o})'
<1>1. /\ cells \in [Lanes -> Seq(Operations)]
      /\ ready \in [Operations -> Signal]
      /\ cells[l] \in Seq(Operations)
  BY DEF RuntimeTypeOK
<1>2. /\ Append(cells[l], op) \in Seq(Operations)
      /\ Len(Append(cells[l], op)) = Len(cells[l]) + 1
      /\ \A i \in 1..Len(cells[l]) : Append(cells[l], op)[i] = cells[l][i]
      /\ Append(cells[l], op)[Len(cells[l]) + 1] = op
      /\ Len(cells[l]) \in Nat
  BY <1>1, AppendProperties, LenProperties
<1>3. /\ cells' = [cells EXCEPT ![l] = Append(cells[l], op)]
      /\ cells' \in [Lanes -> Seq(Operations)]
  BY <1>1, <1>2 DEF Reserve
<1>4. ready' \in [Operations -> Signal]
  BY <1>1, ReserveReadyProperties DEF Reserve
<1>5. durable_accepted' \subseteq Operations /\ accepted_operations' \in Nat
  BY DEF Reserve, RuntimeTypeOK
<1>6. DOMAIN Append(cells[l], op) = 1..(Len(cells[l]) + 1) /\ DOMAIN cells[l] = 1..Len(cells[l])
  BY <1>1, <1>2, LenProperties
<1>7. Has(l, {op})'
  <2>1. cells'[l] = Append(cells[l], op)
    BY <1>1, <1>3
  <2>2. Len(cells[l]) + 1 \in DOMAIN Append(cells[l], op)
    BY <1>2, <1>6
  <2> QED
    BY <1>2, <2>1, <2>2 DEF Has
<1>8. ASSUME NEW k \in Lanes, NEW o \in Operations, Has(k, {o})
      PROVE  Has(k, {o})'
  <2>1. CASE k # l
    BY <1>1, <1>3, <1>8, <2>1 DEF Has
  <2>2. CASE k = l
    <3>1. PICK i \in DOMAIN cells[l] : cells[l][i] = o
      BY <1>8, <2>2 DEF Has
    <3>2. i \in DOMAIN Append(cells[l], op) /\ Append(cells[l], op)[i] = o
      BY <1>2, <1>6, <3>1
    <3>3. cells'[l] = Append(cells[l], op)
      BY <1>1, <1>3
    <3> QED
      BY <2>2, <3>2, <3>3 DEF Has
  <2> QED
    BY <2>1, <2>2
<1> QED
  BY <1>3, <1>4, <1>5, <1>7, <1>8

\* ThreadCell::release keeps the types and takes nothing but its operation out of
\* its lane.
LEMMA ReleaseTyped ==
    ASSUME RuntimeTypeOK, NEW l \in Lanes, NEW op \in Operations, Release(l, op)
    PROVE  /\ cells' \in [Lanes -> Seq(Operations)]
           /\ ready' \in [Operations -> Signal]
           /\ accepted_operations' \in Nat
           /\ \A k \in Lanes, o \in Operations \ {op} : Has(k, {o}) => Has(k, {o})'
<1>1. /\ cells \in [Lanes -> Seq(Operations)]
      /\ ready \in [Operations -> Signal]
      /\ cells[l] \in Seq(Operations)
  BY DEF RuntimeTypeOK
<1> DEFINE left == RemoveFirst(cells[l], op)
<1>2. /\ left \in Seq(Operations)
      /\ \A i \in 1..Len(cells[l]) : cells[l][i] # op =>
            \E j \in 1..Len(left) : left[j] = cells[l][i]
  BY <1>1, RemoveFirstKeeps
<1>3. cells' = [cells EXCEPT ![l] = left]
  BY DEF Release
<1> HIDE DEF left
<1>4. cells' \in [Lanes -> Seq(Operations)]
  BY <1>1, <1>2, <1>3
<1>5. ready' \in [Operations -> Signal]
  BY <1>1, ReleaseReadyProperties DEF Release
<1>6. accepted_operations' \in Nat
  BY DEF Release, SaturatingPred, RuntimeTypeOK
<1>7. ASSUME NEW k \in Lanes, NEW o \in Operations \ {op}, Has(k, {o})
      PROVE  Has(k, {o})'
  <2>1. CASE k # l
    BY <1>1, <1>3, <1>7, <2>1 DEF Has
  <2>2. CASE k = l
    <3>1. PICK i \in DOMAIN cells[l] : cells[l][i] = o
      BY <1>7, <2>2 DEF Has
    <3>2. DOMAIN cells[l] = 1..Len(cells[l]) /\ DOMAIN left = 1..Len(left)
      BY <1>1, <1>2, LenProperties
    <3>3. \E j \in DOMAIN left : left[j] = o
      BY <1>2, <3>1, <3>2
    <3>4. cells'[l] = left
      BY <1>1, <1>3
    <3> QED
      BY <2>2, <3>3, <3>4 DEF Has
  <2> QED
    BY <2>1, <2>2
<1> QED
  BY <1>4, <1>5, <1>6, <1>7

=============================================================================
