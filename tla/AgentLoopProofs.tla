--------------------------- MODULE AgentLoopProofs ---------------------------
(***************************************************************************)
(* Lemmas about the control input and the agent loop, for every module     *)
(* that composes loops: the buffer counts exactly what it holds, and a     *)
(* loop that ends Normal owes nothing.                                     *)
(***************************************************************************)
EXTENDS AgentLoop, SequenceTheorems, FiniteSetTheorems, TLAPS

-----------------------------------------------------------------------------
(* message_payload_bytes of a queue *)

LongPlaces(s) == {i \in DOMAIN s : s[i] \in Long}

LEMMA PlacesFinite ==
    ASSUME NEW M, NEW s \in Seq(M)
    PROVE  /\ IsFiniteSet(LongPlaces(s)) /\ Cardinality(LongPlaces(s)) \in Nat
           /\ LongPlaces(s) \subseteq 1..Len(s) /\ Len(s) \in Nat
           /\ TotalBytes(s) = Len(s) + Cardinality(LongPlaces(s))
<1>1. Len(s) \in Nat /\ DOMAIN s = 1..Len(s)
  BY LenProperties
<1>2. IsFiniteSet(1..Len(s))
  BY <1>1, FS_Interval
<1>3. LongPlaces(s) \subseteq 1..Len(s)
  BY <1>1 DEF LongPlaces
<1>4. IsFiniteSet(LongPlaces(s))
  BY <1>2, <1>3, FS_Subset
<1>5. Cardinality(LongPlaces(s)) \in Nat
  BY <1>4, FS_CardinalityType
<1> QED
  BY <1>1, <1>3, <1>4, <1>5 DEF TotalBytes, LongPlaces

LEMMA BytesPositive == \A m : Bytes(m) \in 1..2
BY DEF Bytes

LEMMA TotalNatural ==
    ASSUME NEW M, NEW s \in Seq(M)
    PROVE  TotalBytes(s) \in Nat /\ Len(s) \in Nat
BY PlacesFinite

LEMMA TotalEmpty == TotalBytes(<<>>) = 0
<1>1. LongPlaces(<<>>) = {}
  BY DEF LongPlaces
<1>2. <<>> \in Seq({}) /\ Len(<<>>) = 0
  BY EmptySeq
<1>3. TotalBytes(<<>>) = Len(<<>>) + Cardinality(LongPlaces(<<>>))
  BY DEF TotalBytes, LongPlaces
<1>4. Cardinality({}) = 0
  BY FS_EmptySet
<1> QED
  BY <1>1, <1>2, <1>3, <1>4

LEMMA TotalOne ==
    ASSUME NEW M, NEW m \in M
    PROVE  TotalBytes(<<m>>) = Bytes(m) /\ <<m>> \in Seq(M) /\ Len(<<m>>) = 1
<1>1. <<m>> \in Seq(M) /\ Len(<<m>>) = 1 /\ <<m>>[1] = m /\ DOMAIN <<m>> = 1..1
  OBVIOUS
<1>0. TotalBytes(<<m>>) = 1 + Cardinality(LongPlaces(<<m>>))
  BY <1>1 DEF TotalBytes, LongPlaces
<1>2. CASE m \in Long
  <2>1. LongPlaces(<<m>>) = {1}
    BY <1>1, <1>2 DEF LongPlaces
  <2>2. Cardinality({1}) = 1
    BY FS_Singleton
  <2> QED
    BY <1>0, <1>1, <1>2, <2>1, <2>2 DEF Bytes
<1>3. CASE m \notin Long
  <2>1. LongPlaces(<<m>>) = {}
    BY <1>1, <1>3 DEF LongPlaces
  <2>2. Cardinality({}) = 0
    BY FS_EmptySet
  <2> QED
    BY <1>0, <1>1, <1>3, <2>1, <2>2 DEF Bytes
<1> QED
  BY <1>2, <1>3

\* The bytes of two queues one behind the other are the bytes of both.
LEMMA TotalConcat ==
    ASSUME NEW M, NEW s \in Seq(M), NEW t \in Seq(M)
    PROVE  TotalBytes(s \o t) = TotalBytes(s) + TotalBytes(t)
<1> DEFINE shift == [i \in LongPlaces(t) |-> Len(s) + i]
           moved == {Len(s) + i : i \in LongPlaces(t)}
<1>1. /\ s \o t \in Seq(M) /\ Len(s \o t) = Len(s) + Len(t)
      /\ \A i \in 1..(Len(s) + Len(t)) : (s \o t)[i] = IF i <= Len(s) THEN s[i] ELSE t[i - Len(s)]
  BY ConcatProperties
<1>2. /\ Len(s) \in Nat /\ DOMAIN s = 1..Len(s) /\ Len(t) \in Nat /\ DOMAIN t = 1..Len(t)
      /\ DOMAIN (s \o t) = 1..(Len(s) + Len(t))
  BY <1>1, LenProperties
<1>3. LongPlaces(s \o t) = LongPlaces(s) \cup moved
  <2>1. ASSUME NEW i \in LongPlaces(s \o t) PROVE i \in LongPlaces(s) \cup moved
    <3>1. i \in 1..(Len(s) + Len(t)) /\ (s \o t)[i] \in Long
      BY <1>2, <2>1 DEF LongPlaces
    <3>2. CASE i <= Len(s)
      BY <1>1, <1>2, <3>1, <3>2 DEF LongPlaces
    <3>3. CASE i > Len(s)
      <4>1. i - Len(s) \in 1..Len(t) /\ t[i - Len(s)] \in Long
        BY <1>1, <1>2, <3>1, <3>3
      <4>2. i - Len(s) \in LongPlaces(t) /\ i = Len(s) + (i - Len(s))
        BY <1>2, <3>1, <4>1 DEF LongPlaces
      <4> QED
        BY <4>2
    <3> QED
      BY <1>2, <3>1, <3>2, <3>3
  <2>2. ASSUME NEW i \in LongPlaces(s) PROVE i \in LongPlaces(s \o t)
    BY <1>1, <1>2 DEF LongPlaces
  <2>3. ASSUME NEW i \in LongPlaces(t) PROVE Len(s) + i \in LongPlaces(s \o t)
    <3>1. i \in 1..Len(t) /\ t[i] \in Long
      BY <1>2 DEF LongPlaces
    <3>2. Len(s) + i \in 1..(Len(s) + Len(t)) /\ ~(Len(s) + i <= Len(s)) /\ Len(s) + i - Len(s) = i
      BY <1>2, <3>1
    <3>3. (s \o t)[Len(s) + i] = t[i]
      <4> DEFINE j == Len(s) + i
      <4>1. j \in 1..(Len(s) + Len(t)) /\ ~(j <= Len(s)) /\ j - Len(s) = i
        BY <1>2, <3>1
      <4> HIDE DEF j
      <4>2. (s \o t)[j] = t[j - Len(s)]
        BY <1>1, <4>1
      <4> QED
        BY <4>1, <4>2 DEF j
    <3> QED
      BY <1>2, <3>1, <3>2, <3>3 DEF LongPlaces
  <2> QED
    BY <2>1, <2>2, <2>3
<1>4. /\ IsFiniteSet(LongPlaces(s)) /\ IsFiniteSet(LongPlaces(t))
      /\ LongPlaces(s) \subseteq 1..Len(s) /\ LongPlaces(t) \subseteq 1..Len(t)
      /\ Cardinality(LongPlaces(s)) \in Nat /\ Cardinality(LongPlaces(t)) \in Nat
  BY PlacesFinite
<1>5. IsFiniteSet(moved) /\ Cardinality(moved) = Cardinality(LongPlaces(t))
  <2>1. shift \in [LongPlaces(t) -> moved]
    OBVIOUS
  <2>2. \A a, b \in LongPlaces(t) : shift[a] = shift[b] => a = b
    BY <1>2, <1>4
  <2>3. \A n \in moved : \E a \in LongPlaces(t) : shift[a] = n
    OBVIOUS
  <2>4. shift \in Bijection(LongPlaces(t), moved)
    BY <2>1, <2>2, <2>3 DEF Bijection, Injection, Surjection, IsInjective
  <2>5. ExistsBijection(LongPlaces(t), moved)
    BY <2>4 DEF ExistsBijection
  <2> QED
    BY <1>4, <2>5, FS_Bijection
<1>6. LongPlaces(s) \cap moved = {}
  BY <1>2, <1>4
<1>7. Cardinality(LongPlaces(s) \cup moved) = Cardinality(LongPlaces(s)) + Cardinality(moved)
  <2> HIDE DEF moved
  <2>1. Cardinality(LongPlaces(s) \cup moved) =
            Cardinality(LongPlaces(s)) + Cardinality(moved) - Cardinality(LongPlaces(s) \cap moved)
    BY <1>4, <1>5, FS_Union
  <2>2. Cardinality(LongPlaces(s) \cap moved) = 0
    BY <1>6, FS_EmptySet
  <2> QED
    BY <1>4, <1>5, <2>1, <2>2
<1>8. /\ TotalBytes(s) = Len(s) + Cardinality(LongPlaces(s))
      /\ TotalBytes(t) = Len(t) + Cardinality(LongPlaces(t))
      /\ TotalBytes(s \o t) = Len(s \o t) + Cardinality(LongPlaces(s \o t))
  BY <1>1, PlacesFinite
<1> HIDE DEF moved
<1> QED
  BY <1>1, <1>2, <1>3, <1>4, <1>5, <1>7, <1>8

\* Replacing one message changes the bytes by the difference of the two.
LEMMA TotalReplace ==
    ASSUME NEW M, NEW s \in Seq(M), NEW k \in 1..Len(s), NEW m \in M
    PROVE  /\ [s EXCEPT ![k] = m] \in Seq(M) /\ Len([s EXCEPT ![k] = m]) = Len(s)
           /\ TotalBytes([s EXCEPT ![k] = m]) = TotalBytes(s) - Bytes(s[k]) + Bytes(m)
           /\ Bytes(s[k]) <= TotalBytes(s)
<1> DEFINE t == [s EXCEPT ![k] = m]
<1>1. /\ t \in Seq(M) /\ Len(t) = Len(s)
      /\ \A j \in 1..Len(s) : t[j] = IF j = k THEN m ELSE s[j]
  BY ExceptSeq
<1>2. DOMAIN s = 1..Len(s) /\ DOMAIN t = 1..Len(s) /\ Len(s) \in Nat
  BY <1>1, LenProperties
<1> HIDE DEF t
<1>3. LongPlaces(t) \ {k} = LongPlaces(s) \ {k}
  BY <1>1, <1>2 DEF LongPlaces
<1>4. k \in LongPlaces(s) <=> s[k] \in Long
  BY <1>2 DEF LongPlaces
<1>5. k \in LongPlaces(t) <=> m \in Long
  BY <1>1, <1>2 DEF LongPlaces
<1>6. /\ IsFiniteSet(LongPlaces(s)) /\ IsFiniteSet(LongPlaces(t))
      /\ Cardinality(LongPlaces(s)) \in Nat /\ Cardinality(LongPlaces(t)) \in Nat
      /\ TotalBytes(s) = Len(s) + Cardinality(LongPlaces(s))
      /\ TotalBytes(t) = Len(s) + Cardinality(LongPlaces(t))
  BY <1>1, PlacesFinite
<1>7. /\ Cardinality(LongPlaces(s) \ {k}) =
            IF k \in LongPlaces(s) THEN Cardinality(LongPlaces(s)) - 1 ELSE Cardinality(LongPlaces(s))
      /\ Cardinality(LongPlaces(t) \ {k}) =
            IF k \in LongPlaces(t) THEN Cardinality(LongPlaces(t)) - 1 ELSE Cardinality(LongPlaces(t))
      /\ Cardinality(LongPlaces(s) \ {k}) \in Nat
  BY <1>6, FS_RemoveElement, FS_CardinalityType
<1>8. /\ Bytes(s[k]) = IF k \in LongPlaces(s) THEN 2 ELSE 1
      /\ Bytes(m) = IF k \in LongPlaces(t) THEN 2 ELSE 1
  BY <1>4, <1>5 DEF Bytes
<1>9. TotalBytes(t) = TotalBytes(s) - Bytes(s[k]) + Bytes(m) /\ Bytes(s[k]) <= TotalBytes(s)
  <2> DEFINE n == Len(s)
             cs == Cardinality(LongPlaces(s))
             ct == Cardinality(LongPlaces(t))
             rest == Cardinality(LongPlaces(s) \ {k})
  <2>1. /\ n \in Nat /\ n >= 1 /\ cs \in Nat /\ ct \in Nat /\ rest \in Nat
        /\ TotalBytes(s) = n + cs /\ TotalBytes(t) = n + ct
    BY <1>2, <1>6, <1>7
  <2>2. rest = IF k \in LongPlaces(s) THEN cs - 1 ELSE cs
    BY <1>7
  <2>3. rest = IF k \in LongPlaces(t) THEN ct - 1 ELSE ct
    BY <1>3, <1>7
  <2> HIDE DEF n, cs, ct, rest
  <2> QED
    BY <2>1, <2>2, <2>3, <1>8
<1> QED
  BY <1>1, <1>9 DEF t

\* Removing one message takes its bytes.
LEMMA TotalRemove ==
    ASSUME NEW M, NEW s \in Seq(M), NEW k \in 1..Len(s)
    PROVE  /\ RemoveAt(s, k) \in Seq(M) /\ Len(RemoveAt(s, k)) = Len(s) - 1
           /\ \A j \in 1..(Len(s) - 1) : RemoveAt(s, k)[j] = IF j < k THEN s[j] ELSE s[j + 1]
           /\ TotalBytes(RemoveAt(s, k)) = TotalBytes(s) - Bytes(s[k])
<1> DEFINE front == SubSeq(s, 1, k - 1)
           back == SubSeq(s, k + 1, Len(s))
<1>1. Len(s) \in Nat /\ k \in Nat /\ 1 <= k /\ k <= Len(s) /\ \A i \in 1..Len(s) : s[i] \in M
  BY LenProperties, ElementOfSeq
<1>2. /\ front \in Seq(M) /\ Len(front) = k - 1 /\ \A i \in 1..(k - 1) : front[i] = s[i]
  <2>1. \A i \in 1..(k - 1) : s[i] \in M
    BY <1>1
  <2> QED
    BY <1>1, <2>1, SubSeqProperties
<1>3. /\ back \in Seq(M) /\ Len(back) = Len(s) - k
      /\ \A i \in 1..(Len(s) - k) : back[i] = s[k + i]
  <2>1. \A i \in (k + 1)..Len(s) : s[i] \in M
    BY <1>1
  <2> QED
    BY <1>1, <2>1, SubSeqProperties
<1> HIDE DEF front, back
<1>4. /\ front \o back \in Seq(M) /\ Len(front \o back) = Len(s) - 1
      /\ \A i \in 1..(Len(s) - 1) : (front \o back)[i] = IF i < k THEN s[i] ELSE s[i + 1]
  <2>1. /\ front \o back \in Seq(M) /\ Len(front \o back) = Len(front) + Len(back)
        /\ \A i \in 1..(Len(front) + Len(back)) : (front \o back)[i] =
              IF i <= Len(front) THEN front[i] ELSE back[i - Len(front)]
    BY <1>2, <1>3, ConcatProperties
  <2>2. Len(front) = k - 1 /\ Len(front) + Len(back) = Len(s) - 1
    BY <1>1, <1>2, <1>3
  <2>3. ASSUME NEW i \in 1..(Len(s) - 1), i < k
        PROVE  (front \o back)[i] = s[i]
    <3>1. i <= k - 1 /\ i \in 1..(k - 1)
      BY <1>1, <2>3
    <3> QED
      BY <1>2, <2>1, <2>2, <3>1
  <2>4. ASSUME NEW i \in 1..(Len(s) - 1), ~(i < k)
        PROVE  (front \o back)[i] = s[i + 1]
    <3>1. ~(i <= k - 1) /\ i - (k - 1) \in 1..(Len(s) - k) /\ k + (i - (k - 1)) = i + 1
      BY <1>1, <2>4
    <3>2. (front \o back)[i] = back[i - (k - 1)]
      BY <2>1, <2>2, <3>1
    <3>3. back[i - (k - 1)] = s[k + (i - (k - 1))]
      BY <1>3, <3>1
    <3> QED
      BY <3>1, <3>2, <3>3
  <2> QED
    BY <2>1, <2>2, <2>3, <2>4
<1>5. <<s[k]>> \in Seq(M) /\ Len(<<s[k]>>) = 1 /\ TotalBytes(<<s[k]>>) = Bytes(s[k])
  BY <1>1, TotalOne
<1>6. /\ front \o <<s[k]>> \in Seq(M) /\ Len(front \o <<s[k]>>) = k
      /\ \A i \in 1..k : (front \o <<s[k]>>)[i] = s[i]
  BY <1>1, <1>2, <1>5, ConcatProperties
<1>7. s = (front \o <<s[k]>>) \o back
  <2>1. /\ (front \o <<s[k]>>) \o back \in Seq(M)
        /\ Len((front \o <<s[k]>>) \o back) = Len(s)
        /\ \A i \in 1..Len(s) : ((front \o <<s[k]>>) \o back)[i] = s[i]
    <3> DEFINE f == front \o <<s[k]>>
    <3>1. f \in Seq(M) /\ Len(f) = k /\ \A i \in 1..k : f[i] = s[i]
      BY <1>6
    <3> HIDE DEF f
    <3>2. /\ f \o back \in Seq(M) /\ Len(f \o back) = Len(f) + Len(back)
          /\ \A i \in 1..(Len(f) + Len(back)) : (f \o back)[i] =
                IF i <= Len(f) THEN f[i] ELSE back[i - Len(f)]
      BY <1>3, <3>1, ConcatProperties
    <3>3. Len(f) = k /\ Len(f) + Len(back) = Len(s)
      BY <1>1, <1>3, <3>1
    <3>4. ASSUME NEW i \in 1..Len(s) PROVE (f \o back)[i] = s[i]
      <4>1. CASE i <= k
        BY <1>1, <3>1, <3>2, <3>3, <4>1
      <4>2. CASE ~(i <= k)
        <5>1. i - k \in 1..(Len(s) - k) /\ k + (i - k) = i
          BY <1>1, <4>2
        <5> QED
          BY <1>1, <1>3, <3>2, <3>3, <4>2, <5>1
      <4> QED
        BY <4>1, <4>2
    <3> QED
      BY <3>2, <3>3, <3>4 DEF f
  <2> QED
    BY <2>1, SeqEqual
<1>8. /\ TotalBytes(s) = TotalBytes(front) + Bytes(s[k]) + TotalBytes(back)
      /\ TotalBytes(front \o back) = TotalBytes(front) + TotalBytes(back)
  <2>1. TotalBytes((front \o <<s[k]>>) \o back) = TotalBytes(front \o <<s[k]>>) + TotalBytes(back)
    BY <1>3, <1>6, TotalConcat
  <2>2. TotalBytes(front \o <<s[k]>>) = TotalBytes(front) + TotalBytes(<<s[k]>>)
    BY <1>2, <1>5, TotalConcat
  <2>3. TotalBytes(front \o back) = TotalBytes(front) + TotalBytes(back)
    BY <1>2, <1>3, TotalConcat
  <2> QED
    BY <1>5, <1>7, <2>1, <2>2, <2>3
<1>9. /\ TotalBytes(front) \in Nat /\ TotalBytes(back) \in Nat /\ Bytes(s[k]) \in 1..2
  BY <1>2, <1>3, TotalNatural, BytesPositive
<1>10. RemoveAt(s, k) = front \o back
  BY DEF front, back, RemoveAt
<1>11. TotalBytes(front \o back) = TotalBytes(s) - Bytes(s[k])
  BY <1>8, <1>9
<1> QED
  BY <1>4, <1>10, <1>11

-----------------------------------------------------------------------------
(* ControlInputBuffer *)

\* The buffers whose messages are in M.
Steered(M) == [id : Nat, message : M]
Buffers(M) ==
    [closed : BOOLEAN, next_id : Nat, injected : Seq(M), steered : Seq(Steered(M)),
     accepted_items : Nat, accepted_bytes : Nat]

LEMMA BufferFields ==
    ASSUME NEW M, NEW b \in Buffers(M)
    PROVE  /\ b.closed \in BOOLEAN /\ b.next_id \in Nat
           /\ b.injected \in Seq(M) /\ b.steered \in Seq(Steered(M))
           /\ b.accepted_items \in Nat /\ b.accepted_bytes \in Nat
BY DEF Buffers

\* The texts of a queue of steered messages.
Texts(q) == [i \in DOMAIN q |-> q[i].message]

LEMMA TextsOf ==
    ASSUME NEW M, NEW q \in Seq(Steered(M))
    PROVE  /\ Texts(q) \in Seq(M) /\ Len(Texts(q)) = Len(q)
           /\ DOMAIN q = 1..Len(q) /\ Len(q) \in Nat
           /\ \A i \in 1..Len(q) : Texts(q)[i] = q[i].message /\ q[i] \in Steered(M)
<1>1. Len(q) \in Nat /\ DOMAIN q = 1..Len(q) /\ q \in [1..Len(q) -> Steered(M)]
  BY LenProperties
<1>2. \A i \in 1..Len(q) : q[i].message \in M
  BY <1>1 DEF Steered
<1>3. Texts(q) \in [1..Len(q) -> M]
  BY <1>1, <1>2 DEF Texts
<1>4. Texts(q) \in Seq(M)
  BY <1>1, <1>3, SeqDef
<1>5. Len(Texts(q)) = Len(q)
  <2>1. DOMAIN Texts(q) = 1..Len(q) /\ DOMAIN Texts(q) = 1..Len(Texts(q)) /\ Len(Texts(q)) \in Nat
    BY <1>3, <1>4, LenProperties
  <2> QED
    BY <1>1, <2>1
<1> QED
  BY <1>1, <1>4, <1>5 DEF Texts

LEMMA TextsEmpty == Texts(<<>>) = <<>>
<1>1. <<>> \in Seq(Steered({}))
  BY EmptySeq
<1>2. Texts(<<>>) \in Seq({}) /\ Len(Texts(<<>>)) = 0
  BY <1>1, TextsOf, EmptySeq
<1> QED
  BY <1>2, EmptySeq

LEMMA TextsAppend ==
    ASSUME NEW M, NEW q \in Seq(Steered(M)), NEW e \in Steered(M)
    PROVE  /\ Append(q, e) \in Seq(Steered(M))
           /\ Texts(Append(q, e)) = Texts(q) \o <<e.message>> /\ e.message \in M
<1>0. e.message \in M
  BY DEF Steered
<1>1. /\ Append(q, e) \in Seq(Steered(M)) /\ Len(Append(q, e)) = Len(q) + 1
      /\ \A i \in 1..Len(q) : Append(q, e)[i] = q[i]
      /\ Append(q, e)[Len(q) + 1] = e
  BY AppendProperties
<1>2. /\ Texts(q) \in Seq(M) /\ Len(Texts(q)) = Len(q) /\ Len(q) \in Nat
      /\ \A i \in 1..Len(q) : Texts(q)[i] = q[i].message
  BY TextsOf
<1>3. /\ Texts(Append(q, e)) \in Seq(M) /\ Len(Texts(Append(q, e))) = Len(q) + 1
      /\ \A i \in 1..(Len(q) + 1) : Texts(Append(q, e))[i] = Append(q, e)[i].message
  BY <1>1, TextsOf
<1>4. /\ Append(Texts(q), e.message) \in Seq(M)
      /\ Len(Append(Texts(q), e.message)) = Len(q) + 1
      /\ \A i \in 1..Len(q) : Append(Texts(q), e.message)[i] = Texts(q)[i]
      /\ Append(Texts(q), e.message)[Len(q) + 1] = e.message
  BY <1>0, <1>2, AppendProperties
<1>5. \A i \in 1..(Len(q) + 1) : Texts(Append(q, e))[i] = Append(Texts(q), e.message)[i]
  <2>1. \A i \in 1..(Len(q) + 1) : i \in 1..Len(q) \/ i = Len(q) + 1
    BY <1>2
  <2> QED
    BY <1>1, <1>2, <1>3, <1>4, <2>1
<1>6. Texts(Append(q, e)) = Append(Texts(q), e.message)
  BY <1>3, <1>4, <1>5, SeqEqual
<1> QED
  BY <1>0, <1>1, <1>2, <1>6, AppendIsConcat

LEMMA TextsReplace ==
    ASSUME NEW M, NEW q \in Seq(Steered(M)), NEW k \in 1..Len(q), NEW m \in M
    PROVE  /\ [q EXCEPT ![k].message = m] \in Seq(Steered(M))
           /\ Len([q EXCEPT ![k].message = m]) = Len(q)
           /\ Texts([q EXCEPT ![k].message = m]) = [Texts(q) EXCEPT ![k] = m]
<1> DEFINE e == [q[k] EXCEPT !.message = m]
           r == [q EXCEPT ![k] = e]
<1>1. q[k] \in Steered(M)
  BY ElementOfSeq
<1>2. e \in Steered(M) /\ e.message = m
  BY <1>1 DEF Steered
<1>3. r = [q EXCEPT ![k].message = m]
  OBVIOUS
<1> HIDE DEF e
<1>4. /\ r \in Seq(Steered(M)) /\ Len(r) = Len(q)
      /\ \A j \in 1..Len(q) : r[j] = IF j = k THEN e ELSE q[j]
  BY <1>2, ExceptSeq
<1> HIDE DEF r
<1>5. /\ Texts(q) \in Seq(M) /\ Len(Texts(q)) = Len(q)
      /\ \A i \in 1..Len(q) : Texts(q)[i] = q[i].message
  BY TextsOf
<1>6. /\ Texts(r) \in Seq(M) /\ Len(Texts(r)) = Len(q)
      /\ \A i \in 1..Len(q) : Texts(r)[i] = r[i].message
  BY <1>4, TextsOf
<1>7. /\ [Texts(q) EXCEPT ![k] = m] \in Seq(M) /\ Len([Texts(q) EXCEPT ![k] = m]) = Len(q)
      /\ \A j \in 1..Len(q) : [Texts(q) EXCEPT ![k] = m][j] = IF j = k THEN m ELSE Texts(q)[j]
  BY <1>5, ExceptSeq
<1>8. \A j \in 1..Len(q) : Texts(r)[j] = [Texts(q) EXCEPT ![k] = m][j]
  BY <1>2, <1>4, <1>5, <1>6, <1>7
<1>9. Texts(r) = [Texts(q) EXCEPT ![k] = m]
  BY <1>6, <1>7, <1>8, SeqEqual
<1> QED
  BY <1>3, <1>4, <1>9

LEMMA TextsRemove ==
    ASSUME NEW M, NEW q \in Seq(Steered(M)), NEW k \in 1..Len(q)
    PROVE  /\ RemoveAt(q, k) \in Seq(Steered(M)) /\ Len(RemoveAt(q, k)) = Len(q) - 1
           /\ Texts(RemoveAt(q, k)) = RemoveAt(Texts(q), k)
<1>1. /\ RemoveAt(q, k) \in Seq(Steered(M)) /\ Len(RemoveAt(q, k)) = Len(q) - 1
      /\ \A j \in 1..(Len(q) - 1) : RemoveAt(q, k)[j] = IF j < k THEN q[j] ELSE q[j + 1]
  BY TotalRemove
<1>2. /\ Texts(q) \in Seq(M) /\ Len(Texts(q)) = Len(q) /\ Len(q) \in Nat
      /\ \A i \in 1..Len(q) : Texts(q)[i] = q[i].message
  BY TextsOf
<1>3. /\ RemoveAt(Texts(q), k) \in Seq(M) /\ Len(RemoveAt(Texts(q), k)) = Len(q) - 1
      /\ \A j \in 1..(Len(q) - 1) :
            RemoveAt(Texts(q), k)[j] = IF j < k THEN Texts(q)[j] ELSE Texts(q)[j + 1]
  BY <1>2, TotalRemove
<1>4. /\ Texts(RemoveAt(q, k)) \in Seq(M) /\ Len(Texts(RemoveAt(q, k))) = Len(q) - 1
      /\ \A i \in 1..(Len(q) - 1) : Texts(RemoveAt(q, k))[i] = RemoveAt(q, k)[i].message
  BY <1>1, TextsOf
<1>5. \A j \in 1..(Len(q) - 1) : Texts(RemoveAt(q, k))[j] = RemoveAt(Texts(q), k)[j]
  <2>1. \A j \in 1..(Len(q) - 1) : j \in 1..Len(q) /\ j + 1 \in 1..Len(q)
    BY <1>2
  <2> QED
    BY <1>1, <1>2, <1>3, <1>4, <2>1
<1> QED
  BY <1>1, <1>3, <1>4, <1>5, SeqEqual

LEMMA BufferedOf ==
    ASSUME NEW M, NEW b \in Buffers(M)
    PROVE  /\ SteeredMessages(b) = Texts(b.steered)
           /\ Buffered(b) = ToSet(b.injected) \cup ToSet(Texts(b.steered))
BY DEF SteeredMessages, Texts, Buffered

LEMMA ToSetOf ==
    ASSUME NEW M, NEW s \in Seq(M)
    PROVE  /\ \A x : x \in ToSet(s) <=> \E i \in 1..Len(s) : x = s[i]
           /\ ToSet(s) \subseteq M
           /\ s = <<>> <=> ToSet(s) = {}
<1>1. Len(s) \in Nat /\ DOMAIN s = 1..Len(s) /\ \A i \in 1..Len(s) : s[i] \in M
  BY LenProperties, ElementOfSeq
<1>2. \A x : x \in ToSet(s) <=> \E i \in 1..Len(s) : x = s[i]
  BY <1>1 DEF ToSet
<1>3. s # <<>> => Len(s) # 0
  BY EmptySeq
<1>4. s # <<>> => s[1] \in ToSet(s)
  BY <1>1, <1>2, <1>3
<1>5. s = <<>> => Len(s) = 0
  BY EmptySeq
<1>6. s = <<>> => ToSet(s) = {}
  BY <1>2, <1>5
<1> QED
  BY <1>1, <1>2, <1>4, <1>6

LEMMA ToSetConcat ==
    ASSUME NEW M, NEW s \in Seq(M), NEW t \in Seq(M)
    PROVE  ToSet(s \o t) = ToSet(s) \cup ToSet(t)
<1>1. /\ s \o t \in Seq(M) /\ Len(s \o t) = Len(s) + Len(t)
      /\ \A i \in 1..(Len(s) + Len(t)) : (s \o t)[i] = IF i <= Len(s) THEN s[i] ELSE t[i - Len(s)]
  BY ConcatProperties
<1>2. Len(s) \in Nat /\ Len(t) \in Nat
  BY LenProperties
<1>3. /\ \A x : x \in ToSet(s \o t) <=> \E i \in 1..(Len(s) + Len(t)) : x = (s \o t)[i]
      /\ \A x : x \in ToSet(s) <=> \E i \in 1..Len(s) : x = s[i]
      /\ \A x : x \in ToSet(t) <=> \E i \in 1..Len(t) : x = t[i]
  <2>1. \A x : x \in ToSet(s) <=> \E i \in 1..Len(s) : x = s[i]
    BY ToSetOf
  <2>2. \A x : x \in ToSet(t) <=> \E i \in 1..Len(t) : x = t[i]
    BY ToSetOf
  <2>3. \A x : x \in ToSet(s \o t) <=> \E i \in 1..(Len(s) + Len(t)) : x = (s \o t)[i]
    <3> DEFINE u == s \o t
    <3>1. u \in Seq(M) /\ Len(u) = Len(s) + Len(t)
      BY <1>1
    <3> HIDE DEF u
    <3>2. \A x : x \in ToSet(u) <=> \E i \in 1..Len(u) : x = u[i]
      BY <3>1, ToSetOf
    <3> QED
      BY <3>1, <3>2 DEF u
  <2> QED
    BY <2>1, <2>2, <2>3
<1>4. \A i \in 1..(Len(s) + Len(t)) : (s \o t)[i] \in ToSet(s) \cup ToSet(t)
  <2> TAKE i \in 1..(Len(s) + Len(t))
  <2>1. CASE i <= Len(s)
    BY <1>1, <1>2, <1>3, <2>1
  <2>2. CASE ~(i <= Len(s))
    <3>1. i - Len(s) \in 1..Len(t)
      BY <1>2, <2>2
    <3> QED
      BY <1>1, <1>3, <2>2, <3>1
  <2> QED
    BY <2>1, <2>2
<1>5. \A i \in 1..Len(s) : s[i] \in ToSet(s \o t)
  <2> TAKE i \in 1..Len(s)
  <2>1. i \in 1..(Len(s) + Len(t)) /\ i <= Len(s)
    BY <1>2
  <2> QED
    BY <1>1, <1>3, <2>1
<1>6. \A i \in 1..Len(t) : t[i] \in ToSet(s \o t)
  <2> TAKE i \in 1..Len(t)
  <2> DEFINE j == Len(s) + i
  <2>1. j \in 1..(Len(s) + Len(t)) /\ ~(j <= Len(s)) /\ j - Len(s) = i
    BY <1>2
  <2> HIDE DEF j
  <2>2. (s \o t)[j] = t[i]
    BY <1>1, <2>1
  <2> QED
    BY <1>3, <2>1, <2>2
<1> QED
  BY <1>3, <1>4, <1>5, <1>6

LEMMA ToSetReplace ==
    ASSUME NEW M, NEW s \in Seq(M), NEW k \in 1..Len(s), NEW m \in M
    PROVE  /\ ToSet(s) \ {s[k]} \subseteq ToSet([s EXCEPT ![k] = m])
           /\ ToSet([s EXCEPT ![k] = m]) \subseteq ToSet(s) \cup {m}
           /\ m \in ToSet([s EXCEPT ![k] = m])
<1>1. /\ [s EXCEPT ![k] = m] \in Seq(M) /\ Len([s EXCEPT ![k] = m]) = Len(s)
      /\ \A j \in 1..Len(s) : [s EXCEPT ![k] = m][j] = IF j = k THEN m ELSE s[j]
  BY ExceptSeq
<1> DEFINE t == [s EXCEPT ![k] = m]
<1>2. /\ \A x : x \in ToSet(t) <=> \E i \in 1..Len(s) : x = t[i]
      /\ \A x : x \in ToSet(s) <=> \E i \in 1..Len(s) : x = s[i]
  BY <1>1, ToSetOf
<1>3. \A j \in 1..Len(s) : t[j] = IF j = k THEN m ELSE s[j]
  BY <1>1
<1> HIDE DEF t
<1>4. ToSet(s) \ {s[k]} \subseteq ToSet(t) /\ ToSet(t) \subseteq ToSet(s) \cup {m} /\ m \in ToSet(t)
  BY <1>2, <1>3
<1> QED
  BY <1>4 DEF t

LEMMA ToSetRemove ==
    ASSUME NEW M, NEW s \in Seq(M), NEW k \in 1..Len(s)
    PROVE  /\ ToSet(s) \ {s[k]} \subseteq ToSet(RemoveAt(s, k))
           /\ ToSet(RemoveAt(s, k)) \subseteq ToSet(s)
<1>1. /\ RemoveAt(s, k) \in Seq(M) /\ Len(RemoveAt(s, k)) = Len(s) - 1
      /\ \A j \in 1..(Len(s) - 1) : RemoveAt(s, k)[j] = IF j < k THEN s[j] ELSE s[j + 1]
  BY TotalRemove
<1>2. /\ \A x : x \in ToSet(RemoveAt(s, k)) <=> \E i \in 1..(Len(s) - 1) : x = RemoveAt(s, k)[i]
      /\ \A x : x \in ToSet(s) <=> \E i \in 1..Len(s) : x = s[i]
      /\ Len(s) \in Nat
  BY <1>1, ToSetOf, LenProperties
<1>3. ASSUME NEW i \in 1..Len(s), s[i] # s[k] PROVE s[i] \in ToSet(RemoveAt(s, k))
  <2>1. CASE i < k
    <3>1. i \in 1..(Len(s) - 1)
      BY <1>2, <2>1
    <3> QED
      BY <1>1, <1>2, <2>1, <3>1
  <2>2. CASE ~(i < k)
    <3>1. i - 1 \in 1..(Len(s) - 1) /\ ~(i - 1 < k) /\ i - 1 + 1 = i
      BY <1>2, <1>3, <2>2
    <3>2. RemoveAt(s, k)[i - 1] = s[i]
      BY <1>1, <3>1
    <3> QED
      BY <1>2, <3>1, <3>2
  <2> QED
    BY <2>1, <2>2
<1>4. ASSUME NEW j \in 1..(Len(s) - 1) PROVE RemoveAt(s, k)[j] \in ToSet(s)
  <2>1. j \in 1..Len(s) /\ j + 1 \in 1..Len(s)
    BY <1>2
  <2> QED
    BY <1>1, <1>2, <2>1
<1> QED
  BY <1>2, <1>3, <1>4

-----------------------------------------------------------------------------
(* The operations keep the buffer exact. *)

LEMMA NewInputExact ==
    ASSUME NEW M
    PROVE  /\ NewInput \in Buffers(M) /\ Exact(NewInput) /\ Buffered(NewInput) = {}
           /\ ~NewInput.closed /\ NewInput.injected = <<>> /\ NewInput.steered = <<>>
<1>1. <<>> \in Seq(M) /\ <<>> \in Seq(Steered(M)) /\ Len(<<>>) = 0
  BY EmptySeq
<1>2. NewInput \in Buffers(M)
  BY <1>1 DEF NewInput, Buffers
<1>3. /\ NewInput.injected = <<>> /\ NewInput.steered = <<>> /\ ~NewInput.closed
      /\ NewInput.accepted_items = 0 /\ NewInput.accepted_bytes = 0
  BY DEF NewInput
<1>4. SteeredMessages(NewInput) = <<>> /\ Buffered(NewInput) = ToSet(<<>>) \cup ToSet(<<>>)
  BY <1>2, <1>3, BufferedOf, TextsEmpty
<1>5. ToSet(<<>>) = {}
  BY <1>1, ToSetOf
<1>6. Exact(NewInput)
  BY <1>1, <1>3, <1>4, TotalEmpty, ControlInputAssumption DEF Exact
<1> QED
  BY <1>2, <1>3, <1>4, <1>5, <1>6

LEMMA DroppedExact ==
    ASSUME NEW M, NEW b \in Buffers(M)
    PROVE  /\ Dropped(b) \in Buffers(M) /\ Exact(Dropped(b)) /\ Buffered(Dropped(b)) = {}
           /\ Dropped(b).closed /\ Dropped(b).injected = <<>> /\ Dropped(b).steered = <<>>
<1>1. <<>> \in Seq(M) /\ <<>> \in Seq(Steered(M)) /\ Len(<<>>) = 0
  BY EmptySeq
<1>2. Dropped(b) \in Buffers(M)
  BY <1>1 DEF Dropped, Buffers
<1>3. /\ Dropped(b).injected = <<>> /\ Dropped(b).steered = <<>> /\ Dropped(b).closed
      /\ Dropped(b).accepted_items = 0 /\ Dropped(b).accepted_bytes = 0
  BY DEF Dropped, Buffers
<1>4. SteeredMessages(Dropped(b)) = <<>> /\ Buffered(Dropped(b)) = ToSet(<<>>) \cup ToSet(<<>>)
  BY <1>2, <1>3, BufferedOf, TextsEmpty
<1>5. ToSet(<<>>) = {}
  BY <1>1, ToSetOf
<1>6. Exact(Dropped(b))
  BY <1>1, <1>3, <1>4, TotalEmpty, ControlInputAssumption DEF Exact
<1> QED
  BY <1>2, <1>3, <1>4, <1>5, <1>6

LEMMA AcceptedFields ==
    ASSUME NEW M, NEW b, NEW n, NEW k, b \in Buffers(M), n \in Nat, k \in Nat
    PROVE  /\ Accepted(b, n, k) \in Buffers(M)
           /\ Accepted(b, n, k).closed = b.closed /\ Accepted(b, n, k).next_id = b.next_id
           /\ Accepted(b, n, k).injected = b.injected /\ Accepted(b, n, k).steered = b.steered
           /\ Accepted(b, n, k).accepted_items = b.accepted_items + n
           /\ Accepted(b, n, k).accepted_bytes = b.accepted_bytes + k
<1>1. b.accepted_items + n \in Nat /\ b.accepted_bytes + k \in Nat
  BY BufferFields
<1> QED
  BY <1>1 DEF Accepted, Buffers

LEMMA ReleasedFields ==
    ASSUME NEW M, NEW b, NEW n, NEW k, b \in Buffers(M), n \in Nat, k \in Nat,
           n <= b.accepted_items, k <= b.accepted_bytes
    PROVE  /\ Released(b, n, k) \in Buffers(M)
           /\ Released(b, n, k).closed = b.closed /\ Released(b, n, k).next_id = b.next_id
           /\ Released(b, n, k).injected = b.injected /\ Released(b, n, k).steered = b.steered
           /\ Released(b, n, k).accepted_items = b.accepted_items - n
           /\ Released(b, n, k).accepted_bytes = b.accepted_bytes - k
<1>1. /\ Minus(b.accepted_items, n) = b.accepted_items - n /\ b.accepted_items - n \in Nat
      /\ Minus(b.accepted_bytes, k) = b.accepted_bytes - k /\ b.accepted_bytes - k \in Nat
  BY BufferFields DEF Minus
<1> QED
  BY <1>1 DEF Released, Buffers

LEMMA InjectExact ==
    ASSUME NEW M, NEW b, NEW s, b \in Buffers(M), Exact(b), s \in Seq(M), AdmitsBatch(b, s)
    PROVE  /\ Inject(b, s) \in Buffers(M) /\ Exact(Inject(b, s))
           /\ Buffered(Inject(b, s)) = Buffered(b) \cup ToSet(s)
           /\ Inject(b, s).closed = b.closed /\ Inject(b, s).steered = b.steered
           /\ Inject(b, s).injected = b.injected \o s
<1>1. /\ b.injected \in Seq(M) /\ b.steered \in Seq(Steered(M))
      /\ b.accepted_items \in Nat /\ b.accepted_bytes \in Nat
  BY BufferFields
<1>2. /\ b.injected \o s \in Seq(M) /\ Len(b.injected \o s) = Len(b.injected) + Len(s)
      /\ TotalBytes(b.injected \o s) = TotalBytes(b.injected) + TotalBytes(s)
      /\ ToSet(b.injected \o s) = ToSet(b.injected) \cup ToSet(s)
  BY <1>1, ConcatProperties, TotalConcat, ToSetConcat
<1>3. TotalBytes(s) \in Nat /\ Len(s) \in Nat /\ TotalBytes(b.injected) \in Nat /\ Len(b.injected) \in Nat
  BY <1>1, TotalNatural
<1> DEFINE t == Inject(b, s)
<1>4. /\ t \in Buffers(M) /\ t.closed = b.closed /\ t.steered = b.steered
      /\ t.injected = b.injected \o s
      /\ t.accepted_items = b.accepted_items + Len(s)
      /\ t.accepted_bytes = b.accepted_bytes + TotalBytes(s)
  <2>0. PICK u : u = [b EXCEPT !.injected = b.injected \o s]
    OBVIOUS
  <2>1. /\ u \in Buffers(M) /\ u.closed = b.closed /\ u.steered = b.steered
        /\ u.injected = b.injected \o s
        /\ u.accepted_items = b.accepted_items /\ u.accepted_bytes = b.accepted_bytes
    BY <1>2, <2>0 DEF Buffers
  <2>2. t = Accepted(u, Len(s), TotalBytes(s))
    BY <2>0 DEF Inject
  <2> HIDE DEF t
  <2>3. /\ Accepted(u, Len(s), TotalBytes(s)) \in Buffers(M)
        /\ Accepted(u, Len(s), TotalBytes(s)).closed = u.closed
        /\ Accepted(u, Len(s), TotalBytes(s)).injected = u.injected
        /\ Accepted(u, Len(s), TotalBytes(s)).steered = u.steered
        /\ Accepted(u, Len(s), TotalBytes(s)).accepted_items = u.accepted_items + Len(s)
        /\ Accepted(u, Len(s), TotalBytes(s)).accepted_bytes = u.accepted_bytes + TotalBytes(s)
    <3>1. u \in Buffers(M)
      BY <2>1
    <3>2. Len(s) \in Nat /\ TotalBytes(s) \in Nat
      BY <1>3
    <3> QED
      BY <3>1, <3>2, AcceptedFields
  <2> QED
    BY <2>1, <2>2, <2>3
<1> HIDE DEF t
<1>5. SteeredMessages(t) = SteeredMessages(b) /\ Buffered(t) = Buffered(b) \cup ToSet(s)
  BY <1>2, <1>4, BufferedOf
<1>6. b.accepted_items + Len(s) <= MaxItems /\ b.accepted_bytes + TotalBytes(s) <= MaxBytes
  <2>1. CASE s = <<>>
    <3>1. Len(s) = 0 /\ TotalBytes(s) = 0
      BY <2>1, TotalEmpty, EmptySeq
    <3>2. b.accepted_items <= MaxItems /\ b.accepted_bytes <= MaxBytes
      BY DEF Exact
    <3> QED
      BY <1>1, <3>1, <3>2
  <2> QED
    BY <2>1 DEF AdmitsBatch, Admits
<1>7. TotalBytes(SteeredMessages(b)) \in Nat /\ Len(b.steered) \in Nat
  BY <1>1, BufferedOf, TextsOf, TotalNatural
<1>8. Exact(t)
  <2>1. /\ b.accepted_items = Len(b.injected) + Len(b.steered)
        /\ b.accepted_bytes = TotalBytes(b.injected) + TotalBytes(SteeredMessages(b))
    BY DEF Exact
  <2>2. /\ Len(t.injected) = Len(b.injected) + Len(s) /\ Len(t.steered) = Len(b.steered)
        /\ TotalBytes(t.injected) = TotalBytes(b.injected) + TotalBytes(s)
        /\ TotalBytes(SteeredMessages(t)) = TotalBytes(SteeredMessages(b))
    BY <1>2, <1>4, <1>5
  <2>3. /\ t.accepted_items = Len(t.injected) + Len(t.steered) /\ t.accepted_items <= MaxItems
    <3>1. t.accepted_items = Len(b.injected) + Len(b.steered) + Len(s)
      BY <1>4, <2>1
    <3>2. Len(t.injected) + Len(t.steered) = Len(b.injected) + Len(s) + Len(b.steered)
      BY <2>2
    <3>3. t.accepted_items <= MaxItems
      BY <1>4, <1>6
    <3>4. t.accepted_items = Len(t.injected) + Len(t.steered)
      <4> DEFINE x == Len(b.injected)
                 y == Len(b.steered)
                 z == Len(s)
      <4>1. x \in Nat /\ y \in Nat /\ z \in Nat
        BY <1>3, <1>7
      <4> HIDE DEF x, y, z
      <4>2. x + y + z = x + z + y
        BY <4>1
      <4> QED
        BY <3>1, <3>2, <4>2 DEF x, y, z
    <3> QED
      BY <3>3, <3>4
  <2>4. /\ t.accepted_bytes = TotalBytes(t.injected) + TotalBytes(SteeredMessages(t))
        /\ t.accepted_bytes <= MaxBytes
    BY <1>3, <1>4, <1>6, <1>7, <2>1, <2>2
  <2> QED
    BY <2>3, <2>4 DEF Exact
<1> QED
  BY <1>4, <1>5, <1>8 DEF t

LEMMA SteerFields ==
    ASSUME NEW M, NEW b, NEW m, b \in Buffers(M),
           Append(b.steered, [id |-> b.next_id + 1, message |-> m]) \in Seq(Steered(M))
    PROVE  /\ Steer(b, m) \in Buffers(M) /\ Steer(b, m).closed = b.closed
           /\ Steer(b, m).steered = Append(b.steered, [id |-> b.next_id + 1, message |-> m])
           /\ Steer(b, m).injected = b.injected
           /\ Steer(b, m).accepted_items = b.accepted_items + 1
           /\ Steer(b, m).accepted_bytes = b.accepted_bytes + Bytes(m)
<1>1. PICK q, i, n, k :
         /\ q = Append(b.steered, [id |-> b.next_id + 1, message |-> m])
         /\ i = b.next_id + 1 /\ n = 1 /\ k = Bytes(m)
  OBVIOUS
<1>2. q \in Seq(Steered(M)) /\ i \in Nat /\ n \in Nat /\ k \in Nat
  BY <1>1, BufferFields, BytesPositive
<1>3. PICK u : u = [b EXCEPT !.next_id = i, !.steered = q]
  OBVIOUS
<1>4. /\ u \in Buffers(M) /\ u.closed = b.closed /\ u.injected = b.injected
      /\ u.steered = q
      /\ u.accepted_items = b.accepted_items /\ u.accepted_bytes = b.accepted_bytes
  BY <1>2, <1>3 DEF Buffers
<1>5. Steer(b, m) = Accepted(u, n, k)
  BY <1>1, <1>3 DEF Steer
<1>6. /\ Accepted(u, n, k) \in Buffers(M)
      /\ Accepted(u, n, k).closed = u.closed
      /\ Accepted(u, n, k).injected = u.injected
      /\ Accepted(u, n, k).steered = u.steered
      /\ Accepted(u, n, k).accepted_items = u.accepted_items + n
      /\ Accepted(u, n, k).accepted_bytes = u.accepted_bytes + k
  <2>1. u \in Buffers(M)
    BY <1>4
  <2>2. n \in Nat /\ k \in Nat
    BY <1>2
  <2> QED
    BY <2>1, <2>2, AcceptedFields
<1> QED
  BY <1>1, <1>4, <1>5, <1>6

LEMMA SteerExact ==
    ASSUME NEW M, NEW b, NEW m, b \in Buffers(M), Exact(b), m \in M, AdmitsSteer(b, m)
    PROVE  /\ Steer(b, m) \in Buffers(M) /\ Exact(Steer(b, m))
           /\ Buffered(Steer(b, m)) = Buffered(b) \cup {m}
           /\ Steer(b, m).closed = b.closed /\ Steer(b, m).injected = b.injected
           /\ ToSet(Texts(Steer(b, m).steered)) = ToSet(Texts(b.steered)) \cup {m}
<1>1. /\ b.injected \in Seq(M) /\ b.steered \in Seq(Steered(M)) /\ b.next_id \in Nat
      /\ b.accepted_items \in Nat /\ b.accepted_bytes \in Nat
  BY BufferFields
<1> DEFINE e == [id |-> b.next_id + 1, message |-> m]
           t == Steer(b, m)
<1>2. e \in Steered(M) /\ e.message = m
  BY <1>1 DEF Steered
<1>3. Bytes(m) \in 1..2
  BY BytesPositive
<1>4. Append(b.steered, e) \in Seq(Steered(M)) /\ Texts(Append(b.steered, e)) = Texts(b.steered) \o <<m>>
  BY <1>1, <1>2, TextsAppend
<1>5. /\ t \in Buffers(M) /\ t.closed = b.closed /\ t.steered = Append(b.steered, e)
      /\ t.injected = b.injected
      /\ t.accepted_items = b.accepted_items + 1
      /\ t.accepted_bytes = b.accepted_bytes + Bytes(m)
  BY <1>4, SteerFields
<1> HIDE DEF t, e
<1>6. /\ Texts(b.steered) \in Seq(M) /\ <<m>> \in Seq(M)
      /\ Len(Append(b.steered, e)) = Len(b.steered) + 1 /\ Len(b.steered) \in Nat
  BY <1>1, <1>2, TextsOf, TotalOne, AppendProperties, LenProperties
<1>7. /\ TotalBytes(Texts(b.steered) \o <<m>>) = TotalBytes(Texts(b.steered)) + Bytes(m)
      /\ TotalBytes(Texts(b.steered)) \in Nat /\ TotalBytes(b.injected) \in Nat
      /\ Len(b.injected) \in Nat
  BY <1>1, <1>6, TotalConcat, TotalOne, TotalNatural
<1>8. ToSet(Texts(b.steered) \o <<m>>) = ToSet(Texts(b.steered)) \cup {m}
  <2>1. ToSet(<<m>>) = {m}
    BY DEF ToSet
  <2>2. PICK p, q : p = Texts(b.steered) /\ q = <<m>>
    OBVIOUS
  <2>3. p \in Seq(M) /\ q \in Seq(M)
    BY <1>6, <2>2
  <2>4. ToSet(p \o q) = ToSet(p) \cup ToSet(q)
    BY <2>3, ToSetConcat
  <2> QED
    BY <2>1, <2>2, <2>4
<1>9. /\ SteeredMessages(t) = Texts(b.steered) \o <<m>> /\ SteeredMessages(b) = Texts(b.steered)
      /\ Buffered(t) = Buffered(b) \cup {m}
  BY <1>4, <1>5, <1>8, BufferedOf
<1>10. b.accepted_items + 1 <= MaxItems /\ b.accepted_bytes + Bytes(m) <= MaxBytes
  BY DEF AdmitsSteer, Admits
<1>11. Exact(t)
  <2>1. /\ b.accepted_items = Len(b.injected) + Len(b.steered)
        /\ b.accepted_bytes = TotalBytes(b.injected) + TotalBytes(Texts(b.steered))
    BY <1>9 DEF Exact
  <2>2. /\ Len(t.injected) = Len(b.injected) /\ Len(t.steered) = Len(b.steered) + 1
        /\ TotalBytes(t.injected) = TotalBytes(b.injected)
        /\ TotalBytes(SteeredMessages(t)) = TotalBytes(Texts(b.steered)) + Bytes(m)
    BY <1>5, <1>6, <1>7, <1>9
  <2>3. /\ t.accepted_items = Len(t.injected) + Len(t.steered) /\ t.accepted_items <= MaxItems
    <3>1. t.accepted_items = Len(b.injected) + Len(b.steered) + 1
      BY <1>5, <2>1
    <3>2. Len(t.injected) + Len(t.steered) = Len(b.injected) + (Len(b.steered) + 1)
      BY <2>2
    <3>3. t.accepted_items <= MaxItems
      BY <1>5, <1>10
    <3>4. t.accepted_items = Len(t.injected) + Len(t.steered)
      <4> DEFINE x == Len(b.injected)
                 y == Len(b.steered)
      <4>1. x \in Nat /\ y \in Nat
        BY <1>6, <1>7
      <4> HIDE DEF x, y
      <4>2. x + y + 1 = x + (y + 1)
        BY <4>1
      <4> QED
        BY <3>1, <3>2, <4>2 DEF x, y
    <3> QED
      BY <3>3, <3>4
  <2>4. /\ t.accepted_bytes = TotalBytes(t.injected) + TotalBytes(SteeredMessages(t))
        /\ t.accepted_bytes <= MaxBytes
    BY <1>3, <1>5, <1>7, <1>10, <2>1, <2>2
  <2> QED
    BY <2>3, <2>4 DEF Exact
<1> QED
  BY <1>4, <1>5, <1>8, <1>9, <1>11 DEF t

\* The two counters of an exact buffer, by the queues they count.
LEMMA Sizes ==
    ASSUME NEW M, NEW b, b \in Buffers(M)
    PROVE  /\ Len(b.injected) \in Nat /\ Len(b.steered) \in Nat
           /\ TotalBytes(b.injected) \in Nat /\ TotalBytes(Texts(b.steered)) \in Nat
           /\ Texts(b.steered) \in Seq(M) /\ Len(Texts(b.steered)) = Len(b.steered)
           /\ Exact(b) <=>
                /\ b.accepted_items = Len(b.injected) + Len(b.steered)
                /\ b.accepted_bytes = TotalBytes(b.injected) + TotalBytes(Texts(b.steered))
                /\ b.accepted_items <= MaxItems /\ b.accepted_bytes <= MaxBytes
<1>1. b.injected \in Seq(M) /\ b.steered \in Seq(Steered(M))
  BY BufferFields
<1>2. Texts(b.steered) \in Seq(M) /\ Len(Texts(b.steered)) = Len(b.steered)
  BY <1>1, TextsOf
<1>3. Len(b.injected) \in Nat /\ TotalBytes(b.injected) \in Nat
  BY <1>1, TotalNatural
<1>4. Len(b.steered) \in Nat
  BY <1>1, TextsOf
<1>5. TotalBytes(Texts(b.steered)) \in Nat
  BY <1>2, TotalNatural
<1>6. SteeredMessages(b) = Texts(b.steered)
  BY BufferedOf
<1> QED
  BY <1>2, <1>3, <1>4, <1>5, <1>6 DEF Exact

\* drain_injected_messages
LEMMA DrainExact ==
    ASSUME NEW M, NEW b, b \in Buffers(M), Exact(b)
    PROVE  /\ DrainInjected(b) \in Buffers(M) /\ Exact(DrainInjected(b))
           /\ DrainInjected(b).closed = b.closed /\ DrainInjected(b).next_id = b.next_id
           /\ DrainInjected(b).injected = <<>> /\ DrainInjected(b).steered = b.steered
           /\ Buffered(DrainInjected(b)) = ToSet(Texts(b.steered))
<1>1. PICK u : u = [b EXCEPT !.injected = <<>>]
  OBVIOUS
<1>2. /\ u \in Buffers(M) /\ u.closed = b.closed /\ u.next_id = b.next_id
      /\ u.injected = <<>> /\ u.steered = b.steered
      /\ u.accepted_items = b.accepted_items /\ u.accepted_bytes = b.accepted_bytes
  <2>1. <<>> \in Seq(M)
    BY EmptySeq
  <2> QED
    BY <1>1, <2>1 DEF Buffers
<1>3. PICK n, k : n = Len(b.injected) /\ k = TotalBytes(b.injected)
  OBVIOUS
<1>4. PICK y, z : y = Len(b.steered) /\ z = TotalBytes(Texts(b.steered))
  OBVIOUS
<1>5. /\ n \in Nat /\ k \in Nat /\ y \in Nat /\ z \in Nat
      /\ b.accepted_items = n + y /\ b.accepted_bytes = k + z
      /\ b.accepted_items <= MaxItems /\ b.accepted_bytes <= MaxBytes
  BY <1>3, <1>4, Sizes
<1>6. PICK t : t = DrainInjected(b)
  OBVIOUS
<1>7. t = Released(u, n, k)
  BY <1>1, <1>3, <1>6 DEF DrainInjected
<1>8. /\ t \in Buffers(M) /\ t.closed = u.closed /\ t.next_id = u.next_id
      /\ t.injected = u.injected /\ t.steered = u.steered
      /\ t.accepted_items = u.accepted_items - n /\ t.accepted_bytes = u.accepted_bytes - k
  <2>1. u \in Buffers(M) /\ n \in Nat /\ k \in Nat /\ n <= u.accepted_items /\ k <= u.accepted_bytes
    BY <1>2, <1>5
  <2> QED
    BY <1>7, <2>1, ReleasedFields
<1>9. /\ t.injected = <<>> /\ t.steered = b.steered
      /\ t.accepted_items = y /\ t.accepted_bytes = z
      /\ y <= MaxItems /\ z <= MaxBytes
  BY <1>2, <1>5, <1>8, ControlInputAssumption
<1>10. Exact(t)
  <2>1. Len(<<>>) = 0 /\ TotalBytes(<<>>) = 0
    BY TotalEmpty, EmptySeq
  <2>2. /\ t.accepted_items = Len(t.injected) + Len(t.steered)
        /\ t.accepted_bytes = TotalBytes(t.injected) + TotalBytes(Texts(t.steered))
    BY <1>4, <1>5, <1>9, <2>1
  <2> QED
    BY <1>8, <1>9, <2>2, Sizes
<1>11. Buffered(t) = ToSet(Texts(b.steered))
  <2>1. Buffered(t) = ToSet(<<>>) \cup ToSet(Texts(b.steered))
    BY <1>8, <1>9, BufferedOf
  <2>2. ToSet(<<>>) = {}
    BY EmptySeq, ToSetOf
  <2> QED
    BY <2>1, <2>2
<1> QED
  BY <1>2, <1>6, <1>8, <1>10, <1>11

\* cancel_all_pending_user_messages, drain_pending_user_messages
LEMMA TakeExact ==
    ASSUME NEW M, NEW b, b \in Buffers(M), Exact(b)
    PROVE  /\ TakeSteered(b) \in Buffers(M) /\ Exact(TakeSteered(b))
           /\ TakeSteered(b).closed = b.closed /\ TakeSteered(b).next_id = b.next_id
           /\ TakeSteered(b).injected = b.injected /\ TakeSteered(b).steered = <<>>
           /\ Buffered(TakeSteered(b)) = ToSet(b.injected)
<1>1. PICK u : u = [b EXCEPT !.steered = <<>>]
  OBVIOUS
<1>2. /\ u \in Buffers(M) /\ u.closed = b.closed /\ u.next_id = b.next_id
      /\ u.injected = b.injected /\ u.steered = <<>>
      /\ u.accepted_items = b.accepted_items /\ u.accepted_bytes = b.accepted_bytes
  <2>1. <<>> \in Seq(Steered(M))
    BY EmptySeq
  <2> QED
    BY <1>1, <2>1 DEF Buffers
<1>3. PICK n, k : n = Len(b.steered) /\ k = TotalBytes(Texts(b.steered))
  OBVIOUS
<1>4. PICK y, z : y = Len(b.injected) /\ z = TotalBytes(b.injected)
  OBVIOUS
<1>5. /\ n \in Nat /\ k \in Nat /\ y \in Nat /\ z \in Nat
      /\ b.accepted_items = y + n /\ b.accepted_bytes = z + k
      /\ b.accepted_items <= MaxItems /\ b.accepted_bytes <= MaxBytes
  BY <1>3, <1>4, Sizes
<1>6. PICK t : t = TakeSteered(b)
  OBVIOUS
<1>7. t = Released(u, n, k)
  <2>1. SteeredMessages(b) = Texts(b.steered)
    BY BufferedOf
  <2> QED
    BY <1>1, <1>3, <1>6, <2>1 DEF TakeSteered
<1>8. /\ t \in Buffers(M) /\ t.closed = u.closed /\ t.next_id = u.next_id
      /\ t.injected = u.injected /\ t.steered = u.steered
      /\ t.accepted_items = u.accepted_items - n /\ t.accepted_bytes = u.accepted_bytes - k
  <2>1. u \in Buffers(M) /\ n \in Nat /\ k \in Nat /\ n <= u.accepted_items /\ k <= u.accepted_bytes
    BY <1>2, <1>5
  <2> QED
    BY <1>7, <2>1, ReleasedFields
<1>9. /\ t.injected = b.injected /\ t.steered = <<>>
      /\ t.accepted_items = y /\ t.accepted_bytes = z
      /\ y <= MaxItems /\ z <= MaxBytes
  BY <1>2, <1>5, <1>8, ControlInputAssumption
<1>10. Texts(<<>>) = <<>>
  BY TextsEmpty
<1>11. Exact(t)
  <2>1. Len(<<>>) = 0 /\ TotalBytes(<<>>) = 0
    BY TotalEmpty, EmptySeq
  <2>2. /\ t.accepted_items = Len(t.injected) + Len(t.steered)
        /\ t.accepted_bytes = TotalBytes(t.injected) + TotalBytes(Texts(t.steered))
    BY <1>4, <1>5, <1>9, <1>10, <2>1
  <2> QED
    BY <1>8, <1>9, <2>2, Sizes
<1>12. Buffered(t) = ToSet(b.injected)
  <2>1. Buffered(t) = ToSet(b.injected) \cup ToSet(<<>>)
    BY <1>8, <1>9, <1>10, BufferedOf
  <2>2. ToSet(<<>>) = {}
    BY EmptySeq, ToSetOf
  <2> QED
    BY <2>1, <2>2
<1> QED
  BY <1>2, <1>6, <1>8, <1>11, <1>12

\* A steered message is found by its id.
LEMMA SteerFound ==
    ASSUME NEW M, NEW b, NEW id, b \in Buffers(M), id \in SteerIds(b)
    PROVE  /\ IndexOfSteer(b, id) \in 1..Len(b.steered)
           /\ b.steered[IndexOfSteer(b, id)].message = Texts(b.steered)[IndexOfSteer(b, id)]
           /\ b.steered[IndexOfSteer(b, id)].message \in ToSet(Texts(b.steered))
<1>1. b.steered \in Seq(Steered(M)) /\ Texts(b.steered) \in Seq(M)
  BY BufferFields, Sizes
<1>2. /\ DOMAIN b.steered = 1..Len(b.steered) /\ Len(Texts(b.steered)) = Len(b.steered)
      /\ \A i \in 1..Len(b.steered) : Texts(b.steered)[i] = b.steered[i].message
  BY <1>1, TextsOf
<1>3. \E i \in DOMAIN b.steered : b.steered[i].id = id
  BY DEF SteerIds
<1>4. IndexOfSteer(b, id) \in DOMAIN b.steered
  BY <1>3 DEF IndexOfSteer
<1>5. \A x : x \in ToSet(Texts(b.steered)) <=> \E i \in 1..Len(b.steered) : x = Texts(b.steered)[i]
  BY <1>1, <1>2, ToSetOf
<1> QED
  BY <1>2, <1>4, <1>5

\* cancel_pending_user_message
LEMMA CancelExact ==
    ASSUME NEW M, NEW b, NEW id, b \in Buffers(M), Exact(b), id \in SteerIds(b)
    PROVE  /\ Cancel(b, id) \in Buffers(M) /\ Exact(Cancel(b, id))
           /\ Cancel(b, id).closed = b.closed /\ Cancel(b, id).next_id = b.next_id
           /\ Cancel(b, id).injected = b.injected
           /\ ToSet(Texts(Cancel(b, id).steered)) \subseteq ToSet(Texts(b.steered))
           /\ ToSet(Texts(b.steered)) \ {b.steered[IndexOfSteer(b, id)].message}
                 \subseteq ToSet(Texts(Cancel(b, id).steered))
<1>1. PICK i, q, s : i = IndexOfSteer(b, id) /\ q = RemoveAt(b.steered, i) /\ s = Texts(b.steered)
  OBVIOUS
<1>2. /\ i \in 1..Len(b.steered) /\ b.steered[i].message = s[i]
      /\ b.steered \in Seq(Steered(M)) /\ s \in Seq(M) /\ Len(s) = Len(b.steered)
  BY <1>1, SteerFound, BufferFields, Sizes
<1>3. /\ q \in Seq(Steered(M)) /\ Len(q) = Len(b.steered) - 1 /\ Texts(q) = RemoveAt(s, i)
  BY <1>1, <1>2, TextsRemove
<1>4. TotalBytes(Texts(q)) = TotalBytes(s) - Bytes(s[i])
  <2>1. i \in 1..Len(s)
    BY <1>2
  <2>2. TotalBytes(RemoveAt(s, i)) = TotalBytes(s) - Bytes(s[i])
    BY <1>2, <2>1, TotalRemove
  <2> QED
    BY <1>3, <2>2
<1>5. ToSet(s) \ {s[i]} \subseteq ToSet(Texts(q)) /\ ToSet(Texts(q)) \subseteq ToSet(s)
  <2>1. i \in 1..Len(s)
    BY <1>2
  <2>2. ToSet(s) \ {s[i]} \subseteq ToSet(RemoveAt(s, i)) /\ ToSet(RemoveAt(s, i)) \subseteq ToSet(s)
    BY <1>2, <2>1, ToSetRemove
  <2> QED
    BY <1>3, <2>2
<1>6. PICK u : u = [b EXCEPT !.steered = q]
  OBVIOUS
<1>7. /\ u \in Buffers(M) /\ u.closed = b.closed /\ u.next_id = b.next_id
      /\ u.injected = b.injected /\ u.steered = q
      /\ u.accepted_items = b.accepted_items /\ u.accepted_bytes = b.accepted_bytes
  <2>1. q \in Seq(Steered(M))
    BY <1>3
  <2> QED
    BY <1>6, <2>1 DEF Buffers
<1>8. PICK n, k, x, y, z, w :
         /\ n = 1 /\ k = Bytes(s[i]) /\ x = Len(b.injected) /\ y = TotalBytes(b.injected)
         /\ z = Len(b.steered) /\ w = TotalBytes(s)
  OBVIOUS
<1>9. /\ n \in Nat /\ n = 1 /\ k \in Nat /\ x \in Nat /\ y \in Nat /\ z \in Nat /\ w \in Nat
      /\ b.accepted_items = x + z /\ b.accepted_bytes = y + w
      /\ b.accepted_items <= MaxItems /\ b.accepted_bytes <= MaxBytes
  <2>1. n \in Nat /\ n = 1 /\ k \in Nat
    <3>1. Bytes(s[i]) \in 1..2
      BY BytesPositive
    <3> QED
      BY <1>8, <3>1
  <2>2. /\ x \in Nat /\ y \in Nat /\ z \in Nat /\ w \in Nat
        /\ b.accepted_items = x + z /\ b.accepted_bytes = y + w
        /\ b.accepted_items <= MaxItems /\ b.accepted_bytes <= MaxBytes
    BY <1>1, <1>8, Sizes
  <2> QED
    BY <2>1, <2>2
<1>10. k <= w /\ n <= z
  <2>1. i \in 1..Len(s)
    BY <1>2
  <2>2. s[i] \in M
    BY <1>2, <2>1, ElementOfSeq
  <2>3. Bytes(s[i]) <= TotalBytes(s)
    BY <1>2, <2>1, <2>2, TotalReplace
  <2>4. 1 <= Len(b.steered)
    BY <1>2, <1>8, <1>9
  <2> QED
    BY <1>8, <2>3, <2>4
<1>11. PICK t : t = Cancel(b, id)
  OBVIOUS
<1>12. t = Released(u, n, k)
  BY <1>1, <1>2, <1>6, <1>8, <1>11 DEF Cancel
<1>13. /\ t \in Buffers(M) /\ t.closed = u.closed /\ t.next_id = u.next_id
       /\ t.injected = u.injected /\ t.steered = u.steered
       /\ t.accepted_items = u.accepted_items - n /\ t.accepted_bytes = u.accepted_bytes - k
  <2>1. u \in Buffers(M) /\ n \in Nat /\ k \in Nat /\ n <= u.accepted_items /\ k <= u.accepted_bytes
    BY <1>7, <1>9, <1>10
  <2> QED
    BY <1>12, <2>1, ReleasedFields
<1>14. /\ t.accepted_items = x + (z - 1) /\ t.accepted_bytes = y + (w - k)
       /\ t.accepted_items <= MaxItems /\ t.accepted_bytes <= MaxBytes
  BY <1>7, <1>9, <1>10, <1>13, ControlInputAssumption
<1>15. /\ t.injected = b.injected /\ t.steered = q
       /\ Len(q) = z - 1 /\ TotalBytes(Texts(q)) = w - k
  BY <1>3, <1>4, <1>7, <1>8, <1>13
<1>16. Exact(t)
  <2>1. /\ t.accepted_items = Len(t.injected) + Len(t.steered)
        /\ t.accepted_bytes = TotalBytes(t.injected) + TotalBytes(Texts(t.steered))
    BY <1>8, <1>14, <1>15
  <2> QED
    BY <1>13, <1>14, <2>1, Sizes
<1>17. /\ ToSet(Texts(t.steered)) \subseteq ToSet(Texts(b.steered))
       /\ ToSet(Texts(b.steered)) \ {b.steered[i].message} \subseteq ToSet(Texts(t.steered))
  BY <1>1, <1>2, <1>5, <1>15
<1> QED
  BY <1>1, <1>7, <1>11, <1>13, <1>16, <1>17

\* update_pending_user_message
LEMMA UpdateExact ==
    ASSUME NEW M, NEW b, NEW id, NEW m, b \in Buffers(M), Exact(b), m \in M, AdmitsUpdate(b, id, m)
    PROVE  /\ Update(b, id, m) \in Buffers(M) /\ Exact(Update(b, id, m))
           /\ Update(b, id, m).closed = b.closed /\ Update(b, id, m).next_id = b.next_id
           /\ Update(b, id, m).injected = b.injected
           /\ ToSet(Texts(Update(b, id, m).steered)) \subseteq ToSet(Texts(b.steered)) \cup {m}
           /\ m \in ToSet(Texts(Update(b, id, m).steered))
           /\ ToSet(Texts(b.steered)) \ {b.steered[IndexOfSteer(b, id)].message}
                 \subseteq ToSet(Texts(Update(b, id, m).steered))
<1>0. id \in SteerIds(b) /\ UpdatedBytes(b, id, m) <= MaxBytes
  BY DEF AdmitsUpdate
<1>1. PICK i, q, s : /\ i = IndexOfSteer(b, id) /\ q = [b.steered EXCEPT ![i].message = m]
                     /\ s = Texts(b.steered)
  OBVIOUS
<1>2. /\ i \in 1..Len(b.steered) /\ b.steered[i].message = s[i]
      /\ b.steered \in Seq(Steered(M)) /\ s \in Seq(M) /\ Len(s) = Len(b.steered)
  BY <1>0, <1>1, SteerFound, BufferFields, Sizes
<1>3. /\ q \in Seq(Steered(M)) /\ Len(q) = Len(b.steered) /\ Texts(q) = [s EXCEPT ![i] = m]
  <2>1. PICK p : p = b.steered
    OBVIOUS
  <2>2. p \in Seq(Steered(M)) /\ i \in 1..Len(p) /\ q = [p EXCEPT ![i].message = m] /\ s = Texts(p)
    BY <1>1, <1>2, <2>1
  <2>3. /\ [p EXCEPT ![i].message = m] \in Seq(Steered(M))
        /\ Len([p EXCEPT ![i].message = m]) = Len(p)
        /\ Texts([p EXCEPT ![i].message = m]) = [Texts(p) EXCEPT ![i] = m]
    <3>1. p \in Seq(Steered(M)) /\ i \in 1..Len(p)
      BY <2>2
    <3> QED
      BY <3>1, TextsReplace
  <2> QED
    BY <2>1, <2>2, <2>3
<1>4. TotalBytes(Texts(q)) = TotalBytes(s) - Bytes(s[i]) + Bytes(m) /\ Bytes(s[i]) <= TotalBytes(s)
  <2>1. i \in 1..Len(s)
    BY <1>2
  <2>2. /\ TotalBytes([s EXCEPT ![i] = m]) = TotalBytes(s) - Bytes(s[i]) + Bytes(m)
        /\ Bytes(s[i]) <= TotalBytes(s)
    BY <1>2, <2>1, TotalReplace
  <2> QED
    BY <1>3, <2>2
<1>5. /\ ToSet(s) \ {s[i]} \subseteq ToSet(Texts(q)) /\ ToSet(Texts(q)) \subseteq ToSet(s) \cup {m}
      /\ m \in ToSet(Texts(q))
  <2>1. i \in 1..Len(s)
    BY <1>2
  <2>2. /\ ToSet(s) \ {s[i]} \subseteq ToSet([s EXCEPT ![i] = m])
        /\ ToSet([s EXCEPT ![i] = m]) \subseteq ToSet(s) \cup {m}
        /\ m \in ToSet([s EXCEPT ![i] = m])
    BY <1>2, <2>1, ToSetReplace
  <2> QED
    BY <1>3, <2>2
<1>6. PICK k, v, x, y, z, w :
         /\ k = Bytes(s[i]) /\ v = Bytes(m) /\ x = Len(b.injected) /\ y = TotalBytes(b.injected)
         /\ z = Len(b.steered) /\ w = TotalBytes(s)
  OBVIOUS
<1>7. /\ k \in Nat /\ v \in Nat /\ x \in Nat /\ y \in Nat /\ z \in Nat /\ w \in Nat
      /\ b.accepted_items = x + z /\ b.accepted_bytes = y + w
      /\ b.accepted_items <= MaxItems /\ b.accepted_bytes <= MaxBytes /\ k <= w
  <2>1. k \in Nat /\ v \in Nat /\ k <= w
    <3>1. Bytes(s[i]) \in 1..2 /\ Bytes(m) \in 1..2
      BY BytesPositive
    <3> QED
      BY <1>4, <1>6, <3>1
  <2>2. /\ x \in Nat /\ y \in Nat /\ z \in Nat /\ w \in Nat
        /\ b.accepted_items = x + z /\ b.accepted_bytes = y + w
        /\ b.accepted_items <= MaxItems /\ b.accepted_bytes <= MaxBytes
    BY <1>1, <1>6, Sizes
  <2> QED
    BY <2>1, <2>2
<1>8. UpdatedBytes(b, id, m) = y + (w - k + v) /\ UpdatedBytes(b, id, m) \in Nat
  <2>1. UpdatedBytes(b, id, m) = Minus(y + w, k) + v
    BY <1>1, <1>2, <1>6, <1>7 DEF UpdatedBytes
  <2>2. Minus(y + w, k) = y + w - k
    BY <1>7 DEF Minus
  <2> QED
    BY <1>7, <2>1, <2>2
<1>9. PICK t, c : t = Update(b, id, m) /\ c = UpdatedBytes(b, id, m)
  OBVIOUS
<1>10. t = [b EXCEPT !.steered = q, !.accepted_bytes = c]
  <2>1. t = [b EXCEPT !.steered[i].message = m, !.accepted_bytes = c]
    BY <1>1, <1>9 DEF Update
  <2> QED
    BY <1>1, <2>1
<1>11. /\ t \in Buffers(M) /\ t.closed = b.closed /\ t.next_id = b.next_id
       /\ t.injected = b.injected /\ t.steered = q
       /\ t.accepted_items = b.accepted_items /\ t.accepted_bytes = c
  <2>1. q \in Seq(Steered(M)) /\ c \in Nat
    BY <1>3, <1>8, <1>9
  <2> QED
    BY <1>10, <2>1 DEF Buffers
<1>12. Exact(t)
  <2>1. Len(q) = z /\ TotalBytes(Texts(q)) = w - k + v
    BY <1>3, <1>4, <1>6
  <2>2. t.accepted_items = Len(t.injected) + Len(t.steered)
    BY <1>6, <1>7, <1>11, <2>1
  <2>3. t.accepted_bytes = TotalBytes(t.injected) + TotalBytes(Texts(t.steered))
    BY <1>6, <1>8, <1>9, <1>11, <2>1
  <2>4. t.accepted_items <= MaxItems /\ t.accepted_bytes <= MaxBytes
    BY <1>0, <1>7, <1>9, <1>11
  <2> QED
    BY <1>11, <2>2, <2>3, <2>4, Sizes
<1>13. /\ ToSet(Texts(t.steered)) \subseteq ToSet(Texts(b.steered)) \cup {m}
       /\ m \in ToSet(Texts(t.steered))
       /\ ToSet(Texts(b.steered)) \ {b.steered[i].message} \subseteq ToSet(Texts(t.steered))
  BY <1>1, <1>2, <1>5, <1>11
<1> QED
  BY <1>1, <1>9, <1>11, <1>12, <1>13

-----------------------------------------------------------------------------
(* The loops *)

LoopRecords ==
    [at : Locations, turn : 0..MaxTurns, tools : BOOLEAN, fresh : BOOLEAN, outcome : Outcomes]

\* The loops' variables, when every message is in M.
LoopType(M) ==
    /\ input \in [Runs -> Buffers(M)]
    /\ signal \in [Runs -> [stop : BOOLEAN, abort : BOOLEAN]]
    /\ loop \in [Runs -> LoopRecords]
    /\ context \in [Runs -> SUBSET M]
    /\ owed \in [Runs -> SUBSET M]

\* What the loop was given, or will find.
Given(r) == context[r] \cup Buffered(input[r])

\* Before its last drain a loop owes only what it was given or will find, and
\* what a generation has not seen is still in the buffer, unless the drain after
\* the generation found something (fresh) and the loop goes round.
Heard(r) ==
    /\ loop[r].at \in {"begin", "top"} => owed[r] \subseteq Given(r)
    /\ loop[r].at = "idle" => input[r].closed \/ owed[r] \subseteq Given(r)
    /\ loop[r].at \in {"generating", "tools", "settle"} =>
          /\ loop[r].turn < MaxTurns
          /\ owed[r] \subseteq Given(r)
          /\ loop[r].at = "generating" \/ ~loop[r].fresh => owed[r] \subseteq Buffered(input[r])
    /\ loop[r].at \in {"ending", "returned"} /\ loop[r].outcome = "normal" => owed[r] = {}
    /\ loop[r].at = "ending" => loop[r].outcome # "none"
    /\ loop[r].at = "returned" => input[r].closed
    /\ loop[r].at \notin {"idle", "returned"} => ~input[r].closed
    /\ input[r].closed => input[r].injected = <<>> /\ input[r].steered = <<>>

LoopInv(M) == LoopType(M) /\ \A r \in Runs : Exact(input[r]) /\ Heard(r)

\* An action of run r leaves the other runs alone.
OthersKept(r) ==
    \A q \in Runs \ {r} :
        /\ input'[q] = input[q] /\ signal'[q] = signal[q] /\ loop'[q] = loop[q]
        /\ context'[q] = context[q] /\ owed'[q] = owed[q]

\* Messages move from run r's buffer to its context, or stay.
InputMoved(M, r) ==
    /\ input' \in [Runs -> Buffers(M)] /\ context' \in [Runs -> SUBSET M]
    /\ \A q \in Runs : Exact(input'[q])
    /\ \A q \in Runs \ {r} : input'[q] = input[q] /\ context'[q] = context[q]
    /\ input'[r].closed = input[r].closed
    /\ Given(r)' = Given(r) /\ context[r] \subseteq context'[r]
    /\ ToSet(Texts(input'[r].steered)) \subseteq ToSet(Texts(input[r].steered))

LEMMA DrainAll ==
    ASSUME NEW M, NEW b, b \in Buffers(M), Exact(b)
    PROVE  LET t == TakeSteered(DrainInjected(b)) IN
           /\ t \in Buffers(M) /\ Exact(t) /\ t.closed = b.closed
           /\ t.injected = <<>> /\ t.steered = <<>> /\ Buffered(t) = {}
<1>1. PICK u : u = DrainInjected(b)
  OBVIOUS
<1>2. u \in Buffers(M) /\ Exact(u) /\ u.closed = b.closed /\ u.injected = <<>>
  BY <1>1, DrainExact
<1>3. PICK t : t = TakeSteered(u)
  OBVIOUS
<1>4. /\ t \in Buffers(M) /\ Exact(t) /\ t.closed = u.closed
      /\ t.injected = u.injected /\ t.steered = <<>> /\ Buffered(t) = ToSet(u.injected)
  BY <1>2, <1>3, TakeExact
<1>5. ToSet(<<>>) = {}
  BY EmptySeq, ToSetOf
<1> QED
  BY <1>1, <1>2, <1>3, <1>4, <1>5

\* drain_external_user_messages moves messages from the buffer to the context.
LEMMA DrainMoves ==
    ASSUME NEW M, LoopType(M), \A q \in Runs : Exact(input[q]),
           NEW r \in Runs, NEW pending \in BOOLEAN, Drain(r, pending)
    PROVE  /\ InputMoved(M, r)
           /\ pending => Buffered(input'[r]) = {}
           /\ ~pending /\ input[r].injected = <<>> => Buffered(input'[r]) = Buffered(input[r])
<1>1. PICK b, t, s : /\ b = input[r] /\ t = (IF pending THEN TakeSteered(DrainInjected(b)) ELSE DrainInjected(b))
                     /\ s = ToSet(b.injected) \cup IF pending THEN ToSet(Texts(b.steered)) ELSE {}
  OBVIOUS
<1>2. b \in Buffers(M) /\ Exact(b)
  BY <1>1 DEF LoopType
<1>3. b.injected \in Seq(M) /\ Texts(b.steered) \in Seq(M)
  BY <1>2, BufferFields, Sizes
<1>4. ToSet(b.injected) \subseteq M /\ ToSet(Texts(b.steered)) \subseteq M
  BY <1>3, ToSetOf
<1>5. /\ SteeredMessages(b) = Texts(b.steered)
      /\ Buffered(b) = ToSet(b.injected) \cup ToSet(Texts(b.steered))
  BY <1>2, BufferedOf
<1>6. /\ input' = [input EXCEPT ![r] = t]
      /\ context' = [context EXCEPT ![r] = context[r] \cup s]
  BY <1>1, <1>5 DEF Drain
<1>7. /\ t \in Buffers(M) /\ Exact(t) /\ t.closed = b.closed
      /\ pending => Buffered(t) = {} /\ t.steered = <<>>
      /\ ~pending => Buffered(t) = ToSet(Texts(b.steered)) /\ t.steered = b.steered
  BY <1>1, <1>2, DrainAll, DrainExact
<1>8. s \subseteq M /\ s \cup Buffered(t) = Buffered(b)
  BY <1>1, <1>4, <1>5, <1>7
<1>9. input' \in [Runs -> Buffers(M)] /\ context' \in [Runs -> SUBSET M]
  BY <1>6, <1>7, <1>8 DEF LoopType
<1>10. input'[r] = t /\ context'[r] = context[r] \cup s
  BY <1>6 DEF LoopType
<1>11. \A q \in Runs \ {r} : input'[q] = input[q] /\ context'[q] = context[q]
  BY <1>6 DEF LoopType
<1>12. \A q \in Runs : Exact(input'[q])
  BY <1>7, <1>10, <1>11
<1>13. ~pending /\ b.injected = <<>> => Buffered(t) = Buffered(b)
  <2>1. ToSet(<<>>) = {}
    BY EmptySeq, ToSetOf
  <2> QED
    BY <1>5, <1>7, <2>1
<1>14. ToSet(Texts(t.steered)) \subseteq ToSet(Texts(b.steered))
  <2>1. ToSet(<<>>) = {} /\ Texts(<<>>) = <<>>
    BY EmptySeq, ToSetOf, TextsEmpty
  <2> QED
    BY <1>7, <2>1
<1> QED
  BY <1>1, <1>7, <1>8, <1>9, <1>10, <1>11, <1>12, <1>13, <1>14 DEF InputMoved, Given

LEMMA StepKeeps ==
    ASSUME NEW M, LoopInv(M), LoopType(M)', NEW r \in Runs, OthersKept(r),
           Exact(input'[r]), Heard(r)'
    PROVE  LoopInv(M)'
<1>1. ASSUME NEW q \in Runs PROVE Exact(input'[q]) /\ Heard(q)'
  <2>1. CASE q = r
    BY <2>1
  <2>2. CASE q # r
    <3>1. /\ input'[q] = input[q] /\ loop'[q] = loop[q]
          /\ context'[q] = context[q] /\ owed'[q] = owed[q]
      BY <2>2 DEF OthersKept
    <3>2. Heard(q) /\ Exact(input[q])
      BY DEF LoopInv
    <3> QED
      BY <3>1, <3>2 DEF Heard, Given
  <2> QED
    BY <2>1, <2>2
<1> QED
  BY <1>1 DEF LoopInv

LEMMA LoopFields ==
    ASSUME NEW M, LoopType(M), NEW r \in Runs
    PROVE  /\ input[r] \in Buffers(M) /\ loop[r] \in LoopRecords
           /\ context[r] \subseteq M /\ owed[r] \subseteq M
           /\ loop[r].at \in Locations /\ loop[r].turn \in 0..MaxTurns
           /\ loop[r].tools \in BOOLEAN /\ loop[r].fresh \in BOOLEAN
           /\ loop[r].outcome \in Outcomes
           /\ signal[r].stop \in BOOLEAN /\ signal[r].abort \in BOOLEAN
BY DEF LoopType, LoopRecords

\* Only run r's loop moves, to a record v.
LEMMA LoopMoved ==
    ASSUME NEW M, LoopType(M), NEW r \in Runs, NEW v, v \in LoopRecords,
           loop' = [loop EXCEPT ![r] = v]
    PROVE  /\ loop' \in [Runs -> LoopRecords] /\ loop'[r] = v
           /\ \A q \in Runs \ {r} : loop'[q] = loop[q]
BY DEF LoopType

LEMMA Ending ==
    ASSUME NEW M, LoopType(M), NEW r \in Runs, NEW o \in Outcomes, EndWith(r, o)
    PROVE  /\ loop' \in [Runs -> LoopRecords]
           /\ \A q \in Runs \ {r} : loop'[q] = loop[q]
           /\ loop'[r].at = "ending" /\ loop'[r].outcome = o
<1>1. PICK v : v = [loop[r] EXCEPT !.at = "ending", !.outcome = o]
  OBVIOUS
<1>2. loop[r] \in LoopRecords
  BY LoopFields
<1>3. v \in LoopRecords /\ v.at = "ending" /\ v.outcome = o
  BY <1>1, <1>2 DEF LoopRecords, Locations
<1>4. loop' = [loop EXCEPT ![r] = v]
  BY <1>1 DEF EndWith
<1> QED
  BY <1>3, <1>4, LoopMoved

\* What a step of run r's loop does to the rest of the model.
LoopEffect(r) ==
    /\ OthersKept(r) /\ signal' = signal
    /\ loop[r].at \in {"begin", "top", "generating", "settle", "ending"}
    /\ loop'[r].at \in {"top", "generating", "tools", "settle", "ending", "returned"}
    /\ loop'[r].at = "returned" => loop[r].at = "ending" /\ loop'[r].outcome = loop[r].outcome
    /\ loop'[r].at # "returned" => Given(r)' = Given(r) /\ input'[r].closed = input[r].closed
    /\ context[r] \subseteq context'[r] /\ Given(r)' \subseteq Given(r)
    /\ ToSet(Texts(input'[r].steered)) \subseteq ToSet(Texts(input[r].steered))

LEMMA InputKept ==
    ASSUME NEW M, LoopInv(M), NEW r \in Runs, KeepInput
    PROVE  InputMoved(M, r)
BY DEF KeepInput, LoopInv, LoopType, InputMoved, Given

\* The loop ends; when it ends Normal it owes nothing.
LEMMA RunEnds ==
    ASSUME NEW M, LoopInv(M), NEW r \in Runs, InputMoved(M, r),
           NEW o \in Outcomes, o # "none", EndWith(r, o), o = "normal" => owed[r] = {},
           loop[r].at \in {"begin", "top", "generating", "settle"},
           signal' = signal, owed' = owed
    PROVE  LoopInv(M)' /\ LoopEffect(r)
<1>0. LoopType(M)
  BY DEF LoopInv
<1>1. /\ loop' \in [Runs -> LoopRecords] /\ \A q \in Runs \ {r} : loop'[q] = loop[q]
      /\ loop'[r].at = "ending" /\ loop'[r].outcome = o
  BY <1>0, Ending
<1>2. LoopType(M)'
  BY <1>0, <1>1 DEF LoopType, InputMoved
<1>3. OthersKept(r)
  BY <1>1 DEF OthersKept, InputMoved
<1>4. Heard(r)'
  <2>1. ~input'[r].closed
    BY DEF LoopInv, Heard, InputMoved
  <2> QED
    BY <1>1, <2>1 DEF Heard
<1>5. Exact(input'[r])
  BY DEF InputMoved
<1>6. LoopInv(M)'
  BY <1>2, <1>3, <1>4, <1>5, StepKeeps
<1> QED
  BY <1>1, <1>3, <1>6 DEF LoopEffect, InputMoved

\* The loop goes on, with the record v.
LEMMA RunGoesOn ==
    ASSUME NEW M, LoopInv(M), NEW r \in Runs, InputMoved(M, r),
           NEW v, v \in LoopRecords, loop' = [loop EXCEPT ![r] = v],
           v.at \in {"top", "generating", "tools", "settle"},
           loop[r].at \in {"begin", "top", "generating", "settle"},
           signal' = signal, owed' \in [Runs -> SUBSET M],
           \A q \in Runs \ {r} : owed'[q] = owed[q],
           owed'[r] \subseteq Given(r),
           v.at # "top" => v.turn < MaxTurns,
           v.at = "generating" \/ (v.at \in {"tools", "settle"} /\ ~v.fresh) =>
               owed'[r] \subseteq Buffered(input'[r])
    PROVE  LoopInv(M)' /\ LoopEffect(r)
<1>0. LoopType(M)
  BY DEF LoopInv
<1>1. loop' \in [Runs -> LoopRecords] /\ loop'[r] = v /\ \A q \in Runs \ {r} : loop'[q] = loop[q]
  BY <1>0, LoopMoved
<1>2. LoopType(M)'
  BY <1>0, <1>1 DEF LoopType, InputMoved
<1>3. OthersKept(r)
  BY <1>1 DEF OthersKept, InputMoved
<1>4. Given(r)' = Given(r)
  BY DEF InputMoved
<1>5. Heard(r)'
  <2>1. ~input'[r].closed
    BY DEF LoopInv, Heard, InputMoved
  <2> QED
    BY <1>1, <1>4, <2>1 DEF Heard
<1>6. Exact(input'[r])
  BY DEF InputMoved
<1>7. LoopInv(M)'
  BY <1>2, <1>3, <1>5, <1>6, StepKeeps
<1> QED
  BY <1>1, <1>3, <1>7 DEF LoopEffect, InputMoved

LEMMA BeginKeeps ==
    ASSUME NEW M, LoopInv(M), NEW r \in Runs, Begin(r)
    PROVE  LoopInv(M)' /\ LoopEffect(r)
<1>1. /\ loop[r].at = "begin" /\ LoopType(M) /\ Heard(r) /\ \A q \in Runs : Exact(input[q])
      /\ signal' = signal /\ owed' = owed
  BY DEF Begin, LoopInv
<1>2. CASE signal[r].abort /\ EndWith(r, "aborted") /\ KeepInput
  <2>1. "aborted" \in Outcomes /\ loop[r].at \in {"begin", "top", "generating", "settle"}
    BY <1>1 DEF Outcomes
  <2>2. InputMoved(M, r)
    BY <1>2, InputKept
  <2> QED
    BY <1>1, <1>2, <2>1, <2>2, RunEnds
<1>3. CASE ~signal[r].abort /\ Drain(r, TRUE) /\ loop' = [loop EXCEPT ![r].at = "top"]
  <2>1. InputMoved(M, r)
    BY <1>1, <1>3, DrainMoves
  <2>2. PICK v : v = [loop[r] EXCEPT !.at = "top"]
    OBVIOUS
  <2>3. v \in LoopRecords /\ v.at = "top" /\ loop' = [loop EXCEPT ![r] = v]
    BY <1>1, <1>3, <2>2, LoopFields DEF LoopRecords, Locations
  <2>4. owed'[r] \subseteq Given(r) /\ owed' \in [Runs -> SUBSET M]
    BY <1>1 DEF Heard, LoopType
  <2> QED
    BY <1>1, <2>1, <2>3, <2>4, RunGoesOn
<1> QED
  BY <1>2, <1>3 DEF Begin

LEMMA TopKeeps ==
    ASSUME NEW M, LoopInv(M), NEW r \in Runs, Top(r)
    PROVE  LoopInv(M)' /\ LoopEffect(r)
<1>1. /\ loop[r].at = "top" /\ LoopType(M) /\ Heard(r) /\ \A q \in Runs : Exact(input[q])
      /\ signal' = signal
  BY DEF Top, LoopInv
<1>2. ASSUME NEW o \in {"failed", "aborted"}, EndWith(r, o), KeepInput, owed' = owed
      PROVE  LoopInv(M)' /\ LoopEffect(r)
  <2>1. /\ o \in Outcomes /\ o # "normal" /\ o # "none"
        /\ loop[r].at \in {"begin", "top", "generating", "settle"}
    BY <1>1 DEF Outcomes
  <2>2. InputMoved(M, r)
    BY <1>2, InputKept
  <2> QED
    BY <1>1, <1>2, <2>1, <2>2, RunEnds
<1>3. CASE /\ loop[r].turn < MaxTurns /\ Drain(r, TRUE)
           /\ owed' = [owed EXCEPT ![r] = @ \ context'[r]]
           /\ loop' = [loop EXCEPT ![r].at = "generating"]
  <2>1. InputMoved(M, r) /\ Buffered(input'[r]) = {}
    BY <1>1, <1>3, DrainMoves
  <2>2. PICK v : v = [loop[r] EXCEPT !.at = "generating"]
    OBVIOUS
  <2>3. /\ v \in LoopRecords /\ v.at = "generating" /\ v.turn < MaxTurns
        /\ loop' = [loop EXCEPT ![r] = v]
    BY <1>1, <1>3, <2>2, LoopFields DEF LoopRecords, Locations
  <2>4. /\ owed' \in [Runs -> SUBSET M] /\ owed'[r] = owed[r] \ context'[r]
        /\ \A q \in Runs \ {r} : owed'[q] = owed[q]
    BY <1>1, <1>3 DEF LoopType
  <2>5. owed[r] \subseteq Given(r) /\ Given(r) = context'[r] \cup Buffered(input'[r])
    BY <1>1, <2>1 DEF Heard, InputMoved, Given
  <2>6. owed'[r] \subseteq Buffered(input'[r]) /\ owed'[r] \subseteq Given(r)
    BY <2>1, <2>4, <2>5
  <2>7. loop[r].at \in {"begin", "top", "generating", "settle"}
    BY <1>1
  <2> QED
    BY <1>1, <2>1, <2>3, <2>4, <2>6, <2>7, RunGoesOn
<1> QED
  BY <1>2, <1>3 DEF Top

LEMMA GeneratedKeeps ==
    ASSUME NEW M, LoopInv(M), NEW r \in Runs,
           NEW outcome \in {"normal", "failed", "aborted"}, NEW tools \in BOOLEAN,
           Generated(r, outcome, tools)
    PROVE  LoopInv(M)' /\ LoopEffect(r)
<1>1. /\ loop[r].at = "generating" /\ LoopType(M) /\ Heard(r) /\ \A q \in Runs : Exact(input[q])
      /\ signal' = signal /\ owed' = owed /\ Drain(r, FALSE)
      /\ loop[r].at \in {"begin", "top", "generating", "settle"}
  BY DEF Generated, LoopInv
<1>2. /\ InputMoved(M, r)
      /\ input[r].injected = <<>> => Buffered(input'[r]) = Buffered(input[r])
  BY <1>1, DrainMoves
<1>3. CASE outcome # "normal"
  <2>1. EndWith(r, outcome) /\ outcome \in Outcomes /\ outcome # "none"
    BY <1>3 DEF Generated, Outcomes
  <2> QED
    BY <1>1, <1>2, <1>3, <2>1, RunEnds
<1>4. CASE outcome = "normal"
  <2>0. PICK w : w = IF tools THEN "tools" ELSE "settle"
    OBVIOUS
  <2>7. PICK had \in BOOLEAN : had <=> input[r].injected # <<>>
    OBVIOUS
  <2>1. PICK v : v = [loop[r] EXCEPT !.at = w, !.tools = tools, !.fresh = had]
    OBVIOUS
  <2>2. loop' = [loop EXCEPT ![r] = v]
    BY <1>1, <1>4, <2>0, <2>1, <2>7 DEF Generated, HadMessages, LoopType
  <2>3. /\ v \in LoopRecords /\ v.at \in {"tools", "settle"} /\ v.turn = loop[r].turn
        /\ v.fresh = had
    <3>1. loop[r] \in LoopRecords /\ w \in {"tools", "settle"} /\ w \in Locations
      BY <1>1, <2>0, LoopFields DEF Locations
    <3> QED
      BY <2>1, <3>1 DEF LoopRecords
  <2>4. /\ loop[r].turn < MaxTurns /\ owed[r] \subseteq Buffered(input[r])
        /\ owed[r] \subseteq Given(r)
    BY <1>1 DEF Heard
  <2>5. ~v.fresh => owed'[r] \subseteq Buffered(input'[r])
    BY <1>1, <1>2, <2>3, <2>4, <2>7
  <2>6. owed' \in [Runs -> SUBSET M] /\ owed'[r] \subseteq Given(r)
    BY <1>1, <2>4 DEF LoopType
  <2> QED
    BY <1>1, <1>2, <2>2, <2>3, <2>4, <2>5, <2>6, RunGoesOn
<1> QED
  BY <1>3, <1>4

\* A drain that found nothing, with nothing fresh, leaves nothing owed: the loop
\* may end Normal.
LEMMA SettleKeeps ==
    ASSUME NEW M, LoopInv(M), NEW r \in Runs, Settle(r)
    PROVE  LoopInv(M)' /\ LoopEffect(r)
<1>1. /\ loop[r].at = "settle" /\ LoopType(M) /\ Heard(r) /\ \A q \in Runs : Exact(input[q])
      /\ signal' = signal /\ owed' = owed /\ SettleDrain(r)
      /\ loop[r].at \in {"begin", "top", "generating", "settle"}
  BY DEF Settle, LoopInv
<1>2. InputMoved(M, r)
  BY <1>1, DrainMoves, InputKept DEF SettleDrain
<1>3. loop[r].turn < MaxTurns /\ owed[r] \subseteq Given(r)
  BY <1>1 DEF Heard
<1>4. ASSUME NEW o \in {"aborted", "stopped"}, EndWith(r, o)
      PROVE  LoopInv(M)' /\ LoopEffect(r)
  <2>1. o \in Outcomes /\ o # "normal" /\ o # "none"
    BY DEF Outcomes
  <2> QED
    BY <1>1, <1>2, <1>4, <2>1, RunEnds
<1>5. CASE /\ ~(loop[r].fresh \/ HadMessages(r, TRUE)) /\ EndWith(r, "normal")
  <2>1. ~loop[r].fresh /\ input[r].injected = <<>> /\ input[r].steered = <<>>
    BY <1>5 DEF HadMessages
  <2>2. owed[r] \subseteq Buffered(input[r])
    BY <1>1, <2>1 DEF Heard
  <2>3. Buffered(input[r]) = {}
    <3>1. input[r] \in Buffers(M)
      BY <1>1, LoopFields
    <3>2. Buffered(input[r]) = ToSet(<<>>) \cup ToSet(Texts(<<>>))
      BY <2>1, <3>1, BufferedOf
    <3>3. ToSet(<<>>) = {} /\ Texts(<<>>) = <<>>
      BY EmptySeq, ToSetOf, TextsEmpty
    <3> QED
      BY <3>2, <3>3
  <2>4. owed[r] = {} /\ "normal" \in Outcomes
    BY <2>2, <2>3 DEF Outcomes
  <2> QED
    BY <1>1, <1>2, <1>5, <2>4, RunEnds
<1>6. CASE loop' = [loop EXCEPT ![r].at = "top", ![r].turn = @ + 1]
  <2>1. PICK v, n : n = loop[r].turn + 1 /\ v = [loop[r] EXCEPT !.at = "top", !.turn = n]
    OBVIOUS
  <2>2. loop[r] \in LoopRecords /\ loop[r].turn \in 0..MaxTurns
    BY <1>1, LoopFields
  <2>3. n \in 0..MaxTurns
    BY <1>3, <2>1, <2>2, LoopAssumption
  <2>4. v \in LoopRecords /\ v.at = "top" /\ loop' = [loop EXCEPT ![r] = v]
    BY <1>6, <2>1, <2>2, <2>3 DEF LoopRecords, Locations
  <2>5. owed' \in [Runs -> SUBSET M] /\ owed'[r] \subseteq Given(r)
    BY <1>1, <1>3 DEF LoopType
  <2> QED
    BY <1>1, <1>2, <2>4, <2>5, RunGoesOn
<1> QED
  BY <1>4, <1>5, <1>6 DEF Settle

LEMMA ReturnKeeps ==
    ASSUME NEW M, LoopInv(M), NEW r \in Runs, Return(r)
    PROVE  LoopInv(M)' /\ LoopEffect(r)
<1>1. /\ loop[r].at = "ending" /\ LoopType(M) /\ Heard(r)
      /\ loop' = [loop EXCEPT ![r].at = "returned"]
      /\ input' = [input EXCEPT ![r] = Dropped(input[r])]
      /\ signal' = signal /\ context' = context /\ owed' = owed
  BY DEF Return, LoopInv
<1>2. PICK v, t : v = [loop[r] EXCEPT !.at = "returned"] /\ t = Dropped(input[r])
  OBVIOUS
<1>3. loop[r] \in LoopRecords /\ input[r] \in Buffers(M)
  BY <1>1, LoopFields
<1>4. v \in LoopRecords /\ v.at = "returned" /\ v.outcome = loop[r].outcome
  BY <1>2, <1>3 DEF LoopRecords, Locations
<1>5. /\ t \in Buffers(M) /\ Exact(t) /\ Buffered(t) = {} /\ t.closed
      /\ t.injected = <<>> /\ t.steered = <<>>
  BY <1>2, <1>3, DroppedExact
<1>6. loop' \in [Runs -> LoopRecords] /\ loop'[r] = v /\ \A q \in Runs \ {r} : loop'[q] = loop[q]
  <2>1. loop' = [loop EXCEPT ![r] = v]
    BY <1>1, <1>2
  <2> QED
    BY <1>1, <1>4, <2>1, LoopMoved
<1>7. input' \in [Runs -> Buffers(M)] /\ input'[r] = t /\ \A q \in Runs \ {r} : input'[q] = input[q]
  BY <1>1, <1>2, <1>5 DEF LoopType
<1>8. LoopType(M)'
  BY <1>1, <1>6, <1>7 DEF LoopType
<1>9. OthersKept(r)
  BY <1>1, <1>6, <1>7 DEF OthersKept
<1>10. Heard(r)'
  BY <1>1, <1>4, <1>5, <1>6, <1>7 DEF Heard
<1>11. LoopInv(M)'
  BY <1>5, <1>7, <1>8, <1>9, <1>10, StepKeeps
<1>12. Given(r)' \subseteq Given(r) /\ ToSet(Texts(t.steered)) = {}
  <2>1. ToSet(<<>>) = {} /\ Texts(<<>>) = <<>>
    BY EmptySeq, ToSetOf, TextsEmpty
  <2> QED
    BY <1>1, <1>5, <1>7, <2>1 DEF Given
<1> QED
  BY <1>1, <1>4, <1>6, <1>7, <1>9, <1>11, <1>12 DEF LoopEffect

LEMMA LoopStepKeeps ==
    ASSUME NEW M, LoopInv(M), NEW r \in Runs, LoopStep(r)
    PROVE  LoopInv(M)' /\ LoopEffect(r)
BY BeginKeeps, TopKeeps, SettleKeeps, ReturnKeeps, GeneratedKeeps DEF LoopStep

LEMMA ToolsDoneKeeps ==
    ASSUME NEW M, LoopInv(M), NEW r \in Runs, ToolsDone(r)
    PROVE  /\ LoopInv(M)' /\ OthersKept(r) /\ loop'[r].at = "settle"
           /\ UNCHANGED <<input, signal, context, owed>>
<1>1. /\ loop[r].at = "tools" /\ LoopType(M) /\ Heard(r) /\ Exact(input[r])
      /\ loop' = [loop EXCEPT ![r].at = "settle"]
      /\ UNCHANGED <<input, signal, context, owed>>
  BY DEF ToolsDone, LoopInv
<1>2. PICK v : v = [loop[r] EXCEPT !.at = "settle"]
  OBVIOUS
<1>3. /\ v \in LoopRecords /\ v.at = "settle" /\ v.turn = loop[r].turn /\ v.fresh = loop[r].fresh
  BY <1>1, <1>2, LoopFields DEF LoopRecords, Locations
<1>4. loop' \in [Runs -> LoopRecords] /\ loop'[r] = v /\ \A q \in Runs \ {r} : loop'[q] = loop[q]
  BY <1>1, <1>2, <1>3, LoopMoved
<1>5. LoopType(M)' /\ OthersKept(r)
  BY <1>1, <1>4 DEF LoopType, OthersKept
<1>6. Heard(r)'
  BY <1>1, <1>3, <1>4 DEF Heard, Given
<1> QED
  BY <1>1, <1>3, <1>4, <1>5, <1>6, StepKeeps

-----------------------------------------------------------------------------
(* ControlHandle *)

\* Run r's buffer becomes t.
LEMMA ControlKeeps ==
    ASSUME NEW M, LoopInv(M), NEW r \in Runs, NEW t,
           input' = [input EXCEPT ![r] = t], t \in Buffers(M), Exact(t),
           t.closed = input[r].closed,
           UNCHANGED <<signal, loop, context>>,
           owed' \in [Runs -> SUBSET M], \A q \in Runs \ {r} : owed'[q] = owed[q],
           owed[r] \subseteq Given(r) /\ ~input[r].closed => owed'[r] \subseteq context[r] \cup Buffered(t),
           owed[r] \subseteq Buffered(input[r]) /\ ~input[r].closed => owed'[r] \subseteq Buffered(t),
           loop[r].at \in {"ending", "returned"} /\ owed[r] = {} => owed'[r] = {},
           input[r].closed => t = input[r] /\ owed'[r] = owed[r]
    PROVE  LoopInv(M)' /\ OthersKept(r) /\ input'[r] = t
<1>0. LoopType(M) /\ Heard(r)
  BY DEF LoopInv
<1>1. input' \in [Runs -> Buffers(M)] /\ input'[r] = t /\ \A q \in Runs \ {r} : input'[q] = input[q]
  BY <1>0 DEF LoopType
<1>2. LoopType(M)'
  BY <1>0, <1>1 DEF LoopType
<1>3. OthersKept(r)
  BY <1>1 DEF OthersKept
<1>4. Heard(r)'
  <2>1. CASE input[r].closed
    BY <1>0, <1>1, <2>1 DEF Heard, Given
  <2>2. CASE ~input[r].closed
    BY <1>0, <1>1, <2>2 DEF Heard, Given
  <2> QED
    BY <2>1, <2>2
<1> QED
  BY <1>1, <1>2, <1>3, <1>4, StepKeeps

LEMMA Owing ==
    ASSUME NEW M, NEW r, NEW s, LoopType(M), r \in Runs, s \subseteq M, owed' = Owe(r, s)
    PROVE  /\ owed' \in [Runs -> SUBSET M] /\ \A q \in Runs \ {r} : owed'[q] = owed[q]
           /\ loop[r].at = "ending" => owed'[r] = owed[r]
           /\ loop[r].at # "ending" => owed'[r] = owed[r] \cup s
BY DEF LoopType, Owe

LEMMA InjectKeeps ==
    ASSUME NEW M, LoopInv(M), NEW r \in Runs, NEW messages \in Seq(M),
           AdmitsBatch(input[r], messages), InjectInto(r, messages)
    PROVE  /\ LoopInv(M)' /\ OthersKept(r) /\ UNCHANGED <<signal, loop, context>>
           /\ Given(r)' = Given(r) \cup ToSet(messages)
           /\ input'[r].closed = input[r].closed /\ input'[r].steered = input[r].steered
<1>1. LoopType(M) /\ Heard(r) /\ Exact(input[r]) /\ input[r] \in Buffers(M)
  BY LoopFields DEF LoopInv
<1>2. PICK b, t, s : b = input[r] /\ t = Inject(b, messages) /\ s = ToSet(messages)
  OBVIOUS
<1>3. /\ t \in Buffers(M) /\ Exact(t) /\ Buffered(t) = Buffered(b) \cup s
      /\ t.closed = b.closed /\ t.steered = b.steered /\ t.injected = b.injected \o messages
  <2>1. b \in Buffers(M) /\ Exact(b) /\ AdmitsBatch(b, messages)
    BY <1>1, <1>2
  <2>2. /\ Inject(b, messages) \in Buffers(M) /\ Exact(Inject(b, messages))
        /\ Buffered(Inject(b, messages)) = Buffered(b) \cup ToSet(messages)
        /\ Inject(b, messages).closed = b.closed /\ Inject(b, messages).steered = b.steered
        /\ Inject(b, messages).injected = b.injected \o messages
    BY <2>1, InjectExact
  <2> QED
    BY <1>2, <2>2
<1>4. s \subseteq M
  BY <1>2, ToSetOf
<1>5. /\ owed' \in [Runs -> SUBSET M] /\ \A q \in Runs \ {r} : owed'[q] = owed[q]
      /\ loop[r].at = "ending" => owed'[r] = owed[r]
      /\ loop[r].at # "ending" => owed'[r] = owed[r] \cup s
  <2>1. owed' = Owe(r, s)
    BY <1>2 DEF InjectInto
  <2> QED
    BY <1>1, <1>4, <2>1, Owing
<1>6. input' = [input EXCEPT ![r] = t] /\ UNCHANGED <<signal, loop, context>>
  BY <1>2 DEF InjectInto
<1>7. b.closed => s = {} /\ t = b
  <2> SUFFICES ASSUME b.closed PROVE s = {} /\ t = b
    OBVIOUS
  <2>1. messages = <<>>
    BY <1>2 DEF AdmitsBatch, Admits
  <2>2. s = {} /\ Len(messages) = 0 /\ TotalBytes(messages) = 0
    BY <1>2, <2>1, EmptySeq, ToSetOf, TotalEmpty
  <2>3. b \in Buffers(M) /\ b.injected \in Seq(M) /\ b.accepted_items \in Nat /\ b.accepted_bytes \in Nat
    BY <1>1, <1>2, BufferFields
  <2>4. b.injected \o messages = b.injected
    BY <2>1, <2>3, ConcatEmptySeq
  <2>5. t = Accepted([b EXCEPT !.injected = b.injected], 0, 0)
    BY <1>2, <2>2, <2>4 DEF Inject
  <2>6. [b EXCEPT !.injected = b.injected] = b
    BY <2>3 DEF Buffers
  <2>7. Accepted(b, 0, 0) = b
    <3>1. b.accepted_items + 0 = b.accepted_items /\ b.accepted_bytes + 0 = b.accepted_bytes
      BY <2>3
    <3>2. Accepted(b, 0, 0) = [b EXCEPT !.accepted_items = b.accepted_items,
                                        !.accepted_bytes = b.accepted_bytes]
      BY <3>1 DEF Accepted
    <3> QED
      BY <2>3, <3>2 DEF Buffers
  <2> QED
    BY <2>2, <2>5, <2>6, <2>7
<1>8. b.closed => owed'[r] = owed[r]
  BY <1>5, <1>7
<1>9. loop[r].at = "returned" => b.closed
  BY <1>1, <1>2 DEF Heard
<1>10. LoopInv(M)' /\ OthersKept(r) /\ input'[r] = t
  <2>1. owed[r] \subseteq Given(r) /\ ~input[r].closed => owed'[r] \subseteq context[r] \cup Buffered(t)
    BY <1>2, <1>3, <1>5 DEF Given
  <2>2. owed[r] \subseteq Buffered(input[r]) /\ ~input[r].closed => owed'[r] \subseteq Buffered(t)
    BY <1>2, <1>3, <1>5
  <2>3. loop[r].at \in {"ending", "returned"} /\ owed[r] = {} => owed'[r] = {}
    BY <1>5, <1>8, <1>9
  <2>4. input[r].closed => t = input[r] /\ owed'[r] = owed[r]
    BY <1>2, <1>7, <1>8
  <2>5. t \in Buffers(M) /\ Exact(t) /\ t.closed = input[r].closed
    BY <1>2, <1>3
  <2>6. owed' \in [Runs -> SUBSET M] /\ \A q \in Runs \ {r} : owed'[q] = owed[q]
    BY <1>5
  <2> QED
    BY <1>6, <2>1, <2>2, <2>3, <2>4, <2>5, <2>6, ControlKeeps, ZenonT(40)
<1> QED
  BY <1>2, <1>3, <1>6, <1>10 DEF Given

\* What steering run r does to the rest of the model: messages of N come, and
\* only steered messages go.
SteerEffect(r, N) ==
    /\ OthersKept(r) /\ UNCHANGED <<signal, loop, context>>
    /\ input'[r].closed = input[r].closed
    /\ Given(r) \ ToSet(Texts(input[r].steered)) \subseteq Given(r)'
    /\ Given(r)' \subseteq Given(r) \cup N
    /\ ToSet(Texts(input'[r].steered)) \subseteq ToSet(Texts(input[r].steered)) \cup N

LEMMA SteerKeeps ==
    ASSUME NEW M, LoopInv(M), NEW r \in Runs, NEW m \in M, SteerRun(r, m)
    PROVE  LoopInv(M)' /\ SteerEffect(r, {m})
<1>1. LoopType(M) /\ Heard(r) /\ Exact(input[r]) /\ input[r] \in Buffers(M)
  BY LoopFields DEF LoopInv
<1>2. PICK b, t : b = input[r] /\ t = Steer(b, m)
  OBVIOUS
<1>3. /\ t \in Buffers(M) /\ Exact(t) /\ Buffered(t) = Buffered(b) \cup {m} /\ t.closed = b.closed
      /\ t.injected = b.injected /\ ToSet(Texts(t.steered)) = ToSet(Texts(b.steered)) \cup {m}
  <2>1. b \in Buffers(M) /\ Exact(b) /\ AdmitsSteer(b, m)
    BY <1>1, <1>2 DEF SteerRun
  <2>2. /\ Steer(b, m) \in Buffers(M) /\ Exact(Steer(b, m))
        /\ Buffered(Steer(b, m)) = Buffered(b) \cup {m}
        /\ Steer(b, m).closed = b.closed /\ Steer(b, m).injected = b.injected
        /\ ToSet(Texts(Steer(b, m).steered)) = ToSet(Texts(b.steered)) \cup {m}
    BY <2>1, SteerExact
  <2> QED
    BY <1>2, <2>2
<1>4. ~b.closed
  BY <1>2 DEF SteerRun, AdmitsSteer, Admits
<1>5. /\ owed' \in [Runs -> SUBSET M] /\ \A q \in Runs \ {r} : owed'[q] = owed[q]
      /\ loop[r].at = "ending" => owed'[r] = owed[r]
      /\ loop[r].at # "ending" => owed'[r] = owed[r] \cup {m}
  <2>1. PICK s : s = {m}
    OBVIOUS
  <2>2. owed' = Owe(r, s) /\ s \subseteq M
    BY <2>1 DEF SteerRun
  <2>3. /\ owed' \in [Runs -> SUBSET M] /\ \A q \in Runs \ {r} : owed'[q] = owed[q]
        /\ loop[r].at = "ending" => owed'[r] = owed[r]
        /\ loop[r].at # "ending" => owed'[r] = owed[r] \cup s
    BY <1>1, <2>2, Owing
  <2> QED
    BY <2>1, <2>3
<1>6. input' = [input EXCEPT ![r] = t] /\ UNCHANGED <<signal, loop, context>>
  BY <1>2 DEF SteerRun
<1>7. loop[r].at # "returned"
  BY <1>1, <1>2, <1>4 DEF Heard
<1>8. LoopInv(M)' /\ OthersKept(r) /\ input'[r] = t
  <2>1. owed[r] \subseteq Given(r) /\ ~input[r].closed => owed'[r] \subseteq context[r] \cup Buffered(t)
    BY <1>2, <1>3, <1>5 DEF Given
  <2>2. owed[r] \subseteq Buffered(input[r]) /\ ~input[r].closed => owed'[r] \subseteq Buffered(t)
    BY <1>2, <1>3, <1>5
  <2>3. loop[r].at \in {"ending", "returned"} /\ owed[r] = {} => owed'[r] = {}
    BY <1>5, <1>7
  <2>4. input[r].closed => t = input[r] /\ owed'[r] = owed[r]
    BY <1>2, <1>4
  <2>5. t \in Buffers(M) /\ Exact(t) /\ t.closed = input[r].closed
    BY <1>2, <1>3
  <2>6. owed' \in [Runs -> SUBSET M] /\ \A q \in Runs \ {r} : owed'[q] = owed[q]
    BY <1>5
  <2> QED
    BY <1>6, <2>1, <2>2, <2>3, <2>4, <2>5, <2>6, ControlKeeps, ZenonT(40)
<1> QED
  BY <1>2, <1>3, <1>6, <1>8 DEF Given, SteerEffect

LEMMA UpdateKeeps ==
    ASSUME NEW M, LoopInv(M), NEW r \in Runs, NEW id, NEW m \in M, UpdateSteer(r, id, m)
    PROVE  LoopInv(M)' /\ SteerEffect(r, {m})
<1>1. LoopType(M) /\ Heard(r) /\ Exact(input[r]) /\ input[r] \in Buffers(M)
  BY LoopFields DEF LoopInv
<1>2. PICK b, t, old : /\ b = input[r] /\ t = Update(b, id, m)
                       /\ old = b.steered[IndexOfSteer(b, id)].message
  OBVIOUS
<1>3. b \in Buffers(M) /\ Exact(b) /\ AdmitsUpdate(b, id, m) /\ id \in SteerIds(b) /\ ~b.closed
  BY <1>1, <1>2 DEF UpdateSteer, AdmitsUpdate
<1>4. /\ t \in Buffers(M) /\ Exact(t) /\ t.closed = b.closed /\ t.injected = b.injected
      /\ ToSet(Texts(t.steered)) \subseteq ToSet(Texts(b.steered)) \cup {m}
      /\ m \in ToSet(Texts(t.steered))
      /\ ToSet(Texts(b.steered)) \ {old} \subseteq ToSet(Texts(t.steered))
  <2>1. /\ Update(b, id, m) \in Buffers(M) /\ Exact(Update(b, id, m))
        /\ Update(b, id, m).closed = b.closed
        /\ Update(b, id, m).injected = b.injected
        /\ ToSet(Texts(Update(b, id, m).steered)) \subseteq ToSet(Texts(b.steered)) \cup {m}
        /\ m \in ToSet(Texts(Update(b, id, m).steered))
        /\ ToSet(Texts(b.steered)) \ {b.steered[IndexOfSteer(b, id)].message}
              \subseteq ToSet(Texts(Update(b, id, m).steered))
    <3>1. b \in Buffers(M) /\ Exact(b) /\ m \in M /\ AdmitsUpdate(b, id, m)
      BY <1>3
    <3> QED
      BY <3>1, UpdateExact
  <2> QED
    BY <1>2, <2>1
<1>5. old \in ToSet(Texts(b.steered))
  BY <1>2, <1>3, SteerFound
<1>6. /\ Buffered(b) = ToSet(b.injected) \cup ToSet(Texts(b.steered))
      /\ Buffered(t) = ToSet(t.injected) \cup ToSet(Texts(t.steered))
  BY <1>3, <1>4, BufferedOf
<1>7. /\ Buffered(b) \ {old} \subseteq Buffered(t) /\ m \in Buffered(t)
      /\ Buffered(t) \subseteq Buffered(b) \cup {m}
  BY <1>4, <1>6
<1>8. owed' = IF old \in owed[r] THEN [owed EXCEPT ![r] = (owed[r] \ {old}) \cup {m}] ELSE owed
  BY <1>2 DEF UpdateSteer
<1>9. /\ owed' \in [Runs -> SUBSET M] /\ \A q \in Runs \ {r} : owed'[q] = owed[q]
      /\ owed'[r] = IF old \in owed[r] THEN (owed[r] \ {old}) \cup {m} ELSE owed[r]
  BY <1>1, <1>8 DEF LoopType
<1>10. input' = [input EXCEPT ![r] = t] /\ UNCHANGED <<signal, loop, context>>
  BY <1>2 DEF UpdateSteer
<1>11. LoopInv(M)' /\ OthersKept(r) /\ input'[r] = t
  <2>1. owed[r] \subseteq Given(r) /\ ~input[r].closed => owed'[r] \subseteq context[r] \cup Buffered(t)
    BY <1>2, <1>7, <1>9 DEF Given
  <2>2. owed[r] \subseteq Buffered(input[r]) /\ ~input[r].closed => owed'[r] \subseteq Buffered(t)
    BY <1>2, <1>7, <1>9
  <2>3. loop[r].at \in {"ending", "returned"} /\ owed[r] = {} => owed'[r] = {}
    BY <1>9
  <2>4. input[r].closed => t = input[r] /\ owed'[r] = owed[r]
    BY <1>2, <1>3
  <2>5. t \in Buffers(M) /\ Exact(t) /\ t.closed = input[r].closed
    BY <1>2, <1>4
  <2> QED
    BY <1>9, <1>10, <2>1, <2>2, <2>3, <2>4, <2>5, ControlKeeps
<1>12. Given(r) = context[r] \cup Buffered(b) /\ Given(r)' = context[r] \cup Buffered(t)
  BY <1>2, <1>10, <1>11 DEF Given
<1> QED
  BY <1>2, <1>4, <1>5, <1>7, <1>10, <1>11, <1>12 DEF SteerEffect

LEMMA CancelKeeps ==
    ASSUME NEW M, LoopInv(M), NEW r \in Runs, NEW id, CancelSteer(r, id)
    PROVE  LoopInv(M)' /\ SteerEffect(r, {})
<1>1. LoopType(M) /\ Heard(r) /\ Exact(input[r]) /\ input[r] \in Buffers(M)
  BY LoopFields DEF LoopInv
<1>2. PICK b, t, old : /\ b = input[r] /\ t = Cancel(b, id)
                       /\ old = b.steered[IndexOfSteer(b, id)].message
  OBVIOUS
<1>3. b \in Buffers(M) /\ Exact(b) /\ id \in SteerIds(b)
  BY <1>1, <1>2 DEF CancelSteer
<1>4. /\ t \in Buffers(M) /\ Exact(t) /\ t.closed = b.closed /\ t.injected = b.injected
      /\ ToSet(Texts(t.steered)) \subseteq ToSet(Texts(b.steered))
      /\ ToSet(Texts(b.steered)) \ {old} \subseteq ToSet(Texts(t.steered))
  <2>1. /\ Cancel(b, id) \in Buffers(M) /\ Exact(Cancel(b, id))
        /\ Cancel(b, id).closed = b.closed
        /\ Cancel(b, id).injected = b.injected
        /\ ToSet(Texts(Cancel(b, id).steered)) \subseteq ToSet(Texts(b.steered))
        /\ ToSet(Texts(b.steered)) \ {b.steered[IndexOfSteer(b, id)].message}
              \subseteq ToSet(Texts(Cancel(b, id).steered))
    BY <1>3, CancelExact
  <2> QED
    BY <1>2, <2>1
<1>5. old \in ToSet(Texts(b.steered))
  BY <1>2, <1>3, SteerFound
<1>6. /\ Buffered(b) = ToSet(b.injected) \cup ToSet(Texts(b.steered))
      /\ Buffered(t) = ToSet(t.injected) \cup ToSet(Texts(t.steered))
  BY <1>3, <1>4, BufferedOf
<1>7. Buffered(b) \ {old} \subseteq Buffered(t) /\ Buffered(t) \subseteq Buffered(b)
  BY <1>4, <1>6
<1>8. /\ owed' \in [Runs -> SUBSET M] /\ \A q \in Runs \ {r} : owed'[q] = owed[q]
      /\ owed'[r] = owed[r] \ {old}
  <2>1. owed' = [owed EXCEPT ![r] = owed[r] \ {old}]
    BY <1>2 DEF CancelSteer
  <2> QED
    BY <1>1, <2>1 DEF LoopType
<1>9. input' = [input EXCEPT ![r] = t] /\ UNCHANGED <<signal, loop, context>>
  BY <1>2 DEF CancelSteer
<1>10. ~b.closed
  <2>1. b.closed => b.steered = <<>>
    BY <1>1, <1>2 DEF Heard
  <2>2. b.steered # <<>>
    BY <1>3 DEF SteerIds
  <2> QED
    BY <2>1, <2>2
<1>11. LoopInv(M)' /\ OthersKept(r) /\ input'[r] = t
  <2>1. owed[r] \subseteq Given(r) /\ ~input[r].closed => owed'[r] \subseteq context[r] \cup Buffered(t)
    BY <1>2, <1>7, <1>8 DEF Given
  <2>2. owed[r] \subseteq Buffered(input[r]) /\ ~input[r].closed => owed'[r] \subseteq Buffered(t)
    BY <1>2, <1>7, <1>8
  <2>3. loop[r].at \in {"ending", "returned"} /\ owed[r] = {} => owed'[r] = {}
    BY <1>8
  <2>4. input[r].closed => t = input[r] /\ owed'[r] = owed[r]
    BY <1>2, <1>10
  <2>5. t \in Buffers(M) /\ Exact(t) /\ t.closed = input[r].closed
    BY <1>2, <1>4
  <2> QED
    BY <1>8, <1>9, <2>1, <2>2, <2>3, <2>4, <2>5, ControlKeeps
<1>12. Given(r) = context[r] \cup Buffered(b) /\ Given(r)' = context[r] \cup Buffered(t)
  BY <1>2, <1>9, <1>11 DEF Given
<1> QED
  BY <1>2, <1>4, <1>5, <1>7, <1>9, <1>11, <1>12 DEF SteerEffect

LEMMA CancelAllKeeps ==
    ASSUME NEW M, LoopInv(M), NEW r \in Runs, CancelSteers(r)
    PROVE  LoopInv(M)' /\ SteerEffect(r, {})
<1>1. LoopType(M) /\ Heard(r) /\ Exact(input[r]) /\ input[r] \in Buffers(M)
  BY LoopFields DEF LoopInv
<1>2. PICK b, t, s : b = input[r] /\ t = TakeSteered(b) /\ s = ToSet(Texts(b.steered))
  OBVIOUS
<1>3. b \in Buffers(M) /\ Exact(b) /\ b.steered # <<>>
  BY <1>1, <1>2 DEF CancelSteers
<1>4. /\ t \in Buffers(M) /\ Exact(t) /\ t.closed = b.closed /\ t.injected = b.injected
      /\ t.steered = <<>> /\ Buffered(t) = ToSet(b.injected)
  BY <1>2, <1>3, TakeExact
<1>5. Buffered(b) = ToSet(b.injected) \cup s /\ SteeredMessages(b) = Texts(b.steered)
  BY <1>2, <1>3, BufferedOf
<1>6. ToSet(Texts(t.steered)) = {}
  <2>1. ToSet(<<>>) = {} /\ Texts(<<>>) = <<>>
    BY EmptySeq, ToSetOf, TextsEmpty
  <2> QED
    BY <1>4, <2>1
<1>7. /\ owed' \in [Runs -> SUBSET M] /\ \A q \in Runs \ {r} : owed'[q] = owed[q]
      /\ owed'[r] = owed[r] \ s
  <2>1. owed' = [owed EXCEPT ![r] = owed[r] \ s]
    BY <1>2, <1>5 DEF CancelSteers
  <2> QED
    BY <1>1, <2>1 DEF LoopType
<1>8. input' = [input EXCEPT ![r] = t] /\ UNCHANGED <<signal, loop, context>>
  BY <1>2 DEF CancelSteers
<1>9. ~b.closed
  BY <1>1, <1>2, <1>3 DEF Heard
<1>10. LoopInv(M)' /\ OthersKept(r) /\ input'[r] = t
  <2>1. owed[r] \subseteq Given(r) /\ ~input[r].closed => owed'[r] \subseteq context[r] \cup Buffered(t)
    BY <1>2, <1>4, <1>5, <1>7 DEF Given
  <2>2. owed[r] \subseteq Buffered(input[r]) /\ ~input[r].closed => owed'[r] \subseteq Buffered(t)
    BY <1>2, <1>4, <1>5, <1>7
  <2>3. loop[r].at \in {"ending", "returned"} /\ owed[r] = {} => owed'[r] = {}
    BY <1>7
  <2>4. input[r].closed => t = input[r] /\ owed'[r] = owed[r]
    BY <1>2, <1>9
  <2>5. t \in Buffers(M) /\ Exact(t) /\ t.closed = input[r].closed
    BY <1>2, <1>4
  <2> QED
    BY <1>7, <1>8, <2>1, <2>2, <2>3, <2>4, <2>5, ControlKeeps
<1>11. Given(r) = context[r] \cup Buffered(b) /\ Given(r)' = context[r] \cup Buffered(t)
  BY <1>2, <1>8, <1>10 DEF Given
<1> QED
  BY <1>2, <1>4, <1>5, <1>6, <1>8, <1>10, <1>11 DEF SteerEffect
=============================================================================
