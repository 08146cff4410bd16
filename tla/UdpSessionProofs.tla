--------------------------- MODULE UdpSessionProofs ---------------------------
(***************************************************************************)
(* The mapped DNS keeps its records consistent and keeps the promise of    *)
(* AddressBook, for every cache size and every set of names.  Above it, a  *)
(* UDP session sends what it has queued to where it was meant to go, and   *)
(* misses no wake-up, for every size of queue and of batch.                *)
(***************************************************************************)
EXTENDS UdpSession, FunctionTheorems, FiniteSetTheorems, SequenceTheorems, TLAPS

USE DnsAssumption

-----------------------------------------------------------------------------
(* The mapped DNS.                                                         *)

(* hev_list_del followed by hev_list_add_tail permutes the list. *)
LEMMA ToTailShape ==
  ASSUME NEW s \in Seq(Names), NEW p \in 1 .. Len(s)
  PROVE  /\ ToTail(s, p) \in Seq(Names)
         /\ Len(ToTail(s, p)) = Len(s)
         /\ \A k \in 1 .. Len(s) : ToTail(s, p)[k] =
              IF k < p THEN s[k] ELSE IF k < Len(s) THEN s[k + 1] ELSE s[p]
BY DEF ToTail

(* The effect of a use on a list that agrees with the other structures. *)
LEMMA TouchKeeps ==
  ASSUME DnsInv, NEW n \in Names, HasNode(n), Touch(n), Used(n),
         UNCHANGED <<records, idx, use>>
  PROVE  DnsInv'
<1>1. PICK p \in 1 .. Len(list) : list[p] = n /\ list' = ToTail(list, p)
  BY DEF Touch
<1>2. /\ list \in Seq(Names) /\ list' \in Seq(Names)
      /\ Len(list) \in Nat
      /\ Len(list') = Len(list)
      /\ \A k \in 1 .. Len(list) : list'[k] =
           IF k < p THEN list[k] ELSE IF k < Len(list) THEN list[k + 1] ELSE list[p]
  BY <1>1, ToTailShape DEF DnsInv, TypeOK
<1>3. since' \in [Names -> SUBSET Names]
  BY DEF Used, DnsInv, TypeOK
<1>4. TypeOK'
  BY <1>2, <1>3 DEF DnsInv, TypeOK
<1>5. \A j, k \in 1 .. Len(list') : list'[j] = list'[k] => j = k
  <2>1. \A j, k \in 1 .. Len(list) : list[j] = list[k] => j = k
    BY DEF DnsInv, Consistent
  <2>2. QED
    BY <1>2, <2>1
<1>6. Listed' = Listed
  <2>1. ASSUME NEW k \in 1 .. Len(list) PROVE \E j \in 1 .. Len(list) : list'[k] = list[j]
    <3>1. CASE k < p
      BY <1>2, <3>1
    <3>2. CASE k >= p /\ k < Len(list)
      <4>1. k + 1 \in 1 .. Len(list) /\ list'[k] = list[k + 1]
        BY <1>2, <3>2
      <4>2. QED
        BY <4>1
    <3>3. CASE k = Len(list)
      BY <1>2, <3>3
    <3>4. QED
      BY <1>2, <3>1, <3>2, <3>3
  <2>2. ASSUME NEW j \in 1 .. Len(list) PROVE \E k \in 1 .. Len(list) : list'[k] = list[j]
    <3>1. CASE j < p
      BY <1>2, <3>1
    <3>2. CASE j > p
      <4>1. j - 1 \in 1 .. Len(list) /\ list'[j - 1] = list[j]
        BY <1>2, <3>2
      <4>2. QED
        BY <4>1
    <3>3. CASE j = p
      <4>1. Len(list) \in 1 .. Len(list) /\ list'[Len(list)] = list[p]
        BY <1>2
      <4>2. QED
        BY <3>3, <4>1
    <3>4. QED
      BY <1>2, <3>1, <3>2, <3>3
  <2>3. QED
    <3>1. {list'[k] : k \in 1 .. Len(list)} = {list[j] : j \in 1 .. Len(list)}
      <4>1. \A k \in 1 .. Len(list) : list'[k] \in {list[j] : j \in 1 .. Len(list)}
        BY <2>1, Zenon
      <4>2. \A j \in 1 .. Len(list) : list[j] \in {list'[k] : k \in 1 .. Len(list)}
        BY <2>2, Zenon
      <4>3. QED
        BY <4>1, <4>2, Zenon
    <3>2. QED
      BY <1>2, <3>1 DEF Listed
<1>7. Consistent'
  BY <1>2, <1>5, <1>6 DEF DnsInv, Consistent, HasNode
<1>8. ListIsRecency'
  <2> SUFFICES ASSUME NEW k \in 1 .. Len(list)
               PROVE  since'[list'[k]] = {list'[q] : q \in k + 1 .. Len(list)}
    BY <1>2 DEF ListIsRecency
  <2>1. \A q \in 1 .. Len(list) : since[list[q]] = {list[r] : r \in q + 1 .. Len(list)}
    BY DEF DnsInv, ListIsRecency
  <2>2. \A q \in 1 .. Len(list) : list[q] = n <=> q = p
    BY <1>1 DEF DnsInv, Consistent
  <2>3. \A q \in 1 .. Len(list) : list[q] \in Names
    BY <1>2
  <2>4. CASE k < p
    <3>1. since'[list'[k]] = {list[r] : r \in k + 1 .. Len(list)}
      <4>1. list'[k] = list[k] /\ list[k] # n
        BY <1>2, <2>2, <2>4
      <4>2. n \in {list[r] : r \in k + 1 .. Len(list)}
        BY <1>1, <1>2, <2>4
      <4>3. QED
        BY <2>1, <2>3, <4>1, <4>2 DEF Used
    <3>2. \A q \in k + 1 .. Len(list) : \E r \in k + 1 .. Len(list) : list'[q] = list[r]
      <4> SUFFICES ASSUME NEW q \in k + 1 .. Len(list)
                   PROVE  \E r \in k + 1 .. Len(list) : list'[q] = list[r]
        OBVIOUS
      <4>1. CASE q < p
        BY <1>2, <4>1
      <4>2. CASE q >= p /\ q < Len(list)
        <5>1. q + 1 \in k + 1 .. Len(list) /\ list'[q] = list[q + 1]
          BY <1>2, <4>2
        <5>2. QED
          BY <5>1
      <4>3. CASE q = Len(list)
        <5>1. p \in k + 1 .. Len(list) /\ list'[q] = list[p]
          BY <1>2, <2>4, <4>3
        <5>2. QED
          BY <5>1
      <4>4. QED
        BY <1>2, <4>1, <4>2, <4>3
    <3>3. \A r \in k + 1 .. Len(list) : \E q \in k + 1 .. Len(list) : list'[q] = list[r]
      <4> SUFFICES ASSUME NEW r \in k + 1 .. Len(list)
                   PROVE  \E q \in k + 1 .. Len(list) : list'[q] = list[r]
        OBVIOUS
      <4>1. CASE r < p
        BY <1>2, <4>1
      <4>2. CASE r > p
        <5>1. r - 1 \in k + 1 .. Len(list) /\ list'[r - 1] = list[r]
          BY <1>2, <2>4, <4>2
        <5>2. QED
          BY <5>1
      <4>3. CASE r = p
        <5>1. Len(list) \in k + 1 .. Len(list) /\ list'[Len(list)] = list[p]
          BY <1>2, <2>4
        <5>2. QED
          BY <4>3, <5>1
      <4>4. QED
        BY <1>2, <4>1, <4>2, <4>3
    <3>4. {list[r] : r \in k + 1 .. Len(list)} = {list'[q] : q \in k + 1 .. Len(list)}
      <4>1. \A q \in k + 1 .. Len(list) : list'[q] \in {list[r] : r \in k + 1 .. Len(list)}
        BY <3>2, Zenon
      <4>2. \A r \in k + 1 .. Len(list) : list[r] \in {list'[q] : q \in k + 1 .. Len(list)}
        BY <3>3, Zenon
      <4>3. QED
        BY <4>1, <4>2, Zenon
    <3>5. QED
      BY <3>1, <3>4
  <2>5. CASE k >= p /\ k < Len(list)
    <3>1. k + 1 \in 1 .. Len(list) /\ list'[k] = list[k + 1] /\ list[k + 1] # n
      BY <1>2, <2>2, <2>5
    <3>2. since'[list'[k]] = {list[r] : r \in (k + 1) + 1 .. Len(list)} \cup {n}
      BY <1>2, <2>1, <2>3, <3>1 DEF Used
    <3>3. ASSUME NEW r \in (k + 1) + 1 .. Len(list)
          PROVE  r - 1 \in k + 1 .. Len(list) /\ list'[r - 1] = list[r]
      <4>1. r - 1 \in 1 .. Len(list) /\ r - 1 >= p /\ r - 1 < Len(list) /\ (r - 1) + 1 = r
        BY <1>2, <2>5
      <4>2. QED
        BY <1>2, <4>1
    <3>4. Len(list) \in k + 1 .. Len(list) /\ list'[Len(list)] = n
      BY <1>1, <1>2, <2>5
    <3>5. \A q \in k + 1 .. Len(list) :
            q = Len(list) \/ (q + 1 \in (k + 1) + 1 .. Len(list) /\ list'[q] = list[q + 1])
      BY <1>2, <2>5
    <3>6. {list[r] : r \in (k + 1) + 1 .. Len(list)} \cup {n} = {list'[q] : q \in k + 1 .. Len(list)}
      <4>1. ASSUME NEW r \in (k + 1) + 1 .. Len(list)
            PROVE  list[r] \in {list'[q] : q \in k + 1 .. Len(list)}
        BY <3>3, Zenon
      <4>2. n \in {list'[q] : q \in k + 1 .. Len(list)}
        BY <3>4, Zenon
      <4>3. ASSUME NEW q \in k + 1 .. Len(list)
            PROVE  list'[q] \in {list[r] : r \in (k + 1) + 1 .. Len(list)} \cup {n}
        BY <3>4, <3>5, Zenon
      <4>4. QED
        BY <4>1, <4>2, <4>3, Zenon
    <3>7. QED
      BY <3>2, <3>6
  <2>6. CASE k = Len(list)
    <3>1. list'[k] = n
      BY <1>1, <1>2, <2>6
    <3>2. {list'[q] : q \in k + 1 .. Len(list)} = {}
      BY <1>2, <2>6
    <3>3. since'[n] = {}
      BY DEF Used
    <3>4. QED
      BY <3>1, <3>2, <3>3
  <2>7. k < p \/ (k >= p /\ k < Len(list)) \/ k = Len(list)
    BY <1>2
  <2>8. QED
    BY <2>4, <2>5, <2>6, <2>7, Zenon
<1>9. QED
  BY <1>4, <1>7, <1>8 DEF DnsInv

(* A new node goes to an unused record. *)
LEMMA FindNewKeeps ==
  ASSUME DnsInv, NEW n \in Names, FindNew(n)
  PROVE  DnsInv'
<1>1. /\ list \in Seq(Names) /\ Len(list) \in Nat
      /\ list' \in Seq(Names) /\ Len(list') = Len(list) + 1
      /\ \A k \in 1 .. Len(list) : list'[k] = list[k]
      /\ list'[Len(list) + 1] = n
  BY DEF FindNew, DnsInv, TypeOK
<1>2. n \notin Listed
  BY DEF FindNew, DnsInv, Consistent
<1>3. use \in Indices /\ use = Len(list)
  BY DEF FindNew, DnsInv, TypeOK, Consistent, Indices
<1>4. TypeOK'
  <2>1. since' \in [Names -> SUBSET Names]
    BY DEF FindNew, Used, DnsInv, TypeOK
  <2>2. records' \in [Indices -> Names \cup {NoName}]
    BY DEF FindNew, DnsInv, TypeOK
  <2>3. idx' \in [Names -> Indices \cup {NoIdx}]
    BY <1>3 DEF FindNew, DnsInv, TypeOK
  <2>4. use' \in 0 .. Max
    BY <1>3 DEF FindNew, Indices
  <2>5. QED
    BY <1>1, <2>1, <2>2, <2>3, <2>4 DEF TypeOK
<1>5. \A j, k \in 1 .. Len(list') : list'[j] = list'[k] => j = k
  <2>1. \A k \in 1 .. Len(list) : list[k] # n
    BY <1>2 DEF Listed
  <2>2. QED
    BY <1>1, <2>1 DEF DnsInv, Consistent
<1>6. Listed' = Listed \cup {n}
  <2>1. ASSUME NEW k \in 1 .. Len(list') PROVE list'[k] \in Listed \cup {n}
    BY <1>1 DEF Listed
  <2>2. ASSUME NEW j \in 1 .. Len(list) PROVE list[j] \in Listed'
    <3>1. j \in 1 .. Len(list') /\ list'[j] = list[j]
      BY <1>1
    <3>2. QED
      BY <3>1 DEF Listed
  <2>3. n \in Listed'
    <3>1. Len(list) + 1 \in 1 .. Len(list') /\ list'[Len(list) + 1] = n
      BY <1>1
    <3>2. QED
      BY <3>1 DEF Listed
  <2>4. Listed' \subseteq Listed \cup {n}
    BY <2>1, Zenon DEF Listed
  <2>5. Listed \subseteq Listed'
    BY <2>2, Zenon DEF Listed
  <2>6. QED
    BY <2>3, <2>4, <2>5
<1>7. Consistent'
  <2>1. Listed' = {m \in Names : idx'[m] # NoIdx}
    BY <1>3, <1>6 DEF FindNew, DnsInv, TypeOK, Consistent, HasNode, Indices
  <2>2. \A m \in Listed' : records'[idx'[m]] = m
    BY <1>2, <1>3, <1>6 DEF FindNew, DnsInv, TypeOK, Consistent, HasNode, Indices
  <2>3. \A i \in Indices : records'[i] # NoName => idx'[records'[i]] = i
    BY <1>2, <1>3, <1>6 DEF FindNew, DnsInv, TypeOK, Consistent, HasNode, Indices
  <2>4. \A i \in Indices : records'[i] = NoName <=> i >= use'
    BY <1>3 DEF FindNew, DnsInv, TypeOK, Consistent, Indices
  <2>5. Len(list') = use'
    BY <1>1, <1>3 DEF FindNew
  <2>6. QED
    BY <1>5, <2>1, <2>2, <2>3, <2>4, <2>5 DEF Consistent, HasNode
<1>8. ListIsRecency'
  <2> SUFFICES ASSUME NEW k \in 1 .. Len(list')
               PROVE  since'[list'[k]] = {list'[q] : q \in k + 1 .. Len(list')}
    BY DEF ListIsRecency
  <2>1. CASE k = Len(list) + 1
    <3>1. k + 1 .. Len(list') = {}
      BY <1>1, <2>1
    <3>2. since'[list'[k]] = {}
      BY <1>1, <2>1 DEF FindNew, Used
    <3>3. QED
      BY <3>1, <3>2
  <2>2. CASE k \in 1 .. Len(list)
    <3>1. list'[k] = list[k] /\ list[k] \in Names /\ list[k] # n
      BY <1>1, <1>2, <2>2 DEF Listed
    <3>2. since'[list'[k]] = {list[q] : q \in k + 1 .. Len(list)} \cup {n}
      BY <2>2, <3>1 DEF FindNew, Used, DnsInv, ListIsRecency
    <3>3. \A q \in k + 1 .. Len(list) : q \in k + 1 .. Len(list') /\ list'[q] = list[q]
      BY <1>1, <2>2
    <3>4. Len(list) + 1 \in k + 1 .. Len(list') /\ list'[Len(list) + 1] = n
      BY <1>1, <2>2
    <3>5. \A q \in k + 1 .. Len(list') :
            q = Len(list) + 1 \/ (q \in k + 1 .. Len(list) /\ list'[q] = list[q])
      BY <1>1, <2>2
    <3>6. {list[q] : q \in k + 1 .. Len(list)} \cup {n} = {list'[q] : q \in k + 1 .. Len(list')}
      <4>1. ASSUME NEW q \in k + 1 .. Len(list)
            PROVE  list[q] \in {list'[r] : r \in k + 1 .. Len(list')}
        BY <3>3, Zenon
      <4>2. n \in {list'[q] : q \in k + 1 .. Len(list')}
        BY <3>4, Zenon
      <4>3. ASSUME NEW q \in k + 1 .. Len(list')
            PROVE  list'[q] \in {list[r] : r \in k + 1 .. Len(list)} \cup {n}
        BY <3>4, <3>5, Zenon
      <4>4. QED
        BY <4>1, <4>2, <4>3, Zenon
    <3>7. QED
      BY <3>2, <3>6
  <2>3. QED
    BY <1>1, <2>1, <2>2
<1>9. QED
  BY <1>4, <1>7, <1>8 DEF DnsInv

(* The list after an eviction: everybody moves up one place. *)
LEMMA EvictedList ==
  ASSUME DnsInv, NEW n \in Names, FindEvicts(n)
  PROVE  /\ list \in Seq(Names) /\ Len(list) = Max
         /\ list' \in Seq(Names) /\ Len(list') = Max
         /\ \A k \in 1 .. Max - 1 : list'[k] = list[k + 1]
         /\ list'[Max] = n
         /\ Head(list) = list[1] /\ list[1] \in Names
         /\ \A k \in 1 .. Max : list[k] # n
<1>1. list \in Seq(Names) /\ Len(list) = Max
  BY DEF FindEvicts, DnsInv, TypeOK, Consistent
<1>2. /\ Append(list, n) \in Seq(Names) /\ Len(Append(list, n)) = Max + 1
      /\ \A k \in 1 .. Max : Append(list, n)[k] = list[k]
      /\ Append(list, n)[Max + 1] = n
  BY <1>1
<1>3. list' = Tail(Append(list, n))
  BY DEF FindEvicts
<1>4. Append(list, n) # <<>>
  BY <1>2
<1>5. /\ list' \in Seq(Names) /\ Len(list') = Max
      /\ \A k \in 1 .. Max : list'[k] = Append(list, n)[k + 1]
  BY <1>2, <1>3, <1>4, HeadTailProperties
<1>6. \A k \in 1 .. Max : list[k] # n
  BY <1>1 DEF FindEvicts, DnsInv, Consistent, Listed
<1>7. QED
  BY <1>1, <1>2, <1>5, <1>6

(* A new node takes the record of the least recently used one. *)
LEMMA FindEvictsKeeps ==
  ASSUME DnsInv, NEW n \in Names, FindEvicts(n)
  PROVE  DnsInv'
<1> DEFINE old == list[1]
<1>1. /\ list \in Seq(Names) /\ Len(list) = Max
      /\ list' \in Seq(Names) /\ Len(list') = Max
      /\ \A k \in 1 .. Max - 1 : list'[k] = list[k + 1]
      /\ list'[Max] = n
      /\ Head(list) = old /\ old \in Names
      /\ \A k \in 1 .. Max : list[k] # n
  BY EvictedList
<1>2. /\ records' = [records EXCEPT ![idx[old]] = n]
      /\ idx' = [idx EXCEPT ![n] = idx[old], ![old] = NoIdx]
      /\ use' = use /\ use = Max
  BY <1>1 DEF FindEvicts
<1>3. old \in Listed /\ old # n /\ n \notin Listed
  BY <1>1 DEF Listed
<1>4. idx[old] \in Indices /\ idx[old] # NoIdx /\ records[idx[old]] = old
  BY <1>3 DEF DnsInv, TypeOK, Consistent, HasNode
<1>5. TypeOK'
  <2>1. since' \in [Names -> SUBSET Names]
    BY DEF FindEvicts, Used, DnsInv, TypeOK
  <2>2. QED
    BY <1>1, <1>2, <1>4, <2>1 DEF DnsInv, TypeOK
<1>6. \A j, k \in 1 .. Len(list') : list'[j] = list'[k] => j = k
  <2>1. \A j, k \in 1 .. Max : list[j] = list[k] => j = k
    BY <1>1 DEF DnsInv, Consistent
  <2>2. QED
    BY <1>1, <2>1
<1>7. Listed' = (Listed \ {old}) \cup {n}
  <2>1. ASSUME NEW k \in 1 .. Max PROVE list'[k] \in (Listed \ {old}) \cup {n}
    <3>1. CASE k = Max
      BY <1>1, <3>1
    <3>2. CASE k \in 1 .. Max - 1
      <4>1. k + 1 \in 1 .. Max /\ list'[k] = list[k + 1]
        BY <1>1, <3>2
      <4>2. list[k + 1] \in Listed
        BY <1>1, <4>1 DEF Listed
      <4>3. list[k + 1] # old
        BY <1>1, <3>2, <4>1 DEF DnsInv, Consistent
      <4>4. QED
        BY <4>1, <4>2, <4>3
    <3>3. QED
      BY <3>1, <3>2
  <2>2. ASSUME NEW j \in 1 .. Max PROVE list[j] # old => list[j] \in Listed'
    <3> HAVE list[j] # old
    <3>1. j - 1 \in 1 .. Max - 1
      OBVIOUS
    <3>2. j - 1 \in 1 .. Len(list') /\ list'[j - 1] = list[j]
      BY <1>1, <3>1
    <3>3. QED
      BY <3>2 DEF Listed
  <2>3. n \in Listed'
    <3>1. Max \in 1 .. Len(list') /\ list'[Max] = n
      BY <1>1
    <3>2. QED
      BY <3>1 DEF Listed
  <2>4. Listed' \subseteq (Listed \ {old}) \cup {n}
    <3>1. Listed' = {list'[k] : k \in 1 .. Max}
      BY <1>1 DEF Listed
    <3>2. QED
      BY <2>1, <3>1, Zenon
  <2>5. Listed \ {old} \subseteq Listed'
    <3>1. Listed = {list[k] : k \in 1 .. Max}
      BY <1>1 DEF Listed
    <3>2. QED
      BY <2>2, <3>1, Zenon
  <2>6. QED
    BY <2>3, <2>4, <2>5
<1>8. Consistent'
  <2>0. /\ Listed = {m \in Names : idx[m] # NoIdx}
        /\ \A m \in Listed : records[idx[m]] = m
        /\ \A i \in Indices : records[i] # NoName => idx[records[i]] = i
        /\ \A i \in Indices : records[i] # NoName
        /\ idx \in [Names -> Indices \cup {NoIdx}]
        /\ records \in [Indices -> Names \cup {NoName}]
    BY <1>2 DEF DnsInv, TypeOK, Consistent, HasNode, Indices
  <2>1. Listed' = {m \in Names : idx'[m] # NoIdx}
    BY <1>2, <1>3, <1>4, <1>7, <2>0
  <2>2. \A m \in Listed' : records'[idx'[m]] = m
    <3> SUFFICES ASSUME NEW m \in Listed' PROVE records'[idx'[m]] = m
      OBVIOUS
    <3>1. CASE m = n
      BY <1>2, <1>3, <1>4, <2>0, <3>1
    <3>2. CASE m # n
      <4>1. m \in Listed /\ m # old /\ m \in Names /\ idx'[m] = idx[m]
        BY <1>2, <1>7, <2>0, <3>2
      <4>2. idx[m] # idx[old] /\ idx[m] \in Indices
        BY <1>3, <1>4, <2>0, <4>1
      <4>3. QED
        BY <1>2, <2>0, <4>1, <4>2
    <3>3. QED
      BY <3>1, <3>2
  <2>3. \A i \in Indices : records'[i] # NoName => idx'[records'[i]] = i
    <3> SUFFICES ASSUME NEW i \in Indices PROVE idx'[records'[i]] = i
      OBVIOUS
    <3>1. CASE i = idx[old]
      BY <1>2, <1>3, <1>4, <2>0, <3>1
    <3>2. CASE i # idx[old]
      <4>1. records'[i] = records[i] /\ records[i] \in Names /\ idx[records[i]] = i
        BY <1>2, <2>0, <3>2
      <4>2. records[i] # old /\ records[i] # n
        BY <1>3, <2>0, <3>2, <4>1 DEF Indices
      <4>3. QED
        BY <1>2, <2>0, <4>1, <4>2
    <3>3. QED
      BY <3>1, <3>2
  <2>4. \A i \in Indices : records'[i] = NoName <=> i >= use'
    BY <1>2, <1>4, <2>0 DEF Indices
  <2>5. QED
    BY <1>1, <1>2, <1>6, <2>1, <2>2, <2>3, <2>4 DEF Consistent, HasNode
<1>9. ListIsRecency'
  <2> SUFFICES ASSUME NEW k \in 1 .. Max
               PROVE  since'[list'[k]] = {list'[q] : q \in k + 1 .. Max}
    BY <1>1 DEF ListIsRecency
  <2>1. CASE k = Max
    <3>1. k + 1 .. Max = {}
      BY <2>1
    <3>2. since'[list'[k]] = {}
      BY <1>1, <2>1 DEF FindEvicts, Used
    <3>3. QED
      BY <3>1, <3>2
  <2>2. CASE k \in 1 .. Max - 1
    <3>1. /\ k + 1 \in 1 .. Max /\ list'[k] = list[k + 1]
          /\ list[k + 1] \in Names /\ list[k + 1] # n
      BY <1>1, <2>2
    <3>2. since'[list'[k]] = {list[r] : r \in (k + 1) + 1 .. Max} \cup {n}
      BY <1>1, <3>1 DEF FindEvicts, Used, DnsInv, ListIsRecency
    <3>3. \A r \in (k + 1) + 1 .. Max : r - 1 \in k + 1 .. Max /\ list'[r - 1] = list[r]
      BY <1>1, <2>2
    <3>4. Max \in k + 1 .. Max /\ list'[Max] = n
      BY <1>1, <2>2
    <3>5. \A q \in k + 1 .. Max :
            q = Max \/ (q + 1 \in (k + 1) + 1 .. Max /\ list'[q] = list[q + 1])
      BY <1>1, <2>2
    <3>6. {list[r] : r \in (k + 1) + 1 .. Max} \cup {n} = {list'[q] : q \in k + 1 .. Max}
      <4>1. ASSUME NEW r \in (k + 1) + 1 .. Max
            PROVE  list[r] \in {list'[q] : q \in k + 1 .. Max}
        BY <3>3, Zenon
      <4>2. n \in {list'[q] : q \in k + 1 .. Max}
        BY <3>4, Zenon
      <4>3. ASSUME NEW q \in k + 1 .. Max
            PROVE  list'[q] \in {list[r] : r \in (k + 1) + 1 .. Max} \cup {n}
        BY <3>4, <3>5, Zenon
      <4>4. QED
        BY <4>1, <4>2, <4>3, Zenon
    <3>7. QED
      BY <3>2, <3>6
  <2>3. QED
    BY <2>1, <2>2
<1>10. QED
  BY <1>5, <1>8, <1>9 DEF DnsInv

(* A lookup is a use of the name the record holds. *)
LEMMA LookupTouches ==
  ASSUME DnsInv, NEW host \in 0 .. Hosts - 1, Lookup(host)
  PROVE  /\ host \in Indices /\ records[host] \in Names /\ HasNode(records[host])
         /\ Touch(records[host]) /\ Used(records[host])
         /\ UNCHANGED <<records, idx, use>>
<1>1. host \in Indices
  BY DEF Lookup, Indices
<1>2. records[host] \in Names /\ idx[records[host]] = host
  BY <1>1 DEF Lookup, DnsInv, TypeOK, Consistent
<1>3. QED
  BY <1>1, <1>2 DEF Lookup, HasNode, Indices

LEMMA DnsInit == Init => DnsInv
<1> SUFFICES ASSUME Init PROVE DnsInv
  OBVIOUS
<1>1. list = <<>> /\ Len(list) = 0 /\ list \in Seq(Names)
  BY DEF Init
<1>2. 1 .. Len(list) = {} /\ Listed = {}
  BY <1>1 DEF Listed
<1>3. TypeOK
  BY <1>1 DEF Init, TypeOK, Indices
<1>4. Consistent
  BY <1>1, <1>2 DEF Init, Consistent, HasNode, Indices
<1>5. ListIsRecency
  BY <1>2 DEF ListIsRecency
<1>6. QED
  BY <1>3, <1>4, <1>5 DEF DnsInv

LEMMA DnsStep == DnsInv /\ [Next]_vars => DnsInv'
<1> SUFFICES ASSUME DnsInv, [Next]_vars PROVE DnsInv'
  OBVIOUS
<1>1. ASSUME NEW n \in Names, FindKnown(n) PROVE DnsInv'
  BY <1>1, TouchKeeps DEF FindKnown
<1>2. ASSUME NEW n \in Names, FindNew(n) PROVE DnsInv'
  BY <1>2, FindNewKeeps
<1>3. ASSUME NEW n \in Names, FindEvicts(n) PROVE DnsInv'
  BY <1>3, FindEvictsKeeps
<1>4. ASSUME NEW host \in 0 .. Hosts - 1, Lookup(host) PROVE DnsInv'
  BY <1>4, LookupTouches, TouchKeeps
<1>5. CASE UNCHANGED vars
  BY <1>5 DEF vars, DnsInv, TypeOK, Consistent, ListIsRecency, Listed, HasNode
<1>6. QED
  BY <1>1, <1>2, <1>3, <1>4, <1>5 DEF Next

(* Tree, list and records of hev-mapped-dns.c agree whatever names are     *)
(* asked for and looked up, and however large the cache is.                *)
THEOREM DnsInvariant == Spec => []DnsInv
<1>1. QED
  BY DnsInit, DnsStep, PTL DEF Spec

THEOREM DnsConsistent == Spec => []Consistent
<1>1. DnsInv => Consistent
  BY DEF DnsInv
<1>2. QED
  BY <1>1, DnsInvariant, PTL

(* The name that is evicted has been followed by Max others.               *)
LEMMA EvictedIsOld ==
  ASSUME DnsInv, NEW n \in Names, FindEvicts(n)
  PROVE  Cardinality(since'[list[1]]) = Max
<1>1. /\ list \in Seq(Names) /\ Len(list) = Max
      /\ list' \in Seq(Names) /\ Len(list') = Max
      /\ \A k \in 1 .. Max - 1 : list'[k] = list[k + 1]
      /\ list'[Max] = n
      /\ list[1] \in Names /\ list[1] # n
  BY EvictedList
<1>2. since'[list[1]] = {list[q] : q \in 1 + 1 .. Max} \cup {n}
  <2>1. 1 \in 1 .. Len(list)
    BY <1>1
  <2>2. since[list[1]] = {list[q] : q \in 1 + 1 .. Max}
    BY <1>1, <2>1 DEF DnsInv, ListIsRecency
  <2>3. since'[list[1]] = since[list[1]] \cup {n}
    BY <1>1 DEF FindEvicts, Used
  <2>4. QED
    BY <2>2, <2>3
<1>3. since'[list[1]] = {list'[k] : k \in 1 .. Max}
  <2>1. \A q \in 1 + 1 .. Max : q - 1 \in 1 .. Max /\ list'[q - 1] = list[q]
    BY <1>1
  <2>2. Max \in 1 .. Max /\ list'[Max] = n
    BY <1>1
  <2>3. \A k \in 1 .. Max : k = Max \/ (k + 1 \in 1 + 1 .. Max /\ list'[k] = list[k + 1])
    BY <1>1
  <2>4. ASSUME NEW q \in 1 + 1 .. Max PROVE list[q] \in {list'[k] : k \in 1 .. Max}
    BY <2>1, Zenon
  <2>5. n \in {list'[k] : k \in 1 .. Max}
    BY <2>2, Zenon
  <2>6. ASSUME NEW k \in 1 .. Max
        PROVE  list'[k] \in {list[q] : q \in 1 + 1 .. Max} \cup {n}
    BY <2>2, <2>3, Zenon
  <2>7. {list[q] : q \in 1 + 1 .. Max} \cup {n} = {list'[k] : k \in 1 .. Max}
    BY <2>4, <2>5, <2>6, Zenon
  <2>8. QED
    BY <1>2, <2>7
<1>4. \A j, k \in 1 .. Max : list'[j] = list'[k] => j = k
  BY <1>1, FindEvictsKeeps DEF DnsInv, Consistent
<1> DEFINE T == {list'[k] : k \in 1 .. Max}
<1>5. list' \in Bijection(1 .. Max, T)
  <2>1. list' \in [1 .. Max -> T]
    BY <1>1
  <2>2. \A t \in T : \E k \in 1 .. Max : list'[k] = t
    OBVIOUS
  <2>3. QED
    BY <1>4, <2>1, <2>2 DEF Bijection, Injection, Surjection, IsInjective
<1>6. ExistsBijection(1 .. Max, T)
  BY <1>5 DEF ExistsBijection
<1>7. IsFiniteSet(1 .. Max) /\ Cardinality(1 .. Max) = Max
  BY FS_Interval
<1>8. QED
  BY <1>3, <1>6, <1>7, FS_Bijection

LEMMA BookInit == Init => Book!Init
BY DEF Init, Book!Init, Indices, Book!Addresses

LEMMA BookUse ==
  ASSUME NEW n \in Names, Used(n) PROVE Book!Used(n)
BY DEF Used, Book!Used

(* The instance has a Cardinality of its own, with the same definition. *)
LEMMA BookCardinality ==
  ASSUME NEW S PROVE Book!Cardinality(S) = Cardinality(S)
BY Zenon DEF Cardinality, Book!Cardinality

LEMMA BookStep ==
  ASSUME DnsInv, [Next]_vars
  PROVE  [Book!Next]_<<records, since>>
<1>1. ASSUME NEW n \in Names, HasNode(n), Used(n), UNCHANGED records
      PROVE  Book!UseKnown(n)
  <2>1. idx[n] \in Indices /\ records[idx[n]] = n
    BY <1>1 DEF DnsInv, TypeOK, Consistent, HasNode
  <2>2. QED
    BY <1>1, <2>1, BookUse DEF Book!UseKnown, Book!Addresses, Indices
<1>2. ASSUME NEW n \in Names, ~HasNode(n) PROVE \A a \in Indices : records[a] # n
  BY <1>2 DEF DnsInv, TypeOK, Consistent, HasNode, Indices
<1>3. ASSUME NEW n \in Names, FindNew(n) PROVE Book!UseNew(n)
  <2>1. use \in Indices /\ records[use] = NoName
    BY <1>3 DEF FindNew, DnsInv, TypeOK, Consistent, Indices
  <2>2. Used(n) /\ ~HasNode(n) /\ records' = [records EXCEPT ![use] = n]
    BY <1>3 DEF FindNew
  <2>3. QED
    BY <1>2, <2>1, <2>2, BookUse DEF Book!UseNew, Book!Addresses, Indices
<1>4. ASSUME NEW n \in Names, FindEvicts(n) PROVE Book!UseNew(n)
  <2>1. Head(list) = list[1] /\ list[1] \in Listed
    BY <1>4, EvictedList DEF Listed
  <2>2. idx[list[1]] \in Indices /\ records[idx[list[1]]] = list[1]
    BY <2>1 DEF DnsInv, TypeOK, Consistent, HasNode
  <2>3. Used(n) /\ ~HasNode(n) /\ records' = [records EXCEPT ![idx[list[1]]] = n]
    BY <1>4, <2>1 DEF FindEvicts
  <2>4. Book!Cardinality(since'[list[1]]) >= Max
    BY <1>4, EvictedIsOld, BookCardinality
  <2>5. QED
    BY <1>2, <2>2, <2>3, <2>4, BookUse DEF Book!UseNew, Book!Addresses, Indices
<1>5. ASSUME NEW n \in Names, FindKnown(n) PROVE Book!UseKnown(n)
  BY <1>1, <1>5 DEF FindKnown
<1>6. ASSUME NEW host \in 0 .. Hosts - 1, Lookup(host) PROVE \E n \in Names : Book!UseKnown(n)
  BY <1>1, <1>6, LookupTouches
<1>7. CASE UNCHANGED vars
  BY <1>7 DEF vars
<1>8. QED
  BY <1>3, <1>4, <1>5, <1>6, <1>7 DEF Next, Book!Next

(* hev-mapped-dns.c keeps the promise of AddressBook: an address that has  *)
(* been told to a client stands for the same name until Max other names    *)
(* have been asked for or connected to since.                              *)
THEOREM DnsKeepsAddresses == Spec => KeepsAddresses
<1>1. Spec => [][Book!Next]_<<records, since>>
  BY DnsInvariant, BookStep, PTL DEF Spec
<1>2. QED
  BY <1>1, BookInit, PTL DEF Spec, KeepsAddresses, Book!Spec

-----------------------------------------------------------------------------
(* The UDP session.                                                        *)

USE UdpAssumption

Stages == {"connecting", "yield", "send", "sendWait", "sendOver", "b", "wait",
           "leaving", "ended"}

Sending == {"send", "sendWait", "sendOver"}

TaskTypes ==
  /\ at \in Stages
  /\ res_f \in {-1, 0, 1} /\ res_b \in {-1, 0, 1}

FlagTypes ==
  /\ event \in BOOLEAN /\ expired \in BOOLEAN /\ full \in BOOLEAN
  /\ control \in BOOLEAN /\ sticky \in BOOLEAN

InboxTypes == inbox \in Seq(BOOLEAN) /\ Len(inbox) <= MaxInbox

QueueTypes ==
  /\ frames \in Seq(Destinations) /\ Len(frames) <= Pool + 1
  /\ batch \in 0 .. Num /\ batch <= Len(frames)
  /\ flight \in 0 .. batch
  /\ due \in Seq(Destinations)

(* A batch is out only while the task is in sendmmsg. *)
BatchIsOut == at \notin Sending => batch = 0

QueueInv == QueueTypes /\ BatchIsOut /\ SendsAsMeant

(* What the results say of the queues when both are looked at. *)
IdleF == at = "b" /\ res_f = 0 => frames = << >>

WaitInv == IdleF /\ WaitsOnlyIdle

SessionInv == DnsInv /\ TaskTypes /\ FlagTypes /\ InboxTypes /\ QueueInv /\ WaitInv

-----------------------------------------------------------------------------
(* Sequences of which a part at the front is taken away.                   *)

LEMMA EmptyType ==
  ASSUME NEW S
  PROVE  << >> \in Seq(S) /\ Len(<< >>) = 0
OBVIOUS

LEMMA DropType ==
  ASSUME NEW S, NEW s \in Seq(S), NEW n \in 0 .. Len(s)
  PROVE  /\ SubSeq(s, n + 1, Len(s)) \in Seq(S)
         /\ Len(SubSeq(s, n + 1, Len(s))) = Len(s) - n
         /\ \A i \in 1 .. Len(s) - n : SubSeq(s, n + 1, Len(s))[i] = s[n + i]
OBVIOUS

LEMMA AppendType ==
  ASSUME NEW S, NEW s \in Seq(S), NEW e \in S
  PROVE  /\ Append(s, e) \in Seq(S)
         /\ Len(Append(s, e)) = Len(s) + 1
         /\ \A i \in 1 .. Len(s) : Append(s, e)[i] = s[i]
         /\ Append(s, e)[Len(s) + 1] = e
OBVIOUS

-----------------------------------------------------------------------------
(* Every step is a step of the mapped DNS or leaves it alone. *)

LEMMA ResolvedIsDestination ==
  ASSUME TypeOK, NEW ip \in IPs
  PROVE  Resolved(ip) \in Destinations
<1>1. ip.host \in 0 .. Hosts - 1
  OBVIOUS
<1>2. CASE Resolves(ip)
  BY <1>1, <1>2 DEF Resolves, Resolved, Destinations, TypeOK, Indices
<1>3. CASE ~Resolves(ip)
  BY <1>3 DEF Resolved, Destinations
<1>4. QED
  BY <1>2, <1>3

(* A node has the address of its record and of no other.  What the lookup  *)
(* makes of an address is what is meant, but for an aliased one.           *)
LEMMA ResolvedIsMeant ==
  ASSUME TypeOK, Consistent, NEW ip \in IPs
  PROVE  Meant(ip) \in Destinations /\ Reaches(Resolved(ip), Meant(ip))
<1>1. ip.host \in 0 .. Hosts - 1
  OBVIOUS
<1>2. \A n \in Names : idx[n] = ip.host => Resolves(ip) /\ records[ip.host] = n
  <2> SUFFICES ASSUME NEW n \in Names, idx[n] = ip.host
               PROVE  Resolves(ip) /\ records[ip.host] = n
    OBVIOUS
  <2>1. HasNode(n) /\ idx[n] \in Indices
    BY <1>1 DEF HasNode, TypeOK
  <2>2. n \in Listed
    BY <2>1 DEF Consistent
  <2>3. records[ip.host] = n
    BY <2>2 DEF Consistent
  <2>4. QED
    BY <2>1, <2>3 DEF Resolves, Indices
<1>3. CASE ip.prefix = Net /\ \E n \in Names : idx[n] = ip.host
  <2>1. PICK n \in Names : idx[n] = ip.host
    BY <1>3
  <2>2. Resolved(ip) = n
    BY <1>2, <2>1 DEF Resolved
  <2>3. \A m \in Names : idx[m] = ip.host => m = n
    BY <1>2, <2>1
  <2>4. (CHOOSE m \in Names : idx[m] = ip.host) = n
    BY <2>1, <2>3
  <2>5. Meant(ip) = n
    BY <1>3, <2>4 DEF Meant
  <2>6. QED
    BY <2>2, <2>5 DEF Reaches, Destinations
<1>4. CASE ip.prefix = Net /\ ~\E n \in Names : idx[n] = ip.host
  <2>1. Meant(ip) = ip
    BY <1>4 DEF Meant
  <2>2. ~Resolves(ip)
    <3> SUFFICES ASSUME Resolves(ip) PROVE FALSE
      OBVIOUS
    <3>1. ip.host \in Indices /\ records[ip.host] # NoName
      BY <1>1 DEF Resolves, Indices
    <3>2. records[ip.host] \in Names /\ idx[records[ip.host]] = ip.host
      BY <3>1 DEF TypeOK, Consistent
    <3>3. QED
      BY <1>4, <3>2
  <2>3. QED
    BY <2>1, <2>2 DEF Resolved, Reaches, Destinations
<1>5. CASE ip.prefix # Net
  <2>1. Meant(ip) = ip
    BY <1>5 DEF Meant
  <2>2. CASE Resolves(ip)
    <3>1. ip.host \in Indices /\ records[ip.host] # NoName
      BY <1>1, <2>2 DEF Resolves, Indices
    <3>2. Resolved(ip) \in Names
      BY <2>2, <3>1 DEF Resolved, TypeOK
    <3>3. Aliased(ip)
      BY <1>5, <2>2 DEF Resolves, Aliased
    <3>4. QED
      BY <2>1, <3>2, <3>3 DEF Reaches, Destinations
  <2>3. CASE ~Resolves(ip)
    BY <2>1, <2>3 DEF Resolved, Reaches, Destinations
  <2>4. QED
    BY <2>2, <2>3
<1>6. QED
  BY <1>3, <1>4, <1>5

LEMMA DnsRefined == SessionNext => [Next]_vars
<1> SUFFICES ASSUME SessionNext PROVE [Next]_vars
  OBVIOUS
<1>1. ASSUME NEW ip \in IPs, Datagram(ip) PROVE [Next]_vars
  <2>1. ResolveAddress(ip)
    BY <1>1 DEF Datagram
  <2>2. Lookup(ip.host) \/ UNCHANGED dnsVars
    BY <2>1 DEF ResolveAddress
  <2>3. ip.host \in 0 .. Hosts - 1
    OBVIOUS
  <2>4. QED
    BY <2>2, <2>3 DEF Next, vars, dnsVars
<1>2. CASE TaskStep
  BY <1>2 DEF TaskStep, Connected, ConnectFails, NothingToSend, SpliceB, Destruct, SendFrames,
              SendTimesOut, dnsVars, vars
<1>3. CASE Poll \/ SendTimesOut \/ Timeout \/ Terminate \/ ServerCloses \/ SocketDrains
  BY <1>3 DEF Poll, SendTimesOut, Timeout, Terminate, ServerCloses, SocketDrains, dnsVars, vars
<1>4. CASE \E hasAddress \in BOOLEAN : ServerReplies(hasAddress)
  BY <1>4 DEF ServerReplies, dnsVars, vars
<1>5. CASE DnsUsed
  BY <1>5 DEF DnsUsed
<1>6. QED
  BY <1>1, <1>2, <1>3, <1>4, <1>5 DEF SessionNext

LEMMA DnsKept ==
  ASSUME DnsInv, [SessionNext]_allVars
  PROVE  DnsInv'
<1>1. [Next]_vars
  BY DnsRefined DEF allVars, dnsVars, vars
<1>2. QED
  BY <1>1, DnsStep

-----------------------------------------------------------------------------
(* The task and the flags. *)

LEMMA TaskTypesKept ==
  ASSUME TaskTypes, [SessionNext]_allVars
  PROVE  TaskTypes'
<1> USE DEF TaskTypes, Stages
<1>1. ASSUME NEW ip \in IPs, Datagram(ip) PROVE TaskTypes'
  BY <1>1 DEF Datagram, Woken
<1>2. ASSUME NEW n \in 0 .. Num, SendFrames(n) PROVE TaskTypes'
  BY <1>2 DEF SendFrames, FreeSent
<1>3. CASE Connected \/ ConnectFails \/ Destruct \/ Timeout
  BY <1>3 DEF Connected, ConnectFails, Destruct, Timeout
<1>4. CASE NothingToSend
  BY <1>4 DEF NothingToSend, Lesser
<1>5. CASE SpliceB
  <2>1. res_b' \in {-1, 0, 1}
    BY <1>5 DEF SpliceB, NoReply, ReceiveFails, PassReplies, Lesser
  <2>2. at' \in Stages /\ res_f' = res_f
    BY <1>5 DEF SpliceB, AfterSlice
  <2>3. QED
    BY <2>1, <2>2
<1>6. CASE SendTimesOut
  BY <1>6 DEF SendTimesOut, FreeSent
<1>7. CASE Poll \/ Terminate
  BY <1>7 DEF Poll, Terminate, Woken
<1>8. CASE ServerCloses \/ SocketDrains \/ DnsUsed
  BY <1>8 DEF ServerCloses, SocketDrains, DnsUsed, taskVars
<1>9. CASE \E hasAddress \in BOOLEAN : ServerReplies(hasAddress)
  BY <1>9 DEF ServerReplies
<1>10. CASE UNCHANGED allVars
  BY <1>10 DEF allVars, taskVars
<1>11. QED
  BY <1>1, <1>2, <1>3, <1>4, <1>5, <1>6, <1>7, <1>8, <1>9, <1>10 DEF SessionNext, TaskStep

LEMMA FlagTypesKept ==
  ASSUME FlagTypes, [SessionNext]_allVars
  PROVE  FlagTypes'
<1> USE DEF FlagTypes
<1>1. ASSUME NEW ip \in IPs, Datagram(ip) PROVE FlagTypes'
  BY <1>1 DEF Datagram, ResolveAddress, downVars
<1>2. ASSUME NEW n \in 0 .. Num, SendFrames(n) PROVE FlagTypes'
  BY <1>2 DEF SendFrames, downVars
<1>3. CASE Connected \/ ConnectFails \/ Destruct \/ Timeout \/ NothingToSend \/ SpliceB
           \/ SendTimesOut
  BY <1>3 DEF Connected, ConnectFails, Destruct, Timeout, NothingToSend, SpliceB, SendTimesOut,
              upVars, downVars
<1>4. CASE Poll \/ Terminate \/ ServerCloses \/ SocketDrains
  BY <1>4 DEF Poll, Terminate, ServerCloses, SocketDrains, upVars, downVars
<1>5. CASE DnsUsed
  BY <1>5 DEF DnsUsed, taskVars, upVars, downVars
<1>6. CASE \E hasAddress \in BOOLEAN : ServerReplies(hasAddress)
  BY <1>6 DEF ServerReplies, upVars
<1>7. CASE UNCHANGED allVars
  BY <1>7 DEF allVars, taskVars, upVars, downVars
<1>8. QED
  BY <1>1, <1>2, <1>3, <1>4, <1>5, <1>6, <1>7 DEF SessionNext, TaskStep

-----------------------------------------------------------------------------
(* The inbox. *)

LEMMA InboxTypesKept ==
  ASSUME InboxTypes, [SessionNext]_allVars
  PROVE  InboxTypes'
<1> USE DEF InboxTypes
<1>1. ASSUME NEW n \in 0 .. Num, PassReplies(n) PROVE InboxTypes'
  <2> DEFINE got == Lesser(Len(inbox), Num)
  <2>1. got \in 0 .. Len(inbox)
    BY DEF Lesser
  <2>2. inbox' = SubSeq(inbox, got + 1, Len(inbox))
    BY <1>1 DEF PassReplies
  <2> HIDE DEF got
  <2>3. inbox' \in Seq(BOOLEAN) /\ Len(inbox') = Len(inbox) - got
    BY <2>1, <2>2, DropType
  <2>4. QED
    BY <2>1, <2>3
<1>2. CASE NoReply \/ ReceiveFails
  BY <1>2 DEF NoReply, ReceiveFails
<1>3. CASE SpliceB
  BY <1>1, <1>2, <1>3 DEF SpliceB
<1>4. ASSUME NEW hasAddress \in BOOLEAN, ServerReplies(hasAddress) PROVE InboxTypes'
  <2>1. Len(inbox) < MaxInbox /\ inbox' = Append(inbox, hasAddress)
    BY <1>4 DEF ServerReplies
  <2>2. inbox' \in Seq(BOOLEAN) /\ Len(inbox') = Len(inbox) + 1
    BY <2>1, AppendType
  <2>3. QED
    BY <2>1, <2>2
<1>5. ASSUME NEW ip \in IPs, Datagram(ip) PROVE InboxTypes'
  BY <1>5 DEF Datagram, downVars
<1>6. ASSUME NEW n \in 0 .. Num, SendFrames(n) PROVE InboxTypes'
  BY <1>6 DEF SendFrames, downVars
<1>7. CASE Connected \/ ConnectFails \/ Destruct \/ Timeout \/ NothingToSend \/ SendTimesOut
  BY <1>7 DEF Connected, ConnectFails, Destruct, Timeout, NothingToSend, SendTimesOut, downVars
<1>8. CASE Poll \/ Terminate \/ ServerCloses \/ SocketDrains \/ DnsUsed
  BY <1>8 DEF Poll, Terminate, ServerCloses, SocketDrains, DnsUsed, downVars
<1>9. CASE UNCHANGED allVars
  BY <1>9 DEF allVars, downVars
<1>10. QED
  BY <1>3, <1>4, <1>5, <1>6, <1>7, <1>8, <1>9 DEF SessionNext, TaskStep

-----------------------------------------------------------------------------
(* The queue. *)

queueVars == <<frames, batch, flight, due>>

(* A step that leaves the queue alone and does not leave sendmmsg. *)
LEMMA QueueRests ==
  ASSUME QueueInv, UNCHANGED queueVars,
         at \in Sending => at' \in Sending, at' # "ended" => at # "ended"
  PROVE  QueueInv'
BY DEF QueueInv, QueueTypes, BatchIsOut, SendsAsMeant, queueVars, Reaches, Aliased

(* The elements of a queue from which n have been taken. *)
LEMMA AfterSending ==
  ASSUME QueueInv, at # "ended", NEW n \in Nat, flight + n <= Len(frames),
         due' = SubSeq(due, n + 1, Len(due))
  PROVE  /\ due' \in Seq(Destinations) /\ Len(due') = Len(frames) - (flight + n)
         /\ \A i \in 1 .. Len(due') : Reaches(frames[flight + n + i], due'[i])
<1>1. /\ due \in Seq(Destinations) /\ frames \in Seq(Destinations)
      /\ flight \in Nat /\ Len(frames) \in Nat
      /\ Len(due) = Len(frames) - flight
      /\ \A i \in 1 .. Len(due) : Reaches(frames[flight + i], due[i])
  BY DEF QueueInv, QueueTypes, SendsAsMeant
<1>2. /\ due' \in Seq(Destinations) /\ Len(due') = Len(due) - n
      /\ \A i \in 1 .. Len(due) - n : due'[i] = due[n + i]
  BY <1>1, DropType
<1>3. ASSUME NEW i \in 1 .. Len(due') PROVE Reaches(frames[flight + n + i], due'[i])
  <2>1. n + i \in 1 .. Len(due) /\ flight + (n + i) = flight + n + i /\ due'[i] = due[n + i]
    BY <1>1, <1>2
  <2>2. Reaches(frames[flight + (n + i)], due[n + i])
    BY <1>1, <2>1
  <2>3. QED
    BY <2>1, <2>2
<1>4. Len(due') = Len(frames) - (flight + n)
  BY <1>1, <1>2
<1>5. QED
  BY <1>2, <1>3, <1>4, Zenon

(* n more have been sent, and as many frames as have been are freed. *)
LEMMA QueueFreed ==
  ASSUME QueueInv, at # "ended", NEW n \in Nat, flight + n <= Len(frames),
         FreeSent(flight + n), due' = SubSeq(due, n + 1, Len(due))
  PROVE  QueueInv'
<1>1. frames \in Seq(Destinations) /\ flight + n \in 0 .. Len(frames) /\ Len(frames) <= Pool + 1
  BY DEF QueueInv, QueueTypes
<1>2. /\ due' \in Seq(Destinations) /\ Len(due') = Len(frames) - (flight + n)
      /\ \A i \in 1 .. Len(due') : Reaches(frames[flight + n + i], due'[i])
  BY AfterSending
<1>3. /\ frames' \in Seq(Destinations) /\ Len(frames') = Len(frames) - (flight + n)
      /\ \A i \in 1 .. Len(frames') : frames'[i] = frames[flight + n + i]
  BY <1>1, DropType DEF FreeSent
<1>4. flight' = 0 /\ batch' = 0 /\ at' = "b"
  BY DEF FreeSent
<1>5. QueueTypes'
  BY <1>1, <1>2, <1>3, <1>4 DEF QueueTypes
<1>6. BatchIsOut'
  BY <1>4 DEF BatchIsOut
<1>7. SendsAsMeant'
  <2>1. Len(due') = Len(frames') - flight'
    BY <1>1, <1>2, <1>3, <1>4
  <2>2. ASSUME NEW i \in 1 .. Len(due') PROVE Reaches(frames'[flight' + i], due'[i])
    <3>1. flight' + i = i /\ i \in 1 .. Len(frames')
      BY <1>1, <1>2, <1>3, <1>4
    <3>2. QED
      BY <1>2, <1>3, <3>1
  <2>3. QED
    BY <2>1, <2>2 DEF SendsAsMeant, Reaches, Aliased
<1>8. QED
  BY <1>5, <1>6, <1>7 DEF QueueInv

LEMMA DatagramKeepsQueue ==
  ASSUME QueueInv, DnsInv, NEW ip \in IPs, Datagram(ip)
  PROVE  QueueInv'
<1> DEFINE f == Resolved(ip)
           d == Meant(ip)
<1>1. f \in Destinations /\ d \in Destinations /\ Reaches(f, d)
  BY ResolvedIsDestination, ResolvedIsMeant DEF DnsInv
<1>2. /\ at # "ended" /\ Len(frames) <= Pool
      /\ frames' = Append(frames, f) /\ due' = Append(due, d)
      /\ UNCHANGED <<batch, flight>>
      /\ at' = Woken(at)
  BY DEF Datagram
<1> HIDE DEF f, d
<1>3. /\ frames \in Seq(Destinations) /\ due \in Seq(Destinations)
      /\ flight \in 0 .. Len(frames) /\ batch \in 0 .. Num /\ batch <= Len(frames)
      /\ flight \in 0 .. batch
      /\ Len(due) = Len(frames) - flight
      /\ \A i \in 1 .. Len(due) : Reaches(frames[flight + i], due[i])
  BY <1>2 DEF QueueInv, QueueTypes, SendsAsMeant
<1>4. /\ frames' \in Seq(Destinations) /\ Len(frames') = Len(frames) + 1
      /\ \A i \in 1 .. Len(frames) : frames'[i] = frames[i]
      /\ frames'[Len(frames) + 1] = f
  BY <1>1, <1>2, <1>3, AppendType
<1>5. /\ due' \in Seq(Destinations) /\ Len(due') = Len(due) + 1
      /\ \A i \in 1 .. Len(due) : due'[i] = due[i]
      /\ due'[Len(due) + 1] = d
  BY <1>1, <1>2, <1>3, AppendType
<1>6. QueueTypes'
  BY <1>2, <1>3, <1>4, <1>5 DEF QueueTypes
<1>7. BatchIsOut'
  BY <1>2 DEF QueueInv, BatchIsOut, Sending, Woken
<1>8. SendsAsMeant'
  <2>1. Len(due') = Len(frames') - flight'
    BY <1>2, <1>3, <1>4, <1>5
  <2>2. ASSUME NEW i \in 1 .. Len(due') PROVE Reaches(frames'[flight' + i], due'[i])
    <3>1. CASE i = Len(due) + 1
      <4>1. flight' + i = Len(frames) + 1
        BY <1>2, <1>3, <3>1
      <4>2. frames'[flight' + i] = f /\ due'[i] = d
        BY <1>4, <1>5, <3>1, <4>1
      <4>3. QED
        BY <1>1, <4>2
    <3>2. CASE i \in 1 .. Len(due)
      <4>1. flight' = flight /\ flight + i \in 1 .. Len(frames)
        BY <1>2, <1>3, <3>2
      <4>2. frames'[flight' + i] = frames[flight + i] /\ due'[i] = due[i]
        BY <1>4, <1>5, <3>2, <4>1
      <4>3. QED
        BY <1>3, <3>2, <4>2
    <3>3. QED
      BY <1>3, <1>5, <3>1, <3>2
  <2>3. QED
    BY <2>1, <2>2 DEF SendsAsMeant, Reaches, Aliased
<1>9. QED
  BY <1>6, <1>7, <1>8 DEF QueueInv

LEMMA SendKeepsQueue ==
  ASSUME QueueInv, NEW n \in 0 .. Num, SendFrames(n)
  PROVE  QueueInv'
<1> DEFINE taken == IF at = "yield" THEN Lesser(Len(frames), Num) ELSE batch
<1>1. /\ frames \in Seq(Destinations) /\ due \in Seq(Destinations)
      /\ Len(frames) <= Pool + 1
      /\ batch \in 0 .. Num /\ batch <= Len(frames) /\ flight \in 0 .. batch
  BY DEF QueueInv, QueueTypes
<1>2. at \in {"yield", "send"} /\ flight + n <= taken /\ due' = SubSeq(due, n + 1, Len(due))
  BY DEF SendFrames
<1>3. taken \in 0 .. Num /\ taken <= Len(frames)
  BY <1>1, <1>2 DEF Lesser
<1>4. at # "ended" /\ n \in Nat /\ flight + n <= Len(frames)
  BY <1>1, <1>2, <1>3
<1>5. CASE FreeSent(flight + n)
  BY <1>2, <1>4, <1>5, QueueFreed
<1>6. CASE /\ flight' = flight + n /\ batch' = taken /\ UNCHANGED frames
           /\ at' \in {"sendOver", "sendWait"}
  <2>1. /\ due' \in Seq(Destinations) /\ Len(due') = Len(frames) - (flight + n)
        /\ \A i \in 1 .. Len(due') : Reaches(frames[flight + n + i], due'[i])
    BY <1>2, <1>4, AfterSending
  <2>2. QueueTypes'
    BY <1>1, <1>2, <1>3, <1>6, <2>1 DEF QueueTypes
  <2>3. BatchIsOut'
    BY <1>6 DEF BatchIsOut, Sending
  <2>4. SendsAsMeant'
    BY <1>6, <2>1 DEF SendsAsMeant, Reaches, Aliased
  <2>5. QED
    BY <2>2, <2>3, <2>4 DEF QueueInv
<1>7. QED
  BY <1>5, <1>6 DEF SendFrames

LEMMA QueueKept ==
  ASSUME QueueInv, DnsInv, [SessionNext]_allVars
  PROVE  QueueInv'
<1>1. ASSUME NEW ip \in IPs, Datagram(ip) PROVE QueueInv'
  BY <1>1, DatagramKeepsQueue
<1>2. ASSUME NEW n \in 0 .. Num, SendFrames(n) PROVE QueueInv'
  BY <1>2, SendKeepsQueue
<1>3. CASE SendTimesOut
  <2>1. /\ at # "ended" /\ FreeSent(flight + 0) /\ flight + 0 <= Len(frames)
        /\ due \in Seq(Destinations) /\ due' = due
    BY <1>3 DEF SendTimesOut, QueueInv, QueueTypes
  <2>2. due' = SubSeq(due, 0 + 1, Len(due))
    BY <2>1
  <2>3. QED
    BY <2>1, <2>2, QueueFreed
<1>4. CASE Destruct
  <2>1. batch = 0 /\ flight = 0
    BY <1>4 DEF Destruct, QueueInv, QueueTypes, BatchIsOut, Sending
  <2>2. frames' = << >> /\ due' = << >> /\ UNCHANGED <<batch, flight>> /\ at' = "ended"
    BY <1>4 DEF Destruct
  <2>3. QueueTypes'
    <3>1. frames' \in Seq(Destinations) /\ Len(frames') = 0 /\ due' \in Seq(Destinations)
      BY <2>2, EmptyType, Zenon
    <3>2. batch' = 0 /\ flight' = 0
      BY <2>1, <2>2
    <3>3. QED
      BY <3>1, <3>2 DEF QueueTypes
  <2>4. BatchIsOut' /\ SendsAsMeant'
    BY <2>1, <2>2 DEF BatchIsOut, SendsAsMeant
  <2>5. QED
    BY <2>3, <2>4 DEF QueueInv
<1>5. CASE Connected \/ ConnectFails \/ Timeout \/ NothingToSend \/ SpliceB
  <2>1. at \notin Sending /\ at # "ended" /\ UNCHANGED queueVars
    BY <1>5 DEF Connected, ConnectFails, Timeout, NothingToSend, SpliceB, upVars, queueVars,
                Sending
  <2>2. QED
    BY <2>1, QueueRests
<1>6. CASE Poll \/ Terminate
  <2>1. at' = Woken(at) /\ UNCHANGED queueVars
    BY <1>6 DEF Poll, Terminate, upVars, queueVars
  <2>2. QED
    BY <2>1, QueueRests DEF Woken, Sending
<1>7. CASE ServerCloses \/ SocketDrains \/ DnsUsed
  <2>1. at' = at /\ UNCHANGED queueVars
    BY <1>7 DEF ServerCloses, SocketDrains, DnsUsed, taskVars, upVars, queueVars
  <2>2. QED
    BY <2>1, QueueRests
<1>8. ASSUME NEW hasAddress \in BOOLEAN, ServerReplies(hasAddress) PROVE QueueInv'
  <2>1. at' = at /\ UNCHANGED queueVars
    BY <1>8 DEF ServerReplies, upVars, queueVars
  <2>2. QED
    BY <2>1, QueueRests
<1>9. CASE UNCHANGED allVars
  <2>1. at' = at /\ UNCHANGED queueVars
    BY <1>9 DEF allVars, taskVars, upVars, queueVars
  <2>2. QED
    BY <2>1, QueueRests
<1>10. QED
  BY <1>1, <1>2, <1>3, <1>4, <1>5, <1>6, <1>7, <1>8, <1>9 DEF SessionNext, TaskStep

-----------------------------------------------------------------------------
(* No wake-up is lost. *)

waitVars == <<at, event, res_f, res_b, frames, full, control, inbox>>

LEMMA WaitKept ==
  ASSUME WaitInv, TaskTypes, [SessionNext]_allVars
  PROVE  WaitInv'
<1> USE DEF WaitInv, IdleF, WaitsOnlyIdle
<1>1. ASSUME NEW ip \in IPs, Datagram(ip) PROVE WaitInv'
  <2>1. at' \notin {"b", "wait", "sendWait"}
    BY <1>1 DEF Datagram, Running, Woken, TaskTypes, Stages
  <2>2. QED
    BY <2>1
<1>2. ASSUME NEW n \in 0 .. Num, SendFrames(n) PROVE WaitInv'
  <2>1. CASE at' = "b" /\ res_f' \in {-1, 1}
    BY <2>1
  <2>2. CASE at' = "sendOver"
    BY <2>2
  <2>3. CASE at' = "sendWait" /\ full' = TRUE /\ control /\ UNCHANGED control
    BY <2>3
  <2>4. QED
    BY <1>2, <2>1, <2>2, <2>3 DEF SendFrames, FreeSent, downVars
<1>3. CASE NothingToSend
  <2>1. at' = "b" /\ res_f' = Lesser(res_f, 0) /\ (res_f < 0 \/ frames = << >>) /\ frames' = frames
    BY <1>3 DEF NothingToSend, upVars
  <2>2. res_f' = 0 => frames' = << >>
    BY <2>1 DEF Lesser, TaskTypes
  <2>3. QED
    BY <2>1, <2>2
<1>4. CASE SpliceB
  <2>1. at = "b" /\ at' = AfterSlice /\ UNCHANGED <<event, res_f, frames, full, control>>
    BY <1>4 DEF SpliceB, upVars
  <2>2. at' \in {"leaving", "yield", "wait"}
    BY <2>1 DEF AfterSlice
  <2>3. at' = "wait" => control /\ res_f <= 0 /\ res_b' <= 0
    <3>1. res_f \in {-1, 0, 1} /\ res_b' \in {-1, 0, 1}
      BY TaskTypesKept DEF TaskTypes
    <3>2. at' = "wait" => control /\ ~(res_f > 0 \/ res_b' > 0)
      BY <2>1, Zenon DEF AfterSlice
    <3>3. QED
      BY <3>1, <3>2
  <2>4. res_b' = 0 => inbox' = << >>
    BY <1>4 DEF SpliceB, NoReply, ReceiveFails, PassReplies, Lesser, TaskTypes
  <2>5. res_f' = 0 => frames' = << >>
    BY <2>1
  <2>6. QED
    BY <2>1, <2>2, <2>3, <2>4, <2>5
<1>5. CASE SendTimesOut
  <2>1. at' = "b" /\ res_f' \in {-1, 1}
    BY <1>5 DEF SendTimesOut, FreeSent
  <2>2. QED
    BY <2>1
<1>6. CASE Connected \/ ConnectFails \/ Timeout \/ Destruct
  <2>1. at' \in {"yield", "leaving", "ended"}
    BY <1>6 DEF Connected, ConnectFails, Timeout, Destruct
  <2>2. QED
    BY <2>1
<1>7. CASE Poll \/ Terminate
  <2>1. at' \notin {"b", "wait", "sendWait"}
    BY <1>7 DEF Poll, Terminate, Running, Woken, TaskTypes, Stages
  <2>2. QED
    BY <2>1
<1>8. CASE ServerCloses \/ SocketDrains
  <2>1. event' = TRUE /\ UNCHANGED <<at, res_f, frames>>
    BY <1>8 DEF ServerCloses, SocketDrains, upVars
  <2>2. QED
    BY <2>1
<1>9. ASSUME NEW hasAddress \in BOOLEAN, ServerReplies(hasAddress) PROVE WaitInv'
  <2>1. event' = TRUE /\ UNCHANGED <<at, res_f, frames>>
    BY <1>9 DEF ServerReplies, upVars
  <2>2. QED
    BY <2>1
<1>10. CASE DnsUsed \/ UNCHANGED allVars
  <2>1. UNCHANGED waitVars
    BY <1>10 DEF DnsUsed, allVars, taskVars, upVars, downVars, waitVars
  <2>2. QED
    BY <2>1 DEF waitVars
<1>11. QED
  BY <1>1, <1>2, <1>3, <1>4, <1>5, <1>6, <1>7, <1>8, <1>9, <1>10 DEF SessionNext, TaskStep

-----------------------------------------------------------------------------

LEMMA SessionInitial == SessionInit => SessionInv
<1> SUFFICES ASSUME SessionInit PROVE SessionInv
  OBVIOUS
<1>1. DnsInv
  BY DnsInit DEF SessionInit
<1>2. TaskTypes /\ FlagTypes
  BY DEF SessionInit, TaskTypes, Stages, FlagTypes
<1>3. InboxTypes
  <2>1. inbox \in Seq(BOOLEAN) /\ Len(inbox) = 0
    BY DEF SessionInit
  <2>2. QED
    BY <2>1 DEF InboxTypes
<1>4. QueueInv
  <2>1. frames = << >> /\ due = << >> /\ batch = 0 /\ flight = 0
    BY DEF SessionInit
  <2>2. /\ frames \in Seq(Destinations) /\ due \in Seq(Destinations)
        /\ Len(frames) = 0 /\ Len(due) = 0
    BY <2>1, EmptyType, Zenon
  <2>3. QED
    BY <2>1, <2>2 DEF QueueInv, QueueTypes, BatchIsOut, SendsAsMeant
<1>5. WaitInv
  BY DEF SessionInit, WaitInv, IdleF, WaitsOnlyIdle
<1>6. QED
  BY <1>1, <1>2, <1>3, <1>4, <1>5 DEF SessionInv

LEMMA SessionStep == SessionInv /\ [SessionNext]_allVars => SessionInv'
BY DnsKept, TaskTypesKept, FlagTypesKept, InboxTypesKept, QueueKept, WaitKept DEF SessionInv

(* The inductive invariant of a UDP session of hev-socks5-session-udp.c,   *)
(* for any names, addresses, and sizes of queue and batch.                 *)
THEOREM SessionInvariant == SessionSpec => []SessionInv
BY SessionInitial, SessionStep, PTL DEF SessionSpec

(* Types; udp_recv_handler never queues more than UDP_POOL_SIZE + 1        *)
(* frames, and fwd_f never has more of them out than there are.            *)
THEOREM SessionTypes == SessionSpec => []SessionTypeOK
<1>1. SessionInv => SessionTypeOK
  BY DEF SessionInv, DnsInv, TaskTypes, Stages, FlagTypes, InboxTypes, QueueInv, QueueTypes,
         SessionTypeOK
<1>2. QED
  BY <1>1, SessionInvariant, PTL

(* However sendmmsg splits the batches of fwd_f and whoever is given a     *)
(* mapped address meanwhile, a queued datagram goes where it was meant to  *)
(* go when it came, in order and once; all that is excepted is an aliased  *)
(* address (Aliased), which hev_mapped_dns_lookup takes for a mapped one.  *)
THEOREM SessionSendsAsMeant == SessionSpec => []SendsAsMeant
<1>1. SessionInv => SendsAsMeant
  BY DEF SessionInv, QueueInv
<1>2. QED
  BY <1>1, SessionInvariant, PTL

(* The task of a session waits only when it has nothing to do or an event  *)
(* is on its way: udp_recv_handler, the reactor and the yielder miss none. *)
THEOREM SessionWaitsIdle == SessionSpec => []WaitsOnlyIdle
<1>1. SessionInv => WaitsOnlyIdle
  BY DEF SessionInv, WaitInv
<1>2. QED
  BY <1>1, SessionInvariant, PTL

(* Lookups of sessions and queries together leave list, tree and records   *)
(* of hev-mapped-dns.c in agreement.                                       *)
THEOREM SessionKeepsDns == SessionSpec => []Consistent
<1>1. SessionInv => Consistent
  BY DEF SessionInv, DnsInv
<1>2. QED
  BY <1>1, SessionInvariant, PTL

(* And the mapped DNS keeps the promise of AddressBook while datagrams use *)
(* its addresses.                                                          *)
THEOREM SessionKeepsAddresses == SessionSpec => KeepsAddresses
<1>1. SessionInv /\ [SessionNext]_allVars => [Book!Next]_<<records, since>>
  <2>1. [SessionNext]_allVars => [Next]_vars
    BY DnsRefined DEF allVars, dnsVars, vars
  <2>2. QED
    BY <2>1, BookStep DEF SessionInv
<1>2. SessionInit => Book!Init
  BY BookInit DEF SessionInit
<1>3. QED
  BY <1>1, <1>2, SessionInvariant, PTL DEF SessionSpec, KeepsAddresses, Book!Spec
=============================================================================
