----------------------------- MODULE PoolProofs -----------------------------
(***************************************************************************)
(* Theorems about ProxyPool, for any calls, lists and proxies.             *)
(***************************************************************************)
EXTENDS ProxyPool, SequenceTheorems, WellFoundedInduction, TLAPS

InCycle(t) == pc[t] \in {"connecting", "dropping"}

(* A cycle is over a list of some length, however calls overlap.           *)
Sized == \A t \in Task : InCycle(t) => size[t] > 0 /\ position[t] < size[t]

(* The pool is the proxies of a list and that of the settings.  If the     *)
(* latter does not parse, it is the first candidate, and nothing else is   *)
(* ever tried.                                                             *)
PoolOrigin ==
    /\ Range(pool) \subseteq Proxy \cup ({primary} \ {None})
    /\ loaded /\ primary # None => pool # <<>>
    /\ primary \in Proxy \cup {None} => \A t \in Task : pc[t] # "ValueError"
    /\ primary \notin Proxy \cup {None} =>
         /\ loaded => pool[1] = primary
         /\ index = 0 /\ via = None /\ ~gaveUp
         /\ \A t \in Task : pc[t] \in {"idle", "ValueError"}

(* One call at a time: its n is the length of the pool, it is at its       *)
(* offset from the index, it runs past no end, and it leaves no pool when  *)
(* it falls back.                                                          *)
InOrder ==
    /\ \A s, t \in Task : pc[s] \in Connecting /\ pc[t] \in Connecting => s = t
    /\ \A t \in Task :
        /\ pc[t] # "IndexError"
        /\ InCycle(t) =>
             /\ loaded /\ size[t] = Len(pool) /\ offset[t] < size[t]
             /\ position[t] = (index + offset[t]) % size[t]
             /\ spec[t] = pool[position[t] + 1]
        /\ pc[t] = "legacy" /\ loaded => pool = <<>>

(* ... the candidates it has passed were not good throughout;              *)
Slot(t, k) == pool[((index + k) % size[t]) + 1]

Passed ==
    \A t \in Task :
        /\ steady[t] \subseteq good
        /\ InCycle(t) => /\ steady[t] \subseteq Range(pool)
                         /\ \A k \in 0 .. offset[t] :
                              (pc[t] = "connecting" => k < offset[t])
                                 => Slot(t, k) \notin steady[t]
        /\ pc[t] = "legacy" => steady[t] = {}

(* ... a connect that ran out of candidates leaves the list to be fetched; *)
Refetches ==
    /\ gaveUp => ~loaded \/ \E t \in Task : InCycle(t)
    /\ RefetchAfterFailure

(* ... and the proxy that the connection was made through is the one       *)
(* before the index, last in the cycle that replaces it.                   *)
Distinct(s) == \A i, j \in DOMAIN s : s[i] = s[j] => i = j

Last == pool[((index + Len(pool) - 1) % Len(pool)) + 1]

Rotated ==
    /\ Distinct(pool)
    /\ loaded /\ (\A t \in Task : ~InCycle(t)) /\ via \in Range(pool) => via = Last
    /\ \A t \in Task : InCycle(t) =>
        /\ \A k \in 0 .. offset[t] : Slot(t, k) \in tried[t]
        /\ ~asked[t] /\ broken[t] \in Range(pool) => broken[t] = Last

(* No list names a proxy twice.                                            *)
DistinctLists == \A list \in Lists : Distinct(ParseProxyList(list))

IInv ==
    /\ TypeOK /\ Sized /\ PoolOrigin
    /\ ~Overlapping => InOrder /\ Passed
    /\ ~Overlapping /\ None \notin Primaries => Refetches
    /\ ~Overlapping /\ DistinctLists => Rotated

-----------------------------------------------------------------------------
(* Induction from 0 to n, from the least number that is not in T.          *)
LEMMA LeastNatural ==
    ASSUME NEW T, T \subseteq Nat, T # {}
    PROVE  \E m \in T : \A k \in T : m <= k
<1> DEFINE R == OpToRel(<, Nat)
<1>1. \A k, m \in Nat : k < m => <<k, m>> \in R
    BY DEF OpToRel
<1>2. IsWellFoundedOn(R, Nat)
    BY NatLessThanWellFounded
<1> HIDE DEF R
<1>3. PICK m \in T : \A k \in T : ~ (<<k, m>> \in R)
    BY <1>2, WFMin
<1>4. \A k \in T : ~ (k < m)
    BY <1>1, <1>3
<1>5. \A k \in T : m <= k
    BY <1>4
<1> QED BY <1>5

LEMMA Upward ==
    ASSUME NEW n \in Nat, NEW T, 0 \in T, \A k \in 0 .. n : k \in T /\ k < n => k + 1 \in T
    PROVE  \A k \in 0 .. n : k \in T
<1> SUFFICES ASSUME (0 .. n) \ T # {} PROVE FALSE
    OBVIOUS
<1>1. PICK m \in (0 .. n) \ T : \A k \in (0 .. n) \ T : m <= k
  <2>1. (0 .. n) \ T \subseteq Nat
      OBVIOUS
  <2> QED BY <2>1, LeastNatural
<1>2. m # 0 /\ m - 1 \in 0 .. n /\ m - 1 < n /\ (m - 1) + 1 = m
    OBVIOUS
<1>3. m - 1 \in T
    BY <1>1, <1>2
<1> QED BY <1>1, <1>2, <1>3

-----------------------------------------------------------------------------
(* What parse_proxy_list has collected after k lines.                      *)
Collected(f, lines, k) ==
    f = [i \in 0 .. k |-> IF i = 0 THEN <<>>
                          ELSE IF Kept(lines[i]) THEN Append(f[i - 1], lines[i])
                          ELSE f[i - 1]]

LEMMA CollectedExists ==
    ASSUME NEW n \in Nat, NEW lines
    PROVE  \E f : Collected(f, lines, n)
<1> DEFINE T == {k \in 0 .. n : \E f : Collected(f, lines, k)}
<1>1. 0 \in T
  <2>1. Collected([i \in 0 .. 0 |-> <<>>], lines, 0)
      BY DEF Collected
  <2> QED BY <2>1
<1>2. ASSUME NEW k \in 0 .. n, k \in T, k < n
      PROVE  k + 1 \in T
  <2>1. PICK f : Collected(f, lines, k)
      BY <1>2
  <2> DEFINE g == [i \in 0 .. k + 1 |->
                     IF i <= k THEN f[i]
                     ELSE IF Kept(lines[k + 1]) THEN Append(f[k], lines[k + 1]) ELSE f[k]]
  <2>2. ASSUME NEW i \in 0 .. k + 1
        PROVE  g[i] = IF i = 0 THEN <<>>
                      ELSE IF Kept(lines[i]) THEN Append(g[i - 1], lines[i])
                      ELSE g[i - 1]
    <3>1. CASE i = k + 1
        BY <3>1
    <3>2. CASE i \in 1 .. k
      <4>1. i - 1 \in 0 .. k + 1 /\ i - 1 <= k /\ i <= k /\ i \in 0 .. k /\ i # 0
          BY <3>2
      <4>2. g[i] = f[i] /\ g[i - 1] = f[i - 1]
          BY <4>1
      <4>3. f[i] = IF Kept(lines[i]) THEN Append(f[i - 1], lines[i]) ELSE f[i - 1]
          BY <2>1, <4>1 DEF Collected
      <4> QED BY <4>1, <4>2, <4>3
    <3>3. CASE i = 0
        BY <2>1, <3>3 DEF Collected
    <3> QED BY <3>1, <3>2, <3>3
  <2>3. Collected(g, lines, k + 1)
    <3>1. g = [i \in 0 .. k + 1 |-> g[i]]
        OBVIOUS
    <3> HIDE DEF g
    <3> QED BY <2>2, <3>1 DEF Collected
  <2>4. k + 1 \in 0 .. n
      BY <1>2
  <2> HIDE DEF g
  <2> QED BY <2>3, <2>4
<1> HIDE DEF T
<1>3. \A k \in 0 .. n : k \in T
    BY <1>1, <1>2, Upward
<1> QED BY <1>3 DEF T

LEMMA EmptyRange == DOMAIN <<>> = {} /\ Range(<<>>) = {}
<1>1. <<>> \in Seq(Proxy) /\ Len(<<>>) = 0
    BY EmptySeq
<1>2. DOMAIN <<>> = 1 .. 0 /\ 1 .. 0 = {}
    BY <1>1, LenProperties
<1> QED BY <1>2 DEF Range

(* Appending adds one element.                                             *)
LEMMA RangeAppend ==
    ASSUME NEW S, NEW s \in Seq(S), NEW e \in S
    PROVE  Append(s, e) \in Seq(S) /\ Range(Append(s, e)) = Range(s) \cup {e}
<1>1. /\ Append(s, e) \in Seq(S) /\ Len(Append(s, e)) = Len(s) + 1 /\ Len(s) \in Nat
      /\ \A i \in 1 .. Len(s) : Append(s, e)[i] = s[i]
      /\ Append(s, e)[Len(s) + 1] = e
      /\ DOMAIN s = 1 .. Len(s)
    BY AppendProperties, LenProperties
<1>2. DOMAIN Append(s, e) = 1 .. Len(s) + 1
    BY <1>1, LenProperties
<1>3. 1 .. Len(s) + 1 = (1 .. Len(s)) \cup {Len(s) + 1}
    BY <1>1
<1> QED BY <1>1, <1>2, <1>3 DEF Range

LEMMA CollectedLines ==
    ASSUME NEW S, NEW lines \in Seq(S), NEW f, Collected(f, lines, Len(lines))
    PROVE  /\ f[Len(lines)] \in Seq({e \in S : Kept(e)})
           /\ Range(f[Len(lines)]) = {e \in Range(lines) : Kept(e)}
<1> DEFINE n == Len(lines)
           L == {e \in S : Kept(e)}
           T == {k \in 0 .. n : /\ f[k] \in Seq(L)
                                /\ Range(f[k]) = {lines[i] : i \in {j \in 1 .. k : Kept(lines[j])}}}
<1>0. n \in Nat /\ DOMAIN lines = 1 .. n /\ \A i \in 1 .. n : lines[i] \in S
    BY LenProperties, ElementOfSeq
<1>1. 0 \in T
  <2>1. f[0] = <<>>
      BY <1>0 DEF Collected
  <2>2. Range(<<>>) = {} /\ 1 .. 0 = {} /\ <<>> \in Seq(L)
      BY EmptySeq, EmptyRange
  <2>3. {lines[i] : i \in {j \in 1 .. 0 : Kept(lines[j])}} = {}
      BY <2>2
  <2>4. f[0] \in Seq(L) /\ Range(f[0]) = {}
      BY <2>1, <2>2
  <2>5. 0 \in 0 .. n
      BY <1>0
  <2> QED BY <2>3, <2>4, <2>5
<1>2. ASSUME NEW k \in 0 .. n, k \in T, k < n
      PROVE  k + 1 \in T
  <2>1. k + 1 \in 0 .. n /\ k + 1 # 0 /\ (k + 1) - 1 = k /\ k + 1 \in 1 .. n
      BY <1>0, <1>2
  <2>2. f[k + 1] = IF Kept(lines[k + 1]) THEN Append(f[k], lines[k + 1]) ELSE f[k]
      BY <2>1 DEF Collected
  <2>3. PICK s : s = f[k]
      OBVIOUS
  <2>4. s \in Seq(L) /\ Range(s) = {lines[i] : i \in {j \in 1 .. k : Kept(lines[j])}}
      BY <1>2, <2>3
  <2>5. 1 .. k + 1 = (1 .. k) \cup {k + 1}
      BY <1>0
  <2>6. CASE Kept(lines[k + 1])
    <3>1. lines[k + 1] \in L
        BY <1>0, <2>1, <2>6
    <3>2. f[k + 1] \in Seq(L) /\ Range(f[k + 1]) = Range(s) \cup {lines[k + 1]}
        BY <2>2, <2>3, <2>4, <2>6, <3>1, RangeAppend
    <3>3. {j \in 1 .. k + 1 : Kept(lines[j])} = {j \in 1 .. k : Kept(lines[j])} \cup {k + 1}
        BY <2>5, <2>6
    <3> QED BY <2>1, <2>4, <3>2, <3>3
  <2>7. CASE ~ Kept(lines[k + 1])
    <3>1. {j \in 1 .. k + 1 : Kept(lines[j])} = {j \in 1 .. k : Kept(lines[j])}
        BY <2>5, <2>7
    <3> QED BY <2>1, <2>2, <2>3, <2>4, <2>7, <3>1
  <2> QED BY <2>6, <2>7
<1> HIDE DEF T
<1>3. n \in T
  <2>1. n \in 0 .. n
      BY <1>0
  <2> HIDE DEF n
  <2> QED BY <1>0, <1>1, <1>2, <2>1, Upward
<1>4. Range(lines) = {lines[i] : i \in 1 .. n}
    BY <1>0 DEF Range
<1> QED BY <1>3, <1>4 DEF T

(* parse_proxy_list keeps the lines that parse_proxy accepts, all of them  *)
(* and no other, whatever else stands in the list ("a dirty public list    *)
(* doesn't kill the pool").                                                *)
THEOREM ListIsFiltered ==
    ASSUME NEW lines \in Seq(DOMAIN Form)
    PROVE  /\ ParseProxyList(lines) \in Seq(Proxy)
           /\ Range(ParseProxyList(lines)) = {line \in Range(lines) : Kept(line)}
<1>1. PICK f : f = CHOOSE g : Collected(g, lines, Len(lines))
    OBVIOUS
<1>2. ParseProxyList(lines) = f[Len(lines)]
    BY <1>1 DEF ParseProxyList, Collected
<1>3. Collected(f, lines, Len(lines))
    BY <1>1, CollectedExists, LenProperties
<1>4. {line \in DOMAIN Form : Kept(line)} \subseteq Proxy
    BY DEF Kept, Proxy, Acceptable, ParseProxy
<1> QED BY <1>2, <1>3, <1>4, CollectedLines, SeqMonotonic

-----------------------------------------------------------------------------
(* Remainders of what is less than twice the divisor.                      *)
LEMMA Remainder ==
    ASSUME NEW n \in Nat, n > 0, NEW a \in Nat
    PROVE  /\ a % n \in 0 .. n - 1
           /\ a < n => a % n = a
           /\ n <= a /\ a < 2 * n => a % n = a - n
<1>1. a % n \in 0 .. n - 1
    OBVIOUS
<1>2. ASSUME a < n PROVE a % n = a
    BY <1>2
<1>3. ASSUME n <= a, a < 2 * n PROVE a % n = a - n
    BY <1>3
<1> QED BY <1>1, <1>2, <1>3

(* From any index, n steps visit every place of a list, and each once; the *)
(* place before the next index is this one.                                *)
LEMMA SlotNumber ==
    ASSUME NEW n \in Nat, n > 0, NEW i \in 0 .. n - 1, NEW k \in 0 .. n
    PROVE  (i + k) % n = IF i + k < n THEN i + k ELSE i + k - n
<1>1. i + k \in Nat /\ i + k < 2 * n
    OBVIOUS
<1> QED BY <1>1, Remainder

LEMMA SlotOnto ==
    ASSUME NEW n \in Nat, n > 0, NEW i \in 0 .. n - 1, NEW j \in 0 .. n - 1
    PROVE  \E k \in 0 .. n - 1 : (i + k) % n = j
<1>1. PICK k \in 0 .. n - 1 : i + k = j \/ i + k = j + n
  <2>1. CASE i <= j
    <3>1. j - i \in 0 .. n - 1 /\ i + (j - i) = j
        BY <2>1
    <3> QED BY <3>1
  <2>2. CASE j < i
    <3>1. j + n - i \in 0 .. n - 1 /\ i + (j + n - i) = j + n
        BY <2>2
    <3> QED BY <3>1
  <2> QED BY <2>1, <2>2
<1>2. (i + k) % n = IF i + k < n THEN i + k ELSE i + k - n
    BY SlotNumber
<1>3. (i + k) % n = j
    BY <1>1, <1>2
<1> QED BY <1>3

LEMMA SlotOnce ==
    ASSUME NEW n \in Nat, n > 0, NEW i \in 0 .. n - 1,
           NEW k \in 0 .. n - 1, NEW m \in 0 .. n - 1, (i + k) % n = (i + m) % n
    PROVE  k = m
<1>1. /\ (i + k) % n = IF i + k < n THEN i + k ELSE i + k - n
      /\ (i + m) % n = IF i + m < n THEN i + m ELSE i + m - n
    BY SlotNumber
<1> QED BY <1>1

LEMMA SlotBefore ==
    ASSUME NEW n \in Nat, n > 0, NEW i \in 0 .. n - 1
    PROVE  (i + 1) % n \in 0 .. n - 1 /\ (((i + 1) % n) + n - 1) % n = i
<1>1. (i + 1) % n = IF i + 1 < n THEN i + 1 ELSE i + 1 - n
    BY SlotNumber
<1>2. CASE i + 1 < n
  <2>1. (i + 1) + n - 1 = i + n /\ (i + n) % n = i
      BY SlotNumber
  <2> QED BY <1>1, <1>2, <2>1
<1>3. CASE i + 1 = n
  <2>1. (i + 1) % n = 0 /\ 0 + n - 1 = i /\ i \in Nat /\ i < n
      BY <1>1, <1>3
  <2>2. i % n = i
      BY <2>1, Remainder
  <2> QED BY <2>1, <2>2
<1> QED BY <1>2, <1>3

-----------------------------------------------------------------------------
(* Elements and indexes of a sequence.                                     *)
LEMMA InRange ==
    ASSUME NEW S, NEW s \in Seq(S)
    PROVE  /\ Len(s) \in Nat /\ DOMAIN s = 1 .. Len(s)
           /\ Range(s) \subseteq S
           /\ \A e \in Range(s) : \E i \in 1 .. Len(s) : s[i] = e
           /\ \A i \in 1 .. Len(s) : s[i] \in Range(s)
           /\ s # <<>> <=> Len(s) > 0
<1>1. Len(s) \in Nat /\ DOMAIN s = 1 .. Len(s)
    BY LenProperties
<1>2. \A i \in 1 .. Len(s) : s[i] \in S
    BY ElementOfSeq
<1>3. s # <<>> <=> Len(s) > 0
    BY <1>1, EmptySeq
<1> QED BY <1>1, <1>2, <1>3 DEF Range

(* What the pool is once the list is there.                                *)
LEMMA PrimaryFirst ==
    ASSUME NEW s \in Seq(Proxy), primary \in Primaries
    PROVE  LET to == WithPrimary(s)
           IN  /\ to \in Seq(Proxy \cup Primaries)
               /\ Range(to) \subseteq Proxy \cup ({primary} \ {None})
               /\ primary # None => to # <<>>
               /\ primary \notin Proxy \cup {None} => to[1] = primary
               /\ Distinct(s) => Distinct(to)
<1> DEFINE to == WithPrimary(s)
<1>1. CASE primary = None \/ primary \in Range(s)
  <2>1. to = s /\ Range(s) \subseteq Proxy
      BY <1>1, InRange DEF WithPrimary
  <2>2. to \in Seq(Proxy \cup Primaries)
      BY <2>1, SeqMonotonic
  <2>3. primary # None => primary \in Range(s)
      BY <1>1
  <2>4. primary # None => to # <<>>
      BY <2>1, <2>3, InRange
  <2> QED BY <2>1, <2>2, <2>3, <2>4
<1>2. CASE primary # None /\ primary \notin Range(s)
  <2>1. to = <<primary>> \o s
      BY <1>2 DEF WithPrimary
  <2> DEFINE S == Proxy \cup ({primary} \ {None})
  <2>2. <<primary>> \in Seq(S) /\ s \in Seq(S) /\ Len(<<primary>>) = 1 /\ <<primary>>[1] = primary
      BY <1>2, SeqMonotonic
  <2>3. /\ to \in Seq(S) /\ Len(to) = 1 + Len(s) /\ Len(s) \in Nat
        /\ \A i \in 1 .. 1 + Len(s) : to[i] = IF i <= 1 THEN primary ELSE s[i - 1]
    <3> HIDE DEF S, to
    <3> QED BY <2>1, <2>2, ConcatProperties, InRange
  <2>4. to # <<>> /\ to[1] = primary /\ Range(to) \subseteq S
      BY <2>3, InRange
  <2>5. to \in Seq(Proxy \cup Primaries)
      BY <2>3, SeqMonotonic
  <2>6. ASSUME Distinct(s) PROVE Distinct(to)
    <3>1. DOMAIN to = 1 .. 1 + Len(s) /\ DOMAIN s = 1 .. Len(s)
        BY <2>3, InRange
    <3>2. \A i \in 1 .. Len(s) : s[i] # primary
        BY <1>2, InRange
    <3> SUFFICES ASSUME NEW i \in 1 .. 1 + Len(s), NEW j \in 1 .. 1 + Len(s), to[i] = to[j]
                 PROVE  i = j
        BY <3>1 DEF Distinct
    <3>3. \A k \in 1 .. 1 + Len(s) : k # 1 => k - 1 \in 1 .. Len(s) /\ to[k] = s[k - 1]
        BY <2>3
    <3>4. CASE i = 1
        BY <2>4, <3>2, <3>3, <3>4
    <3>5. CASE j = 1
        BY <2>4, <3>2, <3>3, <3>5
    <3>6. CASE i # 1 /\ j # 1
      <4>1. s[i - 1] = s[j - 1] /\ i - 1 \in DOMAIN s /\ j - 1 \in DOMAIN s
          BY <3>1, <3>3, <3>6
      <4>2. i - 1 = j - 1
          BY <2>6, <4>1 DEF Distinct
      <4> QED BY <4>2
    <3> QED BY <3>4, <3>5, <3>6
  <2> QED BY <2>4, <2>5, <2>6
<1> QED BY <1>1, <1>2

(* _load_proxy_pool leaves a pool that fits the settings, and one that is  *)
(* loaded alone.                                                           *)
LEMMA PoolLoaded ==
    ASSUME TypeOK, PoolOrigin, NEW t \in Task, LoadPool(t)
    PROVE  /\ pool' \in Seq(Proxy \cup Primaries) /\ index' \in Nat /\ loaded' = TRUE
           /\ Range(pool') \subseteq Proxy \cup ({primary} \ {None})
           /\ primary # None => pool' # <<>>
           /\ primary \notin Proxy \cup {None} => pool'[1] = primary /\ index' = 0
           /\ ~Overlapping /\ pool' # <<>> => index' < Len(pool')
           /\ DistinctLists /\ Distinct(pool) => Distinct(pool')
           /\ asked' = [asked EXCEPT ![t] = ~loaded]
           /\ loaded => pool' = pool /\ index' = index
           /\ ~loaded => index' = 0
<1>1. asked' = [asked EXCEPT ![t] = ~loaded]
    BY DEF LoadPool
<1>2. CASE loaded /\ UNCHANGED shared
    BY <1>1, <1>2 DEF shared, TypeOK, PoolOrigin
<1>3. ASSUME ~loaded, loaded' = TRUE, index' = 0, NEW list \in Lists \cup {<<>>},
             pool' = WithPrimary(ParseProxyList(list))
      PROVE  /\ pool' \in Seq(Proxy \cup Primaries)
             /\ Range(pool') \subseteq Proxy \cup ({primary} \ {None})
             /\ primary # None => pool' # <<>>
             /\ primary \notin Proxy \cup {None} => pool'[1] = primary
             /\ pool' # <<>> => index' < Len(pool')
             /\ DistinctLists => Distinct(pool')
  <2>1. list \in Seq(DOMAIN Form)
      BY PoolAssumption, EmptySeq
  <2>2. PICK s : s = ParseProxyList(list)
      OBVIOUS
  <2>3. s \in Seq(Proxy)
      BY <2>1, <2>2, ListIsFiltered
  <2>4. DistinctLists => Distinct(s)
    <3>1. CASE list \in Lists
        BY <2>2, <3>1 DEF DistinctLists
    <3>2. CASE list = <<>>
      <4>1. Range(s) = {}
          BY <2>1, <2>2, <3>2, EmptyRange, ListIsFiltered
      <4>2. DOMAIN s = {}
          BY <4>1 DEF Range
      <4> QED BY <4>2 DEF Distinct
    <3> QED BY <3>1, <3>2
  <2>5. primary \in Primaries
      BY DEF TypeOK
  <2>6. pool' \in Seq(Proxy \cup Primaries)
      BY <1>3, <2>2, <2>3, <2>5, PrimaryFirst
  <2>7. pool' # <<>> => index' < Len(pool')
      BY <1>3, <2>6, InRange
  <2> QED BY <1>3, <2>2, <2>3, <2>4, <2>5, <2>6, <2>7, PrimaryFirst
<1>4. CASE ~loaded /\ loaded' = TRUE /\ index' = 0
               /\ \E list \in Lists \cup {<<>>} : pool' = WithPrimary(ParseProxyList(list))
  <2>1. PICK list \in Lists \cup {<<>>} : pool' = WithPrimary(ParseProxyList(list))
      BY <1>4
  <2> QED BY <1>1, <1>3, <1>4, <2>1
<1> QED BY <1>2, <1>4 DEF LoadPool

-----------------------------------------------------------------------------
(* What an iteration of the cycle sets.                                    *)
LEMMA TrySets ==
    ASSUME TypeOK, NEW t \in Task, NEW n \in Nat \ {0}, NEW k \in Nat, Try(t, n, k),
           pool' \in Seq(Proxy \cup Primaries), index' \in Nat
    PROVE  /\ (index' + k) % n \in 0 .. n - 1
           /\ size' = [size EXCEPT ![t] = n] /\ offset' = [offset EXCEPT ![t] = k]
           /\ position' = [position EXCEPT ![t] = (index' + k) % n] /\ attempt' = attempt
           /\ \E w \in {"connecting", "ValueError", "IndexError"} :
                /\ pc' = [pc EXCEPT ![t] = w]
                /\ (index' + k) % n < Len(pool') =>
                     /\ spec' = [spec EXCEPT ![t] = pool'[((index' + k) % n) + 1]]
                     /\ tried' = [tried EXCEPT ![t] = (IF k = 0 THEN {} ELSE tried[t])
                                    \cup {pool'[((index' + k) % n) + 1]}]
                     /\ w = IF Acceptable(pool'[((index' + k) % n) + 1]) THEN "connecting"
                            ELSE "ValueError"
                /\ (index' + k) % n >= Len(pool') => w = "IndexError"
           /\ size' \in [Task -> Nat] /\ offset' \in [Task -> Nat] /\ position' \in [Task -> Nat]
           /\ spec' \in [Task -> Route \cup Primaries \cup {None}]
           /\ tried' \in [Task -> SUBSET (Proxy \cup Primaries)]
<1> DEFINE idx == (index' + k) % n
<1>1. idx \in 0 .. n - 1
  <2>1. PICK a \in Nat : a = index'
      OBVIOUS
  <2>2. a + k \in Nat /\ n \in Nat /\ n > 0
      OBVIOUS
  <2> QED BY <2>1, <2>2, Remainder
<1> HIDE DEF idx
<1>2. /\ size' = [size EXCEPT ![t] = n] /\ offset' = [offset EXCEPT ![t] = k]
      /\ position' = [position EXCEPT ![t] = idx] /\ attempt' = attempt
    BY DEF Try, idx
<1>3. size' \in [Task -> Nat] /\ offset' \in [Task -> Nat] /\ position' \in [Task -> Nat]
    BY <1>1, <1>2 DEF TypeOK
<1>4. Len(pool') \in Nat /\ (idx < Len(pool') => pool'[idx + 1] \in Proxy \cup Primaries)
  <2>1. Len(pool') \in Nat
      BY InRange
  <2>2. idx < Len(pool') => idx + 1 \in 1 .. Len(pool')
      BY <1>1, <2>1
  <2> QED BY <2>1, <2>2, ElementOfSeq
<1>5. CASE idx < Len(pool')
  <2>1. /\ spec' = [spec EXCEPT ![t] = pool'[idx + 1]]
        /\ tried' = [tried EXCEPT ![t] =
                       (IF k = 0 THEN {} ELSE tried[t]) \cup {pool'[idx + 1]}]
        /\ pc' = [pc EXCEPT ![t] = IF Acceptable(pool'[idx + 1]) THEN "connecting"
                                   ELSE "ValueError"]
      BY <1>1, <1>4, <1>5 DEF Try, idx
  <2>2. spec' \in [Task -> Route \cup Primaries \cup {None}]
      BY <1>4, <1>5, <2>1 DEF TypeOK, Route
  <2>3. tried' \in [Task -> SUBSET (Proxy \cup Primaries)]
      BY <1>4, <1>5, <2>1 DEF TypeOK
  <2>4. PICK w \in {"connecting", "ValueError", "IndexError"} :
           w = IF Acceptable(pool'[idx + 1]) THEN "connecting" ELSE "ValueError"
      OBVIOUS
  <2>5. ~ (idx >= Len(pool'))
      BY <1>1, <1>4, <1>5
  <2> QED BY <1>1, <1>2, <1>3, <2>1, <2>2, <2>3, <2>4, <2>5 DEF idx
<1>6. CASE idx >= Len(pool')
  <2>1. pc' = [pc EXCEPT ![t] = "IndexError"] /\ UNCHANGED <<spec, tried>>
      BY <1>1, <1>4, <1>6 DEF Try, idx
  <2>2. /\ spec' \in [Task -> Route \cup Primaries \cup {None}]
        /\ tried' \in [Task -> SUBSET (Proxy \cup Primaries)]
      BY <2>1 DEF TypeOK
  <2>3. ~ (idx < Len(pool'))
      BY <1>1, <1>4, <1>6
  <2> QED BY <1>1, <1>2, <1>3, <2>1, <2>2, <2>3 DEF idx
<1>7. idx < Len(pool') \/ idx >= Len(pool')
    BY <1>1, <1>4
<1> QED BY <1>5, <1>6, <1>7

(* The constants apart from each other.                                    *)
LEMMA Constants ==
    /\ None \notin Route \cup Proxy /\ Direct \notin Proxy \cup Primaries
    /\ Route = Proxy \cup {Direct} /\ Proxy \subseteq DOMAIN Form
    /\ \A p \in Proxy : Acceptable(p)
    /\ \A p \in Primaries : p \notin Proxy \cup {None} => ~ Acceptable(p)
<1>1. /\ None \notin Route \cup Proxy /\ Direct \notin Proxy \cup Primaries
      /\ Route = Proxy \cup {Direct} /\ Proxy \subseteq DOMAIN Form
      /\ \A p \in Proxy : Acceptable(p)
    BY PoolAssumption DEF Route, Proxy
<1>2. ASSUME NEW p \in Primaries, p \notin Proxy \cup {None} PROVE ~ Acceptable(p)
  <2>1. p \in DOMAIN Form /\ Form[p].is # "blank"
      BY <1>2, PoolAssumption
  <2>2. CASE Form[p].is \in {"link", "uri"}
      BY <1>2, <2>1, <2>2 DEF Proxy
  <2>3. CASE Form[p].is \notin {"link", "uri"}
      BY <2>1, <2>3 DEF Acceptable, ParseProxy
  <2> QED BY <2>2, <2>3
<1> QED BY <1>1, <1>2

Typed == TypeOK /\ Sized /\ PoolOrigin

LEMMA TypeInit == Init => Typed
<1> SUFFICES ASSUME Init PROVE Typed
    OBVIOUS
<1>1. TypeOK
  <2>1. pool \in Seq(Proxy \cup Primaries) /\ pool = <<>>
      BY EmptySeq DEF Init
  <2>2. 0 \in 0 .. MaxCycles /\ 0 \in 0 .. Attempts
      BY PoolAssumption
  <2>3. /\ pc \in [Task -> {"idle", "connecting", "dropping", "legacy", "IndexError", "ValueError"}]
        /\ size \in [Task -> Nat] /\ offset \in [Task -> Nat] /\ position \in [Task -> Nat]
        /\ spec \in [Task -> Route \cup Primaries \cup {None}] /\ attempt \in [Task -> 0 .. Attempts]
        /\ asked \in [Task -> BOOLEAN] /\ after \in [Task -> BOOLEAN]
        /\ broken \in [Task -> Route \cup {None}]
        /\ tried \in [Task -> SUBSET (Proxy \cup Primaries)] /\ steady \in [Task -> SUBSET Proxy]
      BY <2>2 DEF Init
  <2> QED BY <2>1, <2>2, <2>3 DEF Init, TypeOK
<1>2. Sized
    BY DEF Init, Sized, InCycle
<1>3. PoolOrigin
  <2>1. Range(pool) = {}
      BY EmptyRange DEF Init
  <2> QED BY <2>1 DEF Init, PoolOrigin
<1> QED BY <1>1, <1>2, <1>3 DEF Typed

(* What falling back and the end of a connect set.                         *)
LEMMA FallBackSets ==
    ASSUME TypeOK, NEW t \in Task, FallBack(t)
    PROVE  /\ pc' = [pc EXCEPT ![t] = "legacy"] /\ gaveUp' = TRUE
           /\ UNCHANGED <<size, offset, position, tried>>
           /\ spec' \in [Task -> Route \cup Primaries \cup {None}]
           /\ attempt' \in [Task -> 0 .. Attempts]
<1>1. spec' = [spec EXCEPT ![t] = IF primary = None THEN Direct ELSE primary]
    BY DEF FallBack
<1>2. attempt' \in [Task -> 0 .. Attempts]
  <2>1. 1 \in 0 .. Attempts
      BY PoolAssumption
  <2> QED BY <2>1 DEF FallBack, TypeOK
<1>3. spec' \in [Task -> Route \cup Primaries \cup {None}]
    BY <1>1 DEF TypeOK, Route
<1> QED BY <1>2, <1>3 DEF FallBack

LEMMA EndSets ==
    ASSUME Typed, NEW t \in Task, End(t), UNCHANGED <<pool, loaded>>,
           loaded' \in BOOLEAN, index' \in Nat, via' \in Route \cup {None}, gaveUp' \in BOOLEAN,
           ~Overlapping /\ pool # <<>> => index' < Len(pool),
           InCycle(t) \/ pc[t] = "legacy"
    PROVE  Typed'
<1>1. /\ pc' = [pc EXCEPT ![t] = "idle"]
      /\ size' = [size EXCEPT ![t] = 0] /\ offset' = [offset EXCEPT ![t] = 0]
      /\ position' = [position EXCEPT ![t] = 0] /\ spec' = [spec EXCEPT ![t] = None]
      /\ attempt' = [attempt EXCEPT ![t] = 0]
      /\ asked' = [asked EXCEPT ![t] = FALSE] /\ after' = [after EXCEPT ![t] = FALSE]
      /\ broken' = [broken EXCEPT ![t] = None]
      /\ tried' = [tried EXCEPT ![t] = {}] /\ steady' = [steady EXCEPT ![t] = {}]
      /\ UNCHANGED <<primary, good, cycles>>
    BY DEF End
<1>2. TypeOK'
  <2>1. 0 \in 0 .. Attempts /\ 0 \in Nat
      BY PoolAssumption
  <2>2. /\ pc' \in [Task -> {"idle", "connecting", "dropping", "legacy", "IndexError", "ValueError"}]
        /\ size' \in [Task -> Nat] /\ offset' \in [Task -> Nat] /\ position' \in [Task -> Nat]
        /\ spec' \in [Task -> Route \cup Primaries \cup {None}] /\ attempt' \in [Task -> 0 .. Attempts]
      BY <1>1, <2>1 DEF Typed, TypeOK
  <2>3. /\ asked' \in [Task -> BOOLEAN] /\ after' \in [Task -> BOOLEAN]
        /\ broken' \in [Task -> Route \cup {None}]
        /\ tried' \in [Task -> SUBSET (Proxy \cup Primaries)] /\ steady' \in [Task -> SUBSET Proxy]
      BY <1>1 DEF Typed, TypeOK
  <2> QED BY <1>1, <2>2, <2>3 DEF Typed, TypeOK
<1>3. Sized'
    BY <1>1 DEF Typed, TypeOK, Sized, InCycle
<1>4. PoolOrigin'
  <2>1. primary \in Proxy \cup {None}
      BY DEF Typed, PoolOrigin, InCycle
  <2> QED BY <1>1, <2>1 DEF Typed, TypeOK, PoolOrigin
<1> QED BY <1>2, <1>3, <1>4 DEF Typed

(* A connect starts.                                                       *)
LEMMA StartTyped ==
    ASSUME Typed, NEW t \in Task, StartCycle(t)
    PROVE  Typed'
<1> USE DEF Typed
<1>1. /\ LoadPool(t) /\ cycles' = cycles + 1 /\ cycles < MaxCycles
      /\ after' = [after EXCEPT ![t] = gaveUp] /\ broken' = [broken EXCEPT ![t] = via]
      /\ steady' = [steady EXCEPT ![t] = good \cap Range(pool')]
      /\ UNCHANGED <<primary, good, via>>
      /\ pc[t] \in {"idle", "ValueError"}
    BY DEF StartCycle
<1>2. /\ pool' \in Seq(Proxy \cup Primaries) /\ index' \in Nat /\ loaded' = TRUE
      /\ Range(pool') \subseteq Proxy \cup ({primary} \ {None})
      /\ primary # None => pool' # <<>>
      /\ primary \notin Proxy \cup {None} => pool'[1] = primary /\ index' = 0
      /\ ~Overlapping /\ pool' # <<>> => index' < Len(pool')
      /\ asked' = [asked EXCEPT ![t] = ~loaded]
    BY <1>1, PoolLoaded
<1>3. /\ cycles' \in 0 .. MaxCycles /\ after' \in [Task -> BOOLEAN]
      /\ asked' \in [Task -> BOOLEAN] /\ broken' \in [Task -> Route \cup {None}]
  <2>1. cycles' \in 0 .. MaxCycles
      BY <1>1, PoolAssumption DEF TypeOK
  <2>2. after' \in [Task -> BOOLEAN]
      BY <1>1 DEF TypeOK
  <2>3. asked' \in [Task -> BOOLEAN]
      BY <1>2 DEF TypeOK
  <2>4. broken' \in [Task -> Route \cup {None}]
      BY <1>1 DEF TypeOK
  <2> QED BY <2>1, <2>2, <2>3, <2>4
<1>4. steady' \in [Task -> SUBSET Proxy]
  <2>1. good \cap Range(pool') \subseteq Proxy
      BY <1>2, Constants DEF TypeOK
  <2> QED BY <1>1, <2>1 DEF TypeOK
<1>5. CASE pool' = <<>>
  <2>1. FallBack(t)
      BY <1>5 DEF StartCycle
  <2>2. /\ pc' = [pc EXCEPT ![t] = "legacy"] /\ gaveUp' = TRUE
        /\ UNCHANGED <<size, offset, position, tried>>
        /\ spec' \in [Task -> Route \cup Primaries \cup {None}]
        /\ attempt' \in [Task -> 0 .. Attempts]
      BY <2>1, FallBackSets
  <2>3. TypeOK'
      BY <1>1, <1>2, <1>3, <1>4, <1>5, <2>2 DEF TypeOK
  <2>4. Sized'
      BY <2>2 DEF TypeOK, Sized, InCycle
  <2>5. PoolOrigin'
      BY <1>1, <1>2, <1>5, <2>2 DEF TypeOK, PoolOrigin
  <2> QED BY <2>3, <2>4, <2>5
<1>6. CASE pool' # <<>>
  <2> DEFINE n == Len(pool')
             idx == (index' + 0) % n
  <2>1. n \in Nat \ {0}
      BY <1>2, <1>6, InRange
  <2>2. Try(t, n, 0) /\ gaveUp' = gaveUp
      BY <1>6 DEF StartCycle
  <2>3. /\ idx \in 0 .. n - 1
        /\ size' = [size EXCEPT ![t] = n] /\ offset' = [offset EXCEPT ![t] = 0]
        /\ position' = [position EXCEPT ![t] = idx] /\ attempt' = attempt
        /\ \E w \in {"connecting", "ValueError", "IndexError"} :
             /\ pc' = [pc EXCEPT ![t] = w]
             /\ idx < Len(pool') =>
                  /\ spec' = [spec EXCEPT ![t] = pool'[idx + 1]]
                  /\ tried' = [tried EXCEPT ![t] = (IF 0 = 0 THEN {} ELSE tried[t])
                                                   \cup {pool'[idx + 1]}]
                  /\ w = IF Acceptable(pool'[idx + 1]) THEN "connecting" ELSE "ValueError"
             /\ idx >= Len(pool') => w = "IndexError"
        /\ size' \in [Task -> Nat] /\ offset' \in [Task -> Nat] /\ position' \in [Task -> Nat]
        /\ spec' \in [Task -> Route \cup Primaries \cup {None}]
        /\ tried' \in [Task -> SUBSET (Proxy \cup Primaries)]
    <3>1. 0 \in Nat
        OBVIOUS
    <3> HIDE DEF n
    <3> QED BY <1>2, <2>1, <2>2, <3>1, TrySets
  <2> HIDE DEF idx
  <2>4. PICK w \in {"connecting", "ValueError"} :
           /\ pc' = [pc EXCEPT ![t] = w]
           /\ w = IF Acceptable(pool'[idx + 1]) THEN "connecting" ELSE "ValueError"
    <3>1. idx < Len(pool')
        BY <2>1, <2>3
    <3> QED BY <2>3, <3>1
  <2>5. TypeOK'
      BY <1>1, <1>2, <1>3, <1>4, <2>2, <2>3, <2>4 DEF TypeOK
  <2>6. Sized'
      BY <2>1, <2>3, <2>4 DEF TypeOK, Sized, InCycle
  <2>7. CASE primary \in Proxy \cup {None}
    <3>1. pool'[idx + 1] \in Range(pool')
      <4>1. idx + 1 \in 1 .. Len(pool')
          BY <2>1, <2>3
      <4> QED BY <1>2, <4>1, InRange
    <3>2. w = "connecting"
        BY <1>2, <2>4, <2>7, <3>1, Constants
    <3> QED BY <1>1, <1>2, <1>6, <2>2, <2>4, <2>5, <2>6, <2>7, <3>2 DEF TypeOK, PoolOrigin
  <2>8. CASE primary \notin Proxy \cup {None}
    <3>1. idx = 0 /\ pool'[1] = primary
        BY <1>2, <2>1, <2>8, Remainder DEF idx
    <3>2. w = "ValueError"
        BY <2>4, <2>8, <3>1, Constants DEF TypeOK
    <3> QED BY <1>1, <1>2, <1>6, <2>2, <2>4, <2>5, <2>6, <2>8, <3>1, <3>2 DEF TypeOK, PoolOrigin
  <2> QED BY <2>7, <2>8
<1> QED BY <1>5, <1>6

(* Every other step.                                                       *)
LEMMA CandidateTyped ==
    ASSUME Typed, ~Overlapping => InOrder, NEW t \in Task
    PROVE  /\ CandidateConnects(t) => Typed'
           /\ CandidateFails(t) => Typed'
           /\ NextCandidate(t) => Typed'
           /\ GiveUpPool(t) => Typed'
<1> USE DEF Typed
<1>1. ASSUME CandidateConnects(t) PROVE Typed'
  <2>1. /\ pc[t] = "connecting" /\ spec[t] \in good /\ End(t) /\ via' = spec[t]
        /\ index' = (position[t] + 1) % size[t] /\ gaveUp' = FALSE
        /\ UNCHANGED <<pool, loaded>>
      BY <1>1 DEF CandidateConnects, Done
  <2>2. index' \in 0 .. size[t] - 1 /\ size[t] \in Nat
    <3>1. size[t] \in Nat /\ size[t] > 0 /\ position[t] + 1 \in Nat
        BY <2>1 DEF TypeOK, Sized, InCycle
    <3> QED BY <2>1, <3>1, Remainder
  <2>3. ~Overlapping => index' < Len(pool)
      BY <2>1, <2>2 DEF InOrder, InCycle
  <2>4. loaded' \in BOOLEAN /\ gaveUp' \in BOOLEAN
      BY <2>1 DEF TypeOK
  <2>5. index' \in Nat
      BY <2>2
  <2>6. via' \in Route \cup {None}
      BY <2>1 DEF TypeOK
  <2> QED BY <2>1, <2>3, <2>4, <2>5, <2>6, EndSets DEF InCycle
<1>2. ASSUME CandidateFails(t) PROVE Typed'
  <2>1. pc[t] = "connecting" /\ pc' = [pc EXCEPT ![t] = "dropping"]
      BY <1>2 DEF CandidateFails
  <2>2. /\ UNCHANGED <<primary, pool, index, loaded, good>>
        /\ UNCHANGED <<size, offset, position, spec, attempt>>
        /\ UNCHANGED <<cycles, via, gaveUp, asked, after, broken, tried, steady>>
      BY <1>2 DEF CandidateFails, shared, locals, begun
  <2>3. TypeOK'
      BY <2>1, <2>2 DEF TypeOK
  <2>4. Sized'
      BY <2>1, <2>2 DEF TypeOK, Sized, InCycle
  <2>5. PoolOrigin'
      BY <2>1, <2>2 DEF TypeOK, PoolOrigin
  <2> QED BY <2>3, <2>4, <2>5
<1>3. ASSUME NextCandidate(t) PROVE Typed'
  <2>1. /\ pc[t] = "dropping" /\ offset[t] + 1 < size[t] /\ Try(t, size[t], offset[t] + 1)
        /\ UNCHANGED <<primary, pool, index, loaded, good>>
        /\ UNCHANGED <<cycles, via, gaveUp, asked, after, broken, steady>>
      BY <1>3 DEF NextCandidate, shared, begun
  <2>2. PICK n \in Nat \ {0}, k \in Nat : n = size[t] /\ k = offset[t] + 1
      BY <2>1 DEF TypeOK, Sized, InCycle
  <2> DEFINE idx == (index' + k) % n
  <2>3. pool' \in Seq(Proxy \cup Primaries) /\ index' \in Nat /\ Try(t, n, k)
      BY <2>1, <2>2 DEF TypeOK
  <2>4. /\ idx \in 0 .. n - 1
        /\ size' = [size EXCEPT ![t] = n] /\ offset' = [offset EXCEPT ![t] = k]
        /\ position' = [position EXCEPT ![t] = idx] /\ attempt' = attempt
        /\ \E w \in {"connecting", "ValueError", "IndexError"} :
             /\ pc' = [pc EXCEPT ![t] = w]
             /\ idx < Len(pool') =>
                  /\ spec' = [spec EXCEPT ![t] = pool'[idx + 1]]
                  /\ tried' = [tried EXCEPT ![t] = (IF k = 0 THEN {} ELSE tried[t])
                                                   \cup {pool'[idx + 1]}]
                  /\ w = IF Acceptable(pool'[idx + 1]) THEN "connecting" ELSE "ValueError"
             /\ idx >= Len(pool') => w = "IndexError"
        /\ size' \in [Task -> Nat] /\ offset' \in [Task -> Nat] /\ position' \in [Task -> Nat]
        /\ spec' \in [Task -> Route \cup Primaries \cup {None}]
        /\ tried' \in [Task -> SUBSET (Proxy \cup Primaries)]
      BY <2>3, TrySets
  <2> HIDE DEF idx
  <2>5. PICK w \in {"connecting", "ValueError", "IndexError"} :
           /\ pc' = [pc EXCEPT ![t] = w]
           /\ idx < Len(pool) =>
                w = IF Acceptable(pool[idx + 1]) THEN "connecting" ELSE "ValueError"
           /\ idx >= Len(pool) => w = "IndexError"
      BY <2>1, <2>4
  <2>6. TypeOK'
      BY <2>1, <2>4, <2>5 DEF TypeOK
  <2>7. Sized'
      BY <2>1, <2>2, <2>4, <2>5 DEF TypeOK, Sized, InCycle
  <2>8. w # "ValueError" /\ primary \in Proxy \cup {None}
    <3>1. primary \in Proxy \cup {None}
        BY <2>1 DEF PoolOrigin
    <3>2. CASE idx < Len(pool)
      <4>1. pool[idx + 1] \in Range(pool)
        <5>1. idx + 1 \in 1 .. Len(pool)
            BY <2>4, <3>2, InRange DEF TypeOK
        <5> QED BY <5>1, InRange DEF TypeOK
      <4>2. Acceptable(pool[idx + 1])
          BY <3>1, <4>1, Constants DEF PoolOrigin
      <4> QED BY <2>5, <3>1, <3>2, <4>2
    <3>3. CASE idx >= Len(pool)
        BY <2>5, <3>1, <3>3
    <3>4. idx < Len(pool) \/ idx >= Len(pool)
        BY <2>4, InRange DEF TypeOK
    <3> QED BY <3>2, <3>3, <3>4
  <2>9. PoolOrigin'
      BY <2>1, <2>5, <2>8 DEF TypeOK, PoolOrigin
  <2> QED BY <2>6, <2>7, <2>9
<1>4. ASSUME GiveUpPool(t) PROVE Typed'
  <2>1. /\ pc[t] = "dropping" /\ loaded' = FALSE /\ FallBack(t)
        /\ UNCHANGED <<primary, pool, index, good, cycles, via, asked, after, broken, steady>>
      BY <1>4 DEF GiveUpPool, begun
  <2>2. /\ pc' = [pc EXCEPT ![t] = "legacy"] /\ gaveUp' = TRUE
        /\ UNCHANGED <<size, offset, position, tried>>
        /\ spec' \in [Task -> Route \cup Primaries \cup {None}]
        /\ attempt' \in [Task -> 0 .. Attempts]
      BY <2>1, FallBackSets
  <2>3. TypeOK'
      BY <2>1, <2>2 DEF TypeOK
  <2>4. Sized'
      BY <2>2 DEF TypeOK, Sized, InCycle
  <2>5. PoolOrigin'
    <3>1. primary \in Proxy \cup {None}
        BY <2>1 DEF PoolOrigin
    <3> QED BY <2>1, <2>2, <3>1 DEF TypeOK, PoolOrigin
  <2> QED BY <2>3, <2>4, <2>5
<1> QED BY <1>1, <1>2, <1>3, <1>4

LEMMA LegacyTyped ==
    ASSUME Typed, NEW t \in Task
    PROVE  /\ LegacyConnects(t) => Typed'
           /\ LegacyFails(t) => Typed'
           /\ LegacyGivesUp(t) => Typed'
<1> USE DEF Typed
<1>0. ~Overlapping /\ pool # <<>> => index < Len(pool)
    BY DEF TypeOK
<1>1. ASSUME LegacyConnects(t) PROVE Typed'
  <2>1. /\ pc[t] = "legacy" /\ spec[t] \in good /\ End(t) /\ via' = spec[t]
        /\ UNCHANGED <<pool, index, loaded, gaveUp>>
      BY <1>1 DEF LegacyConnects, Done, shared
  <2>2. loaded' \in BOOLEAN /\ index' \in Nat /\ via' \in Route \cup {None} /\ gaveUp' \in BOOLEAN
      BY <2>1 DEF TypeOK
  <2> QED BY <1>0, <2>1, <2>2, EndSets
<1>2. ASSUME LegacyFails(t) PROVE Typed'
  <2>1. /\ attempt[t] < Attempts /\ attempt' = [attempt EXCEPT ![t] = attempt[t] + 1]
        /\ UNCHANGED <<primary, pool, index, loaded, good, pc>>
        /\ UNCHANGED <<size, offset, position, spec>>
        /\ UNCHANGED <<cycles, via, gaveUp, asked, after, broken, tried, steady>>
      BY <1>2 DEF LegacyFails, shared, begun
  <2>2. attempt' \in [Task -> 0 .. Attempts]
      BY <2>1, PoolAssumption DEF TypeOK
  <2>3. TypeOK'
      BY <2>1, <2>2 DEF TypeOK
  <2>4. Sized' /\ PoolOrigin'
      BY <2>1 DEF TypeOK, Sized, InCycle, PoolOrigin
  <2> QED BY <2>3, <2>4
<1>3. ASSUME LegacyGivesUp(t) PROVE Typed'
  <2>1. pc[t] = "legacy" /\ End(t) /\ UNCHANGED <<pool, index, loaded, via, gaveUp>>
      BY <1>3 DEF LegacyGivesUp, shared
  <2>2. loaded' \in BOOLEAN /\ index' \in Nat /\ via' \in Route \cup {None} /\ gaveUp' \in BOOLEAN
      BY <2>1 DEF TypeOK
  <2> QED BY <1>0, <2>1, <2>2, EndSets
<1> QED BY <1>1, <1>2, <1>3

LEMMA TypedStep ==
    Typed /\ (~Overlapping => InOrder) /\ [Next]_vars => Typed'
<1> SUFFICES ASSUME Typed, ~Overlapping => InOrder, [Next]_vars PROVE Typed'
    OBVIOUS
<1>1. ASSUME NetChanges PROVE Typed'
  <2>1. /\ good' \subseteq Route /\ steady' = [t \in Task |-> steady[t] \cap good']
        /\ UNCHANGED <<primary, pool, index, loaded, pc>>
        /\ UNCHANGED <<size, offset, position, spec, attempt>>
        /\ UNCHANGED <<cycles, via, gaveUp, asked, after, broken, tried>>
      BY <1>1 DEF NetChanges, shared, locals, begun
  <2>2. steady' \in [Task -> SUBSET Proxy]
      BY <2>1 DEF Typed, TypeOK
  <2>3. TypeOK'
      BY <2>1, <2>2 DEF Typed, TypeOK
  <2>4. Sized' /\ PoolOrigin'
      BY <2>1 DEF Typed, TypeOK, Sized, InCycle, PoolOrigin
  <2> QED BY <2>3, <2>4 DEF Typed
<1>2. ASSUME UNCHANGED vars PROVE Typed'
    BY <1>2 DEF vars, shared, locals, begun, Typed, TypeOK, Sized, InCycle, PoolOrigin
<1>3. ASSUME NEW t \in Task,
             \/ StartCycle(t)
             \/ CandidateConnects(t) \/ CandidateFails(t) \/ NextCandidate(t) \/ GiveUpPool(t)
             \/ LegacyConnects(t) \/ LegacyFails(t) \/ LegacyGivesUp(t)
      PROVE  Typed'
    BY <1>3, StartTyped, CandidateTyped, LegacyTyped
<1> QED BY <1>1, <1>2, <1>3 DEF Next

(* While one call connects no other does.                                  *)
LEMMA Alone ==
    ASSUME InOrder, NEW t \in Task, pc[t] \in Connecting
    PROVE  \A s \in Task \ {t} : pc[s] \notin Connecting /\ ~ InCycle(s) /\ pc[s] # "legacy"
BY DEF InOrder, Connecting, InCycle

(* Where the cycle of a call stands, with the place of its candidate.      *)
LEMMA Standing ==
    ASSUME Typed, InOrder, ~Overlapping, NEW t \in Task, InCycle(t)
    PROVE  LET n == Len(pool)
           IN  /\ n \in Nat /\ n > 0 /\ size[t] = n /\ pool # <<>>
               /\ index \in 0 .. n - 1 /\ offset[t] \in 0 .. n - 1 /\ position[t] \in 0 .. n - 1
               /\ position[t] = (index + offset[t]) % n
               /\ spec[t] = pool[position[t] + 1] /\ spec[t] \in Range(pool)
               /\ \A k \in Nat : Slot(t, k) = pool[((index + k) % n) + 1]
               /\ spec[t] = Slot(t, offset[t])
               /\ \A e \in Range(pool) : \E k \in 0 .. n - 1 : e = Slot(t, k)
<1> DEFINE n == Len(pool)
<1>1. n \in Nat /\ (pool # <<>> <=> n > 0)
    BY InRange DEF Typed, TypeOK
<1>2. /\ size[t] = n /\ offset[t] < n /\ position[t] = (index + offset[t]) % n
      /\ spec[t] = pool[position[t] + 1]
    BY DEF InOrder
<1>3. n > 0 /\ position[t] < n /\ position[t] \in Nat /\ offset[t] \in Nat /\ index \in Nat
    BY <1>2 DEF Typed, TypeOK, Sized
<1>4. index < n
    BY <1>1, <1>3 DEF Typed, TypeOK
<1>8. index \in 0 .. n - 1 /\ offset[t] \in 0 .. n - 1 /\ position[t] \in 0 .. n - 1
    BY <1>1, <1>2, <1>3, <1>4
<1>5. spec[t] \in Range(pool)
  <2>1. position[t] + 1 \in 1 .. n
      BY <1>1, <1>3
  <2> QED BY <1>2, <2>1, InRange DEF Typed, TypeOK
<1>6. \A k \in Nat : Slot(t, k) = pool[((index + k) % n) + 1]
    BY <1>2 DEF Slot
<1>7. ASSUME NEW e \in Range(pool) PROVE \E k \in 0 .. n - 1 : e = Slot(t, k)
  <2>1. PICK i \in 1 .. n : pool[i] = e
      BY InRange DEF Typed, TypeOK
  <2>2. i - 1 \in 0 .. n - 1 /\ (i - 1) + 1 = i /\ index \in 0 .. n - 1
      BY <1>1, <1>3, <1>4
  <2>3. PICK k \in 0 .. n - 1 : (index + k) % n = i - 1
    <3>1. PICK m \in Nat, a \in 0 .. n - 1, j \in 0 .. n - 1 :
             m = n /\ a = index /\ j = i - 1
        BY <1>1, <2>2
    <3>2. m \in Nat /\ m > 0 /\ a \in 0 .. m - 1 /\ j \in 0 .. m - 1
        BY <1>3, <3>1
    <3>3. \E k \in 0 .. m - 1 : (a + k) % m = j
        BY <3>2, SlotOnto
    <3> QED BY <3>1, <3>3
  <2>4. k \in Nat
      OBVIOUS
  <2> QED BY <1>6, <2>1, <2>2, <2>3, <2>4
<1>9. spec[t] = Slot(t, offset[t])
    BY <1>2, <1>3, <1>6
<1> QED BY <1>1, <1>2, <1>3, <1>5, <1>6, <1>7, <1>8, <1>9

(* What the next candidate is, one call at a time.                         *)
LEMMA TryInOrder ==
    ASSUME Typed, ~Overlapping, NEW t \in Task, NEW n \in Nat \ {0}, NEW k \in Nat, k < n,
           Try(t, n, k), pool' \in Seq(Proxy \cup Primaries), n <= Len(pool'),
           index' \in Nat, index' < n, PoolOrigin'
    PROVE  /\ size' = [size EXCEPT ![t] = n] /\ offset' = [offset EXCEPT ![t] = k]
           /\ position' = [position EXCEPT ![t] = (index' + k) % n]
           /\ (index' + k) % n \in 0 .. n - 1
           /\ spec' = [spec EXCEPT ![t] = pool'[((index' + k) % n) + 1]]
           /\ tried' = [tried EXCEPT ![t] = (IF k = 0 THEN {} ELSE tried[t])
                                            \cup {pool'[((index' + k) % n) + 1]}]
           /\ \/ pc' = [pc EXCEPT ![t] = "connecting"]
              \/ /\ pc' = [pc EXCEPT ![t] = "ValueError"]
                 /\ primary' \notin Proxy \cup {None} /\ via' = None /\ ~gaveUp'
<1> DEFINE idx == (index' + k) % n
<1>1. /\ idx \in 0 .. n - 1
      /\ size' = [size EXCEPT ![t] = n] /\ offset' = [offset EXCEPT ![t] = k]
      /\ position' = [position EXCEPT ![t] = idx] /\ attempt' = attempt
      /\ \E w \in {"connecting", "ValueError", "IndexError"} :
           /\ pc' = [pc EXCEPT ![t] = w]
           /\ idx < Len(pool') =>
                /\ spec' = [spec EXCEPT ![t] = pool'[idx + 1]]
                /\ tried' = [tried EXCEPT ![t] = (IF k = 0 THEN {} ELSE tried[t])
                                                 \cup {pool'[idx + 1]}]
                /\ w = IF Acceptable(pool'[idx + 1]) THEN "connecting" ELSE "ValueError"
           /\ idx >= Len(pool') => w = "IndexError"
      /\ size' \in [Task -> Nat] /\ offset' \in [Task -> Nat] /\ position' \in [Task -> Nat]
      /\ spec' \in [Task -> Route \cup Primaries \cup {None}]
      /\ tried' \in [Task -> SUBSET (Proxy \cup Primaries)]
  <2>1. /\ TypeOK /\ t \in Task /\ n \in Nat \ {0} /\ k \in Nat /\ Try(t, n, k)
        /\ pool' \in Seq(Proxy \cup Primaries) /\ index' \in Nat
      BY DEF Typed
  <2> QED BY ONLY <2>1, TrySets
<1> HIDE DEF idx
<1>2. idx < Len(pool')
    BY <1>1
<1>3. PICK w \in {"connecting", "ValueError"} : pc' = [pc EXCEPT ![t] = w]
    BY <1>1, <1>2
<1>4. CASE w = "connecting"
    BY <1>1, <1>2, <1>3, <1>4 DEF idx
<1>5. CASE w = "ValueError"
  <2>1. pc'[t] = "ValueError"
      BY <1>3, <1>5 DEF Typed, TypeOK
  <2>2. primary' \notin Proxy \cup {None} /\ via' = None /\ ~gaveUp'
      BY <2>1 DEF PoolOrigin
  <2> QED BY <1>1, <1>2, <1>3, <1>5, <2>2 DEF idx
<1> QED BY <1>4, <1>5

-----------------------------------------------------------------------------
(* What each step does when no other call is connecting.                   *)
LEMMA StartAlone ==
    ASSUME Typed, Typed', ~Overlapping, NEW t \in Task, StartCycle(t)
    PROVE  LET n == Len(pool')
           IN  /\ pc[t] \in {"idle", "ValueError"}
               /\ \A s \in Task : pc[s] \notin Connecting /\ ~ InCycle(s) /\ pc[s] # "legacy"
               /\ loaded' = TRUE /\ (loaded => pool' = pool /\ index' = index)
               /\ asked' = [asked EXCEPT ![t] = ~loaded]
               /\ after' = [after EXCEPT ![t] = gaveUp] /\ broken' = [broken EXCEPT ![t] = via]
               /\ steady' = [steady EXCEPT ![t] = good \cap Range(pool')]
               /\ UNCHANGED <<primary, good, via>>
               /\ \/ /\ pool' = <<>> /\ primary = None
                     /\ pc' = [pc EXCEPT ![t] = "legacy"]
                  \/ /\ n \in Nat /\ n > 0 /\ index' \in 0 .. n - 1 /\ gaveUp' = gaveUp
                     /\ size' = [size EXCEPT ![t] = n] /\ offset' = [offset EXCEPT ![t] = 0]
                     /\ position' = [position EXCEPT ![t] = (index' + 0) % n]
                     /\ spec' = [spec EXCEPT ![t] = pool'[((index' + 0) % n) + 1]]
                     /\ tried' = [tried EXCEPT ![t] = {pool'[((index' + 0) % n) + 1]}]
                     /\ \/ pc' = [pc EXCEPT ![t] = "connecting"]
                        \/ /\ pc' = [pc EXCEPT ![t] = "ValueError"]
                           /\ primary' \notin Proxy \cup {None} /\ via' = None /\ ~gaveUp'
<1>1. /\ pc[t] \in {"idle", "ValueError"} /\ LoadPool(t)
      /\ \A s \in Task : pc[s] \notin Connecting
      /\ after' = [after EXCEPT ![t] = gaveUp] /\ broken' = [broken EXCEPT ![t] = via]
      /\ steady' = [steady EXCEPT ![t] = good \cap Range(pool')]
      /\ UNCHANGED <<primary, good, via>>
    BY DEF StartCycle
<1>2. \A s \in Task : ~ InCycle(s) /\ pc[s] # "legacy"
    BY <1>1 DEF Connecting, InCycle
<1>3. /\ pool' \in Seq(Proxy \cup Primaries) /\ index' \in Nat /\ loaded' = TRUE
      /\ primary # None => pool' # <<>>
      /\ pool' # <<>> => index' < Len(pool')
      /\ asked' = [asked EXCEPT ![t] = ~loaded]
      /\ loaded => pool' = pool /\ index' = index
    BY <1>1, PoolLoaded DEF Typed
<1>4. CASE pool' = <<>>
  <2>1. pc' = [pc EXCEPT ![t] = "legacy"]
      BY <1>4 DEF StartCycle, FallBack
  <2> QED BY <1>1, <1>2, <1>3, <1>4, <2>1
<1>5. CASE pool' # <<>>
  <2>1. PICK n \in Nat \ {0} : n = Len(pool')
      BY <1>3, <1>5, InRange
  <2>2. PICK k \in Nat : k = 0
      OBVIOUS
  <2>3. /\ Try(t, n, k) /\ gaveUp' = gaveUp /\ k < n /\ index' < n /\ index' \in 0 .. n - 1
    <3>1. Try(t, n, 0) /\ gaveUp' = gaveUp
        BY <1>5, <2>1 DEF StartCycle
    <3> QED BY <1>3, <1>5, <2>1, <2>2, <3>1
  <2>4. /\ size' = [size EXCEPT ![t] = n] /\ offset' = [offset EXCEPT ![t] = k]
        /\ position' = [position EXCEPT ![t] = (index' + k) % n]
        /\ (index' + k) % n \in 0 .. n - 1
        /\ spec' = [spec EXCEPT ![t] = pool'[((index' + k) % n) + 1]]
        /\ tried' = [tried EXCEPT ![t] = (IF k = 0 THEN {} ELSE tried[t])
                                         \cup {pool'[((index' + k) % n) + 1]}]
        /\ \/ pc' = [pc EXCEPT ![t] = "connecting"]
           \/ /\ pc' = [pc EXCEPT ![t] = "ValueError"]
              /\ primary' \notin Proxy \cup {None} /\ via' = None /\ ~gaveUp'
    <3>1. /\ Typed /\ ~Overlapping /\ t \in Task /\ n \in Nat \ {0} /\ k \in Nat /\ k < n
          /\ Try(t, n, k) /\ pool' \in Seq(Proxy \cup Primaries) /\ n <= Len(pool')
          /\ index' \in Nat /\ index' < n /\ PoolOrigin'
        BY <1>3, <2>1, <2>3 DEF Typed
    <3> QED BY ONLY <3>1, TryInOrder
  <2>5. /\ offset' = [offset EXCEPT ![t] = 0]
        /\ position' = [position EXCEPT ![t] = (index' + 0) % n]
        /\ spec' = [spec EXCEPT ![t] = pool'[((index' + 0) % n) + 1]]
        /\ tried' = [tried EXCEPT ![t] = {pool'[((index' + 0) % n) + 1]}]
      BY <2>2, <2>4
  <2> QED BY <1>1, <1>2, <1>3, <2>1, <2>2, <2>3, <2>4, <2>5
<1> QED BY <1>4, <1>5

LEMMA NextAlone ==
    ASSUME Typed, Typed', InOrder, ~Overlapping, NEW t \in Task, NextCandidate(t)
    PROVE  LET n == Len(pool)
               k == offset[t] + 1
           IN  /\ pc[t] = "dropping" /\ k \in 1 .. n - 1
               /\ UNCHANGED <<primary, pool, index, loaded, good, via, gaveUp>>
               /\ UNCHANGED <<size, asked, after, broken, steady>>
               /\ offset' = [offset EXCEPT ![t] = k]
               /\ position' = [position EXCEPT ![t] = (index + k) % n]
               /\ spec' = [spec EXCEPT ![t] = Slot(t, k)]
               /\ tried' = [tried EXCEPT ![t] = tried[t] \cup {Slot(t, k)}]
               /\ pc' = [pc EXCEPT ![t] = "connecting"]
<1>1. /\ pc[t] = "dropping" /\ offset[t] + 1 < size[t] /\ Try(t, size[t], offset[t] + 1)
      /\ UNCHANGED <<primary, pool, index, loaded, good, via, gaveUp>>
      /\ UNCHANGED <<asked, after, broken, steady>>
    BY DEF NextCandidate, shared, begun
<1>2. InCycle(t)
    BY <1>1 DEF InCycle
<1>3. PICK n \in Nat \ {0}, k \in Nat : n = size[t] /\ n = Len(pool) /\ k = offset[t] + 1
  <2>1. size[t] = Len(pool) /\ Len(pool) \in Nat /\ Len(pool) > 0 /\ offset[t] \in Nat
      BY <1>2, Standing
  <2> QED BY <2>1
<1>4. k < n /\ Try(t, n, k) /\ k # 0
    BY <1>1, <1>2, <1>3, Standing
<1>5. pool' \in Seq(Proxy \cup Primaries) /\ n = Len(pool') /\ index' \in Nat /\ index' < n /\ PoolOrigin'
  <2>1. index \in 0 .. n - 1 /\ pool \in Seq(Proxy \cup Primaries)
      BY <1>2, <1>3, Standing DEF Typed, TypeOK
  <2> QED BY <1>1, <1>3, <2>1 DEF Typed
<1>6. /\ size' = [size EXCEPT ![t] = n] /\ offset' = [offset EXCEPT ![t] = k]
      /\ position' = [position EXCEPT ![t] = (index' + k) % n]
      /\ (index' + k) % n \in 0 .. n - 1
      /\ spec' = [spec EXCEPT ![t] = pool'[((index' + k) % n) + 1]]
      /\ tried' = [tried EXCEPT ![t] = (IF k = 0 THEN {} ELSE tried[t])
                                       \cup {pool'[((index' + k) % n) + 1]}]
      /\ \/ pc' = [pc EXCEPT ![t] = "connecting"]
         \/ /\ pc' = [pc EXCEPT ![t] = "ValueError"]
            /\ primary' \notin Proxy \cup {None} /\ via' = None /\ ~gaveUp'
  <2>1. /\ Typed /\ ~Overlapping /\ t \in Task /\ n \in Nat \ {0} /\ k \in Nat /\ k < n
        /\ Try(t, n, k) /\ pool' \in Seq(Proxy \cup Primaries) /\ n <= Len(pool')
        /\ index' \in Nat /\ index' < n /\ PoolOrigin'
      BY <1>4, <1>5
  <2> QED BY ONLY <2>1, TryInOrder
<1>7. size' = size
  <2>1. size \in [Task -> Nat] /\ size' = [size EXCEPT ![t] = size[t]]
      BY <1>3, <1>6 DEF Typed, TypeOK
  <2> QED BY <2>1
<1>8. pool'[((index' + k) % n) + 1] = Slot(t, k)
    BY <1>1, <1>3 DEF Slot
<1>9. pc' = [pc EXCEPT ![t] = "connecting"]
    BY <1>1, <1>2, <1>6 DEF Typed, PoolOrigin, InCycle
<1>10. k \in 1 .. n - 1
    BY <1>4
<1>11. tried' = [tried EXCEPT ![t] = tried[t] \cup {Slot(t, k)}]
    BY <1>4, <1>6, <1>8
<1>12. position' = [position EXCEPT ![t] = (index + k) % n]
    BY <1>1, <1>6
<1> QED BY <1>1, <1>3, <1>6, <1>7, <1>8, <1>9, <1>10, <1>11, <1>12

(* A connect ends: nobody is connecting.                                   *)
LEMMA EndAlone ==
    ASSUME Typed, InOrder, NEW t \in Task, pc[t] \in Connecting, End(t)
    PROVE  /\ \A s \in Task : pc'[s] \notin Connecting /\ pc'[s] # "IndexError"
           /\ \A s \in Task : ~ InCycle(s)' /\ pc'[s] # "legacy"
           /\ \A s \in Task : steady'[s] \subseteq steady[s]
           /\ \A s \in Task : pc'[s] # "idle" /\ after'[s]
                => pc[s] # "idle" /\ after[s] /\ asked'[s] = asked[s]
<1>1. /\ pc' = [pc EXCEPT ![t] = "idle"] /\ steady' = [steady EXCEPT ![t] = {}]
      /\ asked' = [asked EXCEPT ![t] = FALSE] /\ after' = [after EXCEPT ![t] = FALSE]
    BY DEF End
<1>2. \A s \in Task \ {t} : pc[s] \notin Connecting
    BY Alone
<1>3. \A s \in Task : pc'[s] = IF s = t THEN "idle" ELSE pc[s]
    BY <1>1 DEF Typed, TypeOK
<1>4. \A s \in Task : pc'[s] \notin Connecting /\ pc'[s] # "IndexError"
    BY <1>2, <1>3 DEF InOrder, Connecting
<1>5. \A s \in Task : ~ InCycle(s)' /\ pc'[s] # "legacy"
    BY <1>4 DEF InCycle, Connecting
<1>6. \A s \in Task : steady'[s] \subseteq steady[s]
    BY <1>1 DEF Typed, TypeOK
<1>7. \A s \in Task : pc'[s] # "idle" /\ after'[s]
        => pc[s] # "idle" /\ after[s] /\ asked'[s] = asked[s]
  <2>1. \A s \in Task : s # t => asked'[s] = asked[s] /\ after'[s] = after[s]
      BY <1>1 DEF Typed, TypeOK
  <2> QED BY <1>3, <2>1
<1> QED BY <1>4, <1>5, <1>6, <1>7

LEMMA InOrderStep ==
    ASSUME Typed, Typed', InOrder, ~Overlapping, [Next]_vars
    PROVE  InOrder'
<1>1. ASSUME NEW t \in Task, StartCycle(t) PROVE InOrder'
  <2> DEFINE n == Len(pool')
  <2>1. /\ \A s \in Task : pc[s] \notin Connecting
        /\ loaded' = TRUE
        /\ \/ /\ pool' = <<>> /\ pc' = [pc EXCEPT ![t] = "legacy"]
           \/ /\ n \in Nat /\ n > 0 /\ index' \in 0 .. n - 1
              /\ size' = [size EXCEPT ![t] = n] /\ offset' = [offset EXCEPT ![t] = 0]
              /\ position' = [position EXCEPT ![t] = (index' + 0) % n]
              /\ spec' = [spec EXCEPT ![t] = pool'[((index' + 0) % n) + 1]]
              /\ \/ pc' = [pc EXCEPT ![t] = "connecting"]
                 \/ pc' = [pc EXCEPT ![t] = "ValueError"]
      BY <1>1, StartAlone
  <2>2. \A s \in Task \ {t} : pc'[s] = pc[s] /\ pc'[s] \notin Connecting /\ pc'[s] # "IndexError"
      BY <2>1 DEF Typed, TypeOK, InOrder
  <2>3. \A s \in Task \ {t} : ~ InCycle(s)' /\ pc'[s] # "legacy"
      BY <2>2 DEF Connecting, InCycle
  <2>4. pc'[t] # "IndexError" /\ (pc'[t] = "legacy" /\ loaded' => pool' = <<>>)
      BY <2>1 DEF Typed, TypeOK
  <2>5. ASSUME InCycle(t)'
        PROVE  /\ loaded' /\ size'[t] = Len(pool') /\ offset'[t] < size'[t]
               /\ position'[t] = (index' + offset'[t]) % size'[t]
               /\ spec'[t] = pool'[position'[t] + 1]
    <3>1. pc'[t] # "legacy"
        BY <2>5 DEF InCycle
    <3>2. /\ n > 0 /\ n \in Nat /\ size'[t] = n /\ offset'[t] = 0
          /\ position'[t] = (index' + 0) % n
          /\ spec'[t] = pool'[((index' + 0) % n) + 1]
        BY <2>1, <3>1 DEF Typed, TypeOK
    <3> QED BY <2>1, <3>2
  <2> QED BY <2>2, <2>3, <2>4, <2>5 DEF InOrder
<1>2. ASSUME NEW t \in Task, CandidateConnects(t) \/ LegacyConnects(t) \/ LegacyGivesUp(t)
      PROVE InOrder'
  <2>1. pc[t] \in Connecting /\ End(t)
      BY <1>2 DEF CandidateConnects, LegacyConnects, LegacyGivesUp, Done, Connecting
  <2> QED BY <2>1, EndAlone DEF InOrder
<1>3. ASSUME NEW t \in Task, CandidateFails(t) PROVE InOrder'
  <2>1. /\ pc[t] = "connecting" /\ pc' = [pc EXCEPT ![t] = "dropping"]
        /\ UNCHANGED <<pool, index, loaded, size, offset, position, spec>>
      BY <1>3 DEF CandidateFails, shared, locals
  <2>2. InCycle(t)
      BY <2>1 DEF InCycle
  <2>3. \A s \in Task : pc'[s] = IF s = t THEN "dropping" ELSE pc[s]
      BY <2>1 DEF Typed, TypeOK
  <2>4. \A s \in Task \ {t} : pc[s] \notin Connecting
      BY <2>1, Alone DEF Connecting
  <2>5. \A s \in Task \ {t} : pc'[s] \notin Connecting /\ ~ InCycle(s)' /\ pc'[s] # "legacy"
                              /\ pc'[s] # "IndexError"
      BY <2>3, <2>4 DEF Connecting, InCycle, InOrder
  <2> QED BY <2>1, <2>2, <2>3, <2>5 DEF InOrder
<1>4. ASSUME NEW t \in Task, NextCandidate(t) PROVE InOrder'
  <2> DEFINE n == Len(pool)
             k == offset[t] + 1
  <2>1. /\ pc[t] = "dropping" /\ k \in 1 .. n - 1
        /\ UNCHANGED <<pool, index, loaded, size>>
        /\ offset' = [offset EXCEPT ![t] = k]
        /\ position' = [position EXCEPT ![t] = (index + k) % n]
        /\ spec' = [spec EXCEPT ![t] = Slot(t, k)]
        /\ pc' = [pc EXCEPT ![t] = "connecting"]
      BY <1>4, NextAlone
  <2>2. InCycle(t)
      BY <2>1 DEF InCycle
  <2>3. \A s \in Task : pc'[s] = IF s = t THEN "connecting" ELSE pc[s]
      BY <2>1 DEF Typed, TypeOK
  <2>4. \A s \in Task \ {t} : pc[s] \notin Connecting
      BY <2>1, Alone DEF Connecting
  <2>5. \A s \in Task \ {t} : pc'[s] \notin Connecting /\ ~ InCycle(s)' /\ pc'[s] # "legacy"
                              /\ pc'[s] # "IndexError"
      BY <2>3, <2>4 DEF Connecting, InCycle, InOrder
  <2>6. /\ loaded /\ size[t] = n /\ n \in Nat
      BY <2>2, Standing DEF InOrder
  <2>7. offset'[t] = k /\ position'[t] = (index + k) % n /\ spec'[t] = Slot(t, k)
      BY <2>1 DEF Typed, TypeOK
  <2>8. /\ loaded' /\ size'[t] = Len(pool') /\ offset'[t] < size'[t]
        /\ position'[t] = (index' + offset'[t]) % size'[t]
        /\ spec'[t] = pool'[position'[t] + 1]
      BY <2>1, <2>6, <2>7 DEF Slot
  <2> QED BY <2>3, <2>5, <2>8 DEF InOrder
<1>5. ASSUME NEW t \in Task, GiveUpPool(t) PROVE InOrder'
  <2>1. /\ pc[t] = "dropping" /\ loaded' = FALSE /\ pc' = [pc EXCEPT ![t] = "legacy"]
      BY <1>5 DEF GiveUpPool, FallBack
  <2>2. \A s \in Task : pc'[s] = IF s = t THEN "legacy" ELSE pc[s]
      BY <2>1 DEF Typed, TypeOK
  <2>3. \A s \in Task \ {t} : pc[s] \notin Connecting
      BY <2>1, Alone DEF Connecting
  <2>4. \A s \in Task : ~ InCycle(s)' /\ pc'[s] # "IndexError"
      BY <2>2, <2>3 DEF Connecting, InCycle, InOrder
  <2>5. \A s \in Task \ {t} : pc'[s] \notin Connecting
      BY <2>2, <2>3
  <2> QED BY <2>1, <2>4, <2>5 DEF InOrder
<1>6. ASSUME NEW t \in Task, LegacyFails(t) PROVE InOrder'
  <2>1. UNCHANGED <<pc, pool, index, loaded, size, offset, position, spec>>
      BY <1>6 DEF LegacyFails, shared
  <2> QED BY <2>1 DEF InOrder, InCycle
<1>7. ASSUME NetChanges PROVE InOrder'
  <2>1. UNCHANGED <<pc, pool, index, loaded, size, offset, position, spec>>
      BY <1>7 DEF NetChanges, shared, locals
  <2> QED BY <2>1 DEF InOrder, InCycle
<1>8. ASSUME UNCHANGED vars PROVE InOrder'
  <2>1. UNCHANGED <<pc, pool, index, loaded, size, offset, position, spec>>
      BY <1>8 DEF vars, shared, locals
  <2> QED BY <2>1 DEF InOrder, InCycle
<1> QED BY <1>1, <1>2, <1>3, <1>4, <1>5, <1>6, <1>7, <1>8 DEF Next

LEMMA PassedStep ==
    ASSUME Typed, Typed', InOrder, InOrder', Passed, ~Overlapping, [Next]_vars
    PROVE  Passed'
<1>1. ASSUME NEW t \in Task, StartCycle(t) PROVE Passed'
  <2>1. /\ \A s \in Task : pc[s] \notin Connecting
        /\ steady' = [steady EXCEPT ![t] = good \cap Range(pool')] /\ good' = good
        /\ \/ /\ pool' = <<>> /\ pc' = [pc EXCEPT ![t] = "legacy"]
           \/ /\ offset' = [offset EXCEPT ![t] = 0]
              /\ \/ pc' = [pc EXCEPT ![t] = "connecting"]
                 \/ pc' = [pc EXCEPT ![t] = "ValueError"]
      BY <1>1, StartAlone
  <2>2. \A s \in Task \ {t} : pc'[s] = pc[s] /\ pc'[s] \notin Connecting
      BY <2>1 DEF Typed, TypeOK
  <2>3. \A s \in Task \ {t} : ~ InCycle(s)' /\ pc'[s] # "legacy"
      BY <2>2 DEF Connecting, InCycle
  <2>4. \A s \in Task : steady'[s] = IF s = t THEN good \cap Range(pool') ELSE steady[s]
      BY <2>1 DEF Typed, TypeOK
  <2>5. \A s \in Task : steady'[s] \subseteq good'
      BY <2>1, <2>4 DEF Passed
  <2>6. steady'[t] \subseteq Range(pool')
      BY <2>4
  <2>7. ASSUME pc'[t] = "legacy" PROVE steady'[t] = {}
    <3>1. pool' = <<>>
        BY <2>1, <2>7 DEF Typed, TypeOK
    <3> QED BY <2>4, <3>1, EmptyRange
  <2>8. ASSUME InCycle(t)' PROVE pc'[t] = "connecting" /\ offset'[t] = 0
      BY <2>1, <2>8 DEF InCycle, Typed, TypeOK
  <2>9. InCycle(t)' => \A k \in 0 .. offset'[t] :
                         (pc'[t] = "connecting" => k < offset'[t]) => Slot(t, k)' \notin steady'[t]
    <3>1. \A k \in 0 .. 0 : ~ (k < 0)
        OBVIOUS
    <3> QED BY <2>8, <3>1
  <2> QED BY <2>3, <2>5, <2>6, <2>7, <2>9 DEF Passed
<1>2. ASSUME NEW t \in Task, CandidateConnects(t) \/ LegacyConnects(t) \/ LegacyGivesUp(t)
      PROVE Passed'
  <2>1. pc[t] \in Connecting /\ End(t) /\ good' = good
      BY <1>2 DEF CandidateConnects, LegacyConnects, LegacyGivesUp, Done, Connecting, End
  <2> QED BY <2>1, EndAlone DEF Passed
<1>3. ASSUME NEW t \in Task, CandidateFails(t) PROVE Passed'
  <2>1. /\ pc[t] = "connecting" /\ spec[t] \notin good /\ pc' = [pc EXCEPT ![t] = "dropping"]
        /\ UNCHANGED <<pool, index, size, offset, good, steady>>
      BY <1>3 DEF CandidateFails, shared, locals
  <2>2. InCycle(t)
      BY <2>1 DEF InCycle
  <2>3. \A s \in Task : pc'[s] = IF s = t THEN "dropping" ELSE pc[s]
      BY <2>1 DEF Typed, TypeOK
  <2>4. \A s \in Task \ {t} : ~ InCycle(s)' /\ pc'[s] # "legacy"
      BY <2>1, <2>3, Alone DEF Connecting, InCycle
  <2>5. Slot(t, offset[t]) \notin steady[t]
      BY <2>1, <2>2, Standing DEF Passed
  <2>6. \A k \in 0 .. offset[t] : Slot(t, k) \notin steady[t]
    <3>1. \A k \in 0 .. offset[t] : k < offset[t] \/ k = offset[t]
        BY DEF Typed, TypeOK
    <3> QED BY <2>1, <2>2, <2>5, <3>1 DEF Passed
  <2>7. \A k \in 0 .. offset'[t] : Slot(t, k)' \notin steady'[t]
      BY <2>1, <2>6 DEF Slot
  <2> QED BY <2>1, <2>2, <2>3, <2>4, <2>7 DEF Passed
<1>4. ASSUME NEW t \in Task, NextCandidate(t) PROVE Passed'
  <2> DEFINE n == Len(pool)
             k == offset[t] + 1
  <2>1. /\ pc[t] = "dropping" /\ k \in 1 .. n - 1
        /\ UNCHANGED <<pool, index, size, good, steady>>
        /\ offset' = [offset EXCEPT ![t] = k]
        /\ pc' = [pc EXCEPT ![t] = "connecting"]
      BY <1>4, NextAlone
  <2>2. InCycle(t)
      BY <2>1 DEF InCycle
  <2>3. \A s \in Task : pc'[s] = IF s = t THEN "connecting" ELSE pc[s]
      BY <2>1 DEF Typed, TypeOK
  <2>4. \A s \in Task \ {t} : ~ InCycle(s)' /\ pc'[s] # "legacy"
      BY <2>1, <2>3, Alone DEF Connecting, InCycle
  <2>5. \A m \in 0 .. offset[t] : Slot(t, m) \notin steady[t]
      BY <2>1, <2>2 DEF Passed
  <2>6. offset'[t] = offset[t] + 1 /\ offset[t] \in Nat
      BY <2>1 DEF Typed, TypeOK
  <2>7. \A m \in 0 .. offset'[t] : m < offset'[t] => m \in 0 .. offset[t]
      BY <2>6
  <2>8. \A m \in 0 .. offset'[t] : m < offset'[t] => Slot(t, m)' \notin steady'[t]
      BY <2>1, <2>5, <2>7 DEF Slot
  <2> QED BY <2>1, <2>2, <2>3, <2>4, <2>8 DEF Passed
<1>5. ASSUME NEW t \in Task, GiveUpPool(t) PROVE Passed'
  <2>1. /\ pc[t] = "dropping" /\ offset[t] + 1 >= size[t] /\ pc' = [pc EXCEPT ![t] = "legacy"]
        /\ UNCHANGED <<good, steady>>
      BY <1>5 DEF GiveUpPool, FallBack
  <2>2. InCycle(t)
      BY <2>1 DEF InCycle
  <2>3. \A s \in Task : pc'[s] = IF s = t THEN "legacy" ELSE pc[s]
      BY <2>1 DEF Typed, TypeOK
  <2>4. \A s \in Task \ {t} : ~ InCycle(s)' /\ pc'[s] # "legacy"
      BY <2>1, <2>3, Alone DEF Connecting, InCycle
  <2>5. PICK n \in Nat : n = Len(pool) /\ n > 0 /\ size[t] = n /\ offset[t] \in 0 .. n - 1
      BY <2>2, Standing
  <2>6. \A e \in Range(pool) : \E k \in 0 .. n - 1 : e = Slot(t, k)
      BY <2>2, <2>5, Standing
  <2>7. offset[t] = n - 1
      BY <2>1, <2>5
  <2>8. \A k \in 0 .. n - 1 : Slot(t, k) \notin steady[t]
      BY <2>1, <2>2, <2>7 DEF Passed
  <2>9. steady[t] = {}
      BY <2>2, <2>6, <2>8 DEF Passed
  <2>10. ~ InCycle(t)'
      BY <2>3 DEF InCycle
  <2> QED BY <2>1, <2>4, <2>9, <2>10 DEF Passed
<1>6. ASSUME NEW t \in Task, LegacyFails(t) PROVE Passed'
  <2>1. UNCHANGED <<pc, pool, index, size, offset, good, steady>>
      BY <1>6 DEF LegacyFails, shared
  <2> QED BY <2>1 DEF Passed, InCycle, Slot
<1>7. ASSUME NetChanges PROVE Passed'
  <2>1. /\ steady' = [t \in Task |-> steady[t] \cap good']
        /\ UNCHANGED <<pc, pool, index, size, offset>>
      BY <1>7 DEF NetChanges, shared, locals
  <2>2. \A t \in Task : steady'[t] \subseteq good' /\ steady'[t] \subseteq steady[t]
      BY <2>1
  <2>3. \A t \in Task : InCycle(t)' = InCycle(t) /\ \A k : Slot(t, k)' = Slot(t, k)
      BY <2>1 DEF InCycle, Slot
  <2> QED BY <2>1, <2>2, <2>3 DEF Passed
<1>8. ASSUME UNCHANGED vars PROVE Passed'
  <2>1. UNCHANGED <<pc, pool, index, size, offset, good, steady>>
      BY <1>8 DEF vars, shared, locals
  <2> QED BY <2>1 DEF Passed, InCycle, Slot
<1> QED BY <1>1, <1>2, <1>3, <1>4, <1>5, <1>6, <1>7, <1>8 DEF Next

LEMMA RefetchesStep ==
    ASSUME Typed, Typed', InOrder, InOrder', Refetches, ~Overlapping, None \notin Primaries,
           [Next]_vars
    PROVE  Refetches'
<1> USE DEF Refetches, RefetchAfterFailure
<1>1. ASSUME NEW t \in Task, StartCycle(t) PROVE Refetches'
  <2>1. /\ \A s \in Task : ~ InCycle(s)
        /\ asked' = [asked EXCEPT ![t] = ~loaded] /\ after' = [after EXCEPT ![t] = gaveUp]
        /\ gaveUp' = gaveUp
        /\ \/ pc' = [pc EXCEPT ![t] = "connecting"]
           \/ pc' = [pc EXCEPT ![t] = "ValueError"] /\ ~gaveUp'
    <3>1. primary # None
        BY DEF Typed, TypeOK
    <3> QED BY <1>1, <3>1, StartAlone
  <2>2. gaveUp => ~loaded
      BY <2>1
  <2>3. \A s \in Task : /\ asked'[s] = IF s = t THEN ~loaded ELSE asked[s]
                        /\ after'[s] = IF s = t THEN gaveUp ELSE after[s]
                        /\ s # t => pc'[s] = pc[s]
      BY <2>1 DEF Typed, TypeOK
  <2>4. \A s \in Task : pc'[s] # "idle" /\ after'[s] => asked'[s]
      BY <2>2, <2>3
  <2>5. gaveUp' => InCycle(t)'
      BY <2>1 DEF Typed, TypeOK, InCycle
  <2> QED BY <2>4, <2>5
<1>2. ASSUME NEW t \in Task, CandidateConnects(t) \/ LegacyConnects(t) \/ LegacyGivesUp(t)
      PROVE Refetches'
  <2>1. pc[t] \in Connecting /\ End(t)
      BY <1>2 DEF CandidateConnects, LegacyConnects, LegacyGivesUp, Done, Connecting
  <2>2. RefetchAfterFailure'
      BY <2>1, EndAlone
  <2>3. gaveUp' => ~loaded'
    <3>1. CASE CandidateConnects(t)
        BY <3>1 DEF CandidateConnects
    <3>2. CASE LegacyConnects(t) \/ LegacyGivesUp(t)
      <4>1. pc[t] = "legacy" /\ gaveUp' = gaveUp /\ loaded' = loaded
          BY <3>2 DEF LegacyConnects, LegacyGivesUp, shared
      <4>2. \A s \in Task : ~ InCycle(s)
          BY <4>1, Alone DEF InCycle, Connecting
      <4> QED BY <4>1, <4>2
    <3> QED BY <1>2, <3>1, <3>2
  <2> QED BY <2>2, <2>3
<1>3. ASSUME NEW t \in Task, CandidateFails(t) PROVE Refetches'
  <2>1. /\ pc[t] = "connecting" /\ pc' = [pc EXCEPT ![t] = "dropping"]
        /\ UNCHANGED <<loaded, gaveUp, asked, after>>
      BY <1>3 DEF CandidateFails, shared, begun
  <2>2. \A s \in Task : pc'[s] = IF s = t THEN "dropping" ELSE pc[s]
      BY <2>1 DEF Typed, TypeOK
  <2>3. InCycle(t)'
      BY <2>2 DEF InCycle
  <2> QED BY <2>1, <2>2, <2>3
<1>4. ASSUME NEW t \in Task, NextCandidate(t) PROVE Refetches'
  <2>1. /\ pc[t] = "dropping" /\ pc' = [pc EXCEPT ![t] = "connecting"]
        /\ UNCHANGED <<loaded, gaveUp, asked, after>>
      BY <1>4, NextAlone
  <2>2. \A s \in Task : pc'[s] = IF s = t THEN "connecting" ELSE pc[s]
      BY <2>1 DEF Typed, TypeOK
  <2>3. InCycle(t)'
      BY <2>2 DEF InCycle
  <2> QED BY <2>1, <2>2, <2>3
<1>5. ASSUME NEW t \in Task, GiveUpPool(t) PROVE Refetches'
  <2>1. /\ pc[t] = "dropping" /\ loaded' = FALSE /\ pc' = [pc EXCEPT ![t] = "legacy"]
        /\ UNCHANGED <<asked, after>>
      BY <1>5 DEF GiveUpPool, FallBack, begun
  <2>2. \A s \in Task : pc'[s] = IF s = t THEN "legacy" ELSE pc[s]
      BY <2>1 DEF Typed, TypeOK
  <2> QED BY <2>1, <2>2
<1>6. ASSUME NEW t \in Task, LegacyFails(t) PROVE Refetches'
  <2>1. UNCHANGED <<pc, loaded, gaveUp, asked, after>>
      BY <1>6 DEF LegacyFails, shared, begun
  <2> QED BY <2>1 DEF InCycle
<1>7. ASSUME NetChanges PROVE Refetches'
  <2>1. UNCHANGED <<pc, loaded, gaveUp, asked, after>>
      BY <1>7 DEF NetChanges, shared, begun
  <2> QED BY <2>1 DEF InCycle
<1>8. ASSUME UNCHANGED vars PROVE Refetches'
  <2>1. UNCHANGED <<pc, loaded, gaveUp, asked, after>>
      BY <1>8 DEF vars, shared, begun
  <2> QED BY <2>1 DEF InCycle
<1> QED BY <1>1, <1>2, <1>3, <1>4, <1>5, <1>6, <1>7, <1>8 DEF Next

LEMMA RotatedStep ==
    ASSUME Typed, Typed', InOrder, InOrder', Rotated, ~Overlapping, DistinctLists, [Next]_vars
    PROVE  Rotated'
<1> DEFINE Tried(t) == \A k \in 0 .. offset[t] : Slot(t, k) \in tried[t]
           Replaces(t) == ~asked[t] /\ broken[t] \in Range(pool) => broken[t] = Last
<1>1. ASSUME NEW t \in Task, StartCycle(t) PROVE Rotated'
  <2> DEFINE n == Len(pool')
  <2>1. /\ \A s \in Task : pc[s] \notin Connecting /\ ~ InCycle(s)
        /\ loaded' = TRUE /\ (loaded => pool' = pool /\ index' = index)
        /\ asked' = [asked EXCEPT ![t] = ~loaded] /\ broken' = [broken EXCEPT ![t] = via]
        /\ via' = via /\ primary' = primary
        /\ \/ pool' = <<>> /\ pc' = [pc EXCEPT ![t] = "legacy"]
           \/ /\ n \in Nat /\ n > 0 /\ index' \in 0 .. n - 1
              /\ size' = [size EXCEPT ![t] = n] /\ offset' = [offset EXCEPT ![t] = 0]
              /\ tried' = [tried EXCEPT ![t] = {pool'[((index' + 0) % n) + 1]}]
              /\ \/ pc' = [pc EXCEPT ![t] = "connecting"]
                 \/ pc' = [pc EXCEPT ![t] = "ValueError"] /\ via' = None
      BY <1>1, StartAlone
  <2>2. Distinct(pool')
    <3>1. LoadPool(t)
        BY <1>1 DEF StartCycle
    <3> QED BY <3>1, PoolLoaded DEF Typed, Rotated
  <2>3. \A s \in Task \ {t} : ~ InCycle(s)'
      BY <2>1 DEF Typed, TypeOK, InCycle
  <2>4. ASSUME InCycle(t)' PROVE Tried(t)' /\ Replaces(t)'
    <3>1. /\ size'[t] = n /\ offset'[t] = 0 /\ tried'[t] = {pool'[((index' + 0) % n) + 1]}
          /\ asked'[t] = ~loaded /\ broken'[t] = via
        BY <2>1, <2>4 DEF Typed, TypeOK, InCycle
    <3>2. Slot(t, 0)' \in tried'[t]
        BY <3>1 DEF Slot
    <3>3. Tried(t)'
      <4>1. \A k \in 0 .. offset'[t] : k = 0
          BY <3>1
      <4> QED BY <3>2, <4>1
    <3>4. ASSUME ~asked'[t], broken'[t] \in Range(pool') PROVE broken'[t] = Last'
      <4>1. loaded /\ pool' = pool /\ index' = index
          BY <2>1, <3>1, <3>4
      <4>2. via = Last
          BY <2>1, <3>1, <3>4, <4>1 DEF Rotated
      <4>3. Last' = Last
          BY <4>1 DEF Last
      <4> QED BY <3>1, <4>2, <4>3
    <3> QED BY <3>3, <3>4
  <2>5. ASSUME ~ InCycle(t)' PROVE via' \notin Range(pool')
    <3>1. CASE pool' = <<>>
        BY <3>1, EmptyRange
    <3>2. CASE via' = None
        BY <3>2, Constants DEF Typed, PoolOrigin
    <3>3. pc' # [pc EXCEPT ![t] = "connecting"]
        BY <2>5 DEF Typed, TypeOK, InCycle
    <3> QED BY <2>1, <3>1, <3>2, <3>3
  <2> QED BY <2>2, <2>3, <2>4, <2>5 DEF Rotated
<1>2. ASSUME NEW t \in Task, CandidateConnects(t) PROVE Rotated'
  <2>1. /\ pc[t] = "connecting" /\ index' = (position[t] + 1) % size[t] /\ via' = spec[t]
        /\ End(t) /\ pool' = pool
      BY <1>2 DEF CandidateConnects, Done
  <2>2. InCycle(t) /\ pc[t] \in Connecting
      BY <2>1 DEF InCycle, Connecting
  <2>3. PICK n \in Nat : /\ n = Len(pool) /\ n > 0 /\ size[t] = n /\ position[t] \in 0 .. n - 1
                         /\ spec[t] = pool[position[t] + 1]
      BY <2>2, Standing
  <2>4. (((position[t] + 1) % n) + n - 1) % n = position[t]
    <3>1. PICK i \in 0 .. n - 1 : i = position[t]
        BY <2>3
    <3> QED BY <2>3, <3>1, SlotBefore
  <2>5. Last' = spec[t]
      BY <2>1, <2>3, <2>4 DEF Last
  <2>6. \A s \in Task : ~ InCycle(s)'
      BY <2>1, <2>2, EndAlone
  <2> QED BY <2>1, <2>5, <2>6 DEF Rotated
<1>3. ASSUME NEW t \in Task, CandidateFails(t) PROVE Rotated'
  <2>1. /\ pc[t] = "connecting" /\ pc' = [pc EXCEPT ![t] = "dropping"]
        /\ UNCHANGED <<pool, index, size, offset, tried, asked, broken>>
      BY <1>3 DEF CandidateFails, shared, locals, begun
  <2>2. \A s \in Task : pc'[s] = IF s = t THEN "dropping" ELSE pc[s]
      BY <2>1 DEF Typed, TypeOK
  <2>3. InCycle(t) /\ InCycle(t)' /\ \A s \in Task \ {t} : ~ InCycle(s)'
      BY <2>1, <2>2, Alone DEF InCycle, Connecting
  <2>4. Last' = Last /\ \A k : Slot(t, k)' = Slot(t, k)
      BY <2>1 DEF Last, Slot
  <2> QED BY <2>1, <2>3, <2>4 DEF Rotated
<1>4. ASSUME NEW t \in Task, NextCandidate(t) PROVE Rotated'
  <2> DEFINE n == Len(pool)
             k == offset[t] + 1
  <2>1. /\ pc[t] = "dropping" /\ k \in 1 .. n - 1
        /\ UNCHANGED <<pool, index, size, asked, broken>>
        /\ offset' = [offset EXCEPT ![t] = k]
        /\ tried' = [tried EXCEPT ![t] = tried[t] \cup {Slot(t, k)}]
        /\ pc' = [pc EXCEPT ![t] = "connecting"]
      BY <1>4, NextAlone
  <2>2. \A s \in Task : pc'[s] = IF s = t THEN "connecting" ELSE pc[s]
      BY <2>1 DEF Typed, TypeOK
  <2>3. InCycle(t) /\ InCycle(t)' /\ \A s \in Task \ {t} : ~ InCycle(s)'
      BY <2>1, <2>2, Alone DEF InCycle, Connecting
  <2>4. Last' = Last /\ \A m : Slot(t, m)' = Slot(t, m)
      BY <2>1 DEF Last, Slot
  <2>5. offset'[t] = k /\ tried'[t] = tried[t] \cup {Slot(t, k)} /\ offset[t] \in Nat
      BY <2>1 DEF Typed, TypeOK
  <2>6. \A m \in 0 .. offset'[t] : m \in 0 .. offset[t] \/ m = k
      BY <2>5
  <2>7. Tried(t)'
    <3>1. Tried(t)
        BY <2>3 DEF Rotated
    <3> QED BY <2>4, <2>5, <2>6, <3>1
  <2> QED BY <2>1, <2>3, <2>4, <2>7 DEF Rotated
<1>5. ASSUME NEW t \in Task, GiveUpPool(t) PROVE Rotated'
  <2>1. /\ pc[t] = "dropping" /\ loaded' = FALSE /\ pc' = [pc EXCEPT ![t] = "legacy"]
        /\ pool' = pool
      BY <1>5 DEF GiveUpPool, FallBack
  <2>2. \A s \in Task : pc'[s] = IF s = t THEN "legacy" ELSE pc[s]
      BY <2>1 DEF Typed, TypeOK
  <2>3. \A s \in Task : ~ InCycle(s)'
      BY <2>1, <2>2, Alone DEF InCycle, Connecting
  <2> QED BY <2>1, <2>3 DEF Rotated
<1>6. ASSUME NEW t \in Task, LegacyConnects(t) \/ LegacyGivesUp(t) PROVE Rotated'
  <2>1. pc[t] = "legacy" /\ End(t) /\ pool' = pool /\ loaded' = loaded
      BY <1>6 DEF LegacyConnects, LegacyGivesUp, Done, shared
  <2>2. pc[t] \in Connecting
      BY <2>1 DEF Connecting
  <2>3. \A s \in Task : ~ InCycle(s)'
      BY <2>1, <2>2, EndAlone
  <2>4. loaded' => Range(pool') = {}
    <3>1. loaded => pool = <<>>
        BY <2>1 DEF InOrder
    <3> QED BY <2>1, <3>1, EmptyRange
  <2> QED BY <2>1, <2>3, <2>4 DEF Rotated
<1>7. ASSUME \/ \E t \in Task : LegacyFails(t)
             \/ NetChanges
             \/ UNCHANGED vars
      PROVE Rotated'
  <2>1. UNCHANGED <<pc, pool, index, loaded, size, offset, via, tried, asked, broken>>
      BY <1>7 DEF LegacyFails, NetChanges, vars, shared, locals, begun
  <2> QED BY <2>1 DEF Rotated, InCycle, Slot, Last
<1> QED BY <1>1, <1>2, <1>3, <1>4, <1>5, <1>6, <1>7 DEF Next

-----------------------------------------------------------------------------
LEMMA Inductive == Spec => []IInv
<1>1. Init => IInv
  <2> SUFFICES ASSUME Init PROVE IInv
      OBVIOUS
  <2>1. Typed
      BY TypeInit
  <2>2. /\ \A t \in Task : pc[t] = "idle" /\ ~ InCycle(t) /\ steady[t] = {}
        /\ gaveUp = FALSE /\ loaded = FALSE
      BY DEF Init, InCycle
  <2>3. InOrder
      BY <2>2 DEF InOrder, Connecting
  <2>4. Passed
      BY <2>2 DEF Passed
  <2>5. Refetches
      BY <2>2 DEF Refetches, RefetchAfterFailure
  <2>6. Rotated
    <3>1. DOMAIN pool = {}
        BY EmptyRange DEF Init
    <3> QED BY <2>2, <3>1 DEF Rotated, Distinct
  <2> QED BY <2>1, <2>3, <2>4, <2>5, <2>6 DEF IInv, Typed
<1>2. IInv /\ [Next]_vars => IInv'
  <2> SUFFICES ASSUME IInv, [Next]_vars PROVE IInv'
      OBVIOUS
  <2>1. Typed
      BY DEF IInv, Typed
  <2>2. Typed'
      BY <2>1, TypedStep DEF IInv
  <2>3. ~Overlapping => InOrder'
      BY <2>1, <2>2, InOrderStep DEF IInv
  <2>4. ~Overlapping => Passed'
      BY <2>1, <2>2, <2>3, PassedStep DEF IInv
  <2>5. ~Overlapping /\ None \notin Primaries => Refetches'
      BY <2>1, <2>2, <2>3, RefetchesStep DEF IInv
  <2>6. ~Overlapping /\ DistinctLists => Rotated'
      BY <2>1, <2>2, <2>3, RotatedStep DEF IInv
  <2>7. TypeOK' /\ Sized' /\ PoolOrigin'
      BY <2>2 DEF Typed
  <2> QED BY <2>3, <2>4, <2>5, <2>6, <2>7 DEF IInv
<1> QED BY <1>1, <1>2, PTL DEF Spec

(* The variables keep their types, however calls overlap; one at a time,   *)
(* the index stays inside the pool.                                        *)
THEOREM TypeCorrect == Spec => []TypeOK
<1>1. IInv => TypeOK
    BY DEF IInv
<1> QED BY <1>1, Inductive, PTL

(* However calls overlap, a proxy of the settings that does not parse lets *)
(* no connect through, and no line of a list makes one fail.               *)
THEOREM BadSettingFails == Spec => []OnlyBadSettingFails
<1>1. IInv => OnlyBadSettingFails
    BY DEF IInv, PoolOrigin, OnlyBadSettingFails
<1> QED BY <1>1, Inductive, PTL

(* One call at a time: a cycle runs past no end, ...                       *)
THEOREM NeverPastEnd ==
    ASSUME ~Overlapping
    PROVE  Spec => []NoIndexError
<1>1. IInv => NoIndexError
    BY DEF IInv, InOrder, NoIndexError
<1> QED BY <1>1, Inductive, PTL

(* ... a connect falls back only when every candidate has failed, ...      *)
THEOREM LiveCandidateFound ==
    ASSUME ~Overlapping
    PROVE  Spec => []FindsLiveCandidate
<1>1. IInv => FindsLiveCandidate
    BY DEF IInv, Passed, FindsLiveCandidate
<1> QED BY <1>1, Inductive, PTL

(* ... the connect after one that ran out of candidates fetches the list,  *)
(* with a proxy in the settings, ...                                       *)
THEOREM ListRefetched ==
    ASSUME ~Overlapping, None \notin Primaries
    PROVE  Spec => []RefetchAfterFailure
<1>1. IInv => RefetchAfterFailure
    BY DEF IInv, Refetches
<1> QED BY <1>1, Inductive, PTL

(* ... and the proxy that is replaced is tried after all the others of a   *)
(* list that stays, if it names none twice.                                *)
THEOREM RotationKept ==
    ASSUME ~Overlapping, DistinctLists
    PROVE  Spec => []KeepsRotating
<1>1. ASSUME IInv PROVE KeepsRotating
  <2> SUFFICES ASSUME NEW t \in Task, pc[t] = "connecting", spec[t] = broken[t], ~asked[t]
               PROVE  Range(pool) \subseteq tried[t]
      BY DEF KeepsRotating, Others
  <2>1. InCycle(t) /\ Typed /\ InOrder /\ Rotated
      BY <1>1 DEF IInv, Typed, InCycle
  <2>2. PICK n \in Nat :
           /\ n = Len(pool) /\ n > 0 /\ index \in 0 .. n - 1
           /\ offset[t] \in 0 .. n - 1 /\ position[t] \in 0 .. n - 1
           /\ position[t] = (index + offset[t]) % n
           /\ spec[t] = pool[position[t] + 1] /\ spec[t] \in Range(pool)
      BY <2>1, Standing
  <2>3. \A e \in Range(pool) : \E k \in 0 .. n - 1 : e = Slot(t, k)
      BY <2>1, <2>2, Standing
  <2>4. PICK i \in 0 .. n - 1, k \in 0 .. n - 1 : i = index /\ k = offset[t]
      BY <2>2
  <2>5. spec[t] = Last
      BY <2>1, <2>2 DEF Rotated
  <2>6. Last = pool[((i + (n - 1)) % n) + 1]
    <3>1. i + n - 1 = i + (n - 1)
        OBVIOUS
    <3> QED BY <2>2, <2>4, <3>1 DEF Last
  <2>7. (i + k) % n = (i + (n - 1)) % n
    <3>1. (i + k) % n \in 0 .. n - 1 /\ (i + (n - 1)) % n \in 0 .. n - 1
      <4>1. i + k \in Nat /\ i + (n - 1) \in Nat
          BY <2>2
      <4> QED BY <2>2, <4>1, Remainder
    <3>2. DOMAIN pool = 1 .. n
        BY <2>1, <2>2, InRange DEF Typed, TypeOK
    <3>3. ((i + k) % n) + 1 \in DOMAIN pool /\ ((i + (n - 1)) % n) + 1 \in DOMAIN pool
        BY <3>1, <3>2
    <3>4. pool[((i + k) % n) + 1] = pool[((i + (n - 1)) % n) + 1]
        BY <2>2, <2>4, <2>5, <2>6
    <3>5. ((i + k) % n) + 1 = ((i + (n - 1)) % n) + 1
        BY <2>1, <3>3, <3>4 DEF Rotated, Distinct
    <3> QED BY <3>1, <3>5
  <2>8. k = n - 1
    <3>1. n - 1 \in 0 .. n - 1
        BY <2>2
    <3> QED BY <2>2, <2>7, <3>1, SlotOnce
  <2>9. \A m \in 0 .. n - 1 : Slot(t, m) \in tried[t]
      BY <2>1, <2>4, <2>8 DEF Rotated
  <2> QED BY <2>3, <2>9
<1>2. IInv => KeepsRotating
    BY <1>1
<1> QED BY <1>2, Inductive, PTL
=============================================================================
