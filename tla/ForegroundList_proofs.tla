----------------------- MODULE ForegroundList_proofs -----------------------
(***************************************************************************)
(* What the operations of AppStateObserver's list do to the entries of one *)
(* process.                                                                *)
(***************************************************************************)
EXTENDS ForegroundList, WellFoundedInduction, SequenceTheorems, TLAPS

\* A list of entries, of pids in P and user ids in U.
IsList(P, U) == foregrandProcList \in Seq([pid : P, uid : U])

Has(p) == \E i \in DOMAIN foregrandProcList : foregrandProcList[i].pid = p

\* p has at most one entry.
Once(p) ==
    \A i, j \in DOMAIN foregrandProcList :
        foregrandProcList[i].pid = p /\ foregrandProcList[j].pid = p => i = j

\* Entries of unknown pid are only of the user ids in V.
VagueOnly(V) ==
    \A i \in DOMAIN foregrandProcList :
        foregrandProcList[i].pid = NoPid => foregrandProcList[i].uid \in V

LEMMA MinIsIn ==
    ASSUME NEW I \in SUBSET Nat, I # {}
    PROVE  Min(I) \in I
<1> DEFINE less == {ss \in Nat \X Nat : ss[1] < ss[2]}
<1>1. OpToRel(<, Nat) = less
  BY Zenon DEF OpToRel
<1>2. IsWellFoundedOn(less, Nat)
  BY <1>1, NatLessThanWellFounded, Zenon
<1>3. \E n \in I : \A m \in I : ~(<<m, n>> \in less)
  BY <1>2, WFMin
<1>4. \E n \in I : \A m \in I : n <= m
  <2>1. PICK n \in I : \A m \in I : ~(<<m, n>> \in less)
    BY <1>3
  <2>2. ASSUME NEW m \in I
        PROVE  n <= m
    <3>1. m \in Nat /\ n \in Nat
      OBVIOUS
    <3>2. m < n => <<m, n>> \in less
      BY <3>1
    <3> HIDE DEF less
    <3> QED
      BY <2>1, <3>1, <3>2
  <2> QED
    BY <2>2
<1> QED
  BY <1>4 DEF Min

LEMMA RemoveAtIndex ==
    ASSUME NEW S, NEW s \in Seq(S), NEW i \in 1..Len(s)
    PROVE  /\ RemoveAt(s, i) \in Seq(S)
           /\ Len(RemoveAt(s, i)) = Len(s) - 1
           /\ \A j \in 1..Len(s) - 1 : RemoveAt(s, i)[j] = IF j < i THEN s[j] ELSE s[j + 1]
<1> DEFINE a == SubSeq(s, 1, i - 1)
           b == SubSeq(s, i + 1, Len(s))
<1>1. a \in Seq(S) /\ Len(a) = i - 1 /\ \A j \in 1..i - 1 : a[j] = s[j]
  OBVIOUS
<1>2. b \in Seq(S) /\ Len(b) = Len(s) - i /\ \A j \in 1..Len(s) - i : b[j] = s[i + j]
  OBVIOUS
<1>3. RemoveAt(s, i) = a \o b
  BY DEF RemoveAt
<1> HIDE DEF a, b
<1>4. a \o b \in Seq(S) /\ Len(a \o b) = Len(s) - 1
  <2>1. a \o b \in Seq(S) /\ Len(a \o b) = Len(a) + Len(b)
    BY <1>1, <1>2, ConcatProperties
  <2>2. Len(s) \in Nat
    BY LenProperties
  <2> QED
    BY <1>1, <1>2, <2>1, <2>2
<1>5. ASSUME NEW j \in 1..Len(s) - 1
      PROVE  (a \o b)[j] = IF j < i THEN s[j] ELSE s[j + 1]
  <2> j \in 1..Len(a) + Len(b)
    BY <1>1, <1>2
  <2>1. CASE j < i
    BY <1>1, <1>2, <2>1, ConcatProperties
  <2>2. CASE j >= i
    <3>1. j - (i - 1) \in 1..Len(s) - i
      BY <2>2
    <3>2. (a \o b)[j] = b[j - (i - 1)]
      BY <1>1, <1>2, <2>2, ConcatProperties
    <3>3. b[j - (i - 1)] = s[j + 1]
      BY <1>2, <3>1
    <3> QED
      BY <2>2, <3>2, <3>3
  <2> QED
    BY <2>1, <2>2
<1> QED
  BY <1>3, <1>4, <1>5

\* An added process is in the list, nobody else leaves, nobody has two.
LEMMA AddListed ==
    ASSUME NEW P \in SUBSET Int, NEW U, IsList(P, U), NEW p \in P, NEW uid \in U,
           AddProcessToForegroundSet(p, uid)
    PROVE  /\ IsList(P, U)'
           /\ p # NoPid => Has(p)'
           /\ \A q \in Int : Has(q) => Has(q)'
           /\ \A q \in Int \ {p} : Has(q)' => Has(q)
           /\ \A q \in Int \ {NoPid} : Once(q) => Once(q)'
           /\ \A V : VagueOnly(V) /\ (p = NoPid => uid \in V) => VagueOnly(V)'
<1> DEFINE list == foregrandProcList
           Same(e) == IF p = NoPid THEN e.uid = uid ELSE e.pid = p
           new == Entry(p, uid)
<1>1. list \in Seq([pid : P, uid : U]) /\ new \in [pid : P, uid : U] /\ new.pid = p /\ new.uid = uid
  BY DEF IsList, Entry
<1>2. CASE \E i \in DOMAIN list : Same(list[i])
  <2>1. list' = list
    BY <1>2 DEF AddProcessToForegroundSet
  <2>2. p # NoPid => Has(p)
    BY <1>2 DEF Has
  <2> QED
    BY <2>1, <2>2 DEF IsList, Has, Once, VagueOnly
<1>3. CASE ~\E i \in DOMAIN list : Same(list[i])
  <2>1. list' = Append(list, new)
    BY <1>3 DEF AddProcessToForegroundSet
  <2>2. p # NoPid => ~Has(p)
    BY <1>3 DEF Has
  <2> HIDE DEF list, new
  <2>3. /\ list' \in Seq([pid : P, uid : U])
        /\ DOMAIN list = 1..Len(list) /\ DOMAIN list' = 1..Len(list) + 1
        /\ Len(list) \in Nat
        /\ list'[Len(list) + 1] = new
        /\ \A i \in 1..Len(list) : list'[i] = list[i]
    BY <1>1, <2>1
  <2>4. IsList(P, U)' /\ Has(p)'
    BY <1>1, <2>3 DEF IsList, Has, list
  <2>5. \A q \in Int : Has(q) => Has(q)'
    BY <2>3 DEF Has, list
  <2>6. \A q \in Int \ {p} : Has(q)' => Has(q)
    <3>1. \A i \in DOMAIN list' : list'[i].pid = p \/ (i \in DOMAIN list /\ list'[i] = list[i])
      BY <1>1, <2>3
    <3> QED
      BY <3>1 DEF Has, list
  <2>7. \A q \in Int \ {NoPid} : Once(q) => Once(q)'
    <3>1. \A i, j \in DOMAIN list' : p # NoPid /\ list'[i].pid = p /\ list'[j].pid = p => i = j
      BY <1>1, <2>2, <2>3 DEF Has, list
    <3>2. \A q \in Int \ {p} : Once(q) => Once(q)'
      <4>1. \A i \in DOMAIN list' : list'[i].pid = p \/ (i \in DOMAIN list /\ list'[i] = list[i])
        BY <1>1, <2>3
      <4> QED
        BY <4>1 DEF Once, list
    <3> QED
      BY <3>1, <3>2 DEF Once, list
  <2>8. \A V : VagueOnly(V) /\ (p = NoPid => uid \in V) => VagueOnly(V)'
    BY <1>1, <2>3 DEF VagueOnly, list
  <2> QED
    BY <2>4, <2>5, <2>6, <2>7, <2>8
<1> QED
  BY <1>2, <1>3

\* A removed process is not in the list if it had one entry, nobody else
\* leaves or comes.
LEMMA RemoveListed ==
    ASSUME NEW P \in SUBSET Int, NEW U, IsList(P, U), NEW p \in Int,
           RemoveProcessFromForegroundSet(p)
    PROVE  /\ IsList(P, U)'
           /\ Once(p) => ~Has(p)'
           /\ \A q \in Int \ {p} : Has(q)' <=> Has(q)
           /\ \A q \in Int : Once(q) => Once(q)'
           /\ \A V : VagueOnly(V) => VagueOnly(V)'
<1> DEFINE list == foregrandProcList
           I == {i \in 1..Len(list) : list[i].pid = p}
           k == Min(I)
<1>1. list \in Seq([pid : P, uid : U])
  BY DEF IsList
<1>2. CASE I = {}
  <2>1. list' = list /\ ~Has(p)
    BY <1>1, <1>2 DEF RemoveProcessFromForegroundSet, RemoveFirstMatch, Has
  <2> QED
    BY <2>1 DEF IsList, Has, Once, VagueOnly
<1>3. CASE I # {}
  <2>1. list' = RemoveAt(list, k)
    BY <1>3 DEF RemoveProcessFromForegroundSet, RemoveFirstMatch, SelectInSeq
  <2>2. k \in 1..Len(list) /\ list[k].pid = p
    <3>1. I \in SUBSET Nat
      OBVIOUS
    <3>2. k \in I
      BY <1>3, <3>1, MinIsIn
    <3> QED
      BY <3>2
  <2> HIDE DEF list, k
  <2>3. /\ list' \in Seq([pid : P, uid : U])
        /\ Len(list') = Len(list) - 1
        /\ \A j \in 1..Len(list) - 1 : list'[j] = IF j < k THEN list[j] ELSE list[j + 1]
    BY <1>1, <2>1, <2>2, RemoveAtIndex
  <2>4. /\ DOMAIN list = 1..Len(list) /\ DOMAIN list' = 1..Len(list) - 1
        /\ Len(list) \in Nat
    BY <1>1, <2>3
  <2> DEFINE Old(j) == IF j < k THEN j ELSE j + 1
  <2>5. \A j \in DOMAIN list' : Old(j) \in DOMAIN list \ {k} /\ list'[j] = list[Old(j)]
    BY <2>2, <2>3, <2>4
  <2>6. \A i \in DOMAIN list \ {k} : \E j \in DOMAIN list' : Old(j) = i
    <3> SUFFICES ASSUME NEW i \in DOMAIN list \ {k}
                 PROVE  \E j \in DOMAIN list' : Old(j) = i
      OBVIOUS
    <3>1. CASE i < k
      BY <2>2, <2>4, <3>1
    <3>2. CASE i > k
      <4>1. i - 1 \in DOMAIN list' /\ Old(i - 1) = i
        BY <2>2, <2>4, <3>2
      <4> QED
        BY <4>1
    <3> QED
      BY <2>2, <2>4, <3>1, <3>2
  <2>7. \A i, j \in DOMAIN list' : Old(i) = Old(j) => i = j
    BY <2>2, <2>4
  <2> HIDE DEF Old
  <2>8. Once(p) => ~Has(p)'
    BY <2>2, <2>4, <2>5 DEF Once, Has, list
  <2>9. \A q \in Int \ {p} : Has(q)' <=> Has(q)
    BY <2>2, <2>5, <2>6 DEF Has, list
  <2>10. \A q \in Int : Once(q) => Once(q)'
    BY <2>5, <2>7 DEF Once, list
  <2>11. \A V : VagueOnly(V) => VagueOnly(V)'
    BY <2>5 DEF VagueOnly, list
  <2> QED
    BY <2>3, <2>8, <2>9, <2>10, <2>11 DEF IsList, list
<1> QED
  BY <1>2, <1>3

\* Who adopts an entry has one, nobody else leaves; only who finds an entry
\* without pid may come to have two.
LEMMA AdoptListed ==
    ASSUME NEW P \in SUBSET Int, NEW U, IsList(P, U), NEW p \in P \ {NoPid}, NEW uid \in U,
           AdoptEntry(p, uid)
    PROVE  /\ IsList(P, U)'
           /\ \A q \in Int \ {NoPid} : Has(q) => Has(q)'
           /\ \A q \in Int \ {p} : Has(q)' => Has(q)
           /\ \A q \in Int \ {NoPid, p} : Once(q) => Once(q)'
           /\ \A V : VagueOnly(V) => VagueOnly(V)'
           /\ \A V : VagueOnly(V) /\ uid \notin V => foregrandProcList' = foregrandProcList
<1> DEFINE list == foregrandProcList
           I == {i \in 1..Len(list) : Vouches(list[i], p, uid)}
           k == Min(I)
<1>1. list \in Seq([pid : P, uid : U])
  BY DEF IsList
<1>2. k \in 1..Len(list) /\ Vouches(list[k], p, uid)
  <2>1. I # {} /\ I \in SUBSET Nat
    <3>1. DOMAIN list = 1..Len(list)
      BY <1>1, LenProperties
    <3>2. \E i \in DOMAIN list : Vouches(list[i], p, uid)
      BY DEF AdoptEntry, InForeground
    <3> QED
      BY <3>1, <3>2
  <2>2. k \in I
    BY <2>1, MinIsIn
  <2> QED
    BY <2>2
<1>3. list' = [list EXCEPT ![k].pid = p]
  <2>1. SelectInSeq(list, LAMBDA e : Vouches(e, p, uid)) = k
    BY <1>2 DEF SelectInSeq
  <2> QED
    BY <2>1 DEF AdoptEntry
<1> HIDE DEF k, list
<1>4. /\ list' \in Seq([pid : P, uid : U])
      /\ DOMAIN list' = DOMAIN list /\ DOMAIN list = 1..Len(list)
      /\ \A i \in DOMAIN list : i # k => list'[i] = list[i]
      /\ list'[k].pid = p /\ list'[k].uid = list[k].uid
  <2> DEFINE e == [list[k] EXCEPT !.pid = p]
  <2>1. list[k] \in [pid : P, uid : U]
    BY <1>1, <1>2, ElementOfSeq
  <2>2. e \in [pid : P, uid : U] /\ e.pid = p /\ e.uid = list[k].uid
    BY <2>1
  <2>3. list' = [list EXCEPT ![k] = e]
    BY <1>3
  <2> HIDE DEF e
  <2> QED
    BY <1>1, <1>2, <2>2, <2>3, ExceptSeq
<1>5. list[k].pid = p \/ (list[k].pid = NoPid /\ list[k].uid = uid)
  BY <1>2 DEF Vouches
<1>6. \A q \in Int \ {NoPid} : Has(q) => Has(q)'
  BY <1>2, <1>4, <1>5 DEF Has, list
<1>7. \A q \in Int \ {p} : Has(q)' => Has(q)
  BY <1>2, <1>4, <1>5 DEF Has, list
<1>8. \A q \in Int \ {NoPid, p} : Once(q) => Once(q)'
  BY <1>2, <1>4, <1>5 DEF Once, list
<1>9. ASSUME NEW V, VagueOnly(V)
      PROVE  VagueOnly(V)' /\ (uid \notin V => list' = list)
  <2>1. VagueOnly(V)'
    BY <1>2, <1>4, <1>5, <1>9 DEF VagueOnly, list
  <2>2. ASSUME uid \notin V
        PROVE  list' = list
    <3>1. list[k].pid = p
      BY <1>2, <1>4, <1>5, <1>9, <2>2 DEF VagueOnly, list
    <3>2. [list[k] EXCEPT !.pid = p] = list[k]
      <4>1. list[k] \in [pid : P, uid : U]
        BY <1>1, <1>2, ElementOfSeq
      <4> QED
        BY <3>1, <4>1
    <3> QED
      BY <1>1, <1>2, <1>3, <3>2
  <2> QED
    BY <2>1, <2>2
<1> QED
  BY <1>4, <1>6, <1>7, <1>8, <1>9 DEF IsList, list
=============================================================================
