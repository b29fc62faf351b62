---------------------------- MODULE ReloadProofs ----------------------------
(* Proofs about policy hot reload, for any number of versions, sessions and *)
(* handlers and any cache capacity: the cache is the front of the list of   *)
(* versions by last use, no call is evaluated under a policy with lint      *)
(* errors unless a process was started with it, and a session is evaluated  *)
(* under a version other than its own only after that one was dropped.      *)
EXTENDS PolicyReload, SequenceTheorems, TLAPS

-----------------------------------------------------------------------------
(* Lists of distinct entries.                                               *)

\* A prefix of a list is shorter and agrees with it where it is defined.
LEMMA PrefixAgrees ==
    ASSUME NEW S, NEW s \in Seq(S), NEW t \in Seq(S)
    PROVE  IsPrefix(s, t) <=> /\ Len(s) <= Len(t)
                              /\ \A i \in 1..Len(s) : s[i] = t[i]
<1>0. Len(s) \in Nat /\ Len(t) \in Nat
  OBVIOUS
<1>1. CASE Len(s) <= Len(t)
  <2>1. /\ SubSeq(s, 1, Len(s)) = [i \in 1..Len(s) |-> s[i]]
        /\ SubSeq(t, 1, Len(s)) = [i \in 1..Len(s) |-> t[i]]
    BY <1>0, <1>1, SubSeqProperties
  <2> QED BY <1>1, <2>1 DEF IsPrefix
<1> QED BY <1>1 DEF IsPrefix

\* Moving an entry to the front permutes the list.
LEMMA MovedToFront ==
    ASSUME NEW S, NEW list \in Seq(S), IsInjective(list), NEW fp \in ToSet(list)
    PROVE  LET m == MoveToFront(list, fp)
           IN  /\ m \in Seq(S) /\ Len(m) = Len(list) /\ m[1] = fp
               /\ \E p \in 1..Len(list) :
                     /\ list[p] = fp
                     /\ \A i \in 2..Len(list) :
                           m[i] = IF i <= p THEN list[i - 1] ELSE list[i]
<1> DEFINE p == CHOOSE i \in DOMAIN list : list[i] = fp
           m == MoveToFront(list, fp)
<1>0. Len(list) \in Nat /\ DOMAIN list = 1..Len(list)
  OBVIOUS
<1>1. p \in 1..Len(list) /\ list[p] = fp
  BY <1>0 DEF ToSet
<1>2. m = [i \in 1..Len(list) |->
             IF i = 1 THEN fp ELSE IF i <= p THEN list[i - 1] ELSE list[i]]
  BY <1>0 DEF MoveToFront
<1> HIDE DEF p, m
<1>3. ASSUME NEW i \in 1..Len(list) PROVE m[i] \in S
  <2>1. list[p] \in S /\ (i # 1 => list[i - 1] \in S) /\ list[i] \in S
    BY <1>0, <1>1
  <2> QED BY <1>1, <1>2, <2>1
<1>4. m \in [1..Len(list) -> S]
  BY <1>2, <1>3
<1>5. m \in Seq(S) /\ Len(m) = Len(list)
  BY <1>0, <1>4
<1> QED BY <1>0, <1>1, <1>2, <1>5 DEF m

\* The moved list holds the same entries, each once.
LEMMA MovedIsPermuted ==
    ASSUME NEW S, NEW list \in Seq(S), IsInjective(list), NEW fp \in ToSet(list)
    PROVE  /\ IsInjective(MoveToFront(list, fp))
           /\ ToSet(MoveToFront(list, fp)) = ToSet(list)
<1> DEFINE m == MoveToFront(list, fp)
           n == Len(list)
<1>0. n \in Nat /\ DOMAIN list = 1..n
  OBVIOUS
<1>1. m \in Seq(S) /\ Len(m) = n /\ m[1] = fp
  BY MovedToFront
<1>2. PICK p \in 1..n : /\ list[p] = fp
                        /\ \A i \in 2..n : m[i] = IF i <= p THEN list[i - 1] ELSE list[i]
  BY MovedToFront
<1> HIDE DEF m
<1>3. DOMAIN m = 1..n
  BY <1>1
<1>4. \A i, j \in 1..n : list[i] = list[j] => i = j
  BY <1>0 DEF IsInjective
<1> HIDE DEF n
<1> DEFINE from(i) == IF i = 1 THEN p ELSE IF i <= p THEN i - 1 ELSE i
<1>5. \A i \in 1..n : from(i) \in 1..n /\ m[i] = list[from(i)]
  BY <1>0, <1>1, <1>2
<1>6. \A i, j \in 1..n : from(i) = from(j) => i = j
  BY <1>0, <1>2
<1>7. \A j \in 1..n : \E i \in 1..n : from(i) = j
  <2> SUFFICES ASSUME NEW j \in 1..n PROVE \E i \in 1..n : from(i) = j
    OBVIOUS
  <2>1. CASE j = p
    <3>1. 1 \in 1..n /\ from(1) = j
      BY <1>0, <1>2, <2>1
    <3> QED BY <3>1
  <2>2. CASE j < p
    <3>1. j + 1 \in 1..n /\ from(j + 1) = j
      BY <1>0, <1>2, <2>2
    <3> QED BY <3>1
  <2>3. CASE j > p
    <3>1. from(j) = j
      BY <1>0, <1>2, <2>3
    <3> QED BY <3>1
  <2> QED BY <1>0, <1>2, <2>1, <2>2, <2>3
<1> HIDE DEF from
<1>8. IsInjective(m)
  BY <1>3, <1>4, <1>5, <1>6 DEF IsInjective
<1>9. ToSet(m) = ToSet(list)
  <2>1. ASSUME NEW x \in ToSet(m) PROVE x \in ToSet(list)
    <3>1. PICK i \in 1..n : x = m[i]
      BY <1>3 DEF ToSet
    <3> QED BY <1>0, <1>5, <3>1 DEF ToSet
  <2>2. ASSUME NEW x \in ToSet(list) PROVE x \in ToSet(m)
    <3>1. PICK j \in 1..n : x = list[j]
      BY <1>0 DEF ToSet
    <3>2. PICK i \in 1..n : from(i) = j
      BY <1>7
    <3>3. x = m[i]
      BY <1>5, <3>1, <3>2
    <3> QED BY <1>3, <3>3 DEF ToSet
  <2> QED BY <2>1, <2>2
<1> QED BY <1>8, <1>9 DEF m

\* Pushing a new entry adds it and keeps the others, in order.
LEMMA PushedToFront ==
    ASSUME NEW S, NEW list \in Seq(S), NEW fp \in S
    PROVE  LET m == PushFront(list, fp)
           IN  /\ m \in Seq(S) /\ Len(m) = Len(list) + 1 /\ m[1] = fp
               /\ \A i \in 2..Len(m) : m[i] = list[i - 1]
               /\ ToSet(m) = {fp} \cup ToSet(list)
               /\ IsInjective(list) /\ fp \notin ToSet(list) => IsInjective(m)
<1> DEFINE m == PushFront(list, fp)
           n == Len(list)
<1>0. n \in Nat /\ DOMAIN list = 1..n /\ <<fp>> \in Seq(S) /\ Len(<<fp>>) = 1
  OBVIOUS
<1>1. /\ m \in Seq(S) /\ Len(m) = n + 1 /\ m[1] = fp
      /\ \A i \in 2..(n + 1) : m[i] = list[i - 1]
  <2>1. /\ m \in Seq(S) /\ Len(m) = 1 + n
        /\ \A i \in 1..(1 + n) : m[i] = IF i <= 1 THEN <<fp>>[i] ELSE list[i - 1]
    BY <1>0, ConcatProperties DEF PushFront
  <2> QED BY <1>0, <2>1
<1> HIDE DEF m
<1>2. DOMAIN m = 1..(n + 1)
  BY <1>0, <1>1
<1>3. \A i \in 1..n : i + 1 \in 2..(n + 1) /\ m[i + 1] = list[i]
  <2> SUFFICES ASSUME NEW i \in 1..n PROVE i + 1 \in 2..(n + 1) /\ m[i + 1] = list[i]
    OBVIOUS
  <2>1. i + 1 \in 2..(n + 1) /\ (i + 1) - 1 = i
    BY <1>0
  <2>2. m[i + 1] = list[(i + 1) - 1]
    BY <1>1, <2>1
  <2> QED BY <2>1, <2>2
<1>4. \A i \in 1..(n + 1) : i = 1 \/ (i \in 2..(n + 1) /\ i - 1 \in 1..n)
  BY <1>0
<1>5. 1 \in 1..(n + 1) /\ \A i \in 2..(n + 1) : i \in 1..(n + 1)
  BY <1>0
<1>6. ToSet(m) = {fp} \cup ToSet(list)
  <2>1. ASSUME NEW x \in ToSet(m) PROVE x \in {fp} \cup ToSet(list)
    BY <1>0, <1>1, <1>2, <1>4, <2>1 DEF ToSet
  <2>2. ASSUME NEW x \in {fp} \cup ToSet(list) PROVE x \in ToSet(m)
    BY <1>0, <1>1, <1>2, <1>3, <1>5, <2>2 DEF ToSet
  <2> QED BY <2>1, <2>2
<1>7. ASSUME IsInjective(list), fp \notin ToSet(list) PROVE IsInjective(m)
  <2> SUFFICES ASSUME NEW i \in 1..(n + 1), NEW j \in 1..(n + 1), m[i] = m[j]
               PROVE  i = j
    BY <1>2 DEF IsInjective
  <2>1. \A k \in 1..n : list[k] # fp
    BY <1>0, <1>7 DEF ToSet
  <2>2. CASE i = 1 \/ j = 1
    BY <1>1, <1>4, <2>1, <2>2
  <2>3. CASE i # 1 /\ j # 1
    <3>1. list[i - 1] = list[j - 1] /\ i - 1 \in 1..n /\ j - 1 \in 1..n
      BY <1>1, <1>4, <2>3
    <3>2. i - 1 = j - 1
      BY <1>0, <1>7, <3>1 DEF IsInjective
    <3> QED BY <1>0, <3>2
  <2> QED BY <2>2, <2>3
<1> QED BY <1>1, <1>6, <1>7 DEF m

\* Removing the back entry.
LEMMA FrontOfList ==
    ASSUME NEW S, NEW list \in Seq(S), Len(list) > 0, IsInjective(list)
    PROVE  /\ Front(list) \in Seq(S) /\ Len(Front(list)) = Len(list) - 1
           /\ \A i \in 1..(Len(list) - 1) : Front(list)[i] = list[i]
           /\ IsInjective(Front(list)) /\ ToSet(Front(list)) \subseteq ToSet(list)
<1> DEFINE f == Front(list)
           n == Len(list)
<1>0. n \in Nat /\ DOMAIN list = 1..n
  OBVIOUS
<1>1. /\ f \in Seq(S) /\ Len(f) = n - 1 /\ \A i \in 1..(n - 1) : f[i] = list[i]
  <2>1. 1 \in Int /\ n - 1 \in Int /\ (1 <= n - 1 => 1 \in 1..n /\ n - 1 \in 1..n)
    BY <1>0
  <2>2. CASE n = 1
    BY <1>0, <2>2 DEF Front
  <2>3. CASE n > 1
    BY <1>0, <2>1, <2>3 DEF Front
  <2>4. n = 1 \/ n > 1
    BY <1>0
  <2> QED BY <2>2, <2>3, <2>4
<1> HIDE DEF f
<1>2. DOMAIN f = 1..(n - 1) /\ \A i \in 1..(n - 1) : i \in 1..n
  BY <1>0, <1>1
<1>3. IsInjective(f)
  BY <1>0, <1>1, <1>2 DEF IsInjective
<1>4. ASSUME NEW x \in ToSet(f) PROVE x \in ToSet(list)
  <2>1. PICK i \in 1..(n - 1) : x = f[i]
    BY <1>2 DEF ToSet
  <2>2. i \in DOMAIN list /\ x = list[i]
    BY <1>0, <1>1, <1>2, <2>1
  <2> QED BY <2>2 DEF ToSet
<1> QED BY <1>1, <1>3, <1>4 DEF f

\* policyLRU.set leaves distinct entries within the capacity, the new one among
\* them.
LEMMA SetKeepsCache ==
    ASSUME NEW S, NEW list \in Seq(S), IsInjective(list), Len(list) \in 1..Cap, NEW fp \in S
    PROVE  LET m == LRUSet(list, fp)
           IN  m \in Seq(S) /\ IsInjective(m) /\ Len(m) \in 1..Cap /\ fp \in ToSet(m)
<1>0. Cap \in Nat /\ Len(list) \in Nat
  BY ReloadAssumption
<1>1. CASE fp \in ToSet(list)
  BY <1>1, MovedToFront, MovedIsPermuted DEF LRUSet
<1>2. CASE fp \notin ToSet(list) /\ Len(list) >= Cap
  <2> DEFINE f == Front(list)
  <2>1. /\ f \in Seq(S) /\ Len(f) = Len(list) - 1 /\ IsInjective(f) /\ fp \notin ToSet(f)
    BY <1>0, <1>2, FrontOfList
  <2> HIDE DEF f
  <2>2. LET m == PushFront(f, fp)
        IN  m \in Seq(S) /\ Len(m) = Len(f) + 1 /\ IsInjective(m) /\ fp \in ToSet(m)
    BY <2>1, PushedToFront
  <2>3. Len(PushFront(f, fp)) = Len(list)
    BY <1>0, <2>1, <2>2
  <2> QED BY <1>2, <2>2, <2>3 DEF LRUSet, f
<1>3. CASE fp \notin ToSet(list) /\ ~ (Len(list) >= Cap)
  <2>1. LET m == PushFront(list, fp)
        IN  m \in Seq(S) /\ Len(m) = Len(list) + 1 /\ IsInjective(m) /\ fp \in ToSet(m)
    BY <1>3, PushedToFront
  <2>2. Len(PushFront(list, fp)) \in 1..Cap
    BY <1>0, <1>3, <2>1
  <2> QED BY <1>3, <2>1, <2>2 DEF LRUSet
<1> QED BY <1>1, <1>2, <1>3

\* What Touch makes of the list of versions by last use.
UsedNow(list, fp) ==
    IF fp \in ToSet(list) THEN MoveToFront(list, fp) ELSE PushFront(list, fp)

\* It is again a list of distinct versions.
LEMMA UsedNowIsList ==
    ASSUME NEW S, NEW list \in Seq(S), IsInjective(list), NEW fp \in S
    PROVE  UsedNow(list, fp) \in Seq(S) /\ IsInjective(UsedNow(list, fp))
BY MovedToFront, MovedIsPermuted, PushedToFront DEF UsedNow

\* The same entry moves to the front of a prefix and of the whole list.
LEMMA GetKeepsPrefix ==
    ASSUME NEW S, NEW c \in Seq(S), IsInjective(c), NEW r \in Seq(S), IsInjective(r),
           IsPrefix(c, r), NEW fp \in ToSet(c)
    PROVE  IsPrefix(MoveToFront(c, fp), UsedNow(r, fp))
<1> DEFINE mc == MoveToFront(c, fp)
           mr == MoveToFront(r, fp)
           n == Len(c)
<1>0. /\ n \in Nat /\ DOMAIN c = 1..n /\ Len(r) \in Nat /\ DOMAIN r = 1..Len(r)
      /\ n <= Len(r) /\ \A i \in 1..n : c[i] = r[i]
  BY PrefixAgrees
<1>1. /\ mc \in Seq(S) /\ Len(mc) = n /\ mc[1] = fp
  BY MovedToFront
<1>2. PICK p \in 1..n : /\ c[p] = fp
                        /\ \A i \in 2..n : mc[i] = IF i <= p THEN c[i - 1] ELSE c[i]
  BY MovedToFront
<1>3. p \in 1..Len(r) /\ r[p] = fp
  BY <1>0, <1>2
<1>4. fp \in ToSet(r)
  BY <1>0, <1>3 DEF ToSet
<1>5. /\ mr \in Seq(S) /\ Len(mr) = Len(r) /\ mr[1] = fp
  BY <1>4, MovedToFront
<1>6. PICK q \in 1..Len(r) :
         /\ r[q] = fp
         /\ \A i \in 2..Len(r) : mr[i] = IF i <= q THEN r[i - 1] ELSE r[i]
  BY <1>4, MovedToFront
<1>7. q = p
  BY <1>0, <1>3, <1>6 DEF IsInjective
<1> HIDE DEF mc, mr, n
<1>8. ASSUME NEW i \in 1..n PROVE mc[i] = mr[i]
  <2>1. CASE i = 1
    BY <1>1, <1>5, <2>1
  <2>2. CASE i # 1
    <3>1. i \in 2..n /\ i \in 2..Len(r) /\ i - 1 \in 1..n
      BY <1>0, <2>2
    <3>2. /\ mc[i] = IF i <= p THEN c[i - 1] ELSE c[i]
          /\ mr[i] = IF i <= p THEN r[i - 1] ELSE r[i]
      BY <1>2, <1>6, <1>7, <3>1
    <3> QED BY <1>0, <3>1, <3>2
  <2> QED BY <2>1, <2>2
<1>9. IsPrefix(mc, mr)
  BY <1>0, <1>1, <1>5, <1>8, PrefixAgrees
<1> QED BY <1>4, <1>9 DEF mc, mr, UsedNow

\* Pushing an entry that the prefix does not hold onto the prefix, or onto all of
\* it but its back entry, gives a prefix of the whole list with that entry in front.
LEMMA PushKeepsPrefix ==
    ASSUME NEW S, NEW c \in Seq(S), NEW r \in Seq(S), IsInjective(r),
           Len(c) <= Len(r), \A i \in 1..Len(c) : c[i] = r[i],
           NEW fp \in S, fp \notin ToSet(c)
    PROVE  IsPrefix(PushFront(c, fp), UsedNow(r, fp))
<1> DEFINE mc == PushFront(c, fp)
           n == Len(c)
<1>0. n \in Nat /\ DOMAIN c = 1..n /\ Len(r) \in Nat /\ DOMAIN r = 1..Len(r)
  OBVIOUS
<1>1. /\ mc \in Seq(S) /\ Len(mc) = n + 1 /\ mc[1] = fp
      /\ \A i \in 2..(n + 1) : mc[i] = c[i - 1]
  BY PushedToFront
<1> HIDE DEF mc
<1>2. CASE fp \notin ToSet(r)
  <2> DEFINE mr == PushFront(r, fp)
  <2>1. /\ mr \in Seq(S) /\ Len(mr) = Len(r) + 1 /\ mr[1] = fp
        /\ \A i \in 2..Len(mr) : mr[i] = r[i - 1]
    BY PushedToFront
  <2> HIDE DEF mr, n
  <2>2. ASSUME NEW i \in 1..(n + 1) PROVE mc[i] = mr[i]
    <3>1. CASE i = 1
      BY <1>1, <2>1, <3>1
    <3>2. CASE i # 1
      <4>1. i \in 2..(n + 1) /\ i \in 2..Len(mr) /\ i - 1 \in 1..n
        BY <1>0, <2>1, <3>2 DEF n
      <4>2. c[i - 1] = r[i - 1]
        BY <4>1 DEF n
      <4> QED BY <1>1, <2>1, <4>1, <4>2
    <3> QED BY <3>1, <3>2
  <2>3. IsPrefix(mc, mr)
    BY <1>0, <1>1, <2>1, <2>2, PrefixAgrees DEF n
  <2> QED BY <1>2, <2>3 DEF mc, mr, UsedNow
<1>3. CASE fp \in ToSet(r)
  <2> DEFINE mr == MoveToFront(r, fp)
  <2>1. /\ mr \in Seq(S) /\ Len(mr) = Len(r) /\ mr[1] = fp
    BY <1>3, MovedToFront
  <2>2. PICK q \in 1..Len(r) :
           /\ r[q] = fp
           /\ \A i \in 2..Len(r) : mr[i] = IF i <= q THEN r[i - 1] ELSE r[i]
    BY <1>3, MovedToFront
  <2>3. q > n
    <3>1. q \in 1..n => c[q] \in ToSet(c)
      BY <1>0 DEF ToSet
    <3>2. q \notin 1..n
      BY <2>2, <3>1
    <3> QED BY <1>0, <2>2, <3>2
  <2> HIDE DEF mr, n
  <2>4. ASSUME NEW i \in 1..(n + 1) PROVE mc[i] = mr[i]
    <3>1. CASE i = 1
      BY <1>1, <2>1, <3>1
    <3>2. CASE i # 1
      <4>1. i \in 2..(n + 1) /\ i \in 2..Len(r) /\ i - 1 \in 1..n /\ i <= q
        BY <1>0, <2>2, <2>3, <3>2
      <4>2. c[i - 1] = r[i - 1]
        BY <4>1 DEF n
      <4> QED BY <1>1, <2>2, <4>1, <4>2
    <3> QED BY <3>1, <3>2
  <2>5. n + 1 <= Len(r)
    BY <1>0, <2>2, <2>3
  <2>6. IsPrefix(mc, mr)
    BY <1>0, <1>1, <2>1, <2>4, <2>5, PrefixAgrees
  <2> QED BY <1>3, <2>6 DEF mc, mr, UsedNow
<1> QED BY <1>2, <1>3

\* policyLRU.set leaves the front of the list of versions by last use.
LEMMA SetKeepsPrefix ==
    ASSUME NEW S, NEW c \in Seq(S), IsInjective(c), Len(c) \in 1..Cap,
           NEW r \in Seq(S), IsInjective(r), IsPrefix(c, r), NEW fp \in S
    PROVE  IsPrefix(LRUSet(c, fp), UsedNow(r, fp))
<1>0. /\ Cap \in Nat /\ Len(c) \in Nat /\ Len(r) \in Nat
      /\ Len(c) <= Len(r) /\ \A i \in 1..Len(c) : c[i] = r[i]
  BY ReloadAssumption, PrefixAgrees
<1>1. CASE fp \in ToSet(c)
  BY <1>1, GetKeepsPrefix DEF LRUSet
<1>2. CASE fp \notin ToSet(c) /\ Len(c) >= Cap
  <2> DEFINE f == Front(c)
  <2>1. /\ f \in Seq(S) /\ Len(f) = Len(c) - 1 /\ fp \notin ToSet(f)
        /\ \A i \in 1..(Len(c) - 1) : f[i] = c[i]
    BY <1>0, <1>2, FrontOfList
  <2>2. Len(f) <= Len(r) /\ \A i \in 1..Len(f) : f[i] = r[i]
    BY <1>0, <2>1
  <2> HIDE DEF f
  <2>3. IsPrefix(PushFront(f, fp), UsedNow(r, fp))
    BY <2>1, <2>2, PushKeepsPrefix
  <2> QED BY <1>2, <2>3 DEF LRUSet, f
<1>3. CASE fp \notin ToSet(c) /\ ~ (Len(c) >= Cap)
  BY <1>0, <1>3, PushKeepsPrefix DEF LRUSet
<1> QED BY <1>1, <1>2, <1>3

-----------------------------------------------------------------------------
(* The inductive invariant.                                                 *)

\* The history list has distinct versions, and a busy handler has a session.
Shapes ==
    /\ recency \in Seq(Policies) /\ IsInjective(recency)
    /\ \A h \in Handler : loc[h].pc # "idle" => loc[h].session \in Session

\* ReloadPolicy caches before it publishes.
CachedFirst == reload.pc = "publish" => Cached(reload.pol)

CacheInv == ReloadTypeOK /\ Shapes /\ CacheHoldsMostRecentlyUsed /\ CachedFirst

\* Nothing a call may come to be evaluated under has lint errors, except what a
\* process was started with.
Vetted == Clean \cup started

VettedInv ==
    /\ live \in Vetted
    /\ reload.pc \in {"cache", "publish"} => reload.pol \in Clean
    /\ \A h \in Handler : loc[h].fp \in Vetted
    /\ \A s \in Session : bound[s] \in Vetted \cup {NoSession}
    /\ LintErrorsOnlyFromStart

\* Every version that a session is or may get bound to is in the cache or was
\* dropped; a handler that resolves a policy has read its session's binding, and
\* one that falls back found it dropped.
Known == ToSet(cache) \cup dropped

BindingInv ==
    /\ live \in Known
    /\ reload.pc = "publish" => reload.pol \in Known
    /\ \A s \in Session : bound[s] \in Known \cup {NoSession}
    /\ \A h \in Handler :
          /\ loc[h].fp \in Known
          /\ loc[h].pc \in {"resolve", "fallback"} => bound[loc[h].session] = loc[h].fp
          /\ loc[h].pc = "fallback" => loc[h].fp \in dropped
    /\ \A e \in evaluated :
          /\ e.session \in Session /\ bound[e.session] # NoSession
          /\ e.pol # bound[e.session] => bound[e.session] \in dropped /\ e.pol = e.live

-----------------------------------------------------------------------------
(* The cache.                                                               *)

\* A cache hit promotes an entry in both lists and drops none.
LEMMA HitKeepsCache ==
    ASSUME CacheInv, NEW fp \in ToSet(cache),
           cache' = MoveToFront(cache, fp), Touch(fp)
    PROVE  /\ cache' \in Seq(Policies) /\ IsInjective(cache') /\ Len(cache') \in 1..Cap
           /\ recency' \in Seq(Policies) /\ IsInjective(recency')
           /\ IsPrefix(cache', recency') /\ ToSet(cache') = ToSet(cache)
<1>1. /\ cache \in Seq(Policies) /\ IsInjective(cache) /\ Len(cache) \in 1..Cap
      /\ recency \in Seq(Policies) /\ IsInjective(recency) /\ IsPrefix(cache, recency)
  BY DEF CacheInv, ReloadTypeOK, Shapes, CacheHoldsMostRecentlyUsed
<1>2. fp \in Policies
  BY <1>1 DEF ToSet
<1>3. recency' = UsedNow(recency, fp)
  BY DEF Touch, UsedNow
<1>4. recency' \in Seq(Policies) /\ IsInjective(recency')
  BY <1>1, <1>2, <1>3, UsedNowIsList
<1>5. /\ cache' \in Seq(Policies) /\ Len(cache') = Len(cache)
  BY <1>1, MovedToFront
<1>6. IsInjective(cache') /\ ToSet(cache') = ToSet(cache)
  BY <1>1, MovedIsPermuted
<1>7. IsPrefix(cache', recency')
  BY <1>1, <1>3, GetKeepsPrefix
<1> QED BY <1>1, <1>4, <1>5, <1>6, <1>7

\* A reload puts the new version in front of both lists.
LEMMA SetKeepsLists ==
    ASSUME CacheInv, NEW fp \in Policies, cache' = LRUSet(cache, fp), Touch(fp)
    PROVE  /\ cache' \in Seq(Policies) /\ IsInjective(cache') /\ Len(cache') \in 1..Cap
           /\ recency' \in Seq(Policies) /\ IsInjective(recency')
           /\ IsPrefix(cache', recency') /\ fp \in ToSet(cache')
<1>1. /\ cache \in Seq(Policies) /\ IsInjective(cache) /\ Len(cache) \in 1..Cap
      /\ recency \in Seq(Policies) /\ IsInjective(recency) /\ IsPrefix(cache, recency)
  BY DEF CacheInv, ReloadTypeOK, Shapes, CacheHoldsMostRecentlyUsed
<1>2. recency' = UsedNow(recency, fp)
  BY DEF Touch, UsedNow
<1>3. recency' \in Seq(Policies) /\ IsInjective(recency')
  BY <1>1, <1>2, UsedNowIsList
<1>4. /\ cache' \in Seq(Policies) /\ IsInjective(cache')
      /\ Len(cache') \in 1..Cap /\ fp \in ToSet(cache')
  BY <1>1, SetKeepsCache
<1>5. IsPrefix(cache', recency')
  BY <1>1, <1>2, SetKeepsPrefix
<1> QED BY <1>3, <1>4, <1>5

\* A new process has one version, in both lists.
LEMMA OneVersion ==
    ASSUME NEW f \in Policies
    PROVE  /\ <<f>> \in Seq(Policies) /\ IsInjective(<<f>>) /\ Len(<<f>>) \in 1..Cap
           /\ IsPrefix(<<f>>, <<f>>) /\ ToSet(<<f>>) = {f}
<1>1. Cap \in Nat /\ Cap >= 1
  BY ReloadAssumption
<1>2. <<f>> \in Seq(Policies) /\ Len(<<f>>) = 1 /\ <<f>>[1] = f /\ DOMAIN <<f>> = {1}
  OBVIOUS
<1>3. IsPrefix(<<f>>, <<f>>)
  BY <1>2 DEF IsPrefix
<1>4. ToSet(<<f>>) = {f} /\ IsInjective(<<f>>)
  BY <1>2 DEF ToSet, IsInjective
<1> QED BY <1>1, <1>2, <1>3, <1>4

\* A process starts with its lists in order.
LEMMA CacheInit == Init => CacheInv
<1> SUFFICES ASSUME Init PROVE CacheInv
  OBVIOUS
<1>1. file \in Policies /\ cache = <<file>> /\ recency = <<file>> /\ 0 \in 0..MaxEdits
  BY ReloadAssumption DEF Init
<1>2. Shapes
  BY <1>1, OneVersion DEF Init, Shapes
<1>3. CacheHoldsMostRecentlyUsed /\ CachedFirst
  BY <1>1, OneVersion DEF Init, CacheHoldsMostRecentlyUsed, CachedFirst, Cached
<1>4. cache \in Seq(Policies) /\ IsInjective(cache) /\ Len(cache) \in 1..Cap
  BY <1>1, OneVersion
<1>5. ReloadTypeOK
  BY <1>1, <1>4 DEF Init, ReloadTypeOK
<1> QED BY <1>2, <1>3, <1>5 DEF CacheInv

\* Every step keeps the types, the order of the cache and the live version in it.
LEMMA CacheStep == CacheInv /\ [Next]_vars => CacheInv'
<1> SUFFICES ASSUME CacheInv, [Next]_vars PROVE CacheInv'
  OBVIOUS
<1> USE DEF CacheInv
<1>a. CASE UNCHANGED vars
  BY <1>a DEF vars, ReloadTypeOK, Shapes, CacheHoldsMostRecentlyUsed, CachedFirst, Cached
<1>b. ASSUME NEW f \in Policies \cup {Broken}, Edit(f) PROVE CacheInv'
  BY <1>b, ReloadAssumption DEF Edit, ReloadTypeOK, Shapes, CacheHoldsMostRecentlyUsed, CachedFirst,
         Cached
<1>c. CASE Sighup \/ TakeSignal \/ ParseAndLint
  <2>1. UNCHANGED <<file, edits, live, cache, bound, loc, evaluated, recency, dropped, started>>
    BY <1>c DEF Sighup, TakeSignal, ParseAndLint
  <2>2. /\ hup' \in BOOLEAN
        /\ reload' \in [pc : {"wait", "parse", "cache", "publish"}, pol : Policies]
        /\ reload'.pc # "publish" \/ reload' = reload
        /\ reload.pc = "publish" => reload' = reload
    <3>1. CASE Sighup
      BY <3>1 DEF Sighup, ReloadTypeOK
    <3>2. CASE TakeSignal
      BY <3>2 DEF TakeSignal, ReloadTypeOK
    <3>3. CASE ParseAndLint
      BY <3>3, ReloadAssumption DEF ParseAndLint, ReloadTypeOK
    <3> QED BY <1>c, <3>1, <3>2, <3>3
  <2> QED BY <2>1, <2>2 DEF ReloadTypeOK, Shapes, CacheHoldsMostRecentlyUsed, CachedFirst,
             Cached
<1>d. CASE CacheNew
  <2>1. reload.pol \in Policies
    BY DEF ReloadTypeOK
  <2>2. /\ cache' \in Seq(Policies) /\ IsInjective(cache') /\ Len(cache') \in 1..Cap
        /\ recency' \in Seq(Policies) /\ IsInjective(recency')
        /\ IsPrefix(cache', recency') /\ reload.pol \in ToSet(cache')
    BY <1>d, <2>1, SetKeepsLists DEF CacheNew
  <2>3. reload' \in [pc : {"wait", "parse", "cache", "publish"}, pol : Policies]
        /\ reload'.pc = "publish" /\ reload'.pol = reload.pol
    BY <1>d DEF CacheNew, ReloadTypeOK
  <2>4. UNCHANGED <<file, edits, hup, live, bound, loc, evaluated, started>>
    BY <1>d DEF CacheNew
  <2> QED BY <2>2, <2>3, <2>4 DEF ReloadTypeOK, Shapes, CacheHoldsMostRecentlyUsed,
             CachedFirst, Cached
<1>e. CASE Publish
  BY <1>e DEF Publish, ReloadTypeOK, Shapes, CacheHoldsMostRecentlyUsed, CachedFirst, Cached
<1>f. CASE Restart
  <2>1. file \in Policies /\ cache' = <<file>> /\ recency' = <<file>> /\ live' = file
    BY <1>f DEF Restart
  <2>2. /\ cache' \in Seq(Policies) /\ IsInjective(cache') /\ Len(cache') \in 1..Cap
        /\ recency' \in Seq(Policies) /\ IsInjective(recency')
        /\ IsPrefix(cache', recency') /\ live' \in ToSet(cache')
    BY <2>1, OneVersion
  <2>3. reload' = [pc |-> "wait", pol |-> file]
        /\ loc' = [h \in Handler |-> [pc |-> "idle", session |-> NoSession, fp |-> file]]
        /\ started' = started \cup {file} /\ hup' = FALSE
        /\ UNCHANGED <<file, edits, bound>>
    BY <1>f DEF Restart
  <2> QED BY <2>1, <2>2, <2>3 DEF ReloadTypeOK, Shapes, CacheHoldsMostRecentlyUsed,
             CachedFirst, Cached
<1>g. ASSUME NEW h \in Handler,
             \/ \E s \in Session : Receive(h, s)
             \/ GetSession(h) \/ ReadLive(h) \/ CreateSession(h)
             \/ Resolve(h) \/ Fallback(h)
      PROVE  CacheInv'
  <2>0. loc[h].fp \in Policies /\ live \in Policies
    BY DEF ReloadTypeOK
  <2>1. /\ UNCHANGED <<file, edits, hup, reload, live, dropped, started>>
    BY <1>g DEF Receive, GetSession, ReadLive, CreateSession, Resolve, Fallback
  <2>2. /\ cache' \in Seq(Policies) /\ IsInjective(cache') /\ Len(cache') \in 1..Cap
        /\ recency' \in Seq(Policies) /\ IsInjective(recency')
        /\ IsPrefix(cache', recency') /\ ToSet(cache') = ToSet(cache)
    <3>1. CASE UNCHANGED <<cache, recency>>
      BY <3>1 DEF ReloadTypeOK, Shapes, CacheHoldsMostRecentlyUsed
    <3>2. CASE Resolve(h) /\ Cached(loc[h].fp)
      BY <3>2, HitKeepsCache DEF Resolve, Cached
    <3> QED BY <1>g, <3>1, <3>2 DEF Receive, GetSession, ReadLive, CreateSession, Resolve,
               Fallback
  <2>3. /\ bound' \in [Session -> Policies \cup {NoSession}]
        /\ loc' \in [Handler -> [pc : {"idle", "load", "bind", "create", "resolve", "fallback"},
                                 session : Session \cup {NoSession}, fp : Policies]]
        /\ \A g \in Handler : loc'[g].pc # "idle" => loc'[g].session \in Session
    <3>0. ASSUME Return(h)
          PROVE  /\ loc' \in [Handler ->
                        [pc : {"idle", "load", "bind", "create", "resolve", "fallback"},
                         session : Session \cup {NoSession}, fp : Policies]]
                 /\ \A g \in Handler : loc'[g].pc # "idle" => loc'[g].session \in Session
      BY <2>0, <3>0 DEF Return, ReloadTypeOK, Shapes
    <3>1. ASSUME NEW s \in Session, Receive(h, s)
          PROVE  /\ bound' = bound
                 /\ loc' \in [Handler ->
                        [pc : {"idle", "load", "bind", "create", "resolve", "fallback"},
                         session : Session \cup {NoSession}, fp : Policies]]
                 /\ \A g \in Handler : loc'[g].pc # "idle" => loc'[g].session \in Session
      BY <3>1 DEF Receive, ReloadTypeOK, Shapes
    <3>2. CASE GetSession(h)
      BY <3>2, ReloadAssumption DEF GetSession, ReloadTypeOK, Shapes
    <3>3. CASE ReadLive(h)
      BY <3>3 DEF ReadLive, ReloadTypeOK, Shapes
    <3>4. CASE CreateSession(h) /\ ~ Return(h)
      <4>1. /\ loc[h].pc = "create" /\ loc' = [loc EXCEPT ![h].pc = "resolve"]
            /\ bound' = [bound EXCEPT ![loc[h].session] = loc[h].fp]
        BY <3>4 DEF CreateSession
      <4>2. bound' \in [Session -> Policies \cup {NoSession}]
        BY <2>0, <4>1 DEF ReloadTypeOK
      <4> QED BY <4>1, <4>2 DEF ReloadTypeOK, Shapes
    <3>5. CASE Resolve(h) /\ ~ Return(h)
      BY <3>5 DEF Resolve, ReloadTypeOK, Shapes
    <3>6. ASSUME CreateSession(h) \/ Resolve(h) \/ Fallback(h), Return(h)
          PROVE  bound' \in [Session -> Policies \cup {NoSession}]
      BY <2>0, <3>6 DEF CreateSession, Resolve, Fallback, ReloadTypeOK
    <3>7. Fallback(h) => Return(h)
      BY DEF Fallback
    <3>8. bound \in [Session -> Policies \cup {NoSession}]
      BY DEF ReloadTypeOK
    <3> QED BY <1>g, <3>0, <3>1, <3>2, <3>3, <3>4, <3>5, <3>6, <3>7, <3>8
  <2> QED BY <2>1, <2>2, <2>3 DEF ReloadTypeOK, Shapes, CacheHoldsMostRecentlyUsed,
             CachedFirst, Cached
<1> QED BY <1>a, <1>b, <1>c, <1>d, <1>e, <1>f, <1>g DEF Next, Reload

\* Every variable of the reload model keeps its type; the cache never exceeds its
\* capacity and never holds a version twice.
THEOREM ReloadTypeCorrect == Spec => []ReloadTypeOK
<1>1. CacheInv => ReloadTypeOK
  BY DEF CacheInv
<1> QED BY <1>1, CacheInit, CacheStep, PTL DEF Spec

\* The cache holds the most recently used versions, and the live one is among
\* them whenever ReloadPolicy is not between caching and publishing.
THEOREM CacheIsLRU == Spec => []CacheHoldsMostRecentlyUsed
<1>1. CacheInv => CacheHoldsMostRecentlyUsed
  BY DEF CacheInv
<1> QED BY <1>1, CacheInit, CacheStep, PTL DEF Spec

-----------------------------------------------------------------------------
(* What calls are evaluated under.                                          *)

\* What a handler may do: bind its session to the version it holds if the session
\* has none, take the live version or the one of its session, and evaluate a call
\* under the version it holds, if cached, or else, after a miss, the live one.
HandlerEffect(h) ==
    LET l == loc[h]
        m == loc'[h]
    IN  /\ UNCHANGED <<reload, live, dropped, started>> /\ ToSet(cache') = ToSet(cache)
        /\ \A g \in Handler \ {h} : loc'[g] = loc[g]
        /\ \/ m.pc = "idle" /\ m.fp = live /\ bound' = bound /\ evaluated' = evaluated
           \/ /\ m.pc \in {"load", "bind"} /\ m.fp = l.fp
              /\ bound' = bound /\ evaluated' = evaluated
           \/ /\ m.pc = "create" /\ m.fp = live
              /\ bound' = bound /\ evaluated' = evaluated
           \/ /\ m.pc = "resolve" /\ m.session = l.session /\ l.session \in Session
              /\ bound[l.session] # NoSession /\ m.fp = bound[l.session]
              /\ bound' = bound /\ evaluated' = evaluated
           \/ /\ m.pc = "resolve" /\ m.session = l.session /\ l.session \in Session
              /\ bound[l.session] = NoSession /\ m.fp = l.fp
              /\ bound' = [bound EXCEPT ![l.session] = l.fp] /\ evaluated' = evaluated
           \/ /\ l.pc = "resolve" /\ m.pc = "fallback" /\ m.session = l.session
              /\ m.fp = l.fp /\ l.fp \notin ToSet(cache)
              /\ bound' = bound /\ evaluated' = evaluated
           \/ /\ m.pc = "idle" /\ m.fp = live /\ bound' = bound /\ l.session \in Session
              /\ \/ /\ l.pc = "resolve"
                    /\ evaluated' = evaluated \cup
                          {[session |-> l.session, pol |-> l.fp, live |-> live]}
                 \/ /\ l.pc = "fallback"
                    /\ evaluated' = evaluated \cup
                          {[session |-> l.session, pol |-> live, live |-> live]}

\* Every step of a handler is of that form.
LEMMA HandlerEffects ==
    ASSUME CacheInv, NEW h \in Handler,
           \/ \E s \in Session : Receive(h, s)
           \/ GetSession(h) \/ ReadLive(h) \/ CreateSession(h)
           \/ Resolve(h) \/ Fallback(h)
    PROVE  HandlerEffect(h)
<1>0. /\ loc \in [Handler -> [pc : {"idle", "load", "bind", "create", "resolve", "fallback"},
                              session : Session \cup {NoSession}, fp : Policies]]
      /\ loc[h] \in [pc : {"idle", "load", "bind", "create", "resolve", "fallback"},
                     session : Session \cup {NoSession}, fp : Policies]
      /\ loc[h].pc # "idle" => loc[h].session \in Session
  BY DEF CacheInv, ReloadTypeOK, Shapes
<1>1. UNCHANGED <<reload, live, dropped, started>>
  BY DEF Receive, GetSession, ReadLive, CreateSession, Resolve, Fallback
<1>2. ToSet(cache') = ToSet(cache)
  <2>1. CASE cache' = cache
    BY <2>1
  <2>2. CASE Resolve(h) /\ Cached(loc[h].fp)
    BY <2>2, HitKeepsCache DEF Resolve, Cached
  <2> QED BY <2>1, <2>2 DEF Receive, GetSession, ReadLive, CreateSession, Resolve, Fallback
<1>3. \A g \in Handler \ {h} : loc'[g] = loc[g]
  BY <1>0 DEF Receive, GetSession, ReadLive, CreateSession, Resolve, Fallback, Return
<1>4. ASSUME Return(h) PROVE loc'[h].pc = "idle" /\ loc'[h].fp = live
  BY <1>0, <1>4 DEF Return
<1>5. ASSUME NEW s \in Session, Receive(h, s) PROVE HandlerEffect(h)
  <2>1. loc'[h].pc = "load" /\ loc'[h].fp = loc[h].fp
    BY <1>0, <1>5 DEF Receive
  <2> QED BY <1>1, <1>2, <1>3, <1>5, <2>1 DEF Receive, HandlerEffect
<1>6. CASE GetSession(h)
  <2>1. \/ loc'[h].pc = "bind" /\ loc'[h].fp = loc[h].fp
        \/ /\ loc'[h].pc = "resolve" /\ loc'[h].session = loc[h].session
           /\ bound[loc[h].session] # NoSession /\ loc'[h].fp = bound[loc[h].session]
    BY <1>0, <1>6 DEF GetSession
  <2>2. loc[h].session \in Session
    BY <1>0, <1>6 DEF GetSession
  <2> QED BY <1>1, <1>2, <1>3, <1>6, <2>1, <2>2 DEF GetSession, HandlerEffect
<1>7. CASE ReadLive(h)
  <2>1. loc'[h].pc = "create" /\ loc'[h].fp = live
    BY <1>0, <1>7 DEF ReadLive
  <2> QED BY <1>1, <1>2, <1>3, <1>7, <2>1 DEF ReadLive, HandlerEffect
<1>8. CASE CreateSession(h)
  <2>1. CASE Return(h) /\ UNCHANGED bound
    BY <1>1, <1>2, <1>3, <1>4, <1>8, <2>1 DEF CreateSession, HandlerEffect
  <2>2. CASE /\ bound[loc[h].session] = NoSession
             /\ bound' = [bound EXCEPT ![loc[h].session] = loc[h].fp]
             /\ loc' = [loc EXCEPT ![h].pc = "resolve"]
    <3>1. /\ loc'[h].pc = "resolve" /\ loc'[h].fp = loc[h].fp
          /\ loc'[h].session = loc[h].session
      BY <1>0, <2>2
    <3>2. loc[h].session \in Session /\ evaluated' = evaluated
      BY <1>0, <1>8 DEF CreateSession
    <3> QED BY <1>1, <1>2, <1>3, <2>2, <3>1, <3>2 DEF HandlerEffect
  <2> QED BY <1>8, <2>1, <2>2 DEF CreateSession
<1>9. CASE Resolve(h)
  <2>0. loc[h].pc = "resolve" /\ loc[h].session \in Session /\ bound' = bound
    BY <1>0, <1>9 DEF Resolve
  <2>1. CASE Cached(loc[h].fp)
    <3>1. /\ Return(h)
          /\ evaluated' = evaluated \cup
                {[session |-> loc[h].session, pol |-> loc[h].fp, live |-> live]}
      BY <1>9, <2>1 DEF Resolve
    <3> QED BY <1>1, <1>2, <1>3, <1>4, <2>0, <3>1 DEF HandlerEffect
  <2>2. CASE ~ Cached(loc[h].fp)
    <3>1. loc' = [loc EXCEPT ![h].pc = "fallback"] /\ evaluated' = evaluated
      BY <1>9, <2>2 DEF Resolve
    <3>2. /\ loc'[h].pc = "fallback" /\ loc'[h].fp = loc[h].fp
          /\ loc'[h].session = loc[h].session
      BY <1>0, <3>1
    <3> QED BY <1>1, <1>2, <1>3, <2>0, <2>2, <3>1, <3>2 DEF HandlerEffect, Cached
  <2> QED BY <2>1, <2>2
<1>10. CASE Fallback(h)
  <2>0. /\ loc[h].pc = "fallback" /\ loc[h].session \in Session /\ bound' = bound
        /\ Return(h)
        /\ evaluated' = evaluated \cup
              {[session |-> loc[h].session, pol |-> live, live |-> live]}
    BY <1>0, <1>10 DEF Fallback
  <2> QED BY <1>1, <1>2, <1>3, <1>4, <2>0 DEF HandlerEffect
<1> QED BY <1>5, <1>6, <1>7, <1>8, <1>9, <1>10

\* No step brings a version with lint errors to where calls take theirs from.
LEMMA VettedStep == CacheInv /\ VettedInv /\ [Next]_vars => VettedInv'
<1> SUFFICES ASSUME CacheInv, VettedInv, [Next]_vars PROVE VettedInv'
  OBVIOUS
<1> USE DEF VettedInv, LintErrorsOnlyFromStart, Vetted
<1>0. /\ loc \in [Handler -> [pc : {"idle", "load", "bind", "create", "resolve", "fallback"},
                              session : Session \cup {NoSession}, fp : Policies]]
      /\ bound \in [Session -> Policies \cup {NoSession}]
      /\ reload \in [pc : {"wait", "parse", "cache", "publish"}, pol : Policies]
  BY DEF CacheInv, ReloadTypeOK
<1>1. CASE UNCHANGED <<live, reload, loc, bound, evaluated, started>>
  BY <1>1
<1>2. CASE TakeSignal \/ CacheNew \/ Publish
  <2>1. UNCHANGED <<loc, bound, evaluated, started>>
    BY <1>2 DEF TakeSignal, CacheNew, Publish
  <2>2. /\ live' \in Vetted
        /\ reload'.pc \in {"cache", "publish"} => reload'.pol \in Clean
    BY <1>0, <1>2 DEF TakeSignal, CacheNew, Publish
  <2> QED BY <2>1, <2>2
<1>3. CASE ParseAndLint
  <2>1. reload'.pc \in {"cache", "publish"} => reload'.pol \in Clean
    BY <1>0, <1>3 DEF ParseAndLint
  <2> QED BY <1>3, <2>1 DEF ParseAndLint
<1>4. CASE Restart
  <2>1. /\ live' = file /\ reload'.pc = "wait" /\ bound' = bound /\ evaluated' = evaluated
        /\ started' = started \cup {file}
        /\ \A h \in Handler : loc'[h].fp = file
    BY <1>4 DEF Restart
  <2> QED BY <2>1
<1>5. ASSUME NEW h \in Handler, HandlerEffect(h) PROVE VettedInv'
  <2>1. /\ live' = live /\ reload' = reload /\ started' = started
        /\ \A g \in Handler \ {h} : loc'[g] = loc[g]
    BY <1>5 DEF HandlerEffect
  <2>2. loc'[h].fp \in Vetted
    BY <1>5 DEF HandlerEffect
  <2>3. \A s \in Session : bound'[s] \in Vetted \cup {NoSession}
    BY <1>0, <1>5 DEF HandlerEffect
  <2>4. \A e \in evaluated' : e.pol \in Vetted
    BY <1>5 DEF HandlerEffect
  <2> QED BY <2>1, <2>2, <2>3, <2>4
<1>6. \/ UNCHANGED <<live, reload, loc, bound, evaluated, started>>
      \/ TakeSignal \/ CacheNew \/ Publish \/ ParseAndLint \/ Restart
      \/ \E h \in Handler : HandlerEffect(h)
  BY HandlerEffects DEF Next, Reload, Edit, Sighup, vars
<1> QED BY <1>1, <1>2, <1>3, <1>4, <1>5, <1>6

\* ReloadPolicy's promise: no call is evaluated under a policy with lint errors
\* unless a process was started with it.
THEOREM OnlyVettedPolicies == Spec => []LintErrorsOnlyFromStart
<1>1. Init => VettedInv
  BY DEF Init, VettedInv, Vetted, LintErrorsOnlyFromStart
<1>2. VettedInv => LintErrorsOnlyFromStart
  BY DEF VettedInv
<1> QED BY <1>1, <1>2, CacheInit, CacheStep, VettedStep, PTL DEF Spec

\* The versions a session may be bound to stay known, a handler that resolves
\* holds the version of its session, and one that falls back found it dropped.
LEMMA BindingStep == CacheInv /\ BindingInv /\ [Next]_vars => BindingInv'
<1> SUFFICES ASSUME CacheInv, BindingInv, [Next]_vars PROVE BindingInv'
  OBVIOUS
<1>0. /\ loc \in [Handler -> [pc : {"idle", "load", "bind", "create", "resolve", "fallback"},
                              session : Session \cup {NoSession}, fp : Policies]]
      /\ bound \in [Session -> Policies \cup {NoSession}]
      /\ reload \in [pc : {"wait", "parse", "cache", "publish"}, pol : Policies]
      /\ \A h \in Handler : loc[h].pc # "idle" => loc[h].session \in Session
      /\ \A h \in Handler : loc[h].fp \in Policies
      /\ NoSession \notin Policies
  BY ReloadAssumption DEF CacheInv, ReloadTypeOK, Shapes
<1>1. CASE UNCHANGED <<live, reload, cache, loc, bound, evaluated, dropped>>
  BY <1>1 DEF BindingInv, Known
<1>2. CASE TakeSignal \/ ParseAndLint \/ Publish
  <2>1. UNCHANGED <<cache, loc, bound, evaluated, dropped>>
    BY <1>2 DEF TakeSignal, ParseAndLint, Publish
  <2>2. live' \in Known /\ (reload'.pc = "publish" => reload'.pol \in Known)
    BY <1>0, <1>2 DEF TakeSignal, ParseAndLint, Publish, BindingInv
  <2> QED BY <2>1, <2>2 DEF BindingInv, Known
<1>3. CASE CacheNew
  <2>1. UNCHANGED <<live, loc, bound, evaluated>>
    BY <1>3 DEF CacheNew
  <2>2. Known \subseteq Known' /\ dropped \subseteq dropped'
    BY <1>3 DEF CacheNew, Known
  <2>3. reload'.pol = reload.pol /\ reload.pol \in Policies
    BY <1>0, <1>3 DEF CacheNew
  <2>4. reload'.pol \in Known'
    BY <1>3, <2>3, SetKeepsLists DEF CacheNew, Known
  <2> QED BY <2>1, <2>2, <2>4 DEF BindingInv
<1>4. CASE Restart
  <2>1. /\ live' = file /\ reload'.pc = "wait" /\ bound' = bound /\ evaluated' = evaluated
        /\ \A h \in Handler : loc'[h].fp = file /\ loc'[h].pc = "idle"
        /\ file \in Policies /\ cache' = <<file>>
        /\ dropped' = dropped \cup (ToSet(cache) \ {file})
    BY <1>4 DEF Restart
  <2>2. ToSet(cache') = {file}
    BY <2>1, OneVersion
  <2>3. Known \subseteq Known' /\ dropped \subseteq dropped' /\ file \in Known'
    BY <2>1, <2>2 DEF Known
  <2> QED BY <2>1, <2>3 DEF BindingInv
<1>5. ASSUME NEW h \in Handler, HandlerEffect(h) PROVE BindingInv'
  <2>1. /\ live' = live /\ reload' = reload /\ dropped' = dropped /\ Known' = Known
        /\ \A g \in Handler \ {h} : loc'[g] = loc[g]
    BY <1>5 DEF HandlerEffect, Known
  <2>2. /\ \A s \in Session : bound[s] # NoSession => bound'[s] = bound[s]
        /\ \A s \in Session : bound'[s] \in Known \cup {NoSession}
    BY <1>0, <1>5 DEF HandlerEffect, BindingInv
  <2>3. /\ loc'[h].fp \in Known
        /\ loc'[h].pc \in {"resolve", "fallback"} => bound'[loc'[h].session] = loc'[h].fp
        /\ loc'[h].pc = "fallback" => loc'[h].fp \in dropped
    <3>1. loc'[h].fp \in Known
      BY <1>0, <1>5 DEF HandlerEffect, BindingInv
    <3>2. loc'[h].pc \in {"resolve", "fallback"} => bound'[loc'[h].session] = loc'[h].fp
      BY <1>0, <1>5 DEF HandlerEffect, BindingInv
    <3>3. loc'[h].pc = "fallback" => loc'[h].fp \in dropped
      BY <1>0, <1>5 DEF HandlerEffect, BindingInv, Known
    <3> QED BY <3>1, <3>2, <3>3
  <2>4. ASSUME NEW g \in Handler
        PROVE  /\ loc'[g].fp \in Known
               /\ loc'[g].pc \in {"resolve", "fallback"} => bound'[loc'[g].session] = loc'[g].fp
               /\ loc'[g].pc = "fallback" => loc'[g].fp \in dropped
    <3>1. CASE g = h
      BY <2>3, <3>1
    <3>2. CASE g # h
      <4>1. /\ loc'[g] = loc[g] /\ loc[g].fp \in Known
            /\ loc[g].pc \in {"resolve", "fallback"} => bound[loc[g].session] = loc[g].fp
            /\ loc[g].pc = "fallback" => loc[g].fp \in dropped
        BY <2>1, <3>2 DEF BindingInv
      <4> QED BY <1>0, <2>2, <4>1
    <3> QED BY <3>1, <3>2
  <2>5. ASSUME NEW e \in evaluated'
        PROVE  /\ e.session \in Session /\ bound'[e.session] # NoSession
               /\ e.pol # bound'[e.session] => bound'[e.session] \in dropped /\ e.pol = e.live
    <3>1. CASE e \in evaluated
      BY <2>2, <3>1 DEF BindingInv
    <3>2. CASE e \notin evaluated
      <4>1. /\ e.session = loc[h].session /\ loc[h].session \in Session /\ bound' = bound
            /\ e.live = live
            /\ \/ loc[h].pc = "resolve" /\ e.pol = loc[h].fp
               \/ loc[h].pc = "fallback" /\ e.pol = live
        BY <1>5, <3>2 DEF HandlerEffect
      <4>2. /\ bound[loc[h].session] = loc[h].fp
            /\ loc[h].pc = "fallback" => loc[h].fp \in dropped
        BY <4>1 DEF BindingInv
      <4> QED BY <1>0, <4>1, <4>2
    <3> QED BY <3>1, <3>2
  <2> QED BY <2>1, <2>2, <2>4, <2>5 DEF BindingInv
<1>6. \/ UNCHANGED <<live, reload, cache, loc, bound, evaluated, dropped>>
      \/ TakeSignal \/ CacheNew \/ Publish \/ ParseAndLint \/ Restart
      \/ \E h \in Handler : HandlerEffect(h)
  BY HandlerEffects DEF Next, Reload, Edit, Sighup, vars
<1> QED BY <1>1, <1>2, <1>3, <1>4, <1>5, <1>6

\* A session is evaluated under its own version until that version was evicted or
\* lost in a restart, and then under the live one.
THEOREM DriftNeedsEviction == Spec => []DriftOnlyAfterEviction
<1>1. Init => BindingInv
  <2> SUFFICES ASSUME Init PROVE BindingInv
    OBVIOUS
  <2>1. file \in ToSet(cache)
    BY OneVersion DEF Init
  <2> QED BY <2>1 DEF Init, BindingInv, Known
<1>2. BindingInv => DriftOnlyAfterEviction
  BY DEF BindingInv, DriftOnlyAfterEviction
<1> QED BY <1>1, <1>2, CacheInit, CacheStep, BindingStep, PTL DEF Spec
==============================================================================
