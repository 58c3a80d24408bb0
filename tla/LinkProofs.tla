----------------------------- MODULE LinkProofs -----------------------------
(***************************************************************************)
(* The bot's two links, and the nick it has on one of them.                *)
(*                                                                         *)
(* The IRC link (IrcLink): the holds of refusing servers stay with their   *)
(* entries and no held entry is dialled, for every list of servers (with   *)
(* names in it twice, too), all limits, timeouts and refusals and any      *)
(* number of commands.  Holds and the link's slot are kept by position.    *)
(* The invariant says that slot and linkTo are the same entry or none,     *)
(* that each position has the hold its entry earned, and that its strikes  *)
(* make the next hold the one that doubling makes.                         *)
(*                                                                         *)
(* The nick (Nick): the bot knows the nick the server has for it, for any  *)
(* nicks, refusals, renames and any number of lines that cross.            *)
(*                                                                         *)
(* The hub link (HubLink): the bot is authenticated only with a listed hub *)
(* whose pinned key verified the challenge of this very link, and the hub  *)
(* keeps, or is about to get, the key the bot signs with: for every set of *)
(* hubs, all delays and any number of keys, links, changes of the hub list *)
(* and restarts.                                                           *)
(***************************************************************************)
EXTENDS IrcLink, SequenceTheorems, FiniteSetTheorems, FunctionTheorems, WellFoundedInduction, TLAPS

\* No entry twice.
Distinct(l) == \A i, j \in 1..Len(l) : l[i] = l[j] => i = j

\* The hold that the next refusal of each kind makes after n strikes.
Strike(n) == Smaller(n + 1, MaxStrikes)
Nexts(n) == [throttled |-> refusal_backoff(ThrottleBackoff, Strike(n), ThrottleMax),
             banned |-> refusal_backoff(BanBackoff, Strike(n), BanMax),
             temp |-> refusal_backoff(ThrottleBackoff, Strike(n), BanMax)]

\* A hold of the code and one that an entry has earned that say the same.
Same(x, w) == /\ x.strikes \in Nat /\ x.strikes <= MaxStrikes
              /\ x = [kind |-> x.kind, left |-> x.left, strikes |-> x.strikes]
              /\ w = [kind |-> x.kind, left |-> x.left, next |-> Nexts(x.strikes)]

\* A table of holds by slot and one by entry that say the same.
Agree(b, o) == /\ b = [i \in 1..MAX_SERVERS |-> b[i]] /\ o = [e \in Entry |-> o[e]]
               /\ \A i \in 1..Len(entry) : Same(b[i], o[entry[i]])

Shape == /\ server_list \in Seq(Server) /\ Len(server_list) <= MAX_SERVERS
         /\ entry \in Seq(Entry) /\ Len(entry) = Len(server_list)
         /\ cursor \in Nat \ {0} /\ sinceAttempt \in 0..MinInterval

\* The link's slot is the position of the entry it is to.
SlotIsLink == \/ slot = 0 /\ linkTo = 0
              \/ slot \in 1..Len(entry) /\ linkTo = entry[slot]

IInv == Shape /\ Distinct(entry) /\ SlotIsLink /\ Agree(blocks, owed)

---------------------------------------------------------------------------
LEMMA Sizes == MAX_SERVERS \in Nat \ {0} /\ MinInterval \in Nat \ {0}
BY IrcLinkAssumption DEF IrcLinkAssumption
\* A set with one element more has twice as many subsets.
LEMMA Powers ==
    ASSUME NEW n \in Nat
    PROVE  2 ^ n \in Nat /\ 2 ^ (n + 1) = 2 * 2 ^ n
<1> DEFINE S == 1..n
           T == 1..n + 1
           new == T \ S
           A == SUBSET S
           B == {U \cup {n + 1} : U \in A}
<1>1. IsFiniteSet(S) /\ Cardinality(S) = n /\ IsFiniteSet(T) /\ Cardinality(T) = n + 1
  BY FS_Interval
<1>2. /\ IsFiniteSet(A) /\ Cardinality(A) = 2 ^ n
      /\ IsFiniteSet(SUBSET T) /\ Cardinality(SUBSET T) = 2 ^ (n + 1)
  <2> HIDE DEF S, T
  <2> QED BY <1>1, FS_SUBSET
<1>3. 2 ^ n \in Nat
  BY <1>2, FS_CardinalityType
<1>4. n + 1 \notin S /\ T = S \cup {n + 1}
  OBVIOUS
<1>5. SUBSET T = A \cup B
  <2> HIDE DEF S, T
  <2>1. ASSUME NEW U \in SUBSET T PROVE U \in A \cup B
    <3>1. CASE n + 1 \in U
      <4>1. U = (U \ {n + 1}) \cup {n + 1} /\ U \ {n + 1} \in A
        BY <1>4, <3>1
      <4> QED BY <4>1
    <3>2. CASE n + 1 \notin U
      BY <1>4, <3>2
    <3> QED BY <3>1, <3>2
  <2>2. A \cup B \subseteq SUBSET T
    BY <1>4
  <2> QED BY <2>1, <2>2
<1>6. A \cap B = {}
  <2> HIDE DEF S, T
  <2> QED BY <1>4
<1>7. ExistsBijection(A, B)
  <2> HIDE DEF S, T
  <2> DEFINE f == [U \in A |-> U \cup {n + 1}]
  <2>1. f \in [A -> B]
    OBVIOUS
  <2>2. \A U, V \in A : f[U] = f[V] => U = V
    <3> SUFFICES ASSUME NEW U \in A, NEW V \in A, U \cup {n + 1} = V \cup {n + 1} PROVE U = V
      OBVIOUS
    <3>1. n + 1 \notin U /\ n + 1 \notin V
      BY <1>4
    <3> QED BY <3>1
  <2>3. \A W \in B : \E U \in A : f[U] = W
    OBVIOUS
  <2> HIDE DEF f, A, B
  <2>4. f \in Injection(A, B) /\ f \in Surjection(A, B)
    BY <2>1, <2>2, <2>3, Fun_IsInj, Fun_IsSurj
  <2> QED BY <2>4 DEF Bijection, ExistsBijection
<1> HIDE DEF S, T, A, B
<1>8. IsFiniteSet(B) /\ Cardinality(B) = 2 ^ n
  BY <1>2, <1>7, FS_Bijection
<1>9. Cardinality({}) = 0
  BY FS_EmptySet
<1>10. Cardinality(A \cup B) = Cardinality(A) + Cardinality(B) - Cardinality({})
  BY <1>2, <1>6, <1>8, FS_Union
<1>11. Cardinality(A \cup B) = 2 ^ (n + 1)
  BY <1>2, <1>5
<1> DEFINE p == 2 ^ n
           q == 2 ^ (n + 1)
<1>12. p \in Nat /\ q = p + p - 0
  BY <1>2, <1>3, <1>8, <1>9, <1>10, <1>11
<1> HIDE DEF p, q
<1>13. p \in Nat /\ q = 2 * p
  BY <1>12
<1> QED BY <1>13 DEF p, q

LEMMA PowerZero == 2 ^ 0 = 1
<1>1. IsFiniteSet({}) /\ Cardinality({}) = 0
  BY FS_EmptySet
<1>2. Cardinality(SUBSET {}) = 2 ^ 0
  BY <1>1, FS_SUBSET
<1>3. SUBSET {} = {{}}
  OBVIOUS
<1>4. Cardinality({{}}) = 1
  BY FS_Singleton
<1> QED BY <1>2, <1>3, <1>4

---------------------------------------------------------------------------
\* The doubling of refusal_backoff.

\* From the second strike on the hold is twice the one before, up to the cap.
LEMMA Doubling ==
    ASSUME NEW base \in Nat, NEW cap \in Nat, NEW n \in Nat \ {0}
    PROVE  /\ refusal_backoff(base, n, cap) \in Nat
           /\ refusal_backoff(base, n + 1, cap) = Smaller(2 * refusal_backoff(base, n, cap), cap)
<1> DEFINE p == 2 ^ (n - 1)
           q == 2 ^ n
<1>1. p \in Nat /\ q = 2 * p
  <2>1. n - 1 \in Nat /\ (n - 1) + 1 = n
    OBVIOUS
  <2> QED BY <2>1, Powers
<1>2. /\ refusal_backoff(base, n, cap) = Smaller(base * p, cap)
      /\ refusal_backoff(base, n + 1, cap) = Smaller(base * q, cap)
  <2>1. Larger(n, 1) - 1 = n - 1 /\ Larger(n + 1, 1) - 1 = n
    BY DEF Larger
  <2> QED BY <2>1 DEF refusal_backoff
<1> HIDE DEF p, q
<1> DEFINE r == base * p
<1>3. r \in Nat /\ base * q = 2 * r
  <2>1. base * (2 * p) = 2 * (base * p)
    BY <1>1
  <2> QED BY <1>1, <2>1
<1> HIDE DEF r
<1>4. Smaller(r, cap) \in Nat /\ Smaller(2 * r, cap) = Smaller(2 * Smaller(r, cap), cap)
  BY <1>3 DEF Smaller
<1> QED BY <1>2, <1>3, <1>4 DEF r

\* One strike more doubles the next hold, and the count stops where doubling does.
LEMMA NextDoubles ==
    ASSUME NEW base \in Nat, NEW cap \in Nat, NEW n \in Nat, NEW m \in Nat \ {0},
           base * 2 ^ (m - 1) >= cap
    PROVE  refusal_backoff(base, Smaller(Smaller(n + 1, m) + 1, m), cap)
             = Smaller(2 * refusal_backoff(base, Smaller(n + 1, m), cap), cap)
<1>1. CASE n + 1 < m
  <2>1. Smaller(n + 1, m) = n + 1 /\ Smaller(n + 1 + 1, m) = n + 1 + 1 /\ n + 1 \in Nat \ {0}
    BY <1>1 DEF Smaller
  <2> QED BY <2>1, Doubling
<1>2. CASE ~(n + 1 < m)
  <2>1. Smaller(n + 1, m) = m /\ Smaller(m + 1, m) = m
    BY <1>2 DEF Smaller
  <2>2. refusal_backoff(base, m, cap) = cap
    <3>1. Larger(m, 1) - 1 = m - 1
      BY DEF Larger
    <3> DEFINE p == 2 ^ (m - 1)
    <3>2. p \in Nat /\ base * p >= cap
      <4>1. m - 1 \in Nat
        OBVIOUS
      <4> QED BY <4>1, Powers
    <3>3. refusal_backoff(base, m, cap) = Smaller(base * p, cap)
      BY <3>1 DEF refusal_backoff
    <3> HIDE DEF p
    <3> QED BY <3>2, <3>3 DEF Smaller
  <2>3. Smaller(2 * cap, cap) = cap
    BY DEF Smaller
  <2> QED BY <2>1, <2>2, <2>3
<1> QED BY <1>1, <1>2

LEMMA Limits == /\ ThrottleBackoff \in Nat \ {0} /\ BanBackoff \in Nat \ {0} /\ MaxStrikes \in Nat \ {0}
                /\ ThrottleMax \in Nat \ {0} /\ BanMax \in Nat \ {0} /\ Stated \in Nat \ {0}
                /\ ThrottleBackoff * 2 ^ (MaxStrikes - 1) >= ThrottleMax
                /\ ThrottleBackoff * 2 ^ (MaxStrikes - 1) >= BanMax
                /\ BanBackoff * 2 ^ (MaxStrikes - 1) >= BanMax
<1>1. /\ ThrottleBackoff \in Nat \ {0} /\ BanBackoff \in Nat \ {0} /\ MaxStrikes \in Nat \ {0}
      /\ ThrottleMax \in Nat \ {0} /\ BanMax \in Nat \ {0} /\ Stated \in Nat \ {0}
  BY IrcLinkAssumption DEF IrcLinkAssumption
<1> DEFINE p == 2 ^ (MaxStrikes - 1)
<1>2. p \in Nat
  <2>1. MaxStrikes - 1 \in Nat
    BY <1>1
  <2> QED BY <2>1, Powers
<1>3. ThrottleBackoff * p >= Larger(ThrottleMax, BanMax) /\ BanBackoff * p >= BanMax
  BY IrcLinkAssumption DEF IrcLinkAssumption
<1> HIDE DEF p
<1>4. ThrottleBackoff * p >= ThrottleMax /\ ThrottleBackoff * p >= BanMax
  <2>1. ThrottleBackoff * p \in Nat
    BY <1>1, <1>2
  <2> DEFINE r == ThrottleBackoff * p
  <2>2. r \in Nat /\ r >= Larger(ThrottleMax, BanMax)
    BY <1>3, <2>1
  <2> HIDE DEF r
  <2>3. r >= ThrottleMax /\ r >= BanMax
    BY <1>1, <2>2 DEF Larger
  <2> QED BY <2>3 DEF r
<1> QED BY <1>1, <1>3, <1>4 DEF p

LEMMA NextsDouble ==
    ASSUME NEW n \in Nat
    PROVE  Nexts(Strike(n)) = Doubled(Nexts(n)) /\ Strike(n) \in Nat /\ Strike(n) <= MaxStrikes
<1>1. Strike(n) \in Nat /\ Strike(n) <= MaxStrikes
  BY Limits DEF Strike, Smaller
<1> DEFINE Next1(base, cap) == refusal_backoff(base, Strike(Strike(n)), cap)
                                 = Smaller(2 * refusal_backoff(base, Strike(n), cap), cap)
<1>2. Next1(ThrottleBackoff, ThrottleMax) /\ Next1(BanBackoff, BanMax) /\ Next1(ThrottleBackoff, BanMax)
  BY Limits, NextDoubles DEF Strike
<1> QED BY <1>1, <1>2 DEF Nexts, Doubled

\* No strikes, nothing owed.
LEMMA Fresh == Same(NoBlock, NothingOwed)
<1>1. Strike(0) = 1
  BY Limits DEF Strike, Smaller
<1>2. ASSUME NEW base \in Nat, NEW cap \in Nat PROVE refusal_backoff(base, 1, cap) = Smaller(base, cap)
  <2>1. Larger(1, 1) - 1 = 0
    BY DEF Larger
  <2>2. base * 2 ^ 0 = base
    BY PowerZero
  <2> QED BY <2>1, <2>2 DEF refusal_backoff
<1>3. Nexts(0) = NextHolds
  BY <1>1, <1>2, Limits DEF Nexts, NextHolds
<1> QED BY <1>3, Limits DEF Same, NoBlock, NothingOwed

LEMMA StrikesAgree ==
    ASSUME NEW x, NEW w, Same(x, w), NEW k
    PROVE  Same(Struck(x, k), Refusing(w, k))
<1> DEFINE n == x.strikes
<1>1. /\ n \in Nat /\ w.next = Nexts(n)
      /\ Nexts(Strike(n)) = Doubled(Nexts(n)) /\ Strike(n) \in Nat /\ Strike(n) <= MaxStrikes
  BY NextsDouble DEF Same
<1>2. Struck(x, k) = [kind |-> k, left |-> HoldFor(k, Strike(n)), strikes |-> Strike(n)]
  BY DEF Struck, Strike
<1>3. HoldFor(k, Strike(n)) = CASE k = "throttled" -> w.next.throttled
                                [] k = "banned" -> w.next.banned
                                [] k = "temp" -> Larger(Stated, w.next.temp)
                                [] OTHER -> 0
  BY <1>1 DEF HoldFor, Nexts
<1>4. Refusing(w, k) = [kind |-> k, left |-> HoldFor(k, Strike(n)), next |-> Nexts(Strike(n))]
  BY <1>1, <1>3 DEF Refusing
<1> QED BY <1>1, <1>2, <1>4 DEF Same

LEMMA SecondAgrees ==
    ASSUME NEW x, NEW w, Same(x, w)
    PROVE  Same(LessHeld(x), LessHeld(w))
BY DEF Same, LessHeld

\* Either hold is over when the other is.
LEMMA SameHeld == ASSUME NEW x, NEW w, Same(x, w) PROVE Holds(x) <=> Holds(w)
BY DEF Same, Holds

\* A set of numbers has a least one.
LEMMA NatLeast == ASSUME NEW T \in SUBSET Nat, T # {}
                  PROVE  \E x \in T : \A y \in T : x <= y
<1> DEFINE R == {p \in Nat \X Nat : p[1] < p[2]}
<1>1. IsWellFoundedOn(R, Nat)
  BY NatLessThanWellFounded, Zenon DEF OpToRel
<1> HIDE DEF R
<1>2. PICK x \in T : \A y \in T : ~(<<y, x>> \in R)
  BY <1>1, WFMin
<1>3. ASSUME NEW y \in T PROVE x <= y
  <2>1. <<y, x>> \in Nat \X Nat /\ <<y, x>>[1] = y /\ <<y, x>>[2] = x
    OBVIOUS
  <2>2. ~(<<y, x>>[1] < <<y, x>>[2])
    BY <1>2, <2>1 DEF R
  <2> QED BY <2>1, <2>2
<1> QED BY <1>3

LEMMA Least == ASSUME NEW T \in SUBSET Nat, T # {}
               PROVE  Min(T) \in T
BY NatLeast DEF Min
LEMMA Removed ==
    ASSUME NEW S, NEW l \in Seq(S), NEW i \in 1..Len(l)
    PROVE  /\ RemoveAt(l, i) \in Seq(S)
           /\ Len(RemoveAt(l, i)) = Len(l) - 1
           /\ \A k \in 1..Len(l) - 1 : RemoveAt(l, i)[k] = IF k < i THEN l[k] ELSE l[k + 1]
<1> DEFINE a == SubSeq(l, 1, i - 1)
           c == SubSeq(l, i + 1, Len(l))
<1>0. Len(l) \in Nat /\ \A k \in 1..Len(l) : l[k] \in S
  BY LenProperties, ElementOfSeq
<1>1. a \in Seq(S) /\ Len(a) = i - 1 /\ \A k \in 1..i - 1 : a[k] = l[k]
  <2>1. \A k \in 1..i - 1 : l[k] \in S
    BY <1>0
  <2>2. Len(a) = IF 1 <= i - 1 THEN i - 1 - 1 + 1 ELSE 0
    BY <1>0, <2>1, SubSeqProperties
  <2>3. \A k \in 1..(i - 1) - 1 + 1 : a[k] = l[1 + k - 1]
    BY <1>0, <2>1, SubSeqProperties
  <2>4. a \in Seq(S)
    BY <1>0, <2>1, SubSeqProperties
  <2> HIDE DEF a
  <2> QED BY <1>0, <2>2, <2>3, <2>4
<1>2. c \in Seq(S) /\ Len(c) = Len(l) - i /\ \A k \in 1..Len(l) - i : c[k] = l[i + k]
  <2>1. \A k \in i + 1..Len(l) : l[k] \in S
    BY <1>0
  <2>2. Len(c) = IF i + 1 <= Len(l) THEN Len(l) - (i + 1) + 1 ELSE 0
    BY <1>0, <2>1, SubSeqProperties
  <2>3. \A k \in 1..Len(l) - (i + 1) + 1 : c[k] = l[(i + 1) + k - 1]
    BY <1>0, <2>1, SubSeqProperties
  <2>4. c \in Seq(S)
    BY <1>0, <2>1, SubSeqProperties
  <2> HIDE DEF c
  <2> QED BY <1>0, <2>2, <2>3, <2>4
<1>3. RemoveAt(l, i) = a \o c
  BY DEF RemoveAt
<1> HIDE DEF a, c
<1>4. /\ a \o c \in Seq(S) /\ Len(a \o c) = Len(a) + Len(c)
      /\ \A k \in 1..Len(a) + Len(c) : (a \o c)[k] = IF k <= Len(a) THEN a[k] ELSE c[k - Len(a)]
  BY <1>1, <1>2, ConcatProperties
<1>5. Len(a) + Len(c) = Len(l) - 1 /\ a \o c \in Seq(S) /\ Len(a \o c) = Len(l) - 1
  BY <1>0, <1>1, <1>2, <1>4
<1>6. ASSUME NEW k \in 1..Len(l) - 1
      PROVE  (a \o c)[k] = IF k < i THEN l[k] ELSE l[k + 1]
  <2>1. CASE k < i
    <3>1. k \in 1..i - 1 /\ k <= Len(a) /\ k \in 1..Len(a) + Len(c)
      BY <1>0, <1>1, <1>5, <2>1
    <3>2. (a \o c)[k] = a[k]
      BY <1>4, <3>1
    <3> QED BY <1>1, <2>1, <3>1, <3>2
  <2>2. CASE ~(k < i)
    <3>1. k - (i - 1) \in 1..Len(l) - i /\ ~(k <= i - 1) /\ k \in 1..Len(a) + Len(c)
      BY <1>0, <1>5, <2>2
    <3>2. (a \o c)[k] = c[k - (i - 1)]
      BY <1>1, <1>4, <3>1
    <3>3. c[k - (i - 1)] = l[i + (k - (i - 1))]
      BY <1>2, <3>1
    <3>4. i + (k - (i - 1)) = k + 1
      BY <1>0
    <3> QED BY <2>2, <3>2, <3>3, <3>4
  <2> QED BY <2>1, <2>2
<1> QED BY <1>3, <1>5, <1>6
---------------------------------------------------------------------------
LEMMA Listed == ASSUME Shape
                PROVE  /\ Len(server_list) \in Nat /\ 1..Len(server_list) \subseteq 1..MAX_SERVERS
                       /\ Len(entry) = Len(server_list)
                       /\ \A i \in 1..Len(server_list) : server_list[i] \in Server
                       /\ \A i \in 1..Len(entry) : entry[i] \in 1..MAX_SERVERS
BY Sizes, LenProperties, ElementOfSeq DEF Shape, Entry

\* The first entry of a listed name.
LEMMA Placed == ASSUME Shape, NEW s, s \in Range(server_list)
                PROVE  Position(s) \in 1..Len(server_list)
<1> DEFINE T == {i \in 1..Len(server_list) : server_list[i] = s}
<1>1. T \in SUBSET Nat /\ T # {}
  <2>1. DOMAIN server_list = 1..Len(server_list)
    BY LenProperties DEF Shape
  <2> QED BY <2>1, Listed DEF Range
<1>2. Min(T) \in T
  <2> HIDE DEF T
  <2> QED BY <1>1, Least
<1> QED BY <1>2 DEF Position

\* Changing the hold of one entry in both tables keeps them alike.
LEMMA BothChanged ==
    ASSUME Shape, Distinct(entry), NEW b, NEW o, Agree(b, o),
           NEW i \in 1..Len(entry), NEW x, NEW w, Same(x, w)
    PROVE  Agree([b EXCEPT ![i] = x], [o EXCEPT ![entry[i]] = w])
<1> DEFINE bb == [b EXCEPT ![i] = x]
           oo == [o EXCEPT ![entry[i]] = w]
<1>1. i \in 1..MAX_SERVERS /\ entry[i] \in 1..MAX_SERVERS
  BY Listed
<1>2. \A k \in 1..MAX_SERVERS : bb[k] = IF k = i THEN x ELSE b[k]
  BY DEF Agree
<1>3. \A e \in Entry : oo[e] = IF e = entry[i] THEN w ELSE o[e]
  BY DEF Agree
<1>4. bb = [k \in 1..MAX_SERVERS |-> bb[k]]
  BY DEF Agree
<1>5. oo = [e \in Entry |-> oo[e]]
  BY DEF Agree
<1> HIDE DEF bb, oo
<1>6. ASSUME NEW k \in 1..Len(entry) PROVE Same(bb[k], oo[entry[k]])
  <2>1. entry[k] = entry[i] <=> k = i
    BY DEF Distinct
  <2>2. k \in 1..MAX_SERVERS /\ entry[k] \in Entry /\ Same(b[k], o[entry[k]])
    BY Listed DEF Agree, Entry
  <2> QED BY <1>2, <1>3, <2>1, <2>2
<1>7. Agree(bb, oo)
  BY <1>4, <1>5, <1>6 DEF Agree
<1> QED BY <1>7 DEF bb, oo

\* disconnect strikes the entry of the link in both tables, or neither.
LEMMA LinkDownAgrees ==
    ASSUME Shape, Distinct(entry), SlotIsLink, NEW b, NEW o, Agree(b, o),
           LinkDown(b, o), entry' = entry
    PROVE  Agree(blocks, owed)'
<1>1. blocks' = apply_refusal(b) /\ owed' = ApplyByEntry(o)
  BY DEF LinkDown
<1>2. CASE Kind # "none" /\ slot # 0
  <2>1. slot \in 1..Len(entry) /\ linkTo = entry[slot] /\ linkTo # 0 /\ slot \in 1..Len(server_list)
    BY <1>2, Sizes, Listed DEF SlotIsLink
  <2>2. Same(b[slot], o[linkTo])
    BY <2>1 DEF Agree
  <2>3. /\ blocks' = [b EXCEPT ![slot] = Struck(b[slot], Kind)]
        /\ owed' = [o EXCEPT ![linkTo] = Refusing(o[linkTo], Kind)]
    BY <1>1, <1>2, <2>1 DEF apply_refusal, ApplyByEntry
  <2>4. Same(Struck(b[slot], Kind), Refusing(o[linkTo], Kind))
    BY <2>2, StrikesAgree
  <2>5. Agree(blocks', owed')
    BY <2>1, <2>3, <2>4, BothChanged
  <2> QED BY <2>5 DEF Agree
<1>3. CASE ~(Kind # "none" /\ slot # 0)
  <2>1. Kind = "none" \/ (slot \notin 1..Len(server_list) /\ linkTo = 0)
    BY <1>3, Listed DEF SlotIsLink
  <2>2. blocks' = b /\ owed' = o
    BY <1>1, <2>1 DEF apply_refusal, ApplyByEntry
  <2> QED BY <2>2 DEF Agree
<1> QED BY <1>2, <1>3

\* pick_server finds a listed server that is not held.
LEMMA Picked ==
    ASSUME Shape, pick_server # 0
    PROVE  pick_server \in 1..Len(server_list) /\ FreeSlot(pick_server)
<1> DEFINE n == Len(server_list)
           free == {k \in 1..n : FreeSlot(Rotation[k])}
<1>1. n \in Nat
  BY Listed
<1>2. pick_server = IF free = {} THEN 0 ELSE Rotation[Min(free)]
  BY DEF pick_server
<1>3. free # {} /\ Min(free) \in free
  <2>1. free # {} /\ free \in SUBSET Nat
    BY <1>1, <1>2
  <2> HIDE DEF free
  <2> QED BY <2>1, Least
<1>4. \A k \in 1..n : Rotation[k] \in 1..n
  <2> DEFINE start == IF cursor <= n THEN cursor ELSE 1
  <2>1. start \in Nat \ {0}
    BY DEF Shape
  <2>2. Rotation = [k \in 1..n |-> ((start + k - 2) % n) + 1]
    BY DEF Rotation
  <2> HIDE DEF start, n
  <2> QED BY <1>1, <2>1, <2>2
<1> QED BY <1>2, <1>3, <1>4

\* A list that is not full leaves an entry unused.
LEMMA Unused == ASSUME Shape, Len(server_list) < MAX_SERVERS
                PROVE  /\ Min(Entry \ Range(entry)) \in Entry
                       /\ \A i \in 1..Len(entry) : entry[i] # Min(Entry \ Range(entry))
<1> DEFINE n == Len(entry)
           R == Range(entry)
<1>1. n \in Nat /\ n < MAX_SERVERS /\ entry \in [1..n -> Entry] /\ DOMAIN entry = 1..n
  BY LenProperties DEF Shape
<1>2. R \subseteq Entry /\ \A i \in 1..n : entry[i] \in R
  BY <1>1 DEF Range
<1>3. Cardinality(R) <= n
  <2>1. entry \in [1..n -> R]
    BY <1>1, <1>2
  <2>2. \A e \in R : \E i \in 1..n : entry[i] = e
    BY <1>1 DEF Range
  <2> HIDE DEF R, n
  <2>3. entry \in Surjection(1..n, R)
    BY <2>1, <2>2, Fun_IsSurj
  <2>4. ExistsSurjection(1..n, R)
    BY <2>3 DEF ExistsSurjection
  <2>5. n \in Nat
    BY <1>1
  <2> QED BY <2>4, <2>5, FS_SurjCardinalityBound, Zenon
<1>4. Cardinality(Entry) = MAX_SERVERS
  BY Sizes, FS_Interval DEF Entry
<1>5. R # Entry
  BY <1>1, <1>3, <1>4, Sizes
<1>6. (Entry \ R) \in SUBSET Nat /\ (Entry \ R) # {}
  <2>1. Entry \in SUBSET Nat
    BY Sizes DEF Entry
  <2> HIDE DEF R
  <2> QED BY <1>2, <1>5, <2>1
<1>7. Min(Entry \ R) \in Entry \ R
  <2> HIDE DEF R
  <2> QED BY <1>6, Least
<1> QED BY <1>2, <1>7

---------------------------------------------------------------------------
LEMMA InitIInv == Init => IInv
<1> SUFFICES ASSUME Init PROVE IInv
  OBVIOUS
<1> DEFINE n == Len(InitList)
<1>1. InitList \in Seq(Server) /\ n <= MAX_SERVERS /\ n \in Nat
  BY IrcLinkAssumption, LenProperties DEF IrcLinkAssumption
<1>2. entry = [i \in 1..n |-> i] /\ entry \in [1..n -> Entry]
  BY <1>1, Sizes DEF Init, Entry
<1>3. entry \in Seq(Entry) /\ Len(entry) = n
  <2> HIDE DEF n
  <2> QED BY <1>1, <1>2, SeqDef, LenProperties
<1>4. Shape
  BY <1>1, <1>3, Sizes DEF Init, Shape
<1>5. Distinct(entry)
  BY <1>2, <1>3 DEF Distinct
<1>6. \A i \in 1..n : entry[i] = i /\ i \in Entry /\ i \in 1..MAX_SERVERS
  BY <1>1, <1>2, Sizes DEF Entry
<1>7. Agree(blocks, owed)
  BY <1>3, <1>6, Fresh DEF Init, Agree
<1> QED BY <1>4, <1>5, <1>7 DEF Init, IInv, SlotIsLink

\* Steps that leave list, link and holds alone.
LEMMA Untouched ==
    ASSUME IInv, UNCHANGED <<server_list, entry, blocks, owed, slot, linkTo, cursor, sinceAttempt>>
    PROVE  IInv'
BY DEF IInv, Shape, Distinct, SlotIsLink, Agree

\* Steps that end the link, given tables that agree.
LEMMA DownKeeps ==
    ASSUME IInv, NEW b, NEW o, Agree(b, o), LinkDown(b, o),
           UNCHANGED <<server_list, entry, slot, linkTo, sinceAttempt>>, cursor' \in Nat \ {0}
    PROVE  IInv'
<1>1. Agree(blocks, owed)'
  BY LinkDownAgrees DEF IInv
<1> QED BY <1>1 DEF IInv, Shape, Distinct, SlotIsLink

\* Both holds of the link's entry are lifted.
LEMMA WelcomeKeeps == ASSUME IInv, Welcome PROVE IInv'
<1>1. Agree(blocks', owed')
  <2>1. CASE slot = 0
    <3>1. linkTo = 0 /\ slot \notin 1..Len(server_list)
      BY <2>1, Listed DEF IInv, SlotIsLink
    <3> QED BY <3>1 DEF Welcome, IInv
  <2>2. CASE slot # 0
    <3>1. slot \in 1..Len(entry) /\ linkTo = entry[slot] /\ linkTo # 0 /\ slot \in 1..Len(server_list)
      BY <2>2, Sizes, Listed DEF IInv, SlotIsLink
    <3>2. blocks' = [blocks EXCEPT ![slot] = NoBlock] /\ owed' = [owed EXCEPT ![entry[slot]] = NothingOwed]
      BY <3>1 DEF Welcome
    <3> QED BY <3>1, <3>2, Fresh, BothChanged DEF IInv
  <2> QED BY <2>1, <2>2
<1> QED BY <1>1 DEF Welcome, listVars, IInv, Shape, Distinct, SlotIsLink, Agree

LEMMA DialKeeps ==
    ASSUME IInv, NEW s \in Server, NEW ok \in BOOLEAN, Dial(s, ok)
    PROVE  /\ IInv'
           /\ ~Holds(owed[linkTo'])
<1>1. pick_server \in 1..Len(server_list) /\ FreeSlot(pick_server) /\ Len(entry) = Len(server_list)
  BY Picked, Listed DEF Dial, IInv
<1>2. slot' = pick_server /\ linkTo' = entry[pick_server] /\ cursor' = pick_server + 1
      /\ sinceAttempt' = 0 /\ UNCHANGED <<server_list, entry, blocks, owed>>
  BY DEF Dial
<1>3. cursor' \in Nat \ {0}
  BY <1>1, <1>2, Listed DEF IInv
<1>4. IInv'
  <2>1. Shape'
    BY <1>2, <1>3, Sizes DEF IInv, Shape
  <2>2. SlotIsLink'
    BY <1>1, <1>2 DEF SlotIsLink
  <2>3. Agree(blocks, owed)' /\ Distinct(entry')
    BY <1>2 DEF IInv, Agree, Distinct
  <2> QED BY <2>1, <2>2, <2>3 DEF IInv, Distinct
<1>5. Same(blocks[pick_server], owed[linkTo'])
  BY <1>1, <1>2 DEF IInv, Agree
<1> QED BY <1>1, <1>4, <1>5, SameHeld DEF FreeSlot

LEMMA JumpKeeps == ASSUME IInv, NEW s \in Server, Jump(s) PROVE IInv'
<1>1. PICK i \in 1..Len(server_list) :
         /\ cursor' = i
         /\ LinkDown([blocks EXCEPT ![i] = NoBlock], [owed EXCEPT ![entry[i]] = NothingOwed])
  BY Placed DEF Jump, IInv
<1>2. Agree([blocks EXCEPT ![i] = NoBlock], [owed EXCEPT ![entry[i]] = NothingOwed])
  <2>1. i \in 1..Len(entry)
    BY <1>1, Listed DEF IInv
  <2> QED BY <2>1, Fresh, BothChanged DEF IInv
<1>3. cursor' \in Nat \ {0}
  BY <1>1, Listed DEF IInv
<1> QED BY <1>1, <1>2, <1>3, DownKeeps DEF Jump, timeVars

LEMMA AddKeeps == ASSUME IInv, NEW s \in Server, AddServer(s) PROVE IInv'
<1> DEFINE n == Len(server_list)
           e == Min(Entry \ Range(entry))
<1>0. /\ server_list \in Seq(Server) /\ n \in Nat /\ n < MAX_SERVERS
      /\ entry \in Seq(Entry) /\ Len(entry) = n
      /\ \A i \in 1..n : entry[i] # e /\ entry[i] \in Entry
      /\ e \in Entry
  BY Listed, Unused DEF IInv, Shape, AddServer, Entry
<1>a. /\ server_list' = Append(server_list, s) /\ entry' = Append(entry, e)
      /\ blocks' = [blocks EXCEPT ![n + 1] = NoBlock] /\ owed' = [owed EXCEPT ![e] = NothingOwed]
  BY DEF AddServer
<1> HIDE DEF n, e
<1>1. /\ server_list' \in Seq(Server) /\ Len(server_list') = n + 1
      /\ entry' \in Seq(Entry) /\ Len(entry') = n + 1
      /\ \A i \in 1..n : entry'[i] = entry[i]
      /\ entry'[n + 1] = e
  BY <1>0, <1>a, AppendProperties DEF n
<1>3. n + 1 \in 1..MAX_SERVERS
  BY <1>0, Sizes
<1>4. UNCHANGED <<cursor, slot, linkTo, sinceAttempt>>
  BY DEF AddServer, timeVars
<1>5. Distinct(entry')
  BY <1>0, <1>1, SMTT(30), ZenonT(30) DEF IInv, Distinct
<1>6. SlotIsLink'
  BY <1>0, <1>1, <1>4 DEF IInv, SlotIsLink
<1>7. Shape'
  BY <1>0, <1>1, <1>4, Sizes DEF IInv, Shape
<1>8. \A i \in 1..MAX_SERVERS : blocks'[i] = IF i = n + 1 THEN NoBlock ELSE blocks[i]
  BY <1>a DEF IInv, Agree
<1>9. \A x \in Entry : owed'[x] = IF x = e THEN NothingOwed ELSE owed[x]
  BY <1>a DEF IInv, Agree
<1>10. ASSUME NEW i \in 1..n + 1 PROVE Same(blocks'[i], owed'[entry'[i]])
  <2>1. CASE i = n + 1
    BY <2>1, <1>0, <1>1, <1>3, <1>8, <1>9, Fresh
  <2>2. CASE i \in 1..n
    <3>1. i \in 1..MAX_SERVERS /\ i # n + 1
      BY <2>2, <1>0, Sizes
    <3>2. Same(blocks[i], owed[entry[i]])
      BY <2>2, <1>0 DEF IInv, Agree
    <3>3. blocks'[i] = blocks[i] /\ owed'[entry'[i]] = owed[entry[i]]
      BY <2>2, <3>1, <1>0, <1>1, <1>8, <1>9
    <3> QED BY <3>2, <3>3
  <2> QED BY <1>0, <2>1, <2>2
<1>11. /\ blocks' = [i \in 1..MAX_SERVERS |-> blocks'[i]]
       /\ owed' = [x \in Entry |-> owed'[x]]
  BY <1>a DEF IInv, Agree
<1>12. Agree(blocks, owed)'
  BY <1>1, <1>10, <1>11 DEF Agree
<1> QED BY <1>5, <1>6, <1>7, <1>12 DEF IInv, Distinct

\* The blocks and the slot move up with the servers behind the removed one.
LEMMA DelKeeps == ASSUME IInv, NEW s \in Server, DelServer(s) PROVE IInv'
<1> DEFINE n == Len(server_list)
<1>1. PICK i \in 1..n : /\ server_list' = RemoveAt(server_list, i) /\ entry' = RemoveAt(entry, i)
                        /\ blocks' = ShiftBlocks(i) /\ slot' = Renumber(i)
                        /\ owed' = [owed EXCEPT ![entry[i]] = NothingOwed]
                        /\ linkTo' = IF linkTo = entry[i] THEN 0 ELSE linkTo
  BY Placed DEF DelServer, IInv
<1>2. /\ server_list \in Seq(Server) /\ n \in Nat /\ n <= MAX_SERVERS
      /\ entry \in Seq(Entry) /\ Len(entry) = n
      /\ \A k \in 1..n : entry[k] \in Entry /\ entry[k] # 0
  BY Listed, Sizes DEF IInv, Shape, Entry
<1>3. /\ server_list' \in Seq(Server) /\ Len(server_list') = n - 1
      /\ entry' \in Seq(Entry) /\ Len(entry') = n - 1
      /\ \A k \in 1..n - 1 : entry'[k] = IF k < i THEN entry[k] ELSE entry[k + 1]
  BY <1>1, <1>2, Removed, SMTT(30), ZenonT(30)
<1>4. UNCHANGED <<cursor, sinceAttempt>>
  BY DEF DelServer, timeVars
<1> HIDE DEF n
<1>5. \A j, k \in 1..n : entry[j] = entry[k] => j = k
  BY <1>2 DEF IInv, Distinct
<1>6. \/ slot = 0 /\ linkTo = 0
      \/ slot \in 1..n /\ linkTo = entry[slot]
  BY <1>2 DEF IInv, SlotIsLink
<1>7. \A k \in 1..n : Same(blocks[k], owed[entry[k]])
  BY <1>2 DEF IInv, Agree
<1>8. Shape'
  BY <1>2, <1>3, <1>4, Sizes DEF IInv, Shape
<1>9. Distinct(entry')
  <2> SUFFICES ASSUME NEW j \in 1..n - 1, NEW k \in 1..n - 1, entry'[j] = entry'[k]
               PROVE  j = k
    BY <1>3 DEF Distinct
  <2> DEFINE up(x) == IF x < i THEN x ELSE x + 1
  <2>1. up(j) \in 1..n /\ up(k) \in 1..n
    BY <1>2
  <2>2. entry'[j] = entry[up(j)] /\ entry'[k] = entry[up(k)]
    BY <1>3
  <2>3. up(j) = up(k)
    BY <1>5, <2>1, <2>2
  <2> QED BY <1>2, <2>3
<1>10. SlotIsLink'
  <2>1. CASE slot = 0
    <3>1. slot' = 0 /\ linkTo' = 0
      BY <1>1, <1>2, <1>6, <2>1 DEF Renumber
    <3> QED BY <3>1 DEF SlotIsLink
  <2>2. CASE slot = i
    <3>1. slot' = 0 /\ linkTo' = 0
      BY <1>1, <1>2, <1>6, <2>2 DEF Renumber
    <3> QED BY <3>1 DEF SlotIsLink
  <2>3. CASE slot # 0 /\ slot # i
    <3>1. slot \in 1..n /\ linkTo = entry[slot]
      BY <1>6, <2>3
    <3>2. linkTo' = linkTo
      BY <1>1, <1>5, <2>3, <3>1
    <3>3. slot' = IF slot > i THEN slot - 1 ELSE slot
      BY <1>1, <2>3 DEF Renumber
    <3>4. slot' \in 1..n - 1 /\ entry'[slot'] = entry[slot]
      BY <1>2, <1>3, <2>3, <3>1, <3>3
    <3> QED BY <1>3, <3>1, <3>2, <3>4 DEF SlotIsLink
  <2> QED BY <2>1, <2>2, <2>3
<1>11. \A x \in Entry : owed'[x] = IF x = entry[i] THEN NothingOwed ELSE owed[x]
  BY <1>1 DEF IInv, Agree
<1>12. ASSUME NEW k \in 1..n - 1 PROVE Same(blocks'[k], owed'[entry'[k]])
  <2> DEFINE u == IF k < i THEN k ELSE k + 1
  <2>1. k \in 1..MAX_SERVERS /\ k < MAX_SERVERS /\ u \in 1..n /\ u # i
    BY <1>2, Sizes
  <2>2. blocks'[k] = blocks[u]
    BY <1>1, <2>1 DEF ShiftBlocks
  <2>3. entry'[k] = entry[u]
    BY <1>3
  <2> HIDE DEF u
  <2>4. entry[u] # entry[i] /\ entry[u] \in Entry
    BY <1>2, <1>5, <2>1
  <2>5. owed'[entry'[k]] = owed[entry[u]]
    BY <1>11, <2>3, <2>4
  <2> QED BY <1>7, <2>1, <2>2, <2>5
<1>13. /\ blocks' = [k \in 1..MAX_SERVERS |-> blocks'[k]]
       /\ owed' = [x \in Entry |-> owed'[x]]
  BY <1>1 DEF IInv, Agree, ShiftBlocks
<1>14. Agree(blocks, owed)'
  BY <1>3, <1>12, <1>13 DEF Agree
<1> QED BY <1>8, <1>9, <1>10, <1>14 DEF IInv, Distinct

LEMMA TickKeeps == ASSUME IInv, Tick PROVE IInv' /\ ~(sinceAttempt' < sinceAttempt)
<1>1. /\ blocks' = [i \in 1..MAX_SERVERS |-> LessHeld(blocks[i])]
      /\ owed' = [e \in Entry |-> LessHeld(owed[e])]
      /\ UNCHANGED <<server_list, entry, cursor, slot, linkTo>>
  BY DEF Tick, listVars
<1>2. sinceAttempt' \in 0..MinInterval /\ ~(sinceAttempt' < sinceAttempt)
  BY Sizes DEF Tick, Smaller, IInv, Shape
<1>3. Agree(blocks, owed)'
  <2>1. ASSUME NEW i \in 1..Len(entry) PROVE Same(blocks'[i], owed'[entry[i]])
    <3>1. i \in 1..MAX_SERVERS /\ entry[i] \in Entry /\ Same(blocks[i], owed[entry[i]])
      BY Listed DEF IInv, Agree, Entry
    <3> QED BY <1>1, <3>1, SecondAgrees
  <2> QED BY <1>1, <2>1 DEF Agree
<1>4. IInv'
  BY <1>1, <1>2, <1>3 DEF IInv, Shape, Distinct, SlotIsLink
<1> QED BY <1>2, <1>4
---------------------------------------------------------------------------
\* What every step does to the invariant and to the entry that is dialled.
LEMMA StepIInv ==
    ASSUME IInv, [Next]_vars
    PROVE  /\ IInv'
           /\ sinceAttempt' < sinceAttempt => ~Holds(owed[linkTo'])
<1> DEFINE P == IInv' /\ (sinceAttempt' < sinceAttempt => ~Holds(owed[linkTo']))
<1>0. sinceAttempt \in Nat /\ cursor \in Nat \ {0} /\ Agree(blocks, owed)
  BY Sizes DEF IInv, Shape
<1>1. ASSUME NEW s \in Server, NEW ok \in BOOLEAN, Dial(s, ok) PROVE P
  BY <1>1, DialKeeps
<1>2. CASE Watchdog \/ Lost \/ LoopEnd
  BY <1>0, <1>2, DownKeeps DEF Watchdog, Lost, LoopEnd, listVars, timeVars
<1>3. CASE SendPing
  BY <1>0, <1>3, Untouched DEF SendPing, listVars, timeVars
<1>4. CASE Welcome
  BY <1>0, <1>4, WelcomeKeeps DEF Welcome
<1>5. ASSUME NEW t \in Texts, NEW numeric \in BOOLEAN, Refuse(t, numeric) PROVE P
  <2>1. UNCHANGED <<server_list, entry, blocks, owed, slot, linkTo, cursor, sinceAttempt>>
    BY <1>5, Zenon DEF Refuse, listVars
  <2> QED BY <1>0, <2>1, Untouched
<1>6. ASSUME NEW answers \in BOOLEAN, Talk(answers) PROVE P
  <2>1. UNCHANGED <<server_list, entry, blocks, owed, slot, linkTo, cursor, sinceAttempt>>
    BY <1>6, Zenon DEF Talk, listVars
  <2> QED BY <1>0, <2>1, Untouched
<1>7. CASE Die
  BY <1>0, <1>7, Untouched DEF Die, listVars, timeVars
<1>8. CASE JumpNext
  BY <1>0, <1>8, DownKeeps DEF JumpNext, listVars, timeVars
<1>9. ASSUME NEW s \in Server, Jump(s) PROVE P
  BY <1>0, <1>9, JumpKeeps DEF Jump, timeVars
<1>10. ASSUME NEW s \in Server, AddServer(s) PROVE P
  <2>1. sinceAttempt' = sinceAttempt
    BY <1>10 DEF AddServer, timeVars
  <2> QED BY <1>0, <1>10, <2>1, AddKeeps
<1>11. ASSUME NEW s \in Server, DelServer(s) PROVE P
  <2>1. sinceAttempt' = sinceAttempt
    BY <1>11 DEF DelServer, timeVars
  <2> QED BY <1>0, <1>11, <2>1, DelKeeps
<1>12. CASE Tick
  BY <1>12, TickKeeps
<1>13. CASE UNCHANGED vars
  BY <1>0, <1>13, Untouched DEF vars
<1> QED BY <1>1, <1>2, <1>3, <1>4, <1>5, <1>6, <1>7, <1>8, <1>9, <1>10, <1>11, <1>12, <1>13 DEF Next

\* Whatever is added to and removed from the list while links come and go, each
\* entry of it has the hold it earned itself, as long as the documented doubling
\* makes it (server_block_remove, apply_refusal, refusal_backoff).
THEOREM HoldsByEntry == Spec => []HoldsFollowServers
<1>1. IInv /\ [Next]_vars => IInv'
  BY StepIInv
<1>2. IInv => HoldsFollowServers
  <2> SUFFICES ASSUME IInv, NEW i \in 1..Len(server_list)
               PROVE  /\ blocks[i].kind = owed[entry[i]].kind
                      /\ blocks[i].left = owed[entry[i]].left
    BY DEF HoldsFollowServers
  <2>1. Same(blocks[i], owed[entry[i]])
    BY Listed DEF IInv, Agree
  <2> QED BY <2>1 DEF Same
<1> QED BY InitIInv, <1>1, <1>2, PTL DEF Spec

\* connect never dials an entry before the hold that it earned is over
\* (pick_server, refusal_backoff).
THEOREM NoHeldDial == Spec => HeldNotDialled
<1>1. IInv /\ [Next]_vars => IInv'
  BY StepIInv
<1>2. IInv /\ [Next]_vars => [sinceAttempt' < sinceAttempt => ~Holds(owed[linkTo'])]_vars
  BY StepIInv
<1> QED BY InitIInv, <1>1, <1>2, PTL DEF Spec, HeldNotDialled
---------------------------------------------------------------------------
(***************************************************************************)
(* The nick.                                                               *)
(***************************************************************************)
CONSTANTS Target, NAlt, Takeable, Invalid, Renames, Givenick, Budget, MaxMsgs
VARIABLES target, current, attempt, refused, released, phase, actual, taken, toServer,
          toBot, left
N == INSTANCE Nick

\* What the line m makes of the nick a others know the bot by.
Follows(m, a, b) ==
    /\ m.type = "001" => b = m.nick
    /\ m.type \in {"433", "432"} => b = a
    /\ m.type = "NICK" => \/ m.old = a /\ b = m.nick
                          \/ m.old # a /\ b = a /\ (Givenick => m.old[2] = 0)

\* The nicks the server had for the bot when it sent each line under way.
Histories == [0..Len(toBot) -> N!Nicks]
History(h) == /\ h[Len(toBot)] = actual
              /\ \A k \in 1..Len(toBot) : Follows(toBot[k], h[k - 1], h[k])

\* The bot takes none of the first j lines for its own.
Ignores(j) == \A k \in 1..j : toBot[k].type = "NICK" => toBot[k].old # current

\* After j more lines the bot believes in the nick the server had then.
Agrees(h, j) == current = h[j] /\ Ignores(j)

\* The nick was assumed before the server was asked for it.
Assumed == /\ Givenick /\ current[2] > 0 /\ Ignores(Len(toBot))
           /\ \E p \in 1..Len(toServer) : toServer[p] = current

Tracked == \E h \in Histories :
              History(h) /\ (Assumed \/ \E j \in 0..Len(toBot) : Agrees(h, j))

\* Before 001: one NICK at a time.
Registering ==
    /\ actual = N!NoNick => /\ Len(toServer) + Len(toBot) <= 1
                            /\ \A k \in 1..Len(toBot) : toBot[k].type \in {"433", "432"}
    /\ actual # N!NoNick => /\ toServer = <<>> /\ toBot # <<>> /\ toBot[1].type = "001"
                            /\ \A k \in 2..Len(toBot) : toBot[k].type # "001"
                            /\ \E h \in Histories : History(h)

\* While registering at most one NICK is unanswered, or the 001 is the next line
\* to read; from then on the bot's belief is the server's of some line under way.
NickInv ==
    /\ N!TypeOK
    /\ phase = "off" => actual = N!NoNick /\ toServer = <<>> /\ toBot = <<>>
    /\ phase = "registering" => Registering
    /\ phase = "authed" => /\ actual # N!NoNick /\ Tracked
                           /\ \A k \in 1..Len(toBot) : toBot[k].type # "001"
    /\ actual \notin taken

\* At most one line under way is in one direction or the other.
LEMMA OneOfTwo == ASSUME NEW a \in Nat, NEW b \in Nat, a + b <= 1
                  PROVE  (a >= 1 => a = 1 /\ b = 0) /\ (b >= 1 => a = 0 /\ b = 1)
OBVIOUS

LEMMA NickConsts ==
    ASSUME N!NickAssumption
    PROVE  /\ NAlt \in Nat /\ Budget \in Nat /\ N!NoNick \notin N!Nicks
           /\ Takeable \subseteq N!Nicks /\ Renames \subseteq N!Nicks /\ Invalid \subseteq Target
           /\ \A t \in Target : N!Own(t) \in N!Nicks
BY DEF N!NickAssumption, N!NoNick, N!Nicks, N!Own

LEMMA MsgFacts ==
    /\ \A m \in N!Msg : m.nick \in N!Nicks /\ m.type \in {"001", "433", "432", "NICK"}
    /\ \A n \in N!Nicks : \A t \in {"001", "433", "432"} :
          [type |-> t, nick |-> n] \in N!Msg
    /\ \A o, n \in N!Nicks : [type |-> "NICK", old |-> o, nick |-> n] \in N!Msg
BY DEF N!Msg

\* A line is sent to the bot: the history goes on.
LEMMA LineSent ==
    ASSUME N!TypeOK, NEW h \in Histories, History(h), NEW m \in N!Msg, NEW n \in N!Nicks,
           toBot' = Append(toBot, m), actual' = n, Follows(m, actual, n)
    PROVE  \E g \in Histories' : /\ History(g)'
                                 /\ \A k \in 0..Len(toBot) : g[k] = h[k]
<1> DEFINE L == Len(toBot)
<1> PICK g : g = [k \in 0..L + 1 |-> IF k <= L THEN h[k] ELSE n]
  OBVIOUS
<1>1. L \in Nat /\ toBot \in Seq(N!Msg)
  BY DEF N!TypeOK
<1>2. Len(toBot') = L + 1 /\ toBot'[L + 1] = m /\ \A k \in 1..L : toBot'[k] = toBot[k]
  BY <1>1
<1>3. g \in Histories'
  <2>1. \A k \in 0..L + 1 : g[k] \in N!Nicks
    BY <1>1 DEF Histories
  <2> QED BY <1>2, <2>1 DEF Histories, N!Nicks
<1>4. g[L + 1] = n /\ \A k \in 0..L : g[k] = h[k]
  BY <1>1
<1>5. ASSUME NEW k \in 1..L + 1 PROVE Follows(toBot'[k], g[k - 1], g[k])
  <2>1. CASE k <= L
    BY <1>1, <1>2, <1>4, <2>1 DEF History
  <2>2. CASE k = L + 1
    <3>1. toBot'[k] = m /\ k - 1 = L /\ g[k - 1] = actual /\ g[k] = n
      BY <1>1, <1>2, <1>4, <2>2 DEF History
    <3> QED BY <3>1
  <2> QED BY <1>1, <2>1, <2>2
<1>6. History(g)'
  BY <1>2, <1>4, <1>5 DEF History, Follows
<1> QED BY <1>3, <1>4, <1>6

\* The bot reads a line.
LEMMA LineRead ==
    ASSUME N!TypeOK, NEW h \in Histories, History(h),
           toBot # <<>>, toBot' = Tail(toBot), actual' = actual
    PROVE  \E g \in Histories' : /\ History(g)'
                                 /\ \A k \in 0..Len(toBot) - 1 : g[k] = h[k + 1]
<1> DEFINE L == Len(toBot)
<1> PICK g : g = [k \in 0..L - 1 |-> h[k + 1]]
  OBVIOUS
<1>1. L \in Nat \ {0} /\ toBot \in Seq(N!Msg)
  BY DEF N!TypeOK
<1>2. Len(toBot') = L - 1 /\ \A k \in 1..L - 1 : toBot'[k] = toBot[k + 1]
  BY <1>1
<1>3. \A k \in 0..L - 1 : g[k] = h[k + 1] /\ h[k + 1] \in N!Nicks
  BY <1>1 DEF Histories
<1>4. g \in Histories'
  BY <1>2, <1>3 DEF Histories, N!Nicks
<1>5. \A k \in 1..L - 1 : Follows(toBot'[k], g[k - 1], g[k])
  BY <1>1, <1>2, <1>3 DEF History
<1>6. History(g)'
  BY <1>1, <1>2, <1>3, <1>5 DEF History, Follows
<1> QED BY <1>3, <1>4, <1>6

---------------------------------------------------------------------------
LEMMA NickTypes ==
    ASSUME N!NickAssumption, N!TypeOK, [N!Next]_N!vars PROVE N!TypeOK'
<1> USE NickConsts
<1>0. /\ toServer \in Seq(N!Nicks) /\ toBot \in Seq(N!Msg) /\ current \in N!Nicks
      /\ attempt \in 0..NAlt /\ target \in Target /\ left \in 0..Budget
  BY DEF N!TypeOK
<1>1. ASSUME N!generate_new_nick
      PROVE  current' \in N!Nicks /\ attempt' \in 0..NAlt /\ toServer' \in Seq(N!Nicks)
  <2>1. CASE attempt < NAlt
    <3>1. <<target, attempt + 1>> \in N!Nicks /\ attempt + 1 \in 0..NAlt
      BY <1>0, <2>1 DEF N!Nicks
    <3>2. /\ current' = <<target, attempt + 1>> /\ attempt' = attempt + 1
          /\ toServer' = Append(toServer, <<target, attempt + 1>>)
      BY <1>1, <2>1 DEF N!generate_new_nick
    <3>3. Append(toServer, <<target, attempt + 1>>) \in Seq(N!Nicks)
      BY <1>0, <3>1
    <3> QED BY <3>1, <3>2, <3>3
  <2>2. CASE ~(attempt < NAlt)
    BY <1>0, <1>1, <2>2 DEF N!generate_new_nick
  <2> QED BY <2>1, <2>2
<1>2. ASSUME N!Spend PROVE left' \in 0..Budget
  BY <1>0, <1>2 DEF N!Spend
<1>3. ASSUME NEW m \in N!Msg PROVE Append(toBot, m) \in Seq(N!Msg)
  BY <1>0
<1>4. toBot # <<>> => Tail(toBot) \in Seq(N!Msg) /\ Head(toBot) \in N!Msg
  BY <1>0
<1>5. toServer # <<>> => Tail(toServer) \in Seq(N!Nicks) /\ Head(toServer) \in N!Nicks
  BY <1>0
<1>6. CASE N!connect
  <2>1. <<N!Own(target)>> \in Seq(N!Nicks)
    BY <1>0
  <2> QED BY <1>6, <2>1 DEF N!connect, N!TypeOK
<1>7. CASE N!Lost
  BY <1>2, <1>7 DEF N!Lost, N!TypeOK
<1>8. CASE N!Reclaim \/ N!ReleaseOver
  <2>1. Append(toServer, N!Own(target)) \in Seq(N!Nicks)
    BY <1>0
  <2> QED BY <1>8, <2>1 DEF N!Reclaim, N!ReleaseOver, N!botVars, N!netVars, N!TypeOK
<1>9. CASE N!givenick
  BY <1>1, <1>2, <1>9 DEF N!givenick, N!TypeOK
<1>10. ASSUME NEW t \in Target, N!chnick(t) PROVE N!TypeOK'
  BY <1>2, <1>10 DEF N!chnick, N!netVars, N!TypeOK
<1>11. CASE N!on_welcome
  BY <1>4, <1>11, MsgFacts DEF N!on_welcome, N!Receive, N!TypeOK
<1>12. CASE N!on_nick
  BY <1>4, <1>12, MsgFacts DEF N!on_nick, N!Receive, N!TypeOK
<1>13. CASE N!on_nick_refused
  <2>1. CASE phase = "authed"
    BY <1>4, <1>13, <2>1 DEF N!on_nick_refused, N!Receive, N!TypeOK
  <2>2. CASE phase # "authed"
    BY <1>1, <1>4, <1>13, <2>2 DEF N!on_nick_refused, N!Receive, N!TypeOK
  <2> QED BY <2>1, <2>2
<1>14. CASE N!ServerNick
  <2>1. Head(toServer) \in N!Nicks /\ toServer' \in Seq(N!Nicks)
    BY <1>5, <1>14 DEF N!ServerNick
  <2>2. actual' \in {actual, Head(toServer)}
    BY <1>14 DEF N!ServerNick
  <2>3. toBot' \in Seq(N!Msg)
    BY <1>0, <1>3, <1>14, <2>1, MsgFacts DEF N!ServerNick, N!Answer, N!TypeOK
  <2> QED BY <1>14, <2>1, <2>2, <2>3 DEF N!ServerNick, N!botVars, N!TypeOK
<1>15. ASSUME NEW n \in Renames, N!ServerRenames(n) PROVE N!TypeOK'
  <2>1. [type |-> "NICK", old |-> actual, nick |-> n] \in N!Msg
    BY <1>15, MsgFacts DEF N!ServerRenames, N!TypeOK
  <2> QED BY <1>2, <1>3, <1>15, <2>1 DEF N!ServerRenames, N!Answer, N!botVars, N!TypeOK
<1>16. ASSUME NEW n \in Takeable, N!OtherTakes(n) \/ N!OtherLeaves(n) PROVE N!TypeOK'
  BY <1>16 DEF N!OtherTakes, N!OtherLeaves, N!botVars, N!netVars, N!TypeOK
<1>17. ASSUME NEW o \in Takeable, NEW n \in Takeable, N!OtherRenames(o, n) PROVE N!TypeOK'
  <2>1. [type |-> "NICK", old |-> o, nick |-> n] \in N!Msg
    BY MsgFacts
  <2> QED BY <1>2, <1>3, <1>17, <2>1 DEF N!OtherRenames, N!Answer, N!botVars, N!TypeOK
<1>18. CASE UNCHANGED N!vars
  BY <1>18 DEF N!vars, N!TypeOK
<1> QED BY <1>6, <1>7, <1>8, <1>9, <1>10, <1>11, <1>12, <1>13, <1>14, <1>15, <1>16, <1>17,
           <1>18 DEF N!Next

\* Lines the bot has not read and the server's nick stay as they are.
LEMMA NickUntouched ==
    ASSUME NickInv, UNCHANGED <<toBot, actual, current, phase>>, phase # "registering",
           \A p \in 1..Len(toServer) : \E r \in 1..Len(toServer') : toServer'[r] = toServer[p],
           phase = "off" => toServer' = toServer
    PROVE  /\ phase' = "off" => actual' = N!NoNick /\ toServer' = <<>> /\ toBot' = <<>>
           /\ phase' = "registering" => Registering'
           /\ phase' = "authed" => /\ actual' # N!NoNick /\ Tracked'
                                   /\ \A k \in 1..Len(toBot') : toBot'[k].type # "001"
<1>1. ASSUME phase = "authed" PROVE Tracked'
  <2>1. PICK h \in Histories : History(h) /\ (Assumed \/ \E j \in 0..Len(toBot) : Agrees(h, j))
    BY <1>1 DEF NickInv, Tracked
  <2>2. h \in Histories' /\ History(h)'
    BY <2>1 DEF Histories, History, Follows, N!Nicks
  <2>3. Assumed => Assumed'
    BY DEF Assumed, Ignores
  <2>4. ASSUME NEW j \in 0..Len(toBot), Agrees(h, j) PROVE j \in 0..Len(toBot') /\ Agrees(h, j)'
    BY <2>4 DEF Agrees, Ignores
  <2> QED BY <2>1, <2>2, <2>3, <2>4 DEF Tracked
<1> QED BY <1>1 DEF NickInv

\* A line that is sent to a registered bot.
LEMMA NickSent ==
    ASSUME NickInv, actual # N!NoNick, NEW m \in N!Msg, m.type # "001", NEW n \in N!Nicks,
           toBot' = Append(toBot, m), actual' = n, Follows(m, actual, n),
           N!NoNick \notin N!Nicks, UNCHANGED <<current, phase>>, toServer \in Seq(N!Nicks),
           \/ toServer' = toServer
           \/ /\ toServer # <<>> /\ toServer' = Tail(toServer)
              /\ \/ m.type = "NICK" /\ m.old = actual /\ n = Head(toServer)
                 \/ m.type \in {"433", "432"} /\ (Givenick => Head(toServer)[2] = 0)
    PROVE  /\ phase' = "off" => actual' = N!NoNick /\ toServer' = <<>> /\ toBot' = <<>>
           /\ phase' = "registering" => Registering'
           /\ phase' = "authed" => /\ actual' # N!NoNick /\ Tracked'
                                   /\ \A k \in 1..Len(toBot') : toBot'[k].type # "001"
<1> PICK L : L = Len(toBot)
  OBVIOUS
<1>0. N!TypeOK /\ L \in Nat /\ toBot \in Seq(N!Msg)
  BY DEF NickInv, N!TypeOK
<1>1. Len(toBot') = L + 1 /\ toBot'[L + 1] = m /\ \A k \in 1..L : toBot'[k] = toBot[k]
  BY <1>0
<1>2. phase # "off"
  BY DEF NickInv
<1>3. CASE phase = "registering"
  <2>1. toServer = <<>> /\ toBot # <<>> /\ toBot[1].type = "001"
        /\ (\A k \in 2..L : toBot[k].type # "001") /\ \E h \in Histories : History(h)
    BY <1>3 DEF NickInv, Registering
  <2>2. \E g \in Histories' : History(g)'
    BY <1>0, <2>1, LineSent
  <2>3. L >= 1
    BY <1>0, <2>1
  <2>4. \A k \in 2..L + 1 : toBot'[k].type # "001"
    BY <1>0, <1>1, <2>1
  <2>5. toServer' = <<>> /\ toBot' # <<>> /\ toBot'[1].type = "001"
    BY <1>0, <1>1, <2>1, <2>3
  <2> QED BY <1>1, <1>3, <2>2, <2>4, <2>5 DEF Registering
<1>4. CASE phase = "authed"
  <2>1. PICK h \in Histories : History(h) /\ (Assumed \/ \E j \in 0..L : Agrees(h, j))
    BY <1>4 DEF NickInv, Tracked
  <2>2. PICK g \in Histories' : History(g)' /\ \A k \in 0..L : g[k] = h[k]
    BY <1>0, <2>1, LineSent
  <2>3. ASSUME NEW j \in 0..L, Agrees(h, j) PROVE Tracked'
    <3>1. j \in 0..Len(toBot') /\ Agrees(g, j)'
      BY <1>0, <1>1, <2>2, <2>3 DEF Agrees, Ignores
    <3> QED BY <2>2, <3>1 DEF Tracked
  <2>4. ASSUME current = actual PROVE Tracked'
    <3>1. CASE Assumed
      <4>1. Agrees(h, L)
        BY <2>1, <2>4, <3>1 DEF Agrees, Assumed, History
      <4> QED BY <1>0, <2>3, <4>1
    <3> QED BY <2>1, <2>3, <3>1
  <2>5. ASSUME Assumed, current # actual PROVE Tracked'
    <3>1. Ignores(L) /\ Givenick /\ current[2] > 0
      BY <2>5 DEF Assumed
    <3>2. m.type = "NICK" => m.old # current
      <4>1. m.type = "NICK" /\ m.old # actual => m.old[2] = 0
        BY <3>1 DEF Follows
      <4> QED BY <2>5, <3>1, <4>1
    <3>3. Ignores(L + 1)'
      BY <1>0, <1>1, <3>1, <3>2 DEF Ignores
    <3>4. CASE n = current
      <4>1. g[L + 1] = n
        BY <1>1, <2>2 DEF History
      <4>2. Agrees(g, L + 1)'
        BY <3>3, <3>4, <4>1 DEF Agrees
      <4>3. L + 1 \in 0..Len(toBot')
        BY <1>0, <1>1
      <4> QED BY <2>2, <4>2, <4>3 DEF Tracked
    <3>5. CASE n # current
      <4>1. PICK p \in 1..Len(toServer) : toServer[p] = current
        BY <2>5 DEF Assumed
      <4>2. toServer' = toServer \/ (p > 1 /\ toServer # <<>> /\ toServer' = Tail(toServer))
        <5>1. toServer # <<>> /\ p = 1 => Head(toServer) = current
          BY <4>1
        <5>2. toServer # <<>> /\ p = 1 => Head(toServer) # n /\ ~(Head(toServer)[2] = 0)
          BY <3>1, <3>5, <5>1
        <5> QED BY <3>1, <4>1, <5>2
      <4>3. \E r \in 1..Len(toServer') : toServer'[r] = current
        <5>1. CASE toServer' = toServer
          BY <4>1, <5>1
        <5>2. CASE p > 1 /\ toServer # <<>> /\ toServer' = Tail(toServer)
          <6>1. p - 1 \in 1..Len(toServer') /\ toServer'[p - 1] = current
            BY <4>1, <5>2
          <6> QED BY <6>1
        <5> QED BY <4>2, <5>1, <5>2
      <4>4. Assumed'
        BY <1>1, <3>1, <3>3, <4>3 DEF Assumed
      <4> QED BY <2>2, <4>4 DEF Tracked
    <3> QED BY <3>4, <3>5
  <2>6. Tracked'
    BY <2>1, <2>3, <2>4, <2>5
  <2>7. \A k \in 1..Len(toBot') : toBot'[k].type # "001"
    BY <1>0, <1>1, <1>4 DEF NickInv
  <2> QED BY <1>4, <2>6, <2>7
<1> QED BY <1>0, <1>2, <1>3, <1>4 DEF N!TypeOK

\* A registered bot reads a line.
LEMMA NickRead ==
    ASSUME NickInv, phase = "authed", toBot # <<>>, toBot' = Tail(toBot),
           UNCHANGED <<actual, toServer>>,
           current' = IF toBot[1].type = "NICK" /\ toBot[1].old = current
                      THEN toBot[1].nick ELSE current
    PROVE  Tracked' /\ \A k \in 1..Len(toBot') : toBot'[k].type # "001"
<1> PICK L : L = Len(toBot)
  OBVIOUS
<1>0. N!TypeOK /\ L \in Nat \ {0} /\ toBot \in Seq(N!Msg) /\ toBot[1].type # "001"
      /\ toBot[1].type \in {"001", "433", "432", "NICK"}
  BY MsgFacts DEF NickInv, N!TypeOK
<1>1. Len(toBot') = L - 1 /\ \A k \in 1..L - 1 : toBot'[k] = toBot[k + 1]
  BY <1>0
<1>2. PICK h \in Histories : History(h) /\ (Assumed \/ \E j \in 0..L : Agrees(h, j))
  BY DEF NickInv, Tracked
<1>3. PICK g \in Histories' : History(g)' /\ \A k \in 0..L - 1 : g[k] = h[k + 1]
  BY <1>0, <1>2, LineRead
<1>4. Follows(toBot[1], h[0], h[1])
  BY <1>0, <1>2 DEF History
<1>5. ASSUME Agrees(h, 0) PROVE Tracked'
  <2>1. current' = h[1]
    BY <1>0, <1>4, <1>5 DEF Agrees, Follows
  <2>2. Agrees(g, 0)'
    BY <1>0, <1>3, <2>1 DEF Agrees, Ignores
  <2>3. 0 \in 0..Len(toBot')
    BY <1>0, <1>1
  <2> QED BY <1>3, <2>2, <2>3 DEF Tracked
<1>6. ASSUME NEW j \in 1..L, Ignores(j) PROVE current' = current /\ Ignores(j - 1)'
  <2>1. current' = current
    BY <1>0, <1>6 DEF Ignores
  <2> QED BY <1>0, <1>1, <1>6, <2>1 DEF Ignores
<1>7. ASSUME NEW j \in 1..L, Agrees(h, j) PROVE Tracked'
  <2>1. Agrees(g, j - 1)' /\ j - 1 \in 0..Len(toBot')
    BY <1>0, <1>1, <1>3, <1>6, <1>7 DEF Agrees
  <2> QED BY <1>3, <2>1 DEF Tracked
<1>8. ASSUME Assumed PROVE Tracked'
  <2>1. Ignores(L)
    BY <1>8 DEF Assumed
  <2>2. current' = current /\ Ignores(L - 1)'
    BY <1>0, <1>6, <2>1
  <2>3. Assumed'
    BY <1>1, <1>8, <2>2 DEF Assumed
  <2> QED BY <1>3, <2>3 DEF Tracked
<1>9. Tracked'
  BY <1>0, <1>2, <1>5, <1>7, <1>8
<1>10. \A k \in 1..Len(toBot') : toBot'[k].type # "001"
  BY <1>0, <1>1 DEF NickInv
<1> QED BY <1>9, <1>10

\* A nick is assumed: the bot disregards what comes until it reads of it, or
\* until the server has it.
LEMMA NickAssumed ==
    ASSUME NickInv, phase = "authed", Givenick, current'[2] > 0, UNCHANGED <<actual, toBot>>,
           toServer' = Append(toServer, current')
    PROVE  Tracked'
<1> PICK L : L = Len(toBot)
  OBVIOUS
<1>0. L \in Nat /\ toServer \in Seq(N!Nicks)
  BY DEF NickInv, N!TypeOK
<1>1. PICK h \in Histories : History(h)
  BY DEF NickInv, Tracked
<1>2. h \in Histories' /\ History(h)'
  BY <1>1 DEF Histories, History, Follows, N!Nicks
<1> DEFINE Mine == {k \in 1..L : toBot[k].type = "NICK" /\ toBot[k].old = current'}
<1>3. CASE Mine = {}
  <2>1. Ignores(L)'
    BY <1>3 DEF Ignores
  <2>2. \E p \in 1..Len(toServer') : toServer'[p] = current'
    BY <1>0
  <2>3. Assumed'
    BY <2>1, <2>2 DEF Assumed
  <2> QED BY <1>2, <2>3 DEF Tracked
<1>4. CASE Mine # {}
  <2>1. PICK i \in Mine : \A k \in Mine : i <= k
    <3>1. Mine \in SUBSET Nat
      BY <1>0
    <3> HIDE DEF Mine
    <3> QED BY <1>4, <3>1, NatLeast
  <2>2. i \in 1..L /\ toBot[i].old = current' /\ toBot[i].type = "NICK"
    OBVIOUS
  <2>3. Follows(toBot[i], h[i - 1], h[i])
    BY <1>1, <2>2 DEF History
  <2>4. h[i - 1] = current'
    BY <2>2, <2>3 DEF Follows
  <2>5. Ignores(i - 1)'
    BY <1>0, <2>1, <2>2 DEF Ignores
  <2>6. Agrees(h, i - 1)' /\ i - 1 \in 0..Len(toBot')
    BY <1>0, <2>2, <2>4, <2>5 DEF Agrees
  <2> QED BY <1>2, <2>6 DEF Tracked
<1> QED BY <1>3, <1>4

\* Where alternates are free: nobody else holds one, or the bot only tries them
\* before it is registered.
AlternatesFree == Givenick => \A n \in Takeable : n[2] = 0

LEMMA NickInit == ASSUME N!NickAssumption, N!Init PROVE NickInv
<1> USE NickConsts
<1>1. N!TypeOK
  <2>1. N!Own(target) \in N!Nicks /\ 0 \in 0..NAlt /\ Budget \in 0..Budget
    BY DEF N!Init
  <2>2. toServer \in Seq(N!Nicks) /\ toBot \in Seq(N!Msg)
    BY DEF N!Init
  <2>3. released \in BOOLEAN
    BY DEF N!Init
  <2>4. /\ target \in Target /\ current \in N!Nicks /\ attempt \in 0..NAlt
        /\ refused \in Target \cup {"none"} /\ phase \in {"off", "registering", "authed"}
        /\ left \in 0..Budget
    BY <2>1 DEF N!Init
  <2>5. actual \in N!Nicks \cup {N!NoNick} /\ taken \subseteq Takeable
    BY DEF N!Init
  <2> QED BY <2>2, <2>3, <2>4, <2>5 DEF N!TypeOK
<1>2. actual \notin taken
  BY DEF N!Init
<1> QED BY <1>1, <1>2 DEF N!Init, NickInv

LEMMA NickStep ==
    ASSUME N!NickAssumption, AlternatesFree, NickInv, [N!Next]_N!vars
    PROVE  NickInv'
<1> USE NickConsts
<1> DEFINE Goal == /\ phase' = "off" => actual' = N!NoNick /\ toServer' = <<>> /\ toBot' = <<>>
                   /\ phase' = "registering" => Registering'
                   /\ phase' = "authed" => /\ actual' # N!NoNick /\ Tracked'
                                           /\ \A k \in 1..Len(toBot') : toBot'[k].type # "001"
<1>0. /\ N!TypeOK /\ N!TypeOK' /\ toServer \in Seq(N!Nicks) /\ toBot \in Seq(N!Msg)
      /\ Len(toServer) \in Nat /\ Len(toBot) \in Nat /\ taken \subseteq Takeable
      /\ current \in N!Nicks
  BY NickTypes DEF NickInv, N!TypeOK
<1>1. ASSUME Goal, actual' \notin taken' PROVE NickInv'
  BY <1>0, <1>1 DEF NickInv
<1> HIDE DEF Goal
\* Steps that leave the nick, the lines to the bot and the connection alone.
<1>2. ASSUME UNCHANGED <<toBot, actual, current, phase, toServer>> PROVE Goal
  <2>1. CASE phase = "registering"
    <3>1. Registering'
      <4>1. ASSUME NEW h \in Histories, History(h) PROVE h \in Histories' /\ History(h)'
        BY <1>2, <4>1 DEF Histories, History, Follows, N!Nicks
      <4> QED BY <1>2, <2>1, <4>1 DEF NickInv, Registering
    <3> QED BY <1>2, <2>1, <3>1 DEF Goal
  <2>2. CASE phase # "registering"
    BY <1>2, <2>2, NickUntouched DEF Goal
  <2> QED BY <2>1, <2>2
<1>3. CASE N!connect
  <2>1. phase' = "registering" /\ actual' = N!NoNick /\ toBot' = <<>> /\ Len(toServer') = 1
        /\ taken' = taken
    BY <1>3 DEF N!connect, NickInv
  <2>2. Goal
    BY <2>1 DEF Goal, Registering
  <2> QED BY <1>1, <1>3, <2>2 DEF N!connect, NickInv
<1>4. CASE N!Lost
  <2>1. Goal
    BY <1>4 DEF N!Lost, Goal
  <2>2. actual' \notin taken'
    BY <1>0, <1>4 DEF N!Lost
  <2> QED BY <1>1, <2>1, <2>2
<1>5. CASE N!Reclaim
  <2>1. \A p \in 1..Len(toServer) : \E r \in 1..Len(toServer') : toServer'[r] = toServer[p]
    BY <1>0, <1>5 DEF N!Reclaim
  <2>2. Goal
    BY <1>5, <2>1, NickUntouched DEF N!Reclaim, N!botVars, Goal
  <2> QED BY <1>1, <1>5, <2>2 DEF N!Reclaim, NickInv
<1>6. CASE N!ReleaseOver
  BY <1>1, <1>2, <1>6 DEF N!ReleaseOver, N!netVars, NickInv
<1>7. CASE N!givenick
  <2>1. Givenick /\ phase = "authed" /\ phase' = "authed" /\ N!generate_new_nick
        /\ UNCHANGED <<actual, taken, toBot>>
    BY <1>7 DEF N!givenick
  <2>2. CASE attempt < NAlt
    <3>1. attempt \in Nat
      BY <1>0 DEF N!TypeOK
    <3>2. current' = <<target, attempt + 1>> /\ toServer' = Append(toServer, current')
      BY <2>1, <2>2 DEF N!generate_new_nick
    <3>3. current'[2] > 0
      BY <3>1, <3>2
    <3>4. Tracked'
      BY <2>1, <3>2, <3>3, NickAssumed
    <3> QED BY <1>1, <2>1, <3>4 DEF Goal, NickInv
  <2>3. CASE ~(attempt < NAlt)
    BY <1>1, <1>2, <2>1, <2>3 DEF N!generate_new_nick, NickInv
  <2> QED BY <2>2, <2>3
<1>8. ASSUME NEW t \in Target, N!chnick(t) PROVE NickInv'
  BY <1>1, <1>2, <1>8 DEF N!chnick, N!netVars, NickInv
<1>9. CASE N!on_welcome
  <2>1. /\ toBot # <<>> /\ toBot[1].type = "001" /\ toBot' = Tail(toBot) /\ phase' = "authed"
        /\ current' = toBot[1].nick /\ UNCHANGED <<actual, taken, toServer>>
    BY <1>9, <1>0 DEF N!on_welcome, N!Receive
  <2>2. phase = "registering" /\ actual # N!NoNick
    BY <1>0, <2>1 DEF NickInv, Registering, N!TypeOK
  <2>3. /\ \A k \in 2..Len(toBot) : toBot[k].type # "001"
        /\ \E h \in Histories : History(h)
    BY <2>2 DEF NickInv, Registering
  <2>4. PICK h \in Histories : History(h)
    BY <2>3
  <2>5. PICK g \in Histories' : /\ History(g)'
                                /\ \A k \in 0..Len(toBot) - 1 : g[k] = h[k + 1]
    BY <1>0, <2>1, <2>4, LineRead
  <2>6. Len(toBot') = Len(toBot) - 1 /\ \A k \in 1..Len(toBot') : toBot'[k] = toBot[k + 1]
    BY <1>0, <2>1
  <2>7. Agrees(g, 0)'
    <3>1. Follows(toBot[1], h[0], h[1])
      BY <1>0, <2>1, <2>4 DEF History
    <3> QED BY <1>0, <2>1, <2>5, <3>1 DEF Follows, Agrees, Ignores
  <2>8. 0 \in 0..Len(toBot')
    BY <1>0, <2>1, <2>6
  <2>9. Tracked'
    BY <2>5, <2>7, <2>8 DEF Tracked
  <2>10. \A k \in 1..Len(toBot') : toBot'[k].type # "001"
    BY <1>0, <2>3, <2>6
  <2>11. Goal
    BY <2>1, <2>2, <2>9, <2>10 DEF Goal
  <2> QED BY <1>1, <2>1, <2>11 DEF NickInv
<1>10. CASE N!on_nick
  <2>1. /\ toBot # <<>> /\ toBot[1].type = "NICK" /\ toBot' = Tail(toBot)
        /\ current' = IF toBot[1].old = current THEN toBot[1].nick ELSE current
        /\ UNCHANGED <<actual, taken, toServer, phase>>
    BY <1>10, <1>0 DEF N!on_nick, N!Receive, N!IsMine
  <2>2. phase = "authed"
    BY <1>0, <2>1 DEF NickInv, Registering, N!TypeOK
  <2>3. Goal
    BY <2>1, <2>2, NickRead DEF Goal, NickInv
  <2> QED BY <1>1, <2>1, <2>3 DEF NickInv
<1>11. CASE N!on_nick_refused
  <2>1. /\ toBot # <<>> /\ toBot[1].type \in {"433", "432"} /\ toBot' = Tail(toBot)
        /\ UNCHANGED <<actual, taken, phase>>
        /\ phase = "authed" => UNCHANGED <<current, toServer>>
        /\ phase # "authed" => N!generate_new_nick
    BY <1>11, <1>0 DEF N!on_nick_refused, N!Receive
  <2>2. CASE phase = "authed"
    <3>1. Goal
      BY <2>1, <2>2, NickRead DEF Goal, NickInv
    <3> QED BY <1>1, <2>1, <3>1 DEF NickInv
  <2>3. CASE phase # "authed"
    <3>1. phase = "registering" /\ actual = N!NoNick
      BY <1>0, <2>1, <2>3 DEF NickInv, Registering, N!TypeOK
    <3>a. Len(toBot) >= 1 /\ Len(toServer) + Len(toBot) <= 1
      BY <1>0, <2>1, <3>1 DEF NickInv, Registering
    <3>b. Len(toServer) = 0 /\ Len(toBot) = 1
      BY <1>0, <3>a, OneOfTwo
    <3>2. Len(toServer) = 0 /\ Len(toBot') = 0
      BY <1>0, <2>1, <3>b
    <3>3. Len(toServer') <= 1
      BY <1>0, <2>1, <2>3, <3>2 DEF N!generate_new_nick
    <3>c. /\ Len(toServer') + Len(toBot') <= 1
          /\ \A k \in 1..Len(toBot') : toBot'[k].type \in {"433", "432"}
      <4>1. Len(toServer') \in Nat
        BY <1>0 DEF N!TypeOK
      <4> QED BY <3>2, <3>3, <4>1
    <3>d. Registering' /\ phase' = "registering"
      BY <2>1, <3>1, <3>c DEF Registering
    <3>4. Goal
      BY <3>d DEF Goal
    <3> QED BY <1>1, <2>1, <3>4 DEF NickInv
  <2> QED BY <2>2, <2>3
<1>12. CASE N!ServerNick
  <2> DEFINE n == Head(toServer)
             Bad == n[1] \in Invalid /\ n[2] = 0
  <2>1. toServer # <<>> /\ toServer' = Tail(toServer) /\ UNCHANGED <<current, phase, taken>>
        /\ n \in N!Nicks /\ phase # "off"
    BY <1>0, <1>12 DEF N!ServerNick, N!botVars, NickInv
  <2>2. CASE Bad \/ n \in taken
    <3>1. PICK t \in {"433", "432"} : toBot' = Append(toBot, [type |-> t, nick |-> n])
                                      /\ actual' = actual
      BY <1>12, <2>2 DEF N!ServerNick, N!Answer
    <3> DEFINE m == [type |-> t, nick |-> n]
    <3>2. m \in N!Msg /\ m.type = t
      BY <2>1, MsgFacts
    <3>3. CASE actual = N!NoNick
      <4>1. phase = "registering"
        BY <1>0, <2>1, <3>3 DEF NickInv, N!TypeOK
      <4>2. Len(toServer) + Len(toBot) <= 1
        BY <3>3, <4>1 DEF NickInv, Registering
      <4>a. Len(toServer) >= 1
        BY <1>0, <2>1
      <4>d. Len(toServer) = 1 /\ Len(toBot) = 0
        BY <1>0, <4>2, <4>a, OneOfTwo
      <4>3. Len(toServer) = 1 /\ Len(toBot) = 0 /\ toBot = <<>>
        BY <1>0, <4>d
      <4>4. Len(toServer') = 0 /\ toBot' = <<m>>
        BY <1>0, <2>1, <3>1, <4>3
      <4>5. Goal
        BY <2>1, <3>1, <3>2, <3>3, <4>1, <4>4 DEF Goal, Registering
      <4> QED BY <1>1, <2>1, <3>1, <4>5 DEF NickInv
    <3>4. CASE actual # N!NoNick
      <4>1. actual \in N!Nicks /\ Follows(m, actual, actual)
        BY <1>0, <3>2, <3>4 DEF N!TypeOK, Follows
      <4>2. Givenick => n[2] = 0
        BY <1>0, <2>2 DEF AlternatesFree
      <4>3. Goal
        BY <1>0, <2>1, <3>1, <3>2, <3>4, <4>1, <4>2, NickSent DEF Goal
      <4> QED BY <1>1, <2>1, <3>1, <4>3 DEF NickInv
    <3> QED BY <3>3, <3>4
  <2>3. CASE ~Bad /\ n \notin taken
    <3>1. /\ actual' = n
          /\ IF actual = N!NoNick THEN toBot' = Append(toBot, [type |-> "001", nick |-> n])
             ELSE IF actual = n THEN toBot' = toBot
             ELSE toBot' = Append(toBot, [type |-> "NICK", old |-> actual, nick |-> n])
      BY <1>12, <2>3 DEF N!ServerNick, N!Answer
    <3>2. CASE actual = N!NoNick
      <4>1. phase = "registering"
        BY <1>0, <2>1, <3>2 DEF NickInv, N!TypeOK
      <4>2. Len(toServer) + Len(toBot) <= 1
        BY <3>2, <4>1 DEF NickInv, Registering
      <4>a. Len(toServer) >= 1
        BY <1>0, <2>1
      <4>d. Len(toServer) = 1 /\ Len(toBot) = 0
        BY <1>0, <4>2, <4>a, OneOfTwo
      <4>3. Len(toServer) = 1 /\ Len(toBot) = 0 /\ toBot = <<>>
        BY <1>0, <4>d
      <4>4. toServer' = <<>> /\ toBot' = <<[type |-> "001", nick |-> n]>>
        BY <1>0, <2>1, <3>1, <3>2, <4>3
      <4>5. PICK h : h = [k \in 0..1 |-> n]
        OBVIOUS
      <4>b. Len(toBot') = 1 /\ toBot'[1] = [type |-> "001", nick |-> n]
        BY <4>4
      <4>c. h \in Histories'
        BY <2>1, <4>5, <4>b DEF Histories, N!Nicks
      <4>6. h \in Histories' /\ History(h)'
        BY <3>1, <4>5, <4>b, <4>c DEF History, Follows
      <4>7. Registering'
        BY <2>1, <3>1, <4>4, <4>6 DEF Registering, N!NoNick, N!Nicks
      <4>8. Goal
        BY <2>1, <4>1, <4>7 DEF Goal
      <4> QED BY <1>1, <2>1, <2>3, <3>1, <4>8
    <3>3. CASE actual # N!NoNick /\ actual # n
      <4> DEFINE m == [type |-> "NICK", old |-> actual, nick |-> n]
      <4>1. actual \in N!Nicks
        BY <1>0, <3>3 DEF N!TypeOK
      <4>2. m \in N!Msg /\ m.type = "NICK" /\ m.old = actual /\ m.nick = n
        BY <2>1, <4>1, MsgFacts
      <4>3. Follows(m, actual, n)
        BY <4>2 DEF Follows
      <4>4. toBot' = Append(toBot, m)
        BY <3>1, <3>3
      <4> HIDE DEF m
      <4>5. Goal
        BY <1>0, <2>1, <3>1, <3>3, <4>2, <4>3, <4>4, NickSent DEF Goal
      <4> QED BY <1>1, <2>1, <2>3, <3>1, <4>5
    <3>4. CASE actual # N!NoNick /\ actual = n
      <4>1. UNCHANGED <<toBot, actual>>
        BY <3>1, <3>4
      <4>2. phase = "authed"
        BY <1>0, <2>1, <3>4 DEF NickInv, Registering, N!TypeOK
      <4>3. PICK h \in Histories : /\ History(h)
                                   /\ Assumed \/ \E j \in 0..Len(toBot) : Agrees(h, j)
        BY <4>2 DEF NickInv, Tracked
      <4>4. h \in Histories' /\ History(h)'
        BY <4>1, <4>3 DEF Histories, History, Follows, N!Nicks
      <4>5. ASSUME NEW j \in 0..Len(toBot), Agrees(h, j) PROVE Tracked'
        <5>1. Agrees(h, j)' /\ j \in 0..Len(toBot')
          BY <2>1, <4>1, <4>5 DEF Agrees, Ignores
        <5> QED BY <4>4, <5>1 DEF Tracked
      <4>6. CASE Assumed /\ current = n
        <5>1. Agrees(h, Len(toBot))
          BY <3>4, <4>3, <4>6 DEF Agrees, Assumed, History
        <5>2. Tracked'
          BY <1>0, <4>5, <5>1
        <5> QED BY <1>1, <2>1, <2>3, <3>1, <3>4, <4>1, <4>2, <5>2 DEF Goal, NickInv
      <4>7. CASE Assumed /\ current # n
        <5>1. PICK p \in 1..Len(toServer) : toServer[p] = current
          BY <4>7 DEF Assumed
        <5>2. p - 1 \in 1..Len(toServer') /\ toServer'[p - 1] = current
          BY <1>0, <2>1, <4>7, <5>1
        <5>3. Assumed'
          BY <2>1, <4>1, <4>7, <5>2 DEF Assumed, Ignores
        <5>4. Tracked'
          BY <4>4, <5>3 DEF Tracked
        <5> QED BY <1>1, <2>1, <2>3, <3>1, <3>4, <4>1, <4>2, <5>4 DEF Goal, NickInv
      <4>8. ASSUME Tracked' PROVE NickInv'
        BY <1>1, <2>1, <2>3, <3>1, <3>4, <4>1, <4>2, <4>8 DEF Goal, NickInv
      <4> QED BY <4>3, <4>5, <4>6, <4>7, <4>8
    <3> QED BY <3>2, <3>3, <3>4
  <2> QED BY <2>2, <2>3
<1>13. ASSUME NEW n \in Renames, N!ServerRenames(n) PROVE NickInv'
  <2> DEFINE m == [type |-> "NICK", old |-> actual, nick |-> n]
  <2>1. /\ actual # N!NoNick /\ n \notin taken /\ actual' = n /\ toBot' = Append(toBot, m)
        /\ UNCHANGED <<current, phase, taken, toServer>> /\ n \in N!Nicks
    BY <1>13 DEF N!ServerRenames, N!Answer, N!botVars
  <2>2. actual \in N!Nicks
    BY <1>0, <2>1 DEF N!TypeOK
  <2>3. m \in N!Msg /\ m.type = "NICK" /\ m.old = actual /\ m.nick = n
    BY <2>1, <2>2, MsgFacts
  <2>4. Follows(m, actual, n)
    BY <2>3 DEF Follows
  <2> HIDE DEF m
  <2>5. Goal
    BY <1>0, <2>1, <2>3, <2>4, NickSent DEF Goal
  <2> QED BY <1>1, <2>1, <2>5
<1>14. ASSUME NEW n \in Takeable, N!OtherTakes(n) \/ N!OtherLeaves(n) PROVE NickInv'
  <2>1. UNCHANGED <<toBot, actual, current, phase, toServer>> /\ actual' \notin taken'
    BY <1>14 DEF N!OtherTakes, N!OtherLeaves, N!botVars, N!netVars, NickInv
  <2> QED BY <1>1, <1>2, <2>1
<1>15. ASSUME NEW o \in Takeable, NEW n \in Takeable, N!OtherRenames(o, n) PROVE NickInv'
  <2> DEFINE m == [type |-> "NICK", old |-> o, nick |-> n]
  <2>1. /\ actual # N!NoNick /\ o \in taken /\ n # actual /\ toBot' = Append(toBot, m)
        /\ taken' = (taken \ {o}) \cup {n} /\ UNCHANGED <<current, phase, actual, toServer>>
    BY <1>15 DEF N!OtherRenames, N!Answer, N!botVars
  <2>2. actual \in N!Nicks /\ o # actual
    BY <1>0, <2>1 DEF N!TypeOK, NickInv
  <2>3. m \in N!Msg /\ m.type = "NICK" /\ m.old = o
    BY <2>1, <2>2, MsgFacts
  <2>4. Follows(m, actual, actual)
    BY <2>2, <2>3 DEF Follows, AlternatesFree
  <2> HIDE DEF m
  <2>5. Goal
    BY <1>0, <2>1, <2>2, <2>3, <2>4, NickSent DEF Goal
  <2>6. actual' \notin taken'
    BY <2>1 DEF NickInv
  <2> QED BY <1>1, <2>5, <2>6
<1>16. CASE UNCHANGED N!vars
  BY <1>1, <1>2, <1>16 DEF N!vars, NickInv
<1> QED BY <1>3, <1>4, <1>5, <1>6, <1>7, <1>8, <1>9, <1>10, <1>11, <1>12, <1>13, <1>14, <1>15,
           <1>16 DEF N!Next

\* Once every NICK is answered, current_nick is the nick the server has
\* (connect, generate_new_nick, on_welcome, on_nick), however requests,
\* refusals and renames crossed, unless givenick assumes an alternate another
\* user holds.
THEOREM KnowsItsNick ==
    ASSUME N!NickAssumption, AlternatesFree PROVE N!Spec => []N!NickKnown
<1>1. N!Init => NickInv
  BY NickInit
<1>2. NickInv /\ [N!Next]_N!vars => NickInv'
  BY NickStep
<1>3. NickInv => N!NickKnown
  <2>1. SUFFICES ASSUME NickInv, phase = "authed", toServer = <<>>, toBot = <<>>
                 PROVE  current = actual
    BY DEF N!NickKnown
  <2>2. ~Assumed
    BY <2>1 DEF Assumed
  <2>3. PICK h \in Histories : History(h) /\ \E j \in 0..Len(toBot) : Agrees(h, j)
    BY <2>1, <2>2 DEF NickInv, Tracked
  <2>4. Len(toBot) = 0
    BY <2>1
  <2> QED BY <2>3, <2>4 DEF History, Agrees
<1> QED BY <1>1, <1>2, <1>3, PTL DEF N!Spec
---------------------------------------------------------------------------
(***************************************************************************)
(* The hub link.                                                           *)
(***************************************************************************)
CONSTANTS Hub, Pinned, Delay, HoldOff, Zombie, MaxKey, HubBudget, Loss, Kill
VARIABLES hubs, current_hub, auth, keyed, hubSince, sinceActivity, myKey, diskKey, pc,
          regKey, toHub, hubLines, verified, hubLeft
H == INSTANCE HubLink WITH sinceAttempt <- hubSince, toBot <- hubLines, left <- hubLeft,
                           Budget <- HubBudget

\* Both queues hold frames; keys are numbers.
HubQueues == /\ toHub \in Seq(H!Frames)
             /\ hubLines \in Seq({"challenge", "forged", "ack", "data"})
             /\ myKey \in 1..MaxKey /\ diskKey \in 1..MaxKey /\ regKey \in 1..MaxKey
             /\ pc \in {"idle", "rekey"} /\ (pc = "rekey" => myKey < MaxKey)

\* A socket is one to a listed and pinned hub, and from the signature on its
\* handshake has been verified.
HubSound == /\ auth \in {"None", "SentUuid", "SentSignature", "Complete"}
            /\ auth = "None" <=> current_hub = "none"
            /\ current_hub # "none" => current_hub \in Pinned \cap hubs
            /\ auth \in {"SentSignature", "Complete"} => keyed = TRUE /\ verified = TRUE
            /\ hubs \subseteq Hub

---------------------------------------------------------------------------
LEMMA HubNames ==
    ASSUME H!HubLinkAssumption
    PROVE  "none" \notin Hub /\ Pinned \subseteq Hub /\ MaxKey \in Nat \ {0}
BY DEF H!HubLinkAssumption

\* A dial ends without a link or starts a handshake with a pinned hub.
LEMMA DialsSound ==
    ASSUME H!HubLinkAssumption, NEW h \in hubs', hubs' \subseteq Hub, H!Dials(h)
    PROVE  HubSound'
BY HubNames DEF H!Dials, H!NoLink, HubSound

LEMMA NoLinkSound == ASSUME hubs' \subseteq Hub, H!NoLink PROVE HubSound'
BY DEF H!NoLink, HubSound

LEMMA InitHub == H!Init => HubSound
BY DEF H!Init, HubSound

LEMMA StepHub == ASSUME H!HubLinkAssumption, HubSound, [H!Next]_H!vars PROVE HubSound'
<1>0. hubs \subseteq Hub
  BY DEF HubSound
<1>1. CASE H!connect
  <2>1. PICK h \in hubs : H!Dials(h)
    BY <1>1 DEF H!connect
  <2>2. hubs' = hubs
    BY <1>1 DEF H!connect
  <2> QED BY <1>0, <2>1, <2>2, DialsSound
<1>2. CASE H!handle_challenge
  <2>1. CASE H!SignatureOK(Head(hubLines))
    <3>1. /\ auth' = "SentSignature" /\ keyed' = TRUE /\ verified' = (Head(hubLines) = "challenge")
          /\ UNCHANGED <<hubs, current_hub>> /\ auth = "SentUuid"
      BY <1>2, <2>1, Zenon DEF H!handle_challenge
    <3>2. verified' = TRUE
      BY <2>1, <3>1 DEF H!SignatureOK
    <3> QED BY <3>1, <3>2 DEF HubSound
  <2>2. CASE ~H!SignatureOK(Head(hubLines))
    BY <1>0, <1>2, <2>2, NoLinkSound DEF H!handle_challenge, H!disconnect
  <2> QED BY <2>1, <2>2
<1>3. CASE H!handle_ack \/ H!HandleData \/ H!Tick
  BY <1>3 DEF H!handle_ack, H!HandleData, H!Receive, H!Tick, HubSound
<1>4. CASE H!Lost \/ H!Watchdog
  BY <1>0, <1>4, NoLinkSound DEF H!Lost, H!Watchdog, H!disconnect
<1>5. ASSUME NEW h \in Hub, H!cmd_add_hub(h) PROVE HubSound'
  <2>1. hubs' = hubs \cup {h} /\ hubs' \subseteq Hub
    BY <1>0, <1>5 DEF H!cmd_add_hub
  <2>2. CASE current_hub = "none"
    <3>1. PICK g \in hubs' : H!Dials(g)
      BY <1>5, <2>2 DEF H!cmd_add_hub
    <3> QED BY <2>1, <3>1, DialsSound
  <2>3. CASE current_hub # "none"
    <3>1. UNCHANGED <<current_hub, auth, keyed, verified>>
      BY <1>5, <2>3 DEF H!cmd_add_hub, H!linkVars
    <3> QED BY <2>1, <3>1 DEF HubSound
  <2> QED BY <2>2, <2>3
<1>6. ASSUME NEW h \in Hub, H!cmd_del_hub(h) PROVE HubSound'
  <2>1. hubs' = hubs \ {h} /\ hubs' \subseteq Hub
    BY <1>0, <1>6 DEF H!cmd_del_hub
  <2>2. CASE current_hub # h
    <3>1. UNCHANGED <<current_hub, auth, keyed, verified>>
      BY <1>6, <2>2 DEF H!cmd_del_hub, H!linkVars
    <3> QED BY <2>1, <2>2, <3>1 DEF HubSound
  <2>3. CASE current_hub = h /\ hubs' = {}
    BY <1>6, <2>1, <2>3, NoLinkSound DEF H!cmd_del_hub, H!disconnect
  <2>4. CASE current_hub = h /\ hubs' # {}
    <3>1. PICK g \in hubs' : H!Dials(g)
      BY <1>6, <2>4 DEF H!cmd_del_hub
    <3> QED BY <2>1, <3>1, DialsSound
  <2> QED BY <2>2, <2>3, <2>4
<1>7. CASE H!RekeyPush \/ H!Forge \/ H!HubSends
  BY <1>7 DEF H!RekeyPush, H!Forge, H!HubSends, H!linkVars, HubSound
<1>8. CASE H!RekeySave
  <2>1. PICK g \in hubs : H!Dials(g)
    BY <1>8 DEF H!RekeySave
  <2>2. hubs' = hubs
    BY <1>8 DEF H!RekeySave
  <2> QED BY <1>0, <2>1, <2>2, DialsSound
<1>9. CASE H!Restart
  BY <1>0, <1>9, NoLinkSound DEF H!Restart
<1>10. CASE H!HubAnswers
  <2>1. hubs' = hubs
    BY <1>10 DEF H!HubAnswers
  <2>2. H!NoLink \/ UNCHANGED <<current_hub, auth, keyed, verified>>
    BY <1>10 DEF H!HubAnswers, H!disconnect, H!linkVars
  <2>3. CASE H!NoLink
    BY <1>0, <2>1, <2>3, NoLinkSound
  <2>4. CASE UNCHANGED <<current_hub, auth, keyed, verified>>
    BY <2>1, <2>4 DEF HubSound
  <2> QED BY <2>2, <2>3, <2>4
<1>11. CASE UNCHANGED H!vars
  BY <1>11 DEF H!vars, HubSound
<1> QED BY <1>1, <1>2, <1>3, <1>4, <1>5, <1>6, <1>7, <1>8, <1>9, <1>10, <1>11 DEF H!Next

\* "Authenticate against this hub's own pinned key, or not at all", whatever
\* links, rekeys, restarts and changes of the hub list came before
\* (handle_challenge, handle_ack, disconnect, cmd_del_hub).
THEOREM OnlyVerifiedHubs ==
    ASSUME H!HubLinkAssumption PROVE H!Spec => []H!AuthenticatedIsVerified
<1>1. HubSound /\ [H!Next]_H!vars => HubSound'
  BY StepHub
<1>2. HubSound => H!AuthenticatedIsVerified
  BY DEF HubSound, H!AuthenticatedIsVerified
<1> QED BY InitHub, <1>1, <1>2, PTL DEF H!Spec
---------------------------------------------------------------------------
(***************************************************************************)
(* The key the hub has for the bot.                                        *)
(***************************************************************************)
NoKeyIn(fs) == \A i \in 1..Len(fs) : fs[i].type # "pub"

\* Once the hub has read the frames fs it has key k.
Ends(fs, k) == \/ regKey = k /\ NoKeyIn(fs)
               \/ \E i \in 1..Len(fs) : /\ fs[i] = H!Frame("pub", k)
                                        /\ \A j \in 1..Len(fs) : fs[j].type = "pub" => j <= i

\* The key the bot is going to sign with next.
NextKey == IF pc = "rekey" THEN myKey + 1 ELSE myKey

\* The hub ends up with the bot's key; new keys travel on authenticated links
\* only, and the file has the key in memory.
KeySound == /\ HubQueues /\ diskKey = myKey
            /\ Ends(toHub, NextKey)
            /\ auth # "Complete" => NoKeyIn(toHub)

LEMMA FrameTypes ==
    /\ H!Frame("uuid", 0) \in H!Frames /\ H!Frame("uuid", 0).type = "uuid"
    /\ \A k \in 1..MaxKey : /\ H!Frame("sig", k) \in H!Frames /\ H!Frame("sig", k).type = "sig"
                            /\ H!Frame("pub", k) \in H!Frames /\ H!Frame("pub", k).type = "pub"
                            /\ H!Frame("pub", k).key = k
    /\ \A f \in H!Frames : /\ f.type \in {"uuid", "sig", "pub"}
                         /\ f.type = "pub" => f.key \in 1..MaxKey /\ f = H!Frame("pub", f.key)
<1>1. H!Frame("uuid", 0) \in H!Frames /\ H!Frame("uuid", 0).type = "uuid"
  BY DEF H!Frames, H!Frame
<1>2. ASSUME NEW k \in 1..MaxKey, NEW t \in {"sig", "pub"}
      PROVE  H!Frame(t, k) \in H!Frames /\ H!Frame(t, k).type = t /\ H!Frame(t, k).key = k
  BY DEF H!Frames, H!Frame
<1>3. ASSUME NEW f \in H!Frames
      PROVE  /\ f.type \in {"uuid", "sig", "pub"}
             /\ f.type = "pub" => f.key \in 1..MaxKey /\ f = H!Frame("pub", f.key)
  <2>1. CASE f = H!Frame("uuid", 0)
    BY <1>1, <2>1
  <2>2. CASE f # H!Frame("uuid", 0)
    <3>1. PICK t \in {"sig", "pub"}, k \in 1..MaxKey : f = H!Frame(t, k)
      BY <2>2 DEF H!Frames
    <3> QED BY <1>2, <3>1
  <2> QED BY <2>1, <2>2
<1> QED BY <1>1, <1>2, <1>3

\* A closed link whose frames are not lost leaves the hub with that key.
LEMMA FlushedEnds ==
    ASSUME ~Loss, toHub \in Seq(H!Frames), NEW k \in 1..MaxKey, Ends(toHub, k), H!Flushed(toHub)
    PROVE  regKey' = k
<1>1. Len(toHub) \in Nat
  BY LenProperties
<1>2. regKey' = H!LastKey(SubSeq(toHub, 1, Len(toHub)))
  BY <1>1 DEF H!Flushed
<1>3. SubSeq(toHub, 1, Len(toHub)) = toHub
  BY SubSeqFull
<1>4. regKey' = H!LastKey(toHub)
  BY <1>2, <1>3
<1>5. CASE NoKeyIn(toHub) /\ regKey = k
  <2>1. H!Registers(toHub) = {}
    BY <1>5 DEF NoKeyIn, H!Registers
  <2> QED BY <1>4, <1>5, <2>1 DEF H!LastKey
<1>6. CASE \E i \in 1..Len(toHub) : /\ toHub[i] = H!Frame("pub", k)
                                    /\ \A j \in 1..Len(toHub) : toHub[j].type = "pub" => j <= i
  <2>1. PICK i \in 1..Len(toHub) : /\ toHub[i] = H!Frame("pub", k)
                                   /\ \A j \in 1..Len(toHub) : toHub[j].type = "pub" => j <= i
    BY <1>6
  <2> DEFINE R == H!Registers(toHub)
  <2>2. i \in R /\ R \subseteq 1..Len(toHub) /\ \A j \in R : j <= i
    BY <2>1, FrameTypes DEF H!Registers
  <2>3. H!LastKey(toHub) = toHub[CHOOSE m \in R : \A j \in R : j <= m].key
    BY <2>2 DEF H!LastKey
  <2> HIDE DEF R
  <2>4. (CHOOSE m \in R : \A j \in R : j <= m) = i
    <3>1. \A m \in R : (\A j \in R : j <= m) => m = i
      BY <1>1, <2>2
    <3> QED BY <2>2, <3>1
  <2>5. H!LastKey(toHub) = toHub[i].key
    BY <2>3, <2>4, Zenon
  <2>6. toHub[i].key = k
    BY <2>1 DEF H!Frame
  <2> QED BY <1>4, <2>5, <2>6
<1>7. \/ NoKeyIn(toHub) /\ regKey = k
      \/ \E i \in 1..Len(toHub) : /\ toHub[i] = H!Frame("pub", k)
                                  /\ \A j \in 1..Len(toHub) : toHub[j].type = "pub" => j <= i
  BY Zenon DEF Ends
<1> QED BY <1>5, <1>6, <1>7

\* What a closed link and a dial leave of the queues.
LEMMA Closed ==
    ASSUME KeySound, ~Loss, H!Flushed(toHub), NextKey \in 1..MaxKey,
           myKey' = NextKey, diskKey' = myKey', pc' = "idle",
           toHub' = <<>> \/ toHub' = <<H!Frame("uuid", 0)>>, hubLines' = <<>>
    PROVE  KeySound'
<1>1. regKey' = NextKey
  BY FlushedEnds DEF KeySound, HubQueues
<1>2. toHub' \in Seq(H!Frames) /\ NoKeyIn(toHub)'
  <2>1. CASE toHub' = <<>>
    BY <2>1, EmptySeq DEF NoKeyIn
  <2>2. CASE toHub' = <<H!Frame("uuid", 0)>>
    <3>1. /\ toHub' \in Seq(H!Frames) /\ Len(toHub') = 1 /\ toHub'[1].type = "uuid"
      BY <2>2, FrameTypes
    <3> QED BY <3>1 DEF NoKeyIn
  <2> QED BY <2>1, <2>2
<1>3. HubQueues'
  BY <1>1, <1>2 DEF HubQueues
<1>4. Ends(toHub, NextKey)'
  BY <1>1, <1>2 DEF Ends, NextKey
<1> QED BY <1>2, <1>3, <1>4 DEF KeySound

LEMMA DialQueues == ASSUME NEW h, H!Dials(h)
                    PROVE  (toHub' = <<>> \/ toHub' = <<H!Frame("uuid", 0)>>) /\ hubLines' = <<>>
BY DEF H!Dials, H!NoLink

\* A frame without a key is added, or read by the hub.
LEMMA EndsAppend ==
    ASSUME toHub \in Seq(H!Frames), NEW k, Ends(toHub, k), NEW f \in H!Frames, f.type # "pub",
           toHub' = Append(toHub, f), regKey' = regKey
    PROVE  (\/ regKey' = k /\ NoKeyIn(toHub')
            \/ \E i \in 1..Len(toHub') : /\ toHub'[i] = H!Frame("pub", k)
                                         /\ \A j \in 1..Len(toHub') : toHub'[j].type = "pub" => j <= i)
           /\ (NoKeyIn(toHub) => NoKeyIn(toHub'))
<1>1. /\ Len(toHub) \in Nat /\ Len(toHub') = Len(toHub) + 1
      /\ \A i \in 1..Len(toHub) : toHub'[i] = toHub[i]
      /\ toHub'[Len(toHub) + 1] = f
  BY AppendProperties, LenProperties
<1>2. \A i \in 1..Len(toHub') : i \in 1..Len(toHub) \/ i = Len(toHub) + 1
  BY <1>1
<1>3. NoKeyIn(toHub) => NoKeyIn(toHub')
  BY <1>1, <1>2 DEF NoKeyIn
<1>4. ASSUME NEW i \in 1..Len(toHub), toHub[i] = H!Frame("pub", k),
             \A j \in 1..Len(toHub) : toHub[j].type = "pub" => j <= i
      PROVE  /\ i \in 1..Len(toHub') /\ toHub'[i] = H!Frame("pub", k)
             /\ \A j \in 1..Len(toHub') : toHub'[j].type = "pub" => j <= i
  BY <1>1, <1>2, <1>4
<1> QED BY <1>3, <1>4 DEF Ends

LEMMA EndsTail ==
    ASSUME toHub \in Seq(H!Frames), NEW k \in 1..MaxKey, Ends(toHub, k), toHub # <<>>,
           toHub' = Tail(toHub),
           regKey' = IF Head(toHub).type = "pub" THEN Head(toHub).key ELSE regKey
    PROVE  (\/ regKey' = k /\ NoKeyIn(toHub')
            \/ \E i \in 1..Len(toHub') : /\ toHub'[i] = H!Frame("pub", k)
                                         /\ \A j \in 1..Len(toHub') : toHub'[j].type = "pub" => j <= i)
           /\ (NoKeyIn(toHub) => NoKeyIn(toHub'))
<1>1. /\ Len(toHub) \in Nat \ {0} /\ Len(toHub') = Len(toHub) - 1
      /\ \A i \in 1..Len(toHub') : toHub'[i] = toHub[i + 1] /\ i + 1 \in 1..Len(toHub)
      /\ Head(toHub) = toHub[1]
  BY HeadTailProperties, LenProperties, EmptySeq
<1>2. NoKeyIn(toHub) => NoKeyIn(toHub')
  BY <1>1 DEF NoKeyIn
<1>3. CASE regKey = k /\ NoKeyIn(toHub)
  <2>1. Head(toHub).type # "pub"
    BY <1>1, <1>3 DEF NoKeyIn
  <2> QED BY <1>2, <1>3, <2>1
<1>4. ASSUME NEW i \in 1..Len(toHub), toHub[i] = H!Frame("pub", k),
             \A j \in 1..Len(toHub) : toHub[j].type = "pub" => j <= i
      PROVE  \/ regKey' = k /\ NoKeyIn(toHub')
             \/ \E m \in 1..Len(toHub') : /\ toHub'[m] = H!Frame("pub", k)
                                          /\ \A j \in 1..Len(toHub') : toHub'[j].type = "pub" => j <= m
  <2>1. CASE i = 1
    <3>1. regKey' = k
      BY <1>1, <1>4, <2>1, FrameTypes
    <3>2. NoKeyIn(toHub')
      BY <1>1, <1>4, <2>1 DEF NoKeyIn
    <3> QED BY <3>1, <3>2
  <2>2. CASE i # 1
    <3>1. i - 1 \in 1..Len(toHub') /\ toHub'[i - 1] = H!Frame("pub", k)
      BY <1>1, <1>4, <2>2
    <3>2. ASSUME NEW j \in 1..Len(toHub'), toHub'[j].type = "pub" PROVE j <= i - 1
      BY <1>1, <1>4, <3>2
    <3> QED BY <3>1, <3>2
  <2> QED BY <2>1, <2>2
<1>5. \/ regKey = k /\ NoKeyIn(toHub)
      \/ \E i \in 1..Len(toHub) : /\ toHub[i] = H!Frame("pub", k)
                                  /\ \A j \in 1..Len(toHub) : toHub[j].type = "pub" => j <= i
  BY Zenon DEF Ends
<1> QED BY <1>2, <1>3, <1>4, <1>5

LEMMA InitKey == ASSUME H!HubLinkAssumption PROVE H!Init => KeySound
BY HubNames, EmptySeq DEF H!Init, KeySound, HubQueues, Ends, NextKey, NoKeyIn

\* Steps that leave keys and the queue to the hub alone.
LEMMA KeyUntouched ==
    ASSUME KeySound, UNCHANGED <<toHub, myKey, diskKey, regKey, pc>>,
           hubLines' \in Seq({"challenge", "forged", "ack", "data"}),
           auth' = "Complete" \/ auth' = auth
    PROVE  KeySound'
BY DEF KeySound, HubQueues, Ends, NextKey, NoKeyIn

\* Frames that carry no key may be dropped.
LEMMA KeyFresh ==
    ASSUME H!HubLinkAssumption, KeySound, NoKeyIn(toHub), UNCHANGED <<myKey, diskKey, regKey, pc>>,
           toHub' = <<>> \/ toHub' = <<H!Frame("uuid", 0)>>,
           hubLines' \in Seq({"challenge", "forged", "ack", "data"})
    PROVE  KeySound'
<1>1. regKey = NextKey
  <2>1. \A i \in 1..Len(toHub), k \in 1..MaxKey : toHub[i] # H!Frame("pub", k)
    BY FrameTypes DEF NoKeyIn
  <2>2. NextKey \in 1..MaxKey
    BY HubNames DEF KeySound, HubQueues, NextKey
  <2> QED BY <2>1, <2>2 DEF KeySound, Ends
<1>2. toHub' \in Seq(H!Frames) /\ NoKeyIn(toHub)'
  <2>1. CASE toHub' = <<>>
    BY <2>1, EmptySeq DEF NoKeyIn
  <2>2. CASE toHub' = <<H!Frame("uuid", 0)>>
    <3>1. /\ toHub' \in Seq(H!Frames) /\ Len(toHub') = 1 /\ toHub'[1].type = "uuid"
      BY <2>2, FrameTypes
    <3> QED BY <3>1 DEF NoKeyIn
  <2> QED BY <2>1, <2>2
<1>3. HubQueues'
  BY <1>2 DEF KeySound, HubQueues
<1>4. Ends(toHub, NextKey)'
  BY <1>1, <1>2 DEF Ends, NextKey
<1> QED BY <1>2, <1>3, <1>4 DEF KeySound

\* The bot's answer to the challenge.
LEMMA KeySigned ==
    ASSUME KeySound, toHub' = Append(toHub, H!Frame("sig", myKey)), hubLines # <<>>, hubLines' = Tail(hubLines),
           UNCHANGED <<myKey, diskKey, regKey, pc>>, auth # "Complete"
    PROVE  KeySound'
<1>1. /\ toHub \in Seq(H!Frames) /\ H!Frame("sig", myKey) \in H!Frames
      /\ H!Frame("sig", myKey).type # "pub" /\ Ends(toHub, NextKey) /\ NoKeyIn(toHub)
  BY FrameTypes DEF KeySound, HubQueues
<1>2. toHub' \in Seq(H!Frames)
  BY <1>1, AppendProperties
<1>3. hubLines' \in Seq({"challenge", "forged", "ack", "data"})
  BY HeadTailProperties DEF KeySound, HubQueues
<1>4. NoKeyIn(toHub')
  BY <1>1, EndsAppend
<1>5. \/ regKey' = NextKey /\ NoKeyIn(toHub')
      \/ \E i \in 1..Len(toHub') : /\ toHub'[i] = H!Frame("pub", NextKey)
                                   /\ \A j \in 1..Len(toHub') : toHub'[j].type = "pub" => j <= i
  BY <1>1, EndsAppend
<1>6. NextKey' = NextKey
  BY DEF NextKey
<1>7. Ends(toHub, NextKey)'
  BY <1>5, <1>6 DEF Ends, NoKeyIn
<1>8. HubQueues'
  BY <1>2, <1>3 DEF KeySound, HubQueues
<1> QED BY <1>4, <1>7, <1>8 DEF KeySound, NoKeyIn

\* rekey: the new key is the last the hub will read.
LEMMA KeyPushed ==
    ASSUME H!HubLinkAssumption, KeySound, H!RekeyPush
    PROVE  KeySound'
<1> DEFINE f == H!Frame("pub", myKey + 1)
           n == Len(toHub)
<1>1. /\ toHub \in Seq(H!Frames) /\ myKey + 1 \in 1..MaxKey /\ f \in H!Frames /\ n \in Nat
      /\ toHub' = Append(toHub, f) /\ pc' = "rekey" /\ auth' = "Complete"
      /\ UNCHANGED <<myKey, diskKey, regKey, hubLines>>
  BY HubNames, FrameTypes, LenProperties DEF KeySound, HubQueues, H!RekeyPush, H!linkVars, H!keyVars
<1>2. /\ toHub' \in Seq(H!Frames) /\ Len(toHub') = n + 1 /\ toHub'[n + 1] = f
  BY <1>1, AppendProperties
<1> HIDE DEF f, n
<1>3. n + 1 \in 1..Len(toHub') /\ \A j \in 1..Len(toHub') : j <= n + 1
  BY <1>1, <1>2
<1>4. Ends(toHub, NextKey)'
  BY <1>1, <1>2, <1>3 DEF Ends, NextKey, f
<1>5. HubQueues'
  BY <1>1, <1>2, HubNames DEF KeySound, HubQueues, H!RekeyPush
<1> QED BY <1>1, <1>4, <1>5 DEF KeySound

\* The hub reads a frame.
LEMMA KeyRead ==
    ASSUME H!HubLinkAssumption, KeySound, toHub # <<>>, toHub' = Tail(toHub),
           regKey' = IF Head(toHub).type = "pub" THEN Head(toHub).key ELSE regKey,
           hubLines' \in Seq({"challenge", "forged", "ack", "data"}),
           UNCHANGED <<myKey, diskKey, pc, auth>>
    PROVE  KeySound'
<1>1. toHub \in Seq(H!Frames) /\ Ends(toHub, NextKey) /\ NextKey \in 1..MaxKey
  BY HubNames DEF KeySound, HubQueues, NextKey
<1>2. toHub' \in Seq(H!Frames) /\ Head(toHub) \in H!Frames
  BY <1>1, HeadTailProperties
<1>3. regKey' \in 1..MaxKey
  BY <1>2, FrameTypes DEF KeySound, HubQueues
<1>4. \/ regKey' = NextKey /\ NoKeyIn(toHub')
      \/ \E i \in 1..Len(toHub') : /\ toHub'[i] = H!Frame("pub", NextKey)
                                   /\ \A j \in 1..Len(toHub') : toHub'[j].type = "pub" => j <= i
  BY <1>1, EndsTail
<1>5. NoKeyIn(toHub) => NoKeyIn(toHub')
  BY <1>1, EndsTail
<1>6. NextKey' = NextKey
  BY DEF NextKey
<1>7. Ends(toHub, NextKey)'
  BY <1>4, <1>6 DEF Ends, NoKeyIn
<1>8. HubQueues'
  BY <1>2, <1>3 DEF KeySound, HubQueues
<1> QED BY <1>5, <1>7, <1>8 DEF KeySound, NoKeyIn

LEMMA StepKey ==
    ASSUME H!HubLinkAssumption, ~Loss, ~Kill, HubSound, KeySound, [H!Next]_H!vars
    PROVE  KeySound'
<1> DEFINE B == {"challenge", "forged", "ack", "data"}
<1>0. /\ toHub \in Seq(H!Frames) /\ hubLines \in Seq(B) /\ NextKey \in 1..MaxKey
      /\ diskKey = myKey /\ Ends(toHub, NextKey) /\ pc \in {"idle", "rekey"}
      /\ (pc = "idle" => NextKey = myKey) /\ (pc = "rekey" => NextKey = myKey + 1)
  BY HubNames DEF KeySound, HubQueues, NextKey
<1>a. auth # "Complete" => NoKeyIn(toHub)
  BY DEF KeySound
<1>b. current_hub = "none" => auth # "Complete"
  BY DEF HubSound
<1>c. <<>> \in Seq(B) /\ \A t \in B : <<t>> \in Seq(B) /\ Append(hubLines, t) \in Seq(B)
  BY <1>0, EmptySeq, AppendProperties
<1>d. hubLines # <<>> => Tail(hubLines) \in Seq(B)
  BY <1>0, HeadTailProperties
<1>1. CASE H!connect
  <2>1. PICK h \in hubs : H!Dials(h)
    BY <1>1 DEF H!connect
  <2>2. current_hub = "none" /\ UNCHANGED <<myKey, diskKey, regKey, pc>>
    BY <1>1 DEF H!connect, H!keyVars
  <2> QED BY <1>a, <1>b, <1>c, <2>1, <2>2, DialQueues, KeyFresh
<1>2. CASE H!handle_challenge
  <2>1. /\ pc = "idle" /\ pc' = "idle" /\ UNCHANGED <<myKey, diskKey>> /\ auth = "SentUuid"
        /\ hubLines # <<>>
    BY <1>2 DEF H!handle_challenge, H!Receive
  <2>2. CASE H!SignatureOK(Head(hubLines))
    BY <1>2, <2>1, <2>2, KeySigned DEF H!handle_challenge, H!Answered
  <2>3. CASE ~H!SignatureOK(Head(hubLines))
    BY <1>0, <1>2, <2>1, <2>3, Closed DEF H!handle_challenge, H!disconnect, H!NoLink
  <2> QED BY <2>2, <2>3
<1>3. CASE H!handle_ack \/ H!HandleData
  BY <1>d, <1>3, KeyUntouched DEF H!handle_ack, H!HandleData, H!Receive, H!keyVars
<1>4. CASE H!Lost \/ H!Watchdog
  BY <1>0, <1>4, Closed DEF H!Lost, H!Watchdog, H!disconnect, H!NoLink
<1>5. ASSUME NEW h \in Hub, H!cmd_add_hub(h) PROVE KeySound'
  <2>1. UNCHANGED <<myKey, diskKey, regKey, pc>>
    BY <1>5 DEF H!cmd_add_hub, H!keyVars
  <2>2. CASE current_hub = "none"
    <3>1. PICK g \in hubs' : H!Dials(g)
      BY <1>5, <2>2 DEF H!cmd_add_hub
    <3> QED BY <1>a, <1>b, <1>c, <2>1, <2>2, <3>1, DialQueues, KeyFresh
  <2>3. CASE current_hub # "none"
    BY <1>0, <1>5, <2>1, <2>3, KeyUntouched DEF H!cmd_add_hub, H!linkVars
  <2> QED BY <2>2, <2>3
<1>6. ASSUME NEW h \in Hub, H!cmd_del_hub(h) PROVE KeySound'
  <2>1. pc = "idle" /\ pc' = "idle" /\ UNCHANGED <<myKey, diskKey>>
    BY <1>6 DEF H!cmd_del_hub
  <2>2. CASE current_hub # h
    BY <1>0, <1>6, <2>1, <2>2, KeyUntouched DEF H!cmd_del_hub, H!linkVars
  <2>3. CASE current_hub = h /\ hubs' = {}
    BY <1>0, <1>6, <2>1, <2>3, Closed DEF H!cmd_del_hub, H!disconnect, H!NoLink
  <2>4. CASE current_hub = h /\ hubs' # {}
    <3>1. PICK g \in hubs' : H!Dials(g)
      BY <1>6, <2>4 DEF H!cmd_del_hub
    <3>2. H!Flushed(toHub)
      BY <1>6, <2>4 DEF H!cmd_del_hub
    <3> QED BY <1>0, <2>1, <3>1, <3>2, DialQueues, Closed
  <2> QED BY <2>2, <2>3, <2>4
<1>7. CASE H!RekeyPush
  BY <1>7, KeyPushed
<1>8. CASE H!RekeySave
  <2>1. PICK g \in hubs : H!Dials(g)
    BY <1>8 DEF H!RekeySave
  <2>2. H!Flushed(toHub) /\ pc = "rekey" /\ pc' = "idle" /\ myKey' = myKey + 1 /\ diskKey' = myKey + 1
    BY <1>8 DEF H!RekeySave
  <2> QED BY <1>0, <2>1, <2>2, DialQueues, Closed
<1>9. CASE H!Restart
  BY <1>0, <1>9, Closed DEF H!Restart, H!NoLink
<1>10. CASE H!Tick
  BY <1>0, <1>10, KeyUntouched DEF H!Tick, H!keyVars
<1>11. CASE H!HubAnswers
  <2> DEFINE f == Head(toHub)
  <2>1. toHub # <<>> /\ UNCHANGED <<myKey, diskKey, pc>>
    BY <1>11 DEF H!HubAnswers
  <2>2. CASE f.type = "uuid"
    BY <1>11, <1>c, <2>1, <2>2, KeyRead DEF H!HubAnswers
  <2>3. CASE f.type = "sig" /\ f.key = regKey
    BY <1>11, <1>c, <2>1, <2>3, KeyRead DEF H!HubAnswers
  <2>4. CASE f.type = "sig" /\ f.key # regKey
    BY <1>0, <1>11, <2>1, <2>4, Closed DEF H!HubAnswers, H!disconnect, H!NoLink
  <2>5. CASE f.type = "pub"
    BY <1>0, <1>11, <2>1, <2>5, KeyRead DEF H!HubAnswers, H!linkVars
  <2> QED BY <1>11, <2>2, <2>3, <2>4, <2>5 DEF H!HubAnswers
<1>12. CASE H!Forge
  BY <1>a, <1>c, <1>12, KeyFresh DEF H!Forge, H!keyVars
<1>13. CASE H!HubSends
  BY <1>c, <1>13, KeyUntouched DEF H!HubSends, H!keyVars
<1>14. CASE UNCHANGED H!vars
  BY <1>0, <1>14, KeyUntouched DEF H!vars
<1> QED BY <1>1, <1>2, <1>3, <1>4, <1>5, <1>6, <1>7, <1>8, <1>9, <1>10, <1>11, <1>12, <1>13,
           <1>14 DEF H!Next

\* "The new PUBLIC key is pushed under the current (old-key) session first;
\* only if that succeeds is the new private key committed" (rekey): as long as
\* frames are not lost with their link and the process is not killed within
\* rekey, the hub has the bot's key or is about to read it.
THEOREM KeyNeverLost ==
    ASSUME H!HubLinkAssumption, ~Loss, ~Kill PROVE H!Spec => []H!KeyRegistered
<1>1. HubSound /\ [H!Next]_H!vars => HubSound'
  BY StepHub
<1>2. HubSound /\ KeySound /\ [H!Next]_H!vars => KeySound'
  BY StepKey
<1>3. KeySound => H!KeyRegistered
  BY DEF KeySound, H!KeyRegistered, Ends, NextKey
<1> QED BY InitHub, InitKey, <1>1, <1>2, <1>3, PTL DEF H!Spec
=============================================================================
