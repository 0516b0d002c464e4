------------------------ MODULE AccountAndChatProofs ------------------------
(***************************************************************************)
(* What is proved of CustomerAccount: that the addresses of the            *)
(* application end as the server's, that a rating told to be kept is, and  *)
(* that the inbox ends as the newest that the server has.  And of Chat:    *)
(* that a window shows a message once, that a text is sent once, and that  *)
(* a window ends as its chat does.  Both rest on the same lemmas about     *)
(* what is left of a list.                                                 *)
(***************************************************************************)
EXTENDS CustomerAccount, Chat, FiniteSetTheorems, TLAPS

-----------------------------------------------------------------------------
(* Lists: what is left of one, and how many it has                         *)

\* The least number of a set.
LEMMA Least ==
  ASSUME NEW S \in SUBSET Nat, S # {}
  PROVE  \E m \in S : \A i \in S : m <= i
<1>1. PICK R : R = OpToRel(<, Nat)
  OBVIOUS
<1>2. IsWellFoundedOn(R, Nat)
  BY <1>1, NatLessThanWellFounded
<1>3. PICK m \in S : \A i \in S : ~(<<i, m>> \in R)
  BY <1>2, WFMin
<1>4. \A i \in S : i < m => <<i, m>> \in R
  BY <1>1 DEF OpToRel
<1>5. \A i \in S : ~(i < m)
  BY <1>3, <1>4, Zenon
<1>6. \A i \in S : i \in Nat /\ m \in Nat
  OBVIOUS
<1> QED
  BY <1>5, <1>6

\* The place of i among those of K.
Rank(K, i) == Cardinality({j \in K : j <= i})

LEMMA RankGrows ==
  ASSUME NEW n \in Nat, NEW K \in SUBSET (1 .. n)
  PROVE  /\ IsFiniteSet(K) /\ Cardinality(K) \in Nat
         /\ Rank(K, 0) = 0 /\ Rank(K, n) = Cardinality(K)
         /\ \A i \in Nat : Rank(K, i) \in Nat
         /\ \A i \in 1 .. n : Rank(K, i) = IF i \in K THEN Rank(K, i - 1) + 1 ELSE Rank(K, i - 1)
<1>0. \A j \in K : j \in Nat /\ 1 <= j /\ j <= n
  OBVIOUS
<1>1. IsFiniteSet(1 .. n)
  BY FS_Interval
<1>2. \A S \in SUBSET (1 .. n) : IsFiniteSet(S) /\ Cardinality(S) \in Nat
  BY <1>1, FS_Subset, FS_CardinalityType
<1>3. Rank(K, 0) = 0
  <2>1. \A j \in K : ~(j <= 0)
    BY <1>0
  <2>2. {j \in K : j <= 0} = {}
    BY <2>1, Zenon
  <2> QED
    BY <2>2, FS_EmptySet DEF Rank
<1>4. Rank(K, n) = Cardinality(K)
  <2>1. {j \in K : j <= n} = K
    BY <1>0
  <2> QED
    BY <2>1 DEF Rank
<1>5. \A i \in Nat : Rank(K, i) \in Nat
  <2> SUFFICES ASSUME NEW i \in Nat PROVE Rank(K, i) \in Nat
    OBVIOUS
  <2>1. {j \in K : j <= i} \in SUBSET (1 .. n)
    OBVIOUS
  <2> QED
    BY <1>2, <2>1 DEF Rank
<1>6. ASSUME NEW i \in 1 .. n
      PROVE  Rank(K, i) = IF i \in K THEN Rank(K, i - 1) + 1 ELSE Rank(K, i - 1)
  <2>1. PICK S : S = {j \in K : j <= i - 1} /\ S \in SUBSET (1 .. n)
    OBVIOUS
  <2>2. i \notin S /\ {j \in K : j <= i} = IF i \in K THEN S \cup {i} ELSE S
    <3>1. \A j \in K : j <= i <=> (j <= i - 1 \/ j = i)
      BY <1>0
    <3>2. i \notin S
      BY <2>1
    <3> QED
      BY <2>1, <3>1, <3>2
  <2>3. IsFiniteSet(S)
    BY <1>2, <2>1
  <2> QED
    BY <2>1, <2>2, <2>3, FS_AddElement DEF Rank
<1> QED
  BY <1>2, <1>3, <1>4, <1>5, <1>6

\* Every place is somebody's: that of the first with as many before it.
LEMMA RankReached ==
  ASSUME NEW n \in Nat, NEW K \in SUBSET (1 .. n), NEW k \in 1 .. Cardinality(K)
  PROVE  \E i \in K : Rank(K, i) = k
<1>1. Cardinality(K) \in Nat /\ k \in Nat
  BY RankGrows
<1>2. PICK S : S = {i \in 0 .. n : Rank(K, i) >= k}
  OBVIOUS
<1>3. n \in S /\ S \in SUBSET Nat
  BY <1>1, <1>2, RankGrows
<1>4. PICK m \in S : \A i \in S : m <= i
  BY <1>3, Least
<1>5. m \in 1 .. n
  BY <1>1, <1>2, <1>4, RankGrows
<1>6. m - 1 \notin S /\ m - 1 \in 0 .. n /\ m - 1 \in Nat
  BY <1>4, <1>5
<1>7. Rank(K, m - 1) < k /\ Rank(K, m) >= k
  BY <1>1, <1>2, <1>4, <1>6, RankGrows
<1>8. Rank(K, m) = IF m \in K THEN Rank(K, m - 1) + 1 ELSE Rank(K, m - 1)
  BY <1>5, RankGrows
<1>9. Rank(K, m - 1) \in Nat
  BY <1>6, RankGrows
<1>10. m \in K /\ Rank(K, m) = k
  BY <1>1, <1>7, <1>8, <1>9
<1> QED
  BY <1>10

LEMMA RankOfAll ==
  ASSUME NEW n \in Nat, NEW i \in 0 .. n
  PROVE  Rank(1 .. n, i) = i
<1>1. {j \in 1 .. n : j <= i} = 1 .. i
  OBVIOUS
<1>2. Cardinality(1 .. i) = i
  BY FS_Interval
<1> QED
  BY <1>1, <1>2 DEF Rank

\* Without q, at most one fewer comes before i, and none fewer when i is before q.
LEMMA RankWithoutOne ==
  ASSUME NEW n \in Nat, NEW K \in SUBSET (1 .. n), NEW q \in Nat,
         \A i \in 1 .. n : i # q => i \in K, NEW i \in 0 .. n
  PROVE  /\ Rank(K, i) \in Nat /\ Rank(K, i) >= i - 1
         /\ i < q => Rank(K, i) = i
<1>1. PICK S : S = {j \in K : j <= i}
  OBVIOUS
<1>2. IsFiniteSet(K) /\ Rank(K, i) \in Nat
  BY RankGrows
<1>3. IsFiniteSet(S) /\ Rank(K, i) = Cardinality(S)
  BY <1>1, <1>2, FS_Subset DEF Rank
<1>4. Cardinality(1 .. i) = i
  BY FS_Interval
<1>5. 1 .. i \subseteq S \cup {q}
  BY <1>1
<1>6. /\ IsFiniteSet(S \cup {q})
      /\ Cardinality(S \cup {q}) = IF q \in S THEN Cardinality(S) ELSE Cardinality(S) + 1
  BY <1>3, FS_AddElement
<1>7. Cardinality(1 .. i) <= Cardinality(S \cup {q})
  BY <1>5, <1>6, FS_Subset
<1>8. ASSUME i < q PROVE S = 1 .. i
  <2>1. \A j \in 1 .. i : j \in K /\ j <= i
    BY <1>8
  <2>2. \A j \in S : j \in 1 .. i
    BY <1>1
  <2> QED
    BY <1>1, <2>1, <2>2
<1> QED
  BY <1>2, <1>3, <1>4, <1>6, <1>7, <1>8

LEMMA RankMonotone ==
  ASSUME NEW n \in Nat, NEW K \in SUBSET (1 .. n), NEW i \in K, NEW j \in K, i < j
  PROVE  /\ i \in 1 .. n /\ j \in 1 .. n /\ Rank(K, i) \in 1 .. Cardinality(K)
         /\ Rank(K, j) \in 1 .. Cardinality(K) /\ Rank(K, i) < Rank(K, j)
<1>1. i \in 1 .. n /\ j \in 1 .. n /\ j - 1 \in Nat /\ i <= j - 1 /\ i - 1 \in Nat
  OBVIOUS
<1>2. PICK I, J : I = {l \in K : l <= i} /\ J = {l \in K : l <= j - 1}
  OBVIOUS
<1>a. \A l \in K : l \in Nat
  OBVIOUS
<1>b. \A l \in K : l <= i => l <= j - 1
  BY <1>1, <1>a
<1>c. IsFiniteSet(K) /\ Cardinality(K) \in Nat
  BY RankGrows
<1>3. I \subseteq J /\ J \subseteq K /\ IsFiniteSet(K) /\ Cardinality(K) \in Nat
  BY <1>2, <1>b, <1>c
<1>4. IsFiniteSet(J) /\ Cardinality(I) <= Cardinality(J)
  BY <1>3, FS_Subset
<1>5. Rank(K, i) <= Rank(K, j - 1)
  BY <1>2, <1>4 DEF Rank
<1>6. /\ Rank(K, i) = Rank(K, i - 1) + 1 /\ Rank(K, j) = Rank(K, j - 1) + 1
      /\ Rank(K, i - 1) \in Nat /\ Rank(K, j - 1) \in Nat
  BY <1>1, RankGrows
<1>7. PICK L : L = {l \in K : l <= j}
  OBVIOUS
<1>8. L \subseteq K
  BY <1>7
<1>9. Rank(K, j) <= Cardinality(K)
  BY <1>3, <1>7, <1>8, FS_Subset DEF Rank
<1> QED
  BY <1>1, <1>3, <1>5, <1>6, <1>9

LEMMA RankOf ==
  ASSUME NEW n \in Nat, NEW K \in SUBSET (1 .. n), NEW i \in K
  PROVE  i \in 1 .. n /\ Rank(K, i) \in 1 .. Cardinality(K)
<1>1. i \in 1 .. n /\ i - 1 \in Nat /\ i \in Nat
  OBVIOUS
<1>2. Rank(K, i) = Rank(K, i - 1) + 1 /\ Rank(K, i - 1) \in Nat
  BY <1>1, RankGrows
<1>3. PICK L : L = {l \in K : l <= i}
  OBVIOUS
<1>4. L \subseteq K /\ IsFiniteSet(K) /\ Cardinality(K) \in Nat
  BY <1>3, RankGrows
<1>5. Rank(K, i) <= Cardinality(K)
  BY <1>3, <1>4, FS_Subset DEF Rank
<1> QED
  BY <1>1, <1>2, <1>4, <1>5

\* f gives what fs has of ms, from the places K, in its order.
Source(f, fs, ms, K) ==
  /\ f \in [DOMAIN fs -> K]
  /\ \A k \in DOMAIN fs : fs[k] = ms[f[k]]
  /\ \A k, l \in DOMAIN fs : f[k] = f[l] => k = l
  /\ \A k, l \in DOMAIN fs : k < l => f[k] < f[l]
  /\ \A i \in K : \E k \in DOMAIN fs : f[k] = i
  /\ \A k \in DOMAIN fs : Rank(K, f[k]) = k

\* What is left of a list, in terms of where it was.
LEMMA FilteredIs ==
  ASSUME NEW E, NEW ms \in Seq(E), NEW K \in SUBSET (DOMAIN ms)
  PROVE  /\ Filtered(ms, K) \in Seq(E)
         /\ \E f : Source(f, Filtered(ms, K), ms, K)
         /\ K = DOMAIN ms => Filtered(ms, K) = ms
<1>1. PICK n \in Nat : n = Len(ms) /\ DOMAIN ms = 1 .. n
  OBVIOUS
<1>2. PICK c \in Nat : c = Cardinality(K)
  BY <1>1, RankGrows
<1>3. PICK f : f = [k \in 1 .. c |-> CHOOSE i \in K : Rank(K, i) = k]
  OBVIOUS
<1>4. \A k \in 1 .. c : f[k] \in K /\ Rank(K, f[k]) = k
  <2> SUFFICES ASSUME NEW k \in 1 .. c PROVE f[k] \in K /\ Rank(K, f[k]) = k
    OBVIOUS
  <2>1. \E i \in K : Rank(K, i) = k
    <3>1. K \in SUBSET (1 .. n) /\ k \in 1 .. Cardinality(K)
      BY <1>1, <1>2
    <3> QED
      BY <3>1, RankReached
  <2> QED
    BY <1>3, <2>1
<1>5. Filtered(ms, K) = [k \in 1 .. c |-> ms[f[k]]]
  BY <1>2, <1>3 DEF Filtered, Rank
<1>6. Filtered(ms, K) \in Seq(E)
  <2>1. \A k \in 1 .. c : ms[f[k]] \in E
    BY <1>1, <1>4
  <2> QED
    BY <1>5, <2>1
<1>7. f \in [1 .. c -> K] /\ \A k, l \in 1 .. c : f[k] = f[l] => k = l
  BY <1>3, <1>4
<1>8. ASSUME K = DOMAIN ms PROVE Filtered(ms, K) = ms
  <2>0. Cardinality(1 .. n) = n
    BY FS_Interval
  <2>1. K = 1 .. n /\ c = n
    BY <1>1, <1>2, <1>8, <2>0
  <2>2. \A k \in 1 .. n : f[k] = k
    <3> SUFFICES ASSUME NEW k \in 1 .. n PROVE f[k] = k
      OBVIOUS
    <3>1. f[k] \in 1 .. n /\ Rank(1 .. n, f[k]) = k
      BY <1>4, <2>1
    <3> QED
      BY <3>1, RankOfAll
  <2>3. \A k \in 1 .. n : ms[f[k]] = ms[k]
    BY <2>2
  <2>4. ms = [k \in 1 .. n |-> ms[k]]
    BY <1>1
  <2> QED
    BY <1>5, <2>1, <2>3, <2>4
<1>9. DOMAIN Filtered(ms, K) = 1 .. c /\ \A k \in 1 .. c : Filtered(ms, K)[k] = ms[f[k]]
  BY <1>5
<1>10. ASSUME NEW k \in 1 .. c, NEW l \in 1 .. c, k < l PROVE f[k] < f[l]
  <2>1. /\ f[k] \in K /\ f[l] \in K /\ Rank(K, f[k]) = k /\ Rank(K, f[l]) = l
        /\ f[k] \in 1 .. n /\ f[l] \in 1 .. n
    BY <1>1, <1>4
  <2>2. f[k] # f[l]
    BY <1>7, <1>10
  <2>a. PICK a \in K, b \in K : a = f[k] /\ b = f[l]
    BY <2>1
  <2>b. b < a => Rank(K, b) < Rank(K, a)
    BY <1>1, RankMonotone
  <2>3. ~(f[l] < f[k])
    BY <1>10, <2>1, <2>a, <2>b
  <2> QED
    BY <2>1, <2>2, <2>3
<1>11. ASSUME NEW i \in K PROVE \E k \in 1 .. c : f[k] = i
  <2>1. PICK k \in 1 .. c : k = Rank(K, i)
    BY <1>1, <1>2, RankOf
  <2>2. f[k] \in K /\ Rank(K, f[k]) = Rank(K, i) /\ f[k] \in 1 .. n /\ i \in 1 .. n
    BY <1>1, <1>4, <2>1
  <2>3. Rank(K, i) \in Nat
    BY <2>1
  <2>a. PICK a \in K : a = f[k]
    BY <2>2
  <2>b. (a < i => Rank(K, a) < Rank(K, i)) /\ (i < a => Rank(K, i) < Rank(K, a))
    BY <1>1, RankMonotone
  <2>4. ~(f[k] < i) /\ ~(i < f[k])
    BY <2>2, <2>3, <2>a, <2>b
  <2>5. f[k] = i
    BY <2>2, <2>4
  <2> QED
    BY <2>5
<1>12. Source(f, Filtered(ms, K), ms, K)
  BY <1>4, <1>7, <1>9, <1>10, <1>11 DEF Source
<1> QED
  BY <1>6, <1>8, <1>12

LEMMA AroundIs ==
  ASSUME NEW E, NEW a \in Seq(E), NEW b \in Seq(E), NEW m \in E
  PROVE  /\ a \o <<m>> \o b \in Seq(E) /\ Len(a \o <<m>> \o b) = Len(a) + 1 + Len(b)
         /\ \A i \in 1 .. Len(a) : (a \o <<m>> \o b)[i] = a[i]
         /\ (a \o <<m>> \o b)[Len(a) + 1] = m
         /\ \A i \in 1 .. Len(b) : (a \o <<m>> \o b)[Len(a) + 1 + i] = b[i]
OBVIOUS

\* A list whose elements differ has as many as its length.
LEMMA CountOf ==
  ASSUME NEW E, NEW s \in Seq(E), \A i, j \in DOMAIN s : s[i] = s[j] => i = j
  PROVE  IsFiniteSet(ToSet(s)) /\ Cardinality(ToSet(s)) = Len(s)
<1>1. PICK n \in Nat : n = Len(s) /\ DOMAIN s = 1 .. n
  OBVIOUS
<1>2. IsFiniteSet(1 .. n) /\ Cardinality(1 .. n) = n
  BY FS_Interval
<1>3. PICK S, T : S = 1 .. n /\ T = ToSet(s)
  OBVIOUS
<1>4. PICK f : f = [i \in S |-> s[i]]
  OBVIOUS
<1>5. f \in [S -> T] /\ \A t \in T : \E i \in S : f[i] = t
  BY <1>1, <1>3, <1>4 DEF ToSet
<1>6. \A i, j \in S : f[i] = f[j] => i = j
  BY <1>1, <1>3, <1>4
<1>7. f \in Bijection(S, T)
  BY <1>5, <1>6 DEF Bijection, Injection, Surjection, IsInjective
<1>8. ExistsBijection(S, T)
  BY <1>7 DEF ExistsBijection
<1> QED
  BY <1>1, <1>2, <1>3, <1>8, FS_Bijection

LEMMA LatestIs ==
  ASSUME NEW E, NEW s \in Seq(E), NEW n \in Nat
  PROVE  /\ Latest(s, n) \in Seq(E)
         /\ Len(Latest(s, n)) = IF Len(s) <= n THEN Len(s) ELSE n
         /\ \A i \in DOMAIN Latest(s, n) :
              /\ i + (Len(s) - Len(Latest(s, n))) \in DOMAIN s
              /\ Latest(s, n)[i] = s[i + (Len(s) - Len(Latest(s, n)))]
<1>1. Len(s) \in Nat /\ DOMAIN s = 1 .. Len(s)
  OBVIOUS
<1>2. CASE Len(s) <= n
  BY <1>1, <1>2 DEF Latest
<1>3. CASE ~(Len(s) <= n)
  <2>2. PICK l \in Nat : l = Len(s)
    BY <1>1
  <2>a. n < l
    BY <1>3, <2>2
  <2>b. PICK a \in Nat : a = l - n + 1 /\ 1 <= a /\ a <= l + 1
    BY <2>a
  <2>1. a = Len(s) - n + 1 /\ a \in 1 .. Len(s) + 1
    BY <2>2, <2>b
  <2>3. PICK t : t = SubSeq(s, a, l)
    OBVIOUS
  <2>4. t \in Seq(E) /\ DOMAIN t = 1 .. n /\ Len(t) = n /\ \A i \in 1 .. n : t[i] = s[a + i - 1]
    BY <1>1, <1>3, <2>1, <2>2, <2>3
  <2>5. Latest(s, n) = t
    BY <1>3, <2>1, <2>2, <2>3 DEF Latest
  <2>6. \A i \in 1 .. n : i + (Len(s) - n) \in DOMAIN s /\ a + i - 1 = i + (Len(s) - n)
    BY <1>1, <1>3, <2>1
  <2> QED
    BY <1>3, <2>4, <2>5, <2>6
<1> QED
  BY <1>2, <1>3

-----------------------------------------------------------------------------
(* What an application keeps: lists by what they are of                   *)

\* The functions from some of X to V: the lists, by what they are of.
Maps(X, V) == UNION {[S -> V] : S \in SUBSET X}

LEMMA MapsAre ==
  ASSUME NEW X, NEW V, NEW f
  PROVE  f \in Maps(X, V) <=> DOMAIN f \subseteq X /\ f \in [DOMAIN f -> V]
BY DEF Maps

LEMMA RestrictedMap ==
  ASSUME NEW X, NEW V, NEW f \in Maps(X, V), NEW S, S \subseteq DOMAIN f
  PROVE  Restrict(f, S) \in Maps(X, V) /\ DOMAIN Restrict(f, S) = S
<1>1. DOMAIN f \subseteq X /\ f \in [DOMAIN f -> V]
  BY MapsAre
<1>2. Restrict(f, S) \in [S -> V]
  BY <1>1 DEF Restrict
<1>3. S \in SUBSET X
  BY <1>1
<1> QED
  BY <1>2, <1>3 DEF Maps

Parts == <<addressVars, inboxVars, reviewVars>>

\* Doubts are not laid, and presses are counted.
LEMMA DoubtsStay ==
  ASSUME [Next]_vars, presses \in Nat
  PROVE  doubt \subseteq doubt' /\ presses' \in Nat /\ presses' >= presses
<1>1. ASSUME NEW part, NEW cs, Press(part, cs)
      PROVE  doubt \subseteq doubt' /\ presses' = presses + 1
  BY <1>1 DEF Press
<1>2. ASSUME NEW parts, Lapse(parts)
      PROVE  doubt \subseteq doubt' /\ presses' = presses
  BY <1>2 DEF Lapse
<1>3. ASSUME Plain PROVE doubt' = doubt /\ presses' = presses
  BY <1>3 DEF Plain
<1>4. CASE AddressStep
  <2>1. \/ Plain \/ Lapse({"addresses"}) \/ Press("addresses", {})
        \/ Press("addresses", addressCalls)
    BY <1>4 DEF AddressStep, SelectAddress, OpenForm, AskDelete, SetDefault, CloseForm,
       SaveAddress, KeepAddress, ConfirmDelete, AddressSaved, AddressesReloaded,
       AddressDeleted, DefaultSet, AddressCallFailed, AnswerAddressCall
  <2> QED
    BY <1>1, <1>2, <1>3, <2>1
<1>5. CASE InboxStep
  <2>1. \/ Plain \/ Lapse({"inbox"}) \/ Lapse({}) \/ Press("inbox", inboxCalls)
        \/ (doubt \subseteq doubt' /\ presses' = presses)
    BY <1>5 DEF InboxStep, LoadInbox, MarkAllRead, Notify, MarkRead, NotifyAgain, Notified,
       InboxLoaded, MarkAnswered, AnswerInboxCall
  <2> QED
    BY <1>1, <1>2, <1>3, <2>1
<1>6. CASE ReviewStep
  <2>1. \/ Plain \/ Lapse({}) \/ Press("reviews", {}) \/ Press("reviews", reviewCalls)
    BY <1>6 DEF ReviewStep, OpenReview, DeleteReview, DismissReview, SubmitReview,
       ReviewKept, ReviewsRefreshed, ReviewExists, ReviewFound, ReviewReplaced,
       ReviewDeleted, ReviewCallFailed, AnswerReviewCall
  <2> QED
    BY <1>1, <1>2, <1>3, <2>1
<1>7. CASE UNCHANGED vars
  BY <1>7 DEF vars
<1> QED
  BY <1>4, <1>5, <1>6, <1>7 DEF Next

-----------------------------------------------------------------------------
(* Addresses                                                               *)

AddressLists == Maps(Nat, BOOLEAN)

AddressCallRecord ==
  [op : {"create", "update", "reload", "delete", "default"}, id : Nat, mark : BOOLEAN,
   seen : AddressLists, got : {"sent", "ok", "error"}]

Forms == [id : Nat, mark : BOOLEAN, open : BOOLEAN]

AddressTypes ==
  /\ addresses \in AddressLists /\ userAddresses \in AddressLists
  /\ form \in Forms
  /\ deleting \in Nat /\ everUsed \in Nat
  /\ addressCalls \subseteq AddressCallRecord

\* what an order may go to
Selectable(list) == IF DOMAIN list = {} THEN {None} ELSE DOMAIN list

\* How far the one request under way is, and what the two lists then have in common.
Fits(c) ==
  /\ c.got = "sent" /\ c.op # "reload" => addresses = userAddresses
  /\ c.got = "error" => c.op \in {"update", "default"} /\ addresses = userAddresses
  /\ c.op = "reload" \/ (c.op \in {"create", "update"} /\ c.got = "ok") =>
       c.id \in DOMAIN userAddresses
  /\ c.op = "reload" /\ c.got = "ok" => c.seen = userAddresses
  /\ c.op = "delete" /\ c.got = "sent" => c.seen = addresses
  /\ c.op = "delete" /\ c.got = "ok" =>
       userAddresses = Restrict(c.seen, DOMAIN c.seen \ {c.id})
  /\ c.op = "default" => c.mark = TRUE /\ c.id \in DOMAIN userAddresses
  /\ c.op = "default" /\ c.got = "ok" => userAddresses = Marked(addresses, c.id)

AddressInv ==
  "addresses" \notin doubt =>
    /\ selected \in Selectable(addresses)
    /\ addressCalls = {} => addresses = userAddresses
    /\ \A c, d \in addressCalls : c = d
    /\ \A c \in addressCalls : Fits(c)

LEMMA AddressInvImplies == AddressTypes /\ AddressInv => AddressesAgree
<1> SUFFICES ASSUME AddressTypes, AddressInv, addressCalls = {}, "addresses" \notin doubt
             PROVE  /\ addresses = userAddresses
                    /\ selected \in IF userAddresses = EmptyMap THEN {None}
                                    ELSE DOMAIN userAddresses
  BY DEF AddressesAgree
<1>1. addresses = userAddresses /\ selected \in Selectable(userAddresses)
  BY DEF AddressInv
<1>2. userAddresses \in [DOMAIN userAddresses -> BOOLEAN]
  BY MapsAre DEF AddressTypes, AddressLists
<1>3. DOMAIN userAddresses = {} => userAddresses = EmptyMap
  BY <1>2 DEF EmptyMap
<1>4. DOMAIN EmptyMap = {}
  BY DEF EmptyMap
<1> QED
  BY <1>1, <1>3, <1>4 DEF Selectable

LEMMA NewAddressCall ==
  ASSUME NEW op \in {"create", "update", "reload", "delete", "default"}, NEW id \in Nat,
         NEW mark \in BOOLEAN, NEW seen \in AddressLists
  PROVE  AddressCall(op, id, mark, seen) \in AddressCallRecord
BY DEF AddressCall, AddressCallRecord

LEMMA ListsMade ==
  /\ EmptyMap \in AddressLists
  /\ \A f \in AddressLists, id \in Nat, mark \in BOOLEAN : Kept(f, id, mark) \in AddressLists
  /\ \A f \in AddressLists, id \in Nat : Marked(f, id) \in AddressLists
  /\ \A f \in AddressLists, id \in Nat : Restrict(f, DOMAIN f \ {id}) \in AddressLists
<1>1. EmptyMap \in [{} -> BOOLEAN]
  BY DEF EmptyMap
<1>2. ASSUME NEW f \in AddressLists, NEW id \in Nat, NEW mark \in BOOLEAN
      PROVE  Kept(f, id, mark) \in [DOMAIN f \cup {id} -> BOOLEAN]
  BY <1>2, MapsAre DEF Kept, AddressLists
<1>3. ASSUME NEW f \in AddressLists, NEW id \in Nat
      PROVE  Marked(f, id) \in [DOMAIN f -> BOOLEAN]
  BY <1>3 DEF Marked
<1>4. \A f \in AddressLists : DOMAIN f \subseteq Nat
  BY MapsAre DEF AddressLists
<1>5. \A f \in AddressLists, id \in Nat : Restrict(f, DOMAIN f \ {id}) \in AddressLists
  BY RestrictedMap DEF AddressLists
<1>6. ASSUME NEW f, NEW S \in SUBSET Nat, f \in [S -> BOOLEAN] PROVE f \in AddressLists
  BY <1>6 DEF AddressLists, Maps
<1>7. EmptyMap \in AddressLists
  BY <1>1, <1>6
<1>8. \A f \in AddressLists, id \in Nat, mark \in BOOLEAN : Kept(f, id, mark) \in AddressLists
  <2>1. SUFFICES ASSUME NEW f \in AddressLists, NEW id \in Nat, NEW mark \in BOOLEAN
                 PROVE  Kept(f, id, mark) \in AddressLists
    OBVIOUS
  <2>2. DOMAIN f \cup {id} \in SUBSET Nat
    BY <1>4
  <2> QED
    BY <1>2, <1>6, <2>2
<1>9. \A f \in AddressLists, id \in Nat : Marked(f, id) \in AddressLists
  BY <1>3, <1>4, <1>6
<1> QED
  BY <1>5, <1>7, <1>8, <1>9

LEMMA FormsMade ==
  /\ Closed \in Forms
  /\ \A f \in Forms : [f EXCEPT !.mark = FALSE] \in Forms
  /\ \A a \in Nat, mark \in BOOLEAN : [id |-> a, mark |-> mark, open |-> TRUE] \in Forms
BY DEF Forms, Closed

LEMMA AddressTypesStay ==
  ASSUME AddressTypes, UNCHANGED addressVars
  PROVE  AddressTypes'
BY DEF AddressTypes, addressVars

\* What the screens press and open.
LEMMA AddressPressTypes ==
  ASSUME AddressTypes,
         \/ \E a \in AddressIds \cup {None} :
              SelectAddress(a) \/ OpenForm(a) \/ AskDelete(a) \/ SetDefault(a)
         \/ CloseForm \/ SaveAddress \/ KeepAddress \/ ConfirmDelete
  PROVE  AddressTypes'
<1>1. UNCHANGED <<addresses, userAddresses, everUsed>>
  BY DEF SelectAddress, OpenForm, AskDelete, SetDefault, CloseForm, SaveAddress, KeepAddress,
     ConfirmDelete
<1>2. AddressIds \cup {None} \subseteq Nat /\ None \in Nat
  BY AccountAssumption DEF AddressIds, None
<1>3. form' \in Forms
  <2>1. \/ form' \in {form, Closed}
        \/ \E a \in Nat, mark \in BOOLEAN : form' = [id |-> a, mark |-> mark, open |-> TRUE]
    BY <1>2 DEF SelectAddress, OpenForm, AskDelete, SetDefault, CloseForm, SaveAddress,
       KeepAddress, ConfirmDelete
  <2> QED
    BY <2>1, FormsMade DEF AddressTypes
<1>4. deleting' \in Nat
  BY <1>2 DEF SelectAddress, OpenForm, AskDelete, SetDefault, CloseForm, SaveAddress, KeepAddress,
     ConfirmDelete, AddressTypes
<1>5. \/ UNCHANGED addressCalls
      \/ \E op \in {"create", "update", "delete", "default"}, id \in Nat, mark \in BOOLEAN,
            seen \in {EmptyMap, addresses} :
           addressCalls' = addressCalls \cup {AddressCall(op, id, mark, seen)}
  <2>1. ASSUME NEW a \in AddressIds \cup {None}, SetDefault(a)
        PROVE  addressCalls' = addressCalls \cup {AddressCall("default", a, TRUE, EmptyMap)}
    BY <2>1 DEF SetDefault
  <2>2. CASE SaveAddress
    <3>1. form.id \in Nat /\ form.mark \in BOOLEAN
      BY DEF AddressTypes, Forms
    <3>2. \E op \in {"create", "update"} :
            addressCalls' = addressCalls \cup {AddressCall(op, form.id, form.mark, EmptyMap)}
      BY <2>2 DEF SaveAddress
    <3> QED
      BY <3>1, <3>2
  <2>3. CASE ConfirmDelete
    <3>1. addressCalls' = addressCalls \cup {AddressCall("delete", deleting, FALSE, addresses)}
      BY <2>3 DEF ConfirmDelete
    <3>2. deleting \in Nat
      BY DEF AddressTypes
    <3> QED
      BY <3>1, <3>2
  <2>4. ASSUME \/ \E a \in AddressIds \cup {None} : SelectAddress(a) \/ OpenForm(a) \/ AskDelete(a)
               \/ CloseForm \/ KeepAddress
        PROVE  UNCHANGED addressCalls
    BY <2>4 DEF SelectAddress, OpenForm, AskDelete, CloseForm, KeepAddress
  <2> QED
    BY <1>2, <2>1, <2>2, <2>3, <2>4
<1>6. addressCalls' \subseteq AddressCallRecord
  <2>1. EmptyMap \in AddressLists /\ addresses \in AddressLists /\ addressCalls \subseteq AddressCallRecord
    BY ListsMade DEF AddressTypes
  <2>2. ASSUME NEW op \in {"create", "update", "delete", "default"}, NEW id \in Nat,
               NEW mark \in BOOLEAN, NEW seen \in {EmptyMap, addresses}
        PROVE  AddressCall(op, id, mark, seen) \in AddressCallRecord
    BY <2>1, NewAddressCall
  <2> QED
    BY <1>5, <2>1, <2>2
<1> QED
  BY <1>1, <1>3, <1>4, <1>6 DEF AddressTypes

LEMMA AddressAnswerTypes ==
  ASSUME AddressTypes, NEW c \in addressCalls,
         \/ AddressSaved(c) \/ AddressesReloaded(c) \/ AddressDeleted(c) \/ DefaultSet(c)
         \/ AddressCallFailed(c)
  PROVE  AddressTypes'
<1>0. c \in AddressCallRecord /\ c.id \in Nat /\ c.seen \in AddressLists
  BY DEF AddressTypes, AddressCallRecord
<1>1. UNCHANGED <<userAddresses, everUsed>>
  BY DEF AddressSaved, AddressesReloaded, AddressDeleted, DefaultSet, AddressCallFailed
<1>2. form' \in Forms /\ deleting' \in Nat
  <2>1. form' \in {form, Closed, [form EXCEPT !.mark = FALSE]} /\ deleting' \in {deleting, None}
    BY DEF AddressSaved, AddressesReloaded, AddressDeleted, DefaultSet, AddressCallFailed
  <2> QED
    BY <2>1, FormsMade DEF AddressTypes, None
<1>3. addresses' \in AddressLists
  BY <1>0, ListsMade DEF AddressSaved, AddressesReloaded, AddressDeleted, DefaultSet,
     AddressCallFailed, AddressTypes
<1>4. \/ addressCalls' = addressCalls \ {c}
      \/ addressCalls' = (addressCalls \ {c}) \cup {AddressCall("reload", c.id, FALSE, EmptyMap)}
  BY DEF AddressSaved, AddressesReloaded, AddressDeleted, DefaultSet, AddressCallFailed
<1>5. AddressCall("reload", c.id, FALSE, EmptyMap) \in AddressCallRecord
  BY <1>0, ListsMade, NewAddressCall
<1>6. addressCalls' \subseteq AddressCallRecord
  BY <1>4, <1>5 DEF AddressTypes
<1> QED
  BY <1>1, <1>2, <1>3, <1>6 DEF AddressTypes

\* The server keeps, deletes or only reads.
LEMMA ServedTypes ==
  ASSUME AddressTypes, NEW c \in AddressCallRecord, AddressServed(c)
  PROVE  userAddresses' \in AddressLists /\ everUsed' \in Nat
<1>0. c.id \in Nat /\ c.mark \in BOOLEAN
  BY DEF AddressCallRecord
<1>1. everUsed' \in Nat
  BY DEF AddressServed, AddressTypes
<1>2. CASE c.op = "create"
  <2>1. userAddresses' = Kept(userAddresses, everUsed', c.mark)
    BY <1>2 DEF AddressServed
  <2> QED
    BY <1>0, <1>1, <2>1, ListsMade DEF AddressTypes
<1>3. CASE c.op = "delete"
  <2>1. userAddresses' = Restrict(userAddresses, DOMAIN userAddresses \ {c.id})
    BY <1>3 DEF AddressServed
  <2> QED
    BY <1>0, <1>1, <2>1, ListsMade DEF AddressTypes
<1>4. CASE c.op \notin {"create", "delete"}
  <2>1. \/ userAddresses' = userAddresses
        \/ userAddresses' = Kept(userAddresses, c.id, c.mark)
    BY <1>4 DEF AddressServed
  <2> QED
    BY <1>0, <1>1, <2>1, ListsMade DEF AddressTypes
<1> QED
  BY <1>2, <1>3, <1>4

LEMMA AnswerAddressTypes ==
  ASSUME AddressTypes, NEW c \in addressCalls, AnswerAddressCall(c)
  PROVE  AddressTypes'
<1>0. c \in AddressCallRecord
  BY DEF AddressTypes
<1>1. userAddresses' \in AddressLists /\ everUsed' \in Nat
  BY <1>0, ServedTypes DEF AnswerAddressCall
<1>2. \E got \in {"ok", "error"}, id \in Nat, seen \in AddressLists :
        addressCalls' = (addressCalls \ {c})
                          \cup {[c EXCEPT !.got = got, !.id = id, !.seen = seen]}
  <2>1. c.id \in Nat /\ c.seen \in AddressLists /\ userAddresses \in AddressLists
    BY <1>0 DEF AddressCallRecord, AddressTypes
  <2>2. [c EXCEPT !.got = "error"] = [c EXCEPT !.got = "error", !.id = c.id, !.seen = c.seen]
    BY <1>0 DEF AddressCallRecord
  <2> QED
    BY <1>1, <2>1, <2>2 DEF AnswerAddressCall
<1>3. ASSUME NEW got \in {"ok", "error"}, NEW id \in Nat, NEW seen \in AddressLists
      PROVE  [c EXCEPT !.got = got, !.id = id, !.seen = seen] \in AddressCallRecord
  BY <1>0 DEF AddressCallRecord
<1>4. addressCalls' \subseteq AddressCallRecord
  <2>1. PICK x : x \in AddressCallRecord /\ addressCalls' = (addressCalls \ {c}) \cup {x}
    BY <1>2, <1>3
  <2> QED
    BY <2>1 DEF AddressTypes
<1> QED
  BY <1>1, <1>4 DEF AnswerAddressCall, AddressTypes

LEMMA AddressTypesStep == AddressTypes /\ [Next]_vars => AddressTypes'
<1> SUFFICES ASSUME AddressTypes, [Next]_vars PROVE AddressTypes'
  OBVIOUS
<1>1. CASE AddressStep
  BY <1>1, AddressPressTypes, AddressAnswerTypes, AnswerAddressTypes DEF AddressStep
<1>2. CASE InboxStep \/ ReviewStep \/ UNCHANGED vars
  <2>1. UNCHANGED addressVars
    BY <1>2 DEF InboxStep, ReviewStep, vars
  <2> QED
    BY <2>1, AddressTypesStay
<1> QED
  BY <1>1, <1>2 DEF Next

\* No request, or one that fits.
LEMMA Agreeing ==
  ASSUME selected' \in Selectable(addresses'),
         \/ addressCalls' = {} /\ addresses' = userAddresses'
         \/ \E x : addressCalls' = {x} /\ Fits(x)'
  PROVE  AddressInv'
BY DEF AddressInv

\* The screens ask one thing at a time, or doubt is due.
LEMMA PressKeepsAddresses ==
  ASSUME AddressTypes, AddressInv, "addresses" \notin doubt, "addresses" \notin doubt',
         \/ \E a \in AddressIds \cup {None} :
              SelectAddress(a) \/ OpenForm(a) \/ AskDelete(a) \/ SetDefault(a)
         \/ CloseForm \/ SaveAddress \/ KeepAddress \/ ConfirmDelete
  PROVE  AddressInv'
<1>1. selected \in Selectable(addresses)
  BY DEF AddressInv
<1>2. ASSUME NEW a \in AddressIds \cup {None}, SelectAddress(a) PROVE AddressInv'
  <2>1. /\ selected' \in Selectable(addresses)
        /\ UNCHANGED <<addresses, userAddresses, addressCalls>>
    BY <1>2 DEF SelectAddress, Selectable
  <2> QED
    BY <2>1 DEF AddressInv, Fits
<1>3. ASSUME \/ \E a \in AddressIds \cup {None} : OpenForm(a) \/ AskDelete(a)
             \/ CloseForm \/ KeepAddress
      PROVE  AddressInv'
  <2>1. UNCHANGED <<addresses, userAddresses, addressCalls, selected>>
    BY <1>3 DEF OpenForm, AskDelete, CloseForm, KeepAddress
  <2> QED
    BY <2>1 DEF AddressInv, Fits
<1>4. ASSUME NEW c, Press("addresses", addressCalls), addressCalls' = addressCalls \cup {c},
             UNCHANGED <<addresses, userAddresses, selected>>,
             c.got = "sent", c.op \in {"create", "update", "delete", "default"},
             c.op = "delete" => c.seen = addresses,
             c.op = "default" => c.mark = TRUE /\ c.id \in DOMAIN addresses
      PROVE  AddressInv'
  <2>1. addressCalls = {}
    BY <1>4 DEF Press
  <2>2. addresses = userAddresses
    BY <2>1 DEF AddressInv
  <2>3. addressCalls' = {c} /\ Fits(c)'
    BY <1>4, <2>1, <2>2 DEF Fits
  <2> QED
    BY <1>1, <1>4, <2>3, Agreeing
<1>5. ASSUME NEW a \in AddressIds \cup {None}, SetDefault(a) PROVE AddressInv'
  <2>1. PICK c : c = AddressCall("default", a, TRUE, EmptyMap)
    OBVIOUS
  <2>2. c.got = "sent" /\ c.op = "default" /\ c.id = a /\ c.mark = TRUE
    BY <2>1 DEF AddressCall
  <2> QED
    BY <1>4, <1>5, <2>1, <2>2 DEF SetDefault
<1>6. CASE SaveAddress
  <2>1. PICK op \in {"create", "update"} :
          addressCalls' = addressCalls \cup {AddressCall(op, form.id, form.mark, EmptyMap)}
    BY <1>6 DEF SaveAddress
  <2>2. PICK c : c = AddressCall(op, form.id, form.mark, EmptyMap)
    OBVIOUS
  <2>3. c.got = "sent" /\ c.op = op
    BY <2>2 DEF AddressCall
  <2> QED
    BY <1>4, <1>6, <2>1, <2>2, <2>3 DEF SaveAddress
<1>7. CASE ConfirmDelete
  <2>1. PICK c : c = AddressCall("delete", deleting, FALSE, addresses)
    OBVIOUS
  <2>2. c.got = "sent" /\ c.op = "delete" /\ c.seen = addresses
    BY <2>1 DEF AddressCall
  <2> QED
    BY <1>4, <1>7, <2>1, <2>2 DEF ConfirmDelete
<1> QED
  BY <1>2, <1>3, <1>5, <1>6, <1>7

\* What the handlers make of the answer, the server has.
LEMMA AnswerKeepsAddresses ==
  ASSUME AddressTypes, AddressInv, "addresses" \notin doubt, NEW c \in addressCalls,
         \/ AddressSaved(c) \/ AddressesReloaded(c) \/ AddressDeleted(c) \/ DefaultSet(c)
         \/ AddressCallFailed(c)
  PROVE  AddressInv'
<1>0. Fits(c) /\ addressCalls = {c} /\ selected \in Selectable(addresses)
  BY DEF AddressInv
<1>1. UNCHANGED userAddresses
  BY DEF AddressSaved, AddressesReloaded, AddressDeleted, DefaultSet, AddressCallFailed
<1>2. CASE AddressSaved(c)
  <2>1. PICK x : x = AddressCall("reload", c.id, FALSE, EmptyMap)
    OBVIOUS
  <2>2. x.op = "reload" /\ x.id = c.id /\ x.got = "sent"
    BY <2>1 DEF AddressCall
  <2>3. c.op \in {"create", "update"} /\ c.got = "ok" /\ UNCHANGED <<addresses, selected>>
        /\ addressCalls' = {x}
    BY <1>0, <1>2, <2>1 DEF AddressSaved
  <2>4. Fits(x)'
    BY <1>0, <1>1, <2>2, <2>3 DEF Fits
  <2> QED
    BY <1>0, <2>3, <2>4, Agreeing
<1>3. CASE AddressesReloaded(c)
  <2>1. c.op = "reload" /\ c.got = "ok"
    <3>1. c.op = "reload" /\ c.got # "sent" /\ c.got \in {"sent", "ok", "error"}
      BY <1>3 DEF AddressesReloaded, AddressTypes, AddressCallRecord
    <3> QED
      BY <1>0, <3>1 DEF Fits
  <2>2. /\ addresses' = userAddresses' /\ addressCalls' = {} /\ c.id \in DOMAIN addresses'
        /\ selected' \in Settled(addresses', c.id)
    BY <1>0, <1>1, <1>3, <2>1 DEF AddressesReloaded, Fits
  <2>3. selected' \in Selectable(addresses')
    BY <2>2 DEF Settled, Selectable
  <2> QED
    BY <2>2, <2>3, Agreeing
<1>4. CASE AddressDeleted(c)
  <2>1. addresses' = userAddresses' /\ addressCalls' = {}
    BY <1>0, <1>1, <1>4 DEF AddressDeleted, Fits
  <2>2. selected' \in DOMAIN addresses' \/ selected' \in Fallbacks(addresses')
    BY <1>4 DEF AddressDeleted
  <2>3. selected' \in Selectable(addresses')
    BY <2>2 DEF Fallbacks, Selectable
  <2> QED
    BY <2>1, <2>3, Agreeing
<1>5. CASE DefaultSet(c)
  <2>1. /\ c.op = "default" /\ c.got = "ok" /\ addresses' = Marked(addresses, c.id)
        /\ addressCalls' = {} /\ selected' \in Settled(addresses', c.id)
    BY <1>0, <1>5 DEF DefaultSet
  <2>2. addresses' = userAddresses' /\ c.id \in DOMAIN addresses'
    BY <1>0, <1>1, <2>1 DEF Fits
  <2>3. selected' \in Selectable(addresses')
    BY <2>1, <2>2 DEF Settled, Selectable
  <2> QED
    BY <2>1, <2>2, <2>3, Agreeing
<1>6. CASE AddressCallFailed(c)
  <2>1. c.got = "error" /\ addressCalls' = {} /\ UNCHANGED <<addresses, selected>>
    BY <1>0, <1>6 DEF AddressCallFailed
  <2> QED
    BY <1>0, <1>1, <2>1, Agreeing DEF Fits
<1> QED
  BY <1>2, <1>3, <1>4, <1>5, <1>6

\* The server does what it then tells.
LEMMA ServerKeepsAddresses ==
  ASSUME AddressTypes, AddressInv, "addresses" \notin doubt, "addresses" \notin doubt',
         NEW c \in addressCalls, AnswerAddressCall(c)
  PROVE  AddressInv'
<1>0. Fits(c) /\ addressCalls = {c} /\ selected \in Selectable(addresses)
  BY DEF AddressInv
<1>1. c \in AddressCallRecord /\ c.got = "sent" /\ UNCHANGED <<addresses, selected>>
  BY DEF AnswerAddressCall, AddressTypes
<1>2. ~Lapse({"addresses"})
  BY DEF Lapse
<1>3. PICK got, id, seen :
        /\ addressCalls' = {[c EXCEPT !.got = got, !.id = id, !.seen = seen]}
        /\ got = IF c.op \in {"update", "default"} /\ c.id \notin DOMAIN userAddresses
                 THEN "error" ELSE "ok"
        /\ got = "ok" =>
             /\ id = IF c.op = "create" THEN everUsed' ELSE c.id
             /\ seen = IF c.op = "reload" THEN userAddresses ELSE c.seen
        /\ got = "error" => id = c.id /\ seen = c.seen
  <2>1. [c EXCEPT !.got = "error"] = [c EXCEPT !.got = "error", !.id = c.id, !.seen = c.seen]
    BY <1>1 DEF AddressCallRecord
  <2>2. CASE c.op \in {"update", "default"} /\ c.id \notin DOMAIN userAddresses
    <3>1. addressCalls' = {[c EXCEPT !.got = "error"]}
      BY <1>0, <1>2, <2>2 DEF AnswerAddressCall
    <3> QED
      BY <2>1, <2>2, <3>1
  <2>3. CASE ~(c.op \in {"update", "default"} /\ c.id \notin DOMAIN userAddresses)
    <3>1. PICK i, s : /\ i = IF c.op = "create" THEN everUsed' ELSE c.id
                      /\ s = IF c.op = "reload" THEN userAddresses ELSE c.seen
      OBVIOUS
    <3>2. PICK x : x = [c EXCEPT !.got = "ok", !.id = i, !.seen = s]
      OBVIOUS
    <3>3. addressCalls' = {x}
      BY <1>0, <1>2, <2>3, <3>1, <3>2 DEF AnswerAddressCall
    <3>4. addressCalls' = {[c EXCEPT !.got = "ok", !.id = i, !.seen = s]}
      BY <3>2, <3>3
    <3>5. /\ "ok" = IF c.op \in {"update", "default"} /\ c.id \notin DOMAIN userAddresses
                     THEN "error" ELSE "ok"
          /\ "ok" # "error"
      BY <2>3
    <3> WITNESS "ok", i, s
    <3> QED
      BY <3>1, <3>4, <3>5
  <2> QED
    BY <2>2, <2>3
<1>4. PICK x : /\ x = [c EXCEPT !.got = got, !.id = id, !.seen = seen]
               /\ addressCalls' = {x}
  BY <1>3
<1>5. x.op = c.op /\ x.got = got /\ x.id = id /\ x.seen = seen
  BY <1>1, <1>4 DEF AddressCallRecord
<1>6. AddressServed(c)
  BY DEF AnswerAddressCall
<1>7. Fits(x)'
  <2>1. CASE c.op = "create"
    <3>1. userAddresses' = Kept(userAddresses, everUsed', c.mark)
      BY <1>6, <2>1 DEF AddressServed
    <3>2. everUsed' \in DOMAIN userAddresses'
      BY <3>1 DEF Kept
    <3> QED
      BY <1>3, <1>5, <2>1, <3>2 DEF Fits
  <2>2. CASE c.op = "delete"
    <3>1. userAddresses' = Restrict(userAddresses, DOMAIN userAddresses \ {c.id})
      BY <1>6, <2>2 DEF AddressServed
    <3>2. c.seen = userAddresses
      BY <1>0, <1>1, <2>2 DEF Fits
    <3> QED
      BY <1>3, <1>5, <2>2, <3>1, <3>2 DEF Fits
  <2>3. CASE c.op = "reload"
    <3>1. UNCHANGED userAddresses
      BY <1>6, <2>3 DEF AddressServed
    <3> QED
      BY <1>0, <1>3, <1>5, <2>3, <3>1 DEF Fits
  <2>4. CASE c.op = "update"
    <3>1. addresses = userAddresses
      BY <1>0, <1>1, <2>4 DEF Fits
    <3>2. CASE c.id \in DOMAIN userAddresses
      <4>1. userAddresses' = Kept(userAddresses, c.id, c.mark)
        BY <1>6, <2>4, <3>2 DEF AddressServed
      <4>2. c.id \in DOMAIN userAddresses'
        BY <4>1 DEF Kept
      <4> QED
        BY <1>3, <1>5, <2>4, <3>2, <4>2 DEF Fits
    <3>3. CASE c.id \notin DOMAIN userAddresses
      <4>1. UNCHANGED userAddresses
        BY <1>6, <2>4, <3>3 DEF AddressServed
      <4> QED
        BY <1>1, <1>3, <1>5, <2>4, <3>1, <3>3, <4>1 DEF Fits
    <3> QED
      BY <3>2, <3>3
  <2>5. CASE c.op = "default"
    <3>1. addresses = userAddresses /\ c.id \in DOMAIN userAddresses
      BY <1>0, <1>1, <2>5 DEF Fits
    <3>2. userAddresses' = Kept(userAddresses, c.id, c.mark)
      BY <1>6, <2>5, <3>1 DEF AddressServed
    <3>3. c.mark = TRUE
      BY <1>0, <2>5 DEF Fits
    <3>4. userAddresses' = Marked(addresses, c.id)
      BY <3>1, <3>2, <3>3 DEF Kept, Marked
    <3>5. c.id \in DOMAIN userAddresses'
      BY <3>1, <3>4 DEF Marked
    <3>6. x.op = "default" /\ x.got = "ok" /\ x.id = c.id
      BY <1>3, <1>5, <2>5, <3>1
    <3>7. x.mark = TRUE
      BY <1>1, <1>4, <3>3 DEF AddressCallRecord
    <3>8. userAddresses' = Marked(addresses', x.id)
      BY <1>1, <3>4, <3>6
    <3> QED
      BY <3>5, <3>6, <3>7, <3>8 DEF Fits
  <2> QED
    BY <1>1, <2>1, <2>2, <2>3, <2>4, <2>5 DEF AddressCallRecord
<1> QED
  BY <1>0, <1>1, <1>4, <1>7, Agreeing

LEMMA AddressInvStep ==
  AddressTypes /\ presses \in Nat /\ AddressInv /\ [Next]_vars => AddressInv'
<1> SUFFICES ASSUME AddressTypes, presses \in Nat, AddressInv, [Next]_vars,
                    "addresses" \notin doubt'
             PROVE  AddressInv'
  BY DEF AddressInv
<1>0. "addresses" \notin doubt
  BY DoubtsStay
<1>1. CASE AddressStep
  BY <1>0, <1>1, PressKeepsAddresses, AnswerKeepsAddresses, ServerKeepsAddresses
     DEF AddressStep
<1>2. CASE InboxStep \/ ReviewStep \/ UNCHANGED vars
  <2>1. UNCHANGED <<addresses, userAddresses, addressCalls, selected>>
    BY <1>2 DEF InboxStep, ReviewStep, vars, addressVars
  <2> QED
    BY <1>0, <2>1 DEF AddressInv, Fits
<1> QED
  BY <1>1, <1>2 DEF Next

\* While no answer was lost and no two requests overlapped, the application ends with the
\* server's addresses and its default, and an order goes to one of them.
THEOREM AddressesEndAgreed == Spec => []AddressesAgree
<1>1. Init => AddressTypes /\ presses \in Nat /\ AddressInv
  <2> SUFFICES ASSUME Init PROVE AddressTypes /\ presses \in Nat /\ AddressInv
    OBVIOUS
  <2>1. /\ addresses = userAddresses /\ userAddresses = [a \in {1, 2} |-> a = 1]
        /\ everUsed = 2 /\ selected = 1 /\ form = Closed /\ deleting = None
        /\ addressCalls = {}
    BY DEF Init, AddressesInit
  <2>2. userAddresses \in [{1, 2} -> BOOLEAN]
    BY <2>1
  <2>3. userAddresses \in AddressLists
    BY <2>2, MapsAre DEF AddressLists
  <2>4. AddressTypes
    BY <2>1, <2>3, FormsMade DEF AddressTypes, None
  <2>5. AddressInv
    BY <2>1 DEF AddressInv, Selectable
  <2> QED
    BY <2>4, <2>5 DEF Init
<1>2. AddressTypes /\ presses \in Nat /\ AddressInv /\ [Next]_vars
        => (AddressTypes /\ presses \in Nat /\ AddressInv)'
  BY DoubtsStay, AddressTypesStep, AddressInvStep
<1> QED
  BY <1>1, <1>2, AddressInvImplies, PTL DEF Spec

-----------------------------------------------------------------------------
(* Reviews                                                                 *)

ReviewLists == Maps(Targets, [id : Nat, rating : Nat])

ReviewCallRecord ==
  [op : {"create", "update", "refresh", "find", "replace", "delete"}, target : Targets,
   id : Nat, rating : Nat, editing : Nat, got : {"sent", "ok", "error", "duplicate"},
   seen : ReviewLists]

Modals == [target : Targets, editing : Nat, rating : Nat, open : BOOLEAN]

ReviewTypes ==
  /\ clientReviews \in ReviewLists /\ reviews \in ReviewLists
  /\ modal \in Modals
  /\ reviewCalls \subseteq ReviewCallRecord
  /\ told \in [Targets -> Nat]

LEMMA ReviewListsAre ==
  ASSUME NEW f
  PROVE  f \in ReviewLists <=>
           /\ DOMAIN f \subseteq Targets
           /\ f \in [DOMAIN f -> [id : Nat, rating : Nat]]
BY MapsAre DEF ReviewLists

LEMMA ReviewListsMade ==
  /\ EmptyMap \in ReviewLists
  /\ \A f \in ReviewLists : \A id : Without(f, id) \in ReviewLists
<1>1. EmptyMap \in [{} -> [id : Nat, rating : Nat]] /\ DOMAIN EmptyMap = {}
  BY DEF EmptyMap
<1>2. EmptyMap \in ReviewLists
  BY <1>1, ReviewListsAre
<1>3. ASSUME NEW f \in ReviewLists, NEW id PROVE Without(f, id) \in ReviewLists
  <2>1. PICK S : S = {t \in DOMAIN f : f[t].id # id}
    OBVIOUS
  <2>2. Restrict(f, S) \in ReviewLists
    BY <2>1, RestrictedMap DEF ReviewLists
  <2> QED
    BY <2>1, <2>2 DEF Without
<1> QED
  BY <1>2, <1>3

LEMMA NewReviewCall ==
  ASSUME NEW op \in {"create", "update", "refresh", "find", "replace", "delete"},
         NEW m, m.target \in Targets, m.rating \in Nat, m.editing \in Nat, NEW id \in Nat
  PROVE  /\ ReviewCall(op, m, id) \in ReviewCallRecord
         /\ ReviewCall(op, m, id).op = op /\ ReviewCall(op, m, id).target = m.target
         /\ ReviewCall(op, m, id).id = id /\ ReviewCall(op, m, id).rating = m.rating
         /\ ReviewCall(op, m, id).got = "sent" /\ ReviewCall(op, m, id).seen = EmptyMap
BY ReviewListsMade DEF ReviewCall, ReviewCallRecord

LEMMA ModalsMade ==
  /\ NoModal \in Modals /\ NoModal.editing = 0
  /\ \A t \in Targets : /\ [NoModal EXCEPT !.target = t].target = t
                        /\ [NoModal EXCEPT !.target = t].rating = 0
                        /\ [NoModal EXCEPT !.target = t].editing = 0
  /\ \A t \in Targets, id, r \in Nat :
       [target |-> t, editing |-> id, rating |-> r, open |-> TRUE] \in Modals
BY AccountAssumption DEF Modals, NoModal

\* What is listed, under its number.
Pairs(list) == {<<list[t].id, t>> : t \in DOMAIN list}

NamedBy(c) ==
  Pairs(c.seen) \cup
    (IF c.op \in {"update", "replace", "delete"} THEN {<<c.id, c.target>>} ELSE {})

\* Every number of a review that is anywhere, with what it reviews.
Named ==
  Pairs(reviews) \cup Pairs(clientReviews)
    \cup (IF modal.editing # 0 THEN {<<modal.editing, modal.target>>} ELSE {})
    \cup UNION {NamedBy(c) : c \in reviewCalls}

KeptAs(t) == told[t] # 0 => t \in DOMAIN reviews /\ reviews[t].rating = told[t]

\* what is true of its target while a request is under way
Truthful(c) ==
  /\ c.got \in {"sent", "duplicate"} \/ c.op \in {"find", "refresh"} => KeptAs(c.target)
  /\ c.op \in {"create", "update", "replace"} /\ c.got = "ok" =>
       c.target \in DOMAIN reviews /\ reviews[c.target].rating = c.rating

\* A number reviews one thing, and the number that a review under way will get is new.
Numbered ==
  /\ \A p, q \in Named : p[1] = q[1] => p[2] = q[2]
  /\ \A p \in Named : p[1] <= presses
  /\ \A c \in reviewCalls, p \in Named : c.op = "create" /\ c.got = "sent" => p[1] < presses

OneReviewCall == \A c, d \in reviewCalls : c = d

Truths ==
  /\ \A t \in Targets : (\A c \in reviewCalls : c.target # t) => KeptAs(t)
  /\ \A c \in reviewCalls : Truthful(c)

ReviewInv == "reviews" \notin doubt => OneReviewCall /\ Truths /\ Numbered

LEMMA ReviewInvImplies == ReviewInv => RatingIsKept
BY DEF ReviewInv, Truths, KeptAs, RatingIsKept

LEMMA PairsMade ==
  /\ Pairs(EmptyMap) = {}
  /\ \A f, id : Pairs(Without(f, id)) \subseteq Pairs(f)
  /\ \A f : \A t \in DOMAIN f : <<f[t].id, t>> \in Pairs(f)
<1>1. DOMAIN EmptyMap = {}
  BY DEF EmptyMap
<1>2. ASSUME NEW f, NEW id PROVE Pairs(Without(f, id)) \subseteq Pairs(f)
  <2>1. PICK g : g = Without(f, id)
    OBVIOUS
  <2>2. DOMAIN g \subseteq DOMAIN f /\ \A t \in DOMAIN g : g[t] = f[t]
    BY <2>1 DEF Without, Restrict
  <2>3. Pairs(g) \subseteq Pairs(f)
    BY <2>2 DEF Pairs
  <2> QED
    BY <2>1, <2>3
<1> QED
  BY <1>1, <1>2 DEF Pairs

LEMMA NamedIn ==
  ASSUME NEW S, Pairs(reviews') \subseteq S, Pairs(clientReviews') \subseteq S,
         modal'.editing # 0 => <<modal'.editing, modal'.target>> \in S,
         \A c \in reviewCalls' : NamedBy(c) \subseteq S
  PROVE  Named' \subseteq S
BY DEF Named

LEMMA NamedHas ==
  /\ Pairs(reviews) \subseteq Named /\ Pairs(clientReviews) \subseteq Named
  /\ modal.editing # 0 => <<modal.editing, modal.target>> \in Named
  /\ \A c \in reviewCalls : NamedBy(c) \subseteq Named /\ Pairs(c.seen) \subseteq Named
BY DEF Named, NamedBy

\* The lists and the calls of a step that the server takes no part in.
LEMMA ReviewTypesFrom ==
  ASSUME ReviewTypes, UNCHANGED reviews, clientReviews' \in ReviewLists,
         modal' \in Modals, told' \in [Targets -> Nat],
         Pairs(clientReviews') \subseteq Named,
         modal'.editing # 0 => <<modal'.editing, modal'.target>> \in Named,
         \/ reviewCalls' \subseteq reviewCalls
         \/ \E x \in ReviewCallRecord :
              NamedBy(x) \subseteq Named /\ reviewCalls' \subseteq reviewCalls \cup {x}
  PROVE  ReviewTypes' /\ Named' \subseteq Named
<1>1. ReviewTypes'
  BY DEF ReviewTypes
<1>2. \A c \in reviewCalls' : NamedBy(c) \subseteq Named
  BY NamedHas
<1>3. Pairs(reviews') \subseteq Named
  BY NamedHas
<1> QED
  BY <1>1, <1>2, <1>3, NamedIn

LEMMA ReviewPressTypes ==
  ASSUME ReviewTypes,
         \/ \E t \in Targets : OpenReview(t) \/ DeleteReview(t)
         \/ DismissReview \/ SubmitReview
  PROVE  ReviewTypes' /\ Named' \subseteq Named
<1>0. /\ UNCHANGED <<clientReviews, reviews, told>>
      /\ clientReviews \in ReviewLists /\ told \in [Targets -> Nat] /\ modal \in Modals
      /\ Pairs(clientReviews) \subseteq Named
  BY NamedHas DEF OpenReview, DeleteReview, DismissReview, SubmitReview, ReviewTypes
<1>1. ASSUME NEW t \in Targets, OpenReview(t) PROVE ReviewTypes' /\ Named' \subseteq Named
  <2>1. PICK r, e :
          /\ r \in Ratings
          /\ modal' = [target |-> t, editing |-> e, rating |-> r, open |-> TRUE]
          /\ e = 0 \/ (t \in DOMAIN clientReviews /\ e = clientReviews[t].id)
    BY <1>1 DEF OpenReview
  <2>2. e = 0 \/ (e \in Nat /\ <<e, t>> \in Named)
    BY <1>0, <2>1, ReviewListsAre, PairsMade
  <2>3. modal' \in Modals /\ modal'.editing = e /\ modal'.target = t
    BY <2>1, <2>2, AccountAssumption, ModalsMade
  <2>4. UNCHANGED reviewCalls
    BY <1>1 DEF OpenReview
  <2> QED
    BY <1>0, <2>2, <2>3, <2>4, ReviewTypesFrom
<1>2. ASSUME NEW t \in Targets, DeleteReview(t) PROVE ReviewTypes' /\ Named' \subseteq Named
  <2>1. PICK m, i, x : /\ m = [NoModal EXCEPT !.target = t] /\ i = clientReviews[t].id
                       /\ x = ReviewCall("delete", m, i)
    OBVIOUS
  <2>2. /\ t \in DOMAIN clientReviews /\ reviewCalls' = reviewCalls \cup {x} /\ UNCHANGED modal
    BY <1>2, <2>1 DEF DeleteReview
  <2>3. i \in Nat /\ <<i, t>> \in Named
    BY <1>0, <2>1, <2>2, ReviewListsAre, PairsMade
  <2>4. /\ x \in ReviewCallRecord /\ x.target = t /\ x.id = i /\ x.seen = EmptyMap
    <3>1. m.target = t /\ m.rating = 0 /\ m.editing = 0
      BY <2>1, ModalsMade
    <3>2. x = ReviewCall("delete", m, i)
      BY <2>1
    <3> QED
      BY <2>3, <3>1, <3>2, NewReviewCall
  <2>5. NamedBy(x) \subseteq Named
    BY <2>3, <2>4, PairsMade DEF NamedBy
  <2> QED
    BY <1>0, <2>2, <2>4, <2>5, NamedHas, ReviewTypesFrom
<1>3. CASE DismissReview
  <2>1. modal' = NoModal /\ UNCHANGED reviewCalls
    BY <1>3 DEF DismissReview
  <2> QED
    BY <1>0, <2>1, ModalsMade, ReviewTypesFrom
<1>4. CASE SubmitReview
  <2>1. PICK op, x : /\ op = IF modal.editing # 0 THEN "update" ELSE "create"
                     /\ x = ReviewCall(op, modal, modal.editing)
    OBVIOUS
  <2>2. reviewCalls' = reviewCalls \cup {x} /\ UNCHANGED modal
    BY <1>4, <2>1 DEF SubmitReview
  <2>3. modal.target \in Targets /\ modal.rating \in Nat /\ modal.editing \in Nat
    BY <1>0 DEF Modals
  <2>4. /\ x \in ReviewCallRecord /\ x.op = op /\ x.target = modal.target
        /\ x.id = modal.editing /\ x.seen = EmptyMap
    BY <2>1, <2>3, NewReviewCall
  <2>5. NamedBy(x) \subseteq Named
    BY <2>1, <2>4, PairsMade, NamedHas DEF NamedBy
  <2> QED
    BY <1>0, <2>2, <2>4, <2>5, NamedHas, ReviewTypesFrom
<1> QED
  BY <1>1, <1>2, <1>3, <1>4

\* What a request is followed by.
LEMMA Followed ==
  ASSUME NEW c \in ReviewCallRecord, NEW op \in {"refresh", "find", "replace"}, NEW id \in Nat,
         op = "replace" => <<id, c.target>> \in Named,
         Follow(c, op, id)
  PROVE  \E x \in ReviewCallRecord :
           /\ NamedBy(x) \subseteq Named /\ reviewCalls' = (reviewCalls \ {c}) \cup {x}
           /\ x.op = op /\ x.target = c.target /\ x.id = id /\ x.rating = c.rating
           /\ x.got = "sent"
<1>1. PICK x : x = ReviewCall(op, c, id)
  OBVIOUS
<1>2. /\ x \in ReviewCallRecord /\ x.op = op /\ x.target = c.target /\ x.id = id
      /\ x.rating = c.rating /\ x.got = "sent" /\ x.seen = EmptyMap
  <2>1. c.target \in Targets /\ c.rating \in Nat /\ c.editing \in Nat
    BY DEF ReviewCallRecord
  <2> QED
    BY <1>1, <2>1, NewReviewCall
<1>3. NamedBy(x) \subseteq Named
  BY <1>2, PairsMade DEF NamedBy
<1>4. reviewCalls' = (reviewCalls \ {c}) \cup {x}
  BY <1>1 DEF Follow
<1> QED
  BY <1>2, <1>3, <1>4

LEMMA ReviewAnswerTypes ==
  ASSUME ReviewTypes, NEW c \in reviewCalls,
         \/ ReviewKept(c) \/ ReviewsRefreshed(c) \/ ReviewExists(c) \/ ReviewFound(c)
         \/ ReviewReplaced(c) \/ ReviewDeleted(c) \/ ReviewCallFailed(c)
  PROVE  ReviewTypes' /\ Named' \subseteq Named
<1>0. /\ c \in ReviewCallRecord /\ c.target \in Targets /\ c.rating \in Nat /\ c.id \in Nat
      /\ c.seen \in ReviewLists
      /\ clientReviews \in ReviewLists /\ told \in [Targets -> Nat] /\ modal \in Modals
  BY DEF ReviewTypes, ReviewCallRecord
<1>1. UNCHANGED reviews
  BY DEF ReviewKept, ReviewsRefreshed, ReviewExists, ReviewFound, ReviewReplaced,
     ReviewDeleted, ReviewCallFailed
<1>2. told' \in [Targets -> Nat]
  <2>1. \/ UNCHANGED told
        \/ told' = [told EXCEPT ![c.target] = c.rating]
        \/ told' = [told EXCEPT ![c.target] = 0]
    BY DEF ReviewKept, ReviewsRefreshed, ReviewExists, ReviewFound, ReviewReplaced,
       ReviewDeleted, ReviewCallFailed
  <2> QED
    BY <1>0, <2>1
<1>3. /\ modal' \in Modals
      /\ modal'.editing # 0 => <<modal'.editing, modal'.target>> \in Named
  <2>1. modal' \in {modal, NoModal}
    BY DEF ReviewKept, ReviewsRefreshed, ReviewExists, ReviewFound, ReviewReplaced,
       ReviewDeleted, ReviewCallFailed, Finish
  <2> QED
    BY <1>0, <2>1, ModalsMade, NamedHas
<1>4. clientReviews' \in ReviewLists /\ Pairs(clientReviews') \subseteq Named
  <2>1. clientReviews' \in {clientReviews, c.seen, Without(clientReviews, c.id)}
    BY DEF ReviewKept, ReviewsRefreshed, ReviewExists, ReviewFound, ReviewReplaced,
       ReviewDeleted, ReviewCallFailed, Refreshed
  <2> QED
    BY <1>0, <2>1, ReviewListsMade, PairsMade, NamedHas
<1>5. \/ reviewCalls' \subseteq reviewCalls
      \/ \E x \in ReviewCallRecord :
           NamedBy(x) \subseteq Named /\ reviewCalls' \subseteq reviewCalls \cup {x}
  <2>1. CASE ReviewKept(c)
    <3>1. Follow(c, "refresh", c.id)
      BY <2>1 DEF ReviewKept
    <3> QED
      BY <1>0, <3>1, Followed
  <2>2. CASE ReviewExists(c)
    <3>1. Follow(c, "find", 0)
      BY <2>2 DEF ReviewExists
    <3> QED
      BY <1>0, <3>1, Followed
  <2>3. CASE ReviewFound(c)
    <3>1. CASE c.got = "ok" /\ c.target \in DOMAIN c.seen
      <4>1. PICK i : i = c.seen[c.target].id
        OBVIOUS
      <4>2. Follow(c, "replace", i)
        BY <2>3, <3>1, <4>1 DEF ReviewFound
      <4>3. i \in Nat /\ <<i, c.target>> \in Named
        BY <1>0, <3>1, <4>1, ReviewListsAre, PairsMade, NamedHas
      <4> QED
        BY <1>0, <4>2, <4>3, Followed
    <3>2. CASE ~(c.got = "ok" /\ c.target \in DOMAIN c.seen)
      BY <2>3, <3>2 DEF ReviewFound
    <3> QED
      BY <3>1, <3>2
  <2>4. CASE ReviewsRefreshed(c) \/ ReviewReplaced(c) \/ ReviewDeleted(c) \/ ReviewCallFailed(c)
    BY <2>4 DEF ReviewsRefreshed, ReviewReplaced, ReviewDeleted, ReviewCallFailed
  <2> QED
    BY <2>1, <2>2, <2>3, <2>4
<1> QED
  BY <1>1, <1>2, <1>3, <1>4, <1>5, ReviewTypesFrom

\* The request as it comes back.
LEMMA Replied ==
  ASSUME ReviewTypes, NEW c \in reviewCalls, AnswerReviewCall(c)
  PROVE  \E x \in ReviewCallRecord :
           /\ reviewCalls' = (reviewCalls \ {c}) \cup {x}
           /\ x.op = c.op /\ x.target = c.target /\ x.id = c.id /\ x.rating = c.rating
           /\ x.got \in {ReviewReply(c), "error"} /\ x.got # "sent"
           /\ x.seen \in {reviews, c.seen}
<1>0. c \in ReviewCallRecord /\ reviews \in ReviewLists /\ c.seen \in ReviewLists
  BY DEF ReviewTypes, ReviewCallRecord
<1>1. PICK got, seen : /\ reviewCalls' = (reviewCalls \ {c})
                                           \cup {[c EXCEPT !.seen = seen, !.got = got]}
                       /\ got \in {ReviewReply(c), "error"} /\ seen \in {reviews, c.seen}
  <2>1. [c EXCEPT !.got = "error"] = [c EXCEPT !.seen = c.seen, !.got = "error"]
    BY <1>0 DEF ReviewCallRecord
  <2>2. CASE reviewCalls' = (reviewCalls \ {c}) \cup {[c EXCEPT !.got = "error"]}
    BY <2>1, <2>2
  <2>3. CASE reviewCalls' = (reviewCalls \ {c}) \cup
               {[c EXCEPT !.seen = reviews, !.got = ReviewReply(c)]}
    BY <2>3
  <2> QED
    BY <2>2, <2>3 DEF AnswerReviewCall
<1>2. got \in {"ok", "error", "duplicate"} /\ seen \in ReviewLists
  BY <1>0, <1>1 DEF ReviewReply
<1>3. PICK x : x = [c EXCEPT !.seen = seen, !.got = got]
  OBVIOUS
<1>4. /\ x \in ReviewCallRecord /\ x.op = c.op /\ x.target = c.target /\ x.id = c.id
      /\ x.rating = c.rating /\ x.got = got /\ x.seen = seen
  BY <1>0, <1>2, <1>3 DEF ReviewCallRecord
<1>5. reviewCalls' = (reviewCalls \ {c}) \cup {x}
  BY <1>1, <1>3
<1> QED
  BY <1>1, <1>2, <1>4, <1>5

\* What the server makes of its reviews.
LEMMA ServedReviews ==
  ASSUME ReviewTypes, presses \in Nat, NEW c \in ReviewCallRecord, ReviewServed(c)
  PROVE  /\ reviews' \in ReviewLists
         /\ Pairs(reviews') \subseteq Named \cup
              (IF c.op = "create" THEN {<<presses, c.target>>} ELSE {})
<1>0. /\ reviews \in ReviewLists /\ c.target \in Targets /\ c.rating \in Nat
      /\ DOMAIN reviews \subseteq Targets /\ Pairs(reviews) \subseteq Named
      /\ reviews \in [DOMAIN reviews -> [id : Nat, rating : Nat]]
  BY ReviewListsAre, NamedHas DEF ReviewTypes, ReviewCallRecord
<1>1. CASE c.op = "create" /\ c.target \notin DOMAIN reviews
  <2>1. PICK r : r = [id |-> presses, rating |-> c.rating]
    OBVIOUS
  <2>2. r \in [id : Nat, rating : Nat] /\ r.id = presses
    BY <1>0, <2>1
  <2>3. PICK f : f = [t \in DOMAIN reviews \cup {c.target} |->
                        IF t = c.target THEN r ELSE reviews[t]]
    OBVIOUS
  <2>4. reviews' = f
    BY <1>1, <2>1, <2>3 DEF ReviewServed
  <2>5. f \in [DOMAIN reviews \cup {c.target} -> [id : Nat, rating : Nat]]
    BY <1>0, <2>2, <2>3
  <2>6. f \in ReviewLists
    BY <1>0, <2>5, ReviewListsAre
  <2>7. ASSUME NEW t \in DOMAIN f PROVE <<f[t].id, t>> \in Named \cup {<<presses, c.target>>}
    <3>1. CASE t = c.target
      BY <2>2, <2>3, <3>1
    <3>2. CASE t # c.target
      <4>1. t \in DOMAIN reviews /\ f[t] = reviews[t]
        BY <2>3, <3>2
      <4> QED
        BY <1>0, <4>1, PairsMade
    <3> QED
      BY <3>1, <3>2
  <2>8. Pairs(f) \subseteq Named \cup {<<presses, c.target>>}
    BY <2>7 DEF Pairs
  <2> QED
    BY <1>1, <2>4, <2>6, <2>8
<1>2. CASE c.op \in {"update", "replace"}
  <2>1. PICK f : f = [t \in DOMAIN reviews |->
                        IF reviews[t].id = c.id THEN [reviews[t] EXCEPT !.rating = c.rating]
                        ELSE reviews[t]]
    OBVIOUS
  <2>2. reviews' = f
    BY <1>2, <2>1 DEF ReviewServed
  <2>3. ASSUME NEW t \in DOMAIN reviews
        PROVE  f[t] \in [id : Nat, rating : Nat] /\ f[t].id = reviews[t].id
    <3>1. PICK r \in [id : Nat, rating : Nat] : r = reviews[t]
      BY <1>0
    <3>2. f[t] = IF r.id = c.id THEN [r EXCEPT !.rating = c.rating] ELSE r
      BY <2>1, <3>1
    <3>3. /\ [r EXCEPT !.rating = c.rating] \in [id : Nat, rating : Nat]
          /\ [r EXCEPT !.rating = c.rating].id = r.id
      BY <1>0
    <3> QED
      BY <3>1, <3>2, <3>3
  <2>4. DOMAIN f = DOMAIN reviews /\ f \in [DOMAIN f -> [id : Nat, rating : Nat]]
    BY <2>1, <2>3
  <2>5. f \in ReviewLists
    BY <1>0, <2>4, ReviewListsAre
  <2>6. Pairs(f) \subseteq Pairs(reviews)
    BY <2>3, <2>4 DEF Pairs
  <2> QED
    BY <1>0, <1>2, <2>2, <2>5, <2>6
<1>3. CASE c.op = "delete"
  <2>1. reviews' = Without(reviews, c.id)
    BY <1>3 DEF ReviewServed
  <2> QED
    BY <1>0, <1>3, <2>1, ReviewListsMade, PairsMade
<1>4. CASE c.op \notin {"update", "replace", "delete"}
           /\ ~(c.op = "create" /\ c.target \notin DOMAIN reviews)
  <2>1. UNCHANGED reviews
    BY <1>4 DEF ReviewServed
  <2> QED
    BY <1>0, <2>1
<1> QED
  BY <1>1, <1>2, <1>3, <1>4

LEMMA AnswerReviewTypes ==
  ASSUME ReviewTypes, presses \in Nat, NEW c \in reviewCalls, AnswerReviewCall(c)
  PROVE  /\ ReviewTypes'
         /\ Named' \subseteq Named \cup
              (IF c.op = "create" THEN {<<presses, c.target>>} ELSE {})
<1>0. /\ c \in ReviewCallRecord /\ ReviewServed(c)
      /\ UNCHANGED <<clientReviews, modal, told>>
  BY DEF ReviewTypes, AnswerReviewCall
<1>1. PICK S : S = Named \cup (IF c.op = "create" THEN {<<presses, c.target>>} ELSE {})
  OBVIOUS
<1>2. reviews' \in ReviewLists /\ Pairs(reviews') \subseteq S
  BY <1>0, <1>1, ServedReviews
<1>3. PICK x \in ReviewCallRecord :
        /\ reviewCalls' = (reviewCalls \ {c}) \cup {x}
        /\ x.op = c.op /\ x.target = c.target /\ x.id = c.id
        /\ x.seen \in {reviews, c.seen}
  BY Replied
<1>4. NamedBy(x) \subseteq Named
  BY <1>3, NamedHas DEF NamedBy
<1>5. \A d \in reviewCalls' : NamedBy(d) \subseteq S
  BY <1>1, <1>3, <1>4, NamedHas
<1>6. /\ Pairs(clientReviews') \subseteq S
      /\ modal'.editing # 0 => <<modal'.editing, modal'.target>> \in S
  BY <1>0, <1>1, NamedHas
<1>7. Named' \subseteq S
  BY <1>2, <1>5, <1>6, NamedIn
<1>8. ReviewTypes'
  BY <1>0, <1>2, <1>3 DEF ReviewTypes
<1> QED
  BY <1>1, <1>7, <1>8

LEMMA ReviewTypesStep ==
  ReviewTypes /\ presses \in Nat /\ [Next]_vars => ReviewTypes'
<1> SUFFICES ASSUME ReviewTypes, presses \in Nat, [Next]_vars PROVE ReviewTypes'
  OBVIOUS
<1>1. CASE ReviewStep
  BY <1>1, ReviewPressTypes, ReviewAnswerTypes, AnswerReviewTypes DEF ReviewStep
<1>2. CASE AddressStep \/ InboxStep \/ UNCHANGED vars
  BY <1>2 DEF AddressStep, InboxStep, vars, reviewVars, ReviewTypes
<1> QED
  BY <1>1, <1>2 DEF Next

LEMMA NamedTypes == ReviewTypes => Named \subseteq Nat \X Targets
<1> SUFFICES ASSUME ReviewTypes PROVE Named \subseteq Nat \X Targets
  OBVIOUS
<1>1. ASSUME NEW f \in ReviewLists PROVE Pairs(f) \subseteq Nat \X Targets
  <2>1. DOMAIN f \subseteq Targets /\ \A t \in DOMAIN f : f[t].id \in Nat
    BY ReviewListsAre
  <2> QED
    BY <2>1 DEF Pairs
<1>2. modal.editing \in Nat /\ modal.target \in Targets
  BY DEF ReviewTypes, Modals
<1>3. \A c \in reviewCalls : c.seen \in ReviewLists /\ c.id \in Nat /\ c.target \in Targets
  BY DEF ReviewTypes, ReviewCallRecord
<1>4. \A c \in reviewCalls : NamedBy(c) \subseteq Nat \X Targets
  BY <1>1, <1>3 DEF NamedBy
<1>5. Pairs(reviews) \subseteq Nat \X Targets /\ Pairs(clientReviews) \subseteq Nat \X Targets
  BY <1>1 DEF ReviewTypes
<1> QED
  BY <1>2, <1>4, <1>5 DEF Named

\* New numbers come from the server alone, and each of them once.
LEMMA Numbering ==
  ASSUME ReviewTypes, presses \in Nat, presses' \in Nat, presses' >= presses, Numbered,
         \/ /\ Named' \subseteq Named
            /\ \A c \in reviewCalls' : c.op = "create" /\ c.got = "sent" =>
                 c \in reviewCalls \/ presses' > presses
         \/ \E t : /\ Named' \subseteq Named \cup {<<presses, t>>}
                   /\ \A p \in Named : p[1] < presses
                   /\ \A c \in reviewCalls' : c.got # "sent"
  PROVE  Numbered'
<1>0. \A p \in Named : p[1] \in Nat
  BY NamedTypes
<1>1. CASE /\ Named' \subseteq Named
           /\ \A c \in reviewCalls' : c.op = "create" /\ c.got = "sent" =>
                c \in reviewCalls \/ presses' > presses
  <2>1. \A p, q \in Named' : p[1] = q[1] => p[2] = q[2]
    BY <1>1 DEF Numbered
  <2>2. \A p \in Named' : p[1] <= presses'
    BY <1>0, <1>1 DEF Numbered
  <2>3. ASSUME NEW c \in reviewCalls', NEW p \in Named', c.op = "create", c.got = "sent"
        PROVE  p[1] < presses'
    <3>1. p[1] \in Nat /\ p[1] <= presses /\ (c \in reviewCalls => p[1] < presses)
      BY <1>0, <1>1, <2>3 DEF Numbered
    <3>2. c \in reviewCalls \/ presses' > presses
      BY <1>1, <2>3
    <3> QED
      BY <3>1, <3>2
  <2> QED
    BY <2>1, <2>2, <2>3 DEF Numbered
<1>2. ASSUME NEW t, Named' \subseteq Named \cup {<<presses, t>>},
             \A p \in Named : p[1] < presses,
             \A c \in reviewCalls' : c.got # "sent"
      PROVE  Numbered'
  <2>1. ASSUME NEW p \in Named', NEW q \in Named', p[1] = q[1] PROVE p[2] = q[2]
    <3>1. CASE p \in Named /\ q \in Named
      BY <2>1, <3>1 DEF Numbered
    <3>2. CASE p = <<presses, t>> /\ q \in Named
      BY <1>0, <1>2, <2>1, <3>2
    <3>3. CASE q = <<presses, t>> /\ p \in Named
      BY <1>0, <1>2, <2>1, <3>3
    <3>4. CASE p = <<presses, t>> /\ q = <<presses, t>>
      BY <3>4
    <3> QED
      BY <1>2, <3>1, <3>2, <3>3, <3>4
  <2>2. ASSUME NEW p \in Named' PROVE p[1] <= presses'
    <3>1. CASE p \in Named
      BY <1>0, <1>2, <3>1
    <3>2. CASE p = <<presses, t>>
      BY <3>2
    <3> QED
      BY <1>2, <3>1, <3>2
  <2> QED
    BY <1>2, <2>1, <2>2 DEF Numbered
<1> QED
  BY <1>1, <1>2

LEMMA NumberedStep ==
  ASSUME ReviewTypes, presses \in Nat, "reviews" \notin doubt, "reviews" \notin doubt',
         ReviewStep, presses' \in Nat, presses' >= presses, OneReviewCall, Numbered
  PROVE  OneReviewCall' /\ Numbered'
<1>1. ASSUME NEW cs, Press("reviews", cs) PROVE cs = {} /\ presses' > presses
  BY <1>1 DEF Press
<1>2. CASE \/ \E t \in Targets : OpenReview(t) \/ DeleteReview(t)
           \/ DismissReview \/ SubmitReview
  <2>1. Named' \subseteq Named
    BY <1>2, ReviewPressTypes
  <2>2. \/ UNCHANGED reviewCalls
        \/ \E x : reviewCalls' = reviewCalls \cup {x} /\ Press("reviews", reviewCalls)
    BY <1>2 DEF OpenReview, DeleteReview, DismissReview, SubmitReview
  <2>3. \/ UNCHANGED reviewCalls
        \/ presses' > presses /\ \E x : reviewCalls' = {x}
    BY <1>1, <2>2
  <2>4. OneReviewCall'
    BY <2>3 DEF OneReviewCall
  <2> QED
    BY <2>1, <2>3, <2>4, Numbering
<1>3. ASSUME NEW c \in reviewCalls,
             \/ ReviewKept(c) \/ ReviewsRefreshed(c) \/ ReviewExists(c) \/ ReviewFound(c)
             \/ ReviewReplaced(c) \/ ReviewDeleted(c) \/ ReviewCallFailed(c)
      PROVE  OneReviewCall' /\ Numbered'
  <2>0. reviewCalls = {c} /\ c \in ReviewCallRecord
    BY DEF OneReviewCall, ReviewTypes
  <2>1. Named' \subseteq Named
    BY <1>3, ReviewAnswerTypes
  <2>2. \/ reviewCalls' = {}
        \/ \E op, id : op # "create" /\ Follow(c, op, id)
    BY <1>3, <2>0 DEF ReviewKept, ReviewsRefreshed, ReviewExists, ReviewFound, ReviewReplaced,
       ReviewDeleted, ReviewCallFailed
  <2>3. ASSUME NEW op, NEW id, op # "create", Follow(c, op, id)
        PROVE  \E x : x.op # "create" /\ reviewCalls' = {x}
    <3>1. PICK x : x = ReviewCall(op, c, id)
      OBVIOUS
    <3>2. x.op = op /\ reviewCalls' = {x}
      BY <2>0, <2>3, <3>1 DEF Follow, ReviewCall
    <3> QED
      BY <2>3, <3>2
  <2>4. reviewCalls' = {} \/ \E x : x.op # "create" /\ reviewCalls' = {x}
    BY <2>2, <2>3
  <2>5. OneReviewCall'
    BY <2>4 DEF OneReviewCall
  <2>6. \A d \in reviewCalls' : d.op # "create"
    BY <2>4
  <2> QED
    BY <2>1, <2>5, <2>6, Numbering
<1>4. ASSUME NEW c \in reviewCalls, AnswerReviewCall(c) PROVE OneReviewCall' /\ Numbered'
  <2>0. reviewCalls = {c} /\ c.got = "sent"
    BY <1>4 DEF OneReviewCall, AnswerReviewCall
  <2>1. PICK x : reviewCalls' = {x} /\ x.got # "sent"
    BY <1>4, <2>0, Replied
  <2>2. OneReviewCall' /\ \A d \in reviewCalls' : d.got # "sent"
    BY <2>1 DEF OneReviewCall
  <2>3. CASE c.op = "create"
    <3>1. Named' \subseteq Named \cup {<<presses, c.target>>}
      BY <1>4, <2>3, AnswerReviewTypes
    <3>2. \A p \in Named : p[1] < presses
      BY <2>0, <2>3 DEF Numbered
    <3> QED
      BY <2>2, <3>1, <3>2, Numbering
  <2>4. CASE c.op # "create"
    <3>1. Named' \subseteq Named
      BY <1>4, <2>4, AnswerReviewTypes
    <3> QED
      BY <2>2, <3>1, Numbering
  <2> QED
    BY <2>3, <2>4
<1> QED
  BY <1>2, <1>3, <1>4 DEF ReviewStep

\* The server touches the review that is meant, and no other.
LEMMA ServedTarget ==
  ASSUME ReviewTypes, Numbered, NEW c \in reviewCalls, ReviewServed(c)
  PROVE  /\ \A t \in Targets : t # c.target /\ t \in DOMAIN reviews =>
              t \in DOMAIN reviews' /\ reviews'[t].rating = reviews[t].rating
         /\ c.op \in {"create", "update", "replace"} /\ ReviewReply(c) = "ok" =>
              c.target \in DOMAIN reviews' /\ reviews'[c.target].rating = c.rating
         /\ c.op \in {"find", "refresh"} \/ ReviewReply(c) = "duplicate" => UNCHANGED reviews
<1>0. /\ c \in ReviewCallRecord
      /\ reviews \in [DOMAIN reviews -> [id : Nat, rating : Nat]]
      /\ DOMAIN reviews \subseteq Targets
  BY ReviewListsAre DEF ReviewTypes
<1>1. ASSUME NEW t \in DOMAIN reviews, reviews[t].id = c.id,
             c.op \in {"update", "replace", "delete"}
      PROVE  t = c.target
  <2>1. PICK p, q : p = <<reviews[t].id, t>> /\ q = <<c.id, c.target>>
    OBVIOUS
  <2>2. p \in Named /\ q \in Named
    BY <1>1, <2>1, PairsMade, NamedHas DEF NamedBy
  <2>3. p[1] = q[1] /\ p[2] = t /\ q[2] = c.target
    BY <1>1, <2>1
  <2> QED
    BY <2>2, <2>3 DEF Numbered
<1>2. CASE c.op = "create" /\ c.target \notin DOMAIN reviews
  <2>1. PICK r : r = [id |-> presses, rating |-> c.rating]
    OBVIOUS
  <2>2. r.rating = c.rating
    BY <2>1
  <2>3. reviews' = [t \in DOMAIN reviews \cup {c.target} |->
                      IF t = c.target THEN r ELSE reviews[t]]
    BY <1>2, <2>1 DEF ReviewServed
  <2>4. ReviewReply(c) = "ok"
    BY <1>2 DEF ReviewReply
  <2> QED
    BY <1>2, <2>2, <2>3, <2>4
<1>3. CASE c.op = "create" /\ c.target \in DOMAIN reviews
  <2>1. UNCHANGED reviews /\ ReviewReply(c) = "duplicate"
    BY <1>3 DEF ReviewServed, ReviewReply
  <2> QED
    BY <2>1
<1>4. CASE c.op \in {"update", "replace"}
  <2>1. reviews' = [t \in DOMAIN reviews |->
                      IF reviews[t].id = c.id THEN [reviews[t] EXCEPT !.rating = c.rating]
                      ELSE reviews[t]]
    BY <1>4 DEF ReviewServed
  <2>2. DOMAIN reviews' = DOMAIN reviews
    BY <2>1
  <2>3. ASSUME NEW t \in DOMAIN reviews, t # c.target PROVE reviews'[t] = reviews[t]
    BY <1>1, <1>4, <2>1, <2>3
  <2>4. ASSUME NEW t \in DOMAIN reviews, reviews[t].id = c.id
        PROVE  reviews'[t].rating = c.rating
    <3>1. PICK r \in [id : Nat, rating : Nat] : r = reviews[t]
      BY <1>0
    <3>2. reviews'[t] = [r EXCEPT !.rating = c.rating]
      BY <2>1, <2>4, <3>1
    <3> QED
      BY <3>2
  <2>5. /\ ReviewReply(c) # "duplicate"
        /\ ReviewReply(c) = "ok" => \E t \in DOMAIN reviews : reviews[t].id = c.id
    BY <1>4 DEF ReviewReply, Known
  <2> QED
    BY <1>1, <1>4, <2>2, <2>3, <2>4, <2>5
<1>5. CASE c.op = "delete"
  <2>1. PICK S : S = {t \in DOMAIN reviews : reviews[t].id # c.id}
    OBVIOUS
  <2>2. reviews' = Restrict(reviews, S)
    BY <1>5, <2>1 DEF ReviewServed, Without
  <2>3. DOMAIN reviews' = S /\ \A t \in S : reviews'[t] = reviews[t]
    BY <2>2 DEF Restrict
  <2>4. \A t \in DOMAIN reviews : t # c.target => t \in S
    BY <1>1, <1>5, <2>1
  <2>5. ReviewReply(c) # "duplicate"
    BY <1>5 DEF ReviewReply
  <2> QED
    BY <1>5, <2>3, <2>4, <2>5
<1>6. CASE c.op \in {"find", "refresh"}
  <2>1. UNCHANGED reviews
    BY <1>6 DEF ReviewServed
  <2> QED
    BY <1>6, <2>1
<1> QED
  BY <1>0, <1>2, <1>3, <1>4, <1>5, <1>6 DEF ReviewCallRecord

\* No request, or one that is truthful.
LEMMA Truthfulness ==
  ASSUME \/ reviewCalls' = {} /\ \A t \in Targets : KeptAs(t)'
         \/ \E x : /\ reviewCalls' = {x} /\ Truthful(x)'
                   /\ \A t \in Targets : t # x.target => KeptAs(t)'
  PROVE  Truths'
BY DEF Truths

LEMMA PressTruths ==
  ASSUME ReviewTypes, Truths, "reviews" \notin doubt, "reviews" \notin doubt',
         \/ \E t \in Targets : OpenReview(t) \/ DeleteReview(t)
         \/ DismissReview \/ SubmitReview
  PROVE  Truths'
<1>1. UNCHANGED <<told, reviews>>
  BY DEF OpenReview, DeleteReview, DismissReview, SubmitReview
<1>2. \/ UNCHANGED reviewCalls
      \/ \E op \in {"create", "update", "delete"} : \E m, id :
           /\ Press("reviews", reviewCalls)
           /\ reviewCalls' = reviewCalls \cup {ReviewCall(op, m, id)}
  <2>1. CASE SubmitReview
    BY <2>1 DEF SubmitReview
  <2>2. ASSUME NEW t \in Targets, DeleteReview(t)
        PROVE  \E m, id : /\ Press("reviews", reviewCalls)
                          /\ reviewCalls' = reviewCalls \cup {ReviewCall("delete", m, id)}
    BY <2>2 DEF DeleteReview
  <2>3. ASSUME (\E t \in Targets : OpenReview(t)) \/ DismissReview PROVE UNCHANGED reviewCalls
    BY <2>3 DEF OpenReview, DismissReview
  <2> QED
    BY <2>1, <2>2, <2>3
<1>3. CASE UNCHANGED reviewCalls
  BY <1>1, <1>3 DEF Truths, Truthful, KeptAs
<1>4. ASSUME NEW op \in {"create", "update", "delete"}, NEW m, NEW id,
             Press("reviews", reviewCalls),
             reviewCalls' = reviewCalls \cup {ReviewCall(op, m, id)}
      PROVE  Truths'
  <2>1. PICK x : x = ReviewCall(op, m, id)
    OBVIOUS
  <2>2. x.got = "sent" /\ x.op = op
    BY <2>1 DEF ReviewCall
  <2>3. reviewCalls = {} /\ reviewCalls' = {x}
    BY <1>4, <2>1 DEF Press
  <2>4. \A t \in Targets : KeptAs(t)'
    BY <1>1, <2>3 DEF Truths, KeptAs
  <2>5. x.target \in Targets
    BY <2>3, ReviewPressTypes DEF ReviewTypes, ReviewCallRecord
  <2>6. Truthful(x)'
    BY <2>2, <2>4, <2>5 DEF Truthful
  <2> QED
    BY <2>3, <2>4, <2>6, Truthfulness
<1> QED
  BY <1>2, <1>3, <1>4

LEMMA AnswerTruths ==
  ASSUME ReviewTypes, Truths, OneReviewCall, NEW c \in reviewCalls,
         \/ ReviewKept(c) \/ ReviewsRefreshed(c) \/ ReviewExists(c) \/ ReviewFound(c)
         \/ ReviewReplaced(c) \/ ReviewDeleted(c) \/ ReviewCallFailed(c)
  PROVE  Truths'
<1>0. /\ reviewCalls = {c} /\ c \in ReviewCallRecord /\ c.target \in Targets /\ Truthful(c)
      /\ \A t \in Targets : t # c.target => KeptAs(t)
      /\ told \in [Targets -> Nat]
  BY DEF OneReviewCall, Truths, ReviewTypes, ReviewCallRecord
<1>1. UNCHANGED reviews
  BY DEF ReviewKept, ReviewsRefreshed, ReviewExists, ReviewFound, ReviewReplaced,
     ReviewDeleted, ReviewCallFailed
<1>2. ASSUME NEW r, told' = [told EXCEPT ![c.target] = r]
      PROVE  told'[c.target] = r /\ \A t \in Targets : t # c.target => KeptAs(t)'
  BY <1>0, <1>1, <1>2 DEF KeptAs
<1>3. ASSUME UNCHANGED told PROVE \A t \in Targets : KeptAs(t)' <=> KeptAs(t)
  BY <1>1, <1>3 DEF KeptAs
\* what comes next when all is as it was told
<1>4. ASSUME \A t \in Targets : KeptAs(t)',
             \/ reviewCalls' = {}
             \/ \E op, id : op \in {"find", "refresh", "replace"} /\ Follow(c, op, id)
      PROVE  Truths'
  <2>1. ASSUME NEW op, NEW id, op \in {"find", "refresh", "replace"}, Follow(c, op, id)
        PROVE  \E x : /\ reviewCalls' = {x} /\ Truthful(x)'
                      /\ \A t \in Targets : t # x.target => KeptAs(t)'
    <3>1. PICK x : x = ReviewCall(op, c, id)
      OBVIOUS
    <3>2. reviewCalls' = {x} /\ x.got = "sent" /\ x.target = c.target
      BY <1>0, <2>1, <3>1 DEF Follow, ReviewCall
    <3>3. Truthful(x)'
      BY <1>0, <1>4, <3>2 DEF Truthful
    <3> QED
      BY <1>4, <3>2, <3>3
  <2> QED
    BY <1>4, <2>1, Truthfulness
<1>5. CASE ReviewKept(c) \/ ReviewReplaced(c)
  <2>1. /\ told' = [told EXCEPT ![c.target] = c.rating]
        /\ c.op \in {"create", "update", "replace"} /\ c.got = "ok"
        /\ reviewCalls' = {} \/ Follow(c, "refresh", c.id)
    BY <1>0, <1>5 DEF ReviewKept, ReviewReplaced
  <2>2. KeptAs(c.target)'
    BY <1>0, <1>1, <1>2, <2>1 DEF KeptAs, Truthful
  <2>3. \A t \in Targets : KeptAs(t)'
    BY <1>2, <2>1, <2>2
  <2> QED
    BY <1>4, <2>1, <2>3
<1>6. CASE ReviewDeleted(c) \/ ReviewCallFailed(c)
  <2>1. told' = [told EXCEPT ![c.target] = 0] /\ reviewCalls' = {}
    BY <1>0, <1>6 DEF ReviewDeleted, ReviewCallFailed
  <2>2. KeptAs(c.target)'
    BY <1>2, <2>1 DEF KeptAs
  <2>3. \A t \in Targets : KeptAs(t)'
    BY <1>2, <2>1, <2>2
  <2> QED
    BY <1>4, <2>1, <2>3
<1>7. CASE ReviewsRefreshed(c) \/ ReviewExists(c) \/ ReviewFound(c)
  <2>1. /\ UNCHANGED told
        /\ c.got = "duplicate" \/ c.op \in {"find", "refresh"}
        /\ reviewCalls' = {}
             \/ \E op, id : op \in {"find", "refresh", "replace"} /\ Follow(c, op, id)
    BY <1>0, <1>7 DEF ReviewsRefreshed, ReviewExists, ReviewFound
  <2>2. KeptAs(c.target)
    BY <1>0, <2>1 DEF Truthful
  <2>3. \A t \in Targets : KeptAs(t)'
    BY <1>0, <1>3, <2>1, <2>2
  <2> QED
    BY <1>4, <2>1, <2>3
<1> QED
  BY <1>5, <1>6, <1>7

LEMMA ServerTruths ==
  ASSUME ReviewTypes, Truths, Numbered, OneReviewCall, NEW c \in reviewCalls,
         AnswerReviewCall(c)
  PROVE  Truths'
<1>0. /\ reviewCalls = {c} /\ c.target \in Targets /\ Truthful(c) /\ c.got = "sent"
      /\ \A t \in Targets : t # c.target => KeptAs(t)
  BY DEF OneReviewCall, Truths, ReviewTypes, ReviewCallRecord, AnswerReviewCall
<1>1. UNCHANGED told /\ ReviewServed(c)
  BY DEF AnswerReviewCall
<1>2. KeptAs(c.target)
  BY <1>0 DEF Truthful
<1>3. PICK x : /\ reviewCalls' = {x} /\ x.op = c.op /\ x.target = c.target
               /\ x.rating = c.rating
               /\ x.got \in {ReviewReply(c), "error"} /\ x.got # "sent"
  BY <1>0, Replied
<1>4. \A t \in Targets : t # c.target => KeptAs(t)'
  BY <1>0, <1>1, ServedTarget DEF KeptAs
<1>5. Truthful(x)'
  <2>1. ASSUME x.got = "duplicate" \/ x.op \in {"find", "refresh"} PROVE KeptAs(c.target)'
    <3>1. UNCHANGED reviews
      BY <1>1, <1>3, <2>1, ServedTarget
    <3> QED
      BY <1>1, <1>2, <3>1 DEF KeptAs
  <2>2. ASSUME x.op \in {"create", "update", "replace"}, x.got = "ok"
        PROVE  c.target \in DOMAIN reviews' /\ reviews'[c.target].rating = c.rating
    BY <1>1, <1>3, <2>2, ServedTarget
  <2> QED
    BY <1>3, <2>1, <2>2 DEF Truthful
<1> QED
  BY <1>3, <1>4, <1>5, Truthfulness

LEMMA ReviewInvStep ==
  ReviewTypes /\ presses \in Nat /\ ReviewInv /\ [Next]_vars => ReviewInv'
<1> SUFFICES ASSUME ReviewTypes, presses \in Nat, ReviewInv, [Next]_vars,
                    "reviews" \notin doubt'
             PROVE  ReviewInv'
  BY DEF ReviewInv
<1>0. "reviews" \notin doubt /\ presses' \in Nat /\ presses' >= presses
  BY DoubtsStay
<1>1. OneReviewCall /\ Truths /\ Numbered
  BY <1>0 DEF ReviewInv
<1>2. CASE ReviewStep
  <2>1. OneReviewCall' /\ Numbered'
    BY <1>0, <1>1, <1>2, NumberedStep
  <2>2. Truths'
    BY <1>0, <1>1, <1>2, PressTruths, AnswerTruths, ServerTruths DEF ReviewStep
  <2> QED
    BY <2>1, <2>2 DEF ReviewInv
<1>3. CASE AddressStep \/ InboxStep \/ UNCHANGED vars
  <2>1. UNCHANGED <<clientReviews, modal, reviewCalls, reviews, told>>
    BY <1>3 DEF AddressStep, InboxStep, vars, reviewVars
  <2>2. Named' = Named
    BY <2>1 DEF Named
  <2>3. OneReviewCall' /\ Truths'
    BY <1>1, <2>1 DEF OneReviewCall, Truths, Truthful, KeptAs
  <2>4. Numbered'
    BY <1>0, <1>1, <2>1, <2>2, Numbering
  <2> QED
    BY <2>3, <2>4 DEF ReviewInv
<1> QED
  BY <1>2, <1>3 DEF Next

\* A rating that the user was told is kept is the server's, whatever was lost and submitted
\* again, unless the reviews' requests overlapped.
THEOREM RatingsToldAreKept == Spec => []RatingIsKept
<1>1. Init => ReviewTypes /\ presses \in Nat /\ ReviewInv
  <2> SUFFICES ASSUME Init PROVE ReviewTypes /\ presses \in Nat /\ ReviewInv
    OBVIOUS
  <2>1. /\ clientReviews = EmptyMap /\ reviews = EmptyMap /\ modal = NoModal
        /\ reviewCalls = {} /\ told = [t \in Targets |-> 0] /\ presses = 0
    BY DEF Init, ReviewsInit
  <2>2. ReviewTypes
    BY <2>1, ReviewListsMade, ModalsMade DEF ReviewTypes
  <2>3. Named = {}
    BY <2>1, PairsMade, ModalsMade DEF Named
  <2>4. OneReviewCall /\ Truths /\ Numbered
    BY <2>1, <2>3 DEF OneReviewCall, Truths, KeptAs, Numbered
  <2> QED
    BY <2>1, <2>2, <2>4 DEF ReviewInv
<1>2. ReviewTypes /\ presses \in Nat /\ ReviewInv /\ [Next]_vars
        => (ReviewTypes /\ presses \in Nat /\ ReviewInv)'
  BY DoubtsStay, ReviewTypesStep, ReviewInvStep
<1> QED
  BY <1>1, <1>2, ReviewInvImplies, PTL DEF Spec

-----------------------------------------------------------------------------
(* The inbox                                                               *)

Notes == [id : Nat, read : BOOLEAN]

InboxCallRecord ==
  [op : {"load", "mark", "all"}, id : Nat, many : Nat, got : {"sent", "ok", "error"},
   seen : Seq(Notes)]

\* Nothing is in a list twice.
Once(ms) == \A i, j \in DOMAIN ms : ms[i].id = ms[j].id => i = j

InboxTypes ==
  /\ inbox \in Seq(Notes) /\ Once(inbox)
  /\ notifications \in Seq(Nat) /\ notifications # <<>>
  /\ pushes \subseteq Posted
  /\ inboxCalls \subseteq InboxCallRecord
  /\ \A c \in inboxCalls : Once(c.seen)

\* With notifications stored in the seconds t, of which those of ps are still to come: the
\* newest are first, and an older one is missing only if it is to come or there are enough
\* that are as new.
Ordered(ms, t, ps) ==
  /\ \A i \in DOMAIN ms : ms[i].id \in DOMAIN t
  /\ \A i, j \in DOMAIN ms : i < j => t[ms[i].id] >= t[ms[j].id]
  /\ \A id \in DOMAIN t \ ps :
       (\E i \in DOMAIN ms : ms[i].id = id)
       \/ (Len(ms) >= InboxMax /\ t[ms[InboxMax].id] >= t[id])

\* What is of rd is shown as read, once those of ids are too.
Flagged(ms, ids, rd) ==
  \A i \in DOMAIN ms : (ms[i].read \/ ms[i].id \in ids) <=> ms[i].id \in rd

\* An answer under way: a newer list, or the marks that the inbox lacks.
InboxTied(c) ==
  /\ c.got # "error"
  /\ Flagged(inbox, IF c.op # "load" /\ c.got = "ok" THEN Marks(c) ELSE {}, readAt)
  /\ c.op = "load" => c.many >= InboxMax
  /\ (c.op = "load" /\ c.got = "ok") =>
       (Ordered(c.seen, notifications, pushes) /\ Flagged(c.seen, {}, readAt))

InboxInv == "inbox" \notin doubt =>
  /\ \A c, d \in inboxCalls : c = d
  /\ Ordered(inbox, notifications, pushes)
  /\ inboxCalls = {} => Flagged(inbox, {}, readAt)
  /\ \A c \in inboxCalls : InboxTied(c)

LEMMA ListIs ==
  ASSUME NEW ms \in Seq(Notes)
  PROVE  /\ Len(ms) \in Nat /\ DOMAIN ms = 1 .. Len(ms)
         /\ \A i \in DOMAIN ms : ms[i] \in Notes /\ ms[i].id \in Nat /\ ms[i].read \in BOOLEAN
<1>1. Len(ms) \in Nat /\ DOMAIN ms = 1 .. Len(ms)
  OBVIOUS
<1>2. \A i \in 1 .. Len(ms) : ms[i] \in Notes
  OBVIOUS
<1>3. \A m \in Notes : m.id \in Nat /\ m.read \in BOOLEAN
  BY DEF Notes
<1> QED
  BY <1>1, <1>2, <1>3

LEMMA CutIs ==
  ASSUME NEW ms \in Seq(Notes)
  PROVE  /\ Cut(ms) \in Seq(Notes)
         /\ Len(Cut(ms)) = IF Len(ms) > InboxMax THEN InboxMax ELSE Len(ms)
         /\ \A i \in DOMAIN Cut(ms) : i \in DOMAIN ms /\ Cut(ms)[i] = ms[i]
BY AccountAssumption DEF Cut

LEMMA FiltersOf ==
  ASSUME NEW ms \in Seq(Notes), Once(ms), NEW K \in SUBSET (DOMAIN ms)
  PROVE  /\ Once(Filtered(ms, K))
         /\ \A k \in DOMAIN Filtered(ms, K) : \E i \in K : Filtered(ms, K)[k] = ms[i]
<1>1. PICK f :
        /\ f \in [DOMAIN Filtered(ms, K) -> K]
        /\ \A k \in DOMAIN Filtered(ms, K) : Filtered(ms, K)[k] = ms[f[k]]
        /\ \A k, l \in DOMAIN Filtered(ms, K) : f[k] = f[l] => k = l
  <2>1. \E f : Source(f, Filtered(ms, K), ms, K)
    BY FilteredIs
  <2> QED
    BY <2>1 DEF Source
<1>2. \A k \in DOMAIN Filtered(ms, K) : f[k] \in K /\ Filtered(ms, K)[k] = ms[f[k]]
  BY <1>1
<1>3. ASSUME NEW k \in DOMAIN Filtered(ms, K), NEW l \in DOMAIN Filtered(ms, K),
             Filtered(ms, K)[k].id = Filtered(ms, K)[l].id
      PROVE  k = l
  <2>1. ms[f[k]].id = ms[f[l]].id /\ f[k] \in DOMAIN ms /\ f[l] \in DOMAIN ms
    BY <1>2, <1>3
  <2>2. f[k] = f[l]
    BY <2>1 DEF Once
  <2> QED
    BY <1>1, <2>2
<1>4. Once(Filtered(ms, K))
  BY <1>3 DEF Once
<1> QED
  BY <1>2, <1>4

LEMMA TopIs ==
  ASSUME NEW ms \in Seq(Notes), NEW m \in Notes
  PROVE  /\ <<m>> \o ms \in Seq(Notes) /\ Len(<<m>> \o ms) = Len(ms) + 1
         /\ (<<m>> \o ms)[1] = m
         /\ \A i \in 2 .. Len(ms) + 1 : i - 1 \in DOMAIN ms /\ (<<m>> \o ms)[i] = ms[i - 1]
OBVIOUS

\* What comes is on top, and only there.
LEMMA OnTopIs ==
  ASSUME NEW ms \in Seq(Notes), Once(ms), NEW m \in Notes
  PROVE  /\ OnTop(ms, m) \in Seq(Notes) /\ Once(OnTop(ms, m))
         /\ \E fs \in Seq(Notes) :
              /\ OnTop(ms, m) = Cut(<<m>> \o fs)
              /\ \E f : Source(f, fs, ms, {i \in DOMAIN ms : ms[i].id # m.id})
<1>1. PICK K \in SUBSET (DOMAIN ms) : K = {i \in DOMAIN ms : ms[i].id # m.id}
  OBVIOUS
<1>2. PICK fs \in Seq(Notes) : fs = Filtered(ms, K) /\ Once(fs)
  BY FilteredIs, FiltersOf
<1>3. \A k \in DOMAIN fs : fs[k].id # m.id
  BY <1>1, <1>2, FiltersOf
<1>4. PICK top \in Seq(Notes) :
        /\ top = <<m>> \o fs /\ Len(top) = Len(fs) + 1 /\ top[1] = m
        /\ \A i \in 2 .. Len(fs) + 1 : i - 1 \in DOMAIN fs /\ top[i] = fs[i - 1]
  BY TopIs
<1>5. OnTop(ms, m) = Cut(top)
  BY <1>1, <1>2, <1>4 DEF OnTop
<1>6. Once(top)
  <2>0. Len(fs) \in Nat /\ DOMAIN fs = 1 .. Len(fs) /\ DOMAIN top = 1 .. Len(fs) + 1
    BY <1>4, ListIs
  <2>1. \A i \in DOMAIN top : i = 1 \/ i \in 2 .. Len(fs) + 1
    BY <2>0
  <2>2. ASSUME NEW i \in DOMAIN top, NEW j \in DOMAIN top, top[i].id = top[j].id
        PROVE  i = j
    <3>1. CASE i = 1 /\ j \in 2 .. Len(fs) + 1
      BY <1>3, <1>4, <2>2, <3>1
    <3>2. CASE j = 1 /\ i \in 2 .. Len(fs) + 1
      BY <1>3, <1>4, <2>2, <3>2
    <3>3. CASE i \in 2 .. Len(fs) + 1 /\ j \in 2 .. Len(fs) + 1
      <4>1. i - 1 \in DOMAIN fs /\ j - 1 \in DOMAIN fs /\ fs[i - 1].id = fs[j - 1].id
        BY <1>4, <2>2, <3>3
      <4>2. i - 1 = j - 1
        BY <1>2, <4>1 DEF Once
      <4> QED
        BY <2>0, <4>2
    <3> QED
      BY <2>1, <3>1, <3>2, <3>3
  <2> QED
    BY <2>2 DEF Once
<1>7. Once(Cut(top))
  <2>1. \A i \in DOMAIN Cut(top) : i \in DOMAIN top /\ Cut(top)[i] = top[i]
    BY CutIs
  <2> QED
    BY <1>6, <2>1 DEF Once
<1>8. \E f : Source(f, fs, ms, K)
  BY <1>2, FilteredIs
<1> QED
  BY <1>1, <1>4, <1>5, <1>7, <1>8, CutIs

LEMMA NewestIs ==
  ASSUME InboxTypes, NEW n \in Nat, NEW ms \in Newest(n)
  PROVE  /\ ms \in Seq(Notes) /\ Once(ms)
         /\ n >= InboxMax => Ordered(ms, notifications, pushes) /\ Flagged(ms, {}, readAt)
<1>0. /\ InboxMax \in Nat /\ InboxMax > 0
      /\ Len(notifications) \in Nat /\ Posted = 1 .. Len(notifications)
      /\ \A id \in Posted : id \in Nat /\ notifications[id] \in Nat
  BY AccountAssumption DEF InboxTypes, Posted
<1>1. PICK p \in NewestIds(n) : ms = [i \in DOMAIN p |-> [id |-> p[i], read |-> p[i] \in readAt]]
  BY DEF Newest
<1>2. /\ p \in SeqOf(Posted, n)
      /\ \A i, j \in DOMAIN p : i < j => p[i] # p[j] /\ notifications[p[i]] >= notifications[p[j]]
      /\ \A id \in Posted \ ToSet(p) : Len(p) = n /\ notifications[p[n]] >= notifications[id]
  BY DEF NewestIds
<1>3. PICK k \in 0 .. n : p \in [1 .. k -> Posted]
  BY <1>2 DEF SeqOf
<1>4. DOMAIN p = 1 .. k /\ Len(p) = k /\ DOMAIN ms = 1 .. k
  BY <1>1, <1>3
<1>5. \A i \in 1 .. k : /\ ms[i].id = p[i] /\ ms[i].id \in Posted
                        /\ ms[i].read <=> ms[i].id \in readAt
                        /\ ms[i] \in Notes
  <2> SUFFICES ASSUME NEW i \in 1 .. k
               PROVE  /\ ms[i].id = p[i] /\ ms[i].id \in Posted
                      /\ ms[i].read <=> ms[i].id \in readAt
                      /\ ms[i] \in Notes
    OBVIOUS
  <2>1. PICK v \in Posted : v = p[i] /\ v \in Nat
    BY <1>0, <1>3
  <2>2. PICK b : b = (v \in readAt)
    OBVIOUS
  <2>3. ms[i] = [id |-> v, read |-> b]
    BY <1>1, <1>4, <2>1, <2>2
  <2>4. b \in BOOLEAN /\ (b <=> v \in readAt)
    <3>1. CASE v \in readAt
      BY <2>2, <3>1
    <3>2. CASE v \notin readAt
      <4>1. (v \in readAt) = FALSE
        BY <3>2
      <4>2. b = FALSE
        BY <2>2, <4>1
      <4> QED
        BY <3>2, <4>2
    <3> QED
      BY <3>1, <3>2
  <2> QED
    BY <2>1, <2>3, <2>4 DEF Notes
<1>6. ms \in Seq(Notes) /\ Len(ms) = k
  <2>1. ms = [i \in 1 .. k |-> ms[i]]
    BY <1>1, <1>4
  <2> QED
    BY <1>5, <2>1
<1>7. Once(ms)
  <2>1. ASSUME NEW i \in 1 .. k, NEW j \in 1 .. k, p[i] = p[j] PROVE i = j
    BY <1>2, <1>4, <2>1
  <2> QED
    BY <1>4, <1>5, <2>1 DEF Once
<1>8. ASSUME n >= InboxMax PROVE Ordered(ms, notifications, pushes)
  <2>1. ASSUME NEW id \in Posted, ~ \E i \in DOMAIN ms : ms[i].id = id
        PROVE  Len(ms) >= InboxMax /\ notifications[ms[InboxMax].id] >= notifications[id]
    <3>1. id \notin ToSet(p)
      BY <1>4, <1>5, <2>1 DEF ToSet
    <3>2. k = n /\ notifications[p[n]] >= notifications[id]
      BY <1>2, <1>4, <3>1
    <3>3. InboxMax \in 1 .. k /\ n \in 1 .. k
      BY <1>0, <1>8, <3>2
    <3>4. /\ notifications[p[InboxMax]] \in Nat /\ notifications[p[n]] \in Nat
          /\ notifications[id] \in Nat
      BY <1>0, <1>3, <3>3
    <3>5. notifications[p[InboxMax]] >= notifications[p[n]]
      <4>1. CASE InboxMax < n
        BY <1>2, <1>4, <3>3, <4>1
      <4>2. CASE InboxMax = n
        BY <3>4, <4>2
      <4> QED
        BY <1>0, <1>8, <4>1, <4>2
    <3> QED
      BY <1>0, <1>5, <1>6, <1>8, <3>2, <3>3, <3>4, <3>5
  <2> QED
    BY <1>2, <1>4, <1>5, <2>1 DEF Ordered, Posted
<1>9. Flagged(ms, {}, readAt)
  BY <1>4, <1>5 DEF Flagged
<1> QED
  BY <1>6, <1>7, <1>8, <1>9

\* A request that is made.
LEMMA InboxPress ==
  ASSUME InboxTypes, LoadInbox \/ MarkAllRead \/ \E id \in NoteIds : MarkRead(id)
  PROVE  \E x \in InboxCallRecord :
           /\ x.got = "sent" /\ Once(x.seen) /\ (x.op = "load" => x.many >= InboxMax)
           /\ inboxCalls' = inboxCalls \cup {x} /\ Press("inbox", inboxCalls)
           /\ UNCHANGED <<inbox, notifications, readAt, pushes>>
<1>1. ASSUME NEW op \in {"load", "mark", "all"}, NEW id \in Nat, NEW n \in Nat,
             op = "load" => n >= InboxMax,
             inboxCalls' = inboxCalls \cup {InboxCall(op, id, n)}, Press("inbox", inboxCalls),
             UNCHANGED <<inbox, notifications, readAt, pushes>>
      PROVE  \E x \in InboxCallRecord :
               /\ x.got = "sent" /\ Once(x.seen) /\ (x.op = "load" => x.many >= InboxMax)
               /\ inboxCalls' = inboxCalls \cup {x} /\ Press("inbox", inboxCalls)
               /\ UNCHANGED <<inbox, notifications, readAt, pushes>>
  <2>0. <<>> \in Seq(Notes)
    OBVIOUS
  <2>1. PICK e : e = <<>>
    OBVIOUS
  <2>2. Once(e) /\ e \in Seq(Notes)
    BY <2>0, <2>1 DEF Once
  <2>3. PICK x : x = [op |-> op, id |-> id, many |-> n, got |-> "sent", seen |-> e]
    OBVIOUS
  <2>4. x \in InboxCallRecord /\ x.got = "sent" /\ x.seen = e /\ x.op = op /\ x.many = n
    BY <2>2, <2>3 DEF InboxCallRecord
  <2>5. x = InboxCall(op, id, n)
    BY <2>1, <2>3 DEF InboxCall
  <2> QED
    BY <1>1, <2>2, <2>4, <2>5
<1>2. CASE LoadInbox
  <2>1. PICK n \in {InboxMax, Len(inbox) + InboxMax} :
          inboxCalls' = inboxCalls \cup {InboxCall("load", None, n)}
    BY <1>2 DEF LoadInbox
  <2>2. Len(inbox) \in Nat
    BY ListIs DEF InboxTypes
  <2>3. n \in Nat /\ n >= InboxMax
    BY <2>2, AccountAssumption
  <2>4. Press("inbox", inboxCalls) /\ UNCHANGED <<inbox, notifications, readAt, pushes>>
    BY <1>2 DEF LoadInbox
  <2>5. None \in Nat
    BY DEF None
  <2> QED
    BY <1>1, <2>1, <2>3, <2>4, <2>5
<1>3. CASE MarkAllRead
  <2>1. /\ inboxCalls' = inboxCalls \cup {InboxCall("all", None, 0)}
        /\ Press("inbox", inboxCalls) /\ UNCHANGED <<inbox, notifications, readAt, pushes>>
    BY <1>3 DEF MarkAllRead
  <2>2. None \in Nat
    BY DEF None
  <2> QED
    BY <1>1, <2>1, <2>2
<1>4. ASSUME NEW id \in NoteIds, MarkRead(id)
      PROVE  /\ inboxCalls' = inboxCalls \cup {InboxCall("mark", id, 0)} /\ id \in Nat
             /\ Press("inbox", inboxCalls) /\ UNCHANGED <<inbox, notifications, readAt, pushes>>
  BY <1>4, AccountAssumption DEF MarkRead, NoteIds
<1> QED
  BY <1>1, <1>2, <1>3, <1>4

\* A request that is answered.
LEMMA InboxReply ==
  ASSUME InboxTypes, NEW c \in inboxCalls, AnswerInboxCall(c)
  PROVE  /\ UNCHANGED <<inbox, notifications, pushes>>
         /\ readAt' = IF c.op = "load" THEN readAt
                      ELSE readAt \cup (Marks(c) \cap Posted)
         /\ \E x \in InboxCallRecord :
              /\ Once(x.seen) /\ x.op = c.op /\ x.id = c.id /\ x.many = c.many
              /\ inboxCalls' = (inboxCalls \ {c}) \cup {x}
              /\ \/ x.got = "ok" /\ Plain /\ (c.op = "load" => x.seen \in Newest(c.many))
                 \/ Lapse({"inbox"})
<1>0. c \in InboxCallRecord /\ Once(c.seen)
  BY DEF InboxTypes
<1>1. CASE /\ Plain
           /\ \E s \in IF c.op = "load" THEN Newest(c.many) ELSE {<<>>} :
                inboxCalls' = (inboxCalls \ {c}) \cup {[c EXCEPT !.got = "ok", !.seen = s]}
  <2>0. c.many \in Nat
    BY <1>0 DEF InboxCallRecord
  <2>a. PICK s \in IF c.op = "load" THEN Newest(c.many) ELSE {<<>>} :
          inboxCalls' = (inboxCalls \ {c}) \cup {[c EXCEPT !.got = "ok", !.seen = s]}
    BY <1>1
  <2>1. s \in Seq(Notes) /\ Once(s) /\ (c.op = "load" => s \in Newest(c.many))
    <3>1. CASE c.op = "load"
      BY <2>0, <2>a, <3>1, NewestIs
    <3>2. CASE c.op # "load"
      <4>1. <<>> \in Seq(Notes) /\ Once(<<>>)
        BY DEF Once
      <4> QED
        BY <2>a, <3>2, <4>1
    <3> QED
      BY <3>1, <3>2
  <2>2. PICK x : x = [c EXCEPT !.got = "ok", !.seen = s]
    OBVIOUS
  <2>3. /\ x \in InboxCallRecord /\ x.seen = s /\ x.got = "ok"
        /\ x.op = c.op /\ x.id = c.id /\ x.many = c.many
    BY <1>0, <2>1, <2>2 DEF InboxCallRecord
  <2>4. inboxCalls' = (inboxCalls \ {c}) \cup {x}
    BY <2>a, <2>2
  <2> QED
    BY <1>1, <2>1, <2>3, <2>4 DEF AnswerInboxCall
<1>2. CASE /\ Lapse({"inbox"})
           /\ inboxCalls' = (inboxCalls \ {c}) \cup {[c EXCEPT !.got = "error"]}
  <2>1. PICK x : x = [c EXCEPT !.got = "error"]
    OBVIOUS
  <2>2. /\ x \in InboxCallRecord /\ x.seen = c.seen
        /\ x.op = c.op /\ x.id = c.id /\ x.many = c.many
    BY <1>0, <2>1 DEF InboxCallRecord
  <2>3. inboxCalls' = (inboxCalls \ {c}) \cup {x}
    BY <1>2, <2>1
  <2> QED
    BY <1>0, <1>2, <2>2, <2>3 DEF AnswerInboxCall
<1> QED
  BY <1>1, <1>2 DEF AnswerInboxCall

\* An inbox that is marked.
LEMMA InboxMarked ==
  ASSUME InboxTypes, NEW c \in inboxCalls, MarkAnswered(c)
  PROVE  /\ inbox' \in Seq(Notes) /\ DOMAIN inbox' = DOMAIN inbox /\ Len(inbox') = Len(inbox)
         /\ \A i \in DOMAIN inbox :
              /\ inbox'[i].id = inbox[i].id
              /\ inbox'[i].read <=>
                   inbox[i].read \/ (c.got = "ok" /\ inbox[i].id \in Marks(c))
<1>1. Len(inbox) \in Nat /\ DOMAIN inbox = 1 .. Len(inbox)
  BY ListIs DEF InboxTypes
<1>2. inbox' = [i \in DOMAIN inbox |->
        [inbox[i] EXCEPT !.read = @ \/ (c.got = "ok" /\ inbox[i].id \in Marks(c))]]
  BY DEF MarkAnswered
<1>3. ASSUME NEW i \in DOMAIN inbox
      PROVE  /\ inbox'[i] \in Notes /\ inbox'[i].id = inbox[i].id
             /\ inbox'[i].read <=>
                   inbox[i].read \/ (c.got = "ok" /\ inbox[i].id \in Marks(c))
  <2>1. PICK m \in Notes : m = inbox[i]
    BY ListIs DEF InboxTypes
  <2>2. PICK b : b = (m.read \/ (c.got = "ok" /\ m.id \in Marks(c)))
    OBVIOUS
  <2>3. b \in BOOLEAN /\ (b <=> m.read \/ (c.got = "ok" /\ m.id \in Marks(c)))
    <3>1. CASE m.read \/ (c.got = "ok" /\ m.id \in Marks(c))
      BY <2>2, <3>1
    <3>2. CASE ~(m.read \/ (c.got = "ok" /\ m.id \in Marks(c)))
      <4>1. (m.read \/ (c.got = "ok" /\ m.id \in Marks(c))) = FALSE
        BY <3>2
      <4>2. b = FALSE
        BY <2>2, <4>1
      <4> QED
        BY <3>2, <4>2
    <3> QED
      BY <3>1, <3>2
  <2>4. inbox'[i] = [m EXCEPT !.read = b]
    BY <1>2, <2>1, <2>2
  <2>5. inbox'[i] \in Notes /\ inbox'[i].id = m.id /\ inbox'[i].read = b
    BY <2>3, <2>4 DEF Notes
  <2> QED
    BY <2>1, <2>3, <2>5
<1>4. DOMAIN inbox' = 1 .. Len(inbox) /\ inbox' = [i \in 1 .. Len(inbox) |-> inbox'[i]]
  BY <1>1, <1>2
<1>5. inbox' \in Seq(Notes)
  BY <1>1, <1>3, <1>4
<1>6. Len(inbox') = Len(inbox)
  BY <1>1, <1>4, <1>5
<1> QED
  BY <1>1, <1>3, <1>4, <1>5, <1>6

\* With one more notification, the newest.
Grown(t, new) ==
  /\ t \in Seq(Nat) /\ t # <<>> /\ DOMAIN t = Posted \cup {new} /\ new \notin Posted
  /\ \A id \in Posted : t[id] = notifications[id]

LEMMA NotifyGrows ==
  ASSUME InboxTypes, Notify
  PROVE  \E t, new : /\ Grown(t, new) /\ notifications' = t /\ pushes' = pushes \cup {new}
                     /\ UNCHANGED <<inbox, inboxCalls, readAt>>
<1>1. PICK n \in Nat : n = Len(notifications) /\ Posted = 1 .. n /\ n > 0
  BY DEF InboxTypes, Posted
<1>2. notifications[n] \in Nat /\ Last(notifications) = notifications[n]
  BY <1>1 DEF InboxTypes, Last
<1>3. PICK second : /\ second \in {Last(notifications), Last(notifications) + 1}
                    /\ notifications' = Append(notifications, second)
  BY DEF Notify
<1>4. second \in Nat
  BY <1>2, <1>3
<1>5. PICK t : t = Append(notifications, second)
  OBVIOUS
<1>6. /\ t \in Seq(Nat) /\ Len(t) = n + 1 /\ DOMAIN t = 1 .. n + 1
      /\ \A i \in 1 .. n : t[i] = notifications[i]
  BY <1>1, <1>4, <1>5 DEF InboxTypes
<1>7. Grown(t, n + 1)
  BY <1>1, <1>6 DEF Grown
<1>8. /\ notifications' = t /\ pushes' = pushes \cup {n + 1}
      /\ UNCHANGED <<inbox, inboxCalls, readAt>>
  BY <1>3, <1>5, <1>6 DEF Notify
<1> QED
  BY <1>7, <1>8

LEMMA InboxTypesStep == InboxTypes /\ [Next]_vars => InboxTypes'
<1> SUFFICES ASSUME InboxTypes, [Next]_vars PROVE InboxTypes'
  OBVIOUS
<1>0. /\ inbox \in Seq(Notes) /\ Once(inbox)
      /\ notifications \in Seq(Nat) /\ notifications # <<>> /\ Posted = DOMAIN notifications
      /\ pushes \subseteq Posted
      /\ inboxCalls \subseteq InboxCallRecord
      /\ \A c \in inboxCalls : Once(c.seen)
  BY DEF InboxTypes, Posted
<1>1. CASE LoadInbox \/ MarkAllRead \/ \E id \in NoteIds : MarkRead(id)
  <2>1. PICK x \in InboxCallRecord :
          /\ Once(x.seen) /\ inboxCalls' = inboxCalls \cup {x}
          /\ UNCHANGED <<inbox, notifications, readAt, pushes>>
    BY <1>1, InboxPress
  <2> QED
    BY <1>0, <2>1 DEF InboxTypes, Posted
<1>2. ASSUME Notify PROVE InboxTypes'
  <2>1. PICK t, new : /\ Grown(t, new) /\ notifications' = t /\ pushes' = pushes \cup {new}
                      /\ UNCHANGED <<inbox, inboxCalls>>
    BY <1>2, NotifyGrows
  <2> QED
    BY <1>0, <2>1 DEF InboxTypes, Grown, Posted
<1>3. ASSUME NEW id \in NoteIds, NotifyAgain(id) PROVE InboxTypes'
  <2>1. /\ id \in Posted /\ pushes' = pushes \cup {id}
        /\ UNCHANGED <<inbox, inboxCalls, notifications>>
    BY <1>3 DEF NotifyAgain
  <2> QED
    BY <1>0, <2>1 DEF InboxTypes, Posted
<1>4. ASSUME NEW id \in NoteIds, Notified(id) PROVE InboxTypes'
  <2>1. /\ pushes' \subseteq pushes /\ inbox' = OnTop(inbox, [id |-> id, read |-> FALSE])
        /\ UNCHANGED <<inboxCalls, notifications>>
    BY <1>4 DEF Notified
  <2>2. [id |-> id, read |-> FALSE] \in Notes
    BY AccountAssumption DEF Notes, NoteIds
  <2>3. inbox' \in Seq(Notes) /\ Once(inbox')
    BY <1>0, <2>1, <2>2, OnTopIs
  <2> QED
    BY <1>0, <2>1, <2>3 DEF InboxTypes, Posted
<1>5. ASSUME NEW c \in inboxCalls, InboxLoaded(c) PROVE InboxTypes'
  <2>1. /\ inboxCalls' = inboxCalls \ {c} /\ inbox' = IF c.got = "ok" THEN c.seen ELSE inbox
        /\ UNCHANGED <<notifications, pushes>>
    BY <1>5 DEF InboxLoaded
  <2>2. c.seen \in Seq(Notes) /\ Once(c.seen)
    BY <1>0 DEF InboxCallRecord
  <2> QED
    BY <1>0, <2>1, <2>2 DEF InboxTypes, Posted
<1>6. ASSUME NEW c \in inboxCalls, MarkAnswered(c) PROVE InboxTypes'
  <2>1. inboxCalls' = inboxCalls \ {c} /\ UNCHANGED <<notifications, pushes>>
    BY <1>6 DEF MarkAnswered
  <2>2. inbox' \in Seq(Notes) /\ Once(inbox')
    BY <1>0, <1>6, InboxMarked DEF Once
  <2> QED
    BY <1>0, <2>1, <2>2 DEF InboxTypes, Posted
<1>7. ASSUME NEW c \in inboxCalls, AnswerInboxCall(c) PROVE InboxTypes'
  <2>1. PICK x \in InboxCallRecord :
          Once(x.seen) /\ inboxCalls' = (inboxCalls \ {c}) \cup {x}
    BY <1>7, InboxReply
  <2>2. UNCHANGED <<inbox, notifications, pushes>>
    BY <1>7, InboxReply
  <2> QED
    BY <1>0, <2>1, <2>2 DEF InboxTypes, Posted
<1>8. CASE AddressStep \/ ReviewStep \/ UNCHANGED vars
  <2>1. UNCHANGED inboxVars
    BY <1>8 DEF AddressStep, ReviewStep, vars
  <2> QED
    BY <1>0, <2>1 DEF InboxTypes, Posted, inboxVars
<1> QED
  BY <1>1, <1>2, <1>3, <1>4, <1>5, <1>6, <1>7, <1>8 DEF Next, InboxStep

LEMMA StillOrdered ==
  ASSUME NEW ms, NEW t, NEW k, NEW ps, NEW qs,
         Ordered(ms, t, ps), InboxMax \in DOMAIN ms \/ ~(Len(ms) >= InboxMax),
         DOMAIN t \subseteq DOMAIN k, \A id \in DOMAIN t : k[id] = t[id],
         DOMAIN k \ qs \subseteq DOMAIN t \ ps
  PROVE  Ordered(ms, k, qs)
BY DEF Ordered

\* One that is as new as all is put on top of them, and taken from where it was.
LEMMA TopOrdered ==
  ASSUME NEW ms \in Seq(Notes), Once(ms), NEW t \in Seq(Nat), NEW ps, NEW m \in Notes,
         Ordered(ms, t, ps), m.id \in DOMAIN t,
         \A i \in DOMAIN ms : t[ms[i].id] <= t[m.id]
  PROVE  Ordered(OnTop(ms, m), t, ps \ {m.id})
<1>0. InboxMax \in Nat /\ InboxMax > 0
  BY AccountAssumption
<1>1. PICK n \in Nat : n = Len(ms) /\ DOMAIN ms = 1 .. n
  BY ListIs
<1>2. PICK K \in SUBSET (1 .. n) : K = {i \in DOMAIN ms : ms[i].id # m.id}
  BY <1>1
<1>a. PICK fs \in Seq(Notes) :
        OnTop(ms, m) = Cut(<<m>> \o fs) /\ \E f : Source(f, fs, ms, K)
  BY <1>2, OnTopIs
<1>3. PICK f : Source(f, fs, ms, K)
  BY <1>a
<1>4. PICK top \in Seq(Notes) :
        /\ top = <<m>> \o fs /\ Len(top) = Len(fs) + 1 /\ top[1] = m
        /\ \A i \in 2 .. Len(fs) + 1 : i - 1 \in DOMAIN fs /\ top[i] = fs[i - 1]
  BY TopIs
<1>5. /\ Len(fs) \in Nat /\ DOMAIN fs = 1 .. Len(fs) /\ DOMAIN top = 1 .. Len(fs) + 1
      /\ \A i \in DOMAIN top : i = 1 \/ i \in 2 .. Len(fs) + 1
  <2>1. Len(fs) \in Nat /\ DOMAIN fs = 1 .. Len(fs) /\ DOMAIN top = 1 .. Len(top)
    BY ListIs
  <2> QED
    BY <1>4, <2>1
\* where an element came from
<1>6. ASSUME NEW k \in DOMAIN fs
      PROVE  /\ f[k] \in K /\ f[k] \in DOMAIN ms /\ fs[k] = ms[f[k]]
             /\ k + 1 \in DOMAIN top /\ top[k + 1] = fs[k]
             /\ Rank(K, f[k]) = k
  <2>1. f[k] \in K /\ fs[k] = ms[f[k]] /\ Rank(K, f[k]) = k
    BY <1>3 DEF Source
  <2>2. k + 1 \in 2 .. Len(fs) + 1 /\ (k + 1) - 1 = k
    BY <1>5
  <2>3. top[k + 1] = fs[k]
    BY <1>4, <2>2
  <2>4. k + 1 \in DOMAIN top
    BY <1>5
  <2>5. f[k] \in DOMAIN ms
    BY <1>1, <2>1
  <2> QED
    BY <2>1, <2>3, <2>4, <2>5
<1>b. \A id \in DOMAIN t : t[id] \in Nat
  OBVIOUS
<1>7. \A i \in DOMAIN top : top[i].id \in DOMAIN t /\ t[top[i].id] \in Nat
  <2>2. \A k \in DOMAIN fs : fs[k].id \in DOMAIN t
    BY <1>6 DEF Ordered
  <2> QED
    BY <1>b, <1>4, <1>5, <2>2
<1>8. ASSUME NEW i \in DOMAIN top, NEW j \in DOMAIN top, i < j
      PROVE  t[top[i].id] >= t[top[j].id]
  <2>1. j - 1 \in DOMAIN fs /\ top[j] = fs[j - 1]
    BY <1>4, <1>5, <1>8
  <2>2. PICK y \in DOMAIN ms : y = f[j - 1] /\ top[j] = ms[y]
    BY <1>6, <2>1
  <2>3. CASE i = 1
    BY <1>4, <1>7, <2>2, <2>3
  <2>4. CASE i \in 2 .. Len(fs) + 1
    <3>1. i - 1 \in DOMAIN fs /\ top[i] = fs[i - 1] /\ i - 1 < j - 1
      BY <1>4, <1>5, <1>8, <2>4
    <3>2. PICK x \in DOMAIN ms : x = f[i - 1] /\ top[i] = ms[x]
      BY <1>6, <3>1
    <3>3. x < y
      BY <1>3, <2>1, <2>2, <3>1, <3>2 DEF Source
    <3> QED
      BY <2>2, <3>2, <3>3 DEF Ordered
  <2> QED
    BY <1>5, <2>3, <2>4
<1>9. PICK cut \in Seq(Notes) :
        /\ cut = Cut(top) /\ DOMAIN cut = 1 .. Len(cut) /\ DOMAIN cut \subseteq DOMAIN top
        /\ Len(cut) = IF Len(top) > InboxMax THEN InboxMax ELSE Len(top)
        /\ \A i \in DOMAIN cut : cut[i] = top[i]
  BY CutIs, ListIs
\* at the cut, or past it, nothing is newer than what the cut keeps
<1>10. ASSUME NEW p \in DOMAIN top, NEW id \in DOMAIN t,
              top[p].id = id \/ (p >= InboxMax /\ t[top[p].id] >= t[id])
       PROVE  \/ \E k \in DOMAIN cut : cut[k].id = id
              \/ Len(cut) >= InboxMax /\ t[cut[InboxMax].id] >= t[id]
  <2>0. p \in Nat /\ p >= 1 /\ p <= Len(top) /\ Len(top) \in Nat /\ t[id] \in Nat
    BY <1>4, <1>5
  <2>1. CASE p < InboxMax
    <3>1. p \in DOMAIN cut /\ cut[p] = top[p]
      BY <1>0, <1>9, <2>0, <2>1
    <3>2. top[p].id = id
      BY <1>0, <1>10, <2>0, <2>1
    <3> QED
      BY <3>1, <3>2
  <2>2. CASE p >= InboxMax
    <3>1. Len(cut) = InboxMax /\ InboxMax \in DOMAIN cut /\ InboxMax \in DOMAIN top
      BY <1>0, <1>9, <2>0, <2>2
    <3>2. cut[InboxMax] = top[InboxMax] /\ t[top[InboxMax].id] \in Nat /\ t[top[p].id] \in Nat
      BY <1>7, <1>9, <3>1
    <3>3. t[top[InboxMax].id] >= t[top[p].id]
      <4>1. CASE InboxMax < p
        BY <1>8, <3>1, <4>1
      <4>2. CASE InboxMax = p
        BY <3>2, <4>2
      <4> QED
        BY <1>0, <2>0, <2>2, <4>1, <4>2
    <3>4. t[top[p].id] >= t[id]
      BY <1>10, <2>0
    <3> QED
      BY <1>0, <2>0, <3>1, <3>2, <3>3, <3>4
  <2> QED
    BY <1>0, <2>0, <2>1, <2>2
\* one of the list is on top, or kept
<1>11. ASSUME NEW i \in DOMAIN ms
       PROVE  \/ ms[i].id = m.id
              \/ \E k \in DOMAIN fs : fs[k] = ms[i] /\ Rank(K, i) = k
  <2>1. ASSUME ms[i].id # m.id
        PROVE  \E k \in DOMAIN fs : fs[k] = ms[i] /\ Rank(K, i) = k
    <3>1. PICK k \in DOMAIN fs : f[k] = i
      BY <1>2, <1>3, <2>1 DEF Source
    <3> QED
      BY <1>6, <3>1
  <2> QED
    BY <2>1
<1>12. ASSUME NEW id \in DOMAIN t \ (ps \ {m.id})
       PROVE  \E p \in DOMAIN top :
                top[p].id = id \/ (p >= InboxMax /\ t[top[p].id] >= t[id])
  <2>1. CASE id = m.id
    <3>1. 1 \in DOMAIN top
      BY <1>5
    <3> QED
      BY <1>4, <2>1, <3>1
  <2>2. CASE id # m.id /\ \E i \in DOMAIN ms : ms[i].id = id
    <3>1. PICK i \in DOMAIN ms : ms[i].id = id
      BY <2>2
    <3>2. PICK k \in DOMAIN fs : fs[k] = ms[i]
      BY <1>11, <2>2, <3>1
    <3> QED
      BY <1>6, <3>1, <3>2
  <2>3. CASE Len(ms) >= InboxMax /\ t[ms[InboxMax].id] >= t[id]
    <3>0. InboxMax \in 1 .. n /\ InboxMax \in DOMAIN ms /\ id \in DOMAIN t /\ InboxMax \in 0 .. n
      BY <1>0, <1>1, <2>3
    <3>1. PICK q \in Nat : (q \in 1 .. n => q \notin K) /\ \A i \in 1 .. n : i # q => i \in K
      <4>1. CASE \E i \in DOMAIN ms : ms[i].id = m.id
        <5>1. PICK q \in DOMAIN ms : ms[q].id = m.id
          BY <4>1
        <5>2. \A i \in 1 .. n : i # q => i \in K
          BY <1>1, <1>2, <5>1 DEF Once
        <5> QED
          BY <1>1, <1>2, <5>1, <5>2
      <4>2. CASE ~ \E i \in DOMAIN ms : ms[i].id = m.id
        <5>1. \A i \in 1 .. n : i \in K
          BY <1>1, <1>2, <4>2
        <5>2. 0 \in Nat /\ 0 \notin 1 .. n
          OBVIOUS
        <5> QED
          BY <5>1, <5>2
      <4> QED
        BY <4>1, <4>2
    <3>2. CASE InboxMax # q
      <4>1. InboxMax \in K /\ ms[InboxMax].id # m.id
        BY <1>2, <3>0, <3>1, <3>2
      <4>2. PICK k \in DOMAIN fs : fs[k] = ms[InboxMax] /\ Rank(K, InboxMax) = k
        BY <1>11, <3>0, <4>1
      <4>3. k >= InboxMax - 1 /\ k \in Nat
        BY <3>0, <3>1, <4>2, RankWithoutOne
      <4>4. k + 1 \in DOMAIN top /\ top[k + 1] = ms[InboxMax] /\ k + 1 >= InboxMax
        BY <1>0, <1>6, <4>2, <4>3
      <4> QED
        BY <2>3, <4>4
    <3>3. CASE InboxMax = q
      <4>0. ms[InboxMax].id = m.id
        BY <1>2, <3>0, <3>1, <3>3
      <4>1. CASE InboxMax = 1
        <5>1. 1 \in DOMAIN top /\ top[1] = m /\ 1 >= InboxMax
          BY <1>4, <1>5, <4>1
        <5> QED
          BY <2>3, <4>0, <5>1
      <4>2. CASE InboxMax # 1
        <5>0. PICK i : i = InboxMax - 1
          OBVIOUS
        <5>1. /\ i \in 1 .. n /\ i \in DOMAIN ms /\ i \in 0 .. n /\ i < q /\ i < InboxMax
          BY <1>0, <1>1, <3>0, <3>3, <4>2, <5>0
        <5>2. i \in K /\ ms[i].id # m.id /\ Rank(K, i) = i
          <6>1. i # q
            BY <3>1, <5>1
          <6>2. i \in K
            BY <3>1, <5>1, <6>1
          <6>3. Rank(K, i) = i
            BY <3>1, <5>1, RankWithoutOne
          <6> QED
            BY <1>2, <6>2, <6>3
        <5>3. PICK k \in DOMAIN fs : fs[k] = ms[i] /\ k = i
          BY <1>11, <5>1, <5>2
        <5>4. k + 1 \in DOMAIN top /\ top[k + 1] = ms[i] /\ k + 1 = InboxMax
          BY <1>0, <1>6, <5>0, <5>3
        <5>5. t[ms[i].id] >= t[ms[InboxMax].id]
          BY <3>0, <5>1 DEF Ordered
        <5>6. /\ t[ms[i].id] \in Nat /\ t[ms[InboxMax].id] \in Nat /\ t[id] \in Nat
          <6>1. ms[i].id \in DOMAIN t /\ ms[InboxMax].id \in DOMAIN t
            BY <3>0, <5>1 DEF Ordered
          <6> QED
            BY <1>b, <3>0, <6>1
        <5>7. t[ms[i].id] >= t[id]
          <6>1. PICK a \in Nat, b \in Nat, c \in Nat :
                  a = t[ms[i].id] /\ b = t[ms[InboxMax].id] /\ c = t[id]
            BY <5>6
          <6>2. a >= b /\ b >= c
            BY <2>3, <5>5, <6>1
          <6>3. a >= c
            BY <6>2
          <6> QED
            BY <6>1, <6>3
        <5>8. t[top[k + 1].id] >= t[id] /\ k + 1 >= InboxMax
          BY <1>0, <5>4, <5>7
        <5> QED
          BY <5>4, <5>8
      <4> QED
        BY <4>1, <4>2
    <3> QED
      BY <3>2, <3>3
  <2> QED
    BY <2>1, <2>2, <2>3 DEF Ordered
<1>13. ASSUME NEW id \in DOMAIN t \ (ps \ {m.id})
       PROVE  \/ \E k \in DOMAIN cut : cut[k].id = id
              \/ Len(cut) >= InboxMax /\ t[cut[InboxMax].id] >= t[id]
  <2>1. PICK p \in DOMAIN top :
          top[p].id = id \/ (p >= InboxMax /\ t[top[p].id] >= t[id])
    BY <1>12
  <2> QED
    BY <1>10, <2>1
<1>14. /\ \A i \in DOMAIN cut : cut[i].id \in DOMAIN t
       /\ \A i, j \in DOMAIN cut : i < j => t[cut[i].id] >= t[cut[j].id]
  BY <1>7, <1>8, <1>9
<1>15. Ordered(cut, t, ps \ {m.id})
  BY <1>13, <1>14 DEF Ordered
<1> QED
  BY <1>a, <1>4, <1>9, <1>15

LEMMA InboxInvStep ==
  InboxTypes /\ presses \in Nat /\ InboxInv /\ [Next]_vars => InboxInv'
<1> SUFFICES ASSUME InboxTypes, presses \in Nat, InboxInv, [Next]_vars,
                    "inbox" \notin doubt'
             PROVE  /\ \A c, d \in inboxCalls' : c = d
                    /\ Ordered(inbox, notifications, pushes)'
                    /\ inboxCalls' = {} => Flagged(inbox, {}, readAt)'
                    /\ \A c \in inboxCalls' : InboxTied(c)'
  BY DEF InboxInv
<1>0. /\ \A c, d \in inboxCalls : c = d
      /\ Ordered(inbox, notifications, pushes)
      /\ inboxCalls = {} => Flagged(inbox, {}, readAt)
      /\ \A c \in inboxCalls : InboxTied(c)
      /\ \A c \in inboxCalls : c \in InboxCallRecord
      /\ inbox \in Seq(Notes) /\ Once(inbox)
      /\ notifications \in Seq(Nat) /\ Posted = DOMAIN notifications /\ pushes \subseteq Posted
  BY DoubtsStay DEF InboxInv, InboxTypes, Posted
<1>a. ASSUME NEW parts, Lapse(parts) PROVE "inbox" \notin parts
  BY <1>a DEF Lapse
<1>1. CASE LoadInbox \/ MarkAllRead \/ \E id \in NoteIds : MarkRead(id)
  <2>1. PICK x \in InboxCallRecord :
          /\ x.got = "sent" /\ (x.op = "load" => x.many >= InboxMax)
          /\ inboxCalls' = inboxCalls \cup {x} /\ Press("inbox", inboxCalls)
          /\ UNCHANGED <<inbox, notifications, readAt, pushes>>
    BY <1>1, InboxPress
  <2>2. inboxCalls = {} /\ inboxCalls' = {x}
    BY <2>1 DEF Press
  <2>3. InboxTied(x)'
    BY <1>0, <2>1, <2>2 DEF InboxTied
  <2> QED
    BY <1>0, <2>1, <2>2, <2>3
\* More is stored, or brought again: what is in order stays so.
<1>b. ASSUME NEW t, NEW qs, DOMAIN notifications \subseteq DOMAIN t,
             \A id \in DOMAIN notifications : t[id] = notifications[id],
             DOMAIN t \ qs \subseteq DOMAIN notifications \ pushes
      PROVE  /\ Ordered(inbox, t, qs)
             /\ \A c \in inboxCalls : (c.op = "load" /\ c.got = "ok") => Ordered(c.seen, t, qs)
  <2>1. ASSUME NEW ms \in Seq(Notes), Ordered(ms, notifications, pushes)
        PROVE  Ordered(ms, t, qs)
    <3>1. InboxMax \in DOMAIN ms \/ ~(Len(ms) >= InboxMax)
      BY AccountAssumption, ListIs
    <3> QED
      BY <1>b, <2>1, <3>1, StillOrdered
  <2>2. \A c \in inboxCalls : c.seen \in Seq(Notes)
    BY <1>0 DEF InboxCallRecord
  <2>3. \A c \in inboxCalls :
          (c.op = "load" /\ c.got = "ok") => Ordered(c.seen, notifications, pushes)
    BY <1>0 DEF InboxTied
  <2> QED
    BY <1>0, <2>1, <2>2, <2>3
<1>2. CASE Notify
  <2>1. PICK t, new : /\ Grown(t, new) /\ notifications' = t /\ pushes' = pushes \cup {new}
                      /\ UNCHANGED <<inbox, inboxCalls, readAt>>
    BY <1>2, NotifyGrows
  <2>2. /\ DOMAIN notifications \subseteq DOMAIN t
        /\ \A id \in DOMAIN notifications : t[id] = notifications[id]
        /\ DOMAIN t \ pushes' \subseteq DOMAIN notifications \ pushes
    BY <1>0, <2>1 DEF Grown
  <2>3. /\ Ordered(inbox, notifications', pushes')
        /\ \A c \in inboxCalls :
             (c.op = "load" /\ c.got = "ok") => Ordered(c.seen, notifications', pushes')
    BY <1>b, <2>1, <2>2
  <2> QED
    BY <1>0, <2>1, <2>3 DEF InboxTied
<1>3. ASSUME NEW id \in NoteIds, NotifyAgain(id)
      PROVE  /\ \A c, d \in inboxCalls' : c = d
             /\ Ordered(inbox, notifications, pushes)'
             /\ inboxCalls' = {} => Flagged(inbox, {}, readAt)'
             /\ \A c \in inboxCalls' : InboxTied(c)'
  <2>1. /\ pushes' = pushes \cup {id}
        /\ UNCHANGED <<inbox, inboxCalls, notifications, readAt>>
    BY <1>3 DEF NotifyAgain
  <2>2. DOMAIN notifications \ pushes' \subseteq DOMAIN notifications \ pushes
    BY <2>1
  <2>3. /\ Ordered(inbox, notifications', pushes')
        /\ \A c \in inboxCalls :
             (c.op = "load" /\ c.got = "ok") => Ordered(c.seen, notifications', pushes')
    BY <1>b, <2>1, <2>2
  <2> QED
    BY <1>0, <2>1, <2>3 DEF InboxTied
<1>4. ASSUME NEW id \in NoteIds, Notified(id)
      PROVE  /\ inboxCalls' = {} /\ Ordered(inbox, notifications, pushes)'
             /\ Flagged(inbox, {}, readAt)'
  <2>1. /\ id \in pushes /\ pushes' \in {pushes, pushes \ {id}}
        /\ inbox' = OnTop(inbox, [id |-> id, read |-> FALSE])
        /\ inboxCalls = {} /\ id \notin readAt
        /\ ~ \E m \in ToSet(inbox) : notifications[m.id] > notifications[id]
        /\ UNCHANGED <<inboxCalls, notifications, readAt>>
    BY <1>4 DEF Notified
  <2>2. PICK m : m = [id |-> id, read |-> FALSE]
    OBVIOUS
  <2>3. id \in DOMAIN notifications /\ m \in Notes /\ m.id = id /\ m.read = FALSE
    BY <1>0, <2>1, <2>2 DEF Notes
  <2>4. \A i \in DOMAIN inbox : notifications[inbox[i].id] <= notifications[m.id]
    <3>1. \A i \in DOMAIN inbox : inbox[i] \in ToSet(inbox) /\ inbox[i].id \in DOMAIN notifications
      BY <1>0, ListIs DEF Ordered, ToSet
    <3>2. \A k \in DOMAIN notifications : notifications[k] \in Nat
      BY <1>0
    <3> QED
      BY <2>1, <2>3, <3>1, <3>2
  <2>5. Ordered(inbox', notifications, pushes \ {m.id})
    BY <1>0, <2>1, <2>2, <2>3, <2>4, TopOrdered
  <2>6. Ordered(inbox', notifications', pushes')
    BY <2>1, <2>3, <2>5 DEF Ordered
  <2>7. Flagged(inbox', {}, readAt')
    <3>1. PICK fs \in Seq(Notes) :
            /\ inbox' = Cut(<<m>> \o fs)
            /\ \E f : Source(f, fs, inbox, {i \in DOMAIN inbox : inbox[i].id # m.id})
      BY <1>0, <2>1, <2>2, <2>3, OnTopIs
    <3>2. PICK f : Source(f, fs, inbox, {i \in DOMAIN inbox : inbox[i].id # m.id})
      BY <3>1
    <3>3. \A k \in DOMAIN fs : f[k] \in DOMAIN inbox /\ fs[k] = inbox[f[k]]
      BY <3>2 DEF Source
    <3>a. PICK top : top = <<m>> \o fs
      OBVIOUS
    <3>4. /\ top \in Seq(Notes) /\ top[1] = m /\ Len(top) = Len(fs) + 1
          /\ \A i \in 2 .. Len(fs) + 1 : i - 1 \in DOMAIN fs /\ top[i] = fs[i - 1]
      BY <2>3, <3>a, TopIs
    <3>5. DOMAIN top = 1 .. Len(fs) + 1 /\ Len(fs) \in Nat
      BY <3>4, ListIs
    <3>6. Flagged(inbox, {}, readAt)
      BY <1>0, <2>1
    <3>7. ASSUME NEW i \in DOMAIN top PROVE top[i].read <=> top[i].id \in readAt
      <4>1. CASE i = 1
        BY <2>1, <2>3, <3>4, <4>1
      <4>2. CASE i \in 2 .. Len(fs) + 1
        <5>1. PICK j \in DOMAIN inbox : top[i] = inbox[j]
          BY <3>3, <3>4, <4>2
        <5> QED
          BY <3>6, <5>1 DEF Flagged
      <4> QED
        BY <3>5, <4>1, <4>2
    <3>8. \A i \in DOMAIN inbox' : i \in DOMAIN top /\ inbox'[i] = top[i]
      BY <3>1, <3>a, <3>4, CutIs
    <3> QED
      BY <2>1, <3>7, <3>8 DEF Flagged
  <2> QED
    BY <2>1, <2>6, <2>7
<1>5. ASSUME NEW c \in inboxCalls, InboxLoaded(c) \/ MarkAnswered(c)
      PROVE  /\ inboxCalls' = {} /\ Ordered(inbox, notifications, pushes)'
             /\ Flagged(inbox, {}, readAt)'
  <2>0. inboxCalls = {c} /\ c \in InboxCallRecord /\ InboxTied(c)
    BY <1>0
  <2>1. /\ c.got # "sent" /\ inboxCalls' = inboxCalls \ {c}
        /\ UNCHANGED <<notifications, readAt, pushes>>
    BY <1>5 DEF InboxLoaded, MarkAnswered
  <2>2. c.got = "ok"
    BY <2>0, <2>1 DEF InboxTied, InboxCallRecord
  <2>3. CASE InboxLoaded(c)
    <3>1. c.op = "load" /\ inbox' = c.seen
      BY <2>2, <2>3 DEF InboxLoaded
    <3> QED
      BY <2>0, <2>1, <2>2, <3>1 DEF InboxTied
  <2>4. CASE MarkAnswered(c)
    <3>1. c.op # "load"
      BY <2>4 DEF MarkAnswered
    <3>2. Flagged(inbox, Marks(c), readAt)
      BY <2>0, <2>2, <3>1 DEF InboxTied
    <3>3. /\ DOMAIN inbox' = DOMAIN inbox /\ Len(inbox') = Len(inbox)
          /\ \A i \in DOMAIN inbox :
               /\ inbox'[i].id = inbox[i].id
               /\ inbox'[i].read <=> inbox[i].read \/ inbox[i].id \in Marks(c)
      BY <2>2, <2>4, InboxMarked
    <3>4. Flagged(inbox', {}, readAt)
      BY <3>2, <3>3 DEF Flagged
    <3>5. ASSUME Len(inbox) >= InboxMax PROVE InboxMax \in DOMAIN inbox
      BY <1>0, <3>5, AccountAssumption, ListIs
    <3>6. Ordered(inbox', notifications, pushes)
      BY <1>0, <3>3, <3>5 DEF Ordered
    <3> QED
      BY <2>0, <2>1, <3>4, <3>6
  <2> QED
    BY <1>5, <2>3, <2>4
<1>6. ASSUME NEW c \in inboxCalls, AnswerInboxCall(c)
      PROVE  /\ Ordered(inbox, notifications, pushes)'
             /\ \E x : inboxCalls' = {x} /\ InboxTied(x)'
  <2>0. inboxCalls = {c} /\ c \in InboxCallRecord /\ InboxTied(c) /\ c.got = "sent"
    BY <1>0, <1>6 DEF AnswerInboxCall
  <2>1. PICK x \in InboxCallRecord :
          /\ x.op = c.op /\ x.id = c.id /\ x.many = c.many
          /\ inboxCalls' = (inboxCalls \ {c}) \cup {x}
          /\ x.got = "ok" /\ (c.op = "load" => x.seen \in Newest(c.many))
    BY <1>6, <1>a, InboxReply
  <2>2. /\ UNCHANGED <<inbox, notifications, pushes>>
        /\ readAt' = IF c.op = "load" THEN readAt
                     ELSE readAt \cup (Marks(c) \cap Posted)
    BY <1>6, InboxReply
  <2>3. Flagged(inbox, {}, readAt)
    BY <2>0 DEF InboxTied
  <2>4. CASE c.op = "load"
    <3>1. c.many \in Nat /\ c.many >= InboxMax
      BY <2>0, <2>4 DEF InboxTied, InboxCallRecord
    <3>2. Ordered(x.seen, notifications, pushes) /\ Flagged(x.seen, {}, readAt)
      BY <2>1, <2>4, <3>1, NewestIs
    <3>3. InboxTied(x)'
      BY <2>1, <2>2, <2>3, <2>4, <3>1, <3>2 DEF InboxTied
    <3> QED
      BY <1>0, <2>0, <2>1, <2>2, <3>3
  <2>5. CASE c.op # "load"
    <3>1. \A i \in DOMAIN inbox : inbox[i].id \in Posted
      BY <1>0 DEF Ordered
    <3>2. Marks(x) = Marks(c)
      BY <2>1 DEF Marks
    <3>3. Flagged(inbox, Marks(x), readAt')
      BY <2>2, <2>3, <2>5, <3>1, <3>2 DEF Flagged
    <3>4. InboxTied(x)'
      BY <2>1, <2>2, <2>5, <3>3 DEF InboxTied, Marks
    <3> QED
      BY <1>0, <2>0, <2>1, <2>2, <3>4
  <2> QED
    BY <2>4, <2>5
<1>7. CASE AddressStep \/ ReviewStep \/ UNCHANGED vars
  <2>1. UNCHANGED inboxVars
    BY <1>7 DEF AddressStep, ReviewStep, vars
  <2> QED
    BY <1>0, <2>1 DEF InboxTied, inboxVars
<1> QED
  BY <1>1, <1>2, <1>3, <1>4, <1>5, <1>6, <1>7 DEF Next, InboxStep

\* An inbox that has all that it should is a list that the server could answer.
LEMMA NewestLast ==
  ASSUME InboxTypes, Ordered(inbox, notifications, {}), Flagged(inbox, {}, readAt)
  PROVE  Cut(inbox) \in Newest(InboxMax)
<1>0. /\ InboxMax \in Nat /\ InboxMax > 0 /\ inbox \in Seq(Notes) /\ Once(inbox)
      /\ Len(inbox) \in Nat /\ DOMAIN inbox = 1 .. Len(inbox) /\ Posted = DOMAIN notifications
  BY AccountAssumption, ListIs DEF InboxTypes, Posted
<1>1. PICK cut \in Seq(Notes) :
        /\ cut = Cut(inbox) /\ Len(cut) = IF Len(inbox) > InboxMax THEN InboxMax ELSE Len(inbox)
        /\ \A i \in DOMAIN cut : i \in DOMAIN inbox /\ cut[i] = inbox[i]
  BY <1>0, CutIs
<1>a. Len(cut) \in Nat /\ DOMAIN cut = 1 .. Len(cut)
  BY ListIs
<1>2. PICK n \in Nat :
        /\ n = Len(cut) /\ DOMAIN cut = 1 .. n
        /\ Len(inbox) > InboxMax => n = InboxMax
        /\ ~(Len(inbox) > InboxMax) => n = Len(inbox)
  BY <1>1, <1>a
<1>b. InboxMax \in Nat /\ InboxMax > 0 /\ Len(inbox) \in Nat
  BY <1>0
<1>c. n <= InboxMax
  BY <1>2, <1>b
<1>3. PICK p : p = [i \in 1 .. n |-> cut[i].id]
  OBVIOUS
<1>4. \A i \in 1 .. n : p[i] = cut[i].id /\ p[i] = inbox[i].id /\ i \in DOMAIN inbox
                       /\ p[i] \in Posted
  BY <1>0, <1>1, <1>2, <1>3 DEF Ordered
<1>5. p \in [1 .. n -> Posted] /\ DOMAIN p = 1 .. n /\ Len(p) = n
  BY <1>3, <1>4
<1>6. p \in SeqOf(Posted, InboxMax)
  <2>1. n \in 0 .. InboxMax
    BY <1>b, <1>c
  <2> QED
    BY <1>5, <2>1 DEF SeqOf
<1>7. \A i, j \in 1 .. n : i < j => p[i] # p[j] /\ notifications[p[i]] >= notifications[p[j]]
  BY <1>0, <1>4 DEF Ordered, Once
<1>8. ASSUME NEW id \in Posted \ ToSet(p)
      PROVE  n = InboxMax /\ notifications[p[InboxMax]] >= notifications[id]
  <2>1. \A i \in 1 .. n : p[i] # id
    BY <1>5, <1>8 DEF ToSet
  <2>2. CASE Len(inbox) >= InboxMax /\ notifications[inbox[InboxMax].id] >= notifications[id]
    <3>1. n = InboxMax /\ InboxMax \in 1 .. n
      BY <1>2, <1>b, <2>2
    <3> QED
      BY <1>4, <2>2, <3>1
  <2>3. CASE \E i \in DOMAIN inbox : inbox[i].id = id
    <3>1. PICK i \in DOMAIN inbox : inbox[i].id = id
      BY <2>3
    <3>2. i \in 1 .. Len(inbox) /\ i \notin 1 .. n
      BY <1>0, <1>4, <2>1, <3>1
    <3>3. n = InboxMax /\ InboxMax \in 1 .. n /\ InboxMax < i
      BY <1>2, <1>b, <3>2
    <3>4. notifications[inbox[InboxMax].id] >= notifications[inbox[i].id]
      BY <1>4, <3>3 DEF Ordered
    <3> QED
      BY <1>4, <3>1, <3>3, <3>4
  <2> QED
    BY <1>0, <1>8, <2>2, <2>3 DEF Ordered
<1>9. p \in NewestIds(InboxMax)
  BY <1>5, <1>6, <1>7, <1>8 DEF NewestIds
<1>10. ASSUME NEW i \in 1 .. n PROVE cut[i] = [id |-> p[i], read |-> p[i] \in readAt]
  <2>1. PICK m \in Notes : m = cut[i]
    BY <1>2
  <2>2. PICK b : b = (p[i] \in readAt)
    OBVIOUS
  <2>3. m.id = p[i] /\ (m.read <=> p[i] \in readAt) /\ m.read \in BOOLEAN
    <3>1. m.id = p[i] /\ m = inbox[i] /\ i \in DOMAIN inbox
      BY <1>1, <1>2, <1>4, <2>1
    <3>2. m.read <=> m.id \in readAt
      BY <3>1 DEF Flagged
    <3> QED
      BY <3>1, <3>2 DEF Notes
  <2>4. m.read = b
    <3>1. CASE p[i] \in readAt
      <4>1. (p[i] \in readAt) = TRUE
        BY <3>1
      <4> QED
        BY <2>2, <2>3, <3>1, <4>1
    <3>2. CASE p[i] \notin readAt
      <4>1. (p[i] \in readAt) = FALSE
        BY <3>2
      <4> QED
        BY <2>2, <2>3, <3>2, <4>1
    <3> QED
      BY <3>1, <3>2
  <2>5. m = [id |-> p[i], read |-> b]
    BY <2>3, <2>4 DEF Notes
  <2> QED
    BY <2>1, <2>2, <2>5
<1>11. PICK ms : ms = [i \in DOMAIN p |-> [id |-> p[i], read |-> p[i] \in readAt]]
  OBVIOUS
<1>12. ms \in Newest(InboxMax)
  BY <1>9, <1>11 DEF Newest
<1>13. DOMAIN ms = 1 .. n /\ \A i \in 1 .. n : ms[i] = cut[i]
  BY <1>5, <1>10, <1>11
<1>14. ms = [i \in 1 .. n |-> ms[i]] /\ cut = [i \in 1 .. n |-> cut[i]]
  BY <1>2, <1>5, <1>11
<1> QED
  BY <1>1, <1>12, <1>13, <1>14

LEMMA InboxInvImplies == InboxTypes /\ InboxInv => InboxAgrees
<1> SUFFICES ASSUME InboxTypes, InboxInv PROVE InboxAgrees
  OBVIOUS
<1>1. Cardinality({m.id : m \in ToSet(inbox)}) = Len(inbox)
  <2>0. Len(inbox) \in Nat /\ DOMAIN inbox = 1 .. Len(inbox) /\ Once(inbox)
    BY ListIs DEF InboxTypes
  <2>a. PICK n \in Nat : n = Len(inbox)
    BY <2>0
  <2>b. IsFiniteSet(1 .. n) /\ Cardinality(1 .. n) = n
    BY FS_Interval
  <2>1. PICK S, T : S = 1 .. n /\ T = {m.id : m \in ToSet(inbox)}
    OBVIOUS
  <2>2. IsFiniteSet(S) /\ Cardinality(S) = Len(inbox) /\ S = DOMAIN inbox
    BY <2>0, <2>a, <2>b, <2>1
  <2>3. PICK f : f = [i \in S |-> inbox[i].id]
    OBVIOUS
  <2>4. \A i \in S : f[i] \in T
    BY <2>1, <2>2, <2>3 DEF ToSet
  <2>5. \A i, j \in S : f[i] = f[j] => i = j
    BY <2>0, <2>2, <2>3 DEF Once
  <2>6. \A t \in T : \E i \in S : f[i] = t
    BY <2>1, <2>2, <2>3 DEF ToSet
  <2>c. f \in [S -> T]
    BY <2>3, <2>4
  <2>7. f \in Bijection(S, T)
    BY <2>5, <2>6, <2>c DEF Bijection, Injection, Surjection, IsInjective
  <2>8. ExistsBijection(S, T)
    BY <2>7 DEF ExistsBijection
  <2> QED
    BY <2>1, <2>2, <2>8, FS_Bijection
<1>2. inboxCalls = {} /\ pushes = {} /\ "inbox" \notin doubt => Cut(inbox) \in Newest(InboxMax)
  BY NewestLast DEF InboxInv
<1> QED
  BY <1>1, <1>2 DEF InboxAgrees

\* The inbox holds a notification once, and when the requests about it did not overlap, no
\* answer was lost and nothing came after a newer one, its own mark or during a request, it
\* ends as a list of the newest that the server could answer, with what is read shown as
\* read - however often each was brought.
THEOREM InboxEndsAgreed == Spec => []InboxAgrees
<1>1. Init => InboxTypes /\ presses \in Nat /\ InboxInv
  <2> SUFFICES ASSUME Init PROVE InboxTypes /\ presses \in Nat /\ InboxInv
    OBVIOUS
  <2>1. PICK m : m = [id |-> 1, read |-> FALSE]
    OBVIOUS
  <2>2. m \in Notes /\ m.id = 1 /\ m.read = FALSE
    BY <2>1 DEF Notes
  <2>3. /\ notifications = <<1>> /\ readAt = {} /\ pushes = {} /\ inbox = <<m>>
        /\ inboxCalls = {} /\ presses = 0
    BY <2>1 DEF Init, InboxInit
  <2>4. inbox \in Seq(Notes) /\ Len(inbox) = 1 /\ DOMAIN inbox = {1} /\ inbox[1] = m
    BY <2>2, <2>3
  <2>5. InboxTypes
    BY <2>3, <2>4 DEF InboxTypes, Once, Posted
  <2>6. Ordered(inbox, notifications, pushes) /\ Flagged(inbox, {}, readAt)
    BY <2>2, <2>3, <2>4 DEF Ordered, Flagged
  <2> QED
    BY <2>3, <2>5, <2>6 DEF InboxInv
<1>2. InboxTypes /\ presses \in Nat /\ InboxInv /\ [Next]_vars
        => (InboxTypes /\ presses \in Nat /\ InboxInv)'
  BY DoubtsStay, InboxTypesStep, InboxInvStep
<1> QED
  BY <1>1, <1>2, InboxInvImplies, PTL DEF Spec

-----------------------------------------------------------------------------
(* The chat: what is in every state                                        *)

Entry == [id : Nat, at : Nat]

LoadRecord ==
  [by : Sides, op : {"open", "create", "more"}, chat : Nat, many : Nat,
   got : {"sent", "ok"}, seen : Seq(Entry)]

SendRecord ==
  [by : Sides, text : Texts, chat : Nat, got : {"sent", "ok", "error"}, id : Nat]

Stored == [by : Sides, text : Texts, chat : Nat, at : Nat]

OnceIds(ms) == \A i, j \in DOMAIN ms : ms[i].id = ms[j].id => i = j

Sorted(ms) == \A i, j \in DOMAIN ms : i < j => ms[i].at <= ms[j].at

\* ms is of chat k, with the server's times.
Of(ms, k) ==
  \A i \in DOMAIN ms : ms[i].id \in OfChat(k) /\ ms[i].at = saved[ms[i].id].at

ShownTypes == shown \in [Sides -> Nat] /\ draft \in [Sides -> Texts \cup {NoText}]

MessagesOnce == messages \in [Sides -> Seq(Entry)] /\ \A s \in Sides : OnceIds(messages[s])

\* A load that is answered has seen messages of its chat, by their times.
LoadsFrom ==
  \A c \in loads :
    /\ c \in LoadRecord /\ (c.got = "sent" \/ c.op = "create" => c.seen = <<>>)
    /\ OnceIds(c.seen) /\ Sorted(c.seen) /\ Of(c.seen, c.chat)

SendsFrom ==
  \A c \in sends :
    c \in SendRecord /\ (c.got = "ok" => c.id \in OfChat(c.chat) /\ saved[c.id].by = c.by)

StoreTypes ==
  saved \in Seq(Stored) /\ chats \in Nat /\ faults \in Nat /\ outbox \subseteq DOMAIN saved

Kinds == {"handler", "outbox"}

\* What comes to a side is of the chat that it shows.
DueFrom == \A d \in due : d \in Sides \X Nat \X Kinds /\ d[2] \in OfChat(shown[d[1]])

JoinedTypes == joined \subseteq Sides

ChatSound == ShownTypes /\ MessagesOnce /\ LoadsFrom /\ SendsFrom /\ StoreTypes /\ DueFrom

-----------------------------------------------------------------------------
(* The chat: a text is in one place                                        *)

Waiting == {c \in sends : c.got = "sent"}

OnePlace ==
  /\ \A c \in sends : c.got # "error"
  /\ \A c \in Waiting : c.text \in typed
  /\ \A c, d \in Waiting : c.text = d.text => c = d
  /\ \A i \in DOMAIN saved : saved[i].text \in typed
  /\ \A i \in DOMAIN saved : \A c \in Waiting : saved[i].text # c.text
  /\ \A s \in Sides : draft[s] # NoText =>
       /\ draft[s] \in typed
       /\ \A c \in Waiting : draft[s] # c.text
       /\ \A i \in DOMAIN saved : draft[s] # saved[i].text
       /\ \A r \in Sides : draft[r] = draft[s] => r = s
  /\ \A i, j \in DOMAIN saved : saved[i].text = saved[j].text => i = j

TextsInv == faults = 0 => OnePlace

-----------------------------------------------------------------------------
(* The chat: a window ends as its chat does                                *)

\* A window is sorted, and what it has from the server bears the server's times: all but
\* messages of its own.
Timely(s) ==
  /\ Sorted(messages[s])
  /\ \A i \in DOMAIN messages[s] :
       /\ messages[s][i].id \in DOMAIN saved
       /\ \/ saved[messages[s][i].id].by = s
          \/ messages[s][i].at = saved[messages[s][i].id].at

WindowsTimely == \A s \in Sides : Timely(s)

Silent(s, k) == \A y \in OfChat(k) : saved[y].by # s

\* There is no room for x, all that is there being as new.
NoRoom(ms, x) == Len(ms) >= Limit /\ \A i \in DOMAIN ms : saved[x].at <= ms[i].at

Has(ms, x) == \E i \in DOMAIN ms : ms[i].id = x

\* x is in ms, or to come to s, or there is no room: which of them are the newest can be
\* said only while s has written nothing in chat k.
Placed(s, k, ms, x) ==
  \/ Has(ms, x) \/ x \in Coming(s)
  \/ Len(ms) >= Limit /\ (Silent(s, k) => NoRoom(ms, x))

InStep(s) ==
  /\ \A i \in DOMAIN messages[s] : messages[s][i].id \in OfChat(shown[s])
  /\ \A x \in OfChat(shown[s]) : Placed(s, shown[s], messages[s], x)

WindowsInv == \A s \in Sides \ crossed : shown[s] # 0 => InStep(s)

LEMMA EntriesAre ==
  ASSUME NEW ms \in Seq(Entry)
  PROVE  /\ Len(ms) \in Nat /\ DOMAIN ms = 1 .. Len(ms)
         /\ \A i \in DOMAIN ms : ms[i] \in Entry /\ ms[i].id \in Nat /\ ms[i].at \in Nat
         /\ Ids(ms) \in Seq(Nat) /\ Len(Ids(ms)) = Len(ms) /\ DOMAIN Ids(ms) = DOMAIN ms
         /\ \A i \in DOMAIN ms : Ids(ms)[i] = ms[i].id
         /\ \A x : x \in ToSet(Ids(ms)) <=> \E i \in DOMAIN ms : ms[i].id = x
<1>1. PICK n \in Nat : n = Len(ms) /\ DOMAIN ms = 1 .. n
  OBVIOUS
<1>2. \A i \in 1 .. n : ms[i] \in Entry
  BY <1>1
<1>3. \A m \in Entry : m.id \in Nat /\ m.at \in Nat
  BY DEF Entry
<1>4. Ids(ms) = [i \in 1 .. n |-> ms[i].id]
  BY <1>1 DEF Ids
<1>5. \A i \in 1 .. n : ms[i].id \in Nat
  BY <1>2, <1>3
<1>6. Ids(ms) \in Seq(Nat) /\ Len(Ids(ms)) = n /\ DOMAIN Ids(ms) = 1 .. n
  BY <1>4, <1>5
<1>7. \A x : x \in ToSet(Ids(ms)) <=> \E i \in 1 .. n : ms[i].id = x
  BY <1>4, <1>6 DEF ToSet
<1> QED
  BY <1>1, <1>2, <1>3, <1>4, <1>6, <1>7

-----------------------------------------------------------------------------
(* The chat: a message among those of a window                             *)

LEMMA NoEntries ==
  <<>> \in Seq(Entry) /\ OnceIds(<<>>) /\ Sorted(<<>>) /\ DOMAIN <<>> = {} /\ \A k : Of(<<>>, k)
BY DEF OnceIds, Sorted, Of

\* What comes is among the others, those of the time before ahead of it.
LEMMA InsertedIs ==
  ASSUME NEW ms \in Seq(Entry), OnceIds(ms), NEW m \in Entry, \A i \in DOMAIN ms : ms[i].id # m.id
  PROVE  /\ Inserted(ms, m) \in Seq(Entry) /\ OnceIds(Inserted(ms, m))
         /\ \A i \in DOMAIN Inserted(ms, m) :
              Inserted(ms, m)[i] = m \/ \E j \in DOMAIN ms : Inserted(ms, m)[i] = ms[j]
         /\ ToSet(Ids(Inserted(ms, m))) = ToSet(Ids(ms)) \cup {m.id}
         /\ \A j \in DOMAIN ms : \E i \in DOMAIN Inserted(ms, m) : Inserted(ms, m)[i] = ms[j]
         /\ \E i \in DOMAIN Inserted(ms, m) : Inserted(ms, m)[i] = m
         /\ Sorted(ms) => Sorted(Inserted(ms, m))
<1>1. PICK K \in SUBSET (DOMAIN ms) : K = {i \in DOMAIN ms : ms[i].at <= m.at}
  OBVIOUS
<1>2. PICK R \in SUBSET (DOMAIN ms) : R = DOMAIN ms \ K
  OBVIOUS
<1>3. PICK a \in Seq(Entry), b \in Seq(Entry) : a = Filtered(ms, K) /\ b = Filtered(ms, R)
  BY FilteredIs
<1>4. PICK p \in Nat, q \in Nat : /\ p = Len(a) /\ DOMAIN a = 1 .. p
                                  /\ q = Len(b) /\ DOMAIN b = 1 .. q
  BY EntriesAre
<1>a. PICK f : Source(f, a, ms, K)
  BY <1>3, FilteredIs
<1>b. PICK g : Source(g, b, ms, R)
  BY <1>3, FilteredIs
<1>5. /\ f \in [1 .. p -> K]
      /\ \A k \in 1 .. p : a[k] = ms[f[k]]
      /\ \A k, l \in 1 .. p : f[k] = f[l] => k = l
      /\ \A k, l \in 1 .. p : k < l => f[k] < f[l]
      /\ \A i \in K : \E k \in 1 .. p : f[k] = i
  BY <1>4, <1>a DEF Source
<1>6. /\ g \in [1 .. q -> R]
      /\ \A k \in 1 .. q : b[k] = ms[g[k]]
      /\ \A k, l \in 1 .. q : g[k] = g[l] => k = l
      /\ \A k, l \in 1 .. q : k < l => g[k] < g[l]
      /\ \A i \in R : \E k \in 1 .. q : g[k] = i
  BY <1>4, <1>b DEF Source
<1>j. PICK t : t = a \o <<m>> \o b
  OBVIOUS
<1>f. /\ t \in Seq(Entry) /\ t = a \o <<m>> \o b /\ Len(t) = Len(a) + 1 + Len(b)
      /\ \A i \in 1 .. Len(a) : t[i] = a[i]
      /\ t[Len(a) + 1] = m
      /\ \A i \in 1 .. Len(b) : t[Len(a) + 1 + i] = b[i]
  BY <1>j, AroundIs
<1>7. /\ t = a \o <<m>> \o b /\ Len(t) = p + 1 + q
      /\ \A i \in 1 .. p : t[i] = a[i]
      /\ t[p + 1] = m
      /\ \A i \in 1 .. q : t[p + 1 + i] = b[i]
  BY <1>4, <1>f
<1>8. Inserted(ms, m) = t
  BY <1>1, <1>2, <1>3, <1>7 DEF Inserted
<1>9. PICK n \in Nat : n = p + 1 + q /\ DOMAIN t = 1 .. n
  BY <1>7, EntriesAre
<1>10. \A i \in 1 .. n : i \in 1 .. p \/ i = p + 1 \/ \E k \in 1 .. q : i = p + 1 + k
  <2> SUFFICES ASSUME NEW i \in 1 .. n, i \notin 1 .. p, i # p + 1
               PROVE  \E k \in 1 .. q : i = p + 1 + k
    OBVIOUS
  <2>1. i - (p + 1) \in 1 .. q /\ i = p + 1 + (i - (p + 1))
    BY <1>9
  <2> QED
    BY <2>1
<1>g. \A i \in 1 .. p : f[i] \in K /\ f[i] \in DOMAIN ms
  BY <1>5
<1>h. \A k \in 1 .. q : g[k] \in R /\ g[k] \in DOMAIN ms
  BY <1>6
<1>i. (\A i \in 1 .. p : i \in 1 .. n) /\ (\A k \in 1 .. q : p + 1 + k \in 1 .. n)
  BY <1>9
<1>11. \A i \in 1 .. p : i \in 1 .. n /\ f[i] \in K /\ f[i] \in DOMAIN ms /\ t[i] = ms[f[i]]
  BY <1>5, <1>7, <1>g, <1>i
<1>12. \A k \in 1 .. q : p + 1 + k \in 1 .. n /\ g[k] \in R /\ g[k] \in DOMAIN ms
                         /\ t[p + 1 + k] = ms[g[k]]
  BY <1>6, <1>7, <1>h, <1>i
<1>13. p + 1 \in 1 .. n /\ t[p + 1] = m
  BY <1>7, <1>9
<1>14. \A i \in 1 .. n : t[i] = m \/ \E j \in DOMAIN ms : t[i] = ms[j]
  <2> SUFFICES ASSUME NEW i \in 1 .. n PROVE t[i] = m \/ \E j \in DOMAIN ms : t[i] = ms[j]
    OBVIOUS
  <2>1. CASE i \in 1 .. p
    BY <1>11, <2>1
  <2>2. CASE i = p + 1
    BY <1>13, <2>2
  <2>3. CASE \E k \in 1 .. q : i = p + 1 + k
    BY <1>12, <2>3
  <2> QED
    BY <1>10, <2>1, <2>2, <2>3
<1>15. \A j \in DOMAIN ms : \E i \in 1 .. n : t[i] = ms[j]
  <2> SUFFICES ASSUME NEW j \in DOMAIN ms PROVE \E i \in 1 .. n : t[i] = ms[j]
    OBVIOUS
  <2>1. CASE j \in K
    <3>1. PICK k \in 1 .. p : f[k] = j
      BY <1>5, <2>1
    <3>2. k \in 1 .. n /\ t[k] = ms[j]
      BY <1>11, <3>1
    <3> QED
      BY <3>2
  <2>2. CASE j \in R
    <3>1. PICK k \in 1 .. q : g[k] = j
      BY <1>6, <2>2
    <3>2. p + 1 + k \in 1 .. n /\ t[p + 1 + k] = ms[j]
      BY <1>12, <3>1
    <3> QED
      BY <3>2
  <2> QED
    BY <1>2, <2>1, <2>2
<1>16. ToSet(Ids(t)) = ToSet(Ids(ms)) \cup {m.id}
  <2>1. \A x : x \in ToSet(Ids(t)) <=> \E i \in 1 .. n : t[i].id = x
    <3>1. \A x : x \in ToSet(Ids(t)) <=> \E i \in DOMAIN t : t[i].id = x
      BY <1>f, EntriesAre
    <3> QED
      BY <1>9, <3>1
  <2>2. \A x : x \in ToSet(Ids(ms)) <=> \E i \in DOMAIN ms : ms[i].id = x
    BY EntriesAre
  <2>3. \A x : x \in ToSet(Ids(t)) => x \in ToSet(Ids(ms)) \cup {m.id}
    BY <1>14, <2>1, <2>2
  <2>4. \A x : x \in ToSet(Ids(ms)) \cup {m.id} => x \in ToSet(Ids(t))
    BY <1>13, <1>15, <2>1, <2>2
  <2> QED
    BY <2>3, <2>4
<1>17. \A i \in DOMAIN ms, j \in DOMAIN ms : ms[i].id = ms[j].id => i = j
  BY DEF OnceIds
<1>18. \A i \in 1 .. p : t[i].id # m.id
  BY <1>11
<1>19. \A k \in 1 .. q : t[p + 1 + k].id # m.id
  BY <1>12
<1>20. ASSUME NEW i \in 1 .. p, NEW k \in 1 .. q PROVE t[i].id # t[p + 1 + k].id
  <2>1. f[i] # g[k]
    BY <1>2, <1>11, <1>12
  <2> QED
    BY <1>11, <1>12, <1>17, <2>1
<1>21. ASSUME NEW i \in 1 .. p, NEW j \in 1 .. p, t[i].id = t[j].id PROVE i = j
  <2>1. f[i] = f[j]
    BY <1>11, <1>17, <1>21
  <2> QED
    BY <1>5, <2>1
<1>22. ASSUME NEW i \in 1 .. q, NEW j \in 1 .. q, t[p + 1 + i].id = t[p + 1 + j].id PROVE i = j
  <2>1. g[i] = g[j]
    BY <1>12, <1>17, <1>22
  <2> QED
    BY <1>6, <2>1
<1>23. OnceIds(t)
  <2> SUFFICES ASSUME NEW i \in 1 .. n, NEW j \in 1 .. n, t[i].id = t[j].id PROVE i = j
    BY <1>9 DEF OnceIds
  <2>1. CASE i \in 1 .. p
    BY <1>10, <1>13, <1>18, <1>20, <1>21, <2>1
  <2>2. CASE i = p + 1
    BY <1>10, <1>13, <1>18, <1>19, <2>2
  <2>3. CASE \E k \in 1 .. q : i = p + 1 + k
    <3>1. PICK k \in 1 .. q : i = p + 1 + k
      BY <2>3
    <3>2. j \notin 1 .. p /\ j # p + 1
      BY <1>13, <1>19, <1>20, <3>1
    <3>3. PICK l \in 1 .. q : j = p + 1 + l
      BY <1>10, <3>2
    <3> QED
      BY <1>22, <3>1, <3>3
  <2> QED
    BY <1>10, <2>1, <2>2, <2>3
<1>24. ASSUME Sorted(ms) PROVE Sorted(t)
  <2>0. \A i, j \in DOMAIN ms : i < j => ms[i].at <= ms[j].at
    BY <1>24 DEF Sorted
  <2>1. \A i \in DOMAIN ms : ms[i].at \in Nat
    BY EntriesAre
  <2>2. m.at \in Nat
    BY DEF Entry
  <2>3. \A i \in 1 .. p : t[i].at <= m.at
    BY <1>1, <1>11
  <2>4. \A k \in 1 .. q : m.at <= t[p + 1 + k].at
    <3> SUFFICES ASSUME NEW k \in 1 .. q PROVE m.at <= t[p + 1 + k].at
      OBVIOUS
    <3>1. ~(ms[g[k]].at <= m.at) /\ ms[g[k]].at \in Nat
      BY <1>1, <1>2, <1>12, <2>1
    <3>2. m.at <= ms[g[k]].at
      BY <2>2, <3>1
    <3> QED
      BY <1>12, <3>2
  <2>5. \A i \in 1 .. n : t[i].at \in Nat
    BY <1>f, <1>9, EntriesAre
  <2>6. \A i, j \in 1 .. p : i < j => t[i].at <= t[j].at
    <3> SUFFICES ASSUME NEW i \in 1 .. p, NEW j \in 1 .. p, i < j PROVE t[i].at <= t[j].at
      OBVIOUS
    <3>1. f[i] < f[j]
      BY <1>5
    <3>2. ms[f[i]].at <= ms[f[j]].at
      BY <1>g, <2>0, <3>1
    <3> QED
      BY <1>11, <3>2
  <2>7. \A k, l \in 1 .. q : k < l => t[p + 1 + k].at <= t[p + 1 + l].at
    <3> SUFFICES ASSUME NEW k \in 1 .. q, NEW l \in 1 .. q, k < l
                 PROVE  t[p + 1 + k].at <= t[p + 1 + l].at
      OBVIOUS
    <3>1. g[k] < g[l]
      BY <1>6
    <3>2. ms[g[k]].at <= ms[g[l]].at
      BY <1>h, <2>0, <3>1
    <3> QED
      BY <1>12, <3>2
  <2>8. ASSUME NEW i \in 1 .. n, NEW j \in 1 .. n, i < j PROVE t[i].at <= t[j].at
    <3>1. CASE i \in 1 .. p
      <4>1. CASE j \in 1 .. p
        BY <2>6, <2>8, <3>1, <4>1
      <4>2. CASE j = p + 1
        BY <1>13, <2>3, <3>1, <4>2
      <4>3. CASE \E k \in 1 .. q : j = p + 1 + k
        <5>1. t[i].at <= m.at /\ m.at <= t[j].at
          BY <2>3, <2>4, <3>1, <4>3
        <5> QED
          BY <2>2, <2>5, <5>1
      <4> QED
        BY <1>10, <4>1, <4>2, <4>3
    <3>2. CASE i = p + 1
      <4>1. j \notin 1 .. p /\ j # p + 1
        BY <2>8, <3>2
      <4>2. m.at <= t[j].at
        BY <1>10, <2>4, <4>1
      <4> QED
        BY <1>13, <3>2, <4>2
    <3>3. CASE \E k \in 1 .. q : i = p + 1 + k
      <4>1. PICK k \in 1 .. q : i = p + 1 + k
        BY <3>3
      <4>2. j \notin 1 .. p /\ j # p + 1
        BY <2>8, <4>1
      <4>3. PICK l \in 1 .. q : j = p + 1 + l
        BY <1>10, <4>2
      <4>4. k < l
        BY <2>8, <4>1, <4>3
      <4> QED
        BY <2>7, <4>1, <4>3, <4>4
    <3> QED
      BY <1>10, <3>1, <3>2, <3>3
  <2> QED
    BY <1>9, <2>8 DEF Sorted
<1> QED
  <2>1. t \in Seq(Entry)
    BY <1>f
  <2>2. /\ \A i \in DOMAIN t : t[i] = m \/ \E j \in DOMAIN ms : t[i] = ms[j]
        /\ \A j \in DOMAIN ms : \E i \in DOMAIN t : t[i] = ms[j]
        /\ \E i \in DOMAIN t : t[i] = m
    BY <1>9, <1>13, <1>14, <1>15
  <2> QED
    BY <1>8, <1>16, <1>23, <1>24, <2>1, <2>2

LEMMA FilteredEntries ==
  ASSUME NEW ms \in Seq(Entry), OnceIds(ms), NEW K \in SUBSET (DOMAIN ms)
  PROVE  /\ Filtered(ms, K) \in Seq(Entry) /\ OnceIds(Filtered(ms, K))
         /\ \A k \in DOMAIN Filtered(ms, K) : \E i \in K : Filtered(ms, K)[k] = ms[i]
         /\ \A i \in K : \E k \in DOMAIN Filtered(ms, K) : Filtered(ms, K)[k] = ms[i]
         /\ Sorted(ms) => Sorted(Filtered(ms, K))
<1>1. PICK fs \in Seq(Entry) : fs = Filtered(ms, K)
  BY FilteredIs
<1>2. PICK f : Source(f, fs, ms, K)
  BY <1>1, FilteredIs
<1>3. \A k \in DOMAIN fs : f[k] \in K /\ f[k] \in DOMAIN ms /\ fs[k] = ms[f[k]]
  BY <1>2 DEF Source
<1>4. OnceIds(fs)
  <2> SUFFICES ASSUME NEW k \in DOMAIN fs, NEW l \in DOMAIN fs, fs[k].id = fs[l].id PROVE k = l
    BY DEF OnceIds
  <2>1. f[k] = f[l]
    BY <1>3 DEF OnceIds
  <2> QED
    BY <1>2, <2>1 DEF Source
<1>5. \A i \in K : \E k \in DOMAIN fs : fs[k] = ms[i]
  <2> SUFFICES ASSUME NEW i \in K PROVE \E k \in DOMAIN fs : fs[k] = ms[i]
    OBVIOUS
  <2>1. PICK k \in DOMAIN fs : f[k] = i
    BY <1>2 DEF Source
  <2> QED
    BY <1>3, <2>1
<1>6. ASSUME Sorted(ms) PROVE Sorted(fs)
  <2> SUFFICES ASSUME NEW k \in DOMAIN fs, NEW l \in DOMAIN fs, k < l PROVE fs[k].at <= fs[l].at
    BY DEF Sorted
  <2>1. f[k] < f[l]
    BY <1>2 DEF Source
  <2> QED
    BY <1>3, <1>6, <2>1 DEF Sorted
<1> QED
  BY <1>1, <1>3, <1>4, <1>5, <1>6

\* The end of a list: what is not in it is no newer than what is, when they are sorted.
LEMMA LatestEntries ==
  ASSUME NEW ms \in Seq(Entry), OnceIds(ms), NEW n \in Nat
  PROVE  /\ Latest(ms, n) \in Seq(Entry) /\ OnceIds(Latest(ms, n))
         /\ \A k \in DOMAIN Latest(ms, n) : \E i \in DOMAIN ms : Latest(ms, n)[k] = ms[i]
         /\ Sorted(ms) => Sorted(Latest(ms, n))
         /\ Len(Latest(ms, n)) = (IF Len(ms) <= n THEN Len(ms) ELSE n)
         /\ \A i \in DOMAIN ms :
              \/ \E k \in DOMAIN Latest(ms, n) : Latest(ms, n)[k] = ms[i]
              \/ Len(Latest(ms, n)) = n
                 /\ (Sorted(ms) => \A k \in DOMAIN Latest(ms, n) : ms[i].at <= Latest(ms, n)[k].at)
         /\ Len(ms) > n => \A k \in DOMAIN Latest(ms, n) :
              Latest(ms, n)[k] # ms[1] /\ (Sorted(ms) => ms[1].at <= Latest(ms, n)[k].at)
<1>1. PICK t \in Seq(Entry) : t = Latest(ms, n)
  BY LatestIs
<1>a. Len(ms) \in Nat /\ Len(t) \in Nat
  BY EntriesAre
<1>b. PICK p \in Nat, q \in Nat : p = Len(ms) /\ q = Len(t)
  BY <1>a
<1>c. q = (IF p <= n THEN p ELSE n) /\ DOMAIN ms = 1 .. p /\ DOMAIN t = 1 .. q
  BY <1>1, <1>b, LatestIs, EntriesAre
<1>e. q <= p
  BY <1>c
<1>2. PICK o \in Nat : o = p - q
  BY <1>e
<1>3. \A i \in 1 .. q : i \in Nat /\ i + o \in 1 .. p /\ t[i] = ms[i + o]
  <2>1. \A i \in DOMAIN t : i + (Len(ms) - Len(t)) \in DOMAIN ms
                            /\ t[i] = ms[i + (Len(ms) - Len(t))]
    BY <1>1, LatestIs
  <2>2. \A i \in DOMAIN t : i \in Nat
    BY EntriesAre
  <2> QED
    BY <1>b, <1>c, <1>2, <2>1, <2>2
<1>d. \A i, j \in 1 .. p : ms[i].id = ms[j].id => i = j
  BY <1>c DEF OnceIds
<1>4. OnceIds(t)
  <2> SUFFICES ASSUME NEW k \in 1 .. q, NEW l \in 1 .. q, t[k].id = t[l].id PROVE k = l
    BY <1>c DEF OnceIds
  <2>1. k + o = l + o /\ k \in Nat /\ l \in Nat
    BY <1>3, <1>d
  <2> QED
    BY <2>1
<1>5. ASSUME Sorted(ms) PROVE \A i, j \in 1 .. p : i < j => ms[i].at <= ms[j].at
  BY <1>c, <1>5 DEF Sorted
<1>6. ASSUME Sorted(ms) PROVE Sorted(t)
  <2> SUFFICES ASSUME NEW k \in 1 .. q, NEW l \in 1 .. q, k < l PROVE t[k].at <= t[l].at
    BY <1>c DEF Sorted
  <2>1. k + o < l + o
    OBVIOUS
  <2> QED
    BY <1>3, <1>5, <1>6, <2>1
<1>7. ASSUME NEW i \in 1 .. p
      PROVE  \/ \E k \in 1 .. q : t[k] = ms[i]
             \/ q = n /\ (Sorted(ms) => \A k \in 1 .. q : ms[i].at <= t[k].at)
  <2>1. CASE i > o
    <3>1. i - o \in 1 .. q /\ (i - o) + o = i
      BY <1>2, <1>c, <2>1
    <3>2. PICK k \in 1 .. q : k + o = i
      BY <3>1
    <3> QED
      BY <1>3, <3>2
  <2>2. CASE ~(i > o)
    <3>1. q = n
      BY <1>2, <1>c, <2>2
    <3>2. ASSUME Sorted(ms), NEW k \in 1 .. q PROVE ms[i].at <= t[k].at
      <4>1. i < k + o
        BY <2>2
      <4> QED
        BY <1>3, <1>5, <3>2, <4>1
    <3> QED
      BY <3>1, <3>2
  <2> QED
    BY <2>1, <2>2
<1>8. ASSUME p > n, NEW k \in 1 .. q
      PROVE  t[k] # ms[1] /\ (Sorted(ms) => ms[1].at <= t[k].at)
  <2>1. 1 \in 1 .. p /\ 1 < k + o /\ k + o \in 1 .. p /\ 1 # k + o
    BY <1>2, <1>3, <1>8, <1>c
  <2>2. t[k] = ms[k + o] /\ ms[k + o].id # ms[1].id
    BY <1>3, <1>d, <2>1
  <2> QED
    BY <1>5, <2>1, <2>2
<1> QED
  BY <1>1, <1>3, <1>4, <1>6, <1>7, <1>8, <1>b, <1>c

LEMMA OnceIsShown ==
  ASSUME NEW ms \in Seq(Entry), OnceIds(ms)
  PROVE  Len(ms) = Cardinality(ToSet(Ids(ms))) /\ IsFiniteSet(ToSet(Ids(ms)))
<1>1. PICK ids \in Seq(Nat) : ids = Ids(ms) /\ Len(ids) = Len(ms)
  BY EntriesAre
<1>2. \A i, j \in DOMAIN ids : ids[i] = ids[j] => i = j
  BY <1>1, EntriesAre DEF OnceIds
<1> QED
  BY <1>1, <1>2, CountOf

\* What comes is in the list once, with what was there, or the list is full.
LEMMA MergeIs ==
  ASSUME NEW ms \in Seq(Entry), OnceIds(ms), NEW m \in Entry
  PROVE  /\ Merge(ms, m) \in Seq(Entry) /\ OnceIds(Merge(ms, m))
         /\ \A k \in DOMAIN Merge(ms, m) :
              Merge(ms, m)[k] = m \/ \E i \in DOMAIN ms : Merge(ms, m)[k] = ms[i]
         /\ Sorted(ms) => Sorted(Merge(ms, m))
         /\ Len(ms) >= Limit => Len(Merge(ms, m)) >= Limit
         /\ \A e \in Entry : e = m \/ (e.id # m.id /\ \E i \in DOMAIN ms : ms[i] = e) =>
              \/ \E k \in DOMAIN Merge(ms, m) : Merge(ms, m)[k] = e
              \/ Len(Merge(ms, m)) >= Limit
                 /\ (Sorted(ms) => \A k \in DOMAIN Merge(ms, m) : e.at <= Merge(ms, m)[k].at)
         /\ (/\ Len(ms) >= Limit /\ Sorted(ms) /\ \A i \in DOMAIN ms : ms[i].id # m.id)
              => \A k \in DOMAIN Merge(ms, m) : \E i \in DOMAIN ms : ms[i].at <= Merge(ms, m)[k].at
<1>0. Limit \in Nat
  BY ChatAssumption
<1>1. PICK K \in SUBSET (DOMAIN ms) : K = {i \in DOMAIN ms : ms[i].id # m.id}
  OBVIOUS
<1>2. PICK fs \in Seq(Entry) : fs = Filtered(ms, K) /\ OnceIds(fs)
  BY FilteredEntries
<1>3. \A k \in DOMAIN fs : \E i \in K : fs[k] = ms[i]
  BY <1>2, FilteredEntries
<1>4. \A k \in DOMAIN fs : fs[k].id # m.id
  BY <1>1, <1>3
<1>a. \A i \in K : \E k \in DOMAIN fs : fs[k] = ms[i]
  BY <1>2, FilteredEntries
<1>5. PICK u \in Seq(Entry) : u = Inserted(fs, m) /\ OnceIds(u)
  BY <1>2, <1>4, InsertedIs
<1>6. /\ \A k \in DOMAIN u : u[k] = m \/ \E j \in DOMAIN fs : u[k] = fs[j]
      /\ \A j \in DOMAIN fs : \E k \in DOMAIN u : u[k] = fs[j]
      /\ \E k \in DOMAIN u : u[k] = m
  <2>1. \A k \in DOMAIN Inserted(fs, m) :
          Inserted(fs, m)[k] = m \/ \E j \in DOMAIN fs : Inserted(fs, m)[k] = fs[j]
    BY <1>2, <1>4, InsertedIs
  <2>2. \A j \in DOMAIN fs : \E k \in DOMAIN Inserted(fs, m) : Inserted(fs, m)[k] = fs[j]
    BY <1>2, <1>4, InsertedIs
  <2>3. \E k \in DOMAIN Inserted(fs, m) : Inserted(fs, m)[k] = m
    BY <1>2, <1>4, InsertedIs
  <2> QED
    BY <1>5, <2>1, <2>2, <2>3
<1>7. Sorted(ms) => Sorted(u)
  <2>1. Sorted(ms) => Sorted(fs)
    BY <1>2, FilteredEntries
  <2>2. Sorted(fs) => Sorted(u)
    BY <1>2, <1>4, <1>5, InsertedIs
  <2> QED
    BY <2>1, <2>2
<1>8. PICK t \in Seq(Entry) : t = Latest(u, Limit) /\ OnceIds(t)
  BY <1>0, <1>5, LatestEntries
<1>9. Merge(ms, m) = t
  BY <1>1, <1>2, <1>5, <1>8 DEF Merge
<1>b. /\ \A k \in DOMAIN t : \E i \in DOMAIN u : t[k] = u[i]
      /\ Sorted(u) => Sorted(t)
      /\ Len(t) = (IF Len(u) <= Limit THEN Len(u) ELSE Limit)
      /\ \A i \in DOMAIN u :
           \/ \E k \in DOMAIN t : t[k] = u[i]
           \/ Len(t) = Limit /\ (Sorted(u) => \A k \in DOMAIN t : u[i].at <= t[k].at)
      /\ Len(u) > Limit => \A k \in DOMAIN t : t[k] # u[1] /\ (Sorted(u) => u[1].at <= t[k].at)
  <2>1. PICK n \in Nat : n = Limit
    BY <1>0
  <2>2. t = Latest(u, n)
    BY <1>8, <2>1
  <2>3. \A k \in DOMAIN Latest(u, n) : \E i \in DOMAIN u : Latest(u, n)[k] = u[i]
    BY <1>5, LatestEntries
  <2>4. /\ Sorted(u) => Sorted(Latest(u, n))
        /\ Len(Latest(u, n)) = (IF Len(u) <= n THEN Len(u) ELSE n)
    BY <1>5, LatestEntries
  <2>5. \A i \in DOMAIN u :
          \/ \E k \in DOMAIN Latest(u, n) : Latest(u, n)[k] = u[i]
          \/ Len(Latest(u, n)) = n
             /\ (Sorted(u) => \A k \in DOMAIN Latest(u, n) : u[i].at <= Latest(u, n)[k].at)
    BY <1>5, LatestEntries
  <2>6. Len(u) > n => \A k \in DOMAIN Latest(u, n) :
          Latest(u, n)[k] # u[1] /\ (Sorted(u) => u[1].at <= Latest(u, n)[k].at)
    BY <1>5, LatestEntries
  <2> QED
    BY <2>1, <2>2, <2>3, <2>4, <2>5, <2>6
<1>10. \A k \in DOMAIN u : u[k] = m \/ \E i \in DOMAIN ms : u[k] = ms[i]
  BY <1>3, <1>6
<1>11. \A k \in DOMAIN t : t[k] = m \/ \E i \in DOMAIN ms : t[k] = ms[i]
  BY <1>10, <1>b
<1>12. ASSUME NEW e \in Entry, e = m \/ (e.id # m.id /\ \E i \in DOMAIN ms : ms[i] = e)
       PROVE  \/ \E k \in DOMAIN t : t[k] = e
              \/ Len(t) >= Limit /\ (Sorted(ms) => \A k \in DOMAIN t : e.at <= t[k].at)
  <2>1. \E k \in DOMAIN u : u[k] = e
    <3>1. CASE e = m
      BY <1>6, <3>1
    <3>2. CASE e.id # m.id /\ \E i \in DOMAIN ms : ms[i] = e
      <4>1. PICK i \in K : ms[i] = e
        BY <1>1, <3>2
      <4>2. PICK j \in DOMAIN fs : fs[j] = e
        BY <1>a, <4>1
      <4> QED
        BY <1>6, <4>2
    <3> QED
      BY <1>12, <3>1, <3>2
  <2>2. PICK l \in DOMAIN u : u[l] = e
    BY <2>1
  <2>3. \/ \E k \in DOMAIN t : t[k] = e
        \/ Len(t) = Limit /\ (Sorted(u) => \A k \in DOMAIN t : e.at <= t[k].at)
    BY <1>b, <2>2
  <2> QED
    BY <1>0, <1>7, <2>3
<1>13. ToSet(Ids(ms)) \cup {m.id} \subseteq ToSet(Ids(u))
  <2>1. /\ \A x : x \in ToSet(Ids(ms)) <=> \E i \in DOMAIN ms : ms[i].id = x
        /\ \A x : x \in ToSet(Ids(u)) <=> \E i \in DOMAIN u : u[i].id = x
    BY <1>5, EntriesAre
  <2>2. ASSUME NEW i \in DOMAIN ms PROVE \E k \in DOMAIN u : u[k].id = ms[i].id
    <3>1. CASE i \in K
      BY <1>6, <1>a, <3>1
    <3>2. CASE i \notin K
      BY <1>1, <1>6, <3>2
    <3> QED
      BY <3>1, <3>2
  <2>3. \E k \in DOMAIN u : u[k].id = m.id
    BY <1>6
  <2> QED
    BY <2>1, <2>2, <2>3
<1>14. PICK S, T : S = ToSet(Ids(ms)) /\ T = ToSet(Ids(u))
  OBVIOUS
<1>15. /\ IsFiniteSet(S) /\ IsFiniteSet(T) /\ Cardinality(S) = Len(ms) /\ Cardinality(T) = Len(u)
       /\ Len(ms) \in Nat /\ Len(u) \in Nat /\ Len(t) \in Nat
  BY <1>5, <1>8, <1>14, OnceIsShown, EntriesAre
<1>16. Len(ms) <= Len(u)
  <2>1. S \in SUBSET T
    BY <1>13, <1>14
  <2> QED
    BY <1>15, <2>1, FS_Subset
<1>17. ASSUME \A i \in DOMAIN ms : ms[i].id # m.id PROVE Len(ms) + 1 <= Len(u)
  <2>1. m.id \notin S
    BY <1>14, <1>17, EntriesAre
  <2>2. Cardinality(S \cup {m.id}) = Cardinality(S) + 1
    BY <1>15, <2>1, FS_AddElement
  <2>3. S \cup {m.id} \in SUBSET T
    BY <1>13, <1>14
  <2> QED
    BY <1>15, <2>2, <2>3, FS_Subset
<1>18. Len(ms) >= Limit => Len(t) >= Limit
  BY <1>0, <1>15, <1>16, <1>b
<1>19. ASSUME Len(ms) >= Limit, Sorted(ms), \A i \in DOMAIN ms : ms[i].id # m.id, NEW k \in DOMAIN t
       PROVE  \E i \in DOMAIN ms : ms[i].at <= t[k].at
  <2>1. Len(u) > Limit
    BY <1>0, <1>15, <1>17, <1>19
  <2>2. t[k] # u[1] /\ u[1].at <= t[k].at
    BY <1>7, <1>19, <1>b, <2>1
  <2>3. CASE u[1] = m
    <3>1. PICK i \in DOMAIN ms : t[k] = ms[i]
      BY <1>11, <2>2, <2>3
    <3>2. ms[i].at \in Nat
      BY EntriesAre
    <3> QED
      BY <3>1, <3>2
  <2>4. CASE u[1] # m
    <3>1. 1 \in DOMAIN u
      BY <1>0, <1>15, <2>1
    <3>2. PICK i \in DOMAIN ms : u[1] = ms[i]
      BY <1>10, <2>4, <3>1
    <3> QED
      BY <2>2, <3>2
  <2> QED
    BY <2>3, <2>4
<1>20. Sorted(ms) => Sorted(t)
  BY <1>7, <1>b
<1>21. \A e \in Entry : e = m \/ (e.id # m.id /\ \E i \in DOMAIN ms : ms[i] = e) =>
         \/ \E k \in DOMAIN t : t[k] = e
         \/ Len(t) >= Limit /\ (Sorted(ms) => \A k \in DOMAIN t : e.at <= t[k].at)
  BY <1>12
<1>22. (Len(ms) >= Limit /\ Sorted(ms) /\ \A i \in DOMAIN ms : ms[i].id # m.id)
         => \A k \in DOMAIN t : \E i \in DOMAIN ms : ms[i].at <= t[k].at
  BY <1>19
<1> QED
  BY <1>8, <1>9, <1>11, <1>18, <1>20, <1>21, <1>22, Zenon

\* What a load reads of a chat.
LEMMA InTimeIs ==
  ASSUME StoreTypes, NEW k, NEW ms \in InTime(OfChat(k))
  PROVE  ms \in Seq(Entry) /\ OnceIds(ms) /\ Sorted(ms) /\ Of(ms, k)
<1>1. PICK S : S = {Copy(id) : id \in OfChat(k)}
  OBVIOUS
<1>2. ms \in SetToSeqs(S) /\ Sorted(ms)
  BY <1>1 DEF InTime, Sorted
<1>3. PICK l \in Nat : DOMAIN saved = 1 .. l /\ \A x \in 1 .. l : saved[x] \in Stored
  BY DEF StoreTypes
<1>4. \A y \in S : y \in Entry /\ y.id \in OfChat(k) /\ y.id \in 1 .. l /\ y.at = saved[y.id].at
  <2> SUFFICES ASSUME NEW x \in OfChat(k)
               PROVE  Copy(x) \in Entry /\ Copy(x).id = x /\ x \in 1 .. l /\ Copy(x).at = saved[x].at
    BY <1>1
  <2>1. x \in 1 .. l /\ x \in Nat
    BY <1>3 DEF OfChat
  <2>2. saved[x].at \in Nat
    BY <1>3, <2>1 DEF Stored
  <2> QED
    BY <2>1, <2>2 DEF Copy, Entry
<1>5. \A y, z \in S : y.id = z.id => y = z
  BY <1>1 DEF Copy
<1>6. IsFiniteSet(S) /\ Cardinality(S) \in Nat
  <2>1. PICK T : T = 1 .. l /\ IsFiniteSet(T)
    BY FS_Interval
  <2>2. PICK f : f = [y \in S |-> y.id]
    OBVIOUS
  <2>3. f \in Injection(S, T)
    BY <1>4, <1>5, <2>1, <2>2 DEF Injection, IsInjective
  <2>4. IsFiniteSet(S)
    BY <2>1, <2>3, FS_Injection
  <2> QED
    BY <2>4, FS_CardinalityType
<1>7. PICK n \in Nat : n = Cardinality(S)
  BY <1>6
<1>8. ms \in [1 .. n -> S] /\ \A i, j \in 1 .. n : i # j => ms[i] # ms[j]
  BY <1>2, <1>7 DEF SetToSeqs
<1>9. ms \in Seq(S) /\ DOMAIN ms = 1 .. n
  BY <1>8
<1>10. ms \in Seq(Entry)
  BY <1>4, <1>9
<1>11. OnceIds(ms)
  BY <1>5, <1>8, <1>9 DEF OnceIds
<1>12. Of(ms, k)
  BY <1>4, <1>8, <1>9 DEF Of
<1> QED
  BY <1>2, <1>10, <1>11, <1>12

-----------------------------------------------------------------------------
(* The chat: its types, and where messages come from                       *)

LEMMA SoundStays ==
  /\ ShownTypes /\ shown' = shown /\ draft' = draft => ShownTypes'
  /\ MessagesOnce /\ messages' = messages => MessagesOnce'
  /\ LoadsFrom /\ loads' \subseteq loads /\ saved' = saved => LoadsFrom'
  /\ SendsFrom /\ sends' \subseteq sends /\ saved' = saved => SendsFrom'
  /\ StoreTypes /\ saved' = saved /\ chats' = chats /\ faults' = faults /\ outbox' \subseteq outbox
       => StoreTypes'
  /\ DueFrom /\ due' \subseteq due /\ saved' = saved /\ shown' = shown => DueFrom'
<1>1. ASSUME saved' = saved PROVE \A k : OfChat(k)' = OfChat(k)
  BY <1>1 DEF OfChat
<1>a. ASSUME saved' = saved PROVE \A ms, k : Of(ms, k)' = Of(ms, k)
  BY <1>1, <1>a DEF Of
<1>2. LoadsFrom /\ loads' \subseteq loads /\ saved' = saved => LoadsFrom'
  BY <1>a DEF LoadsFrom
<1>3. SendsFrom /\ sends' \subseteq sends /\ saved' = saved => SendsFrom'
  BY <1>1 DEF SendsFrom
<1>4. DueFrom /\ due' \subseteq due /\ saved' = saved /\ shown' = shown => DueFrom'
  BY <1>1 DEF DueFrom
<1>5. StoreTypes /\ saved' = saved /\ chats' = chats /\ faults' = faults /\ outbox' \subseteq outbox
        => StoreTypes'
  BY DEF StoreTypes
<1>6. /\ ShownTypes /\ shown' = shown /\ draft' = draft => ShownTypes'
      /\ MessagesOnce /\ messages' = messages => MessagesOnce'
  BY DEF ShownTypes, MessagesOnce
<1> QED
  BY <1>2, <1>3, <1>4, <1>5, <1>6

\* What is asked for has seen nothing.
LEMMA NewLoad ==
  ASSUME NEW s \in Sides, NEW op \in {"open", "create", "more"}, NEW k \in Nat, NEW n \in Nat,
         LoadsFrom, NEW ls, ls \subseteq loads, loads' = ls \cup {Load(s, op, k, n)}, saved' = saved
  PROVE  LoadsFrom'
<1>1. PICK c : c = Load(s, op, k, n)
  OBVIOUS
<1>2. c \in LoadRecord /\ c.seen = <<>>
  BY <1>1, NoEntries DEF Load, LoadRecord
<1>3. \A ms, j : Of(ms, j)' = Of(ms, j)
  BY DEF Of, OfChat
<1>4. OnceIds(c.seen) /\ Sorted(c.seen) /\ Of(c.seen, c.chat)
  BY <1>2, NoEntries
<1> QED
  BY <1>1, <1>2, <1>3, <1>4 DEF LoadsFrom

LEMMA LoadFields ==
  ASSUME LoadsFrom, NEW c \in loads
  PROVE  /\ c.by \in Sides /\ c.op \in {"open", "create", "more"} /\ c.chat \in Nat /\ c.many \in Nat
         /\ c.got \in {"sent", "ok"} /\ c.seen \in Seq(Entry) /\ OnceIds(c.seen)
         /\ Sorted(c.seen) /\ Of(c.seen, c.chat)
<1>1. \A l \in LoadRecord :
        /\ l.by \in Sides /\ l.op \in {"open", "create", "more"} /\ l.chat \in Nat /\ l.many \in Nat
        /\ l.got \in {"sent", "ok"} /\ l.seen \in Seq(Entry)
  BY DEF LoadRecord
<1> QED
  BY <1>1 DEF LoadsFrom

LEMMA SendFields ==
  ASSUME SendsFrom, NEW c \in sends
  PROVE  /\ c.by \in Sides /\ c.text \in Texts /\ c.chat \in Nat /\ c.id \in Nat
         /\ c.got \in {"sent", "ok", "error"} /\ (c.got = "ok" => c.id \in OfChat(c.chat) /\ saved[c.id].by = c.by)
<1>1. \A l \in SendRecord :
        /\ l.by \in Sides /\ l.text \in Texts /\ l.chat \in Nat /\ l.id \in Nat
        /\ l.got \in {"sent", "ok", "error"}
  BY DEF SendRecord
<1> QED
  BY <1>1 DEF SendsFrom

LEMMA AskKeepsSound ==
  ASSUME ChatSound, CreateChat \/ LoadMore \/ \E s \in Sides : OpenChat(s)
  PROVE  ChatSound'
<1>1. /\ shown' = shown /\ draft' = draft /\ messages' = messages /\ sends' = sends
      /\ saved' = saved /\ chats' = chats /\ faults' = faults /\ outbox' = outbox /\ due' = due
  BY DEF CreateChat, LoadMore, OpenChat, windowVars, serverVars
<1>2. LoadsFrom'
  <2>0. LoadsFrom /\ {"phone", "desk"} = Sides /\ Page \in Nat
        /\ shown["phone"] \in Nat /\ Len(messages["phone"]) \in Nat
    <3>1. "phone" \in Sides
      BY DEF Sides
    <3>2. shown["phone"] \in Nat /\ messages["phone"] \in Seq(Entry)
      BY <3>1 DEF ChatSound, ShownTypes, MessagesOnce
    <3> QED
      BY <3>2, ChatAssumption, EntriesAre DEF ChatSound, Sides
  <2>1. CASE CreateChat
    <3>1. loads' = loads \cup {Load("desk", "create", 0, 0)}
      BY <2>1 DEF CreateChat, Ask
    <3> QED
      BY <1>1, <2>0, <3>1, NewLoad
  <2>2. CASE LoadMore
    <3>1. PICK k \in Nat, n \in Nat : k = shown["phone"] /\ n = Len(messages["phone"]) + Page
      BY <2>0
    <3>2. loads' = loads \cup {Load("phone", "more", k, n)}
      BY <2>2, <3>1 DEF LoadMore, Ask
    <3> QED
      BY <1>1, <2>0, <3>2, NewLoad
  <2>3. CASE \E s \in Sides : OpenChat(s)
    <3>1. PICK s \in Sides : loads' = loads \cup {Load(s, "open", 0, 0)}
      BY <2>3 DEF OpenChat, Ask
    <3> QED
      BY <1>1, <2>0, <3>1, NewLoad
  <2> QED
    BY <2>1, <2>2, <2>3
<1> QED
  BY <1>1, <1>2, SoundStays DEF ChatSound

LEMMA DraftKeepsSound ==
  ASSUME ChatSound,
         \/ \E s \in Sides : Subscribed(s) \/ Send(s) \/ \E t \in Texts : Type(s, t)
         \/ \E c \in sends : SendFailed(c)
  PROVE  ChatSound'
<1>1. /\ shown' = shown /\ messages' = messages /\ loads' = loads
      /\ saved' = saved /\ chats' = chats /\ faults' = faults /\ outbox' = outbox /\ due' = due
  BY DEF Subscribed, Send, Type, SendFailed, windowVars, callVars, serverVars, boundVars
<1>2. ShownTypes /\ SendsFrom /\ DueFrom /\ LoadsFrom /\ StoreTypes /\ MessagesOnce
  BY DEF ChatSound
<1>3. ShownTypes' /\ SendsFrom'
  <2>1. CASE \E s \in Sides : Subscribed(s)
    <3>1. draft' = draft /\ sends' = sends
      BY <2>1 DEF Subscribed, windowVars, callVars
    <3> QED
      BY <1>1, <1>2, <3>1, SoundStays
  <2>2. CASE \E s \in Sides : Send(s)
    <3>1. PICK s \in Sides : Send(s)
      BY <2>2
    <3>2. draft' = [draft EXCEPT ![s] = NoText] /\ draft[s] # NoText
      BY <3>1 DEF Send
    <3>3. ShownTypes'
      BY <1>1, <1>2, <3>2 DEF ShownTypes
    <3>4. PICK c : c = Message(s, draft[s], shown[s]) /\ sends' = sends \cup {c}
      BY <3>1 DEF Send
    <3>5. draft[s] \in Texts /\ shown[s] \in Nat
      BY <1>2, <3>2 DEF ShownTypes
    <3>6. c \in SendRecord /\ c.got = "sent"
      BY <3>4, <3>5 DEF Message, SendRecord
    <3>7. \A k : OfChat(k)' = OfChat(k)
      BY <1>1 DEF OfChat
    <3>8. SendsFrom'
      BY <1>1, <1>2, <3>4, <3>6, <3>7 DEF SendsFrom
    <3> QED
      BY <3>3, <3>8
  <2>3. CASE \E s \in Sides : \E t \in Texts : Type(s, t)
    <3>1. PICK s \in Sides, t \in Texts : Type(s, t)
      BY <2>3
    <3>2. draft' = [draft EXCEPT ![s] = t] /\ sends' = sends
      BY <3>1 DEF Type, callVars
    <3>3. ShownTypes'
      BY <1>1, <1>2, <3>2 DEF ShownTypes
    <3> QED
      BY <1>1, <1>2, <3>2, <3>3, SoundStays
  <2>4. CASE \E c \in sends : SendFailed(c)
    <3>1. PICK c \in sends : SendFailed(c)
      BY <2>4
    <3>2. draft' = [draft EXCEPT ![c.by] = c.text] /\ sends' \subseteq sends
      BY <3>1 DEF SendFailed
    <3>3. c.by \in Sides /\ c.text \in Texts
      BY <1>2, SendFields
    <3>4. ShownTypes'
      BY <1>1, <1>2, <3>2, <3>3 DEF ShownTypes
    <3> QED
      BY <1>1, <1>2, <3>2, <3>4, SoundStays
  <2> QED
    BY <2>1, <2>2, <2>3, <2>4
<1> QED
  BY <1>1, <1>2, <1>3, SoundStays DEF ChatSound

\* What is put into a window.
LEMMA ShowKeepsSound ==
  ASSUME ShownTypes, MessagesOnce, DueFrom, NEW s \in Sides, NEW k \in Nat,
         NEW ms \in Seq(Entry), OnceIds(ms), Show(s, k, ms), saved' = saved
  PROVE  shown' \in [Sides -> Nat] /\ MessagesOnce' /\ DueFrom'
<1>1. shown' = [shown EXCEPT ![s] = k] /\ messages' = [messages EXCEPT ![s] = ms]
  BY DEF Show
<1>2. shown' \in [Sides -> Nat] /\ shown'[s] = k /\ \A r \in Sides : r # s => shown'[r] = shown[r]
  BY <1>1 DEF ShownTypes
<1>4. MessagesOnce'
  <2>2. messages' \in [Sides -> Seq(Entry)]
    BY <1>1 DEF MessagesOnce
  <2>3. \A r \in Sides : OnceIds(messages'[r])
    BY <1>1 DEF MessagesOnce
  <2> QED
    BY <2>2, <2>3 DEF MessagesOnce
<1>5. DueFrom'
  <2> SUFFICES ASSUME NEW d \in due'
               PROVE  d \in Sides \X Nat \X Kinds /\ (d[2] \in OfChat(shown[d[1]]))'
    BY DEF DueFrom
  <2>1. d \in due /\ (d[1] = s => shown[s] = k)
    <3>1. CASE shown[s] = k
      BY <3>1 DEF Show
    <3>2. CASE shown[s] # k
      BY <3>2 DEF Show
    <3> QED
      BY <3>1, <3>2
  <2>2. d \in Sides \X Nat \X Kinds /\ d[2] \in OfChat(shown[d[1]])
    BY <2>1 DEF DueFrom
  <2>3. d[1] \in Sides
    BY <2>2
  <2>4. shown'[d[1]] = shown[d[1]]
    BY <1>2, <2>1, <2>3
  <2>5. (OfChat(shown[d[1]]))' = OfChat(shown[d[1]])
    BY <2>4 DEF OfChat
  <2> QED
    BY <2>2, <2>5
<1> QED
  BY <1>2, <1>4, <1>5

LEMMA OpenKeepsSound ==
  ASSUME ChatSound, CloseChat \/ \E c \in loads : ChatsLoaded(c) \/ ChatCreated(c) \/ MoreLoaded(c)
  PROVE  ChatSound'
<1>1. /\ saved' = saved /\ chats' = chats /\ faults' = faults /\ outbox' = outbox /\ sends' = sends
  BY DEF CloseChat, ChatsLoaded, ChatCreated, MoreLoaded, callVars, serverVars, boundVars
<1>2. /\ ShownTypes /\ SendsFrom /\ DueFrom /\ LoadsFrom /\ StoreTypes /\ MessagesOnce
      /\ "phone" \in Sides /\ "desk" \in Sides
  BY DEF ChatSound, Sides
<1>3. SendsFrom' /\ StoreTypes'
  BY <1>1, <1>2, SoundStays
<1>4. CASE CloseChat
  <2>1. Show("phone", 0, <<>>) /\ draft' = [draft EXCEPT !["phone"] = NoText] /\ loads' = loads
    BY <1>4 DEF CloseChat, callVars
  <2>2. shown' \in [Sides -> Nat] /\ MessagesOnce' /\ DueFrom'
    BY <1>1, <1>2, <2>1, NoEntries, ShowKeepsSound
  <2>3. ShownTypes'
    BY <1>2, <2>1, <2>2 DEF ShownTypes
  <2> QED
    BY <1>1, <1>2, <1>3, <2>1, <2>2, <2>3, SoundStays DEF ChatSound
<1>5. CASE \E c \in loads : ChatsLoaded(c)
  <2>1. PICK c \in loads : ChatsLoaded(c)
    BY <1>5
  <2>2. c.by \in Sides /\ c.chat \in Nat /\ c.seen \in Seq(Entry) /\ OnceIds(c.seen)
    BY <1>2, LoadFields
  <2>3. draft' = draft
    BY <2>1 DEF ChatsLoaded
  <2>4. CASE c.chat = 0 /\ c.by = "phone"
    <3>1. /\ loads' = (loads \ {c}) \cup {Load(c.by, "create", 0, 0)}
          /\ shown' = shown /\ messages' = messages /\ due' = due
      BY <2>1, <2>4 DEF ChatsLoaded
    <3>2. LoadsFrom'
      <4>1. PICK ls : ls = loads \ {c} /\ ls \subseteq loads
        OBVIOUS
      <4>2. loads' = ls \cup {Load(c.by, "create", 0, 0)}
        BY <3>1, <4>1
      <4> QED
        BY <1>1, <1>2, <2>2, <4>1, <4>2, NewLoad
    <3> QED
      BY <1>1, <1>2, <1>3, <2>3, <3>1, <3>2, SoundStays DEF ChatSound
  <2>5. CASE ~(c.chat = 0 /\ c.by = "phone")
    <3>1. PICK ms : ms = IF c.by = "desk" THEN Latest(c.seen, Limit) ELSE c.seen
      OBVIOUS
    <3>2. loads' = loads \ {c} /\ Show(c.by, c.chat, ms)
      BY <2>1, <2>5, <3>1 DEF ChatsLoaded
    <3>3. ms \in Seq(Entry) /\ OnceIds(ms)
      BY <2>2, <3>1, LatestEntries, ChatAssumption
    <3>4. shown' \in [Sides -> Nat] /\ MessagesOnce' /\ DueFrom'
      BY <1>1, <1>2, <2>2, <3>2, <3>3, ShowKeepsSound
    <3>5. ShownTypes'
      BY <1>2, <2>3, <3>4 DEF ShownTypes
    <3> QED
      BY <1>1, <1>2, <1>3, <3>2, <3>4, <3>5, SoundStays DEF ChatSound
  <2> QED
    BY <2>4, <2>5
<1>6. CASE \E c \in loads : ChatCreated(c)
  <2>1. PICK c \in loads : ChatCreated(c)
    BY <1>6
  <2>2. c.by \in Sides /\ c.chat \in Nat
    BY <1>2, LoadFields
  <2>3. draft' = draft /\ loads' = loads \ {c} /\ Show(c.by, c.chat, <<>>)
    BY <2>1 DEF ChatCreated
  <2>4. shown' \in [Sides -> Nat] /\ MessagesOnce' /\ DueFrom'
    BY <1>1, <1>2, <2>2, <2>3, NoEntries, ShowKeepsSound
  <2>5. ShownTypes'
    BY <1>2, <2>3, <2>4 DEF ShownTypes
  <2> QED
    BY <1>1, <1>2, <1>3, <2>3, <2>4, <2>5, SoundStays DEF ChatSound
<1>7. CASE \E c \in loads : MoreLoaded(c)
  <2>1. PICK c \in loads : MoreLoaded(c)
    BY <1>7
  <2>2. c.by \in Sides /\ c.seen \in Seq(Entry) /\ OnceIds(c.seen)
    BY <1>2, LoadFields
  <2>3. /\ draft' = draft /\ shown' = shown /\ due' = due /\ loads' = loads \ {c}
        /\ messages' = [messages EXCEPT ![c.by] = c.seen]
    BY <2>1 DEF MoreLoaded, serverVars
  <2>4. PICK ms \in Seq(Entry) : ms = c.seen /\ OnceIds(ms)
    BY <2>2
  <2>5. MessagesOnce'
    <3>1. messages' = [messages EXCEPT ![c.by] = ms]
      BY <2>3, <2>4
    <3>2. messages' \in [Sides -> Seq(Entry)]
      BY <1>2, <3>1 DEF MessagesOnce
    <3>3. \A r \in Sides : OnceIds(messages'[r])
      BY <1>2, <2>4, <3>1 DEF MessagesOnce
    <3> QED
      BY <3>2, <3>3 DEF MessagesOnce
  <2> QED
    BY <1>1, <1>2, <1>3, <2>3, <2>5, SoundStays DEF ChatSound
<1> QED
  BY <1>4, <1>5, <1>6, <1>7

\* A window after a message is merged.
LEMMA MergeKeepsOnce ==
  ASSUME MessagesOnce, NEW s \in Sides, NEW m \in Entry,
         messages' = [messages EXCEPT ![s] = Merge(@, m)]
  PROVE  MessagesOnce'
<1>1. messages[s] \in Seq(Entry) /\ OnceIds(messages[s])
  BY DEF MessagesOnce
<1>2. PICK ms \in Seq(Entry) : ms = Merge(messages[s], m) /\ OnceIds(ms)
  BY <1>1, MergeIs
<1>3. messages' = [messages EXCEPT ![s] = ms]
  BY <1>2
<1>4. messages' \in [Sides -> Seq(Entry)]
  BY <1>3 DEF MessagesOnce
<1>5. \A r \in Sides : OnceIds(messages'[r])
  BY <1>2, <1>3 DEF MessagesOnce
<1> QED
  BY <1>4, <1>5 DEF MessagesOnce

LEMMA OfChatAre ==
  ASSUME StoreTypes, NEW k, NEW x \in OfChat(k)
  PROVE  x \in Nat /\ x \in DOMAIN saved /\ x <= Len(saved) /\ 1 <= x /\ Len(saved) \in Nat
BY DEF StoreTypes, OfChat

LEMMA CopyIs ==
  ASSUME StoreTypes, NEW x \in DOMAIN saved
  PROVE  Copy(x) \in Entry /\ Copy(x).id = x /\ Copy(x).at = saved[x].at
<1>1. saved[x] \in Stored /\ x \in Nat
  BY DEF StoreTypes
<1>2. saved[x].at \in Nat
  BY <1>1 DEF Stored
<1> QED
  BY <1>1, <1>2 DEF Copy, Entry

LEMMA EchoIs ==
  ASSUME NEW x \in Nat, NEW at \in Times
  PROVE  [id |-> x, at |-> at] \in Entry
<1>1. at \in Nat
  BY ChatAssumption DEF Times
<1> QED
  BY <1>1 DEF Entry

LEMMA ArrivalKeepsSound ==
  ASSUME ChatSound, (\E c \in sends : Acknowledged(c)) \/ (\E d \in due : Deliver(d))
  PROVE  ChatSound'
<1>1. /\ saved' = saved /\ chats' = chats /\ faults' = faults /\ outbox' = outbox /\ loads' = loads
      /\ shown' = shown /\ draft' = draft /\ sends' \subseteq sends /\ due' \subseteq due
  BY DEF Acknowledged, Deliver, Received, callVars, serverVars, boundVars
<1>2. /\ ShownTypes /\ SendsFrom /\ DueFrom /\ LoadsFrom /\ StoreTypes /\ MessagesOnce
  BY DEF ChatSound
<1>3. MessagesOnce'
  <2>1. CASE \E c \in sends : Acknowledged(c)
    <3>1. PICK c \in sends : Acknowledged(c)
      BY <2>1
    <3>2. c.by \in Sides /\ c.id \in Nat
      BY <1>2, SendFields
    <3>3. PICK at \in Times :
            messages' = [messages EXCEPT ![c.by] = Merge(@, [id |-> c.id, at |-> at])]
      BY <3>1 DEF Acknowledged
    <3>4. PICK m \in Entry : m = [id |-> c.id, at |-> at]
      BY <3>2, EchoIs
    <3>5. messages' = [messages EXCEPT ![c.by] = Merge(@, m)]
      BY <3>3, <3>4
    <3> QED
      BY <1>2, <3>2, <3>5, MergeKeepsOnce
  <2>2. CASE \E d \in due : Deliver(d)
    <3>1. PICK d \in due : Deliver(d)
      BY <2>2
    <3>2. d[1] \in Sides /\ d[2] \in DOMAIN saved
      BY <1>2 DEF DueFrom, OfChat
    <3>3. PICK m \in Entry : m = Copy(d[2])
      BY <1>2, <3>2, CopyIs
    <3>4. messages' = [messages EXCEPT ![d[1]] = Merge(@, m)]
      BY <3>1, <3>3 DEF Deliver
    <3> QED
      BY <1>2, <3>2, <3>4, MergeKeepsOnce
  <2> QED
    BY <2>1, <2>2
<1> QED
  BY <1>1, <1>2, <1>3, SoundStays DEF ChatSound

\* What is stored comes after the others.
LEMMA Storing ==
  ASSUME StoreTypes, NEW m \in Stored, saved' = Append(saved, m)
  PROVE  /\ saved' \in Seq(Stored) /\ Len(saved') = Len(saved) + 1 /\ Len(saved) \in Nat
         /\ DOMAIN saved = 1 .. Len(saved) /\ DOMAIN saved' = 1 .. Len(saved) + 1
         /\ \A i \in 1 .. Len(saved) : saved'[i] = saved[i]
         /\ saved'[Len(saved) + 1] = m
         /\ \A k : OfChat(k)' = IF k = m.chat THEN OfChat(k) \cup {Len(saved) + 1} ELSE OfChat(k)
<1>1. PICK l \in Nat : l = Len(saved) /\ DOMAIN saved = 1 .. l
  BY DEF StoreTypes
<1>2. /\ saved' \in Seq(Stored) /\ Len(saved') = l + 1 /\ DOMAIN saved' = 1 .. l + 1
      /\ \A i \in 1 .. l : saved'[i] = saved[i]
      /\ saved'[l + 1] = m
  BY <1>1 DEF StoreTypes
<1>3. ASSUME NEW k PROVE OfChat(k)' = IF k = m.chat THEN OfChat(k) \cup {l + 1} ELSE OfChat(k)
  <2>1. OfChat(k)' = {i \in 1 .. l + 1 : saved'[i].chat = k}
    BY <1>2 DEF OfChat
  <2>2. OfChat(k) = {i \in 1 .. l : saved[i].chat = k}
    BY <1>1 DEF OfChat
  <2>3. \A i \in 1 .. l + 1 : i \in 1 .. l \/ i = l + 1
    BY <1>1
  <2>4. \A i \in 1 .. l : i \in 1 .. l + 1
    BY <1>1
  <2>5. l + 1 \in 1 .. l + 1
    BY <1>1
  <2>6. \A i \in OfChat(k)' : i \in OfChat(k) \/ (i = l + 1 /\ k = m.chat)
    BY <1>2, <2>1, <2>2, <2>3
  <2>7. \A i \in OfChat(k) : i \in OfChat(k)'
    BY <1>2, <2>1, <2>2, <2>4
  <2>8. k = m.chat => l + 1 \in OfChat(k)'
    BY <1>2, <2>1, <2>5
  <2> QED
    BY <2>6, <2>7, <2>8
<1> QED
  BY <1>1, <1>2, <1>3

LEMMA OfGrows ==
  ASSUME StoreTypes, NEW m \in Stored, saved' = Append(saved, m), NEW ms, NEW k, Of(ms, k)
  PROVE  Of(ms, k)'
<1>1. /\ DOMAIN saved = 1 .. Len(saved)
      /\ \A i \in 1 .. Len(saved) : saved'[i] = saved[i]
      /\ OfChat(k)' = IF k = m.chat THEN OfChat(k) \cup {Len(saved) + 1} ELSE OfChat(k)
  BY Storing
<1>2. \A x \in OfChat(k) : x \in OfChat(k)' /\ saved'[x] = saved[x]
  BY <1>1 DEF OfChat
<1> QED
  BY <1>2 DEF Of

LEMMA ServeLoadKeepsSound ==
  ASSUME ChatSound, NEW c \in loads, ServeLoad(c)
  PROVE  ChatSound'
<1>1. /\ saved' = saved /\ faults' = faults /\ outbox' = outbox /\ due' = due
      /\ shown' = shown /\ draft' = draft /\ sends' = sends /\ messages' = messages
  BY DEF ServeLoad, windowVars, boundVars
<1>2. /\ ShownTypes /\ SendsFrom /\ DueFrom /\ LoadsFrom /\ StoreTypes /\ MessagesOnce
  BY DEF ChatSound
<1>3. c \in LoadRecord /\ c.chat \in Nat /\ c.many \in Nat /\ c.seen \in Seq(Entry)
      /\ OnceIds(c.seen) /\ Sorted(c.seen) /\ Of(c.seen, c.chat)
  BY <1>2, LoadFields DEF LoadsFrom
<1>4. chats \in Nat /\ chats + 1 \in Nat
  BY <1>2 DEF StoreTypes
<1>5. c.seen = <<>>
  BY <1>2 DEF LoadsFrom, ServeLoad
<1>6. \E d \in LoadRecord :
        /\ OnceIds(d.seen) /\ Sorted(d.seen) /\ Of(d.seen, d.chat)
        /\ d.got = "ok" /\ (d.op = "create" => d.seen = <<>>)
        /\ loads' = (loads \ {c}) \cup {d}
  <2>1. CASE c.op = "create"
    <3>1. PICK n \in Nat : n = chats + 1
      BY <1>4
    <3>2. PICK d : d = [c EXCEPT !.got = "ok", !.chat = n]
      OBVIOUS
    <3>3. d \in LoadRecord /\ d.seen = c.seen /\ d.chat = n /\ d.got = "ok" /\ d.op = c.op
      BY <1>3, <3>2 DEF LoadRecord
    <3>4. loads' = (loads \ {c}) \cup {d}
      BY <2>1, <3>1, <3>2 DEF ServeLoad
    <3> QED
      BY <1>5, <3>3, <3>4, NoEntries
  <2>2. CASE c.op # "create"
    <3>1. PICK k \in Nat : k = IF c.op = "more" THEN c.chat ELSE IF chats > 0 THEN 1 ELSE 0
      BY <1>3
    <3>2. PICK ms \in InTime(OfChat(k)) :
            loads' = (loads \ {c}) \cup
              {[c EXCEPT !.got = "ok", !.chat = k,
                         !.seen = IF c.op = "more" THEN Latest(ms, c.many) ELSE ms]}
      BY <2>2, <3>1 DEF ServeLoad
    <3>3. ms \in Seq(Entry) /\ OnceIds(ms) /\ Sorted(ms) /\ Of(ms, k)
      BY <1>2, InTimeIs
    <3>a. PICK n \in Nat : n = c.many
      BY <1>3
    <3>c. PICK ls : ls = IF c.op = "more" THEN Latest(ms, n) ELSE ms
      OBVIOUS
    <3>b. /\ Latest(ms, n) \in Seq(Entry) /\ OnceIds(Latest(ms, n)) /\ Sorted(Latest(ms, n))
          /\ \A i \in DOMAIN Latest(ms, n) : \E j \in DOMAIN ms : Latest(ms, n)[i] = ms[j]
      BY <3>3, LatestEntries
    <3>4. Of(Latest(ms, n), k)
      BY <3>3, <3>b DEF Of
    <3>5. ls \in Seq(Entry) /\ OnceIds(ls) /\ Sorted(ls) /\ Of(ls, k)
      BY <3>3, <3>4, <3>b, <3>c
    <3>6. PICK d : d = [c EXCEPT !.got = "ok", !.chat = k, !.seen = ls]
      OBVIOUS
    <3>7. d \in LoadRecord /\ d.seen = ls /\ d.chat = k /\ d.got = "ok" /\ d.op = c.op
      BY <1>3, <3>5, <3>6 DEF LoadRecord
    <3>8. loads' = (loads \ {c}) \cup {d}
      BY <3>2, <3>6, <3>a, <3>c
    <3> QED
      BY <2>2, <3>5, <3>7, <3>8
  <2> QED
    BY <2>1, <2>2
<1>7. \A ms, k : Of(ms, k)' = Of(ms, k)
  BY <1>1 DEF Of, OfChat
<1>8. LoadsFrom'
  BY <1>2, <1>6, <1>7 DEF LoadsFrom
<1>9. StoreTypes'
  <2>1. chats' \in Nat
    BY <1>4 DEF ServeLoad
  <2> QED
    BY <1>1, <1>2, <2>1 DEF StoreTypes
<1> QED
  BY <1>1, <1>2, <1>8, <1>9, SoundStays DEF ChatSound

LEMMA ServeSendKeepsSound ==
  ASSUME ChatSound, JoinedTypes, NEW c \in sends, ServeSend(c)
  PROVE  ChatSound'
<1>1. /\ chats' = chats /\ loads' = loads /\ shown' = shown /\ draft' = draft /\ messages' = messages
  BY DEF ServeSend, windowVars
<1>2. /\ ShownTypes /\ SendsFrom /\ DueFrom /\ LoadsFrom /\ StoreTypes /\ MessagesOnce
  BY DEF ChatSound
<1>3. /\ c \in SendRecord /\ c.by \in Sides /\ c.text \in Texts /\ c.chat \in Nat
  BY <1>2, SendFields DEF SendsFrom
<1>a. PICK at \in Nat :
        saved' = Append(saved, [by |-> c.by, text |-> c.text, chat |-> c.chat, at |-> at])
  BY ChatAssumption DEF ServeSend, Now, Times
<1>4. PICK m \in Stored : m = [by |-> c.by, text |-> c.text, chat |-> c.chat, at |-> at]
  BY <1>3 DEF Stored
<1>5. PICK id \in Nat : id = Len(saved) + 1
  BY <1>2 DEF StoreTypes
<1>6. /\ saved' = Append(saved, m) /\ m.chat = c.chat /\ m.by = c.by
      /\ outbox' = outbox \cup {id}
      /\ due' = due \cup {<<s, id, "handler">> : s \in Group(c.chat)}
  BY <1>4, <1>5, <1>a DEF ServeSend
<1>7. /\ saved' \in Seq(Stored) /\ DOMAIN saved' = 1 .. id /\ id \in 1 .. id
      /\ DOMAIN saved \subseteq DOMAIN saved' /\ saved'[id] = m
      /\ \A i \in DOMAIN saved : saved'[i] = saved[i]
      /\ \A k : OfChat(k)' = IF k = c.chat THEN OfChat(k) \cup {id} ELSE OfChat(k)
  <2>1. /\ saved' \in Seq(Stored) /\ Len(saved) \in Nat
        /\ DOMAIN saved = 1 .. Len(saved) /\ DOMAIN saved' = 1 .. Len(saved) + 1
        /\ \A i \in 1 .. Len(saved) : saved'[i] = saved[i]
        /\ saved'[Len(saved) + 1] = m
        /\ \A k : OfChat(k)' = IF k = m.chat THEN OfChat(k) \cup {Len(saved) + 1} ELSE OfChat(k)
    BY <1>2, <1>6, Storing
  <2>2. DOMAIN saved \subseteq DOMAIN saved' /\ id \in 1 .. id
    BY <1>5, <2>1
  <2> QED
    BY <1>5, <1>6, <2>1, <2>2
<1>8. \A k : OfChat(k) \subseteq OfChat(k)' /\ \A x \in OfChat(k) : saved'[x] = saved[x]
  BY <1>7 DEF OfChat
<1>9. StoreTypes'
  <2>1. faults' \in Nat
    BY <1>2 DEF ServeSend, StoreTypes
  <2> QED
    BY <1>1, <1>2, <1>6, <1>7, <2>1 DEF StoreTypes
<1>10. LoadsFrom'
  <2>1. \A ms, k : Of(ms, k) => Of(ms, k)'
    BY <1>2, <1>6, OfGrows
  <2> QED
    BY <1>1, <1>2, <2>1 DEF LoadsFrom
<1>11. SendsFrom'
  <2>1. \E d \in SendRecord : /\ sends' = (sends \ {c}) \cup {d} /\ d.chat = c.chat
                              /\ d.by = c.by /\ (d.got = "ok" => d.id = id)
    <3>1. PICK d : d = [c EXCEPT !.got = "ok", !.id = id]
      OBVIOUS
    <3>2. PICK e : e = [c EXCEPT !.got = "error"]
      OBVIOUS
    <3>3. d \in SendRecord /\ d.chat = c.chat /\ d.by = c.by /\ d.id = id
      BY <1>3, <3>1 DEF SendRecord
    <3>4. e \in SendRecord /\ e.chat = c.chat /\ e.by = c.by /\ e.got = "error"
      BY <1>3, <3>2 DEF SendRecord
    <3>5. sends' = (sends \ {c}) \cup {d} \/ sends' = (sends \ {c}) \cup {e}
      BY <1>5, <3>1, <3>2 DEF ServeSend
    <3> QED
      BY <3>3, <3>4, <3>5
  <2>2. id \in OfChat(c.chat)' /\ saved'[id].by = c.by
    BY <1>6, <1>7
  <2> QED
    BY <1>2, <1>8, <2>1, <2>2 DEF SendsFrom
<1>12. DueFrom'
  <2> SUFFICES ASSUME NEW d \in due'
               PROVE  d \in Sides \X Nat \X Kinds /\ (d[2] \in OfChat(shown[d[1]]))'
    BY DEF DueFrom
  <2>1. CASE d \in due
    <3>1. d \in Sides \X Nat \X Kinds /\ d[2] \in OfChat(shown[d[1]])
      BY <1>2, <2>1 DEF DueFrom
    <3>3. PICK k : k = shown[d[1]]
      OBVIOUS
    <3>4. d[2] \in OfChat(k)'
      BY <1>8, <3>1, <3>3
    <3> QED
      BY <1>1, <3>1, <3>3, <3>4
  <2>2. CASE d \notin due
    <3>1. PICK s \in Group(c.chat) : d = <<s, id, "handler">>
      BY <1>6, <2>2
    <3>2. shown[s] = c.chat
      BY <3>1 DEF Group
    <3>3. s \in Sides
      BY <3>1 DEF Group, JoinedTypes
    <3>4. d[1] = s /\ d[2] = id /\ d \in Sides \X Nat \X Kinds
      BY <3>1, <3>3 DEF Kinds
    <3>5. id \in OfChat(c.chat)'
      BY <1>7
    <3> QED
      BY <1>1, <3>2, <3>4, <3>5
  <2> QED
    BY <2>1, <2>2
<1> QED
  BY <1>1, <1>2, <1>9, <1>10, <1>11, <1>12, SoundStays DEF ChatSound

LEMMA RefuseKeepsSound ==
  ASSUME ChatSound, NEW c \in sends, RefuseSend(c)
  PROVE  ChatSound'
<1>1. /\ loads' = loads /\ shown' = shown /\ draft' = draft /\ messages' = messages
      /\ saved' = saved /\ chats' = chats /\ outbox' = outbox /\ due' = due /\ faults' = faults + 1
  BY DEF RefuseSend, windowVars, serverVars
<1>2. /\ ShownTypes /\ SendsFrom /\ DueFrom /\ LoadsFrom /\ StoreTypes /\ MessagesOnce
  BY DEF ChatSound
<1>3. c \in SendRecord
  BY <1>2 DEF SendsFrom
<1>4. PICK e : e = [c EXCEPT !.got = "error"]
  OBVIOUS
<1>5. e \in SendRecord /\ e.got = "error"
  BY <1>3, <1>4 DEF SendRecord
<1>6. sends' = (sends \ {c}) \cup {e}
  BY <1>4 DEF RefuseSend
<1>7. \A k : OfChat(k)' = OfChat(k)
  BY <1>1 DEF OfChat
<1>8. SendsFrom'
  BY <1>1, <1>2, <1>5, <1>6, <1>7 DEF SendsFrom
<1>9. StoreTypes'
  BY <1>1, <1>2 DEF StoreTypes
<1> QED
  BY <1>1, <1>2, <1>8, <1>9, SoundStays DEF ChatSound

LEMMA PublishKeepsSound ==
  ASSUME ChatSound, JoinedTypes, NEW id \in outbox, Publish(id)
  PROVE  ChatSound'
<1>1. /\ loads' = loads /\ shown' = shown /\ draft' = draft /\ messages' = messages
      /\ saved' = saved /\ chats' = chats /\ outbox' \subseteq outbox /\ sends' = sends
      /\ faults' = faults /\ due' = due \cup {<<s, id, "outbox">> : s \in Group(saved[id].chat)}
  BY DEF Publish, windowVars, callVars, boundVars
<1>2. /\ ShownTypes /\ SendsFrom /\ DueFrom /\ LoadsFrom /\ StoreTypes /\ MessagesOnce
  BY DEF ChatSound
<1>3. id \in DOMAIN saved /\ id \in Nat
  BY <1>2 DEF StoreTypes
<1>4. id \in OfChat(saved[id].chat)
  BY <1>3 DEF OfChat
<1>5. \A k : OfChat(k)' = OfChat(k)
  BY <1>1 DEF OfChat
<1>6. ASSUME NEW d \in due' PROVE d \in Sides \X Nat \X Kinds /\ d[2] \in OfChat(shown[d[1]])
  <2>1. CASE d \in due
    BY <1>2, <2>1 DEF DueFrom
  <2>2. CASE d \notin due
    <3>1. PICK s \in Group(saved[id].chat) : d = <<s, id, "outbox">>
      BY <1>1, <2>2
    <3>2. s \in Sides /\ shown[s] = saved[id].chat
      BY <3>1 DEF Group, JoinedTypes
    <3> QED
      BY <1>3, <1>4, <3>1, <3>2 DEF Kinds
  <2> QED
    BY <2>1, <2>2
<1>7. DueFrom'
  BY <1>1, <1>5, <1>6 DEF DueFrom
<1> QED
  BY <1>1, <1>2, <1>7, SoundStays DEF ChatSound

LEMMA JoinedStep == JoinedTypes /\ [ChatNext]_chatVars => JoinedTypes'
<1> SUFFICES ASSUME JoinedTypes, [ChatNext]_chatVars PROVE joined' \subseteq Sides
  BY DEF JoinedTypes
<1>1. CASE \E s \in Sides : Subscribed(s)
  BY <1>1 DEF Subscribed, JoinedTypes
<1>2. CASE CloseChat \/ \E c \in loads : ChatsLoaded(c) \/ ChatCreated(c)
  <2>1. joined' \subseteq joined
    BY <1>2 DEF CloseChat, ChatsLoaded, ChatCreated, Show
  <2> QED
    BY <2>1 DEF JoinedTypes
<1>3. CASE /\ ~\E s \in Sides : Subscribed(s)
           /\ ~(CloseChat \/ \E c \in loads : ChatsLoaded(c) \/ ChatCreated(c))
  <2>1. joined' = joined
    BY <1>3 DEF ChatNext, chatVars, serverVars, OpenChat, Send, Type, CreateChat, LoadMore,
         MoreLoaded, ServeLoad, Acknowledged, SendFailed, ServeSend, RefuseSend, Deliver, Publish
  <2> QED
    BY <2>1 DEF JoinedTypes
<1> QED
  BY <1>1, <1>2, <1>3

LEMMA ChatSoundStep == ChatSound /\ JoinedTypes /\ [ChatNext]_chatVars => (ChatSound /\ JoinedTypes)'
<1> SUFFICES ASSUME ChatSound, JoinedTypes, [ChatNext]_chatVars PROVE ChatSound'
  BY JoinedStep
<1>1. CASE UNCHANGED chatVars
  BY <1>1, SoundStays DEF ChatSound, chatVars, windowVars, callVars, serverVars, boundVars
<1>2. CASE \E s \in Sides : \/ OpenChat(s) \/ Subscribed(s) \/ Send(s)
                            \/ \E t \in Texts : Type(s, t)
  BY <1>2, AskKeepsSound, DraftKeepsSound
<1>3. CASE CreateChat \/ CloseChat \/ LoadMore
  BY <1>3, AskKeepsSound, OpenKeepsSound
<1>4. CASE \E c \in loads : ChatsLoaded(c) \/ ChatCreated(c) \/ MoreLoaded(c) \/ ServeLoad(c)
  BY <1>4, OpenKeepsSound, ServeLoadKeepsSound
<1>5. CASE \E c \in sends : Acknowledged(c) \/ SendFailed(c) \/ ServeSend(c) \/ RefuseSend(c)
  BY <1>5, ArrivalKeepsSound, DraftKeepsSound, ServeSendKeepsSound, RefuseKeepsSound
<1>6. CASE \E d \in due : Deliver(d)
  BY <1>6, ArrivalKeepsSound
<1>7. CASE \E id \in outbox : Publish(id)
  BY <1>7, PublishKeepsSound
<1> QED
  BY <1>1, <1>2, <1>3, <1>4, <1>5, <1>6, <1>7 DEF ChatNext

LEMMA ChatSoundInit == ChatInit => ChatSound /\ JoinedTypes
<1> SUFFICES ASSUME ChatInit PROVE ChatSound
  BY DEF ChatInit, JoinedTypes
<1>1. <<>> \in Seq(Entry) /\ OnceIds(<<>>) /\ <<>> \in Seq(Stored)
  BY DEF OnceIds
<1>2. ShownTypes /\ MessagesOnce
  BY <1>1 DEF ChatInit, ShownTypes, MessagesOnce
<1> QED
  BY <1>1, <1>2 DEF ChatInit, ChatSound, LoadsFrom, SendsFrom, StoreTypes, DueFrom

\* A window shows a message once.
THEOREM MessagesShownOnce == ChatSpec => []ShownOnce
<1>1. ChatSound => ShownOnce
  <2> SUFFICES ASSUME ChatSound, NEW s \in Sides
               PROVE  Len(messages[s]) = Cardinality(ToSet(Ids(messages[s])))
    BY DEF ShownOnce
  <2>1. messages[s] \in Seq(Entry) /\ OnceIds(messages[s])
    BY DEF ChatSound, MessagesOnce
  <2> QED
    BY <2>1, OnceIsShown
<1> QED
  BY <1>1, ChatSoundInit, ChatSoundStep, PTL DEF ChatSpec

-----------------------------------------------------------------------------
(* The chat: a text is stored once                                         *)

LEMMA PlacesShrink ==
  ASSUME OnePlace, sends' \subseteq sends, saved' = saved, typed' = typed,
         \A s \in Sides : draft'[s] \in {draft[s], NoText}
  PROVE  OnePlace'
<1>1. Waiting' \subseteq Waiting
  BY DEF Waiting
<1>2. \A s \in Sides : draft'[s] # NoText => draft'[s] = draft[s]
  OBVIOUS
<1>3. /\ (\A c \in sends : c.got # "error")'
      /\ (\A c \in Waiting : c.text \in typed)'
      /\ (\A c, d \in Waiting : c.text = d.text => c = d)'
      /\ (\A i \in DOMAIN saved : saved[i].text \in typed)'
      /\ (\A i \in DOMAIN saved : \A c \in Waiting : saved[i].text # c.text)'
      /\ (\A i, j \in DOMAIN saved : saved[i].text = saved[j].text => i = j)'
  BY <1>1 DEF OnePlace
<1>4. ASSUME NEW s \in Sides, draft'[s] # NoText
      PROVE  /\ draft'[s] \in typed'
             /\ \A c \in Waiting' : draft'[s] # c.text
             /\ \A i \in DOMAIN saved' : draft'[s] # saved'[i].text
             /\ \A r \in Sides : draft'[r] = draft'[s] => r = s
  <2>1. draft'[s] = draft[s] /\ draft[s] # NoText
    BY <1>2, <1>4
  <2>2. /\ draft[s] \in typed
        /\ \A c \in Waiting : draft[s] # c.text
        /\ \A i \in DOMAIN saved : draft[s] # saved[i].text
        /\ \A r \in Sides : draft[r] = draft[s] => r = s
    BY <2>1 DEF OnePlace
  <2> QED
    BY <1>1, <1>2, <1>4, <2>1, <2>2
<1> QED
  BY <1>3, <1>4 DEF OnePlace

LEMMA TypeKeepsPlaces ==
  ASSUME ChatSound, OnePlace, NEW s \in Sides, NEW t \in Texts, Type(s, t)
  PROVE  OnePlace'
<1>1. /\ t \notin typed /\ typed' = typed \cup {t} /\ draft' = [draft EXCEPT ![s] = t]
      /\ sends' = sends /\ saved' = saved
  BY DEF Type, callVars, serverVars
<1>2. draft \in [Sides -> Texts \cup {NoText}]
  BY DEF ChatSound, ShownTypes
<1>3. draft'[s] = t /\ \A r \in Sides : r # s => draft'[r] = draft[r]
  BY <1>1, <1>2
<1>4. Waiting' = Waiting
  BY <1>1 DEF Waiting
<1>5. /\ \A c \in Waiting : c.text # t
      /\ \A i \in DOMAIN saved : saved[i].text # t
      /\ \A r \in Sides : draft[r] # NoText => draft[r] # t
  BY <1>1 DEF OnePlace
<1>6. t # NoText
  BY ChatAssumption
<1>7. /\ (\A c \in sends : c.got # "error")'
      /\ (\A c \in Waiting : c.text \in typed)'
      /\ (\A c, d \in Waiting : c.text = d.text => c = d)'
      /\ (\A i \in DOMAIN saved : saved[i].text \in typed)'
      /\ (\A i \in DOMAIN saved : \A c \in Waiting : saved[i].text # c.text)'
      /\ (\A i, j \in DOMAIN saved : saved[i].text = saved[j].text => i = j)'
  BY <1>1, <1>4 DEF OnePlace
<1>8. ASSUME NEW q \in Sides, draft'[q] # NoText
      PROVE  /\ draft'[q] \in typed'
             /\ \A c \in Waiting' : draft'[q] # c.text
             /\ \A i \in DOMAIN saved' : draft'[q] # saved'[i].text
             /\ \A r \in Sides : draft'[r] = draft'[q] => r = q
  <2>1. CASE q = s
    <3>1. \A r \in Sides : r # s => draft'[r] # t
      BY <1>3, <1>5, <1>6
    <3> QED
      BY <1>1, <1>3, <1>4, <1>5, <2>1, <3>1
  <2>2. CASE q # s
    <3>1. draft'[q] = draft[q] /\ draft[q] # NoText /\ draft[q] # t
      BY <1>3, <1>5, <1>8, <2>2
    <3>2. /\ draft[q] \in typed
          /\ \A c \in Waiting : draft[q] # c.text
          /\ \A i \in DOMAIN saved : draft[q] # saved[i].text
          /\ \A r \in Sides : draft[r] = draft[q] => r = q
      BY <3>1 DEF OnePlace
    <3>3. \A r \in Sides : draft'[r] = draft[q] => r = q
      BY <1>3, <3>1, <3>2
    <3> QED
      BY <1>1, <1>4, <3>1, <3>2, <3>3
  <2> QED
    BY <2>1, <2>2
<1> QED
  BY <1>7, <1>8 DEF OnePlace

LEMMA SendKeepsPlaces ==
  ASSUME ChatSound, OnePlace, NEW s \in Sides, Send(s)
  PROVE  OnePlace'
<1>1. /\ draft[s] # NoText /\ draft' = [draft EXCEPT ![s] = NoText]
      /\ saved' = saved /\ typed' = typed
  BY DEF Send, serverVars, boundVars
<1>2. PICK c : c = Message(s, draft[s], shown[s]) /\ sends' = sends \cup {c}
  BY DEF Send
<1>3. c.got = "sent" /\ c.text = draft[s]
  BY <1>2 DEF Message
<1>4. draft \in [Sides -> Texts \cup {NoText}]
  BY DEF ChatSound, ShownTypes
<1>5. draft'[s] = NoText /\ \A r \in Sides : r # s => draft'[r] = draft[r]
  BY <1>1, <1>4
<1>6. Waiting' = Waiting \cup {c}
  BY <1>2, <1>3 DEF Waiting
<1>7. /\ draft[s] \in typed
      /\ \A d \in Waiting : draft[s] # d.text
      /\ \A i \in DOMAIN saved : draft[s] # saved[i].text
      /\ \A r \in Sides : draft[r] = draft[s] => r = s
  BY <1>1 DEF OnePlace
<1>8. (\A d \in sends : d.got # "error")'
  BY <1>2, <1>3 DEF OnePlace
<1>9. (\A d \in Waiting : d.text \in typed)'
  BY <1>1, <1>3, <1>6, <1>7 DEF OnePlace
<1>10. (\A d, e \in Waiting : d.text = e.text => d = e)'
  BY <1>3, <1>6, <1>7 DEF OnePlace
<1>11. /\ (\A i \in DOMAIN saved : saved[i].text \in typed)'
       /\ (\A i, j \in DOMAIN saved : saved[i].text = saved[j].text => i = j)'
  BY <1>1 DEF OnePlace
<1>12. (\A i \in DOMAIN saved : \A d \in Waiting : saved[i].text # d.text)'
  BY <1>1, <1>3, <1>6, <1>7 DEF OnePlace
<1>13. ASSUME NEW q \in Sides, draft'[q] # NoText
       PROVE  /\ draft'[q] \in typed'
              /\ \A d \in Waiting' : draft'[q] # d.text
              /\ \A i \in DOMAIN saved' : draft'[q] # saved'[i].text
              /\ \A r \in Sides : draft'[r] = draft'[q] => r = q
  <2>1. q # s /\ draft'[q] = draft[q] /\ draft[q] # NoText
    BY <1>5, <1>13
  <2>2. /\ draft[q] \in typed
        /\ \A d \in Waiting : draft[q] # d.text
        /\ \A i \in DOMAIN saved : draft[q] # saved[i].text
        /\ \A r \in Sides : draft[r] = draft[q] => r = q
    BY <2>1 DEF OnePlace
  <2>3. \A r \in Sides : draft'[r] = draft[q] => r = q
    BY <1>5, <2>1, <2>2
  <2>4. draft[q] # c.text
    BY <1>3, <1>7, <2>1
  <2> QED
    BY <1>1, <1>6, <2>1, <2>2, <2>3, <2>4
<1> QED
  BY <1>8, <1>9, <1>10, <1>11, <1>12, <1>13 DEF OnePlace

LEMMA ServeKeepsPlaces ==
  ASSUME ChatSound, OnePlace, NEW c \in sends, ServeSend(c), faults' = faults
  PROVE  OnePlace'
<1>1. /\ draft' = draft /\ typed' = typed /\ c.got = "sent"
  BY DEF ServeSend, windowVars
<1>2. SendsFrom /\ StoreTypes
  BY DEF ChatSound
<1>3. c \in SendRecord /\ c.by \in Sides /\ c.text \in Texts /\ c.chat \in Nat
  BY <1>2, SendFields DEF SendsFrom
<1>a. PICK at \in Nat :
        saved' = Append(saved, [by |-> c.by, text |-> c.text, chat |-> c.chat, at |-> at])
  BY ChatAssumption DEF ServeSend, Now, Times
<1>4. PICK m \in Stored : m = [by |-> c.by, text |-> c.text, chat |-> c.chat, at |-> at]
  BY <1>3 DEF Stored
<1>5. saved' = Append(saved, m) /\ m.text = c.text
  BY <1>4, <1>a
<1>6. PICK l \in Nat : /\ DOMAIN saved = 1 .. l /\ DOMAIN saved' = 1 .. l + 1
                       /\ \A i \in 1 .. l : saved'[i] = saved[i]
                       /\ saved'[l + 1] = m
  BY <1>2, <1>5, Storing
<1>7. \A i \in DOMAIN saved' : (i \in DOMAIN saved /\ saved'[i] = saved[i]) \/ i = l + 1
  BY <1>6
<1>8. PICK d : d = [c EXCEPT !.got = "ok", !.id = Len(saved) + 1]
  OBVIOUS
<1>9. d.got = "ok"
  BY <1>3, <1>8 DEF SendRecord
<1>10. faults \in Nat
  BY <1>2 DEF StoreTypes
<1>11. faults' # faults + 1
  BY <1>10
<1>12. sends' = (sends \ {c}) \cup {d}
  BY <1>8, <1>11 DEF ServeSend
<1>13. c \in Waiting /\ Waiting' = Waiting \ {c}
  BY <1>1, <1>9, <1>12 DEF Waiting
<1>14. /\ c.text \in typed
       /\ \A e \in Waiting : e # c => e.text # c.text
       /\ \A i \in DOMAIN saved : saved[i].text # c.text
       /\ \A s \in Sides : draft[s] # NoText => draft[s] # c.text
  BY <1>13 DEF OnePlace
<1>15. (\A e \in sends : e.got # "error")'
  BY <1>9, <1>12 DEF OnePlace
<1>16. /\ (\A e \in Waiting : e.text \in typed)'
       /\ (\A e, f \in Waiting : e.text = f.text => e = f)'
  BY <1>1, <1>13 DEF OnePlace
<1>17. \A i \in DOMAIN saved' : saved'[i].text \in typed'
  BY <1>1, <1>5, <1>6, <1>7, <1>14 DEF OnePlace
<1>18. \A i \in DOMAIN saved' : \A e \in Waiting' : saved'[i].text # e.text
  BY <1>5, <1>6, <1>7, <1>13, <1>14 DEF OnePlace
<1>19. \A i, j \in DOMAIN saved' : saved'[i].text = saved'[j].text => i = j
  <2> SUFFICES ASSUME NEW i \in DOMAIN saved', NEW j \in DOMAIN saved',
                      saved'[i].text = saved'[j].text
               PROVE  i = j
    OBVIOUS
  <2>1. CASE i \in DOMAIN saved /\ saved'[i] = saved[i] /\ j \in DOMAIN saved /\ saved'[j] = saved[j]
    BY <2>1 DEF OnePlace
  <2>2. CASE i = l + 1 /\ j \in DOMAIN saved /\ saved'[j] = saved[j]
    BY <1>5, <1>6, <1>14, <2>2
  <2>3. CASE j = l + 1 /\ i \in DOMAIN saved /\ saved'[i] = saved[i]
    BY <1>5, <1>6, <1>14, <2>3
  <2> QED
    BY <1>7, <2>1, <2>2, <2>3
<1>20. ASSUME NEW q \in Sides, draft'[q] # NoText
       PROVE  /\ draft'[q] \in typed'
              /\ \A e \in Waiting' : draft'[q] # e.text
              /\ \A i \in DOMAIN saved' : draft'[q] # saved'[i].text
              /\ \A r \in Sides : draft'[r] = draft'[q] => r = q
  <2>1. draft'[q] = draft[q] /\ draft[q] # NoText /\ draft[q] # c.text
    BY <1>1, <1>14, <1>20
  <2>2. /\ draft[q] \in typed
        /\ \A e \in Waiting : draft[q] # e.text
        /\ \A i \in DOMAIN saved : draft[q] # saved[i].text
        /\ \A r \in Sides : draft[r] = draft[q] => r = q
    BY <2>1 DEF OnePlace
  <2>3. \A i \in DOMAIN saved' : draft[q] # saved'[i].text
    BY <1>5, <1>6, <1>7, <2>1, <2>2
  <2> QED
    BY <1>1, <1>13, <2>1, <2>2, <2>3
<1> QED
  BY <1>15, <1>16, <1>17, <1>18, <1>19, <1>20 DEF OnePlace

LEMMA TextsStep == ChatSound /\ TextsInv /\ [ChatNext]_chatVars => TextsInv'
<1> SUFFICES ASSUME ChatSound, TextsInv, [ChatNext]_chatVars, faults' = 0 PROVE OnePlace'
  BY DEF TextsInv
<1>0. faults \in Nat /\ draft \in [Sides -> Texts \cup {NoText}]
  BY DEF ChatSound, StoreTypes, ShownTypes
<1>1. faults' = faults /\ faults' # faults + 1
  <2>1. faults' = faults \/ faults' = faults + 1
    BY DEF ChatNext, chatVars, boundVars, OpenChat, Send, Type, CreateChat, LoadMore, Subscribed,
       CloseChat, ChatsLoaded, ChatCreated, MoreLoaded, ServeLoad, Acknowledged, SendFailed,
       ServeSend, RefuseSend, Deliver, Publish
  <2> QED
    BY <1>0, <2>1
<1>2. OnePlace
  BY <1>1 DEF TextsInv
<1>3. CASE \E s \in Sides : \E t \in Texts : Type(s, t)
  BY <1>2, <1>3, TypeKeepsPlaces
<1>4. CASE \E s \in Sides : Send(s)
  BY <1>2, <1>4, SendKeepsPlaces
<1>5. CASE \E c \in sends : ServeSend(c)
  BY <1>1, <1>2, <1>5, ServeKeepsPlaces
<1>6. CASE \E c \in sends : SendFailed(c)
  BY <1>2, <1>6 DEF SendFailed, OnePlace
<1>7. CASE \E c \in sends : RefuseSend(c)
  BY <1>1, <1>7 DEF RefuseSend
<1>8. CASE CloseChat
  <2>1. /\ draft' = [draft EXCEPT !["phone"] = NoText] /\ sends' = sends /\ saved' = saved
        /\ typed' = typed
    BY <1>8 DEF CloseChat, callVars, boundVars
  <2>2. \A s \in Sides : draft'[s] \in {draft[s], NoText}
    BY <1>0, <2>1
  <2> QED
    BY <1>2, <2>1, <2>2, PlacesShrink
<1>9. CASE \/ UNCHANGED chatVars
           \/ \E s \in Sides : OpenChat(s) \/ Subscribed(s)
           \/ CreateChat \/ LoadMore
           \/ \E c \in loads : ChatsLoaded(c) \/ ChatCreated(c) \/ MoreLoaded(c) \/ ServeLoad(c)
           \/ \E c \in sends : Acknowledged(c)
           \/ \E d \in due : Deliver(d)
           \/ \E id \in outbox : Publish(id)
  <2>1. sends' \subseteq sends /\ saved' = saved /\ typed' = typed /\ draft' = draft
    BY <1>9 DEF chatVars, windowVars, callVars, serverVars, boundVars, OpenChat, Subscribed,
       CreateChat, LoadMore, ChatsLoaded, ChatCreated, MoreLoaded, ServeLoad, Acknowledged,
       Deliver, Publish
  <2> QED
    BY <1>2, <2>1, PlacesShrink
<1> QED
  BY <1>3, <1>4, <1>5, <1>6, <1>7, <1>8, <1>9 DEF ChatNext

\* When nothing failed, a text is stored once.
THEOREM TextsSentOnce == ChatSpec => []SentOnce
<1>1. ChatInit => TextsInv
  BY DEF ChatInit, TextsInv, OnePlace, Waiting
<1>2. TextsInv => SentOnce
  BY DEF TextsInv, OnePlace, SentOnce
<1> QED
  BY <1>1, <1>2, ChatSoundInit, ChatSoundStep, TextsStep, PTL DEF ChatSpec

-----------------------------------------------------------------------------
(* The chat: the times in a window                                         *)

LEMMA SavedIs ==
  ASSUME ChatSound
  PROVE  /\ Len(saved) \in Nat /\ DOMAIN saved = 1 .. Len(saved)
         /\ \A k : OfChat(k) \in SUBSET (1 .. Len(saved))
         /\ \A x \in DOMAIN saved : saved[x].at \in Nat
<1>1. Len(saved) \in Nat /\ DOMAIN saved = 1 .. Len(saved) /\ \A x \in DOMAIN saved : saved[x] \in Stored
  BY DEF ChatSound, StoreTypes
<1>2. \A x \in DOMAIN saved : saved[x].at \in Nat
  BY <1>1 DEF Stored
<1> QED
  BY <1>1, <1>2 DEF OfChat

\* A step that changes one window, or none.
LEMMA OneTimely ==
  ASSUME WindowsTimely, saved' = saved, NEW s,
         \A r \in Sides : r # s => messages'[r] = messages[r], s \in Sides => Timely(s)'
  PROVE  WindowsTimely'
<1>1. ASSUME NEW r \in Sides, r # s PROVE Timely(r)'
  <2>1. Timely(r) /\ messages'[r] = messages[r]
    BY <1>1 DEF WindowsTimely
  <2> QED
    BY <2>1 DEF Timely, Sorted
<1> QED
  BY <1>1 DEF WindowsTimely

LEMMA LoadedTimely ==
  ASSUME NEW s, NEW k, NEW ms, Sorted(ms), Of(ms, k), messages'[s] = ms, saved' = saved
  PROVE  Timely(s)'
<1>1. \A i \in DOMAIN ms : ms[i].id \in DOMAIN saved /\ ms[i].at = saved[ms[i].id].at
  BY DEF Of, OfChat
<1> QED
  BY <1>1 DEF Timely, Sorted

LEMMA MergedTimely ==
  ASSUME ChatSound, WindowsTimely, NEW s \in Sides, NEW m \in Entry, m.id \in DOMAIN saved,
         saved[m.id].by = s \/ m.at = saved[m.id].at,
         messages' = [messages EXCEPT ![s] = Merge(@, m)], saved' = saved
  PROVE  WindowsTimely'
<1>1. PICK ms \in Seq(Entry) : ms = messages[s] /\ OnceIds(ms)
  BY DEF ChatSound, MessagesOnce
<1>2. PICK t \in Seq(Entry) : t = Merge(ms, m)
  BY <1>1, MergeIs
<1>3. messages'[s] = t /\ \A r \in Sides : r # s => messages'[r] = messages[r]
  BY <1>1, <1>2 DEF ChatSound, MessagesOnce
<1>4. /\ Sorted(ms)
      /\ \A i \in DOMAIN ms : /\ ms[i].id \in DOMAIN saved
                              /\ saved[ms[i].id].by = s \/ ms[i].at = saved[ms[i].id].at
  BY <1>1 DEF WindowsTimely, Timely
<1>5. Sorted(t)
  BY <1>1, <1>2, <1>4, MergeIs
<1>6. \A k \in DOMAIN t : t[k] = m \/ \E i \in DOMAIN ms : t[k] = ms[i]
  <2>1. \A k \in DOMAIN Merge(ms, m) :
          Merge(ms, m)[k] = m \/ \E i \in DOMAIN ms : Merge(ms, m)[k] = ms[i]
    BY <1>1, MergeIs
  <2> QED
    BY <1>2, <2>1
<1>7. \A k \in DOMAIN t : /\ t[k].id \in DOMAIN saved
                          /\ saved[t[k].id].by = s \/ t[k].at = saved[t[k].id].at
  BY <1>4, <1>6
<1>8. Timely(s)'
  BY <1>3, <1>5, <1>7 DEF Timely, Sorted
<1> QED
  BY <1>3, <1>8, OneTimely

LEMMA OpenKeepsTimes ==
  ASSUME ChatSound, WindowsTimely,
         CloseChat \/ \E c \in loads : ChatsLoaded(c) \/ ChatCreated(c) \/ MoreLoaded(c)
  PROVE  WindowsTimely'
<1>1. saved' = saved /\ messages \in [Sides -> Seq(Entry)] /\ LoadsFrom
  BY DEF CloseChat, ChatsLoaded, ChatCreated, MoreLoaded, serverVars, ChatSound, MessagesOnce
<1>2. \E s \in Sides : \E k, ms :
        /\ Sorted(ms) /\ Of(ms, k)
        /\ messages' = messages \/ messages' = [messages EXCEPT ![s] = ms]
  <2>1. CASE CloseChat
    <3>1. messages' = [messages EXCEPT !["phone"] = <<>>] /\ "phone" \in Sides
      BY <2>1 DEF CloseChat, Show, Sides
    <3> QED
      BY <3>1, NoEntries
  <2>2. CASE \E c \in loads : ChatsLoaded(c) \/ ChatCreated(c) \/ MoreLoaded(c)
    <3>1. PICK c \in loads : ChatsLoaded(c) \/ ChatCreated(c) \/ MoreLoaded(c)
      BY <2>2
    <3>2. c.by \in Sides /\ c.seen \in Seq(Entry) /\ OnceIds(c.seen) /\ Sorted(c.seen) /\ Of(c.seen, c.chat)
      BY <1>1, LoadFields
    <3>3. PICK ls : ls = Latest(c.seen, Limit)
      OBVIOUS
    <3>4. Sorted(ls) /\ Of(ls, c.chat)
      <4>1. /\ Sorted(Latest(c.seen, Limit))
            /\ \A i \in DOMAIN Latest(c.seen, Limit) :
                 \E j \in DOMAIN c.seen : Latest(c.seen, Limit)[i] = c.seen[j]
        BY <3>2, LatestEntries, ChatAssumption
      <4> QED
        BY <3>2, <3>3, <4>1 DEF Of
    <3>5. \/ messages' = messages
          \/ messages' = [messages EXCEPT ![c.by] = ls]
          \/ messages' = [messages EXCEPT ![c.by] = c.seen]
          \/ messages' = [messages EXCEPT ![c.by] = <<>>]
      BY <3>1, <3>3 DEF ChatsLoaded, ChatCreated, MoreLoaded, Show
    <3> QED
      BY <3>2, <3>4, <3>5, NoEntries
  <2> QED
    BY <2>1, <2>2
<1>a. PICK s \in Sides : \E k, ms :
        /\ Sorted(ms) /\ Of(ms, k)
        /\ messages' = messages \/ messages' = [messages EXCEPT ![s] = ms]
  BY <1>2
<1>3. PICK k, ms : /\ Sorted(ms) /\ Of(ms, k)
                   /\ messages' = messages \/ messages' = [messages EXCEPT ![s] = ms]
  BY <1>a
<1>4. CASE messages' = messages
  BY <1>1, <1>4 DEF WindowsTimely, Timely, Sorted
<1>5. CASE messages' = [messages EXCEPT ![s] = ms]
  <2>1. messages'[s] = ms /\ \A r \in Sides : r # s => messages'[r] = messages[r]
    BY <1>1, <1>5
  <2>2. Timely(s)'
    BY <1>1, <1>3, <2>1, LoadedTimely
  <2> QED
    BY <1>1, <2>1, <2>2, OneTimely
<1> QED
  BY <1>3, <1>4, <1>5

\* What the server adds to what it has.
LEMMA ServedStore ==
  ASSUME ChatSound, NEW c \in sends, ServeSend(c)
  PROVE  /\ \A i \in DOMAIN saved : i \in DOMAIN saved' /\ saved'[i] = saved[i]
         /\ \A k : OfChat(k)' = IF k = c.chat THEN OfChat(k) \cup {Len(saved) + 1} ELSE OfChat(k)
<1>1. SendsFrom /\ StoreTypes
  BY DEF ChatSound
<1>2. c.by \in Sides /\ c.text \in Texts /\ c.chat \in Nat
  BY <1>1, SendFields
<1>3. PICK at \in Nat :
        saved' = Append(saved, [by |-> c.by, text |-> c.text, chat |-> c.chat, at |-> at])
  BY ChatAssumption DEF ServeSend, Now, Times
<1>4. PICK m \in Stored : m = [by |-> c.by, text |-> c.text, chat |-> c.chat, at |-> at]
  BY <1>2 DEF Stored
<1>5. saved' = Append(saved, m) /\ m.chat = c.chat
  BY <1>3, <1>4
<1>6. /\ Len(saved) \in Nat
      /\ DOMAIN saved = 1 .. Len(saved) /\ DOMAIN saved' = 1 .. Len(saved) + 1
      /\ \A i \in 1 .. Len(saved) : saved'[i] = saved[i]
      /\ \A k : OfChat(k)' = IF k = m.chat THEN OfChat(k) \cup {Len(saved) + 1} ELSE OfChat(k)
  BY <1>1, <1>5, Storing
<1>7. \A i \in 1 .. Len(saved) : i \in 1 .. Len(saved) + 1
  BY <1>6
<1> QED
  BY <1>5, <1>6, <1>7

LEMMA TimelyStep == ChatSound /\ WindowsTimely /\ [ChatNext]_chatVars => WindowsTimely'
<1> SUFFICES ASSUME ChatSound, WindowsTimely, [ChatNext]_chatVars PROVE WindowsTimely'
  OBVIOUS
<1>0. SendsFrom /\ DueFrom /\ StoreTypes
  BY DEF ChatSound
<1>1. CASE CloseChat \/ \E c \in loads : ChatsLoaded(c) \/ ChatCreated(c) \/ MoreLoaded(c)
  BY <1>1, OpenKeepsTimes
<1>2. CASE \E c \in sends : Acknowledged(c)
  <2>1. PICK c \in sends : Acknowledged(c)
    BY <1>2
  <2>2. PICK at \in Times :
          messages' = [messages EXCEPT ![c.by] = Merge(@, [id |-> c.id, at |-> at])]
    BY <2>1 DEF Acknowledged
  <2>3. c.by \in Sides /\ c.id \in Nat /\ c.id \in DOMAIN saved /\ saved[c.id].by = c.by
    BY <1>0, <2>1, SendFields DEF Acknowledged, OfChat
  <2>4. PICK m \in Entry : m = [id |-> c.id, at |-> at]
    BY <2>3, EchoIs
  <2>5. saved' = saved
    BY <2>1 DEF Acknowledged, serverVars
  <2>6. messages' = [messages EXCEPT ![c.by] = Merge(@, m)] /\ m.id = c.id
    BY <2>2, <2>4
  <2> QED
    BY <2>3, <2>5, <2>6, MergedTimely
<1>3. CASE \E d \in due : Deliver(d)
  <2>1. PICK d \in due : Deliver(d)
    BY <1>3
  <2>2. d[1] \in Sides /\ d[2] \in DOMAIN saved
    BY <1>0 DEF DueFrom, OfChat
  <2>3. PICK m \in Entry : m = Copy(d[2]) /\ m.id = d[2] /\ m.at = saved[d[2]].at
    BY <1>0, <2>2, CopyIs
  <2>4. messages' = [messages EXCEPT ![d[1]] = Merge(@, m)] /\ saved' = saved
    BY <2>1, <2>3 DEF Deliver
  <2> QED
    BY <2>2, <2>3, <2>4, MergedTimely
<1>4. CASE \E c \in sends : ServeSend(c)
  <2>1. PICK c \in sends : ServeSend(c)
    BY <1>4
  <2>2. messages' = messages /\ \A i \in DOMAIN saved : i \in DOMAIN saved' /\ saved'[i] = saved[i]
    BY <2>1, ServedStore DEF ServeSend, windowVars
  <2> QED
    BY <2>2 DEF WindowsTimely, Timely, Sorted
<1>5. CASE \/ UNCHANGED chatVars
           \/ \E s \in Sides : \/ OpenChat(s) \/ Subscribed(s) \/ Send(s)
                               \/ \E t \in Texts : Type(s, t)
           \/ CreateChat \/ LoadMore
           \/ \E c \in loads : ServeLoad(c)
           \/ \E c \in sends : SendFailed(c) \/ RefuseSend(c)
           \/ \E id \in outbox : Publish(id)
  <2>1. saved' = saved /\ messages' = messages
    BY <1>5 DEF chatVars, windowVars, callVars, serverVars, boundVars, OpenChat, Subscribed, Send,
       Type, CreateChat, LoadMore, ServeLoad, SendFailed, RefuseSend, Publish
  <2> QED
    BY <2>1 DEF WindowsTimely, Timely, Sorted
<1> QED
  BY <1>1, <1>2, <1>3, <1>4, <1>5 DEF ChatNext

-----------------------------------------------------------------------------
(* The chat: a window is in step with its chat                             *)

LEMMA StepStays ==
  ASSUME NEW s, InStep(s), saved' = saved, shown'[s] = shown[s], messages'[s] = messages[s],
         Coming(s) \subseteq Coming(s)'
  PROVE  InStep(s)'
<1>1. PICK k, ms, cs, ds : k = shown[s] /\ ms = messages[s] /\ cs = Coming(s) /\ ds = Coming(s)'
  OBVIOUS
<1>2. OfChat(k)' = OfChat(k) /\ Silent(s, k)' = Silent(s, k) /\ \A x : NoRoom(ms, x)' = NoRoom(ms, x)
  BY DEF OfChat, Silent, NoRoom
<1>3. /\ \A i \in DOMAIN ms : ms[i].id \in OfChat(k)
      /\ \A x \in OfChat(k) :
           Has(ms, x) \/ x \in cs \/ (Len(ms) >= Limit /\ (Silent(s, k) => NoRoom(ms, x)))
  BY <1>1 DEF InStep, Placed
<1>4. \A x \in OfChat(k) :
        Has(ms, x) \/ x \in ds \/ (Len(ms) >= Limit /\ (Silent(s, k)' => NoRoom(ms, x)'))
  BY <1>1, <1>2, <1>3
<1>5. \A x : Placed(s, k, ms, x)' <=>
        Has(ms, x) \/ x \in ds \/ (Len(ms) >= Limit /\ (Silent(s, k)' => NoRoom(ms, x)'))
  BY <1>1 DEF Placed, Has
<1> QED
  BY <1>1, <1>2, <1>3, <1>4, <1>5 DEF InStep

LEMMA OtherStays ==
  ASSUME WindowsInv, saved' = saved, NEW s, crossed \ {s} \subseteq crossed',
         \A r \in Sides : r # s => /\ shown'[r] = shown[r] /\ messages'[r] = messages[r]
                                   /\ Coming(r) \subseteq Coming(r)',
         s \in Sides /\ s \notin crossed' /\ shown'[s] # 0 => InStep(s)'
  PROVE  WindowsInv'
<1> SUFFICES ASSUME NEW r \in Sides, r \notin crossed', shown'[r] # 0 PROVE InStep(r)'
  BY DEF WindowsInv
<1>1. CASE r # s
  <2>1. r \notin crossed /\ shown[r] # 0
    BY <1>1
  <2>2. InStep(r)
    BY <2>1 DEF WindowsInv
  <2> QED
    BY <1>1, <2>2, StepStays
<1> QED
  BY <1>1

\* What takes the place of a window lacks, when its side is not left behind.
LEMMA NotLeftBehind ==
  ASSUME ChatSound, NEW c \in loads, c.by \notin LeftBehind(c), NEW x \in OfChat(c.chat)
  PROVE  Has(c.seen, x) \/ x \in Coming(c.by) \/ NoRoom(c.seen, x)
<1>1. c.seen \in Seq(Entry)
  BY LoadFields DEF ChatSound
<1>2. ~Overtaken(c)
  BY DEF LeftBehind
<1>3. \/ x \in ToSet(Ids(c.seen)) \/ x \in Coming(c.by)
      \/ ~(Len(c.seen) < Limit) /\ \A m \in ToSet(c.seen) : ~(saved[x].at > m.at)
  BY <1>2 DEF Overtaken
<1>4. x \in ToSet(Ids(c.seen)) => Has(c.seen, x)
  BY <1>1, EntriesAre DEF Has
<1>5. /\ Len(c.seen) \in Nat /\ Limit \in Nat /\ saved[x].at \in Nat
      /\ \A i \in DOMAIN c.seen : c.seen[i].at \in Nat /\ c.seen[i] \in ToSet(c.seen)
  BY <1>1, EntriesAre, SavedIs, ChatAssumption DEF ToSet, OfChat
<1> QED
  BY <1>3, <1>4, <1>5 DEF NoRoom

LEMMA LeftBehindHas ==
  ASSUME NEW c PROVE crossed \ {c.by} \subseteq LeftBehind(c)
BY DEF LeftBehind

\* A window that a load fills.
LEMMA FilledInStep ==
  ASSUME NEW s, NEW k, NEW ms, Of(ms, k), saved' = saved, shown'[s] = k, messages'[s] = ms,
         \A x \in OfChat(k) : Has(ms, x) \/ x \in Coming(s)' \/ NoRoom(ms, x)
  PROVE  InStep(s)'
<1>1. PICK ds : ds = Coming(s)'
  OBVIOUS
<1>2. OfChat(k)' = OfChat(k) /\ \A x : NoRoom(ms, x)' = NoRoom(ms, x)
  BY DEF OfChat, NoRoom
<1>3. \A x \in OfChat(k) : Placed(s, k, ms, x)'
  BY <1>1, <1>2 DEF Placed, Has, NoRoom
<1> QED
  BY <1>2, <1>3 DEF InStep, Of

\* The desk keeps the end of what it loads.
LEMMA EndOfLoaded ==
  ASSUME ChatSound, NEW ms \in Seq(Entry), OnceIds(ms), Sorted(ms), NEW k, Of(ms, k)
  PROVE  /\ Latest(ms, Limit) \in Seq(Entry) /\ Of(Latest(ms, Limit), k)
         /\ \A x : Has(ms, x) => Has(Latest(ms, Limit), x) \/ NoRoom(Latest(ms, Limit), x)
         /\ \A x : NoRoom(ms, x) => NoRoom(Latest(ms, Limit), x)
<1>1. PICK n \in Nat : n = Limit
  BY ChatAssumption
<1>2. PICK t \in Seq(Entry) : t = Latest(ms, n)
  BY LatestEntries
<1>3. \A k1 \in DOMAIN t : \E i \in DOMAIN ms : t[k1] = ms[i]
  <2>1. \A k1 \in DOMAIN Latest(ms, n) : \E i \in DOMAIN ms : Latest(ms, n)[k1] = ms[i]
    BY LatestEntries
  <2> QED
    BY <1>2, <2>1
<1>4. Len(t) = (IF Len(ms) <= n THEN Len(ms) ELSE n) /\ Len(ms) \in Nat
  BY <1>2, LatestEntries, EntriesAre
<1>5. \A i \in DOMAIN ms : \/ \E k1 \in DOMAIN t : t[k1] = ms[i]
                           \/ Len(t) = n /\ \A k1 \in DOMAIN t : ms[i].at <= t[k1].at
  <2>1. \A i \in DOMAIN ms :
          \/ \E k1 \in DOMAIN Latest(ms, n) : Latest(ms, n)[k1] = ms[i]
          \/ Len(Latest(ms, n)) = n
             /\ (Sorted(ms) => \A k1 \in DOMAIN Latest(ms, n) : ms[i].at <= Latest(ms, n)[k1].at)
    BY LatestEntries
  <2> QED
    BY <1>2, <2>1
<1>6. \A i \in DOMAIN ms : ms[i].id \in OfChat(k) /\ ms[i].at = saved[ms[i].id].at
  BY DEF Of
<1>7. Of(t, k)
  BY <1>3, <1>6 DEF Of
<1>8. ASSUME NEW x, Has(ms, x) PROVE Has(t, x) \/ NoRoom(t, x)
  <2>1. PICK i \in DOMAIN ms : ms[i].id = x
    BY <1>8 DEF Has
  <2>2. CASE \E k1 \in DOMAIN t : t[k1] = ms[i]
    BY <2>1, <2>2 DEF Has
  <2>3. CASE Len(t) = n /\ \A k1 \in DOMAIN t : ms[i].at <= t[k1].at
    BY <1>1, <1>6, <2>1, <2>3 DEF NoRoom
  <2> QED
    BY <1>5, <2>2, <2>3
<1>9. ASSUME NEW x, NoRoom(ms, x) PROVE NoRoom(t, x)
  <2>1. Len(ms) >= n /\ \A i \in DOMAIN ms : saved[x].at <= ms[i].at
    BY <1>1, <1>9 DEF NoRoom
  <2>2. Len(t) >= n
    BY <1>4, <2>1
  <2>3. \A k1 \in DOMAIN t : saved[x].at <= t[k1].at
    BY <1>3, <2>1
  <2> QED
    BY <1>1, <2>2, <2>3 DEF NoRoom
<1> QED
  BY <1>1, <1>2, <1>7, <1>8, <1>9

LEMMA ShowComing ==
  ASSUME DueFrom, NEW s \in Sides, NEW k, NEW ms, Show(s, k, ms), sends' = sends
  PROVE  /\ \A x \in OfChat(k) : x \in Coming(s) => x \in Coming(s)'
         /\ \A r \in Sides : r # s => Coming(r) \subseteq Coming(r)'
<1>1. ASSUME NEW r \in Sides, r # s \/ shown[s] = k PROVE Coming(r) \subseteq Coming(r)'
  <2>1. {e \in due : e[1] = r} \subseteq {e \in due' : e[1] = r}
    <3>1. CASE shown[s] = k
      BY <3>1 DEF Show
    <3>2. CASE shown[s] # k
      BY <1>1, <3>2 DEF Show
    <3> QED
      BY <3>1, <3>2
  <2> QED
    BY <2>1 DEF Coming
<1>2. ASSUME shown[s] # k, NEW x \in OfChat(k), x \in Coming(s) PROVE x \in Coming(s)'
  <2>1. \A d \in due : d[1] = s => d[2] # x
    BY <1>2 DEF DueFrom, OfChat
  <2>2. x \in {c.id : c \in {e \in sends : e.by = s /\ e.got = "ok"}}
    BY <1>2, <2>1 DEF Coming
  <2> QED
    BY <2>2 DEF Coming
<1> QED
  BY <1>1, <1>2

LEMMA ShowKeepsWindows ==
  ASSUME ChatSound, WindowsInv, NEW s \in Sides, NEW k \in Nat, NEW ms, Of(ms, k),
         Show(s, k, ms), saved' = saved, sends' = sends, crossed \ {s} \subseteq crossed',
         s \notin crossed' /\ k # 0 =>
           \A x \in OfChat(k) : Has(ms, x) \/ x \in Coming(s) \/ NoRoom(ms, x)
  PROVE  WindowsInv'
<1>1. shown \in [Sides -> Nat] /\ messages \in [Sides -> Seq(Entry)] /\ DueFrom
  BY DEF ChatSound, ShownTypes, MessagesOnce
<1>2. shown' = [shown EXCEPT ![s] = k] /\ messages' = [messages EXCEPT ![s] = ms]
  BY DEF Show
<1>3. /\ shown'[s] = k /\ messages'[s] = ms
      /\ \A r \in Sides : r # s => shown'[r] = shown[r] /\ messages'[r] = messages[r]
  BY <1>1, <1>2
<1>4. \A r \in Sides : r # s => Coming(r) \subseteq Coming(r)'
  BY <1>1, ShowComing
<1>5. ASSUME s \notin crossed', shown'[s] # 0 PROVE InStep(s)'
  <2>1. \A x \in OfChat(k) : Has(ms, x) \/ x \in Coming(s) \/ NoRoom(ms, x)
    BY <1>3, <1>5
  <2>2. \A x \in OfChat(k) : x \in Coming(s) => x \in Coming(s)'
    BY <1>1, ShowComing
  <2> QED
    BY <1>3, <2>1, <2>2, FilledInStep
<1> QED
  BY <1>3, <1>4, <1>5, OtherStays

LEMMA OpenKeepsWindows ==
  ASSUME ChatSound, WindowsInv,
         CloseChat \/ \E c \in loads : ChatsLoaded(c) \/ ChatCreated(c) \/ MoreLoaded(c)
  PROVE  WindowsInv'
<1>0. LoadsFrom /\ "phone" \in Sides
  BY DEF ChatSound, Sides
<1>1. CASE CloseChat
  <2>1. /\ Show("phone", 0, <<>>) /\ saved' = saved /\ sends' = sends /\ crossed' = crossed
    BY <1>1 DEF CloseChat, callVars
  <2> QED
    BY <1>0, <2>1, NoEntries, ShowKeepsWindows
<1>2. CASE \E c \in loads : ChatsLoaded(c)
  <2>1. PICK c \in loads : ChatsLoaded(c)
    BY <1>2
  <2>2. /\ c.by \in Sides /\ c.chat \in Nat /\ c.seen \in Seq(Entry) /\ OnceIds(c.seen)
        /\ Sorted(c.seen) /\ Of(c.seen, c.chat)
    BY <1>0, LoadFields
  <2>3. saved' = saved /\ sends' = sends
    BY <2>1 DEF ChatsLoaded
  <2>4. CASE c.chat = 0 /\ c.by = "phone"
    <3>1. /\ shown' = shown /\ messages' = messages /\ due' = due /\ crossed' = crossed
      BY <2>1, <2>4 DEF ChatsLoaded
    <3>2. \A r : Coming(r)' = Coming(r)
      BY <2>3, <3>1 DEF Coming
    <3>3. \A r \in Sides : r \notin crossed' /\ shown'[r] # 0 => InStep(r)'
      <4> SUFFICES ASSUME NEW r \in Sides, r \notin crossed', shown'[r] # 0 PROVE InStep(r)'
        OBVIOUS
      <4>1. InStep(r)
        BY <3>1 DEF WindowsInv
      <4> QED
        BY <2>3, <3>1, <3>2, <4>1, StepStays
    <3> QED
      BY <3>3 DEF WindowsInv
  <2>5. CASE ~(c.chat = 0 /\ c.by = "phone")
    <3>1. PICK ms : ms = IF c.by = "desk" THEN Latest(c.seen, Limit) ELSE c.seen
      OBVIOUS
    <3>2. Show(c.by, c.chat, ms) /\ crossed' = LeftBehind(c)
      BY <2>1, <2>5, <3>1 DEF ChatsLoaded
    <3>3. PICK t : t = Latest(c.seen, Limit)
      OBVIOUS
    <3>4. Of(t, c.chat) /\ \A x : Has(c.seen, x) \/ NoRoom(c.seen, x) => Has(t, x) \/ NoRoom(t, x)
      BY <2>2, <3>3, EndOfLoaded
    <3>5. Of(ms, c.chat) /\ \A x : Has(c.seen, x) \/ NoRoom(c.seen, x) => Has(ms, x) \/ NoRoom(ms, x)
      BY <2>2, <3>1, <3>3, <3>4
    <3>6. c.by \notin crossed' /\ c.chat # 0 =>
            \A x \in OfChat(c.chat) : Has(ms, x) \/ x \in Coming(c.by) \/ NoRoom(ms, x)
      BY <3>2, <3>5, NotLeftBehind
    <3>7. crossed \ {c.by} \subseteq crossed'
      BY <3>2, LeftBehindHas
    <3> QED
      BY <2>2, <2>3, <3>2, <3>5, <3>6, <3>7, ShowKeepsWindows
  <2> QED
    BY <2>4, <2>5
<1>3. CASE \E c \in loads : ChatCreated(c)
  <2>1. PICK c \in loads : ChatCreated(c)
    BY <1>3
  <2>2. c.by \in Sides /\ c.chat \in Nat
    BY <1>0, LoadFields
  <2>3. saved' = saved /\ sends' = sends /\ Show(c.by, c.chat, <<>>) /\ crossed' = LeftBehind(c)
    BY <2>1 DEF ChatCreated
  <2>4. c.seen = <<>>
    BY <1>0, <2>1 DEF ChatCreated, LoadsFrom
  <2>5. c.by \notin crossed' /\ c.chat # 0 =>
          \A x \in OfChat(c.chat) : Has(<<>>, x) \/ x \in Coming(c.by) \/ NoRoom(<<>>, x)
    BY <2>3, <2>4, NotLeftBehind
  <2>6. crossed \ {c.by} \subseteq crossed' /\ Of(<<>>, c.chat)
    BY <2>3, LeftBehindHas, NoEntries
  <2> QED
    BY <2>2, <2>3, <2>5, <2>6, ShowKeepsWindows
<1>4. CASE \E c \in loads : MoreLoaded(c)
  <2>1. PICK c \in loads : MoreLoaded(c)
    BY <1>4
  <2>2. c.by \in Sides /\ c.chat \in Nat /\ Of(c.seen, c.chat)
    BY <1>0, LoadFields
  <2>3. /\ saved' = saved /\ sends' = sends /\ shown' = shown /\ due' = due
        /\ messages' = [messages EXCEPT ![c.by] = c.seen]
    BY <2>1 DEF MoreLoaded, serverVars
  <2>4. \A r : Coming(r)' = Coming(r)
    BY <2>3 DEF Coming
  <2>5. messages \in [Sides -> Seq(Entry)]
    BY DEF ChatSound, MessagesOnce
  <2>6. /\ messages'[c.by] = c.seen
        /\ \A r \in Sides : r # c.by => messages'[r] = messages[r]
    BY <2>2, <2>3, <2>5
  <2>7. crossed \ {c.by} \subseteq crossed'
    BY <2>1, LeftBehindHas DEF MoreLoaded
  <2>8. ASSUME c.by \notin crossed', shown'[c.by] # 0 PROVE InStep(c.by)'
    <3>1. shown[c.by] = c.chat /\ c.by \notin LeftBehind(c)
      BY <2>1, <2>3, <2>8 DEF MoreLoaded
    <3>2. \A x \in OfChat(c.chat) : Has(c.seen, x) \/ x \in Coming(c.by)' \/ NoRoom(c.seen, x)
      BY <2>4, <3>1, NotLeftBehind
    <3> QED
      BY <2>2, <2>3, <2>6, <3>1, <3>2, FilledInStep
  <2> QED
    BY <2>3, <2>4, <2>6, <2>7, <2>8, OtherStays
<1> QED
  BY <1>1, <1>2, <1>3, <1>4

\* A message that comes to a window that is in step with its chat.
LEMMA ArrivedInStep ==
  ASSUME ChatSound, WindowsTimely, NEW s \in Sides, InStep(s), NEW m \in Entry,
         m.id \in OfChat(shown[s]), saved[m.id].by = s \/ m.at = saved[m.id].at,
         saved' = saved, shown' = shown, messages' = [messages EXCEPT ![s] = Merge(@, m)],
         Coming(s) \subseteq Coming(s)' \cup {m.id}
  PROVE  InStep(s)'
<1>1. PICK k, cs, ds : k = shown[s] /\ cs = Coming(s) /\ ds = Coming(s)' /\ cs \subseteq ds \cup {m.id}
  OBVIOUS
<1>2. PICK ms \in Seq(Entry) : ms = messages[s] /\ OnceIds(ms) /\ messages'[s] = Merge(ms, m)
  BY DEF ChatSound, MessagesOnce
<1>3. PICK t \in Seq(Entry) : t = Merge(ms, m)
  BY <1>2, MergeIs
<1>4. Sorted(ms) /\ \A i \in DOMAIN ms : saved[ms[i].id].by = s \/ ms[i].at = saved[ms[i].id].at
  BY <1>2 DEF WindowsTimely, Timely
<1>5. \A j \in DOMAIN t : t[j] = m \/ \E i \in DOMAIN ms : t[j] = ms[i]
  <2>1. \A j \in DOMAIN Merge(ms, m) :
          Merge(ms, m)[j] = m \/ \E i \in DOMAIN ms : Merge(ms, m)[j] = ms[i]
    BY <1>2, MergeIs
  <2> QED
    BY <1>3, <2>1
<1>6. Len(ms) >= Limit => Len(t) >= Limit
  BY <1>2, <1>3, MergeIs
<1>7. ASSUME NEW e \in Entry, e = m \/ (e.id # m.id /\ \E i \in DOMAIN ms : ms[i] = e)
      PROVE  \/ \E j \in DOMAIN t : t[j] = e
             \/ Len(t) >= Limit /\ \A j \in DOMAIN t : e.at <= t[j].at
  <2>1. \/ \E j \in DOMAIN Merge(ms, m) : Merge(ms, m)[j] = e
        \/ Len(Merge(ms, m)) >= Limit
           /\ (Sorted(ms) => \A j \in DOMAIN Merge(ms, m) : e.at <= Merge(ms, m)[j].at)
    BY <1>2, <1>7, MergeIs
  <2> QED
    BY <1>3, <1>4, <2>1
<1>8. ASSUME Len(ms) >= Limit, \A i \in DOMAIN ms : ms[i].id # m.id, NEW j \in DOMAIN t
      PROVE  \E i \in DOMAIN ms : ms[i].at <= t[j].at
  <2>1. \A l \in DOMAIN Merge(ms, m) : \E i \in DOMAIN ms : ms[i].at <= Merge(ms, m)[l].at
    BY <1>2, <1>4, <1>8, MergeIs
  <2> QED
    BY <1>3, <1>8, <2>1
<1>9. /\ \A i \in DOMAIN ms : ms[i].id \in OfChat(k)
      /\ \A x \in OfChat(k) :
           Has(ms, x) \/ x \in cs \/ (Len(ms) >= Limit /\ (Silent(s, k) => NoRoom(ms, x)))
  BY <1>1, <1>2 DEF InStep, Placed
<1>10. Silent(s, k) => m.at = saved[m.id].at /\ \A i \in DOMAIN ms : ms[i].at = saved[ms[i].id].at
  BY <1>1, <1>4, <1>9 DEF Silent
<1>11. /\ m.at \in Nat /\ \A i \in DOMAIN ms : ms[i] \in Entry /\ ms[i].at \in Nat
       /\ \A j \in DOMAIN t : t[j].at \in Nat
       /\ \A x \in OfChat(k) : saved[x].at \in Nat
  <2>1. \A x \in OfChat(k) : saved[x].at \in Nat
    BY SavedIs DEF OfChat
  <2>2. m.at \in Nat
    BY DEF Entry
  <2> QED
    BY <2>1, <2>2, EntriesAre
<1>12. ASSUME NEW x \in OfChat(k)
       PROVE  Has(t, x) \/ x \in ds \/ (Len(t) >= Limit /\ (Silent(s, k) => NoRoom(t, x)))
  <2>1. CASE x = m.id \/ Has(ms, x)
    <3>1. PICK e \in Entry : /\ e.id = x /\ (Silent(s, k) => e.at = saved[x].at)
                             /\ e = m \/ (e.id # m.id /\ \E i \in DOMAIN ms : ms[i] = e)
      <4>1. CASE x = m.id
        BY <1>10, <4>1
      <4>2. CASE x # m.id
        <5>1. PICK i \in DOMAIN ms : ms[i].id = x
          BY <2>1, <4>2 DEF Has
        <5> QED
          BY <1>10, <1>11, <4>2, <5>1
      <4> QED
        BY <4>1, <4>2
    <3>2. CASE \E j \in DOMAIN t : t[j] = e
      BY <3>1, <3>2 DEF Has
    <3>3. CASE Len(t) >= Limit /\ \A j \in DOMAIN t : e.at <= t[j].at
      BY <3>1, <3>3 DEF NoRoom
    <3> QED
      BY <1>7, <3>1, <3>2, <3>3
  <2>2. CASE x # m.id /\ x \in cs
    BY <1>1, <2>2
  <2>3. CASE Len(ms) >= Limit /\ (Silent(s, k) => NoRoom(ms, x))
    <3>1. ASSUME Silent(s, k), NEW j \in DOMAIN t PROVE saved[x].at <= t[j].at
      <4>1. \A i \in DOMAIN ms : saved[x].at <= ms[i].at
        BY <2>3, <3>1 DEF NoRoom
      <4>2. CASE t[j] # m
        BY <1>5, <4>1, <4>2
      <4>3. CASE t[j] = m /\ \E i \in DOMAIN ms : ms[i].id = m.id
        BY <1>10, <3>1, <4>1, <4>3
      <4>4. CASE \A i \in DOMAIN ms : ms[i].id # m.id
        <5>1. PICK i \in DOMAIN ms : ms[i].at <= t[j].at
          BY <1>8, <2>3, <4>4
        <5>2. saved[x].at <= ms[i].at
          BY <4>1
        <5>3. saved[x].at \in Nat /\ ms[i].at \in Nat /\ t[j].at \in Nat
          BY <1>11
        <5> QED
          BY <5>1, <5>2, <5>3
      <4> QED
        BY <4>2, <4>3, <4>4
    <3> QED
      BY <1>6, <2>3, <3>1 DEF NoRoom
  <2> QED
    BY <1>9, <2>1, <2>2, <2>3
<1>13. \A j \in DOMAIN t : t[j].id \in OfChat(k)
  BY <1>1, <1>5, <1>9
<1>14. OfChat(k)' = OfChat(k) /\ Silent(s, k)' = Silent(s, k) /\ \A x : NoRoom(t, x)' = NoRoom(t, x)
  BY DEF OfChat, Silent, NoRoom
<1>15. \A x : Placed(s, k, t, x)' <=>
         Has(t, x) \/ x \in ds \/ (Len(t) >= Limit /\ (Silent(s, k)' => NoRoom(t, x)'))
  BY <1>1 DEF Placed, Has
<1> QED
  BY <1>1, <1>2, <1>3, <1>12, <1>13, <1>14, <1>15 DEF InStep

LEMMA DeliverKeepsWindows ==
  ASSUME ChatSound, WindowsTimely, WindowsInv, NEW d \in due, Deliver(d)
  PROVE  WindowsInv'
<1>1. /\ shown' = shown /\ sends' = sends /\ saved' = saved /\ crossed' = crossed
      /\ due' = due \/ due' = due \ {d}
      /\ messages' = [messages EXCEPT ![d[1]] = Merge(@, Copy(d[2]))]
  BY DEF Deliver, Received, callVars
<1>2. DueFrom /\ StoreTypes /\ messages \in [Sides -> Seq(Entry)]
  BY DEF ChatSound, MessagesOnce
<1>3. d[1] \in Sides /\ d[2] \in OfChat(shown[d[1]]) /\ d[2] \in DOMAIN saved
  BY <1>2 DEF DueFrom, OfChat
<1>4. PICK s \in Sides, x \in DOMAIN saved : s = d[1] /\ x = d[2] /\ x \in OfChat(shown[s])
  BY <1>3
<1>5. PICK m \in Entry : m = Copy(x) /\ m.id = x /\ m.at = saved[x].at
  BY <1>2, CopyIs
<1>6. messages' = [messages EXCEPT ![s] = Merge(@, m)]
  BY <1>1, <1>4, <1>5
<1>7. \A r : r # s => Coming(r) \subseteq Coming(r)'
  BY <1>1, <1>4 DEF Coming
<1>8. Coming(s) \subseteq Coming(s)' \cup {m.id}
  BY <1>1, <1>4, <1>5 DEF Coming
<1>9. \A r \in Sides : r # s => messages'[r] = messages[r]
  BY <1>2, <1>6
<1>10. ASSUME s \notin crossed', shown'[s] # 0 PROVE InStep(s)'
  <2>1. InStep(s)
    BY <1>1, <1>10 DEF WindowsInv
  <2> QED
    BY <1>1, <1>4, <1>5, <1>6, <1>8, <2>1, ArrivedInStep
<1> QED
  BY <1>1, <1>7, <1>9, <1>10, OtherStays

LEMMA AcknowledgedKeepsWindows ==
  ASSUME ChatSound, WindowsTimely, WindowsInv, NEW c \in sends, Acknowledged(c)
  PROVE  WindowsInv'
<1>1. /\ shown' = shown /\ sends' = sends \ {c} /\ saved' = saved /\ crossed \subseteq crossed'
      /\ due' = due /\ c.got = "ok"
  BY DEF Acknowledged, serverVars
<1>2. SendsFrom /\ messages \in [Sides -> Seq(Entry)]
  BY DEF ChatSound, MessagesOnce
<1>3. /\ c.by \in Sides /\ c.chat \in Nat /\ c.id \in Nat /\ c.id \in OfChat(c.chat)
      /\ saved[c.id].by = c.by
  BY <1>1, <1>2, SendFields
<1>4. PICK s \in Sides, x \in Nat : s = c.by /\ x = c.id
  BY <1>3
<1>5. PICK at \in Times : messages' = [messages EXCEPT ![s] = Merge(@, [id |-> x, at |-> at])]
  BY <1>4 DEF Acknowledged
<1>a. PICK m \in Entry : m = [id |-> x, at |-> at] /\ m.id = x
  BY EchoIs
<1>6. messages' = [messages EXCEPT ![s] = Merge(@, m)]
  BY <1>5, <1>a
<1>7. \A r : r # s => Coming(r) \subseteq Coming(r)'
  BY <1>1, <1>4 DEF Coming
<1>8. Coming(s) \subseteq Coming(s)' \cup {m.id}
  BY <1>1, <1>4, <1>a DEF Coming
<1>9. \A r \in Sides : r # s => messages'[r] = messages[r]
  BY <1>2, <1>6
<1>10. ASSUME s \notin crossed', shown'[s] # 0 PROVE InStep(s)'
  <2>1. s \notin crossed /\ shown[s] = c.chat
    BY <1>1, <1>4, <1>10 DEF Acknowledged
  <2>2. InStep(s)
    BY <1>1, <1>10, <2>1 DEF WindowsInv
  <2>3. m.id \in OfChat(shown[s]) /\ saved[m.id].by = s
    BY <1>3, <1>4, <1>a, <2>1
  <2> QED
    BY <1>1, <1>6, <1>8, <2>2, <2>3, ArrivedInStep
<1>11. crossed \ {s} \subseteq crossed'
  BY <1>1
<1> QED
  BY <1>1, <1>7, <1>9, <1>10, <1>11, OtherStays

\* What is stored is to come to those that show its chat, or they are crossed.
LEMMA StoredComes ==
  ASSUME ChatSound, NEW c \in sends, ServeSend(c), NEW s \in Sides, s \notin crossed',
         shown[s] = c.chat
  PROVE  Len(saved) + 1 \in Coming(s)'
<1>1. PICK id : id = Len(saved) + 1
  OBVIOUS
<1>2. due' = due \cup {<<r, id, "handler">> : r \in Group(c.chat)}
  BY <1>1 DEF ServeSend
<1>3. CASE s \in joined
  <2>1. s \in Group(c.chat)
    BY <1>3 DEF Group
  <2>2. <<s, id, "handler">> \in {e \in due' : e[1] = s}
    BY <1>2, <2>1
  <2>3. id \in {e[2] : e \in {f \in due' : f[1] = s}}
    BY <2>2
  <2> QED
    BY <1>1, <2>3 DEF Coming
<1>4. CASE s \notin joined
  <2>1. s \in Missing(c.chat)
    BY <1>4 DEF Missing
  <2>2. c \in SendRecord
    BY DEF ChatSound, SendsFrom
  <2>3. PICK d : d = [c EXCEPT !.got = "ok", !.id = id]
    OBVIOUS
  <2>4. d.by = c.by /\ d.got = "ok" /\ d.id = id
    BY <2>2, <2>3 DEF SendRecord
  <2>5. \/ sends' = (sends \ {c}) \cup {d} /\ crossed' = crossed \cup (Missing(c.chat) \ {c.by})
        \/ crossed' = crossed \cup Missing(c.chat)
    BY <1>1, <2>3 DEF ServeSend
  <2>6. d \in sends' /\ c.by = s
    BY <2>1, <2>5
  <2>7. d \in {e \in sends' : e.by = s /\ e.got = "ok"}
    BY <2>4, <2>6
  <2> QED
    BY <1>1, <2>4, <2>7 DEF Coming
<1> QED
  BY <1>3, <1>4

LEMMA ServeSendKeepsWindows ==
  ASSUME ChatSound, WindowsInv, NEW c \in sends, ServeSend(c)
  PROVE  WindowsInv'
<1>1. /\ shown' = shown /\ messages' = messages /\ c.got = "sent" /\ crossed \subseteq crossed'
      /\ due \subseteq due' /\ sends \ {c} \subseteq sends'
  BY DEF ServeSend, windowVars
<1>2. PICK n : n = Len(saved) + 1
  OBVIOUS
<1>3. /\ \A i \in DOMAIN saved : i \in DOMAIN saved' /\ saved'[i] = saved[i]
      /\ \A k : OfChat(k)' = IF k = c.chat THEN OfChat(k) \cup {n} ELSE OfChat(k)
  BY <1>2, ServedStore
<1> SUFFICES ASSUME NEW r \in Sides, r \notin crossed', shown'[r] # 0 PROVE InStep(r)'
  BY DEF WindowsInv
<1>4. InStep(r)
  BY <1>1 DEF WindowsInv
<1>5. PICK k, ms, cs, ds : k = shown[r] /\ ms = messages[r] /\ cs = Coming(r) /\ ds = Coming(r)'
  OBVIOUS
<1>6. cs \subseteq ds
  <2>1. {e \in due : e[1] = r} \subseteq {e \in due' : e[1] = r}
    BY <1>1
  <2>2. {e \in sends : e.by = r /\ e.got = "ok"} \subseteq {e \in sends' : e.by = r /\ e.got = "ok"}
    BY <1>1
  <2> QED
    BY <1>5, <2>1, <2>2 DEF Coming
<1>7. /\ \A i \in DOMAIN ms : ms[i].id \in OfChat(k)
      /\ \A x \in OfChat(k) :
           Has(ms, x) \/ x \in cs \/ (Len(ms) >= Limit /\ (Silent(r, k) => NoRoom(ms, x)))
  BY <1>4, <1>5 DEF InStep, Placed
<1>8. /\ OfChat(k) \subseteq OfChat(k)'
      /\ \A x \in OfChat(k) : saved'[x] = saved[x]
      /\ \A x \in OfChat(k)' : x \in OfChat(k) \/ (k = c.chat /\ x = n)
  BY <1>3 DEF OfChat
<1>9. Silent(r, k)' => Silent(r, k)
  BY <1>8 DEF Silent
<1>10. \A x \in OfChat(k) : NoRoom(ms, x) => NoRoom(ms, x)'
  BY <1>8 DEF NoRoom
<1>11. k = c.chat => n \in ds
  BY <1>2, <1>5, StoredComes
<1>12. \A x \in OfChat(k)' :
         Has(ms, x) \/ x \in ds \/ (Len(ms) >= Limit /\ (Silent(r, k)' => NoRoom(ms, x)'))
  BY <1>6, <1>7, <1>8, <1>9, <1>10, <1>11
<1>13. \A x : Placed(r, k, ms, x)' <=>
         Has(ms, x) \/ x \in ds \/ (Len(ms) >= Limit /\ (Silent(r, k)' => NoRoom(ms, x)'))
  BY <1>5 DEF Placed, Has
<1>14. k = shown'[r] /\ ms = messages'[r]
  BY <1>1, <1>5
<1> QED
  BY <1>7, <1>8, <1>12, <1>13, <1>14 DEF InStep

LEMMA WindowsStay ==
  ASSUME WindowsInv, saved' = saved, shown' = shown, messages' = messages, crossed' = crossed,
         due \subseteq due', \A c \in sends : c.got = "ok" => c \in sends'
  PROVE  WindowsInv'
<1>1. ASSUME NEW r PROVE Coming(r) \subseteq Coming(r)'
  <2>1. {e \in due : e[1] = r} \subseteq {e \in due' : e[1] = r}
    OBVIOUS
  <2>2. {e \in sends : e.by = r /\ e.got = "ok"} \subseteq {e \in sends' : e.by = r /\ e.got = "ok"}
    OBVIOUS
  <2> QED
    BY <2>1, <2>2 DEF Coming
<1> SUFFICES ASSUME NEW r \in Sides, r \notin crossed', shown'[r] # 0 PROVE InStep(r)'
  BY DEF WindowsInv
<1>2. InStep(r)
  BY DEF WindowsInv
<1> QED
  BY <1>1, <1>2, StepStays

LEMMA WindowsStep == ChatSound /\ WindowsTimely /\ WindowsInv /\ [ChatNext]_chatVars => WindowsInv'
<1> SUFFICES ASSUME ChatSound, WindowsTimely, WindowsInv, [ChatNext]_chatVars PROVE WindowsInv'
  OBVIOUS
<1>1. CASE CloseChat \/ \E c \in loads : ChatsLoaded(c) \/ ChatCreated(c) \/ MoreLoaded(c)
  BY <1>1, OpenKeepsWindows
<1>2. CASE \E c \in sends : Acknowledged(c)
  BY <1>2, AcknowledgedKeepsWindows
<1>3. CASE \E d \in due : Deliver(d)
  BY <1>3, DeliverKeepsWindows
<1>4. CASE \E c \in sends : ServeSend(c)
  BY <1>4, ServeSendKeepsWindows
<1>5. CASE \E c \in sends : SendFailed(c) \/ RefuseSend(c)
  <2>1. /\ saved' = saved /\ shown' = shown /\ messages' = messages /\ crossed' = crossed
        /\ due \subseteq due'
    BY <1>5 DEF SendFailed, RefuseSend, serverVars, windowVars
  <2>2. \A c \in sends : c.got = "ok" => c \in sends'
    BY <1>5 DEF SendFailed, RefuseSend
  <2> QED
    BY <2>1, <2>2, WindowsStay
<1>6. CASE \/ UNCHANGED chatVars
           \/ \E s \in Sides : \/ OpenChat(s) \/ Subscribed(s) \/ Send(s)
                               \/ \E t \in Texts : Type(s, t)
           \/ CreateChat \/ LoadMore
           \/ \E c \in loads : ServeLoad(c)
           \/ \E id \in outbox : Publish(id)
  <2>1. /\ saved' = saved /\ shown' = shown /\ messages' = messages /\ crossed' = crossed
        /\ due \subseteq due' /\ sends \subseteq sends'
    BY <1>6 DEF chatVars, windowVars, callVars, serverVars, boundVars, OpenChat, Subscribed, Send,
       Type, CreateChat, LoadMore, ServeLoad, Publish
  <2>2. \A c \in sends : c.got = "ok" => c \in sends'
    BY <2>1
  <2> QED
    BY <2>1, <2>2, WindowsStay
<1> QED
  BY <1>1, <1>2, <1>3, <1>4, <1>5, <1>6 DEF ChatNext

LEMMA WindowsImply == ChatSound /\ WindowsTimely /\ WindowsInv => OpenWindowSeesAll
<1> SUFFICES ASSUME ChatSound, WindowsTimely, WindowsInv, Quiet, NEW s \in Sides \ crossed,
                    shown[s] # 0
             PROVE  /\ ToSet(Ids(messages[s])) \subseteq OfChat(shown[s])
                    /\ ToSet(Ids(messages[s])) # OfChat(shown[s]) => Len(messages[s]) >= Limit
                    /\ ~(\E x \in OfChat(shown[s]) : saved[x].by = s) =>
                         \A x \in OfChat(shown[s]) \ ToSet(Ids(messages[s])),
                            y \in ToSet(Ids(messages[s])) : saved[x].at <= saved[y].at
                    /\ \A i, j \in Others(s) :
                         i < j => saved[messages[s][i].id].at <= saved[messages[s][j].id].at
  BY DEF OpenWindowSeesAll
<1>a. PICK ms \in Seq(Entry) : ms = messages[s]
  BY DEF ChatSound, MessagesOnce
<1>b. PICK k : k = shown[s]
  OBVIOUS
<1>1. ms = messages[s] /\ k = shown[s]
  BY <1>a, <1>b
<1>2. Coming(s) = {}
  BY DEF Quiet, Coming
<1>3. /\ \A i \in DOMAIN ms : ms[i].id \in OfChat(k)
      /\ \A x \in OfChat(k) : Has(ms, x) \/ (Len(ms) >= Limit /\ (Silent(s, k) => NoRoom(ms, x)))
  BY <1>1, <1>2 DEF WindowsInv, InStep, Placed
<1>4. Sorted(ms) /\ \A i \in DOMAIN ms : saved[ms[i].id].by = s \/ ms[i].at = saved[ms[i].id].at
  BY <1>1 DEF WindowsTimely, Timely
<1>5. PICK there : there = ToSet(Ids(ms)) /\ \A x : x \in there <=> \E i \in DOMAIN ms : ms[i].id = x
  BY EntriesAre
<1>6. there \subseteq OfChat(k)
  BY <1>3, <1>5
<1>7. \A x \in OfChat(k) : x \notin there => ~Has(ms, x)
  BY <1>5 DEF Has
<1>8. there # OfChat(k) => Len(ms) >= Limit
  BY <1>3, <1>6, <1>7
<1>9. ASSUME Silent(s, k), NEW x \in OfChat(k) \ there, NEW y \in there
      PROVE  saved[x].at <= saved[y].at
  <2>1. PICK i \in DOMAIN ms : ms[i].id = y
    BY <1>5
  <2>2. ms[i].at = saved[y].at
    BY <1>3, <1>4, <1>9, <2>1 DEF Silent
  <2>3. saved[x].at <= ms[i].at
    BY <1>3, <1>7, <1>9 DEF NoRoom
  <2> QED
    BY <2>2, <2>3
<1>10. \A i, j \in Others(s) : i < j => saved[ms[i].id].at <= saved[ms[j].id].at
  BY <1>1, <1>4 DEF Others, Sorted
<1>11. ~(\E x \in OfChat(k) : saved[x].by = s) => Silent(s, k)
  BY DEF Silent
<1> QED
  BY <1>1, <1>5, <1>6, <1>8, <1>9, <1>10, <1>11

\* When nothing is under way, a window has all of its chat, or what it can keep of it, the
\* newest if its side wrote nothing, and the messages of others in the order of their
\* seconds, unless its side was crossed.
THEOREM WindowsEndRight == ChatSpec => []OpenWindowSeesAll
<1>1. ChatInit => WindowsInv /\ WindowsTimely
  BY DEF ChatInit, WindowsInv, WindowsTimely, Timely, Sorted
<1> QED
  BY <1>1, WindowsImply, ChatSoundInit, ChatSoundStep, TimelyStep, WindowsStep, PTL DEF ChatSpec

=============================================================================
