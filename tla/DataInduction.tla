---------------------------- MODULE DataInduction ----------------------------
(***************************************************************************)
(* Induction on the length of sequences, for the modules that read, write  *)
(* and join them.                                                          *)
(***************************************************************************)
EXTENDS Integers, SequencesExt, SequenceTheorems, WellFoundedInduction, TLAPS

\* A set of naturals has a least one.
LEMMA LeastNatural ==
  ASSUME NEW S \in SUBSET Nat, S # {}
  PROVE  \E least \in S : \A other \in S : least <= other
  <1>1. PICK least \in S : \A other \in S : ~(<<other, least>> \in OpToRel(<, Nat))
    BY NatLessThanWellFounded, WFMin
  <1>2. ASSUME NEW other \in S PROVE least <= other
    <2>1. ~(other < least)
      BY <1>1 DEF OpToRel
    <2> QED BY <2>1
  <1> QED BY <1>2

\* A set that has zero and, with a natural, the next, has all naturals.
LEMMA SetInduction ==
  ASSUME NEW S, 0 \in S, \A n \in Nat : n \in S => n + 1 \in S
  PROVE  Nat \subseteq S
  <1> DEFINE Others == Nat \ S
  <1> SUFFICES ASSUME Others # {} PROVE FALSE
    OBVIOUS
  <1>1. PICK least \in Others : \A other \in Others : least <= other
    BY LeastNatural
  <1>2. least \in Nat /\ least # 0 /\ least \notin S
    BY <1>1
  <1>3. least - 1 \in Nat /\ ~(least <= least - 1) /\ (least - 1) + 1 = least
    BY <1>2
  <1>4. least - 1 \in S
    BY <1>1, <1>3
  <1> QED BY <1>2, <1>3, <1>4


\* So a property that a step keeps holds of every length up to n.
LEMMA UpTo ==
  ASSUME NEW n \in Nat, NEW S, 0 \in S, \A k \in 0 .. n - 1 : k \in S => k + 1 \in S
  PROVE  0 .. n \subseteq S
  <1> DEFINE T == {k \in Nat : k <= n => k \in S}
  <1>1. \A k \in Nat : k \in T => k + 1 \in T
    <2> SUFFICES ASSUME NEW k \in Nat, k \in T, k + 1 <= n PROVE k + 1 \in S
      OBVIOUS
    <2>1. k \in 0 .. n - 1 /\ k <= n
      OBVIOUS
    <2> QED BY <2>1
  <1>2. Nat \subseteq T
    <2>1. 0 \in T
      OBVIOUS
    <2> HIDE DEF T
    <2> QED BY <1>1, <2>1, SetInduction
  <1> QED BY <1>2

-----------------------------------------------------------------------------
(* Folds *)

\* A set of places has a last one.
LEMMA LastPlace ==
  ASSUME NEW n \in Nat, NEW p \in SUBSET (1 .. n), p # {}
  PROVE  Max(p) \in p /\ \A i \in p : i <= Max(p)
  <1> DEFINE S == {n - i : i \in p}
  <1>1. PICK least \in S : \A other \in S : least <= other
    <2>1. \A i \in p : n - i \in Nat
      OBVIOUS
    <2>2. S \in SUBSET Nat /\ S # {}
      BY <2>1
    <2> HIDE DEF S
    <2> QED BY <2>2, LeastNatural
  <1>2. PICK last \in p : least = n - last
    BY <1>1
  <1>3. \A i \in p : n - last <= n - i
    BY <1>1, <1>2
  <1>4. \A i \in p : last >= i
    <2> TAKE i \in p
    <2>1. last \in Int /\ i \in Int
      OBVIOUS
    <2> QED BY <1>3, <2>1
  <1>5. Max(p) \in p /\ \A i \in p : Max(p) >= i
    BY <1>4 DEF Max
  <1> QED
    <2>1. \A i \in p : i \in Int
      OBVIOUS
    <2> QED BY <1>5, <2>1

\* The last of the places up to n.
LEMMA LastOfAll ==
  ASSUME NEW n \in Nat, n # 0
  PROVE  /\ Max(1 .. n) = n
         /\ (1 .. n) \ {n} = 1 .. n - 1
  <1>n. n \in 1 .. n
    OBVIOUS
  <1> PICK p : p = 1 .. n
    OBVIOUS
  <1>p. p \in SUBSET (1 .. n) /\ p # {} /\ n \in p
    BY <1>n, Zenon
  <1>1. Max(p) \in p /\ \A i \in p : i <= Max(p)
    BY <1>p, LastPlace
  <1>2. Max(1 .. n) = n
    <2>1. Max(p) \in 1 .. n /\ n <= Max(p)
      BY <1>1, <1>p
    <2>2. Max(p) = n
      BY <2>1
    <2> QED BY <2>2
  <1>3. (1 .. n) \ {n} = 1 .. n - 1
    OBVIOUS
  <1> QED BY <1>2, <1>3

\* The recursion of FoldLeft goes over the sets of the places of a sequence,
\* the last place first; here with a function for the step, and values of a set.
FoldsInto(X, step, base, s, n, fold) ==
    /\ fold = [p \in SUBSET (1 .. n) |->
                 IF p = {} THEN base ELSE step[<<fold[p \ {Max(p)}], s[Max(p)]>>]]
    /\ \A p \in SUBSET (1 .. n) : fold[p] \in X

\* There is such a recursion.
LEMMA FoldExists ==
  ASSUME NEW X, NEW U, NEW step \in [X \X U -> X], NEW base \in X,
         NEW s, NEW n \in Nat, \A i \in 1 .. n : s[i] \in U
  PROVE  \E fold : FoldsInto(X, step, base, s, n, fold)
  <1> DEFINE S == {k \in 0 .. n : \E fold : FoldsInto(X, step, base, s, k, fold)}
  <1>1. 0 \in S
    <2> DEFINE fold == [p \in SUBSET (1 .. 0) |-> base]
    <2>1. \A p \in SUBSET (1 .. 0) : p = {}
      OBVIOUS
    <2>2. fold = [p \in SUBSET (1 .. 0) |->
              IF p = {} THEN base ELSE step[<<fold[p \ {Max(p)}], s[Max(p)]>>]]
      BY <2>1
    <2>3. \A p \in SUBSET (1 .. 0) : fold[p] \in X
      OBVIOUS
    <2> HIDE DEF fold
    <2>4. FoldsInto(X, step, base, s, 0, fold)
      BY <2>2, <2>3, Zenon DEF FoldsInto
    <2>5. 0 \in 0 .. n
      OBVIOUS
    <2> QED BY <2>4, <2>5
  <1>2. ASSUME NEW k \in 0 .. n - 1, k \in S PROVE k + 1 \in S
    <2>1. PICK f : FoldsInto(X, step, base, s, k, f)
      BY <1>2
    <2> DEFINE last == k + 1
               fold == [p \in SUBSET (1 .. last) |->
                          IF last \in p THEN step[<<f[p \ {last}], s[last]>>] ELSE f[p]]
    <2>f. /\ \A p \in SUBSET (1 .. k) : f[p] \in X
          /\ f = [p \in SUBSET (1 .. k) |->
                    IF p = {} THEN base ELSE step[<<f[p \ {Max(p)}], s[Max(p)]>>]]
      BY <2>1, Zenon DEF FoldsInto
    <2>k. k \in Nat /\ last \in 1 .. n /\ last \in 0 .. n
      OBVIOUS
    <2>2. ASSUME NEW p \in SUBSET (1 .. last)
          PROVE  fold[p] = IF p = {} THEN base ELSE step[<<fold[p \ {Max(p)}], s[Max(p)]>>]
      <3>1. CASE last \in p
        <4>1. Max(p) = last
          <5>1. Max(p) \in 1 .. last /\ last <= Max(p)
            <6>1. last \in Nat /\ p # {}
              BY <2>k, <3>1
            <6> HIDE DEF last
            <6> QED BY <3>1, <6>1, LastPlace
          <5> QED BY <2>k, <5>1
        <4>2. p \ {last} \in SUBSET (1 .. last) /\ last \notin p \ {last}
          OBVIOUS
        <4>3. fold[p \ {last}] = f[p \ {last}]
          BY <4>2
        <4>4. fold[p] = step[<<f[p \ {last}], s[last]>>]
          BY <3>1
        <4> HIDE DEF fold, last
        <4> QED BY <3>1, <4>1, <4>3, <4>4
      <3>2. CASE last \notin p /\ p # {}
        <4>1. p \in SUBSET (1 .. k)
          BY <2>k, <3>2
        <4>2. f[p] = step[<<f[p \ {Max(p)}], s[Max(p)]>>]
          <5>1. f[p] = IF p = {} THEN base ELSE step[<<f[p \ {Max(p)}], s[Max(p)]>>]
            BY <2>f, <4>1, Zenon
          <5> QED BY <3>2, <5>1
        <4>3. fold[p] = f[p] /\ fold[p \ {Max(p)}] = f[p \ {Max(p)}]
          BY <3>2
        <4> HIDE DEF fold, last
        <4> QED BY <3>2, <4>2, <4>3
      <3>3. CASE p = {}
        <4>1. f[{}] = base
          <5>1. {} \in SUBSET (1 .. k)
            OBVIOUS
          <5>2. f[{}] = IF {} = {} THEN base ELSE step[<<f[{} \ {Max({})}], s[Max({})]>>]
            BY <2>f, <5>1, Zenon
          <5> QED BY <5>2
        <4>2. fold[p] = f[{}]
          BY <3>3
        <4> HIDE DEF fold, last
        <4> QED BY <3>3, <4>1, <4>2
      <3> QED BY <3>1, <3>2, <3>3
    <2>3. ASSUME NEW p \in SUBSET (1 .. last) PROVE fold[p] \in X
      <3>1. CASE last \in p
        <4>1. p \ {last} \in SUBSET (1 .. k)
          BY <2>k
        <4>2. f[p \ {last}] \in X /\ s[last] \in U
          BY <2>f, <2>k, <4>1, Zenon
        <4>3. fold[p] = step[<<f[p \ {last}], s[last]>>]
          BY <3>1
        <4> HIDE DEF fold, last
        <4> QED BY <4>2, <4>3
      <3>2. CASE last \notin p
        <4>1. p \in SUBSET (1 .. k)
          BY <2>k, <3>2
        <4>2. fold[p] = f[p]
          BY <3>2
        <4> HIDE DEF fold
        <4> QED BY <2>f, <4>1, <4>2, Zenon
      <3> QED BY <3>1, <3>2
    <2>4. FoldsInto(X, step, base, s, last, fold)
      <3>1. fold = [p \in SUBSET (1 .. last) |-> fold[p]]
        BY Zenon
      <3> HIDE DEF fold
      <3>2. fold = [p \in SUBSET (1 .. last) |->
                      IF p = {} THEN base ELSE step[<<fold[p \ {Max(p)}], s[Max(p)]>>]]
        BY <2>2, <3>1, Zenon
      <3> QED BY <2>3, <3>2, Zenon DEF FoldsInto
    <2> HIDE DEF fold
    <2> QED BY <2>k, <2>4
  <1>3. 0 .. n \subseteq S
    <2> HIDE DEF S
    <2> QED BY <1>1, <1>2, UpTo
  <1> QED BY <1>3

-----------------------------------------------------------------------------
(* Sums *)

Total(s) == FoldLeft(+, 0, s)

\* The recursion of a sum.
IsFold(s, n, fold) ==
    fold = [p \in SUBSET (1 .. n) |->
              IF p = {} THEN 0 ELSE fold[p \ {Max(p)}] + s[Max(p)]]

\* There is one.
LEMMA SumExists ==
  ASSUME NEW s, NEW n \in Nat, \A i \in 1 .. n : s[i] \in Nat
  PROVE  \E fold : IsFold(s, n, fold)
  <1>plus. PICK plus : plus = [x \in Nat \X Nat |-> x[1] + x[2]]
    OBVIOUS
  <1>1. plus \in [Nat \X Nat -> Nat] /\ \A a \in Nat, b \in Nat : plus[<<a, b>>] = a + b
    BY <1>plus
  <1>f. PICK f : FoldsInto(Nat, plus, 0, s, n, f)
    BY <1>1, FoldExists
  <1>2. /\ \A p \in SUBSET (1 .. n) : f[p] \in Nat
        /\ f = [p \in SUBSET (1 .. n) |->
                  IF p = {} THEN 0 ELSE plus[<<f[p \ {Max(p)}], s[Max(p)]>>]]
    BY <1>f, Zenon DEF FoldsInto
  <1>3. ASSUME NEW p \in SUBSET (1 .. n), p # {}
        PROVE  plus[<<f[p \ {Max(p)}], s[Max(p)]>>] = f[p \ {Max(p)}] + s[Max(p)]
    <2>1. Max(p) \in 1 .. n
      BY <1>3, LastPlace
    <2>2. f[p \ {Max(p)}] \in Nat /\ s[Max(p)] \in Nat
      <3>1. p \ {Max(p)} \in SUBSET (1 .. n)
        OBVIOUS
      <3> QED BY <1>2, <2>1, <3>1, Zenon
    <2> QED BY <1>1, <2>2, Zenon
  <1>4. [p \in SUBSET (1 .. n) |->
           IF p = {} THEN 0 ELSE plus[<<f[p \ {Max(p)}], s[Max(p)]>>]]
        = [p \in SUBSET (1 .. n) |-> IF p = {} THEN 0 ELSE f[p \ {Max(p)}] + s[Max(p)]]
    BY <1>3
  <1>5. IsFold(s, n, f)
    BY <1>2, <1>4, Zenon DEF IsFold
  <1> QED BY <1>5

\* The recursion as FoldLeft has it.
LEMMA FoldLeftIsFold ==
  ASSUME NEW s, NEW n \in Nat, DOMAIN s = 1 .. n, \A i \in 1 .. n : s[i] \in Nat
  PROVE  \E fold : IsFold(s, n, fold) /\ Total(s) = fold[1 .. n]
  <1> DEFINE fold == CHOOSE f : f = [p \in SUBSET (DOMAIN s) |->
                              IF p = {} THEN 0 ELSE f[p \ {Max(p)}] + s[Max(p)]]
  <1>1. Total(s) = fold[DOMAIN s]
    BY Zenon DEF Total, FoldLeft, MapThenFoldSet
  <1>2. \E f : f = [p \in SUBSET (DOMAIN s) |->
                      IF p = {} THEN 0 ELSE f[p \ {Max(p)}] + s[Max(p)]]
    <2> PICK f : IsFold(s, n, f)
      BY SumExists
    <2> QED BY Zenon DEF IsFold
  <1>3. fold = [p \in SUBSET (DOMAIN s) |->
                  IF p = {} THEN 0 ELSE fold[p \ {Max(p)}] + s[Max(p)]]
    BY <1>2, Zenon
  <1> HIDE DEF fold
  <1>4. IsFold(s, n, fold)
    BY <1>3, Zenon DEF IsFold
  <1> QED BY <1>1, <1>4, Zenon

\* The sums of the first numbers of a row.
IsSum(s, sum) ==
    /\ sum \in [0 .. Len(s) -> Nat]
    /\ sum[0] = 0
    /\ \A k \in 1 .. Len(s) : sum[k] = sum[k - 1] + s[k]

\* A total is the last of the sums.
LEMMA TotalIsSum ==
  ASSUME NEW s \in Seq(Nat)
  PROVE  \E sum : IsSum(s, sum) /\ Total(s) = sum[Len(s)]
  <1> DEFINE n == Len(s)
             sum(fold) == [k \in 0 .. n |-> fold[1 .. k]]
  <1>1. n \in Nat /\ DOMAIN s = 1 .. n /\ \A k \in 1 .. n : s[k] \in Nat
    OBVIOUS
  <1> PICK fold : IsFold(s, n, fold) /\ Total(s) = fold[1 .. n]
    BY <1>1, FoldLeftIsFold
  <1>2. fold[1 .. 0] = 0
    <2>1. 1 .. 0 = {} /\ {} \in SUBSET (1 .. n)
      OBVIOUS
    <2>2. fold[{}] = IF {} = {} THEN 0 ELSE fold[{} \ {Max({})}] + s[Max({})]
      BY <2>1, Zenon DEF IsFold
    <2> QED BY <2>1, <2>2
  <1>3. ASSUME NEW k \in 1 .. n
        PROVE  fold[1 .. k] = fold[1 .. k - 1] + s[k]
    <2>1. 1 .. k # {} /\ 1 .. k \in SUBSET (1 .. n) /\ k \in Nat /\ k # 0
      <3>1. k \in Nat /\ k # 0 /\ k \in 1 .. k /\ \A i \in 1 .. k : i \in 1 .. n
        BY <1>1
      <3>2. 1 .. k # {} /\ 1 .. k \in SUBSET (1 .. n)
        BY <3>1, Zenon
      <3> QED BY <3>1, <3>2
    <2>2. fold[1 .. k] = IF 1 .. k = {} THEN 0
                         ELSE fold[(1 .. k) \ {Max(1 .. k)}] + s[Max(1 .. k)]
      BY <2>1, Zenon DEF IsFold
    <2>3. Max(1 .. k) = k /\ (1 .. k) \ {k} = 1 .. k - 1
      BY <2>1, LastOfAll
    <2> QED BY <2>1, <2>2, <2>3
  <1>4. \A k \in 0 .. n : fold[1 .. k] \in Nat
    <2> DEFINE S == {k \in 0 .. n : fold[1 .. k] \in Nat}
    <2>1. 0 \in S
      BY <1>1, <1>2
    <2>2. \A k \in 0 .. n - 1 : k \in S => k + 1 \in S
      <3> SUFFICES ASSUME NEW k \in 0 .. n - 1, fold[1 .. k] \in Nat
                   PROVE  fold[1 .. k + 1] \in Nat /\ k + 1 \in 0 .. n
        OBVIOUS
      <3>1. k + 1 \in 1 .. n /\ (k + 1) - 1 = k
        BY <1>1
      <3>2. fold[1 .. k + 1] = fold[1 .. k] + s[k + 1]
        BY <1>3, <3>1
      <3> QED BY <1>1, <3>1, <3>2
    <2> HIDE DEF S
    <2>3. 0 .. n \subseteq S
      BY <1>1, <2>1, <2>2, UpTo
    <2> QED BY <2>3 DEF S
  <1>5. IsSum(s, sum(fold)) /\ Total(s) = sum(fold)[n]
    <2>1. sum(fold) \in [0 .. n -> Nat]
      BY <1>4
    <2>2. sum(fold)[0] = 0
      BY <1>1, <1>2
    <2>3. ASSUME NEW k \in 1 .. n PROVE sum(fold)[k] = sum(fold)[k - 1] + s[k]
      <3>1. k \in 0 .. n /\ k - 1 \in 0 .. n
        BY <1>1
      <3> QED BY <1>3, <3>1
    <2>4. Total(s) = sum(fold)[n]
      BY <1>1
    <2> QED BY <2>1, <2>2, <2>3, <2>4 DEF IsSum
  <1> QED BY <1>5

\* The sums are determined by the row.
LEMMA SumsAgree ==
  ASSUME NEW s \in Seq(Nat), NEW t \in Seq(Nat),
         NEW a, NEW b, IsSum(s, a), IsSum(t, b),
         Len(s) = 1 + Len(t), \A i \in 1 .. Len(t) : s[i + 1] = t[i]
  PROVE  a[Len(s)] = s[1] + b[Len(t)]
  <1> DEFINE n == Len(t)
             S == {k \in 0 .. n : a[k + 1] = s[1] + b[k]}
  <1>1. n \in Nat /\ Len(s) = n + 1
    OBVIOUS
  <1>2. /\ a \in [0 .. n + 1 -> Nat] /\ a[0] = 0
        /\ \A k \in 1 .. n + 1 : a[k] = a[k - 1] + s[k]
        /\ b \in [0 .. n -> Nat] /\ b[0] = 0
        /\ \A k \in 1 .. n : b[k] = b[k - 1] + t[k]
    BY <1>1 DEF IsSum
  <1>3. /\ \A k \in 1 .. n + 1 : s[k] \in Nat
        /\ \A k \in 1 .. n : t[k] \in Nat
    BY <1>1
  <1> HIDE DEF n
  <1>4. 0 \in S
    <2>1. a[1] = a[1 - 1] + s[1] /\ 1 - 1 = 0 /\ 0 + 1 = 1 /\ 1 \in 1 .. n + 1 /\ 0 \in 0 .. n
      BY <1>1, <1>2
    <2> QED BY <1>2, <1>3, <2>1
  <1>5. \A k \in 0 .. n - 1 : k \in S => k + 1 \in S
    <2> SUFFICES ASSUME NEW k \in 0 .. n - 1, a[k + 1] = s[1] + b[k]
                 PROVE  a[(k + 1) + 1] = s[1] + b[k + 1] /\ k + 1 \in 0 .. n
      OBVIOUS
    <2>1. /\ k + 1 \in 1 .. n /\ (k + 1) + 1 \in 1 .. n + 1 /\ k \in 0 .. n
          /\ (k + 1) - 1 = k /\ ((k + 1) + 1) - 1 = k + 1 /\ 1 \in 1 .. n + 1
      BY <1>1
    <2>2. a[(k + 1) + 1] = a[k + 1] + s[(k + 1) + 1]
      BY <1>2, <2>1
    <2>3. b[k + 1] = b[k] + t[k + 1]
      BY <1>2, <2>1
    <2>4. s[(k + 1) + 1] = t[k + 1]
      BY <2>1 DEF n
    <2>5. s[1] \in Nat /\ b[k] \in Nat /\ t[k + 1] \in Nat
      BY <1>2, <1>3, <2>1
    <2>6. a[(k + 1) + 1] = (s[1] + b[k]) + t[k + 1]
      BY <2>2, <2>4, Zenon
    <2>7. a[(k + 1) + 1] = s[1] + b[k + 1]
      BY <2>3, <2>5, <2>6
    <2>8. k + 1 \in 0 .. n
      BY <1>1, <2>1
    <2> QED BY <2>7, <2>8
  <1>6. n \in S
    <2> HIDE DEF S
    <2>1. 0 .. n \subseteq S
      BY <1>1, <1>4, <1>5, UpTo
    <2> QED BY <1>1, <2>1
  <1> QED BY <1>1, <1>6

\* A total is a natural, that of nothing is zero, and that of a row is its
\* first number and the total of the rest.
LEMMA TotalSteps ==
  /\ Total(<<>>) = 0
  /\ \A s \in Seq(Nat) : /\ Total(s) \in Nat
                         /\ s # <<>> => Total(s) = Head(s) + Total(Tail(s))
  <1>1. ASSUME NEW s \in Seq(Nat)
        PROVE  /\ Total(s) \in Nat
               /\ s = <<>> => Total(s) = 0
    <2> PICK sum : IsSum(s, sum) /\ Total(s) = sum[Len(s)]
      BY TotalIsSum
    <2>1. Len(s) \in 0 .. Len(s) /\ Len(<<>>) = 0
      OBVIOUS
    <2> QED BY <2>1 DEF IsSum
  <1>2. ASSUME NEW s \in Seq(Nat), s # <<>>
        PROVE  Total(s) = Head(s) + Total(Tail(s))
    <2>t. PICK t : t = Tail(s)
      OBVIOUS
    <2>1. /\ t \in Seq(Nat) /\ Head(s) = s[1]
          /\ Len(s) = 1 + Len(t)
          /\ \A i \in 1 .. Len(t) : s[i + 1] = t[i]
      BY <1>2, <2>t
    <2>a. PICK a : IsSum(s, a) /\ Total(s) = a[Len(s)]
      BY TotalIsSum
    <2>b. PICK b : IsSum(t, b) /\ Total(t) = b[Len(t)]
      BY <2>1, TotalIsSum
    <2>2. a[Len(s)] = s[1] + b[Len(t)]
      BY <2>1, <2>a, <2>b, SumsAgree, Zenon
    <2> QED BY <2>1, <2>t, <2>a, <2>b, <2>2
  <1>3. <<>> \in Seq(Nat)
    OBVIOUS
  <1> QED BY <1>1, <1>2, <1>3

-----------------------------------------------------------------------------
(* Rows, one behind the other                                               *)

\* The first rows, joined: f[k] is the first k of them.
JoinsFirst(seqs, f, n, S) ==
    /\ f \in [0 .. n -> Seq(S)]
    /\ f[0] = <<>>
    /\ \A k \in 1 .. n : f[k] = f[k - 1] \o seqs[k]

\* Some function joins any number of them.
LEMMA JoinedExists ==
  ASSUME NEW S, NEW seqs \in Seq(Seq(S))
  PROVE  \E f : JoinsFirst(seqs, f, Len(seqs), S)
  <1> DEFINE n == Len(seqs)
             T == {k \in 0 .. n : \E f : JoinsFirst(seqs, f, k, S)}
  <1>1. n \in Nat /\ \A k \in 1 .. n : seqs[k] \in Seq(S)
    OBVIOUS
  <1> HIDE DEF n
  <1>2. 0 \in T
    <2> DEFINE f == [k \in 0 .. 0 |-> <<>>]
    <2>1. f \in [0 .. 0 -> Seq(S)] /\ f[0] = <<>>
      OBVIOUS
    <2>2. 1 .. 0 = {} /\ 0 \in 0 .. n
      BY <1>1
    <2> HIDE DEF f
    <2> QED BY <2>1, <2>2 DEF JoinsFirst
  <1>3. ASSUME NEW k \in 0 .. n - 1, k \in T PROVE k + 1 \in T
    <2> PICK f : JoinsFirst(seqs, f, k, S)
      BY <1>3
    <2> DEFINE m == k + 1
               g == [j \in 0 .. m |-> IF j = m THEN f[k] \o seqs[m] ELSE f[j]]
    <2>1. m \in 1 .. n /\ m \in Nat /\ m - 1 = k /\ k \in 0 .. k /\ k \in Nat
      BY <1>1
    <2>2. f \in [0 .. k -> Seq(S)] /\ f[0] = <<>> /\ \A j \in 1 .. k : f[j] = f[j - 1] \o seqs[j]
      BY DEF JoinsFirst
    <2>3. \A j \in 0 .. m : j # m => j \in 0 .. k
      BY <2>1
    <2>4. f[k] \o seqs[m] \in Seq(S)
      BY <1>1, <2>1, <2>2
    <2>5. g \in [0 .. m -> Seq(S)] /\ g[0] = <<>>
      BY <2>1, <2>2, <2>3, <2>4
    <2>6. ASSUME NEW j \in 1 .. m PROVE g[j] = g[j - 1] \o seqs[j]
      <3>1. j \in 0 .. m /\ j - 1 \in 0 .. m /\ j - 1 # m /\ (j # m => j \in 1 .. k)
        BY <2>1
      <3>2. g[j - 1] = f[j - 1] /\ g[j] = IF j = m THEN f[k] \o seqs[m] ELSE f[j]
        BY <3>1
      <3> HIDE DEF g
      <3>3. CASE j = m
        BY <2>1, <3>2, <3>3
      <3>4. CASE j # m
        BY <2>2, <3>1, <3>2, <3>4
      <3> QED BY <3>3, <3>4
    <2> HIDE DEF g
    <2>7. JoinsFirst(seqs, g, m, S)
      BY <2>5, <2>6 DEF JoinsFirst
    <2> QED BY <2>1, <2>7
  <1>4. n \in T
    <2>1. 0 .. n \subseteq T
      <3> HIDE DEF T
      <3> QED BY <1>1, <1>2, <1>3, UpTo
    <2> QED BY <1>1, <2>1
  <1> QED BY <1>4 DEF n

\* FlattenSeq joins all of them.
LEMMA FlattenIsJoined ==
  ASSUME NEW S, NEW seqs \in Seq(Seq(S))
  PROVE  \E f : JoinsFirst(seqs, f, Len(seqs), S) /\ FlattenSeq(seqs) = f[Len(seqs)]
  <1> DEFINE n == Len(seqs)
             IsFlat(h) == h = [i \in 1 .. n |-> IF i = 1 THEN seqs[i] ELSE h[i - 1] \o seqs[i]]
             flatten == CHOOSE h : IsFlat(h)
             f == [k \in 0 .. n |-> IF k = 0 THEN <<>> ELSE flatten[k]]
  <1>1. n \in Nat /\ \A k \in 1 .. n : seqs[k] \in Seq(S)
    OBVIOUS
  <1> PICK g : JoinsFirst(seqs, g, n, S)
    BY JoinedExists
  <1>2. /\ g \in [0 .. n -> Seq(S)] /\ g[0] = <<>>
        /\ \A k \in 1 .. n : g[k] = g[k - 1] \o seqs[k]
    BY DEF JoinsFirst
  <1> HIDE DEF n
  <1>3. \E h : IsFlat(h)
    <2> DEFINE h == [i \in 1 .. n |-> g[i]]
    <2>1. ASSUME NEW i \in 1 .. n
          PROVE  h[i] = IF i = 1 THEN seqs[i] ELSE h[i - 1] \o seqs[i]
      <3>1. CASE i = 1
        <4>1. g[1] = g[1 - 1] \o seqs[1] /\ 1 - 1 = 0 /\ seqs[1] \in Seq(S)
          <5>1. 1 \in 1 .. n /\ 1 - 1 = 0
            BY <3>1
          <5> QED BY <1>1, <1>2, <5>1
        <4>2. <<>> \o seqs[1] = seqs[1]
          BY <4>1, ConcatEmptySeq
        <4>3. h[i] = g[1]
          BY <3>1
        <4> QED BY <1>2, <3>1, <4>1, <4>2, <4>3, Zenon
      <3>2. CASE i # 1
        <4>1. i - 1 \in 1 .. n
          BY <1>1, <3>2
        <4> QED BY <1>2, <3>2, <4>1
      <3> QED BY <3>1, <3>2
    <2>2. h = [i \in 1 .. n |-> h[i]]
      BY Zenon
    <2> HIDE DEF h
    <2>3. IsFlat(h)
      BY <2>1, <2>2, Zenon
    <2> QED BY <2>3
  <1>4. IsFlat(flatten)
    <2> HIDE DEF IsFlat
    <2> QED BY <1>3, Zenon
  <1>5. \A i \in 1 .. n : flatten[i] = IF i = 1 THEN seqs[i] ELSE flatten[i - 1] \o seqs[i]
    <2> HIDE DEF flatten
    <2> QED BY <1>4, Zenon
  <1>6. n # 0 => FlattenSeq(seqs) = flatten[n]
    BY Zenon DEF FlattenSeq, n
  <1>7. n = 0 => FlattenSeq(seqs) = <<>>
    BY DEF FlattenSeq, n
  <1> HIDE DEF flatten
  <1>8. f[0] = <<>> /\ f[n] = FlattenSeq(seqs)
    BY <1>1, <1>6, <1>7
  <1>9. ASSUME NEW k \in 1 .. n PROVE f[k] = f[k - 1] \o seqs[k]
    <2>1. k \in 0 .. n /\ k - 1 \in 0 .. n /\ k # 0 /\ (k - 1 = 0 <=> k = 1)
      BY <1>1
    <2>2. f[k] = flatten[k] /\ f[k - 1] = IF k = 1 THEN <<>> ELSE flatten[k - 1]
      BY <2>1
    <2>3. seqs[k] \in Seq(S)
      BY <1>1
    <2> HIDE DEF f
    <2>4. CASE k = 1
      <3>1. <<>> \o seqs[1] = seqs[1]
        BY <2>3, <2>4, ConcatEmptySeq
      <3> QED BY <1>5, <2>2, <2>4, <3>1
    <2>5. CASE k # 1
      BY <1>5, <2>2, <2>5
    <2> QED BY <2>4, <2>5
  <1>10. \A k \in 0 .. n : f[k] \in Seq(S)
    <2> DEFINE T == {k \in 0 .. n : f[k] \in Seq(S)}
    <2> HIDE DEF f
    <2>1. 0 \in T
      <3>1. 0 \in 0 .. n /\ <<>> \in Seq(S)
        BY <1>1
      <3> QED BY <1>8, <3>1
    <2>2. \A k \in 0 .. n - 1 : k \in T => k + 1 \in T
      <3> SUFFICES ASSUME NEW k \in 0 .. n - 1, f[k] \in Seq(S)
                   PROVE  f[k + 1] \in Seq(S) /\ k + 1 \in 0 .. n
        OBVIOUS
      <3>1. k + 1 \in 1 .. n /\ (k + 1) - 1 = k /\ k + 1 \in 0 .. n
        BY <1>1
      <3>2. f[k + 1] = f[k] \o seqs[k + 1] /\ seqs[k + 1] \in Seq(S)
        BY <1>1, <1>9, <3>1
      <3> QED BY <3>1, <3>2
    <2> HIDE DEF T
    <2>3. 0 .. n \subseteq T
      BY <1>1, <2>1, <2>2, UpTo
    <2> QED BY <2>3 DEF T
  <1>11. JoinsFirst(seqs, f, n, S)
    <2>1. f \in [0 .. n -> Seq(S)]
      BY <1>10
    <2> HIDE DEF f
    <2> QED BY <1>8, <1>9, <2>1 DEF JoinsFirst
  <1> QED BY <1>8, <1>11 DEF n

\* The row s stands in the row t behind place p.
StandsAt(t, p, s) ==
    /\ p + Len(s) <= Len(t)
    /\ \A j \in 1 .. Len(s) : t[p + j] = s[j]

\* Where each row is when they are joined.
JoinedAt(flat, seqs, pos) ==
    /\ pos \in [0 .. Len(seqs) -> Nat]
    /\ pos[0] = 0 /\ pos[Len(seqs)] = Len(flat)
    /\ \A k \in 1 .. Len(seqs) : /\ pos[k] = pos[k - 1] + Len(seqs[k])
                                 /\ StandsAt(flat, pos[k - 1], seqs[k])

\* Two rows, the one behind the other.
LEMMA ConcatPlaces ==
  ASSUME NEW S, NEW s \in Seq(S), NEW t \in Seq(S), NEW u, u = s \o t
  PROVE  /\ u \in Seq(S) /\ Len(u) = Len(s) + Len(t)
         /\ Len(s) \in Nat /\ Len(t) \in Nat
         /\ \A j \in 1 .. Len(s) : u[j] = s[j]
         /\ \A j \in 1 .. Len(t) : u[Len(s) + j] = t[j]
  <1> PICK m : m = Len(s)
    OBVIOUS
  <1> PICK n : n = Len(t)
    OBVIOUS
  <1>1. m \in Nat /\ n \in Nat
    OBVIOUS
  <1>2. /\ u \in Seq(S) /\ Len(u) = m + n
        /\ \A i \in 1 .. m + n : u[i] = IF i <= m THEN s[i] ELSE t[i - m]
    BY ConcatProperties
  <1>3. ASSUME NEW j \in 1 .. m PROVE u[j] = s[j]
    <2>1. j \in 1 .. m + n /\ j <= m
      BY <1>1
    <2> QED BY <1>2, <2>1
  <1>4. ASSUME NEW j \in 1 .. n PROVE u[m + j] = t[j]
    <2>1. m + j \in 1 .. m + n /\ ~(m + j <= m) /\ (m + j) - m = j
      BY <1>1
    <2> QED BY <1>2, <2>1
  <1> QED BY <1>1, <1>2, <1>3, <1>4

\* The row t begins as s.
Begins(s, t) == Len(s) <= Len(t) /\ \A i \in 1 .. Len(s) : t[i] = s[i]

\* What begins a row begins those it is the beginning of.
LEMMA BeginsBoth ==
  ASSUME NEW S, NEW s \in Seq(S), NEW t \in Seq(S), NEW u \in Seq(S),
         Begins(s, t), Begins(t, u)
  PROVE  Begins(s, u)
  BY DEF Begins

\* What is joined to a row stands behind it in all that begins with both.
LEMMA InFront ==
  ASSUME NEW S, NEW s \in Seq(S), NEW t \in Seq(S), NEW u, NEW all \in Seq(S),
         u = s \o t, Begins(u, all)
  PROVE  Len(u) = Len(s) + Len(t) /\ StandsAt(all, Len(s), t)
  <1> PICK p : p = Len(s)
    OBVIOUS
  <1> PICK n : n = Len(t)
    OBVIOUS
  <1>1. Len(u) = p + n /\ p \in Nat /\ n \in Nat /\ \A j \in 1 .. n : u[p + j] = t[j]
    BY ConcatPlaces
  <1>2. Len(all) \in Nat /\ p + n <= Len(all) /\ \A i \in 1 .. p + n : all[i] = u[i]
    <2>1. Len(u) <= Len(all) /\ \A i \in 1 .. Len(u) : all[i] = u[i]
      BY Zenon DEF Begins
    <2>2. Len(all) \in Nat
      OBVIOUS
    <2> QED BY <1>1, <2>1, <2>2
  <1>3. ASSUME NEW j \in 1 .. n PROVE all[p + j] = t[j]
    <2>1. p + j \in 1 .. p + n
      BY <1>1
    <2> QED BY <1>1, <1>2, <2>1
  <1> QED BY <1>1, <1>2, <1>3 DEF StandsAt

\* Each row stands behind the one before.
LEMMA FlattenPlaces ==
  ASSUME NEW S, NEW seqs \in Seq(Seq(S))
  PROVE  FlattenSeq(seqs) \in Seq(S) /\ \E pos : JoinedAt(FlattenSeq(seqs), seqs, pos)
  <1> DEFINE n == Len(seqs)
  <1> PICK f : JoinsFirst(seqs, f, n, S) /\ FlattenSeq(seqs) = f[n]
    BY FlattenIsJoined
  <1>1. n \in Nat /\ \A k \in 1 .. n : seqs[k] \in Seq(S)
    OBVIOUS
  <1> HIDE DEF n
  <1>2. /\ f \in [0 .. n -> Seq(S)] /\ f[0] = <<>>
        /\ \A k \in 1 .. n : f[k] = f[k - 1] \o seqs[k]
    BY DEF JoinsFirst
  <1> DEFINE T == {m \in 0 .. n : \A k \in 0 .. m : Begins(f[k], f[m])}
  <1>r. \A k \in 0 .. n : Begins(f[k], f[k])
    BY <1>2 DEF Begins
  <1>3. 0 \in T
    <2>1. 0 \in 0 .. n /\ \A k \in 0 .. 0 : k = 0
      BY <1>1
    <2> QED BY <1>r, <2>1
  <1>4. ASSUME NEW m \in 0 .. n - 1, m \in T PROVE m + 1 \in T
    <2>1. m + 1 \in 1 .. n /\ (m + 1) - 1 = m /\ m \in 0 .. n /\ m + 1 \in 0 .. n
      BY <1>1
    <2>2. f[m + 1] = f[m] \o seqs[m + 1] /\ seqs[m + 1] \in Seq(S) /\ f[m] \in Seq(S)
          /\ f[m + 1] \in Seq(S)
      BY <1>1, <1>2, <2>1
    <2>3. Begins(f[m], f[m + 1])
      <3>1. ASSUME NEW s \in Seq(S), NEW t \in Seq(S) PROVE Begins(s, s \o t)
        <4>1. /\ Len(s \o t) = Len(s) + Len(t) /\ Len(s) \in Nat /\ Len(t) \in Nat
              /\ \A j \in 1 .. Len(s) : (s \o t)[j] = s[j]
          BY ConcatPlaces
        <4> QED BY <4>1 DEF Begins
      <3> QED BY <2>2, <3>1
    <2>4. ASSUME NEW k \in 0 .. m + 1 PROVE Begins(f[k], f[m + 1])
      <3>1. CASE k = m + 1
        BY <1>r, <2>1, <3>1
      <3>2. CASE k # m + 1
        <4>1. k \in 0 .. m /\ k \in 0 .. n
          BY <1>1, <2>1, <3>2
        <4>2. Begins(f[k], f[m]) /\ f[k] \in Seq(S)
          BY <1>2, <1>4, <4>1
        <4> QED BY <2>2, <2>3, <4>2, BeginsBoth
      <3> QED BY <3>1, <3>2
    <2> QED BY <2>1, <2>4
  <1>5. \A k \in 0 .. n : Begins(f[k], f[n])
    <2>1. 0 .. n \subseteq T
      <3> HIDE DEF T
      <3> QED BY <1>1, <1>3, <1>4, UpTo
    <2>2. n \in T
      BY <1>1, <2>1
    <2> QED BY <2>2
  <1> HIDE DEF T
  <1> PICK pos : pos = [k \in 0 .. n |-> Len(f[k])]
    OBVIOUS
  <1>6. ASSUME NEW k \in 1 .. n
        PROVE  /\ pos[k] = pos[k - 1] + Len(seqs[k])
               /\ StandsAt(f[n], pos[k - 1], seqs[k])
    <2>1. k \in 0 .. n /\ k - 1 \in 0 .. n /\ n \in 0 .. n
      BY <1>1
    <2>2. /\ f[k] = f[k - 1] \o seqs[k] /\ seqs[k] \in Seq(S) /\ f[k - 1] \in Seq(S)
          /\ f[n] \in Seq(S) /\ Begins(f[k], f[n])
      BY <1>1, <1>2, <1>5, <2>1
    <2>3. pos[k] = Len(f[k]) /\ pos[k - 1] = Len(f[k - 1])
      BY <2>1
    <2>4. Len(f[k]) = Len(f[k - 1]) + Len(seqs[k]) /\ StandsAt(f[n], Len(f[k - 1]), seqs[k])
      BY <2>2, InFront
    <2> QED BY <2>3, <2>4
  <1>7. pos \in [0 .. n -> Nat] /\ pos[0] = 0 /\ pos[n] = Len(f[n]) /\ f[n] \in Seq(S)
    <2>1. \A k \in 0 .. n : Len(f[k]) \in Nat
      BY <1>2
    <2>2. 0 \in 0 .. n /\ n \in 0 .. n
      BY <1>1
    <2> QED BY <1>2, <2>1, <2>2
  <1>8. JoinedAt(f[n], seqs, pos)
    BY <1>6, <1>7 DEF JoinedAt, n
  <1> QED BY <1>7, <1>8

-----------------------------------------------------------------------------
(* Rows, one element after the other                                        *)

\* The first i of a row.
Upto(s, i) == [j \in 1 .. i |-> s[j]]

\* The row with one more.
LEMMA AppendKeeps ==
  ASSUME NEW S, NEW s \in Seq(S), NEW x \in S, NEW t, t = Append(s, x)
  PROVE  /\ t \in Seq(S) /\ Len(t) = Len(s) + 1 /\ t[Len(s) + 1] = x
         /\ \A i \in 1 .. Len(s) : t[i] = s[i]
  BY AppendProperties

\* The first of a row are the ones before and one more.
LEMMA UptoSteps ==
  ASSUME NEW S, NEW s \in Seq(S)
  PROVE  /\ Upto(s, 0) = <<>> /\ Upto(s, Len(s)) = s
         /\ \A k \in 0 .. Len(s) - 1 :
              /\ Upto(s, k) \in Seq(S) /\ s[k + 1] \in S
              /\ Upto(s, k + 1) = Append(Upto(s, k), s[k + 1])
  <1>n. PICK n : n = Len(s)
    OBVIOUS
  <1>1. n \in Nat /\ s = [i \in 1 .. n |-> s[i]] /\ \A i \in 1 .. n : s[i] \in S
    BY <1>n
  <1>2. Upto(s, 0) = <<>>
    BY DEF Upto
  <1>3. Upto(s, n) = s
    BY <1>1 DEF Upto
  <1>4. ASSUME NEW k \in 0 .. n - 1
        PROVE  /\ Upto(s, k) \in Seq(S) /\ s[k + 1] \in S
               /\ Upto(s, k + 1) = Append(Upto(s, k), s[k + 1])
    <2>1. Upto(s, k) \in Seq(S) /\ Len(Upto(s, k)) = k /\ s[k + 1] \in S
      <3>1. k \in Nat /\ k + 1 \in 1 .. n /\ \A j \in 1 .. k : j \in 1 .. n
        BY <1>1
      <3>2. \A j \in 1 .. k : s[j] \in S
        BY <1>1, <3>1, Zenon
      <3>3. Upto(s, k) \in Seq(S) /\ Len(Upto(s, k)) = k
        BY <3>1, <3>2 DEF Upto
      <3> QED BY <1>1, <3>1, <3>3, Zenon
    <2>t. PICK t : t = Append(Upto(s, k), s[k + 1])
      OBVIOUS
    <2>2. /\ t \in Seq(S) /\ Len(t) = k + 1 /\ t[k + 1] = s[k + 1]
          /\ \A i \in 1 .. k : t[i] = Upto(s, k)[i]
      BY <2>1, <2>t, AppendKeeps
    <2>3. ASSUME NEW i \in 1 .. k + 1 PROVE t[i] = s[i]
      <3>1. CASE i = k + 1
        BY <2>2, <3>1
      <3>2. CASE i # k + 1
        <4>1. i \in 1 .. k
          BY <1>1, <3>2
        <4> QED BY <2>2, <4>1 DEF Upto
      <3> QED BY <3>1, <3>2
    <2>4. t = [i \in 1 .. k + 1 |-> t[i]]
      BY <1>1, <2>2
    <2>5. t = Upto(s, k + 1)
      BY <2>3, <2>4 DEF Upto
    <2> QED BY <2>1, <2>5, <2>t, Zenon
  <1> QED BY <1>n, <1>2, <1>3, <1>4

\* A set that has the empty row and, with a row, each that is longer by one,
\* has all rows.
LEMMA RowInduction ==
  ASSUME NEW S, NEW T, <<>> \in T, \A s \in Seq(S) : s \in T => \A x \in S : Append(s, x) \in T
  PROVE  Seq(S) \subseteq T
  <1> SUFFICES ASSUME NEW s \in Seq(S) PROVE s \in T
    OBVIOUS
  <1>n. PICK n : n = Len(s)
    OBVIOUS
  <1> DEFINE P == {k \in 0 .. n : Upto(s, k) \in T}
  <1>1. n \in Nat /\ Upto(s, 0) = <<>> /\ Upto(s, n) = s
    BY <1>n, UptoSteps
  <1>2. 0 \in P
    BY <1>1
  <1>3. ASSUME NEW k \in 0 .. n - 1, k \in P PROVE k + 1 \in P
    <2>1. Upto(s, k) \in Seq(S) /\ s[k + 1] \in S
      BY <1>n, UptoSteps
    <2>2. Upto(s, k + 1) = Append(Upto(s, k), s[k + 1])
      BY <1>n, UptoSteps, Zenon
    <2>3. Upto(s, k) \in T
      BY <1>3
    <2>4. Append(Upto(s, k), s[k + 1]) \in T
      BY <2>1, <2>3, Zenon
    <2>5. Upto(s, k + 1) \in T
      BY <2>2, <2>4, Zenon
    <2>6. k + 1 \in 0 .. n
      BY <1>1
    <2> QED BY <2>5, <2>6
  <1>4. 0 .. n \subseteq P
    <2> HIDE DEF P
    <2> QED BY <1>1, <1>2, <1>3, UpTo
  <1>5. n \in P
    BY <1>1, <1>4
  <1> QED BY <1>1, <1>5

\* One row more is joined to the end.
LEMMA FlattenAppend ==
  ASSUME NEW S, NEW seqs \in Seq(Seq(S)), NEW s \in Seq(S)
  PROVE  FlattenSeq(Append(seqs, s)) = FlattenSeq(seqs) \o s
  <1>all. PICK all : all = Append(seqs, s)
    OBVIOUS
  <1>n. PICK n : n = Len(seqs)
    OBVIOUS
  <1>1. n \in Nat /\ all \in Seq(Seq(S)) /\ Len(all) = n + 1 /\ all[n + 1] = s
        /\ \A k \in 1 .. n : all[k] = seqs[k]
    BY <1>all, <1>n, AppendKeeps
  <1>f. PICK f : JoinsFirst(seqs, f, n, S) /\ FlattenSeq(seqs) = f[n]
    BY <1>n, FlattenIsJoined, Zenon
  <1>g. PICK g : JoinsFirst(all, g, n + 1, S) /\ FlattenSeq(all) = g[n + 1]
    BY <1>1, FlattenIsJoined, Zenon
  <1>2. f[0] = <<>> /\ \A k \in 1 .. n : f[k] = f[k - 1] \o seqs[k]
    BY <1>f, Zenon DEF JoinsFirst
  <1>3. g[0] = <<>> /\ \A k \in 1 .. n + 1 : g[k] = g[k - 1] \o all[k]
    BY <1>g, Zenon DEF JoinsFirst
  <1> DEFINE P == {k \in 0 .. n : g[k] = f[k]}
  <1>4. 0 \in P
    BY <1>1, <1>2, <1>3
  <1>5. ASSUME NEW k \in 0 .. n - 1, k \in P PROVE k + 1 \in P
    <2>m. PICK m : m = k + 1
      OBVIOUS
    <2>1. m \in 1 .. n /\ m \in 1 .. n + 1 /\ m - 1 = k /\ m \in 0 .. n
      BY <1>1, <2>m
    <2>2. g[k] = f[k]
      BY <1>5
    <2>3. g[m] = g[k] \o all[m] /\ f[m] = f[k] \o seqs[m] /\ all[m] = seqs[m]
      BY <1>1, <1>2, <1>3, <2>1, Zenon
    <2>4. g[m] = f[m]
      BY <2>2, <2>3, Zenon
    <2> QED BY <2>1, <2>4, <2>m
  <1>6. n \in P
    <2>1. 0 .. n \subseteq P
      <3> HIDE DEF P
      <3> QED BY <1>1, <1>4, <1>5, UpTo
    <2> QED BY <1>1, <2>1
  <1>7. g[n] = f[n]
    BY <1>6
  <1>8. g[n + 1] = g[n] \o all[n + 1]
    <2>1. n + 1 \in 1 .. n + 1 /\ (n + 1) - 1 = n
      BY <1>1
    <2> QED BY <1>3, <2>1, Zenon
  <1> QED BY <1>all, <1>f, <1>g, <1>1, <1>7, <1>8, Zenon

-----------------------------------------------------------------------------
(* A row spelled with a row for each of its elements                        *)

Spelled(h, s) == FlattenSeq([i \in DOMAIN s |-> h[s[i]]])

\* An element adds the row for it.
SpellsEach(h, A) ==
    \A s \in Seq(A), x \in A : Spelled(h, Append(s, x)) = Spelled(h, s) \o h[x]

\* What one element more adds to it.
LEMMA SpelledSteps ==
  ASSUME NEW A, NEW B, NEW h \in [A -> Seq(B)]
  PROVE  /\ Spelled(h, <<>>) = <<>>
         /\ \A s \in Seq(A) : Spelled(h, s) \in Seq(B)
         /\ SpellsEach(h, A)
  <1> DEFINE Row(s) == [i \in DOMAIN s |-> h[s[i]]]
  <1>1. ASSUME NEW s \in Seq(A)
        PROVE  Row(s) \in Seq(Seq(B)) /\ Len(Row(s)) = Len(s) /\ DOMAIN Row(s) = 1 .. Len(s)
    <2>n. PICK n : n = Len(s)
      OBVIOUS
    <2>1. n \in Nat /\ DOMAIN s = 1 .. n /\ \A i \in 1 .. n : s[i] \in A
      BY <2>n
    <2>2. \A i \in 1 .. n : h[s[i]] \in Seq(B)
      BY <2>1
    <2>3. Row(s) = [i \in 1 .. n |-> h[s[i]]]
      BY <2>1
    <2> HIDE DEF Row
    <2> QED BY <2>n, <2>1, <2>2, <2>3
  <1>2. Spelled(h, <<>>) = <<>>
    <2>1. Row(<<>>) = <<>>
      OBVIOUS
    <2>2. FlattenSeq(<<>>) = <<>>
      BY DEF FlattenSeq
    <2>3. Spelled(h, <<>>) = FlattenSeq(Row(<<>>))
      BY Zenon DEF Spelled
    <2> HIDE DEF Row
    <2> QED BY <2>1, <2>2, <2>3, Zenon
  <1>3. ASSUME NEW s \in Seq(A) PROVE Spelled(h, s) \in Seq(B)
    <2>1. Spelled(h, s) = FlattenSeq(Row(s))
      BY Zenon DEF Spelled
    <2>2. Row(s) \in Seq(Seq(B))
      BY <1>1
    <2> HIDE DEF Row
    <2> QED BY <2>1, <2>2, FlattenPlaces, Zenon
  <1>4. ASSUME NEW s \in Seq(A), NEW x \in A
        PROVE  Spelled(h, Append(s, x)) = Spelled(h, s) \o h[x]
    <2>t. PICK t : t = Append(s, x)
      OBVIOUS
    <2>1. /\ t \in Seq(A) /\ Len(t) = Len(s) + 1 /\ t[Len(s) + 1] = x
          /\ \A i \in 1 .. Len(s) : t[i] = s[i]
      BY <2>t, AppendKeeps
    <2>r. PICK r : r = Append(Row(s), h[x])
      OBVIOUS
    <2>2. Row(s) \in Seq(Seq(B)) /\ Len(Row(s)) = Len(s) /\ h[x] \in Seq(B)
      <3>1. h[x] \in Seq(B)
        OBVIOUS
      <3> HIDE DEF Row
      <3> QED BY <1>1, <3>1, Zenon
    <2>i. \A i \in 1 .. Len(s) : Row(s)[i] = h[s[i]]
      OBVIOUS
    <2>3. /\ r \in Seq(Seq(B)) /\ Len(r) = Len(s) + 1 /\ r[Len(s) + 1] = h[x]
          /\ \A i \in 1 .. Len(s) : r[i] = Row(s)[i]
      <3> HIDE DEF Row
      <3> QED BY <2>2, <2>r, AppendKeeps
    <2>4. Row(t) = r
      <3>1. ASSUME NEW i \in 1 .. Len(s) + 1 PROVE h[t[i]] = r[i]
        <4>1. CASE i = Len(s) + 1
          BY <2>1, <2>3, <4>1
        <4>2. CASE i # Len(s) + 1
          <5>1. i \in 1 .. Len(s)
            BY <4>2
          <5>2. r[i] = Row(s)[i] /\ Row(s)[i] = h[s[i]] /\ t[i] = s[i]
            <6> HIDE DEF Row
            <6> QED BY <2>1, <2>3, <2>i, <5>1
          <5> HIDE DEF Row
          <5> QED BY <5>2, Zenon
        <4> QED BY <4>1, <4>2
      <3>2. r = [i \in 1 .. Len(s) + 1 |-> r[i]] /\ DOMAIN t = 1 .. Len(s) + 1
        BY <2>1, <2>3
      <3> QED BY <3>1, <3>2
    <2>5. Spelled(h, t) = FlattenSeq(Row(t)) /\ Spelled(h, s) = FlattenSeq(Row(s))
      BY Zenon DEF Spelled
    <2> HIDE DEF Row
    <2>6. FlattenSeq(Append(Row(s), h[x])) = FlattenSeq(Row(s)) \o h[x]
      BY <2>2, FlattenAppend, Zenon
    <2> QED BY <2>t, <2>r, <2>4, <2>5, <2>6, Zenon
  <1>5. SpellsEach(h, A)
    BY <1>4, Zenon DEF SpellsEach
  <1> QED BY <1>2, <1>3, <1>5, Zenon

\* The spelling of one element more.
LEMMA SpelledAppend ==
  ASSUME NEW A, NEW B, NEW h \in [A -> Seq(B)], NEW s \in Seq(A), NEW x \in A
  PROVE  Spelled(h, Append(s, x)) = Spelled(h, s) \o h[x]
  <1>1. SpellsEach(h, A)
    BY SpelledSteps, Zenon
  <1> QED BY <1>1, Zenon DEF SpellsEach

\* Three rows are joined in either order.
Regrouped(a, b, c) == (a \o b) \o c = a \o (b \o c)

\* All rows are.
LEMMA Regroups ==
  ASSUME NEW B, NEW a \in Seq(B), NEW b \in Seq(B), NEW c \in Seq(B)
  PROVE  Regrouped(a, b, c)
  BY SMT DEF Regrouped

\* What is joined is spelled as its parts.
SpellsParts(h, A) ==
    \A s \in Seq(A), t \in Seq(A) : Spelled(h, s \o t) = Spelled(h, s) \o Spelled(h, t)

\* So are all rows.
LEMMA SpelledConcat ==
  ASSUME NEW A, NEW B, NEW h \in [A -> Seq(B)]
  PROVE  SpellsParts(h, A)
  <1> SUFFICES ASSUME NEW s \in Seq(A), NEW t \in Seq(A)
               PROVE  Spelled(h, s \o t) = Spelled(h, s) \o Spelled(h, t)
    BY DEF SpellsParts
  <1> DEFINE T == {r \in Seq(A) : Spelled(h, s \o r) = Spelled(h, s) \o Spelled(h, r)}
  <1>s. Spelled(h, s) \in Seq(B)
    BY SpelledSteps, Zenon
  <1>1. <<>> \in T
    <2>1. s \o <<>> = s /\ Spelled(h, s) \o <<>> = Spelled(h, s)
      BY <1>s, ConcatEmptySeq
    <2>2. Spelled(h, <<>>) = <<>>
      BY SpelledSteps, Zenon
    <2>3. Spelled(h, s \o <<>>) = Spelled(h, s) \o Spelled(h, <<>>)
      BY <2>1, <2>2, Zenon
    <2>4. <<>> \in Seq(A)
      OBVIOUS
    <2> QED BY <2>3, <2>4, Zenon
  <1>2. ASSUME NEW r \in Seq(A), r \in T, NEW x \in A PROVE Append(r, x) \in T
    <2>q. PICK q : q = s \o r
      OBVIOUS
    <2>1. q \in Seq(A) /\ h[x] \in Seq(B)
      BY <2>q
    <2>2. s \o Append(r, x) = Append(s \o r, x)
      OBVIOUS
    <2>3. Spelled(h, Append(q, x)) = Spelled(h, q) \o h[x]
      BY <2>1, SpelledAppend, Zenon
    <2>4. Spelled(h, q) = Spelled(h, s) \o Spelled(h, r)
      BY <1>2, <2>q, Zenon
    <2>5. Spelled(h, Append(r, x)) = Spelled(h, r) \o h[x] /\ Spelled(h, r) \in Seq(B)
      <3>1. Spelled(h, r) \in Seq(B)
        BY SpelledSteps, Zenon
      <3> QED BY <3>1, SpelledAppend, Zenon
    <2>6. (Spelled(h, s) \o Spelled(h, r)) \o h[x] = Spelled(h, s) \o (Spelled(h, r) \o h[x])
      <3>a. PICK a : a = Spelled(h, s)
        OBVIOUS
      <3>b. PICK b : b = Spelled(h, r)
        OBVIOUS
      <3>c. PICK c : c = h[x]
        OBVIOUS
      <3>1. a \in Seq(B) /\ b \in Seq(B) /\ c \in Seq(B)
        BY <1>s, <2>1, <2>5, <3>a, <3>b, <3>c, Zenon
      <3>2. Regrouped(a, b, c)
        BY <3>1, Regroups, Zenon
      <3> QED BY <3>a, <3>b, <3>c, <3>2, Zenon DEF Regrouped
    <2>7. Spelled(h, s \o Append(r, x)) = Spelled(h, s) \o Spelled(h, Append(r, x))
      BY <2>q, <2>2, <2>3, <2>4, <2>5, <2>6, Zenon
    <2>8. Append(r, x) \in Seq(A)
      OBVIOUS
    <2> QED BY <2>7, <2>8, Zenon
  <1>3. Seq(A) \subseteq T
    <2> HIDE DEF T
    <2> QED BY <1>1, <1>2, RowInduction, Zenon
  <1> QED BY <1>3, Zenon

\* Elements that stand for themselves are spelled as they are.
LEMMA SpelledSame ==
  ASSUME NEW A, NEW B, NEW h \in [A -> Seq(B)], NEW D \in SUBSET A,
         \A x \in D : h[x] = <<x>>, NEW s \in Seq(D)
  PROVE  Spelled(h, s) = s
  <1> DEFINE T == {r \in Seq(D) : Spelled(h, r) = r}
  <1>1. <<>> \in T
    BY SpelledSteps
  <1>2. ASSUME NEW r \in Seq(D), r \in T, NEW x \in D PROVE Append(r, x) \in T
    <2>1. r \in Seq(A) /\ x \in A /\ Append(r, x) \in Seq(D)
      OBVIOUS
    <2>2. Spelled(h, Append(r, x)) = Spelled(h, r) \o h[x]
      <3>1. SpellsEach(h, A)
        BY SpelledSteps, Zenon
      <3> QED BY <2>1, <3>1, Zenon DEF SpellsEach
    <2>3. Spelled(h, r) = r /\ h[x] = <<x>>
      BY <1>2
    <2>4. r \o <<x>> = Append(r, x)
      OBVIOUS
    <2> QED BY <2>1, <2>2, <2>3, <2>4, Zenon
  <1>3. Seq(D) \subseteq T
    <2> HIDE DEF T
    <2> QED BY <1>1, <1>2, RowInduction, Zenon
  <1> QED BY <1>3, Zenon

\* Joined rows are spelled as the rows are, and then joined.
SpellsRows(h, A) ==
    \A seqs \in Seq(Seq(A)) :
        Spelled(h, FlattenSeq(seqs)) = FlattenSeq([i \in DOMAIN seqs |-> Spelled(h, seqs[i])])

\* So are all rows of rows.
LEMMA SpelledFlat ==
  ASSUME NEW A, NEW B, NEW h \in [A -> Seq(B)]
  PROVE  SpellsRows(h, A)
  <1> SUFFICES ASSUME NEW seqs \in Seq(Seq(A))
               PROVE  Spelled(h, FlattenSeq(seqs))
                        = FlattenSeq([i \in DOMAIN seqs |-> Spelled(h, seqs[i])])
    BY Zenon DEF SpellsRows
  <1>g. PICK g : g = [s \in Seq(A) |-> Spelled(h, s)]
    OBVIOUS
  <1>1. g \in [Seq(A) -> Seq(B)] /\ \A s \in Seq(A) : g[s] = Spelled(h, s)
    <2>1. \A s \in Seq(A) : Spelled(h, s) \in Seq(B)
      BY SpelledSteps, Zenon
    <2> QED BY <1>g, <2>1
  <1>h. SpellsParts(h, A)
    BY SpelledConcat
  <1> DEFINE T == {r \in Seq(Seq(A)) : Spelled(h, FlattenSeq(r)) = Spelled(g, r)}
  <1>2. <<>> \in T
    <2>1. FlattenSeq(<<>>) = <<>>
      BY DEF FlattenSeq
    <2>2. Spelled(h, <<>>) = <<>> /\ Spelled(g, <<>>) = <<>>
      BY <1>1, SpelledSteps, Zenon
    <2>3. <<>> \in Seq(Seq(A))
      OBVIOUS
    <2> QED BY <2>1, <2>2, <2>3, Zenon
  <1>3. ASSUME NEW r \in Seq(Seq(A)), r \in T, NEW s \in Seq(A) PROVE Append(r, s) \in T
    <2>1. FlattenSeq(Append(r, s)) = FlattenSeq(r) \o s /\ FlattenSeq(r) \in Seq(A)
      BY FlattenAppend, FlattenPlaces, Zenon
    <2>2. Spelled(h, FlattenSeq(r) \o s) = Spelled(h, FlattenSeq(r)) \o Spelled(h, s)
      <3>a. PICK a : a = FlattenSeq(r)
        OBVIOUS
      <3>1. a \in Seq(A)
        BY <2>1, <3>a, Zenon
      <3>2. Spelled(h, a \o s) = Spelled(h, a) \o Spelled(h, s)
        BY <1>h, <3>1, Zenon DEF SpellsParts
      <3> QED BY <3>a, <3>2, Zenon
    <2>3. Spelled(g, Append(r, s)) = Spelled(g, r) \o g[s]
      <3>1. SpellsEach(g, Seq(A))
        BY <1>1, SpelledSteps, Zenon
      <3> QED BY <3>1, Zenon DEF SpellsEach
    <2>4. Spelled(h, FlattenSeq(r)) = Spelled(g, r) /\ g[s] = Spelled(h, s)
      BY <1>1, <1>3, Zenon
    <2>5. Append(r, s) \in Seq(Seq(A))
      OBVIOUS
    <2> QED BY <2>1, <2>2, <2>3, <2>4, <2>5, Zenon
  <1>4. seqs \in T
    <2> HIDE DEF T
    <2> QED BY <1>2, <1>3, RowInduction, Zenon
  <1>5. [i \in DOMAIN seqs |-> g[seqs[i]]] = [i \in DOMAIN seqs |-> Spelled(h, seqs[i])]
    <2>1. \A i \in DOMAIN seqs : seqs[i] \in Seq(A)
      OBVIOUS
    <2> QED BY <1>1, <2>1, Zenon
  <1> QED BY <1>4, <1>5, Zenon DEF Spelled
=============================================================================
