------------------------------ MODULE ListLemmas ------------------------------
(***************************************************************************)
(* What filtering a list keeps, for lists of every length.  The provers    *)
(* cannot instantiate the library's induction theorems, whose parameter is *)
(* an operator; the inductions here rest on a set of counterexamples       *)
(* having a least element, which is a statement about sets alone.          *)
(***************************************************************************)
EXTENDS Filtering, SequenceTheorems, WellFoundedInduction, TLAPS

(* A non-empty set of naturals has a least element. *)
LEMMA LeastNatural ==
    ASSUME NEW T, T \subseteq Nat, T # {}
    PROVE  \E x \in T : \A y \in T : x <= y
<1>1. IsWellFoundedOn({ss \in Nat \X Nat : ss[1] < ss[2]}, Nat)
  BY NatLessThanWellFounded DEF OpToRel
<1>2. PICK x \in T : \A y \in T : ~(<< y, x >> \in {ss \in Nat \X Nat : ss[1] < ss[2]})
  BY <1>1, WFMin
<1>3. \A y \in T : x <= y
  <2> SUFFICES ASSUME NEW y \in T
               PROVE  x <= y
    OBVIOUS
  <2>1. x \in Nat /\ y \in Nat
    OBVIOUS
  <2>2. << y, x >> \in Nat \X Nat => ~(y < x)
    BY <1>2, Zenon
  <2> QED BY <2>1, <2>2
<1> QED BY <1>3

(* Induction, for a property given as the set of its numbers. *)
LEMMA NaturalInduction ==
    ASSUME NEW T, T \subseteq Nat, 0 \in T, \A n \in Nat : n \in T => n + 1 \in T
    PROVE  T = Nat
<1> DEFINE missing == Nat \ T
<1>1. ASSUME missing # {} PROVE FALSE
  <2>1. PICK n \in missing : \A m \in missing : n <= m
    BY <1>1, LeastNatural
  <2>2. n # 0 /\ n - 1 \in Nat /\ n - 1 \in T
    <3>1. n \in Nat /\ n # 0
      OBVIOUS
    <3>2. n - 1 \in Nat /\ ~(n <= n - 1)
      BY <3>1
    <3> QED BY <2>1, <3>1, <3>2
  <2>3. (n - 1) + 1 = n
    OBVIOUS
  <2> QED BY <2>2, <2>3
<1> QED BY <1>1

(***************************************************************************)
(* The list filtered up to each of its elements.                           *)
(***************************************************************************)
Filtered(kept, list, keep, n) ==
    /\ kept[0] = << >>
    /\ \A i \in 1 .. n :
          kept[i] = IF list[i] \in keep THEN Append(kept[i - 1], list[i]) ELSE kept[i - 1]

(* The recursion is well-founded: some function satisfies it. *)
LEMMA FilteredExists ==
    ASSUME NEW S, NEW list \in Seq(S), NEW keep
    PROVE  \E kept \in [0 .. Len(list) -> Seq(S)] : Filtered(kept, list, keep, Len(list))
<1> DEFINE T == { n \in Nat : n <= Len(list) =>
                     \E kept \in [0 .. n -> Seq(S)] : Filtered(kept, list, keep, n) }
<1>1. 0 \in T
  <2>1. [i \in 0 .. 0 |-> << >>] \in [0 .. 0 -> Seq(S)]
    OBVIOUS
  <2>2. Filtered([i \in 0 .. 0 |-> << >>], list, keep, 0)
    BY DEF Filtered
  <2> QED BY <2>1, <2>2
<1>2. ASSUME NEW n \in Nat, n \in T PROVE n + 1 \in T
  <2> SUFFICES ASSUME n + 1 <= Len(list)
               PROVE  \E kept \in [0 .. n + 1 -> Seq(S)] : Filtered(kept, list, keep, n + 1)
    OBVIOUS
  <2>1. PICK kept \in [0 .. n -> Seq(S)] : Filtered(kept, list, keep, n)
    BY <1>2
  <2> DEFINE next == IF list[n + 1] \in keep THEN Append(kept[n], list[n + 1]) ELSE kept[n]
             longer == [i \in 0 .. n + 1 |-> IF i = n + 1 THEN next ELSE kept[i]]
  <2>2. next \in Seq(S)
    <3>1. kept[n] \in Seq(S) /\ list[n + 1] \in S
      OBVIOUS
    <3> QED BY <3>1
  <2>3. longer \in [0 .. n + 1 -> Seq(S)]
    BY <2>2
  <2>4. Filtered(longer, list, keep, n + 1)
    <3> HIDE DEF next
    <3>1. longer[0] = << >>
      BY <2>1 DEF Filtered
    <3>2. ASSUME NEW i \in 1 .. n + 1
          PROVE  longer[i] = IF list[i] \in keep THEN Append(longer[i - 1], list[i])
                             ELSE longer[i - 1]
      <4>1. CASE i = n + 1
        <5>1. longer[i] = next /\ longer[i - 1] = kept[n]
          BY <4>1
        <5> QED BY <4>1, <5>1 DEF next
      <4>2. CASE i \in 1 .. n
        <5>1. longer[i] = kept[i] /\ longer[i - 1] = kept[i - 1]
          BY <4>2
        <5> QED BY <2>1, <4>2, <5>1 DEF Filtered
      <4> QED BY <4>1, <4>2
    <3> QED BY <3>1, <3>2 DEF Filtered
  <2> QED BY <2>3, <2>4
<1>3. T = Nat
  <2> HIDE DEF T
  <2>1. T \subseteq Nat
    BY DEF T
  <2> QED BY <1>1, <1>2, <2>1, NaturalInduction
<1>4. Len(list) \in T
  BY <1>3
<1> QED BY <1>4

(* Hence Filter computes what its recursion says. *)
LEMMA FilterFollowsRecursion ==
    ASSUME NEW S, NEW list \in Seq(S), NEW keep
    PROVE  \E kept \in [0 .. Len(list) -> Seq(S)] :
              Filtered(kept, list, keep, Len(list)) /\ Filter(list, keep) = kept[Len(list)]
<1> DEFINE At(kept, i) == IF i = 0 THEN << >>
                          ELSE IF list[i] \in keep THEN Append(kept[i - 1], list[i])
                          ELSE kept[i - 1]
           Body(kept) == [i \in 0 .. Len(list) |-> At(kept, i)]
           chosen == CHOOSE kept : kept = Body(kept)
<1>0. Len(list) \in Nat
  OBVIOUS
<1>1. PICK kept \in [0 .. Len(list) -> Seq(S)] : Filtered(kept, list, keep, Len(list))
  BY FilteredExists
<1>2. kept = Body(kept)
  <2>1. ASSUME NEW i \in 0 .. Len(list) PROVE kept[i] = At(kept, i)
    <3>1. i = 0 \/ i \in 1 .. Len(list)
      BY <1>0
    <3> QED BY <1>1, <3>1 DEF Filtered
  <2> HIDE DEF At
  <2> QED BY <2>1
<1>3. chosen = Body(chosen)
  <2> HIDE DEF Body
  <2> QED BY <1>2
<1>4. Filter(list, keep) = chosen[Len(list)]
  BY DEF Filter
<1> HIDE DEF chosen
<1>5. DOMAIN chosen = 0 .. Len(list) /\ chosen[0] = << >>
  BY <1>0, <1>3
<1>6. \A i \in 1 .. Len(list) :
          chosen[i] = IF list[i] \in keep THEN Append(chosen[i - 1], list[i]) ELSE chosen[i - 1]
  <2> SUFFICES ASSUME NEW i \in 1 .. Len(list)
               PROVE  chosen[i] = IF list[i] \in keep THEN Append(chosen[i - 1], list[i])
                                  ELSE chosen[i - 1]
    OBVIOUS
  <2>1. i \in 0 .. Len(list) /\ i # 0
    BY <1>0
  <2>2. chosen[i] = At(chosen, i)
    <3> HIDE DEF At
    <3> QED BY <1>3, <2>1
  <2> QED BY <2>1, <2>2
<1>7. Filtered(chosen, list, keep, Len(list))
  BY <1>5, <1>6 DEF Filtered
<1>8. chosen \in [0 .. Len(list) -> Seq(S)]
  <2> DEFINE T == { n \in Nat : n <= Len(list) => chosen[n] \in Seq(S) }
  <2>1. 0 \in T
    BY <1>5
  <2>2. ASSUME NEW n \in Nat, n \in T PROVE n + 1 \in T
    <3> SUFFICES ASSUME n + 1 <= Len(list) PROVE chosen[n + 1] \in Seq(S)
      OBVIOUS
    <3>1. chosen[n] \in Seq(S) /\ list[n + 1] \in S /\ n + 1 \in 1 .. Len(list)
      BY <2>2, <1>0
    <3>2. chosen[n + 1] = IF list[n + 1] \in keep THEN Append(chosen[n], list[n + 1])
                          ELSE chosen[n]
      BY <1>6, <3>1
    <3> QED BY <3>1, <3>2
  <2>3. T = Nat
    <3> HIDE DEF T
    <3>1. T \subseteq Nat
      BY DEF T
    <3> QED BY <2>1, <2>2, <3>1, NaturalInduction
  <2>4. \A n \in 0 .. Len(list) : chosen[n] \in Seq(S)
    BY <1>0, <2>3
  <2>5. chosen = [i \in 0 .. Len(list) |-> chosen[i]]
    BY <1>3, <1>5
  <2> QED BY <2>4, <2>5
<1> QED BY <1>4, <1>7, <1>8

(***************************************************************************)
(* What is left is the list at the places that hold an element to keep, in *)
(* the order of the list.                                                  *)
(***************************************************************************)
Selects(place, short, list, keep, n) ==
    /\ place \in [1 .. Len(short) -> 1 .. n]
    /\ \A i, j \in 1 .. Len(short) : i < j => place[i] < place[j]
    /\ \A i \in 1 .. Len(short) : short[i] = list[place[i]] /\ short[i] \in keep
    /\ \A j \in 1 .. n : list[j] \in keep => \E i \in 1 .. Len(short) : place[i] = j

(* An element to keep is put at the end, *)
LEMMA SelectsOneMore ==
    ASSUME NEW S, NEW list \in Seq(S), NEW keep, NEW n \in Nat, n + 1 <= Len(list),
           NEW short \in Seq(S), NEW place, Selects(place, short, list, keep, n),
           list[n + 1] \in keep
    PROVE  \E more : Selects(more, Append(short, list[n + 1]), list, keep, n + 1)
<1> DEFINE x == list[n + 1]
           k == Len(short)
           more == [i \in 1 .. k + 1 |-> IF i = k + 1 THEN n + 1 ELSE place[i]]
<1>1. x \in S /\ k \in Nat
  OBVIOUS
<1>2. /\ Len(Append(short, x)) = k + 1
      /\ Append(short, x)[k + 1] = x
      /\ \A i \in 1 .. k : Append(short, x)[i] = short[i]
  BY <1>1
<1>3. \A i \in 1 .. k : place[i] \in 1 .. n /\ more[i] = place[i]
  BY <1>1 DEF Selects
<1>4. more[k + 1] = n + 1
  BY <1>1
<1>5. more \in [1 .. k + 1 -> 1 .. n + 1]
  <2>1. ASSUME NEW i \in 1 .. k + 1 PROVE more[i] \in 1 .. n + 1
    <3>1. i = k + 1 \/ i \in 1 .. k
      BY <1>1
    <3>2. 1 .. n \subseteq 1 .. n + 1 /\ n + 1 \in 1 .. n + 1
      OBVIOUS
    <3> HIDE DEF more
    <3> QED BY <1>3, <1>4, <3>1, <3>2
  <2>2. more = [i \in 1 .. k + 1 |-> more[i]]
    OBVIOUS
  <2> HIDE DEF more
  <2> QED BY <2>1, <2>2
<1> HIDE DEF more
<1>6. \A i, j \in 1 .. k + 1 : i < j => more[i] < more[j]
  <2> SUFFICES ASSUME NEW i \in 1 .. k + 1, NEW j \in 1 .. k + 1, i < j
               PROVE  more[i] < more[j]
    OBVIOUS
  <2>1. i \in 1 .. k
    BY <1>1
  <2>2. CASE j = k + 1
    BY <1>3, <1>4, <2>1, <2>2
  <2>3. CASE j \in 1 .. k
    BY <1>3, <2>1, <2>3 DEF Selects
  <2> QED BY <1>1, <2>2, <2>3
<1>7. ASSUME NEW i \in 1 .. k + 1
      PROVE  Append(short, x)[i] = list[more[i]] /\ Append(short, x)[i] \in keep
  <2>1. CASE i = k + 1
    BY <2>1, <1>2, <1>4
  <2>2. CASE i \in 1 .. k
    BY <2>2, <1>2, <1>3 DEF Selects
  <2> QED BY <1>1, <2>1, <2>2
<1>8. ASSUME NEW j \in 1 .. n + 1, list[j] \in keep
      PROVE  \E i \in 1 .. k + 1 : more[i] = j
  <2>1. CASE j = n + 1
    BY <2>1, <1>1, <1>4
  <2>2. CASE j \in 1 .. n
    <3>1. PICK i \in 1 .. k : place[i] = j
      BY <2>2, <1>8 DEF Selects
    <3>2. i \in 1 .. k + 1
      BY <1>1
    <3> QED BY <1>3, <3>1, <3>2
  <2> QED BY <2>1, <2>2
<1>9. Selects(more, Append(short, x), list, keep, n + 1)
  BY <1>2, <1>5, <1>6, <1>7, <1>8 DEF Selects
<1> QED BY <1>9

(* any other is passed over. *)
LEMMA SelectsNoMore ==
    ASSUME NEW S, NEW list \in Seq(S), NEW keep, NEW n \in Nat, n + 1 <= Len(list),
           NEW short \in Seq(S), NEW place, Selects(place, short, list, keep, n),
           list[n + 1] \notin keep
    PROVE  Selects(place, short, list, keep, n + 1)
<1>1. 1 .. n \subseteq 1 .. n + 1 /\ Len(short) \in Nat
  OBVIOUS
<1>2. place \in [1 .. Len(short) -> 1 .. n + 1]
  BY <1>1 DEF Selects
<1>3. \A j \in 1 .. n + 1 : list[j] \in keep => j \in 1 .. n
  OBVIOUS
<1> QED BY <1>2, <1>3 DEF Selects

(* Filtering selects, at whatever places those are. *)
LEMMA FilterSelects ==
    ASSUME NEW S, NEW list \in Seq(S), NEW keep
    PROVE  /\ Filter(list, keep) \in Seq(S)
           /\ \E place : Selects(place, Filter(list, keep), list, keep, Len(list))
<1>1. PICK kept \in [0 .. Len(list) -> Seq(S)] :
          Filtered(kept, list, keep, Len(list)) /\ Filter(list, keep) = kept[Len(list)]
  BY FilterFollowsRecursion
<1> DEFINE T == { n \in Nat : n <= Len(list) =>
                     \E place : Selects(place, kept[n], list, keep, n) }
<1>2. 0 \in T
  <2>1. kept[0] = << >> /\ Len(<< >>) = 0
    BY <1>1 DEF Filtered
  <2>2. Selects(<< >>, kept[0], list, keep, 0)
    <3>1. 1 .. 0 = {}
      OBVIOUS
    <3>2. << >> \in [1 .. 0 -> 1 .. 0]
      BY <3>1
    <3> QED BY <2>1, <3>1, <3>2 DEF Selects
  <2> QED BY <2>2
<1>3. ASSUME NEW n \in Nat, n \in T PROVE n + 1 \in T
  <2> SUFFICES ASSUME n + 1 <= Len(list)
               PROVE  \E place : Selects(place, kept[n + 1], list, keep, n + 1)
    OBVIOUS
  <2>1. PICK place : Selects(place, kept[n], list, keep, n)
    BY <1>3
  <2>2. kept[n] \in Seq(S) /\ n + 1 \in 1 .. Len(list)
    OBVIOUS
  <2>3. kept[n + 1] = IF list[n + 1] \in keep THEN Append(kept[n], list[n + 1]) ELSE kept[n]
    <3>1. (n + 1) - 1 = n
      OBVIOUS
    <3> QED BY <1>1, <2>2, <3>1 DEF Filtered
  <2>4. CASE list[n + 1] \in keep
    <3>1. kept[n + 1] = Append(kept[n], list[n + 1])
      BY <2>3, <2>4
    <3> QED BY <2>1, <2>2, <2>4, <3>1, SelectsOneMore
  <2>5. CASE list[n + 1] \notin keep
    BY <2>1, <2>2, <2>3, <2>5, SelectsNoMore
  <2> QED BY <2>4, <2>5
<1>4. T = Nat
  <2> HIDE DEF T
  <2>1. T \subseteq Nat
    BY DEF T
  <2> QED BY <1>2, <1>3, <2>1, NaturalInduction
<1>5. Len(list) \in T
  BY <1>4
<1> QED BY <1>1, <1>5

(* Nothing to keep is lost and nothing else is left. *)
LEMMA FilterMembers ==
    ASSUME NEW S, NEW list \in Seq(S), NEW keep, NEW x
    PROVE  (\E i \in 1 .. Len(Filter(list, keep)) : Filter(list, keep)[i] = x)
               <=> x \in keep /\ \E j \in 1 .. Len(list) : list[j] = x
<1> DEFINE short == Filter(list, keep)
<1>1. PICK place : Selects(place, short, list, keep, Len(list))
  BY FilterSelects
<1> HIDE DEF short
<1>2. \A i \in 1 .. Len(short) : /\ place[i] \in 1 .. Len(list)
                                 /\ short[i] = list[place[i]] /\ short[i] \in keep
  BY <1>1 DEF Selects
<1>3. \A j \in 1 .. Len(list) : list[j] \in keep => \E i \in 1 .. Len(short) : place[i] = j
  BY <1>1 DEF Selects
<1>4. (\E i \in 1 .. Len(short) : short[i] = x)
          <=> x \in keep /\ \E j \in 1 .. Len(list) : list[j] = x
  BY <1>2, <1>3
<1> QED BY <1>4 DEF short

(***************************************************************************)
(* The last elements of a list stay the last ones when all of them are to  *)
(* be kept.                                                                *)
(***************************************************************************)
LEMMA FilterKeepsEnd ==
    ASSUME NEW S, NEW list \in Seq(S), NEW keep, NEW t \in 0 .. Len(list),
           \A k \in 0 .. t - 1 : list[Len(list) - k] \in keep
    PROVE  LET short == Filter(list, keep)
           IN  /\ short \in Seq(S) /\ t <= Len(short) /\ Len(short) <= Len(list)
               /\ \A k \in 0 .. t - 1 : short[Len(short) - k] = list[Len(list) - k]
<1> DEFINE n == Len(list)
           Ends(m, kept) ==
               /\ m <= Len(kept[(n - t) + m])
               /\ \A k \in 0 .. m - 1 :
                     kept[(n - t) + m][Len(kept[(n - t) + m]) - k] = list[((n - t) + m) - k]
<1>0. n \in Nat /\ t \in Nat /\ n - t \in Nat /\ (n - t) + t = n
  OBVIOUS
<1>1. PICK kept \in [0 .. n -> Seq(S)] :
          Filtered(kept, list, keep, n) /\ Filter(list, keep) = kept[n]
  BY FilterFollowsRecursion
<1>2. \A i \in 0 .. n : kept[i] \in Seq(S) /\ Len(kept[i]) \in Nat
  OBVIOUS
<1>3. ASSUME NEW i \in Nat, i + 1 <= n
      PROVE  kept[i + 1] = IF list[i + 1] \in keep THEN Append(kept[i], list[i + 1]) ELSE kept[i]
  <2>1. i + 1 \in 1 .. n /\ (i + 1) - 1 = i
    BY <1>0, <1>3
  <2> QED BY <1>1, <2>1 DEF Filtered
<1>4. Len(kept[n]) <= n
  <2> DEFINE T == { i \in Nat : i <= n => Len(kept[i]) <= i }
  <2>1. 0 \in T
    BY <1>1 DEF Filtered
  <2>2. ASSUME NEW i \in Nat, i \in T PROVE i + 1 \in T
    <3> SUFFICES ASSUME i + 1 <= n PROVE Len(kept[i + 1]) <= i + 1
      OBVIOUS
    <3>1. /\ kept[i] \in Seq(S) /\ list[i + 1] \in S /\ Len(kept[i]) <= i
          /\ Len(kept[i]) \in Nat
      BY <1>0, <1>2, <2>2
    <3>2. Len(Append(kept[i], list[i + 1])) = Len(kept[i]) + 1
      BY <3>1
    <3>3. Len(kept[i + 1]) \in {Len(kept[i]) + 1, Len(kept[i])}
      BY <1>3, <3>2, Zenon
    <3> QED BY <3>1, <3>3
  <2>3. T = Nat
    <3> HIDE DEF T
    <3>1. T \subseteq Nat
      BY DEF T
    <3> QED BY <2>1, <2>2, <3>1, NaturalInduction
  <2> QED BY <1>0, <2>3
<1>5. Ends(t, kept)
  <2> DEFINE T == { m \in Nat : m <= t => Ends(m, kept) }
  <2>1. 0 \in T
    BY <1>0, <1>2
  <2>2. ASSUME NEW m \in Nat, m \in T PROVE m + 1 \in T
    <3> SUFFICES ASSUME m + 1 <= t PROVE Ends(m + 1, kept)
      OBVIOUS
    <3> DEFINE i == (n - t) + m
    <3>1. i \in Nat /\ i + 1 <= n /\ i + 1 = (n - t) + (m + 1) /\ i \in 0 .. n
      BY <1>0
    <3>2. Ends(m, kept)
      BY <2>2
    <3>3. list[i + 1] \in keep /\ list[i + 1] \in S
      <4>1. t - (m + 1) \in 0 .. t - 1 /\ n - (t - (m + 1)) = i + 1
        BY <1>0
      <4>2. list[n - (t - (m + 1))] \in keep
        BY <4>1
      <4>3. i + 1 \in 1 .. Len(list)
        BY <3>1
      <4> QED BY <4>1, <4>2, <4>3
    <3> HIDE DEF i
    <3>4. kept[i + 1] = Append(kept[i], list[i + 1])
      BY <1>3, <3>1, <3>3
    <3>5. /\ Len(kept[i + 1]) = Len(kept[i]) + 1
          /\ kept[i + 1][Len(kept[i]) + 1] = list[i + 1]
          /\ \A j \in 1 .. Len(kept[i]) : kept[i + 1][j] = kept[i][j]
      BY <1>2, <3>1, <3>3, <3>4
    <3>6. /\ m <= Len(kept[i]) /\ Len(kept[i]) \in Nat
          /\ \A k \in 0 .. m - 1 : kept[i][Len(kept[i]) - k] = list[i - k]
      BY <1>2, <3>1, <3>2 DEF i
    <3>7. ASSUME NEW k \in 0 .. (m + 1) - 1
          PROVE  kept[i + 1][Len(kept[i + 1]) - k] = list[(i + 1) - k]
      <4>1. CASE k = 0
        BY <3>1, <3>5, <3>6, <4>1
      <4>2. CASE k # 0
        <5>1. /\ k - 1 \in 0 .. m - 1
              /\ Len(kept[i]) - (k - 1) \in 1 .. Len(kept[i])
              /\ Len(kept[i + 1]) - k = Len(kept[i]) - (k - 1)
              /\ (i + 1) - k = i - (k - 1)
          BY <3>1, <3>5, <3>6, <4>2
        <5> QED BY <3>5, <3>6, <5>1
      <4> QED BY <4>1, <4>2
    <3>8. m + 1 <= Len(kept[i + 1])
      BY <3>5, <3>6
    <3> QED BY <3>1, <3>7, <3>8
  <2>3. T = Nat
    <3> HIDE DEF T
    <3>1. T \subseteq Nat
      BY DEF T
    <3> QED BY <2>1, <2>2, <3>1, NaturalInduction
  <2>4. t \in T
    BY <1>0, <2>3
  <2> HIDE DEF Ends
  <2> QED BY <2>4, <1>0
<1>6. (n - t) + t = n
  BY <1>0
<1> QED BY <1>0, <1>1, <1>2, <1>4, <1>5, <1>6

(* A list between two of one element each. *)
Between(A, f, Z) == (A \o f) \o Z

(* Where its elements are found. *)
LEMMA Around ==
    ASSUME NEW A \in Seq(Int), NEW Z \in Seq(Int), Len(A) = 1, Len(Z) = 1,
           NEW f \in Seq(Int)
    PROVE  /\ Between(A, f, Z) \in Seq(Int) /\ Len(Between(A, f, Z)) = Len(f) + 2
           /\ Between(A, f, Z)[1] = A[1] /\ Between(A, f, Z)[Len(f) + 2] = Z[1]
           /\ \A i \in 1 .. Len(f) : Between(A, f, Z)[i + 1] = f[i]
<1> DEFINE h == A \o f
           x == h \o Z
<1>1. Len(f) \in Nat /\ Len(A) = 1 /\ Len(Z) = 1
  OBVIOUS
<1>2a. h \in Seq(Int)
  BY <1>1, ConcatProperties
<1>2. /\ Len(h) = Len(A) + Len(f)
      /\ \A i \in 1 .. Len(A) + Len(f) : h[i] = IF i <= Len(A) THEN A[i] ELSE f[i - Len(A)]
  BY <1>1, ConcatProperties, Zenon
<1> HIDE DEF h
<1>3. h[1] = A[1] /\ \A i \in 1 .. Len(f) : h[i + 1] = f[i]
  <2>1. h[1] = A[1]
    BY <1>1, <1>2
  <2>2. ASSUME NEW i \in 1 .. Len(f) PROVE h[i + 1] = f[i]
    <3>1. i + 1 \in 1 .. Len(A) + Len(f) /\ ~(i + 1 <= Len(A)) /\ (i + 1) - Len(A) = i
      BY <1>1
    <3> QED BY <1>2, <3>1
  <2> QED BY <1>1, <2>1, <2>2
<1>4a. x \in Seq(Int)
  BY <1>2a, ConcatProperties
<1>4. /\ Len(x) = Len(h) + Len(Z)
      /\ \A i \in 1 .. Len(h) + Len(Z) : x[i] = IF i <= Len(h) THEN h[i] ELSE Z[i - Len(h)]
  BY <1>2a, ConcatProperties, Zenon
<1>9. x = Between(A, f, Z)
  BY DEF Between, x, h
<1> HIDE DEF x
<1>5. x \in Seq(Int) /\ Len(x) = Len(f) + 2
  BY <1>1, <1>2, <1>4, <1>4a
<1>6. \A i \in 1 .. Len(f) + 1 : x[i] = h[i]
  BY <1>1, <1>2, <1>4
<1>7. x[Len(f) + 2] = Z[1]
  <2>1. Len(f) + 2 \in 1 .. Len(h) + Len(Z) /\ ~(Len(f) + 2 <= Len(h)) /\ (Len(f) + 2) - Len(h) = 1
    BY <1>1, <1>2
  <2> QED BY <1>1, <1>4, <2>1
<1>8. x[1] = A[1] /\ \A i \in 1 .. Len(f) : x[i + 1] = f[i]
  <2>1. 1 \in 1 .. Len(f) + 1
    BY <1>1
  <2>2. \A i \in 1 .. Len(f) : i + 1 \in 1 .. Len(f) + 1
    BY <1>1
  <2> QED BY <1>3, <1>6, <2>1, <2>2, Zenon
<1>10. Between(A, f, Z) \in Seq(Int) /\ Len(Between(A, f, Z)) = Len(f) + 2
  BY <1>5, <1>9, Zenon
<1>11. Between(A, f, Z)[1] = A[1] /\ Between(A, f, Z)[Len(f) + 2] = Z[1]
  BY <1>7, <1>8, <1>9, Zenon
<1>12. \A i \in 1 .. Len(f) : Between(A, f, Z)[i + 1] = f[i]
  BY <1>8, <1>9, Zenon
<1> QED BY <1>10, <1>11, <1>12
=============================================================================
