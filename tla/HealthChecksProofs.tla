-------------------------- MODULE HealthChecksProofs --------------------------
(***************************************************************************)
(* Every unit of a bunch is watched, unless it is excused, for every set   *)
(* of addresses, number of units, starts, updates, failures and checks.    *)
(* The proof counts: the units at an address on one side, the tasks, the   *)
(* failures and the reports that stand for them on the other.              *)
(***************************************************************************)
EXTENDS HealthChecks, SequenceTheorems, FiniteSetTheorems, TLAPS

-----------------------------------------------------------------------------
(* How many units of a vector are at an address.                             *)

Number(units, a) == Cardinality(At(units, a))

LEMMA AtFinite ==
  ASSUME NEW units \in Seq(Unit), NEW a
  PROVE  /\ At(units, a) \subseteq 1..Len(units)
         /\ IsFiniteSet(At(units, a)) /\ Number(units, a) \in Nat
         /\ Number(units, a) = 0 <=> At(units, a) = {}
<1>1. At(units, a) \subseteq 1..Len(units) /\ Len(units) \in Nat
  BY DEF At
<1>2. IsFiniteSet(At(units, a))
  <2>1. IsFiniteSet(1..Len(units))
    BY <1>1, FS_Interval
  <2> QED BY <1>1, <2>1, FS_Subset
<1> QED BY <1>1, <1>2, FS_CardinalityType, FS_EmptySet DEF Number

LEMMA EmptyNumber ==
  ASSUME NEW a
  PROVE  <<>> \in Seq(Unit) /\ At(<<>>, a) = {} /\ Number(<<>>, a) = 0
BY FS_EmptySet DEF At, Number

LEMMA AppendNumber ==
  ASSUME NEW units \in Seq(Unit), NEW a, NEW x \in Addrs
  PROVE  /\ Append(units, NewUnit(x)) \in Seq(Unit)
         /\ Number(Append(units, NewUnit(x)), a) =
               Number(units, a) + IF x = a THEN 1 ELSE 0
<1> DEFINE more == Append(units, NewUnit(x))
<1>1. /\ NewUnit(x) \in Unit /\ NewUnit(x).addr = x
      /\ Len(units) \in Nat /\ DOMAIN units = 1..Len(units)
  BY DEF NewUnit, Unit
<1>2. /\ more \in Seq(Unit) /\ DOMAIN more = 1..(Len(units) + 1)
      /\ \A i \in 1..Len(units) : more[i] = units[i]
      /\ more[Len(units) + 1] = NewUnit(x)
  BY <1>1, AppendProperties
<1> HIDE DEF more
<1>3. At(more, a) = IF x = a THEN At(units, a) \cup {Len(units) + 1}
                             ELSE At(units, a)
  BY <1>1, <1>2 DEF At
<1>4. Len(units) + 1 \notin At(units, a)
  BY <1>1, AtFinite
<1>5. Number(more, a) = Number(units, a) + IF x = a THEN 1 ELSE 0
  <2>1. IsFiniteSet(At(units, a)) /\ Cardinality(At(units, a)) \in Nat
    BY AtFinite DEF Number
  <2>2. CASE x = a
    <3>1. Cardinality(At(units, a) \cup {Len(units) + 1}) = Cardinality(At(units, a)) + 1
      BY <1>4, <2>1, FS_AddElement
    <3> QED BY <1>3, <2>1, <2>2, <3>1 DEF Number
  <2>3. CASE x # a
    BY <1>3, <2>1, <2>3 DEF Number
  <2> QED BY <2>2, <2>3
<1> QED BY <1>2, <1>5 DEF more

\* An element is removed from a vector.
LEMMA RemoveProperties ==
  ASSUME NEW units \in Seq(Unit), NEW k \in DOMAIN units
  PROVE  /\ RemoveAt(units, k) \in Seq(Unit)
         /\ DOMAIN RemoveAt(units, k) = 1..(Len(units) - 1)
         /\ \A i \in 1..(Len(units) - 1) :
               RemoveAt(units, k)[i] = units[IF i < k THEN i ELSE i + 1]
<1> DEFINE l == SubSeq(units, 1, k - 1)
           r == SubSeq(units, k + 1, Len(units))
<1>1. /\ DOMAIN units = 1..Len(units) /\ Len(units) \in Nat /\ k \in 1..Len(units)
      /\ \A i \in 1..Len(units) : units[i] \in Unit
  OBVIOUS
<1>2. /\ l \in Seq(Unit) /\ Len(l) = k - 1
      /\ \A i \in 1..(k - 1) : l[i] = units[i]
  BY <1>1
<1>3. /\ r \in Seq(Unit)
      /\ Len(r) = IF k + 1 <= Len(units) THEN Len(units) - (k + 1) + 1 ELSE 0
      /\ \A i \in 1..(Len(units) - (k + 1) + 1) : r[i] = units[k + 1 + i - 1]
  <2>1. \A i \in (k + 1)..Len(units) : units[i] \in Unit
    BY <1>1
  <2>2. k + 1 \in Int /\ Len(units) \in Int
    BY <1>1
  <2> QED BY <2>1, <2>2, SubSeqProperties
<1> HIDE DEF l, r
<1>4. Len(r) = Len(units) - k
  BY <1>1, <1>3
<1>5. \A i \in 1..(Len(units) - k) : r[i] = units[k + i]
  <2> SUFFICES ASSUME NEW i \in 1..(Len(units) - k) PROVE r[i] = units[k + i]
    OBVIOUS
  <2>1. i \in 1..(Len(units) - (k + 1) + 1) /\ k + 1 + i - 1 = k + i
    BY <1>1
  <2> QED BY <1>3, <2>1
<1>6. RemoveAt(units, k) = l \o r
  BY DEF RemoveAt, l, r
<1>7. /\ l \o r \in Seq(Unit) /\ Len(l \o r) = Len(units) - 1
      /\ \A i \in 1..(Len(units) - 1) :
            (l \o r)[i] = IF i <= k - 1 THEN l[i] ELSE r[i - (k - 1)]
  <2>1. Len(l) + Len(r) = Len(units) - 1
    BY <1>1, <1>2, <1>4
  <2>2. /\ l \o r \in Seq(Unit) /\ Len(l \o r) = Len(l) + Len(r)
        /\ \A i \in 1..(Len(l) + Len(r)) :
              (l \o r)[i] = IF i <= Len(l) THEN l[i] ELSE r[i - Len(l)]
    BY <1>2, <1>3, ConcatProperties
  <2> QED BY <1>2, <2>1, <2>2
<1>8. ASSUME NEW i \in 1..(Len(units) - 1)
      PROVE  (l \o r)[i] = units[IF i < k THEN i ELSE i + 1]
  <2>1. CASE i < k
    BY <1>1, <1>2, <1>7, <2>1
  <2>2. CASE ~(i < k)
    <3>1. i - (k - 1) \in 1..(Len(units) - k) /\ k + (i - (k - 1)) = i + 1
      BY <1>1, <2>2
    <3>2. (l \o r)[i] = r[i - (k - 1)]
      BY <1>1, <1>7, <2>2
    <3> QED BY <1>5, <2>2, <3>1, <3>2
  <2> QED BY <2>1, <2>2
<1> QED BY <1>6, <1>7, <1>8, LenProperties

LEMMA RemoveNumber ==
  ASSUME NEW units \in Seq(Unit), NEW k \in DOMAIN units, NEW a
  PROVE  Number(RemoveAt(units, k), a) <=
            Number(units, a) - IF units[k].addr = a THEN 1 ELSE 0
<1> DEFINE rest == RemoveAt(units, k)
           from == At(rest, a)
           to   == At(units, a) \ {k}
           f    == [i \in from |-> IF i < k THEN i ELSE i + 1]
<1>1. /\ DOMAIN units = 1..Len(units) /\ Len(units) \in Nat /\ k \in 1..Len(units)
      /\ rest \in Seq(Unit) /\ DOMAIN rest = 1..(Len(units) - 1)
      /\ \A i \in 1..(Len(units) - 1) : rest[i] = units[IF i < k THEN i ELSE i + 1]
  <2>1. DOMAIN units = 1..Len(units) /\ Len(units) \in Nat /\ k \in 1..Len(units)
    OBVIOUS
  <2> QED BY <2>1, RemoveProperties, Zenon
<1> HIDE DEF rest
<1>2. f \in Injection(from, to)
  <2>1. \A i \in from : i \in 1..(Len(units) - 1) /\ rest[i].addr = a
    BY <1>1 DEF At
  <2>2. ASSUME NEW i \in from PROVE f[i] \in to
    <3>1. f[i] \in DOMAIN units \ {k}
      BY <1>1, <2>1
    <3>2. units[f[i]].addr = a
      BY <1>1, <2>1
    <3> QED BY <3>1, <3>2 DEF At
  <2>3. \A i, j \in from : f[i] = f[j] => i = j
    BY <1>1, <2>1
  <2> QED BY <2>2, <2>3 DEF Injection, IsInjective
<1>3. IsFiniteSet(to)
      /\ Cardinality(to) = IF k \in At(units, a) THEN Number(units, a) - 1
                                                 ELSE Number(units, a)
  BY AtFinite, FS_RemoveElement DEF Number
<1> HIDE DEF f, to
<1>4. Cardinality(from) <= Cardinality(to)
  BY <1>2, <1>3, FS_Injection
<1>5. k \in At(units, a) <=> units[k].addr = a
  BY DEF At
<1>6. Number(rest, a) <= Cardinality(to)
  BY <1>4 DEF Number
<1>7. Number(units, a) \in Nat /\ Number(rest, a) \in Nat
  BY <1>1, AtFinite
<1> QED BY <1>3, <1>5, <1>6, <1>7 DEF rest

LEMMA FrontNumber ==
  ASSUME NEW units \in Seq(Unit), units # <<>>, NEW a
  PROVE  Front(units) \in Seq(Unit) /\ Number(Front(units), a) <= Number(units, a)
<1>1. /\ Len(units) \in Nat \ {0} /\ DOMAIN units = 1..Len(units)
      /\ \A i \in 1..Len(units) : units[i] \in Unit
  BY EmptySeq
<1>2. /\ Front(units) \in Seq(Unit) /\ Len(Front(units)) = Len(units) - 1
      /\ \A i \in 1..(Len(units) - 1) : Front(units)[i] = units[i]
  <2>1. Front(units) = SubSeq(units, 1, Len(units) - 1)
    BY DEF Front
  <2> QED BY <1>1, <2>1
<1>3. At(Front(units), a) \subseteq At(units, a)
  <2>1. DOMAIN Front(units) = 1..(Len(units) - 1)
    BY <1>1, <1>2
  <2> QED BY <1>1, <1>2, <2>1 DEF At
<1> QED BY <1>2, <1>3, AtFinite, FS_Subset DEF Number

\* The first unit at an address.
LEMMA FirstAtExists ==
  ASSUME NEW units \in Seq(Unit), NEW a, At(units, a) # {}
  PROVE  FirstAt(units, a) \in DOMAIN units /\ units[FirstAt(units, a)].addr = a
<1>1. At(units, a) \subseteq Nat
  BY AtFinite
<1>2. PICK i \in At(units, a) : \A j \in At(units, a) : ~(<<j, i>> \in OpToRel(<, Nat))
  BY <1>1, WFMin, NatLessThanWellFounded
<1>3. \A j \in At(units, a) : i <= j
  <2> SUFFICES ASSUME NEW j \in At(units, a), j < i PROVE FALSE
    BY <1>1
  <2>1. <<j, i>> \in Nat \X Nat /\ <<j, i>>[1] < <<j, i>>[2]
    BY <1>1
  <2>2. <<j, i>> \in OpToRel(<, Nat)
    BY <2>1 DEF OpToRel
  <2> QED BY <1>2, <2>2
<1>4. FirstAt(units, a) \in At(units, a)
  BY <1>2, <1>3 DEF FirstAt
<1> QED BY <1>4 DEF At

-----------------------------------------------------------------------------
(* Bags.                                                                     *)

LEMMA CopiesType ==
  ASSUME NEW bag, IsABag(bag), NEW x
  PROVE  /\ Copies(x, bag) \in Nat
         /\ x \in DOMAIN bag <=> Copies(x, bag) > 0
         /\ x \in DOMAIN bag => Copies(x, bag) = bag[x]
BY DEF IsABag, Copies, BagIn, BagToSet

Added(bag, some) == bag (+) SetToBag(some)

Taken(bag, one) == bag (-) SetToBag({one})

LEMMA AddToBag ==
  ASSUME NEW bag, IsABag(bag), NEW some
  PROVE  /\ IsABag(Added(bag, some))
         /\ DOMAIN Added(bag, some) = DOMAIN bag \cup some
         /\ \A x : Copies(x, Added(bag, some)) =
                       Copies(x, bag) + IF x \in some THEN 1 ELSE 0
<1> DEFINE more == Added(bag, some)
<1>1. more = [x \in DOMAIN bag \cup some |->
                (IF x \in DOMAIN bag THEN bag[x] ELSE 0)
                + (IF x \in some THEN 1 ELSE 0)]
  BY DEF (+), SetToBag, Added
<1> HIDE DEF more
<1>2. \A x \in DOMAIN bag : bag[x] \in Nat /\ bag[x] > 0
  BY DEF IsABag
<1>3. DOMAIN more = DOMAIN bag \cup some
  BY <1>1
<1>4. IsABag(more)
  <2>1. \A x \in DOMAIN more : more[x] \in Nat /\ more[x] > 0
    BY <1>1, <1>2
  <2> QED BY <1>1, <2>1 DEF IsABag
<1>5. ASSUME NEW x
      PROVE  Copies(x, more) = Copies(x, bag) + IF x \in some THEN 1 ELSE 0
  BY <1>1, <1>2, <1>3 DEF Copies, BagIn, BagToSet
<1> QED BY <1>3, <1>4, <1>5 DEF more

LEMMA TakeFromBag ==
  ASSUME NEW bag, IsABag(bag), NEW one \in DOMAIN bag
  PROVE  /\ IsABag(Taken(bag, one)) /\ DOMAIN Taken(bag, one) \subseteq DOMAIN bag
         /\ \A x : Copies(x, Taken(bag, one)) =
                       Copies(x, bag) - IF x = one THEN 1 ELSE 0
<1> DEFINE less == Taken(bag, one)
           left == [x \in DOMAIN bag |-> IF x = one THEN bag[x] - 1 ELSE bag[x]]
<1>1. less = [x \in {y \in DOMAIN left : left[y] > 0} |-> left[x]]
  BY DEF (-), SetToBag, Taken
<1> HIDE DEF less
<1>2. \A x \in DOMAIN bag : bag[x] \in Nat /\ bag[x] > 0
  BY DEF IsABag
<1>3. /\ DOMAIN less = {y \in DOMAIN bag : left[y] > 0}
      /\ \A x \in DOMAIN less : less[x] = left[x]
      /\ \A x \in DOMAIN bag : left[x] \in Nat
  BY <1>1, <1>2
<1>4. IsABag(less)
  <2>1. \A x \in DOMAIN less : less[x] \in {n \in Nat : n > 0}
    BY <1>3
  <2> QED BY <1>1, <2>1 DEF IsABag
<1>5. ASSUME NEW x
      PROVE  Copies(x, less) = Copies(x, bag) - IF x = one THEN 1 ELSE 0
  <2>1. CASE x \in DOMAIN bag
    <3>1. left[x] = bag[x] - IF x = one THEN 1 ELSE 0
      BY <1>2, <2>1
    <3> HIDE DEF left
    <3>2. Copies(x, less) = left[x]
      BY <1>3, <2>1 DEF Copies, BagIn, BagToSet
    <3> QED BY <2>1, <3>1, <3>2 DEF Copies, BagIn, BagToSet
  <2>2. CASE x \notin DOMAIN bag
    <3>1. x \notin DOMAIN less /\ x # one
      BY <1>3, <2>2
    <3> QED BY <2>2, <3>1 DEF Copies, BagIn, BagToSet
  <2> QED BY <2>1, <2>2
<1> QED BY <1>3, <1>4, <1>5 DEF less

\* The copies of what is in a bag, one by one.
AllCopies(bag) == UNION {{x} \X (1..bag[x]) : x \in DOMAIN bag}

ComingIn(bag, b, a) == {copy \in AllCopies(bag) : copy[1].from = b /\ a \in copy[1].came}

LEMMA AllCopiesAre ==
  ASSUME NEW bag, IsABag(bag), NEW p
  PROVE  p \in AllCopies(bag)
            <=> \E x, k : p = <<x, k>> /\ k \in 1..Copies(x, bag)
<1>1. ASSUME p \in AllCopies(bag)
      PROVE  \E x, k : p = <<x, k>> /\ k \in 1..Copies(x, bag)
  <2>1. PICK x \in DOMAIN bag : p \in {x} \X (1..bag[x])
    BY <1>1 DEF AllCopies
  <2>2. p = <<x, p[2]>> /\ p[2] \in 1..bag[x]
    BY <2>1
  <2> QED BY <2>1, <2>2, CopiesType
<1>2. ASSUME NEW x, NEW k, p = <<x, k>>, k \in 1..Copies(x, bag)
      PROVE  p \in AllCopies(bag)
  <2>1. x \in DOMAIN bag /\ k \in 1..bag[x]
    BY <1>2, CopiesType
  <2>2. p \in {x} \X (1..bag[x])
    BY <1>2, <2>1
  <2> QED BY <2>1, <2>2 DEF AllCopies
<1> QED BY <1>1, <1>2

LEMMA ComingFinite ==
  ASSUME NEW bag, IsFiniteSet(AllCopies(bag)), NEW b, NEW a
  PROVE  IsFiniteSet(ComingIn(bag, b, a)) /\ Cardinality(ComingIn(bag, b, a)) \in Nat
<1>1. ComingIn(bag, b, a) \subseteq AllCopies(bag)
  BY DEF ComingIn
<1> QED BY <1>1, FS_Subset, FS_CardinalityType

\* One more report, one more copy.
LEMMA OneMoreComing ==
  ASSUME NEW bag, IsABag(bag), IsFiniteSet(AllCopies(bag)), NEW one
  PROVE  /\ IsFiniteSet(AllCopies(Added(bag, {one})))
         /\ \A b, a : Cardinality(ComingIn(Added(bag, {one}), b, a)) =
                         Cardinality(ComingIn(bag, b, a))
                         + IF one.from = b /\ a \in one.came THEN 1 ELSE 0
<1> DEFINE more == Added(bag, {one})
           new  == <<one, Copies(one, bag) + 1>>
<1>1. /\ IsABag(more)
      /\ \A x : Copies(x, more) = Copies(x, bag) + IF x = one THEN 1 ELSE 0
  <2>1. /\ IsABag(more)
        /\ \A x : Copies(x, more) = Copies(x, bag) + IF x \in {one} THEN 1 ELSE 0
    BY AddToBag
  <2> HIDE DEF more
  <2> QED BY <2>1
<1> HIDE DEF more
<1>2. \A x : Copies(x, bag) \in Nat
  BY CopiesType
<1>3. AllCopies(more) = AllCopies(bag) \cup {new} /\ new \notin AllCopies(bag)
  <2>1. ASSUME NEW p PROVE p \in AllCopies(more) <=> p \in AllCopies(bag) \/ p = new
    <3>1. ASSUME NEW x, NEW k
          PROVE  k \in 1..Copies(x, more)
                    <=> k \in 1..Copies(x, bag) \/ <<x, k>> = new
      BY <1>1, <1>2
    <3>2. p = new => \E x, k : p = <<x, k>>
      OBVIOUS
    <3> HIDE DEF new
    <3> QED BY <1>1, <3>1, <3>2, AllCopiesAre
  <2>2. new \notin AllCopies(bag)
    <3> SUFFICES ASSUME new \in AllCopies(bag) PROVE FALSE
      OBVIOUS
    <3>1. PICK x, k : new = <<x, k>> /\ k \in 1..Copies(x, bag)
      BY AllCopiesAre
    <3> QED BY <1>2, <3>1
  <2> QED BY <2>1, <2>2
<1>4. new[1] = one
  OBVIOUS
<1> HIDE DEF new
<1>5. ASSUME NEW b, NEW a
      PROVE  Cardinality(ComingIn(more, b, a)) =
                Cardinality(ComingIn(bag, b, a))
                + IF one.from = b /\ a \in one.came THEN 1 ELSE 0
  <2>1. IsFiniteSet(ComingIn(bag, b, a)) /\ Cardinality(ComingIn(bag, b, a)) \in Nat
    BY ComingFinite
  <2>2. CASE one.from = b /\ a \in one.came
    <3>1. ComingIn(more, b, a) = ComingIn(bag, b, a) \cup {new}
      BY <1>3, <1>4, <2>2 DEF ComingIn
    <3>2. new \notin ComingIn(bag, b, a)
      BY <1>3 DEF ComingIn
    <3> QED BY <2>1, <2>2, <3>1, <3>2, FS_AddElement
  <2>3. CASE ~(one.from = b /\ a \in one.came)
    <3>1. ComingIn(more, b, a) = ComingIn(bag, b, a)
      BY <1>3, <1>4, <2>3 DEF ComingIn
    <3> QED BY <2>1, <2>3, <3>1
  <2> QED BY <2>2, <2>3
<1> QED BY <1>3, <1>5, FS_AddElement DEF more

\* One report less, one copy less.
LEMMA OneLessComing ==
  ASSUME NEW bag, IsABag(bag), IsFiniteSet(AllCopies(bag)), NEW one \in DOMAIN bag
  PROVE  /\ IsFiniteSet(AllCopies(Taken(bag, one)))
         /\ \A b, a : Cardinality(ComingIn(Taken(bag, one), b, a)) =
                         Cardinality(ComingIn(bag, b, a))
                         - IF one.from = b /\ a \in one.came THEN 1 ELSE 0
<1> DEFINE less == Taken(bag, one)
           old  == <<one, Copies(one, bag)>>
<1>1. /\ IsABag(less)
      /\ \A x : Copies(x, less) = Copies(x, bag) - IF x = one THEN 1 ELSE 0
  BY TakeFromBag
<1> HIDE DEF less
<1>2. \A x : Copies(x, bag) \in Nat
  BY CopiesType
<1>3. Copies(one, bag) > 0
  BY CopiesType
<1>4. AllCopies(less) = AllCopies(bag) \ {old} /\ old \in AllCopies(bag)
  <2>1. ASSUME NEW p PROVE p \in AllCopies(less) <=> p \in AllCopies(bag) /\ p # old
    <3>1. ASSUME NEW x, NEW k
          PROVE  k \in 1..Copies(x, less)
                    <=> k \in 1..Copies(x, bag) /\ <<x, k>> # old
      BY <1>1, <1>2, <1>3
    <3> HIDE DEF old
    <3> QED BY <1>1, <3>1, AllCopiesAre
  <2>2. old \in AllCopies(bag)
    <3>1. Copies(one, bag) \in 1..Copies(one, bag)
      BY <1>2, <1>3
    <3> QED BY <3>1, AllCopiesAre
  <2> QED BY <2>1, <2>2
<1>5. old[1] = one
  OBVIOUS
<1> HIDE DEF old
<1>6. ASSUME NEW b, NEW a
      PROVE  Cardinality(ComingIn(less, b, a)) =
                Cardinality(ComingIn(bag, b, a))
                - IF one.from = b /\ a \in one.came THEN 1 ELSE 0
  <2>1. IsFiniteSet(ComingIn(bag, b, a)) /\ Cardinality(ComingIn(bag, b, a)) \in Nat
    BY ComingFinite
  <2>2. CASE one.from = b /\ a \in one.came
    <3>1. ComingIn(less, b, a) = ComingIn(bag, b, a) \ {old}
      BY <1>4 DEF ComingIn
    <3>2. old \in ComingIn(bag, b, a)
      BY <1>4, <1>5, <2>2 DEF ComingIn
    <3> QED BY <2>1, <2>2, <3>1, <3>2, FS_RemoveElement
  <2>3. CASE ~(one.from = b /\ a \in one.came)
    <3>1. ComingIn(less, b, a) = ComingIn(bag, b, a)
      BY <1>4, <1>5, <2>3 DEF ComingIn
    <3> QED BY <2>1, <2>3, <3>1
  <2> QED BY <2>2, <2>3
<1> QED BY <1>4, <1>6, FS_RemoveElement DEF less

-----------------------------------------------------------------------------
(* What a step does to the bunches, the reports and the tasks.               *)

Units(b, a) == Number(bunches[b].stable, a) + Number(bunches[b].new, a)

TaskFor(a, b) == [addr |-> a, to |-> b]

ReportsOK ==
    /\ IsABag(reports)
    /\ \A r \in DOMAIN reports : r \in Report /\ r.from \in DOMAIN bunches
    /\ IsFiniteSet(AllCopies(reports))

TasksOK(tasks) ==
    /\ IsABag(tasks)
    /\ \A c \in DOMAIN tasks : c \in Task /\ c.to \in DOMAIN bunches

BunchesOK ==
    /\ bunches \in Seq(Bunch)
    /\ connections \in Seq(DOMAIN bunches)

\* The type invariant in parts, with finitely many reports under way.
HealthInv ==
    /\ instances_count \in Instances
    /\ BunchesOK
    /\ ReportsOK
    /\ TasksOK(checks) /\ TasksOK(failed)
    /\ excused \subseteq (DOMAIN bunches) \X Addrs
    /\ incidents \in 0..MaxIncidents

\* Bunch b becomes the one that is given.
Becomes(b, bunch) == bunches' = [bunches EXCEPT ![b] = bunch]

LEMMA HealthInvTypeOK == HealthInv => TypeOK
BY DEF HealthInv, TypeOK, BunchesOK, ReportsOK, TasksOK, BagToSet

LEMMA BunchTypes ==
  ASSUME bunches \in Seq(Bunch)
  PROVE  /\ DOMAIN bunches = 1..Len(bunches) /\ Len(bunches) \in Nat
         /\ \A b \in DOMAIN bunches :
               /\ bunches[b] \in Bunch /\ b \in Nat
               /\ bunches[b].stable \in Seq(Unit) /\ bunches[b].new \in Seq(Unit)
               /\ bunches[b].unheard \in Nat
               /\ bunches[b].at \in {"running", "rolling", "over"}
               /\ \A a : Units(b, a) \in Nat
               /\ \A a : Units(b, a) = 0 <=> ~InUse(bunches, b, a)
<1>1. /\ DOMAIN bunches = 1..Len(bunches) /\ Len(bunches) \in Nat
      /\ \A b \in DOMAIN bunches : bunches[b] \in Bunch /\ b \in Nat
  OBVIOUS
<1>2. ASSUME NEW b \in DOMAIN bunches
      PROVE  /\ bunches[b].stable \in Seq(Unit) /\ bunches[b].new \in Seq(Unit)
             /\ bunches[b].unheard \in Nat
             /\ bunches[b].at \in {"running", "rolling", "over"}
  BY <1>1 DEF Bunch
<1>3. ASSUME NEW b \in DOMAIN bunches, NEW a
      PROVE  Units(b, a) \in Nat /\ (Units(b, a) = 0 <=> ~InUse(bunches, b, a))
  <2> DEFINE s == bunches[b].stable
             n == bunches[b].new
  <2>1. s \in Seq(Unit) /\ n \in Seq(Unit)
    BY <1>2
  <2> HIDE DEF s, n
  <2>2. /\ Number(s, a) \in Nat /\ (Number(s, a) = 0 <=> At(s, a) = {})
        /\ Number(n, a) \in Nat /\ (Number(n, a) = 0 <=> At(n, a) = {})
    BY <2>1, AtFinite
  <2> QED BY <2>2 DEF Units, InUse, s, n
<1> QED BY <1>1, <1>2, <1>3

LEMMA WatchesType ==
  ASSUME HealthInv, NEW b, NEW a
  PROVE  /\ Watches(b, a) = Copies(TaskFor(a, b), checks) + Copies(TaskFor(a, b), failed)
                            + Cardinality(ComingIn(reports, b, a))
         /\ Copies(TaskFor(a, b), checks) \in Nat
         /\ Copies(TaskFor(a, b), failed) \in Nat
         /\ Cardinality(ComingIn(reports, b, a)) \in Nat
         /\ Watches(b, a) \in Nat
<1>1. /\ Copies(TaskFor(a, b), checks) \in Nat
      /\ Copies(TaskFor(a, b), failed) \in Nat
  BY CopiesType DEF HealthInv, TasksOK
<1>2. Cardinality(ComingIn(reports, b, a)) \in Nat
  BY ComingFinite DEF HealthInv, ReportsOK
<1>3. Coming(b, a) = ComingIn(reports, b, a)
  BY DEF Coming, ComingIn, AllCopies
<1> QED BY <1>1, <1>2, <1>3 DEF Watches, TaskFor

LEMMA BecomesIs ==
  ASSUME HealthInv, NEW b \in DOMAIN bunches, NEW bunch \in Bunch, Becomes(b, bunch),
         UNCHANGED connections
  PROVE  /\ BunchesOK' /\ bunches' \in Seq(Bunch) /\ DOMAIN bunches' = DOMAIN bunches
         /\ bunches'[b] = bunch
         /\ \A c \in DOMAIN bunches \ {b} : bunches'[c] = bunches[c]
         /\ \A a : Units(b, a)' = Number(bunch.stable, a) + Number(bunch.new, a)
<1>1. bunches \in Seq(Bunch) /\ connections \in Seq(DOMAIN bunches)
  BY DEF HealthInv, BunchesOK
<1>2. bunches' \in Seq(Bunch) /\ Len(bunches') = Len(bunches)
  BY <1>1, ExceptSeq DEF Becomes
<1>3. /\ DOMAIN bunches' = DOMAIN bunches /\ bunches'[b] = bunch
      /\ \A c \in DOMAIN bunches \ {b} : bunches'[c] = bunches[c]
  BY DEF Becomes
<1>4. \A a : Units(b, a)' = Number(bunch.stable, a) + Number(bunch.new, a)
  BY <1>3 DEF Units, Number, At
<1> QED BY <1>1, <1>2, <1>3, <1>4 DEF BunchesOK

LEMMA Told ==
  ASSUME HealthInv, NEW b \in DOMAIN bunches', NEW came \in SUBSET Addrs,
         Tell(b, came), bunches' \in Seq(Bunch), DOMAIN bunches \subseteq DOMAIN bunches'
  PROVE  /\ ReportsOK'
         /\ \A c, a : Cardinality(ComingIn(reports', c, a)) =
                         Cardinality(ComingIn(reports, c, a))
                         + IF b = c /\ a \in came THEN 1 ELSE 0
<1> DEFINE one == [from |-> b, came |-> came]
<1>1. one \in Report /\ one.from = b /\ one.came = came
  BY DEF Report
<1>2. reports' = Added(reports, {one})
  BY DEF Tell, Added
<1>3. /\ IsABag(reports) /\ IsFiniteSet(AllCopies(reports))
      /\ \A r \in DOMAIN reports : r \in Report /\ r.from \in DOMAIN bunches
  BY DEF HealthInv, ReportsOK
<1> HIDE DEF one
<1>4. IsABag(reports') /\ DOMAIN reports' = DOMAIN reports \cup {one}
  BY <1>2, <1>3, AddToBag
<1>5. /\ IsFiniteSet(AllCopies(reports'))
      /\ \A c, a : Cardinality(ComingIn(reports', c, a)) =
                      Cardinality(ComingIn(reports, c, a))
                      + IF one.from = c /\ a \in one.came THEN 1 ELSE 0
  BY <1>2, <1>3, OneMoreComing
<1> QED BY <1>1, <1>3, <1>4, <1>5 DEF ReportsOK

LEMMA ChecksStarted ==
  ASSUME HealthInv, NEW addrs \in SUBSET Addrs, start_health_check_tasks(addrs),
         DOMAIN bunches \subseteq DOMAIN bunches'
  PROVE  /\ TasksOK(checks)'
         /\ \A b, a : Copies(TaskFor(a, b), checks') =
                Copies(TaskFor(a, b), checks)
                + IF /\ connections # <<>> /\ Up(Head(connections))
                     /\ b = Head(connections) /\ a \in addrs THEN 1 ELSE 0
<1>1. IsABag(checks) /\ \A c \in DOMAIN checks : c \in Task /\ c.to \in DOMAIN bunches
  BY DEF HealthInv, TasksOK
<1>2. CASE connections = <<>> \/ ~Up(Head(connections))
  <2>1. checks' = checks
    BY <1>2 DEF start_health_check_tasks
  <2> QED BY <1>1, <1>2, <2>1, CopiesType DEF TasksOK
<1>3. CASE ~(connections = <<>> \/ ~Up(Head(connections)))
  <2> DEFINE h == Head(connections)
             some == {TaskFor(a, h) : a \in addrs}
  <2>1. checks' = Added(checks, some)
    BY <1>3 DEF start_health_check_tasks, Tasks, TaskFor, Added
  <2>2. h \in DOMAIN bunches /\ h \in Nat
    BY <1>3, BunchTypes, HeadTailProperties DEF HealthInv, BunchesOK
  <2>3. \A c \in some : c \in Task /\ c.to = h
    BY <2>2 DEF Task, TaskFor
  <2>4. \A b, a : TaskFor(a, b) \in some <=> b = h /\ a \in addrs
    BY DEF TaskFor
  <2> HIDE DEF some, h
  <2>5. /\ IsABag(checks') /\ DOMAIN checks' = DOMAIN checks \cup some
        /\ \A x : Copies(x, checks') = Copies(x, checks) + IF x \in some THEN 1 ELSE 0
    BY <1>1, <2>1, AddToBag
  <2>6. TasksOK(checks)'
    BY <1>1, <2>2, <2>3, <2>5 DEF TasksOK
  <2> QED BY <1>3, <2>4, <2>5, <2>6 DEF h
<1> QED BY <1>2, <1>3

\* A task, or a failure, is taken from a bag.
LEMMA TaskTaken ==
  ASSUME HealthInv, NEW tasks, TasksOK(tasks), NEW c \in DOMAIN tasks
  PROVE  /\ TasksOK(Taken(tasks, c))
         /\ \A b, a : Copies(TaskFor(a, b), Taken(tasks, c)) =
                Copies(TaskFor(a, b), tasks) - IF c.to = b /\ c.addr = a THEN 1 ELSE 0
<1>1. /\ IsABag(Taken(tasks, c)) /\ DOMAIN Taken(tasks, c) \subseteq DOMAIN tasks
      /\ \A x : Copies(x, Taken(tasks, c)) = Copies(x, tasks) - IF x = c THEN 1 ELSE 0
  BY TakeFromBag DEF TasksOK
<1>2. \A b, a : TaskFor(a, b) = c <=> c.to = b /\ c.addr = a
  BY DEF TasksOK, Task, TaskFor
<1>3. TasksOK(Taken(tasks, c))
  BY <1>1 DEF TasksOK
<1> QED BY <1>1, <1>2, <1>3

\* An address is excused when it is named, and then while it is in use.
LEMMA Excused ==
  ASSUME HealthInv, NEW some \in SUBSET ((DOMAIN bunches) \X Addrs), Excuse(some),
         bunches' \in Seq(Bunch), DOMAIN bunches \subseteq DOMAIN bunches'
  PROVE  /\ excused' \subseteq (DOMAIN bunches') \X Addrs
         /\ \A b \in DOMAIN bunches', a \in Addrs :
               <<b, a>> \notin excused' =>
                  Units(b, a)' = 0 \/ <<b, a>> \notin excused \cup some
<1>1. excused \subseteq (DOMAIN bunches) \X Addrs
  BY DEF HealthInv
<1>2. excused' = {e \in excused \cup some : InUse(bunches', e[1], e[2])}
  BY DEF Excuse
<1>3. ASSUME NEW b \in DOMAIN bunches', NEW a \in Addrs,
             <<b, a>> \notin excused', Units(b, a)' # 0
      PROVE  <<b, a>> \notin excused \cup some
  <2>1. bunches'[b].stable \in Seq(Unit) /\ bunches'[b].new \in Seq(Unit)
    <3>1. bunches'[b] \in Bunch
      OBVIOUS
    <3> QED BY <3>1 DEF Bunch
  <2>2. InUse(bunches', b, a)
    <3> DEFINE s == bunches'[b].stable
               n == bunches'[b].new
    <3>1. s \in Seq(Unit) /\ n \in Seq(Unit)
      BY <2>1
    <3>2. Units(b, a)' = Number(s, a) + Number(n, a)
      BY DEF Units, Number, At
    <3> HIDE DEF s, n
    <3>3. /\ Number(s, a) \in Nat /\ (Number(s, a) = 0 <=> At(s, a) = {})
          /\ Number(n, a) \in Nat /\ (Number(n, a) = 0 <=> At(n, a) = {})
      BY <3>1, AtFinite
    <3> QED BY <1>3, <3>2, <3>3 DEF InUse, s, n
  <2> QED BY <1>2, <1>3, <2>2
<1> QED BY <1>1, <1>2, <1>3

-----------------------------------------------------------------------------
(* The balance: no step adds more units at an address than watches for it.   *)

Inv == HealthInv /\ WatchedOrExcused

LEMMA WatchesNext ==
  ASSUME HealthInv', NEW b, NEW a
  PROVE  /\ Watches(b, a)' = Copies(TaskFor(a, b), checks')
                             + Copies(TaskFor(a, b), failed')
                             + Cardinality(ComingIn(reports', b, a))
         /\ Copies(TaskFor(a, b), checks') \in Nat
         /\ Copies(TaskFor(a, b), failed') \in Nat
         /\ Cardinality(ComingIn(reports', b, a)) \in Nat
<1>1. IsABag(checks') /\ IsABag(failed') /\ IsFiniteSet(AllCopies(reports'))
  BY DEF HealthInv, TasksOK, ReportsOK
<1>2. Coming(b, a)' = ComingIn(reports', b, a)
  BY DEF Coming, ComingIn, AllCopies
<1>3. Watches(b, a)' = Copies(TaskFor(a, b), checks')
                       + Copies(TaskFor(a, b), failed') + Cardinality(Coming(b, a)')
  BY DEF Watches, TaskFor, Copies, BagIn, BagToSet
<1> QED BY <1>1, <1>2, <1>3, CopiesType, ComingFinite

LEMMA WatchesChange ==
  ASSUME HealthInv, HealthInv'
  PROVE  \A b, a :
            LET t == TaskFor(a, b) IN
            /\ Watches(b, a)' - Watches(b, a) =
                  (Copies(t, checks') - Copies(t, checks))
                  + (Copies(t, failed') - Copies(t, failed))
                  + (Cardinality(ComingIn(reports', b, a))
                     - Cardinality(ComingIn(reports, b, a)))
            /\ Watches(b, a) \in Nat /\ Watches(b, a)' \in Nat
            /\ Copies(t, checks) \in Nat /\ Copies(t, failed) \in Nat
            /\ Cardinality(ComingIn(reports, b, a)) \in Nat
<1> SUFFICES ASSUME NEW b, NEW a
             PROVE  LET t == TaskFor(a, b) IN
                    /\ Watches(b, a)' - Watches(b, a) =
                          (Copies(t, checks') - Copies(t, checks))
                          + (Copies(t, failed') - Copies(t, failed))
                          + (Cardinality(ComingIn(reports', b, a))
                             - Cardinality(ComingIn(reports, b, a)))
                    /\ Watches(b, a) \in Nat /\ Watches(b, a)' \in Nat
                    /\ Copies(t, checks) \in Nat /\ Copies(t, failed) \in Nat
                    /\ Cardinality(ComingIn(reports, b, a)) \in Nat
  OBVIOUS
<1>1. /\ Watches(b, a) = Copies(TaskFor(a, b), checks) + Copies(TaskFor(a, b), failed)
                        + Cardinality(ComingIn(reports, b, a))
      /\ Copies(TaskFor(a, b), checks) \in Nat
      /\ Copies(TaskFor(a, b), failed) \in Nat
      /\ Cardinality(ComingIn(reports, b, a)) \in Nat
  BY WatchesType
<1>2. /\ Watches(b, a)' = Copies(TaskFor(a, b), checks') + Copies(TaskFor(a, b), failed')
                          + Cardinality(ComingIn(reports', b, a))
      /\ Copies(TaskFor(a, b), checks') \in Nat
      /\ Copies(TaskFor(a, b), failed') \in Nat
      /\ Cardinality(ComingIn(reports', b, a)) \in Nat
  BY WatchesNext
<1> QED BY <1>1, <1>2

LEMMA NextUnits ==
  ASSUME bunches' \in Seq(Bunch), NEW b \in DOMAIN bunches', NEW a
  PROVE  Units(b, a)' \in Nat
<1> DEFINE s == bunches'[b].stable
           n == bunches'[b].new
<1>1. bunches'[b] \in Bunch
  OBVIOUS
<1>2. s \in Seq(Unit) /\ n \in Seq(Unit)
  BY <1>1 DEF Bunch
<1>3. Units(b, a)' = Number(s, a) + Number(n, a)
  BY DEF Units, Number, At
<1> HIDE DEF s, n
<1> QED BY <1>2, <1>3, AtFinite

LEMMA Balance ==
  ASSUME Inv, HealthInv',
         \A b \in DOMAIN bunches', a \in Addrs :
            (Up(b)' /\ <<b, a>> \notin excused') =>
               \/ Units(b, a)' = 0
               \/ Units(b, a)' <= Watches(b, a)'
               \/ /\ b \in DOMAIN bunches /\ Up(b) /\ <<b, a>> \notin excused
                  /\ Units(b, a)' + Watches(b, a) <= Units(b, a) + Watches(b, a)'
  PROVE  Inv'
<1> SUFFICES ASSUME NEW b \in DOMAIN bunches', NEW a \in Addrs,
                    Up(b)', <<b, a>> \notin excused'
             PROVE  Units(b, a)' <= Watches(b, a)'
  BY DEF Inv, WatchedOrExcused, Units, Number
<1>1. Watches(b, a)' \in Nat
  BY WatchesNext
<1>2. Units(b, a)' \in Nat
  BY NextUnits DEF HealthInv, BunchesOK
<1>3. ASSUME b \in DOMAIN bunches, Up(b), <<b, a>> \notin excused
      PROVE  /\ Units(b, a) <= Watches(b, a)
             /\ Units(b, a) \in Nat /\ Watches(b, a) \in Nat
  <2>1. Units(b, a) <= Watches(b, a)
    BY <1>3 DEF Inv, WatchedOrExcused, Units, Number
  <2> QED BY <1>3, <2>1, BunchTypes, WatchesType DEF Inv, HealthInv, BunchesOK
<1> QED BY <1>1, <1>2, <1>3

\* A step of bunch b: it becomes another, and the others stay.
LEMMA BunchInvStep ==
  ASSUME HealthInv, UNCHANGED <<instances_count, connections>>,
         BunchesOK', DOMAIN bunches' = DOMAIN bunches,
         ReportsOK', TasksOK(checks)', TasksOK(failed)',
         excused' \subseteq (DOMAIN bunches) \X Addrs, incidents' \in 0..MaxIncidents
  PROVE  HealthInv'
BY DEF HealthInv

\* Some of the bound is spent, or none.
Spent == (\E n \in Nat : Incidents(n)) \/ UNCHANGED incidents

LEMMA IncidentSpent ==
  ASSUME Incident \/ UNCHANGED incidents
  PROVE  Spent
BY DEF Incident, Spent

LEMMA IncidentType ==
  ASSUME HealthInv, Spent
  PROVE  incidents' \in 0..MaxIncidents
BY MaxIncidentsAssumption DEF HealthInv, Incidents, Spent

\* What is left alone keeps its type, as long as no bunch is forgotten.
LEMMA SameTypes ==
  ASSUME HealthInv, DOMAIN bunches \subseteq DOMAIN bunches'
  PROVE  /\ UNCHANGED reports => ReportsOK'
         /\ UNCHANGED checks => TasksOK(checks)'
         /\ UNCHANGED failed => TasksOK(failed)'
BY DEF HealthInv, ReportsOK, TasksOK

-----------------------------------------------------------------------------
(* The tasks.                                                                *)

LEMMA CheckFailsStep ==
  ASSUME Inv, NEW c \in DOMAIN checks, CheckFails(c)
  PROVE  Inv'
<1>1. /\ HealthInv /\ UNCHANGED <<instances_count, connections, bunches, reports,
                                  excused, incidents>>
      /\ checks' = Taken(checks, c) /\ failed' = Added(failed, {c})
      /\ TasksOK(checks) /\ TasksOK(failed)
      /\ c \in Task /\ c.to \in DOMAIN bunches
  BY DEF Inv, CheckFails, HealthInv, TasksOK, Added, Taken
<1>2. /\ TasksOK(checks)'
      /\ \A b, a : Copies(TaskFor(a, b), checks') =
             Copies(TaskFor(a, b), checks) - IF c.to = b /\ c.addr = a THEN 1 ELSE 0
  BY <1>1, TaskTaken DEF TasksOK
<1>3. /\ TasksOK(failed)'
      /\ \A x : Copies(x, failed') = Copies(x, failed) + IF x \in {c} THEN 1 ELSE 0
  <2>1. IsABag(failed) /\ \A x \in DOMAIN failed : x \in Task /\ x.to \in DOMAIN bunches
    BY <1>1 DEF TasksOK
  <2>2. /\ IsABag(failed') /\ DOMAIN failed' = DOMAIN failed \cup {c}
        /\ \A x : Copies(x, failed') = Copies(x, failed) + IF x \in {c} THEN 1 ELSE 0
    <3>1. failed' = Added(failed, {c})
      BY <1>1
    <3> DEFINE some == {c}
    <3> HIDE DEF some
    <3>2. /\ IsABag(Added(failed, some)) /\ DOMAIN Added(failed, some) = DOMAIN failed \cup some
          /\ \A x : Copies(x, Added(failed, some)) =
                        Copies(x, failed) + IF x \in some THEN 1 ELSE 0
      BY <2>1, AddToBag
    <3> QED BY <3>1, <3>2, Zenon DEF some
  <2> QED BY <1>1, <2>1, <2>2 DEF TasksOK
<1>4. \A b, a : TaskFor(a, b) \in {c} <=> c.to = b /\ c.addr = a
  BY <1>1 DEF Task, TaskFor
<1>5. HealthInv'
  <2>1. BunchesOK' /\ ReportsOK'
    BY <1>1 DEF HealthInv, BunchesOK, ReportsOK
  <2> QED BY <1>1, <1>2, <1>3, <2>1 DEF HealthInv
<1>6. ASSUME NEW b \in DOMAIN bunches', NEW a \in Addrs, Up(b)', <<b, a>> \notin excused'
      PROVE  /\ b \in DOMAIN bunches /\ Up(b) /\ <<b, a>> \notin excused
             /\ Units(b, a)' + Watches(b, a) <= Units(b, a) + Watches(b, a)'
  <2>1. /\ b \in DOMAIN bunches /\ Up(b) /\ <<b, a>> \notin excused
        /\ Units(b, a)' = Units(b, a)
        /\ ComingIn(reports', b, a) = ComingIn(reports, b, a)
    BY <1>1, <1>6 DEF Up, Units, Number, At
  <2>2. Watches(b, a)' = Watches(b, a)
    <3> DEFINE t == TaskFor(a, b)
               n == IF c.to = b /\ c.addr = a THEN 1 ELSE 0
    <3>1. Copies(t, checks') = Copies(t, checks) - n /\ n \in Int
      BY <1>2
    <3>2. Copies(t, failed') = Copies(t, failed) + n
      BY <1>3, <1>4
    <3>3. /\ Watches(b, a)' - Watches(b, a) =
                (Copies(t, checks') - Copies(t, checks))
                + (Copies(t, failed') - Copies(t, failed))
                + (Cardinality(ComingIn(reports', b, a))
                   - Cardinality(ComingIn(reports, b, a)))
          /\ Watches(b, a) \in Nat /\ Watches(b, a)' \in Nat
          /\ Copies(t, checks) \in Nat /\ Copies(t, failed) \in Nat
          /\ Cardinality(ComingIn(reports, b, a)) \in Nat
      BY <1>1, <1>5, WatchesChange
    <3> HIDE DEF n, t
    <3> QED BY <2>1, <3>1, <3>2, <3>3
  <2>3. Units(b, a) \in Nat /\ Watches(b, a) \in Nat
    BY <1>1, <2>1, BunchTypes, WatchesType DEF HealthInv, BunchesOK
  <2> QED BY <2>1, <2>2, <2>3
<1> QED BY <1>5, <1>6, Balance

LEMMA CheckBreaksStep ==
  ASSUME Inv, NEW c \in DOMAIN checks, CheckBreaks(c)
  PROVE  Inv'
<1> DEFINE some == {<<c.to, c.addr>>}
<1>1. /\ HealthInv /\ Incident
      /\ UNCHANGED <<instances_count, connections, bunches, reports, failed>>
      /\ checks' = Taken(checks, c) /\ Excuse(some)
      /\ TasksOK(checks) /\ TasksOK(failed) /\ bunches \in Seq(Bunch)
      /\ some \subseteq (DOMAIN bunches) \X Addrs
  BY DEF Inv, CheckBreaks, HealthInv, TasksOK, Task, BunchesOK, Taken
<1>2. /\ TasksOK(checks)'
      /\ \A b, a : Copies(TaskFor(a, b), checks') =
             Copies(TaskFor(a, b), checks) - IF c.to = b /\ c.addr = a THEN 1 ELSE 0
  BY <1>1, TaskTaken DEF TasksOK
<1>3. /\ excused' \subseteq (DOMAIN bunches) \X Addrs
      /\ \A b \in DOMAIN bunches, a \in Addrs :
            <<b, a>> \notin excused' =>
               Units(b, a)' = 0 \/ <<b, a>> \notin excused \cup some
  <2> HIDE DEF some
  <2> QED BY <1>1, Excused
<1>4. HealthInv'
  <2>1. BunchesOK' /\ ReportsOK' /\ TasksOK(failed)'
    BY <1>1 DEF HealthInv, BunchesOK, ReportsOK, TasksOK
  <2> QED BY <1>1, <1>2, <1>3, <2>1, IncidentType, IncidentSpent DEF HealthInv
<1>5. ASSUME NEW b \in DOMAIN bunches', NEW a \in Addrs, Up(b)', <<b, a>> \notin excused',
             Units(b, a)' # 0
      PROVE  /\ b \in DOMAIN bunches /\ Up(b) /\ <<b, a>> \notin excused
             /\ Units(b, a)' + Watches(b, a) <= Units(b, a) + Watches(b, a)'
  <2>1. /\ b \in DOMAIN bunches /\ Up(b) /\ <<b, a>> \notin excused
        /\ ~(c.to = b /\ c.addr = a)
        /\ Units(b, a)' = Units(b, a)
        /\ ComingIn(reports', b, a) = ComingIn(reports, b, a)
    BY <1>1, <1>3, <1>5 DEF Up, Units, Number, At
  <2>2. Watches(b, a)' = Watches(b, a)
    BY <1>1, <1>2, <1>4, <2>1, WatchesChange
  <2>3. Units(b, a) \in Nat /\ Watches(b, a) \in Nat
    BY <1>1, <2>1, BunchTypes, WatchesType
  <2> QED BY <2>1, <2>2, <2>3
<1> QED BY <1>4, <1>5, Balance

-----------------------------------------------------------------------------
(* The bunches.                                                              *)

LEMMA WatchesTold ==
  ASSUME HealthInv, HealthInv', UNCHANGED <<checks, failed>>,
         NEW b \in DOMAIN bunches', NEW came \in SUBSET Addrs, Tell(b, came),
         DOMAIN bunches \subseteq DOMAIN bunches'
  PROVE  \A c, a : /\ Watches(c, a)' = Watches(c, a)
                                        + IF b = c /\ a \in came THEN 1 ELSE 0
                   /\ Watches(c, a) \in Nat
<1> SUFFICES ASSUME NEW c, NEW a
             PROVE  /\ Watches(c, a)' = Watches(c, a)
                                        + IF b = c /\ a \in came THEN 1 ELSE 0
                    /\ Watches(c, a) \in Nat
  OBVIOUS
<1> DEFINE n == IF b = c /\ a \in came THEN 1 ELSE 0
           t == TaskFor(a, c)
<1>1. Cardinality(ComingIn(reports', c, a)) = Cardinality(ComingIn(reports, c, a)) + n
  <2>1. bunches' \in Seq(Bunch)
    BY DEF HealthInv, BunchesOK
  <2> QED BY <2>1, Told
<1>2. /\ Watches(c, a)' - Watches(c, a) =
            (Copies(t, checks') - Copies(t, checks))
            + (Copies(t, failed') - Copies(t, failed))
            + (Cardinality(ComingIn(reports', c, a))
               - Cardinality(ComingIn(reports, c, a)))
      /\ Watches(c, a) \in Nat /\ Watches(c, a)' \in Nat
      /\ Copies(t, checks) \in Nat /\ Copies(t, failed) \in Nat
      /\ Cardinality(ComingIn(reports, c, a)) \in Nat
  BY WatchesChange
<1>3. n \in Int
  OBVIOUS
<1> HIDE DEF n, t
<1>4. Watches(c, a)' = Watches(c, a) + n
  BY <1>1, <1>2, <1>3
<1> QED BY <1>2, <1>4 DEF n

LEMMA WatchesSame ==
  ASSUME HealthInv, UNCHANGED <<checks, failed, reports>>
  PROVE  \A c, a : Watches(c, a)' = Watches(c, a) /\ Watches(c, a) \in Nat
<1>1. \A c, a : Watches(c, a)' = Watches(c, a)
  BY DEF Watches, Coming, Copies, BagIn, BagToSet
<1> QED BY <1>1, WatchesType

\* One bunch takes a step: it suffices to count there.
LEMMA BunchBalance ==
  ASSUME Inv, HealthInv', NEW b \in DOMAIN bunches, DOMAIN bunches' = DOMAIN bunches,
         Up(b)' => Up(b),
         \A c \in DOMAIN bunches \ {b} : bunches'[c] = bunches[c],
         \A c \in DOMAIN bunches, a \in Addrs :
            <<c, a>> \notin excused' => Units(c, a)' = 0 \/ <<c, a>> \notin excused,
         \A c \in DOMAIN bunches \ {b}, a \in Addrs : Watches(c, a) <= Watches(c, a)',
         \A a \in Addrs : Up(b)' /\ <<b, a>> \notin excused' =>
            \/ Units(b, a)' = 0
            \/ Units(b, a)' + Watches(b, a) <= Units(b, a) + Watches(b, a)'
  PROVE  Inv'
<1> SUFFICES ASSUME NEW c \in DOMAIN bunches, NEW a \in Addrs,
                    Up(c)', <<c, a>> \notin excused', Units(c, a)' # 0
             PROVE  /\ Up(c) /\ <<c, a>> \notin excused
                    /\ Units(c, a)' + Watches(c, a) <= Units(c, a) + Watches(c, a)'
  BY Balance
<1>1. <<c, a>> \notin excused
  OBVIOUS
<1>2. CASE c = b
  BY <1>1, <1>2
<1>3. CASE c # b
  <2>1. Up(c) /\ Units(c, a)' = Units(c, a)
    BY <1>3 DEF Up, Units, Number, At
  <2>2. Watches(c, a) <= Watches(c, a)'
    BY <1>3
  <2>3. Units(c, a) \in Nat
    BY BunchTypes DEF Inv, HealthInv, BunchesOK
  <2>4. Watches(c, a) \in Nat /\ Watches(c, a)' \in Nat
    <3>1. HealthInv /\ HealthInv'
      BY DEF Inv
    <3> QED BY <3>1, WatchesChange
  <2> QED BY <1>1, <2>1, <2>2, <2>3, <2>4
<1> QED BY <1>2, <1>3

\* A unit gives way to a new one, which is reported: nothing is lost.
LEMMA ReplaceIs ==
  ASSUME HealthInv, NEW b \in DOMAIN bunches, NEW i \in DOMAIN bunches[b].stable,
         NEW x \in Addrs, Replace(b, i, x), UNCHANGED connections
  PROVE  /\ BunchesOK' /\ DOMAIN bunches' = DOMAIN bunches /\ Tell(b, {x})
         /\ bunches' \in Seq(Bunch)
         /\ Up(b)' => Up(b)
         /\ \A c \in DOMAIN bunches \ {b} : bunches'[c] = bunches[c]
         /\ \A a : Units(b, a)' <= Units(b, a)
                                   - (IF bunches[b].stable[i].addr = a THEN 1 ELSE 0)
                                   + (IF x = a THEN 1 ELSE 0)
<1> DEFINE old == bunches[b].stable
           rest == RemoveAt(old, i)
           stable == Append(rest, NewUnit(x))
           new == bunches[b].new
           bunch == [bunches[b] EXCEPT !.stable = stable]
<1>1. bunches[b] \in Bunch /\ old \in Seq(Unit) /\ new \in Seq(Unit)
  BY BunchTypes DEF HealthInv, BunchesOK
<1>2. rest \in Seq(Unit) /\ stable \in Seq(Unit)
  BY <1>1, RemoveProperties, AppendNumber
<1>3. Becomes(b, bunch) /\ Tell(b, {x})
  BY DEF Becomes, Replace
<1> HIDE DEF stable
<1>4. /\ bunch \in Bunch /\ bunch.stable = stable /\ bunch.new = new
      /\ bunch.at = bunches[b].at
  BY <1>1, <1>2 DEF Bunch
<1> HIDE DEF rest, old, new, bunch
<1>5. /\ BunchesOK' /\ bunches' \in Seq(Bunch) /\ DOMAIN bunches' = DOMAIN bunches
      /\ bunches'[b] = bunch
      /\ \A c \in DOMAIN bunches \ {b} : bunches'[c] = bunches[c]
      /\ \A a : Units(b, a)' = Number(stable, a) + Number(new, a)
  BY <1>3, <1>4, BecomesIs
<1>6. ASSUME NEW a
      PROVE  Units(b, a)' <= Units(b, a)
                             - (IF bunches[b].stable[i].addr = a THEN 1 ELSE 0)
                             + (IF x = a THEN 1 ELSE 0)
  <2> DEFINE m == IF old[i].addr = a THEN 1 ELSE 0
             n == IF x = a THEN 1 ELSE 0
  <2>1. Number(rest, a) <= Number(old, a) - m
    BY <1>1, RemoveNumber DEF rest, old
  <2>2. Number(stable, a) = Number(rest, a) + n
    BY <1>2, AppendNumber DEF stable
  <2>3. /\ Number(rest, a) \in Nat /\ Number(old, a) \in Nat
        /\ Number(stable, a) \in Nat /\ Number(new, a) \in Nat
    BY <1>1, <1>2, AtFinite
  <2>4. Units(b, a) = Number(old, a) + Number(new, a)
    BY DEF Units, old, new
  <2>5. m \in Int /\ n \in Int
    OBVIOUS
  <2> HIDE DEF m, n
  <2>6. Units(b, a)' <= Units(b, a) - m + n
    BY <1>5, <2>1, <2>2, <2>3, <2>4, <2>5
  <2> QED BY <2>6 DEF m, n, old
<1> QED BY <1>3, <1>4, <1>6, <1>5 DEF Up

LEMMA UnitExitsStep ==
  ASSUME Inv, NEW b \in DOMAIN bunches, UnitExits(b)
  PROVE  Inv'
<1>1. /\ HealthInv /\ Incident /\ Excuse({})
      /\ UNCHANGED <<instances_count, connections, checks, failed>>
  BY DEF Inv, UnitExits
<1>2. PICK i \in DOMAIN bunches[b].stable, x \in Addrs : Replace(b, i, x)
  BY DEF UnitExits
<1>3. /\ BunchesOK' /\ DOMAIN bunches' = DOMAIN bunches /\ Tell(b, {x})
      /\ bunches' \in Seq(Bunch)
      /\ Up(b)' => Up(b)
      /\ \A c \in DOMAIN bunches \ {b} : bunches'[c] = bunches[c]
      /\ \A a : Units(b, a)' <= Units(b, a)
                                - (IF bunches[b].stable[i].addr = a THEN 1 ELSE 0)
                                + (IF x = a THEN 1 ELSE 0)
  BY <1>1, <1>2, ReplaceIs
<1>4. /\ excused' \subseteq (DOMAIN bunches) \X Addrs
      /\ \A c \in DOMAIN bunches, a \in Addrs :
            <<c, a>> \notin excused' => Units(c, a)' = 0 \/ <<c, a>> \notin excused
  BY <1>1, <1>3, Excused
<1>5. HealthInv'
  <2>1. ReportsOK'
    BY <1>1, <1>3, Told
  <2> QED BY <1>1, <1>3, <1>4, <2>1, BunchInvStep, SameTypes, IncidentType, IncidentSpent
<1>6. \A c, a : /\ Watches(c, a)' = Watches(c, a) + IF b = c /\ a \in {x} THEN 1 ELSE 0
                /\ Watches(c, a) \in Nat
  BY <1>1, <1>3, <1>5, WatchesTold
<1>7. ASSUME NEW a \in Addrs
      PROVE  Units(b, a)' + Watches(b, a) <= Units(b, a) + Watches(b, a)'
  <2>1. Units(b, a) \in Nat /\ Units(b, a)' \in Nat
    BY <1>1, <1>3, BunchTypes, NextUnits DEF HealthInv, BunchesOK
  <2> QED BY <1>3, <1>6, <2>1
<1> QED BY <1>1, <1>3, <1>4, <1>5, <1>6, <1>7, BunchBalance

LEMMA UnlistedExitsStep ==
  ASSUME Inv, NEW b \in DOMAIN bunches, UnlistedExits(b)
  PROVE  Inv'
<1> DEFINE old == bunches[b].stable
           new == bunches[b].new
<1>1. /\ HealthInv /\ UNCHANGED <<instances_count, connections, reports, checks, failed>>
      /\ Incident \/ UNCHANGED incidents
      /\ bunches \in Seq(Bunch)
      /\ bunches[b] \in Bunch /\ old \in Seq(Unit) /\ new \in Seq(Unit)
      /\ bunches[b].unheard \in Nat
  BY BunchTypes DEF Inv, UnlistedExits, HealthInv, BunchesOK
<1>2. PICK x \in Addrs :
         /\ \/ /\ bunches[b].unheard > 0
               /\ bunches' = [bunches EXCEPT ![b].stable = Append(@, NewUnit(x)),
                                             ![b].unheard = @ - 1]
            \/ bunches' = [bunches EXCEPT ![b].stable = Append(@, NewUnit(x))]
         /\ Excuse({<<b, x>>})
  BY DEF UnlistedExits
<1> DEFINE more == Append(old, NewUnit(x))
<1>3. more \in Seq(Unit) /\ \A a : Number(more, a) = Number(old, a) + IF x = a THEN 1 ELSE 0
  BY <1>1, AppendNumber
<1>4. \E bunch \in Bunch : /\ Becomes(b, bunch) /\ bunch.at = bunches[b].at
                           /\ bunch.stable = more /\ bunch.new = new
  <2>1. CASE /\ bunches[b].unheard > 0
             /\ bunches' = [bunches EXCEPT ![b].stable = Append(@, NewUnit(x)),
                                           ![b].unheard = @ - 1]
    <3> DEFINE bunch == [bunches[b] EXCEPT !.stable = more, !.unheard = @ - 1]
    <3>1. bunches[b].unheard - 1 \in Nat
      BY <1>1, <2>1
    <3>2. Becomes(b, bunch)
      BY <1>1, <2>1 DEF Becomes
    <3> HIDE DEF more
    <3>3. /\ bunch \in Bunch /\ bunch.at = bunches[b].at
          /\ bunch.stable = more /\ bunch.new = new
      BY <1>1, <1>3, <3>1 DEF Bunch
    <3> QED BY <3>2, <3>3
  <2>2. CASE bunches' = [bunches EXCEPT ![b].stable = Append(@, NewUnit(x))]
    <3> DEFINE bunch == [bunches[b] EXCEPT !.stable = more]
    <3>1. Becomes(b, bunch)
      BY <1>1, <2>2 DEF Becomes
    <3> HIDE DEF more
    <3>2. /\ bunch \in Bunch /\ bunch.at = bunches[b].at
          /\ bunch.stable = more /\ bunch.new = new
      BY <1>1, <1>3 DEF Bunch
    <3> QED BY <3>1, <3>2
  <2> QED BY <1>2, <2>1, <2>2
<1> HIDE DEF more
<1>5. /\ BunchesOK' /\ DOMAIN bunches' = DOMAIN bunches
      /\ bunches' \in Seq(Bunch) /\ bunches'[b].at = bunches[b].at
      /\ \A c \in DOMAIN bunches \ {b} : bunches'[c] = bunches[c]
      /\ \A a : Units(b, a)' = Number(more, a) + Number(new, a)
  BY <1>1, <1>4, BecomesIs
<1>6. /\ excused' \subseteq (DOMAIN bunches) \X Addrs
      /\ \A c \in DOMAIN bunches, a \in Addrs :
            <<c, a>> \notin excused' =>
               \/ Units(c, a)' = 0
               \/ <<c, a>> \notin excused /\ <<c, a>> # <<b, x>>
  <2> DEFINE some == {<<b, x>>}
  <2>1. some \in SUBSET ((DOMAIN bunches) \X Addrs) /\ Excuse(some)
    BY <1>2
  <2>2. \A e : e \notin some => e # <<b, x>>
    OBVIOUS
  <2> HIDE DEF some
  <2> QED BY <1>1, <1>5, <2>1, <2>2, Excused
<1>7. HealthInv'
  BY <1>1, <1>5, <1>6, BunchInvStep, SameTypes, IncidentType, IncidentSpent
<1>8. \A c, a : Watches(c, a)' = Watches(c, a) /\ Watches(c, a) \in Nat
  BY <1>1, WatchesSame
<1>9. ASSUME NEW a \in Addrs, <<b, a>> \notin excused', Units(b, a)' # 0
      PROVE  Units(b, a)' + Watches(b, a) <= Units(b, a) + Watches(b, a)'
  <2>1. a # x
    BY <1>6, <1>9
  <2>2. Units(b, a)' = Units(b, a)
    <3>1. Number(more, a) = Number(old, a) + 0
      BY <1>3, <2>1
    <3> QED BY <1>1, <1>5, <3>1, AtFinite DEF Units
  <2>3. Units(b, a) \in Nat
    BY <1>1, BunchTypes DEF HealthInv, BunchesOK
  <2> QED BY <1>8, <2>2, <2>3
<1>10. \A c \in DOMAIN bunches \ {b}, a \in Addrs : Watches(c, a) <= Watches(c, a)'
  BY <1>8
<1>11. Up(b)' => Up(b)
  BY <1>5 DEF Up
<1> QED BY <1>1, <1>5, <1>6, <1>7, <1>9, <1>10, <1>11, BunchBalance

\* A failure is handled: with it goes one of the ways to its address.
LEMMA WatchesSpent ==
  ASSUME HealthInv, HealthInv', UNCHANGED checks,
         NEW m \in DOMAIN failed, failed' = Taken(failed, m)
  PROVE  \A c, a :
            /\ Watches(c, a)' = Watches(c, a)
                                - (IF m.to = c /\ m.addr = a THEN 1 ELSE 0)
                                + (Cardinality(ComingIn(reports', c, a))
                                   - Cardinality(ComingIn(reports, c, a)))
            /\ Watches(c, a) \in Nat /\ Watches(c, a)' \in Nat
            /\ Cardinality(ComingIn(reports, c, a)) \in Nat
<1> SUFFICES ASSUME NEW c, NEW a
             PROVE  /\ Watches(c, a)' = Watches(c, a)
                                - (IF m.to = c /\ m.addr = a THEN 1 ELSE 0)
                                + (Cardinality(ComingIn(reports', c, a))
                                   - Cardinality(ComingIn(reports, c, a)))
                    /\ Watches(c, a) \in Nat /\ Watches(c, a)' \in Nat
                    /\ Cardinality(ComingIn(reports, c, a)) \in Nat
  OBVIOUS
<1> DEFINE n == IF m.to = c /\ m.addr = a THEN 1 ELSE 0
           t == TaskFor(a, c)
<1>1. Copies(t, failed') = Copies(t, failed) - n
  BY TaskTaken DEF HealthInv
<1>2. Copies(t, checks') = Copies(t, checks)
  OBVIOUS
<1>3. /\ Watches(c, a)' - Watches(c, a) =
            (Copies(t, checks') - Copies(t, checks))
            + (Copies(t, failed') - Copies(t, failed))
            + (Cardinality(ComingIn(reports', c, a))
               - Cardinality(ComingIn(reports, c, a)))
      /\ Watches(c, a) \in Nat /\ Watches(c, a)' \in Nat
      /\ Copies(t, checks) \in Nat /\ Copies(t, failed) \in Nat
      /\ Cardinality(ComingIn(reports, c, a)) \in Nat
  BY WatchesChange
<1>4. Cardinality(ComingIn(reports', c, a)) \in Nat /\ n \in Int
  BY WatchesNext
<1> HIDE DEF n, t
<1>5. Watches(c, a)' = Watches(c, a) - n + (Cardinality(ComingIn(reports', c, a))
                                            - Cardinality(ComingIn(reports, c, a)))
  <2> DEFINE f == Copies(t, failed)
             f1 == Copies(t, failed')
             s == Copies(t, checks)
             s1 == Copies(t, checks')
             w == Watches(c, a)
             w1 == Watches(c, a)'
             k == Cardinality(ComingIn(reports, c, a))
             k1 == Cardinality(ComingIn(reports', c, a))
  <2>1. /\ f1 = f - n /\ s1 = s /\ w1 - w = (s1 - s) + (f1 - f) + (k1 - k)
        /\ f \in Nat /\ s \in Nat /\ w \in Nat /\ w1 \in Nat /\ k \in Nat /\ k1 \in Nat
        /\ n \in Int
    BY <1>1, <1>2, <1>3, <1>4
  <2> HIDE DEF f, f1, s, s1, w, w1, k, k1
  <2>2. w1 = w - n + (k1 - k)
    BY <2>1
  <2> QED BY <2>2 DEF w, w1, k, k1
<1> QED BY <1>3, <1>5 DEF n

LEMMA HandleFailedStep ==
  ASSUME Inv, NEW b \in DOMAIN bunches, NEW m \in DOMAIN failed, HandleFailed(b, m)
  PROVE  Inv'
<1> DEFINE stable == bunches[b].stable
           there(a) == IF m.addr = a THEN 1 ELSE 0
<1>1. /\ HealthInv /\ bunches \in Seq(Bunch) /\ m.to = b /\ m.addr \in Addrs
      /\ failed' = Taken(failed, m) /\ TasksOK(failed)
      /\ UNCHANGED <<instances_count, connections, checks, incidents>>
      /\ stable \in Seq(Unit)
  BY BunchTypes DEF Inv, HandleFailed, HealthInv, TasksOK, Task, BunchesOK, Taken
<1>2. TasksOK(Taken(failed, m))
  BY <1>1, TaskTaken
<1>3. CASE /\ UNCHANGED <<bunches, reports>>
           /\ Excuse({<<b, m.addr>>}) \/ (~InUse(bunches, b, m.addr) /\ UNCHANGED excused)
  <2>1. TasksOK(failed)'
    BY <1>1, <1>2, <1>3 DEF TasksOK
  <2>2. /\ excused' \subseteq (DOMAIN bunches) \X Addrs
        /\ \A c \in DOMAIN bunches, a \in Addrs :
              <<c, a>> \notin excused' =>
                 \/ Units(c, a)' = 0
                 \/ <<c, a>> \notin excused /\ <<c, a>> # <<b, m.addr>>
    <3>1. CASE Excuse({<<b, m.addr>>})
      <4> DEFINE some == {<<b, m.addr>>}
      <4>1. some \in SUBSET ((DOMAIN bunches) \X Addrs) /\ Excuse(some)
        BY <1>1, <3>1
      <4>2. \A e : e \notin some => e # <<b, m.addr>>
        OBVIOUS
      <4> HIDE DEF some
      <4> QED BY <1>1, <1>3, <4>1, <4>2, Excused
    <3>2. CASE ~InUse(bunches, b, m.addr) /\ UNCHANGED excused
      <4>1. \A c, a : Units(c, a)' = Units(c, a)
        BY <1>3 DEF Units, Number, At
      <4>2. Units(b, m.addr) = 0
        BY <1>1, <3>2, BunchTypes
      <4> QED BY <1>1, <3>2, <4>1, <4>2 DEF HealthInv
    <3> QED BY <1>3, <3>1, <3>2
  <2>3. HealthInv'
    <3>1. BunchesOK' /\ DOMAIN bunches' = DOMAIN bunches
      BY <1>1, <1>3 DEF HealthInv, BunchesOK
    <3> QED BY <1>1, <1>3, <2>1, <2>2, <3>1, BunchInvStep, SameTypes, IncidentType, IncidentSpent
  <2>4. \A c, a : c # b \/ a # m.addr => Watches(c, a)' = Watches(c, a)
                                         /\ Watches(c, a) \in Nat
    BY <1>1, <1>3, <2>3, WatchesSpent
  <2>5. \A a : Units(b, a)' = Units(b, a) /\ Units(b, a) \in Nat
    <3>1. \A a : Units(b, a)' = Units(b, a)
      BY <1>3 DEF Units, Number, At
    <3> QED BY <1>1, <3>1, BunchTypes
  <2>6. /\ Up(b)' => Up(b)
        /\ \A c \in DOMAIN bunches \ {b}, a \in Addrs : Watches(c, a) <= Watches(c, a)'
        /\ \A a \in Addrs : Up(b)' /\ <<b, a>> \notin excused' =>
              Units(b, a)' = 0 \/ Units(b, a)' + Watches(b, a) <= Units(b, a) + Watches(b, a)'
    BY <1>3, <2>2, <2>4, <2>5 DEF Up
  <2> QED BY <1>3, <2>2, <2>3, <2>6, BunchBalance
<1>4. CASE /\ At(stable, m.addr) # {}
           /\ \E x \in Addrs : Replace(b, FirstAt(stable, m.addr), x)
           /\ Excuse({})
  <2> DEFINE i == FirstAt(stable, m.addr)
  <2>1. i \in DOMAIN bunches[b].stable /\ bunches[b].stable[i].addr = m.addr
    BY <1>1, <1>4, FirstAtExists
  <2>2. PICK x \in Addrs : Replace(b, i, x)
    BY <1>4
  <2> HIDE DEF i
  <2> DEFINE new(a) == IF x = a THEN 1 ELSE 0
  <2>3. /\ BunchesOK' /\ DOMAIN bunches' = DOMAIN bunches /\ Tell(b, {x})
        /\ bunches' \in Seq(Bunch)
        /\ Up(b)' => Up(b)
        /\ \A c \in DOMAIN bunches \ {b} : bunches'[c] = bunches[c]
        /\ \A a : Units(b, a)' <= Units(b, a)
                                  - (IF bunches[b].stable[i].addr = a THEN 1 ELSE 0)
                                  + (IF x = a THEN 1 ELSE 0)
    BY <1>1, <2>1, <2>2, ReplaceIs
  <2>4. /\ excused' \subseteq (DOMAIN bunches) \X Addrs
        /\ \A c \in DOMAIN bunches, a \in Addrs :
              <<c, a>> \notin excused' => Units(c, a)' = 0 \/ <<c, a>> \notin excused
    BY <1>1, <1>4, <2>3, Excused
  <2>5. /\ ReportsOK'
        /\ \A c, a : Cardinality(ComingIn(reports', c, a)) =
                        Cardinality(ComingIn(reports, c, a))
                        + IF b = c /\ a \in {x} THEN 1 ELSE 0
    BY <1>1, <2>3, Told
  <2>6. HealthInv'
    <3>1. TasksOK(failed)'
      BY <1>1, <1>2, <2>3 DEF TasksOK
    <3> QED BY <1>1, <2>3, <2>4, <2>5, <3>1, BunchInvStep, SameTypes, IncidentType, IncidentSpent
  <2>7. ASSUME NEW c, NEW a
        PROVE  /\ Watches(c, a)' = Watches(c, a)
                                   - (IF m.to = c /\ m.addr = a THEN 1 ELSE 0)
                                   + (IF b = c /\ x = a THEN 1 ELSE 0)
               /\ Watches(c, a) \in Nat
    <3>1. /\ Watches(c, a)' = Watches(c, a)
                              - (IF m.to = c /\ m.addr = a THEN 1 ELSE 0)
                              + (Cardinality(ComingIn(reports', c, a))
                                 - Cardinality(ComingIn(reports, c, a)))
          /\ Watches(c, a) \in Nat
          /\ Cardinality(ComingIn(reports, c, a)) \in Nat
      BY <1>1, <2>6, WatchesSpent
    <3> QED BY <2>5, <3>1
  <2>8. ASSUME NEW a \in Addrs
        PROVE  Units(b, a)' + Watches(b, a) <= Units(b, a) + Watches(b, a)'
    <3>1. Units(b, a) \in Nat /\ Units(b, a)' \in Nat
      BY <1>1, <2>3, BunchTypes, NextUnits
    <3>2. Units(b, a)' <= Units(b, a) - there(a) + new(a)
      BY <2>1, <2>3
    <3>3. Watches(b, a)' = Watches(b, a) - there(a) + new(a) /\ Watches(b, a) \in Nat
      BY <1>1, <2>7
    <3>4. there(a) \in Int /\ new(a) \in Int
      OBVIOUS
    <3> HIDE DEF there, new
    <3> QED BY <3>1, <3>2, <3>3, <3>4
  <2>9. \A c \in DOMAIN bunches \ {b}, a \in Addrs : Watches(c, a) <= Watches(c, a)'
    BY <1>1, <2>7
  <2> QED BY <2>3, <2>4, <2>6, <2>8, <2>9, BunchBalance
<1>5. \/ /\ UNCHANGED <<bunches, reports>>
         /\ Excuse({<<b, m.addr>>}) \/ (~InUse(bunches, b, m.addr) /\ UNCHANGED excused)
      \/ /\ At(stable, m.addr) # {}
         /\ \E x \in Addrs : Replace(b, FirstAt(stable, m.addr), x)
         /\ Excuse({})
  BY DEF HandleFailed
<1> QED BY <1>3, <1>4, <1>5


\* One bunch becomes another, with no unit more at an address than are reported.
LEMMA BunchMoves ==
  ASSUME Inv, NEW b \in DOMAIN bunches, NEW bunch \in Bunch, Becomes(b, bunch),
         bunch.at # "over" => Up(b),
         UNCHANGED <<instances_count, connections, checks, failed>>,
         Spent,
         NEW came \in SUBSET Addrs, Tell(b, came) \/ (came = {} /\ UNCHANGED reports),
         Excuse({}) \/ UNCHANGED excused,
         \A a \in Addrs : Number(bunch.stable, a) + Number(bunch.new, a) <=
                             Units(b, a) + IF a \in came THEN 1 ELSE 0
  PROVE  Inv'
<1>1. /\ HealthInv /\ bunches \in Seq(Bunch)
      /\ excused \subseteq (DOMAIN bunches) \X Addrs
  BY DEF Inv, HealthInv, BunchesOK
<1>2. /\ BunchesOK' /\ bunches' \in Seq(Bunch) /\ DOMAIN bunches' = DOMAIN bunches
      /\ bunches'[b] = bunch
      /\ \A c \in DOMAIN bunches \ {b} : bunches'[c] = bunches[c]
      /\ \A a : Units(b, a)' = Number(bunch.stable, a) + Number(bunch.new, a)
  BY <1>1, BecomesIs
<1>3. /\ excused' \subseteq (DOMAIN bunches) \X Addrs
      /\ \A c \in DOMAIN bunches, a \in Addrs :
            <<c, a>> \notin excused' => Units(c, a)' = 0 \/ <<c, a>> \notin excused
  <2>1. CASE Excuse({})
    BY <1>1, <1>2, <2>1, Excused
  <2>2. CASE UNCHANGED excused
    BY <1>1, <2>2
  <2> QED BY <2>1, <2>2
<1>4. HealthInv'
  <2>1. ReportsOK'
    <3>1. CASE Tell(b, came)
      BY <1>1, <1>2, <3>1, Told
    <3>2. CASE UNCHANGED reports
      BY <1>1, <1>2, <3>2, SameTypes
    <3> QED BY <3>1, <3>2
  <2> QED BY <1>1, <1>2, <1>3, <2>1, BunchInvStep, SameTypes, IncidentType
<1>5. \A c, a : /\ Watches(c, a)' = Watches(c, a) + IF b = c /\ a \in came THEN 1 ELSE 0
                /\ Watches(c, a) \in Nat
  <2>1. CASE Tell(b, came)
    BY <1>1, <1>2, <1>4, <2>1, WatchesTold
  <2>2. CASE came = {} /\ UNCHANGED reports
    BY <1>1, <2>2, WatchesSame
  <2> QED BY <2>1, <2>2
<1>6. ASSUME NEW a \in Addrs
      PROVE  Units(b, a)' + Watches(b, a) <= Units(b, a) + Watches(b, a)'
  <2>1. Units(b, a) \in Nat /\ Units(b, a)' \in Nat
    BY <1>1, <1>2, BunchTypes, NextUnits
  <2>2. /\ Units(b, a)' <= Units(b, a) + IF a \in came THEN 1 ELSE 0
        /\ Watches(b, a)' = Watches(b, a) + IF a \in came THEN 1 ELSE 0
        /\ Watches(b, a) \in Nat
    BY <1>2, <1>5
  <2> QED BY <2>1, <2>2
<1>7. /\ Up(b)' => Up(b)
      /\ \A c \in DOMAIN bunches \ {b}, a \in Addrs : Watches(c, a) <= Watches(c, a)'
  BY <1>2, <1>5 DEF Up
<1> QED BY <1>2, <1>3, <1>4, <1>6, <1>7, BunchBalance

\* The same, with nothing to report.
LEMMA BunchMovesSilently ==
  ASSUME Inv, NEW b \in DOMAIN bunches, NEW bunch \in Bunch, Becomes(b, bunch),
         bunch.at # "over" => Up(b),
         UNCHANGED <<instances_count, connections, checks, failed, reports>>,
         Spent,
         Excuse({}) \/ UNCHANGED excused,
         \A a \in Addrs : Number(bunch.stable, a) + Number(bunch.new, a) <= Units(b, a)
  PROVE  Inv'
<1> DEFINE came == {}
<1>1. came \in SUBSET Addrs /\ \A a : (IF a \in came THEN 1 ELSE 0) = 0
  OBVIOUS
<1>2. \A a \in Addrs : Units(b, a) \in Nat
  BY BunchTypes DEF Inv, HealthInv, BunchesOK
<1>3. \A a \in Addrs : Number(bunch.stable, a) + Number(bunch.new, a) <=
                          Units(b, a) + IF a \in came THEN 1 ELSE 0
  <2> HIDE DEF came
  <2> QED BY <1>1, <1>2
<1>4. came = {}
  OBVIOUS
<1> HIDE DEF came
<1> QED BY <1>1, <1>3, <1>4, BunchMoves, IncidentSpent

LEMMA StartUpdateStep ==
  ASSUME Inv, NEW b \in DOMAIN bunches, StartUpdate(b)
  PROVE  Inv'
<1>1. /\ bunches[b].at = "running" /\ Incident
      /\ UNCHANGED <<instances_count, connections, checks, failed, excused>>
  BY DEF StartUpdate
<1>2. PICK x \in Addrs : /\ bunches' = [bunches EXCEPT ![b].at = "rolling",
                                                       ![b].new = Append(@, NewUnit(x))]
                         /\ Tell(b, {x})
  BY DEF StartUpdate
<1>3. /\ bunches \in Seq(Bunch) /\ bunches[b] \in Bunch
      /\ bunches[b].stable \in Seq(Unit) /\ bunches[b].new \in Seq(Unit)
  BY BunchTypes DEF Inv, HealthInv, BunchesOK
<1> DEFINE new == Append(bunches[b].new, NewUnit(x))
           bunch == [bunches[b] EXCEPT !.at = "rolling", !.new = new]
<1>4. Becomes(b, bunch)
  BY <1>2, <1>3 DEF Becomes
<1>5. new \in Seq(Unit) /\ \A a : Number(new, a) = Number(bunches[b].new, a)
                                                   + IF a \in {x} THEN 1 ELSE 0
  BY <1>3, AppendNumber
<1> HIDE DEF new
<1>6. /\ bunch \in Bunch /\ bunch.at = "rolling"
      /\ bunch.stable = bunches[b].stable /\ bunch.new = new
  BY <1>3, <1>5 DEF Bunch
<1> HIDE DEF bunch
<1>7. ASSUME NEW a
      PROVE  Number(bunch.stable, a) + Number(bunch.new, a) <=
                Units(b, a) + IF a \in {x} THEN 1 ELSE 0
  <2>1. Number(bunches[b].stable, a) \in Nat /\ Number(bunches[b].new, a) \in Nat
    BY <1>3, AtFinite
  <2> QED BY <1>5, <1>6, <2>1 DEF Units
<1>8. Up(b) /\ {x} \in SUBSET Addrs
  BY <1>1 DEF Up
<1> HIDE DEF Becomes
<1> QED BY <1>1, <1>2, <1>4, <1>6, <1>7, <1>8, BunchMoves, IncidentSpent

LEMMA RollStep ==
  ASSUME Inv, NEW b \in DOMAIN bunches, Roll(b)
  PROVE  Inv'
<1> DEFINE stable == bunches[b].stable
           rest == Front(stable)
           new == bunches[b].new
<1>1. /\ bunches[b].at = "rolling" /\ Excuse({})
      /\ UNCHANGED <<instances_count, connections, checks, failed>>
  BY DEF Roll
<1>2. PICK gone \in {0, 1} :
         \/ /\ Len(stable) > 1
            /\ Spent
            /\ \E a \in Addrs :
                  /\ bunches' = [bunches EXCEPT
                        ![b].stable = rest, ![b].new = Append(@, NewUnit(a)),
                        ![b].unheard = @ + gone]
                  /\ Tell(b, {a})
         \/ /\ Len(stable) > 1
            /\ Spent
            /\ bunches' = [bunches EXCEPT
                  ![b].stable = rest, ![b].at = "running", ![b].unheard = @ + gone]
            /\ UNCHANGED reports
         \/ /\ Len(stable) = 1
            /\ Spent
            /\ bunches' = [bunches EXCEPT
                  ![b].stable = new, ![b].new = <<>>, ![b].at = "running",
                  ![b].unheard = @ + gone]
            /\ UNCHANGED reports
  <2>1. \A n \in {0, 1} : (Incidents(n) => Spent) /\ (Incidents(n + 1) => Spent)
    BY DEF Spent
  <2> QED BY <2>1 DEF Roll
<1>3. /\ bunches \in Seq(Bunch) /\ bunches[b] \in Bunch
      /\ stable \in Seq(Unit) /\ new \in Seq(Unit)
      /\ bunches[b].unheard + gone \in Nat
  BY BunchTypes DEF Inv, HealthInv, BunchesOK
<1>4. Len(stable) >= 1 => rest \in Seq(Unit) /\ \A a : Number(rest, a) <= Number(stable, a)
  BY <1>3, FrontNumber
<1>5. \A a : /\ Units(b, a) = Number(stable, a) + Number(new, a)
             /\ Number(stable, a) \in Nat /\ Number(new, a) \in Nat
             /\ Len(stable) >= 1 => Number(rest, a) \in Nat
  BY <1>3, <1>4, AtFinite DEF Units
<1>6. Up(b)
  BY <1>1 DEF Up
<1> HIDE DEF rest
<1>7. CASE /\ Len(stable) > 1
           /\ Spent
           /\ \E a \in Addrs :
                 /\ bunches' = [bunches EXCEPT
                       ![b].stable = rest, ![b].new = Append(@, NewUnit(a)),
                       ![b].unheard = @ + gone]
                 /\ Tell(b, {a})
  <2>1. PICK x \in Addrs : /\ bunches' = [bunches EXCEPT
                                 ![b].stable = rest, ![b].new = Append(@, NewUnit(x)),
                                 ![b].unheard = @ + gone]
                           /\ Tell(b, {x})
    BY <1>7
  <2> DEFINE more == Append(new, NewUnit(x))
             bunch == [bunches[b] EXCEPT !.stable = rest, !.new = more,
                                         !.unheard = @ + gone]
  <2>2. Becomes(b, bunch)
    BY <1>3, <2>1 DEF Becomes
  <2>3. more \in Seq(Unit) /\ \A a : Number(more, a) = Number(new, a)
                                                       + IF a \in {x} THEN 1 ELSE 0
    BY <1>3, AppendNumber
  <2> HIDE DEF more
  <2>4. bunch \in Bunch /\ bunch.stable = rest /\ bunch.new = more
    <3>1. rest \in Seq(Unit)
      BY <1>3, <1>4, <1>7
    <3> QED BY <1>3, <2>3, <3>1 DEF Bunch
  <2> HIDE DEF bunch
  <2>5. ASSUME NEW a
        PROVE  Number(bunch.stable, a) + Number(bunch.new, a) <=
                  Units(b, a) + IF a \in {x} THEN 1 ELSE 0
    BY <1>3, <1>4, <1>5, <1>7, <2>3, <2>4
  <2>6. {x} \in SUBSET Addrs
    OBVIOUS
  <2> QED BY <1>1, <1>6, <1>7, <2>1, <2>2, <2>4, <2>5, <2>6, BunchMoves
<1>8. CASE /\ Len(stable) > 1
           /\ Spent
           /\ bunches' = [bunches EXCEPT
                 ![b].stable = rest, ![b].at = "running", ![b].unheard = @ + gone]
           /\ UNCHANGED reports
  <2> DEFINE bunch == [bunches[b] EXCEPT !.stable = rest, !.at = "running",
                                         !.unheard = @ + gone]
  <2>1. Becomes(b, bunch)
    BY <1>3, <1>8 DEF Becomes
  <2>2. bunch \in Bunch /\ bunch.stable = rest /\ bunch.new = new
    <3>1. rest \in Seq(Unit)
      BY <1>3, <1>4, <1>8
    <3> QED BY <1>3, <3>1 DEF Bunch
  <2> HIDE DEF bunch
  <2>3. ASSUME NEW a
        PROVE  Number(bunch.stable, a) + Number(bunch.new, a) <=
                  Units(b, a)
    BY <1>3, <1>4, <1>5, <1>8, <2>2
  <2> QED BY <1>1, <1>6, <1>8, <2>1, <2>2, <2>3, BunchMovesSilently
<1>9. CASE /\ Len(stable) = 1
           /\ Spent
           /\ bunches' = [bunches EXCEPT
                 ![b].stable = new, ![b].new = <<>>, ![b].at = "running",
                 ![b].unheard = @ + gone]
           /\ UNCHANGED reports
  <2> DEFINE bunch == [bunches[b] EXCEPT !.stable = new, !.new = <<>>, !.at = "running",
                                         !.unheard = @ + gone]
  <2>1. Becomes(b, bunch)
    BY <1>3, <1>9 DEF Becomes
  <2>2. bunch \in Bunch /\ bunch.stable = new /\ bunch.new = <<>>
    BY <1>3, EmptyNumber DEF Bunch
  <2> HIDE DEF bunch
  <2>3. ASSUME NEW a
        PROVE  Number(bunch.stable, a) + Number(bunch.new, a) <=
                  Units(b, a)
    BY <1>5, <2>2, EmptyNumber
  <2> QED BY <1>1, <1>6, <1>9, <2>1, <2>2, <2>3, BunchMovesSilently
<1> QED BY <1>2, <1>7, <1>8, <1>9

LEMMA HealthNumber ==
  ASSUME NEW units \in Seq(Unit), NEW i \in DOMAIN units,
         NEW health \in {"failing", "silent"}
  PROVE  /\ [units EXCEPT ![i].health = health] \in Seq(Unit)
         /\ \A a : Number([units EXCEPT ![i].health = health], a) = Number(units, a)
<1> DEFINE sick == [units EXCEPT ![i].health = health]
<1>1. units[i] \in Unit /\ [units[i] EXCEPT !.health = health] \in Unit
  <2>1. units[i] \in Unit
    OBVIOUS
  <2> QED BY <2>1 DEF Unit
<1>2. sick \in Seq(Unit) /\ DOMAIN sick = DOMAIN units
  BY <1>1, ExceptSeq
<1>3. \A j \in DOMAIN units : sick[j].addr = units[j].addr
  BY <1>1 DEF Unit
<1> HIDE DEF sick
<1>4. \A a : At(sick, a) = At(units, a)
  BY <1>2, <1>3 DEF At
<1> QED BY <1>2, <1>4 DEF Number, sick

LEMMA SickenStep ==
  ASSUME Inv, NEW b \in DOMAIN bunches, Sicken(b)
  PROVE  Inv'
<1>1. Incident /\ UNCHANGED <<instances_count, connections, reports, checks, failed, excused>>
  BY DEF Sicken
<1>2. /\ bunches \in Seq(Bunch) /\ bunches[b] \in Bunch
      /\ bunches[b].stable \in Seq(Unit) /\ bunches[b].new \in Seq(Unit)
      /\ \A a : /\ Units(b, a) = Number(bunches[b].stable, a) + Number(bunches[b].new, a)
                /\ Units(b, a) \in Nat
  BY BunchTypes DEF Inv, HealthInv, BunchesOK, Units
<1>3. ASSUME NEW health \in {"failing", "silent"}, NEW i \in DOMAIN bunches[b].stable,
             bunches' = [bunches EXCEPT ![b].stable[i].health = health]
      PROVE  Inv'
  <2> DEFINE stable == [bunches[b].stable EXCEPT ![i].health = health]
             bunch == [bunches[b] EXCEPT !.stable = stable]
  <2>1. Becomes(b, bunch)
    BY <1>2, <1>3 DEF Becomes
  <2>2. stable \in Seq(Unit) /\ \A a : Number(stable, a) = Number(bunches[b].stable, a)
    BY <1>2, HealthNumber
  <2> HIDE DEF stable
  <2>3. /\ bunch \in Bunch /\ bunch.at = bunches[b].at
        /\ bunch.stable = stable /\ bunch.new = bunches[b].new
    BY <1>2, <2>2 DEF Bunch
  <2> HIDE DEF bunch
  <2>4. ASSUME NEW a
        PROVE  Number(bunch.stable, a) + Number(bunch.new, a) <=
                  Units(b, a)
    BY <1>2, <2>2, <2>3
  <2>5. bunch.at # "over" => Up(b)
    BY <2>3 DEF Up
  <2> QED BY <1>1, <2>1, <2>3, <2>4, <2>5, BunchMovesSilently, IncidentSpent
<1>4. ASSUME NEW health \in {"failing", "silent"}, NEW i \in DOMAIN bunches[b].new,
             bunches' = [bunches EXCEPT ![b].new[i].health = health]
      PROVE  Inv'
  <2> DEFINE new == [bunches[b].new EXCEPT ![i].health = health]
             bunch == [bunches[b] EXCEPT !.new = new]
  <2>1. Becomes(b, bunch)
    BY <1>2, <1>4 DEF Becomes
  <2>2. new \in Seq(Unit) /\ \A a : Number(new, a) = Number(bunches[b].new, a)
    BY <1>2, HealthNumber
  <2> HIDE DEF new
  <2>3. /\ bunch \in Bunch /\ bunch.at = bunches[b].at
        /\ bunch.stable = bunches[b].stable /\ bunch.new = new
    BY <1>2, <2>2 DEF Bunch
  <2> HIDE DEF bunch
  <2>4. ASSUME NEW a
        PROVE  Number(bunch.stable, a) + Number(bunch.new, a) <=
                  Units(b, a)
    BY <1>2, <2>2, <2>3
  <2>5. bunch.at # "over" => Up(b)
    BY <2>3 DEF Up
  <2> QED BY <1>1, <2>1, <2>3, <2>4, <2>5, BunchMovesSilently, IncidentSpent
<1> QED BY <1>3, <1>4 DEF Sicken


\* What is left of the tasks, or the failures, when a bunch ends.
Kept(tasks, b) == [c \in {d \in DOMAIN tasks : d.to # b} |-> tasks[c]]

LEMMA KeptAre ==
  ASSUME HealthInv, NEW tasks, TasksOK(tasks), NEW b
  PROVE  /\ TasksOK(Kept(tasks, b))
         /\ \A c, a : c # b => Copies(TaskFor(a, c), Kept(tasks, b)) =
                                  Copies(TaskFor(a, c), tasks)
<1>1. /\ DOMAIN Kept(tasks, b) = {d \in DOMAIN tasks : d.to # b}
      /\ \A d \in DOMAIN Kept(tasks, b) : Kept(tasks, b)[d] = tasks[d]
  BY DEF Kept
<1>2. \A d \in DOMAIN tasks : tasks[d] \in {n \in Nat : n > 0}
  BY DEF TasksOK, IsABag
<1>3. IsABag(Kept(tasks, b))
  <2>1. Kept(tasks, b) = [d \in DOMAIN Kept(tasks, b) |-> Kept(tasks, b)[d]]
    BY DEF Kept
  <2> QED BY <1>1, <1>2, <2>1 DEF IsABag
<1>4. \A c, a : TaskFor(a, c).to = c
  BY DEF TaskFor
<1>5. ASSUME NEW c, NEW a, c # b
      PROVE  Copies(TaskFor(a, c), Kept(tasks, b)) = Copies(TaskFor(a, c), tasks)
  BY <1>1, <1>4, <1>5 DEF Copies, BagIn, BagToSet
<1> QED BY <1>1, <1>3, <1>5 DEF TasksOK

LEMMA EndStep ==
  ASSUME Inv, NEW b \in DOMAIN bunches, End(b)
  PROVE  Inv'
<1> DEFINE bunch == [at |-> "over", stable |-> <<>>, new |-> <<>>, unheard |-> 0]
<1>1. /\ HealthInv /\ Becomes(b, bunch) /\ Excuse({})
      /\ failed' = Kept(failed, b) /\ checks' = Kept(checks, b)
      /\ UNCHANGED <<instances_count, connections, reports, incidents>>
      /\ TasksOK(failed) /\ TasksOK(checks) /\ bunches \in Seq(Bunch)
  BY DEF Inv, End, Becomes, Kept, HealthInv, BunchesOK
<1>2. bunch \in Bunch /\ bunch.at = "over"
  BY EmptyNumber DEF Bunch
<1> HIDE DEF bunch
<1>3. /\ BunchesOK' /\ bunches' \in Seq(Bunch) /\ DOMAIN bunches' = DOMAIN bunches
      /\ bunches'[b] = bunch
      /\ \A c \in DOMAIN bunches \ {b} : bunches'[c] = bunches[c]
  BY <1>1, <1>2, BecomesIs
<1>4. /\ excused' \subseteq (DOMAIN bunches) \X Addrs
      /\ \A c \in DOMAIN bunches, a \in Addrs :
            <<c, a>> \notin excused' => Units(c, a)' = 0 \/ <<c, a>> \notin excused
  BY <1>1, <1>3, Excused
<1>5. /\ TasksOK(Kept(failed, b)) /\ TasksOK(Kept(checks, b))
      /\ \A c, a : c # b => /\ Copies(TaskFor(a, c), failed') = Copies(TaskFor(a, c), failed)
                            /\ Copies(TaskFor(a, c), checks') = Copies(TaskFor(a, c), checks)
  BY <1>1, KeptAre
<1>6. HealthInv'
  <2>1. TasksOK(failed)' /\ TasksOK(checks)'
    BY <1>1, <1>3, <1>5 DEF TasksOK
  <2> QED BY <1>1, <1>3, <1>4, <2>1, BunchInvStep, SameTypes, IncidentType, IncidentSpent
<1>7. ASSUME NEW c \in DOMAIN bunches \ {b}, NEW a \in Addrs
      PROVE  Watches(c, a) <= Watches(c, a)'
  <2> DEFINE t == TaskFor(a, c)
  <2>1. /\ Watches(c, a)' - Watches(c, a) =
              (Copies(t, checks') - Copies(t, checks))
              + (Copies(t, failed') - Copies(t, failed))
              + (Cardinality(ComingIn(reports', c, a))
                 - Cardinality(ComingIn(reports, c, a)))
        /\ Watches(c, a) \in Nat /\ Watches(c, a)' \in Nat
        /\ Copies(t, checks) \in Nat /\ Copies(t, failed) \in Nat
        /\ Cardinality(ComingIn(reports, c, a)) \in Nat
    BY <1>1, <1>6, WatchesChange
  <2>2. /\ Copies(t, checks') = Copies(t, checks) /\ Copies(t, failed') = Copies(t, failed)
        /\ ComingIn(reports', c, a) = ComingIn(reports, c, a)
    BY <1>1, <1>5
  <2> HIDE DEF t
  <2> QED BY <2>1, <2>2
<1>8. ~Up(b)'
  BY <1>2, <1>3 DEF Up
<1> QED BY <1>3, <1>4, <1>6, <1>7, <1>8, BunchBalance

LEMMA BunchTaskStep ==
  ASSUME Inv, NEW b \in DOMAIN bunches, BunchTask(b)
  PROVE  Inv'
BY UnitExitsStep, UnlistedExitsStep, StartUpdateStep, RollStep, EndStep, SickenStep,
   HandleFailedStep DEF BunchTask, BagToSet

-----------------------------------------------------------------------------
(* The controller.                                                           *)

\* A bunch is made, and perhaps listed.
LEMMA BunchAdded ==
  ASSUME HealthInv, NEW bunch \in Bunch, bunches' = Append(bunches, bunch),
         UNCHANGED connections \/ connections' = Append(connections, Len(bunches) + 1)
  PROVE  /\ BunchesOK' /\ bunches' \in Seq(Bunch)
         /\ Len(bunches) + 1 \in Nat /\ Len(bunches) + 1 \notin DOMAIN bunches
         /\ DOMAIN bunches' = DOMAIN bunches \cup {Len(bunches) + 1}
         /\ bunches'[Len(bunches) + 1] = bunch
         /\ \A c \in DOMAIN bunches : bunches'[c] = bunches[c]
<1>1. /\ bunches \in Seq(Bunch) /\ connections \in Seq(DOMAIN bunches)
      /\ Len(bunches) \in Nat /\ DOMAIN bunches = 1..Len(bunches)
  BY DEF HealthInv, BunchesOK
<1>2. /\ bunches' \in Seq(Bunch) /\ DOMAIN bunches' = 1..(Len(bunches) + 1)
      /\ bunches'[Len(bunches) + 1] = bunch
      /\ \A c \in DOMAIN bunches : bunches'[c] = bunches[c]
  BY <1>1, AppendProperties
<1>3. connections' \in Seq(DOMAIN bunches')
  <2>1. connections \in Seq(DOMAIN bunches') /\ Len(bunches) + 1 \in DOMAIN bunches'
    BY <1>1, <1>2
  <2>2. Append(connections, Len(bunches) + 1) \in Seq(DOMAIN bunches')
    BY <2>1, AppendProperties
  <2> QED BY <2>1, <2>2
<1> QED BY <1>1, <1>2, <1>3 DEF BunchesOK

\* Nothing is lost where a bunch is made.
LEMMA BunchAddedBalance ==
  ASSUME Inv, HealthInv', UNCHANGED <<failed, excused>>,
         NEW bunch \in Bunch, bunches' = Append(bunches, bunch),
         UNCHANGED connections \/ connections' = Append(connections, Len(bunches) + 1),
         \A c, a : Copies(TaskFor(a, c), checks) <= Copies(TaskFor(a, c), checks'),
         \A c \in DOMAIN bunches : \A a :
            Cardinality(ComingIn(reports, c, a)) <= Cardinality(ComingIn(reports', c, a)),
         \A a \in Addrs : bunch.at = "over" \/
            Number(bunch.stable, a) + Number(bunch.new, a) <=
               Cardinality(ComingIn(reports', Len(bunches) + 1, a))
  PROVE  Inv'
<1>1. HealthInv /\ excused \subseteq (DOMAIN bunches) \X Addrs /\ bunches \in Seq(Bunch)
  BY DEF Inv, HealthInv, BunchesOK
<1> PICK b : b = Len(bunches) + 1
  OBVIOUS
<1>2. /\ bunches' \in Seq(Bunch)
      /\ DOMAIN bunches' = DOMAIN bunches \cup {b} /\ bunches'[b] = bunch
      /\ \A c \in DOMAIN bunches : bunches'[c] = bunches[c]
  BY <1>1, BunchAdded
<1>3. ASSUME NEW c \in DOMAIN bunches, NEW a \in Addrs, Up(c)', <<c, a>> \notin excused'
      PROVE  /\ Up(c) /\ <<c, a>> \notin excused
             /\ Units(c, a)' + Watches(c, a) <= Units(c, a) + Watches(c, a)'
  <2>1. Units(c, a)' = Units(c, a) /\ Up(c)
    BY <1>2, <1>3 DEF Units, Number, At, Up
  <2>2. Units(c, a) \in Nat
    BY <1>1, BunchTypes
  <2>3. Watches(c, a) <= Watches(c, a)' /\ Watches(c, a) \in Nat /\ Watches(c, a)' \in Nat
    <3> DEFINE t == TaskFor(a, c)
    <3>1. /\ Watches(c, a)' - Watches(c, a) =
                (Copies(t, checks') - Copies(t, checks))
                + (Copies(t, failed') - Copies(t, failed))
                + (Cardinality(ComingIn(reports', c, a))
                   - Cardinality(ComingIn(reports, c, a)))
          /\ Watches(c, a) \in Nat /\ Watches(c, a)' \in Nat
          /\ Copies(t, checks) \in Nat /\ Copies(t, failed) \in Nat
          /\ Cardinality(ComingIn(reports, c, a)) \in Nat
      BY <1>1, WatchesChange
    <3>2. /\ Copies(t, checks') \in Nat /\ Copies(t, failed') \in Nat
          /\ Cardinality(ComingIn(reports', c, a)) \in Nat
      BY WatchesNext
    <3>3. /\ Copies(t, checks) <= Copies(t, checks') /\ Copies(t, failed') = Copies(t, failed)
          /\ Cardinality(ComingIn(reports, c, a)) <= Cardinality(ComingIn(reports', c, a))
      OBVIOUS
    <3> HIDE DEF t
    <3> QED BY <3>1, <3>2, <3>3
  <2> QED BY <1>3, <2>1, <2>2, <2>3
<1>4. ASSUME NEW a \in Addrs, Up(b)'
      PROVE  Units(b, a)' <= Watches(b, a)'
  <2>1. /\ Number(bunch.stable, a) + Number(bunch.new, a) <=
              Cardinality(ComingIn(reports', b, a))
        /\ Units(b, a)' = Number(bunch.stable, a) + Number(bunch.new, a)
    BY <1>2, <1>4 DEF Units, Number, At, Up
  <2>2. Units(b, a)' \in Nat
    BY <1>2, NextUnits
  <2>3. /\ Watches(b, a)' = Copies(TaskFor(a, b), checks') + Copies(TaskFor(a, b), failed')
                            + Cardinality(ComingIn(reports', b, a))
        /\ Copies(TaskFor(a, b), checks') \in Nat
        /\ Copies(TaskFor(a, b), failed') \in Nat
        /\ Cardinality(ComingIn(reports', b, a)) \in Nat
    BY WatchesNext
  <2> QED BY <2>1, <2>2, <2>3
<1> QED BY <1>2, <1>3, <1>4, Balance


\* The units of a bunch that is spawned have addresses of their own.
LEMMA SpawnedNumber ==
  ASSUME NEW n \in Nat, NEW addrs \in [1..n -> Addrs], IsInjective(addrs)
  PROVE  /\ [i \in DOMAIN addrs |-> NewUnit(addrs[i])] \in Seq(Unit)
         /\ ToSet(addrs) \in SUBSET Addrs
         /\ \A a : Number([i \in DOMAIN addrs |-> NewUnit(addrs[i])], a) <=
                      IF a \in ToSet(addrs) THEN 1 ELSE 0
<1> DEFINE units == [i \in DOMAIN addrs |-> NewUnit(addrs[i])]
<1>1. DOMAIN addrs = 1..n /\ \A i \in 1..n : addrs[i] \in Addrs
  OBVIOUS
<1>2. \A x \in Addrs : NewUnit(x) \in Unit /\ NewUnit(x).addr = x
  BY DEF NewUnit, Unit
<1>3. units \in Seq(Unit)
  <2>1. units \in [1..n -> Unit]
    BY <1>1, <1>2
  <2> QED BY <2>1, SeqDef
<1>4. ToSet(addrs) = {addrs[i] : i \in 1..n}
  BY <1>1 DEF ToSet
<1>5. ASSUME NEW a
      PROVE  Number(units, a) <= IF a \in ToSet(addrs) THEN 1 ELSE 0
  <2>1. At(units, a) = {i \in 1..n : addrs[i] = a}
    BY <1>1, <1>2 DEF At
  <2> HIDE DEF units
  <2>2. CASE a \in ToSet(addrs)
    <3>1. PICK i \in 1..n : addrs[i] = a
      BY <1>4, <2>2
    <3>2. At(units, a) = {i}
      BY <1>1, <2>1, <3>1 DEF IsInjective
    <3>3. Cardinality({i}) = 1
      BY FS_Singleton
    <3> QED BY <2>2, <3>2, <3>3 DEF Number
  <2>3. CASE a \notin ToSet(addrs)
    <3>1. At(units, a) = {}
      BY <1>4, <2>1, <2>3
    <3> QED BY <2>3, <3>1, FS_EmptySet DEF Number
  <2> QED BY <2>2, <2>3
<1> QED BY <1>1, <1>3, <1>4, <1>5

LEMMA StartStep ==
  ASSUME Inv, Start
  PROVE  Inv'
<1>1. /\ HealthInv
      /\ Incident \/ UNCHANGED incidents
      /\ UNCHANGED <<instances_count, failed, excused>>
      /\ instances_count \in Nat
  BY InstancesAssumption DEF Inv, HealthInv, Start, MayStart
<1> PICK b : b = Len(bunches) + 1
  OBVIOUS
<1>2. PICK addrs \in [1..instances_count -> Addrs] :
         /\ IsInjective(addrs)
         /\ start_health_check_tasks(ToSet(addrs))
         /\ Tell(b, ToSet(addrs))
         /\ \/ /\ bunches' = Append(bunches,
                     [at |-> "running",
                      stable |-> [i \in DOMAIN addrs |-> NewUnit(addrs[i])],
                      new |-> <<>>, unheard |-> 0])
               /\ connections' = Append(connections, b)
            \/ /\ bunches' = Append(bunches, [at |-> "over", stable |-> <<>>,
                                              new |-> <<>>, unheard |-> 0])
               /\ UNCHANGED connections
  BY DEF Start
<1> DEFINE units == [i \in DOMAIN addrs |-> NewUnit(addrs[i])]
           all == ToSet(addrs)
<1>3. /\ units \in Seq(Unit) /\ all \in SUBSET Addrs
      /\ \A a : Number(units, a) <= IF a \in all THEN 1 ELSE 0
  BY <1>1, <1>2, SpawnedNumber
<1>4. \A a : Number(units, a) \in Nat
  BY <1>3, AtFinite
<1>5. start_health_check_tasks(all) /\ Tell(b, all)
  BY <1>2
<1>6. \E bunch \in Bunch :
         /\ bunches' = Append(bunches, bunch)
         /\ UNCHANGED connections \/ connections' = Append(connections, Len(bunches) + 1)
         /\ bunch.at = "over" \/ (bunch.stable = units /\ bunch.new = <<>>)
  <2> HIDE DEF units
  <2>1. /\ [at |-> "running", stable |-> units, new |-> <<>>, unheard |-> 0] \in Bunch
        /\ [at |-> "over", stable |-> <<>>, new |-> <<>>, unheard |-> 0] \in Bunch
    BY <1>3, EmptyNumber DEF Bunch
  <2> QED BY <1>2, <2>1 DEF units
<1> HIDE DEF units, all
<1>7. PICK bunch \in Bunch :
         /\ bunches' = Append(bunches, bunch)
         /\ UNCHANGED connections \/ connections' = Append(connections, Len(bunches) + 1)
         /\ bunch.at = "over" \/ (bunch.stable = units /\ bunch.new = <<>>)
  BY <1>6
<1>8. /\ BunchesOK' /\ bunches' \in Seq(Bunch)
      /\ b \in Nat /\ b \notin DOMAIN bunches
      /\ DOMAIN bunches' = DOMAIN bunches \cup {b}
  BY <1>1, <1>7, BunchAdded
<1>9. /\ ReportsOK'
      /\ \A c, a : Cardinality(ComingIn(reports', c, a)) =
                      Cardinality(ComingIn(reports, c, a))
                      + IF b = c /\ a \in all THEN 1 ELSE 0
  BY <1>1, <1>3, <1>5, <1>8, Told
<1>10. /\ TasksOK(checks)'
       /\ \A c, a : Copies(TaskFor(a, c), checks') =
              Copies(TaskFor(a, c), checks)
              + IF /\ connections # <<>> /\ Up(Head(connections))
                   /\ c = Head(connections) /\ a \in all THEN 1 ELSE 0
  BY <1>1, <1>3, <1>5, <1>8, ChecksStarted
<1>11. HealthInv'
  <2>1. TasksOK(failed)'
    BY <1>1, <1>8, SameTypes
  <2> QED BY <1>1, <1>8, <1>9, <1>10, <2>1, IncidentType, IncidentSpent DEF HealthInv
<1>12. \A c, a : /\ Cardinality(ComingIn(reports, c, a)) \in Nat
                 /\ Copies(TaskFor(a, c), checks) \in Nat
  BY <1>1, WatchesType
<1>13. \A c, a : Copies(TaskFor(a, c), checks) <= Copies(TaskFor(a, c), checks')
  BY <1>10, <1>12
<1>14. \A c \in DOMAIN bunches : \A a :
          Cardinality(ComingIn(reports, c, a)) <= Cardinality(ComingIn(reports', c, a))
  BY <1>9, <1>12
<1>15. \A a \in Addrs : bunch.at = "over" \/
          Number(bunch.stable, a) + Number(bunch.new, a) <=
             Cardinality(ComingIn(reports', Len(bunches) + 1, a))
  <2> SUFFICES ASSUME NEW a \in Addrs, bunch.at # "over"
               PROVE  Number(bunch.stable, a) + Number(bunch.new, a) <=
                         Cardinality(ComingIn(reports', b, a))
    OBVIOUS
  <2>1. Number(bunch.stable, a) = Number(units, a) /\ Number(bunch.new, a) = 0
    BY <1>7, EmptyNumber
  <2> QED BY <1>3, <1>4, <1>9, <1>12, <2>1
<1> QED BY <1>1, <1>7, <1>11, <1>13, <1>14, <1>15, BunchAddedBalance

LEMMA StartFailsStep ==
  ASSUME Inv, StartFails
  PROVE  Inv'
<1> DEFINE bunch == [at |-> "over", stable |-> <<>>, new |-> <<>>, unheard |-> 0]
<1>1. /\ HealthInv
      /\ Incident \/ UNCHANGED incidents
      /\ bunches' = Append(bunches, bunch)
      /\ connections' = Append(connections, Len(bunches) + 1)
      /\ UNCHANGED <<instances_count, reports, checks, failed, excused>>
  BY DEF Inv, StartFails, MayStart
<1>2. bunch \in Bunch /\ bunch.at = "over"
  BY EmptyNumber DEF Bunch
<1> HIDE DEF bunch
<1>3. BunchesOK' /\ DOMAIN bunches \subseteq DOMAIN bunches'
  BY <1>1, <1>2, BunchAdded
<1>4. HealthInv'
  <2>1. ReportsOK' /\ TasksOK(checks)' /\ TasksOK(failed)'
    BY <1>1, <1>3, SameTypes
  <2> QED BY <1>1, <1>3, <2>1, IncidentType, IncidentSpent DEF HealthInv
<1>5. \A c, a : /\ Cardinality(ComingIn(reports, c, a)) \in Nat
                /\ Copies(TaskFor(a, c), checks) \in Nat
  BY <1>1, WatchesType
<1>6. /\ \A c, a : Copies(TaskFor(a, c), checks) <= Copies(TaskFor(a, c), checks')
      /\ \A c \in DOMAIN bunches : \A a : Cardinality(ComingIn(reports, c, a)) <=
                                         Cardinality(ComingIn(reports', c, a))
  BY <1>1, <1>5
<1> QED BY <1>1, <1>2, <1>4, <1>6, BunchAddedBalance

LEMMA StopStep ==
  ASSUME Inv, Stop
  PROVE  Inv'
<1>1. /\ connections # <<>> /\ connections' = Tail(connections)
      /\ UNCHANGED <<instances_count, bunches, reports, checks, failed, excused, incidents>>
  BY DEF Stop
<1>2. BunchesOK'
  BY <1>1, HeadTailProperties DEF Inv, HealthInv, BunchesOK
<1>3. HealthInv'
  BY <1>1, <1>2 DEF Inv, HealthInv, ReportsOK, TasksOK
<1>4. WatchedOrExcused'
  BY <1>1 DEF Inv, WatchedOrExcused, Watches, Coming, Copies, BagIn, BagToSet, Up, At
<1> QED BY <1>3, <1>4 DEF Inv

LEMMA TakeReportStep ==
  ASSUME Inv, NEW r \in DOMAIN reports, TakeReport(r)
  PROVE  Inv'
<1> DEFINE some == IF connections # <<>> /\ Head(connections) = r.from THEN {}
                   ELSE {<<r.from, a>> : a \in r.came}
<1>1. /\ HealthInv /\ bunches \in Seq(Bunch) /\ reports' = Taken(reports, r)
      /\ start_health_check_tasks(r.came)
      /\ UNCHANGED <<instances_count, connections, bunches, failed, incidents>>
      /\ Excuse(some)
      /\ r.from \in DOMAIN bunches /\ r.came \in SUBSET Addrs
  BY DEF Inv, TakeReport, HealthInv, BunchesOK, ReportsOK, Report, Taken
<1>2. /\ ReportsOK'
      /\ \A c, a : Cardinality(ComingIn(reports', c, a)) =
                      Cardinality(ComingIn(reports, c, a))
                      - IF r.from = c /\ a \in r.came THEN 1 ELSE 0
  <2>1. IsABag(reports) /\ IsFiniteSet(AllCopies(reports))
    BY <1>1 DEF HealthInv, ReportsOK
  <2>2. /\ IsFiniteSet(AllCopies(reports'))
        /\ \A c, a : Cardinality(ComingIn(reports', c, a)) =
                        Cardinality(ComingIn(reports, c, a))
                        - IF r.from = c /\ a \in r.came THEN 1 ELSE 0
    BY <1>1, <2>1, OneLessComing
  <2>3. IsABag(reports') /\ DOMAIN reports' \subseteq DOMAIN reports
    BY <1>1, <2>1, TakeFromBag
  <2> QED BY <1>1, <2>2, <2>3 DEF HealthInv, ReportsOK
<1>3. /\ TasksOK(checks)'
      /\ \A c, a : Copies(TaskFor(a, c), checks') =
             Copies(TaskFor(a, c), checks)
             + IF /\ connections # <<>> /\ Up(Head(connections))
                  /\ c = Head(connections) /\ a \in r.came THEN 1 ELSE 0
  BY <1>1, ChecksStarted
<1>4. /\ excused' \subseteq (DOMAIN bunches') \X Addrs
      /\ \A c \in DOMAIN bunches', a \in Addrs :
            <<c, a>> \notin excused' =>
               Units(c, a)' = 0 \/ <<c, a>> \notin excused \cup some
  <2>1. some \in SUBSET ((DOMAIN bunches) \X Addrs)
    BY <1>1
  <2> HIDE DEF some
  <2> QED BY <1>1, <2>1, Excused
<1>5. HealthInv'
  <2>1. BunchesOK' /\ TasksOK(failed)'
    BY <1>1 DEF HealthInv, BunchesOK, TasksOK
  <2> QED BY <1>1, <1>2, <1>3, <1>4, <2>1 DEF HealthInv
<1>6. ASSUME NEW c \in DOMAIN bunches', NEW a \in Addrs, Up(c)', <<c, a>> \notin excused',
             Units(c, a)' # 0
      PROVE  /\ c \in DOMAIN bunches /\ Up(c) /\ <<c, a>> \notin excused
             /\ Units(c, a)' + Watches(c, a) <= Units(c, a) + Watches(c, a)'
  <2>1. /\ c \in DOMAIN bunches /\ Up(c) /\ Units(c, a)' = Units(c, a)
        /\ <<c, a>> \notin excused /\ <<c, a>> \notin some
    BY <1>1, <1>4, <1>6 DEF Up, Units, Number, At
  <2>2. r.from = c /\ a \in r.came =>
           connections # <<>> /\ Up(Head(connections)) /\ c = Head(connections)
    BY <2>1
  <2> DEFINE t == TaskFor(a, c)
             m == IF r.from = c /\ a \in r.came THEN 1 ELSE 0
             n == IF /\ connections # <<>> /\ Up(Head(connections))
                     /\ c = Head(connections) /\ a \in r.came THEN 1 ELSE 0
  <2>3. m \in Int /\ n \in Int /\ m <= n
    BY <2>2
  <2>4. /\ Copies(t, checks') = Copies(t, checks) + n
        /\ Copies(t, failed') = Copies(t, failed)
        /\ Cardinality(ComingIn(reports', c, a)) = Cardinality(ComingIn(reports, c, a)) - m
    BY <1>1, <1>2, <1>3
  <2>5. /\ Watches(c, a)' - Watches(c, a) =
              (Copies(t, checks') - Copies(t, checks))
              + (Copies(t, failed') - Copies(t, failed))
              + (Cardinality(ComingIn(reports', c, a))
                 - Cardinality(ComingIn(reports, c, a)))
        /\ Watches(c, a) \in Nat /\ Watches(c, a)' \in Nat
        /\ Copies(t, checks) \in Nat /\ Copies(t, failed) \in Nat
        /\ Cardinality(ComingIn(reports, c, a)) \in Nat
    BY <1>1, <1>5, WatchesChange
  <2> HIDE DEF t, m, n
  <2>6. Watches(c, a) <= Watches(c, a)'
    BY <2>3, <2>4, <2>5
  <2>7. Units(c, a) \in Nat
    BY <1>1, <2>1, BunchTypes
  <2> QED BY <2>1, <2>5, <2>6, <2>7
<1> QED BY <1>5, <1>6, Balance

-----------------------------------------------------------------------------

LEMMA InvInit == Init => Inv
<1> SUFFICES ASSUME Init PROVE Inv
  OBVIOUS
<1>1. /\ instances_count \in Instances /\ incidents = 0 /\ excused = {}
      /\ bunches = <<>> /\ connections = <<>>
      /\ reports = EmptyBag /\ checks = EmptyBag /\ failed = EmptyBag
  BY DEF Init
<1>2. IsABag(EmptyBag) /\ DOMAIN EmptyBag = {}
  BY DEF EmptyBag, SetToBag, IsABag
<1>3. AllCopies(EmptyBag) = {} /\ IsFiniteSet({})
  BY <1>2, FS_EmptySet DEF AllCopies
<1>4. ReportsOK /\ TasksOK(checks) /\ TasksOK(failed)
  BY <1>1, <1>2, <1>3 DEF ReportsOK, TasksOK
<1>5. bunches \in Seq(Bunch) /\ connections \in Seq(DOMAIN bunches) /\ DOMAIN bunches = {}
  BY <1>1
<1> QED BY <1>1, <1>4, <1>5, MaxIncidentsAssumption
        DEF Inv, HealthInv, BunchesOK, WatchedOrExcused

LEMMA InvNext == Inv /\ [Next]_vars => Inv'
<1> SUFFICES ASSUME Inv, [Next]_vars PROVE Inv'
  OBVIOUS
<1>1. CASE UNCHANGED vars
  <2>1. HealthInv'
    BY <1>1 DEF vars, Inv, HealthInv, BunchesOK, ReportsOK, TasksOK
  <2>2. WatchedOrExcused'
    BY <1>1 DEF vars, Inv, WatchedOrExcused, Watches, Coming, Copies, BagIn, BagToSet, Up, At
  <2> QED BY <2>1, <2>2 DEF Inv
<1>2. CASE Controller
  BY <1>2, StartStep, StartFailsStep, StopStep, TakeReportStep DEF Controller, BagToSet
<1>3. CASE \E c \in BagToSet(checks) : Check(c)
  BY <1>3, CheckFailsStep, CheckBreaksStep DEF Check, BagToSet
<1>4. CASE \E b \in DOMAIN bunches : BunchTask(b)
  BY <1>4, BunchTaskStep
<1>5. CASE Rest
  BY <1>1, <1>5 DEF Rest
<1> QED BY <1>1, <1>2, <1>3, <1>4, <1>5 DEF Next

LEMMA InvAlways == Spec => []Inv
BY InvInit, InvNext, PTL DEF Spec

\* Every report and every task names a bunch that was made, and no address but of
\* such a bunch is ever excused: bunches are numbered in step with the connections
\* that the controller lists (bunch_controller.rs).
THEOREM HealthChecksTypeCorrect == Spec => []TypeOK
<1>1. Inv => TypeOK
  BY HealthInvTypeOK DEF Inv
<1> QED BY <1>1, InvAlways, PTL

\* Whatever the number of units, starts, updates and failures, and in whatever order
\* reports, failed checks and restarts meet: each unit of a bunch that runs has a
\* task, a failure or a report of its own, or its address is excused for one of the
\* four reasons the property names (start_health_check_tasks, HealthCheckFailed).
THEOREM UnitsAreWatched == Spec => []WatchedOrExcused
<1>1. Inv => WatchedOrExcused
  BY DEF Inv
<1> QED BY <1>1, InvAlways, PTL

=============================================================================
