-------------------------- MODULE Engines_proofs --------------------------
(***************************************************************************)
(* The estimate of a claim and its fraud score, for any photos, damages,   *)
(* prices and facts. Both are sums over sets, which the community modules  *)
(* define by a recursive function over subsets; the first part shows that  *)
(* the function exists, by induction over the size of a set, and that a    *)
(* sum is any of its summands and the sum of the others.                   *)
(***************************************************************************)
EXTENDS CostEstimate, FraudScore, FiniteSetTheorems, SequenceTheorems,
        WellFoundedInduction, TLAPS

\* A set of numbers has a least one.
LEMMA LeastNumber ==
  ASSUME NEW T, T \subseteq Nat, T # {}
  PROVE  \E n \in T : \A k \in T : ~(k < n)
<1>1. IsWellFoundedOn(OpToRel(<, Nat), Nat)
  BY NatLessThanWellFounded
<1>2. \E n \in T : \A k \in T : ~(<<k, n>> \in OpToRel(<, Nat))
  BY <1>1, WFMin, Zenon
<1>3. PICK n \in T : \A k \in T : ~(<<k, n>> \in OpToRel(<, Nat))
  BY <1>2
<1>4. \A k \in T : ~(k < n)
  BY <1>3, Zenon DEF OpToRel
<1> QED BY <1>4

\* Of a set of subsets of a finite set, one has no member with an element less.
LEMMA LeastSubset ==
  ASSUME NEW S, IsFiniteSet(S), NEW Bad \in SUBSET (SUBSET S), Bad # {}
  PROVE  \E s \in Bad : \A x \in s : s \ {x} \notin Bad
<1> DEFINE Sizes == {Cardinality(s) : s \in Bad}
<1>1. \A s \in Bad : IsFiniteSet(s) /\ Cardinality(s) \in Nat
  BY FS_Subset, FS_CardinalityType
<1>2. Sizes \subseteq Nat /\ Sizes # {}
  BY <1>1
<1> HIDE DEF Sizes
<1>3. PICK n \in Sizes : \A k \in Sizes : ~(k < n)
  BY <1>2, LeastNumber
<1> USE DEF Sizes
<1>4. PICK s \in Bad : Cardinality(s) = n
  BY <1>3
<1>5. ASSUME NEW x \in s, s \ {x} \in Bad PROVE FALSE
  <2>1. Cardinality(s \ {x}) = n - 1
    BY <1>1, <1>4, FS_RemoveElement
  <2>2. n - 1 \in Sizes /\ n \in Nat /\ n - 1 \in Nat
    BY <1>1, <1>2, <1>5, <2>1
  <2>3. ~(n - 1 < n)
    BY <1>3, <2>2
  <2> QED BY <2>2, <2>3
<1> QED BY <1>4, <1>5

SumStep(f, s, g) ==
  IF s = {} THEN 0 ELSE LET x == CHOOSE x \in s : TRUE IN f[x] + g[s \ {x}]
IsSum(g, f, S) == g = [s \in SUBSET S |-> SumStep(f, s, g)]

LEMMA SumExists ==
  ASSUME NEW f, NEW S, IsFiniteSet(S)
  PROVE  \E g : IsSum(g, f, S)
<1> DEFINE Upto(n, g) ==
      g = [s \in SUBSET S |-> IF Cardinality(s) <= n THEN SumStep(f, s, g) ELSE 0]
           None == {n \in Nat : ~ \E g : Upto(n, g)}
<1>1. \A s \in SUBSET S : IsFiniteSet(s) /\ Cardinality(s) \in Nat
  BY FS_Subset, FS_CardinalityType
<1>2. Upto(0, [s \in SUBSET S |-> 0])
  <2>1. \A s \in SUBSET S : Cardinality(s) <= 0 => s = {}
    BY <1>1, FS_EmptySet
  <2> QED BY <2>1 DEF SumStep
<1>3. ASSUME NEW n \in Nat, NEW g, Upto(n, g)
      PROVE  \E h : Upto(n + 1, h)
  <2> DEFINE h == [s \in SUBSET S |->
                     IF Cardinality(s) <= n + 1 THEN SumStep(f, s, g) ELSE 0]
  <2>1. ASSUME NEW s \in SUBSET S, Cardinality(s) <= n + 1
        PROVE  SumStep(f, s, g) = SumStep(f, s, h)
    <3>1. CASE s = {}
      BY <3>1 DEF SumStep
    <3>2. CASE s # {}
      <4> DEFINE x == CHOOSE x \in s : TRUE
                 t == s \ {x}
      <4>1. x \in s
        BY <3>2
      <4>2. Cardinality(t) = Cardinality(s) - 1 /\ t \in SUBSET S
        BY <1>1, <4>1, FS_RemoveElement
      <4>3. Cardinality(t) <= n /\ Cardinality(t) <= n + 1
        BY <1>1, <2>1, <4>2
      <4>4. g[t] = SumStep(f, t, g) /\ h[t] = SumStep(f, t, g)
        <5> HIDE DEF t
        <5>1. g[t] = IF Cardinality(t) <= n THEN SumStep(f, t, g) ELSE 0
          BY <1>3, <4>2
        <5>2. h[t] = IF Cardinality(t) <= n + 1 THEN SumStep(f, t, g) ELSE 0
          BY <4>2
        <5> QED BY <4>3, <5>1, <5>2
      <4> HIDE DEF h
      <4> QED BY <3>2, <4>4 DEF SumStep
    <3> QED BY <3>1, <3>2
  <2>2. Upto(n + 1, h)
    BY <2>1
  <2> QED BY <2>2
<1>4. None = {}
  <2> SUFFICES ASSUME None # {} PROVE FALSE
    OBVIOUS
  <2>1. None \subseteq Nat /\ (\A k \in Nat : k \notin None <=> \E g : Upto(k, g))
    OBVIOUS
  <2> HIDE DEF None, Upto
  <2>2. PICK n \in None : \A k \in None : ~(k < n)
    BY <2>1, LeastNumber
  <2>3. n # 0
    BY <1>2, <2>1
  <2>4. n - 1 \in Nat /\ (n - 1) + 1 = n /\ n - 1 < n
    BY <2>1, <2>3
  <2>5. PICK g : Upto(n - 1, g)
    BY <2>1, <2>2, <2>4
  <2>6. PICK h : Upto(n, h)
    BY <1>3, <2>4, <2>5
  <2> QED BY <2>1, <2>6
<1>5. PICK g : Upto(Cardinality(S), g)
  BY <1>1, <1>4
<1>6. \A s \in SUBSET S : Cardinality(s) <= Cardinality(S)
  BY FS_Subset
<1> QED BY <1>5, <1>6 DEF IsSum

LEMMA SumUnfold ==
  ASSUME NEW f, NEW S, IsFiniteSet(S)
  PROVE  \E g : IsSum(g, f, S) /\ SumFunctionOnSet(f, S) = g[S]
<1>1. SumFunctionOnSet(f, S) = (CHOOSE g : IsSum(g, f, S))[S]
  BY DEF SumFunctionOnSet, FoldFunctionOnSet, MapThenFoldSet, IsSum, SumStep
<1> QED BY <1>1, SumExists

\* Two sums agree on the sets they both know, if their summands do.
LEMMA SumsAgree ==
  ASSUME NEW f, NEW h, NEW S, NEW R, IsFiniteSet(R), R \subseteq S,
         NEW fs, IsSum(fs, f, S), NEW hs, IsSum(hs, h, R),
         \A x \in R : f[x] = h[x]
  PROVE  fs[R] = hs[R]
<1> DEFINE Bad == {s \in SUBSET R : fs[s] # hs[s]}
<1> SUFFICES ASSUME Bad # {} PROVE FALSE
  OBVIOUS
<1>1. PICK s \in Bad : \A x \in s : s \ {x} \notin Bad
  BY LeastSubset
<1>2. s \in SUBSET R /\ s \in SUBSET S
  OBVIOUS
<1>3. fs[s] = SumStep(f, s, fs) /\ hs[s] = SumStep(h, s, hs)
  BY <1>2 DEF IsSum
<1>4. CASE s = {}
  BY <1>1, <1>3, <1>4 DEF SumStep
<1>5. CASE s # {}
  <2> DEFINE x == CHOOSE x \in s : TRUE
  <2>1. x \in s
    BY <1>5
  <2> HIDE DEF x
  <2>2. fs[s \ {x}] = hs[s \ {x}] /\ f[x] = h[x]
    BY <1>1, <1>2, <2>1
  <2>3. fs[s] = f[x] + fs[s \ {x}] /\ hs[s] = h[x] + hs[s \ {x}]
    BY <1>3, <1>5 DEF SumStep, x
  <2> QED BY <1>1, <2>2, <2>3
<1> QED BY <1>4, <1>5

LEMMA SumEmpty == ASSUME NEW f PROVE SumFunctionOnSet(f, {}) = 0
<1>1. PICK g : IsSum(g, f, {}) /\ SumFunctionOnSet(f, {}) = g[{}]
  BY SumUnfold, FS_EmptySet
<1> QED BY <1>1 DEF IsSum, SumStep

LEMMA SumCongruence ==
  ASSUME NEW f, NEW h, NEW S, IsFiniteSet(S), \A x \in S : f[x] = h[x]
  PROVE  SumFunctionOnSet(f, S) = SumFunctionOnSet(h, S)
<1>1. PICK g : IsSum(g, f, S) /\ SumFunctionOnSet(f, S) = g[S]
  BY SumUnfold
<1>2. PICK k : IsSum(k, h, S) /\ SumFunctionOnSet(h, S) = k[S]
  BY SumUnfold
<1> QED BY <1>1, <1>2, SumsAgree

\* A sum is its chosen summand and the sum of the others.
LEMMA SumFirst ==
  ASSUME NEW f, NEW S, IsFiniteSet(S), S # {}
  PROVE  \E x \in S : SumFunctionOnSet(f, S) = f[x] + SumFunctionOnSet(f, S \ {x})
<1>1. PICK g : IsSum(g, f, S) /\ SumFunctionOnSet(f, S) = g[S]
  BY SumUnfold
<1> DEFINE x == CHOOSE x \in S : TRUE
<1>2. x \in S
  OBVIOUS
<1>3. SumFunctionOnSet(f, S) = f[x] + g[S \ {x}]
  BY <1>1 DEF IsSum, SumStep
<1> HIDE DEF x
<1>4. IsFiniteSet(S \ {x})
  BY FS_RemoveElement
<1>5. PICK k : IsSum(k, f, S \ {x}) /\ SumFunctionOnSet(f, S \ {x}) = k[S \ {x}]
  BY <1>4, SumUnfold
<1>6. g[S \ {x}] = k[S \ {x}]
  BY <1>1, <1>4, <1>5, SumsAgree
<1> QED BY <1>2, <1>3, <1>5, <1>6

LEMMA SumType ==
  ASSUME NEW f, NEW S, IsFiniteSet(S), \A x \in S : f[x] \in Nat
  PROVE  SumFunctionOnSet(f, S) \in Nat
<1> DEFINE Bad == {s \in SUBSET S : SumFunctionOnSet(f, s) \notin Nat}
<1> SUFFICES ASSUME Bad # {} PROVE FALSE
  OBVIOUS
<1>1. PICK s \in Bad : \A x \in s : s \ {x} \notin Bad
  BY LeastSubset
<1>2. s # {}
  BY <1>1, SumEmpty
<1>3. PICK x \in s : SumFunctionOnSet(f, s) = f[x] + SumFunctionOnSet(f, s \ {x})
  BY <1>1, <1>2, SumFirst, FS_Subset
<1>4. SumFunctionOnSet(f, s \ {x}) \in Nat /\ f[x] \in Nat
  BY <1>1
<1> QED BY <1>1, <1>3, <1>4

\* A sum is any of its summands and the sum of the others.
LEMMA SumSplit ==
  ASSUME NEW f, NEW S, IsFiniteSet(S), \A x \in S : f[x] \in Nat, NEW y \in S
  PROVE  SumFunctionOnSet(f, S) = f[y] + SumFunctionOnSet(f, S \ {y})
<1> DEFINE Split(s, z) == SumFunctionOnSet(f, s) = f[z] + SumFunctionOnSet(f, s \ {z})
           Bad == {s \in SUBSET S : \E z \in s : ~Split(s, z)}
<1>1. ASSUME Bad # {} PROVE FALSE
  <2>1. PICK s \in Bad : \A x \in s : s \ {x} \notin Bad
    BY <1>1, LeastSubset
  <2>2. PICK z \in s : ~Split(s, z)
    BY <2>1
  <2>3. s \in SUBSET S
    BY <2>1
  <2>4. \A t \in SUBSET S : IsFiniteSet(t) /\ SumFunctionOnSet(f, t) \in Nat
    BY SumType, FS_Subset
  <2>5. PICK x \in s : Split(s, x)
    BY <2>3, <2>4, SumFirst
  <2>6. x # z
    BY <2>2, <2>5
  <2>7. Split(s \ {x}, z) /\ Split(s \ {z}, x)
    BY <2>1, <2>2, <2>3, <2>6
  <2>8. (s \ {x}) \ {z} = (s \ {z}) \ {x}
    OBVIOUS
  <2>9. /\ SumFunctionOnSet(f, s) \in Nat /\ SumFunctionOnSet(f, s \ {x}) \in Nat
        /\ SumFunctionOnSet(f, s \ {z}) \in Nat /\ SumFunctionOnSet(f, (s \ {x}) \ {z}) \in Nat
        /\ f[x] \in Nat /\ f[z] \in Nat
    BY <2>3, <2>4
  <2>10. /\ SumFunctionOnSet(f, s) = f[x] + SumFunctionOnSet(f, s \ {x})
         /\ SumFunctionOnSet(f, s \ {x}) = f[z] + SumFunctionOnSet(f, (s \ {x}) \ {z})
         /\ SumFunctionOnSet(f, s \ {z}) = f[x] + SumFunctionOnSet(f, (s \ {x}) \ {z})
    BY <2>5, <2>7, <2>8
  <2>11. SumFunctionOnSet(f, s) = f[z] + SumFunctionOnSet(f, s \ {z})
    BY <2>9, <2>10
  <2> QED BY <2>2, <2>11
<1> QED BY <1>1

\* Summands that are each at most c times another are so in sum.
LEMMA SumBound ==
  ASSUME NEW f, NEW h, NEW S, IsFiniteSet(S), NEW c \in Nat,
         \A x \in S : f[x] \in Nat /\ h[x] \in Nat /\ f[x] <= c * h[x]
  PROVE  SumFunctionOnSet(f, S) <= c * SumFunctionOnSet(h, S)
<1> DEFINE Bad == {s \in SUBSET S : ~(SumFunctionOnSet(f, s) <= c * SumFunctionOnSet(h, s))}
<1> SUFFICES ASSUME Bad # {} PROVE FALSE
  OBVIOUS
<1>1. PICK s \in Bad : \A x \in s : s \ {x} \notin Bad
  BY LeastSubset
<1>2. s # {}
  <2>1. SumFunctionOnSet(f, {}) = 0 /\ SumFunctionOnSet(h, {}) = 0 /\ c * 0 = 0
    BY SumEmpty
  <2>2. SumFunctionOnSet(f, {}) <= c * SumFunctionOnSet(h, {})
    BY <2>1
  <2> QED BY <1>1, <2>2
<1>3. PICK x \in s : TRUE
  BY <1>2
<1>4. \A t \in SUBSET S :
        IsFiniteSet(t) /\ SumFunctionOnSet(f, t) \in Nat /\ SumFunctionOnSet(h, t) \in Nat
  BY SumType, FS_Subset
<1>5. s \in SUBSET S /\ s \ {x} \in SUBSET S /\ x \in S
  BY <1>1
<1>6. /\ SumFunctionOnSet(f, s) = f[x] + SumFunctionOnSet(f, s \ {x})
      /\ SumFunctionOnSet(h, s) = h[x] + SumFunctionOnSet(h, s \ {x})
  BY <1>4, <1>5, SumSplit
<1>7. SumFunctionOnSet(f, s \ {x}) <= c * SumFunctionOnSet(h, s \ {x})
  BY <1>1, <1>5
<1>8. c * (h[x] + SumFunctionOnSet(h, s \ {x})) = c * h[x] + c * SumFunctionOnSet(h, s \ {x})
      /\ c * h[x] \in Nat /\ c * SumFunctionOnSet(h, s \ {x}) \in Nat
  BY <1>4, <1>5
<1>9. SumFunctionOnSet(f, s) <= c * SumFunctionOnSet(h, s)
  BY <1>4, <1>5, <1>6, <1>7, <1>8
<1> QED BY <1>1, <1>9

LEMMA SumZero ==
  ASSUME NEW f, NEW S, IsFiniteSet(S), \A x \in S : f[x] = 0
  PROVE  SumFunctionOnSet(f, S) = 0
<1>1. SumFunctionOnSet(f, S) \in Nat /\ SumFunctionOnSet(f, S) <= 0 * SumFunctionOnSet(f, S)
  BY SumType, SumBound
<1> QED BY <1>1

-----------------------------------------------------------------------------
\* The invoice.  That the line items sum to the totals is inductive as soon as
\* the amounts are integers, of which addition may be taken in any order.

Bill == {"seen", "parts", "labour", "paint", "hours", "exact", "lines", "days"}

CostInv ==
  /\ severity \in DOMAIN Multiplier
  /\ DOMAIN bill = Bill
  /\ bill.parts \in Int /\ bill.labour \in Int /\ bill.paint \in Int
  /\ InvoiceAddsUp

LEMMA BookIsPriced ==
  \A part : Book(part).part \in Int /\ Book(part).labour \in Int /\ Book(part).paint \in Int
<1> SUFFICES ASSUME NEW part
             PROVE  Book(part).part \in Int /\ Book(part).labour \in Int /\ Book(part).paint \in Int
  OBVIOUS
<1>1. \E name \in DOMAIN OemParts : Book(part) = OemParts[name]
  BY DEF Book, OemParts
<1>2. \A name \in DOMAIN OemParts :
        OemParts[name].part \in Int /\ OemParts[name].labour \in Int /\ OemParts[name].paint \in Int
  BY DEF OemParts, Line
<1> QED BY <1>1, <1>2

\* What a damage costs is an integer, whatever the detector reports.
LEMMA AmountsAreIntegers ==
  ASSUME NEW d, NEW mult \in Int
  PROVE  /\ PartCost(d, mult) \in Int /\ Labour(d.part, mult) \in Int
         /\ Further(d.part, mult) \in Int /\ Paint(d, mult) \in Int
<1>1. \A a \in Int : a * mult \in Int /\ (a \div 4) * mult \in Int
                     /\ a * LabourRate * mult \in Int /\ (a * 2) \div 5 \in Int
  BY DEF LabourRate
<1> DEFINE book == Book(d.part)
<1>2. book.part \in Int /\ book.labour \in Int /\ book.paint \in Int
  BY BookIsPriced
<1>3. Labour(d.part, mult) \in Int
  BY <1>1, <1>2 DEF Labour
<1>4. Further(d.part, mult) \in Int
  BY <1>1, <1>3 DEF Further
<1>5. Paint(d, mult) \in Int
  BY <1>1, <1>2 DEF Paint
<1>6. PartCost(d, mult) \in Int
  BY <1>1, <1>2 DEF PartCost
<1> QED BY <1>3, <1>4, <1>5, <1>6

LEMMA PricedAddsUp ==
  ASSUME CostInv, NEW d, NEW mult \in Int, bill' = Priced(bill, d, mult),
         severity' = severity
  PROVE  CostInv'
<1>1. /\ PartCost(d, mult) \in Int /\ Labour(d.part, mult) \in Int
      /\ Further(d.part, mult) \in Int /\ Paint(d, mult) \in Int
  BY AmountsAreIntegers
<1>2. CASE d.part \in bill.seen
  <2>1. bill' = PriceAgain(bill, d, mult)
    BY <1>2 DEF Priced
  <2>2. /\ DOMAIN bill' = Bill /\ bill'.parts = bill.parts /\ bill'.paint = bill.paint
        /\ bill'.labour = bill.labour + Further(d.part, mult)
        /\ bill'.lines = bill.lines + Further(d.part, mult)
    BY <2>1 DEF PriceAgain, CostInv, Bill
  <2> QED BY <1>1, <2>2 DEF CostInv, InvoiceAddsUp, Subtotal
<1>3. CASE d.part \notin bill.seen
  <2>1. bill' = PriceFirst(bill, d, mult)
    BY <1>3 DEF Priced
  <2>2. /\ DOMAIN bill' = Bill
        /\ bill'.parts = bill.parts + PartCost(d, mult)
        /\ bill'.labour = bill.labour + Labour(d.part, mult)
        /\ bill'.paint = bill.paint + Paint(d, mult)
        /\ bill'.lines = bill.lines + PartCost(d, mult) + Labour(d.part, mult) + Paint(d, mult)
    BY <2>1 DEF PriceFirst, CostInv, Bill
  <2> QED BY <1>1, <2>2 DEF CostInv, InvoiceAddsUp, Subtotal
<1> QED BY <1>2, <1>3

\* A settlement of a total loss replaces the totals and the line items alike.
LEMMA SettledAddsUp ==
  ASSUME CostInv, FinishEstimate
  PROVE  CostInv'
<1> DEFINE settled == Settled(bill, severity)
           sum     == Max({bill.parts, WriteOff})
<1>1. /\ DOMAIN settled = Bill
      /\ settled.parts \in Int /\ settled.labour \in Int /\ settled.paint \in Int
      /\ settled.lines = settled.parts + settled.labour + settled.paint
  <2>1. CASE severity = "total_loss"
    <3>1. \E x \in {bill.parts, WriteOff} : \A y \in {bill.parts, WriteOff} : x >= y
      BY DEF CostInv, WriteOff
    <3>2. sum \in Int
      BY <3>1 DEF CostInv, WriteOff, Max
    <3>3. settled = [bill EXCEPT !.parts = sum, !.labour = 0, !.paint = 0, !.lines = sum]
      BY <2>1 DEF Settled
    <3> HIDE DEF sum, settled
    <3>4. /\ DOMAIN settled = Bill /\ settled.parts = sum
          /\ settled.labour = 0 /\ settled.paint = 0 /\ settled.lines = sum
      BY <3>3 DEF CostInv, Bill
    <3> QED BY <3>2, <3>4
  <2>2. CASE severity # "total_loss"
    BY <2>2 DEF Settled, CostInv, InvoiceAddsUp, Subtotal
  <2> QED BY <2>1, <2>2
<1>2. PICK days : bill' = [settled EXCEPT !.days = days]
  BY DEF FinishEstimate
<1> HIDE DEF settled
<1>3. /\ DOMAIN bill' = Bill /\ bill'.parts = settled.parts /\ bill'.labour = settled.labour
      /\ bill'.paint = settled.paint /\ bill'.lines = settled.lines
  BY <1>1, <1>2 DEF Bill
<1> QED BY <1>1, <1>3 DEF FinishEstimate, CostInv, InvoiceAddsUp, Subtotal

LEMMA CostInvStep == CostInv /\ [CostNext]_costVars => CostInv'
<1> SUFFICES ASSUME CostInv, [CostNext]_costVars PROVE CostInv'
  OBVIOUS
<1>1. ASSUME NEW p \in Photos, AddPhoto(p) PROVE CostInv'
  BY <1>1 DEF AddPhoto, CostInv, InvoiceAddsUp
<1>2. ASSUME NEW order \in Orders, StartEstimate(order) PROVE CostInv'
  <2>1. bill' = EmptyBill
    BY <1>2 DEF StartEstimate
  <2>2. \A types, area : ClassifySeverity(types, area) \in DOMAIN Multiplier
    BY DEF ClassifySeverity, Multiplier
  <2>3. severity' \in DOMAIN Multiplier
    BY <1>2, <2>2 DEF StartEstimate
  <2> QED BY <2>1, <2>3 DEF EmptyBill, CostInv, Bill, InvoiceAddsUp, Subtotal
<1>3. CASE PriceDamage
  <2>1. Multiplier[severity] \in Int
    BY DEF CostInv, Multiplier
  <2>2. bill' = Priced(bill, rows[at + 1], Multiplier[severity]) /\ severity' = severity
    BY <1>3 DEF PriceDamage
  <2> QED BY <2>1, <2>2, PricedAddsUp
<1>4. CASE FinishEstimate
  BY <1>4, SettledAddsUp
<1>5. CASE UNCHANGED costVars
  BY <1>5 DEF costVars, CostInv, InvoiceAddsUp
<1> QED BY <1>1, <1>2, <1>3, <1>4, <1>5 DEF CostNext

\* At every point of the estimator's loop, and after a settlement, the line items
\* are the parts, the labour and the painting of the totals, whatever the
\* detector reports and in whatever order the photos are read (estimate).
THEOREM InvoicesAddUp == CostSpec => []InvoiceAddsUp
<1>1. CostInit => CostInv
  BY DEF CostInit, EmptyBill, CostInv, Bill, Multiplier, InvoiceAddsUp, Subtotal
<1>2. CostInv => InvoiceAddsUp
  BY DEF CostInv
<1> QED BY <1>1, <1>2, CostInvStep, PTL DEF CostSpec

-----------------------------------------------------------------------------
\* Labour and repair days.  After k turns of the loop they are what the order
\* of the first k damages does not matter to: a share for each part seen so far.

PartsTo(ds, k) == {ds[i].part : i \in 1..k}
TimesTo(ds, p, k) == Cardinality({i \in 1..k : ds[i].part = p})
HourShares(ds, k) ==
  [p \in PartsTo(ds, k) |-> Book(p).labour * (4 * TimesTo(ds, p, k) + 6)]
LabourShares(ds, mult, k) ==
  [p \in PartsTo(ds, k) |->
     Labour(p, mult) + Book(p).labour * 34 * mult * (TimesTo(ds, p, k) - 1)]

\* No part occurs twice, and each takes hours that a float adds without an error.
OnceTo(ds, k) == \A p \in PartsTo(ds, k) : TimesTo(ds, p, k) = 1 /\ InHalves(p)

\* A sum after one summand has changed or come in.
LEMMA SumUpdate ==
  ASSUME NEW f, NEW h, NEW S, NEW p, IsFiniteSet(S),
         \A x \in S : f[x] \in Nat, \A x \in S \union {p} : h[x] \in Nat,
         \A x \in S \ {p} : h[x] = f[x], NEW more \in Nat,
         h[p] = IF p \in S THEN f[p] + more ELSE more
  PROVE  SumFunctionOnSet(h, S \union {p}) = SumFunctionOnSet(f, S) + more
<1> DEFINE others == S \ {p}
<1>1. /\ IsFiniteSet(others) /\ IsFiniteSet(S \union {p})
      /\ (S \union {p}) \ {p} = others /\ p \in S \union {p}
  BY FS_AddElement, FS_RemoveElement, FS_Subset
<1>2. SumFunctionOnSet(h, S \union {p}) = h[p] + SumFunctionOnSet(h, others)
  BY <1>1, SumSplit
<1>3. SumFunctionOnSet(h, others) = SumFunctionOnSet(f, others)
  BY <1>1, SumCongruence
<1>4. SumFunctionOnSet(f, others) \in Nat
  BY <1>1, SumType
<1>5. CASE p \in S
  <2>1. SumFunctionOnSet(f, S) = f[p] + SumFunctionOnSet(f, others)
    BY <1>5, SumSplit
  <2>2. f[p] \in Nat /\ h[p] = f[p] + more
    BY <1>5
  <2> HIDE DEF others
  <2> QED BY <1>2, <1>3, <1>4, <2>1, <2>2
<1>6. CASE p \notin S
  <2>1. others = S /\ h[p] = more
    BY <1>6
  <2> QED BY <1>2, <1>3, <1>4, <2>1
<1> QED BY <1>5, <1>6

LEMMA BookHours ==
  /\ \A part : Book(part).labour \in Nat
  /\ \A sev \in DOMAIN Multiplier : Multiplier[sev] \in Nat
<1>1. ASSUME NEW part PROVE Book(part).labour \in Nat
  <2>1. \E name \in DOMAIN OemParts : Book(part) = OemParts[name]
    BY DEF Book, OemParts
  <2>2. \A name \in DOMAIN OemParts : OemParts[name].labour \in Nat
    BY DEF OemParts, Line
  <2> QED BY <2>1, <2>2
<1>2. \A sev \in DOMAIN Multiplier : Multiplier[sev] \in Nat
  BY DEF Multiplier
<1> QED BY <1>1, <1>2

\* How often a part occurs, one damage later.
LEMMA TimesStep ==
  ASSUME NEW ds, NEW k \in Nat
  PROVE  /\ PartsTo(ds, k + 1) = PartsTo(ds, k) \union {ds[k + 1].part}
         /\ IsFiniteSet(PartsTo(ds, k))
         /\ \A p : TimesTo(ds, p, k) \in Nat
         /\ \A p : p # ds[k + 1].part => TimesTo(ds, p, k + 1) = TimesTo(ds, p, k)
         /\ TimesTo(ds, ds[k + 1].part, k + 1) = TimesTo(ds, ds[k + 1].part, k) + 1
         /\ \A p : p \notin PartsTo(ds, k) => TimesTo(ds, p, k) = 0
         /\ \A p \in PartsTo(ds, k) : TimesTo(ds, p, k) >= 1
<1> DEFINE Places(p, n) == {i \in 1..n : ds[i].part = p}
<1>1. 1..(k + 1) = (1..k) \union {k + 1} /\ k + 1 \notin 1..k
  OBVIOUS
<1>2. PartsTo(ds, k + 1) = PartsTo(ds, k) \union {ds[k + 1].part}
  BY <1>1 DEF PartsTo
<1>3. IsFiniteSet(1..k)
  BY FS_Interval
<1>4. IsFiniteSet(PartsTo(ds, k))
  <2> DEFINE part == [i \in 1..k |-> ds[i].part]
  <2>1. part \in Surjection(1..k, PartsTo(ds, k))
    BY DEF PartsTo, Surjection
  <2> QED BY <1>3, <2>1, FS_Surjection
<1>5. \A p : IsFiniteSet(Places(p, k)) /\ TimesTo(ds, p, k) = Cardinality(Places(p, k))
  BY <1>3, FS_Subset DEF TimesTo
<1>6. \A p : TimesTo(ds, p, k) \in Nat
  BY <1>5, FS_CardinalityType
<1>7. ASSUME NEW p, p # ds[k + 1].part PROVE TimesTo(ds, p, k + 1) = TimesTo(ds, p, k)
  <2>1. Places(p, k + 1) = Places(p, k)
    BY <1>1, <1>7
  <2> QED BY <2>1 DEF TimesTo
<1>8. TimesTo(ds, ds[k + 1].part, k + 1) = TimesTo(ds, ds[k + 1].part, k) + 1
  <2> DEFINE p == ds[k + 1].part
  <2>1. Places(p, k + 1) = Places(p, k) \union {k + 1} /\ k + 1 \notin Places(p, k)
    BY <1>1
  <2>2. Cardinality(Places(p, k) \union {k + 1}) = Cardinality(Places(p, k)) + 1
    <3> DEFINE before == Places(p, k)
    <3>1. IsFiniteSet(before) /\ k + 1 \notin before
      BY <1>5, <2>1
    <3> HIDE DEF before
    <3>2. Cardinality(before \union {k + 1}) = Cardinality(before) + 1
      BY <3>1, FS_AddElement
    <3> QED BY <3>2 DEF before
  <2> QED BY <2>1, <2>2 DEF TimesTo
<1>9. ASSUME NEW p, p \notin PartsTo(ds, k) PROVE TimesTo(ds, p, k) = 0
  <2>1. Places(p, k) = {}
    BY <1>9 DEF PartsTo
  <2> QED BY <2>1, FS_EmptySet DEF TimesTo
<1>10. ASSUME NEW p \in PartsTo(ds, k) PROVE TimesTo(ds, p, k) >= 1
  <2>1. Places(p, k) # {}
    BY DEF PartsTo
  <2>2. Cardinality(Places(p, k)) # 0
    BY <1>5, <2>1, FS_EmptySet
  <2> QED BY <1>5, <1>6, <2>2
<1> QED BY <1>2, <1>4, <1>6, <1>7, <1>8, <1>9, <1>10

LEMMA OnceStep ==
  ASSUME NEW ds, NEW k \in Nat
  PROVE  OnceTo(ds, k + 1) <=>
           OnceTo(ds, k) /\ ds[k + 1].part \notin PartsTo(ds, k) /\ InHalves(ds[k + 1].part)
<1> DEFINE p    == ds[k + 1].part
           t(x) == TimesTo(ds, x, k)
           u(x) == TimesTo(ds, x, k + 1)
<1>1. /\ PartsTo(ds, k + 1) = PartsTo(ds, k) \union {p}
      /\ \A x : t(x) \in Nat
      /\ \A x : x # p => u(x) = t(x)
      /\ u(p) = t(p) + 1
      /\ p \notin PartsTo(ds, k) => t(p) = 0
      /\ \A x \in PartsTo(ds, k) : t(x) >= 1
  BY TimesStep
<1>2. /\ OnceTo(ds, k) <=> \A x \in PartsTo(ds, k) : t(x) = 1 /\ InHalves(x)
      /\ OnceTo(ds, k + 1) <=> \A x \in PartsTo(ds, k + 1) : u(x) = 1 /\ InHalves(x)
  BY DEF OnceTo
<1> HIDE DEF p, t, u
<1>3. CASE p \in PartsTo(ds, k)
  <2>1. u(p) # 1
    BY <1>1, <1>3
  <2> QED BY <1>1, <1>2, <1>3, <2>1 DEF p
<1>4. CASE p \notin PartsTo(ds, k)
  <2>1. u(p) = 1 /\ \A x \in PartsTo(ds, k) : u(x) = t(x)
    BY <1>1, <1>4
  <2> QED BY <1>1, <1>2, <1>4, <2>1 DEF p
<1> QED BY <1>3, <1>4

\* One turn of the loop adds to the hours and the labour what it adds to the
\* share of its part.
LEMMA SharesStep ==
  ASSUME NEW ds, NEW k \in Nat, NEW mult \in Nat
  PROVE  LET p    == ds[k + 1].part
             more == IF p \in PartsTo(ds, k) THEN 4 ELSE 10
             paid == IF p \in PartsTo(ds, k) THEN Further(p, mult) ELSE Labour(p, mult)
         IN /\ SumFunction(HourShares(ds, k + 1))
                 = SumFunction(HourShares(ds, k)) + more * Book(p).labour
            /\ SumFunction(LabourShares(ds, mult, k + 1))
                 = SumFunction(LabourShares(ds, mult, k)) + paid
<1> DEFINE p    == ds[k + 1].part
           S    == PartsTo(ds, k)
           more == IF p \in S THEN 4 ELSE 10
           paid == IF p \in S THEN Further(p, mult) ELSE Labour(p, mult)
           f    == HourShares(ds, k)
           h    == HourShares(ds, k + 1)
           lf   == LabourShares(ds, mult, k)
           lh   == LabourShares(ds, mult, k + 1)
           t(x) == TimesTo(ds, x, k)
           b(x) == Book(x).labour
<1>1. /\ PartsTo(ds, k + 1) = S \union {p} /\ IsFiniteSet(S)
      /\ \A x : t(x) \in Nat
      /\ \A x : x # p => TimesTo(ds, x, k + 1) = t(x)
      /\ TimesTo(ds, p, k + 1) = t(p) + 1
      /\ p \notin S => t(p) = 0
      /\ \A x \in S : t(x) >= 1
  BY TimesStep
<1>2. \A x : b(x) \in Nat
  BY BookHours
<1>3. ASSUME NEW x
      PROVE  /\ Labour(x, mult) \in Nat /\ Labour(x, mult) = 85 * (b(x) * mult)
             /\ Further(x, mult) = 34 * (b(x) * mult) /\ b(x) * mult \in Nat
  <2>1. b(x) * mult \in Nat
    BY <1>2
  <2>2. Labour(x, mult) = 85 * (b(x) * mult)
    BY <1>2 DEF Labour, LabourRate
  <2> DEFINE y == b(x) * mult
  <2> HIDE DEF y
  <2>3. y \in Nat
    BY <2>1 DEF y
  <2>4. ((85 * y) * 2) \div 5 = 34 * y /\ 85 * y \in Nat
    BY <2>3
  <2> QED BY <2>1, <2>2, <2>4 DEF Further, y
<1>4. /\ DOMAIN f = S /\ DOMAIN h = S \union {p}
      /\ DOMAIN lf = S /\ DOMAIN lh = S \union {p}
      /\ \A x \in S : f[x] = b(x) * (4 * t(x) + 6)
      /\ \A x \in S \union {p} : h[x] = b(x) * (4 * TimesTo(ds, x, k + 1) + 6)
      /\ \A x \in S : lf[x] = Labour(x, mult) + b(x) * 34 * mult * (t(x) - 1)
      /\ \A x \in S \union {p} :
           lh[x] = Labour(x, mult) + b(x) * 34 * mult * (TimesTo(ds, x, k + 1) - 1)
  BY <1>1 DEF HourShares, LabourShares
<1> HIDE DEF S, f, h, lf, lh, t, b, more, paid, p
<1>5. more * b(p) \in Nat /\ paid \in Nat
  BY <1>2, <1>3 DEF more, paid
<1>6. /\ \A x \in S : f[x] \in Nat /\ lf[x] \in Nat
      /\ \A x \in S \ {p} : h[x] = f[x] /\ lh[x] = lf[x]
  <2>1. \A x \in S \ {p} : h[x] = f[x] /\ lh[x] = lf[x]
    BY <1>1, <1>4
  <2>2. ASSUME NEW x \in S PROVE f[x] \in Nat /\ lf[x] \in Nat
    <3>1. t(x) \in Nat /\ t(x) - 1 \in Nat /\ b(x) \in Nat
      BY <1>1, <1>2
    <3>2. b(x) * (4 * t(x) + 6) \in Nat /\ b(x) * 34 * mult * (t(x) - 1) \in Nat
      BY <3>1
    <3> QED BY <1>3, <1>4, <3>2
  <2> QED BY <2>1, <2>2
<1>7. /\ h[p] = IF p \in S THEN f[p] + more * b(p) ELSE more * b(p)
      /\ lh[p] = IF p \in S THEN lf[p] + paid ELSE paid
  <2>1. t(p) \in Nat /\ b(p) \in Nat /\ b(p) * mult \in Nat
    BY <1>1, <1>2, <1>3
  <2>2. /\ h[p] = b(p) * (4 * (t(p) + 1) + 6)
        /\ lh[p] = Labour(p, mult) + b(p) * 34 * mult * ((t(p) + 1) - 1)
    BY <1>1, <1>4
  <2>3. CASE p \in S
    <3>1. /\ f[p] = b(p) * (4 * t(p) + 6)
          /\ lf[p] = Labour(p, mult) + b(p) * 34 * mult * (t(p) - 1)
          /\ more = 4 /\ paid = 34 * (b(p) * mult)
      BY <1>3, <1>4, <2>3 DEF more, paid
    <3>2. b(p) * (4 * (t(p) + 1) + 6) = b(p) * (4 * t(p) + 6) + 4 * b(p)
      BY <2>1
    <3>3. b(p) * 34 * mult * ((t(p) + 1) - 1)
            = b(p) * 34 * mult * (t(p) - 1) + 34 * (b(p) * mult)
      BY <2>1
    <3>4. b(p) * 34 * mult * (t(p) - 1) \in Int
      BY <2>1
    <3> QED BY <1>3, <2>1, <2>2, <2>3, <3>1, <3>2, <3>3, <3>4
  <2>4. CASE p \notin S
    <3>1. t(p) = 0 /\ more = 10 /\ paid = Labour(p, mult)
      BY <1>1, <2>4 DEF more, paid
    <3>2. b(p) * (4 * (0 + 1) + 6) = 10 * b(p) /\ b(p) * 34 * mult * ((0 + 1) - 1) = 0
      BY <2>1
    <3> QED BY <1>3, <2>2, <2>4, <3>1, <3>2
  <2> QED BY <2>3, <2>4
<1>8. \A x \in S \union {p} : h[x] \in Nat /\ lh[x] \in Nat
  BY <1>5, <1>6, <1>7
<1>9. SumFunctionOnSet(h, S \union {p}) = SumFunctionOnSet(f, S) + more * b(p)
  <2>1. PICK extra \in Nat : extra = more * b(p)
    BY <1>5
  <2>2. h[p] = IF p \in S THEN f[p] + extra ELSE extra
    BY <1>7, <2>1
  <2>3. SumFunctionOnSet(h, S \union {p}) = SumFunctionOnSet(f, S) + extra
    <3>1. /\ IsFiniteSet(S) /\ \A x \in S : f[x] \in Nat
          /\ \A x \in S \union {p} : h[x] \in Nat
          /\ \A x \in S \ {p} : h[x] = f[x]
      BY <1>1, <1>6, <1>8
    <3> QED BY <2>2, <3>1, SumUpdate
  <2> QED BY <2>1, <2>3
<1>10. SumFunctionOnSet(lh, S \union {p}) = SumFunctionOnSet(lf, S) + paid
  BY <1>1, <1>5, <1>6, <1>7, <1>8, SumUpdate
<1> QED BY <1>4, <1>9, <1>10 DEF SumFunction, f, h, lf, lh, S, more, paid, p, b

\* The parts of a sequence of sequences, put together one after the other.
IsFlat(g, seqs) ==
  g = [i \in 1..Len(seqs) |-> IF i = 1 THEN seqs[i] ELSE g[i - 1] \o seqs[i]]

LEMMA FlatExists ==
  ASSUME NEW D, NEW seqs \in Seq(Seq(D)), Len(seqs) # 0
  PROVE  /\ \E g : IsFlat(g, seqs)
         /\ \E g : IsFlat(g, seqs) /\ FlattenSeq(seqs) = g[Len(seqs)]
<1> DEFINE N == Len(seqs)
           Flat(g) == g = [i \in 1..N |-> IF i = 1 THEN seqs[i] ELSE g[i - 1] \o seqs[i]]
           Upto(n, g) == g = [i \in 1..N |->
                                IF i = 1 THEN seqs[i]
                                ELSE IF i <= n THEN g[i - 1] \o seqs[i] ELSE <<>>]
           Known(n) == \E g : Upto(n, g)
           None == {n \in Nat : n >= 1 /\ ~Known(n)}
<1>0. N \in Nat /\ DOMAIN seqs = 1..N /\ \A i \in 1..N : seqs[i] \in Seq(D)
  OBVIOUS
<1>1. \E g : Upto(1, g)
  <2>1. Upto(1, [i \in 1..N |-> IF i = 1 THEN seqs[i] ELSE <<>>])
    BY <1>0
  <2> QED BY <2>1
<1>2. ASSUME NEW n \in Nat, n >= 1, NEW g, Upto(n, g)
      PROVE  \E h : Upto(n + 1, h)
  <2> DEFINE h == [i \in 1..N |->
                     IF i = 1 THEN seqs[i]
                     ELSE IF i <= n + 1 THEN g[i - 1] \o seqs[i] ELSE <<>>]
  <2>1. ASSUME NEW i \in 1..N, i # 1, i <= n + 1
        PROVE  g[i - 1] = h[i - 1]
    <3>1. i - 1 \in 1..N /\ i - 1 <= n /\ i - 1 <= n + 1
      BY <1>0, <2>1
    <3>2. g[i - 1] = IF i - 1 = 1 THEN seqs[i - 1]
                     ELSE IF i - 1 <= n THEN g[(i - 1) - 1] \o seqs[i - 1] ELSE <<>>
      BY <1>2, <3>1
    <3>3. h[i - 1] = IF i - 1 = 1 THEN seqs[i - 1]
                     ELSE IF i - 1 <= n + 1 THEN g[(i - 1) - 1] \o seqs[i - 1] ELSE <<>>
      BY <3>1
    <3> QED BY <3>1, <3>2, <3>3
  <2>2. Upto(n + 1, h)
    BY <2>1
  <2> QED BY <2>2
<1>3. None = {}
  <2> SUFFICES ASSUME None # {} PROVE FALSE
    OBVIOUS
  <2> HIDE DEF Known
  <2>1. None \subseteq Nat /\ \A k \in Nat : k \notin None <=> k < 1 \/ Known(k)
    OBVIOUS
  <2> HIDE DEF None
  <2>2. PICK n \in None : \A k \in None : ~(k < n)
    BY <2>1, LeastNumber
  <2>3. Known(1)
    BY <1>1 DEF Known
  <2>4. n \in Nat /\ n > 1 /\ n - 1 \in Nat /\ n - 1 >= 1 /\ (n - 1) + 1 = n /\ n - 1 < n
    <3>1. n \in Nat /\ ~(n < 1) /\ n # 1
      BY <2>1, <2>2, <2>3
    <3> QED BY <3>1
  <2>5. Known(n - 1)
    BY <2>1, <2>2, <2>4
  <2>6. Known(n)
    <3> HIDE DEF Upto
    <3>1. PICK g : Upto(n - 1, g)
      BY <2>5 DEF Known
    <3>2. \E h : Upto((n - 1) + 1, h)
      BY <1>2, <2>4, <3>1
    <3> QED BY <2>4, <3>2 DEF Known
  <2> QED BY <2>1, <2>2, <2>6
<1>4. \E g : Flat(g)
  <2> HIDE DEF N
  <2>1. N >= 1 /\ N \in Nat
    BY <1>0
  <2>2. Known(N)
    <3> HIDE DEF Known
    <3> QED BY <1>3, <2>1
  <2>3. PICK g : Upto(N, g)
    BY <2>2
  <2>4. Flat(g)
    <3>1. \A i \in 1..N : i <= N
      BY <2>1
    <3> QED BY <2>3, <3>1
  <2> QED BY <2>4
<1>5. FlattenSeq(seqs) = (CHOOSE g : Flat(g))[N]
  BY DEF FlattenSeq
<1>6. \A g : Flat(g) <=> IsFlat(g, seqs)
  BY DEF IsFlat
<1> HIDE DEF Flat
<1>7. PICK g : Flat(g) /\ FlattenSeq(seqs) = g[N]
  BY <1>4, <1>5
<1> QED BY <1>6, <1>7

\* The sequences of a sequence, one after the other: again a sequence, with every
\* element of every part.
LEMMA Flattened ==
  ASSUME NEW D, NEW seqs \in Seq(Seq(D))
  PROVE  /\ FlattenSeq(seqs) \in Seq(D)
         /\ \A j \in DOMAIN seqs : \A x \in DOMAIN seqs[j] :
              \E y \in DOMAIN FlattenSeq(seqs) : FlattenSeq(seqs)[y] = seqs[j][x]
<1> DEFINE N == Len(seqs)
           Flat(g) == g = [i \in 1..N |-> IF i = 1 THEN seqs[i] ELSE g[i - 1] \o seqs[i]]
<1>0. N \in Nat /\ DOMAIN seqs = 1..N /\ \A i \in 1..N : seqs[i] \in Seq(D)
  OBVIOUS
<1>1. CASE N = 0
  <2>1. FlattenSeq(seqs) = seqs /\ seqs = <<>>
    BY <1>1 DEF FlattenSeq
  <2> QED BY <2>1
<1>2. CASE N # 0
  <2>5. PICK g : Flat(g) /\ FlattenSeq(seqs) = g[N]
    BY <1>2, FlatExists DEF IsFlat
  <2> DEFINE Has(i) ==
        \A j \in 1..i : \A x \in DOMAIN seqs[j] :
          \E y \in DOMAIN g[i] : g[i][y] = seqs[j][x]
             Bad == {i \in 1..N : ~(g[i] \in Seq(D) /\ Has(i))}
  <2>6. ASSUME Bad # {} PROVE FALSE
    <3>1. Bad \subseteq Nat
      BY <1>0
    <3> HIDE DEF Bad
    <3>2. PICK i \in Bad : \A k \in Bad : ~(k < i)
      BY <2>6, <3>1, LeastNumber
    <3> USE DEF Bad
    <3>3. i \in 1..N /\ ~(g[i] \in Seq(D) /\ Has(i)) /\ seqs[i] \in Seq(D)
      BY <1>0
    <3>4. CASE i = 1
      <4>1. g[1] = seqs[1] /\ \A j \in 1..1 : j = 1
        BY <2>5, <3>3, <3>4
      <4> QED BY <3>3, <3>4, <4>1
    <3>5. CASE i # 1
      <4>1. i - 1 \in 1..N /\ i - 1 < i
        BY <1>0, <3>3, <3>5
      <4>6. g[i] = g[i - 1] \o seqs[i]
        <5> HIDE DEF N
        <5> QED BY <2>5, <3>3, <3>5
      <4>2. g[i - 1] \in Seq(D) /\ Has(i - 1)
        BY <3>2, <4>1
      <4> DEFINE a == g[i - 1]
                 b == seqs[i]
      <4>3. a \in Seq(D) /\ b \in Seq(D) /\ g[i] = a \o b
        BY <3>3, <4>2, <4>6
      <4> HIDE DEF a, b
      <4>4. /\ g[i] \in Seq(D)
            /\ \A y \in DOMAIN a : y \in DOMAIN g[i] /\ g[i][y] = a[y]
            /\ \A y \in DOMAIN b : Len(a) + y \in DOMAIN g[i] /\ g[i][Len(a) + y] = b[y]
        BY <4>3
      <4>5. ASSUME NEW j \in 1..i, NEW x \in DOMAIN seqs[j]
            PROVE  \E y \in DOMAIN g[i] : g[i][y] = seqs[j][x]
        <5>1. CASE j = i
          <6>1. x \in DOMAIN b /\ b[x] = seqs[j][x]
            BY <4>5, <5>1 DEF b
          <6> QED BY <4>4, <6>1
        <5>2. CASE j # i
          <6>1. j \in 1..(i - 1)
            BY <3>3, <5>2
          <6>2. PICK y \in DOMAIN a : a[y] = seqs[j][x]
            BY <4>2, <4>5, <6>1 DEF a
          <6> QED BY <4>4, <6>2
        <5> QED BY <5>1, <5>2
      <4> QED BY <3>3, <4>4, <4>5
    <3> QED BY <3>4, <3>5
  <2>7. N \in 1..N
    BY <1>0, <1>2
  <2>8. g[N] \in Seq(D) /\ Has(N)
    BY <2>6, <2>7
  <2>9. DOMAIN seqs = 1..N
    BY <1>0
  <2> HIDE DEF N, Bad, Flat
  <2> QED BY <2>5, <2>8, <2>9
<1> QED BY <1>1, <1>2

\* The rows of an analysis: the damages of all photos, in some order.
LEMMA RowsRead ==
  ASSUME photos \in Seq(Photos), NEW order \in Orders
  PROVE  LET read == [i \in DOMAIN photos |-> photos[order[i]]] IN
         /\ AllDamages(read) \in Seq(Damage)
         /\ \A i \in DOMAIN photos : \A x \in DOMAIN Damages(photos[i]) :
              \E y \in DOMAIN AllDamages(read) :
                AllDamages(read)[y] = Damages(photos[i])[x]
<1> DEFINE read == [i \in DOMAIN photos |-> photos[order[i]]]
           seqs == [i \in DOMAIN read |-> Damages(read[i])]
<1>1. /\ DOMAIN photos = 1..Len(photos) /\ Len(photos) \in Nat
      /\ \A i \in DOMAIN photos : photos[i] \in Photos
      /\ order \in [DOMAIN photos -> DOMAIN photos]
      /\ \A i \in DOMAIN photos : \E j \in DOMAIN photos : order[j] = i
  BY DEF Orders
<1>2. DOMAIN read = DOMAIN photos /\ \A i \in DOMAIN photos : read[i] \in Photos
  BY <1>1
<1>3. DOMAIN seqs = 1..Len(photos)
      /\ \A i \in 1..Len(photos) : seqs[i] \in Seq(Damage)
  BY <1>1, <1>2, DetectorReports
<1>4. seqs \in Seq(Seq(Damage))
  BY <1>1, <1>3
<1>5. \A i \in DOMAIN photos : \E j \in DOMAIN seqs : seqs[j] = Damages(photos[i])
  BY <1>1, <1>3
<1>6. AllDamages(read) = FlattenSeq(seqs)
  BY DEF AllDamages
<1> HIDE DEF read, seqs
<1>7. /\ FlattenSeq(seqs) \in Seq(Damage)
      /\ \A j \in DOMAIN seqs : \A x \in DOMAIN seqs[j] :
           \E y \in DOMAIN FlattenSeq(seqs) : FlattenSeq(seqs)[y] = seqs[j][x]
  BY <1>4, Flattened
<1>8. ASSUME NEW i \in DOMAIN photos, NEW x \in DOMAIN Damages(photos[i])
      PROVE  \E y \in DOMAIN AllDamages(read) :
               AllDamages(read)[y] = Damages(photos[i])[x]
  <2>1. PICK j \in DOMAIN seqs : seqs[j] = Damages(photos[i])
    BY <1>5
  <2> QED BY <1>6, <1>7, <2>1
<1> QED BY <1>6, <1>7, <1>8 DEF read

\* The loop.
LoopInv ==
  /\ photos \in Seq(Photos)
  /\ rows \in Seq(Damage) /\ at \in Nat /\ at <= Len(rows)
  /\ phase = "pricing" =>
       /\ bill.seen = PartsTo(rows, at)
       /\ bill.hours = SumFunction(HourShares(rows, at))
       /\ bill.exact = OnceTo(rows, at)
       /\ bill.labour = SumFunction(LabourShares(rows, Multiplier[severity], at))
  /\ phase = "estimated" =>
       /\ bill.days \in RepairDays(SumFunction(HourShares(rows, Len(rows))),
                                   OnceTo(rows, Len(rows)), severity)
       /\ severity # "total_loss" =>
            bill.labour = SumFunction(LabourShares(rows, Multiplier[severity], Len(rows)))

LEMMA NoShares ==
  ASSUME NEW ds, NEW mult
  PROVE  /\ PartsTo(ds, 0) = {} /\ OnceTo(ds, 0) = TRUE
         /\ SumFunction(HourShares(ds, 0)) = 0
         /\ SumFunction(LabourShares(ds, mult, 0)) = 0
<1>1. PartsTo(ds, 0) = {}
  BY DEF PartsTo
<1>2. DOMAIN HourShares(ds, 0) = {} /\ DOMAIN LabourShares(ds, mult, 0) = {}
  BY <1>1 DEF HourShares, LabourShares
<1>3. OnceTo(ds, 0)
  BY <1>1 DEF OnceTo
<1> QED BY <1>1, <1>2, <1>3, SumEmpty DEF SumFunction

LEMMA OrderlessShares ==
  ASSUME rows \in Seq(Damage), NEW mult
  PROVE  /\ OrderlessHours = SumFunction(HourShares(rows, Len(rows)))
         /\ OrderlessExact = OnceTo(rows, Len(rows))
         /\ OrderlessLabour(mult) = SumFunction(LabourShares(rows, mult, Len(rows)))
<1>1. DOMAIN rows = 1..Len(rows)
  OBVIOUS
<1>2. {rows[i].part : i \in DOMAIN rows} = PartsTo(rows, Len(rows))
  BY <1>1 DEF PartsTo
<1>3. ASSUME NEW p PROVE DamagesOf(p) = TimesTo(rows, p, Len(rows))
  BY <1>1 DEF DamagesOf, TimesTo
<1>4. [p \in {rows[i].part : i \in DOMAIN rows} |-> Book(p).labour * (4 * DamagesOf(p) + 6)]
        = HourShares(rows, Len(rows))
  BY <1>2, <1>3 DEF HourShares
<1>5. [p \in {rows[i].part : i \in DOMAIN rows} |->
          Labour(p, mult) + Book(p).labour * 34 * mult * (DamagesOf(p) - 1)]
        = LabourShares(rows, mult, Len(rows))
  BY <1>2, <1>3 DEF LabourShares
<1>6. OrderlessExact = OnceTo(rows, Len(rows))
  BY <1>2, <1>3 DEF OrderlessExact, OnceTo
<1> QED BY <1>4, <1>5, <1>6 DEF OrderlessHours, OrderlessLabour

LEMMA LoopStart ==
  ASSUME LoopInv, NEW order \in Orders, StartEstimate(order)
  PROVE  LoopInv'
<1> DEFINE read == [i \in DOMAIN photos |-> photos[order[i]]]
<1>1. AllDamages(read) \in Seq(Damage)
  BY RowsRead DEF LoopInv
<1>2. /\ photos' = photos /\ rows' = AllDamages(read) /\ at' = 0
      /\ bill' = EmptyBill /\ phase' = "pricing"
  BY DEF StartEstimate
<1> HIDE DEF read
<1>3. rows' \in Seq(Damage) /\ 0 <= Len(rows') /\ photos' \in Seq(Photos)
  BY <1>1, <1>2 DEF LoopInv
<1>4. /\ bill'.seen = PartsTo(rows', at')
      /\ bill'.hours = SumFunction(HourShares(rows', at'))
      /\ bill'.exact = OnceTo(rows', at')
      /\ bill'.labour = SumFunction(LabourShares(rows', Multiplier[severity'], at'))
  BY <1>2, NoShares DEF EmptyBill
<1> QED BY <1>2, <1>3, <1>4 DEF LoopInv

LEMMA LoopTurn ==
  ASSUME CostInv, LoopInv, PriceDamage
  PROVE  LoopInv'
<1> DEFINE d    == rows[at + 1]
           mult == Multiplier[severity]
<1>1. /\ phase = "pricing" /\ at < Len(rows) /\ at' = at + 1 /\ bill' = Priced(bill, d, mult)
      /\ photos' = photos /\ rows' = rows /\ severity' = severity /\ phase' = phase
  BY DEF PriceDamage
<1>2. mult \in Nat
  BY BookHours DEF CostInv
<1>3. /\ bill.seen = PartsTo(rows, at)
      /\ bill.hours = SumFunction(HourShares(rows, at))
      /\ bill.exact = OnceTo(rows, at)
      /\ bill.labour = SumFunction(LabourShares(rows, mult, at))
  BY <1>1 DEF LoopInv
<1>4. at \in Nat /\ at + 1 <= Len(rows) /\ DOMAIN bill = Bill
  BY <1>1 DEF LoopInv, CostInv
<1> HIDE DEF mult
<1>5. /\ PartsTo(rows, at + 1) = PartsTo(rows, at) \union {d.part}
      /\ SumFunction(HourShares(rows, at + 1))
           = bill.hours + (IF d.part \in bill.seen THEN 4 ELSE 10) * Book(d.part).labour
      /\ OnceTo(rows, at + 1) <=> bill.exact /\ d.part \notin bill.seen /\ InHalves(d.part)
      /\ SumFunction(LabourShares(rows, mult, at + 1))
           = bill.labour + (IF d.part \in bill.seen THEN Further(d.part, mult)
                            ELSE Labour(d.part, mult))
  <2>1. PartsTo(rows, at + 1) = PartsTo(rows, at) \union {rows[at + 1].part}
    BY <1>4, TimesStep
  <2>2. /\ SumFunction(HourShares(rows, at + 1))
             = SumFunction(HourShares(rows, at))
                 + (IF rows[at + 1].part \in PartsTo(rows, at) THEN 4 ELSE 10)
                     * Book(rows[at + 1].part).labour
        /\ SumFunction(LabourShares(rows, mult, at + 1))
             = SumFunction(LabourShares(rows, mult, at))
                 + (IF rows[at + 1].part \in PartsTo(rows, at)
                    THEN Further(rows[at + 1].part, mult)
                    ELSE Labour(rows[at + 1].part, mult))
    BY <1>2, <1>4, SharesStep, Zenon
  <2>3. OnceTo(rows, at + 1) <=>
          /\ OnceTo(rows, at) /\ rows[at + 1].part \notin PartsTo(rows, at)
          /\ InHalves(rows[at + 1].part)
    BY <1>4, OnceStep, Zenon
  <2> QED BY <1>3, <2>1, <2>2, <2>3, Zenon
<1> HIDE DEF d
<1>6. /\ bill'.seen = bill.seen \union {d.part}
      /\ bill'.hours = bill.hours + (IF d.part \in bill.seen THEN 4 ELSE 10) * Book(d.part).labour
      /\ bill'.exact = (bill.exact /\ d.part \notin bill.seen /\ InHalves(d.part))
      /\ bill'.labour = bill.labour + (IF d.part \in bill.seen THEN Further(d.part, mult)
                                       ELSE Labour(d.part, mult))
  <2>1. CASE d.part \in bill.seen
    <3>1. bill' = PriceAgain(bill, d, mult)
      BY <1>1, <2>1 DEF Priced
    <3> QED BY <1>4, <2>1, <3>1 DEF PriceAgain, Bill
  <2>2. CASE d.part \notin bill.seen
    <3>1. bill' = PriceFirst(bill, d, mult)
      BY <1>1, <2>2 DEF Priced
    <3> QED BY <1>4, <2>2, <3>1 DEF PriceFirst, Bill
  <2> QED BY <2>1, <2>2
<1>7. /\ bill'.seen = PartsTo(rows', at')
      /\ bill'.hours = SumFunction(HourShares(rows', at'))
      /\ bill'.exact = OnceTo(rows', at')
      /\ bill'.labour = SumFunction(LabourShares(rows', Multiplier[severity'], at'))
  BY <1>1, <1>3, <1>5, <1>6 DEF mult
<1> QED BY <1>1, <1>4, <1>7 DEF LoopInv

LEMMA LoopEnd ==
  ASSUME CostInv, LoopInv, FinishEstimate
  PROVE  LoopInv'
<1> DEFINE settled == Settled(bill, severity)
<1>1. /\ phase = "pricing" /\ at = Len(rows) /\ phase' = "estimated"
      /\ \E days \in RepairDays(bill.hours, bill.exact, severity) :
           bill' = [settled EXCEPT !.days = days]
      /\ photos' = photos /\ rows' = rows /\ severity' = severity /\ at' = at
  BY DEF FinishEstimate
<1>2. DOMAIN bill = Bill
  BY DEF CostInv
<1>3. DOMAIN settled = Bill /\ (severity # "total_loss" => settled.labour = bill.labour)
  BY <1>2 DEF Settled, Bill
<1> HIDE DEF settled
<1>4. bill'.days \in RepairDays(bill.hours, bill.exact, severity)
      /\ (severity # "total_loss" => bill'.labour = bill.labour)
  BY <1>1, <1>3 DEF Bill
<1>5. bill.hours = SumFunction(HourShares(rows, Len(rows)))
      /\ bill.exact = OnceTo(rows, Len(rows))
      /\ bill.labour = SumFunction(LabourShares(rows, Multiplier[severity], Len(rows)))
  BY <1>1 DEF LoopInv
<1> QED BY <1>1, <1>4, <1>5 DEF LoopInv

LEMMA LoopInvStep == CostInv /\ LoopInv /\ [CostNext]_costVars => LoopInv'
<1> SUFFICES ASSUME CostInv, LoopInv, [CostNext]_costVars PROVE LoopInv'
  OBVIOUS
<1>1. ASSUME NEW p \in Photos, AddPhoto(p) PROVE LoopInv'
  <2>1. photos' \in Seq(Photos) /\ phase' = "open" /\ UNCHANGED <<rows, at>>
    BY <1>1 DEF AddPhoto, LoopInv
  <2> QED BY <2>1 DEF LoopInv
<1>2. ASSUME NEW order \in Orders, StartEstimate(order) PROVE LoopInv'
  BY <1>2, LoopStart
<1>3. CASE PriceDamage
  BY <1>3, LoopTurn
<1>4. CASE FinishEstimate
  BY <1>4, LoopEnd
<1>5. CASE UNCHANGED costVars
  BY <1>5 DEF costVars, LoopInv
<1> QED BY <1>1, <1>2, <1>3, <1>4, <1>5 DEF CostNext

LEMMA LoopInvariant == CostSpec => [](CostInv /\ LoopInv)
<1>1. CostInit => CostInv
  BY DEF CostInit, EmptyBill, CostInv, Bill, Multiplier, InvoiceAddsUp, Subtotal
<1>2. CostInit => LoopInv
  BY DEF CostInit, LoopInv
<1> QED BY <1>1, <1>2, CostInvStep, LoopInvStep, PTL DEF CostSpec

\* In whatever order the photos are read, an estimate has the same labour, for any
\* number of photos and damages, and the same repair days but for hours at a half
\* whose float sum is not exact (the loop of estimate and its rounding).
THEOREM LabourNeedsNoOrder == CostSpec => []LabourIgnoresOrder
<1>1. LoopInv => LabourIgnoresOrder
  BY OrderlessShares DEF LoopInv, LabourIgnoresOrder, Estimated
<1> QED BY <1>1, LoopInvariant, PTL

-----------------------------------------------------------------------------
\* Severity.

LEMMA Ranks ==
  /\ Rank("minor") = 1 /\ Rank("moderate") = 2 /\ Rank("major") = 3
  /\ Rank("critical") = 4 /\ Rank("total_loss") = 5
<1>1. ASSUME NEW k \in 1..5 PROVE Rank(Severity[k]) = k
  <2>1. \A i \in 1..5 : Severity[i] = Severity[k] => i = k
    BY DEF Severity
  <2>2. \E i \in 1..5 : Severity[i] = Severity[k]
    OBVIOUS
  <2> QED BY <2>1, <2>2 DEF Rank
<1>2. /\ Severity[1] = "minor" /\ Severity[2] = "moderate" /\ Severity[3] = "major"
      /\ Severity[4] = "critical" /\ Severity[5] = "total_loss"
  BY DEF Severity
<1>3. 1 \in 1..5 /\ 2 \in 1..5 /\ 3 \in 1..5 /\ 4 \in 1..5 /\ 5 \in 1..5
  OBVIOUS
<1> QED BY <1>1, <1>2, <1>3, Zenon

\* A photo with its damages among those of the claim, and its area within the
\* claim's, is classified no higher than the claim.
LEMMA SeverityIsMonotone ==
  ASSUME NEW photo, ~OnlyDetectorSees(photo),
         NEW types, Types(Damages(photo)) \subseteq types,
         NEW area \in Nat, PhotoArea(photo) \in Nat, PhotoArea(photo) <= area
  PROVE  Rank(PhotoSeverity(photo)) <= Rank(ClassifySeverity(types, area))
<1> DEFINE own  == Types(Damages(photo))
           less == PhotoArea(photo)
<1>1. /\ PhotoSeverity(photo) =
           IF own \intersect {"total_loss", "fire_damage"} # {} \/ less >= 60
             THEN "total_loss"
           ELSE IF less >= 40 \/ "bent_metal" \in own THEN "critical"
           ELSE IF less >= 20 THEN "major"
           ELSE IF less >= 8 THEN "moderate" ELSE "minor"
  BY DEF PhotoSeverity, OnlyDetectorSees
<1>2. ClassifySeverity(types, area) =
        IF types \intersect {"total_loss", "fire_damage"} # {} \/ area >= 60
          THEN "total_loss"
        ELSE IF area >= 40 \/ types \intersect {"bent_metal", "flood_damage"} # {}
          THEN "critical"
        ELSE IF area >= 20 THEN "major"
        ELSE IF area >= 8 THEN "moderate" ELSE "minor"
  BY DEF ClassifySeverity
<1>3. own \subseteq types /\ less \in Nat /\ less <= area
  OBVIOUS
<1> HIDE DEF own, less
<1>4. CASE own \intersect {"total_loss", "fire_damage"} # {} \/ less >= 60
  <2>1. types \intersect {"total_loss", "fire_damage"} # {} \/ area >= 60
    BY <1>3, <1>4
  <2> QED BY <1>1, <1>2, <1>4, <2>1, Ranks
<1>5. CASE /\ own \intersect {"total_loss", "fire_damage"} = {} /\ ~(less >= 60)
           /\ less >= 40 \/ "bent_metal" \in own
  <2>1. PhotoSeverity(photo) = "critical"
    BY <1>1, <1>5
  <2>2. area >= 40 \/ types \intersect {"bent_metal", "flood_damage"} # {}
    BY <1>3, <1>5
  <2>3. \/ ClassifySeverity(types, area) = "total_loss"
        \/ ClassifySeverity(types, area) = "critical"
    BY <1>2, <2>2
  <2> QED BY <2>1, <2>3, Ranks
<1>6. CASE /\ own \intersect {"total_loss", "fire_damage"} = {} /\ ~(less >= 60)
           /\ ~(less >= 40 \/ "bent_metal" \in own)
  <2>1. PhotoSeverity(photo) =
          IF less >= 20 THEN "major" ELSE IF less >= 8 THEN "moderate" ELSE "minor"
    BY <1>1, <1>6
  <2>2. \/ ClassifySeverity(types, area) = "total_loss"
        \/ ClassifySeverity(types, area) = "critical"
        \/ ClassifySeverity(types, area) =
              IF area >= 20 THEN "major" ELSE IF area >= 8 THEN "moderate" ELSE "minor"
    BY <1>2
  <2> QED BY <1>3, <2>1, <2>2, Ranks
<1> QED BY <1>4, <1>5, <1>6

LEMMA AreaType == \A p \in Photos : PhotoArea(p) \in Nat /\ PhotoArea(p) <= 100
<1> TAKE p \in Photos
<1> DEFINE damages == Damages(p)
           areas   == [i \in DOMAIN damages |-> damages[i].area]
<1>1. damages \in Seq(Damage)
  BY DetectorReports
<1> HIDE DEF damages
<1>2. DOMAIN damages = 1..Len(damages) /\ Len(damages) \in Nat
      /\ \A i \in DOMAIN damages : damages[i].area \in Nat
  <2>1. \A d \in Damage : d.area \in Nat
    BY DEF Damage
  <2> HIDE DEF Damage
  <2>2. DOMAIN damages = 1..Len(damages) /\ Len(damages) \in Nat
        /\ \A i \in DOMAIN damages : damages[i] \in Damage
    BY <1>1
  <2> QED BY <2>1, <2>2
<1>3. IsFiniteSet(DOMAIN damages) /\ DOMAIN areas = DOMAIN damages
      /\ \A i \in DOMAIN damages : areas[i] \in Nat
  BY <1>2, FS_Interval
<1>4. PhotoArea(p) = IF SumFunction(areas) > 100 THEN 100 ELSE SumFunction(areas)
  BY DEF PhotoArea, damages
<1> HIDE DEF areas
<1>5. SumFunction(areas) \in Nat
  BY <1>3, SumType DEF SumFunction
<1> QED BY <1>4, <1>5

\* A set of numbers up to a bound has a largest one.
LEMMA Largest ==
  ASSUME NEW T, T \subseteq Nat, T # {}, NEW b \in Nat, \A x \in T : x <= b
  PROVE  Max(T) \in T /\ \A x \in T : x <= Max(T)
<1> DEFINE below == {b - x : x \in T}
<1>1. below \subseteq Nat /\ below # {}
  <2>1. \A x \in T : x \in Nat /\ b - x \in Nat
    OBVIOUS
  <2> QED BY <2>1
<1> HIDE DEF below
<1>2. PICK n \in below : \A k \in below : ~(k < n)
  BY <1>1, LeastNumber
<1> USE DEF below
<1>3. PICK m \in T : n = b - m
  BY <1>2
<1>4. \A x \in T : m >= x
  <2> TAKE x \in T
  <2>1. b - x \in below /\ x \in Nat /\ m \in Nat
    OBVIOUS
  <2>2. ~(b - x < b - m)
    BY <1>2, <1>3, <2>1
  <2> QED BY <2>1, <2>2
<1>5. Max(T) \in T /\ \A x \in T : Max(T) >= x
  BY <1>3, <1>4 DEF Max
<1> QED BY <1>5

\* In any order, the claim's damages and its area take in those of every photo.
LEMMA ClaimTakesIn ==
  ASSUME photos \in Seq(Photos), NEW order \in Orders, NEW i \in DOMAIN photos
  PROVE  LET read == [j \in DOMAIN photos |-> photos[order[j]]] IN
         /\ Types(Damages(photos[i])) \subseteq Types(AllDamages(read))
         /\ ClaimArea(read) \in Nat /\ PhotoArea(photos[i]) <= ClaimArea(read)
<1> DEFINE read  == [j \in DOMAIN photos |-> photos[order[j]]]
           areas == {PhotoArea(read[j]) : j \in DOMAIN read}
<1>1. Types(Damages(photos[i])) \subseteq Types(AllDamages(read))
  <2>1. ASSUME NEW x \in DOMAIN Damages(photos[i])
        PROVE  \E y \in DOMAIN AllDamages(read) :
                 AllDamages(read)[y] = Damages(photos[i])[x]
    BY RowsRead
  <2> HIDE DEF read
  <2> QED BY <2>1 DEF Types
<1>2. /\ DOMAIN read = DOMAIN photos /\ \A j \in DOMAIN photos : read[j] \in Photos
      /\ \E j \in DOMAIN photos : read[j] = photos[i]
  BY DEF Orders
<1> HIDE DEF read
<1>3. PhotoArea(photos[i]) \in areas
  BY <1>2
<1>4. areas \subseteq Nat /\ \A x \in areas : x <= 100
  BY <1>2, AreaType
<1>5. ClaimArea(read) = Max(areas)
  BY DEF ClaimArea
<1> HIDE DEF areas
<1>6. Max(areas) \in areas /\ PhotoArea(photos[i]) <= Max(areas)
  BY <1>3, <1>4, Largest
<1>7. ClaimArea(read) \in Nat /\ PhotoArea(photos[i]) <= ClaimArea(read)
  BY <1>4, <1>5, <1>6
<1> QED BY <1>1, <1>7 DEF read

SeverityInv == photos \in Seq(Photos) /\ ClaimSeverityCoversPhotos

LEMMA SeverityStep == SeverityInv /\ [CostNext]_costVars => SeverityInv'
<1> SUFFICES ASSUME SeverityInv, [CostNext]_costVars PROVE SeverityInv'
  OBVIOUS
<1>1. ASSUME NEW p \in Photos, AddPhoto(p) PROVE SeverityInv'
  <2>1. photos' \in Seq(Photos) /\ phase' = "open"
    BY <1>1 DEF AddPhoto, SeverityInv
  <2> QED BY <2>1 DEF SeverityInv, ClaimSeverityCoversPhotos
<1>2. ASSUME NEW order \in Orders, StartEstimate(order) PROVE SeverityInv'
  <2> DEFINE read  == [j \in DOMAIN photos |-> photos[order[j]]]
             types == Types(AllDamages(read))
             area  == ClaimArea(read)
  <2>1. photos' = photos /\ severity' = ClassifySeverity(types, area)
    BY <1>2 DEF StartEstimate
  <2>2. ASSUME NEW i \in DOMAIN photos, ~OnlyDetectorSees(photos[i])
        PROVE  Rank(PhotoSeverity(photos[i])) <= Rank(severity')
    <3>1. Types(Damages(photos[i])) \subseteq types
          /\ area \in Nat /\ PhotoArea(photos[i]) <= area
      BY ClaimTakesIn DEF SeverityInv
    <3>2. PhotoArea(photos[i]) \in Nat
      BY AreaType DEF SeverityInv
    <3> HIDE DEF types, area
    <3> QED BY <2>1, <2>2, <3>1, <3>2, SeverityIsMonotone
  <2> QED BY <2>1, <2>2 DEF SeverityInv, ClaimSeverityCoversPhotos
<1>3. CASE PriceDamage
  BY <1>3 DEF PriceDamage, SeverityInv, ClaimSeverityCoversPhotos
<1>4. CASE FinishEstimate
  BY <1>4 DEF FinishEstimate, SeverityInv, ClaimSeverityCoversPhotos
<1>5. CASE UNCHANGED costVars
  BY <1>5 DEF costVars, SeverityInv, ClaimSeverityCoversPhotos
<1> QED BY <1>1, <1>2, <1>3, <1>4, <1>5 DEF CostNext

\* The claim is never classified below its worst photo, apart from what only the
\* detector's own rules look at, in whatever order the photos are read
\* (classify_severity over all damages and the largest area).
THEOREM SeverityCoversPhotos == CostSpec => []ClaimSeverityCoversPhotos
<1>1. CostInit => SeverityInv
  BY DEF CostInit, SeverityInv, ClaimSeverityCoversPhotos
<1>2. SeverityInv => ClaimSeverityCoversPhotos
  BY DEF SeverityInv
<1> QED BY <1>1, <1>2, SeverityStep, PTL DEF CostSpec

-----------------------------------------------------------------------------
\* What an estimate comes to when there are more photos.

\* What the loop has made of the first damages of ds, turn by turn.
IsRun(g, ds, mult, k) ==
  g[0] = EmptyBill /\ \A i \in 1..k : g[i] = Priced(g[i - 1], ds[i], mult)

IsBill(b) ==
  DOMAIN b = Bill /\ b.parts \in Nat /\ b.labour \in Nat /\ b.paint \in Nat

NoMore(b, c) ==
  b.seen = c.seen /\ b.parts <= c.parts /\ b.labour <= c.labour /\ b.paint <= c.paint

Extends(long, short) ==
  Len(short) <= Len(long) /\ \A i \in 1..Len(short) : long[i] = short[i]

LEMMA TimesGrow ==
  ASSUME NEW a \in Nat, NEW m \in Nat, NEW n \in Nat, m <= n
  PROVE  a * m \in Nat /\ a * m <= a * n
<1>1. PICK e \in Nat : n = m + e
  <2>1. n - m \in Nat /\ n = m + (n - m)
    OBVIOUS
  <2> QED BY <2>1
<1>2. a * (m + e) = a * m + a * e /\ a * m \in Nat /\ a * e \in Nat
  OBVIOUS
<1> QED BY <1>1, <1>2

\* A damage costs no more at a lower multiplier.
LEMMA AmountsGrow ==
  ASSUME NEW d, NEW m \in Nat, NEW n \in Nat, m <= n
  PROVE  /\ PartCost(d, m) \in Nat /\ PartCost(d, m) <= PartCost(d, n)
         /\ Labour(d.part, m) \in Nat /\ Labour(d.part, m) <= Labour(d.part, n)
         /\ Further(d.part, m) \in Nat /\ Further(d.part, m) <= Further(d.part, n)
         /\ Paint(d, m) \in Nat /\ Paint(d, m) <= Paint(d, n)
<1>1. PICK name \in DOMAIN OemParts : Book(d.part) = OemParts[name]
  BY DEF Book, OemParts
<1>2. /\ OemParts[name].part \in Nat /\ OemParts[name].labour \in Nat
      /\ OemParts[name].paint \in Nat
  BY DEF OemParts, Line
<1>3. PICK a \in Nat, l \in Nat, c \in Nat :
        Book(d.part).part = a /\ Book(d.part).labour = l /\ Book(d.part).paint = c
  BY <1>1, <1>2
<1>4. a \div 4 \in Nat /\ l * LabourRate \in Nat
  BY DEF LabourRate
<1>5. PartCost(d, m) \in Nat /\ PartCost(d, m) <= PartCost(d, n)
  BY <1>3, <1>4, TimesGrow DEF PartCost
<1>6. Labour(d.part, m) \in Nat /\ Labour(d.part, n) \in Nat
      /\ Labour(d.part, m) <= Labour(d.part, n)
  <2>1. \A x \in Nat : l * LabourRate * x = (l * LabourRate) * x
    OBVIOUS
  <2>2. PICK r \in Nat : r = l * LabourRate
    BY <1>4
  <2>3. Labour(d.part, m) = r * m /\ Labour(d.part, n) = r * n
    BY <1>3, <2>2 DEF Labour
  <2> QED BY <2>3, TimesGrow
<1>7. Further(d.part, m) \in Nat /\ Further(d.part, m) <= Further(d.part, n)
  <2>1. \A x, y \in Nat : x <= y => (x * 2) \div 5 \in Nat /\ (x * 2) \div 5 <= (y * 2) \div 5
    OBVIOUS
  <2> QED BY <1>6, <2>1 DEF Further
<1>8. Paint(d, m) \in Nat /\ Paint(d, m) <= Paint(d, n)
  BY <1>3, TimesGrow DEF Paint
<1> QED BY <1>5, <1>6, <1>7, <1>8

\* One turn of the loop.
LEMMA TurnAdds ==
  ASSUME NEW b, IsBill(b), NEW d, NEW mult \in Nat, NEW r, r = Priced(b, d, mult)
  PROVE  /\ IsBill(r)
         /\ r.seen = b.seen \union {d.part}
         /\ r.parts = b.parts + (IF d.part \in b.seen THEN 0 ELSE PartCost(d, mult))
         /\ r.labour = b.labour + (IF d.part \in b.seen THEN Further(d.part, mult)
                                   ELSE Labour(d.part, mult))
         /\ r.paint = b.paint + (IF d.part \in b.seen THEN 0 ELSE Paint(d, mult))
<1>1. /\ PartCost(d, mult) \in Nat /\ Labour(d.part, mult) \in Nat
      /\ Further(d.part, mult) \in Nat /\ Paint(d, mult) \in Nat
  BY AmountsGrow
<1>2. CASE d.part \in b.seen
  <2>1. r = PriceAgain(b, d, mult)
    BY <1>2 DEF Priced
  <2>2. /\ DOMAIN r = Bill /\ r.seen = b.seen /\ r.parts = b.parts /\ r.paint = b.paint
        /\ r.labour = b.labour + Further(d.part, mult)
    BY <2>1 DEF PriceAgain, IsBill, Bill
  <2> QED BY <1>1, <1>2, <2>2 DEF IsBill
<1>3. CASE d.part \notin b.seen
  <2>1. r = PriceFirst(b, d, mult)
    BY <1>3 DEF Priced
  <2>2. /\ DOMAIN r = Bill /\ r.seen = b.seen \union {d.part}
        /\ r.parts = b.parts + PartCost(d, mult)
        /\ r.labour = b.labour + Labour(d.part, mult)
        /\ r.paint = b.paint + Paint(d, mult)
    BY <2>1 DEF PriceFirst, IsBill, Bill
  <2> QED BY <1>1, <1>3, <2>2 DEF IsBill
<1> QED BY <1>2, <1>3

LEMMA RunIsBilled ==
  ASSUME NEW g, NEW ds, NEW mult \in Nat, NEW k \in Nat, IsRun(g, ds, mult, k)
  PROVE  \A i \in 0..k : IsBill(g[i])
<1> DEFINE Bad == {i \in 0..k : ~IsBill(g[i])}
<1> SUFFICES ASSUME Bad # {} PROVE FALSE
  OBVIOUS
<1>1. Bad \subseteq Nat
  OBVIOUS
<1>2. PICK i \in Bad : \A j \in Bad : ~(j < i)
  BY <1>1, LeastNumber
<1>3. CASE i = 0
  BY <1>2, <1>3 DEF IsRun, EmptyBill, IsBill, Bill
<1>4. CASE i # 0
  <2>1. i - 1 \in 0..k /\ i \in 1..k /\ i - 1 < i
    BY <1>4
  <2>2. IsBill(g[i - 1])
    BY <1>2, <2>1
  <2>3. g[i] = Priced(g[i - 1], ds[i], mult)
    BY <2>1 DEF IsRun
  <2> QED BY <1>2, <2>2, <2>3, TurnAdds
<1> QED BY <1>3, <1>4

\* Two runs over the same damages differ by their multipliers.
LEMMA RunsCompare ==
  ASSUME NEW g, NEW h, NEW ds, NEW es, NEW m \in Nat, NEW n \in Nat, m <= n,
         NEW k \in Nat, IsRun(g, ds, m, k), IsRun(h, es, n, k),
         \A i \in 1..k : ds[i] = es[i]
  PROVE  \A i \in 0..k : NoMore(g[i], h[i])
<1> DEFINE Bad == {i \in 0..k : ~NoMore(g[i], h[i])}
<1> SUFFICES ASSUME Bad # {} PROVE FALSE
  OBVIOUS
<1>1. Bad \subseteq Nat
  OBVIOUS
<1>2. PICK i \in Bad : \A j \in Bad : ~(j < i)
  BY <1>1, LeastNumber
<1>3. CASE i = 0
  BY <1>2, <1>3 DEF IsRun, EmptyBill, NoMore
<1>4. CASE i # 0
  <2>1. i - 1 \in 0..k /\ i \in 1..k /\ i - 1 < i
    BY <1>4
  <2>2. NoMore(g[i - 1], h[i - 1])
    BY <1>2, <2>1
  <2>3. /\ g[i] = Priced(g[i - 1], ds[i], m) /\ h[i] = Priced(h[i - 1], ds[i], n)
        /\ IsBill(g[i - 1]) /\ IsBill(h[i - 1])
    BY <2>1, RunIsBilled DEF IsRun
  <2>4. PICK b, c, d, r, t :
          /\ b = g[i - 1] /\ c = h[i - 1] /\ d = ds[i] /\ r = g[i] /\ t = h[i]
    OBVIOUS
  <2>5. /\ r.seen = b.seen \union {d.part}
        /\ r.parts = b.parts + (IF d.part \in b.seen THEN 0 ELSE PartCost(d, m))
        /\ r.labour = b.labour + (IF d.part \in b.seen THEN Further(d.part, m)
                                  ELSE Labour(d.part, m))
        /\ r.paint = b.paint + (IF d.part \in b.seen THEN 0 ELSE Paint(d, m))
    BY <2>3, <2>4, TurnAdds
  <2>6. /\ t.seen = c.seen \union {d.part}
        /\ t.parts = c.parts + (IF d.part \in c.seen THEN 0 ELSE PartCost(d, n))
        /\ t.labour = c.labour + (IF d.part \in c.seen THEN Further(d.part, n)
                                  ELSE Labour(d.part, n))
        /\ t.paint = c.paint + (IF d.part \in c.seen THEN 0 ELSE Paint(d, n))
    BY <2>3, <2>4, TurnAdds
  <2>7. /\ PartCost(d, m) \in Nat /\ PartCost(d, n) \in Nat
        /\ Labour(d.part, m) \in Nat /\ Labour(d.part, n) \in Nat
        /\ Further(d.part, m) \in Nat /\ Further(d.part, n) \in Nat
        /\ Paint(d, m) \in Nat /\ Paint(d, n) \in Nat
        /\ PartCost(d, m) <= PartCost(d, n) /\ Labour(d.part, m) <= Labour(d.part, n)
        /\ Further(d.part, m) <= Further(d.part, n) /\ Paint(d, m) <= Paint(d, n)
    BY AmountsGrow
  <2>8. NoMore(r, t)
    BY <2>2, <2>3, <2>4, <2>5, <2>6, <2>7 DEF NoMore, IsBill
  <2> QED BY <1>2, <2>4, <2>8
<1> QED BY <1>3, <1>4

\* A run never makes the totals smaller.
LEMMA RunGrows ==
  ASSUME NEW g, NEW ds, NEW mult \in Nat, NEW k \in Nat, IsRun(g, ds, mult, k),
         NEW j \in 0..k
  PROVE  /\ g[j].parts <= g[k].parts /\ g[j].labour <= g[k].labour
         /\ g[j].paint <= g[k].paint
<1> DEFINE Fine(i) == /\ g[j].parts <= g[i].parts /\ g[j].labour <= g[i].labour
                      /\ g[j].paint <= g[i].paint
           Bad == {i \in j..k : ~Fine(i)}
<1>0. \A i \in 0..k : /\ IsBill(g[i]) /\ g[i].parts \in Nat
                      /\ g[i].labour \in Nat /\ g[i].paint \in Nat
  BY RunIsBilled DEF IsBill
<1>1. ASSUME Bad # {} PROVE FALSE
  <2>1. Bad \subseteq Nat
    OBVIOUS
  <2>2. PICK i \in Bad : \A x \in Bad : ~(x < i)
    BY <1>1, <2>1, LeastNumber
  <2>3. CASE i = j
    BY <1>0, <2>2, <2>3
  <2>4. CASE i # j
    <3>1. i - 1 \in j..k /\ i - 1 \in 0..k /\ i \in 0..k /\ i \in 1..k /\ i - 1 < i
      BY <2>4
    <3>2. Fine(i - 1)
      BY <2>2, <3>1
    <3>3. g[i] = Priced(g[i - 1], ds[i], mult)
      BY <3>1 DEF IsRun
    <3>4. PICK b, d, r : b = g[i - 1] /\ d = ds[i] /\ r = g[i]
      OBVIOUS
    <3>5. /\ r.parts = b.parts + (IF d.part \in b.seen THEN 0 ELSE PartCost(d, mult))
          /\ r.labour = b.labour + (IF d.part \in b.seen THEN Further(d.part, mult)
                                    ELSE Labour(d.part, mult))
          /\ r.paint = b.paint + (IF d.part \in b.seen THEN 0 ELSE Paint(d, mult))
      BY <1>0, <3>1, <3>3, <3>4, TurnAdds
    <3>6. /\ PartCost(d, mult) \in Nat /\ Labour(d.part, mult) \in Nat
          /\ Further(d.part, mult) \in Nat /\ Paint(d, mult) \in Nat
      BY AmountsGrow
    <3>7. /\ b.parts \in Nat /\ b.labour \in Nat /\ b.paint \in Nat
          /\ g[j].parts \in Nat /\ g[j].labour \in Nat /\ g[j].paint \in Nat
      BY <1>0, <3>1, <3>4
    <3>8. Fine(i)
      BY <3>2, <3>4, <3>5, <3>6, <3>7
    <3> QED BY <2>2, <3>8
  <2> QED BY <2>3, <2>4
<1>2. k \in j..k
  OBVIOUS
<1> QED BY <1>1, <1>2

\* More damages and a larger area make a claim no less severe.
LEMMA SeverityGrows ==
  ASSUME NEW few, NEW many, few \subseteq many,
         NEW a \in Nat, NEW b \in Nat, a <= b,
         ClassifySeverity(many, b) # "total_loss"
  PROVE  /\ ClassifySeverity(few, a) # "total_loss"
         /\ Multiplier[ClassifySeverity(few, a)] <= Multiplier[ClassifySeverity(many, b)]
<1>1. many \intersect {"total_loss", "fire_damage"} = {} /\ ~(b >= 60)
  BY DEF ClassifySeverity
<1>2. few \intersect {"total_loss", "fire_damage"} = {} /\ ~(a >= 60)
  BY <1>1
<1>3. /\ Multiplier["minor"] = 11 /\ Multiplier["moderate"] = 17
      /\ Multiplier["major"] = 20 /\ Multiplier["critical"] = 25
  BY DEF Multiplier
<1>4. ClassifySeverity(many, b) =
        IF b >= 40 \/ many \intersect {"bent_metal", "flood_damage"} # {} THEN "critical"
        ELSE IF b >= 20 THEN "major" ELSE IF b >= 8 THEN "moderate" ELSE "minor"
  BY <1>1 DEF ClassifySeverity
<1>5. ClassifySeverity(few, a) =
        IF a >= 40 \/ few \intersect {"bent_metal", "flood_damage"} # {} THEN "critical"
        ELSE IF a >= 20 THEN "major" ELSE IF a >= 8 THEN "moderate" ELSE "minor"
  BY <1>2 DEF ClassifySeverity
<1>6. CASE b >= 40 \/ many \intersect {"bent_metal", "flood_damage"} # {}
  <2>1. ClassifySeverity(many, b) = "critical"
    BY <1>4, <1>6
  <2>2. ClassifySeverity(few, a) \in {"minor", "moderate", "major", "critical"}
    BY <1>5
  <2> QED BY <1>3, <2>1, <2>2
<1>7. CASE ~(b >= 40 \/ many \intersect {"bent_metal", "flood_damage"} # {})
  <2>1. ~(a >= 40 \/ few \intersect {"bent_metal", "flood_damage"} # {})
    BY <1>7
  <2>2. /\ ClassifySeverity(many, b) =
             IF b >= 20 THEN "major" ELSE IF b >= 8 THEN "moderate" ELSE "minor"
        /\ ClassifySeverity(few, a) =
             IF a >= 20 THEN "major" ELSE IF a >= 8 THEN "moderate" ELSE "minor"
    BY <1>4, <1>5, <1>7, <2>1
  <2> QED BY <1>3, <2>2
<1> QED BY <1>6, <1>7

\* What is settled.
LEMMA SettledBills ==
  ASSUME NEW b, IsBill(b), NEW sev
  PROVE  /\ sev = "total_loss" =>
              GrandTotal(Settled(b, sev)) \in Nat
              /\ GrandTotal(Settled(b, sev)) >= 118 * WriteOff
         /\ sev # "total_loss" =>
              GrandTotal(Settled(b, sev)) = (b.parts + b.labour + b.paint) * 118
<1>1. CASE sev = "total_loss"
  <2> DEFINE sum == Max({b.parts, WriteOff})
  <2>1. \E x \in {b.parts, WriteOff} : \A y \in {b.parts, WriteOff} : x >= y
    BY DEF IsBill, WriteOff
  <2>2. sum \in Nat /\ sum >= WriteOff
    BY <2>1 DEF IsBill, WriteOff, Max
  <2>3. Settled(b, sev) = [b EXCEPT !.parts = sum, !.labour = 0, !.paint = 0, !.lines = sum]
    BY <1>1 DEF Settled
  <2> HIDE DEF sum
  <2>4. /\ Settled(b, sev).parts = sum
        /\ Settled(b, sev).labour = 0 /\ Settled(b, sev).paint = 0
    BY <2>3 DEF IsBill, Bill
  <2>5. GrandTotal(Settled(b, sev)) = sum * 118
    BY <2>2, <2>4 DEF GrandTotal, Subtotal
  <2> QED BY <1>1, <2>2, <2>5 DEF WriteOff
<1>2. CASE sev # "total_loss"
  BY <1>2 DEF Settled, GrandTotal, Subtotal
<1> QED BY <1>1, <1>2

\* One sequence more, put together after the others.
LEMMA FlattenExtends ==
  ASSUME NEW D, NEW seqs \in Seq(Seq(D)), NEW s \in Seq(D)
  PROVE  FlattenSeq(Append(seqs, s)) = FlattenSeq(seqs) \o s
<1> DEFINE N    == Len(seqs)
           more == Append(seqs, s)
<1>1. /\ N \in Nat /\ more \in Seq(Seq(D)) /\ Len(more) = N + 1
      /\ more[N + 1] = s /\ \A i \in 1..N : more[i] = seqs[i]
  OBVIOUS
<1> HIDE DEF more
<1>2. PICK h : IsFlat(h, more) /\ FlattenSeq(more) = h[N + 1]
  <2>1. Len(more) # 0
    BY <1>1
  <2> QED BY <1>1, <2>1, FlatExists
<1>3. /\ h[1] = more[1]
      /\ \A i \in 2..(N + 1) : h[i] = h[i - 1] \o more[i]
  <2>1. h = [i \in 1..(N + 1) |-> IF i = 1 THEN more[i] ELSE h[i - 1] \o more[i]]
    BY <1>1, <1>2 DEF IsFlat
  <2> HIDE DEF N
  <2>2. 1 \in 1..(N + 1) /\ \A i \in 2..(N + 1) : i \in 1..(N + 1) /\ i # 1
    BY <1>1
  <2> QED BY <2>1, <2>2
<1>4. CASE N = 0
  <2>1. FlattenSeq(seqs) = seqs /\ seqs = <<>>
    BY <1>4 DEF FlattenSeq
  <2>2. h[N + 1] = s
    BY <1>1, <1>3, <1>4
  <2> QED BY <1>2, <2>1, <2>2 DEF more
<1>5. CASE N # 0
  <2>1. PICK g : IsFlat(g, seqs) /\ FlattenSeq(seqs) = g[N]
    BY <1>5, FlatExists
  <2>2. g[1] = seqs[1] /\ \A i \in 2..N : g[i] = g[i - 1] \o seqs[i]
    <3>1. g = [i \in 1..N |-> IF i = 1 THEN seqs[i] ELSE g[i - 1] \o seqs[i]]
      BY <2>1 DEF IsFlat
    <3> HIDE DEF N
    <3>2. 1 \in 1..N /\ \A i \in 2..N : i \in 1..N /\ i # 1
      BY <1>1, <1>5
    <3> QED BY <3>1, <3>2
  <2> DEFINE Bad == {i \in 1..N : h[i] # g[i]}
  <2> HIDE DEF N
  <2>3. ASSUME Bad # {} PROVE FALSE
    <3>1. Bad \subseteq Nat
      BY <1>1
    <3>2. PICK i \in Bad : \A x \in Bad : ~(x < i)
      BY <2>3, <3>1, LeastNumber
    <3>3. CASE i = 1
      BY <1>1, <1>3, <2>2, <3>2, <3>3
    <3>4. CASE i # 1
      <4>1. i - 1 \in 1..N /\ i \in 2..N /\ i \in 2..(N + 1) /\ i \in 1..N /\ i - 1 < i
        BY <1>1, <3>4
      <4>2. h[i - 1] = g[i - 1]
        BY <3>2, <4>1
      <4>3. h[i] = h[i - 1] \o more[i] /\ g[i] = g[i - 1] \o seqs[i] /\ more[i] = seqs[i]
        BY <1>1, <1>3, <2>2, <4>1
      <4> QED BY <3>2, <4>2, <4>3
    <3> QED BY <3>3, <3>4
  <2>4. N \in 1..N /\ N + 1 \in 2..(N + 1) /\ (N + 1) - 1 = N
    BY <1>1, <1>5
  <2>5. h[N] = g[N]
    BY <2>3, <2>4
  <2>6. h[N + 1] = h[N] \o s
    BY <1>1, <1>3, <2>4
  <2> QED BY <1>2, <2>1, <2>5, <2>6 DEF more
<1> QED BY <1>4, <1>5

LEMMA AppendedLast ==
  ASSUME NEW D, NEW s \in Seq(D), NEW x \in D
  PROVE  Append(s, x) = [i \in 1..(Len(s) + 1) |-> IF i <= Len(s) THEN s[i] ELSE x]
<1>1. PICK t \in Seq(D) :
        /\ t = Append(s, x) /\ Len(t) = Len(s) + 1
        /\ t[Len(s) + 1] = x /\ \A i \in 1..Len(s) : t[i] = s[i]
  BY AppendProperties
<1>2. t = [i \in 1..Len(t) |-> t[i]]
  BY SeqDef
<1>3. \A i \in 1..(Len(s) + 1) : t[i] = IF i <= Len(s) THEN s[i] ELSE x
  <2> TAKE i \in 1..(Len(s) + 1)
  <2>1. Len(s) \in Nat
    OBVIOUS
  <2>2. i = Len(s) + 1 \/ i \in 1..Len(s)
    BY <2>1
  <2> QED BY <1>1, <2>1, <2>2
<1> QED BY <1>1, <1>2, <1>3

\* One photo more: its damages come after the others, and the area of the claim is
\* no smaller.
LEMMA PhotoAdded ==
  ASSUME NEW ps \in Seq(Photos), NEW p \in Photos
  PROVE  /\ AllDamages(ps) \in Seq(Damage)
         /\ Extends(AllDamages(Append(ps, p)), AllDamages(ps))
         /\ ps # <<>> => ClaimArea(ps) <= ClaimArea(Append(ps, p))
<1> DEFINE seqs == [i \in DOMAIN ps |-> Damages(ps[i])]
           more == Append(ps, p)
<1>1. /\ DOMAIN ps = 1..Len(ps) /\ Len(ps) \in Nat /\ \A i \in 1..Len(ps) : ps[i] \in Photos
      /\ more \in Seq(Photos) /\ DOMAIN more = 1..(Len(ps) + 1) /\ more[Len(ps) + 1] = p
      /\ \A i \in 1..Len(ps) : more[i] = ps[i]
  OBVIOUS
<1>2. seqs \in Seq(Seq(Damage)) /\ Damages(p) \in Seq(Damage)
  <2>1. \A i \in 1..Len(ps) : Damages(ps[i]) \in Seq(Damage)
    BY <1>1, DetectorReports
  <2> QED BY <1>1, <2>1, DetectorReports
<1> HIDE DEF more
<1>3. [i \in DOMAIN more |-> Damages(more[i])] = Append(seqs, Damages(p))
  <2>1. DOMAIN seqs = 1..Len(ps) /\ Len(seqs) = Len(ps)
        /\ \A i \in 1..Len(ps) : seqs[i] = Damages(ps[i])
    BY <1>1
  <2>2. PICK q : q = Damages(p)
    OBVIOUS
  <2> HIDE DEF seqs
  <2>3. Append(seqs, q)
          = [i \in 1..(Len(ps) + 1) |-> IF i <= Len(ps) THEN seqs[i] ELSE q]
    BY <1>2, <2>1, <2>2, AppendedLast
  <2>4. \A i \in 1..(Len(ps) + 1) :
          Damages(more[i]) = IF i <= Len(ps) THEN seqs[i] ELSE q
    <3> TAKE i \in 1..(Len(ps) + 1)
    <3>1. CASE i = Len(ps) + 1
      BY <1>1, <2>2, <3>1
    <3>2. CASE i # Len(ps) + 1
      <4>1. i \in 1..Len(ps) /\ i <= Len(ps)
        BY <1>1, <3>2
      <4> QED BY <1>1, <2>1, <4>1
    <3> QED BY <3>1, <3>2
  <2> QED BY <1>1, <2>2, <2>3, <2>4
<1>4. AllDamages(ps) = FlattenSeq(seqs)
  BY DEF AllDamages
<1>5. AllDamages(more) = AllDamages(ps) \o Damages(p)
  BY <1>2, <1>3, <1>4, FlattenExtends DEF AllDamages
<1>6. AllDamages(ps) \in Seq(Damage)
  BY <1>2, <1>4, Flattened
<1>7. Extends(AllDamages(more), AllDamages(ps))
  <2>1. PICK a, b : a = AllDamages(ps) /\ b = Damages(p)
    OBVIOUS
  <2>2. a \in Seq(Damage) /\ b \in Seq(Damage) /\ AllDamages(more) = a \o b
    BY <1>2, <1>5, <1>6, <2>1
  <2>3. Len(a) <= Len(a \o b) /\ \A i \in 1..Len(a) : (a \o b)[i] = a[i]
    BY <2>2
  <2> QED BY <2>1, <2>2, <2>3 DEF Extends
<1>8. ASSUME ps # <<>> PROVE ClaimArea(ps) <= ClaimArea(more)
  <2> DEFINE few  == {PhotoArea(ps[i]) : i \in DOMAIN ps}
             many == {PhotoArea(more[i]) : i \in DOMAIN more}
  <2>1. few # {} /\ few \subseteq Nat /\ \A x \in few : x <= 100
    BY <1>1, <1>8, AreaType
  <2>2. \A i \in DOMAIN more : more[i] \in Photos
    BY <1>1
  <2>3. many \subseteq Nat /\ \A x \in many : x <= 100
    BY <2>2, AreaType
  <2>4. few \subseteq many
    BY <1>1
  <2>5. ClaimArea(ps) = Max(few) /\ ClaimArea(more) = Max(many)
    BY DEF ClaimArea
  <2> HIDE DEF few, many
  <2>6. Max(few) \in few
    BY <2>1, Largest
  <2>7. many # {}
    BY <2>4, <2>6
  <2>8. \A x \in many : x <= Max(many)
    BY <2>3, <2>7, Largest
  <2> QED BY <2>4, <2>5, <2>6, <2>8
<1> QED BY <1>6, <1>7, <1>8 DEF more

LEMMA AreaIsNumber ==
  ASSUME NEW ps \in Seq(Photos), ps # <<>>
  PROVE  ClaimArea(ps) \in Nat
<1> DEFINE areas == {PhotoArea(ps[i]) : i \in DOMAIN ps}
<1>1. /\ DOMAIN ps = 1..Len(ps) /\ Len(ps) \in Nat /\ Len(ps) # 0
      /\ \A i \in DOMAIN ps : ps[i] \in Photos
  OBVIOUS
<1>2. areas # {} /\ areas \subseteq Nat /\ \A x \in areas : x <= 100
  <2>1. 1 \in DOMAIN ps
    BY <1>1
  <2> QED BY <1>1, <2>1, AreaType
<1>3. ClaimArea(ps) = Max(areas)
  BY DEF ClaimArea
<1> HIDE DEF areas
<1> QED BY <1>2, <1>3, Largest

LEMMA AreaInAnyOrder ==
  ASSUME photos \in Seq(Photos), photos # <<>>, NEW order \in Orders
  PROVE  /\ ClaimArea([i \in DOMAIN photos |-> photos[order[i]]]) = ClaimArea(photos)
         /\ ClaimArea(photos) \in Nat
<1> DEFINE read == [i \in DOMAIN photos |-> photos[order[i]]]
           few  == {PhotoArea(photos[i]) : i \in DOMAIN photos}
           same == {PhotoArea(read[i]) : i \in DOMAIN read}
<1>1. /\ order \in [DOMAIN photos -> DOMAIN photos]
      /\ \A i \in DOMAIN photos : \E j \in DOMAIN photos : order[j] = i
  BY DEF Orders
<1>2. same = few
  BY <1>1
<1>3. few # {} /\ few \subseteq Nat /\ \A x \in few : x <= 100
  <2>1. \A i \in DOMAIN photos : photos[i] \in Photos
    OBVIOUS
  <2>2. 1 \in DOMAIN photos
    <3>1. Len(photos) \in Nat /\ Len(photos) # 0 /\ DOMAIN photos = 1..Len(photos)
      OBVIOUS
    <3> QED BY <3>1
  <2> QED BY <2>1, <2>2, AreaType
<1>4. ClaimArea(read) = Max(same) /\ ClaimArea(photos) = Max(few)
  BY DEF ClaimArea
<1> HIDE DEF few, same, read
<1>5. Max(few) \in few
  BY <1>3, Largest
<1> QED BY <1>2, <1>3, <1>4, <1>5 DEF read

\* The latest analysis in upload order priced the first damages there are now, at
\* a severity of some of them and of an area there was.
LatestInv ==
  latest # 0 =>
    \E ds, area, g :
      LET sev == ClassifySeverity(Types(ds), area) IN
        /\ ds \in Seq(Damage) /\ area \in Nat
        /\ photos # <<>> /\ area <= ClaimArea(photos)
        /\ Extends(AllDamages(photos), ds)
        /\ IsRun(g, ds, Multiplier[sev], Len(ds))
        /\ latest = GrandTotal(Settled(g[Len(ds)], sev))

\* The loop under way has priced its rows so far, at the severity of them all.
PricingInv ==
  phase = "pricing" =>
    /\ photos # <<>>
    /\ severity = ClassifySeverity(Types(rows), ClaimArea(photos))
    /\ \E g : IsRun(g, rows, Multiplier[severity], at) /\ g[at] = bill

GrowthInv == LatestInv /\ PricingInv

LEMMA LatestIsNumber ==
  ASSUME LatestInv
  PROVE  latest = 0 \/ latest \in Nat
<1> SUFFICES ASSUME latest # 0 PROVE latest \in Nat
  OBVIOUS
<1>1. PICK ds, area, g :
        LET sev == ClassifySeverity(Types(ds), area) IN
          /\ ds \in Seq(Damage) /\ area \in Nat
          /\ IsRun(g, ds, Multiplier[sev], Len(ds))
          /\ latest = GrandTotal(Settled(g[Len(ds)], sev))
  BY DEF LatestInv
<1>2. PICK sev : sev = ClassifySeverity(Types(ds), area)
  OBVIOUS
<1>3. PICK k \in Nat : k = Len(ds)
  BY <1>1
<1>4. sev \in DOMAIN Multiplier
  BY <1>2 DEF ClassifySeverity, Multiplier
<1>5. PICK b : b = g[k] /\ IsBill(b)
  <2>1. IsRun(g, ds, Multiplier[sev], k) /\ Multiplier[sev] \in Nat
    BY <1>1, <1>2, <1>3, <1>4, BookHours
  <2>2. k \in 0..k
    OBVIOUS
  <2>3. IsBill(g[k])
    BY <2>1, <2>2, RunIsBilled
  <2> QED BY <2>3
<1>6. (b.parts + b.labour + b.paint) * 118 \in Nat
  <2>1. PICK x \in Nat, y \in Nat, z \in Nat :
          b.parts = x /\ b.labour = y /\ b.paint = z
    BY <1>5 DEF IsBill
  <2>2. (x + y + z) * 118 \in Nat
    OBVIOUS
  <2> QED BY <2>1, <2>2
<1>7. latest = GrandTotal(Settled(b, sev))
  BY <1>1, <1>2, <1>3, <1>5
<1> QED BY <1>5, <1>6, <1>7, SettledBills

LEMMA GrowthPhoto ==
  ASSUME photos \in Seq(Photos), GrowthInv, NEW p \in Photos, AddPhoto(p)
  PROVE  GrowthInv'
<1>1. photos' = Append(photos, p) /\ latest' = latest /\ phase' = "open"
  BY DEF AddPhoto
<1>2. ASSUME latest # 0 PROVE LatestInv'
  <2>1. PICK ds, area, g :
          LET sev == ClassifySeverity(Types(ds), area) IN
            /\ ds \in Seq(Damage) /\ area \in Nat
            /\ photos # <<>> /\ area <= ClaimArea(photos)
            /\ Extends(AllDamages(photos), ds)
            /\ IsRun(g, ds, Multiplier[sev], Len(ds))
            /\ latest = GrandTotal(Settled(g[Len(ds)], sev))
    BY <1>2 DEF GrowthInv, LatestInv
  <2>2. PICK long, short : long = AllDamages(Append(photos, p)) /\ short = AllDamages(photos)
    OBVIOUS
  <2>3. /\ Extends(long, short) /\ Extends(short, ds)
        /\ Len(ds) \in Nat /\ short \in Seq(Damage) /\ long \in Seq(Damage)
    <3>1. Append(photos, p) \in Seq(Photos)
      OBVIOUS
    <3>2. long \in Seq(Damage) /\ short \in Seq(Damage) /\ Extends(long, short)
      BY <2>2, <3>1, PhotoAdded
    <3> QED BY <2>1, <2>2, <3>2
  <2>4. Extends(AllDamages(photos'), ds)
    <3>1. Len(long) \in Nat /\ Len(short) \in Nat
      BY <2>3
    <3> QED BY <1>1, <2>2, <2>3, <3>1 DEF Extends
  <2>5. photos' # <<>> /\ area <= ClaimArea(photos')
    <3>1. ClaimArea(photos) <= ClaimArea(photos') /\ photos' # <<>>
      BY <1>1, <2>1, PhotoAdded
    <3>2. ClaimArea(photos) \in Nat /\ ClaimArea(photos') \in Nat
      <4>1. photos' \in Seq(Photos)
        BY <1>1
      <4> QED BY <2>1, <3>1, <4>1, AreaIsNumber
    <3> QED BY <2>1, <3>1, <3>2
  <2> QED BY <1>1, <2>1, <2>4, <2>5 DEF LatestInv
<1>3. PricingInv'
  BY <1>1 DEF PricingInv
<1>4. latest = 0 => LatestInv'
  BY <1>1 DEF LatestInv
<1> QED BY <1>2, <1>3, <1>4 DEF GrowthInv

LEMMA GrowthStart ==
  ASSUME photos \in Seq(Photos), GrowthInv, NEW order \in Orders, StartEstimate(order)
  PROVE  GrowthInv'
<1> DEFINE read == [i \in DOMAIN photos |-> photos[order[i]]]
<1>1. /\ photos' = photos /\ photos # <<>> /\ latest' = latest /\ at' = 0
      /\ bill' = EmptyBill
      /\ rows' = AllDamages(read)
      /\ severity' = ClassifySeverity(Types(AllDamages(read)), ClaimArea(read))
  BY DEF StartEstimate
<1>2. ClaimArea(read) = ClaimArea(photos)
  BY <1>1, AreaInAnyOrder
<1> HIDE DEF read
<1>3. severity' = ClassifySeverity(Types(rows'), ClaimArea(photos'))
  BY <1>1, <1>2
<1>4. \E g : IsRun(g, rows', Multiplier[severity'], at') /\ g[at'] = bill'
  <2> DEFINE g == [i \in {0} |-> EmptyBill]
  <2>1. g[0] = EmptyBill
    OBVIOUS
  <2> HIDE DEF g
  <2>2. IsRun(g, rows', Multiplier[severity'], at') /\ g[at'] = bill'
    BY <1>1, <2>1 DEF IsRun
  <2> QED BY <2>2
<1>5. PricingInv'
  BY <1>1, <1>3, <1>4 DEF PricingInv
<1>6. LatestInv'
  BY <1>1 DEF GrowthInv, LatestInv
<1> QED BY <1>5, <1>6 DEF GrowthInv

LEMMA GrowthTurn ==
  ASSUME at \in Nat, GrowthInv, PriceDamage
  PROVE  GrowthInv'
<1>1. /\ phase = "pricing" /\ at' = at + 1 /\ latest' = latest /\ photos' = photos
      /\ rows' = rows /\ severity' = severity
      /\ bill' = Priced(bill, rows[at + 1], Multiplier[severity])
  BY DEF PriceDamage
<1>2. PICK mult : mult = Multiplier[severity]
  OBVIOUS
<1>3. PICK g : IsRun(g, rows, mult, at) /\ g[at] = bill
  BY <1>1, <1>2 DEF GrowthInv, PricingInv
<1> DEFINE h == [i \in 0..(at + 1) |-> IF i <= at THEN g[i] ELSE bill']
<1>4. /\ h[at + 1] = bill'
      /\ \A i \in 0..at : h[i] = g[i]
  OBVIOUS
<1> HIDE DEF h
<1>5. IsRun(h, rows, mult, at + 1)
  <2>1. h[0] = EmptyBill
    BY <1>3, <1>4 DEF IsRun
  <2>2. ASSUME NEW i \in 1..(at + 1)
        PROVE  h[i] = Priced(h[i - 1], rows[i], mult)
    <3>1. i - 1 \in 0..at /\ h[i - 1] = g[i - 1]
      BY <1>4
    <3>2. CASE i = at + 1
      BY <1>1, <1>2, <1>3, <1>4, <3>1, <3>2
    <3>3. CASE i # at + 1
      <4>1. i \in 1..at /\ i \in 0..at
        BY <3>3
      <4> QED BY <1>3, <1>4, <3>1, <4>1 DEF IsRun
    <3> QED BY <3>2, <3>3
  <2> QED BY <2>1, <2>2 DEF IsRun
<1>6. PricingInv'
  BY <1>1, <1>2, <1>4, <1>5 DEF GrowthInv, PricingInv
<1>7. LatestInv'
  BY <1>1 DEF GrowthInv, LatestInv
<1> QED BY <1>6, <1>7 DEF GrowthInv

LEMMA GrowthEnd ==
  ASSUME photos \in Seq(Photos), rows \in Seq(Damage), GrowthInv, FinishEstimate
  PROVE  GrowthInv'
<1>1. /\ phase = "pricing" /\ phase' # "pricing" /\ at = Len(rows) /\ photos' = photos
      /\ latest' = IF Ordered THEN GrandTotal(Settled(bill, severity)) ELSE latest
  BY DEF FinishEstimate
<1>2. PricingInv'
  BY <1>1 DEF PricingInv
<1>3. CASE Ordered
  <2>1. PICK g : IsRun(g, rows, Multiplier[severity], at) /\ g[at] = bill
    BY <1>1 DEF GrowthInv, PricingInv
  <2>2. photos # <<>> /\ severity = ClassifySeverity(Types(rows), ClaimArea(photos))
    BY <1>1 DEF GrowthInv, PricingInv
  <2>3. PICK area : area = ClaimArea(photos) /\ area \in Nat
    BY <2>2, AreaIsNumber
  <2>4. Extends(AllDamages(photos), rows)
    BY <1>3 DEF Ordered, Extends
  <2>5. LET sev == ClassifySeverity(Types(rows), area) IN
          /\ rows \in Seq(Damage) /\ area \in Nat
          /\ photos' # <<>> /\ area <= ClaimArea(photos')
          /\ Extends(AllDamages(photos'), rows)
          /\ IsRun(g, rows, Multiplier[sev], Len(rows))
          /\ latest' = GrandTotal(Settled(g[Len(rows)], sev))
    BY <1>1, <1>3, <2>1, <2>2, <2>3, <2>4
  <2>6. LatestInv'
    BY <2>5 DEF LatestInv
  <2> QED BY <1>2, <2>6 DEF GrowthInv
<1>4. CASE ~Ordered
  BY <1>1, <1>2, <1>4 DEF GrowthInv, LatestInv
<1> QED BY <1>3, <1>4

LEMMA GrowthStep == LoopInv /\ GrowthInv /\ [CostNext]_costVars => GrowthInv'
<1> SUFFICES ASSUME LoopInv, GrowthInv, [CostNext]_costVars PROVE GrowthInv'
  OBVIOUS
<1>1. photos \in Seq(Photos) /\ rows \in Seq(Damage) /\ at \in Nat
  BY DEF LoopInv
<1>2. CASE UNCHANGED costVars
  BY <1>2 DEF costVars, GrowthInv, LatestInv, PricingInv
<1> QED
  BY <1>1, <1>2, GrowthPhoto, GrowthStart, GrowthTurn, GrowthEnd DEF CostNext

\* An analysis in upload order comes to no less than the latest before it, but as
\* a write-off.
LEMMA EndIsNoLess ==
  ASSUME photos \in Seq(Photos), rows \in Seq(Damage), severity \in DOMAIN Multiplier,
         GrowthInv, FinishEstimate, latest' < latest
  PROVE  severity = "total_loss" /\ latest' >= 118 * WriteOff
<1>1. /\ phase = "pricing" /\ at = Len(rows) /\ photos' = photos
      /\ latest' = IF Ordered THEN GrandTotal(Settled(bill, severity)) ELSE latest
  BY DEF FinishEstimate
<1>2. PICK area : area = ClaimArea(photos) /\ area \in Nat
  BY <1>1, AreaIsNumber DEF GrowthInv, PricingInv
<1>3. severity = ClassifySeverity(Types(rows), area)
  BY <1>1, <1>2 DEF GrowthInv, PricingInv
<1>4. PICK n \in Nat : n = Multiplier[severity]
  BY BookHours
<1>5. PICK h : IsRun(h, rows, n, Len(rows)) /\ h[Len(rows)] = bill
  BY <1>1, <1>4 DEF GrowthInv, PricingInv
<1>6. PICK total : total = Len(rows) /\ total \in Nat
  OBVIOUS
<1>7. IsBill(bill)
  <2>1. total \in 0..total
    BY <1>6
  <2>2. IsBill(h[total])
    BY <1>5, <1>6, <2>1, RunIsBilled
  <2> QED BY <1>5, <1>6, <2>2
<1>8. bill.parts \in Nat /\ bill.labour \in Nat /\ bill.paint \in Nat
  BY <1>7 DEF IsBill
<1>9. GrandTotal(Settled(bill, severity)) \in Nat
  BY <1>7, <1>8, SettledBills
<1>10. CASE Ordered /\ severity = "total_loss"
  BY <1>1, <1>7, <1>10, SettledBills
<1>11. CASE ~Ordered \/ latest = 0
  <2>1. CASE ~Ordered
    <3>1. latest' = latest
      BY <1>1, <2>1
    <3>2. latest = 0 \/ latest \in Nat
      BY LatestIsNumber DEF GrowthInv
    <3> QED BY <3>1, <3>2
  <2>2. CASE latest = 0
    BY <1>1, <1>9, <2>2
  <2> QED BY <1>11, <2>1, <2>2
<1>12. CASE Ordered /\ latest # 0 /\ severity # "total_loss"
  <2>1. PICK ds, less, g :
          LET sev == ClassifySeverity(Types(ds), less) IN
            /\ ds \in Seq(Damage) /\ less \in Nat
            /\ photos # <<>> /\ less <= ClaimArea(photos)
            /\ Extends(AllDamages(photos), ds)
            /\ IsRun(g, ds, Multiplier[sev], Len(ds))
            /\ latest = GrandTotal(Settled(g[Len(ds)], sev))
    BY <1>12 DEF GrowthInv, LatestInv
  <2>2. PICK sev : sev = ClassifySeverity(Types(ds), less)
    OBVIOUS
  <2>3. PICK k \in Nat : k = Len(ds)
    OBVIOUS
  <2>4. k <= total /\ \A i \in 1..k : ds[i] = rows[i]
    BY <1>6, <1>12, <2>1, <2>3 DEF Ordered, Extends
  <2>5. Types(ds) \subseteq Types(rows)
    <3>1. DOMAIN ds = 1..k /\ DOMAIN rows = 1..total /\ \A i \in 1..k : i \in 1..total
      BY <1>6, <2>3, <2>4
    <3> QED BY <2>4, <3>1 DEF Types
  <2>6. sev # "total_loss" /\ Multiplier[sev] <= n
    BY <1>2, <1>3, <1>4, <1>12, <2>1, <2>2, <2>5, SeverityGrows
  <2>7. PICK m \in Nat : m = Multiplier[sev]
    <3>1. sev \in DOMAIN Multiplier
      BY <2>2 DEF ClassifySeverity, Multiplier
    <3> QED BY <3>1, BookHours
  <2>8. IsRun(g, ds, m, k) /\ IsRun(h, rows, n, total) /\ IsRun(h, rows, n, k)
    BY <1>5, <1>6, <2>1, <2>2, <2>3, <2>4, <2>7 DEF IsRun
  <2>9. NoMore(g[k], h[k]) /\ IsBill(g[k]) /\ IsBill(h[k])
    <3>1. k \in 0..k /\ m <= n
      BY <2>6, <2>7
    <3> QED BY <2>4, <2>8, <3>1, RunsCompare, RunIsBilled
  <2>10. /\ h[k].parts <= bill.parts /\ h[k].labour <= bill.labour
         /\ h[k].paint <= bill.paint
    <3>1. k \in 0..total
      BY <1>6, <2>4
    <3> QED BY <1>5, <1>6, <2>8, <3>1, RunGrows
  <2>11. PICK b, c : b = g[k] /\ c = h[k]
    OBVIOUS
  <2>12. b.parts + b.labour + b.paint <= bill.parts + bill.labour + bill.paint
         /\ b.parts + b.labour + b.paint \in Nat
    <3>1. /\ b.parts \in Nat /\ b.labour \in Nat /\ b.paint \in Nat
          /\ c.parts \in Nat /\ c.labour \in Nat /\ c.paint \in Nat
      BY <2>9, <2>11 DEF IsBill
    <3>2. b.parts <= c.parts /\ b.labour <= c.labour /\ b.paint <= c.paint
      BY <2>9, <2>11 DEF NoMore
    <3>3. c.parts <= bill.parts /\ c.labour <= bill.labour /\ c.paint <= bill.paint
      BY <2>10, <2>11
    <3>4. PICK x1 \in Nat, x2 \in Nat, x3 \in Nat :
            b.parts = x1 /\ b.labour = x2 /\ b.paint = x3
      BY <3>1
    <3>5. PICK y1 \in Nat, y2 \in Nat, y3 \in Nat :
            bill.parts = y1 /\ bill.labour = y2 /\ bill.paint = y3
      BY <1>8
    <3>6. x1 <= y1 /\ x2 <= y2 /\ x3 <= y3
      BY <3>1, <3>2, <3>3, <3>4, <3>5
    <3>7. x1 + x2 + x3 <= y1 + y2 + y3 /\ x1 + x2 + x3 \in Nat
      BY <3>6
    <3> QED BY <3>4, <3>5, <3>7
  <2>13. latest = (b.parts + b.labour + b.paint) * 118
    BY <2>1, <2>2, <2>3, <2>6, <2>9, <2>11, SettledBills
  <2>14. latest' = (bill.parts + bill.labour + bill.paint) * 118
    BY <1>1, <1>7, <1>12, SettledBills
  <2> QED BY <1>8, <2>12, <2>13, <2>14
<1> QED BY <1>10, <1>11, <1>12

\* With any number of photos, one that is added and read after the others makes a
\* claim cheaper only where it turns the repair into a write-off, and then not below
\* the flat sum of one (estimate, classify_severity).
THEOREM CheaperOnlyWrittenOff == CostSpec => DropsOnlyToWriteOff
<1>1. CostInit => GrowthInv
  BY DEF CostInit, GrowthInv, LatestInv, PricingInv
<1>2. CostInv /\ LoopInv /\ GrowthInv /\ [CostNext]_costVars
        => [latest' < latest => severity = "total_loss" /\ latest' >= 118 * WriteOff]_costVars
  <2> SUFFICES ASSUME CostInv, LoopInv, GrowthInv, CostNext, latest' < latest
               PROVE  severity = "total_loss" /\ latest' >= 118 * WriteOff
    OBVIOUS
  <2>1. /\ photos \in Seq(Photos) /\ rows \in Seq(Damage)
        /\ severity \in DOMAIN Multiplier
    BY DEF LoopInv, CostInv
  <2>2. CASE FinishEstimate
    BY <2>1, <2>2, EndIsNoLess
  <2>3. CASE latest' = latest
    <3>1. latest = 0 \/ latest \in Nat
      BY LatestIsNumber DEF GrowthInv
    <3> QED BY <2>3, <3>1
  <2> QED BY <2>2, <2>3 DEF CostNext, AddPhoto, StartEstimate, PriceDamage
<1> QED BY <1>1, <1>2, GrowthStep, LoopInvariant, PTL DEF CostSpec, DropsOnlyToWriteOff

-----------------------------------------------------------------------------
\* The fraud score.

LEMMA FiveAreFinite ==
  ASSUME NEW a, NEW b, NEW c, NEW d, NEW e
  PROVE  IsFiniteSet({a, b, c, d, e})
<1>1. IsFiniteSet({a}) /\ IsFiniteSet({b}) /\ IsFiniteSet({c})
      /\ IsFiniteSet({d}) /\ IsFiniteSet({e})
  BY FS_Singleton
<1>2. IsFiniteSet({a} \union {b}) /\ IsFiniteSet({c} \union {d})
  BY <1>1, FS_Union
<1>3. IsFiniteSet(({a} \union {b}) \union ({c} \union {d}))
  BY <1>2, FS_Union
<1>4. IsFiniteSet((({a} \union {b}) \union ({c} \union {d})) \union {e})
  BY <1>1, <1>3, FS_Union
<1>5. (({a} \union {b}) \union ({c} \union {d})) \union {e} = {a, b, c, d, e}
  OBVIOUS
<1> QED BY <1>4, <1>5

Kinds == DOMAIN Weight

\* A group of signals: how many there are of each kind.
IsGroup(g) ==
  IsFiniteSet(DOMAIN g) /\ DOMAIN g \subseteq Kinds /\ \A k \in DOMAIN g : g[k] \in Nat

LEMMA GroupType ==
  ASSUME NEW g, DOMAIN g \subseteq Kinds, \A k \in DOMAIN g : g[k] \in Nat
  PROVE  IsGroup(g)
<1> DEFINE A == {"duplicate_image", "hash_match", "similar_image", "stripped_exif", "editor"}
           B == {"redated", "old_photo", "many_claims", "same_vehicle", "no_vehicle"}
           C == {"other_vehicle", "inactive_policy", "out_of_cover", "odd_vin", "odd_vin"}
           D == {"null_island", "compressed", "large_png", "one_angle", "one_angle"}
<1>1. IsFiniteSet(A) /\ IsFiniteSet(B) /\ IsFiniteSet(C) /\ IsFiniteSet(D)
  BY FiveAreFinite
<1>2. Kinds \subseteq (A \union B) \union (C \union D)
  BY DEF Kinds, Weight
<1>3. IsFiniteSet((A \union B) \union (C \union D))
  <2> HIDE DEF A, B, C, D
  <2>1. IsFiniteSet(A \union B) /\ IsFiniteSet(C \union D)
    BY <1>1, FS_Union
  <2> QED BY <2>1, FS_Union
<1> HIDE DEF A, B, C, D
<1> QED BY <1>2, <1>3, FS_Subset DEF IsGroup

LEMMA Weights == \A k \in Kinds : Weight[k] \in Nat /\ Weight[k] <= 40
  BY DEF Kinds, Weight, StrippedWeight

Weighted(g) == [k \in DOMAIN g |-> Weight[k] * g[k]]

LEMMA WeighIsSum ==
  ASSUME NEW g, IsGroup(g)
  PROVE  /\ Weigh(g) = SumFunctionOnSet(Weighted(g), DOMAIN g)
         /\ \A k \in DOMAIN g : Weighted(g)[k] = Weight[k] * g[k] /\ Weighted(g)[k] \in Nat
<1>1. Weigh(g) = SumFunctionOnSet(Weighted(g), DOMAIN g)
  BY DEF Weigh, Weighted, SumFunction
<1>2. ASSUME NEW k \in DOMAIN g
      PROVE  Weighted(g)[k] = Weight[k] * g[k] /\ Weighted(g)[k] \in Nat
  <2>1. Weight[k] \in Nat /\ g[k] \in Nat
    BY Weights DEF IsGroup
  <2> QED BY <2>1 DEF Weighted
<1> QED BY <1>1, <1>2

\* A group weighs at most 40 for each signal.
LEMMA GroupBound ==
  ASSUME NEW g, IsGroup(g)
  PROVE  Weigh(g) \in Nat /\ Count(g) \in Nat /\ Weigh(g) <= 40 * Count(g)
<1>1. Count(g) = SumFunctionOnSet(g, DOMAIN g)
  BY DEF Count, SumFunction
<1>2. \A k \in DOMAIN g : g[k] \in Nat /\ Weighted(g)[k] \in Nat
                          /\ Weighted(g)[k] <= 40 * g[k]
  <2> SUFFICES ASSUME NEW k \in DOMAIN g
               PROVE  g[k] \in Nat /\ Weighted(g)[k] \in Nat
                      /\ Weighted(g)[k] <= 40 * g[k]
    OBVIOUS
  <2>1. Weight[k] \in Nat /\ Weight[k] <= 40 /\ g[k] \in Nat
    BY Weights DEF IsGroup
  <2>2. Weight[k] * g[k] <= 40 * g[k]
    BY <2>1
  <2> QED BY <2>1, <2>2, WeighIsSum
<1>3. IsFiniteSet(DOMAIN g)
  BY DEF IsGroup
<1>4. SumFunctionOnSet(Weighted(g), DOMAIN g) <= 40 * SumFunctionOnSet(g, DOMAIN g)
  BY <1>2, <1>3, SumBound
<1> QED BY <1>1, <1>2, <1>3, <1>4, WeighIsSum, SumType

LEMMA GroupOfNone ==
  ASSUME NEW g, IsGroup(g), \A k \in DOMAIN g : g[k] = 0
  PROVE  Weigh(g) = 0
<1>1. \A k \in DOMAIN g : Weighted(g)[k] = 0
  <2> SUFFICES ASSUME NEW k \in DOMAIN g PROVE Weighted(g)[k] = 0
    OBVIOUS
  <2>1. Weight[k] \in Nat /\ g[k] = 0
    BY Weights DEF IsGroup
  <2> QED BY <2>1, WeighIsSum
<1> QED BY <1>1, WeighIsSum, SumZero DEF IsGroup

\* A group that is all of one kind weighs its number times its weight.
LEMMA GroupOfOne ==
  ASSUME NEW g, IsGroup(g), NEW k \in DOMAIN g, \A j \in DOMAIN g : j # k => g[j] = 0
  PROVE  Weigh(g) = Weight[k] * g[k]
<1>1. \A j \in DOMAIN g \ {k} : Weighted(g)[j] = 0
  <2> SUFFICES ASSUME NEW j \in DOMAIN g \ {k} PROVE Weighted(g)[j] = 0
    OBVIOUS
  <2>1. Weight[j] \in Nat /\ g[j] = 0
    BY Weights DEF IsGroup
  <2> QED BY <2>1, WeighIsSum
<1>2. IsFiniteSet(DOMAIN g) /\ IsFiniteSet(DOMAIN g \ {k})
  BY FS_RemoveElement DEF IsGroup
<1>3. SumFunctionOnSet(Weighted(g), DOMAIN g)
        = Weighted(g)[k] + SumFunctionOnSet(Weighted(g), DOMAIN g \ {k})
  BY <1>2, WeighIsSum, SumSplit
<1>4. SumFunctionOnSet(Weighted(g), DOMAIN g \ {k}) = 0
  BY <1>1, <1>2, SumZero
<1> QED BY <1>3, <1>4, WeighIsSum

\* Two kinds of a group.
LEMMA GroupOfTwo ==
  ASSUME NEW g, IsGroup(g), NEW j \in DOMAIN g, NEW k \in DOMAIN g, j # k
  PROVE  Weigh(g) >= Weight[j] * g[j] + Weight[k] * g[k]
<1> DEFINE rest == DOMAIN g \ {j}
<1>1. IsFiniteSet(DOMAIN g) /\ IsFiniteSet(rest) /\ IsFiniteSet(rest \ {k})
  BY FS_RemoveElement DEF IsGroup
<1>2. SumFunctionOnSet(Weighted(g), DOMAIN g) = Weighted(g)[j] + SumFunctionOnSet(Weighted(g), rest)
  BY <1>1, WeighIsSum, SumSplit
<1>3. k \in rest /\ \A x \in rest : Weighted(g)[x] \in Nat
  BY WeighIsSum
<1> HIDE DEF rest
<1>4. SumFunctionOnSet(Weighted(g), rest)
        = Weighted(g)[k] + SumFunctionOnSet(Weighted(g), rest \ {k})
  BY <1>1, <1>3, SumSplit
<1>5. SumFunctionOnSet(Weighted(g), rest \ {k}) \in Nat
  BY <1>1, <1>3, SumType
<1> QED BY <1>2, <1>4, <1>5, WeighIsSum

\* Summands of one or more count at least their number.
LEMMA SumCounts ==
  ASSUME NEW f, NEW S, IsFiniteSet(S), \A x \in S : f[x] \in Nat /\ f[x] >= 1
  PROVE  Cardinality(S) <= SumFunctionOnSet(f, S)
<1> DEFINE Bad == {s \in SUBSET S : ~(Cardinality(s) <= SumFunctionOnSet(f, s))}
<1> SUFFICES ASSUME Bad # {} PROVE FALSE
  OBVIOUS
<1>1. PICK s \in Bad : \A x \in s : s \ {x} \notin Bad
  BY LeastSubset
<1>2. s # {}
  BY <1>1, SumEmpty, FS_EmptySet
<1>3. PICK x \in s : TRUE
  BY <1>2
<1>4. \A t \in SUBSET S : IsFiniteSet(t) /\ SumFunctionOnSet(f, t) \in Nat /\ Cardinality(t) \in Nat
  BY SumType, FS_Subset, FS_CardinalityType
<1>5. s \in SUBSET S /\ s \ {x} \in SUBSET S /\ x \in S
  BY <1>1
<1>6. SumFunctionOnSet(f, s) = f[x] + SumFunctionOnSet(f, s \ {x})
  BY <1>4, <1>5, SumSplit
<1>7. Cardinality(s \ {x}) = Cardinality(s) - 1
  BY <1>4, <1>5, FS_RemoveElement
<1>8. Cardinality(s \ {x}) <= SumFunctionOnSet(f, s \ {x})
  BY <1>1, <1>5
<1>9. Cardinality(s) <= SumFunctionOnSet(f, s)
  BY <1>4, <1>5, <1>6, <1>7, <1>8
<1> QED BY <1>1, <1>9

FraudTyped == evidence \in [Evidence -> Nat]

\* The images that pass a test, as a sum over a set of photos.
LEMMA ManyType ==
  ASSUME FraudTyped, NEW S \in SUBSET Evidence
  PROVE  IsFiniteSet(S) /\ SumFunctionOnSet(evidence, S) \in Nat
<1>1. IsFiniteSet(S)
  BY FraudConstants, FS_Subset
<1> QED BY <1>1, SumType DEF FraudTyped

LEMMA UploadedType == Uploaded \in SUBSET Evidence /\ {e \in Uploaded : TRUE} = Uploaded
  BY DEF Uploaded

LEMMA ImagesAreSum == Images = SumFunctionOnSet(evidence, Uploaded)
  BY UploadedType DEF Images, HowMany

LEMMA ImagesAreSumNext == Images' = SumFunctionOnSet(evidence', Uploaded')
<1>1. {e \in Uploaded' : TRUE} = Uploaded'
  BY DEF Uploaded
<1> QED BY <1>1 DEF Images, HowMany

LEMMA RepeatedType == ASSUME FraudTyped PROVE Repeated \in Nat
<1>1. Cardinality(Uploaded) <= SumFunctionOnSet(evidence, Uploaded)
  BY ManyType, UploadedType, SumCounts DEF Uploaded, FraudTyped
<1>2. Cardinality(Uploaded) \in Nat /\ SumFunctionOnSet(evidence, Uploaded) \in Nat
  BY ManyType, UploadedType, FS_CardinalityType
<1> QED BY <1>1, <1>2, ImagesAreSum DEF Repeated

LEMMA DuplicatesAreGroup ==
  ASSUME FraudTyped
  PROVE  /\ IsGroup(DuplicateSignals)
         /\ DOMAIN DuplicateSignals = {"duplicate_image", "hash_match", "similar_image"}
         /\ DuplicateSignals["hash_match"]
              = SumFunctionOnSet(evidence, {e \in Uploaded : e.sha \in elsewhere})
         /\ DuplicateSignals["similar_image"]
              = SumFunctionOnSet(evidence, {e \in Uploaded : e.phash \in elsewhere})
         /\ DuplicateSignals["duplicate_image"] = Repeated
<1> DEFINE same    == {e \in Uploaded : e.sha \in elsewhere}
           similar == {e \in Uploaded : e.phash \in elsewhere}
<1>1. same \in SUBSET Evidence /\ similar \in SUBSET Evidence
  BY UploadedType
<1>2. DuplicateSignals = [duplicate_image |-> Repeated,
                          hash_match      |-> SumFunctionOnSet(evidence, same),
                          similar_image   |-> SumFunctionOnSet(evidence, similar)]
  BY DEF DuplicateSignals, HowMany
<1> HIDE DEF same, similar
<1>3. /\ SumFunctionOnSet(evidence, same) \in Nat
      /\ SumFunctionOnSet(evidence, similar) \in Nat /\ Repeated \in Nat
  BY <1>1, ManyType, RepeatedType
<1>4. DOMAIN DuplicateSignals = {"duplicate_image", "hash_match", "similar_image"}
  BY <1>2
<1>5. IsGroup(DuplicateSignals)
  <2>1. DOMAIN DuplicateSignals \subseteq Kinds
    BY <1>4 DEF Kinds, Weight
  <2>2. \A k \in DOMAIN DuplicateSignals : DuplicateSignals[k] \in Nat
    BY <1>2, <1>3, <1>4
  <2> QED BY <2>1, <2>2, GroupType
<1>6. /\ DuplicateSignals["hash_match"] = SumFunctionOnSet(evidence, same)
      /\ DuplicateSignals["similar_image"] = SumFunctionOnSet(evidence, similar)
      /\ DuplicateSignals["duplicate_image"] = Repeated
  BY <1>2
<1> QED BY <1>4, <1>5, <1>6 DEF same, similar

LEMMA ExifIsGroup ==
  ASSUME FraudTyped
  PROVE  /\ IsGroup(ExifSignals)
         /\ DOMAIN ExifSignals = {"stripped_exif", "editor", "redated", "old_photo"}
         /\ ExifSignals["stripped_exif"]
             = SumFunctionOnSet(evidence, {e \in Uploaded : e.exif = {}})
         /\ (\A e \in Uploaded : e.exif = {}) =>
              \A k \in DOMAIN ExifSignals \ {"stripped_exif"} : ExifSignals[k] = 0
<1> DEFINE stripped == {e \in Uploaded : e.exif = {}}
           editor   == {e \in Uploaded : "editor" \in e.exif}
           redated  == {e \in Uploaded : "redated" \in e.exif}
           old      == {e \in Uploaded : "old" \in e.exif}
           older    == IF "undated" \in facts THEN 0 ELSE SumFunctionOnSet(evidence, old)
<1>1. /\ stripped \in SUBSET Evidence /\ editor \in SUBSET Evidence
      /\ redated \in SUBSET Evidence /\ old \in SUBSET Evidence
  BY UploadedType
<1>2. ExifSignals = [stripped_exif |-> SumFunctionOnSet(evidence, stripped),
                     editor        |-> SumFunctionOnSet(evidence, editor),
                     redated       |-> SumFunctionOnSet(evidence, redated),
                     old_photo     |-> older]
  BY DEF ExifSignals, HowMany
<1>3. (\A e \in Uploaded : e.exif = {}) => editor = {} /\ redated = {} /\ old = {}
  OBVIOUS
<1> HIDE DEF stripped, editor, redated, old
<1>4. /\ SumFunctionOnSet(evidence, stripped) \in Nat /\ SumFunctionOnSet(evidence, editor) \in Nat
      /\ SumFunctionOnSet(evidence, redated) \in Nat /\ older \in Nat
  BY <1>1, ManyType
<1>5. (\A e \in Uploaded : e.exif = {}) =>
        /\ SumFunctionOnSet(evidence, editor) = 0
        /\ SumFunctionOnSet(evidence, redated) = 0 /\ older = 0
  BY <1>3, SumEmpty
<1> HIDE DEF older
<1>6. DOMAIN ExifSignals = {"stripped_exif", "editor", "redated", "old_photo"}
  BY <1>2
<1>7. IsGroup(ExifSignals)
  <2>1. DOMAIN ExifSignals \subseteq Kinds
    BY <1>6 DEF Kinds, Weight
  <2>2. \A k \in DOMAIN ExifSignals : ExifSignals[k] \in Nat
    BY <1>2, <1>4, <1>6
  <2> QED BY <2>1, <2>2, GroupType
<1>8. ExifSignals["stripped_exif"] = SumFunctionOnSet(evidence, stripped)
  BY <1>2
<1>9. (\A e \in Uploaded : e.exif = {}) =>
        \A k \in DOMAIN ExifSignals \ {"stripped_exif"} : ExifSignals[k] = 0
  BY <1>2, <1>5, <1>6
<1> QED BY <1>6, <1>7, <1>8, <1>9 DEF stripped

LEMMA EditIsGroup ==
  ASSUME FraudTyped
  PROVE  /\ IsGroup(EditSignals)
         /\ (\A e \in Uploaded : ~e.compressed /\ ~e.large) =>
              \A k \in DOMAIN EditSignals : EditSignals[k] = 0
<1> DEFINE small == {e \in Uploaded : e.compressed}
           large == {e \in Uploaded : e.large}
<1>1. small \in SUBSET Evidence /\ large \in SUBSET Evidence
  BY UploadedType
<1>2. EditSignals = [compressed |-> SumFunctionOnSet(evidence, small),
                     large_png  |-> SumFunctionOnSet(evidence, large)]
  BY DEF EditSignals, HowMany
<1>3. (\A e \in Uploaded : ~e.compressed /\ ~e.large) => small = {} /\ large = {}
  OBVIOUS
<1> HIDE DEF small, large
<1>4. SumFunctionOnSet(evidence, small) \in Nat /\ SumFunctionOnSet(evidence, large) \in Nat
  BY <1>1, ManyType
<1>5. DOMAIN EditSignals = {"compressed", "large_png"}
  BY <1>2
<1>6. IsGroup(EditSignals)
  <2>1. DOMAIN EditSignals \subseteq Kinds
    BY <1>5 DEF Kinds, Weight
  <2>2. \A k \in DOMAIN EditSignals : EditSignals[k] \in Nat
    BY <1>2, <1>4, <1>5
  <2> QED BY <2>1, <2>2, GroupType
<1>7. (\A e \in Uploaded : ~e.compressed /\ ~e.large) =>
        SumFunctionOnSet(evidence, small) = 0 /\ SumFunctionOnSet(evidence, large) = 0
  BY <1>3, SumEmpty
<1> QED BY <1>2, <1>5, <1>6, <1>7

\* The groups that do not look at photos, but for their number.
LEMMA FactsAreGroups ==
  /\ IsGroup(HistorySignals) /\ IsGroup(VinPolicySignals)
  /\ IsGroup(PlaceSignals) /\ IsGroup(AngleSignals)
  /\ facts = {} =>
       /\ \A k \in DOMAIN HistorySignals : HistorySignals[k] = 0
       /\ \A k \in DOMAIN VinPolicySignals : VinPolicySignals[k] = 0
       /\ \A k \in DOMAIN PlaceSignals : PlaceSignals[k] = 0
  /\ Weigh(AngleSignals) = 10 * OneIf(Images < 2)
<1>1. IsGroup(HistorySignals)
  <2>1. DOMAIN HistorySignals \subseteq Kinds
    BY DEF HistorySignals, HistoryFacts, Kinds, Weight
  <2>2. \A k \in DOMAIN HistorySignals : HistorySignals[k] \in Nat
    BY DEF HistorySignals, OneIf
  <2> QED BY <2>1, <2>2, GroupType
<1>2. IsGroup(VinPolicySignals)
  <2>1. DOMAIN VinPolicySignals \subseteq Kinds
    BY DEF VinPolicySignals, VehicleFacts, Kinds, Weight
  <2>2. \A k \in DOMAIN VinPolicySignals : VinPolicySignals[k] \in Nat
    BY DEF VinPolicySignals, OneIf
  <2> QED BY <2>1, <2>2, GroupType
<1>3. IsGroup(PlaceSignals)
  <2>1. DOMAIN PlaceSignals \subseteq Kinds
    BY DEF PlaceSignals, Kinds, Weight
  <2>2. \A k \in DOMAIN PlaceSignals : PlaceSignals[k] \in Nat
    BY DEF PlaceSignals, OneIf
  <2> QED BY <2>1, <2>2, GroupType
<1>4. IsGroup(AngleSignals)
  <2>1. DOMAIN AngleSignals \subseteq Kinds
    BY DEF AngleSignals, Kinds, Weight
  <2>2. \A k \in DOMAIN AngleSignals : AngleSignals[k] \in Nat
    BY DEF AngleSignals, OneIf
  <2> QED BY <2>1, <2>2, GroupType
<1>5. facts = {} =>
        /\ \A k \in DOMAIN HistorySignals : HistorySignals[k] = 0
        /\ \A k \in DOMAIN VinPolicySignals : VinPolicySignals[k] = 0
        /\ \A k \in DOMAIN PlaceSignals : PlaceSignals[k] = 0
  BY DEF HistorySignals, VinPolicySignals, PlaceSignals, OneIf
<1>6. Weigh(AngleSignals) = Weight["one_angle"] * AngleSignals["one_angle"]
  <2>1. DOMAIN AngleSignals = {"one_angle"}
    BY DEF AngleSignals
  <2> QED BY <1>4, <2>1, GroupOfOne
<1>7. Weight["one_angle"] = 10 /\ AngleSignals["one_angle"] = OneIf(Images < 2)
  BY DEF Weight, AngleSignals
<1> QED BY <1>1, <1>2, <1>3, <1>4, <1>5, <1>6, <1>7

\* The score against the sum of all groups.
LEMMA ScoreIsCapped ==
  ASSUME FraudTyped
  PROVE  /\ Sum \in Nat /\ Raised \in Nat /\ Sum <= 40 * Raised
         /\ Sum >= Weigh(DuplicateSignals)
         /\ Reviewed <=> Sum >= 45
<1> DEFINE OK(g) == Weigh(g) \in Nat /\ Count(g) \in Nat /\ Weigh(g) <= 40 * Count(g)
<1>1. /\ OK(DuplicateSignals) /\ OK(ExifSignals) /\ OK(HistorySignals)
      /\ OK(VinPolicySignals) /\ OK(PlaceSignals) /\ OK(EditSignals) /\ OK(AngleSignals)
  BY GroupBound, DuplicatesAreGroup, ExifIsGroup, EditIsGroup, FactsAreGroups
<1>2. Sum \in Nat /\ Raised \in Nat /\ Sum <= 40 * Raised
      /\ Sum >= Weigh(DuplicateSignals)
  BY <1>1 DEF Sum, Raised
<1>3. RiskScore = IF Sum <= 100 THEN Sum ELSE 100
  BY <1>2 DEF RiskScore, Min
<1>4. Reviewed <=> Sum >= 45
  BY <1>2, <1>3 DEF Reviewed, Level
<1> QED BY <1>2, <1>4

LEMMA FraudTypedInit == FraudInit => FraudTyped
  BY DEF FraudInit, FraudTyped

LEMMA FraudTypedStep == FraudTyped /\ [FraudNext]_fraudVars => FraudTyped'
<1> SUFFICES ASSUME FraudTyped, [FraudNext]_fraudVars PROVE FraudTyped'
  OBVIOUS
<1>1. ASSUME NEW f \in Circumstance, File(f) PROVE FraudTyped'
  BY <1>1 DEF FraudTyped, File
<1>2. ASSUME NEW e \in Evidence, Upload(e) PROVE FraudTyped'
  BY <1>2 DEF FraudTyped, Upload
<1>3. ASSUME NEW e \in Copied, OtherUploads(e) PROVE FraudTyped'
  BY <1>3 DEF FraudTyped, OtherUploads
<1>4. CASE UNCHANGED fraudVars
  BY <1>4 DEF FraudTyped, fraudVars
<1> QED BY <1>1, <1>2, <1>3, <1>4 DEF FraudNext

\* No kind of signal reaches the threshold of fraud review alone, for any photos,
\* facts and pictures of other claims: the heaviest weighs 40 (_level).
THEOREM OneSignalNeverSuffices == FraudSpec => []OneSignalIsNotEnough
<1>1. FraudTyped => OneSignalIsNotEnough
  BY ScoreIsCapped DEF OneSignalIsNotEnough
<1> QED BY <1>1, FraudTypedInit, FraudTypedStep, PTL DEF FraudSpec

\* Whoever holds the file of a photo also holds its perceptual hash.
HashesTogether == \A e \in Evidence : e.sha \in elsewhere => e.phash \in elsewhere

\* A picture that another claim holds sends the claim to fraud review, for any
\* photos and facts beside it (_duplicate_image_signals, _level).
THEOREM SharedPicturesAreReviewed == FraudSpec => []SharedPictureIsReviewed
<1>1. FraudInit => HashesTogether
  BY DEF FraudInit, HashesTogether
<1>2. HashesTogether /\ [FraudNext]_fraudVars => HashesTogether'
  <2> SUFFICES ASSUME HashesTogether, [FraudNext]_fraudVars,
                      NEW d \in Evidence, d.sha \in elsewhere'
               PROVE  d.phash \in elsewhere'
    BY DEF HashesTogether
  <2>1. ASSUME NEW e \in Copied, OtherUploads(e) PROVE d.phash \in elsewhere'
    <3>1. e \in Evidence /\ d.sha # e.phash /\ (d.sha = e.sha => d = e)
      BY FraudConstants
    <3> QED BY <2>1, <3>1 DEF HashesTogether, OtherUploads
  <2>2. ASSUME elsewhere' = elsewhere PROVE d.phash \in elsewhere'
    BY <2>2 DEF HashesTogether
  <2> QED BY <2>1, <2>2 DEF FraudNext, File, Upload, fraudVars
<1>3. FraudTyped /\ HashesTogether => SharedPictureIsReviewed
  <2> SUFFICES ASSUME FraudTyped, HashesTogether,
                      NEW e \in Uploaded, e.sha \in elsewhere
               PROVE  Reviewed
    BY DEF SharedPictureIsReviewed
  <2> DEFINE same    == {x \in Uploaded : x.sha \in elsewhere}
             similar == {x \in Uploaded : x.phash \in elsewhere}
  <2>1. e \in same /\ e \in similar /\ same \in SUBSET Evidence /\ similar \in SUBSET Evidence
    BY UploadedType DEF HashesTogether
  <2>2. DuplicateSignals["hash_match"] = SumFunctionOnSet(evidence, same)
        /\ DuplicateSignals["similar_image"] = SumFunctionOnSet(evidence, similar)
    BY DuplicatesAreGroup
  <2> HIDE DEF same, similar
  <2>3. evidence[e] \in Nat /\ evidence[e] >= 1
    BY DEF Uploaded, FraudTyped
  <2>4. ASSUME NEW S \in SUBSET Evidence, e \in S
        PROVE  SumFunctionOnSet(evidence, S) \in Nat /\ SumFunctionOnSet(evidence, S) >= 1
    <3>1. SumFunctionOnSet(evidence, S) = evidence[e] + SumFunctionOnSet(evidence, S \ {e})
      BY <2>4, ManyType, SumSplit DEF FraudTyped
    <3>2. SumFunctionOnSet(evidence, S \ {e}) \in Nat /\ SumFunctionOnSet(evidence, S) \in Nat
      BY <2>4, ManyType
    <3> QED BY <2>3, <3>1, <3>2
  <2>5. Weigh(DuplicateSignals)
          >= Weight["hash_match"] * DuplicateSignals["hash_match"]
             + Weight["similar_image"] * DuplicateSignals["similar_image"]
    BY DuplicatesAreGroup, GroupOfTwo
  <2>6. Weight["hash_match"] = 40 /\ Weight["similar_image"] = 30
    BY DEF Weight
  <2>7. Weigh(DuplicateSignals) >= 45
    BY <2>1, <2>2, <2>4, <2>5, <2>6, DuplicatesAreGroup, GroupBound
  <2> QED BY <2>7, ScoreIsCapped, DuplicatesAreGroup, GroupBound
<1> QED BY <1>1, <1>2, <1>3, FraudTypedInit, FraudTypedStep, PTL DEF FraudSpec

ImagesBounded == Images <= MaxEvidence

\* Up to five photos whose EXIF data a messenger removed send no claim to fraud
\* review: five times eight is below the threshold (_exif_signals, _level).
THEOREM StrippedPhotosPass ==
  ASSUME MaxEvidence <= 5 PROVE FraudSpec => []StrippedPhotosAreNoFraud
<1>1. FraudInit => ImagesBounded
  <2> SUFFICES ASSUME FraudInit PROVE ImagesBounded
    OBVIOUS
  <2>1. Uploaded = {}
    BY DEF FraudInit, Uploaded
  <2>2. Images = 0
    BY <2>1, ImagesAreSum, SumEmpty
  <2> QED BY <2>2, FraudConstants DEF ImagesBounded
<1>2. FraudTyped /\ ImagesBounded /\ [FraudNext]_fraudVars => ImagesBounded'
  <2> SUFFICES ASSUME FraudTyped, ImagesBounded, [FraudNext]_fraudVars
               PROVE  ImagesBounded'
    OBVIOUS
  <2>1. ASSUME evidence' = evidence PROVE ImagesBounded'
    <3>1. Uploaded' = Uploaded
      BY <2>1 DEF Uploaded
    <3>2. Images' = SumFunctionOnSet(evidence', Uploaded')
      BY ImagesAreSumNext
    <3> QED BY <2>1, <3>1, <3>2, ImagesAreSum DEF ImagesBounded
  <2>2. ASSUME NEW e \in Evidence, Upload(e) PROVE ImagesBounded'
    <3> DEFINE others == Uploaded \ {e}
    <3>1. /\ evidence[e] \in Nat /\ evidence'[e] = evidence[e] + 1
          /\ \A x \in Evidence \ {e} : evidence'[x] = evidence[x]
          /\ Images < MaxEvidence
      BY <2>2 DEF Upload, FraudTyped
    <3>2. Uploaded' = others \union {e} /\ others \in SUBSET Evidence /\ e \notin others
          /\ Uploaded' \ {e} = others
      BY <3>1 DEF Uploaded
    <3>3. FraudTyped'
      BY FraudTypedStep
    <3> HIDE DEF others
    <3>4. IsFiniteSet(others) /\ SumFunctionOnSet(evidence, others) \in Nat
      BY <3>2, ManyType
    <3>5. SumFunctionOnSet(evidence', others) = SumFunctionOnSet(evidence, others)
      BY <3>1, <3>2, <3>4, SumCongruence
    <3>6. Images' = evidence'[e] + SumFunctionOnSet(evidence, others)
      <4>1. Images' = SumFunctionOnSet(evidence', Uploaded')
        BY ImagesAreSumNext
      <4>2. IsFiniteSet(Uploaded') /\ \A x \in Uploaded' : evidence'[x] \in Nat
        BY <3>2, <3>3, FraudConstants, FS_Subset DEF FraudTyped
      <4>3. SumFunctionOnSet(evidence', Uploaded')
              = evidence'[e] + SumFunctionOnSet(evidence', Uploaded' \ {e})
        BY <3>2, <4>2, SumSplit
      <4> QED BY <3>2, <3>5, <4>1, <4>3
    <3>7. Images = evidence[e] + SumFunctionOnSet(evidence, others)
      <4>1. CASE e \in Uploaded
        BY <4>1, ImagesAreSum, UploadedType, ManyType, SumSplit DEF FraudTyped, others
      <4>2. CASE e \notin Uploaded
        <5>1. evidence[e] = 0 /\ others = Uploaded
          BY <3>1, <4>2 DEF Uploaded, others
        <5> QED BY <3>4, <5>1, ImagesAreSum
      <4> QED BY <4>1, <4>2
    <3>8. Images' = Images + 1 /\ Images \in Nat
      BY <3>1, <3>4, <3>6, <3>7
    <3> QED BY <3>1, <3>8, FraudConstants DEF ImagesBounded
  <2> QED BY <2>1, <2>2 DEF FraudNext, File, OtherUploads, fraudVars
<1>3. FraudTyped /\ ImagesBounded => StrippedPhotosAreNoFraud
  <2> SUFFICES ASSUME FraudTyped, ImagesBounded, facts = {}, elsewhere = {},
                      \A e \in Uploaded : OnlyStripped(e), Repeated = 0
               PROVE  ~Reviewed
    BY DEF StrippedPhotosAreNoFraud
  <2>1. /\ \A e \in Uploaded : e.exif = {}
        /\ \A e \in Uploaded : ~e.compressed /\ ~e.large
    BY DEF OnlyStripped
  <2>2. Images = SumFunctionOnSet(evidence, Uploaded) /\ Images \in Nat /\ Images <= 5
    BY ImagesAreSum, UploadedType, ManyType, FraudConstants DEF ImagesBounded
  <2>3. Weigh(DuplicateSignals) = 0
    <3>1. {e \in Uploaded : e.sha \in elsewhere} = {}
          /\ {e \in Uploaded : e.phash \in elsewhere} = {}
      OBVIOUS
    <3>2. \A k \in DOMAIN DuplicateSignals : DuplicateSignals[k] = 0
      BY <3>1, DuplicatesAreGroup, SumEmpty
    <3> QED BY <3>2, DuplicatesAreGroup, GroupOfNone
  <2>4. Weigh(ExifSignals) = 8 * Images
    <3>1. {e \in Uploaded : e.exif = {}} = Uploaded
      BY <2>1
    <3>2. Weigh(ExifSignals) = Weight["stripped_exif"] * ExifSignals["stripped_exif"]
      BY <2>1, ExifIsGroup, GroupOfOne
    <3>3. Weight["stripped_exif"] = 8
      BY DEF Weight, StrippedWeight
    <3> QED BY <2>2, <3>1, <3>2, <3>3, ExifIsGroup
  <2>5. Weigh(EditSignals) = 0
    BY <2>1, EditIsGroup, GroupOfNone
  <2>6. Weigh(HistorySignals) = 0 /\ Weigh(VinPolicySignals) = 0 /\ Weigh(PlaceSignals) = 0
    <3>1. /\ IsGroup(HistorySignals) /\ IsGroup(VinPolicySignals) /\ IsGroup(PlaceSignals)
          /\ \A k \in DOMAIN HistorySignals : HistorySignals[k] = 0
          /\ \A k \in DOMAIN VinPolicySignals : VinPolicySignals[k] = 0
          /\ \A k \in DOMAIN PlaceSignals : PlaceSignals[k] = 0
      BY FactsAreGroups
    <3> QED BY <3>1, GroupOfNone
  <2>7. Sum = 8 * Images + 10 * OneIf(Images < 2)
    BY <2>2, <2>3, <2>4, <2>5, <2>6, FactsAreGroups DEF Sum, OneIf
  <2>8. Sum < 45
    BY <2>2, <2>7 DEF OneIf
  <2> QED BY <2>8, ScoreIsCapped
<1> QED BY <1>1, <1>2, <1>3, FraudTypedInit, FraudTypedStep, PTL DEF FraudSpec

=============================================================================
