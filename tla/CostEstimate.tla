---------------------------- MODULE CostEstimate ----------------------------
(***************************************************************************)
(* The estimate of a claim as the pipeline makes it: the damages of all    *)
(* photos in one list, in the order in which the database returns the      *)
(* photos, the severity of the claim, and the estimator's loop over the    *)
(* list.  A customer may add a photo and have the claim analysed again.    *)
(*                                                                         *)
(* Money is in units of 5 paise (a twentieth of a rupee), in which every   *)
(* product of the price book and the multipliers is exact; the code's      *)
(* floats, rounded to paise, show the same amounts.  Hours are in tenths   *)
(* in the book and in hundredths in the sum.  The code's sum of hours is   *)
(* exact as long as its summands are halves; otherwise it is off by less   *)
(* than any two sums differ, which matters where repair days are rounded.  *)
(***************************************************************************)
EXTENDS DamageDetector, FiniteSetsExt

CONSTANTS Photos,      \* the photos a customer may have
          MaxPhotos    \* bound: photos of one claim

\* The photos are such that the detector has a list of damages for each, with
\* shares of the frame in whole per cents.
Damage == [part : STRING, area : Nat, type : DamageType]

ASSUME DetectorReports == \A p \in Photos : Damages(p) \in Seq(Damage)

VARIABLES
  photos,     \* the photos of the claim, in upload order
  rows,       \* the damages of this analysis, in the order of the rows read
  severity,   \* severity of the claim, "minor" before an analysis
  phase,      \* "open", "pricing" or "estimated"
  at,         \* damages priced so far
  bill,       \* the totals of the loop
  latest      \* auxiliary: grand total of the latest analysis that read the
              \* photos in upload order, 0 before

costVars == <<photos, rows, severity, phase, at, bill, latest>>

-----------------------------------------------------------------------------
\* OEM_PARTS: price and painting in rupees, labour in tenths of an hour.

Line(part, labour, paint) == [part |-> part, labour |-> labour, paint |-> paint]

OemParts ==
  [bumper      |-> Line(12000, 30, 4500), door       |-> Line(18000, 45, 6000),
   hood        |-> Line(15000, 35, 5000), roof       |-> Line(25000, 60, 9000),
   mirror      |-> Line(3500, 10, 800),   windshield |-> Line(9000, 15, 0),
   headlights  |-> Line(8000, 12, 0),     tail_lights |-> Line(4500, 10, 0),
   windows     |-> Line(5000, 15, 0),     wheel      |-> Line(7000, 10, 0),
   tyres       |-> Line(6000, 5, 0)]

Book(part) == IF part \in DOMAIN OemParts THEN OemParts[part] ELSE OemParts["bumper"]

\* SEVERITY_MULTIPLIER in twentieths, LABOUR_RATE in rupees per tenth of an hour.
Multiplier ==
  [minor |-> 11, moderate |-> 17, major |-> 20, critical |-> 25, total_loss |-> 20]
LabourRate == 85
WriteOff == 250000 * 20

\* An area of zero counts as 5%.
Replaces(d) ==
  \/ (IF d.area = 0 THEN 5 ELSE d.area) >= 15
  \/ d.type \in {"broken_glass", "broken_light", "bent_metal", "total_loss"}

Painted == {"scratch", "paint_damage", "dent", "bent_metal"}

PartCost(d, mult) ==
  (IF Replaces(d) THEN Book(d.part).part ELSE Book(d.part).part \div 4) * mult
Labour(part, mult) == Book(part).labour * LabourRate * mult
Further(part, mult) == (Labour(part, mult) * 2) \div 5
Paint(d, mult) == IF d.type \in Painted THEN Book(d.part).paint * mult ELSE 0

\* Python's round(x / 6) of hours in hundredths.  At a half, an exact sum goes
\* to the even number; one that is not exact lies below, at or above the half,
\* by the order of its summands, and goes to either.
RoundedSixths(hours, exact) ==
  LET q       == hours \div 600
      nearest == {n \in {q, q + 1} : hours - 600 * n \in -300..300}
  IN IF exact /\ hours % 600 = 300 THEN {n \in nearest : n % 2 = 0} ELSE nearest

RepairDays(hours, exact, sev) ==
  LET extra == IF sev \in {"major", "critical"} THEN 2 ELSE 0
  IN {Max({1, n + extra}) : n \in RoundedSixths(hours, exact)}

-----------------------------------------------------------------------------
\* A bill: the parts seen, the three totals, the hours and whether their sum is
\* exact, the sum of the amounts of the line items, and the repair days.

EmptyBill == [seen |-> {}, parts |-> 0, labour |-> 0, paint |-> 0, hours |-> 0,
              exact |-> TRUE, lines |-> 0, days |-> 0]

\* Hours that a float holds as they are, and adds without an error.
InHalves(part) == Book(part).labour % 5 = 0

Subtotal(b) == b.parts + b.labour + b.paint

\* In percent of the unit: the tax of 18% is exact.
GrandTotal(b) == Subtotal(b) * 118

\* The first damage of a part prices the part, its labour and its painting.
PriceFirst(b, d, mult) ==
  LET cost   == PartCost(d, mult)
      labour == Labour(d.part, mult)
      paint  == Paint(d, mult)
  IN [b EXCEPT !.seen   = @ \union {d.part},
               !.parts  = @ + cost,
               !.labour = @ + labour,
               !.paint  = @ + paint,
               !.hours  = @ + 10 * Book(d.part).labour,
               !.exact  = @ /\ InHalves(d.part),
               !.lines  = @ + cost + labour + paint]

\* Mutant of PriceAgain: the further labour is not listed.
PriceUnlisted(b, d, mult) ==
  [b EXCEPT !.labour = @ + Further(d.part, mult),
            !.hours  = @ + 4 * Book(d.part).labour,
            !.exact  = FALSE]

\* Mutant of PriceAgain: a worse damage of the part takes its place in hours.
PriceLonger(b, d, mult) ==
  [b EXCEPT !.labour = @ + Further(d.part, mult),
            !.lines  = @ + Further(d.part, mult),
            !.hours  = @ + (IF Replaces(d) THEN 10 ELSE 4) * Book(d.part).labour,
            !.exact  = FALSE]

\* A further damage of the part adds 40% of its labour, never a number of halves.
PriceAgain(b, d, mult) ==
  [b EXCEPT !.labour = @ + Further(d.part, mult),
            !.lines  = @ + Further(d.part, mult),
            !.hours  = @ + 4 * Book(d.part).labour,
            !.exact  = FALSE]

Priced(b, d, mult) ==
  IF d.part \in b.seen THEN PriceAgain(b, d, mult) ELSE PriceFirst(b, d, mult)

\* Mutant of Settled: a write-off is settled at the price of its parts.
SettledAtParts(b, sev) ==
  IF sev = "total_loss"
  THEN [b EXCEPT !.labour = 0, !.paint = 0, !.lines = b.parts]
  ELSE b

\* A total loss is settled at a flat sum, or at its parts if they cost more.
Settled(b, sev) ==
  IF sev = "total_loss"
  THEN LET sum == Max({b.parts, WriteOff}) IN
         [b EXCEPT !.parts = sum, !.labour = 0, !.paint = 0, !.lines = sum]
  ELSE b

-----------------------------------------------------------------------------
CostInit ==
  /\ photos = <<>>
  /\ rows = <<>>
  /\ severity = "minor"
  /\ phase = "open"
  /\ at = 0
  /\ bill = EmptyBill
  /\ latest = 0

AllDamages(ps) == FlattenSeq([i \in DOMAIN ps |-> Damages(ps[i])])

\* Mutant of ClaimArea: the area of the last photo, not the largest.
LastArea(ps) == PhotoArea(ps[Len(ps)])

ClaimArea(ps) == Max({PhotoArea(ps[i]) : i \in DOMAIN ps})

Ordered == rows = AllDamages(photos)

\* A draft takes another photo, also after an analysis when an administrator
\* has sent the claim back.
AddPhoto(p) ==
  /\ phase # "pricing"
  /\ Len(photos) < MaxPhotos
  /\ photos' = Append(photos, p)
  /\ phase' = "open"
  /\ UNCHANGED <<rows, severity, at, bill, latest>>

\* The SELECT of the images has no ORDER BY: any order may come back.
StartEstimate(order) ==
  /\ phase = "open"
  /\ photos # <<>>
  /\ phase' = "pricing"
  /\ LET read == [i \in DOMAIN photos |-> photos[order[i]]] IN
       /\ rows' = AllDamages(read)
       /\ severity' = ClassifySeverity(Types(AllDamages(read)), ClaimArea(read))
  /\ at' = 0
  /\ bill' = EmptyBill
  /\ UNCHANGED <<photos, latest>>

PriceDamage ==
  /\ phase = "pricing"
  /\ at < Len(rows)
  /\ at' = at + 1
  /\ bill' = Priced(bill, rows[at + 1], Multiplier[severity])
  /\ UNCHANGED <<photos, rows, severity, phase, latest>>

FinishEstimate ==
  /\ phase = "pricing"
  /\ at = Len(rows)
  /\ phase' = "estimated"
  /\ \E days \in RepairDays(bill.hours, bill.exact, severity) :
       bill' = [Settled(bill, severity) EXCEPT !.days = days]
  /\ latest' = IF Ordered THEN GrandTotal(Settled(bill, severity)) ELSE latest
  /\ UNCHANGED <<photos, rows, severity, at>>

Orders == {f \in [DOMAIN photos -> DOMAIN photos] : {f[i] : i \in DOMAIN photos} = DOMAIN photos}

CostNext ==
  \/ \E p \in Photos : AddPhoto(p)
  \/ \E order \in Orders : StartEstimate(order)
  \/ PriceDamage
  \/ FinishEstimate

CostSpec == CostInit /\ [][CostNext]_costVars

-----------------------------------------------------------------------------
\* Properties.

Estimated == phase = "estimated"

\* The invoice adds up at every point of the loop, and in the end: its line
\* items are the parts, the labour and the painting of its totals, also when a
\* total loss replaces them (estimate, lines 111-124).
InvoiceAddsUp == bill.lines = Subtotal(bill)

\* What the loop bills of labour and hours, defined without an order: each
\* part once in full and 40% for every further damage of it.
DamagesOf(part) == Cardinality({i \in DOMAIN rows : rows[i].part = part})
OrderlessLabour(mult) ==
  SumFunction([p \in {rows[i].part : i \in DOMAIN rows} |->
                 Labour(p, mult) + Book(p).labour * 34 * mult * (DamagesOf(p) - 1)])
OrderlessHours ==
  SumFunction([p \in {rows[i].part : i \in DOMAIN rows} |->
                 Book(p).labour * (4 * DamagesOf(p) + 6)])

OrderlessExact ==
  \A p \in {rows[i].part : i \in DOMAIN rows} : DamagesOf(p) = 1 /\ InHalves(p)

\* In whatever order the photos are read, an estimate has the same labour, and
\* the same repair days except where the hours, with further damage of a part
\* among them, come to a half: there the order may make a day's difference.
LabourIgnoresOrder ==
  Estimated =>
    /\ bill.days \in RepairDays(OrderlessHours, OrderlessExact, severity)
    /\ severity # "total_loss" => bill.labour = OrderlessLabour(Multiplier[severity])

\* The claim is never classified below the worst photo, except for what only the
\* detector's own rules see.
ClaimSeverityCoversPhotos ==
  phase # "open" =>
    \A i \in DOMAIN photos :
      ~OnlyDetectorSees(photos[i]) => Rank(PhotoSeverity(photos[i])) <= Rank(severity)

\* Photos added to a claim and read after the others, as many as there may be,
\* make it no cheaper, neither by a higher multiplier nor by further damage of a
\* part, unless they turn its repair into a write-off; and that is settled at
\* no less than its flat sum, which long repairs may exceed (estimate).
DropsOnlyToWriteOff ==
  [][latest' < latest => severity = "total_loss" /\ latest' >= 118 * WriteOff]_costVars

=============================================================================
