------------------------------ MODULE MCParts ------------------------------
(***************************************************************************)
(* Instances for TLC of the parts beside the two services: the engines,    *)
(* the dashboard, and the two machines of the web client.  They share no   *)
(* state, so a behaviour runs one of them and leaves the others as they    *)
(* start: the state spaces add up.                                         *)
(***************************************************************************)
EXTENDS CostEstimate, FraudScore, RepeatClaims, Dashboard, MonthBuckets,
        WebClient, NewClaimPage

VARIABLE part    \* the one that runs

Part == {"cost", "fraud", "repeat", "dashboard", "months", "session", "form"}

engineVars == <<costVars, fraudVars, repeatVars, dashVars, monthVars>>
partsVars == <<engineVars, webVars, formVars, part>>

-----------------------------------------------------------------------------
\* Photos for the estimate: nothing to see, a scraped bumper, a door with a
\* crack and a scratch, a broken mirror, a shattered roof with a dented bumper
\* (with the second photo 15 hours in one order and a trifle more in the other),
\* a dented door that another photo shows broken; and nine boxes, of which two
\* are too large or too plain and the six best of the others are kept.

Box(cx, cy, area, val, sat, density, long) ==
  [cx |-> cx, cy |-> cy, area |-> area, val |-> val, sat |-> sat,
   density |-> density, elongated |-> long]

Seen(edges, texture, boxes) == [edges |-> edges, texture |-> texture, boxes |-> boxes]

CarPhotos == {
  Seen(5, 100, <<>>),
  Seen(10, 30, <<Box(50, 80, 10, 100, 50, 10, FALSE)>>),
  Seen(10, 100, <<Box(50, 80, 5, 100, 50, 30, FALSE), Box(50, 50, 20, 100, 50, 30, TRUE)>>),
  Seen(20, 100, <<Box(10, 50, 8, 30, 20, 10, FALSE), Box(50, 50, 3, 100, 50, 20, FALSE)>>),
  Seen(10, 100, <<Box(50, 10, 45, 30, 50, 10, FALSE), Box(50, 15, 30, 100, 20, 10, FALSE),
                  Box(50, 80, 7, 100, 50, 10, FALSE), Box(60, 10, 6, 100, 20, 10, FALSE)>>),
  Seen(10, 100, <<Box(50, 50, 42, 100, 50, 12, FALSE)>>),
  Seen(10, 100, <<Box(50, 50, 95, 100, 50, 30, FALSE), Box(50, 80, 4, 100, 50, 4, FALSE),
                  Box(10, 10, 2, 100, 50, 10, FALSE), Box(90, 10, 2, 30, 20, 10, FALSE),
                  Box(10, 80, 2, 100, 20, 12, FALSE), Box(50, 80, 3, 100, 50, 30, FALSE),
                  Box(10, 50, 2, 100, 50, 14, FALSE), Box(50, 50, 1, 100, 50, 6, FALSE),
                  Box(90, 50, 1, 100, 50, 20, TRUE)>>)}

-----------------------------------------------------------------------------
\* Photos for the fraud score: two ordinary ones, five without EXIF data, and one
\* with everything amiss.

Shot(p, exif, compressed, large) ==
  [sha |-> <<p, "sha">>, phash |-> <<p, "phash">>, exif |-> exif,
   compressed |-> compressed, large |-> large]

Plain == Shot(0, {"dated"}, FALSE, FALSE)
Amiss == Shot(6, {"dated", "editor", "redated", "old"}, TRUE, TRUE)
Other == Shot(7, {"dated"}, FALSE, FALSE)
Shots == {Plain, Other, Amiss} \union {Shot(p, {}, FALSE, FALSE) : p \in 1..5}
CopiedShots == {Plain}

Circumstances == {
  {}, {"many_claims", "same_vehicle"}, {"out_of_cover"}, {"other_vehicle", "odd_vin"},
  {"inactive_policy", "undated"}, {"no_vehicle", "null_island"}}

-----------------------------------------------------------------------------
PartsInit ==
  /\ CostInit /\ FraudInit /\ RepeatInit /\ DashInit /\ MonthInit
  /\ WebInit /\ FormInit
  /\ part \in Part

CostPart == part = "cost" /\ CostNext
  /\ UNCHANGED <<fraudVars, repeatVars, dashVars, monthVars, webVars, formVars>>
FraudPart == part = "fraud" /\ FraudNext
  /\ UNCHANGED <<costVars, repeatVars, dashVars, monthVars, webVars, formVars>>
RepeatPart == part = "repeat" /\ RepeatNext
  /\ UNCHANGED <<costVars, fraudVars, dashVars, monthVars, webVars, formVars>>
DashPart == part = "dashboard" /\ DashNext
  /\ UNCHANGED <<costVars, fraudVars, repeatVars, monthVars, webVars, formVars>>
MonthPart == part = "months" /\ MonthNext
  /\ UNCHANGED <<costVars, fraudVars, repeatVars, dashVars, webVars, formVars>>
SessionPart == part = "session" /\ WebNext /\ UNCHANGED <<engineVars, formVars>>
FormPart == part = "form" /\ FormNext /\ UNCHANGED <<engineVars, webVars>>

PartsNext ==
  /\ CostPart \/ FraudPart \/ RepeatPart \/ DashPart \/ MonthPart
     \/ SessionPart \/ FormPart
  /\ UNCHANGED part

PartsSpec ==
  PartsInit /\ [][PartsNext]_partsVars /\ WebFairness /\ FormFairness

\* The dashboard's months alone.
MonthsSpec == PartsInit /\ part = "months" /\ [][PartsNext]_partsVars
=============================================================================
