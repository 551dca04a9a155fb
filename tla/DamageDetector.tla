--------------------------- MODULE DamageDetector ---------------------------
(***************************************************************************)
(* What the detector reports of one photo, and the severity rules.  A      *)
(* photo is what the image analysis measures of it: the share of edge      *)
(* pixels, the texture variance, and the boxes around connected edges with *)
(* their brightness, saturation, edge share and shape.  Shares are in per  *)
(* cent, positions in hundredths of the frame.  The two edge counts the    *)
(* code makes of a box (in the frame and in the cut-out) are one number,   *)
(* and confidences, boxes and texts, which decide nothing, are left out.   *)
(***************************************************************************)
EXTENDS Integers, Sequences, SequencesExt, TLC

Severity == <<"minor", "moderate", "major", "critical", "total_loss">>
Rank(severity) == CHOOSE i \in 1..5 : Severity[i] = severity

DamageType == {"dent", "scratch", "paint_damage", "broken_glass", "crack",
               "broken_light", "bent_metal", "flood_damage", "fire_damage",
               "total_loss"}

-----------------------------------------------------------------------------
\* Boxes.

Score(box) == box.density * (50 + box.area)

\* _localize_regions: boxes of between 1% and 90% of the frame with enough
\* edges in them, the six best.
Localized(boxes) ==
  LET kept   == SelectSeq(boxes, LAMBDA b : b.area \in 1..90 /\ b.density > 5)
      ranked == SortSeq(kept, LAMBDA a, b : Score(a) > Score(b))
  IN SubSeq(ranked, 1, IF Len(ranked) < 6 THEN Len(ranked) ELSE 6)

PartForRegion(cx, cy) ==
  CASE cy < 33 /\ cx <= 33           -> "windshield"
    [] cy < 33 /\ cx \in 34..65      -> "roof"
    [] cy < 33 /\ cx >= 66           -> "hood"
    [] cy \in 33..65 /\ cx \in 21..79 -> "door"
    [] cy \in 33..65                 -> "mirror"
    [] cx \in 21..79                 -> "bumper"
    [] OTHER                         -> "wheel"

ClassifyRegion(box, texture) ==
  IF box.val < 45 THEN IF box.sat < 40 THEN "broken_glass" ELSE "broken_light"
  ELSE IF box.density > 22 THEN IF box.elongated THEN "scratch" ELSE "crack"
  ELSE IF texture < 60 THEN "dent"
  ELSE IF box.sat < 35 THEN "paint_damage"
  ELSE IF box.density > 15 THEN "bent_metal" ELSE "dent"

\* detect: one damage for each box, or light damage of a door where there is none.
Damages(photo) ==
  LET boxes == Localized(photo.boxes) IN
    IF boxes = <<>>
    THEN << [part |-> "door", area |-> photo.edges,
             type |-> IF photo.edges > 6 THEN "scratch" ELSE "paint_damage"] >>
    ELSE [i \in 1..Len(boxes) |->
            [part |-> PartForRegion(boxes[i].cx, boxes[i].cy),
             area |-> boxes[i].area,
             type |-> ClassifyRegion(boxes[i], photo.texture)]]

Types(damages) == {damages[i].type : i \in DOMAIN damages}

\* damage_area_pct: boxes may overlap, so the sum is capped.
PhotoArea(photo) ==
  LET damages == Damages(photo)
      sum     == SumFunction([i \in DOMAIN damages |-> damages[i].area])
  IN IF sum > 100 THEN 100 ELSE sum

-----------------------------------------------------------------------------
\* Severity: of a photo by the detector's own rules (_severity), of a claim by
\* classify_severity over the damages of all photos and the largest area.

PhotoSeverity(photo) ==
  LET types == Types(Damages(photo))
      area  == PhotoArea(photo) IN
    IF types \intersect {"total_loss", "fire_damage"} # {} \/ area >= 60
      THEN "total_loss"
    ELSE IF area >= 40 \/ "bent_metal" \in types \/ photo.edges > 18
      THEN "critical"
    ELSE IF area >= 20 \/ {"broken_glass", "crack"} \subseteq types
      THEN "major"
    ELSE IF area >= 8 THEN "moderate" ELSE "minor"

ClassifySeverity(types, area) ==
  IF types \intersect {"total_loss", "fire_damage"} # {} \/ area >= 60
    THEN "total_loss"
  ELSE IF area >= 40 \/ types \intersect {"bent_metal", "flood_damage"} # {}
    THEN "critical"
  ELSE IF area >= 20 THEN "major"
  ELSE IF area >= 8 THEN "moderate" ELSE "minor"

\* The two rules differ in what only the detector looks at: many edges in the
\* frame, and broken glass together with a crack.
OnlyDetectorSees(photo) ==
  \/ photo.edges > 18
  \/ {"broken_glass", "crack"} \subseteq Types(Damages(photo))

=============================================================================
