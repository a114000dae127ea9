-------------------------- MODULE ExtractorProofs ---------------------------
(***************************************************************************)
(* Proofs about OcrPlan and Extractor for any PDFs, pages, limits, versions*)
(* and faults: the images of a plan show every row of a page within the    *)
(* limits, everything has its type, what the cache says of a PDF is true,  *)
(* and a plan that was carried out has read every row.                     *)
(***************************************************************************)
EXTENDS Extractor, FiniteSetTheorems, FunctionTheorems, SequenceTheorems,
        WellFoundedInduction, TLAPS

(***************************************************************************)
(* The plan of a page.                                                     *)
(***************************************************************************)

\* Integer division, as the plan uses it.
LEMMA DivBounds ==
  ASSUME NEW a \in Nat, NEW b \in Nat \ {0}
  PROVE  /\ a \div b \in Nat
         /\ b * (a \div b) <= a
         /\ a < b * (a \div b) + b
  BY SMT

\* math.ceil of a quotient is the least number of whole divisors that reach it.
LEMMA CeilDivBounds ==
  ASSUME NEW a \in Nat, NEW b \in Nat \ {0}
  PROVE  /\ CeilDiv(a, b) \in Nat
         /\ a <= b * CeilDiv(a, b)
  <1>1. a + b - 1 \in Nat
    OBVIOUS
  <1>2. QED
    BY <1>1, DivBounds DEF CeilDiv

\* An image has at least one row and one column.
LEMMA DrawnPositive ==
  ASSUME NEW points \in Nat, NEW dpi \in Nat
  PROVE  Drawn(points, dpi) \in Nat \ {0}
  <1>1. points * dpi \in Nat
    OBVIOUS
  <1>2. PointsPerInch \in Nat \ {0}
    BY OcrPlanAssumption
  <1>3. CeilDiv(points * dpi, PointsPerInch) \in Nat
    BY <1>1, <1>2, CeilDivBounds
  <1>4. QED
    BY <1>3 DEF Drawn, Most

\* The size of a page at any of the resolutions.
LEMMA SizePositive ==
  ASSUME NEW page \in Pages, NEW dpi \in Nat
  PROVE  WidthAt(page, dpi) \in Nat \ {0} /\ HeightAt(page, dpi) \in Nat \ {0}
  BY DrawnPositive DEF Pages, WidthAt, HeightAt

\* A tile is within every limit on an image of its width.
LEMMA SafeTileBounds ==
  ASSUME NEW width \in Nat \ {0}
  PROVE  /\ SafeTileHeight(width) \in Nat
         /\ SafeTileHeight(width) <= MaxImageDimension
         /\ width * SafeTileHeight(width) <= MaxPagePixels
  <1> DEFINE left == MaxPagePixels \div width
  <1>1. MaxPagePixels \in Nat /\ MaxImageDimension \in Nat /\ TileHeight \in Nat
    BY OcrPlanAssumption
  <1>2. left \in Nat /\ width * left <= MaxPagePixels
    BY <1>1, DivBounds
  <1>3. SafeTileHeight(width) = Least(TileHeight, Least(MaxImageDimension, left))
    BY DEF SafeTileHeight, Most
  <1> HIDE DEF left
  <1>4. /\ SafeTileHeight(width) \in Nat
        /\ SafeTileHeight(width) <= MaxImageDimension
        /\ SafeTileHeight(width) <= left
    BY <1>1, <1>2, <1>3 DEF Least
  <1>5. \A a, b \in Nat : a <= b => width * a <= width * b
    OBVIOUS
  <1>6. width * SafeTileHeight(width) <= width * left
    BY <1>2, <1>4, <1>5
  <1>7. width * SafeTileHeight(width) \in Nat /\ width * left \in Nat
    BY <1>2, <1>4
  <1>8. QED
    BY <1>1, <1>2, <1>4, <1>6, <1>7

\* The tiles reach the end of the page: the last one leaves no row over.
LEMMA TilesReachTheEnd ==
  ASSUME NEW height \in Nat \ {0}, NEW tile \in Nat, tile > 2 * TileOverlap
  PROVE  /\ TileCount(height, tile) \in Nat \ {0}
         /\ height <= (TileCount(height, tile) - 1) * (tile - TileOverlap) + tile
  <1> DEFINE step == tile - TileOverlap
             rest == Most(height - TileOverlap, 1)
             count == TileCount(height, tile)
  <1>1. TileOverlap \in Nat
    BY OcrPlanAssumption
  <1>2. step \in Nat \ {0} /\ tile = step + TileOverlap
    BY <1>1
  <1>3. rest \in Nat /\ height - TileOverlap <= rest
    BY <1>1 DEF Most
  <1>4. CeilDiv(rest, step) \in Nat /\ rest <= step * CeilDiv(rest, step)
    BY <1>2, <1>3, CeilDivBounds
  <1>5. count = Most(1, CeilDiv(rest, step))
    BY DEF TileCount
  <1> HIDE DEF rest, step, count
  <1>6. count \in Nat \ {0} /\ CeilDiv(rest, step) <= count
    BY <1>4, <1>5 DEF Most
  <1>7. \A a, b \in Nat : a <= b => step * a <= step * b
    BY <1>2
  <1>8. rest <= step * count
    <2>1. step * CeilDiv(rest, step) <= step * count
      BY <1>4, <1>6, <1>7
    <2>2. step * CeilDiv(rest, step) \in Nat /\ step * count \in Nat
      BY <1>2, <1>4, <1>6
    <2>3. QED
      BY <1>3, <1>4, <2>1, <2>2
  <1>9. (count - 1) * step = step * count - step
    BY <1>2, <1>6
  <1>10. height <= (count - 1) * step + tile
    <2>1. step * count \in Nat
      BY <1>2, <1>6
    <2>2. QED
      BY <1>1, <1>2, <1>3, <1>8, <1>9, <2>1
  <1>11. QED
    BY <1>6, <1>10 DEF count, step

\* A row lies in the tile that begins at or before it, or in the last one.
LEMMA RowInTile ==
  ASSUME NEW height \in Nat, NEW step \in Nat \ {0}, NEW tile \in Nat, step <= tile,
         NEW count \in Nat \ {0}, height <= (count - 1) * step + tile,
         NEW r \in 0 .. height - 1
  PROVE  \E i \in 0 .. count - 1 : /\ i * step <= r
                                   /\ r < i * step + Least(tile, height - i * step)
  <1> DEFINE q == r \div step
  <1>1. r \in Nat /\ r < height
    OBVIOUS
  <1>2. q \in Nat /\ step * q <= r /\ r < step * q + step
    BY <1>1, DivBounds
  <1> HIDE DEF q
  <1>3. CASE q <= count - 1
    <2>1. q * step = step * q /\ q * step \in Nat
      BY <1>2
    <2>2. q * step <= r /\ r < q * step + Least(tile, height - q * step)
      BY <1>1, <1>2, <2>1 DEF Least
    <2>3. q \in 0 .. count - 1
      BY <1>2, <1>3
    <2>4. QED
      BY <2>2, <2>3
  <1>4. CASE q > count - 1
    <2> DEFINE last == count - 1
    <2>1. last \in Nat /\ last <= q /\ last \in 0 .. count - 1
      BY <1>2, <1>4
    <2> HIDE DEF last
    <2>2. \A a, b \in Nat : a <= b => step * a <= step * b
      OBVIOUS
    <2>3. step * last <= step * q /\ step * q \in Nat
      BY <1>2, <2>1, <2>2
    <2>4. last * step = step * last /\ last * step \in Nat
      BY <2>1
    <2>5. height <= last * step + tile
      BY DEF last
    <2>6. last * step <= r
      BY <1>1, <1>2, <2>3, <2>4
    <2>7. r < last * step + Least(tile, height - last * step)
      BY <1>1, <2>4, <2>5, <2>6 DEF Least
    <2>8. QED
      BY <2>1, <2>6, <2>7
  <1>5. QED
    BY <1>2, <1>3, <1>4

\* One image for the page: it is drawn at a resolution at which it fits.
LEMMA SinglePlan ==
  ASSUME NEW page \in Pages, NEW tiled \in BOOLEAN, ~tiled, Fitting(page) # {}
  PROVE  \E dpi \in Fitting(page) : PagePlan(page, tiled) = Single(page, dpi)
  <1> DEFINE Best(dpi) == \A other \in Fitting(page) : other <= dpi
  <1>1. Fitting(page) \subseteq MinDpi .. BaseDpi
    BY OcrPlanAssumption DEF Fitting
  <1>2. MinDpi \in Nat /\ BaseDpi \in Nat
    BY OcrPlanAssumption
  <1>3. \E dpi \in Fitting(page) : Best(dpi)
    <2> DEFINE below == {BaseDpi - dpi : dpi \in Fitting(page)}
    <2>1. below \subseteq Nat /\ below # {}
      BY <1>1, <1>2
    <2>2. PICK least \in below : \A other \in below : ~(<<other, least>> \in OpToRel(<, Nat))
      BY <2>1, NatLessThanWellFounded, WFMin
    <2>3. \A other \in below : ~(other < least)
      BY <2>1, <2>2 DEF OpToRel
    <2>4. PICK dpi \in Fitting(page) : least = BaseDpi - dpi
      BY <2>2
    <2>5. ASSUME NEW other \in Fitting(page)  PROVE other <= dpi
      <3>1. BaseDpi - other \in below
        OBVIOUS
      <3>2. ~(BaseDpi - other < BaseDpi - dpi)
        BY <2>3, <2>4, <3>1
      <3>3. QED
        BY <1>1, <1>2, <3>2
    <2>6. QED
      BY <2>4, <2>5
  <1>4. (CHOOSE dpi \in Fitting(page) : Best(dpi)) \in Fitting(page)
    BY <1>3
  <1>5. QED
    BY <1>4 DEF PagePlan

\* Where the tiled plan is used, the page can be cut into tiles.
LEMMA TiledPlan ==
  ASSUME NEW page \in Pages, NEW tiled \in BOOLEAN, Plannable(page, tiled),
         tiled \/ Fitting(page) = {}
  PROVE  PagePlan(page, tiled) = Tiled(page) /\ Tileable(page)
  BY DEF Plannable, PagePlan

\* Every row of a page is in one of the images of its plan: no text at the foot
\* of a long page, or at the seam of two tiles, escapes the OCR.
THEOREM EveryRowIsInAnImage ==
  ASSUME NEW page \in Pages, NEW tiled \in BOOLEAN, Plannable(page, tiled)
  PROVE  LET plan == PagePlan(page, tiled)
         IN  \A r \in 0 .. plan.height - 1 : \E i \in 0 .. plan.count - 1 : r \in Rows(plan, i)
  <1> DEFINE plan == PagePlan(page, tiled)
  <1>0. TileOverlap \in Nat /\ MinDpi \in Nat /\ BaseDpi \in Nat /\ Dpis \subseteq Nat
    BY OcrPlanAssumption
  <1>1. CASE ~tiled /\ Fitting(page) # {}
    <2>1. PICK dpi \in Fitting(page) : plan = Single(page, dpi)
      BY <1>1, SinglePlan
    <2>2. HeightAt(page, dpi) \in Nat \ {0}
      BY <1>0, <2>1, SizePositive DEF Fitting
    <2>3. plan.height = HeightAt(page, dpi) /\ plan.tile = HeightAt(page, dpi) /\ plan.count = 1
      BY <2>1 DEF Single
    <2> HIDE DEF plan
    <2>4. Top(plan, 0) = 0 /\ Bottom(plan, 0) = plan.height
      BY <1>0, <2>2, <2>3 DEF Top, Bottom, Least
    <2>5. Rows(plan, 0) = 0 .. plan.height - 1 /\ 0 \in 0 .. plan.count - 1
      BY <2>3, <2>4 DEF Rows
    <2>6. QED
      BY <2>5 DEF plan
  <1>2. CASE tiled \/ Fitting(page) = {}
    <2> DEFINE width == WidthAt(page, MinDpi)
               height == HeightAt(page, MinDpi)
               tile == SafeTileHeight(width)
               count == TileCount(height, tile)
    <2>1. plan = Tiled(page) /\ tile > 2 * TileOverlap
      BY <1>2, TiledPlan DEF Tileable
    <2>2. width \in Nat \ {0} /\ height \in Nat \ {0}
      BY <1>0, SizePositive
    <2>3. plan.height = height /\ plan.tile = tile /\ plan.count = count
      BY <2>1 DEF Tiled
    <2>4. tile \in Nat
      BY <2>2, SafeTileBounds
    <2> HIDE DEF width, tile, plan
    <2>5. count \in Nat \ {0} /\ height <= (count - 1) * (tile - TileOverlap) + tile
      BY <2>1, <2>2, <2>4, TilesReachTheEnd
    <2> HIDE DEF height, count
    <2>6. tile - TileOverlap \in Nat \ {0} /\ tile - TileOverlap <= tile
      BY <1>0, <2>1, <2>4
    <2>7. SUFFICES ASSUME NEW r \in 0 .. height - 1
                   PROVE  \E i \in 0 .. count - 1 : r \in Rows(plan, i)
      BY <2>3 DEF plan
    <2>8. PICK i \in 0 .. count - 1 :
            /\ i * (tile - TileOverlap) <= r
            /\ r < i * (tile - TileOverlap) + Least(tile, height - i * (tile - TileOverlap))
      BY <2>2, <2>4, <2>5, <2>6, RowInTile
    <2>9. Top(plan, i) = i * (tile - TileOverlap)
      BY <2>3 DEF Top
    <2>10. Bottom(plan, i) = Top(plan, i) + Least(tile, height - Top(plan, i))
      BY <2>3 DEF Bottom
    <2>11. Top(plan, i) \in Int /\ Bottom(plan, i) \in Int
      BY <2>2, <2>4, <2>5, <2>6, <2>8, <2>9, <2>10 DEF Least
    <2>12. r \in Rows(plan, i)
      BY <2>8, <2>9, <2>10, <2>11 DEF Rows
    <2>13. QED
      BY <2>12
  <1>3. QED
    BY <1>1, <1>2

\* No image of a plan is wider, higher or larger than the tools are allowed.
THEOREM EveryImageIsWithinLimits ==
  ASSUME NEW page \in Pages, NEW tiled \in BOOLEAN, Plannable(page, tiled)
  PROVE  LET plan == PagePlan(page, tiled)
         IN  /\ plan.width <= MaxImageDimension /\ plan.tile <= MaxImageDimension
             /\ plan.width * plan.tile <= MaxPagePixels
  <1> DEFINE plan == PagePlan(page, tiled)
  <1>1. CASE ~tiled /\ Fitting(page) # {}
    <2>1. PICK dpi \in Fitting(page) : plan = Single(page, dpi)
      BY <1>1, SinglePlan
    <2>2. QED
      BY <2>1 DEF Single, Fitting, FitsSingleImage
  <1>2. CASE tiled \/ Fitting(page) = {}
    <2>1. plan = Tiled(page) /\ WidthAt(page, MinDpi) <= MaxImageDimension
      BY <1>2, TiledPlan DEF Tileable
    <2>2. WidthAt(page, MinDpi) \in Nat \ {0}
      BY OcrPlanAssumption, SizePositive
    <2>3. QED
      BY <2>1, <2>2, SafeTileBounds DEF Tiled
  <1>3. QED
    BY <1>1, <1>2

-----------------------------------------------------------------------------
(* The images of a plan, one after the other, and the plan of a document.  *)

\* Every image but the last has the full height of a tile and reaches into the
\* next; the last ends with the page.
FitPlan(plan) ==
  /\ plan \in [strategy : Strategies, width : Nat, height : Nat, tile : Nat, count : Nat]
  /\ plan.height > 0 /\ plan.count > 0
  /\ plan.width <= MaxImageDimension /\ plan.tile <= MaxImageDimension
  /\ plan.width * plan.tile <= MaxPagePixels
  /\ \A i \in 0 .. plan.count - 1 :
       /\ Top(plan, i) \in Nat /\ Top(plan, i) <= plan.height
       /\ Bottom(plan, i) = IF i = plan.count - 1 THEN plan.height ELSE Top(plan, i) + plan.tile
       /\ i > 0 => Top(plan, i) <= Bottom(plan, i - 1) /\ Bottom(plan, i - 1) <= Bottom(plan, i)
  /\ Top(plan, plan.count - 1) = (plan.count - 1) * (plan.tile - TileOverlap)
  /\ Projected(plan) = plan.width * plan.height + plan.width * (TileOverlap * (plan.count - 1))

\* The last tile begins before the rows that the tile above it shares with it end.
LEMMA LastTileIsNeeded ==
  ASSUME NEW height \in Nat \ {0}, NEW tile \in Nat, tile > 2 * TileOverlap,
         TileCount(height, tile) > 1
  PROVE  (TileCount(height, tile) - 1) * (tile - TileOverlap) < height - TileOverlap
<1> DEFINE step == tile - TileOverlap
           rest == Most(height - TileOverlap, 1)
           count == TileCount(height, tile)
<1>1. TileOverlap \in Nat
  BY OcrPlanAssumption
<1>2. step \in Nat \ {0} /\ rest \in Nat \ {0}
  BY <1>1 DEF Most
<1>3. count = Most(1, CeilDiv(rest, step)) /\ CeilDiv(rest, step) \in Nat
  BY <1>2, CeilDivBounds DEF TileCount
<1>4. rest = height - TileOverlap \/ rest = 1
  BY <1>1 DEF Most
<1>5. rest + step - 1 \in Nat /\ CeilDiv(rest, step) = (rest + step - 1) \div step
  BY <1>2 DEF CeilDiv
<1>6. count > 1
  OBVIOUS
<1> HIDE DEF rest, step, count
<1>7. count = CeilDiv(rest, step) /\ count \in Nat
  BY <1>3, <1>6 DEF Most
<1>8. step * count <= rest + step - 1
  BY <1>2, <1>5, <1>7, DivBounds
<1>9. step * count = (count - 1) * step + step
  BY <1>2, <1>7
<1>10. (count - 1) * step \in Nat
  BY <1>2, <1>6, <1>7
<1>11. (count - 1) * step < rest
  BY <1>2, <1>8, <1>9, <1>10
<1>12. rest # 1
  <2>1. (count - 1) * step >= step
    <3>1. count - 1 \in Nat /\ count - 1 >= 1
      BY <1>6, <1>7
    <3>2. \A a \in Nat : a >= 1 => a * step >= step
      BY <1>2
    <3> QED BY <3>1, <3>2
  <2> QED BY <1>2, <1>10, <1>11, <2>1
<1> QED BY <1>4, <1>11, <1>12 DEF step, count

\* Each plan the code can make is of that kind.
LEMMA PlanFits ==
  ASSUME NEW page \in Pages, NEW tiled \in BOOLEAN, Plannable(page, tiled)
  PROVE  FitPlan(PagePlan(page, tiled))
<1> DEFINE plan == PagePlan(page, tiled)
<1>0. TileOverlap \in Nat /\ MinDpi \in Nat /\ BaseDpi \in Nat /\ Dpis \subseteq Nat
  BY OcrPlanAssumption
<1>1. /\ plan.width <= MaxImageDimension /\ plan.tile <= MaxImageDimension
      /\ plan.width * plan.tile <= MaxPagePixels
  BY EveryImageIsWithinLimits
<1>2. CASE ~tiled /\ Fitting(page) # {}
  <2>1. PICK dpi \in Fitting(page) : plan = Single(page, dpi)
    BY <1>2, SinglePlan
  <2>2. WidthAt(page, dpi) \in Nat \ {0} /\ HeightAt(page, dpi) \in Nat \ {0}
    BY <1>0, <2>1, SizePositive DEF Fitting
  <2>3. /\ plan \in [strategy : Strategies, width : Nat, height : Nat, tile : Nat, count : Nat]
        /\ plan.height = plan.tile /\ plan.count = 1 /\ plan.strategy # "tiled" /\ plan.height > 0
    BY <2>1, <2>2 DEF Single, Strategies
  <2> HIDE DEF plan
  <2>4. Top(plan, 0) = 0 /\ Bottom(plan, 0) = plan.height
    BY <1>0, <2>3 DEF Top, Bottom, Least
  <2>5. Projected(plan) = plan.width * plan.height + plan.width * (TileOverlap * (plan.count - 1))
    BY <1>0, <2>3 DEF Projected
  <2>6. \A i \in 0 .. plan.count - 1 : i = 0
    BY <2>3
  <2>7. (plan.count - 1) * (plan.tile - TileOverlap) = 0
    BY <1>0, <2>3
  <2> QED BY <1>1, <2>3, <2>4, <2>5, <2>6, <2>7 DEF FitPlan, plan
<1>3. CASE tiled \/ Fitting(page) = {}
  <2> DEFINE width == WidthAt(page, MinDpi)
             height == HeightAt(page, MinDpi)
             tile == SafeTileHeight(width)
             count == TileCount(height, tile)
             step == tile - TileOverlap
  <2>1. plan = Tiled(page) /\ tile > 2 * TileOverlap
    BY <1>3, TiledPlan DEF Tileable
  <2>2. width \in Nat \ {0} /\ height \in Nat \ {0} /\ tile \in Nat
    BY <1>0, SizePositive, SafeTileBounds
  <2>3. /\ plan.strategy = "tiled" /\ plan.width = width /\ plan.height = height
        /\ plan.tile = tile /\ plan.count = count
        /\ plan = [strategy |-> "tiled", width |-> width, height |-> height, tile |-> tile, count |-> count]
    BY <2>1 DEF Tiled
  <2> HIDE DEF width, height, tile, plan
  <2>4. count \in Nat \ {0} /\ height <= (count - 1) * step + tile
    BY <2>1, <2>2, TilesReachTheEnd
  <2>5. count > 1 => (count - 1) * step < height - TileOverlap
    BY <2>1, <2>2, LastTileIsNeeded
  <2>6. step \in Nat /\ tile = step + TileOverlap
    BY <1>0, <2>1, <2>2
  <2> HIDE DEF count, step
  <2>7. plan \in [strategy : Strategies, width : Nat, height : Nat, tile : Nat, count : Nat]
    BY <2>2, <2>3, <2>4 DEF Strategies
  <2>8. ASSUME NEW i \in 0 .. count - 1
        PROVE  /\ Top(plan, i) = i * step /\ i * step \in Nat
               /\ i * step <= (count - 1) * step /\ (count - 1) * step \in Nat
               /\ i < count - 1 => i * step + step <= (count - 1) * step
    <3>1. Top(plan, i) = i * step
      BY <2>3, <2>6 DEF Top, step
    <3>2. i \in Nat /\ count - 1 \in Nat /\ i <= count - 1
      BY <2>4
    <3>3. \A a, b \in Nat : a <= b => a * step <= b * step
      BY <2>6
    <3>4. \A a \in Nat : a * step \in Nat /\ (a + 1) * step = a * step + step
      BY <2>6
    <3>5. i < count - 1 => (i + 1) * step <= (count - 1) * step
      BY <3>2, <3>3
    <3> QED BY <3>1, <3>2, <3>3, <3>4, <3>5
  <2>9. ASSUME NEW i \in 0 .. count - 1
        PROVE  /\ Top(plan, i) \in Nat /\ Top(plan, i) <= height
               /\ Bottom(plan, i) = IF i = count - 1 THEN height ELSE Top(plan, i) + tile
    <3>1. Bottom(plan, i) = Top(plan, i) + Least(tile, height - Top(plan, i))
      BY <2>3 DEF Bottom
    <3>2. CASE i = count - 1
      <4>1. Top(plan, i) <= height
        <5>1. CASE count > 1
          BY <1>0, <2>2, <2>5, <2>8, <3>2, <5>1
        <5>2. CASE ~(count > 1)
          <6>1. i = 0
            BY <2>4, <3>2, <5>2
          <6>2. i * step = 0
            BY <2>6, <6>1
          <6> QED BY <2>2, <2>8, <6>2
        <5> QED BY <5>1, <5>2
      <4>2. height - Top(plan, i) <= tile
        BY <2>2, <2>4, <2>8, <3>2
      <4>3. Least(tile, height - Top(plan, i)) = height - Top(plan, i)
        BY <2>2, <2>8, <4>2 DEF Least
      <4> QED BY <2>2, <2>8, <3>1, <3>2, <4>1, <4>3
    <3>3. CASE i # count - 1
      <4>1. i < count - 1 /\ count > 1
        BY <2>4, <3>3
      <4>2. i * step + tile < height
        BY <1>0, <2>2, <2>5, <2>6, <2>8, <4>1
      <4>3. Least(tile, height - Top(plan, i)) = tile
        BY <2>2, <2>8, <4>2 DEF Least
      <4> QED BY <2>2, <2>8, <3>1, <3>3, <4>2, <4>3
    <3> QED BY <3>2, <3>3
  <2>10. ASSUME NEW i \in 0 .. count - 1, i > 0
         PROVE  Top(plan, i) <= Bottom(plan, i - 1) /\ Bottom(plan, i - 1) <= Bottom(plan, i)
    <3>1. i - 1 \in 0 .. count - 1 /\ i - 1 # count - 1 /\ i \in Nat
      BY <2>4, <2>10
    <3>2. Bottom(plan, i - 1) = (i - 1) * step + tile
      BY <2>8, <2>9, <3>1
    <3>3. i * step = (i - 1) * step + step /\ (i - 1) * step \in Nat
      BY <2>6, <3>1
    <3>4. Bottom(plan, i - 1) = Top(plan, i) + TileOverlap
      BY <1>0, <2>6, <2>8, <3>2, <3>3
    <3>5. CASE i = count - 1
      <4>1. Top(plan, i) < height - TileOverlap
        BY <2>4, <2>5, <2>8, <2>10, <3>5
      <4> QED BY <1>0, <2>2, <2>9, <3>4, <3>5, <4>1
    <3>6. CASE i # count - 1
      BY <1>0, <2>1, <2>2, <2>9, <3>4, <3>6
    <3> QED BY <1>0, <2>9, <3>4, <3>5, <3>6
  <2>11. Projected(plan) = plan.width * plan.height + plan.width * (TileOverlap * (plan.count - 1))
    <3>1. \A a, b, c \in Nat : a * b * c = a * (b * c)
      OBVIOUS
    <3>2. width * TileOverlap * (count - 1) = width * (TileOverlap * (count - 1))
      BY <1>0, <2>2, <2>4, <3>1
    <3> QED BY <2>3, <3>2 DEF Projected
  <2>12. Top(plan, count - 1) = (count - 1) * (tile - TileOverlap)
    BY <2>3 DEF Top
  <2>13. height > 0 /\ count > 0
    BY <2>2, <2>4
  <2> QED BY <1>1, <2>3, <2>7, <2>9, <2>10, <2>11, <2>12, <2>13 DEF FitPlan, plan
<1> QED BY <1>2, <1>3

\* What the plans of the first n pages draw, added up page by page.
SumsTo(ps, m, sum) ==
  /\ sum \in [0 .. m -> Nat]
  /\ \A n \in 0 .. m : sum[n] = IF n = 0 THEN 0 ELSE sum[n - 1] + Projected(ps[n])

\* A set of numbers that is not empty has a least one.
LEMMA LeastExists ==
  ASSUME NEW S, S \subseteq Nat, S # {}
  PROVE  \E x \in S : \A y \in S : x <= y
<1> DEFINE Less == {p \in Nat \X Nat : p[1] < p[2]}
<1>1. IsWellFoundedOn(Less, Nat)
  BY NatLessThanWellFounded DEF OpToRel, Less
<1>2. PICK x \in S : \A y \in S : <<y, x>> \notin Less
  BY <1>1, WFMin
<1>3. ASSUME NEW y \in S PROVE x <= y
  <2>1. x \in Nat /\ y \in Nat /\ <<y, x>> \notin Less
    BY <1>2
  <2>2. ~(y < x)
    BY <2>1
  <2> QED BY <2>1, <2>2
<1> QED BY <1>3

\* The sums exist, so the recursive function is what it says.
LEMMA SumsExist ==
  ASSUME NEW ps, NEW len \in Nat, \A n \in 1 .. len : Projected(ps[n]) \in Nat
  PROVE  \E sum : SumsTo(ps, len, sum)
<1> DEFINE Bad == {m \in 0 .. len : ~ \E sum : SumsTo(ps, m, sum)}
<1>1. SUFFICES ASSUME Bad # {} PROVE FALSE
  BY DEF Bad
<1>2. PICK m \in Bad : \A k \in Bad : m <= k
  <2>1. Bad \subseteq Nat /\ Bad # {}
    BY <1>1
  <2> HIDE DEF Bad
  <2> QED BY <2>1, LeastExists
<1>3. m \in 0 .. len /\ ~ \E sum : SumsTo(ps, m, sum)
  BY <1>2
<1>4. m # 0
  <2>1. SumsTo(ps, 0, [n \in 0 .. 0 |-> 0])
    BY DEF SumsTo
  <2> QED BY <1>3, <2>1
<1>5. m - 1 \in 0 .. len /\ m - 1 \notin Bad /\ m \in Nat \ {0}
  BY <1>2, <1>3, <1>4
<1>6. PICK sum : SumsTo(ps, m - 1, sum)
  BY <1>5
<1> DEFINE longer == [n \in 0 .. m |-> IF n = m THEN sum[m - 1] + Projected(ps[m]) ELSE sum[n]]
<1>7. sum[m - 1] \in Nat /\ Projected(ps[m]) \in Nat
  BY <1>3, <1>5, <1>6 DEF SumsTo
<1>8. longer \in [0 .. m -> Nat]
  BY <1>5, <1>6, <1>7 DEF SumsTo
<1>9. ASSUME NEW n \in 0 .. m
      PROVE  longer[n] = IF n = 0 THEN 0 ELSE longer[n - 1] + Projected(ps[n])
  <2>1. CASE n = m
    BY <1>5, <2>1
  <2>2. CASE n # m
    <3>1. n \in 0 .. m - 1 /\ (n # 0 => n - 1 \in 0 .. m /\ n - 1 # m)
      BY <1>5, <2>2
    <3> QED BY <1>6, <2>2, <3>1 DEF SumsTo
  <2> QED BY <2>1, <2>2
<1>10. SumsTo(ps, m, longer)
  <2> HIDE DEF longer
  <2> QED BY <1>8, <1>9 DEF SumsTo
<1> QED BY <1>3, <1>10

\* PixelsUpTo adds the pages up.
LEMMA PixelsAddUp ==
  ASSUME NEW ps, Len(ps) \in Nat, \A n \in 1 .. Len(ps) : Projected(ps[n]) \in Nat
  PROVE  SumsTo(ps, Len(ps), PixelsUpTo(ps))
<1> DEFINE Adds(sum) == sum = [n \in 0 .. Len(ps) |-> IF n = 0 THEN 0 ELSE sum[n - 1] + Projected(ps[n])]
<1>1. PICK sum : SumsTo(ps, Len(ps), sum)
  BY SumsExist
<1>2. Adds(sum)
  BY <1>1 DEF SumsTo
<1>3. PixelsUpTo(ps) = CHOOSE f : Adds(f)
  BY DEF PixelsUpTo
<1>4. Adds(PixelsUpTo(ps))
  BY <1>2, <1>3
<1> DEFINE f == PixelsUpTo(ps)
<1> HIDE DEF f
<1>5. f = [n \in 0 .. Len(ps) |-> IF n = 0 THEN 0 ELSE f[n - 1] + Projected(ps[n])]
  BY <1>4 DEF f
<1>6. DOMAIN f = 0 .. Len(ps) /\ \A n \in 0 .. Len(ps) : f[n] = IF n = 0 THEN 0 ELSE f[n - 1] + Projected(ps[n])
  BY <1>5
<1>7. \A n \in 0 .. Len(ps) : f[n] = sum[n]
  <2> DEFINE Bad == {n \in 0 .. Len(ps) : f[n] # sum[n]}
  <2>1. SUFFICES ASSUME Bad # {} PROVE FALSE
    OBVIOUS
  <2>2. PICK m \in Bad : \A k \in Bad : m <= k
    <3>1. Bad \subseteq Nat /\ Bad # {}
      BY <2>1
    <3> HIDE DEF Bad
    <3> QED BY <3>1, LeastExists
  <2>3. m \in 0 .. Len(ps) /\ f[m] # sum[m]
    BY <2>2
  <2>4. m # 0
    BY <1>1, <1>6, <2>3 DEF SumsTo
  <2>5. m - 1 \in 0 .. Len(ps) /\ m - 1 \notin Bad
    BY <2>2, <2>3, <2>4
  <2>6. f[m - 1] = sum[m - 1]
    BY <2>5
  <2> QED BY <1>1, <1>6, <2>3, <2>4, <2>6 DEF SumsTo
<1>8. f = sum
  <2>1. DOMAIN sum = 0 .. Len(ps) /\ sum = [n \in 0 .. Len(ps) |-> sum[n]]
    BY <1>1 DEF SumsTo
  <2>2. f = [n \in 0 .. Len(ps) |-> f[n]]
    BY <1>5, <1>6
  <2> QED BY <1>7, <2>1, <2>2
<1> QED BY <1>1, <1>8 DEF f

PlanRecord == [strategy : Strategies, width : Nat, height : Nat, tile : Nat, count : Nat]

\* A document that is supported has a plan for each page, within its limit.
LEMMA DocumentFits ==
  ASSUME NEW p \in PDFs, NEW tiled \in BOOLEAN, Supported(PagesOf[p], tiled)
  PROVE  LET ps == DocumentPlan(PagesOf[p], tiled)
         IN  /\ ps \in Seq(PlanRecord) /\ ps # <<>> /\ DOMAIN ps = 1 .. Len(ps) /\ Len(ps) \in Nat
             /\ \A i \in DOMAIN ps : FitPlan(ps[i])
             /\ SumsTo(ps, Len(ps), PixelsUpTo(ps))
             /\ PixelsUpTo(ps)[Len(ps)] <= MaxDocumentPixels
<1> DEFINE ps == DocumentPlan(PagesOf[p], tiled)
<1>1. PagesOf[p] \in Seq(Pages) /\ PagesOf[p] # <<>>
  BY ExtractorAssumption DEF Supported
<1>2. /\ DOMAIN ps = 1 .. Len(PagesOf[p]) /\ Len(PagesOf[p]) \in Nat
      /\ \A i \in DOMAIN ps : PagesOf[p][i] \in Pages /\ ps[i] = PagePlan(PagesOf[p][i], tiled)
  BY <1>1, LenProperties, ElementOfSeq DEF DocumentPlan
<1>3. ASSUME NEW i \in DOMAIN ps PROVE FitPlan(ps[i])
  <2>1. Plannable(PagesOf[p][i], tiled)
    BY <1>1, <1>2, LenProperties DEF Supported
  <2> QED BY <1>2, <2>1, PlanFits
<1>4. ps \in [1 .. Len(PagesOf[p]) -> PlanRecord]
  <2>1. \A i \in DOMAIN ps : ps[i] \in PlanRecord
    BY <1>3 DEF FitPlan, PlanRecord
  <2>2. ps = [i \in 1 .. Len(PagesOf[p]) |-> ps[i]]
    BY <1>1, LenProperties DEF DocumentPlan
  <2> HIDE DEF ps
  <2> QED BY <1>2, <2>1, <2>2
<1>5. ps \in Seq(PlanRecord) /\ Len(ps) = Len(PagesOf[p])
  <2> HIDE DEF ps
  <2> QED BY <1>2, <1>4
<1>6. Len(ps) # 0
  <2> HIDE DEF ps
  <2> QED BY <1>1, <1>5, EmptySeq
<1>7. \A i \in 1 .. Len(ps) : Projected(ps[i]) \in Nat
  <2> SUFFICES ASSUME NEW i \in 1 .. Len(ps) PROVE Projected(ps[i]) \in Nat
    OBVIOUS
  <2> DEFINE plan == ps[i]
  <2>1. FitPlan(plan)
    BY <1>2, <1>3, <1>5
  <2> HIDE DEF plan
  <2>2. plan.width \in Nat /\ plan.height \in Nat /\ plan.count - 1 \in Nat /\ TileOverlap \in Nat
    BY <2>1, OcrPlanAssumption DEF FitPlan
  <2>3. \A a, b \in Nat : a * b \in Nat
    OBVIOUS
  <2>4. TileOverlap * (plan.count - 1) \in Nat
    BY <2>2, <2>3
  <2>5. plan.width * plan.height \in Nat /\ plan.width * (TileOverlap * (plan.count - 1)) \in Nat
    BY <2>2, <2>3, <2>4
  <2>6. Projected(plan) \in Nat
    BY <2>1, <2>5 DEF FitPlan
  <2> QED BY <2>6 DEF plan
<1>8. SumsTo(ps, Len(ps), PixelsUpTo(ps))
  <2> HIDE DEF ps
  <2> QED BY <1>2, <1>5, <1>7, PixelsAddUp
<1>9. PixelsUpTo(ps)[Len(ps)] <= MaxDocumentPixels
  BY DEF Supported, DocumentPixels
<1>10. ps # <<>>
  <2> HIDE DEF ps
  <2> QED BY <1>6
<1> HIDE DEF ps
<1>11. DOMAIN ps = 1 .. Len(ps) /\ Len(ps) \in Nat
  BY <1>2, <1>5
<1> QED BY <1>3, <1>5, <1>8, <1>9, <1>10, <1>11 DEF ps

-----------------------------------------------------------------------------
(* How far a plan was carried out.                                         *)

\* All rows of the first n pages.
RowsBefore(ps, n) == UNION {{i} \X (0 .. ps[i].height - 1) : i \in 1 .. n}

\* The row at which the images before this one end.
Seam(plan, number) == IF number = 0 THEN 0 ELSE Bottom(plan, number - 1)

\* The images before this one were read.
ReadTo(ps, im, dr) ==
  /\ im.page \in DOMAIN ps /\ im.number \in 0 .. ps[im.page].count - 1
  /\ dr.rows = RowsBefore(ps, im.page - 1) \union ({im.page} \X (0 .. Seam(ps[im.page], im.number) - 1))
  /\ dr.pixels = PixelsUpTo(ps)[im.page - 1] + ps[im.page].width * (ps[im.page].tile * im.number)

\* All of them were.
ReadAll(ps, dr) ==
  /\ dr.rows = RowsBefore(ps, Len(ps))
  /\ dr.pixels = PixelsUpTo(ps)[Len(ps)]

\* A plan begins with its first image, and nothing read.
LEMMA DrawBegins ==
  ASSUME NEW p \in PDFs, NEW tiled \in BOOLEAN, Supported(PagesOf[p], tiled)
  PROVE  ReadTo(DocumentPlan(PagesOf[p], tiled), First, NoRows)
<1> DEFINE ps == DocumentPlan(PagesOf[p], tiled)
<1>1. /\ ps \in Seq(PlanRecord) /\ ps # <<>> /\ DOMAIN ps = 1 .. Len(ps) /\ Len(ps) \in Nat
      /\ \A i \in DOMAIN ps : FitPlan(ps[i])
      /\ SumsTo(ps, Len(ps), PixelsUpTo(ps))
  BY DocumentFits
<1> HIDE DEF ps
<1>2. 1 \in DOMAIN ps
  BY <1>1
<1>3. ps[1].count \in Nat \ {0} /\ ps[1].width * (ps[1].tile * 0) = 0
  BY <1>1, <1>2 DEF FitPlan
<1>4. PixelsUpTo(ps)[0] = 0
  BY <1>1 DEF SumsTo
<1>5. RowsBefore(ps, 0) = {} /\ {1} \X (0 .. Seam(ps[1], 0) - 1) = {}
  BY DEF RowsBefore, Seam
<1> QED BY <1>2, <1>3, <1>4, <1>5 DEF ReadTo, First, NoRows, ps

\* The number of rows an image shows.
LEMMA RowsOfImage ==
  ASSUME NEW plan, FitPlan(plan), NEW i \in 0 .. plan.count - 1
  PROVE  /\ Rows(plan, i) \subseteq Nat
         /\ Cardinality(Rows(plan, i)) = Bottom(plan, i) - Top(plan, i)
         /\ (0 .. Seam(plan, i) - 1) \union Rows(plan, i) = 0 .. Bottom(plan, i) - 1
         /\ Bottom(plan, i) \in Nat
<1>1. /\ Top(plan, i) \in Nat /\ Top(plan, i) <= plan.height
      /\ Bottom(plan, i) = IF i = plan.count - 1 THEN plan.height ELSE Top(plan, i) + plan.tile
      /\ i > 0 => Top(plan, i) <= Bottom(plan, i - 1) /\ Bottom(plan, i - 1) <= Bottom(plan, i)
      /\ plan.height \in Nat /\ plan.tile \in Nat /\ plan.count \in Nat
  BY DEF FitPlan
<1>2. Bottom(plan, i) \in Nat /\ Top(plan, i) <= Bottom(plan, i)
  BY <1>1
<1>3. Cardinality(Rows(plan, i)) = Bottom(plan, i) - Top(plan, i)
  <2>1. Cardinality(Top(plan, i) .. Bottom(plan, i) - 1)
          = IF Top(plan, i) > Bottom(plan, i) - 1 THEN 0 ELSE Bottom(plan, i) - 1 - Top(plan, i) + 1
    <3>1. \A a, b \in Int : Cardinality(a .. b) = IF a > b THEN 0 ELSE b - a + 1
      BY FS_Interval
    <3>2. Top(plan, i) \in Int /\ Bottom(plan, i) - 1 \in Int
      BY <1>1, <1>2
    <3> QED BY <3>1, <3>2
  <2> QED BY <1>1, <1>2, <2>1 DEF Rows
<1>4. Rows(plan, i) \subseteq Nat
  BY <1>1, <1>2 DEF Rows
<1>5. (0 .. Seam(plan, i) - 1) \union Rows(plan, i) = 0 .. Bottom(plan, i) - 1
  <2>1. CASE i = 0
    <3>1. Top(plan, i) = 0
      BY <1>1, <2>1, OcrPlanAssumption DEF Top
    <3> QED BY <2>1, <3>1 DEF Seam, Rows
  <2>2. CASE i # 0
    <3>1. i > 0 /\ i - 1 \in 0 .. plan.count - 1 /\ i - 1 # plan.count - 1
      BY <1>1, <2>2
    <3>2. Bottom(plan, i - 1) \in Nat
      BY <1>1, <3>1 DEF FitPlan
    <3> QED BY <1>1, <1>2, <2>2, <3>1, <3>2 DEF Seam, Rows
  <2> QED BY <2>1, <2>2
<1> QED BY <1>2, <1>3, <1>4, <1>5

\* What the images of a page draw together: the page, and each overlap twice.
LEMMA PixelsOfPage ==
  ASSUME NEW plan, FitPlan(plan)
  PROVE  LET last == plan.count - 1
         IN  plan.width * (plan.tile * last) + plan.width * (Bottom(plan, last) - Top(plan, last))
               = Projected(plan)
<1> DEFINE last == plan.count - 1
<1>1. /\ plan.width \in Nat /\ plan.height \in Nat /\ plan.tile \in Nat /\ last \in Nat
      /\ TileOverlap \in Nat
  BY OcrPlanAssumption DEF FitPlan
<1>2. /\ Bottom(plan, last) = plan.height /\ Top(plan, last) = last * (plan.tile - TileOverlap)
      /\ Top(plan, last) \in Nat
      /\ Projected(plan) = plan.width * plan.height + plan.width * (TileOverlap * last)
  BY <1>1 DEF FitPlan
<1> HIDE DEF last
<1>3. \A a \in Nat, b, c \in Int : a * (b + c) = a * b + a * c
  OBVIOUS
<1>4. last * (plan.tile - TileOverlap) = plan.tile * last - TileOverlap * last
  BY <1>1
<1>5. plan.tile * last \in Nat /\ TileOverlap * last \in Nat
  BY <1>1
<1>6. plan.tile * last + (plan.height - Top(plan, last)) = plan.height + TileOverlap * last
  BY <1>1, <1>2, <1>4, <1>5
<1>7. plan.width * (plan.tile * last) + plan.width * (plan.height - Top(plan, last))
        = plan.width * (plan.height + TileOverlap * last)
  <2>1. plan.height - Top(plan, last) \in Int /\ plan.tile * last \in Int
    BY <1>1, <1>2, <1>5
  <2> QED BY <1>1, <1>3, <1>6, <2>1
<1>8. plan.width * (plan.height + TileOverlap * last) = plan.width * plan.height + plan.width * (TileOverlap * last)
  BY <1>1, <1>3, <1>5
<1> QED BY <1>2, <1>7, <1>8 DEF last

\* Reading an image leads to the next one, to the next page, or to the end.
LEMMA DrawAdvances ==
  ASSUME NEW p \in PDFs, NEW tiled \in BOOLEAN, Supported(PagesOf[p], tiled),
         NEW im \in [page : Nat, number : Nat], NEW dr, dr.rows \subseteq Nat \X Nat, dr.pixels \in Nat,
         ReadTo(DocumentPlan(PagesOf[p], tiled), im, dr)
  PROVE  LET ps == DocumentPlan(PagesOf[p], tiled)
             plan == ps[im.page]
             more == [rows |-> dr.rows \union ({im.page} \X Rows(plan, im.number)),
                      pixels |-> dr.pixels + plan.width * Cardinality(Rows(plan, im.number))]
         IN  /\ more.rows \subseteq Nat \X Nat /\ more.pixels \in Nat
             /\ im.number + 1 < plan.count => ReadTo(ps, [im EXCEPT !.number = @ + 1], more)
             /\ ~(im.number + 1 < plan.count) /\ im.page # Len(ps) =>
                  ReadTo(ps, [page |-> im.page + 1, number |-> 0], more)
             /\ im.page = Len(ps) /\ im.number = plan.count - 1 => ReadAll(ps, more)
<1> DEFINE ps == DocumentPlan(PagesOf[p], tiled)
           plan == ps[im.page]
           page == im.page
           number == im.number
           more == [rows |-> dr.rows \union ({page} \X Rows(plan, number)),
                    pixels |-> dr.pixels + plan.width * Cardinality(Rows(plan, number))]
<1>1. /\ DOMAIN ps = 1 .. Len(ps) /\ Len(ps) \in Nat
      /\ \A i \in DOMAIN ps : FitPlan(ps[i])
      /\ SumsTo(ps, Len(ps), PixelsUpTo(ps))
  BY DocumentFits
<1> HIDE DEF ps
<1>2. /\ page \in DOMAIN ps /\ number \in 0 .. plan.count - 1
      /\ dr.rows = RowsBefore(ps, page - 1) \union ({page} \X (0 .. Seam(plan, number) - 1))
      /\ dr.pixels = PixelsUpTo(ps)[page - 1] + plan.width * (plan.tile * number)
  BY DEF ReadTo, ps
<1>3. FitPlan(plan) /\ page \in 1 .. Len(ps) /\ page \in Nat /\ number \in Nat
  BY <1>1, <1>2
<1>4. /\ plan.width \in Nat /\ plan.tile \in Nat /\ plan.height \in Nat /\ plan.count \in Nat \ {0}
      /\ Top(plan, number) \in Nat
  BY <1>2, <1>3 DEF FitPlan
<1>5. /\ Rows(plan, number) \subseteq Nat
      /\ Cardinality(Rows(plan, number)) = Bottom(plan, number) - Top(plan, number)
      /\ (0 .. Seam(plan, number) - 1) \union Rows(plan, number) = 0 .. Bottom(plan, number) - 1
      /\ Bottom(plan, number) \in Nat
  BY <1>2, <1>3, RowsOfImage
<1>6. PixelsUpTo(ps)[page - 1] \in Nat /\ PixelsUpTo(ps)[page] = PixelsUpTo(ps)[page - 1] + Projected(plan)
  BY <1>1, <1>3 DEF SumsTo
<1>7. Bottom(plan, number) - Top(plan, number) \in Nat
  <2>1. Cardinality(Rows(plan, number)) \in Nat
    <3>1. IsFiniteSet(Rows(plan, number))
      BY <1>4, <1>5, FS_Interval DEF Rows
    <3> QED BY <3>1, FS_CardinalityType
  <2> QED BY <1>5, <2>1
<1> HIDE DEF plan
<1>8. more.rows = RowsBefore(ps, page - 1) \union ({page} \X (0 .. Bottom(plan, number) - 1))
  BY <1>2, <1>5
<1>9. more.pixels = dr.pixels + plan.width * (Bottom(plan, number) - Top(plan, number))
  BY <1>5
<1>10. more.rows \subseteq Nat \X Nat /\ more.pixels \in Nat
  <2>1. plan.width * (Bottom(plan, number) - Top(plan, number)) \in Nat
    BY <1>4, <1>7
  <2>2. more.pixels \in Nat
    BY <1>9, <2>1
  <2> QED BY <1>3, <1>5, <2>2
<1>11. ASSUME number + 1 < plan.count PROVE ReadTo(ps, [im EXCEPT !.number = @ + 1], more)
  <2> DEFINE next == [im EXCEPT !.number = @ + 1]
  <2>1. next.page = page /\ next.number = number + 1 /\ number + 1 \in 0 .. plan.count - 1
    BY <1>3, <1>4, <1>11
  <2>2. Seam(plan, number + 1) = Bottom(plan, number)
    BY <1>3 DEF Seam
  <2>3. Bottom(plan, number) - Top(plan, number) = plan.tile
    <3>1. number # plan.count - 1
      BY <1>3, <1>4, <1>11
    <3>2. Bottom(plan, number) = Top(plan, number) + plan.tile
      BY <1>2, <1>3, <3>1 DEF FitPlan
    <3> QED BY <1>4, <3>2
  <2>4. more.pixels = PixelsUpTo(ps)[page - 1] + plan.width * (plan.tile * (number + 1))
    <3>1. plan.width * (plan.tile * (number + 1)) = plan.width * (plan.tile * number) + plan.width * plan.tile
      <4>1. plan.tile * (number + 1) = plan.tile * number + plan.tile /\ plan.tile * number \in Nat
        BY <1>3, <1>4
      <4>2. \A a, b, c \in Nat : a * (b + c) = a * b + a * c
        OBVIOUS
      <4> QED BY <1>4, <4>1, <4>2
    <3>2. plan.width * (plan.tile * number) \in Nat /\ plan.width * plan.tile \in Nat
      <4>1. \A a, b \in Nat : a * b \in Nat
        OBVIOUS
      <4> QED BY <1>3, <1>4, <4>1
    <3> QED BY <1>2, <1>6, <1>9, <2>3, <3>1, <3>2
  <2> HIDE DEF next, more
  <2> QED BY <1>2, <1>8, <2>1, <2>2, <2>4 DEF ReadTo, plan, next
<1>12. ASSUME number = plan.count - 1
       PROVE  /\ more.rows = RowsBefore(ps, page) /\ more.pixels = PixelsUpTo(ps)[page]
  <2>1. Bottom(plan, number) = plan.height
    BY <1>2, <1>3, <1>12 DEF FitPlan
  <2>2. RowsBefore(ps, page) = RowsBefore(ps, page - 1) \union ({page} \X (0 .. plan.height - 1))
    <3>1. 1 .. page = (1 .. page - 1) \union {page}
      BY <1>3
    <3> QED BY <3>1 DEF RowsBefore, plan
  <2>3. plan.width * (plan.tile * number) + plan.width * (Bottom(plan, number) - Top(plan, number)) = Projected(plan)
    BY <1>3, <1>12, PixelsOfPage
  <2>4. plan.width * (plan.tile * number) \in Nat /\ plan.width * (Bottom(plan, number) - Top(plan, number)) \in Nat
    <3>1. \A a, b \in Nat : a * b \in Nat
      OBVIOUS
    <3> QED BY <1>3, <1>4, <1>7, <3>1
  <2>5. more.pixels = PixelsUpTo(ps)[page]
    BY <1>2, <1>6, <1>9, <2>3, <2>4
  <2> QED BY <1>8, <2>1, <2>2, <2>5
<1>13. ASSUME ~(number + 1 < plan.count), page # Len(ps)
       PROVE  ReadTo(ps, [page |-> page + 1, number |-> 0], more)
  <2> DEFINE next == [page |-> page + 1, number |-> 0]
  <2>1. number = plan.count - 1
    BY <1>2, <1>3, <1>4, <1>13
  <2>2. page + 1 \in DOMAIN ps /\ page + 1 - 1 = page
    BY <1>1, <1>3, <1>13
  <2>3. ps[page + 1].width \in Nat /\ ps[page + 1].tile \in Nat /\ ps[page + 1].count \in Nat \ {0}
    BY <1>1, <2>2 DEF FitPlan
  <2>4. ps[page + 1].width * (ps[page + 1].tile * 0) = 0 /\ 0 \in 0 .. ps[page + 1].count - 1
    BY <2>3
  <2>5. {page + 1} \X (0 .. Seam(ps[page + 1], 0) - 1) = {}
    BY DEF Seam
  <2>6. PixelsUpTo(ps)[page] \in Nat
    BY <1>1, <1>3 DEF SumsTo
  <2>7. next.page = page + 1 /\ next.number = 0
    OBVIOUS
  <2> HIDE DEF next, more
  <2> QED BY <1>12, <2>1, <2>2, <2>4, <2>5, <2>6, <2>7 DEF ReadTo, next
<1>14. page = Len(ps) /\ number = plan.count - 1 => ReadAll(ps, more)
  BY <1>12 DEF ReadAll
<1> HIDE DEF more
<1> QED BY <1>10, <1>11, <1>13, <1>14 DEF ps, plan, more

-----------------------------------------------------------------------------
(* The cache.                                                              *)

\* The PDF a batch is at.
Current(p) == at <= Len(batch) /\ p = batch[at]

(***************************************************************************)
(* The inductive invariant.  No entry of the cache is newer than the       *)
(* release; the errors noted for the current PDF have a cause in it; the   *)
(* text that is being written is whole, or a text that was cut before.     *)
(***************************************************************************)
CacheFits ==
  /\ meta \in [PDFs -> [status : {"none", "success", "failed"}, version : Nat]]
  /\ text \in [PDFs -> Texts]
  /\ version \in Nat
  /\ \A p \in PDFs : meta[p].version <= version

\* Phases in which nothing has been tried yet, and those in which pdftotext was.
Untried == {"idle", "look", "direct"}
Tried == {"probe", "ocrmypdf", "plan", "draw", "judge", "conclude"}

ErrorsFit ==
  /\ "parse" \notin earlier
  /\ phase \in Untried => errors = {} /\ ~usable
  /\ \A p \in PDFs : Current(p) /\ phase \in Tried =>
       /\ "parse" \in errors => p \in Garbled
       /\ "geometry" \in errors => p \in limited
       /\ errors = {} => DirectText[p] = "poor" \/ usable
       /\ errors = {} /\ phase = "conclude" => ~OcrText[p]

WritesFit ==
  \A p \in PDFs :
    /\ Here("write", p) => /\ copy.text \in Texts
                           /\ copy.text # "whole" => p \in spoiled /\ ~copy.new
    /\ Here("meta", p) => text[p] = "whole"

IInv == CacheFits /\ ErrorsFit /\ WritesFit /\ CacheTellsTheTruth

-----------------------------------------------------------------------------
\* Most steps leave the cache alone and write nothing.
Quiet ==
  /\ UNCHANGED <<meta, text, version, spoiled>>
  /\ limited \subseteq limited'
  /\ phase \notin {"write", "meta"} /\ phase' \notin {"write", "meta"}

\* A step that leaves the cache alone keeps what it says true.
LEMMA QuietKeeps ==
  ASSUME IInv, Quiet
  PROVE  CacheFits' /\ WritesFit' /\ CacheTellsTheTruth'
<1>1. CacheFits'
  BY DEF IInv, CacheFits, Quiet
<1>2. WritesFit'
  BY DEF WritesFit, Here, Quiet
<1>3. CacheTellsTheTruth'
  BY DEF IInv, CacheTellsTheTruth, CachedText, CachedFailure, Says, Here, Quiet
<1> QED BY <1>1, <1>2, <1>3

\* A run that forgets what it found has no errors noted.
LEMMA FreshErrors ==
  ASSUME Fresh, phase' \notin Tried
  PROVE  ErrorsFit'
BY DEF Fresh, ErrorsFit, Tried

\* The errors of the current PDF stay what they were.
LEMMA SameErrors ==
  ASSUME IInv, UNCHANGED <<at, batch, usable, errors, earlier>>, limited \subseteq limited',
         phase \in Tried, phase' \in Tried, phase' # "conclude"
  PROVE  ErrorsFit'
BY DEF IInv, ErrorsFit, Current, Tried, Untried

\* Another error is noted for it.
LEMMA OneMoreError ==
  ASSUME IInv, NEW kinds, NEW p \in PDFs, Current(p), kinds # {}, "parse" \notin kinds,
         "geometry" \in kinds => p \in limited',
         UNCHANGED <<at, batch, usable>>, limited \subseteq limited',
         phase \in Tried, phase' \in Tried, "parse" \notin earlier',
         \/ errors' = errors \union kinds
         \/ "geometry" \in kinds /\ errors' = errors \union kinds \union earlier
  PROVE  ErrorsFit'
<1>1. "parse" \notin earlier
  BY DEF IInv, ErrorsFit
<1>2. errors' # {} /\ ("parse" \in errors' => "parse" \in errors)
  BY <1>1
<1>3. "geometry" \in errors' => p \in limited'
  BY DEF IInv, ErrorsFit
<1>4. \A q \in PDFs : Current(q)' => q = p
  BY DEF Current
<1>5. "parse" \in errors => p \in Garbled
  BY DEF IInv, ErrorsFit
<1> QED BY <1>2, <1>3, <1>4, <1>5 DEF ErrorsFit, Tried, Untried

\* A text is about to be written: one just made, or the one the cache had.
LEMMA BeginKeeps ==
  ASSUME IInv, NEW p \in PDFs, NEW what \in Texts, NEW new \in BOOLEAN, Current(p),
         phase \notin {"write", "meta"}, BeginWrite(p, what, new),
         what # "whole" => p \in spoiled /\ ~new,
         UNCHANGED <<meta, version, errors, earlier, spoiled, limited>>
  PROVE  IInv'
<1>1. /\ phase' = "write" /\ UNCHANGED <<batch, at>>
      /\ text' = [text EXCEPT ![p] = "empty"]
      /\ copy' = [text |-> what, new |-> new]
  BY DEF BeginWrite, Goto
<1>2. CacheFits'
  BY <1>1 DEF IInv, CacheFits, Texts
<1>3. ErrorsFit'
  BY <1>1 DEF IInv, ErrorsFit, Tried, Untried
<1>4. WritesFit'
  BY <1>1 DEF WritesFit, Here, Current
<1>5. CacheTellsTheTruth'
  <2>1. Here("write", p)'
    BY <1>1 DEF Here, Current
  <2>2. ASSUME NEW q \in PDFs, q # p, CachedText(q)' PROVE text[q]' = "whole" \/ q \in spoiled'
    BY <2>2, <1>1 DEF IInv, CacheTellsTheTruth, CachedText, Says, Here, CacheFits
  <2>3. ASSUME NEW q \in PDFs, CachedFailure(q)'
        PROVE ~Readable(q)' \/ q \in Garbled \/ q \in limited'
    BY <2>3 DEF IInv, CacheTellsTheTruth, CachedFailure, Says, Readable
  <2> QED BY <2>1, <2>2, <2>3 DEF CacheTellsTheTruth
<1> QED BY <1>2, <1>3, <1>4, <1>5 DEF IInv

-----------------------------------------------------------------------------
(* Each step keeps the invariant.                                          *)

\* Looking a PDF up in the cache writes nothing.
LEMMA LookUpKeeps ==
  ASSUME IInv, NEW p \in PDFs, LookUp(p)
  PROVE  IInv'
<1>0. Current(p) /\ phase = "look"
  BY DEF LookUp, Here, Current
<1>1. CASE CachedText(p) /\ BeginWrite(p, text[p], FALSE)
           /\ UNCHANGED <<meta, version, errors, earlier>> /\ UNCHANGED <<faults, history>>
  <2>1. text[p] \in Texts
    BY DEF IInv, CacheFits
  <2>2. text[p] # "whole" => p \in spoiled
    BY <1>0, <1>1 DEF IInv, CacheTellsTheTruth, Here
  <2>3. UNCHANGED <<spoiled, limited>>
    BY <1>1 DEF history
  <2> QED BY <1>0, <1>1, <2>1, <2>2, <2>3, BeginKeeps
<1>2. CASE Conclude(p, "content") /\ UNCHANGED disk /\ UNCHANGED <<faults, history>>
  <2>1. Quiet /\ phase' \notin Tried /\ Fresh
    BY <1>0, <1>2 DEF Conclude, NextItem, disk, history, Quiet, Tried
  <2> QED BY <2>1, QuietKeeps, FreshErrors DEF IInv
<1>3. CASE Goto("direct") /\ UNCHANGED <<disk, result, work>> /\ UNCHANGED <<faults, history>>
  <2>1. Quiet
    BY <1>0, <1>3 DEF Goto, disk, history, Quiet
  <2>2. ErrorsFit'
    BY <1>0, <1>3 DEF IInv, ErrorsFit, Goto, work, Untried, Tried
  <2> QED BY <2>1, <2>2, QuietKeeps DEF IInv
<1> QED BY <1>1, <1>2, <1>3 DEF LookUp

\* The direct text is judged before anything is written.
LEMMA DirectKeeps ==
  ASSUME IInv, NEW p \in PDFs, DirectGood(p) \/ DirectPoor(p) \/ DirectFails(p)
  PROVE  IInv'
<1>0. Current(p) /\ phase = "direct" /\ errors = {} /\ ~usable /\ "parse" \notin earlier
  BY DEF DirectGood, DirectPoor, DirectFails, Here, Current, IInv, ErrorsFit, Untried
<1>1. CASE DirectGood(p)
  <2>1. /\ BeginWrite(p, "whole", TRUE)
        /\ UNCHANGED <<meta, version, errors, earlier, spoiled, limited>>
    BY <1>1 DEF DirectGood, history
  <2> QED BY <1>0, <2>1, BeginKeeps DEF Texts
<1>2. CASE DirectPoor(p)
  <2>1. Quiet
    BY <1>0, <1>2 DEF DirectPoor, Goto, disk, history, Quiet
  <2>2. /\ UNCHANGED <<batch, at, earlier>> /\ phase' = "probe"
        /\ \/ p \in Garbled /\ errors' = {"parse"}
           \/ errors' = {} /\ (DirectText[p] = "poor" \/ usable')
    <3>1. DirectText[p] \in {"good", "degraded", "poor"}
      BY ExtractorAssumption
    <3> QED BY <1>0, <1>2, <3>1 DEF DirectPoor, Goto
  <2>3. \A q \in PDFs : Current(q)' => q = p
    BY <1>0, <2>2 DEF Current
  <2>4. ErrorsFit'
    BY <1>0, <2>2, <2>3 DEF ErrorsFit, Untried, Tried
  <2> QED BY <2>1, <2>4, QuietKeeps DEF IInv
<1>3. CASE DirectFails(p)
  <2>1. Quiet
    BY <1>0, <1>3 DEF DirectFails, Goto, disk, history, Quiet
  <2>2. ErrorsFit'
    <3>1. PICK kind \in Kinds \ {"geometry"} : errors' = {kind}
      BY <1>3 DEF DirectFails
    <3>2. phase' = "probe" /\ earlier' = earlier
      BY <1>3 DEF DirectFails, Goto
    <3> QED BY <1>0, <3>1, <3>2 DEF ErrorsFit, Kinds, Untried, Tried
  <2> QED BY <2>1, <2>2, QuietKeeps DEF IInv
<1> QED BY <1>1, <1>2, <1>3

\* Up to the plan of images, no PDF loses the cause of its errors.
LEMMA ProbeKeeps ==
  ASSUME IInv, NEW p \in PDFs,
         Probe(p) \/ ProbeFails(p) \/ Ocrmypdf(p) \/ OcrmypdfFails(p) \/ Replan(p)
  PROVE  IInv'
<1>0. Current(p) /\ phase \in {"probe", "ocrmypdf", "plan"} /\ "parse" \notin earlier
  BY DEF Probe, ProbeFails, Ocrmypdf, OcrmypdfFails, Replan, Here, Current, IInv, ErrorsFit
<1>1. Quiet
  BY <1>0 DEF Probe, ProbeFails, Ocrmypdf, OcrmypdfFails, Replan, Goto, Meets, Quiet,
              disk, history, work
<1>2. UNCHANGED <<at, batch, usable>> /\ phase \in Tried /\ phase' \in Tried
  BY <1>0 DEF Probe, ProbeFails, Ocrmypdf, OcrmypdfFails, Replan, Goto, work, Tried
<1>3. ASSUME Probe(p) \/ Replan(p) PROVE ErrorsFit'
  <2>1. CASE UNCHANGED errors /\ phase' # "conclude"
    <3>1. UNCHANGED earlier
      BY <1>3 DEF Probe, Replan
    <3> QED BY <1>1, <1>2, <2>1, <3>1, SameErrors DEF Quiet
  <2>2. CASE Meets(p, {"geometry"})
    <3>1. UNCHANGED earlier
      BY <1>3 DEF Probe, Replan
    <3>2. errors' = errors \union {"geometry"} \union earlier /\ p \in limited'
      BY <2>2 DEF Meets
    <3> QED BY <1>0, <1>1, <1>2, <3>1, <3>2, OneMoreError DEF Quiet
  <2>3. \/ UNCHANGED errors /\ phase' # "conclude"
        \/ Meets(p, {"geometry"})
    BY <1>3 DEF Probe, Replan, Goto
  <2> QED BY <2>1, <2>2, <2>3
<1>4. ASSUME ProbeFails(p) \/ Ocrmypdf(p) \/ OcrmypdfFails(p) PROVE ErrorsFit'
  <2>1. UNCHANGED errors /\ phase' # "conclude" /\ "parse" \notin earlier'
    BY <1>0, <1>4 DEF ProbeFails, Ocrmypdf, OcrmypdfFails, Goto, work, Kinds
  <2>2. phase' \notin Untried /\ phase # "conclude"
    BY <1>0, <1>2 DEF Tried, Untried
  <2> QED BY <1>1, <1>2, <2>1, <2>2 DEF IInv, ErrorsFit, Quiet, Current
<1>5. ErrorsFit'
  BY <1>3, <1>4
<1> QED BY <1>1, <1>5, QuietKeeps DEF IInv

\* A size limit is noted of the PDF that meets it.
LEMMA DrawKeeps ==
  ASSUME IInv, NEW p \in PDFs, Draw(p) \/ DrawTooLarge(p) \/ DrawFails(p)
  PROVE  IInv'
<1>0. Current(p) /\ phase \in {"draw", "plan"} /\ "parse" \notin earlier
  BY DEF Draw, DrawTooLarge, DrawFails, Here, Current, IInv, ErrorsFit
<1>1. Quiet
  BY <1>0 DEF Draw, DrawTooLarge, DrawFails, Goto, Meets, Quiet, disk, history, loop
<1>2. UNCHANGED <<at, batch, usable, earlier>> /\ phase \in Tried /\ phase' \in Tried
  BY <1>0 DEF Draw, DrawTooLarge, DrawFails, Goto, loop, Tried
<1>3. ASSUME Draw(p) PROVE ErrorsFit'
  <2>1. UNCHANGED errors /\ phase' # "conclude"
    BY <1>0, <1>3 DEF Draw, Goto, loop
  <2> QED BY <1>1, <1>2, <2>1, SameErrors DEF Quiet
<1>4. ASSUME DrawTooLarge(p) PROVE ErrorsFit'
  <2>1. p \in limited'
    BY <1>4 DEF DrawTooLarge
  <2>2. CASE UNCHANGED errors /\ phase' # "conclude"
    BY <1>1, <1>2, <2>2, SameErrors DEF Quiet
  <2>3. CASE errors' = errors \union {"geometry"} \union earlier
    BY <1>0, <1>1, <1>2, <2>1, <2>3, OneMoreError DEF Quiet
  <2>4. \/ UNCHANGED errors /\ phase' # "conclude"
        \/ errors' = errors \union {"geometry"} \union earlier
    BY <1>0, <1>4 DEF DrawTooLarge, loop
  <2> QED BY <2>2, <2>3, <2>4
<1>5. ASSUME DrawFails(p) PROVE ErrorsFit'
  <2>1. PICK kind \in Kinds : Meets(p, IF forced THEN {"geometry", kind} ELSE {kind})
    BY <1>5 DEF DrawFails
  <2> DEFINE kinds == IF forced THEN {"geometry", kind} ELSE {kind}
  <2>2. kinds # {} /\ "parse" \notin kinds
    BY DEF Kinds
  <2> HIDE DEF kinds
  <2>3. Meets(p, kinds)
    BY <2>1 DEF kinds
  <2>4. /\ "geometry" \in kinds => p \in limited'
        /\ \/ errors' = errors \union kinds
           \/ "geometry" \in kinds /\ errors' = errors \union kinds \union earlier
    BY <2>3 DEF Meets
  <2> QED BY <1>0, <1>1, <1>2, <2>2, <2>4, OneMoreError DEF Quiet
<1>6. ErrorsFit'
  BY <1>3, <1>4, <1>5
<1> QED BY <1>1, <1>6, QuietKeeps DEF IInv

\* The text of the images is judged, and kept or given up.
LEMMA JudgeKeeps ==
  ASSUME IInv, NEW p \in PDFs, Judge(p) \/ StandIn(p)
  PROVE  IInv'
<1>0. Current(p) /\ phase \in {"judge", "conclude"}
  BY DEF Judge, StandIn, Here, Current
<1>1. CASE BeginWrite(p, "whole", TRUE)
  <2>1. UNCHANGED <<meta, version, errors, earlier, spoiled, limited>>
    BY DEF Judge, StandIn, history
  <2> QED BY <1>0, <1>1, <2>1, BeginKeeps DEF Texts
<1>2. CASE ~BeginWrite(p, "whole", TRUE)
  <2>1. /\ phase = "judge" /\ phase' = "conclude" /\ ~OcrText[p]
        /\ UNCHANGED <<at, batch, usable, errors, earlier, meta, text, version, spoiled, limited>>
    BY <1>2 DEF Judge, StandIn, Here, Goto, history
  <2>2. Quiet
    BY <2>1 DEF Quiet
  <2>3. \A q \in PDFs : Current(q)' => q = p
    BY <1>0, <2>1 DEF Current
  <2>4. ErrorsFit'
    BY <1>0, <2>1, <2>3 DEF IInv, ErrorsFit, Tried, Untried
  <2> QED BY <2>2, <2>4, QuietKeeps DEF IInv
<1> QED BY <1>1, <1>2

\* A PDF is given up for good only for a cause that lies in it.
LEMMA SetFailureKeeps ==
  ASSUME IInv, NEW p \in PDFs, SetFailure(p)
  PROVE  IInv'
<1>0. /\ Current(p) /\ phase = "conclude" /\ ~usable
      /\ phase' \notin Tried \union {"write", "meta"} /\ Fresh
      /\ UNCHANGED <<text, version, spoiled, limited>>
  BY DEF SetFailure, Here, Current, Conclude, NextItem, history, Tried
<1>1. CASE Category(errors) # "content"
  <2>1. Quiet
    BY <1>0, <1>1 DEF SetFailure, Quiet
  <2> QED BY <1>0, <2>1, QuietKeeps, FreshErrors DEF IInv
<1>2. CASE Category(errors) = "content"
  <2>1. meta' = [meta EXCEPT ![p] = [status |-> "failed", version |-> version]]
    BY <1>2 DEF SetFailure
  <2>2. ~Readable(p) \/ p \in Garbled \/ p \in limited
    BY <1>0, <1>2 DEF Category, Readable, IInv, ErrorsFit, Tried
  <2>3. CacheFits'
    BY <1>0, <2>1 DEF IInv, CacheFits
  <2>4. WritesFit'
    BY <1>0 DEF WritesFit, Here
  <2>5. ASSUME NEW q \in PDFs, CachedText(q)' PROVE text'[q] = "whole" \/ q \in spoiled'
    BY <1>0, <2>1, <2>5 DEF IInv, CacheFits, CacheTellsTheTruth, CachedText, Says, Here
  <2>6. ASSUME NEW q \in PDFs, CachedFailure(q)'
        PROVE ~Readable(q)' \/ q \in Garbled \/ q \in limited'
    <3>1. CASE q = p
      BY <1>0, <2>2, <3>1 DEF Readable
    <3>2. CASE q # p
      BY <1>0, <2>1, <2>6, <3>2 DEF IInv, CacheFits, CacheTellsTheTruth, CachedFailure, Says, Readable
    <3> QED BY <3>1, <3>2
  <2>7. CacheTellsTheTruth'
    BY <2>5, <2>6 DEF CacheTellsTheTruth
  <2> QED BY <1>0, <2>3, <2>4, <2>7, FreshErrors DEF IInv
<1> QED BY <1>1, <1>2

\* The text is complete; a new one still needs its entry.
LEMMA FinishWriteKeeps ==
  ASSUME IInv, NEW p \in PDFs, FinishWrite(p)
  PROVE  IInv'
<1>0. /\ Here("write", p) /\ text' = [text EXCEPT ![p] = copy.text]
      /\ UNCHANGED <<meta, version, spoiled, limited>>
  BY DEF FinishWrite, history
<1>1. copy.text \in Texts /\ (copy.text # "whole" => p \in spoiled /\ ~copy.new)
  BY <1>0 DEF IInv, WritesFit
<1>2. CacheFits'
  BY <1>0, <1>1 DEF IInv, CacheFits
<1>3. phase' # "write"
  BY DEF FinishWrite, Goto, Conclude, NextItem
<1>4. CacheTellsTheTruth'
  <2>1. ASSUME NEW q \in PDFs, CachedText(q)' PROVE text'[q] = "whole" \/ q \in spoiled'
    <3>1. CASE q = p
      BY <1>0, <1>1, <3>1 DEF IInv, CacheFits
    <3>2. CASE q # p
      BY <1>0, <2>1, <3>2 DEF IInv, CacheFits, CacheTellsTheTruth, CachedText, Says, Here
    <3> QED BY <3>1, <3>2
  <2>2. ASSUME NEW q \in PDFs, CachedFailure(q)'
        PROVE ~Readable(q)' \/ q \in Garbled \/ q \in limited'
    BY <1>0, <2>2 DEF IInv, CacheTellsTheTruth, CachedFailure, Says, Readable
  <2> QED BY <2>1, <2>2 DEF CacheTellsTheTruth
<1>5. CASE copy.new
  <2>1. phase' = "meta" /\ UNCHANGED <<batch, at, errors, earlier>>
    BY <1>5 DEF FinishWrite, Goto, work
  <2>2. WritesFit'
    BY <1>0, <1>1, <1>5, <2>1 DEF WritesFit, Here, IInv, CacheFits
  <2>3. ErrorsFit'
    BY <2>1 DEF IInv, ErrorsFit, Tried, Untried
  <2> QED BY <1>2, <1>4, <2>2, <2>3 DEF IInv
<1>6. CASE ~copy.new
  <2>1. phase' \in {"look", "report"} /\ Fresh
    BY <1>6 DEF FinishWrite, Conclude, NextItem
  <2>2. WritesFit'
    BY <2>1 DEF WritesFit, Here
  <2> QED BY <1>2, <1>4, <2>1, <2>2, FreshErrors DEF IInv, Tried
<1> QED BY <1>5, <1>6

\* The entry is written after its text.
LEMMA SaveMetaKeeps ==
  ASSUME IInv, NEW p \in PDFs, SaveMeta(p)
  PROVE  IInv'
<1>0. /\ Here("meta", p) /\ text[p] = "whole" /\ phase' \in {"look", "report"} /\ Fresh
      /\ meta' = [meta EXCEPT ![p] = [status |-> "success", version |-> version]]
      /\ UNCHANGED <<text, version, spoiled, limited>>
  BY DEF SaveMeta, Conclude, NextItem, history, IInv, WritesFit
<1>1. CacheFits'
  BY <1>0 DEF IInv, CacheFits
<1>2. WritesFit'
  BY <1>0 DEF WritesFit, Here
<1>3. ASSUME NEW q \in PDFs, CachedText(q)' PROVE text'[q] = "whole" \/ q \in spoiled'
  BY <1>0, <1>3 DEF IInv, CacheFits, CacheTellsTheTruth, CachedText, Says, Here
<1>4. ASSUME NEW q \in PDFs, CachedFailure(q)'
      PROVE ~Readable(q)' \/ q \in Garbled \/ q \in limited'
  BY <1>0, <1>4 DEF IInv, CacheFits, CacheTellsTheTruth, CachedFailure, Says, Readable
<1>5. CacheTellsTheTruth'
  BY <1>3, <1>4 DEF CacheTellsTheTruth
<1> QED BY <1>0, <1>1, <1>2, <1>5, FreshErrors DEF IInv, Tried

\* A killed run leaves the text it was writing cut, or an entry it cannot read.
LEMMA CutKeeps ==
  ASSUME IInv, Cut, Stop, UNCHANGED <<version, limited>>
  PROVE  IInv'
<1>0. phase' = "idle" /\ Fresh
  BY DEF Stop
<1>1. ErrorsFit'
  BY <1>0, FreshErrors DEF Tried
<1>2. WritesFit'
  BY <1>0 DEF WritesFit, Here
<1>3. \A q \in PDFs : meta'[q] = meta[q] \/ meta'[q] = NoMeta
  BY DEF Cut, IInv, CacheFits
<1>4. CacheFits'
  <2>1. meta' \in [PDFs -> [status : {"none", "success", "failed"}, version : Nat]]
    BY DEF Cut, IInv, CacheFits, NoMeta
  <2>2. text' \in [PDFs -> Texts]
    BY DEF Cut, IInv, CacheFits, Texts
  <2>3. \A q \in PDFs : meta'[q].version <= version
    BY <1>3 DEF IInv, CacheFits, NoMeta
  <2> QED BY <2>1, <2>2, <2>3 DEF IInv, CacheFits
<1>5. ASSUME NEW q \in PDFs, CachedText(q)' PROVE text'[q] = "whole" \/ q \in spoiled'
  <2>1. CachedText(q) \/ text'[q] # text[q]
    BY <1>3, <1>5 DEF CachedText, Says, NoMeta
  <2>2. CASE phase = "write"
    BY <2>1, <2>2 DEF Cut, IInv, CacheFits, CacheTellsTheTruth, Here
  <2>3. CASE phase # "write"
    BY <2>1, <2>3 DEF Cut, IInv, CacheTellsTheTruth, Here
  <2> QED BY <2>2, <2>3
<1>6. ASSUME NEW q \in PDFs, CachedFailure(q)'
      PROVE ~Readable(q)' \/ q \in Garbled \/ q \in limited'
  BY <1>3, <1>6 DEF IInv, CacheTellsTheTruth, CachedFailure, Says, Readable, NoMeta
<1>7. CacheTellsTheTruth'
  BY <1>5, <1>6 DEF CacheTellsTheTruth
<1> QED BY <1>1, <1>2, <1>4, <1>7 DEF IInv

\* Steps between PDFs, the end of a batch, and the next one.
LEMMA BatchKeeps ==
  ASSUME IInv, StartBatch \/ Report \/ TimeUp \/ (\E p \in PDFs : Unreachable(p))
  PROVE  IInv'
<1>1. Quiet
  BY DEF StartBatch, Report, TimeUp, Unreachable, Here, Conclude, NextItem, Stop, Quiet,
         disk, history
<1>2. ErrorsFit'
  <2>1. CASE StartBatch
    BY <2>1 DEF StartBatch, work, IInv, ErrorsFit, Tried, Untried
  <2>2. CASE Report \/ TimeUp \/ (\E p \in PDFs : Unreachable(p))
    <3>1. Fresh /\ phase' \notin Tried
      BY <2>2 DEF Report, TimeUp, Unreachable, Conclude, NextItem, Stop, Tried
    <3> QED BY <3>1, FreshErrors
  <2> QED BY <2>1, <2>2
<1> QED BY <1>1, <1>2, QuietKeeps DEF IInv

\* After a release the cache says nothing.
LEMMA UpgradeKeeps ==
  ASSUME IInv, Upgrade
  PROVE  IInv'
<1>0. /\ phase = "idle" /\ version' = version + 1
      /\ UNCHANGED <<meta, text, phase, batch, at, errors, earlier, usable, copy, limited, spoiled>>
  BY DEF Upgrade, loop, work, history
<1>1. CacheFits'
  BY <1>0 DEF IInv, CacheFits
<1>2. ErrorsFit' /\ WritesFit'
  BY <1>0 DEF IInv, ErrorsFit, WritesFit, Here, Current
<1>3. \A q \in PDFs : ~CachedText(q)' /\ ~CachedFailure(q)'
  <2> SUFFICES ASSUME NEW q \in PDFs PROVE meta[q].version # version + 1
    BY <1>0 DEF CachedText, CachedFailure, Says
  <2> QED BY DEF IInv, CacheFits
<1> QED BY <1>1, <1>2, <1>3 DEF IInv, CacheTellsTheTruth

-----------------------------------------------------------------------------
\* An empty cache says nothing.
THEOREM Initial == Init => IInv
<1> SUFFICES ASSUME Init PROVE IInv
  OBVIOUS
<1>1. CacheFits
  BY DEF Init, CacheFits, NoMeta, Texts
<1>2. ErrorsFit /\ WritesFit
  BY DEF Init, ErrorsFit, WritesFit, Here, Untried, Tried
<1>3. CacheTellsTheTruth
  BY DEF Init, CacheTellsTheTruth, CachedText, CachedFailure, Says, NoMeta
<1> QED BY <1>1, <1>2, <1>3 DEF IInv

\* Every step keeps the invariant.
THEOREM Inductive == IInv /\ [Next]_vars => IInv'
<1> SUFFICES ASSUME IInv, [Next]_vars PROVE IInv'
  OBVIOUS
<1>1. ASSUME NEW p \in PDFs, Step(p) PROVE IInv'
  BY <1>1, LookUpKeeps, DirectKeeps, ProbeKeeps, DrawKeeps, JudgeKeeps, SetFailureKeeps,
     FinishWriteKeeps, SaveMetaKeeps DEF Step
<1>2. CASE WorkerStep
  BY <1>1, <1>2, BatchKeeps DEF WorkerStep
<1>3. CASE Crash \/ SubprocessDies
  BY <1>3, CutKeeps DEF Crash, SubprocessDies
<1>4. ASSUME NEW p \in PDFs, \/ Unreachable(p) \/ DirectFails(p) \/ ProbeFails(p)
                             \/ OcrmypdfFails(p) \/ DrawTooLarge(p) \/ DrawFails(p)
      PROVE IInv'
  BY <1>4, BatchKeeps, DirectKeeps, ProbeKeeps, DrawKeeps
<1>5. CASE Environment
  BY <1>3, <1>4, <1>5, UpgradeKeeps DEF Environment
<1>6. CASE UNCHANGED vars
  BY <1>6 DEF vars, disk, loop, work, history, IInv, CacheFits, ErrorsFit, WritesFit,
              CacheTellsTheTruth, CachedText, CachedFailure, Says, Here, Current
<1> QED BY <1>2, <1>5, <1>6 DEF Next

\* The inductive invariant holds throughout: errors have causes, and what is being
\* written is whole or was cut before.
THEOREM InvariantHolds == Spec => []IInv
<1> QED BY Initial, Inductive, PTL DEF Spec

\* What the cache says of a PDF is true in every reachable state, whatever runs were
\* killed and tools failed (ensure_text_for_item, classify_runtime_failure).
THEOREM CacheIsTruthful == Spec => []CacheTellsTheTruth
<1>1. IInv => CacheTellsTheTruth
  BY DEF IInv
<1> QED BY <1>1, InvariantHolds, PTL

-----------------------------------------------------------------------------
(***************************************************************************)
(* Types, and what the images of a plan have read.  No type invariant      *)
(* alone is inductive: an image is one of the plan only while the plan is  *)
(* the one of the current PDF, so the two are proved together.             *)
(***************************************************************************)

\* A set of PDFs can be listed in their order.
LEMMA BatchIsListed ==
  ASSUME NEW S, S \subseteq Nat, IsFiniteSet(S)
  PROVE  InOrder(S) \in Seq(S) /\ Len(InOrder(S)) = Cardinality(S) /\ Cardinality(S) \in Nat
<1> DEFINE n == Cardinality(S)
           Below(x) == {y \in S : y < x}
           rank == [x \in S |-> Cardinality(Below(x)) + 1]
           list == [i \in 1 .. n |-> CHOOSE x \in S : rank[x] = i]
<1>1. n \in Nat /\ IsFiniteSet(1 .. n) /\ Cardinality(1 .. n) = n
  <2>1. n \in Nat
    BY FS_CardinalityType
  <2> HIDE DEF n
  <2> QED BY <2>1, FS_Interval
<1>2. \A x \in S : rank[x] = Cardinality(Below(x)) + 1
  OBVIOUS
<1>3. ASSUME NEW x \in S PROVE IsFiniteSet(Below(x)) /\ Cardinality(Below(x)) \in Nat
  BY <1>3, FS_Subset, FS_CardinalityType
<1>4. ASSUME NEW x \in S PROVE rank[x] \in 1 .. n
  <2>1. IsFiniteSet(S \ {x}) /\ Cardinality(S \ {x}) = n - 1
    BY FS_RemoveElement
  <2>2. Below(x) \in SUBSET (S \ {x})
    OBVIOUS
  <2>3. n \in Nat /\ Cardinality(Below(x)) \in Nat /\ rank[x] = Cardinality(Below(x)) + 1
    BY <1>1, <1>2, <1>3
  <2> HIDE DEF n, Below, rank
  <2>4. Cardinality(Below(x)) <= n - 1
    BY <2>1, <2>2, FS_Subset
  <2> QED BY <2>3, <2>4
<1>5. ASSUME NEW x \in S, NEW y \in S, x < y PROVE rank[x] < rank[y]
  <2>1. Below(x) \in SUBSET Below(y) /\ x \in Below(y) /\ x \notin Below(x)
    <3>1. \A z \in S : z \in Nat
      OBVIOUS
    <3>2. \A z \in S : z < x => z < y
      BY <1>5, <3>1
    <3>3. ~(x < x)
      BY <3>1
    <3>4. Below(x) \subseteq Below(y)
      BY <3>2
    <3> QED BY <1>5, <3>3, <3>4
  <2>2. Cardinality(Below(x)) <= Cardinality(Below(y)) /\ Cardinality(Below(x)) # Cardinality(Below(y))
    BY <1>3, <2>1, FS_Subset
  <2> QED BY <1>2, <1>3, <2>2
<1> HIDE DEF n, Below
<1>6. rank \in [S -> 1 .. n]
  BY <1>4
<1> HIDE DEF rank
<1>7. \A x, y \in S : rank[x] = rank[y] => x = y
  <2> SUFFICES ASSUME NEW x \in S, NEW y \in S, x # y PROVE rank[x] # rank[y]
    OBVIOUS
  <2>1. rank[x] \in Int /\ rank[y] \in Int
    BY <1>4, <1>1
  <2>2. rank[x] < rank[y] \/ rank[y] < rank[x]
    BY <1>5
  <2> QED BY <2>1, <2>2
<1>8. \A i \in 1 .. n : \E x \in S : rank[x] = i
  <2>1. rank \in Injection(S, 1 .. n)
    BY <1>6, <1>7, Fun_IsInj
  <2>2. rank \in Surjection(S, 1 .. n)
    BY <1>1, <2>1, FS_Injection DEF n
  <2> QED BY <2>2, Fun_SurjectionProperties
<1>9. \A i \in 1 .. n : list[i] \in S /\ rank[list[i]] = i
  BY <1>8
<1>10. list \in [1 .. n -> S] /\ DOMAIN list = 1 .. n
  BY <1>9
<1> HIDE DEF list
<1>11. ASSUME NEW i \in 1 .. n, NEW j \in 1 .. n, i < j PROVE list[i] < list[j]
  <2>1. list[i] # list[j]
    BY <1>9, <1>11
  <2>2. ~(list[j] < list[i])
    <3>1. list[j] < list[i] => rank[list[j]] < rank[list[i]]
      BY <1>5, <1>9
    <3> QED BY <1>9, <1>11, <3>1
  <2>3. list[i] \in Nat /\ list[j] \in Nat
    BY <1>9
  <2> QED BY <2>1, <2>2, <2>3
<1>12. InOrder(S) \in [1 .. n -> S]
  <2>1. \E l \in [1 .. Cardinality(S) -> S] : \A i, j \in DOMAIN l : i < j => l[i] < l[j]
    BY <1>10, <1>11 DEF n
  <2> QED BY <2>1 DEF InOrder, n
<1> QED BY <1>1, <1>12 DEF n

Placed == phase \notin {"idle", "report"} => at <= Len(batch)

Planned(p) == plans = DocumentPlan(PagesOf[p], forced) /\ Supported(PagesOf[p], forced)

\* Phases in which there is no plan yet, and those in which nothing was drawn.
Unplanned == {"idle", "report", "look", "direct", "probe"}
Undrawn == Unplanned \union {"ocrmypdf", "plan"}

DrawFits ==
  /\ phase \in Unplanned => plans = NoPlan
  /\ phase \in Undrawn => drawn = NoRows /\ image = First /\ ~forced
  /\ \A p \in PDFs : Current(p) =>
       /\ phase = "ocrmypdf" => plans = NoPlan \/ Planned(p)
       /\ phase = "draw" => Planned(p)
       /\ phase = "judge" => drawn = NoRows \/ Planned(p)
  /\ phase = "draw" => ReadTo(plans, image, drawn)
  /\ phase = "judge" => drawn = NoRows \/ ReadAll(plans, drawn)

Parts == DiskOK /\ LoopOK /\ WorkOK /\ DrawnOK /\ Placed /\ DrawFits

WorkInv == Parts /\ CountsOK

\* The parts a step does not touch keep their types.
LEMMA PartsKept ==
  /\ DiskOK /\ UNCHANGED <<row, meta, text, version>> => DiskOK'
  /\ LoopOK /\ UNCHANGED <<phase, batch, at, result, clock>> => LoopOK'
  /\ WorkOK /\ UNCHANGED <<errors, earlier, usable, forced, copy>> => WorkOK'
  /\ DrawnOK /\ UNCHANGED <<plans, image, drawn>> => DrawnOK'
  /\ CountsOK /\ UNCHANGED <<faults, limited, spoiled>> => CountsOK'
<1>1. DiskOK /\ UNCHANGED <<row, meta, text, version>> => DiskOK'
  BY DEF DiskOK
<1>2. LoopOK /\ UNCHANGED <<phase, batch, at, result, clock>> => LoopOK'
  BY DEF LoopOK
<1>3. WorkOK /\ UNCHANGED <<errors, earlier, usable, forced, copy>> => WorkOK'
  BY DEF WorkOK
<1>4. DrawnOK /\ UNCHANGED <<plans, image, drawn>> => DrawnOK'
  BY DEF DrawnOK
<1>5. CountsOK /\ UNCHANGED <<faults, limited, spoiled>> => CountsOK'
  BY DEF CountsOK
<1> QED BY <1>1, <1>2, <1>3, <1>4, <1>5

\* A fault is counted; the histories hold PDFs.
LEMMA FaultCounts ==
  CountsOK /\ (Fault \/ UNCHANGED faults) /\ limited' \in SUBSET PDFs /\ spoiled' \in SUBSET PDFs => CountsOK'
BY ExtractorAssumption DEF CountsOK, Fault

\* Nothing is left of the work on a PDF when the next one begins.
LEMMA FreshParts ==
  ASSUME Fresh
  PROVE  WorkOK' /\ DrawnOK' /\ (phase' \in {"look", "report", "idle"} => DrawFits')
<1>1. /\ errors' = {} /\ earlier' = {} /\ usable' = FALSE /\ plans' = NoPlan /\ forced' = FALSE
      /\ image' = First /\ drawn' = NoRows /\ copy' = NoCopy
  BY DEF Fresh
<1>2. WorkOK'
  BY <1>1 DEF WorkOK, NoCopy, Texts
<1>3. DrawnOK'
  <2>1. NoPlan \in Seq([strategy : Strategies, width : Nat, height : Nat, tile : Nat, count : Nat])
    BY DEF NoPlan
  <2> QED BY <1>1, <2>1 DEF DrawnOK, First, NoRows
<1>4. phase' \in {"look", "report", "idle"} => DrawFits'
  BY <1>1 DEF DrawFits, Unplanned
<1> QED BY <1>2, <1>3, <1>4

\* Where a PDF of the batch is being worked on.
LEMMA CurrentIs ==
  ASSUME LoopOK
  PROVE  /\ at \in Nat /\ Len(batch) \in Nat /\ at >= 1
         /\ at <= Len(batch) => batch[at] \in PDFs
BY LenProperties, ElementOfSeq DEF LoopOK

\* A PDF is concluded, and the loop goes on.
LEMMA ConcludeParts ==
  ASSUME LoopOK, at <= Len(batch), NEW p, NEW found \in Results, Conclude(p, found), UNCHANGED clock
  PROVE  LoopOK' /\ Placed' /\ WorkOK' /\ DrawnOK' /\ DrawFits'
<1>1. /\ result' = [result EXCEPT ![p] = found] /\ at' = at + 1 /\ Fresh /\ UNCHANGED batch
      /\ phase' = IF at = Len(batch) THEN "report" ELSE "look"
  BY DEF Conclude, NextItem
<1>2. LoopOK' /\ Placed'
  <2>1. at + 1 \in 1 .. Len(batch) + 1 /\ (at # Len(batch) => at + 1 <= Len(batch))
    BY CurrentIs
  <2>2. result' \in [PDFs -> Results]
    BY <1>1 DEF LoopOK
  <2>3. LoopOK'
    BY <1>1, <2>1, <2>2 DEF LoopOK, Phases
  <2>4. Placed'
    BY <1>1, <2>1 DEF Placed
  <2> QED BY <2>3, <2>4
<1>3. phase' \in {"look", "report", "idle"}
  BY <1>1
<1> QED BY <1>1, <1>2, <1>3, FreshParts

\* A PDF goes on to another phase.
LEMMA GotoParts ==
  ASSUME LoopOK, at <= Len(batch), NEW ph \in Phases, Goto(ph), UNCHANGED result,
         clock' \in 0 .. BatchTime
  PROVE  LoopOK' /\ Placed'
BY DEF LoopOK, Placed, Goto

\* Phases without a promise about the images.
LEMMA NoPromise ==
  ASSUME phase' \in {"conclude", "write", "meta"}
  PROVE  DrawFits'
BY DEF DrawFits, Unplanned, Undrawn

\* A text begins to be written.
LEMMA BeginParts ==
  ASSUME Parts, NEW p \in PDFs, NEW what \in Texts, NEW new \in BOOLEAN, at <= Len(batch),
         BeginWrite(p, what, new),
         UNCHANGED <<row, meta, version, result, clock, errors, earlier, usable, plans, forced, image, drawn>>
  PROVE  Parts'
<1>1. /\ Goto("write") /\ phase' = "write" /\ text' = [text EXCEPT ![p] = "empty"]
      /\ copy' = [text |-> what, new |-> new]
  BY DEF BeginWrite, Goto
<1>2. LoopOK' /\ Placed'
  <2>1. clock' \in 0 .. BatchTime /\ "write" \in Phases
    BY DEF Parts, LoopOK, Phases
  <2> QED BY <1>1, <2>1, GotoParts DEF Parts
<1>3. DiskOK'
  BY <1>1 DEF Parts, DiskOK, Texts
<1>4. WorkOK' /\ DrawnOK'
  BY <1>1, PartsKept DEF Parts, WorkOK
<1> QED BY <1>1, <1>2, <1>3, <1>4, NoPromise DEF Parts

\* The cache and pdftotext.
LEMMA LookParts ==
  ASSUME WorkInv, NEW p \in PDFs,
         LookUp(p) \/ Unreachable(p) \/ DirectGood(p) \/ DirectPoor(p) \/ DirectFails(p)
  PROVE  WorkInv'
<1>0. /\ Parts /\ CountsOK /\ DiskOK /\ LoopOK /\ WorkOK /\ DrawnOK /\ DrawFits
      /\ at <= Len(batch) /\ phase \in {"look", "direct"} /\ UNCHANGED clock
      /\ clock \in 0 .. BatchTime
  BY DEF WorkInv, Parts, LookUp, Unreachable, DirectGood, DirectPoor, DirectFails, Here, LoopOK
<1>1. CountsOK'
  BY <1>0, FaultCounts DEF CountsOK, LookUp, Unreachable, DirectGood, DirectPoor, DirectFails, history
<1>2. ASSUME NEW found \in Results, Conclude(p, found), UNCHANGED disk PROVE WorkInv'
  <2>1. DiskOK'
    BY <1>0, <1>2, PartsKept DEF disk
  <2> QED BY <1>0, <1>1, <1>2, <2>1, ConcludeParts DEF WorkInv, Parts
<1>3. ASSUME NEW what \in Texts, NEW new \in BOOLEAN, BeginWrite(p, what, new),
             UNCHANGED <<row, meta, version, result, errors, earlier, usable, plans, forced, image, drawn>>
      PROVE  WorkInv'
  BY <1>0, <1>1, <1>3, BeginParts DEF WorkInv
<1>4. ASSUME NEW ph \in {"direct", "probe"}, Goto(ph), UNCHANGED <<disk, result, earlier, plans, forced, image, drawn, copy>>,
             WorkOK'
      PROVE  WorkInv'
  <2>1. DiskOK' /\ DrawnOK'
    BY <1>0, <1>4, PartsKept DEF disk
  <2>2. LoopOK' /\ Placed'
    BY <1>0, <1>4, GotoParts DEF Phases
  <2>3. DrawFits'
    BY <1>0, <1>4 DEF Goto, DrawFits, Unplanned, Undrawn
  <2> QED BY <1>1, <1>4, <2>1, <2>2, <2>3 DEF WorkInv, Parts
<1>5. CASE LookUp(p)
  <2>1. CASE BeginWrite(p, text[p], FALSE)
             /\ UNCHANGED <<row, meta, version, result, errors, earlier, usable, plans, forced, image, drawn>>
    <3>1. text[p] \in Texts
      BY <1>0 DEF DiskOK
    <3> QED BY <1>3, <2>1, <3>1
  <2>2. CASE Conclude(p, "content") /\ UNCHANGED disk
    BY <1>2, <2>2 DEF Results
  <2>3. CASE Goto("direct") /\ UNCHANGED <<disk, result, work>>
    <3>1. WorkOK'
      BY <1>0, <2>3, PartsKept DEF work
    <3> QED BY <1>4, <2>3, <3>1 DEF work
  <2> QED BY <1>5, <2>1, <2>2, <2>3 DEF LookUp
<1>6. CASE Unreachable(p)
  BY <1>2, <1>6 DEF Unreachable, Results
<1>7. CASE DirectGood(p)
  BY <1>3, <1>7 DEF DirectGood, Texts
<1>8. CASE DirectPoor(p)
  <2>1. WorkOK'
    BY <1>0, <1>8 DEF DirectPoor, WorkOK
  <2> QED BY <1>4, <1>8, <2>1 DEF DirectPoor
<1>9. CASE DirectFails(p)
  <2>1. WorkOK'
    BY <1>0, <1>9 DEF DirectFails, WorkOK
  <2> QED BY <1>4, <1>9, <2>1 DEF DirectFails
<1> QED BY <1>5, <1>6, <1>7, <1>8, <1>9

\* An error that is noted, with a size limit or without.
LEMMA MeetsParts ==
  ASSUME WorkOK, CountsOK, NEW p \in PDFs, NEW kinds \in SUBSET Kinds, Meets(p, kinds),
         UNCHANGED <<earlier, usable, forced, copy, spoiled>>, Fault \/ UNCHANGED faults
  PROVE  WorkOK' /\ CountsOK'
<1>1. errors' \subseteq errors \union kinds \union earlier /\ limited' \subseteq limited \union {p}
  BY DEF Meets
<1>2. WorkOK'
  BY <1>1 DEF WorkOK
<1>3. limited' \in SUBSET PDFs /\ spoiled' \in SUBSET PDFs
  BY <1>1 DEF CountsOK
<1> QED BY <1>2, <1>3, FaultCounts

\* A plan that was just made is that of the current PDF, with nothing read.
LEMMA PlanParts ==
  ASSUME LoopOK, NEW p \in PDFs, Current(p), NEW tiled \in BOOLEAN, Supported(PagesOf[p], tiled),
         plans' = DocumentPlan(PagesOf[p], tiled), forced' = tiled, image' = First, drawn' = NoRows,
         UNCHANGED <<batch, at>>, phase' \in {"draw", "ocrmypdf"},
         phase' = "ocrmypdf" => ~tiled
  PROVE  DrawnOK' /\ DrawFits'
<1>1. DocumentPlan(PagesOf[p], tiled) \in Seq(PlanRecord)
  BY DocumentFits
<1>2. DrawnOK'
  BY <1>1 DEF DrawnOK, PlanRecord, First, NoRows
<1>3. \A q \in PDFs : Current(q)' => q = p
  BY DEF Current
<1>4. ReadTo(plans', image', drawn')
  BY DrawBegins
<1>5. Planned(p)'
  BY DEF Planned
<1>6. DrawFits'
  BY <1>3, <1>4, <1>5 DEF DrawFits, Unplanned, Undrawn
<1> QED BY <1>2, <1>6

\* pdfinfo and ocrmypdf, up to the first image of the plan.
LEMMA ProbeParts ==
  ASSUME WorkInv, NEW p \in PDFs,
         Probe(p) \/ ProbeFails(p) \/ Ocrmypdf(p) \/ OcrmypdfFails(p) \/ Replan(p)
  PROVE  WorkInv'
<1>0. /\ CountsOK /\ DiskOK /\ LoopOK /\ WorkOK /\ DrawnOK /\ DrawFits
      /\ Current(p) /\ at <= Len(batch) /\ phase \in {"probe", "ocrmypdf", "plan"}
      /\ UNCHANGED <<row, meta, text, version, result, usable, forced, image, drawn, copy, spoiled>>
      /\ clock \in 0 .. BatchTime /\ ~forced /\ drawn = NoRows /\ image = First
  <2>1. CountsOK /\ DiskOK /\ LoopOK /\ WorkOK /\ DrawnOK /\ DrawFits /\ clock \in 0 .. BatchTime
    BY DEF WorkInv, Parts, LoopOK
  <2>2. Current(p) /\ at <= Len(batch) /\ phase \in {"probe", "ocrmypdf", "plan"}
    BY DEF Probe, ProbeFails, Ocrmypdf, OcrmypdfFails, Replan, Here, Current
  <2>3. UNCHANGED <<row, meta, text, version, result, usable, forced, image, drawn, copy, spoiled>>
    BY DEF Probe, ProbeFails, Ocrmypdf, OcrmypdfFails, Replan, Meets, disk, work, history
  <2> QED BY <2>1, <2>2, <2>3 DEF DrawFits, Undrawn, Unplanned
<1>1. DiskOK'
  BY <1>0, PartsKept
<1>2. ASSUME Probe(p) \/ Replan(p) PROVE WorkInv'
  <2>0. UNCHANGED <<clock, earlier, faults>>
    BY <1>2 DEF Probe, Replan
  <2>1. CASE Supported(PagesOf[p], FALSE)
    <3>1. /\ plans' = DocumentPlan(PagesOf[p], FALSE) /\ UNCHANGED <<errors, limited>>
          /\ Goto("draw") \/ Goto("ocrmypdf")
      BY <1>2, <2>1 DEF Probe, Replan
    <3>2. LoopOK' /\ Placed'
      BY <1>0, <2>0, <3>1, GotoParts DEF Phases
    <3>3. DrawnOK' /\ DrawFits'
      <4>1. forced' = FALSE /\ image' = First /\ drawn' = NoRows
        BY <1>0 DEF WorkOK
      <4>2. UNCHANGED <<batch, at>> /\ phase' \in {"draw", "ocrmypdf"}
        BY <3>1 DEF Goto
      <4> QED BY <1>0, <2>1, <3>1, <4>1, <4>2, PlanParts
    <3>4. WorkOK' /\ CountsOK'
      BY <1>0, <2>0, <3>1, PartsKept
    <3> QED BY <1>1, <3>2, <3>3, <3>4 DEF WorkInv, Parts
  <2>2. CASE ~Supported(PagesOf[p], FALSE)
    <3>1. Meets(p, {"geometry"}) /\ Goto("conclude") /\ UNCHANGED plans
      BY <1>2, <2>2 DEF Probe, Replan
    <3>2. WorkOK' /\ CountsOK'
      <4>1. {"geometry"} \in SUBSET Kinds
        BY DEF Kinds
      <4> QED BY <1>0, <2>0, <3>1, <4>1, MeetsParts
    <3>3. LoopOK' /\ Placed'
      BY <1>0, <2>0, <3>1, GotoParts DEF Phases
    <3>4. DrawnOK' /\ DrawFits'
      BY <1>0, <3>1, PartsKept, NoPromise DEF Goto
    <3> QED BY <1>1, <3>2, <3>3, <3>4 DEF WorkInv, Parts
  <2> QED BY <2>1, <2>2
<1>3. ASSUME ProbeFails(p) \/ Ocrmypdf(p) \/ OcrmypdfFails(p) PROVE WorkInv'
  <2>1. UNCHANGED <<plans, errors, limited>>
    BY <1>3 DEF ProbeFails, Ocrmypdf, OcrmypdfFails, work, history
  <2>2. CountsOK'
    BY <1>0, <1>3, <2>1, FaultCounts DEF CountsOK, ProbeFails, Ocrmypdf, OcrmypdfFails
  <2>3. WorkOK'
    <3>1. earlier' \subseteq Kinds
      BY <1>0, <1>3 DEF ProbeFails, Ocrmypdf, OcrmypdfFails, work, WorkOK
    <3> QED BY <1>0, <2>1, <3>1 DEF WorkOK
  <2>4. DrawnOK'
    BY <1>0, <2>1, PartsKept
  <2>5. clock' \in 0 .. BatchTime
    BY <1>0, <1>3, ExtractorAssumption DEF ProbeFails, Ocrmypdf, OcrmypdfFails
  <2>6. PICK ph \in {"ocrmypdf", "judge", "plan", "draw"} :
          /\ Goto(ph)
          /\ ph = "ocrmypdf" => phase = "probe"
          /\ ph = "draw" => phase = "ocrmypdf" /\ plans # NoPlan
    BY <1>3 DEF ProbeFails, Ocrmypdf, OcrmypdfFails, Here
  <2>7. LoopOK' /\ Placed'
    BY <1>0, <2>5, <2>6, GotoParts DEF Phases
  <2>8. DrawFits'
    <3>1. \A q \in PDFs : Current(q)' => q = p
      BY <1>0, <2>6 DEF Current, Goto
    <3>2. CASE ph \in {"ocrmypdf", "judge", "plan"}
      BY <1>0, <2>1, <2>6, <3>2 DEF DrawFits, Goto, Unplanned, Undrawn
    <3>3. CASE ph = "draw"
      <4>1. Planned(p)
        BY <1>0, <2>6, <3>3 DEF DrawFits
      <4>2. forced = FALSE /\ Supported(PagesOf[p], FALSE) /\ plans = DocumentPlan(PagesOf[p], FALSE)
        BY <1>0, <4>1 DEF Planned, WorkOK
      <4>3. plans' = DocumentPlan(PagesOf[p], FALSE) /\ forced' = FALSE /\ image' = First /\ drawn' = NoRows
        BY <1>0, <2>1, <4>2
      <4>4. UNCHANGED <<batch, at>> /\ phase' = "draw"
        BY <2>6, <3>3 DEF Goto
      <4> QED BY <1>0, <4>2, <4>3, <4>4, PlanParts
    <3> QED BY <3>2, <3>3
  <2> QED BY <1>1, <2>2, <2>3, <2>4, <2>7, <2>8 DEF WorkInv, Parts
<1> QED BY <1>2, <1>3

\* The images: each is one of the plan, and what was read adds up.
LEMMA DrawParts ==
  ASSUME WorkInv, NEW p \in PDFs, Draw(p) \/ DrawTooLarge(p) \/ DrawFails(p)
  PROVE  WorkInv'
<1>0. /\ CountsOK /\ DiskOK /\ LoopOK /\ WorkOK /\ DrawnOK /\ DrawFits
      /\ Current(p) /\ at <= Len(batch) /\ phase \in {"draw", "plan"}
      /\ UNCHANGED <<row, meta, text, version, result, usable, copy, earlier, spoiled>>
      /\ clock \in 0 .. BatchTime
  <2>1. CountsOK /\ DiskOK /\ LoopOK /\ WorkOK /\ DrawnOK /\ DrawFits /\ clock \in 0 .. BatchTime
    BY DEF WorkInv, Parts, LoopOK
  <2>2. Current(p) /\ at <= Len(batch) /\ phase \in {"draw", "plan"}
    BY DEF Draw, DrawTooLarge, DrawFails, Here, Current
  <2>3. UNCHANGED <<row, meta, text, version, result, usable, copy, earlier, spoiled>>
    BY DEF Draw, DrawTooLarge, DrawFails, Meets, disk, history
  <2> QED BY <2>1, <2>2, <2>3
<1>1. DiskOK'
  BY <1>0, PartsKept
<1>2. CASE Draw(p)
  <2> DEFINE more == [rows |-> drawn.rows \union ({image.page} \X Rows(Page, image.number)),
                      pixels |-> drawn.pixels + Page.width * Cardinality(Rows(Page, image.number))]
  <2>1. /\ phase = "draw" /\ clock < BatchTime /\ clock' = clock + 1 /\ drawn' = more
        /\ UNCHANGED <<errors, plans, forced, faults, limited, batch, at>>
        /\ \/ LastImage /\ Goto("judge") /\ UNCHANGED image
           \/ ~LastImage /\ image' = Following /\ UNCHANGED phase
    BY <1>2 DEF Draw, Here, Goto, loop, history
  <2>2. /\ plans = DocumentPlan(PagesOf[p], forced) /\ Supported(PagesOf[p], forced)
        /\ ReadTo(plans, image, drawn) /\ forced \in BOOLEAN
    BY <1>0, <2>1 DEF DrawFits, Planned, WorkOK
  <2>3. /\ image \in [page : Nat, number : Nat] /\ drawn.rows \subseteq Nat \X Nat /\ drawn.pixels \in Nat
    BY <1>0 DEF DrawnOK
  <2>4. /\ more.rows \subseteq Nat \X Nat /\ more.pixels \in Nat
        /\ image.number + 1 < Page.count => ReadTo(plans, [image EXCEPT !.number = @ + 1], more)
        /\ ~(image.number + 1 < Page.count) /\ image.page # Len(plans) =>
             ReadTo(plans, [page |-> image.page + 1, number |-> 0], more)
        /\ image.page = Len(plans) /\ image.number = Page.count - 1 => ReadAll(plans, more)
    BY <2>2, <2>3, DrawAdvances DEF Page
  <2> HIDE DEF more
  <2>5. ASSUME ~LastImage PROVE ReadTo(plans, Following, more)
    <3>1. CASE image.number + 1 < Page.count
      BY <2>4, <3>1 DEF Following
    <3>2. CASE ~(image.number + 1 < Page.count)
      <4>1. image.number \in 0 .. Page.count - 1 /\ Page.count \in Nat
        <5>1. image.page \in DOMAIN plans /\ image.number \in 0 .. Page.count - 1
          BY <2>2 DEF ReadTo, Page
        <5>2. FitPlan(Page)
          BY <2>2, <5>1, DocumentFits DEF Page
        <5> QED BY <5>1, <5>2 DEF FitPlan
      <4>2. image.number = Page.count - 1
        BY <3>2, <4>1
      <4>3. image.page # Len(plans)
        BY <2>5, <4>2 DEF LastImage
      <4> QED BY <2>4, <3>2, <4>3 DEF Following
    <3> QED BY <3>1, <3>2
  <2>6. LoopOK' /\ Placed'
    <3>1. clock' \in 0 .. BatchTime
      BY <1>0, <2>1, ExtractorAssumption
    <3>2. Goto("judge") \/ Goto("draw")
      BY <2>1 DEF Goto
    <3> QED BY <1>0, <3>1, <3>2, GotoParts DEF Phases
  <2>7. DrawnOK'
    <3>1. image' \in [page : Nat, number : Nat]
      BY <2>1, <2>3 DEF Following
    <3> QED BY <1>0, <2>1, <2>4, <3>1 DEF DrawnOK
  <2>8. \A q \in PDFs : Current(q)' => q = p
    BY <1>0, <2>1 DEF Current
  <2>9. Planned(p)'
    BY <2>1, <2>2 DEF Planned
  <2>10. DrawFits'
    <3>1. CASE LastImage
      <4>1. ReadAll(plans', drawn') /\ phase' = "judge"
        BY <2>1, <2>4, <3>1 DEF LastImage, Goto
      <4> QED BY <2>8, <2>9, <4>1 DEF DrawFits, Unplanned, Undrawn
    <3>2. CASE ~LastImage
      <4>1. ReadTo(plans', image', drawn') /\ phase' = "draw"
        BY <2>1, <2>5, <3>2
      <4> QED BY <2>8, <2>9, <4>1 DEF DrawFits, Unplanned, Undrawn
    <3> QED BY <3>1, <3>2
  <2>11. WorkOK' /\ CountsOK'
    BY <1>0, <2>1, PartsKept
  <2> QED BY <1>1, <2>6, <2>7, <2>10, <2>11 DEF WorkInv, Parts
<1>3. CASE DrawTooLarge(p)
  <2>1. Fault /\ limited' = limited \union {p} /\ UNCHANGED clock /\ phase = "draw"
    BY <1>3 DEF DrawTooLarge, Here
  <2>2. CountsOK'
    <3>1. limited' \in SUBSET PDFs /\ spoiled' \in SUBSET PDFs
      BY <1>0, <2>1 DEF CountsOK
    <3> QED BY <1>0, <2>1, <3>1, FaultCounts
  <2>3. CASE Supported(PagesOf[p], TRUE)
    <3>1. /\ plans' = DocumentPlan(PagesOf[p], TRUE) /\ forced' = TRUE
          /\ image' = First /\ drawn' = NoRows /\ UNCHANGED <<phase, batch, at, errors>>
      BY <1>3, <2>3 DEF DrawTooLarge, loop
    <3>2. DrawnOK' /\ DrawFits'
      BY <1>0, <2>1, <2>3, <3>1, PlanParts
    <3>3. LoopOK' /\ Placed'
      BY <1>0, <2>1, <3>1, PartsKept DEF Placed
    <3>4. WorkOK'
      BY <1>0, <3>1 DEF WorkOK
    <3> QED BY <1>1, <2>2, <3>2, <3>3, <3>4 DEF WorkInv, Parts
  <2>4. CASE ~Supported(PagesOf[p], TRUE)
    <3>1. /\ errors' = errors \union {"geometry"} \union earlier /\ Goto("conclude")
          /\ UNCHANGED <<plans, forced, image, drawn>>
      BY <1>3, <2>4 DEF DrawTooLarge
    <3>2. WorkOK'
      BY <1>0, <3>1 DEF WorkOK, Kinds
    <3>3. LoopOK' /\ Placed'
      BY <1>0, <2>1, <3>1, GotoParts DEF Phases
    <3>4. DrawnOK' /\ DrawFits'
      BY <1>0, <3>1, PartsKept, NoPromise DEF Goto
    <3> QED BY <1>1, <2>2, <3>2, <3>3, <3>4 DEF WorkInv, Parts
  <2> QED BY <2>3, <2>4
<1>4. CASE DrawFails(p)
  <2>1. /\ Fault /\ Goto("conclude") /\ UNCHANGED <<clock, plans, forced, image, drawn>>
    BY <1>4 DEF DrawFails
  <2>2. PICK kind \in Kinds : Meets(p, IF forced THEN {"geometry", kind} ELSE {kind})
    BY <1>4 DEF DrawFails
  <2>3. (IF forced THEN {"geometry", kind} ELSE {kind}) \in SUBSET Kinds
    BY DEF Kinds
  <2>4. WorkOK' /\ CountsOK'
    BY <1>0, <2>1, <2>2, <2>3, MeetsParts
  <2>5. LoopOK' /\ Placed'
    BY <1>0, <2>1, GotoParts DEF Phases
  <2>6. DrawnOK' /\ DrawFits'
    BY <1>0, <2>1, PartsKept, NoPromise DEF Goto
  <2> QED BY <1>1, <2>4, <2>5, <2>6 DEF WorkInv, Parts
<1> QED BY <1>2, <1>3, <1>4

\* What a PDF comes to is one of the results a report knows.
LEMMA CategoryIs == \A kinds : Category(kinds) \in Results
BY DEF Category, Results

\* The text is judged, written and entered, or the PDF is given up.
LEMMA TextParts ==
  ASSUME WorkInv, NEW p \in PDFs,
         Judge(p) \/ StandIn(p) \/ SetFailure(p) \/ FinishWrite(p) \/ SaveMeta(p)
  PROVE  WorkInv'
<1>0. /\ Parts /\ CountsOK /\ DiskOK /\ LoopOK /\ WorkOK /\ DrawnOK /\ DrawFits
      /\ at <= Len(batch) /\ UNCHANGED <<row, version, clock, faults, limited, spoiled>>
      /\ clock \in 0 .. BatchTime
  <2>1. Parts /\ CountsOK /\ DiskOK /\ LoopOK /\ WorkOK /\ DrawnOK /\ DrawFits /\ clock \in 0 .. BatchTime
    BY DEF WorkInv, Parts, LoopOK
  <2>2. at <= Len(batch)
    BY DEF Judge, StandIn, SetFailure, FinishWrite, SaveMeta, Here
  <2>3. UNCHANGED <<row, version, clock, faults, limited, spoiled>>
    BY DEF Judge, StandIn, SetFailure, FinishWrite, SaveMeta, history
  <2> QED BY <2>1, <2>2, <2>3
<1>1. CountsOK'
  BY <1>0, PartsKept
<1>2. ASSUME Goto("conclude") \/ Goto("meta"),
             UNCHANGED <<result, errors, earlier, usable, plans, forced, image, drawn, copy>>, DiskOK'
      PROVE  WorkInv'
  <2>1. LoopOK' /\ Placed'
    BY <1>0, <1>2, GotoParts DEF Phases
  <2>2. WorkOK' /\ DrawnOK' /\ DrawFits'
    BY <1>0, <1>2, PartsKept, NoPromise DEF Goto
  <2> QED BY <1>1, <1>2, <2>1, <2>2 DEF WorkInv, Parts
<1>3. ASSUME NEW found \in Results, Conclude(p, found), DiskOK' PROVE WorkInv'
  BY <1>0, <1>1, <1>3, ConcludeParts DEF WorkInv, Parts
<1>4. CASE Judge(p) \/ StandIn(p)
  <2>1. UNCHANGED <<meta, result, errors, earlier, usable, plans, forced, image, drawn>>
    BY <1>4 DEF Judge, StandIn
  <2>2. CASE BeginWrite(p, "whole", TRUE)
    BY <1>0, <1>1, <2>1, <2>2, BeginParts DEF WorkInv, Texts
  <2>3. CASE ~BeginWrite(p, "whole", TRUE)
    <3>1. Goto("conclude") /\ UNCHANGED <<text, copy>>
      BY <1>4, <2>3 DEF Judge, StandIn
    <3>2. DiskOK'
      BY <1>0, <2>1, <3>1, PartsKept
    <3> QED BY <1>2, <2>1, <3>1, <3>2
  <2> QED BY <2>2, <2>3
<1>5. CASE SetFailure(p)
  <2>1. Conclude(p, Category(errors)) /\ UNCHANGED text
    BY <1>5 DEF SetFailure
  <2>2. DiskOK'
    <3>1. version \in 0 .. MaxVersion
      BY <1>0, ExtractorAssumption DEF DiskOK
    <3>2. meta' \in [PDFs -> [status : {"none", "success", "failed"}, version : 0 .. MaxVersion]]
      BY <1>0, <1>5, <3>1 DEF SetFailure, DiskOK
    <3> QED BY <1>0, <2>1, <3>2 DEF DiskOK
  <2> QED BY <1>3, <2>1, <2>2, CategoryIs
<1>6. CASE FinishWrite(p)
  <2>1. DiskOK'
    BY <1>0, <1>6 DEF FinishWrite, DiskOK, WorkOK
  <2>2. CASE copy.new
    BY <1>2, <1>6, <2>1, <2>2 DEF FinishWrite, work
  <2>3. CASE ~copy.new
    <3>1. PICK found \in Results : Conclude(p, found)
      BY <1>6, <2>3 DEF FinishWrite, Results
    <3> QED BY <1>3, <2>1, <3>1
  <2> QED BY <2>2, <2>3
<1>7. CASE SaveMeta(p)
  <2>1. DiskOK'
    <3>1. version \in 0 .. MaxVersion
      BY <1>0, ExtractorAssumption DEF DiskOK
    <3> QED BY <1>0, <1>7, <3>1 DEF SaveMeta, DiskOK
  <2> QED BY <1>3, <1>7, <2>1 DEF SaveMeta, Results
<1> QED BY <1>4, <1>5, <1>6, <1>7

\* A run that stops forgets its batch.
LEMMA StopParts ==
  ASSUME Stop
  PROVE  LoopOK' /\ WorkOK' /\ DrawnOK' /\ Placed' /\ DrawFits'
<1>1. /\ phase' = "idle" /\ batch' = <<>> /\ at' = 1 /\ clock' = 0
      /\ result' = [p \in PDFs |-> "none"] /\ Fresh
  BY DEF Stop
<1>2. LoopOK' /\ Placed'
  <2>1. <<>> \in Seq(PDFs) /\ Len(<<>>) = 0
    OBVIOUS
  <2> QED BY <1>1, <2>1, ExtractorAssumption DEF LoopOK, Placed, Phases, Results
<1> QED BY <1>1, <1>2, FreshParts

\* A batch begins, is reported, or is cut off.
LEMMA RunParts ==
  ASSUME WorkInv, StartBatch \/ Report \/ TimeUp \/ Crash \/ SubprocessDies \/ Upgrade
  PROVE  WorkInv'
<1>0. CountsOK /\ DiskOK /\ LoopOK /\ WorkOK /\ DrawnOK /\ Placed /\ DrawFits
  BY DEF WorkInv, Parts
<1>1. CASE StartBatch
  <2>1. /\ phase = "idle" /\ Claimed # {} /\ batch' = InOrder(Claimed) /\ at' = 1 /\ phase' = "look"
        /\ result' = [p \in PDFs |-> "none"] /\ clock' = 0
        /\ UNCHANGED <<row, meta, text, version, errors, earlier, usable, plans, forced, image, drawn, copy,
                       faults, limited, spoiled>>
    BY <1>1 DEF StartBatch, disk, work, history
  <2>2. Claimed \subseteq PDFs /\ Claimed \subseteq Nat /\ IsFiniteSet(Claimed)
    BY ExtractorAssumption, FS_Subset DEF Claimed
  <2>3. InOrder(Claimed) \in Seq(Claimed) /\ Len(InOrder(Claimed)) \in Nat /\ Len(InOrder(Claimed)) # 0
    <3>1. Cardinality(Claimed) # 0
      BY <2>1, <2>2, FS_EmptySet
    <3> QED BY <2>2, <3>1, BatchIsListed
  <2>4. InOrder(Claimed) \in Seq(PDFs)
    <3>1. DOMAIN InOrder(Claimed) = 1 .. Len(InOrder(Claimed)) /\ \A i \in DOMAIN InOrder(Claimed) : InOrder(Claimed)[i] \in PDFs
      BY <2>2, <2>3, LenProperties, ElementOfSeq
    <3>2. InOrder(Claimed) \in [1 .. Len(InOrder(Claimed)) -> PDFs]
      BY <2>3, <3>1, LenProperties
    <3> QED BY <2>3, <3>2
  <2>5. LoopOK' /\ Placed'
    BY <2>1, <2>3, <2>4, ExtractorAssumption DEF LoopOK, Placed, Phases, Results
  <2>6. DiskOK' /\ WorkOK' /\ DrawnOK' /\ CountsOK'
    BY <1>0, <2>1, PartsKept
  <2>7. DrawFits'
    BY <1>0, <2>1 DEF DrawFits, Unplanned, Undrawn
  <2> QED BY <2>5, <2>6, <2>7 DEF WorkInv, Parts
<1>2. CASE Report
  <2>1. /\ Stop /\ UNCHANGED <<meta, text, version, faults, limited, spoiled>>
        /\ row' = row \/ row' = [p \in PDFs |-> IF result[p] = "none" THEN row[p] ELSE RowOf(result[p])]
    BY <1>2 DEF Report, history
  <2>2. DiskOK'
    BY <1>0, <2>1 DEF DiskOK, RowOf, RowStates
  <2>3. CountsOK'
    BY <1>0, <2>1, PartsKept
  <2> QED BY <2>1, <2>2, <2>3, StopParts DEF WorkInv, Parts
<1>3. CASE TimeUp
  <2>1. Stop /\ UNCHANGED <<row, meta, text, version, faults, limited, spoiled>>
    BY <1>3 DEF TimeUp, disk, history
  <2> QED BY <1>0, <2>1, PartsKept, StopParts DEF WorkInv, Parts
<1>4. CASE Crash \/ SubprocessDies
  <2>1. /\ Cut /\ Stop /\ Fault /\ UNCHANGED <<version, limited>> /\ phase # "idle"
        /\ row' \in [PDFs -> RowStates]
    BY <1>0, <1>4 DEF Crash, SubprocessDies, DiskOK, RowStates
  <2>2. /\ text' \in [PDFs -> Texts]
        /\ meta' \in [PDFs -> [status : {"none", "success", "failed"}, version : 0 .. MaxVersion]]
        /\ spoiled' \in SUBSET PDFs
    <3>1. CASE phase \in {"write", "meta"}
      <4> DEFINE p == batch[at]
      <4>1. p \in PDFs
        BY <1>0, <3>1, CurrentIs DEF Placed
      <4>2. \/ text' = text
            \/ \E part \in {"empty", "cut"} : text' = [text EXCEPT ![p] = part]
        BY <2>1, <3>1 DEF Cut
      <4>3. meta' = meta \/ meta' = [meta EXCEPT ![p] = NoMeta]
        BY <2>1, <3>1 DEF Cut
      <4>4. spoiled' = spoiled \/ spoiled' = spoiled \union {p}
        BY <2>1, <3>1 DEF Cut
      <4> HIDE DEF p
      <4>5. text' \in [PDFs -> Texts]
        BY <1>0, <4>2 DEF DiskOK, Texts
      <4>6. NoMeta \in [status : {"none", "success", "failed"}, version : 0 .. MaxVersion]
        BY ExtractorAssumption DEF NoMeta
      <4>7. meta' \in [PDFs -> [status : {"none", "success", "failed"}, version : 0 .. MaxVersion]]
        BY <1>0, <4>3, <4>6 DEF DiskOK
      <4> QED BY <1>0, <4>1, <4>4, <4>5, <4>7 DEF CountsOK
    <3>2. CASE phase \notin {"write", "meta"}
      BY <1>0, <2>1, <3>2 DEF Cut, DiskOK, CountsOK
    <3> QED BY <3>1, <3>2
  <2>3. DiskOK'
    BY <1>0, <2>1, <2>2 DEF DiskOK
  <2>4. CountsOK'
    <3>1. limited' \in SUBSET PDFs
      BY <1>0, <2>1 DEF CountsOK
    <3> QED BY <1>0, <2>1, <2>2, <3>1, FaultCounts
  <2> QED BY <2>1, <2>3, <2>4, StopParts DEF WorkInv, Parts
<1>5. CASE Upgrade
  <2>1. /\ version < MaxVersion /\ version' = version + 1 /\ row' = [p \in PDFs |-> "due"]
        /\ UNCHANGED <<meta, text, phase, batch, at, result, clock, errors, earlier, usable, plans,
                       forced, image, drawn, copy, faults, limited, spoiled>>
    BY <1>5 DEF Upgrade, loop, work, history
  <2>2. DiskOK'
    BY <1>0, <2>1, ExtractorAssumption DEF DiskOK, RowStates
  <2>3. LoopOK' /\ WorkOK' /\ DrawnOK' /\ CountsOK'
    BY <1>0, <2>1, PartsKept
  <2>4. Placed' /\ DrawFits'
    BY <1>0, <2>1 DEF Placed, DrawFits, Current, Planned
  <2> QED BY <2>2, <2>3, <2>4 DEF WorkInv, Parts
<1> QED BY <1>1, <1>2, <1>3, <1>4, <1>5

\* Initially nothing was drawn.
LEMMA WorkBegins == Init => WorkInv
<1> SUFFICES ASSUME Init PROVE WorkInv
  OBVIOUS
<1>1. DiskOK
  BY ExtractorAssumption DEF Init, DiskOK, RowStates, NoMeta, Texts
<1>2. LoopOK /\ Placed
  <2>1. <<>> \in Seq(PDFs) /\ Len(<<>>) = 0
    OBVIOUS
  <2> QED BY <2>1, ExtractorAssumption DEF Init, LoopOK, Placed, Phases, Results
<1>3. WorkOK /\ CountsOK
  <2>1. NoCopy \in [text : Texts, new : BOOLEAN]
    BY DEF NoCopy, Texts
  <2>2. WorkOK
    BY <2>1 DEF Init, WorkOK
  <2>3. CountsOK
    BY ExtractorAssumption DEF Init, CountsOK
  <2> QED BY <2>2, <2>3
<1>4. DrawnOK
  <2>1. NoPlan \in Seq([strategy : Strategies, width : Nat, height : Nat, tile : Nat, count : Nat])
    BY DEF NoPlan
  <2> QED BY <2>1 DEF Init, DrawnOK, First, NoRows
<1>5. DrawFits
  BY DEF Init, DrawFits
<1> QED BY <1>1, <1>2, <1>3, <1>4, <1>5 DEF WorkInv, Parts

\* Every step keeps the types and what the images have read.
LEMMA WorkInductive == WorkInv /\ [Next]_vars => WorkInv'
<1> SUFFICES ASSUME WorkInv, [Next]_vars PROVE WorkInv'
  OBVIOUS
<1>1. ASSUME NEW p \in PDFs, Step(p) PROVE WorkInv'
  BY <1>1, LookParts, ProbeParts, DrawParts, TextParts DEF Step
<1>2. CASE WorkerStep
  BY <1>1, <1>2, RunParts DEF WorkerStep
<1>3. ASSUME NEW p \in PDFs, \/ Unreachable(p) \/ DirectFails(p) \/ ProbeFails(p)
                             \/ OcrmypdfFails(p) \/ DrawTooLarge(p) \/ DrawFails(p)
      PROVE WorkInv'
  BY <1>3, LookParts, ProbeParts, DrawParts
<1>4. CASE Environment
  BY <1>3, <1>4, RunParts DEF Environment
<1>5. CASE UNCHANGED vars
  <2>1. UNCHANGED <<row, meta, text, version, phase, batch, at, result, clock, errors, earlier, usable,
                    plans, forced, image, drawn, copy, faults, limited, spoiled>>
    BY <1>5 DEF vars, disk, loop, work, history
  <2>2. DiskOK' /\ LoopOK' /\ WorkOK' /\ DrawnOK' /\ CountsOK'
    BY <2>1, PartsKept DEF WorkInv, Parts
  <2>3. Placed' /\ DrawFits'
    BY <2>1 DEF WorkInv, Parts, Placed, DrawFits, Current, Planned
  <2> QED BY <2>2, <2>3 DEF WorkInv, Parts
<1> QED BY <1>2, <1>4, <1>5 DEF Next

\* In every reachable state what was read is the part of the plan before the
\* next image, and the plan is that of the PDF at hand.
THEOREM WorkHolds == Spec => []WorkInv
<1> QED BY WorkBegins, WorkInductive, PTL DEF Spec

\* Everything has its type: rows, cache, loop, plans and images.
THEOREM TypeCorrect == Spec => []TypeOK
<1>1. WorkInv => TypeOK
  BY DEF WorkInv, Parts, TypeOK
<1> QED BY <1>1, WorkHolds, PTL

\* When the images of a plan were read, every row of every page was in one of
\* them, none was over a limit, and what was drawn is what the plan projected.
THEOREM AllRowsAreRead == Spec => []EveryRowIsRead
<1>1. WorkInv => EveryRowIsRead
  <2> SUFFICES ASSUME WorkInv, phase = "judge", drawn # NoRows
               PROVE  /\ drawn.rows = UNION {{i} \X (0 .. plans[i].height - 1) : i \in DOMAIN plans}
                      /\ \A i \in DOMAIN plans :
                           /\ plans[i].width <= MaxImageDimension /\ plans[i].tile <= MaxImageDimension
                           /\ plans[i].width * plans[i].tile <= MaxPagePixels
                      /\ drawn.pixels = DocumentPixels(plans) /\ drawn.pixels <= MaxDocumentPixels
    BY DEF EveryRowIsRead
  <2>1. at <= Len(batch) /\ LoopOK /\ DrawFits /\ forced \in BOOLEAN
    BY DEF WorkInv, Parts, Placed, WorkOK
  <2> DEFINE p == batch[at]
  <2>2. p \in PDFs /\ Current(p)
    BY <2>1, CurrentIs DEF Current
  <2> HIDE DEF p
  <2>3. Planned(p) /\ ReadAll(plans, drawn)
    BY <2>1, <2>2 DEF DrawFits
  <2>4. /\ DOMAIN plans = 1 .. Len(plans)
        /\ \A i \in DOMAIN plans : FitPlan(plans[i])
        /\ PixelsUpTo(plans)[Len(plans)] <= MaxDocumentPixels
    BY <2>1, <2>2, <2>3, DocumentFits DEF Planned
  <2>5. \A i \in DOMAIN plans :
          /\ plans[i].width <= MaxImageDimension /\ plans[i].tile <= MaxImageDimension
          /\ plans[i].width * plans[i].tile <= MaxPagePixels
    BY <2>4 DEF FitPlan
  <2>6. drawn.rows = UNION {{i} \X (0 .. plans[i].height - 1) : i \in DOMAIN plans}
    BY <2>3, <2>4 DEF ReadAll, RowsBefore
  <2> QED BY <2>3, <2>4, <2>5, <2>6 DEF ReadAll, DocumentPixels
<1> QED BY <1>1, WorkHolds, PTL
=============================================================================
