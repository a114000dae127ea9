------------------------------ MODULE OcrPlan -------------------------------
(***************************************************************************)
(* How a page is turned into images for OCR:                               *)
(*   plan_page_ocr, plan_document_ocr   src/zsxq_pipeline/extractor_worker.py*)
(* A page is drawn whole at the highest resolution that keeps it within the*)
(* limits, and otherwise at the lowest one in tiles that overlap.  Pages   *)
(* are in points, images in pixels; the code's float products are exact    *)
(* here.                                                                   *)
(***************************************************************************)
EXTENDS Integers, Sequences, SequencesExt

CONSTANTS
  Dpis,              \* the resolutions tried, the base and the lowest among them
  BaseDpi,           \* OCR_BASE_DPI
  MinDpi,            \* OCR_MIN_DPI
  PointsPerInch,     \* 72
  MaxPagePixels,     \* OCR_MAX_PAGE_PIXELS
  MaxImageDimension, \* OCR_MAX_IMAGE_DIMENSION
  TileHeight,        \* OCR_TILE_HEIGHT
  TileOverlap,       \* OCR_TILE_OVERLAP
  MaxTiles,          \* OCR_MAX_TILES_PER_PAGE
  MaxDocumentPixels  \* OCR_MAX_DOCUMENT_PIXELS

ASSUME OcrPlanAssumption ==
  /\ BaseDpi \in Nat \ {0} /\ MinDpi \in Nat \ {0} /\ MinDpi <= BaseDpi
  /\ Dpis \subseteq MinDpi .. BaseDpi /\ {MinDpi, BaseDpi} \subseteq Dpis
  /\ PointsPerInch \in Nat \ {0}
  /\ MaxPagePixels \in Nat /\ MaxImageDimension \in Nat
  /\ TileHeight \in Nat /\ TileOverlap \in Nat /\ MaxTiles \in Nat
  /\ MaxDocumentPixels \in Nat

\* A page as pdfinfo reports it. The code reads no rotation: it plans a page that
\* is turned with width and height as they stand in the file, while pdftoppm draws
\* it turned. What is said here of images holds for pages that are not turned.
Pages == [width : Nat \ {0}, height : Nat \ {0}]

Least(a, b) == IF a <= b THEN a ELSE b
Most(a, b) == IF a >= b THEN a ELSE b
CeilDiv(a, b) == (a + b - 1) \div b

\* A length in pixels at a resolution.
Drawn(points, dpi) == Most(1, CeilDiv(points * dpi, PointsPerInch))

WidthAt(page, dpi) == Drawn(page.width, dpi)
HeightAt(page, dpi) == Drawn(page.height, dpi)

\* geometry_fits_single_image
FitsSingleImage(page, dpi) ==
  /\ WidthAt(page, dpi) <= MaxImageDimension
  /\ HeightAt(page, dpi) <= MaxImageDimension
  /\ WidthAt(page, dpi) * HeightAt(page, dpi) <= MaxPagePixels

Fitting(page) == {dpi \in Dpis : FitsSingleImage(page, dpi)}

\* The height of a tile of that width: the configured one, the largest side, or
\* what the pixel limit leaves.
SafeTileHeight(width) ==
  Least(TileHeight, Least(MaxImageDimension, MaxPagePixels \div Most(width, 1)))

\* Mutant: the last, shorter tile is forgotten.
TileCountFloor(height, tile) ==
  Most(1, Most(height - TileOverlap, 1) \div (tile - TileOverlap))

\* Neighbours share TileOverlap rows.
TileCount(height, tile) ==
  Most(1, CeilDiv(Most(height - TileOverlap, 1), tile - TileOverlap))

\* Can the page be cut into tiles at the lowest resolution?
Tileable(page) ==
  LET width == WidthAt(page, MinDpi)
      tile  == SafeTileHeight(width)
  IN  /\ width <= MaxImageDimension
      /\ tile > 2 * TileOverlap
      /\ TileCount(HeightAt(page, MinDpi), tile) <= MaxTiles

\* The plan of a page; "tile" is the height of one image, "count" their number.
Single(page, dpi) ==
  [strategy |-> IF dpi = BaseDpi THEN "standard" ELSE "adaptive",
   width |-> WidthAt(page, dpi), height |-> HeightAt(page, dpi),
   tile |-> HeightAt(page, dpi), count |-> 1]

Tiled(page) ==
  LET width == WidthAt(page, MinDpi)
      height == HeightAt(page, MinDpi)
      tile  == SafeTileHeight(width)
  IN  [strategy |-> "tiled", width |-> width, height |-> height,
       tile |-> tile, count |-> TileCount(height, tile)]

\* "forced": tiles at the lowest resolution, after an image proved too large.
Plannable(page, forced) == (~forced /\ Fitting(page) # {}) \/ Tileable(page)

PagePlan(page, forced) ==
  IF ~forced /\ Fitting(page) # {}
  THEN Single(page, CHOOSE dpi \in Fitting(page) : \A other \in Fitting(page) : other <= dpi)
  ELSE Tiled(page)

\* Rows of the page that image i shows, the first one and the one past the last.
Top(plan, i) == i * (plan.tile - TileOverlap)
Bottom(plan, i) == Top(plan, i) + Least(plan.tile, plan.height - Top(plan, i))
Rows(plan, i) == Top(plan, i) .. Bottom(plan, i) - 1

\* What a plan is expected to draw, the shared rows of tiles twice.
Projected(plan) == plan.width * plan.height
  + (IF plan.strategy = "tiled" THEN plan.width * TileOverlap * (plan.count - 1) ELSE 0)

DocumentPlan(pages, forced) == [i \in DOMAIN pages |-> PagePlan(pages[i], forced)]

\* And the first n pages of a document, for each n.
PixelsUpTo(plans) ==
  LET sum[n \in 0 .. Len(plans)] == IF n = 0 THEN 0 ELSE sum[n - 1] + Projected(plans[n])
  IN  sum

DocumentPixels(plans) == PixelsUpTo(plans)[Len(plans)]

Supported(pages, forced) ==
  /\ pages # <<>>
  /\ \A i \in DOMAIN pages : Plannable(pages[i], forced)
  /\ DocumentPixels(DocumentPlan(pages, forced)) <= MaxDocumentPixels
=============================================================================
