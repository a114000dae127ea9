SPECIFICATION FairSpec
CONSTANTS
  Dpis = {1, 2}
  BaseDpi = 2
  MinDpi = 1
  PointsPerInch = 1
  MaxPagePixels = 24
  MaxImageDimension = 12
  TileHeight = 6
  TileOverlap = 1
  MaxTiles = 3
  MaxDocumentPixels = 100
  PDFs <- FivePdfs
  PagesOf <- FiveShapes
  DirectText <- FiveTexts
  OcrText <- FiveScans
  Garbled = {3}
  BatchTime = 4
  MaxVersion = 2
  MaxFaults = 2
INVARIANTS TypeOK EveryRowIsRead CacheTellsTheTruth
PROPERTIES EveryPdfIsConcluded
CHECK_DEADLOCK FALSE
