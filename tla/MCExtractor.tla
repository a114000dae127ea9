---------------------------- MODULE MCExtractor -----------------------------
(* An instance of Extractor for TLC: a text that needs no OCR, a scan that *)
(* cannot be read, two pages of the base resolution, a tall page that is   *)
(* cut into tiles next to one at a lower resolution, and a page that is too*)
(* wide, with a text to fall back on.                                      *)
EXTENDS Extractor

FivePdfs == {1, 2, 3, 4, 5}
Size(w, h) == [width |-> w, height |-> h]
FiveShapes == <<<<Size(2, 2)>>, <<Size(1, 1)>>, <<Size(2, 3), Size(1, 1)>>,
                <<Size(4, 14), Size(3, 6)>>, <<Size(13, 2)>>>>
FiveTexts == <<"good", "poor", "poor", "poor", "degraded">>
FiveScans == <<TRUE, FALSE, TRUE, TRUE, FALSE>>
=============================================================================
