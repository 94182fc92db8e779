------------------------------- MODULE MCOta -------------------------------
EXTENDS Ota

\* The second image ends with a sector; the third is smaller than the offsets
\* at which a download of the second may have stopped.
Size_MC == <<3, 4, 1>>

\* The second image fills the partition.
SizeFull_MC == <<3, 10, 1>>

ASSUME Hypotheses == ImagesFit /\ AnnouncementsRead /\ ReportsRead /\ ImagesDiffer
=============================================================================
