--------------------------- MODULE MCDownloadGate ---------------------------
(* Four downloads of three sources (two of one source, so that a source    *)
(* has a queue of its own behind its holder), settings that need the clamp,*)
(* that can shrink below the number of holders and that let every source   *)
(* run at once, and saved orders that reverse the arrival order of some    *)
(* downloads and leave others unranked.                                    *)
EXTENDS DownloadGate, TLC

CONSTANTS d1, d2, d3, d4, A, B, C

MCDownloads == {d1, d2, d3, d4}
MCSourceOf == d1 :> A @@ d2 :> A @@ d3 :> B @@ d4 :> C
MCLimits == {0, 2, 3}
MCOrders == {<< >>, <<d4, d2>>, <<d3>>}

=============================================================================
