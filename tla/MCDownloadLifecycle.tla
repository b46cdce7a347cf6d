------------------------ MODULE MCDownloadLifecycle ------------------------
(* A manga chapter and an episode that may turn out a video or a stream,   *)
(* of two sources: with one slot at the gate one waits for the other's     *)
(* attempt to end, with two they run side by side.                         *)
EXTENDS DownloadLifecycle, TLC

CONSTANTS chapter, episode, A, B

MCDownloads == {chapter, episode}
MCSourceOf == [d \in Downloads |-> IF d = chapter THEN A ELSE B]
MCManga == {chapter}
MCOrders == {<< >>}
MCOldRecords == {Absent, {"isStartDownload"}}

=============================================================================
