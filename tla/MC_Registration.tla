--------------------------- MODULE MC_Registration ---------------------------
(* Model-checking instance of Registration: the four names of             *)
(* RegisterPodScrapingMetrics, and pods that expose them and one more.    *)
EXTENDS Registration

CONSTANTS kvCache, waiting, eppKvCache, eppQueue, other

MC_Expected == <<kvCache, waiting, eppKvCache, eppQueue>>
MC_Reported == {kvCache, waiting, eppKvCache, eppQueue, other}
(* Any set of them: vLLM and EndPointPicker pods, vLLM pods only, pods    *)
(* of which some fail to answer, none that answer.                        *)
MC_Exposures == SUBSET MC_Reported
=============================================================================
