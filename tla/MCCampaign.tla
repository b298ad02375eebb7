----------------------------- MODULE MCCampaign -----------------------------
(***************************************************************************)
(* Two measured requests at a time; a warm-up request and a measured one,  *)
(* one after the other; and one request watched by a probe: over three     *)
(* connections of which two have the same address pair.                    *)
(***************************************************************************)
EXTENDS Campaign, TLC

Load(warmup, total, concurrency) ==
  [warmup |-> warmup, total |-> total, concurrency |-> concurrency]

CampaignLoads == {Load(0, 2, 2), Load(1, 1, 1), Load(0, 1, 1)}
CampaignWatched == {Load(0, 1, 1)}
CampaignConns == {"c1", "c2", "c3"}
CampaignTuples == "c1" :> "t" @@ "c2" :> "t" @@ "c3" :> "u"
=============================================================================
