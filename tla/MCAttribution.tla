--------------------------- MODULE MCAttribution ---------------------------
(***************************************************************************)
(* Measurements around every threshold of RUN_001, and the ones that       *)
(* Metrics refuses.                                                        *)
(***************************************************************************)
EXTENDS Attribution

CONSTANTS MCDCovs, MCDAccs, MCCoverages, MCFailures, MCSizes

MCResiduals ==
  {<<None, None, None>>, <<950, None, None>>, <<900, 900, None>>,
   <<900, 900, 9999>>, <<700, 720, 10000>>, <<1000, 1000, 10000>>,
   <<990, 900, 10000>>, <<950, 900, 10000>>, <<800, 720, 10000>>,
   <<810, 795, 10000>>, <<790, 600, 10000>>, <<900, 100, 10000>>}

MCMeasurements ==
  {[d_cov |-> cov, d_acc |-> acc, truth_coverage |-> truth,
    oracle_capture_failure |-> failure, n |-> size,
    r |-> res[1], t |-> res[2], n_residual |-> res[3]] :
      cov \in MCDCovs, acc \in MCDAccs, truth \in MCCoverages,
      failure \in MCFailures, size \in MCSizes, res \in MCResiduals}
=============================================================================
