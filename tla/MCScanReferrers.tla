---------------------------- MODULE MCScanReferrers ----------------------------
(* Small instances of ScanReferrers: two images, two tags, two tools.      *)
EXTENDS ScanReferrers

CONSTANTS m1, m2, t1, t2

Apart == t1 :> m2 @@ t2 :> m1

\* What a report finds does not matter to gc.
Produce == {{[kind |-> Unset, score |-> Unset, rule |-> 70, level |-> "note"]}}
=============================================================================
