------------------------------ MODULE MCImageGate ------------------------------
(* Small instances of ImageGate: two images, two tags, two tools.          *)
EXTENDS ImageGate

CONSTANTS m1, m2, t1, t2

Both == t1 :> m1 @@ t2 :> m1

Result(kind, score, level) == [kind |-> kind, score |-> score, rule |-> Unset, level |-> level]

\* Clean but for a verdict of a policy; a finding at the boundary of high; not SARIF.
Clean   == {Result("fail", 95, Unset), Result(Unset, 69, Unset)}
Breach  == {Result(Unset, 70, Unset)}
Produce == {Clean, Breach, Unset}
=============================================================================
