------------------------- MODULE MCTelemetrySamples -------------------------
(***************************************************************************)
(* TelemetrySamples on the values around every limit for TLC.              *)
(***************************************************************************)
EXTENDS TelemetrySamples

\* Two times of one microsecond, and one of another.
SomeTimes == {1, 2, 3}

\* None, one that is rounded up to 100 percent, and one too large.
SomeUsages == {0, 99996, 100001}

SomeQuantities == {-1, 0, 1}

SomeUptimes == {-1, 0}

=============================================================================
