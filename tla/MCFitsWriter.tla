---------------------------- MODULE MCFitsWriter ----------------------------
(* Instances of FitsWriter for TLC. *)
EXTENDS FitsWriter

Amp(type, rotate, x, y, discard) ==
    [type |-> type, rotate |-> rotate, x |-> x, y |-> y, discard |-> discard]

\* Four quadrants, two of them left out, a lower one that does not begin at the corner of
\* the detector, and amplifiers that are rotated.
MCLayouts == {
    <<Amp("LL", 0, 1, 1, FALSE), Amp("LR", 0, 3, 1, FALSE),
      Amp("UL", 0, 1, 5, FALSE), Amp("UR", 0, 3, 5, FALSE)>>,
    <<Amp("LL", 0, 1, 1, TRUE), Amp("LR", 0, 3, 1, FALSE),
      Amp("UL", 0, 1, 5, TRUE), Amp("UR", 0, 3, 5, FALSE)>>,
    <<Amp("LR", 0, 5, 3, FALSE), Amp("LL", 0, 3, 3, TRUE)>>,
    <<Amp("LL", 90, 1, 1, FALSE), Amp("UR", 90, 5, 1, FALSE), Amp("LR", 270, 9, 1, FALSE),
      Amp("UL", 270, 13, 1, FALSE)>> }
\* Two extensions change places.
MCMaps == {<<1, 0>>}
\* A region inside the image of four quadrants, half outside of the one of two and outside of
\* the one of one.
MCRegions == {[x |-> 2, y |-> 2, cols |-> 2, rows |-> 4]}
=============================================================================
