--------------------------- MODULE MCFrameTransfer --------------------------
(* Instances of FrameTransfer for TLC. *)
EXTENDS FrameTransfer

\* One to three frames in the buffer; with three, frames that need no rounding,
\* since the third of three that do is handed on before it is read.
RoundLayouts == {[fpb |-> 1, gap |-> 0], [fpb |-> 1, gap |-> 1], [fpb |-> 2, gap |-> 0],
                 [fpb |-> 2, gap |-> 1], [fpb |-> 3, gap |-> 0]}

\* An optical image of four frames, an infrared one, and the fast modes.
AllExposures == {[mode |-> "chunks", pre |-> 0, post |-> 4], [mode |-> "chunks", pre |-> 1, post |-> 2],
                 [mode |-> "fast", pre |-> 0, post |-> 4], [mode |-> "ultra", pre |-> 0, post |-> 4]}
=============================================================================
