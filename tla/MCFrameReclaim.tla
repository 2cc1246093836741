--------------------------- MODULE MCFrameReclaim ---------------------------
(* FrameReclaim with three frames, two dropping threads and a remote queue   *)
(* of exactly as many entries as frames, as FrameReclaim::new makes it.      *)
EXTENDS FrameReclaim
=============================================================================
