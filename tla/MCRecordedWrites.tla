-------------------------- MODULE MCRecordedWrites --------------------------
(* RecordedWrites with a buffer and an image in two allocations, a texel      *)
(* view and an image view, a plain and an imageless framebuffer, and a layout *)
(* with an empty binding between two others.                                  *)
EXTENDS RecordedWrites

MCMemory == [r \in {"buffer", "image"} |-> IF r = "buffer" THEN "m1" ELSE "m2"]
MCViewed == [v \in {"texels", "view"} |-> IF v = "texels" THEN "buffer" ELSE "image"]
MCAttachments == [f \in {"plain", "imageless"} |-> IF f = "plain" THEN {"view"} ELSE {}]
SetSymmetry == Permutations(Sets)
MCLayout == <<<<0, 1>>, <<1, 0>>, <<2, 2>>>>
=============================================================================
