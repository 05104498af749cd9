------------------------ MODULE MCBoundedByteBuffer ------------------------
(* Limits below, at and above the coalesce size, and no limit. *)
EXTENDS BoundedByteBuffer
MCLimits == {1, 3, 4, None}
MCCoalesceSizes == {1, 2, 3, 5}
=============================================================================
