---------------------------- MODULE MCLaneChange ----------------------------
\* One lead and, as in both shipped scenes, a second lane to the right only.
EXTENDS LaneChange

MCSides == {-1}
=============================================================================
