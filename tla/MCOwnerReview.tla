--------------------------- MODULE MCOwnerReview ---------------------------
\* The review of one withdrawal with two deliverers and two presses.
EXTENDS OwnerReview
=============================================================================
