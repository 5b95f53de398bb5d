------------------------ MODULE MCBackgroundLimiter ------------------------
(* Constants for the model-checking runs of BackgroundLimiter. *)
EXTENDS BackgroundLimiter

CONSTANTS t1, t2, t3, x1, u1

\* BACKOFF_SCHEDULE is 1, 2, 4, 8 and 10 minutes; two entries show escalation.
ShortSchedule == <<1, 2>>
=============================================================================
