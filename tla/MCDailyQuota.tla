---------------------------- MODULE MCDailyQuota ----------------------------
(* A limiter of two units, three requests: two can compete for the last    *)
(* unit while a third settles, and every midnight falls between any two of *)
(* their calls.                                                            *)
EXTENDS DailyQuota

=============================================================================
