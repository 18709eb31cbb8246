------------------------ MODULE MCConcurrencyLimiter ------------------------
(* Two slots, four goroutines: two can queue, one of them can give up, and *)
(* two can record their waiting time at once.                              *)
EXTENDS ConcurrencyLimiter

=============================================================================
