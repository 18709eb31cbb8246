--------------------------- MODULE MCTokenBucket ---------------------------
(* A bucket of two tokens, three requests: the third reserves behind a     *)
(* deficit while the first is refunded or charged more.                    *)
EXTENDS TokenBucket

=============================================================================
