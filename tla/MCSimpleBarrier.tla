--------------------------- MODULE MCSimpleBarrier ---------------------------
(* Four threads (a master and three waiters), four calls each: both phases *)
(* are used twice, so words are reused after having been cleared.          *)
EXTENDS SimpleBarrier

MCMAX == 4
MCRounds == 4

=============================================================================
