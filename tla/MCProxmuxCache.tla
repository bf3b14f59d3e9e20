--------------------------- MODULE MCProxmuxCache ---------------------------
(* A small instance of ProxmuxCache for TLC. *)
EXTENDS ProxmuxCache, TLC

CONSTANTS alpha, a, b, vm

OneCluster == alpha :> {alpha}

\* One and two milliseconds stand for five and nine seconds.
ShortLives == [kind \in {"resources", "guest"} |-> IF kind = "guest" THEN 1 ELSE 2]

=============================================================================
