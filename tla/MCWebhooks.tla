----------------------------- MODULE MCWebhooks -----------------------------
(* Small instances of Webhooks: one order of 10, one browser, two deliveries. *)
EXTENDS Webhooks, TLC

CONSTANTS p1, g1, u1, h1, h2

SubtotalUm == p1 :> 10

\* The two deliveries differ only in their name; for runs without liveness.
Simetria == Permutations({h1, h2})
=============================================================================
