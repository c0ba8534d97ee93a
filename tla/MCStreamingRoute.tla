-------------------------- MODULE MCStreamingRoute --------------------------
(* Instance of StreamingRoute for TLC: words of six bits, sats of four msat. *)
EXTENDS StreamingRoute

Policy(price, per, free, grace) ==
    [price_msat |-> price, per_units |-> per, free_probe_units |-> free, grace_units |-> grace]
Route(policy, unit, capacity, stated, guarded) ==
    [policy |-> policy, unit |-> unit, capacity_sat |-> capacity, stated_sat |-> stated,
     guarded |-> guarded]

\* Rounding in price and in unit; no denominator, no grace, no stated capacity,
\* with and without the progress check; a price whose total exceeds a word,
\* which the channel cannot pay.  (At half a word per unit and more, 2^63 msat,
\* the amount due wraps to nothing.)
SmallTerms ==
    {Route(Policy(3, 2, 1, 2), "sat", 3, 3, TRUE),
     Route(Policy(3, 2, 1, 1), "msat", 1, 0, TRUE),
     Route(Policy(2, 0, 0, 0), "sat", 2, 0, FALSE),
     Route(Policy(31, 1, 1, 1), "sat", 2, 2, TRUE)}
=============================================================================
