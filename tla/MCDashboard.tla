---------------------------- MODULE MCDashboard -----------------------------
(* Instances of Dashboard for TLC. *)
EXTENDS Dashboard

Endpoint(algo, limit, window, cap) ==
    [algo |-> algo, limit |-> limit, window |-> window, cap |-> cap]

MCEndpoints ==
    {Endpoint("sliding_window", 2, 3, 2), Endpoint("fixed_window", 2, 3, 2),
     Endpoint("token_bucket", 2, 3, 3), Endpoint("leaky_bucket", 2, 3, 2)}
MCBurstInputs == {-1, 2, 9}
=============================================================================
