----------------------------- MODULE MCHttpSlots -----------------------------
(* The pool at its limits: two requests for origins of every kind, which evict  *)
(* each other's connections, and three requests for QUIC origins, which share   *)
(* them while the workers fail and close them. focus says which a behaviour is. *)
EXTENDS MCHttpSend

CONSTANT Extra    \* the request that is there only for the QUIC origins

VARIABLE focus

SlotJobs == EvictJobs \cup QuicJobs

SlotsInit == Init /\ focus \in {"mixed", "quic"}

SlotsNext ==
    /\ Next /\ UNCHANGED focus
    /\ focus = "mixed" => req'[Extra].phase = "idle"
    /\ focus = "quic" =>
          \A r \in Requests : req'[r].phase # "idle" => req'[r].job \in QuicJobs

SlotsSpec == SlotsInit /\ [][SlotsNext]_<<focus, vars>>

Pairs == Permutations(Requests \ {Extra})
=============================================================================
