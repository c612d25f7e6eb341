----------------------------- MODULE MCHttpSend -----------------------------
(* Instances of HttpSend for TLC: the keys and jobs its configurations name. *)
EXTENDS HttpSend, TLC

Key(kind, host, identity, auto, alpn) ==
    [kind |-> kind, host |-> host, identity |-> identity, auto |-> auto, alpn |-> alpn]

Auto == Key("Tcp", "a", 1, TRUE, "none")      \* https, ALPN left to TLS
Other == Key("Tcp", "a", 2, TRUE, "none")     \* same host, other TLS identity
Cleartext == Key("Tcp", "b", 1, FALSE, "none")
Third == Key("Tcp", "c", 1, FALSE, "none")
H3 == Key("Quic", "a", 1, FALSE, "none")
H3b == Key("Quic", "b", 1, FALSE, "none")

AllKeys == {Auto, Other, Cleartext, Third, H3, H3b}

Job(key, policy, pipeline, safe) ==
    [key |-> key, policy |-> policy, pipeline |-> pipeline, safe |-> safe]

H2Jobs == {Job(Auto, "ReuseOrCreate", FALSE, TRUE)}
EvictJobs == {Job(Auto, "ReuseOrCreate", FALSE, FALSE), Job(Other, "ForceNew", FALSE, TRUE),
              Job(Cleartext, "ReuseOrCreate", FALSE, TRUE), Job(Third, "NoPool", FALSE, TRUE),
              Job(Third, "ReuseOrCreate", FALSE, TRUE)}
PipelineJobs == {Job(Auto, "ReuseOrCreate", TRUE, TRUE)}
OriginJobs == H2Jobs \cup PipelineJobs
QuicJobs == {Job(H3, "ReuseOrCreate", FALSE, TRUE), Job(H3b, "ForceNew", FALSE, TRUE)}

LiveJobs == OriginJobs \cup {Job(H3, "ReuseOrCreate", FALSE, TRUE)}

Symmetry == Permutations(Requests)
=============================================================================
