------------------------------ MODULE MCConfig ------------------------------
(* Small instances of Config: the values at the ends of every range. *)
EXTENDS Config, TLC

Ports(lo, hi, sp) == [lo |-> lo, hi |-> hi, sp |-> sp]
Target(net, lo, hi, sp) == [net |-> net, lo |-> lo, hi |-> hi, sp |-> sp]
Lo == {"127.0.0.1"}
Ten == {"10.0.0.1"}

MCFile ==
    [state_dir |-> {}, control |-> {-1, 9000, 25000}, enroll |-> {-1, 0, 9000, 25000},
     vhost |-> {0, 25000, 65536}, bandwidth |-> {-1, 0, 1},
     max_tunnels |-> {0, 1024, 1025}, max_conns |-> {-1, 100000},
     udp_sessions |-> {0, 65536, 65537, 2^20 + 1}, udp_packet |-> {65507, 65508},
     interval |-> {4, 5, 300, Bad}, timeout |-> {0, 60, 61, 301}, miss |-> {0, 10, 11, 101},
     allowed_ports |-> {<<>>, <<Ports(9000, 9000, "no"), Ports(25000, 25001, "no")>>,
                        <<Ports(9000, 9000, "lead")>>, <<Ports(25001, 25000, "no")>>},
     allowed_targets |-> {<<>>, <<Target(Lo, 80, 81, "no"), Target(Ten, 1, -1, "no")>>,
                          <<Target(Lo, 80, 81, "port"), Target(Ten, 1, -1, "no")>>,
                          <<Target(Lo, 80, 81, "trail")>>, <<Target(Ten, 1, -1, "lead")>>,
                          <<Target(Ten, 1, -1, "port")>>, <<Target(Lo, 0, 80, "no")>>}]

MCEnv ==
    [f \in {"allowed_ports", "allowed_targets"} |-> {}]
    @@ [state_dir |-> {"", "/abs", "rel"}, control |-> {0, 9000, 25000}, enroll |-> {0, 25000},
        vhost |-> {8080}, bandwidth |-> {0}, max_tunnels |-> {1}, max_conns |-> {Bad},
        udp_sessions |-> {0, 65537}, udp_packet |-> {0}, interval |-> {5, Bad},
        timeout |-> {0, 61}, miss |-> {1, 11}]

MCClient == [addr |-> {0, -1}, jitter |-> {0, 10, 11}, heartbeat |-> {TRUE, FALSE},
             level |-> {"", "debug", "loud"}, tunnels |-> {Unset, 0}]
MCClientEnv == [addr |-> {9000}, jitter |-> {0}, heartbeat |-> {FALSE, Bad},
                level |-> {"", "debug"}, tunnels |-> {}]

Tunnel(type, port, host, ip, lport) ==
    [type |-> type, port |-> port, host |-> host, ip |-> ip, lport |-> lport]
MCTunnels ==
    {Tunnel("tcp", p, "", "10.0.0.1", 22) : p \in {0, 7000, 7001, 9000, 20000, 25000, 29999, 30000}}
    \cup {Tunnel("tcp", 25001, "", "127.0.0.1", lp) : lp \in {79, 80, 81, 82, 65536}}
    \cup {Tunnel("http", 0, h, "10.0.0.1", 80) : h \in {"", "blog"}}
    \cup {Tunnel("https", 0, "", "10.0.0.1", 443), Tunnel("ftp", 25000, "", "10.0.0.1", 21),
          Tunnel("udp", 25000, "", "localhost", 53), Tunnel("tcp", 25000, "", "0.0.0.0", 22)}
=============================================================================
