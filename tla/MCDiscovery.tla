---------------------------- MODULE MCDiscovery ----------------------------
(* One server in two places; other hosts ask, enumerate the service types  *)
(* and announce a printer.                                                 *)
EXTENDS Discovery

MCServers == {[ip |-> "i1", port |-> "p1"], [ip |-> "i2", port |-> "p2"]}
MCStatics == {Nowhere, [ip |-> "i3", port |-> "p3"]}
MCForeign ==
    {[response |-> FALSE, records |-> <<>>],
     [response |-> TRUE, records |->
        <<Rec("PTR", "_services", "_brewster"), Rec("SRV", "printer", "p9"),
          Rec("A", "printer", "i9")>>]}
============================================================================
