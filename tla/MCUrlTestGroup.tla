--------------------------- MODULE MCUrlTestGroup ---------------------------
(* Small instances of UrlTestGroup. *)
EXTENDS UrlTestGroup

CONSTANTS a, b

TwoNodes == <<a, b>>
Tcp == <<"tcp">>
Both == <<"tcp", "udp">>
JustTcp == [n \in Nodes |-> {"tcp"}]
LastIsTcpOnly == [n \in Nodes |-> IF n = outbounds[Len(outbounds)] THEN {"tcp"} ELSE {"tcp", "udp"}]
=============================================================================
