----------------------------- MODULE MCDnsClient -----------------------------
(* Small instances of DnsClient for TLC. *)
EXTENDS DnsClient

CONSTANTS a, b

TwoNames == {a, b}

\* names are alike: the first require is for a, whatever the others are for
FirstForA == [r \in Requires |-> IF r = 1 THEN {a} ELSE TwoNames]
=============================================================================
