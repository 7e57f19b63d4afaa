---------------------------- MODULE MCDNSLookup -----------------------------
(***************************************************************************)
(* An instance of DNSLookup: four lookups with three ids, so that the last *)
(* may get the id of the first, and a table that grows at its third entry. *)
(***************************************************************************)
EXTENDS DNSLookup

CONSTANTS h1, h2

MCHosts == {h1, h2}
MCWanted == <<{h1}, {h1, h2}, {h2}, {h1, h2}>>
=============================================================================
