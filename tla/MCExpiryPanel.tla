---------------------------- MODULE MCExpiryPanel ----------------------------
(* ExpiryPanel with three versions of stats.json: no servers, then twice     *)
(* three that all need attention, more than the panel has room for.          *)
EXTENDS ExpiryPanel

Manual(status, days) == [status |-> status, days |-> days, auto |-> FALSE, renewal |-> "off"]
StatsDef == <<
    <<>>,
    <<Manual("dated", 5), Manual("expired", -2), Manual("unknown", 0)>>,
    <<Manual("dated", 20), Manual("none", 0), Manual("dated", 5)>> >>
=============================================================================
