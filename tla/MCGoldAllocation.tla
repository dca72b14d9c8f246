-------------------------- MODULE MCGoldAllocation --------------------------
(***************************************************************************)
(* Three US funds, two of them of one index and two of one role, two       *)
(* funds of qdii_global, one of gold; cash has no fund.  The weights and   *)
(* the exponentials are such that every share is exact.                    *)
(***************************************************************************)
EXTENDS GoldAllocation

MCCenter ==
    [c \in {"gold", "cash", "us_etf", "qdii_global"} |->
        CASE c = "gold" -> 6000 [] c = "cash" -> 4800 [] OTHER -> 9600]
MCGoldBand == <<4500, 6900>>
MCExpo == <<1, 2, 3>>
MCSatelliteRoles == {"satellite_tech", "satellite_health"}
Fund(id, class, role, index, score) ==
    [id |-> id, class |-> class, role |-> role, index |-> index, score |-> score]
MCFullDay ==
    {<<Fund(3, "us_etf", "core_us", "sp500", a), Fund(2, "us_etf", "satellite_tech", "ndx", b),
       Fund(1, "us_etf", c, "sp500", 2), Fund(6, "gold", "core_gold", "au", 1),
       Fund(4, "qdii_global", "satellite_health", "-", q[1]),
       Fund(5, "qdii_global", q[2], "-", 2)>> :
        a \in 1..3, b \in {1, 3}, c \in {"core_us", "satellite_tech"},
        q \in {<<1, "core_global">>, <<2, "core_global">>, <<3, "core_global">>,
               <<2, "satellite_tech">>}}
MCTables == <<MCFullDay, {<<Fund(2, "us_etf", "satellite_tech", "ndx", 1)>>}>>
MCMarkets ==
    {[volLow |-> v, adxLow |-> TRUE, sign |-> 0 - 1] : v \in BOOLEAN}
\* For the run of the allocation: no regime there is changes a tilt.
MCDowntrend == {m \in MCMarkets : ~m.volLow}
=============================================================================
