------------------------- MODULE MCOpportunityFetch -------------------------
(***************************************************************************)
(* What the reports are made of, in one run.  Each behaviour is one of     *)
(* ingest over half days, or of discovery over its runs, or of the fetch   *)
(* engine of the opportunity stage over quarters and processes, or of a    *)
(* single fund between its snapshot and the files it ends up in.           *)
(***************************************************************************)
EXTENDS OpportunityFetch, FundCase, Ingest, Discovery, TLC

VARIABLE mover   \* whose behaviour it is

MCWeights == { [a |-> 5, b |-> 3, c |-> 2], [a |-> 4, b |-> 3, c |-> 3] }
MCReturns == {-20, 5, 15}
MCScores  == {-100, 15, 80}
Runners   == Permutations(Procs)

MCOnExchange  == <<"etf">>
MCOffExchange == <<"fund">>
MCBroad       == <<"csi300", "csi500">>
MCEligible    == [etf |-> "cn_etf"]
MCFrames      == {{}, {0}}
MCWindows     == {[days |-> {}, pe |-> {}], [days |-> {0}, pe |-> {0}],
                  [days |-> {0, 1}, pe |-> {1}]}
MCStockFrames == {[days |-> {0}, pe |-> {}, pb |-> {0}]}
MCSnapshots   == {[report |-> 0, tickers |-> {"600519"}], [report |-> 2, tickers |-> {"600519"}]}

CatalogEntry(base, share, of, class, theme, venue) ==
    [base |-> base, share |-> share, of |-> of, class |-> class, theme |-> theme,
     index |-> "none", venue |-> venue]
MCOffered ==
    (1 :> CatalogEntry("chip ETF", 0, "", "cn_etf", "semiconductor", "cn_on_exchange")) @@
    (2 :> CatalogEntry("chip feeder", 0, "chip ETF", "cn_equity_fund", "semiconductor",
                       "cn_off_exchange")) @@
    (3 :> CatalogEntry("chips", 5, "", "cn_equity_fund", "semiconductor", "cn_off_exchange")) @@
    (4 :> CatalogEntry("chips", 0, "", "cn_equity_fund", "semiconductor", "cn_off_exchange")) @@
    (5 :> CatalogEntry("cash", 0, "", "none", "none", "cn_off_exchange"))
MCHandmade     == 6 :> CatalogEntry("hk tech", 0, "", "hk_etf", "none", "cn_off_exchange")
MCCaps         == [cn_etf |-> 1, semiconductor |-> 1]
MCReturnTables == { <<>>, (2 :> 20) @@ (3 :> 10) }

\* The ones that do not move start in one way only.
MCFetchInit ==
    /\ mover \in {"engine", "fund", "ingest", "discovery"}
    /\ Init /\ (mover # "engine" => \A f \in Funds, q \in Quarters : cache[f][q] = None)
    /\ CaseInit /\ (mover # "fund" =>
          dossier.class = "gold" /\ dossier.autobuild /\ dossier.mapped)
    /\ IngestInit /\ DiscoveryInit
MCFetchNext ==
    /\ UNCHANGED mover
    /\ \/ mover = "engine" /\ Next /\ UNCHANGED <<caseVars, ingestVars, discVars>>
       \/ mover = "fund" /\ CaseNext /\ UNCHANGED <<vars, ingestVars, discVars>>
       \/ mover = "ingest" /\ IngestNext /\ UNCHANGED <<vars, caseVars, discVars>>
       \/ mover = "discovery" /\ DiscoveryNext /\ UNCHANGED <<vars, caseVars, ingestVars>>
MCFetchSpec == MCFetchInit /\ [][MCFetchNext]_<<mover, vars, caseVars, ingestVars, discVars>>

\* The engine, its files, the fund in hand, the tables and the sheets keep their
\* shape.
OpportunityTypesOK == TypeOK /\ CaseTypeOK /\ IngestTypeOK /\ DiscoveryTypeOK
=============================================================================
