------------------------------ MODULE Discovery ------------------------------
(***************************************************************************)
(* From the catalogue of funds to the watchlist of the day: `irc universe  *)
(* build-cn-funds` chooses the funds worth following, and `irc discover`   *)
(* screens those and the hand-written ones on what ingest stored, asks the *)
(* model to say why each is there, and writes what it took and left.       *)
(*                                                                         *)
(* A step is one build, one call to the model or one file written.         *)
(***************************************************************************)
EXTENDS Integers, FiniteSets, Sequences, SequencesExt, FiniteSetsExt

CONSTANTS
    Offered,       \* fund -> its entry in the catalogue, as classified
    Handmade,      \* fund -> its entry in the universe files written by hand
    Caps,          \* group -> how many of it are followed
    ReturnTables,  \* what the rank table may say: funds -> last year's return
    Banned,        \* ban_list
    ExcludedThemes,
    MetaSeen, HistorySeen, \* what the tables may hold of a fund, see Sound
    MinPerRole,    \* min_candidates_per_role
    FailBelow,
    MaxRetries,    \* max_retries of write_reason
    MaxBuilds, MaxDiscovers \* bounds

\* An entry of the catalogue, as normalised and classified; what the tables may
\* know of a fund's metadata and of its history.
FundClasses == {"cn_etf", "us_etf", "hk_etf", "cn_equity_fund", "cn_bond_fund", "gold",
                "qdii_global", "none"}
IsCatalogFund(e) ==
    /\ e.class \in FundClasses /\ e.venue \in {"cn_on_exchange", "cn_off_exchange"}
    /\ e.share \in Nat /\ (e.class = "cn_etf" => e.base # "")
MetaRows == {"absent", "blank", "poor", "young", "seasoned"}
HistoryRows == {"none", "thin", "deep", "calm"}

\* Last year's return of the funds the rank tables list, where they have one.
IsRankTable(t) == DOMAIN t \subseteq DOMAIN Offered /\ \A f \in DOMAIN t : t[f] \in Int

ASSUME DiscoveryAssumption ==
    /\ \A f \in DOMAIN Offered : IsCatalogFund(Offered[f])
    /\ \A f \in DOMAIN Handmade : IsCatalogFund(Handmade[f])
    /\ MetaSeen \subseteq MetaRows /\ HistorySeen \subseteq HistoryRows
    /\ \A t \in ReturnTables : IsRankTable(t)
    /\ DOMAIN Offered \subseteq Nat /\ DOMAIN Handmade \subseteq Nat
    /\ IsFiniteSet(DOMAIN Offered) /\ IsFiniteSet(DOMAIN Handmade)
    /\ FailBelow \in Nat /\ MinPerRole \in Nat /\ FailBelow < MinPerRole
    /\ MaxRetries \in Nat /\ MaxBuilds \in Nat

VARIABLES
    generated,   \* cn_funds.generated.yaml: the funds chosen
    builds,
    meta,        \* fund -> its row in `instruments`
    history,     \* fund -> what its prices or NAVs say
    sheets,      \* discovered_watchlist.csv and discovery_rejections.csv
    diagnosed,   \* discovery_diagnostics.csv: the roles relaxed and failed
    disc,        \* the run in flight
    discovers

discVars == <<generated, builds, meta, history, sheets, diagnosed, disc, discovers>>
-----------------------------------------------------------------------------
(* The universe.                                                           *)

\* Of the share classes of one fund the first by class, the fund itself before
\* its feeder, then by code.
ShareOrder(f) == <<Offered[f].share, IF Offered[f].of # "" THEN 1 ELSE 0, f>>

Before(p, q) == \E k \in DOMAIN p : p[k] < q[k] /\ \A j \in 1 .. k - 1 : p[j] = q[j]

DedupeShareClasses(funds) ==
    {f \in funds : \A g \in funds :
        Offered[g].base = Offered[f].base => ~Before(ShareOrder(g), ShareOrder(f))}

Classified(funds) == {f \in funds : Offered[f].class # "none"}

\* A feeder is left out when its ETF is there.
ExcludeFeeders(funds) ==
    {f \in funds : ~\E g \in funds :
        Offered[g].class = "cn_etf" /\ Offered[f].of # "" /\ Offered[f].of = Offered[g].base}

CapKey(f) ==
    LET e == Offered[f]
    IN  CASE e.class # "cn_equity_fund" -> e.class
          [] e.theme \in {"none", "broad"} -> "broad_active"
          [] OTHER -> e.theme

ASSUME CapAssumption ==
    \A f \in DOMAIN Offered : Offered[f].class # "none" => Caps[CapKey(f)] \in Nat

\* Feeders last, then the funds without a return, then by return, then by code.
CandidateRank(f, returns) ==
    <<IF Offered[f].of # "" THEN 1 ELSE 0, IF f \in DOMAIN returns THEN 0 ELSE 1,
      IF f \in DOMAIN returns THEN -returns[f] ELSE 0, f>>

ApplyCaps(funds, returns) ==
    {f \in funds :
        Cardinality({g \in funds : CapKey(g) = CapKey(f)
                        /\ Before(CandidateRank(g, returns), CandidateRank(f, returns))})
        < Caps[CapKey(f)]}

Candidates(catalog) == ExcludeFeeders(Classified(DedupeShareClasses(catalog)))
-----------------------------------------------------------------------------
(* The screen.                                                             *)

Universe == DOMAIN Handmade \cup generated
RowOf(f) == IF f \in DOMAIN Handmade THEN Handmade[f] ELSE Offered[f]
TradesOnExchange(f) == RowOf(f).venue = "cn_on_exchange"
IsEtf(f) == RowOf(f).class \in {"cn_etf", "us_etf", "hk_etf"}
NeedsTenure(f) == ~TradesOnExchange(f) /\ RowOf(f).class \in {"cn_equity_fund", "cn_bond_fund"}

Reason(holds, text) == IF holds THEN {text} ELSE {}

\* What is missing rejects as what is poor does.
HardReasons(f, m, h) ==
    Reason(f \in Banned, "ban_list") \cup Reason(RowOf(f).theme \in ExcludedThemes, "theme")
    \cup Reason(m = "absent", "no_metadata")
    \cup Reason(m = "blank", "missing_facts") \cup Reason(m = "poor", "poor_facts")
    \cup Reason(m # "absent" /\ IsEtf(f) /\ RowOf(f).venue # "cn_off_exchange"
                  /\ h \in {"none", "thin"}, "volume")

QualityReasons(f, m, h) ==
    Reason(h = "none", "no_metrics") \cup Reason(h = "deep", "drawdown_3y")
    \cup Reason(h # "none" /\ NeedsTenure(f) /\ m # "seasoned", "manager_tenure")

\* The roles in the order of the rules; the first that fits.
Roles == <<"core_gold", "core_us", "core_cn", "us_tech", "global", "dividend",
           "sector", "cn_growth", "cn_bond", "hedge">>

Fits(e, role) ==
    LET cn == e.class \in {"cn_etf", "cn_equity_fund"}
    IN  CASE role = "core_gold" -> e.class = "gold"
          [] role = "core_us"   -> e.class = "us_etf" /\ e.index = "broad"
          [] role = "core_cn"   -> cn /\ (e.theme = "broad" \/ (e.theme = "none" /\ e.index = "broad"))
          [] role = "us_tech"   -> e.class = "us_etf" /\ e.index = "nasdaq"
          [] role = "global"    -> e.class = "qdii_global"
          [] role = "dividend"  -> cn /\ e.theme = "dividend"
          [] role = "sector"    -> cn /\ e.theme \notin {"none", "broad", "dividend"}
          [] role = "cn_growth" -> e.class = "cn_equity_fund" /\ e.theme = "none"
          [] role = "cn_bond"   -> e.class = "cn_bond_fund"
          [] role = "hedge"     -> e.class = "hk_etf" /\ e.index = "dividend"

RolesOf(f) == {k \in DOMAIN Roles : Fits(RowOf(f), Roles[k])}
Placed(funds) == {f \in funds : RolesOf(f) # {}}
RoleOf(f) == Min(RolesOf(f))
InRole(funds, k) == {f \in Placed(funds) : RoleOf(f) = k}

Screen(universe, m, h) ==
    LET hard    == {f \in universe : HardReasons(f, m[f], h[f]) = {}}
        quality == {f \in hard : QualityReasons(f, m[f], h[f]) = {}}
    IN  [hard |-> hard, quality |-> quality, orphans |-> quality \ Placed(quality)]

\* The rows of discovery_rejections.csv: both filters, and the funds no role took.
FilteredRows(universe, s) == universe \ s.quality
RejectionRows(universe, s) == FilteredRows(universe, s) \cup s.orphans

\* Every role is asked about in turn, the thin ones too; within a role the funds
\* come as the universe files list them, in whatever order that is.
InRoleOrder(funds) ==
    {order \in SetToSeqs(Placed(funds)) :
        \A i, j \in DOMAIN order : i < j => RoleOf(order[i]) <= RoleOf(order[j])}

Diagnose(funds) ==
    LET n(k) == Cardinality(InRole(funds, k))
    IN  [failed  |-> {k \in DOMAIN Roles : n(k) = 0 \/ n(k) < FailBelow},
         relaxed |-> {k \in DOMAIN Roles : n(k) # 0 /\ n(k) \in FailBelow .. MinPerRole - 1}]
-----------------------------------------------------------------------------
(* The runs.                                                               *)

NoRun == [at |-> "off", todo |-> <<>>, tries |-> 0, universe |-> {}, screen |-> {},
          listed |-> {}, dropped |-> {}]
NoSheet == [run |-> 0, rows |-> {}]

DiscoveryInit ==
    /\ generated = {} /\ builds = 0
    /\ meta \in [DOMAIN Offered \cup DOMAIN Handmade -> {"absent"}]
    /\ history \in [DOMAIN Offered \cup DOMAIN Handmade -> {"none"}]
    /\ sheets = [watchlist |-> NoSheet, rejections |-> NoSheet]
    /\ diagnosed = [failed |-> {}, relaxed |-> {}]
    /\ disc = NoRun /\ discovers = 0

\* The rank table is a bonus; without the catalogue, or on any error, the file
\* of the last build stays.
BuildUniverse ==
    /\ disc.at = "off" /\ builds < MaxBuilds
    /\ builds' = builds + 1
    /\ \/ \E catalog \in SUBSET DOMAIN Offered, returns \in ReturnTables :
             generated' = ApplyCaps(Candidates(catalog), returns)
       \/ generated' = generated
    /\ UNCHANGED <<meta, history, sheets, diagnosed, disc, discovers>>

\* A run of ingest: every row anew, and a history only ever longer.
IngestTables ==
    /\ disc.at = "off"
    /\ \E f \in Universe, m \in MetaSeen, h \in HistorySeen :
          /\ m # "absent" /\ (h = "none" => history[f] = "none")
          /\ meta' = [meta EXCEPT ![f] = m] /\ history' = [history EXCEPT ![f] = h]
    /\ UNCHANGED <<generated, builds, sheets, diagnosed, disc, discovers>>

StartDiscover ==
    /\ disc.at = "off" /\ discovers < MaxDiscovers
    /\ discovers' = discovers + 1
    /\ LET s == Screen(Universe, meta, history)
       IN  \E order \in InRoleOrder(s.quality) :
              disc' = [NoRun EXCEPT !.at = "reasons", !.universe = Universe, !.screen = s,
                                    !.todo = order]
    /\ UNCHANGED <<generated, builds, meta, history, sheets, diagnosed>>

\* One call: an answer that cites a row of the fund lists it; any other, or an
\* error, is tried again, and then the fund is left out.
WriteReason ==
    /\ disc.at = "reasons" /\ disc.todo # <<>>
    /\ LET f == Head(disc.todo)
           next == [disc EXCEPT !.todo = Tail(@), !.tries = 0]
       IN  disc' \in { [next EXCEPT !.listed = @ \cup {f}],
                       IF disc.tries < MaxRetries THEN [disc EXCEPT !.tries = @ + 1]
                       ELSE [next EXCEPT !.dropped = @ \cup {f}] }
    /\ UNCHANGED <<generated, builds, meta, history, sheets, diagnosed, discovers>>

WriteWatchlist ==
    /\ disc.at = "reasons" /\ disc.todo = <<>>
    /\ sheets' = [sheets EXCEPT !.watchlist = [run |-> discovers, rows |-> disc.listed]]
    /\ disc' = [disc EXCEPT !.at = "diagnostics"]
    /\ UNCHANGED <<generated, builds, meta, history, diagnosed, discovers>>

WriteDiagnostics ==
    /\ disc.at = "diagnostics"
    /\ diagnosed' = Diagnose(disc.screen.quality)
    /\ disc' = [disc EXCEPT !.at = "rejections"]
    /\ UNCHANGED <<generated, builds, meta, history, sheets, discovers>>

WriteRejections ==
    /\ disc.at = "rejections"
    /\ sheets' = [sheets EXCEPT !.rejections =
                     [run |-> discovers, rows |-> RejectionRows(disc.universe, disc.screen)]]
    /\ disc' = [disc EXCEPT !.at = "done"]
    /\ UNCHANGED <<generated, builds, meta, history, diagnosed, discovers>>

\* The end of a run, or of one that was killed between two files.
EndDiscover ==
    /\ disc.at # "off" /\ disc' = [disc EXCEPT !.at = "off"]
    /\ UNCHANGED <<generated, builds, meta, history, sheets, diagnosed, discovers>>

DiscoveryNext ==
    \/ BuildUniverse \/ IngestTables \/ StartDiscover \/ WriteReason \/ WriteWatchlist
    \/ WriteDiagnostics \/ WriteRejections \/ EndDiscover

DiscoverySpec == DiscoveryInit /\ [][DiscoveryNext]_discVars
-----------------------------------------------------------------------------
(* Properties.                                                             *)

\* The files and the run keep their shape; sheets come from runs.
DiscoveryTypeOK ==
    /\ generated \subseteq DOMAIN Offered /\ builds \in 0 .. MaxBuilds
    /\ sheets.watchlist.run \in 0 .. discovers /\ sheets.rejections.run \in 0 .. discovers
    /\ disc.at \in {"off", "reasons", "diagnostics", "rejections", "done"}
    /\ disc.tries \in 0 .. MaxRetries

\* The universe follows a product once, as a share class and not also as the
\* feeder of an ETF followed, and no group beyond its cap.
UniverseIsClean ==
    /\ \A f, g \in generated : Offered[f].base = Offered[g].base => f = g
    /\ \A f, g \in generated : Offered[g].class = "cn_etf" => Offered[f].of # Offered[g].base
    /\ \A f \in generated :
          Cardinality({g \in generated : CapKey(g) = CapKey(f)}) <= Caps[CapKey(f)]

\* When the two sheets are of one run they account for its whole universe: a fund
\* is listed, or rejected, or the model could not ground it, and never two.
SheetsAccountForAll ==
    sheets.watchlist.run = sheets.rejections.run /\ sheets.watchlist.run = discovers
    /\ discovers > 0 =>
        /\ disc.listed \cap sheets.rejections.rows = {}
        /\ disc.universe = sheets.watchlist.rows \cup sheets.rejections.rows \cup disc.dropped
        /\ disc.dropped \cap (sheets.watchlist.rows \cup sheets.rejections.rows) = {}

\* No fund is listed on data that were not there: an outage of the metadata or
\* of the prices takes funds off the list and never puts one on.
ListedOnEvidence ==
    disc.at \in {"diagnostics", "rejections", "done"} =>
        \A f \in disc.listed : /\ meta[f] \in {"young", "seasoned"} /\ history[f] # "none"
                               /\ NeedsTenure(f) => meta[f] = "seasoned"
                               /\ f \notin Banned /\ RowOf(f).theme \notin ExcludedThemes

DiscoveryAccountsForAll == UniverseIsClean /\ SheetsAccountForAll /\ ListedOnEvidence
=============================================================================
