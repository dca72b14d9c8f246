---------------------------- MODULE MCPaidCalls -----------------------------
(***************************************************************************)
(* What is paid for, each in behaviours of its own: the ledger of          *)
(* MCSpendLedger, one call of the language model, and two runs of          *)
(* `irc research` over an English theme and a Chinese one with a reader    *)
(* beside them.                                                            *)
(***************************************************************************)
EXTENDS MCSpendLedger, LlmCall, Research

VARIABLE mover   \* "ledger", "call" or "research"

MCBackoff == <<2, 4, 8, 16>>

MCThemeOrder   == <<"us_monetary", "holdings_sector">>
MCThemeLocale  == [t \in Range(MCThemeOrder) |-> IF t = "holdings_sector" THEN "zh" ELSE "en"]
MCEngineLocale == [e \in {"tavily", "brave", "bocha"} |-> IF e = "bocha" THEN "zh" ELSE "en"]
MCKeyRings     == {<<>>, <<"bocha">>, <<"tavily", "brave", "bocha">>}
MCAskedThemes  == {MCThemeOrder, <<"us_monetary">>}
MCOffered      == {<<"a">>, <<"a", NoUrl, "b">>}

MCPaidInit == mover \in {"ledger", "call", "research"} /\ Init /\ LlmInit /\ ResearchInit
MCPaidNext ==
    /\ UNCHANGED mover
    /\ \/ mover = "ledger" /\ Next /\ UNCHANGED <<llmVars, researchVars>>
       \/ mover = "call" /\ LlmNext /\ UNCHANGED <<vars, researchVars>>
       \/ mover = "research" /\ ResearchNext /\ UNCHANGED <<vars, llmVars>>
MCPaidSpec == MCPaidInit /\ [][MCPaidNext]_<<mover, vars, llmVars, researchVars>>
=============================================================================
