---------------------------- MODULE ReportAttempt ----------------------------
(***************************************************************************)
(* One report attempt of a market: what the provider answers for the       *)
(* formal pool (load_ephemeral_market_data), how the Candidate component   *)
(* screens and deepens its seeds (ProductionCandidateRuntime.run), and the *)
(* facts _status_from_result makes of both (DeliveryReadiness).            *)
(*                                                                         *)
(* A security's number is its place in the sorted order the formal pool    *)
(* is loaded in. Histories are symbols loaded one by one: prices, bars and *)
(* ranks are reduced to the answers the control distinguishes. The history *)
(* loader's thread pool needs no interleaving: an outage of one symbol     *)
(* drops the results of all, in whichever order they complete.             *)
(***************************************************************************)
EXTENDS DeliveryReadiness, FiniteSets

CONSTANTS
    Securities,       \* numbers of the symbols that may be required or seeds
    Tries,            \* retry_count of fetch_single_source_with_retry
    StaleMinCount,    \* CANDIDATE_BROAD_STALE_MIN_COUNT
    StaleDivisor,     \* 1 / CANDIDATE_BROAD_STALE_RATIO
    CoverageMinSeeds  \* seeds from which STAGE_A_MIN_COVERAGE_RATIO (a half) binds

ASSUME AttemptAssumption ==
    /\ Securities \in SUBSET Nat /\ IsFiniteSet(Securities)
    /\ Cardinality(Securities) <= MaxSymbols
    /\ {Tries, StaleMinCount, StaleDivisor, CoverageMinSeeds} \subseteq Nat \ {0}

\* Each market has one provider of its own.
Provider == [CN |-> "HITHINK_FINANCIAL_API", US |-> "YAHOO_CHART"]
Markets  == DOMAIN Provider

-----------------------------------------------------------------------------
(* A provider call with its retries.                                       *)

\* What one try can end with: a series up to T, one whose tail is older than
\* T, an error of this symbol or its data, an outage, or any other exception.
TryResults == {"OK", "STALE", "BAD", "OUTAGE", "EXCEPTION"}

\* A good series and an error of the symbol end the call; anything else is
\* tried again, and the last try decides. An exception nobody foresaw is an
\* outage of the provider.
Fetched(try) ==
    LET decisive == {i \in DOMAIN try : try[i] \in {"OK", "BAD"}} IN
        IF decisive # {}
          THEN try[CHOOSE i \in decisive : \A j \in decisive : i <= j]
          ELSE IF try[Tries] = "STALE" THEN "STALE" ELSE "OUTAGE"

Answers == {Fetched(try) : try \in [1 .. Tries -> TryResults]}

\* The latest bar and then the forward-adjusted history of a required symbol;
\* after an outage of the first the second is not asked for.
LoadOf(latest, qfq) ==
    CASE "OUTAGE" \in {latest, qfq} -> "OUTAGE"
      [] latest = "OK" /\ qfq = "OK" -> "OK"
      [] OTHER -> "BAD"

Loads == {LoadOf(latest, qfq) : latest, qfq \in Answers}

\* The screening history of a seed: bars that qualify and a price that fits or
\* does not, metadata that excludes the seed, too few bars, or no good answer.
Screens == {"FIT", "UNFIT", "EXCLUDED", "SHORT"} \cup (Answers \ {"OK"})

-----------------------------------------------------------------------------
(* What an attempt meets.                                                  *)

\* Seeds that cannot be listed, an outage of their source, and a screening
\* stage that raises leave no seed to screen.
Discoveries == {"LISTED", "UNLISTED", "SOURCE_OUTAGE", "SCREENING_RAISED"}

\* formal: in the strategy pool or an open position; paper: an active plan.
\* A symbol that nobody asks for is not told apart from a good one.
Cases ==
    { c \in [ formal : BOOLEAN, paper : BOOLEAN, seed : BOOLEAN,
              load : Loads, screen : Screens, deep : Answers ] :
        /\ ~(c.formal \/ c.paper) => c.load = "OK"
        /\ ~c.seed => c.screen = "UNFIT"
        /\ ~(c.paper \/ (c.screen = "FIT" /\ ~c.formal)) => c.deep = "OK" }

\* Without a formal or paper symbol there is no account run and no attempt to
\* speak of: the preflight fails it.
Worlds ==
    { w \in [market : Markets, of : [Securities -> Cases],
              discovery : Discoveries, evaluationFailed : BOOLEAN] :
        /\ \E s \in Securities : w.of[s].formal \/ w.of[s].paper
        /\ w.discovery # "LISTED" => \A s \in Securities : ~w.of[s].seed }

Formal(w) == {s \in Securities : w.of[s].formal}
Paper(w)  == {s \in Securities : w.of[s].paper}
Required(w) == Formal(w) \cup Paper(w)

-----------------------------------------------------------------------------
(* load_ephemeral_market_data: an outage ends the loop over the symbols.   *)

LoadOutages(w) == {s \in Required(w) : w.of[s].load = "OUTAGE"}
Asked(w)  == {s \in Required(w) : \A o \in LoadOutages(w) : s <= o}
Usable(w) == {s \in Asked(w) : w.of[s].load = "OK"}

-----------------------------------------------------------------------------
(* ProductionCandidateRuntime.run.                                         *)

Seeds(w) == {s \in Securities : w.of[s].seed}
Screened(w, answer) == {s \in Seeds(w) : w.of[s].screen \in answer}

ScreenOutage(w) == Screened(w, {"OUTAGE"}) # {}

\* An outage of the screening stage leaves no history at all.
Qualified(w) == IF ScreenOutage(w) THEN {} ELSE Screened(w, {"FIT", "UNFIT"})
WithBars(w)  == IF ScreenOutage(w) THEN {} ELSE Screened(w, {"FIT", "UNFIT", "EXCLUDED"})
Included(w)  == IF ScreenOutage(w) THEN {} ELSE Screened(w, {"FIT"})

\* Mutant: a seed whose metadata excludes it is taken for one without bars.
ScreenCompleteOfQualified(w) ==
    /\ Screened(w, Answers) = {}
    /\ Qualified(w) # {}
    /\ Cardinality(Seeds(w)) >= CoverageMinSeeds
         => 2 * Cardinality(Qualified(w)) >= Cardinality(Seeds(w))

\* Every answer was good, some history is long enough, and in a large market
\* enough of them are.
ScreenComplete(w) ==
    /\ Screened(w, Answers) = {}
    /\ WithBars(w) # {}
    /\ Cardinality(Seeds(w)) >= CoverageMinSeeds
         => 2 * Cardinality(WithBars(w)) >= Cardinality(Seeds(w))

\* A formal input is reused, unless a paper plan asks for the symbol as well.
DeepTargets(w) == (Included(w) \ Formal(w)) \cup Paper(w)
DeepOutage(w)  == \E s \in DeepTargets(w) : w.of[s].deep = "OUTAGE"
DeepReady(w)   == IF DeepOutage(w) THEN {} ELSE {s \in DeepTargets(w) : w.of[s].deep = "OK"}
DeepFailed(w)  == IF DeepOutage(w) THEN {} ELSE DeepTargets(w) \ DeepReady(w)

\* Mutant: an outage while the selected candidates are deepened is not kept.
CandidateOutageScreenOnly(w) == w.discovery = "SOURCE_OUTAGE" \/ ScreenOutage(w)

CandidateOutage(w) == w.discovery = "SOURCE_OUTAGE" \/ ScreenOutage(w) \/ DeepOutage(w)

\* A market where every symbol failed for itself has a status of its own that
\* every reader treats as this one (COMPLETED_NO_USABLE_SYMBOLS).
CandidateStatus(w) ==
    CASE CandidateOutage(w) \/ Seeds(w) = {} -> "UNAVAILABLE"
      [] ~CandidateOutage(w) /\ Seeds(w) # {} /\ ~ScreenComplete(w) ->
            IF Included(w) # {} THEN "PARTIAL" ELSE "UNAVAILABLE"
      [] ~CandidateOutage(w) /\ ScreenComplete(w) /\ Included(w) = {} -> "NO_CANDIDATES"
      [] OTHER -> IF DeepFailed(w) # {} THEN "PARTIAL" ELSE "SUCCESS"

-----------------------------------------------------------------------------
(* The report's rows and the facts.                                        *)

\* The input of a symbol: the formal one stands; a paper plan's own one gives
\* way to a good deep history; a candidate has nothing but its deep history.
Rows(w) == Required(w) \cup Included(w)
ExactRows(w) == {s \in Rows(w) : s \in Usable(w) \/ s \in DeepReady(w) \ Formal(w)}

Stale(w) ==
    (IF ScreenOutage(w) THEN {} ELSE Screened(w, {"STALE"}))
        \cup {s \in DeepFailed(w) : w.of[s].deep = "STALE"}

\* The text of such an answer begins with its provider's name; the gate looks
\* for the text of one of the two.
NamedStale(w) == IF Provider[w.market] = "YAHOO_CHART" THEN Stale(w) ELSE {}

BroadTail(w, stale) ==
    /\ Cardinality(stale) >= StaleMinCount
    /\ Qualified(w) # {}
    /\ StaleDivisor * Cardinality(stale) >= Cardinality(Qualified(w))

FactsOf(w) ==
    LET status   == CandidateStatus(w)
        exact    == ExactRows(w)
        included == Included(w)
    IN [ preflightReady |-> Usable(w) = Required(w),
         reports        |-> TRUE,
         attempted      |-> Cardinality(Required(w)),
         usable         |-> Cardinality(Usable(w)),
         exact          |-> Cardinality(exact),
         sessionRows    |-> Usable(w) # {},
         symbolFailed   |-> Usable(w) # Required(w) \/ exact # Rows(w),
         coreFailed     |-> w.evaluationFailed,
         globalFailure  |-> LoadOutages(w) # {} \/ CandidateOutage(w),
         candidate      |-> status,
         selection      |-> CASE status = "NO_CANDIDATES" -> "NO_CANDIDATES"
                              [] included # {} -> "CANDIDATES_INCLUDED"
                              [] OTHER -> "DISCOVERY_FAILED",
         included       |-> IF included # {} THEN 1 ELSE 0,
         analysed       |-> IF included \cap exact # {} THEN 1 ELSE 0,
         candidateError |-> status \in {"UNAVAILABLE", "PARTIAL"} \/ DeepFailed(w) # {},
         broadStale     |-> BroadTail(w, NamedStale(w)) ]

OutcomeOf(w) == DeliveryOutcome("COMPUTED", FactsOf(w))

-----------------------------------------------------------------------------
(* What a report would rest on, whatever the code concluded.               *)

\* Some answer the attempt asked for was an outage of the provider.
MetOutage(w) ==
    \/ w.discovery = "SOURCE_OUTAGE"
    \/ \E s \in Asked(w) : w.of[s].load = "OUTAGE"
    \/ \E s \in Seeds(w) : w.of[s].screen = "OUTAGE"
    \/ \E s \in DeepTargets(w) : w.of[s].deep = "OUTAGE"

\* Every symbol has its exact series, every seed the bars to be judged by.
Healthy(w) ==
    /\ ~w.evaluationFailed
    /\ Seeds(w) # {}
    /\ \A s \in Securities :
        /\ w.of[s].load = "OK" /\ w.of[s].deep = "OK"
        /\ w.of[s].seed => w.of[s].screen \in {"FIT", "UNFIT", "EXCLUDED"}

\* A formal symbol with exact data, from a provider that was up throughout.
Provided(w) == ~MetOutage(w) /\ Usable(w) # {} /\ ExactRows(w) # {}

BroadlyStale(w) == BroadTail(w, Stale(w))

Fit(w) == Provided(w) /\ ~BroadlyStale(w)

=============================================================================
