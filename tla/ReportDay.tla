------------------------------ MODULE ReportDay ------------------------------
(***************************************************************************)
(* A market's report day: the delivery protocol of the runs, each of whose *)
(* attempts computes its outcome from what the providers answer then. A    *)
(* retry meets the providers anew.                                         *)
(***************************************************************************)
EXTENDS ReportDelivery, ReportAttempt

VARIABLES
    market,  \* the market of the workflow these runs belong to
    feed     \* per run: whether the feed of its latest attempt deserved a report

dayVars == <<vars, market, feed>>

\* A report that is to be sent has to rest on a fit feed; a feed in perfect
\* order has to lead to one; a diagnostic about anything else is right.
Deserved(w, reported) ==
    CASE Healthy(w) \/ (reported /\ Fit(w)) -> "YES"
      [] ~Healthy(w) /\ reported /\ Provided(w) /\ BroadlyStale(w) -> "STALE"
      [] ~Healthy(w) /\ reported /\ ~Provided(w) -> "NO"
      [] OTHER -> "NONE"

Feeds == {"YES", "STALE", "NO", "NONE"}

ResultOf(w) ==
    LET o == OutcomeOf(w) IN [outcome |-> o, feed |-> Deserved(w, IsFinal(o))]

\* What an attempt can end with. A day without a session, an error before the
\* computation and a session that is not over have asked for nothing.
Results ==
    [m \in Markets |->
        {ResultOf(w) : w \in {v \in Worlds : v.market = m}}
        \cup {[outcome |-> o, feed |-> "NONE"] :
                o \in {NonSession, Failed("REPORT_EXECUTION_FAILED"), NotReady("SESSION_NOT_COMPLETED")}}]

DayResults == [m \in Markets |-> {x \in Results[m] : x.outcome \in DayOutcomes}]

DayInit ==
    /\ Init
    /\ market \in Markets
    /\ feed = [r \in Runs |-> "NONE"]

Attempt(r) ==
    /\ Compute(r)
    /\ \E x \in DayResults[market] :
         /\ x.outcome = outcome'[r]
         /\ feed' = [feed EXCEPT ![r] = x.feed]
    /\ UNCHANGED market

Other(r) ==
    /\ \/ Begin(r) \/ Crash(r) \/ NotifyRaises(r)
       \/ pc[r] # "compute" /\ Call(r)
    /\ UNCHANGED <<market, feed>>

DayNext == \E r \in Runs : Attempt(r) \/ Other(r)

DaySpec == DayInit /\ [][DayNext]_dayVars /\ Fairness

-----------------------------------------------------------------------------
(* Properties.                                                             *)

\* No session is claimed by a report whose attempt met an outage of the
\* provider, in whichever of its stages, or had no formal symbol with exact
\* data; and none, in the US market, by one that saw a broad tail of old
\* histories (docs/DECISION_LOG.md:1179-1187).
ClaimRestsOnFitFeed ==
    \A r \in Runs :
        claim[r] = "CLAIMED" => feed[r] \in {"YES"} \cup IF market = "CN" THEN {"STALE"} ELSE {}

\* "a bounded broad-stale gate of at least three symbols and 25% of the
\* qualified/included base" (docs/DECISION_LOG.md:1184-1185): no report over a
\* broad tail of old histories claims a session, whatever the market.
BroadTailIsHeld == \A r \in Runs : claim[r] = "CLAIMED" => feed[r] # "STALE"

\* The gates are not too strict and the claim is not lost: an attempt of a
\* natural run that found the providers in order, or passed every gate, ends
\* in a claim of its session by some run, which gets to the email call, unless
\* the session has evidence of an older protocol or a damaged marker.
FitFeedIsReported ==
    \A r \in Runs :
        (feed[r] = "YES" /\ Natural(r) /\ legacy[Session(r)] = {} /\ final[Session(r)] # Corrupt)
            ~> \E q \in Runs : claim[q] = "CLAIMED" /\ Session(q) = Session(r)
                                 /\ pc[q] \in {"claimLedgerAlert", "ledgerBark", "email",
                                               "claimEmailAlert", "emailBark", "done"}

=============================================================================
