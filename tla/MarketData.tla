------------------------------ MODULE MarketData ------------------------------
(***************************************************************************)
(* The market data functions (data/akshare_provider.py): each of them looks *)
(* into a cache of answers and one of failures, and asks its source through *)
(* a circuit breaker that several threads share.  One breaker is modelled,  *)
(* with the functions that use it.                                          *)
(***************************************************************************)
EXTENDS Integers, FiniteSets

CONSTANTS
    Callers,        \* threads
    Used,           \* the names of the functions that are called
    Threshold,      \* failure_threshold
    Probes          \* half_open_max_calls

\* The functions: whether an expired answer still serves (the days of the request
\* are over), and whether an error of the source is swallowed.
Plain == [keeps |-> FALSE, swallows |-> FALSE]
StockHistory == [Plain EXCEPT !.keeps = TRUE]
StockRealtime == Plain
FinancialData == [Plain EXCEPT !.swallows = TRUE]
StockNews == Plain
StockList == Plain
ExchangeFundQuote == Plain
ExchangeFundHistory == StockHistory
ExchangeFundNavHistory == Plain
AssetSpot == Plain
Functions == [
    stock_history |-> StockHistory, stock_realtime |-> StockRealtime, financial_data |-> FinancialData,
    stock_news |-> StockNews, stock_list |-> StockList, fund_quote |-> ExchangeFundQuote,
    fund_history |-> ExchangeFundHistory, nav_history |-> ExchangeFundNavHistory, asset_spot |-> AssetSpot]

VARIABLES
    state, failures, probes,    \* of the breaker
    waited,     \* has recovery_timeout passed since the last failure?
    answers,    \* of each function, the cached answer: "none", "fresh" or "expired"
    failed,     \* the functions with a failure that has not expired
    call        \* of each thread: where it is, what it calls, the state it saw, and
                \* whether it is a probe of the recovery that is under way
vars == <<state, failures, probes, waited, answers, failed, call>>

Idle == [pc |-> "idle", name |-> "none", seen |-> "none", probe |-> FALSE]
Init ==
    /\ state = "closed" /\ failures = 0 /\ probes = 0 /\ waited = FALSE
    /\ answers = [f \in Used |-> "none"] /\ failed = {}
    /\ call = [c \in Callers |-> Idle]

-----------------------------------------------------------------------------
\* The caches.
Refused(f) == f \in failed
Serves(f) == answers[f] = "fresh" \/ (answers[f] = "expired" /\ Functions[f].keeps)
Look(c, f) ==
    /\ call[c].pc = "idle"
    /\ ~Refused(f) /\ ~Serves(f)
    /\ call' = [call EXCEPT ![c] = [Idle EXCEPT !.pc = "state", !.name = f]]
    /\ UNCHANGED <<state, failures, probes, waited, answers, failed>>
Store(c) ==
    /\ call[c].pc = "store"
    /\ answers' = [answers EXCEPT ![call[c].name] = "fresh"]
    /\ call' = [call EXCEPT ![c] = Idle]
    /\ UNCHANGED <<state, failures, probes, waited, failed>>
StoreFailure(c) ==
    /\ call[c].pc = "failed"
    /\ failed' = failed \cup {call[c].name}
    /\ call' = [call EXCEPT ![c] = Idle]
    /\ UNCHANGED <<state, failures, probes, waited, answers>>
Expire(f) ==
    /\ \/ answers[f] = "fresh" /\ answers' = [answers EXCEPT ![f] = "expired"] /\ UNCHANGED failed
       \/ f \in failed /\ failed' = failed \ {f} /\ UNCHANGED answers
    /\ UNCHANGED <<state, failures, probes, waited, call>>

-----------------------------------------------------------------------------
\* The breaker.  can_execute looks at the state, then takes a probe of the
\* recovery in a second step.
KeepsProbes == probes
FirstProbes == 0
ReadState(c) ==
    LET recovers == state = "open" /\ waited
    IN /\ call[c].pc = "state"
       /\ state' = IF recovers THEN "half_open" ELSE state
       /\ probes' = IF recovers THEN FirstProbes ELSE probes
       /\ call' = [d \in Callers |->
             IF d = c THEN [call[c] EXCEPT !.pc = "admit", !.seen = state']
             ELSE [call[d] EXCEPT !.probe = @ /\ ~recovers]]
       /\ UNCHANGED <<failures, waited, answers, failed>>
FreeProbe == probes < Probes
Admit(c) ==
    /\ call[c].pc = "admit"
    /\ \/ /\ call[c].seen = "closed" /\ call' = [call EXCEPT ![c].pc = "calling"] /\ UNCHANGED probes
       \/ /\ call[c].seen = "half_open" /\ FreeProbe /\ probes' = probes + 1
          /\ call' = [call EXCEPT ![c].pc = "calling", ![c].probe = TRUE]
       \/ /\ call[c].seen = "open" \/ (call[c].seen = "half_open" /\ ~FreeProbe)
          /\ call' = [call EXCEPT ![c].pc = "failed"] /\ UNCHANGED probes
    /\ UNCHANGED <<state, failures, waited, answers, failed>>
TimePasses ==
    /\ ~waited /\ state = "open" /\ waited' = TRUE
    /\ UNCHANGED <<state, failures, probes, answers, failed, call>>

\* record_success, after one of the attempts of _retry_with_backoff.
Succeed(c) ==
    /\ call[c].pc = "calling"
    /\ state' = IF state = "half_open" THEN "closed" ELSE state
    /\ failures' = 0
    /\ call' = [call EXCEPT ![c].pc = "store", ![c].probe = FALSE]
    /\ UNCHANGED <<probes, waited, answers, failed>>
\* record_failure, after the last one.
Fail(c) ==
    /\ call[c].pc = "calling" /\ ~Functions[call[c].name].swallows
    /\ waited' = FALSE
    /\ failures' = IF state = "half_open" \/ failures = Threshold THEN failures ELSE failures + 1
    /\ state' = IF state = "half_open" \/ failures' >= Threshold THEN "open" ELSE state
    /\ call' = [call EXCEPT ![c].pc = "failed", ![c].probe = FALSE]
    /\ UNCHANGED <<probes, answers, failed>>

Next ==
    \/ \E c \in Callers :
          \/ \E f \in Used : Look(c, f)
          \/ ReadState(c) \/ Admit(c) \/ Succeed(c) \/ Fail(c) \/ Store(c) \/ StoreFailure(c)
    \/ \E f \in Used : Expire(f)
    \/ TimePasses

Spec == Init /\ [][Next]_vars

-----------------------------------------------------------------------------
\* Every variable has its type.
TypeOK ==
    /\ state \in {"closed", "open", "half_open"} /\ failures \in 0..Threshold
    /\ probes \in 0..Probes /\ waited \in BOOLEAN /\ failed \subseteq Used
    /\ answers \in [Used -> {"none", "fresh", "expired"}]
    /\ \A c \in Callers : call[c].pc \in {"idle", "state", "admit", "calling", "store", "failed"}

\* A breaker whose probes are taken waits for one of them: it never refuses
\* everybody for good.
NeverWedged == state = "half_open" /\ ~FreeProbe => \E c \in Callers : call[c].pc = "calling"

\* A recovery sends no more probes than it may, however late its callers take
\* what they saw.
ProbesBounded == Cardinality({c \in Callers : call[c].probe}) <= Probes

\* A closed breaker has seen fewer failures in a row than open it.
ClosedIsHealthy == state = "closed" => failures < Threshold

\* A breaker lets its probes through, no more, and closes only on health.
BreakerRecovers == NeverWedged /\ ProbesBounded /\ ClosedIsHealthy
=============================================================================
