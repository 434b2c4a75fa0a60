------------------------------ MODULE Metrics ------------------------------
(***************************************************************************)
(* The metrics sampler of the node manager (node/internal/engine/          *)
(* metrics.go): every two seconds the raw counters of the engines are      *)
(* turned into traffic that is added up over restarts of engines and node. *)
(*                                                                         *)
(* A sample is two critical sections of m.mu with the queries between      *)
(* them, beside updates that rebuild, edit, drop and create the engine.    *)
(* Only xray counts traffic: sing-box and TrustTunnel engines report the   *)
(* zeros their counters were created with, and are left out.               *)
(*                                                                         *)
(* Rx and Tx are treated alike, so a Source is one direction of an         *)
(* inbound, an account or an outbound.  Rates, sessions and connections,   *)
(* which are measured anew by every sample, are left out.                  *)
(***************************************************************************)
EXTENDS Naturals, FiniteSets, Functions

CONSTANTS
    Source,
    KindOf,       \* "inbound", "account", "outbound", or "excluded" from totals
    Hour,         \* start times of hours
    MaxBuckets,   \* maxHourlyMetricBuckets
    NoReply,
    Torn,         \* a metrics file that cannot be decoded
    MaxBytes,     \* bound, by source: bytes it ever carries
    MaxFailures   \* bound, by source: failed queries that hide bytes of it

ASSUME SourceAssumption == IsFiniteSet(Source)
ASSUME KindAssumption ==
    KindOf \in [Source -> {"inbound", "account", "outbound", "excluded"}]
ASSUME HourAssumption == Hour \subseteq Nat \ {0} /\ MaxBuckets \in Nat \ {0}
ASSUME NoReplyAssumption == NoReply \notin Nat
ASSUME BoundAssumption == MaxBytes \in [Source -> Nat] /\ MaxFailures \in [Source -> Nat]

VARIABLES
    core,      \* the xray engine: not in m.engines, without a running core, or up
    reported,  \* the sources it reports: lastConfigs, lastAccounts, lastOutbounds
    counter,   \* the counters of the running core
    metrics,   \* m.metricsState
    lastRaw,   \* m.lastRaw
    sampling,  \* where the sampler is
    answer,    \* what the engine answered, until it is applied
    disk,      \* what the metrics file decodes to
    status,    \* what the first getter of a GetStatus under way returned
    carried,   \* observer: bytes a source has carried, over all cores
    failures   \* observer: failed queries that hid bytes of a source

engine == <<core, reported, counter>>
sampler == <<metrics, lastRaw, sampling, answer, disk>>
metricsVars == <<engine, sampler, status, carried, failures>>

OfKind(k) == {s \in Source : KindOf[s] = k}
Zeros(S) == [s \in S |-> 0]

Total == {"inbound", "outbound"}  \* TotalInboundTraffic and TotalOutboundTraffic

NewMetrics == [traffic |-> Zeros(Source), total |-> Zeros(Total), hourly |-> <<>>]

\* The sampler is between samples; has the engine's pointer and has not asked
\* it, the engine being the current one or one that was dropped since; or has
\* the answer.
Stage == {"idle", "asking", "asking dropped", "answered"}

IsCounts(f, S) == DOMAIN f \subseteq S /\ f \in [DOMAIN f -> Nat]
IsMetrics(m) ==
    /\ DOMAIN m = {"traffic", "total", "hourly"}
    /\ m.traffic \in [Source -> Nat] /\ m.total \in [Total -> Nat]
    /\ DOMAIN m.hourly \subseteq Hour /\ m.hourly \in [DOMAIN m.hourly -> [Total -> Nat]]

MetricsInit ==
    /\ core = "none" /\ reported = {} /\ counter = Zeros(Source)
    /\ metrics = NewMetrics /\ disk = NewMetrics
    /\ lastRaw = <<>>
    /\ sampling = "idle" /\ answer = <<>>
    /\ status = NoReply
    /\ carried = Zeros(Source)
    /\ failures = Zeros(Source)

-----------------------------------------------------------------------------
(***************************************************************************)
(* Slips: plausible mistakes in the definitions below, used by none.       *)
(***************************************************************************)
CountsAtFirstSight(s, raw) == IF s \in DOMAIN lastRaw /\ raw >= lastRaw[s] THEN raw - lastRaw[s] ELSE raw
TotalsAccountsToo(t) == OfKind(t) \cup (IF t = "inbound" THEN OfKind("account") ELSE {})

-----------------------------------------------------------------------------
(***************************************************************************)
(* The engine, as Manager.Update drives it.                                *)
(***************************************************************************)
\* A core is built: its counters start at zero.
Build ==
    /\ core' = "up"
    /\ counter' = Zeros(Source)
    /\ reported' \in SUBSET Source
    /\ UNCHANGED <<sampler, status, carried, failures>>

\* restart fails after the old core, if any, was closed: its counters are
\* gone.  The engine stays in m.engines.
BuildFails ==
    /\ core' = "closed"
    /\ counter' = Zeros(Source)
    /\ UNCHANGED <<reported, sampler, status, carried, failures>>

\* Accounts change in place (a core that was closed by a failed restart passes
\* for a running one): a core keeps the counters of the removed ones.
Edit ==
    /\ core # "none"
    /\ \E A \in SUBSET OfKind("account") : reported' = (reported \ OfKind("account")) \cup A
    /\ UNCHANGED <<core, counter, sampler, status, carried, failures>>

\* The engine is stopped and leaves m.engines.
Drop ==
    /\ core # "none"
    /\ core' = "none"
    /\ counter' = Zeros(Source)
    /\ reported' = {}
    /\ sampling' = IF sampling = "asking" THEN "asking dropped" ELSE sampling
    /\ UNCHANGED <<metrics, lastRaw, answer, disk, status, carried, failures>>

Carry(s) ==
    /\ core = "up" /\ s \in reported /\ carried[s] < MaxBytes[s]
    /\ counter' = [counter EXCEPT ![s] = @ + 1]
    /\ carried' = [carried EXCEPT ![s] = @ + 1]
    /\ UNCHANGED <<core, reported, sampler, status, failures>>

-----------------------------------------------------------------------------
(***************************************************************************)
(* A sample.                                                               *)
(***************************************************************************)
\* The first critical section: m.engines is copied.  With no engine there is
\* nothing to ask.
Snapshot ==
    /\ sampling = "idle"
    /\ sampling' = IF core = "none" THEN "answered" ELSE "asking"
    /\ answer' = <<>>
    /\ UNCHANGED <<engine, metrics, lastRaw, disk, status, carried, failures>>

\* GetMetrics of a running core.  A query that fails, the sample's time being
\* over or the API not answering, reads as zero (querySingleStatPair).
Query ==
    /\ sampling = "asking" /\ core = "up"
    /\ \E failed \in SUBSET {s \in reported : counter[s] > 0 /\ failures[s] < MaxFailures[s]} :
          /\ answer' = [s \in reported |-> IF s \in failed THEN 0 ELSE counter[s]]
          /\ failures' = [s \in Source |-> IF s \in failed THEN failures[s] + 1 ELSE failures[s]]
    /\ sampling' = "answered"
    /\ UNCHANGED <<engine, metrics, lastRaw, disk, status, carried>>

\* Without a core GetMetrics returns zeros for the inbounds; a core that was
\* closed and not replaced also fails the queries for everything else.
QueryClosed ==
    /\ sampling = "asking" /\ core = "closed"
    /\ answer' \in {Zeros(reported), Zeros(reported \cap OfKind("inbound"))}
    /\ sampling' = "answered"
    /\ UNCHANGED <<engine, metrics, lastRaw, disk, status, carried, failures>>

\* A dropped engine remembers its inbounds.
QueryDropped ==
    /\ sampling = "asking dropped"
    /\ answer' \in {Zeros(D) : D \in SUBSET OfKind("inbound")}
    /\ sampling' = "answered"
    /\ UNCHANGED <<engine, metrics, lastRaw, disk, status, carried, failures>>

\* applyTrafficDelta: a source that is new, or was not answered for last time,
\* sets its baseline; a counter below the last one has started again.
Delta(s, raw) ==
    IF s \notin DOMAIN lastRaw THEN 0
    ELSE IF raw >= lastRaw[s] THEN raw - lastRaw[s]
    ELSE raw

\* The traffic that this sample adds to a source, and to a total.
Added == [s \in Source |-> IF s \in DOMAIN answer THEN Delta(s, answer[s]) ELSE 0]
CountedIn(t) == OfKind(t)
AddedTotal == [t \in Total |-> SumFunctionOnSet(Added, CountedIn(t))]

Plus(f, g) == [x \in DOMAIN f |-> f[x] + g[x]]

\* updateHourlyMetricsLocked: the current hour's bucket, new or found, and
\* normalizeHourlyMetrics, which keeps the latest hours.
Bucketed(hour, added) ==
    IF hour \in DOMAIN metrics.hourly
    THEN [metrics.hourly EXCEPT ![hour] = Plus(@, added)]
    ELSE [h \in DOMAIN metrics.hourly \cup {hour} |->
             IF h = hour THEN added ELSE metrics.hourly[h]]
Latest(hourly) ==
    Restrict(hourly, {h \in DOMAIN hourly :
                        Cardinality({g \in DOMAIN hourly : g > h}) < MaxBuckets})

\* The second critical section.  m.lastRaw is left with the sources that were
\* answered for; the file may not be written, or not to the end; the wall clock
\* may step either way between samples.
Apply(hour) ==
    /\ sampling = "answered"
    /\ metrics' = [traffic |-> Plus(metrics.traffic, Added),
                   total |-> Plus(metrics.total, AddedTotal),
                   hourly |-> Latest(Bucketed(hour, AddedTotal))]
    /\ lastRaw' = answer
    /\ disk' \in {disk, metrics', Torn}
    /\ sampling' = "idle"
    /\ answer' = <<>>
    /\ UNCHANGED <<engine, status, carried, failures>>

-----------------------------------------------------------------------------
(***************************************************************************)
(* Requests and the process.                                               *)
(***************************************************************************)
\* GetStatus calls one getter after another, each under the mutex.  Those that
\* must agree: the traffic of the inbounds -- of all of them: the configured
\* ones are some -- and the total.
Getters == <<"inbounds", "total">>

Shown ==
    [inbounds |-> SumFunctionOnSet(metrics.traffic, OfKind("inbound")),
     total |-> metrics.total["inbound"]]

Get ==
    /\ status' = IF status = NoReply THEN Shown[Getters[1]] ELSE NoReply
    /\ UNCHANGED <<engine, sampler, carried, failures>>

\* The node goes down -- Apply covers the file it may be writing -- and
\* NewManager loads what can be read.
NodeRestart ==
    /\ core' = "none" /\ reported' = {} /\ counter' = Zeros(Source)
    /\ lastRaw' = <<>>
    /\ sampling' = "idle" /\ answer' = <<>>
    /\ metrics' = IF disk = Torn THEN NewMetrics ELSE disk
    /\ status' = NoReply
    /\ UNCHANGED <<disk, carried, failures>>

-----------------------------------------------------------------------------
MetricsNext ==
    \/ Build \/ BuildFails \/ Edit \/ Drop
    \/ \E s \in Source : Carry(s)
    \/ Snapshot \/ Query \/ QueryClosed \/ QueryDropped
    \/ \E hour \in Hour : Apply(hour)
    \/ Get \/ NodeRestart

MetricsSpec == MetricsInit /\ [][MetricsNext]_metricsVars

-----------------------------------------------------------------------------
(***************************************************************************)
(* Properties.                                                             *)
(***************************************************************************)
MetricsTypeOK ==
    /\ core \in {"none", "closed", "up"}
    /\ reported \subseteq Source
    /\ counter \in [Source -> Nat]
    /\ IsMetrics(metrics)
    /\ IsCounts(lastRaw, Source)
    /\ sampling \in Stage
    /\ IsCounts(answer, Source)
    /\ disk = Torn \/ IsMetrics(disk)
    /\ status \in Nat \cup {NoReply}
    /\ carried \in [Source -> Nat]
    /\ failures \in [Source -> Nat]

\* No byte is counted twice, whatever engines do while they are sampled and
\* however often the node restarts -- unless a query failed on a running core:
\* that reads as a restarted counter, and all it had counted is added again.
CountedOnceUnlessFailed ==
    \A s \in Source : failures[s] = 0 => metrics.traffic[s] <= carried[s]

\* The totals are those of the inbounds, and of the outbounds that are not
\* excluded from them.
TotalsAddUp ==
    \A t \in Total : metrics.total[t] = SumFunctionOnSet(metrics.traffic, OfKind(t))

\* Until the first bucket is dropped, the hours account for the totals, with a
\* clock that steps either way.
HourlyAddsUp ==
    LET hours == DOMAIN metrics.hourly
    IN  Cardinality(hours) < MaxBuckets =>
            \A t \in Total :
                metrics.total[t] =
                    SumFunctionOnSet([h \in hours |-> metrics.hourly[h][t]], hours)

\* A status never shows inbounds with more traffic than their total, though
\* samples come between the getters: however late the second getter is called,
\* the reply adds up.
StatusAddsUp ==
    status # NoReply =>
        LET reply == [g \in {Getters[1], Getters[2]} |-> IF g = Getters[1] THEN status ELSE Shown[g]]
        IN  reply["inbounds"] <= reply["total"]

\* The three together: however samples, clocks, restarts and requests fall, the
\* figures a node keeps and the ones it tells agree with each other.
FiguresAgree == TotalsAddUp /\ HourlyAddsUp /\ StatusAddsUp
=============================================================================
