----------------------------- MODULE Statistics -----------------------------
(***************************************************************************)
(* What a node served, from its meter to the public chart: the worker's    *)
(* reporting loop (stats.rs, report_stats in server.rs) and the collector  *)
(* (services/stats).  A set of finished jobs stands for the Counters the   *)
(* code adds up: the loop only takes, sends and puts back whole windows.   *)
(* Time passes in hours, DayLength of them to a day of the chart.          *)
(***************************************************************************)
EXTENDS Integers, FiniteSets, Sequences, FiniteSetsExt, Coins

CONSTANTS Kinds,          \* how jobs end: "answer", "picture", "failed", "rejected"
          MaxJobs,        \* jobs that end in a behaviour
          MaxHours,       \* the last hour
          DayLength,      \* hours in a day
          ChartDays,      \* days the document covers
          MaxPerHour,     \* MAX_REPORTS_PER_HOUR
          MaxReports,     \* windows sent in a behaviour
          MaxGitHub,      \* GitHub's counter
          Installs        \* ids of desktop installs

ASSUME StatisticsAssumption == DayLength \in Nat \ {0} /\ ChartDays \in Nat

VARIABLES
    ended,      \* ended[j]: how job j ended, in the order the meter saw them
    meter,      \* Meter.inner: jobs counted and not yet drained
    sending,    \* <<>>, or <<the window in flight, whether it was recorded>>
    tooLong,    \* the node lists more models than a report may carry
    reports,    \* the collector's table: rows [day, at, jobs]
    hour,       \* the clock both sides read
    github,     \* GitHub's own download counter
    snapshots,  \* release_downloads: day -> the counter
    installs,   \* installs: id -> [first, last]
    heartbeats, \* the (day, id) pairs of heartbeats
    gone,       \* history: jobs whose window was given up on purpose
    unsure      \* history: jobs in a window recorded without the node hearing

statsVars == <<ended, meter, sending, tooLong, reports, hour, github,
               snapshots, installs, heartbeats, gone, unsure>>
growthVars == <<github, snapshots, installs, heartbeats>>

Day(t) == t \div DayLength
Today == Day(hour)

\* One window's counters: a refusal is no request, a failure is one.
Counters(jobs) ==
    LET Of(k) == Cardinality({j \in jobs : ended[j] = k})
    IN  [requests |-> Cardinality(jobs) - Of("rejected"),
         images |-> Of("picture"), tokens |-> Of("answer"),
         failures |-> Of("failed"), rejected |-> Of("rejected")]

(***************************** the worker **********************************)
\* Meter.record, failed and rejected: a job ends and is counted.
JobEnds(kind) ==
    /\ Len(ended) < MaxJobs
    /\ ended' = Append(ended, kind)
    /\ meter' = meter \cup {Len(ended) + 1}
    /\ UNCHANGED <<sending, tooLong, reports, hour, growthVars, gone, unsure>>

\* The tick: the meter is drained, and the signed report sets out.
DrainedNot == meter \* mutant: the window is copied and not taken
Drained == {}
DrainAndSend ==
    /\ sending = <<>>
    /\ Len(reports) < MaxReports
    /\ meter' = Drained
    /\ \/ sending' = <<meter, FALSE>> /\ gone' = gone
       \/ sending' = <<>> /\ gone' = gone \cup meter   \* it cannot be signed
    /\ UNCHANGED <<ended, tooLong, reports, hour, growthVars, unsure>>

\* Meter.restore: the counters come back on top of the new ones.
Restored(jobs) == meter \cup jobs

\* Any error of send: a refusal, a time-out, no connection, a lost answer.
SendFails ==
    /\ sending # <<>>
    /\ sending' = <<>>
    /\ meter' = IF sending[1] = {} THEN meter ELSE Restored(sending[1])
    /\ unsure' = IF sending[2] THEN unsure \cup sending[1] ELSE unsure
    /\ UNCHANGED <<ended, tooLong, reports, hour, growthVars, gone>>

SendOk ==
    /\ sending # <<>> /\ sending[2]
    /\ sending' = <<>>
    /\ UNCHANGED <<ended, meter, tooLong, reports, hour, growthVars, gone, unsure>>

\* The loop returns at shutdown with no last report; a restart counts from zero.
LoopRestart ==
    /\ gone' = gone \cup meter \cup (IF sending = <<>> THEN {} ELSE sending[1])
    /\ meter' = {} /\ sending' = <<>>
    /\ UNCHANGED <<ended, tooLong, reports, hour, growthVars, unsure>>

(**************************** the collector ********************************)
\* reports_since: what the node filed within the hour.
Lately == {i \in DOMAIN reports : reports[i].at >= hour - 1}

\* store.record: one row a report, dated by the day it arrives.
Row(jobs) == [day |-> Today, at |-> hour, jobs |-> jobs]

\* POST /report: checked, counted against the hour, and stored in one go.
Collect ==
    /\ sending # <<>> /\ ~sending[2]
    /\ ~tooLong
    /\ Cardinality(Lately) < MaxPerHour
    /\ reports' = Append(reports, Row(sending[1]))
    /\ sending' = <<sending[1], TRUE>>
    /\ UNCHANGED <<ended, meter, tooLong, hour, growthVars, gone, unsure>>

\* GET /version with the hello headers: record_heartbeat.
Heartbeat(id) ==
    /\ installs' = [i \in DOMAIN installs \cup {id} |->
                        IF i # id THEN installs[i]
                        ELSE [first |-> IF id \in DOMAIN installs THEN installs[id].first
                                        ELSE hour,
                              last |-> hour]]
    /\ heartbeats' = heartbeats \cup {<<Today, id>>}
    /\ UNCHANGED <<ended, meter, sending, tooLong, reports, hour, github, snapshots,
                   gone, unsure>>

\* release_counts: GitHub's counter; its answer is cached for less than an hour.
ReleaseCounts == github

\* GET /stats.json asks GitHub and snapshots its counter for the day.
Snapshot ==
    /\ snapshots' = [d \in DOMAIN snapshots \cup {Today} |->
                        IF d = Today THEN ReleaseCounts ELSE snapshots[d]]
    /\ UNCHANGED <<ended, meter, sending, tooLong, reports, hour, github, installs,
                   heartbeats, gone, unsure>>

GitHubCounts ==
    /\ github < MaxGitHub
    /\ github' = github + 1
    /\ UNCHANGED <<ended, meter, sending, tooLong, reports, hour, snapshots, installs,
                   heartbeats, gone, unsure>>

HourPasses ==
    /\ hour < MaxHours
    /\ hour' = hour + 1
    /\ UNCHANGED <<ended, meter, sending, tooLong, reports, growthVars, gone, unsure>>

(**************************** the document *********************************)
\* The days of the chart, oldest first; the code fills empty ones with zeroes.
ChartWindow == (Today - ChartDays + 1)..Today

\* store.stats: each report is a row of its own day.
Charted(d) ==
    Total({i \in DOMAIN reports : reports[i].day = d},
          [i \in DOMAIN reports |-> Counters(reports[i].jobs).requests])

\* store.growth: the rise since the previous snapshot inside the chart.
Previous(d) == {e \in DOMAIN snapshots \cap ChartWindow : e < d}
Rise(d) ==
    IF d \in DOMAIN snapshots /\ Previous(d) # {}
    THEN <<snapshots[d] - snapshots[Max(Previous(d))]>> ELSE <<>>

InstallsNew(d) == {i \in DOMAIN installs : Day(installs[i].first) = d}
InstallsActive(d) == {i \in Installs : <<d, i>> \in heartbeats}

StatsInit ==
    /\ ended = <<>> /\ meter = {} /\ sending = <<>> /\ tooLong \in BOOLEAN
    /\ reports = <<>> /\ hour = 0 /\ github = 0
    /\ snapshots = [d \in {} |-> 0] /\ installs = [i \in {} |-> 0]
    /\ heartbeats = {} /\ gone = {} /\ unsure = {}

\* The two halves share a clock and nothing else.
UsageNext ==
    \/ \E k \in Kinds : JobEnds(k)
    \/ DrainAndSend \/ SendFails \/ SendOk \/ LoopRestart \/ Collect \/ HourPasses

GrowthNext ==
    \/ \E id \in Installs : Heartbeat(id)
    \/ Snapshot \/ GitHubCounts \/ HourPasses

StatsNext == UsageNext \/ GrowthNext
StatsSpec == StatsInit /\ [][StatsNext]_statsVars

(****************************** properties *********************************)
Places(j) == (IF j \in meter THEN 1 ELSE 0)
             + (IF sending # <<>> /\ ~sending[2] /\ j \in sending[1] THEN 1 ELSE 0)
             + Cardinality({i \in DOMAIN reports : j \in reports[i].jobs})

\* A finished job is in exactly one place, the meter, the window in flight or
\* a row of the collector, through refusals, time-outs and retries: the chart
\* has no hole unless the node stopped or could not sign, and counts no job
\* twice unless the answer to a report it had stored was lost.  So with neither,
\* the requests of the days and those still with the node are all there were.
NoHoleInChart ==
    /\ (gone \cup unsure = {}) =>
        Total(0..Today, [d \in 0..Today |-> Charted(d)]) + Counters(meter).requests
            + (IF sending = <<>> \/ sending[2] THEN 0 ELSE Counters(sending[1]).requests)
        = Counters(DOMAIN ended).requests
    /\ \A j \in DOMAIN ended :
        /\ j \notin gone => Places(j) >= 1
        /\ j \notin unsure => Places(j) <= 1

\* The growth half: a day's new installs are among its active ones, and the
\* daily rises add up to GitHub's own rise over the chart, skipped days or not.
GrowthAddsUp ==
    LET taken == DOMAIN snapshots \cap ChartWindow
    IN  /\ \A d \in 0..Today : InstallsNew(d) \subseteq InstallsActive(d)
        /\ taken # {} =>
               Total(ChartWindow, [d \in ChartWindow |-> IF Rise(d) = <<>> THEN 0 ELSE Rise(d)[1]])
                   = snapshots[Max(taken)] - snapshots[Min(taken)]

\* The two together: nothing that ended is missing from the chart or in it twice,
\* and the daily rises of the downloads are GitHub's own rise (stats.rs,
\* services/stats).
ChartsAddUp == NoHoleInChart /\ GrowthAddsUp

\* stats.rs:20-21: "a dropped report costs that window rather than
\* double-counting the next".  TLC refutes it: a lost answer counts twice.
NeverTwice == \A j \in DOMAIN ended : Places(j) <= 1
=============================================================================
