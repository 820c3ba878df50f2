---------------------------- MODULE ServicesProofs ----------------------------
(***************************************************************************)
(* Theorems of what works beside the deploy engine and the tunnel: the NFA *)
(* supervisor, the log reporter, the discovery of services and the log     *)
(* stream.  They share no state and no theorem is about two of them.       *)
(***************************************************************************)
EXTENDS NfaSupervisor, LogReporter, LogStream, ServiceDiscovery, TLAPS

-------------------------------------------------------------------------------
(* NfaSupervisor: NoStrayProcess, for any callers and any number of exits  *)

\* Processes are numbered as they are spawned: one that is spawned is none of
\* those that run, and the handle that is kept is of one of them.
Numbered ==
  /\ spawned \in Nat
  /\ alive \subseteq 1..spawned
  /\ child \in 0..spawned

NfaInv == Numbered /\ NoStrayProcess

LEMMA NfaInvInit == NfaInit => NfaInv
BY DEF NfaInit, NfaInv, Numbered, NoStrayProcess

\* Only a spawn makes a process run, and it needs a free place for the handle; only
\* stop gives up a handle whose process runs, and it has sent the signal by then.
LEMMA NfaInvNext == NfaInv /\ [NfaNext]_nfaVars => NfaInv'
<1> SUFFICES ASSUME NfaInv, [NfaNext]_nfaVars
             PROVE  NfaInv'
  OBVIOUS
<1> USE DEF NfaInv, Numbered, NoStrayProcess
<1>1. ASSUME NEW t \in Tasks, TaskStep(t)
      PROVE  NfaInv'
  <2>1. CASE StartWanted(t) \/ StartReady(t) \/ StopWanted(t) \/ StopWaited(t) \/ BackoffOver(t)
             \/ AcquirePermit(t) \/ AlignEnds(t) \/ SpawnFails(t)
    BY <2>1 DEF StartWanted, StartReady, StopWanted, StopWaited, BackoffOver, AcquirePermit,
                AlignEnds, SpawnFails, procVars
  <2>2. CASE StartPeek(t) \/ EnsureRunning(t) \/ Status(t)
    <3>1. UNCHANGED <<spawned, alive, killed>> /\ child' = reaped
      BY <2>2 DEF StartPeek, EnsureRunning, Status, procVars
    <3>2. QED
      BY <3>1 DEF reaped
  <2>3. CASE StartSpawn(t)
    <3>1. CASE UNCHANGED <<spawned, alive, killed, child>>
      BY <3>1
    <3>2. CASE /\ child = 0 /\ spawned' = spawned + 1
               /\ alive' = alive \cup {spawned + 1}
               /\ child' = spawned + 1 /\ killed' = killed
      <4>1. alive' \subseteq 1..spawned' /\ alive' \ killed' \subseteq {child'}
        BY <3>2
      <4>2. QED
        BY <3>2, <4>1
    <3>3. QED
      BY <2>3, <3>1, <3>2 DEF StartSpawn, procVars
  <2>4. CASE StopTake(t)
    <3>1. UNCHANGED <<spawned, alive>>
      BY <2>4 DEF StopTake
    <3>2. \/ UNCHANGED <<child, killed>>
          \/ child' = 0 /\ killed' = killed \cup {child}
      BY <2>4 DEF StopTake
    <3>3. QED
      BY <3>1, <3>2
  <2>5. QED
    BY <1>1, <2>1, <2>2, <2>3, <2>4 DEF TaskStep
<1>2. CASE LoadDesired \/ CheckProcess
  <2>1. UNCHANGED <<spawned, alive, killed>> /\ child' \in {child, reaped}
    BY <1>2 DEF LoadDesired, CheckProcess, procVars
  <2>2. QED
    BY <2>1 DEF reaped
<1>3. ASSUME NEW t \in Callers, Call(t) \/ CallerHangsUp(t)
      PROVE  NfaInv'
  <2>1. UNCHANGED <<spawned, alive, killed, child>>
    BY <1>3, Zenon DEF Call, CallerHangsUp, procVars
  <2>2. QED
    BY <2>1
<1>4. ASSUME NEW p \in 1..spawned, ProcessExits(p) \/ KilledDies(p)
      PROVE  NfaInv'
  BY <1>4 DEF ProcessExits, KilledDies
<1>5. CASE UNCHANGED nfaVars
  BY <1>5 DEF nfaVars
<1>6. QED
  BY <1>1, <1>2, <1>3, <1>4, <1>5 DEF NfaNext, SuperviseStep, Tasks

\* nfa.rs never loses a process that it has not killed, whichever of start, stop,
\* restart and the loop meet and whoever of their callers hangs up.
THEOREM NoStray == NfaSpec => []NoStrayProcess
<1>1. NfaInv => NoStrayProcess
  BY DEF NfaInv
<1>2. QED
  BY <1>1, NfaInvInit, NfaInvNext, PTL DEF NfaSpec

-------------------------------------------------------------------------------
(* LogReporter                                                             *)

Lines == 1..Len(journal)

Reports == [at : {"sleep", "fetch", "send"}, now : Nat, since : Int,
            lines : SUBSET Nat, rest : SUBSET Nat]

ReportTyped == clock \in Nat /\ journal \in Seq(Nat) /\ report \in Reports

\* The journal, the report and last_report are never ahead of the clock.
NothingAhead ==
  /\ \A i \in Lines : journal[i] <= clock
  /\ report.now <= clock
  /\ last_report # Never => last_report \in Nat /\ last_report <= clock /\ from \in Int
  /\ last_report = Never => from = Never

\* A report begins where the last one ended.
ReportFollows ==
  report.at # "sleep" /\ last_report # Never => report.since = last_report

\* What is being sent, or left out of the batch, is all there was.
BatchIsComplete ==
  report.at = "send" =>
    \A i \in Lines : journal[i] >= Since(report.since) /\ journal[i] < report.now =>
                       i \in report.lines \cup report.rest

ReporterInv ==
  ReportTyped /\ NothingAhead /\ ReportFollows /\ BatchIsComplete /\ NoLineBetweenReports

-------------------------------------------------------------------------------
\* Where local time is UTC or ahead of it, the instant that is asked for is not
\* later than the one that is meant.
LEMMA SinceNotLater ==
  \A t \in Int : Since(t) \in Int /\ (UtcOffset >= 0 => Since(t) <= t)
<1> SUFFICES ASSUME NEW t \in Int
             PROVE  Since(t) \in Int /\ (UtcOffset >= 0 => Since(t) <= t)
  OBVIOUS
<1> DEFINE whole == (t \div PartsPerSecond) * PartsPerSecond
<1>1. whole \in Int /\ whole <= t
  BY ReporterAssumption, SMTT(30)
<1>2. Since(t) = whole - UtcOffset /\ UtcOffset \in Int
  BY ReporterAssumption DEF Since
<1> HIDE DEF whole
<1>3. QED
  BY <1>1, <1>2

LEMMA IdleTyped == Idle \in Reports
BY DEF Idle, Reports

LEMMA ReporterInvInit == ReporterInit => ReporterInv
<1> SUFFICES ASSUME ReporterInit PROVE ReporterInv
  OBVIOUS
<1>1. report.at = "sleep" /\ report.now = 0 /\ report \in Reports /\ Len(journal) = 0
  BY IdleTyped DEF ReporterInit, Idle
<1>2. QED
  BY <1>1 DEF ReporterInit, ReporterInv, ReportTyped, NothingAhead, ReportFollows,
              BatchIsComplete, NoLineBetweenReports, JournalIsReported, Lines

\* last_report may move to the time of the report when every line since the last
\* report has been dealt with.
LEMMA MovesKeeps ==
  ASSUME ReporterInv, report.at # "sleep", Moves(report.now),
         UNCHANGED <<clock, journal>>,
         reported \subseteq reported', passedOver \subseteq passedOver',
         \A i \in Lines : journal[i] >= Since(report.since) /\ journal[i] < report.now =>
                            i \in reported' \cup passedOver'
  PROVE  ReporterInv'
<1> USE ReporterAssumption
<1>0. report \in Reports
  BY DEF ReporterInv, ReportTyped
<1>1. report' \in Reports /\ report'.at = "sleep" /\ report'.now = 0
  BY IdleTyped DEF Moves, Idle
<1>2. /\ last_report' = report.now
      /\ from' = IF from = Never THEN report.since ELSE from
  BY DEF Moves
<1>3. ReportTyped'
  BY <1>1 DEF ReporterInv, ReportTyped
<1>4. NothingAhead'
  BY <1>0, <1>1, <1>2 DEF ReporterInv, ReportTyped, NothingAhead, Lines, Reports
<1>5. ReportFollows' /\ BatchIsComplete'
  BY <1>1 DEF ReportFollows, BatchIsComplete
<1>6. ASSUME UtcOffset >= 0, NEW i \in Lines, journal[i] \in from' .. (report.now - 1)
      PROVE  i \in reported' \cup passedOver'
  <2>1. /\ journal[i] \in Nat /\ report.now \in Nat /\ report.since \in Int /\ from' \in Int
        /\ Since(report.since) \in Int /\ Since(report.since) <= report.since
    <3>1. report.now \in Nat /\ report.since \in Int
      BY <1>0 DEF Reports
    <3>2. journal[i] \in Nat
      BY DEF ReporterInv, ReportTyped, Lines
    <3>3. from' \in Int
      BY <1>2, <3>1 DEF ReporterInv, NothingAhead
    <3>4. QED
      BY <1>6, <3>1, <3>2, <3>3, SinceNotLater
  <2>2. journal[i] < report.now /\ from' <= journal[i]
    BY <1>6, <2>1
  <2>3. CASE journal[i] >= Since(report.since)
    BY <2>2, <2>3
  <2>4. CASE journal[i] < Since(report.since)
    <3>1. from # Never
      BY <1>2, <2>1, <2>2, <2>4
    <3>2. last_report # Never /\ report.since = last_report /\ from' = from
      BY <1>2, <3>1 DEF ReporterInv, NothingAhead, ReportFollows
    <3>3. journal[i] \in from .. (last_report - 1)
      BY <2>1, <2>2, <2>4, <3>2
    <3>4. QED
      BY <1>6, <3>2, <3>3 DEF ReporterInv, NoLineBetweenReports, JournalIsReported, Lines
  <2>5. QED
    BY <2>1, <2>3, <2>4
<1>7. NoLineBetweenReports'
  BY <1>2, <1>6 DEF NoLineBetweenReports, JournalIsReported, Lines
<1>8. QED
  BY <1>3, <1>4, <1>5, <1>7 DEF ReporterInv

\* A step that leaves the positions alone, and the lines that have been dealt with.
LEMMA PositionsKept ==
  ASSUME ReporterInv, UNCHANGED <<clock, journal, last_report, from>>,
         reported \subseteq reported', passedOver \subseteq passedOver',
         report' \in Reports, report'.now <= clock, ReportFollows', BatchIsComplete'
  PROVE  ReporterInv'
<1>1. ReportTyped' /\ NothingAhead'
  BY DEF ReporterInv, ReportTyped, NothingAhead, Lines
<1>2. NoLineBetweenReports'
  BY DEF ReporterInv, NoLineBetweenReports, JournalIsReported
<1>3. QED
  BY <1>1, <1>2 DEF ReporterInv

LEMMA BeginReportKeeps == ReporterInv /\ BeginReport => ReporterInv'
<1> SUFFICES ASSUME ReporterInv, BeginReport PROVE ReporterInv'
  OBVIOUS
<1> USE ReporterAssumption
<1> DEFINE since == IF last_report = Never THEN clock - REPORT_INTERVAL ELSE last_report
<1>1. /\ report' = [Idle EXCEPT !.at = "fetch", !.now = clock, !.since = since]
      /\ UNCHANGED <<clock, journal, last_report, from, reported, passedOver>>
  BY DEF BeginReport
<1>2. since \in Int /\ clock \in Nat
  BY DEF ReporterInv, ReportTyped, NothingAhead
<1>3. last_report # Never => since = last_report
  OBVIOUS
<1> HIDE DEF since
<1>4. report' = [at |-> "fetch", now |-> clock, since |-> since, lines |-> {}, rest |-> {}]
  BY <1>1 DEF Idle
<1>5. report' \in Reports /\ report'.at = "fetch" /\ report'.now = clock /\ report'.since = since
  BY <1>2, <1>4 DEF Reports
<1>6. ReportFollows' /\ BatchIsComplete'
  BY <1>1, <1>3, <1>5 DEF ReportFollows, BatchIsComplete
<1>7. QED
  BY <1>1, <1>2, <1>5, <1>6, PositionsKept

LEMMA FetchLogsKeeps == ReporterInv /\ FetchLogs => ReporterInv'
<1> SUFFICES ASSUME ReporterInv, FetchLogs PROVE ReporterInv'
  OBVIOUS
<1>1. CASE SinceLines = {}
  <2>1. \A i \in Lines : ~(journal[i] >= Since(report.since))
    BY <1>1 DEF SinceLines, Lines
  <2>2. /\ report.at # "sleep" /\ Moves(report.now)
        /\ UNCHANGED <<clock, journal, reported, passedOver>>
    BY <1>1 DEF FetchLogs
  <2>3. QED
    BY <2>1, <2>2, MovesKeeps
<1>2. CASE SinceLines # {}
  <2> DEFINE new == Newest(SinceLines)
             old == SinceLines \ Newest(SinceLines)
  <2>1. /\ report' = [report EXCEPT !.at = "send", !.lines = new, !.rest = old]
        /\ report.at = "fetch"
        /\ UNCHANGED <<clock, journal, last_report, from, reported, passedOver>>
    BY <1>2 DEF FetchLogs
  <2>2. \A i \in SinceLines : i \in new \cup old
    OBVIOUS
  <2>3. SinceLines \subseteq Nat
    BY DEF SinceLines, ReporterInv, ReportTyped
  <2>4. new \in SUBSET Nat /\ old \in SUBSET Nat
    BY <2>3 DEF Newest
  <2> HIDE DEF new, old
  <2>5. report \in Reports
    BY DEF ReporterInv, ReportTyped
  <2>6. report' = [at |-> "send", now |-> report.now, since |-> report.since,
                   lines |-> new, rest |-> old]
    BY <2>1, <2>5 DEF Reports
  <2>7. /\ report' \in Reports /\ report'.now = report.now /\ report'.since = report.since
        /\ report'.lines = new /\ report'.rest = old
    BY <2>4, <2>5, <2>6 DEF Reports
  <2>8. ReportFollows'
    BY <2>1, <2>7 DEF ReporterInv, ReportFollows
  <2>9. BatchIsComplete'
    <3>1. \A i \in Lines : journal[i] >= Since(report.since) => i \in SinceLines
      BY DEF Lines, SinceLines
    <3>2. QED
      BY <2>1, <2>2, <2>7, <3>1 DEF BatchIsComplete, Lines, Since
  <2>10. report'.now <= clock
    BY <2>7 DEF ReporterInv, NothingAhead
  <2>11. QED
    BY <2>1, <2>7, <2>8, <2>9, <2>10, PositionsKept
<1>3. QED
  BY <1>1, <1>2

LEMMA FetchFailsKeeps == ReporterInv /\ FetchFails => ReporterInv'
<1> SUFFICES ASSUME ReporterInv, FetchFails PROVE ReporterInv'
  OBVIOUS
<1>1. /\ report.at # "sleep" /\ Moves(report.now) /\ passedOver' = passedOver \cup SinceLines
      /\ UNCHANGED <<clock, journal, reported>>
  BY DEF FetchFails
<1>2. \A i \in Lines : journal[i] >= Since(report.since) => i \in SinceLines
  BY DEF Lines, SinceLines
<1>3. QED
  BY <1>1, <1>2, MovesKeeps

LEMMA ReportSentKeeps == ReporterInv /\ ReportSent => ReporterInv'
<1> SUFFICES ASSUME ReporterInv, ReportSent PROVE ReporterInv'
  OBVIOUS
<1>1. /\ report.at = "send" /\ Moves(report.now)
      /\ reported' = reported \cup report.lines /\ passedOver' = passedOver \cup report.rest
      /\ UNCHANGED <<clock, journal>>
  BY DEF ReportSent
<1>2. \A i \in Lines : journal[i] >= Since(report.since) /\ journal[i] < report.now =>
                          i \in reported' \cup passedOver'
  BY <1>1 DEF ReporterInv, BatchIsComplete
<1>3. QED
  BY <1>1, <1>2, MovesKeeps

LEMMA ReportFailsKeeps == ReporterInv /\ ReportFails => ReporterInv'
<1> SUFFICES ASSUME ReporterInv, ReportFails PROVE ReporterInv'
  OBVIOUS
<1>1. /\ report' = Idle /\ reported \subseteq reported'
      /\ UNCHANGED <<clock, journal, last_report, from, passedOver>>
  BY DEF ReportFails
<1>2. report' \in Reports /\ report'.at = "sleep" /\ report'.now = 0 /\ 0 <= clock
  BY <1>1, IdleTyped DEF Idle, ReporterInv, ReportTyped
<1>3. ReportFollows' /\ BatchIsComplete'
  BY <1>2 DEF ReportFollows, BatchIsComplete
<1>4. QED
  BY <1>1, <1>2, <1>3, PositionsKept

\* A line that is written now belongs to a later report.
LEMMA WriteLineKeeps == ReporterInv /\ WriteLine => ReporterInv'
<1> SUFFICES ASSUME ReporterInv, WriteLine PROVE ReporterInv'
  OBVIOUS
<1>1. /\ journal' = Append(journal, clock)
      /\ UNCHANGED <<clock, last_report, report, from, reported, passedOver>>
  BY DEF WriteLine
<1>2. clock \in Nat /\ journal \in Seq(Nat) /\ report \in Reports
  BY DEF ReporterInv, ReportTyped
<1>3. /\ journal' \in Seq(Nat) /\ Len(journal') = Len(journal) + 1
      /\ journal'[Len(journal) + 1] = clock
      /\ \A i \in Lines : journal'[i] = journal[i]
  BY <1>1, <1>2 DEF Lines
<1>4. \A i \in Lines' : i \in Lines \/ i = Len(journal) + 1
  BY <1>2, <1>3 DEF Lines
<1>5. ReportTyped' /\ ReportFollows'
  BY <1>1, <1>3 DEF ReporterInv, ReportTyped, ReportFollows
<1>6. NothingAhead'
  <2>1. clock <= clock
    BY <1>2
  <2>2. ASSUME NEW i \in Lines' PROVE journal'[i] <= clock'
    BY <1>1, <1>3, <1>4, <2>1 DEF ReporterInv, NothingAhead
  <2>3. QED
    BY <1>1, <2>2 DEF ReporterInv, NothingAhead
<1>7. BatchIsComplete'
  <2>1. report.now \in Nat /\ report.now <= clock
    BY <1>2 DEF Reports, ReporterInv, NothingAhead
  <2>2. ~(clock < report.now)
    BY <1>2, <2>1
  <2>3. QED
    BY <1>1, <1>3, <1>4, <2>2 DEF ReporterInv, BatchIsComplete, Since
<1>8. NoLineBetweenReports'
  <2>1. SUFFICES ASSUME UtcOffset >= 0, last_report # Never, NEW i \in Lines',
                        journal'[i] \in from .. (last_report - 1)
                 PROVE  i \in reported \cup passedOver
    BY <1>1 DEF NoLineBetweenReports, JournalIsReported, Lines
  <2>2. last_report \in Nat /\ last_report <= clock /\ from \in Int
    BY <2>1 DEF ReporterInv, NothingAhead
  <2>3. i \in Lines
    BY <1>2, <1>3, <1>4, <2>1, <2>2
  <2>4. QED
    BY <1>3, <2>1, <2>3 DEF ReporterInv, NoLineBetweenReports, JournalIsReported, Lines
<1>9. QED
  BY <1>5, <1>6, <1>7, <1>8 DEF ReporterInv

LEMMA TickKeeps == ReporterInv /\ Tick => ReporterInv'
<1> SUFFICES ASSUME ReporterInv, Tick PROVE ReporterInv'
  OBVIOUS
<1>1. /\ clock' = clock + 1
      /\ UNCHANGED <<journal, last_report, report, from, reported, passedOver>>
  BY DEF Tick
<1>2. ReportTyped' /\ ReportFollows'
  BY <1>1 DEF ReporterInv, ReportTyped, ReportFollows
<1>3. NothingAhead'
  BY <1>1 DEF ReporterInv, ReportTyped, NothingAhead, Lines, Reports
<1>4. BatchIsComplete' /\ NoLineBetweenReports'
  BY <1>1 DEF ReporterInv, BatchIsComplete, NoLineBetweenReports, JournalIsReported, Lines,
              Since
<1>5. QED
  BY <1>2, <1>3, <1>4 DEF ReporterInv

\* Where local time is UTC or ahead of it, however long reports take, however many
\* fail and whatever the interval, the batch size and the precision of --since: a line
\* from before the last report that counted is at the Deploy Center, or was left out
\* of a batch or of a journal that was not read.
THEOREM NoLineIsMissed == ReporterSpec => []NoLineBetweenReports
<1>1. ReporterInv /\ [ReporterNext]_reporterVars => ReporterInv'
  <2> SUFFICES ASSUME ReporterInv, [ReporterNext]_reporterVars PROVE ReporterInv'
    OBVIOUS
  <2>1. CASE UNCHANGED reporterVars
    BY <2>1 DEF reporterVars, ReporterInv, ReportTyped, NothingAhead, ReportFollows,
                BatchIsComplete, NoLineBetweenReports, JournalIsReported, Lines, Since
  <2>2. QED
    BY <2>1, BeginReportKeeps, FetchLogsKeeps, FetchFailsKeeps, ReportSentKeeps,
       ReportFailsKeeps, WriteLineKeeps, TickKeeps DEF ReporterNext
<1>2. ReporterInv => NoLineBetweenReports
  BY DEF ReporterInv
<1>3. QED
  BY <1>1, <1>2, ReporterInvInit, PTL DEF ReporterSpec

-------------------------------------------------------------------------------
(* ServiceDiscovery                                                        *)

Sources == {"None", "Local", "Tunnel", "LanPeer", "Mesh", "Config", "Fallback", "Nothing"}
Places == {"idle", "local", "tunnel", "url", "provider", "mesh", "request", "store", "done"}
Endpoints == [source : Sources, known : Int, moved : BOOLEAN]
Lookups == [at : Places, endpoint : Endpoints, since : Int, steady : SUBSET Peers, age : Int]

Typed ==
  /\ now \in Nat /\ cleanup_due \in Nat
  /\ static \in Sources
  /\ lookup \in [Users -> Lookups]

\* No wait is longer than it may be.
WaitsAreBounded ==
  /\ now <= cleanup_due /\ cleanup_due <= now + CLEANUP_INTERVAL
  /\ receiving # Absent =>
       /\ receiving.peer \in Peers /\ receiving.at \in Nat
       /\ receiving.at <= now /\ now <= receiving.at + HEALTH_CHECK_TIMEOUT
  /\ \A u \in Users : lookup[u].at = "request" =>
       lookup[u].since <= now /\ now <= lookup[u].since + MESH_TIMEOUT

\* An entry is dropped before it is too old, and a healthy one was verified after
\* its packet had come in.
EntryOK(e) ==
  /\ e.last_seen \in Nat /\ e.verified \in Nat /\ e.moved \in BOOLEAN
  /\ cleanup_due <= e.last_seen + PEER_TIMEOUT + CLEANUP_INTERVAL
  /\ e.healthy /\ ~e.moved => e.verified >= e.last_seen

EntriesOK ==
  /\ DOMAIN discovered_peers = Peers
  /\ \A p \in Peers : discovered_peers[p] # Absent => EntryOK(discovered_peers[p])

\* What was found at time t was not too old then.
FoundFresh(e, t) == e.moved \/ t - e.known <= AgeFound(e.source)

CachesOK ==
  /\ mesh_cache # Absent =>
       /\ mesh_cache.cached_at \in Nat
       /\ mesh_cache.endpoint \in Endpoints /\ mesh_cache.endpoint.source = "Mesh"
       /\ mesh_cache.cached_at - mesh_cache.endpoint.known <= MESH_TIMEOUT
  /\ cache # Absent =>
       /\ cache.cached_at \in Nat /\ cache.endpoint \in Endpoints
       /\ FoundFresh(cache.endpoint, cache.cached_at)

FindingsFresh ==
  \A u \in Users :
    lookup[u].at \in {"provider", "store"} => FoundFresh(lookup[u].endpoint, now)

FreshInv ==
  Typed /\ WaitsAreBounded /\ EntriesOK /\ CachesOK /\ FindingsFresh /\ EndpointIsFresh

-------------------------------------------------------------------------------
LEMMA AgeFoundNat == \A s : AgeFound(s) \in Nat
BY DiscoveryAssumption DEF AgeFound

LEMMA EndpointTyped == \A s \in Sources, t \in Int : Endpoint(s, t) \in Endpoints
BY DEF Endpoint, Endpoints

LEMMA WaitingTyped == Waiting \in Lookups /\ Waiting.at = "idle"
<1>1. Unknown \in Endpoints
  BY EndpointTyped DEF Unknown, Sources
<1>2. QED
  BY <1>1 DEF Waiting, Lookups, Places

\* A request to the mesh registry notes its time.
LEMMA AskedTyped ==
  ASSUME NEW l \in Lookups, NEW t \in Int
  PROVE  [l EXCEPT !.at = "request", !.since = t] \in Lookups
<1>1. [l EXCEPT !.at = "request"] \in Lookups
  BY DEF Lookups, Places
<1>2. \A k \in Lookups : [k EXCEPT !.since = t] \in Lookups
  BY DEF Lookups
<1>3. QED
  BY <1>1, <1>2

LEMMA FreshInvInit == DiscoveryInit => FreshInv
<1> SUFFICES ASSUME DiscoveryInit PROVE FreshInv
  OBVIOUS
<1> USE DiscoveryAssumption DEF DiscoveryInit
<1>1. \A u \in Users : lookup[u] = Waiting
  OBVIOUS
<1>2. Waiting \in Lookups /\ Waiting.at = "idle"
  BY WaitingTyped
<1>3. Typed
  <2>1. static \in Sources
    BY DEF Sources
  <2>2. lookup \in [Users -> Lookups]
    BY <1>2
  <2>3. QED
    BY <2>1, <2>2 DEF Typed
<1>4. WaitsAreBounded
  BY <1>1, <1>2 DEF WaitsAreBounded
<1>5. EntriesOK
  <2>1. DOMAIN discovered_peers = Peers
    OBVIOUS
  <2>2. ASSUME NEW p \in Peers, discovered_peers[p] # Absent
        PROVE  EntryOK(discovered_peers[p])
    <3>1. discovered_peers[p] = [addr |-> 1, last_seen |-> 0, healthy |-> TRUE,
                                 moved |-> FALSE, verified |-> 0]
      BY <2>2
    <3>2. QED
      BY <3>1 DEF EntryOK
  <2>3. QED
    BY <2>1, <2>2 DEF EntriesOK
<1>6. CachesOK /\ FindingsFresh /\ EndpointIsFresh
  BY <1>1, <1>2 DEF CachesOK, FindingsFresh, EndpointIsFresh
<1>7. QED
  BY <1>3, <1>4, <1>5, <1>6 DEF FreshInv

-------------------------------------------------------------------------------
\* A step of LAN discovery leaves lookups as they are but for what they count as
\* steady.
LEMMA StillSteadyKeeps ==
  ASSUME Typed, StillSteady
  PROVE  /\ lookup' \in [Users -> Lookups]
         /\ \A u \in Users : /\ lookup'[u].at = lookup[u].at
                             /\ lookup'[u].endpoint = lookup[u].endpoint
                             /\ lookup'[u].since = lookup[u].since
                             /\ lookup'[u].age = lookup[u].age
BY DEF Typed, StillSteady, Lookups

\* The rest of the invariant goes by these fields alone.
LEMMA LookupsKept ==
  ASSUME FreshInv, lookup' \in [Users -> Lookups], now' = now,
         \A u \in Users : /\ lookup'[u].at = lookup[u].at
                          /\ lookup'[u].endpoint = lookup[u].endpoint
                          /\ lookup'[u].since = lookup[u].since
                          /\ lookup'[u].age = lookup[u].age
  PROVE  /\ FindingsFresh' /\ EndpointIsFresh'
         /\ \A u \in Users : lookup'[u].at = "request" =>
              lookup'[u].since <= now' /\ now' <= lookup'[u].since + MESH_TIMEOUT
<1>1. FindingsFresh'
  BY DEF FreshInv, FindingsFresh, FoundFresh, AgeFound
<1>2. EndpointIsFresh'
  BY DEF FreshInv, EndpointIsFresh, AgeFound
<1>3. QED
  BY <1>1, <1>2 DEF FreshInv, WaitsAreBounded

LEMMA VerifyPeerFresh == FreshInv /\ VerifyPeer => FreshInv'
<1> SUFFICES ASSUME FreshInv, VerifyPeer PROVE FreshInv'
  OBVIOUS
<1> USE DiscoveryAssumption
<1>1. /\ StillSteady /\ receiving # Absent /\ receiving' = Absent
      /\ UNCHANGED <<now, static, cleanup_due, mesh_cache, cache>>
  BY DEF VerifyPeer, worldVars
<1>2. Typed' /\ FindingsFresh' /\ EndpointIsFresh'
  BY <1>1, StillSteadyKeeps, LookupsKept DEF FreshInv, Typed
<1>3. WaitsAreBounded'
  BY <1>1, StillSteadyKeeps, LookupsKept DEF FreshInv, Typed, WaitsAreBounded
<1>4. CachesOK'
  BY <1>1 DEF FreshInv, CachesOK, FoundFresh, AgeFound
<1>5. EntriesOK'
  <2>0. PICK q \in Peers : q = receiving.peer
    BY <1>1 DEF FreshInv, WaitsAreBounded
  <2>1. PICK healthy \in BOOLEAN : Discovered(healthy)
    BY DEF VerifyPeer
  <2>2. DOMAIN discovered_peers = Peers
    BY DEF FreshInv, EntriesOK
  <2>3. DOMAIN discovered_peers' = Peers
    BY <2>0, <2>1, <2>2 DEF Discovered
  <2>4. ASSUME NEW p \in Peers, p # q
        PROVE  discovered_peers'[p] = discovered_peers[p]
    BY <2>0, <2>1, <2>2, <2>4 DEF Discovered
  <2>5. /\ discovered_peers'[q].last_seen = receiving.at
        /\ discovered_peers'[q].moved \in BOOLEAN
        /\ discovered_peers'[q].healthy = healthy
        /\ \/ discovered_peers'[q].verified = now
           \/ /\ ~healthy \/ discovered_peers'[q].moved
              /\ \/ discovered_peers'[q].verified = 0
                 \/ discovered_peers[q] # Absent
                    /\ discovered_peers'[q].verified = discovered_peers[q].verified
    BY <2>0, <2>1, <2>2 DEF Discovered
  <2>6. EntryOK(discovered_peers[q])' 
    BY <2>0, <2>5, <2>2, <1>1 DEF FreshInv, Typed, WaitsAreBounded, EntriesOK, EntryOK
  <2>7. ASSUME NEW p \in Peers, p # q, discovered_peers'[p] # Absent
        PROVE  EntryOK(discovered_peers[p])'
    BY <2>4, <2>7, <1>1 DEF FreshInv, EntriesOK, EntryOK
  <2>8. QED
    BY <2>3, <2>6, <2>7 DEF EntriesOK
<1>6. QED
  BY <1>2, <1>3, <1>4, <1>5 DEF FreshInv

LEMMA CleanupPeersFresh == FreshInv /\ CleanupPeers => FreshInv'
<1> SUFFICES ASSUME FreshInv, CleanupPeers PROVE FreshInv'
  OBVIOUS
<1> USE DiscoveryAssumption
<1>1. /\ StillSteady /\ now >= cleanup_due /\ cleanup_due' = cleanup_due + CLEANUP_INTERVAL
      /\ UNCHANGED <<now, static, receiving, mesh_cache, cache>>
  BY DEF CleanupPeers, worldVars
<1>2. Typed' /\ FindingsFresh' /\ EndpointIsFresh'
  BY <1>1, StillSteadyKeeps, LookupsKept DEF FreshInv, Typed
<1>3. WaitsAreBounded'
  BY <1>1, StillSteadyKeeps, LookupsKept DEF FreshInv, Typed, WaitsAreBounded
<1>4. CachesOK'
  BY <1>1 DEF FreshInv, CachesOK, FoundFresh, AgeFound
<1>5. EntriesOK'
  <2>1. DOMAIN discovered_peers' = Peers
    BY DEF CleanupPeers
  <2>2. ASSUME NEW p \in Peers, discovered_peers'[p] # Absent
        PROVE  EntryOK(discovered_peers[p])'
    <3>1. /\ discovered_peers'[p] = discovered_peers[p]
          /\ ~(now - discovered_peers[p].last_seen > PEER_TIMEOUT)
      BY <2>2 DEF CleanupPeers
    <3>2. QED
      BY <2>2, <3>1, <1>1 DEF FreshInv, Typed, WaitsAreBounded, EntriesOK, EntryOK
  <2>3. QED
    BY <2>1, <2>2 DEF EntriesOK
<1>6. QED
  BY <1>2, <1>3, <1>4, <1>5 DEF FreshInv

-------------------------------------------------------------------------------
\* What one user's lookup may become without breaking the invariant.
FreshLookup(l) ==
  /\ l \in Lookups
  /\ l.at = "request" => l.since <= now /\ now <= l.since + MESH_TIMEOUT
  /\ l.at \in {"provider", "store"} => FoundFresh(l.endpoint, now)
  /\ l.at = "done" => \/ l.age <= AgeFound(l.endpoint.source) + ROUTER_TTL - 1
                      \/ l.endpoint.moved

\* A lookup goes on with what is fresh; no table but the caches changes.
LEMMA LookupStep ==
  ASSUME FreshInv, NEW u \in Users, NEW l, FreshLookup(l),
         lookup' = [lookup EXCEPT ![u] = l],
         UNCHANGED <<now, static, receiving, discovered_peers, cleanup_due>>, CachesOK'
  PROVE  FreshInv'
<1>1. lookup' \in [Users -> Lookups]
  BY DEF FreshInv, Typed, FreshLookup
<1>2. \A v \in Users : lookup'[v] = IF v = u THEN l ELSE lookup[v]
  BY DEF FreshInv, Typed
<1>3. Typed'
  BY <1>1 DEF FreshInv, Typed
<1>4. WaitsAreBounded'
  BY <1>2 DEF FreshInv, WaitsAreBounded, FreshLookup
<1>5. EntriesOK'
  BY DEF FreshInv, EntriesOK, EntryOK
<1>6. FindingsFresh'
  BY <1>2 DEF FreshInv, FindingsFresh, FreshLookup, FoundFresh, AgeFound
<1>7. EndpointIsFresh'
  BY <1>2 DEF FreshInv, EndpointIsFresh, FreshLookup, AgeFound
<1>8. QED
  BY <1>3, <1>4, <1>5, <1>6, <1>7 DEF FreshInv

\* Caches that stay are as fresh as they were.
LEMMA CachesKept ==
  FreshInv /\ UNCHANGED <<mesh_cache, cache>> => CachesOK'
BY DEF FreshInv, CachesOK, FoundFresh, AgeFound

\* Going on to a place where nothing has been found or asked for yet.
LEMMA GoOnFresh ==
  ASSUME FreshInv, NEW u \in Users, NEW at \in {"url", "mesh"}, GoOn(u, at), lookupUnchanged
  PROVE  FreshInv'
<1> DEFINE l == [lookup[u] EXCEPT !.at = at]
<1>1. lookup[u] \in Lookups
  BY DEF FreshInv, Typed
<1>2. FreshLookup(l)
  BY <1>1 DEF FreshLookup, Lookups, Places
<1>3. lookup' = [lookup EXCEPT ![u] = l]
  BY DEF GoOn
<1>4. QED
  BY <1>2, <1>3, LookupStep, CachesKept DEF lookupUnchanged, worldVars, lanVars

\* What was found fresh is handed on or stored.
LEMMA FoundKeepsFresh ==
  ASSUME FreshInv, NEW u \in Users, NEW e \in Endpoints, Found(u, e), FoundFresh(e, now),
         UNCHANGED <<now, static, receiving, discovered_peers, cleanup_due>>, CachesOK'
  PROVE  FreshInv'
<1> DEFINE l == [lookup[u] EXCEPT !.at = "store", !.endpoint = e]
<1>1. lookup[u] \in Lookups
  BY DEF FreshInv, Typed
<1>2. FreshLookup(l)
  BY <1>1 DEF FreshLookup, Lookups, Places
<1>3. lookup' = [lookup EXCEPT ![u] = l]
  BY DEF Found
<1>4. QED
  BY <1>2, <1>3, LookupStep

\* Handing out costs what the endpoint was worth when it was found, and the time
\* it has been in the cache.
LEMMA HandOutFresh ==
  ASSUME FreshInv, NEW u \in Users, NEW e \in Endpoints, HandOut(u, e),
         e.moved \/ now - e.known <= AgeFound(e.source) + ROUTER_TTL - 1,
         UNCHANGED <<now, static, receiving, discovered_peers, cleanup_due>>, CachesOK'
  PROVE  FreshInv'
<1> DEFINE l == [Waiting EXCEPT !.at = "done", !.endpoint = e, !.age = now - e.known]
<1>1. now - e.known \in Int
  BY DEF FreshInv, Typed, Endpoints
<1>2. l \in Lookups
  BY <1>1, WaitingTyped DEF Lookups, Places
<1>3. l.at = "done" /\ l.endpoint = e /\ l.age = now - e.known
  BY DEF Waiting
<1>4. FreshLookup(l)
  <2> HIDE DEF l
  <2> QED
    BY <1>2, <1>3 DEF FreshLookup
<1>5. lookup' = [lookup EXCEPT ![u] = l]
  BY DEF HandOut
<1>6. QED
  BY <1>4, <1>5, LookupStep

-------------------------------------------------------------------------------
\* Every step of a lookup.
LEMMA UserStepFresh ==
  ASSUME FreshInv, NEW u \in Users,
         \/ GetEndpoint(u) \/ LocalService(u) \/ CheckTunnel(u)
         \/ CheckLanUrl(u) \/ CheckLanPeer(u) \/ CheckMesh(u)
         \/ MeshResolved(u) \/ MeshFails(u) \/ StoreEndpoint(u)
  PROVE  FreshInv'
<1> USE DiscoveryAssumption
<1>0. lookup[u] \in Lookups /\ now \in Nat
  BY DEF FreshInv, Typed
<1>a. ASSUME NEW s \in Sources
      PROVE  Endpoint(s, now) \in Endpoints /\ FoundFresh(Endpoint(s, now), now)
  <2>1. Endpoint(s, now) \in Endpoints /\ Endpoint(s, now).known = now
    BY <1>0, <1>a, EndpointTyped DEF Endpoint
  <2>2. now - now <= AgeFound(Endpoint(s, now).source)
    BY <1>0, AgeFoundNat
  <2>3. QED
    BY <2>1, <2>2 DEF FoundFresh
<1>b. lookupUnchanged => /\ UNCHANGED <<now, static, receiving, discovered_peers, cleanup_due>>
                         /\ CachesOK'
  BY CachesKept DEF lookupUnchanged, worldVars, lanVars
<1>1. CASE GetEndpoint(u)
  <2>1. lookupUnchanged
    BY <1>1 DEF GetEndpoint
  <2>2. CASE cache # Absent /\ now - cache.cached_at < ROUTER_TTL
    <3>1. HandOut(u, cache.endpoint)
      BY <1>1, <2>2 DEF GetEndpoint
    <3>2. cache.endpoint \in Endpoints
      BY <2>2 DEF FreshInv, CachesOK
    <3>3. AgeFound(cache.endpoint.source) \in Nat
      BY AgeFoundNat
    <3>4. \/ cache.endpoint.moved
          \/ now - cache.endpoint.known <= AgeFound(cache.endpoint.source) + ROUTER_TTL - 1
      BY <1>0, <2>2, <3>2, <3>3 DEF FreshInv, CachesOK, FoundFresh, Endpoints
    <3>5. QED
      BY <1>b, <2>1, <3>1, <3>2, <3>4, HandOutFresh
  <2>3. CASE ~(cache # Absent /\ now - cache.cached_at < ROUTER_TTL)
    <3> DEFINE l == [Waiting EXCEPT !.at = IF static = "Local" THEN "local" ELSE "tunnel",
                                    !.steady = healthy_peers]
    <3>1. lookup' = [lookup EXCEPT ![u] = l]
      BY <1>1, <2>3 DEF GetEndpoint
    <3>2. healthy_peers \subseteq Peers
      BY DEF healthy_peers
    <3>3. FreshLookup(l)
      BY <3>2, WaitingTyped DEF FreshLookup, Lookups, Places
    <3>4. QED
      BY <1>b, <2>1, <3>1, <3>3, LookupStep
  <2>4. QED
    BY <2>2, <2>3
<1>2. CASE LocalService(u)
  BY <1>2, <1>a, <1>b, FoundKeepsFresh DEF LocalService, Sources
<1>3. CASE CheckTunnel(u)
  BY <1>3, <1>a, <1>b, FoundKeepsFresh, GoOnFresh DEF CheckTunnel, Sources
<1>4. CASE CheckLanUrl(u)
  <2>1. CASE GoOn(u, "mesh")
    BY <1>4, <2>1, GoOnFresh DEF CheckLanUrl
  <2>2. ASSUME NEW p \in get_service_provider, discovered_peers[p] # Absent,
               lookup' = [lookup EXCEPT ![u].at = "provider",
                          ![u].endpoint = [source |-> "LanPeer",
                                           known |-> discovered_peers[p].verified,
                                           moved |-> discovered_peers[p].moved]]
        PROVE  FreshInv'
    <3> DEFINE f == discovered_peers[p]
               e == [source |-> "LanPeer", known |-> f.verified, moved |-> f.moved]
               l == [lookup[u] EXCEPT !.at = "provider", !.endpoint = e]
    <3>1. p \in Peers /\ f.healthy
      BY DEF get_service_provider, healthy_peers
    <3>2. EntryOK(f)
      BY <2>2, <3>1 DEF FreshInv, EntriesOK
    <3>3. e \in Endpoints
      BY <3>2 DEF EntryOK, Endpoints, Sources
    <3>4. f.moved \/ now - f.verified <= PEER_TIMEOUT + CLEANUP_INTERVAL
      BY <1>0, <3>1, <3>2 DEF EntryOK, FreshInv, Typed, WaitsAreBounded
    <3>5. FoundFresh(e, now)
      BY <3>4 DEF FoundFresh, AgeFound
    <3>6. FreshLookup(l)
      <4> HIDE DEF e
      <4> QED
        BY <1>0, <3>3, <3>5 DEF FreshLookup, Lookups, Places
    <3>7. lookup' = [lookup EXCEPT ![u] = l]
      BY <2>2
    <3>8. QED
      BY <1>4, <1>b, <3>6, <3>7, LookupStep DEF CheckLanUrl
  <2>3. QED
    BY <1>4, <2>1, <2>2 DEF CheckLanUrl
<1>5. CASE CheckLanPeer(u)
  <2>1. CASE GoOn(u, "mesh")
    BY <1>5, <2>1, GoOnFresh DEF CheckLanPeer
  <2>2. CASE GoOn(u, "store")
    <3> DEFINE l == [lookup[u] EXCEPT !.at = "store"]
    <3>1. FoundFresh(lookup[u].endpoint, now)
      BY <1>5 DEF CheckLanPeer, FreshInv, FindingsFresh
    <3>2. FreshLookup(l)
      BY <1>0, <3>1 DEF FreshLookup, Lookups, Places
    <3>3. lookup' = [lookup EXCEPT ![u] = l]
      BY <2>2 DEF GoOn
    <3>4. QED
      BY <1>5, <1>b, <3>2, <3>3, LookupStep DEF CheckLanPeer
  <2>3. QED
    BY <1>5, <2>1, <2>2 DEF CheckLanPeer
<1>6. CASE CheckMesh(u)
  <2>1. lookupUnchanged
    BY <1>6 DEF CheckMesh
  <2>2. CASE mesh_cache # Absent /\ now - mesh_cache.cached_at < MESH_TTL
    <3> DEFINE e == mesh_cache.endpoint
    <3>1. Found(u, e) /\ e \in Endpoints /\ e.source = "Mesh"
      BY <1>6, <2>2 DEF CheckMesh, FreshInv, CachesOK
    <3>2. now - e.known <= MESH_TIMEOUT + MESH_TTL - 1
      BY <1>0, <2>2, <3>1 DEF FreshInv, CachesOK, Endpoints
    <3>3. FoundFresh(e, now)
      BY <3>1, <3>2 DEF FoundFresh, AgeFound
    <3>4. QED
      BY <1>b, <2>1, <3>1, <3>3, FoundKeepsFresh
  <2>3. CASE ~(mesh_cache # Absent /\ now - mesh_cache.cached_at < MESH_TTL)
    <3> DEFINE l == [lookup[u] EXCEPT !.at = "request", !.since = now]
    <3>1. lookup' = [lookup EXCEPT ![u] = l]
      BY <1>6, <2>3 DEF CheckMesh
    <3>2. l \in Lookups
      <4>1. now \in Int
        BY <1>0
      <4>2. QED
        BY <1>0, <4>1, AskedTyped
    <3>3. l.at = "request" /\ l.since = now
      BY <1>0 DEF Lookups
    <3>4. now <= now + MESH_TIMEOUT
      BY <1>0
    <3>5. FreshLookup(l)
      <4> HIDE DEF l
      <4> QED
        BY <1>0, <3>2, <3>3, <3>4 DEF FreshLookup
    <3>6. QED
      BY <1>b, <2>1, <3>1, <3>5, LookupStep
  <2>4. QED
    BY <2>2, <2>3
<1>7. CASE MeshResolved(u)
  <2> DEFINE e == Endpoint("Mesh", lookup[u].since)
  <2>1. /\ lookup[u].since \in Int
        /\ lookup[u].since <= now /\ now <= lookup[u].since + MESH_TIMEOUT
    BY <1>0, <1>7 DEF MeshResolved, FreshInv, WaitsAreBounded, Lookups
  <2>2. e \in Endpoints /\ e.source = "Mesh" /\ e.known = lookup[u].since
    BY <2>1, EndpointTyped DEF Endpoint, Sources
  <2>3. /\ mesh_cache' = [endpoint |-> e, cached_at |-> now] /\ Found(u, e)
        /\ UNCHANGED <<now, static, receiving, discovered_peers, cleanup_due, cache>>
    BY <1>7 DEF MeshResolved, worldVars, lanVars
  <2> HIDE DEF e
  <2>4. FoundFresh(e, now)
    BY <1>0, <2>1, <2>2 DEF FoundFresh, AgeFound
  <2>5. CachesOK'
    <3>1. mesh_cache'.cached_at = now /\ mesh_cache'.endpoint = e
      BY <2>3
    <3>2. cache' # Absent => /\ cache'.cached_at \in Nat /\ cache'.endpoint \in Endpoints
                             /\ FoundFresh(cache.endpoint, cache.cached_at)'
      BY <2>3 DEF FreshInv, CachesOK, FoundFresh, AgeFound
    <3>3. now - e.known <= MESH_TIMEOUT
      BY <1>0, <2>1, <2>2
    <3>4. QED
      BY <1>0, <2>2, <3>1, <3>2, <3>3 DEF CachesOK
  <2>6. QED
    BY <2>2, <2>3, <2>4, <2>5, FoundKeepsFresh
<1>8. CASE MeshFails(u)
  <2>1. static \in Sources
    BY DEF FreshInv, Typed
  <2>2. QED
    BY <1>8, <1>a, <1>b, <2>1, FoundKeepsFresh DEF MeshFails
<1>9. CASE StoreEndpoint(u)
  <2> DEFINE e == lookup[u].endpoint
  <2>1. e \in Endpoints /\ FoundFresh(e, now)
    BY <1>0, <1>9 DEF StoreEndpoint, FreshInv, FindingsFresh, Lookups
  <2>2. /\ cache' = [endpoint |-> e, cached_at |-> now] /\ HandOut(u, e)
        /\ UNCHANGED <<now, static, receiving, discovered_peers, cleanup_due, mesh_cache>>
    BY <1>9 DEF StoreEndpoint, worldVars, lanVars
  <2> HIDE DEF e
  <2>3. CachesOK'
    <3>1. cache'.cached_at = now /\ cache'.endpoint = e
      BY <2>2
    <3>2. FoundFresh(cache.endpoint, cache.cached_at)'
      BY <2>1, <3>1 DEF FoundFresh, AgeFound
    <3>3. QED
      BY <1>0, <2>1, <2>2, <3>1, <3>2 DEF FreshInv, CachesOK
  <2>4. AgeFound(e.source) \in Nat
    BY AgeFoundNat
  <2>5. e.moved \/ now - e.known <= AgeFound(e.source) + ROUTER_TTL - 1
    BY <1>0, <2>1, <2>4 DEF FoundFresh, Endpoints
  <2>6. QED
    BY <2>1, <2>2, <2>3, <2>5, HandOutFresh
<1>10. QED
  BY <1>1, <1>2, <1>3, <1>4, <1>5, <1>6, <1>7, <1>8, <1>9

\* The time goes on only when no wait is over and no lookup is under way.
LEMMA ElapseFresh == FreshInv /\ Elapse => FreshInv'
<1> SUFFICES ASSUME FreshInv, Elapse PROVE FreshInv'
  OBVIOUS
<1> USE DiscoveryAssumption
<1>1. /\ now' = now + 1 /\ now < cleanup_due
      /\ UNCHANGED <<static, receiving, discovered_peers, cleanup_due, mesh_cache, cache, lookup>>
  BY DEF Elapse, worldVars, lanVars
<1>2. Typed'
  BY <1>1 DEF FreshInv, Typed
<1>3. WaitsAreBounded'
  <2>1. /\ now' <= cleanup_due' /\ cleanup_due' <= now' + CLEANUP_INTERVAL
        /\ receiving' # Absent =>
             /\ receiving'.peer \in Peers /\ receiving'.at \in Nat
             /\ receiving'.at <= now' /\ now' <= receiving'.at + HEALTH_CHECK_TIMEOUT
    BY <1>1 DEF Elapse, FreshInv, Typed, WaitsAreBounded
  <2>2. ASSUME NEW u \in Users, lookup'[u].at = "request"
        PROVE  lookup'[u].since <= now' /\ now' <= lookup'[u].since + MESH_TIMEOUT
    <3>1. lookup[u] \in Lookups /\ now \in Nat /\ lookup'[u] = lookup[u]
      BY <1>1 DEF FreshInv, Typed
    <3>2. lookup[u].since <= now /\ now < lookup[u].since + MESH_TIMEOUT
      BY <1>1, <2>2 DEF Elapse, FreshInv, WaitsAreBounded
    <3>3. QED
      BY <1>1, <3>1, <3>2 DEF Lookups
  <2>3. QED
    BY <2>1, <2>2 DEF WaitsAreBounded
<1>4. EntriesOK' /\ CachesOK'
  BY <1>1 DEF FreshInv, EntriesOK, EntryOK, CachesOK, FoundFresh, AgeFound
<1>5. FindingsFresh'
  BY <1>1 DEF Elapse, FindingsFresh
<1>6. EndpointIsFresh'
  BY <1>1 DEF FreshInv, EndpointIsFresh, AgeFound
<1>7. QED
  BY <1>2, <1>3, <1>4, <1>5, <1>6 DEF FreshInv

\* What the invariant does not look at may change.
LEMMA WorldStepFresh ==
  ASSUME FreshInv,
         UNCHANGED <<now, static, receiving, discovered_peers, cleanup_due, mesh_cache, cache,
                     lookup>>
  PROVE  FreshInv'
<1>1. Typed' /\ WaitsAreBounded'
  BY DEF FreshInv, Typed, WaitsAreBounded
<1>2. EntriesOK' /\ CachesOK'
  BY DEF FreshInv, EntriesOK, EntryOK, CachesOK, FoundFresh, AgeFound
<1>3. FindingsFresh' /\ EndpointIsFresh'
  BY DEF FreshInv, FindingsFresh, EndpointIsFresh, FoundFresh, AgeFound
<1>4. QED
  BY <1>1, <1>2, <1>3 DEF FreshInv

\* A packet's address is checked before it counts.
LEMMA ReceiveFresh == ASSUME FreshInv, NEW p \in Peers, Receive(p) PROVE FreshInv'
<1> USE DiscoveryAssumption
<1>1. /\ receiving' = [peer |-> p, addr |-> packet[p], at |-> now]
      /\ UNCHANGED <<now, static, discovered_peers, cleanup_due, mesh_cache, cache, lookup>>
  BY DEF Receive, worldVars
<1>2. Typed'
  BY <1>1 DEF FreshInv, Typed
<1>3. WaitsAreBounded'
  <2>1. receiving'.peer = p /\ receiving'.at = now
    BY <1>1
  <2>2. QED
    BY <1>1, <2>1 DEF FreshInv, Typed, WaitsAreBounded
<1>4. EntriesOK' /\ CachesOK'
  BY <1>1 DEF FreshInv, EntriesOK, EntryOK, CachesOK, FoundFresh, AgeFound
<1>5. FindingsFresh' /\ EndpointIsFresh'
  BY <1>1 DEF FreshInv, FindingsFresh, EndpointIsFresh, FoundFresh, AgeFound
<1>6. QED
  BY <1>2, <1>3, <1>4, <1>5 DEF FreshInv

\* Every step keeps waits bounded and what is found or cached fresh.
LEMMA FreshInvNext == FreshInv /\ [DiscoveryNext]_discoveryVars => FreshInv'
<1> SUFFICES ASSUME FreshInv, [DiscoveryNext]_discoveryVars PROVE FreshInv'
  OBVIOUS
<1>1. ASSUME NEW p \in Peers, Receive(p) PROVE FreshInv'
  BY <1>1, ReceiveFresh
<1>2. ASSUME NEW p \in Peers, Broadcast(p) \/ PeerChanges(p) PROVE FreshInv'
  BY <1>2, WorldStepFresh DEF Broadcast, PeerChanges, lanVars
<1>3. CASE TunnelChanges
  BY <1>3, WorldStepFresh DEF TunnelChanges, lanVars
<1>4. CASE UNCHANGED discoveryVars
  BY <1>4, WorldStepFresh DEF discoveryVars
<1>5. CASE VerifyPeer \/ CleanupPeers \/ Elapse
  BY <1>5, VerifyPeerFresh, CleanupPeersFresh, ElapseFresh
<1>6. ASSUME NEW u \in Users,
             \/ GetEndpoint(u) \/ LocalService(u) \/ CheckTunnel(u)
             \/ CheckLanUrl(u) \/ CheckLanPeer(u) \/ CheckMesh(u)
             \/ MeshResolved(u) \/ MeshFails(u) \/ StoreEndpoint(u)
      PROVE  FreshInv'
  BY <1>6, UserStepFresh
<1>7. QED
  BY <1>1, <1>2, <1>3, <1>4, <1>5, <1>6 DEF DiscoveryNext

\* Whatever the timeouts and however many peers and users there are, an endpoint the
\* router hands out was confirmed no longer ago than the timeouts and caches it has
\* gone through allow together, unless its peer has moved.
THEOREM EndpointsAreFresh == DiscoverySpec => []EndpointIsFresh
<1>1. FreshInv => EndpointIsFresh
  BY DEF FreshInv
<1>2. QED
  BY <1>1, FreshInvInit, FreshInvNext, PTL DEF DiscoverySpec

-------------------------------------------------------------------------------
(* The peers that have been healthy since a lookup began are healthy.      *)

SteadyInv ==
  /\ \A u \in Users : lookup[u].steady \subseteq healthy_peers
  /\ SteadyPeerIsUsed

LEMMA SteadyInvInit == DiscoveryInit => SteadyInv
BY DEF DiscoveryInit, SteadyInv, SteadyPeerIsUsed, Waiting

\* The peers' entries change: what is no longer healthy is no longer steady.
LEMMA StillSteadyIsHealthy ==
  ASSUME FreshInv, SteadyInv, StillSteady
  PROVE  SteadyInv'
<1>1. ASSUME NEW u \in Users
      PROVE  /\ lookup'[u].at = lookup[u].at
             /\ lookup'[u].steady = { p \in lookup[u].steady : /\ discovered_peers'[p] # Absent
                                                              /\ discovered_peers'[p].healthy }
  BY DEF StillSteady, FreshInv, Typed, Lookups
<1>2. \A u \in Users : lookup'[u].steady \subseteq healthy_peers'
  BY <1>1 DEF SteadyInv, healthy_peers
<1>3. QED
  BY <1>1, <1>2 DEF SteadyInv, SteadyPeerIsUsed

\* One lookup goes on and the entries stay as they are.
LEMMA LookupStepSteady ==
  ASSUME FreshInv, SteadyInv, NEW u \in Users, NEW l,
         lookup' = [lookup EXCEPT ![u] = l], discovered_peers' = discovered_peers,
         l.steady \subseteq healthy_peers,
         l.at \in {"mesh", "request"} => l.steady = {}
  PROVE  SteadyInv'
<1>1. \A v \in Users : lookup'[v] = IF v = u THEN l ELSE lookup[v]
  BY DEF FreshInv, Typed
<1>2. QED
  BY <1>1 DEF SteadyInv, SteadyPeerIsUsed, healthy_peers

\* A lookup's steps leave the peers alone.
LEMMA UserStepSteady ==
  ASSUME FreshInv, SteadyInv, NEW u \in Users,
         \/ GetEndpoint(u) \/ LocalService(u) \/ CheckTunnel(u)
         \/ CheckLanUrl(u) \/ CheckLanPeer(u) \/ CheckMesh(u)
         \/ MeshResolved(u) \/ MeshFails(u) \/ StoreEndpoint(u)
  PROVE  SteadyInv'
<1>0. lookup[u] \in Lookups /\ lookup[u].steady \subseteq healthy_peers
  BY DEF FreshInv, Typed, SteadyInv
<1>1. discovered_peers' = discovered_peers
  BY DEF GetEndpoint, LocalService, CheckTunnel, CheckLanUrl, CheckLanPeer, CheckMesh,
         MeshResolved, MeshFails, StoreEndpoint, lookupUnchanged, lanVars
<1>2. ASSUME NEW e, Found(u, e) PROVE SteadyInv'
  <2> DEFINE l == [lookup[u] EXCEPT !.at = "store", !.endpoint = e]
  <2>1. l.at = "store" /\ l.steady = lookup[u].steady /\ lookup' = [lookup EXCEPT ![u] = l]
    BY <1>0, <1>2 DEF Found, Lookups
  <2> HIDE DEF l
  <2>2. QED
    BY <1>0, <1>1, <2>1, LookupStepSteady
<1>3. ASSUME NEW e, HandOut(u, e) PROVE SteadyInv'
  <2> DEFINE l == [Waiting EXCEPT !.at = "done", !.endpoint = e, !.age = now - e.known]
  <2>1. l.at = "done" /\ l.steady = {} /\ lookup' = [lookup EXCEPT ![u] = l]
    BY <1>3 DEF HandOut, Waiting
  <2> HIDE DEF l
  <2>2. QED
    BY <1>1, <2>1, LookupStepSteady
<1>4. ASSUME NEW at \in {"url", "mesh", "store"}, GoOn(u, at),
             at = "mesh" => lookup[u].steady = {}
      PROVE  SteadyInv'
  <2> DEFINE l == [lookup[u] EXCEPT !.at = at]
  <2>1. l.at = at /\ l.steady = lookup[u].steady /\ lookup' = [lookup EXCEPT ![u] = l]
    BY <1>0, <1>4 DEF GoOn, Lookups
  <2> HIDE DEF l
  <2>2. QED
    BY <1>0, <1>1, <1>4, <2>1, LookupStepSteady
<1>5. CASE GetEndpoint(u)
  <2>1. CASE HandOut(u, cache.endpoint)
    BY <1>3, <2>1
  <2>2. CASE lookup' = [lookup EXCEPT ![u] =
                     [Waiting EXCEPT !.at = IF static = "Local" THEN "local" ELSE "tunnel",
                                     !.steady = healthy_peers]]
    <3> DEFINE l == [Waiting EXCEPT !.at = IF static = "Local" THEN "local" ELSE "tunnel",
                                    !.steady = healthy_peers]
    <3>1. l.at \in {"local", "tunnel"} /\ l.steady = healthy_peers
      BY DEF Waiting
    <3>2. lookup' = [lookup EXCEPT ![u] = l]
      BY <2>2
    <3> HIDE DEF l
    <3>3. QED
      BY <1>1, <3>1, <3>2, LookupStepSteady
  <2>3. QED
    BY <1>5, <2>1, <2>2 DEF GetEndpoint
<1>6. CASE LocalService(u) \/ MeshResolved(u) \/ MeshFails(u)
  BY <1>2, <1>6 DEF LocalService, MeshResolved, MeshFails
<1>7. CASE CheckTunnel(u)
  BY <1>2, <1>4, <1>7 DEF CheckTunnel
<1>8. CASE CheckLanUrl(u)
  <2>1. CASE get_service_provider = {} /\ GoOn(u, "mesh")
    BY <1>0, <1>4, <2>1 DEF get_service_provider
  <2>2. ASSUME NEW p \in get_service_provider,
               lookup' = [lookup EXCEPT ![u].at = "provider",
                          ![u].endpoint = [source |-> "LanPeer",
                                           known |-> discovered_peers[p].verified,
                                           moved |-> discovered_peers[p].moved]]
        PROVE  SteadyInv'
    <3> DEFINE e == [source |-> "LanPeer", known |-> discovered_peers[p].verified,
                     moved |-> discovered_peers[p].moved]
               l == [lookup[u] EXCEPT !.at = "provider", !.endpoint = e]
    <3>1. l.at = "provider" /\ l.steady = lookup[u].steady
      BY <1>0 DEF Lookups
    <3>2. lookup' = [lookup EXCEPT ![u] = l]
      BY <2>2
    <3> HIDE DEF l
    <3>3. QED
      BY <1>0, <1>1, <3>1, <3>2, LookupStepSteady
  <2>3. QED
    BY <1>8, <2>1, <2>2 DEF CheckLanUrl
<1>9. CASE CheckLanPeer(u)
  <2>1. CASE get_service_provider = {} /\ GoOn(u, "mesh")
    BY <1>0, <1>4, <2>1 DEF get_service_provider
  <2>2. CASE GoOn(u, "store")
    BY <1>4, <2>2
  <2>3. \A p \in get_service_provider : discovered_peers[p].healthy
    BY DEF get_service_provider, healthy_peers
  <2>4. QED
    BY <1>9, <2>1, <2>2, <2>3 DEF CheckLanPeer
<1>10. CASE CheckMesh(u)
  <2>1. CASE Found(u, mesh_cache.endpoint)
    BY <1>2, <2>1
  <2>2. CASE lookup' = [lookup EXCEPT ![u].at = "request", ![u].since = now]
    <3> DEFINE l == [lookup[u] EXCEPT !.at = "request", !.since = now]
    <3>1. l.at = "request" /\ l.steady = lookup[u].steady
      BY <1>0 DEF Lookups
    <3>2. lookup[u].steady = {}
      BY <1>10 DEF CheckMesh, SteadyInv, SteadyPeerIsUsed
    <3>3. lookup' = [lookup EXCEPT ![u] = l]
      BY <2>2
    <3> HIDE DEF l
    <3>4. QED
      BY <1>0, <1>1, <3>1, <3>2, <3>3, LookupStepSteady
  <2>3. QED
    BY <1>10, <2>1, <2>2 DEF CheckMesh
<1>11. CASE StoreEndpoint(u)
  BY <1>3, <1>11 DEF StoreEndpoint
<1>12. QED
  BY <1>5, <1>6, <1>7, <1>8, <1>9, <1>10, <1>11

LEMMA SteadyInvNext == FreshInv /\ SteadyInv /\ [DiscoveryNext]_discoveryVars => SteadyInv'
<1> SUFFICES ASSUME FreshInv, SteadyInv, [DiscoveryNext]_discoveryVars PROVE SteadyInv'
  OBVIOUS
<1>1. CASE UNCHANGED <<lookup, discovered_peers>>
  BY <1>1 DEF SteadyInv, SteadyPeerIsUsed, healthy_peers
<1>2. ASSUME NEW p \in Peers, Receive(p) \/ Broadcast(p) \/ PeerChanges(p) PROVE SteadyInv'
  BY <1>1, <1>2 DEF Receive, Broadcast, PeerChanges, lanVars
<1>3. CASE TunnelChanges \/ Elapse \/ UNCHANGED discoveryVars
  BY <1>1, <1>3 DEF TunnelChanges, Elapse, lanVars, discoveryVars
<1>4. CASE VerifyPeer \/ CleanupPeers
  BY <1>4, StillSteadyIsHealthy DEF VerifyPeer, CleanupPeers
<1>5. ASSUME NEW u \in Users,
             \/ GetEndpoint(u) \/ LocalService(u) \/ CheckTunnel(u)
             \/ CheckLanUrl(u) \/ CheckLanPeer(u) \/ CheckMesh(u)
             \/ MeshResolved(u) \/ MeshFails(u) \/ StoreEndpoint(u)
      PROVE  SteadyInv'
  BY <1>5, UserStepSteady
<1>6. QED
  BY <1>2, <1>3, <1>4, <1>5 DEF DiscoveryNext

\* Whatever the peers and users, a lookup that has gone past the LAN began when no
\* peer was healthy that has stayed so, although resolve_endpoint looks twice.
THEOREM SteadyPeersAreUsed == DiscoverySpec => []SteadyPeerIsUsed
<1>1. SteadyInv => SteadyPeerIsUsed
  BY DEF SteadyInv
<1>2. QED
  BY <1>1, FreshInvInit, FreshInvNext, SteadyInvInit, SteadyInvNext, PTL DEF DiscoverySpec

-------------------------------------------------------------------------------
(* LogStream: StreamKeepsOrder                                             *)

StreamTypeOK ==
  /\ sent \in Nat
  /\ reader \in [Readers -> {"away", "open", "ended", "refused"}]
  /\ next \in [Readers -> Nat] /\ first \in [Readers -> Nat]
  /\ got \in [Readers -> Seq(Nat)]

\* A stream has passed on lines in order, all below the one it receives next,
\* and of those below that one it misses none that the channel still keeps.
StreamSoFar(r) ==
  /\ first[r] <= next[r] /\ next[r] <= sent + 1
  /\ \A i \in 1..Len(got[r]) : got[r][i] < next[r]
  /\ \A i \in 1..(Len(got[r]) - 1) : got[r][i] < got[r][i + 1]
  /\ \A n \in first[r]..(next[r] - 1) : n > sent - Capacity => Contains(got[r], n)
  /\ reader[r] = "away" => got[r] = <<>>

\* A stream that ended did so after the last line there will ever be: no sender
\* is left to log another one.
EndedAfterLast == \A r \in Readers : reader[r] = "ended" => next[r] = sent + 1 /\ Closed

StreamInv == StreamTypeOK /\ (\A r \in Readers : StreamSoFar(r)) /\ EndedAfterLast

LEMMA StreamInvInit == LogInit => StreamInv
<1> SUFFICES ASSUME LogInit PROVE StreamInv
  OBVIOUS
<1>1. StreamTypeOK
  BY DEF LogInit, StreamTypeOK
<1>2. \A r \in Readers : StreamSoFar(r)
  <2> SUFFICES ASSUME NEW r \in Readers PROVE StreamSoFar(r)
    OBVIOUS
  <2>1. sent = 0 /\ first[r] = 1 /\ next[r] = 1 /\ got[r] = <<>>
    BY DEF LogInit
  <2> QED BY <2>1 DEF StreamSoFar
<1>3. EndedAfterLast
  BY DEF LogInit, EndedAfterLast
<1> QED BY <1>1, <1>2, <1>3 DEF StreamInv

\* A step that leaves the lines and the streams alone; the task may have moved on.
LEMMA StreamsAlone ==
  ASSUME StreamInv, UNCHANGED <<sent, readerVars>>, Closed => Closed'
  PROVE  StreamInv'
<1>1. StreamTypeOK'
  BY DEF StreamInv, StreamTypeOK, readerVars
<1>2. (\A r \in Readers : StreamSoFar(r))'
  BY Zenon DEF StreamInv, StreamSoFar, readerVars
<1>3. EndedAfterLast'
  BY Zenon DEF StreamInv, EndedAfterLast, readerVars
<1> QED BY <1>1, <1>2, <1>3 DEF StreamInv

\* A new line may push the oldest one out of the channel.
LEMMA StreamLog == ASSUME StreamInv, log PROVE StreamInv'
<1>1. StreamTypeOK'
  BY DEF StreamInv, StreamTypeOK, log, readerVars
<1>2. ASSUME NEW r \in Readers PROVE StreamSoFar(r)'
  <2>1. /\ sent' = sent + 1 /\ sent \in Nat /\ Capacity \in Nat
        /\ first' = first /\ next' = next /\ got' = got /\ reader' = reader
    BY LogStreamAssumption DEF StreamInv, StreamTypeOK, log, readerVars
  <2>2. first[r] \in Nat /\ next[r] \in Nat
    BY DEF StreamInv, StreamTypeOK
  <2>3. ASSUME NEW n \in first[r]..(next[r] - 1), n > sent + 1 - Capacity
        PROVE  Contains(got[r], n)
    <3>1. n > sent - Capacity
      BY <2>1, <2>2, <2>3
    <3> QED BY <3>1 DEF StreamInv, StreamSoFar
  <2>4. StreamSoFar(r)
    BY DEF StreamInv
  <2> QED BY <2>1, <2>2, <2>3, <2>4 DEF StreamSoFar
<1>3. EndedAfterLast'
  <2>1. ~Closed
    BY DEF log, Closed
  <2> QED BY <2>1, Zenon DEF StreamInv, EndedAfterLast, log, readerVars
<1> QED BY <1>1, <1>2, <1>3, Zenon DEF StreamInv

\* The facts about one stream that a step of it rests on.
LEMMA StreamFacts ==
  ASSUME StreamInv, NEW r \in Readers
  PROVE  /\ sent \in Nat /\ next[r] \in Nat /\ first[r] \in Nat /\ got[r] \in Seq(Nat)
         /\ Capacity \in Nat \ {0}
         /\ StreamSoFar(r)
BY LogStreamAssumption DEF StreamInv, StreamTypeOK

\* A step of one stream, which the others and the task do not notice.
LEMMA OneStream ==
  ASSUME StreamInv, NEW r \in Readers, StreamTypeOK', StreamSoFar(r)',
         UNCHANGED <<sent, deployVars>>,
         \A o \in Readers \ {r} : /\ reader'[o] = reader[o] /\ next'[o] = next[o]
                                  /\ first'[o] = first[o] /\ got'[o] = got[o],
         reader'[r] = "ended" => next'[r] = sent + 1 /\ Closed
  PROVE  StreamInv'
<1>1. ASSUME NEW o \in Readers, o # r PROVE StreamSoFar(o)'
  <2>1. StreamSoFar(o)
    BY DEF StreamInv
  <2>2. /\ reader'[o] = reader[o] /\ next'[o] = next[o] /\ sent' = sent
        /\ first'[o] = first[o] /\ got'[o] = got[o]
    BY <1>1
  <2> QED BY <2>1, <2>2 DEF StreamSoFar
<1>2. \A o \in Readers : StreamSoFar(o)'
  BY <1>1
<1>3. Closed' = Closed
  BY Zenon DEF Closed, deployVars
<1>4. EndedAfterLast'
  BY <1>3 DEF StreamInv, EndedAfterLast
<1> QED BY <1>2, <1>4, Zenon DEF StreamInv

\* A reader begins with the next line.
LEMMA StreamSubscribe ==
  ASSUME StreamInv, NEW r \in Readers, subscribe(r) PROVE StreamInv'
<1>1. StreamTypeOK'
  BY DEF StreamInv, StreamTypeOK, subscribe
<1>2. /\ next'[r] = sent + 1 /\ first'[r] = sent + 1 /\ sent' = sent
      /\ got'[r] = got[r] /\ reader[r] = "away"
      /\ reader'[r] \in {"open", "refused"}
  BY DEF StreamInv, StreamTypeOK, subscribe
<1>3. got[r] = <<>>
  BY <1>2 DEF StreamInv, StreamSoFar
<1>4. StreamSoFar(r)'
  BY <1>2, <1>3, StreamFacts DEF StreamSoFar
<1>5. \A o \in Readers \ {r} : /\ reader'[o] = reader[o] /\ next'[o] = next[o]
                               /\ first'[o] = first[o] /\ got'[o] = got[o]
  BY DEF StreamInv, StreamTypeOK, subscribe
<1>6. UNCHANGED <<sent, deployVars>> /\ reader'[r] # "ended"
  BY <1>2 DEF subscribe
<1> QED BY <1>1, <1>4, <1>5, <1>6, OneStream

\* A reader that lagged goes on with the oldest line kept.
LEMMA StreamLagged ==
  ASSUME StreamInv, NEW r \in Readers, Lagged(r) PROVE StreamInv'
<1>1. StreamTypeOK'
  BY LogStreamAssumption DEF StreamInv, StreamTypeOK, Lagged
<1>2. /\ next'[r] = sent - Capacity + 1 /\ first'[r] = first[r] /\ sent' = sent
      /\ got'[r] = got[r] /\ reader'[r] = reader[r] /\ reader[r] = "open"
      /\ sent - next[r] >= Capacity
  BY DEF StreamInv, StreamTypeOK, Lagged
<1>3. StreamSoFar(r)'
  <2>1. \A i \in 1..Len(got[r]) : got[r][i] \in Nat
    BY StreamFacts
  <2> QED BY <1>2, <2>1, StreamFacts DEF StreamSoFar
<1>5. \A o \in Readers \ {r} : /\ reader'[o] = reader[o] /\ next'[o] = next[o]
                               /\ first'[o] = first[o] /\ got'[o] = got[o]
  BY DEF StreamInv, StreamTypeOK, Lagged
<1>6. UNCHANGED <<sent, deployVars>> /\ reader'[r] # "ended"
  BY <1>2 DEF Lagged
<1> QED BY <1>1, <1>3, <1>5, <1>6, OneStream

\* A reader receives the next line.
LEMMA StreamRecv ==
  ASSUME StreamInv, NEW r \in Readers, recv(r) PROVE StreamInv'
<1>1. StreamTypeOK'
  BY DEF StreamInv, StreamTypeOK, recv
<1>2. /\ next'[r] = next[r] + 1 /\ first'[r] = first[r] /\ sent' = sent
      /\ got'[r] = Append(got[r], next[r]) /\ reader'[r] = reader[r] /\ reader[r] = "open"
      /\ next[r] <= sent
  BY DEF StreamInv, StreamTypeOK, recv
<1>3. StreamSoFar(r)'
  <2> DEFINE g == got[r]
             h == Append(g, next[r])
  <2>1. /\ Len(g) \in Nat /\ Len(h) = Len(g) + 1 /\ h[Len(g) + 1] = next[r]
        /\ \A i \in 1..Len(g) : h[i] = g[i] /\ g[i] \in Nat
    BY StreamFacts
  <2>2. \A i \in 1..Len(h) : h[i] < next[r] + 1
    <3> SUFFICES ASSUME NEW i \in 1..Len(h) PROVE h[i] < next[r] + 1
      OBVIOUS
    <3>1. i \in 1..Len(g) \/ i = Len(g) + 1
      BY <2>1
    <3>2. \A j \in 1..Len(g) : g[j] < next[r]
      BY StreamFacts DEF StreamSoFar
    <3>3. next[r] \in Nat
      BY StreamFacts
    <3> HIDE DEF h, g
    <3> QED BY <2>1, <3>1, <3>2, <3>3
  <2>3. \A i \in 1..(Len(h) - 1) : h[i] < h[i + 1]
    <3> SUFFICES ASSUME NEW i \in 1..(Len(h) - 1) PROVE h[i] < h[i + 1]
      OBVIOUS
    <3>1. i \in 1..Len(g) /\ (i \in 1..(Len(g) - 1) \/ i = Len(g))
      BY <2>1
    <3>2. CASE i = Len(g)
      <4> HIDE DEF h
      <4> QED BY <2>1, <3>1, <3>2, StreamFacts DEF StreamSoFar
    <3>3. CASE i \in 1..(Len(g) - 1)
      <4>1. i + 1 \in 1..Len(g)
        BY <3>3, <2>1
      <4> HIDE DEF h
      <4> QED BY <2>1, <3>1, <3>3, <4>1, StreamFacts DEF StreamSoFar
    <3> QED BY <3>1, <3>2, <3>3
  <2>4. ASSUME NEW n \in first[r]..next[r], n > sent - Capacity PROVE Contains(h, n)
    <3>1. CASE n = next[r]
      <4>1. Len(g) + 1 \in 1..Len(h)
        BY <2>1
      <4> HIDE DEF h, g
      <4> QED BY <2>1, <3>1, <4>1 DEF Contains
    <3>2. CASE n # next[r]
      <4>1. n \in first[r]..(next[r] - 1)
        BY <3>2, StreamFacts
      <4>2. PICK i \in 1..Len(g) : g[i] = n
        BY <2>4, <4>1, StreamFacts DEF StreamSoFar, Contains
      <4>3. i \in 1..Len(h) /\ h[i] = n
        BY <2>1, <4>2
      <4> HIDE DEF h
      <4> QED BY <4>3 DEF Contains
    <3> QED BY <3>1, <3>2
  <2>5. first[r] <= next[r] + 1 /\ next[r] + 1 <= sent + 1 /\ (next[r] + 1) - 1 = next[r]
    BY <1>2, StreamFacts DEF StreamSoFar
  <2> HIDE DEF h
  <2>6. got'[r] = h
    BY <1>2 DEF h
  <2> QED BY <1>2, <2>2, <2>3, <2>4, <2>5, <2>6 DEF StreamSoFar
<1>5. \A o \in Readers \ {r} : /\ reader'[o] = reader[o] /\ next'[o] = next[o]
                               /\ first'[o] = first[o] /\ got'[o] = got[o]
  BY DEF StreamInv, StreamTypeOK, recv
<1>6. UNCHANGED <<sent, deployVars>> /\ reader'[r] # "ended"
  BY <1>2 DEF recv
<1> QED BY <1>1, <1>3, <1>5, <1>6, OneStream

\* A stream ends after the last line, or is dropped.
LEMMA StreamLeaves ==
  ASSUME StreamInv, NEW r \in Readers, StreamClosed(r) \/ HangUp(r) PROVE StreamInv'
<1>1. StreamTypeOK'
  BY DEF StreamInv, StreamTypeOK, StreamClosed, HangUp
<1>2. /\ next'[r] = next[r] /\ first'[r] = first[r] /\ sent' = sent /\ got'[r] = got[r]
      /\ reader'[r] # "away"
  BY DEF StreamInv, StreamTypeOK, StreamClosed, HangUp
<1>3. StreamSoFar(r)'
  BY <1>2, StreamFacts DEF StreamSoFar
<1>4. \A o \in Readers \ {r} : /\ reader'[o] = reader[o] /\ next'[o] = next[o]
                               /\ first'[o] = first[o] /\ got'[o] = got[o]
  BY DEF StreamInv, StreamTypeOK, StreamClosed, HangUp
<1>5. UNCHANGED <<sent, deployVars>>
  BY DEF StreamClosed, HangUp
<1>6. reader'[r] = "ended" => next[r] > sent /\ Closed
  BY DEF StreamInv, StreamTypeOK, StreamClosed, HangUp
<1>7. reader'[r] = "ended" => next'[r] = sent + 1 /\ Closed
  BY <1>2, <1>6, StreamFacts DEF StreamSoFar
<1> QED BY <1>1, <1>3, <1>4, <1>5, <1>7, OneStream

LEMMA StreamInvNext == StreamInv /\ [LogNext]_logVars => StreamInv'
<1> SUFFICES ASSUME StreamInv, [LogNext]_logVars PROVE StreamInv'
  OBVIOUS
<1>1. CASE log
  BY <1>1, StreamLog
<1>2. CASE FinishTask \/ LogTaskStep \/ cleanup_expired \/ UNCHANGED logVars
  <2>1. UNCHANGED <<sent, readerVars>>
    BY <1>2 DEF FinishTask, LogTaskStep, cleanup_expired, FinishHistory, LogHub_finish,
                ContextDropped, WriterEnds, logVars, readerVars
  <2>2. Closed => Closed'
    BY <1>2 DEF FinishTask, LogTaskStep, cleanup_expired, FinishHistory, LogHub_finish,
                ContextDropped, WriterEnds, logVars, Closed
  <2> QED BY <2>1, <2>2, StreamsAlone
<1>3. ASSUME NEW r \in Readers, subscribe(r) \/ StreamStep(r) \/ HangUp(r) PROVE StreamInv'
  BY <1>3, StreamSubscribe, StreamLagged, StreamRecv, StreamLeaves DEF StreamStep
<1> QED BY <1>1, <1>2, <1>3 DEF LogNext

\* A stream of a deployment's log passes lines on in order and once, and when it
\* ends it has passed on every line since it began that the channel still kept,
\* for any number of readers and output tasks and any capacity of the channel.
THEOREM StreamsKeepOrder == LogSpec => []StreamKeepsOrder
<1>1. StreamInv => StreamKeepsOrder
  <2> SUFFICES ASSUME StreamInv, NEW r \in Readers
               PROVE  /\ \A i \in 1..(Len(got[r]) - 1) : got[r][i] < got[r][i + 1]
                      /\ reader[r] = "ended" =>
                           \A n \in first[r]..sent : n > sent - Capacity => Contains(got[r], n)
    BY DEF StreamKeepsOrder
  <2>1. reader[r] = "ended" => next[r] = sent + 1
    BY DEF StreamInv, EndedAfterLast
  <2>2. next[r] = sent + 1 => next[r] - 1 = sent
    BY StreamFacts
  <2> QED BY <2>1, <2>2, StreamFacts DEF StreamSoFar
<1>2. QED
  BY <1>1, StreamInvInit, StreamInvNext, PTL DEF LogSpec

===============================================================================
