------------------------------ MODULE LogReporter ------------------------------
(***************************************************************************)
(* The log reporter (services/log_reporter.rs): once per interval it sends *)
(* the agent's journal since the last report to the Deploy Center.  Time   *)
(* is an instant, counted in parts of a second.  journalctl is asked with  *)
(* a text: whole seconds of UTC, without a zone, which it reads as the     *)
(* local time of the host.                                                 *)
(***************************************************************************)
EXTENDS Integers, Sequences, FiniteSets

CONSTANTS
  PartsPerSecond,
  UtcOffset,            \* local time - UTC, in parts of a second
  REPORT_INTERVAL,      \* in parts of a second
  MAX_LINES_PER_BATCH,
  MaxClock, MaxJournal,   \* bounds on the time and the lines of the journal
  Never                 \* an Option that is None

ASSUME ReporterAssumption ==
  /\ {PartsPerSecond, REPORT_INTERVAL, MAX_LINES_PER_BATCH} \subseteq Nat \ {0}
  /\ {MaxClock, MaxJournal} \subseteq Nat
  /\ UtcOffset \in Int
  /\ Never \notin Int

VARIABLES
  clock,        \* the time
  journal,      \* when each line was written
  due,          \* the next tick of the interval
  last_report,
  report,       \* the report under way: where it is, its `now` and its lines
  from,         \* the since of the first report that counted, or Never
  reported,     \* the lines the Deploy Center has
  passedOver    \* lines left out of a batch, or not read, when last_report moved on

reporterVars == <<clock, journal, due, last_report, report, from, reported, passedOver>>

Idle == [at |-> "sleep", now |-> 0, since |-> 0, lines |-> {}, rest |-> {}]

\* The first tick of the interval is awaited before the loop.
ReporterInit ==
  /\ clock = 0 /\ journal = <<>>
  /\ due = REPORT_INTERVAL
  /\ last_report = Never /\ from = Never
  /\ report = Idle
  /\ reported = {} /\ passedOver = {}

-------------------------------------------------------------------------------
\* last_report is set; until it has been, every report looks one interval back.
Moves(t) ==
  /\ last_report' = t
  /\ from' = IF from = Never THEN report.since ELSE from
  /\ report' = Idle

\* The time of the report is taken when it has been sent; a slip no definition uses.
ReportSent_Late ==
  /\ report.at = "send"
  /\ reported' = reported \cup report.lines
  /\ passedOver' = passedOver \cup report.rest
  /\ Moves(clock)
  /\ UNCHANGED <<clock, journal, due>>

-------------------------------------------------------------------------------
BeginReport ==
  /\ report.at = "sleep" /\ clock >= due
  /\ due' = due + REPORT_INTERVAL
  /\ report' = [Idle EXCEPT !.at = "fetch", !.now = clock,
                            !.since = IF last_report = Never
                                      THEN clock - REPORT_INTERVAL ELSE last_report]
  /\ UNCHANGED <<clock, journal, last_report, from, reported, passedOver>>

\* The instant that --since means when it is written for the instant t.
Since(t) == (t \div PartsPerSecond) * PartsPerSecond - UtcOffset

SinceLines == { i \in 1..Len(journal) : journal[i] >= Since(report.since) }

\* -n: the last lines of them.
Newest(lines) == { i \in lines : Cardinality({ j \in lines : j > i }) < MAX_LINES_PER_BATCH }

\* Without lines there is nothing to send, but the time moves on.
FetchLogs ==
  /\ report.at = "fetch"
  /\ IF SinceLines = {}
     THEN Moves(report.now)
     ELSE /\ report' = [report EXCEPT !.at = "send", !.lines = Newest(SinceLines),
                                      !.rest = SinceLines \ Newest(SinceLines)]
          /\ UNCHANGED <<last_report, from>>
  /\ UNCHANGED <<clock, journal, due, reported, passedOver>>

\* journalctl fails or takes 10 s: taken for an empty journal.
FetchFails ==
  /\ report.at = "fetch"
  /\ passedOver' = passedOver \cup SinceLines
  /\ Moves(report.now)
  /\ UNCHANGED <<clock, journal, due, reported>>

ReportSent ==
  /\ report.at = "send"
  /\ reported' = reported \cup report.lines
  /\ passedOver' = passedOver \cup report.rest
  /\ Moves(report.now)
  /\ UNCHANGED <<clock, journal, due>>

\* Refused or not delivered, or accepted and the answer lost: tried again with
\* the next report.
ReportFails ==
  /\ report.at = "send"
  /\ reported' \in {reported, reported \cup report.lines}
  /\ report' = Idle
  /\ UNCHANGED <<clock, journal, due, last_report, from, passedOver>>

WriteLine ==
  /\ Len(journal) < MaxJournal
  /\ journal' = Append(journal, clock)
  /\ UNCHANGED <<clock, due, last_report, report, from, reported, passedOver>>

Tick ==
  /\ clock < MaxClock
  /\ clock' = clock + 1
  /\ UNCHANGED <<journal, due, last_report, report, from, reported, passedOver>>

ReporterNext ==
  BeginReport \/ FetchLogs \/ FetchFails \/ ReportSent \/ ReportFails \/ WriteLine \/ Tick

ReporterSpec == ReporterInit /\ [][ReporterNext]_reporterVars

-------------------------------------------------------------------------------
\* Every line written since the first report that counted and before the time
\* the next one will ask from is at the Deploy Center, unless a batch was too
\* small for it or the journal could not be read.
JournalIsReported ==
  last_report # Never =>
    \A i \in 1..Len(journal) :
      journal[i] \in from .. (last_report - 1) => i \in reported \cup passedOver

\* On a host whose local time is UTC or ahead of it no line falls between two
\* reports, however long one takes and however many fail.  (West of UTC the
\* reporter asks for lines of the future and all fall between.)
NoLineBetweenReports == UtcOffset >= 0 => JournalIsReported
===============================================================================
