------------------------------- MODULE LogStream -------------------------------
(***************************************************************************)
(* The log lines of one deployment on their way to the readers of          *)
(* GET /logs/:task_id/stream: DeployContext::log, LogHub, the order of     *)
(* DeployContext::finish and the stream of api/deploy.rs.                  *)
(*                                                                         *)
(* tokio's broadcast channel is modelled from how the code uses it: a      *)
(* receiver starts with the next line, one that falls more than Capacity   *)
(* lines behind skips to the oldest line kept, and the channel is closed   *)
(* once every sender is gone.  The senders are the hub's, the strategy's   *)
(* context and the clones in the tasks that copy a command's output.       *)
(***************************************************************************)
EXTENDS Integers, Sequences, FiniteSets, SequencesExt

CONSTANTS
  Readers,
  Writers,       \* the tasks that copy the stdout and the stderr of a command
  Capacity,      \* LOG_CHANNEL_CAPACITY, 256 in the code
  MaxLines       \* bound on the lines logged

ASSUME LogStreamAssumption == Capacity \in Nat \ {0} /\ MaxLines \in Nat

VARIABLES
  sent,       \* lines broadcast so far: line n is the n-th
  channel,    \* is the task's channel in the hub?
  stage,      \* how far the deployment is
  writers,    \* the output tasks that still hold a sender
  stored,     \* where the task is: "active", "moving" or "history"
  reader,     \* each stream: "away", "open", "ended" or "refused"
  next,       \* the line a stream receives next
  got,        \* the lines it has passed on
  first,      \* the line it began with
  told        \* has it passed on the complete event?

logVars == <<sent, channel, stage, writers, stored, reader, next, got, first, told>>

LogInit ==
  /\ sent = 0
  /\ channel = TRUE
  /\ stage = "running"
  /\ writers = Writers
  /\ stored = "active"
  /\ reader = [r \in Readers |-> "away"]
  /\ next = [r \in Readers |-> 1]
  /\ got = [r \in Readers |-> <<>>]
  /\ first = [r \in Readers |-> 1]
  /\ told = [r \in Readers |-> FALSE]

deployVars == <<channel, stage, writers, stored>>
readerVars == <<reader, next, got, first, told>>

Closed == ~channel /\ stage = "returned" /\ writers = {}

\* DeployContext::log, by the strategy or by an output task.  A task that was
\* aborted may still log until the abort reaches it.
log ==
  /\ stage = "running" \/ writers # {}
  /\ sent < MaxLines
  /\ sent' = sent + 1
  /\ UNCHANGED <<deployVars, readerVars>>

\* An output task ends with its pipe, or is aborted.
WriterEnds(w) ==
  /\ w \in writers
  /\ writers' = writers \ {w}
  /\ UNCHANGED <<sent, channel, stage, stored, readerVars>>

\* task_store.finish takes the task out of the active map...
FinishTask ==
  /\ stage = "running"
  /\ stage' = "finishing" /\ stored' = "moving"
  /\ UNCHANGED <<sent, channel, writers, readerVars>>

\* ...and then pushes it to the history.
FinishHistory ==
  /\ stage = "finishing" /\ stored = "moving"
  /\ stored' = "history"
  /\ UNCHANGED <<sent, channel, stage, writers, readerVars>>

\* (A slip:) the channel stays in the hub.
LogHub_finish_Keeps ==
  /\ stage = "finishing" /\ stored = "history"
  /\ channel' = channel /\ stage' = "notifying"
  /\ UNCHANGED <<sent, writers, stored, readerVars>>

LogHub_finish ==
  /\ stage = "finishing" /\ stored = "history"
  /\ channel' = FALSE /\ stage' = "notifying"
  /\ UNCHANGED <<sent, writers, stored, readerVars>>

\* The center has been told and execute_single drops its context.
ContextDropped ==
  /\ stage = "notifying"
  /\ stage' = "returned"
  /\ UNCHANGED <<sent, channel, writers, stored, readerVars>>

\* A channel past max_age_hours goes when nobody listens.
cleanup_expired ==
  /\ channel
  /\ \A r \in Readers : reader[r] # "open"
  /\ channel' = FALSE
  /\ UNCHANGED <<sent, stage, writers, stored, readerVars>>

subscribe(r) ==
  /\ reader[r] = "away"
  /\ reader' = [reader EXCEPT ![r] = IF channel THEN "open" ELSE "refused"]
  /\ next' = [next EXCEPT ![r] = sent + 1]
  /\ first' = [first EXCEPT ![r] = sent + 1]
  /\ UNCHANGED <<sent, deployVars, got, told>>

\* (A slip:) a stream that lags starts over with new lines.
Lagged_ToEnd(r) ==
  /\ reader[r] = "open"
  /\ sent - next[r] >= Capacity
  /\ next' = [next EXCEPT ![r] = sent + 1]
  /\ UNCHANGED <<sent, deployVars, reader, got, first, told>>

\* RecvError::Lagged: the receiver goes on with the oldest line kept.
Lagged(r) ==
  /\ reader[r] = "open"
  /\ sent - next[r] >= Capacity
  /\ next' = [next EXCEPT ![r] = sent - Capacity + 1]
  /\ UNCHANGED <<sent, deployVars, reader, got, first, told>>

recv(r) ==
  /\ reader[r] = "open"
  /\ next[r] <= sent /\ sent - next[r] < Capacity
  /\ got' = [got EXCEPT ![r] = Append(@, next[r])]
  /\ next' = [next EXCEPT ![r] = @ + 1]
  /\ UNCHANGED <<sent, deployVars, reader, first, told>>

\* RecvError::Closed, after the last line: the complete event is sent if the
\* task is found among the active ones.
StreamClosed(r) ==
  /\ reader[r] = "open"
  /\ next[r] > sent /\ Closed
  /\ told' = [told EXCEPT ![r] = (stored = "active")]
  /\ reader' = [reader EXCEPT ![r] = "ended"]
  /\ UNCHANGED <<sent, deployVars, next, got, first>>

\* The caller goes away.
HangUp(r) ==
  /\ reader[r] = "open"
  /\ reader' = [reader EXCEPT ![r] = "refused"]
  /\ UNCHANGED <<sent, deployVars, next, got, first, told>>

LogTaskStep == FinishHistory \/ LogHub_finish \/ ContextDropped \/ \E w \in Writers : WriterEnds(w)
StreamStep(r) == Lagged(r) \/ recv(r) \/ StreamClosed(r)

LogNext ==
  \/ log \/ FinishTask \/ LogTaskStep \/ cleanup_expired
  \/ \E r \in Readers : subscribe(r) \/ StreamStep(r) \/ HangUp(r)

LogSpec == LogInit /\ [][LogNext]_logVars

\* A stream passes on no line twice and none out of order, and the lines it
\* skipped are ones it was too slow for: when it ends it has passed on every
\* line since it began that is among the last Capacity, and all of them if it
\* never fell that far behind.
StreamKeepsOrder ==
  \A r \in Readers :
    /\ \A i \in 1..(Len(got[r]) - 1) : got[r][i] < got[r][i + 1]
    /\ reader[r] = "ended" =>
         \A n \in first[r]..sent : n > sent - Capacity => Contains(got[r], n)

\* A stream that is open when the deployment ends is told so: it ends once the
\* last output task and the last retry to the center are through.
StreamEnds ==
  \A r \in Readers : (reader[r] = "open" /\ stage = "finishing") ~> (reader[r] # "open")

\* "SSE stream can send the complete event and end": a stream that ends because
\* the deployment did says how it ended.
StreamTellsOutcome == \A r \in Readers : reader[r] = "ended" => told[r]
===============================================================================
