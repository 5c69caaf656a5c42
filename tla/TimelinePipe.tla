---------------------------- MODULE TimelinePipe ----------------------------
(***************************************************************************)
(* The timeline output path of a run (src/src/timeline.rs and              *)
(* src/src/timeline/writer.rs).                                            *)
(*                                                                         *)
(* Executors hand the events of one finished request to TimelineSink::offer*)
(* which must not block: it puts the timeline in a bounded channel or drops*)
(* it and counts the drop.  write_timeline, on a thread of its own, drains *)
(* the channel into row groups of a Parquet file until the last sender is  *)
(* gone.  A failure to open the file or to write a row group ends the file *)
(* and not the run: the writer goes on draining what it can no longer keep.*)
(*                                                                         *)
(* A timeline is a request and its number of events.  fate is a history    *)
(* variable: where the timeline of each request is now.                    *)
(***************************************************************************)
EXTENDS Naturals, Sequences, FiniteSets

CONSTANTS
  Requests,   \* the requests that may offer a timeline, each at most once
  MaxEvents,  \* bound on the events of one timeline
  QueueCap,   \* TIMELINE_QUEUE_REQUESTS: capacity of the channel, in requests
  RowGroup,   \* ROWS_PER_ROW_GROUP: rows buffered before a row group is written
  Faults      \* the file operations that may fail: "open", "write", "close"

ASSUME TimelineAssumption ==
  /\ IsFiniteSet(Requests)
  /\ MaxEvents \in Nat
  /\ QueueCap \in Nat \ {0}
  /\ RowGroup \in Nat \ {0}
  /\ Faults \subseteq {"open", "write", "close"}

VARIABLES
  queue,      \* the bounded channel
  dropped,    \* TimelineSink::dropped_requests, shared with the writer
  open,       \* some sender is alive
  writer,     \* where write_timeline is
  rows,       \* Columns::len(): rows waiting for their row group
  summary,    \* the TimelineSummary under construction
  fate        \* history: where the timeline of each request is

tlVars == <<queue, dropped, open, writer, rows, summary, fate>>

Timelines == [req : Requests, events : 1 .. MaxEvents]

\* "disabled": the file could not be opened; "stopped": a row group could not
\* be written.  Both only drain.
WriterModes == {"opening", "writing", "disabled", "stopped", "finished"}

\* "none": not offered yet; "empty": offered without events; "buffered": in the
\* row group under construction; "stored": in a row group of the file; "lost":
\* received by a writer that could not keep it, or in a file without a footer.
Fates == {"none", "empty", "queued", "dropped", "buffered", "stored", "lost"}

HasFate(f) == {r \in Requests : fate[r] = f}

\* What is in one of the states `from` is now in state `to`.
Move(from, to) == [r \in Requests |-> IF fate[r] \in from THEN to ELSE fate[r]]

-----------------------------------------------------------------------------
(* The sink, called by executors. *)

OfferEmpty(r) ==
  /\ fate' = [fate EXCEPT ![r] = "empty"]
  /\ UNCHANGED <<queue, dropped>>

OfferQueued(r, n) ==
  /\ Len(queue) < QueueCap
  /\ queue' = Append(queue, [req |-> r, events |-> n])
  /\ fate' = [fate EXCEPT ![r] = "queued"]
  /\ UNCHANGED dropped

OfferDropped(r) ==
  /\ Len(queue) >= QueueCap
  /\ dropped' = dropped + 1
  /\ fate' = [fate EXCEPT ![r] = "dropped"]
  /\ UNCHANGED queue

\* TimelineSink::offer, by a caller that holds a sender.
Offer(r, n) ==
  /\ open /\ fate[r] = "none"
  /\ \/ n = 0 /\ OfferEmpty(r)
     \/ n > 0 /\ OfferQueued(r, n)
     \/ n > 0 /\ OfferDropped(r)
  /\ UNCHANGED <<open, writer, rows, summary>>

\* The last sender is dropped: the runner's and every executor's clone.
Close ==
  /\ open
  /\ open' = FALSE
  /\ UNCHANGED <<queue, dropped, writer, rows, summary, fate>>

-----------------------------------------------------------------------------
(* write_timeline, on its own thread. *)

OpenFile ==
  /\ writer = "opening"
  /\ writer' = "writing"
  /\ UNCHANGED <<queue, dropped, open, rows, summary, fate>>

OpenFails ==
  /\ writer = "opening" /\ "open" \in Faults
  /\ writer' = "disabled"
  /\ summary' = [summary EXCEPT !.path = FALSE]
  /\ UNCHANGED <<queue, dropped, open, rows, fate>>

\* recv() and Columns::push; the counts are taken before any row group is tried.
Pushed(t) == [summary EXCEPT !.requests = @ + 1, !.events = @ + t.events]

Receive ==
  /\ writer = "writing" /\ queue # <<>>
  /\ LET t == Head(queue) IN
       /\ rows + t.events < RowGroup
       /\ rows' = rows + t.events
       /\ summary' = Pushed(t)
       /\ fate' = [fate EXCEPT ![t.req] = "buffered"]
  /\ queue' = Tail(queue)
  /\ UNCHANGED <<dropped, open, writer>>

ReceiveAndFlush ==
  /\ writer = "writing" /\ queue # <<>>
  /\ LET t == Head(queue) IN
       /\ rows + t.events >= RowGroup
       /\ summary' = Pushed(t)
       /\ fate' = [Move({"buffered"}, "stored") EXCEPT ![t.req] = "stored"]
  /\ rows' = 0
  /\ queue' = Tail(queue)
  /\ UNCHANGED <<dropped, open, writer>>

\* flush() has already emptied the builders when the write fails, and the writer
\* is dropped without close(): the row groups it wrote get no footer either.
ReceiveAndFailToFlush ==
  /\ writer = "writing" /\ queue # <<>> /\ "write" \in Faults
  /\ LET t == Head(queue) IN
       /\ rows + t.events >= RowGroup
       /\ summary' = Pushed(t)
       /\ fate' = [Move({"buffered", "stored"}, "lost") EXCEPT ![t.req] = "lost"]
  /\ rows' = 0
  /\ writer' = "stopped"
  /\ queue' = Tail(queue)
  /\ UNCHANGED <<dropped, open>>

\* A variant that gives up on the channel once the file is not writable.
DrainAfterWriteErrorOnly ==
  /\ writer = "stopped" /\ queue # <<>>
  /\ queue' = Tail(queue)
  /\ fate' = [fate EXCEPT ![Head(queue).req] = "lost"]
  /\ UNCHANGED <<dropped, open, writer, rows, summary>>

Drain ==
  /\ writer \in {"disabled", "stopped"} /\ queue # <<>>
  /\ queue' = Tail(queue)
  /\ fate' = [fate EXCEPT ![Head(queue).req] = "lost"]
  /\ UNCHANGED <<dropped, open, writer, rows, summary>>

\* recv() fails only when the channel is empty and its last sender is gone.
Disconnected == queue = <<>> /\ ~open

Finished == [summary EXCEPT !.dropped = dropped]

\* A variant that returns as soon as the channel is empty.
FinishDrainingEarly ==
  /\ writer \in {"disabled", "stopped"} /\ queue = <<>>
  /\ writer' = "finished"
  /\ summary' = Finished
  /\ UNCHANGED <<queue, dropped, open, rows, fate>>

FinishDraining ==
  /\ writer \in {"disabled", "stopped"} /\ Disconnected
  /\ writer' = "finished"
  /\ summary' = Finished
  /\ UNCHANGED <<queue, dropped, open, rows, fate>>

\* A variant that closes the file without its last, short row group.
FinishWritingWithoutFlush ==
  /\ writer = "writing" /\ Disconnected
  /\ writer' = "finished"
  /\ rows' = 0
  /\ summary' = Finished
  /\ UNCHANGED <<queue, dropped, open, fate>>

\* The last, short row group, and close(); failures of either are only warned of.
\* A file that was not closed has no footer, and nothing of it can be read.
FinishWriting ==
  /\ writer = "writing" /\ Disconnected
  /\ writer' = "finished"
  /\ \/ fate' = Move({"buffered"}, "stored")
     \/ "write" \in Faults /\ fate' = Move({"buffered"}, "lost")
     \/ "close" \in Faults /\ fate' = Move({"buffered", "stored"}, "lost")
  /\ rows' = 0
  /\ summary' = Finished
  /\ UNCHANGED <<queue, dropped, open>>

WriterStep ==
  \/ OpenFile
  \/ OpenFails
  \/ Receive
  \/ ReceiveAndFlush
  \/ ReceiveAndFailToFlush
  \/ Drain
  \/ FinishDraining
  \/ FinishWriting

-----------------------------------------------------------------------------
(* The path on its own: any request may offer any timeline while a sender     *)
(* lives, and the senders go away at some point.                              *)

TlInit ==
  /\ queue = <<>>
  /\ dropped = 0
  /\ open = TRUE
  /\ writer = "opening"
  /\ rows = 0
  /\ summary = [path |-> TRUE, requests |-> 0, events |-> 0, dropped |-> 0]
  /\ fate = [r \in Requests |-> "none"]

\* The writer has returned and every sender is gone.
TlDone == writer = "finished" /\ ~open /\ UNCHANGED tlVars

TlNext ==
  \/ \E r \in Requests, n \in 0 .. MaxEvents : Offer(r, n)
  \/ Close
  \/ WriterStep
  \/ TlDone

TlSpec == TlInit /\ [][TlNext]_tlVars /\ WF_tlVars(WriterStep)

-----------------------------------------------------------------------------
(* Properties. *)

\* The types of the variables: the channel never holds more than its capacity
\* and the columns never more than a row group (writer.rs:133-143).
TlTypeOK ==
  /\ queue \in Seq(Timelines) /\ Len(queue) <= QueueCap
  /\ dropped \in Nat
  /\ open \in BOOLEAN
  /\ writer \in WriterModes
  /\ rows \in 0 .. RowGroup
  /\ summary \in [path : BOOLEAN, requests : Nat, events : Nat, dropped : Nat]
  /\ fate \in [Requests -> Fates]

\* The dropped_requests that the writer reports is the number of timelines the
\* sink really dropped: it is read once, after the last offer, on every way out
\* of write_timeline (timeline/writer.rs:127, 141, 155), so a lossy run says so.
DroppedCountIsFinal ==
  writer = "finished" => summary.dropped = Cardinality(HasFate("dropped"))

\* When every file operation succeeded, each timeline that was offered with
\* events is in the file or counted as dropped, and requests_written is exactly
\* the number in the file: nothing stays behind in the channel or in the
\* buffered columns (timeline/writer.rs:133-163).
NothingLostInSilence ==
  (writer = "finished" /\ HasFate("lost") = {}) =>
    /\ \A r \in Requests : fate[r] \in {"none", "empty", "dropped", "stored"}
    /\ summary.requests = Cardinality(HasFate("stored"))

\* The writer goes on receiving to the end, in every mode, the ones in which it has
\* no file included: a channel that is full does not stay full, so that a file that
\* cannot be written does not make the sink drop (timeline/writer.rs:124), and once
\* the executors and the runner dropped their senders the writer returns, so that
\* the runner's await of it ends (runner.rs:325).
WriterKeepsReceiving ==
  /\ (Len(queue) = QueueCap) ~> (Len(queue) < QueueCap)
  /\ ~open ~> (writer = "finished")

\* What the comment at timeline/writer.rs:105-107 promises of a write failure: the
\* file ends there, and "What was written stays readable".
WhatWasWrittenStaysReadable ==
  [][\A r \in Requests : fate[r] = "stored" => fate'[r] = "stored"]_tlVars

=============================================================================
