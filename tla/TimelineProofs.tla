--------------------------- MODULE TimelineProofs ---------------------------
(***************************************************************************)
(* Theorems about the timeline path of module TimelinePipe, for every set  *)
(* of requests, channel capacity, row group size and choice of faults.     *)
(*                                                                         *)
(* The inductive invariant says where the timelines are: the channel holds *)
(* exactly the requests whose fate is "queued", once each; the counter of  *)
(* the sink counts exactly the dropped ones; and as long as the writer has *)
(* given nothing up, requests_written counts the buffered and stored ones. *)
(***************************************************************************)
EXTENDS TimelinePipe, FiniteSetTheorems, TLAPS

Kept == {r \in Requests : fate[r] \in {"buffered", "stored"}}

QueueHoldsTheQueued ==
  /\ \A i \in 1 .. Len(queue) : fate[queue[i].req] = "queued"
  /\ \A i, j \in 1 .. Len(queue) : queue[i].req = queue[j].req => i = j
  /\ \A r \in Requests : fate[r] = "queued" => \E i \in 1 .. Len(queue) : queue[i].req = r

DropsAreCounted == dropped = Cardinality(HasFate("dropped"))

WriterCounts ==
  /\ writer \in {"opening", "disabled"} => Kept = {} /\ summary.requests = 0
  /\ writer = "writing" => summary.requests = Cardinality(Kept)
  /\ writer = "stopped" => HasFate("buffered") = {} /\ HasFate("lost") # {}
  /\ writer = "finished" =>
       /\ HasFate("buffered") = {}
       /\ HasFate("lost") = {} => summary.requests = Cardinality(Kept)

FinishedIsFinal ==
  writer = "finished" => ~open /\ queue = <<>> /\ summary.dropped = dropped

TimelineInv ==
  /\ TlTypeOK
  /\ QueueHoldsTheQueued
  /\ DropsAreCounted
  /\ WriterCounts
  /\ FinishedIsFinal

-----------------------------------------------------------------------------

\* The types of the timeline path hold at the start.
LEMMA TimelineTypesInit == TlInit => TlTypeOK
  BY TimelineAssumption DEF TlInit, TlTypeOK, WriterModes, Fates

\* The rows of one more timeline that do not fill the row group stay inside it:
\* the comparison of push, without the state around it.
LEMMA RowsBelowGroup ==
  ASSUME NEW n \in Nat, NEW e \in Nat, NEW g \in Nat, n + e < g
  PROVE  n + e \in 0 .. g
OBVIOUS

\* Every step of the sink and of the writer keeps the types.
LEMMA TimelineTypesStep ==
  ASSUME TlTypeOK, [TlNext]_tlVars
  PROVE  TlTypeOK'
<1> USE TimelineAssumption DEF TlTypeOK, WriterModes, Fates
<1>1. ASSUME NEW r \in Requests, NEW n \in 0 .. MaxEvents, Offer(r, n) PROVE TlTypeOK'
  <2>1. CASE OfferEmpty(r)
    BY <1>1, <2>1 DEF Offer, OfferEmpty
  <2>2. CASE n > 0 /\ OfferQueued(r, n)
    <3>1. [req |-> r, events |-> n] \in Timelines
      BY <2>2 DEF Timelines
    <3>2. queue' \in Seq(Timelines) /\ Len(queue') <= QueueCap
      BY <2>2, <3>1 DEF OfferQueued
    <3> QED BY <1>1, <2>2, <3>2 DEF Offer, OfferQueued
  <2>3. CASE OfferDropped(r)
    BY <1>1, <2>3 DEF Offer, OfferDropped
  <2> QED BY <1>1, <2>1, <2>2, <2>3 DEF Offer
<1>2. CASE Close
  BY <1>2 DEF Close
<1>3. CASE OpenFile
  BY <1>3 DEF OpenFile
<1>4. CASE OpenFails
  BY <1>4 DEF OpenFails
<1>5. ASSUME queue # <<>>
      PROVE /\ Head(queue).req \in Requests /\ Head(queue).events \in 1 .. MaxEvents
            /\ Tail(queue) \in Seq(Timelines) /\ Len(Tail(queue)) <= QueueCap
            /\ Pushed(Head(queue))
                 \in [path : BOOLEAN, requests : Nat, events : Nat, dropped : Nat]
  <2>1. Head(queue) \in Timelines /\ Tail(queue) \in Seq(Timelines) /\ Len(Tail(queue)) <= QueueCap
    BY <1>5
  <2>2. Head(queue).req \in Requests /\ Head(queue).events \in 1 .. MaxEvents
    BY <2>1 DEF Timelines
  <2>3. summary.requests + 1 \in Nat /\ summary.events + Head(queue).events \in Nat
    BY <2>2
  <2> QED BY <2>1, <2>2, <2>3 DEF Pushed
<1>6. CASE Receive
  <2>0. queue # <<>> /\ queue' = Tail(queue) /\ rows' = rows + Head(queue).events
        /\ rows + Head(queue).events < RowGroup
    BY <1>6 DEF Receive
  <2>1. rows' \in 0 .. RowGroup /\ queue' \in Seq(Timelines) /\ Len(queue') <= QueueCap
    <3>1. rows' \in 0 .. RowGroup
      <4>1. rows \in Nat /\ Head(queue).events \in Nat /\ RowGroup \in Nat
        BY <1>5, <2>0, TimelineAssumption
      <4> QED BY <2>0, <4>1, RowsBelowGroup
    <3> QED BY <1>5, <2>0, <3>1
  <2>2. fate' \in [Requests -> Fates]
    BY <1>6 DEF Receive
  <2> QED BY <1>5, <1>6, <2>1, <2>2 DEF Receive
<1>7. CASE ReceiveAndFlush
  <2>1. fate' \in [Requests -> Fates]
    BY <1>7 DEF ReceiveAndFlush, Move
  <2> QED BY <1>5, <1>7, <2>1 DEF ReceiveAndFlush
<1>8. CASE ReceiveAndFailToFlush
  <2>1. fate' \in [Requests -> Fates]
    BY <1>8 DEF ReceiveAndFailToFlush, Move
  <2> QED BY <1>5, <1>8, <2>1 DEF ReceiveAndFailToFlush
<1>9. CASE Drain
  BY <1>5, <1>9 DEF Drain
<1>10. CASE FinishDraining
  BY <1>10 DEF FinishDraining, Finished
<1>11. CASE FinishWriting
  <2>1. fate' \in [Requests -> Fates]
    BY <1>11 DEF FinishWriting, Move
  <2> QED BY <1>11, <2>1 DEF FinishWriting, Finished
<1>12. CASE UNCHANGED tlVars
  BY <1>12 DEF tlVars
<1> QED
  BY <1>1, <1>2, <1>3, <1>4, <1>6, <1>7, <1>8, <1>9, <1>10, <1>11, <1>12
  DEF TlNext, WriterStep, TlDone

\* Every state of the timeline path has its type: the channel never holds more
\* than its capacity and the columns never reach a full row group.
THEOREM TimelineTypes == TlSpec => []TlTypeOK
<1>1. TlInit => TlTypeOK
  BY TimelineTypesInit
<1>2. TlTypeOK /\ [TlNext]_tlVars => TlTypeOK'
  BY TimelineTypesStep
<1> QED BY <1>1, <1>2, PTL DEF TlSpec

-----------------------------------------------------------------------------
(* The channel. *)

\* What the writer takes from the channel is a queued timeline of a request.
LEMMA HeadIsQueued ==
  ASSUME TlTypeOK, QueueHoldsTheQueued, queue # <<>>
  PROVE  /\ Head(queue).req \in Requests
         /\ fate[Head(queue).req] = "queued"
<1>1. Head(queue) \in Timelines /\ Head(queue) = queue[1] /\ 1 \in 1 .. Len(queue)
  BY DEF TlTypeOK
<1> QED BY <1>1 DEF Timelines, QueueHoldsTheQueued

\* Every timeline in the channel belongs to a request.
LEMMA QueuedAreRequests ==
  ASSUME TlTypeOK
  PROVE  \A i \in 1 .. Len(queue) : queue[i].req \in Requests
<1>1. \A i \in 1 .. Len(queue) : queue[i] \in Timelines
  BY DEF TlTypeOK
<1> QED BY <1>1 DEF Timelines

\* A step that leaves the channel and the set of queued requests alone.
LEMMA ChannelUntouched ==
  ASSUME QueueHoldsTheQueued, TlTypeOK, queue' = queue,
         \A r \in Requests : fate'[r] = "queued" <=> fate[r] = "queued"
  PROVE  QueueHoldsTheQueued'
<1>1. \A i \in 1 .. Len(queue) : queue[i].req \in Requests
  BY QueuedAreRequests
<1> QED BY <1>1 DEF QueueHoldsTheQueued

\* A step that takes the head of the channel, and only it, out of the channel.
LEMMA ChannelServed ==
  ASSUME QueueHoldsTheQueued, TlTypeOK, queue # <<>>, queue' = Tail(queue),
         fate'[Head(queue).req] # "queued",
         \A r \in Requests : r # Head(queue).req =>
                               (fate'[r] = "queued" <=> fate[r] = "queued")
  PROVE  QueueHoldsTheQueued'
<1>1. /\ Len(queue) \in Nat /\ Len(queue) >= 1 /\ Head(queue) = queue[1]
      /\ Len(queue') = Len(queue) - 1
      /\ \A i \in 1 .. Len(queue') : queue'[i] = queue[i + 1] /\ i + 1 \in 1 .. Len(queue)
  <2>1. queue \in Seq(Timelines) /\ queue # <<>>
    BY DEF TlTypeOK
  <2>2. Len(queue) \in Nat /\ Len(queue) >= 1 /\ Head(queue) = queue[1]
    BY <2>1
  <2>3. Len(Tail(queue)) = Len(queue) - 1
    BY <2>1
  <2>4. \A i \in 1 .. Len(Tail(queue)) : Tail(queue)[i] = queue[i + 1]
    BY <2>1
  <2> QED BY <2>2, <2>3, <2>4
<1>2. \A i \in 1 .. Len(queue) : queue[i].req \in Requests
  BY QueuedAreRequests
<1>3. \A i \in 1 .. Len(queue') : fate'[queue'[i].req] = "queued"
  <2> SUFFICES ASSUME NEW i \in 1 .. Len(queue') PROVE fate'[queue'[i].req] = "queued"
    OBVIOUS
  <2>1. i + 1 # 1 /\ i + 1 \in 1 .. Len(queue) /\ queue'[i] = queue[i + 1] /\ 1 \in 1 .. Len(queue)
    BY <1>1
  <2>2. queue[i + 1].req # queue[1].req
    BY <2>1 DEF QueueHoldsTheQueued
  <2> QED BY <1>1, <1>2, <2>1, <2>2 DEF QueueHoldsTheQueued
<1>4. \A i, j \in 1 .. Len(queue') : queue'[i].req = queue'[j].req => i = j
  <2> SUFFICES ASSUME NEW i \in 1 .. Len(queue'), NEW j \in 1 .. Len(queue'),
                      queue'[i].req = queue'[j].req
               PROVE  i = j
    OBVIOUS
  <2>1. i + 1 = j + 1
    BY <1>1 DEF QueueHoldsTheQueued
  <2> QED BY <1>1, <2>1
<1>5. \A r \in Requests : fate'[r] = "queued" => \E i \in 1 .. Len(queue') : queue'[i].req = r
  <2> SUFFICES ASSUME NEW r \in Requests, fate'[r] = "queued"
               PROVE  \E i \in 1 .. Len(queue') : queue'[i].req = r
    OBVIOUS
  <2>1. r # Head(queue).req /\ fate[r] = "queued"
    OBVIOUS
  <2>2. PICK k \in 1 .. Len(queue) : queue[k].req = r
    BY <2>1 DEF QueueHoldsTheQueued
  <2>3. k - 1 \in 1 .. Len(queue') /\ (k - 1) + 1 = k
    BY <1>1, <2>1, <2>2
  <2> QED BY <1>1, <2>2, <2>3
<1> QED BY <1>3, <1>4, <1>5 DEF QueueHoldsTheQueued

\* A step that puts the timeline of a new request at the end of the channel.
LEMMA ChannelFilled ==
  ASSUME QueueHoldsTheQueued, TlTypeOK, NEW r \in Requests, NEW n \in 1 .. MaxEvents,
         fate[r] = "none", OfferQueued(r, n)
  PROVE  QueueHoldsTheQueued'
<1> DEFINE t == [req |-> r, events |-> n]
<1>1. /\ t \in Timelines /\ t.req = r /\ queue' = Append(queue, t)
      /\ fate' = [fate EXCEPT ![r] = "queued"]
  BY DEF Timelines, OfferQueued
<1> HIDE DEF t
<1>2. /\ Len(queue) \in Nat /\ Len(queue') = Len(queue) + 1
      /\ \A i \in 1 .. Len(queue) : queue'[i] = queue[i]
      /\ queue'[Len(queue) + 1] = t
  BY <1>1 DEF TlTypeOK
<1>3. \A i \in 1 .. Len(queue) : queue[i].req \in Requests
  BY QueuedAreRequests
<1>4. \A i \in 1 .. Len(queue) : queue[i].req # r
  BY DEF QueueHoldsTheQueued
<1>5. \A i \in 1 .. Len(queue') : i \in 1 .. Len(queue) \/ i = Len(queue) + 1
  BY <1>2
<1>6. \A i \in 1 .. Len(queue') : fate'[queue'[i].req] = "queued"
  BY <1>1, <1>2, <1>3, <1>4, <1>5 DEF QueueHoldsTheQueued, TlTypeOK
<1>7. \A i, j \in 1 .. Len(queue') : queue'[i].req = queue'[j].req => i = j
  BY <1>1, <1>2, <1>4, <1>5 DEF QueueHoldsTheQueued
<1>8. \A s \in Requests : fate'[s] = "queued" => \E i \in 1 .. Len(queue') : queue'[i].req = s
  <2> SUFFICES ASSUME NEW s \in Requests, fate'[s] = "queued"
               PROVE  \E i \in 1 .. Len(queue') : queue'[i].req = s
    OBVIOUS
  <2>1. CASE s = r
    BY <1>1, <1>2, <2>1
  <2>2. CASE s # r
    <3>1. PICK k \in 1 .. Len(queue) : queue[k].req = s
      BY <1>1, <2>2 DEF QueueHoldsTheQueued, TlTypeOK
    <3> QED BY <1>2, <3>1
  <2> QED BY <2>1, <2>2
<1> QED BY <1>6, <1>7, <1>8 DEF QueueHoldsTheQueued

-----------------------------------------------------------------------------
(* The history variable and the counters. *)

\* The requests with the same fate can be counted.
LEMMA FateSetsAreFinite ==
  /\ \A f \in Fates : IsFiniteSet(HasFate(f))
  /\ IsFiniteSet(Kept)
<1>1. \A f \in Fates : HasFate(f) \subseteq Requests
  BY DEF HasFate
<1>2. Kept \subseteq Requests
  BY DEF Kept
<1> QED BY <1>1, <1>2, FS_Subset, TimelineAssumption

\* The receive that loses no row group: one more request is kept.
LEMMA ReceiveKeeps ==
  ASSUME TlTypeOK, QueueHoldsTheQueued, WriterCounts, writer = "writing",
         queue # <<>>,
         fate'[Head(queue).req] \in {"buffered", "stored"},
         \A r \in Requests \ {Head(queue).req} :
           \/ fate'[r] = fate[r]
           \/ fate[r] = "buffered" /\ fate'[r] = "stored"
  PROVE  Cardinality(Kept') = summary.requests + 1
<1>1. Head(queue).req \in Requests /\ fate[Head(queue).req] = "queued"
  BY HeadIsQueued
<1>2. Kept' = Kept \cup {Head(queue).req}
  BY <1>1 DEF Kept
<1>3. Head(queue).req \notin Kept
  BY <1>1 DEF Kept
<1>4. Cardinality(Kept') = Cardinality(Kept) + 1
  BY <1>2, <1>3, FateSetsAreFinite, FS_AddElement
<1> QED BY <1>4 DEF WriterCounts

\* A step that drops no timeline keeps the account of the dropped ones.
LEMMA DroppedUntouched ==
  ASSUME DropsAreCounted, dropped' = dropped,
         \A r \in Requests : fate'[r] = "dropped" <=> fate[r] = "dropped"
  PROVE  DropsAreCounted'
<1>1. HasFate("dropped")' = HasFate("dropped")
  BY DEF HasFate
<1> QED BY <1>1 DEF DropsAreCounted

\* The inductive invariant holds at the start.
LEMMA TimelineInvInit == TlInit => TimelineInv
<1> SUFFICES ASSUME TlInit PROVE TimelineInv
  OBVIOUS
<1>1. TlTypeOK
  BY TimelineAssumption DEF TlInit, TlTypeOK, WriterModes, Fates
<1>2. HasFate("dropped") = {} /\ Kept = {}
  BY DEF TlInit, HasFate, Kept
<1>3. QueueHoldsTheQueued
  BY DEF TlInit, QueueHoldsTheQueued
<1>4. DropsAreCounted /\ WriterCounts /\ FinishedIsFinal
  BY <1>2, FS_EmptySet DEF TlInit, DropsAreCounted, WriterCounts, FinishedIsFinal
<1> QED BY <1>1, <1>3, <1>4 DEF TimelineInv

\* Every step of the timeline path keeps the inductive invariant.
LEMMA TimelineInvStep ==
  ASSUME TimelineInv, [TlNext]_tlVars
  PROVE  TimelineInv'
<1> USE DEF TimelineInv
<1>0. TlTypeOK'
  BY TimelineTypesStep
<1> USE <1>0
<1>1. ASSUME NEW r \in Requests, NEW n \in 0 .. MaxEvents, Offer(r, n)
      PROVE  TimelineInv'
  <2>1. /\ open /\ fate[r] = "none" /\ writer # "finished"
        /\ UNCHANGED <<open, writer, rows, summary>>
    BY <1>1 DEF Offer, FinishedIsFinal
  <2>2. ASSUME \E f \in {"empty", "queued", "dropped"} : fate' = [fate EXCEPT ![r] = f]
        PROVE  WriterCounts' /\ FinishedIsFinal'
    <3>1. Kept' = Kept
      BY <2>1, <2>2 DEF Kept, TlTypeOK
    <3>2. HasFate("lost")' = HasFate("lost") /\ HasFate("buffered")' = HasFate("buffered")
      BY <2>1, <2>2 DEF HasFate, TlTypeOK
    <3> QED BY <2>1, <3>1, <3>2 DEF WriterCounts, FinishedIsFinal
  <2>3. CASE OfferEmpty(r)
    <3>1. /\ fate' = [fate EXCEPT ![r] = "empty"]
          /\ UNCHANGED <<queue, dropped>>
      BY <2>3 DEF OfferEmpty
    <3>2. \A s \in Requests : /\ fate'[s] = "queued" <=> fate[s] = "queued"
                              /\ fate'[s] = "dropped" <=> fate[s] = "dropped"
      BY <2>1, <3>1 DEF TlTypeOK
    <3> QED BY <2>2, <3>1, <3>2, ChannelUntouched, DroppedUntouched
  <2>4. CASE n > 0 /\ OfferQueued(r, n)
    <3>1. fate' = [fate EXCEPT ![r] = "queued"] /\ dropped' = dropped
      BY <2>4 DEF OfferQueued
    <3>2. \A s \in Requests : fate'[s] = "dropped" <=> fate[s] = "dropped"
      BY <2>1, <3>1 DEF TlTypeOK
    <3>3. n \in 1 .. MaxEvents
      BY <2>4
    <3> QED BY <2>1, <2>2, <2>4, <3>1, <3>2, <3>3, ChannelFilled, DroppedUntouched
  <2>5. CASE OfferDropped(r)
    <3>1. /\ fate' = [fate EXCEPT ![r] = "dropped"]
          /\ queue' = queue /\ dropped' = dropped + 1
      BY <2>5 DEF OfferDropped
    <3>2. \A s \in Requests : fate'[s] = "queued" <=> fate[s] = "queued"
      BY <2>1, <3>1 DEF TlTypeOK
    <3>3. HasFate("dropped")' = HasFate("dropped") \cup {r} /\ r \notin HasFate("dropped")
      BY <2>1, <3>1 DEF HasFate, TlTypeOK
    <3>4. Cardinality(HasFate("dropped")') = Cardinality(HasFate("dropped")) + 1
      BY <3>3, FateSetsAreFinite, FS_AddElement DEF Fates
    <3>5. DropsAreCounted'
      BY <3>1, <3>4 DEF DropsAreCounted
    <3> QED BY <2>2, <3>1, <3>2, <3>5, ChannelUntouched
  <2> QED BY <1>1, <2>3, <2>4, <2>5 DEF Offer
<1>2. CASE Close \/ OpenFile \/ OpenFails \/ UNCHANGED tlVars
  <2>1. UNCHANGED <<queue, dropped, fate>> /\ summary'.requests = summary.requests
    BY <1>2 DEF Close, OpenFile, OpenFails, tlVars, TlTypeOK
  <2>2. Kept' = Kept /\ \A f \in Fates : HasFate(f)' = HasFate(f)
    BY <2>1 DEF Kept, HasFate
  <2>3. QueueHoldsTheQueued' /\ DropsAreCounted'
    BY <2>1, ChannelUntouched, DroppedUntouched
  <2>4. WriterCounts'
    BY <1>2, <2>1, <2>2, FS_EmptySet
    DEF WriterCounts, Close, OpenFile, OpenFails, tlVars, Fates
  <2>5. FinishedIsFinal'
    BY <1>2 DEF FinishedIsFinal, Close, OpenFile, OpenFails, tlVars
  <2> QED BY <2>3, <2>4, <2>5
<1>3. CASE Receive \/ ReceiveAndFlush
  <2> DEFINE h == Head(queue).req
  <2>1. /\ writer = "writing" /\ queue # <<>>
        /\ writer' = writer /\ queue' = Tail(queue) /\ dropped' = dropped
        /\ summary' = Pushed(Head(queue))
    BY <1>3 DEF Receive, ReceiveAndFlush
  <2>2. h \in Requests /\ fate[h] = "queued"
    BY <2>1, HeadIsQueued
  <2>3. /\ fate'[h] \in {"buffered", "stored"}
        /\ \A r \in Requests \ {h} :
             \/ fate'[r] = fate[r]
             \/ fate[r] = "buffered" /\ fate'[r] = "stored"
    BY <1>3, <2>2 DEF Receive, ReceiveAndFlush, Move, TlTypeOK
  <2>4. QueueHoldsTheQueued'
    BY <2>1, <2>3, ChannelServed
  <2>5. DropsAreCounted'
    BY <2>1, <2>2, <2>3, DroppedUntouched
  <2>6. summary'.requests = summary.requests + 1
    BY <2>1 DEF Pushed, TlTypeOK
  <2>7. Cardinality(Kept') = summary.requests + 1
    BY <2>1, <2>3, ReceiveKeeps
  <2>8. WriterCounts' /\ FinishedIsFinal'
    BY <2>1, <2>6, <2>7 DEF WriterCounts, FinishedIsFinal
  <2> QED BY <2>4, <2>5, <2>8
<1>4. CASE ReceiveAndFailToFlush \/ Drain
  <2> DEFINE h == Head(queue).req
  <2>1. /\ queue # <<>> /\ queue' = Tail(queue) /\ dropped' = dropped
        /\ \/ writer = "writing" /\ writer' = "stopped"
           \/ writer = "disabled" /\ writer' = "disabled" /\ summary' = summary /\ Drain
           \/ writer = "stopped" /\ writer' = "stopped"
    BY <1>4 DEF ReceiveAndFailToFlush, Drain
  <2>2. h \in Requests /\ fate[h] = "queued"
    BY <2>1, HeadIsQueued
  <2>3. /\ fate'[h] = "lost"
        /\ \A r \in Requests \ {h} :
             \/ fate'[r] = fate[r] /\ (writer = "writing" => fate[r] # "buffered")
             \/ fate[r] \in {"buffered", "stored"} /\ fate'[r] = "lost"
    <3>1. CASE ReceiveAndFailToFlush
      BY <3>1, <2>2 DEF ReceiveAndFailToFlush, Move
    <3>2. CASE Drain
      BY <3>2, <2>2 DEF Drain, TlTypeOK
    <3> QED BY <1>4, <3>1, <3>2
  <2>4. QueueHoldsTheQueued'
    BY <2>1, <2>3, ChannelServed
  <2>5. DropsAreCounted'
    BY <2>1, <2>2, <2>3, DroppedUntouched
  <2>6. HasFate("lost")' # {}
    BY <2>2, <2>3 DEF HasFate
  <2>7. writer = "disabled" => Kept' = {}
    BY <2>2, <2>3 DEF WriterCounts, Kept
  <2>8. writer # "disabled" => HasFate("buffered")' = {}
    BY <2>1, <2>2, <2>3 DEF WriterCounts, HasFate
  <2>9. WriterCounts' /\ FinishedIsFinal'
    BY <2>1, <2>6, <2>7, <2>8 DEF WriterCounts, FinishedIsFinal
  <2> QED BY <2>4, <2>5, <2>9
<1>5. CASE FinishDraining
  <2>1. /\ writer \in {"disabled", "stopped"} /\ writer' = "finished"
        /\ ~open' /\ queue' = <<>>
        /\ UNCHANGED <<queue, dropped, fate>>
        /\ summary' = [summary EXCEPT !.dropped = dropped]
    BY <1>5 DEF FinishDraining, Disconnected, Finished
  <2>2. summary'.requests = summary.requests /\ summary'.dropped = dropped
    BY <2>1 DEF TlTypeOK
  <2>3. Kept' = Kept /\ \A f \in Fates : HasFate(f)' = HasFate(f)
    BY <2>1 DEF Kept, HasFate
  <2>4. QueueHoldsTheQueued' /\ DropsAreCounted'
    BY <2>1, ChannelUntouched, DroppedUntouched
  <2>5. HasFate("lost") = {} => writer = "disabled"
    BY <2>1 DEF WriterCounts
  <2>6. HasFate("lost") = {} => Kept = {} /\ summary.requests = 0
    BY <2>5 DEF WriterCounts
  <2>7. HasFate("buffered") = {}
    BY <2>1 DEF WriterCounts, Kept, HasFate
  <2>8. WriterCounts' /\ FinishedIsFinal'
    BY <2>1, <2>2, <2>3, <2>6, <2>7, FS_EmptySet DEF WriterCounts, FinishedIsFinal, Fates
  <2> QED BY <2>4, <2>8
<1>6. CASE FinishWriting
  <2>1. /\ writer = "writing" /\ writer' = "finished"
        /\ ~open' /\ queue' = <<>>
        /\ UNCHANGED <<queue, dropped>>
        /\ summary' = [summary EXCEPT !.dropped = dropped]
    BY <1>6 DEF FinishWriting, Disconnected, Finished
  <2>2. summary'.requests = summary.requests /\ summary'.dropped = dropped
    BY <2>1 DEF TlTypeOK
  <2>3. \A r \in Requests :
          /\ fate[r] \notin {"buffered", "stored"} => fate'[r] = fate[r]
          /\ fate[r] = "buffered" => fate'[r] \in {"stored", "lost"}
          /\ fate[r] = "stored" => fate'[r] \in {"stored", "lost"}
    BY <1>6 DEF FinishWriting, Move
  <2>4. QueueHoldsTheQueued' /\ DropsAreCounted'
    BY <2>1, <2>3, ChannelUntouched, DroppedUntouched
  <2>5. HasFate("buffered")' = {}
    BY <2>3 DEF HasFate
  <2>6. HasFate("lost")' = {} => Kept' = Kept
    BY <2>3 DEF Kept, HasFate
  <2> QED BY <2>1, <2>2, <2>4, <2>5, <2>6 DEF WriterCounts, FinishedIsFinal
<1> QED
  BY <1>1, <1>2, <1>3, <1>4, <1>5, <1>6 DEF TlNext, WriterStep, TlDone

\* The channel holds exactly the queued timelines, each once, and the counters
\* of the sink and of the writer agree with where the timelines are.
THEOREM TimelineInvariant == TlSpec => []TimelineInv
<1>1. TlInit => TimelineInv
  BY TimelineInvInit
<1>2. TimelineInv /\ [TlNext]_tlVars => TimelineInv'
  BY TimelineInvStep
<1> QED BY <1>1, <1>2, PTL DEF TlSpec

\* On every way out of the writer the reported number of dropped requests is
\* the number the sink dropped: no request is dropped after it was read.
LEMMA TimelineCountsDrops == TimelineInv => DroppedCountIsFinal
  BY DEF TimelineInv, FinishedIsFinal, DropsAreCounted, DroppedCountIsFinal

\* Without a failure of the file, a timeline is in the file or counted as
\* dropped, and the reported number of written requests is exact.
LEMMA TimelineLosesNothing == TimelineInv => NothingLostInSilence
<1> SUFFICES ASSUME TimelineInv, writer = "finished", HasFate("lost") = {}
             PROVE  /\ \A r \in Requests : fate[r] \in {"none", "empty", "dropped", "stored"}
                    /\ summary.requests = Cardinality(HasFate("stored"))
  BY DEF NothingLostInSilence
<1>1. queue = <<>> /\ HasFate("buffered") = {} /\ summary.requests = Cardinality(Kept)
  BY DEF TimelineInv, FinishedIsFinal, WriterCounts
<1>2. \A r \in Requests : fate[r] # "queued"
  BY <1>1 DEF TimelineInv, QueueHoldsTheQueued
<1>3. \A r \in Requests : fate[r] \in Fates /\ fate[r] \notin {"buffered", "lost", "queued"}
  <2>1. \A r \in Requests : fate[r] \in Fates
    BY DEF TimelineInv, TlTypeOK
  <2> QED BY <1>1, <1>2, <2>1 DEF HasFate
<1>4. Kept = HasFate("stored")
  BY <1>3 DEF Kept, HasFate
<1>5. \A r \in Requests : fate[r] \in {"none", "empty", "dropped", "stored"}
  BY <1>3 DEF Fates
<1> QED BY <1>1, <1>4, <1>5

=============================================================================
