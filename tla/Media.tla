-------------------------------- MODULE Media --------------------------------
(***************************************************************************)
(* One request of a multimodal run (src/src/executor/multimodal.rs): the   *)
(* gate it must pass before the run, the probe of run_multimodal, the body *)
(* built by media_client.rs or the turn of realtime_client.rs, and what is *)
(* made of the answer.  Requests of a run do not touch each other, so one  *)
(* is enough; a request for text over chat is handed to the streaming      *)
(* client, which module Conversation models.                               *)
(*                                                                         *)
(* The server is the environment.  Its answer is a sequence of items: a    *)
(* payload, an empty one, one that cannot be decoded, an error message     *)
(* behind a 2xx, and at the end a terminator, a clean close or a cut.      *)
(* Whatever else it sends only resets the idle timer.                      *)
(***************************************************************************)
EXTENDS Dialects

CONSTANTS
  Requests,   \* the requests of a trace: parts and the one output
  SocketCap,  \* client events the socket holds before the server takes one
  Appends,    \* frames that one audio input is cut into
  MaxItems    \* bound on the items of an answer

ASSUME MediaAssumption ==
  /\ Requests \subseteq [inputs : Seq(Kind), output : Modality]
  /\ SocketCap \in Nat \ {0} /\ Appends \in Nat /\ MaxItems \in Nat \ {0}

VARIABLES
  job,     \* backend, dialect, inputs, output, and whether artifacts are kept
  pc,      \* where the client is
  wired,   \* history: the input parts that the rendered request carries
  put,     \* client events written to the realtime socket
  taken,   \* client events the server took from it
  early,   \* history: a payload was sent before the response clock started
  sent,    \* history: what the server answered
  read,    \* how much of it the client has looked at
  quiet,   \* the idle timer has run since something was heard
  fold,    \* MediaFold
  status   \* GenerationOutcome.status

vars == <<job, pc, wired, put, taken, early, sent, read, quiet, fold, status>>

None == "none"

Jobs == {[backend |-> b, dialect |-> d, inputs |-> r.inputs, output |-> r.output, keep |-> k] :
           b \in Backends, d \in ALL, r \in Requests, k \in BOOLEAN}

Final == {"refused", "text", "done"}
InFlight == {"post", "connect", "send", "read", "judge", "done"}

Parts(kinds) == {i \in DOMAIN job.inputs : job.inputs[i] \in kinds}
First(S) == {i \in S : \A j \in S : i <= j}
Last(S) == {i \in S : \A j \in S : j <= i}

CarriesMedia == Parts({"image", "audio", "video"}) # {}

-----------------------------------------------------------------------------
(* Before the run. *)

\* RequestSpec::validate, as far as the parts go.
WellFormed ==
  /\ job.inputs # <<>>
  /\ \A i, j \in DOMAIN job.inputs :
       i < j /\ job.inputs[j] = "system" => job.inputs[i] = "system"

\* CapabilityProfile::validate against what surface and dialect both can do.
Supported ==
  /\ \A i \in DOMAIN job.inputs :
       ModalityOf(job.inputs[i]) \in AcceptedInputs(job.backend) \cap Expressible(job.dialect)
  /\ job.output \in ProducedOutputs(job.backend)

\* prepare_multimodal_requests.
Prepare ==
  /\ pc = "load"
  /\ pc' = IF WellFormed /\ Supported THEN "prepared" ELSE "refused"
  /\ UNCHANGED <<job, wired, put, taken, early, sent, read, quiet, fold, status>>

\* preflight_media_registered: the server's count of prompt tokens moves when an
\* image is added, or does not, or is not reported; or a probe fails.
Probe ==
  /\ pc = "prepared" /\ job.backend = "chat" /\ CarriesMedia
  /\ \E count \in {"moved", "same", "unreported", "failed"} :
       pc' = IF count \in {"moved", "unreported"} THEN "probed" ELSE "refused"
  /\ UNCHANGED <<job, wired, put, taken, early, sent, read, quiet, fold, status>>

\* Dialect::surface.
Served == job.backend \in job.dialect.serves

\* MediaClient::new or RealtimeClient::new.
OpenClient ==
  /\ \/ pc = "probed"
     \/ pc = "prepared" /\ ~(job.backend = "chat" /\ CarriesMedia)
  /\ pc' = IF Served THEN "ready" ELSE "refused"
  /\ UNCHANGED <<job, wired, put, taken, early, sent, read, quiet, fold, status>>

-----------------------------------------------------------------------------
(* The body. *)

\* ChatInputs::plan.
PlanFails ==
  \/ Parts(Modality) = {}
  \/ \E i \in Parts({"image", "audio", "video"}) :
       ~HasKey(job.inputs[i], job.dialect.media_input)

\* build_payload and turn_events: when there is nothing to send.
BuildFails ==
  CASE job.backend = "chat" ->
         \/ job.output = "image" /\ ~job.dialect.image_over_chat
         \/ PlanFails
    [] job.backend \in {"images", "speech"} ->
         Parts({"text"}) = {} \/ CarriesMedia
    [] job.backend = "edits" ->
         Parts({"text"}) = {} \/ Parts({"image"}) = {}
    [] job.backend = "videos" ->
         Parts({"audio"}) # {}
    [] job.backend \in {"transcriptions", "translations"} ->
         Parts({"audio"}) = {}
    [] job.backend = "realtime" ->
         \/ Parts({"image", "video"}) # {}
         \/ job.dialect.turn = "AudioBufferCommit" /\ Parts({"audio"}) = {}

\* A variant in which the upload takes the place of the conditioning fields.
WiredOneImage ==
  CASE job.backend = "chat"                -> DOMAIN job.inputs
    [] job.backend \in {"images", "speech"} -> Parts({"text"})
    [] job.backend = "edits"               -> Parts({"text"}) \cup First(Parts({"image"}))
    [] job.backend = "videos"              -> First(Parts({"image"}))
    [] job.backend \in {"transcriptions", "translations"} ->
         Parts({"text"}) \cup First(Parts({"audio"}))
    [] job.backend = "realtime"            -> DOMAIN job.inputs

\* The parts that build_payload and turn_events put into the request.  An upload
\* takes the first part of its kind, a conditioning field the last.
Wired ==
  CASE job.backend = "chat" -> DOMAIN job.inputs
    [] job.backend \in {"images", "speech"} -> Parts({"text"})
    [] job.backend = "edits" -> Parts({"text"}) \cup First(Parts({"image"}))
    [] job.backend = "videos" ->
         Parts({"text"}) \cup Last(Parts({"image"})) \cup Last(Parts({"video"}))
           \cup (IF job.dialect.multipart THEN First(Parts({"image"})) ELSE {})
    [] job.backend \in {"transcriptions", "translations"} ->
         Parts({"text"}) \cup First(Parts({"audio"}))
    [] job.backend = "realtime" ->
         IF job.dialect.turn = "ItemThenResponse" THEN DOMAIN job.inputs
                                                  ELSE Parts({"audio"})

\* How many events turn_events lists.
ClientEvents ==
  IF job.dialect.turn = "ItemThenResponse"
    THEN 3 ELSE 3 + Appends * Cardinality(Parts({"audio"}))

\* After which of them a server generates: response.create, or the first commit.
Trigger == IF job.dialect.turn = "ItemThenResponse" THEN 3 ELSE 2

EmptyFold == [chunks |-> 0, answered |-> FALSE, error |-> None, first |-> 0, last |-> 0]

\* MediaFold::fail keeps the first error.
FailWith(f, error) == IF f.error = None THEN [f EXCEPT !.error = error] ELSE f

\* run_multimodal_request up to the request.  media_failure needs no verdict.
Build ==
  /\ pc = "ready"
  /\ IF BuildFails
       THEN /\ fold' = FailWith(fold, "build")
            /\ status' = "FAILED" /\ pc' = "done"
            /\ UNCHANGED wired
       ELSE /\ wired' = Wired
            /\ pc' = IF job.backend = "realtime" THEN "connect"
                     ELSE IF job.backend = "chat" /\ job.output = "text" THEN "text"
                     ELSE "post"
            /\ UNCHANGED <<fold, status>>
  /\ UNCHANGED <<job, put, taken, early, sent, read, quiet>>

-----------------------------------------------------------------------------
(* The transport. *)

Realtime == job.backend = "realtime"

\* fold_response: how the answer of a surface is framed.
Framing ==
  CASE Realtime                       -> "socket"
    [] job.backend = "speech"         -> IF job.dialect.speech = "RawBytes" THEN "raw"
                                                                       ELSE "sse"
    [] job.backend = "chat"           -> IF job.output = "audio" THEN "sse" ELSE "json"
    [] job.backend = "videos"         -> IF job.dialect.raw_response THEN "body" ELSE "json"
    [] OTHER                          -> "json"

\* The surfaces that are read to the end before anything is looked at.
WholeBody == Framing \in {"json", "body"}

\* What most steps of the client leave alone, and what becomes of the fold.
Folded(f) == UNCHANGED <<job, wired, early, taken>> /\ fold' = f

\* send().await, and what its status says.
Post ==
  /\ pc = "post"
  /\ \/ pc' = "read" /\ Folded(fold)
     \/ pc' = "judge" /\ Folded(FailWith(fold, "http"))
  /\ UNCHANGED <<put, sent, read, quiet, status>>

\* connect_async under its timeout.
Connect ==
  /\ pc = "connect"
  /\ \/ pc' = "send" /\ UNCHANGED status /\ Folded(fold)
     \/ pc' = "done" /\ status' = "FAILED" /\ Folded(FailWith(fold, "connect"))
  /\ UNCHANGED <<put, sent, read, quiet>>

Closed == sent # <<>> /\ sent[Len(sent)] \in {"done", "eof", "cut"}
Broken == sent # <<>> /\ sent[Len(sent)] \in {"eof", "cut"}

\* One socket.send().await of run_step; the clock starts with the last.
Put ==
  /\ pc = "send" /\ ~Broken
  /\ put < ClientEvents /\ put - taken < SocketCap
  /\ put' = put + 1
  /\ pc' = IF put + 1 = ClientEvents THEN "read" ELSE "send"
  /\ Folded(fold)
  /\ UNCHANGED <<sent, read, quiet, status>>

PutFails ==
  /\ pc = "send" /\ Broken
  /\ pc' = "judge"
  /\ Folded(FailWith(fold, "send"))
  /\ UNCHANGED <<put, sent, read, quiet, status>>

\* The server takes a client event.
Take ==
  /\ pc \in {"send", "read"} /\ taken < put
  /\ taken' = taken + 1
  /\ UNCHANGED <<job, pc, wired, put, early, sent, read, quiet, fold, status>>

\* What a server may put into an answer of this framing.
Items ==
  CASE Framing = "raw"    -> {"payload", "envelope"}
    [] Framing = "body"   -> {"payload", "envelope"}
    [] Framing = "socket" -> {"payload", "blank", "envelope"}
                               \cup (IF job.output = "text" THEN {} ELSE {"bad"})
    [] OTHER              -> {"payload", "blank", "bad", "envelope"}

Ends == IF Framing \in {"sse", "socket"} THEN {"done", "eof", "cut"} ELSE {"eof", "cut"}

\* One text, or one body, cannot hold two.
Room == IF Framing = "body" \/ (Framing = "json" /\ job.output = "text") THEN 1 ELSE MaxItems

Open == (pc = "read" \/ (pc = "send" /\ Realtime)) /\ ~Closed

\* A server generates once the turn asks it to; it may fail or go at any time.
Serve(item) ==
  /\ Open
  /\ item \in Items \cup Ends
  /\ item \in Items => Len(sent) < Room
  /\ Realtime /\ item \in {"payload", "blank", "bad", "done"} => taken >= Trigger
  /\ sent' = Append(sent, item)
  /\ early' = (early \/ (pc = "send" /\ item = "payload"))
  /\ UNCHANGED <<job, pc, wired, put, taken, read, quiet, fold, status>>

\* Pings, comments and events of no interest.
Noise ==
  /\ Open /\ Framing \in {"sse", "socket"} /\ quiet
  /\ quiet' = FALSE
  /\ UNCHANGED <<job, pc, wired, put, taken, early, sent, read, fold, status>>

-----------------------------------------------------------------------------
(* The answer. *)

\* read_images: a dialect without a declared shape finds nothing.
Readable ==
  CASE job.output = "image" -> job.dialect.reads_images
    [] job.output = "video" -> Framing = "body" \/ job.dialect.reads_videos
    [] OTHER                -> TRUE

\* A variant that takes the end of the stream to be its terminator, come what may.
DispositionLenient(item) ==
  CASE item \in {"done", "eof", "cut"} -> "end"
    [] item = "bad"                    -> "fail"
    [] item = "payload"                -> IF Readable THEN "absorb" ELSE "skip"
    [] item = "blank" -> IF Framing = "json" /\ job.output = "text" THEN "answer" ELSE "skip"
    [] item = "envelope"               -> "skip"

\* What fold_raw_audio, fold_sse, read_turn and absorb_json_media do with an item.
Disposition(item) ==
  CASE item \in {"done", "eof"} -> "end"
    [] item \in {"cut", "bad"}  -> "fail"
    [] item = "payload"         -> IF Readable THEN "absorb" ELSE "skip"
    [] item = "blank"           -> IF Framing = "json" /\ job.output = "text"
                                     THEN "answer" ELSE "skip"
    [] item = "envelope"        -> CASE Framing \in {"raw", "body"}    -> "absorb"
                                     [] Framing = "sse"                -> "skip"
                                     [] Framing \in {"json", "socket"} -> "fail"

\* MediaFold::absorb, at the place of the item in the answer.
Absorb(f, at) ==
  [f EXCEPT !.chunks = @ + 1, !.first = IF @ = 0 THEN at ELSE @, !.last = at]

\* A body that was cut, or that carries an error message, is not looked into.
BodyRefused ==
  /\ WholeBody
  /\ \/ sent[Len(sent)] = "cut"
     \/ Framing = "json" /\ \E i \in DOMAIN sent : sent[i] = "envelope"

\* A variant that counts the refused body itself.
ReadPastTheBody ==
  /\ pc = "read" /\ WholeBody /\ Closed /\ BodyRefused
  /\ read' = Len(sent) + 1 /\ pc' = "judge"
  /\ Folded(FailWith(fold, "body"))
  /\ UNCHANGED <<put, sent, quiet, status>>

ReadBodyRefused ==
  /\ pc = "read" /\ WholeBody /\ Closed /\ BodyRefused
  /\ read' = Len(sent) /\ pc' = "judge"
  /\ Folded(FailWith(fold, "body"))
  /\ UNCHANGED <<put, sent, quiet, status>>

ReadItem ==
  /\ pc = "read" /\ read < Len(sent)
  /\ WholeBody => Closed /\ ~BodyRefused
  /\ read' = read + 1 /\ quiet' = FALSE
  /\ LET does == Disposition(sent[read + 1]) IN
     \/ does = "skip" /\ pc' = pc /\ Folded(fold)
     \/ does = "answer" /\ pc' = pc /\ Folded([fold EXCEPT !.answered = TRUE])
     \/ does = "absorb" /\ pc' = pc /\ Folded(Absorb(fold, read + 1))
     \/ does = "end" /\ pc' = "judge" /\ Folded(fold)
     \/ does = "fail" /\ pc' = "judge" /\ Folded(FailWith(fold, "item"))
  /\ UNCHANGED <<put, sent, status>>

\* The idle timer runs while nothing is left to read; a whole body has none.
Idle == pc = "read" /\ ~WholeBody /\ read = Len(sent)

Tick ==
  /\ Idle /\ ~quiet
  /\ quiet' = TRUE
  /\ Folded(fold) /\ UNCHANGED <<pc, put, sent, read, status>>

IdleTimeout ==
  /\ Idle /\ quiet
  /\ pc' = "judge"
  /\ Folded(FailWith(fold, "idle")) /\ UNCHANGED <<put, sent, read, quiet, status>>

\* A variant whose timeout ends with the headers.
TimeoutUntilHeaders ==
  /\ pc = "post"
  /\ pc' = "judge"
  /\ Folded(FailWith(fold, "total")) /\ UNCHANGED <<put, sent, read, quiet, status>>

\* The timeout of reqwest over the whole exchange; a realtime turn has none.
TotalTimeout ==
  /\ pc \in {"post", "read"} /\ ~Realtime
  /\ pc' = "judge"
  /\ Folded(FailWith(fold, "total")) /\ UNCHANGED <<put, sent, read, quiet, status>>

Succeeds == fold.error = None /\ (fold.answered \/ fold.chunks > 0)

\* The end of both run_step: the verdict, and the artifact of an HTTP surface.
Judge ==
  /\ pc = "judge" /\ pc' = "done"
  /\ \/ Succeeds /\ status' = "SUCCESS" /\ Folded(fold)
     \/ /\ Succeeds /\ ~Realtime /\ job.keep
        /\ status' = "FAILED" /\ Folded(FailWith(fold, "persist"))
     \/ ~Succeeds /\ status' = "FAILED" /\ Folded(FailWith(fold, "nothing"))
  /\ UNCHANGED <<put, sent, read, quiet>>

-----------------------------------------------------------------------------
Init ==
  /\ job \in Jobs
  /\ pc = "load" /\ wired = {}
  /\ put = 0 /\ taken = 0 /\ early = FALSE
  /\ sent = <<>> /\ read = 0 /\ quiet = FALSE
  /\ fold = EmptyFold /\ status = None

Stop == pc \in Final /\ UNCHANGED vars

Client ==
  \/ Prepare \/ Probe \/ OpenClient \/ Build
  \/ Post \/ Connect \/ Put \/ PutFails
  \/ ReadBodyRefused \/ ReadItem \/ Tick \/ IdleTimeout \/ Judge

Server == Take \/ Noise \/ \E item \in {"payload", "blank", "bad", "envelope", "done", "eof",
                                        "cut"} : Serve(item)

Next == Client \/ TotalTimeout \/ Server \/ Stop

\* The client is scheduled and its timers fire; the server owes nothing.
Fairness == WF_vars(Client) /\ WF_vars(TotalTimeout)

Spec == Init /\ [][Next]_vars /\ Fairness

-----------------------------------------------------------------------------
(* Properties. *)

\* Every variable keeps its type.
TypeOK ==
  /\ job \in Jobs
  /\ pc \in {"load", "prepared", "probed", "ready", "post", "connect", "send", "read",
             "judge"} \cup Final
  /\ early \in BOOLEAN /\ quiet \in BOOLEAN
  /\ wired \subseteq DOMAIN job.inputs
  /\ put \in Nat /\ taken \in Nat /\ taken <= put
  /\ sent \in Seq({"payload", "blank", "bad", "envelope", "done", "eof", "cut"})
  /\ read \in 0 .. Len(sent)
  /\ fold \in [chunks : Nat, answered : BOOLEAN, first : Nat, last : Nat,
               error : {None, "build", "connect", "http", "send", "body", "item", "idle",
                        "total", "persist", "nothing"}]
  /\ status \in {None, "SUCCESS", "FAILED"}

Heard(kinds) == {i \in 1 .. read : sent[i] \in kinds}

\* What a fold counts where the bytes themselves are the answer: an error message
\* behind a 2xx passes for media there, and only there.
Counted == IF Framing \in {"raw", "body"} THEN Heard({"payload", "envelope"})
                                          ELSE Heard({"payload"})

\* A success has read its answer to a clean end, without an item that could not be
\* decoded, and has counted every payload of it, the first and the last at their
\* places.  An error message behind a 2xx is a failure, except where bytes are
\* taken as they come and in a stream of events, which skips it.
SuccessIsTheWholeAnswer ==
  status = "SUCCESS" =>
    /\ read > 0 /\ sent[read] \in {"done", "eof"}
    /\ Heard({"bad", "cut"}) = {}
    /\ fold.chunks = Cardinality(Counted)
    /\ Counted # {} => {fold.first} = First(Counted) /\ {fold.last} = Last(Counted)
    /\ Counted = {} => Framing = "json" /\ job.output = "text"
    /\ Heard({"envelope"}) # {} => Framing \in {"raw", "body", "sse"}

\* What surface and dialect cannot do is told before the run starts, and not one
\* failed request at a time (multimodal.rs:89-91): a request that passed the gate
\* can be built, and its answer can be read.
ToldBeforeTheRun ==
  pc \in InFlight \cup {"text"} => fold.error # "build" /\ Readable

\* Every part of the inputs is in the request, except where the surface has no
\* place for it and nobody is told: an instruction outside chat, text in a turn of
\* appended audio, and all but the last or the first of several uploads.
DroppedInputsAreKnown ==
  pc \in InFlight \cup {"text"} /\ fold.error # "build" =>
    \A i \in DOMAIN job.inputs \ wired :
      \/ job.inputs[i] = "system" /\ job.backend # "chat"
      \/ job.inputs[i] = "text" /\ Realtime /\ job.dialect.turn = "AudioBufferCommit"
      \/ /\ job.backend \in {"edits", "videos", "transcriptions", "translations"}
         /\ \E j \in wired : j # i /\ job.inputs[j] = job.inputs[i]

\* The turn is only in flight once every client event is on the wire, so that the
\* response clock, which starts there, covers the whole answer
\* (realtime_client.rs:122-123).
ResponseClockComesFirst == ~early

\* The socket is full and the client, who does not read yet, waits for the server.
Stuck == pc = "send" /\ put - taken = SocketCap /\ ~Broken

\* Every request over HTTP ends.  A realtime turn ends too, unless the server stops
\* taking events while the client still sends, or makes noise for ever: nothing
\* bounds the turn as a whole.
RequestsEnd ==
  \/ <>(pc \in Final)
  \/ (job.backend = "realtime") /\ (<>[]Stuck \/ []<><<Noise>>_vars)
===============================================================================
