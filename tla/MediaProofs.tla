----------------------------- MODULE MediaProofs -----------------------------
(***************************************************************************)
(* Theorems about one request with media, for every request, every bound   *)
(* on the socket and on the answer, and whatever the server does.          *)
(***************************************************************************)
EXTENDS Media, FiniteSetTheorems, WellFoundedInduction, TLAPS

USE MediaAssumption

-----------------------------------------------------------------------------
(* The job. *)

\* Every dialect of the table has the type of one.
LEMMA DialectsTyped == ALL \subseteq DialectType
BY DEF ALL, DialectType, OPENAI, VLLM, VLLM_OMNI, SGLANG_OMNI, MSTAR, DYNAMO, AlwaysServed,
       Backends

\* What the requests of a trace say of a job.
LEMMA JobOK ==
  ASSUME job \in Jobs
  PROVE  /\ job.backend \in Backends /\ job.dialect \in ALL /\ job.dialect \in DialectType
         /\ job.inputs \in Seq(Kind) /\ job.output \in Modality /\ job.keep \in BOOLEAN
BY DialectsTyped DEF Jobs

\* Only parts of the inputs are put into a request.
LEMMA WiredType ==
  ASSUME job \in Jobs
  PROVE  Wired \subseteq DOMAIN job.inputs
<1>1. \A S : First(S) \subseteq S /\ Last(S) \subseteq S
  BY DEF First, Last
<1>2. \A kinds : Parts(kinds) \subseteq DOMAIN job.inputs
  BY DEF Parts
<1> HIDE DEF First, Last, Parts
<1>3. job.backend \in Backends
  BY JobOK
<1> QED BY <1>1, <1>2, <1>3, SMTT(30) DEF Wired, Backends

-----------------------------------------------------------------------------
(* Types. *)

Errors == {None, "build", "connect", "http", "send", "body", "item", "idle", "total",
           "persist", "nothing"}
FoldType == [chunks : Nat, answered : BOOLEAN, first : Nat, last : Nat, error : Errors]
Answers == {"payload", "blank", "bad", "envelope", "done", "eof", "cut"}

LEMMA FailWithType ==
  ASSUME NEW f \in FoldType, NEW error \in Errors \ {None}
  PROVE  /\ FailWith(f, error) \in FoldType
         /\ FailWith(f, error).error # None
         /\ f.error # None => FailWith(f, error) = f
         /\ f.error = None => FailWith(f, error).error = error
BY DEF FailWith, FoldType

LEMMA AbsorbType ==
  ASSUME NEW f \in FoldType, NEW at \in Nat
  PROVE  /\ Absorb(f, at) \in FoldType
         /\ Absorb(f, at).chunks = f.chunks + 1
         /\ Absorb(f, at).last = at
         /\ Absorb(f, at).first = (IF f.first = 0 THEN at ELSE f.first)
         /\ Absorb(f, at).error = f.error
         /\ Absorb(f, at).answered = f.answered
<1> DEFINE c == f.chunks + 1
           a == IF f.first = 0 THEN at ELSE f.first
           g == [f EXCEPT !.chunks = c, !.first = a, !.last = at]
<1>1. Absorb(f, at) = g
  BY DEF Absorb, FoldType
<1>2. c \in Nat /\ a \in Nat
  BY DEF FoldType
<1>3. c = f.chunks + 1 /\ a = (IF f.first = 0 THEN at ELSE f.first)
  OBVIOUS
<1> HIDE DEF c, a
<1>4. /\ g \in FoldType /\ g.chunks = c /\ g.first = a /\ g.last = at
      /\ g.error = f.error /\ g.answered = f.answered
  BY <1>2 DEF FoldType
<1> QED BY <1>1, <1>3, <1>4

LEMMA MediaInitType == Init => TypeOK
<1> SUFFICES ASSUME Init PROVE TypeOK
  OBVIOUS
<1>1. EmptyFold \in FoldType
  BY DEF EmptyFold, FoldType, Errors
<1>2. fold \in FoldType
  BY <1>1 DEF Init
<1>3. sent \in Seq(Answers) /\ read \in 0 .. Len(sent)
  BY DEF Init
<1>4. put \in Nat /\ taken \in Nat /\ taken <= put
  BY DEF Init
<1>5. wired \subseteq DOMAIN job.inputs
  BY DEF Init
<1>6. /\ early \in BOOLEAN /\ quiet \in BOOLEAN
      /\ job \in Jobs /\ pc = "load" /\ status = None
  BY DEF Init
<1> QED BY <1>2, <1>3, <1>4, <1>5, <1>6 DEF TypeOK, FoldType, Errors, Answers

\* A step keeps every type.
LEMMA MediaStepType == TypeOK /\ [Next]_vars => TypeOK'
<1> SUFFICES ASSUME TypeOK, [Next]_vars PROVE TypeOK'
  OBVIOUS
<1>T. /\ fold \in FoldType /\ sent \in Seq(Answers) /\ read \in 0 .. Len(sent)
      /\ job \in Jobs /\ put \in Nat /\ taken \in Nat /\ taken <= put
      /\ Len(sent) \in Nat
  BY DEF TypeOK, FoldType, Errors, Answers
<1>F. \A e \in Errors \ {None} : FailWith(fold, e) \in FoldType
  BY <1>T, FailWithType
<1>E. /\ "build" \in Errors \ {None} /\ "connect" \in Errors \ {None}
      /\ "http" \in Errors \ {None} /\ "send" \in Errors \ {None}
      /\ "body" \in Errors \ {None} /\ "item" \in Errors \ {None}
      /\ "idle" \in Errors \ {None} /\ "total" \in Errors \ {None}
      /\ "persist" \in Errors \ {None} /\ "nothing" \in Errors \ {None}
  BY DEF Errors, None
<1> DEFINE Goal ==
      /\ job' \in Jobs
      /\ pc' \in {"load", "prepared", "probed", "ready", "post", "connect", "send", "read",
                  "judge"} \cup Final
      /\ early' \in BOOLEAN /\ quiet' \in BOOLEAN
      /\ wired' \subseteq DOMAIN job'.inputs
      /\ put' \in Nat /\ taken' \in Nat /\ taken' <= put'
      /\ sent' \in Seq(Answers)
      /\ read' \in 0 .. Len(sent')
      /\ fold' \in FoldType
      /\ status' \in {None, "SUCCESS", "FAILED"}
<1>G. Goal => TypeOK'
  BY DEF TypeOK, FoldType, Errors, Answers
<1>0. CASE UNCHANGED vars
  BY <1>0 DEF vars, TypeOK
<1>1. CASE Prepare
  BY <1>1, <1>T, <1>G DEF Prepare, TypeOK, Final
<1>2. CASE Probe
  BY <1>2, <1>T, <1>G DEF Probe, TypeOK, Final
<1>3. CASE OpenClient
  BY <1>3, <1>T, <1>G DEF OpenClient, TypeOK, Final
<1>4. CASE Build
  <2>1. Wired \subseteq DOMAIN job.inputs
    BY <1>T, WiredType
  <2> QED BY <1>4, <2>1, <1>T, <1>F, <1>E, <1>G DEF Build, TypeOK, Final
<1>5. CASE Post
  BY <1>5, <1>T, <1>F, <1>E, <1>G DEF Post, Folded, TypeOK, Final
<1>6. CASE Connect
  BY <1>6, <1>T, <1>F, <1>E, <1>G DEF Connect, Folded, TypeOK, Final
<1>7. CASE Put
  BY <1>7, <1>T, <1>G DEF Put, Folded, TypeOK, Final
<1>8. CASE PutFails
  BY <1>8, <1>T, <1>F, <1>E, <1>G DEF PutFails, Folded, TypeOK, Final
<1>9. CASE ReadBodyRefused
  BY <1>9, <1>T, <1>F, <1>E, <1>G DEF ReadBodyRefused, Folded, TypeOK, Final
<1>10. CASE ReadItem
  <2>1. /\ pc = "read" /\ read < Len(sent) /\ read' = read + 1 /\ quiet' = FALSE
        /\ UNCHANGED <<put, sent, status>>
    BY <1>10 DEF ReadItem
  <2>2. /\ UNCHANGED <<job, wired, early, taken>>
        /\ pc' \in {"read", "judge"}
        /\ fold' \in {fold, [fold EXCEPT !.answered = TRUE], Absorb(fold, read + 1),
                      FailWith(fold, "item")}
    BY <1>10, <2>1 DEF ReadItem, Folded
  <2>3. Absorb(fold, read + 1) \in FoldType
    BY <1>T, AbsorbType
  <2>4. [fold EXCEPT !.answered = TRUE] \in FoldType
    BY <1>T DEF FoldType
  <2>5. fold' \in FoldType
    BY <2>2, <2>3, <2>4, <1>T, <1>F, <1>E
  <2>6. read' \in 0 .. Len(sent')
    BY <2>1, <1>T
  <2>7. job' \in Jobs /\ wired' \subseteq DOMAIN job'.inputs
    BY <2>2, <1>T DEF TypeOK
  <2>8. early' \in BOOLEAN /\ quiet' \in BOOLEAN
    BY <2>1, <2>2 DEF TypeOK
  <2>9. /\ put' \in Nat /\ taken' \in Nat /\ taken' <= put' /\ sent' \in Seq(Answers)
        /\ status' \in {None, "SUCCESS", "FAILED"}
    BY <2>1, <2>2, <1>T DEF TypeOK
  <2> QED BY <2>2, <2>5, <2>6, <2>7, <2>8, <2>9, <1>G
<1>11. CASE Tick
  BY <1>11, <1>T, <1>G DEF Tick, Folded, TypeOK, Final
<1>12. CASE IdleTimeout
  BY <1>12, <1>T, <1>F, <1>E, <1>G DEF IdleTimeout, Folded, TypeOK, Final
<1>13. CASE Judge
  BY <1>13, <1>T, <1>F, <1>E, <1>G DEF Judge, Folded, TypeOK, Final
<1>14. CASE TotalTimeout
  BY <1>14, <1>T, <1>F, <1>E, <1>G DEF TotalTimeout, Folded, TypeOK, Final
<1>15. CASE Take
  BY <1>15, <1>T, <1>G DEF Take, TypeOK, Final
<1>16. CASE Noise
  <2>1. /\ quiet' = FALSE
        /\ UNCHANGED <<job, pc, wired, put, taken, early, sent, read, fold, status>>
    BY <1>16 DEF Noise
  <2>2. early' \in BOOLEAN /\ quiet' \in BOOLEAN
    BY <2>1 DEF TypeOK
  <2> QED BY <2>1, <2>2, <1>T, <1>G DEF TypeOK
<1>17. ASSUME NEW item \in Answers, Serve(item) PROVE TypeOK'
  <2>1. sent' = Append(sent, item) /\ early' \in BOOLEAN
        /\ UNCHANGED <<job, pc, wired, put, taken, read, quiet, fold, status>>
    BY <1>17, <1>T DEF Serve, TypeOK
  <2>2. sent' \in Seq(Answers) /\ Len(sent') = Len(sent) + 1
    BY <2>1, <1>T
  <2> QED BY <2>1, <2>2, <1>T, <1>G DEF TypeOK
<1>18. CASE Stop
  BY <1>18 DEF Stop, vars, TypeOK
<1> QED BY <1>0, <1>1, <1>2, <1>3, <1>4, <1>5, <1>6, <1>7, <1>8, <1>9, <1>10, <1>11, <1>12,
           <1>13, <1>14, <1>15, <1>16, <1>17, <1>18 DEF Next, Client, Server, Answers

\* Every variable of a request keeps its type, whatever the server does.
THEOREM MediaTypes == Spec => []TypeOK
<1> QED BY MediaInitType, MediaStepType, PTL DEF Spec

-----------------------------------------------------------------------------
(* The gate. *)

LEMMA LeastOf ==
  ASSUME NEW S, S \subseteq Nat, S # {}
  PROVE  First(S) # {} /\ First(S) \subseteq S
<1>1. PICK x \in S : \A y \in S : ~(<<y, x>> \in OpToRel(<, Nat))
  BY WFMin, NatLessThanWellFounded, Zenon
<1>2. \A y \in S : ~(y < x)
  BY <1>1, Zenon DEF OpToRel
<1>3. \A y \in S : x <= y
  BY <1>2
<1> QED BY <1>3 DEF First

LEMMA GreatestOf ==
  ASSUME NEW S, NEW n \in Nat, S \subseteq 1 .. n, S # {}
  PROVE  Last(S) # {} /\ Last(S) \subseteq S
<1> DEFINE T == {m \in 0 .. n : n - m \in S}
<1>1. T # {}
  <2>1. PICK s \in S : TRUE
    OBVIOUS
  <2>2. n - s \in T
    BY <2>1
  <2> QED BY <2>2
<1>2. T \subseteq Nat
  OBVIOUS
<1>3. \E x \in T : \A y \in T : x <= y
  <2> HIDE DEF T
  <2>1. First(T) # {} /\ First(T) \subseteq T
    BY <1>1, <1>2, LeastOf
  <2> QED BY <2>1 DEF First
<1>4. PICK x \in T : \A y \in T : x <= y
  BY <1>3
<1>5. \A s \in S : s <= n - x
  <2> SUFFICES ASSUME NEW s \in S PROVE s <= n - x
    OBVIOUS
  <2>1. n - s \in T
    OBVIOUS
  <2>2. x \in Nat /\ s \in Nat
    BY <1>2, <1>4
  <2>3. x <= n - s
    <3> HIDE DEF T
    <3> QED BY <2>1, <1>4
  <2> QED BY <2>2, <2>3
<1>6. n - x \in S
  BY <1>4
<1> QED BY <1>5, <1>6 DEF Last

\* What the table says of every dialect.
LEMMA DialectFacts ==
  ASSUME NEW d \in ALL
  PROVE  /\ d.image_over_chat => d.reads_images
         /\ d.reads_videos
         /\ ~d.reads_images => d.name = "vllm" /\ "edits" \notin d.serves
BY DEF ALL, OPENAI, VLLM, VLLM_OMNI, SGLANG_OMNI, MSTAR, DYNAMO, AlwaysServed

\* A request without the part that its surface lives from.
MissingPart ==
  \/ job.backend = "chat" /\ Parts(Modality) = {}
  \/ job.backend \in {"images", "speech", "edits"} /\ Parts({"text"}) = {}
  \/ job.backend = "edits" /\ Parts({"image"}) = {}
  \/ job.backend \in {"transcriptions", "translations"} /\ Parts({"audio"}) = {}
  \/ Realtime /\ job.dialect.turn = "AudioBufferCommit" /\ Parts({"audio"}) = {}

\* An image from a dialect that generates none over chat.
NoImageOverChat ==
  job.backend = "chat" /\ job.output = "image" /\ ~job.dialect.image_over_chat

\* What a surface takes, part by part.
LEMMA Accepted ==
  ASSUME job \in Jobs, Supported, NEW i \in DOMAIN job.inputs
  PROVE  /\ job.inputs[i] \in Kind
         /\ job.backend \in {"images", "speech"} => job.inputs[i] \in {"text", "system"}
         /\ job.backend = "edits" => job.inputs[i] \in {"text", "system", "image"}
         /\ job.backend = "videos" => job.inputs[i] \in {"text", "system", "image", "video"}
         /\ job.backend \in {"transcriptions", "translations", "realtime"} =>
              job.inputs[i] \in {"text", "system", "audio"}
         /\ job.inputs[i] \in {"image", "audio", "video"} =>
              HasKey(job.inputs[i], job.dialect.media_input)
<1>1. /\ job.inputs[i] \in Kind /\ job.backend \in Backends
      /\ job.dialect.media_input \in {"OpenAiParts", "UrlParts", "TopLevelLists"}
  BY JobOK DEF DialectType
<1>2. /\ ModalityOf(job.inputs[i]) \in AcceptedInputs(job.backend)
      /\ ModalityOf(job.inputs[i]) \in Expressible(job.dialect)
  BY DEF Supported
<1>3. /\ job.inputs[i] = "system" \/ ModalityOf(job.inputs[i]) = job.inputs[i]
      /\ job.inputs[i] = "system" => ModalityOf(job.inputs[i]) = "text"
  BY DEF ModalityOf
<1>4. /\ AcceptedInputs("images") = {"text"} /\ AcceptedInputs("speech") = {"text"}
      /\ AcceptedInputs("edits") = {"text", "image"}
      /\ AcceptedInputs("videos") = {"text", "image", "video"}
      /\ AcceptedInputs("realtime") = {"text", "audio"}
      /\ AcceptedInputs("transcriptions") = {"text", "audio"}
      /\ AcceptedInputs("translations") = {"text", "audio"}
  BY DEF AcceptedInputs
<1>5. ASSUME job.inputs[i] \in {"image", "audio", "video"}
      PROVE  HasKey(job.inputs[i], job.dialect.media_input)
  <2>1. job.inputs[i] \in Expressible(job.dialect)
    BY <1>2, <1>3, <1>5
  <2> QED BY <1>1, <1>5, <2>1 DEF Expressible, HasKey
<1> QED BY <1>1, <1>2, <1>3, <1>4, <1>5 DEF Kind, Modality

\* What a surface may be asked to generate.
LEMMA Produced ==
  ASSUME job \in Jobs, Supported
  PROVE  /\ job.output = "image" => job.backend \in {"chat", "images", "edits"}
         /\ job.output = "video" => job.backend = "videos"
         /\ job.backend = "videos" => job.output = "video"
         /\ job.backend = "speech" => job.output = "audio"
<1>1. job.backend \in Backends /\ job.output \in ProducedOutputs(job.backend)
  BY JobOK DEF Supported
<1>2. /\ ProducedOutputs("chat") = {"text", "image", "audio"}
      /\ ProducedOutputs("images") = {"image"} /\ ProducedOutputs("edits") = {"image"}
      /\ ProducedOutputs("speech") = {"audio"} /\ ProducedOutputs("videos") = {"video"}
      /\ ProducedOutputs("realtime") = {"text", "audio"}
      /\ ProducedOutputs("transcriptions") = {"text"}
      /\ ProducedOutputs("translations") = {"text"}
  BY DEF ProducedOutputs
<1> QED BY <1>1, <1>2 DEF Backends

\* A request that the gate admits and that cannot be built lacks a part, or asks
\* a chat for an image that it cannot generate.
LEMMA OnlyMissingParts ==
  ASSUME job \in Jobs, Supported, BuildFails
  PROVE  MissingPart \/ NoImageOverChat
<1>1. job.backend \in Backends
  BY JobOK
<1>2. \A kinds : \A i \in Parts(kinds) : i \in DOMAIN job.inputs /\ job.inputs[i] \in kinds
  BY DEF Parts
<1>3. CASE job.backend = "chat"
  <2>1. \A i \in Parts({"image", "audio", "video"}) :
          HasKey(job.inputs[i], job.dialect.media_input)
    BY <1>2, Accepted
  <2> QED BY <1>3, <2>1 DEF BuildFails, PlanFails, MissingPart, NoImageOverChat
<1>4. CASE job.backend \in {"images", "speech"}
  <2>1. Parts({"image", "audio", "video"}) = {}
    BY <1>2, <1>4, Accepted
  <2> QED BY <1>4, <2>1 DEF BuildFails, CarriesMedia, MissingPart
<1>5. CASE job.backend = "edits"
  BY <1>5 DEF BuildFails, MissingPart
<1>6. CASE job.backend = "videos"
  <2>1. Parts({"audio"}) = {}
    BY <1>2, <1>6, Accepted
  <2> QED BY <1>6, <2>1 DEF BuildFails
<1>7. CASE job.backend \in {"transcriptions", "translations"}
  BY <1>7 DEF BuildFails, MissingPart
<1>8. CASE job.backend = "realtime"
  <2>1. Parts({"image", "video"}) = {}
    BY <1>2, <1>8, Accepted
  <2> QED BY <1>8, <2>1 DEF BuildFails, MissingPart, Realtime
<1> QED BY <1>1, <1>3, <1>4, <1>5, <1>6, <1>7, <1>8 DEF Backends

\* What can be built can be read, but for the images of the one dialect.
LEMMA OnlyTheUnreadDialect ==
  ASSUME job \in Jobs, Supported, Served, ~BuildFails
  PROVE  Readable \/ (job.dialect.name = "vllm" /\ job.backend = "images")
<1>1. job.dialect \in ALL /\ job.output \in Modality
  BY JobOK
<1>2. CASE job.output = "image"
  <2>1. job.backend = "chat" => job.dialect.image_over_chat
    BY <1>2 DEF BuildFails
  <2> QED BY <1>1, <1>2, <2>1, DialectFacts, Produced DEF Readable, Served
<1>3. CASE job.output = "video"
  BY <1>1, <1>3, DialectFacts DEF Readable
<1>4. CASE job.output \notin {"image", "video"}
  BY <1>4 DEF Readable
<1> QED BY <1>2, <1>3, <1>4

\* The parts that are not in the request have no place in it.
LEMMA OnlyKnownDrops ==
  ASSUME job \in Jobs, Supported, NEW i \in DOMAIN job.inputs \ Wired
  PROVE  \/ job.inputs[i] = "system" /\ job.backend # "chat"
         \/ job.inputs[i] = "text" /\ Realtime /\ job.dialect.turn = "AudioBufferCommit"
         \/ /\ job.backend \in {"edits", "videos", "transcriptions", "translations"}
            /\ \E j \in Wired : j # i /\ job.inputs[j] = job.inputs[i]
<1>1. job.backend \in Backends /\ job.dialect.turn \in {"ItemThenResponse", "AudioBufferCommit"}
  BY JobOK DEF DialectType
<1>2. /\ DOMAIN job.inputs = 1 .. Len(job.inputs) /\ Len(job.inputs) \in Nat
      /\ i \in DOMAIN job.inputs /\ i \notin Wired
  BY JobOK
<1>3. \A kind : job.inputs[i] = kind =>
        /\ i \in Parts({kind}) /\ Parts({kind}) # {}
        /\ \A j \in Parts({kind}) : job.inputs[j] = job.inputs[i]
        /\ Parts({kind}) \subseteq 1 .. Len(job.inputs)
  BY <1>2 DEF Parts
<1>4. \A kind : job.inputs[i] = kind =>
        /\ First(Parts({kind})) # {} /\ Last(Parts({kind})) # {}
        /\ \A j \in First(Parts({kind})) \cup Last(Parts({kind})) :
             job.inputs[j] = job.inputs[i]
  <2> SUFFICES ASSUME NEW kind, job.inputs[i] = kind
               PROVE  /\ First(Parts({kind})) # {} /\ Last(Parts({kind})) # {}
                      /\ \A j \in First(Parts({kind})) \cup Last(Parts({kind})) :
                           job.inputs[j] = job.inputs[i]
    OBVIOUS
  <2>1. Parts({kind}) \subseteq Nat
    BY <1>2, <1>3
  <2>2. First(Parts({kind})) # {} /\ First(Parts({kind})) \subseteq Parts({kind})
    BY <2>1, <1>3, LeastOf
  <2>3. Last(Parts({kind})) # {} /\ Last(Parts({kind})) \subseteq Parts({kind})
    BY <1>2, <1>3, GreatestOf
  <2> QED BY <2>2, <2>3, <1>3
<1>5. CASE job.backend = "chat"
  BY <1>5, <1>2 DEF Wired
<1>6. CASE job.backend \in {"images", "speech"}
  <2>1. Wired = Parts({"text"})
    BY <1>6 DEF Wired
  <2> QED BY <1>2, <1>3, <1>6, <2>1, Accepted
<1>7. CASE job.backend = "edits"
  <2>1. Wired = Parts({"text"}) \cup First(Parts({"image"}))
    BY <1>7 DEF Wired
  <2> QED BY <1>2, <1>3, <1>4, <1>7, <2>1, Accepted
<1>8. CASE job.backend = "videos"
  <2>1. /\ Parts({"text"}) \subseteq Wired /\ Last(Parts({"image"})) \subseteq Wired
        /\ Last(Parts({"video"})) \subseteq Wired
    BY <1>8 DEF Wired
  <2> QED BY <1>2, <1>3, <1>4, <1>8, <2>1, Accepted
<1>9. CASE job.backend \in {"transcriptions", "translations"}
  <2>1. Wired = Parts({"text"}) \cup First(Parts({"audio"}))
    BY <1>9 DEF Wired
  <2> QED BY <1>2, <1>3, <1>4, <1>9, <2>1, Accepted
<1>10. CASE job.backend = "realtime"
  <2>1. Wired = IF job.dialect.turn = "ItemThenResponse" THEN DOMAIN job.inputs
                                                         ELSE Parts({"audio"})
    BY <1>10 DEF Wired
  <2> QED BY <1>1, <1>2, <1>3, <1>10, <2>1, Accepted DEF Realtime
<1> QED BY <1>1, <1>5, <1>6, <1>7, <1>8, <1>9, <1>10 DEF Backends

-----------------------------------------------------------------------------
(* What the gate has established, wherever the client is. *)

Ahead == {"load", "prepared", "probed", "ready", "refused", "text"}

GateInv ==
  /\ pc \notin {"load", "refused"} => Supported
  /\ pc \in {"ready", "text"} \cup InFlight => Served
  /\ pc \in {"text"} \cup (InFlight \ {"done"}) => ~BuildFails
  /\ pc = "done" /\ BuildFails => fold.error = "build"
  /\ pc \in {"text"} \cup InFlight => wired = Wired \/ fold.error = "build"
  /\ pc \in Ahead => fold.error = None
  /\ fold.error = "build" => BuildFails /\ pc = "done"

\* The job of a request never changes, and with it all that is read off it.
LEMMA JobIsFixed ==
  ASSUME job' = job
  PROVE  /\ Supported' <=> Supported
         /\ Served' <=> Served
         /\ BuildFails' <=> BuildFails
         /\ Wired' = Wired
BY DEF Supported, Served, BuildFails, PlanFails, CarriesMedia, Wired, Parts, First, Last

LEMMA GateInit == Init => GateInv
BY DEF Init, GateInv, EmptyFold, InFlight, Ahead, None

\* Which way the client goes, and what each step may do to the error of the fold.
LEMMA GateStep == TypeOK /\ GateInv /\ [Next]_vars => GateInv'
<1> SUFFICES ASSUME TypeOK, GateInv, [Next]_vars PROVE GateInv'
  OBVIOUS
<1>T. fold \in FoldType
  BY DEF TypeOK, FoldType, Errors
<1>J. job' = job
  BY DEF Next, Client, Server, Stop, vars, Prepare, Probe, OpenClient, Build, Post, Connect,
         Put, PutFails, ReadBodyRefused, ReadItem, Tick, IdleTimeout, Judge, TotalTimeout,
         Take, Noise, Serve, Folded
<1>K. /\ Supported' <=> Supported
      /\ Served' <=> Served
      /\ BuildFails' <=> BuildFails
      /\ Wired' = Wired
  BY <1>J, JobIsFixed
<1>F. \A e \in Errors \ {None, "build"} :
        fold.error # "build" => FailWith(fold, e).error # "build"
  BY <1>T, FailWithType
<1>E. /\ "connect" \in Errors \ {None, "build"} /\ "http" \in Errors \ {None, "build"}
      /\ "send" \in Errors \ {None, "build"} /\ "body" \in Errors \ {None, "build"}
      /\ "item" \in Errors \ {None, "build"} /\ "idle" \in Errors \ {None, "build"}
      /\ "total" \in Errors \ {None, "build"} /\ "persist" \in Errors \ {None, "build"}
      /\ "nothing" \in Errors \ {None, "build"}
  BY DEF Errors, None
<1>0. CASE UNCHANGED vars
  BY <1>0, <1>K DEF vars, GateInv
<1>1. CASE Prepare
  BY <1>1, <1>K DEF Prepare, GateInv, InFlight, Ahead
<1>2. CASE Probe
  BY <1>2, <1>K DEF Probe, GateInv, InFlight, Ahead
<1>3. CASE OpenClient
  BY <1>3, <1>K DEF OpenClient, GateInv, InFlight, Ahead
<1>4. CASE Build
  <2>1. CASE BuildFails
    <3>1. pc' = "done" /\ fold' = FailWith(fold, "build") /\ fold.error = None
      BY <1>4, <2>1 DEF Build, GateInv, Ahead
    <3>2. fold'.error = "build"
      BY <3>1, <1>T, FailWithType DEF Errors, None
    <3> QED BY <3>1, <3>2, <1>4, <2>1, <1>K DEF Build, GateInv, InFlight, Ahead
  <2>2. CASE ~BuildFails
    BY <1>4, <2>2, <1>K DEF Build, GateInv, InFlight, Ahead
  <2> QED BY <2>1, <2>2
<1>5. ASSUME pc \in InFlight \ {"done"}, pc' \in InFlight, UNCHANGED wired,
             fold'.error # "build"
      PROVE  GateInv'
  BY <1>5, <1>K DEF GateInv, InFlight, Ahead
<1>6. pc \in InFlight \ {"done"} => fold.error # "build"
  BY DEF GateInv, InFlight
<1>7. CASE Post
  BY <1>7, <1>5, <1>6, <1>F, <1>E DEF Post, Folded, InFlight
<1>8. CASE Connect
  BY <1>8, <1>5, <1>6, <1>F, <1>E DEF Connect, Folded, InFlight
<1>9. CASE Put
  BY <1>9, <1>5, <1>6 DEF Put, Folded, InFlight
<1>10. CASE PutFails
  BY <1>10, <1>5, <1>6, <1>F, <1>E DEF PutFails, Folded, InFlight
<1>11. CASE ReadBodyRefused
  BY <1>11, <1>5, <1>6, <1>F, <1>E DEF ReadBodyRefused, Folded, InFlight
<1>12. CASE ReadItem
  <2>1. /\ pc = "read" /\ pc' \in {"read", "judge"} /\ UNCHANGED wired
        /\ fold' \in {fold, [fold EXCEPT !.answered = TRUE], Absorb(fold, read + 1),
                      FailWith(fold, "item")}
    BY <1>12 DEF ReadItem, Folded
  <2>2. Absorb(fold, read + 1).error = fold.error
    <3>1. read + 1 \in Nat
      BY DEF TypeOK
    <3> QED BY <1>T, <3>1, AbsorbType
  <2>3. [fold EXCEPT !.answered = TRUE].error = fold.error
    BY <1>T DEF FoldType
  <2> QED BY <2>1, <2>2, <2>3, <1>5, <1>6, <1>F, <1>E DEF InFlight
<1>13. CASE Tick
  BY <1>13, <1>5, <1>6 DEF Tick, Idle, Folded, InFlight
<1>14. CASE IdleTimeout
  BY <1>14, <1>5, <1>6, <1>F, <1>E DEF IdleTimeout, Idle, Folded, InFlight
<1>15. CASE Judge
  BY <1>15, <1>5, <1>6, <1>F, <1>E DEF Judge, Folded, InFlight
<1>16. CASE TotalTimeout
  BY <1>16, <1>5, <1>6, <1>F, <1>E DEF TotalTimeout, Folded, InFlight
<1>17. CASE Server
  BY <1>17, <1>K DEF Server, Take, Noise, Serve, GateInv
<1>18. CASE Stop
  BY <1>18, <1>0 DEF Stop
<1> QED BY <1>0, <1>1, <1>2, <1>3, <1>4, <1>7, <1>8, <1>9, <1>10, <1>11, <1>12, <1>13, <1>14,
           <1>15, <1>16, <1>17, <1>18 DEF Next, Client

\* Where the claim of multimodal.rs:89-91 does not hold, completely: what the gate
\* lets through and cannot be built lacks a part, or asks a chat for an image that it
\* cannot generate, and what is sent and cannot be read is an image of the one
\* dialect without a shape for it.
THEOREM GateLeavesTheseGaps ==
  Spec => [](/\ fold.error = "build" => MissingPart \/ NoImageOverChat
             /\ (pc \in InFlight \cup {"text"} /\ fold.error # "build" /\ ~Readable) =>
                  job.dialect.name = "vllm" /\ job.backend = "images")
<1>1. ASSUME TypeOK, GateInv
      PROVE  /\ fold.error = "build" => MissingPart \/ NoImageOverChat
             /\ (pc \in InFlight \cup {"text"} /\ fold.error # "build" /\ ~Readable) =>
                  job.dialect.name = "vllm" /\ job.backend = "images"
  <2>1. job \in Jobs
    BY <1>1 DEF TypeOK
  <2>2. fold.error = "build" => MissingPart \/ NoImageOverChat
    BY <1>1, <2>1, OnlyMissingParts DEF GateInv
  <2>3. ASSUME pc \in InFlight \cup {"text"}, fold.error # "build"
        PROVE  Readable \/ (job.dialect.name = "vllm" /\ job.backend = "images")
    BY <1>1, <2>1, <2>3, OnlyTheUnreadDialect DEF GateInv, InFlight
  <2> QED BY <2>2, <2>3
<1> QED BY <1>1, MediaInitType, MediaStepType, GateInit, GateStep, PTL DEF Spec

\* Every part of the inputs is in the request that is sent, but for the three kinds
\* of parts for which a surface has no place.
THEOREM DropsAreKnown == Spec => []DroppedInputsAreKnown
<1>1. TypeOK /\ GateInv => DroppedInputsAreKnown
  <2> SUFFICES ASSUME TypeOK, GateInv, pc \in InFlight \cup {"text"}, fold.error # "build",
                      NEW i \in DOMAIN job.inputs \ wired
               PROVE  \/ job.inputs[i] = "system" /\ job.backend # "chat"
                      \/ job.inputs[i] = "text" /\ Realtime
                           /\ job.dialect.turn = "AudioBufferCommit"
                      \/ /\ job.backend \in {"edits", "videos", "transcriptions",
                                             "translations"}
                         /\ \E j \in wired : j # i /\ job.inputs[j] = job.inputs[i]
    BY DEF DroppedInputsAreKnown
  <2>1. job \in Jobs /\ Supported /\ wired = Wired
    BY DEF TypeOK, GateInv, InFlight
  <2> QED BY <2>1, OnlyKnownDrops
<1> QED BY <1>1, MediaInitType, MediaStepType, GateInit, GateStep, PTL DEF Spec

-----------------------------------------------------------------------------
(* The response clock. *)

ClockInv ==
  /\ early => Realtime /\ job.dialect.turn = "AudioBufferCommit"
  /\ pc \in Ahead \cup {"post", "connect"} => put = 0
  /\ pc \in {"connect", "send"} => Realtime
  /\ pc = "send" /\ job.dialect.turn = "ItemThenResponse" => put < 3

LEMMA ClockInit == Init => ClockInv
BY DEF Init, ClockInv

LEMMA ClockStep == TypeOK /\ ClockInv /\ [Next]_vars => ClockInv'
<1> SUFFICES ASSUME TypeOK, ClockInv, [Next]_vars PROVE ClockInv'
  OBVIOUS
<1>T. /\ put \in Nat /\ taken \in Nat /\ taken <= put
      /\ job.dialect.turn \in {"ItemThenResponse", "AudioBufferCommit"}
  BY JobOK DEF TypeOK, DialectType
<1>J. ASSUME job' = job
      PROVE  (CarriesMedia' <=> CarriesMedia) /\ (Realtime' <=> Realtime)
  BY <1>J DEF CarriesMedia, Realtime, Parts
<1>0. CASE UNCHANGED vars
  BY <1>0, <1>J DEF vars, ClockInv
<1>1. CASE Prepare
  BY <1>1, <1>J DEF Prepare, ClockInv, Ahead
<1>2. CASE Probe
  BY <1>2, <1>J DEF Probe, ClockInv, Ahead
<1>3. CASE OpenClient
  BY <1>3, <1>J DEF OpenClient, ClockInv, Ahead
<1>4. CASE Build
  BY <1>4, <1>J DEF Build, ClockInv, Ahead, Realtime
<1>5. CASE Post
  BY <1>5, <1>J DEF Post, Folded, ClockInv, Ahead
<1>6. CASE Connect
  BY <1>6, <1>J DEF Connect, Folded, ClockInv, Ahead
<1>7. CASE Put
  <2>1. /\ pc = "send" /\ put' = put + 1 /\ put < ClientEvents
        /\ pc' = IF put + 1 = ClientEvents THEN "read" ELSE "send"
        /\ UNCHANGED <<job, early>>
    BY <1>7 DEF Put, Folded
  <2>2. job.dialect.turn = "ItemThenResponse" => ClientEvents = 3
    BY DEF ClientEvents
  <2> QED BY <2>1, <2>2, <1>T, <1>J DEF ClockInv, Ahead
<1>8. CASE PutFails \/ ReadBodyRefused \/ ReadItem \/ Tick \/ IdleTimeout \/ TotalTimeout
  BY <1>8, <1>J DEF PutFails, ReadBodyRefused, ReadItem, Tick, IdleTimeout, TotalTimeout, Idle,
                    Folded, ClockInv, Ahead
<1>9. CASE Judge
  BY <1>9, <1>J DEF Judge, Folded, ClockInv, Ahead
<1>10. CASE Take \/ Noise
  BY <1>10, <1>J DEF Take, Noise, ClockInv
<1>11. ASSUME NEW item \in Answers, Serve(item) PROVE ClockInv'
  <2>1. /\ UNCHANGED <<job, pc, put>>
        /\ early' => early \/ (pc = "send" /\ item = "payload" /\ Realtime
                                 /\ taken >= Trigger)
    BY <1>11 DEF Serve, Open
  <2>2. job.dialect.turn = "ItemThenResponse" => Trigger = 3
    BY DEF Trigger
  <2>3. early' => Realtime /\ job.dialect.turn = "AudioBufferCommit"
    BY <2>1, <2>2, <1>T DEF ClockInv
  <2> QED BY <2>1, <2>3, <1>J DEF ClockInv
<1>12. CASE Stop
  BY <1>12, <1>0 DEF Stop
<1> QED BY <1>0, <1>1, <1>2, <1>3, <1>4, <1>5, <1>6, <1>7, <1>8, <1>9, <1>10, <1>11, <1>12
        DEF Next, Client, Server, Answers

\* Where the claim of realtime_client.rs:122-123 does not hold: only in a turn of
\* appended audio is a payload sent before the response clock starts, for every
\* size of the socket and of the audio.
THEOREM OnlyAppendedAudioIsEarly ==
  Spec => [](early => Realtime /\ job.dialect.turn = "AudioBufferCommit")
<1>1. ClockInv => (early => Realtime /\ job.dialect.turn = "AudioBufferCommit")
  BY DEF ClockInv
<1> QED BY <1>1, MediaInitType, MediaStepType, ClockInit, ClockStep, PTL DEF Spec

-----------------------------------------------------------------------------
(* The answer. *)

\* What a fold without an error says of the part of the answer that was read.
FoldIsExact ==
  /\ Heard({"bad", "cut"}) = {}
  /\ Heard({"envelope"}) # {} => Framing \in {"raw", "body", "sse"}
  /\ Readable =>
       /\ fold.chunks = Cardinality(Counted)
       /\ Counted = {} => fold.first = 0
       /\ Counted # {} => {fold.first} = First(Counted) /\ {fold.last} = Last(Counted)
  /\ ~Readable => fold.chunks = 0
  /\ fold.answered => Framing = "json" /\ job.output = "text"

FoldInv ==
  /\ pc \in Ahead \cup {"post", "connect", "send"} => read = 0 /\ fold = EmptyFold
  /\ fold.error = None => FoldIsExact
  /\ fold.error = None /\ pc \in {"judge", "done"} => read > 0 /\ sent[read] \in {"done", "eof"}
  /\ status = "SUCCESS" => /\ pc = "done" /\ fold.error = None
                           /\ fold.answered \/ fold.chunks > 0

LEMMA FramingIsFixed ==
  ASSUME job' = job
  PROVE  (Framing' = Framing) /\ (Readable' <=> Readable)
<1>1. Framing' = Framing
  BY DEF Framing, Realtime
<1> QED BY <1>1 DEF Readable

\* Where bytes are taken as they come, the output is one that can be read.
LEMMA BytesAreReadable ==
  ASSUME job \in Jobs, Supported, Framing \in {"raw", "body"}
  PROVE  Readable
<1>1. job.backend \in Backends /\ job.output \in Modality
  BY JobOK
<1>2. /\ Framing = "raw" => job.backend = "speech"
      /\ Framing = "body" => job.backend = "videos"
  BY <1>1 DEF Framing, Realtime, Backends
<1>3. job.output # "image"
  BY <1>2, Produced
<1>4. CASE job.output = "video"
  <2>1. Framing = "body"
    BY <1>2, <1>4, Produced
  <2> QED BY <1>4, <2>1 DEF Readable
<1>5. CASE job.output \notin {"image", "video"}
  BY <1>5 DEF Readable
<1> QED BY <1>3, <1>4, <1>5

\* Counting one more.
LEMMA OneMore ==
  ASSUME NEW n \in Nat, NEW S, S \subseteq 1 .. n
  PROVE  /\ IsFiniteSet(S) /\ Cardinality(S) \in Nat
         /\ Cardinality(S \cup {n + 1}) = Cardinality(S) + 1
         /\ Last(S \cup {n + 1}) = {n + 1}
         /\ S = {} => First(S \cup {n + 1}) = {n + 1}
         /\ S # {} => First(S \cup {n + 1}) = First(S)
<1>1. IsFiniteSet(S)
  <2>1. IsFiniteSet(1 .. n)
    BY FS_Interval
  <2> QED BY <2>1, FS_Subset
<1>2. Cardinality(S) \in Nat /\ Cardinality(S \cup {n + 1}) = Cardinality(S) + 1
  <2>1. n + 1 \notin S
    OBVIOUS
  <2> QED BY <1>1, <2>1, FS_CardinalityType, FS_AddElement
<1>3. \A i \in S : i <= n /\ i \in Nat
  OBVIOUS
<1>4. Last(S \cup {n + 1}) = {n + 1}
  <2>1. n + 1 \in Last(S \cup {n + 1})
    BY <1>3 DEF Last
  <2>2. \A i \in S : ~(n + 1 <= i)
    BY <1>3
  <2>3. \A i \in S : i \notin Last(S \cup {n + 1})
    BY <2>2 DEF Last
  <2> QED BY <2>1, <2>3 DEF Last
<1>5. S = {} => First(S \cup {n + 1}) = {n + 1}
  BY DEF First
<1>6. S # {} => First(S \cup {n + 1}) = First(S)
  <2> SUFFICES ASSUME S # {} PROVE First(S \cup {n + 1}) = First(S)
    OBVIOUS
  <2>1. n + 1 \notin First(S \cup {n + 1})
    <3>1. PICK i \in S : i <= n /\ i \in Nat
      BY <1>3
    <3>2. ~(n + 1 <= i)
      BY <3>1
    <3> QED BY <3>1, <3>2 DEF First
  <2>2. \A i \in S : i \in First(S \cup {n + 1}) <=> i \in First(S)
    BY <1>3 DEF First
  <2> QED BY <2>1, <2>2 DEF First
<1> QED BY <1>1, <1>2, <1>4, <1>5, <1>6

\* What was heard is numbered by the places read.
LEMMA HeardOK ==
  /\ \A kinds : Heard(kinds) \subseteq 1 .. read
  /\ Counted \subseteq 1 .. read
BY DEF Heard, Counted

\* The answer may grow; what was read of it stays.
LEMMA FoldKept ==
  ASSUME FoldIsExact, job' = job, read' = read, fold' = fold,
         \A i \in 1 .. read : sent'[i] = sent[i]
  PROVE  FoldIsExact'
<1>1. \A kinds : Heard(kinds)' = Heard(kinds)
  BY DEF Heard
<1>2. (Framing' = Framing) /\ (Readable' <=> Readable)
  BY FramingIsFixed
<1>3. Counted' = Counted
  BY <1>1, <1>2 DEF Counted
<1> QED BY <1>1, <1>2, <1>3 DEF FoldIsExact, First, Last

Counts(item) == item = "payload" \/ (item = "envelope" /\ Framing \in {"raw", "body"})

\* One more item is read, and what was counted grows by it or not at all.
LEMMA OneMoreHeard ==
  ASSUME TypeOK, read < Len(sent), job' = job, sent' = sent, read' = read + 1
  PROVE  /\ sent[read + 1] \in Answers
         /\ \A kinds : Heard(kinds)' = IF sent[read + 1] \in kinds THEN Heard(kinds) \cup {read + 1}
                                                                 ELSE Heard(kinds)
         /\ Counted' = IF Counts(sent[read + 1]) THEN Counted \cup {read + 1} ELSE Counted
<1>1. read \in Nat /\ Len(sent) \in Nat /\ sent \in Seq(Answers)
  BY DEF TypeOK, Answers
<1>2. sent[read + 1] \in Answers
  BY <1>1
<1>3. \A kinds : Heard(kinds)' = IF sent[read + 1] \in kinds THEN Heard(kinds) \cup {read + 1}
                                                           ELSE Heard(kinds)
  <2> TAKE kinds
  <2>1. 1 .. read' = (1 .. read) \cup {read + 1}
    BY <1>1
  <2> QED BY <2>1 DEF Heard
<1>4. Framing' = Framing
  BY FramingIsFixed
<1>5. Counted' = IF Counts(sent[read + 1]) THEN Counted \cup {read + 1} ELSE Counted
  <2>1. CASE Framing \in {"raw", "body"}
    BY <1>3, <1>4, <2>1 DEF Counted, Counts
  <2>2. CASE Framing \notin {"raw", "body"}
    BY <1>3, <1>4, <2>2 DEF Counted, Counts
  <2> QED BY <2>1, <2>2
<1> QED BY <1>2, <1>3, <1>5

\* What is done with an item, by its kind.
LEMMA ItemByItem ==
  ASSUME TypeOK, ReadItem, NEW item \in Answers, item = sent[read + 1]
  PROVE  /\ item = "payload" => fold' = (IF Readable THEN Absorb(fold, read + 1) ELSE fold)
                                /\ pc' = "read"
         /\ item = "blank" => pc' = "read" /\
              fold' = IF Framing = "json" /\ job.output = "text"
                        THEN [fold EXCEPT !.answered = TRUE] ELSE fold
         /\ item \in {"done", "eof"} => fold' = fold /\ pc' = "judge"
         /\ item \in {"cut", "bad"} => fold' = FailWith(fold, "item") /\ pc' = "judge"
         /\ item = "envelope" =>
              CASE Framing \in {"raw", "body"} -> fold' = Absorb(fold, read + 1) /\ pc' = "read"
                [] Framing = "sse" -> fold' = fold /\ pc' = "read"
                [] OTHER -> fold' = FailWith(fold, "item") /\ pc' = "judge"
<1>1. Framing \in {"socket", "raw", "sse", "json", "body"}
  BY DEF Framing
<1>2. /\ pc = "read"
      /\ \/ Disposition(item) = "skip" /\ pc' = pc /\ fold' = fold
         \/ Disposition(item) = "answer" /\ pc' = pc /\ fold' = [fold EXCEPT !.answered = TRUE]
         \/ Disposition(item) = "absorb" /\ pc' = pc /\ fold' = Absorb(fold, read + 1)
         \/ Disposition(item) = "end" /\ pc' = "judge" /\ fold' = fold
         \/ Disposition(item) = "fail" /\ pc' = "judge" /\ fold' = FailWith(fold, "item")
  BY DEF ReadItem, Folded
<1>3. item = "payload" => Disposition(item) = IF Readable THEN "absorb" ELSE "skip"
  BY DEF Disposition
<1>4. item = "blank" =>
        Disposition(item) = IF Framing = "json" /\ job.output = "text" THEN "answer" ELSE "skip"
  BY DEF Disposition
<1>5. /\ item \in {"done", "eof"} => Disposition(item) = "end"
      /\ item \in {"cut", "bad"} => Disposition(item) = "fail"
  BY DEF Disposition
<1>6. item = "envelope" =>
        /\ Framing \in {"raw", "body"} => Disposition(item) = "absorb"
        /\ Framing = "sse" => Disposition(item) = "skip"
        /\ Framing \in {"json", "socket"} => Disposition(item) = "fail"
  BY <1>1 DEF Disposition
<1> QED BY <1>1, <1>2, <1>3, <1>4, <1>5, <1>6

\* Reading an item keeps the fold exact.
LEMMA ReadKeepsFold ==
  ASSUME TypeOK, GateInv, FoldIsExact, ReadItem, fold'.error = None
  PROVE  FoldIsExact' /\ (pc' = "judge" => sent[read + 1] \in {"done", "eof"})
<1> DEFINE item == sent[read + 1]
           at == read + 1
<1>1. /\ pc = "read" /\ read < Len(sent) /\ read' = read + 1 /\ sent' = sent /\ job' = job
      /\ read \in Nat /\ fold \in FoldType /\ job \in Jobs /\ Supported
  BY DEF ReadItem, Folded, TypeOK, FoldType, Errors, GateInv
<1>2. /\ item \in Answers
      /\ \A kinds : Heard(kinds)' = IF item \in kinds THEN Heard(kinds) \cup {at} ELSE Heard(kinds)
      /\ Counted' = IF Counts(item) THEN Counted \cup {at} ELSE Counted
  BY <1>1, OneMoreHeard
<1>3. (Framing' = Framing) /\ (Readable' <=> Readable) /\ job'.output = job.output
  BY <1>1, FramingIsFixed
<1>4. /\ item = "payload" => fold' = (IF Readable THEN Absorb(fold, at) ELSE fold)
                             /\ pc' = "read"
      /\ item = "blank" => pc' = "read" /\
           fold' = IF Framing = "json" /\ job.output = "text"
                     THEN [fold EXCEPT !.answered = TRUE] ELSE fold
      /\ item \in {"done", "eof"} => fold' = fold /\ pc' = "judge"
      /\ item \in {"cut", "bad"} => fold' = FailWith(fold, "item") /\ pc' = "judge"
      /\ item = "envelope" =>
           CASE Framing \in {"raw", "body"} -> fold' = Absorb(fold, at) /\ pc' = "read"
             [] Framing = "sse" -> fold' = fold /\ pc' = "read"
             [] OTHER -> fold' = FailWith(fold, "item") /\ pc' = "judge"
  BY <1>2, ItemByItem
<1>5. FailWith(fold, "item").error # None
  BY <1>1, FailWithType DEF Errors, None
<1>6. item \notin {"bad", "cut"} /\ (item = "envelope" => Framing \in {"raw", "body", "sse"})
  BY <1>4, <1>5
<1>7. /\ Absorb(fold, at).chunks = fold.chunks + 1
      /\ Absorb(fold, at).last = at
      /\ Absorb(fold, at).first = (IF fold.first = 0 THEN at ELSE fold.first)
      /\ Absorb(fold, at).answered = fold.answered
  <2>1. at \in Nat
    BY <1>1
  <2> HIDE DEF at
  <2> QED BY <1>1, <2>1, AbsorbType
<1>8. /\ [fold EXCEPT !.answered = TRUE].chunks = fold.chunks
      /\ [fold EXCEPT !.answered = TRUE].first = fold.first
      /\ [fold EXCEPT !.answered = TRUE].last = fold.last
  BY <1>1 DEF FoldType
<1> HIDE DEF item, at
<1>9. Counts(item) /\ Readable => fold' = Absorb(fold, at)
  BY <1>4 DEF Counts
<1>10. Counts(item) /\ ~Readable => fold' = fold
  BY <1>1, <1>4, BytesAreReadable DEF Counts
<1>11. ~Counts(item) => /\ fold'.chunks = fold.chunks /\ fold'.first = fold.first
                        /\ fold'.last = fold.last
  BY <1>2, <1>4, <1>6, <1>8 DEF Counts, Answers
<1>12. Heard({"bad", "cut"})' = {}
  BY <1>2, <1>6 DEF FoldIsExact
<1>13. Heard({"envelope"})' # {} => Framing \in {"raw", "body", "sse"}
  BY <1>2, <1>6 DEF FoldIsExact
<1>14. fold'.answered => Framing = "json" /\ job.output = "text"
  BY <1>2, <1>4, <1>6, <1>7 DEF FoldIsExact, Answers
<1>15. ~Readable => fold'.chunks = 0
  BY <1>10, <1>11 DEF FoldIsExact
<1>16. ASSUME Readable
       PROVE  /\ fold'.chunks = Cardinality(Counted')
              /\ Counted' = {} => fold'.first = 0
              /\ Counted' # {} => {fold'.first} = First(Counted') /\ {fold'.last} = Last(Counted')
  <2>1. /\ fold.chunks = Cardinality(Counted)
        /\ Counted = {} => fold.first = 0
        /\ Counted # {} => {fold.first} = First(Counted) /\ {fold.last} = Last(Counted)
    BY <1>16 DEF FoldIsExact
  <2>2. CASE Counts(item)
    <3>1. Counted' = Counted \cup {at} /\ fold' = Absorb(fold, at)
      BY <1>2, <1>9, <1>16, <2>2
    <3>2. /\ Cardinality(Counted \cup {at}) = Cardinality(Counted) + 1
          /\ Last(Counted \cup {at}) = {at}
          /\ Counted = {} => First(Counted \cup {at}) = {at}
          /\ Counted # {} => First(Counted \cup {at}) = First(Counted)
      BY <1>1, HeardOK, OneMore DEF at
    <3>3. Counted # {} => fold.first # 0
      <4>1. First(Counted) \subseteq 1 .. read
        BY HeardOK DEF First
      <4>2. Counted # {} => fold.first \in 1 .. read
        BY <2>1, <4>1
      <4> QED BY <4>2, <1>1
    <3>4. fold'.chunks = Cardinality(Counted')
      BY <3>1, <3>2, <2>1, <1>7
    <3>5. {fold'.last} = Last(Counted')
      BY <3>1, <3>2, <1>7
    <3>6. {fold'.first} = First(Counted')
      BY <3>1, <3>2, <3>3, <2>1, <1>7
    <3>7. Counted' # {}
      BY <3>1
    <3> QED BY <3>4, <3>5, <3>6, <3>7
  <2>3. CASE ~Counts(item)
    BY <1>2, <1>11, <2>1, <2>3
  <2> QED BY <2>2, <2>3
<1>17. FoldIsExact'
  BY <1>3, <1>12, <1>13, <1>14, <1>15, <1>16 DEF FoldIsExact, First, Last
<1>18. pc' = "judge" => item \in {"done", "eof"}
  BY <1>2, <1>4, <1>6 DEF Answers
<1> QED BY <1>17, <1>18 DEF item

LEMMA FoldInit == Init => FoldInv
<1> SUFFICES ASSUME Init PROVE FoldInv
  OBVIOUS
<1>1. /\ fold = EmptyFold /\ read = 0 /\ pc = "load" /\ status = None
      /\ fold.chunks = 0 /\ fold.first = 0 /\ fold.answered = FALSE
  BY DEF Init, EmptyFold
<1>2. \A kinds : Heard(kinds) = {}
  BY <1>1 DEF Heard
<1>3. Counted = {}
  BY <1>2 DEF Counted
<1>4. Cardinality(Counted) = 0
  BY <1>3, FS_EmptySet
<1>5. FoldIsExact
  BY <1>1, <1>2, <1>3, <1>4 DEF FoldIsExact
<1> QED BY <1>1, <1>5 DEF FoldInv, None

LEMMA FoldStep == TypeOK /\ GateInv /\ FoldInv /\ [Next]_vars => FoldInv'
<1> SUFFICES ASSUME TypeOK, GateInv, FoldInv, [Next]_vars PROVE FoldInv'
  OBVIOUS
<1>T. /\ fold \in FoldType /\ read \in Nat /\ sent \in Seq(Answers) /\ Len(sent) \in Nat
      /\ read <= Len(sent)
  BY DEF TypeOK, FoldType, Errors, Answers
<1>F. \A e \in Errors \ {None} : FailWith(fold, e).error # None
  BY <1>T, FailWithType
<1>E. /\ "build" \in Errors \ {None} /\ "connect" \in Errors \ {None}
      /\ "http" \in Errors \ {None} /\ "send" \in Errors \ {None}
      /\ "body" \in Errors \ {None} /\ "item" \in Errors \ {None}
      /\ "idle" \in Errors \ {None} /\ "total" \in Errors \ {None}
      /\ "persist" \in Errors \ {None} /\ "nothing" \in Errors \ {None}
  BY DEF Errors, None
<1>K. ASSUME UNCHANGED <<job, fold, read, sent>>, fold.error = None
      PROVE  FoldIsExact'
  BY <1>K, FoldKept DEF FoldInv
<1>0. CASE UNCHANGED vars
  BY <1>0, <1>K DEF vars, FoldInv
\* A step before the answer, which leaves the fold empty and nothing read.
<1>1. ASSUME UNCHANGED <<job, fold, read, sent>>, pc' # "done", pc' # "judge",
             status' # "SUCCESS",
             pc' \in Ahead \cup {"post", "connect", "send"} =>
               pc \in Ahead \cup {"post", "connect", "send"}
      PROVE  FoldInv'
  BY <1>1, <1>K DEF FoldInv
\* A step that fails.
<1>2. ASSUME fold'.error # None, pc' \in {"judge", "done"}, status' # "SUCCESS"
      PROVE  FoldInv'
  BY <1>2 DEF FoldInv, Ahead
<1>3. pc # "done" => status # "SUCCESS"
  BY DEF FoldInv
<1>4. CASE Prepare \/ Probe \/ OpenClient
  BY <1>4, <1>1, <1>3 DEF Prepare, Probe, OpenClient, Ahead
<1>5. CASE Build
  <2>1. CASE BuildFails
    BY <1>5, <2>1, <1>2, <1>F, <1>E DEF Build
  <2>2. CASE ~BuildFails
    BY <1>5, <2>2, <1>1, <1>3 DEF Build, Ahead
  <2> QED BY <2>1, <2>2
<1>6. CASE Post
  <2>1. CASE pc' = "read"
    BY <1>6, <2>1, <1>1, <1>3 DEF Post, Folded, Ahead
  <2>2. CASE pc' # "read"
    BY <1>6, <2>2, <1>2, <1>3, <1>F, <1>E DEF Post, Folded
  <2> QED BY <2>1, <2>2
<1>7. CASE Connect
  <2>1. CASE pc' = "send"
    BY <1>7, <2>1, <1>1, <1>3 DEF Connect, Folded
  <2>2. CASE pc' # "send"
    BY <1>7, <2>2, <1>2, <1>F, <1>E DEF Connect, Folded
  <2> QED BY <2>1, <2>2
<1>8. CASE Put
  BY <1>8, <1>1, <1>3 DEF Put, Folded
<1>9. CASE PutFails \/ ReadBodyRefused \/ IdleTimeout \/ TotalTimeout
  BY <1>9, <1>2, <1>3, <1>F, <1>E
  DEF PutFails, ReadBodyRefused, IdleTimeout, Idle, TotalTimeout, Folded
<1>10. CASE ReadItem
  <2>1. /\ pc = "read" /\ pc' \in {"read", "judge"} /\ read' = read + 1
        /\ UNCHANGED <<sent, status>>
        /\ fold' \in {fold, [fold EXCEPT !.answered = TRUE], Absorb(fold, read + 1),
                      FailWith(fold, "item")}
    BY <1>10 DEF ReadItem, Folded
  <2>2. fold'.error = None => fold.error = None
    <3>1. Absorb(fold, read + 1).error = fold.error
      <4>1. read + 1 \in Nat
        BY <1>T
      <4> QED BY <1>T, <4>1, AbsorbType
    <3>2. [fold EXCEPT !.answered = TRUE].error = fold.error
      BY <1>T DEF FoldType
    <3> QED BY <2>1, <3>1, <3>2, <1>F, <1>E
  <2>3. ASSUME fold'.error = None
        PROVE  FoldIsExact' /\ (pc' = "judge" => sent'[read'] \in {"done", "eof"})
    BY <1>10, <2>1, <2>2, <2>3, ReadKeepsFold DEF FoldInv
  <2>4. read' > 0
    BY <2>1, <1>T
  <2> QED BY <2>1, <2>3, <2>4, <1>3 DEF FoldInv, Ahead
<1>11. CASE Tick
  BY <1>11, <1>1, <1>3 DEF Tick, Idle, Folded, Ahead
<1>12. CASE Judge
  <2>1. CASE fold'.error # None
    <3>1. status' = "FAILED" /\ pc' = "done"
      BY <1>12, <2>1 DEF Judge, Folded, Succeeds
    <3> QED BY <2>1, <3>1, <1>2
  <2>2. CASE fold'.error = None
    <3>1. /\ Succeeds /\ pc = "judge" /\ pc' = "done"
          /\ UNCHANGED <<job, fold, read, sent>>
      BY <1>12, <2>2, <1>F, <1>E DEF Judge, Folded
    <3> QED BY <3>1, <1>K DEF FoldInv, Succeeds, Ahead
  <2> QED BY <2>1, <2>2
<1>13. CASE Take
  BY <1>13, <1>1, <1>3 DEF Take
<1>14. CASE Noise
  <2>1. pc # "judge" /\ pc # "done"
    BY <1>14 DEF Noise, Open
  <2> QED BY <1>14, <2>1, <1>1, <1>3 DEF Noise
<1>15. ASSUME NEW item \in Answers, Serve(item) PROVE FoldInv'
  <2>1. /\ pc \in {"read", "send"} /\ sent' = Append(sent, item)
        /\ UNCHANGED <<job, pc, read, fold, status>>
    BY <1>15 DEF Serve, Open
  <2>2. \A i \in 1 .. read : sent'[i] = sent[i]
    BY <2>1, <1>T
  <2>3. fold.error = None => FoldIsExact'
    BY <2>1, <2>2, FoldKept DEF FoldInv
  <2> QED BY <2>1, <2>3 DEF FoldInv
<1>16. CASE Stop
  BY <1>16, <1>0 DEF Stop
<1> QED BY <1>0, <1>4, <1>5, <1>6, <1>7, <1>8, <1>9, <1>10, <1>11, <1>12, <1>13, <1>14, <1>15,
           <1>16 DEF Next, Client, Server, Answers

\* A success has read its answer to a clean end, has met nothing that could not be
\* decoded, and has counted every payload of it, with the first and the last at
\* their places: for every request, and for an answer of every length.
THEOREM SuccessIsWhole == Spec => []SuccessIsTheWholeAnswer
<1>1. TypeOK /\ GateInv /\ FoldInv => SuccessIsTheWholeAnswer
  <2> SUFFICES ASSUME TypeOK, FoldInv, status = "SUCCESS"
               PROVE  /\ read > 0 /\ sent[read] \in {"done", "eof"}
                      /\ Heard({"bad", "cut"}) = {}
                      /\ fold.chunks = Cardinality(Counted)
                      /\ Counted # {} => /\ {fold.first} = First(Counted)
                                         /\ {fold.last} = Last(Counted)
                      /\ Counted = {} => Framing = "json" /\ job.output = "text"
                      /\ Heard({"envelope"}) # {} => Framing \in {"raw", "body", "sse"}
    BY DEF SuccessIsTheWholeAnswer
  <2>1. /\ pc = "done" /\ fold.error = None /\ FoldIsExact
        /\ fold.answered \/ fold.chunks > 0
        /\ read > 0 /\ sent[read] \in {"done", "eof"}
    BY DEF FoldInv
  <2>2. Readable
    <3> SUFFICES ASSUME ~Readable PROVE FALSE
      OBVIOUS
    <3>1. fold.chunks = 0
      BY <2>1 DEF FoldIsExact
    <3>2. job.output = "text"
      BY <2>1, <3>1 DEF FoldIsExact
    <3> QED BY <3>2 DEF Readable
  <2>3. Counted = {} => Framing = "json" /\ job.output = "text"
    <3> SUFFICES ASSUME Counted = {} PROVE Framing = "json" /\ job.output = "text"
      OBVIOUS
    <3>1. fold.chunks = 0
      BY <2>1, <2>2, FS_EmptySet DEF FoldIsExact
    <3> QED BY <2>1, <3>1 DEF FoldIsExact
  <2> QED BY <2>1, <2>2, <2>3 DEF FoldIsExact
<1> QED BY <1>1, MediaInitType, MediaStepType, GateInit, GateStep, FoldInit, FoldStep, PTL
        DEF Spec

===============================================================================
