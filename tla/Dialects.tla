------------------------------- MODULE Dialects -------------------------------
(***************************************************************************)
(* The dialect table (src/src/backend/dialect/): what each serving system  *)
(* answers, how it takes media, and how it frames what it generates.  Only *)
(* the axes that decide whether a request can be built, sent and read are  *)
(* kept; names of fields and of knobs are left out.                        *)
(***************************************************************************)
EXTENDS Naturals, Sequences, FiniteSets

\* A tensor is rejected wherever it turns up.
Modality == {"text", "image", "audio", "video"}

\* The parts of a request.  A system instruction counts as text.
Kind == Modality \cup {"system"}

ModalityOf(kind) == IF kind = "system" THEN "text" ELSE kind

Backends == {"chat", "images", "edits", "videos", "speech", "transcriptions",
             "translations", "realtime"}

DialectType ==
  [name : {"openai", "vllm", "vllm-omni", "sglang-omni", "mstar", "dynamo"},
   \* the surfaces with a suffix
   serves : SUBSET Backends,
   media_input : {"OpenAiParts", "UrlParts", "TopLevelLists"},
   \* image_modalities is Some, image_reads and video_reads are not empty
   image_over_chat : BOOLEAN, reads_images : BOOLEAN, reads_videos : BOOLEAN,
   speech : {"RawBytes", "SpeechSse"},
   multipart : BOOLEAN, raw_response : BOOLEAN,
   turn : {"ItemThenResponse", "AudioBufferCommit"}]

\* The suffixes that are not optional.
AlwaysServed == {"chat", "images", "speech"}

OPENAI ==
  [name |-> "openai",
   serves |-> AlwaysServed \cup {"edits", "videos", "transcriptions", "translations",
                                 "realtime"},
   media_input |-> "OpenAiParts",
   image_over_chat |-> FALSE, reads_images |-> TRUE, reads_videos |-> TRUE,
   speech |-> "RawBytes", multipart |-> FALSE, raw_response |-> FALSE,
   turn |-> "ItemThenResponse"]

VLLM ==
  [name |-> "vllm",
   serves |-> AlwaysServed \cup {"transcriptions", "translations"},
   media_input |-> "UrlParts",
   image_over_chat |-> FALSE, reads_images |-> FALSE, reads_videos |-> TRUE,
   speech |-> "RawBytes", multipart |-> FALSE, raw_response |-> FALSE,
   turn |-> "ItemThenResponse"]

VLLM_OMNI ==
  [name |-> "vllm-omni",
   serves |-> AlwaysServed \cup {"edits", "videos", "realtime"},
   media_input |-> "UrlParts",
   image_over_chat |-> TRUE, reads_images |-> TRUE, reads_videos |-> TRUE,
   speech |-> "SpeechSse", multipart |-> TRUE, raw_response |-> TRUE,
   turn |-> "AudioBufferCommit"]

SGLANG_OMNI ==
  [name |-> "sglang-omni",
   serves |-> AlwaysServed \cup {"transcriptions", "translations", "realtime"},
   media_input |-> "TopLevelLists",
   image_over_chat |-> FALSE, reads_images |-> TRUE, reads_videos |-> TRUE,
   speech |-> "RawBytes", multipart |-> FALSE, raw_response |-> FALSE,
   turn |-> "ItemThenResponse"]

MSTAR ==
  [name |-> "mstar",
   serves |-> AlwaysServed \cup {"edits", "videos"},
   media_input |-> "UrlParts",
   image_over_chat |-> TRUE, reads_images |-> TRUE, reads_videos |-> TRUE,
   speech |-> "RawBytes", multipart |-> FALSE, raw_response |-> FALSE,
   turn |-> "ItemThenResponse"]

DYNAMO ==
  [name |-> "dynamo",
   serves |-> AlwaysServed,
   media_input |-> "UrlParts",
   image_over_chat |-> TRUE, reads_images |-> TRUE, reads_videos |-> TRUE,
   speech |-> "RawBytes", multipart |-> FALSE, raw_response |-> FALSE,
   turn |-> "ItemThenResponse"]

\* dialect_for.
ALL == {OPENAI, VLLM, VLLM_OMNI, SGLANG_OMNI, MSTAR, DYNAMO}

\* accepted_input_modalities: OpenAI has no content part for video.
Expressible(dialect) ==
  IF dialect.media_input = "OpenAiParts" THEN Modality \ {"video"} ELSE Modality

\* media_key and media_list_key: the encoding has a name for this media.
HasKey(modality, encoding) ==
  CASE encoding = "UrlParts"      -> modality \in {"image", "audio", "video"}
    [] encoding = "OpenAiParts"   -> modality \in {"image", "audio"}
    [] encoding = "TopLevelLists" -> modality \in {"image", "audio", "video"}

\* prepare_multimodal_requests: the modalities a surface takes and gives.
AcceptedInputs(backend) ==
  CASE backend = "chat"                          -> Modality
    [] backend \in {"images", "speech"}          -> {"text"}
    [] backend = "edits"                         -> {"text", "image"}
    [] backend = "videos"                        -> {"text", "image", "video"}
    [] backend \in {"realtime", "transcriptions", "translations"} -> {"text", "audio"}

ProducedOutputs(backend) ==
  CASE backend = "chat"                               -> {"text", "image", "audio"}
    [] backend \in {"images", "edits"}                -> {"image"}
    [] backend = "speech"                             -> {"audio"}
    [] backend = "videos"                             -> {"video"}
    [] backend = "realtime"                           -> {"text", "audio"}
    [] backend \in {"transcriptions", "translations"} -> {"text"}
===============================================================================
