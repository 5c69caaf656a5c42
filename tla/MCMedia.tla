------------------------------- MODULE MCMedia -------------------------------
(* Bounds for TLC. *)
EXTENDS Media

\* One part of each kind, an instruction alone, before and after the rest, pairs
\* that a surface mixes, and two parts of one kind.
MCInputs ==
  { <<"text">>, <<"image">>, <<"audio">>, <<"video">>, <<"system">>,
    <<"system", "text">>, <<"text", "system">>, <<"text", "image">>, <<"text", "audio">>,
    <<"text", "image", "image">>, <<"audio", "audio">>, <<"system", "video">> }

MCRequests == [inputs : MCInputs, output : Modality]
===============================================================================
