-------------------------- MODULE MCMetadataStore --------------------------
(* Two connections: two of C++, C++ beside Java, Python beside Java.        *)
(* Each plays every role, a pipeline, a search, a benchmark's batches, so   *)
(* that every call meets every other.                                       *)
EXTENDS MetadataStore

Pairs == {<<"cpp", "cpp">>, <<"java", "cpp">>, <<"python", "java">>}
Refused == {<<2, "b">>}
=============================================================================
