---- MODULE MCStreaming ----
(* Model values for the streaming runs. *)
EXTENDS ProviderHttpServer, TLC

CONSTANTS s1, s2

MCSessions == {s1, s2}
OneSession == {s1}
MCSymmetry == Permutations(MCSessions)
====
