------------------------------- MODULE MCPipe -------------------------------
(***************************************************************************)
(* Instances of Pipe for TLC.                                              *)
(***************************************************************************)
EXTENDS Pipe

(* The source is a broker: the translation sets a filter of the trait      *)
(* knative, or two filters, one before the other.  Without a source, a     *)
(* Pipe is malformed.                                                      *)
SixSettings == {"source", "replicas", "knative", "two", "filter", "retlif"}
TheTraits == {{"knative", "filter", "retlif"}}
FiveSpecs == {{}, {"source"}, {"source", "replicas"}, {"source", "knative"}, {"source", "two"}}
TranslationsOf ==
  [s \in FiveSpecs |->
     CASE s = {}               -> {}
       [] s = {"source", "two"} -> {s \cup {"filter"}, s \cup {"retlif"}}
       [] OTHER                -> {s \cup {"filter"}}]
=============================================================================
