--------------------------- MODULE MCModelGateway ---------------------------
(***************************************************************************)
(* Instances of ModelGateway for TLC.                                      *)
(***************************************************************************)
EXTENDS ModelGateway, TLC

CONSTANTS p1, e1, e2, m1, m2

OwnerOf == [h \in Hosts |-> p1]

\* Two quantizations of one model, and another model.
ThreeIds ==
    {[vendor |-> "v", family |-> "f", size |-> "7b", revision |-> "", quantization |-> "q4"],
     [vendor |-> "v", family |-> "f", size |-> "7b", revision |-> "", quantization |-> "q8"],
     [vendor |-> "v", family |-> "g", size |-> "7b", revision |-> "", quantization |-> ""]}

\* m1 is wanted by everybody, m2 before it by those who want tools.
TwoContents ==
    {[labels |-> {}, agents |-> {}, priority |-> 2, model |-> m1, fallback |-> m2],
     [labels |-> {"tools"}, agents |-> {"coder"}, priority |-> 1, model |-> m2, fallback |-> None]}

TwoContexts == {[labels |-> {"tools"}, agent |-> "coder"], [labels |-> {}, agent |-> "chat"]}

\* m1 is on both endpoints, its fallback m2 on the second one.
ThreeBindings ==
    {[model |-> m1, endpoint |-> e, enabled |-> TRUE, level |-> "exact_revision",
      credential |-> TRUE, protocol |-> "openai"] : e \in {e1, e2}} \union
    {[model |-> m2, endpoint |-> e2, enabled |-> TRUE, level |-> "exact_revision",
      credential |-> FALSE, protocol |-> "ollama"]}

FallbackOf == [m \in Models |-> IF m = m1 THEN m2 ELSE None]
=============================================================================
