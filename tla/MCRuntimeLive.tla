--------------------------- MODULE MCRuntimeLive ---------------------------
(* What the runtime's coordinator and the takeover beside it must get done.     *)
(* They share no state: `part` says which of them a behaviour is about, and of  *)
(* the coordinator it is one of two kinds of behaviours at a time.  No part     *)
(* keeps an action from happening for ever that a fairness condition promises.  *)
EXTENDS RuntimeLifecycle, Takeover

CONSTANT OnlyOne  \* the request that comes in the part about the runtime at rest

VARIABLE part
liveVars == <<vars, takeoverVars, part>>
RuntimeParts == {"callers", "rest"}

\* Two callers, the restart and the quit.  The check comes only to publish that
\* the gateway is healthy, without which nothing is released, and alone.
Published == \E c \in Checks : CheckPublishes(c) \/ (healthy /\ CheckEnds(c))
CallersPart ==
  /\ \A c \in Checks : CheckBegins(c) => ~healthy /\ Serving /\ Idle
  /\ outer \cap Checks # {} => Published

\* The watchdog comes round for ever; one request at a time, and no quit.
RestPart ==
  /\ quit' = "open"
  /\ \A r \in Requests \ {OnlyOne} : pc'[r] = "out"

\* What rests begins at one of its initial states: which does not matter.
LiveInit ==
  /\ Init /\ TakeoverInit /\ part \in RuntimeParts \cup {"takeover"}
  /\ part = "takeover" => vm = "off" /\ ~inUse
  /\ part \in RuntimeParts => wish.mode = CHOOSE m \in TakeoverModes : TRUE
LiveNext ==
  \/ /\ part \in RuntimeParts /\ Next
     /\ part = "callers" => CallersPart
     /\ part = "rest" => RestPart
     /\ UNCHANGED <<part, takeoverVars>>
  \/ part = "takeover" /\ TakeoverNext /\ UNCHANGED <<part, vars>>

LiveSpecByPart ==
  /\ LiveInit /\ [][LiveNext]_liveVars
  /\ \/ part \in RuntimeParts /\ Fairness
     \/ part = "takeover" /\ TakeoverFairness
=============================================================================
