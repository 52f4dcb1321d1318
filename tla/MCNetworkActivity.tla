-------------------------- MODULE MCNetworkActivity --------------------------
(***************************************************************************)
(* Values of the constants of NetworkActivity for TLC.                     *)
(***************************************************************************)
EXTENDS NetworkActivity

Whole == [computer |-> TRUE, secondPhone |-> TRUE]
OnePhone == [computer |-> TRUE, secondPhone |-> FALSE]
Bare == [computer |-> FALSE, secondPhone |-> FALSE]

Holding(kind, people) == [json |-> TRUE, data |-> [kind |-> kind, people |-> people]]

\* What the six endpoints are named for, and a body without usable JSON.
MCReplies ==
    { Holding("object", <<Whole>>), Holding("object", <<Bare>>),
      Holding("array", <<Whole>>), Holding("array", << >>),
      [json |-> FALSE, data |-> [kind |-> "text", people |-> << >>]] }

\* Every shape that decoding can meet.
AllReplies == MCReplies \cup
    { Holding("object", <<OnePhone>>), Holding("array", <<NoPerson>>),
      Holding("null", << >>), Holding("empty", << >>) }
=============================================================================
