------------------------------ MODULE MCFraming ------------------------------
(* Framing, and with it Session and RecvBuffer, for TLC. *)
EXTENDS Framing

Frame(h, v, b, s, i, t) ==
    [header |-> h, valid |-> v, body |-> b, system |-> s, id |-> i, fits |-> t]

\* Frames at, below and above a limit of 2, in each of the two sizes; ids 1
\* (HbPing) and 2 as system and user messages; bodies of the type of either
\* handler.
MCFrames ==
    { Frame(1, TRUE, 1, TRUE, 1, {}), Frame(1, TRUE, 1, TRUE, 2, {"a"}),
      Frame(1, TRUE, 1, FALSE, 1, {"a"}), Frame(2, TRUE, 2, FALSE, 2, {"a"}),
      Frame(2, TRUE, 2, FALSE, 2, {"b"}), Frame(1, TRUE, 0, FALSE, 2, {}),
      Frame(1, TRUE, 3, FALSE, 2, {"a"}), Frame(3, TRUE, 1, FALSE, 2, {"a"}),
      Frame(0, FALSE, 0, FALSE, 2, {}), Frame(1, FALSE, 1, FALSE, 2, {}) }

\* Id 1 has no handler and id 2 two.
MCHandlers == <<[id |-> 2, type |-> "a"], [id |-> 2, type |-> "b"]>>
=============================================================================
