------------------------------- MODULE MCGui -------------------------------
(***************************************************************************)
(* A small instance of GuiServer: two calls at once, Durations of 7 bits   *)
(* (-32 to 31.5 seconds), so that requests for more than half a minute     *)
(* wrap around.                                                            *)
(***************************************************************************)
EXTENDS GuiServer

Post(seconds, skip) ==
  [method |-> "POST", json |-> TRUE, blank |-> FALSE, accepted |-> TRUE,
   seconds |-> seconds, skip |-> skip]

\* Timeouts of nothing, one second, one that wraps to a negative Duration (40),
\* to a short one (65), and one whose two seconds of grace wrap (30).
MCBodies ==
  {Post(s, {"versions", "ciphers"}) : s \in {0, 1}}
    \cup {Post(s, Stages \ {"tls"}) : s \in {0, 30, 40, 65}}
    \cup {[Post(1, {}) EXCEPT !.method = "GET"], [Post(1, {}) EXCEPT !.json = FALSE],
          [Post(1, {}) EXCEPT !.blank = TRUE], [Post(1, {}) EXCEPT !.accepted = FALSE],
          Post(1, {"dns"})}

MCTimeouts == {0, 3}

=============================================================================
