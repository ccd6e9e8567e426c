------------------------------ MODULE MCLaunch ------------------------------
(* Two processes: every Linux program beside one that uses the same token   *)
(* file, and each Windows program twice.                                   *)
EXTENDS Launch, TLC

MCChoices ==
  { ("p1" :> "rw") @@ ("p2" :> "direct"), ("p1" :> "samples") @@ ("p2" :> "suvm"),
    ("p1" :> "face") @@ ("p2" :> "suvm") } \cup
  { ("p1" :> a) @@ ("p2" :> a) : a \in Windows }
============================================================================
