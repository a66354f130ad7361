---------------------------- MODULE MCCommandLanes ----------------------------
(* Instances of CommandLanes for TLC. *)
EXTENDS CommandLanes, TLC

CONSTANTS a, b, c, s1, s2

\* Three runs of which one answers a message: two on different sessions share the main
\* lane, and two share a session, one of them a cron job's.
MCSession == (a :> s1) @@ (b :> s2) @@ (c :> s2)
MCLane == (a :> "main") @@ (b :> "main") @@ (c :> "cron")

\* Two runs at a time; or one, which for cron jobs is spelt as none.
MCLimits ==
  {[lane \in ConfiguredLane |-> 2], [lane \in ConfiguredLane |-> IF lane = "cron" THEN 0 ELSE 1]}

=============================================================================
