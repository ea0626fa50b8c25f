---------------------------- MODULE MCPolicySync ----------------------------
(* Model values for PolicyEnforcement.                                     *)
EXTENDS PolicyEnforcement

TwoTimerPolls == {"timer1", "timer2"}

\* Every rule meets failMode closed and open, and a pinned key and none.
MCConfigs ==
  {c \in Config : (c.pinned \/ c.failClosed) /\ (c.rule = "quota" => c.pinned # c.failClosed)}

\* The watched scope's calls overlap.
MCMaxInFlight == [s \in Scopes |-> IF s = Watched THEN 2 ELSE 1]

LOCAL Rule(unit, limit, window) == [unit |-> unit, limit |-> limit, window |-> window]
LOCAL MeterSetup(rules, failClosed, denyWins) ==
  [rules |-> rules, failClosed |-> failClosed, denyWins |-> denyWins,
   taintBlocks |-> FALSE, piiBlocks |-> FALSE]

\* One rule, two that share a counter (with one window, and with two), a token
\* budget; and for the sessions what a tainted one meets.
MCStoreSetups ==
  {MeterSetup(<<Rule("requests", 1, 2)>>, closed, FALSE) : closed \in BOOLEAN}
  \cup {MeterSetup(<<Rule("requests", 2, 2), Rule("requests", 3, 2)>>, TRUE, TRUE)}
  \cup {MeterSetup(<<Rule("requests", 1, 1), Rule("requests", 2, 3)>>, TRUE, FALSE)}
  \cup {MeterSetup(<<Rule("tokens", 2, 2)>>, closed, FALSE) : closed \in BOOLEAN}
  \cup {[rules |-> <<>>, failClosed |-> FALSE, denyWins |-> FALSE,
         taintBlocks |-> latch = "refuses", piiBlocks |-> latch = "blocked turn"] :
         latch \in {"flags", "refuses", "blocked turn"}}
=============================================================================
