--------------------------- MODULE MCBoostSessions ---------------------------
(***************************************************************************)
(* Days of three instants and weeks of six; one user caps sessions and     *)
(* weeks, another days.                                                    *)
(***************************************************************************)
EXTENDS BoostSessions

MCCaps(session, daily, weekly) ==
    [session_limit |-> session, daily_limit |-> daily, weekly_limit |-> weekly]

MCCapSets == {MCCaps(2, None, 3), MCCaps(None, 2, None)}
=============================================================================
