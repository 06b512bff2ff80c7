--------------------------- MODULE MCCardFarming ---------------------------
(***************************************************************************)
(* Card farming with two games, the second one bought lately, and two rule *)
(* sets: the open one lets both games warm up together and resumes what is *)
(* interrupted; the strict one excludes the first game, pins the second    *)
(* but protects its refund window, and does not resume.                    *)
(***************************************************************************)
EXTENDS CardFarming

MCGames  == {"g1", "g2"}
MCRecent == {"g2"}

MCConfigs ==
    {[excluded |-> {}, pinned |-> {}, protect |-> FALSE, autoResume |-> TRUE],
     [excluded |-> {"g1"}, pinned |-> {"g2"}, protect |-> TRUE, autoResume |-> FALSE]}
=============================================================================
