---------------------------- MODULE MCIngestion ----------------------------
(* A crawler whose second source starts with a page of the first, and whose *)
(* listings "a" and "a2" yield one posting and "bad" a malformed one; and a *)
(* board.                                                                   *)
EXTENDS Ingestion

MCUrls == {"a", "a2", "b", "bad", "d"}
MCPostings == {"a", "b", "bad", "d"}
MCIdOf == [u \in MCUrls |-> IF u = "a2" THEN "a" ELSE u]
Crawler == [crawls |-> TRUE,
            sources |-> << <<{"a", "bad"}>>, <<{"a"}, {"a2", "b"}, {"b"}>> >>]
Board == [crawls |-> FALSE, sources |-> << <<{"d"}>> >>]
Unwired == [crawls |-> FALSE, sources |-> <<>>]
MCConnectors == <<Crawler, Unwired, Board>>
=============================================================================
