---------------------------- MODULE RetrievalMC ----------------------------
EXTENDS Retrieval

CONSTANTS n1, n2, page

MCPlaces == [x \in {n1, n2, page} |-> IF x = page THEN 2 ELSE 1]
MCEdges == {[from |-> n1, to |-> n2, source |-> "user"],
            [from |-> n1, to |-> n2, source |-> "ai"],
            [from |-> n2, to |-> page, source |-> "ai"]}
=============================================================================
