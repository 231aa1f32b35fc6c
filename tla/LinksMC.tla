------------------------------- MODULE LinksMC -------------------------------
(* Links of a note: an issue and a page by their URLs, and a bare key.     *)
EXTENDS Links

MCKind == [r \in Refs |-> CASE r = "j" -> "jira" [] r = "c" -> "confluence"
                             [] r = "b" -> "bare"]
MCKey == [r \in Refs |-> IF r = "c" THEN "PAGE" ELSE "ISSUE"]
MCPage == [r \in Refs |-> IF r = "j" THEN "issue url" ELSE "page url"]
=============================================================================
