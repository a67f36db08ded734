---------------------------- MODULE MCEvidenceIndex ----------------------------
(* A Notion link of one page and a GitHub link of two, two requests at once. *)
EXTENDS EvidenceIndex

MCPagesOf == [l \in Link |-> IF l \in Notion THEN {"readme"} ELSE {"code", "commits"}]
=============================================================================
