----------------------------- MODULE EvidenceFetch -----------------------------
(***************************************************************************)
(* What build_index makes of the links of a request before anything is     *)
(* stored: the links are collected one after the other, those of Notion    *)
(* first, the documents are turned into chunks by a pool of workers, and   *)
(* the chunks are put in the order of the documents.  EvidenceIndex takes  *)
(* all this as its step Collect.                                           *)
(***************************************************************************)
EXTENDS NotionSource, GitHubSource

CONSTANTS Requests,  \* the lists of links to index, those of Notion first
          Workers,   \* documents turned into chunks at once
          Sections   \* chunks a document gives at most

\* A Notion link is the address of its page; "repo" stands for a repository, "other" for
\* what is not the address of one.
ASSUME FetchAssumption ==
    /\ \A links \in Requests : links \in Seq(PageAt \cup {"repo", "other"})
    /\ PageAt \cap {"repo", "other"} = {}
    /\ Workers \in Nat \ {0} /\ Sections \in Nat

VARIABLES at,        \* between, notion, github: the links; then extracting, done
          links,     \* the links left, the one under way first
          rawDocs,   \* the documents collected, in order
          failures,  \* what failed: a link or a document, and where
          running,   \* the documents workers have in hand
          results,   \* results[i]: the number of chunks of document i
          finished,  \* the documents done with, in the order they were
          chunks     \* what is handed to the store

ownVars == <<at, links, rawDocs, failures, running, results, finished, chunks>>
fetchVars == <<ownVars, notionVars, gitHubVars>>

FetchInit ==
    /\ at = "between" /\ links \in Requests
    /\ rawDocs = <<>> /\ failures = {}
    /\ running = {} /\ results = <<>> /\ finished = <<>> /\ chunks = <<>>
    /\ NotionInit /\ GitHubInit

poolVars == <<running, results, finished, chunks>>

---------------------------------------------------------------------------
(* The links *)

StartNotion ==
    /\ at = "between" /\ links # <<>> /\ Head(links) \in PageAt
    /\ at' = "notion"
    /\ FetchPages(Head(links))
    /\ UNCHANGED <<links, rawDocs, failures, poolVars, gitHubVars>>

StartGitHub ==
    /\ at = "between" /\ links # <<>> /\ Head(links) = "repo"
    /\ at' = "github"
    /\ FetchRepo
    /\ UNCHANGED <<links, rawDocs, failures, poolVars, notionVars>>

\* What is not the address of a repository is passed over, and is no failure.
SkipLink ==
    /\ at = "between" /\ links # <<>> /\ Head(links) = "other"
    /\ links' = Tail(links)
    /\ UNCHANGED <<at, rawDocs, failures, poolVars, notionVars, gitHubVars>>

Collecting ==
    \/ at = "notion" /\ NotionNext /\ UNCHANGED <<ownVars, gitHubVars>>
    \/ at = "github" /\ GitHubNext /\ UNCHANGED <<ownVars, notionVars>>

PageDoc(p) == [is |-> "page", commit |-> "none", file |-> p]

CloseLink == todo' = <<>> /\ visited' = {} /\ asked' = {} /\ opened' = {} /\ pages' = <<>>

\* A page whose call failed is only left out.
EndNotion ==
    /\ at = "notion" /\ todo = <<>>
    /\ at' = "between" /\ links' = Tail(links)
    /\ rawDocs' = rawDocs \o [i \in DOMAIN pages |-> PageDoc(pages[i])]
    /\ CloseLink
    /\ UNCHANGED <<failures, poolVars, gitHubVars>>

\* A page came, but what it says cannot be taken apart: of the link nothing is kept.
NotionRaises ==
    /\ at = "notion" /\ todo # <<>> /\ Head(todo).at \in PageAt /\ ~Useless(Head(todo))
    /\ at' = "between" /\ links' = Tail(links)
    /\ failures' = failures \cup {[of |-> 0, stage |-> "fetch"]}
    /\ CloseLink
    /\ UNCHANGED <<rawDocs, poolVars, gitHubVars>>

\* Of a repository that raised nothing is kept.
EndGitHub ==
    /\ at = "github" /\ step \in {"done", "raised"}
    /\ at' = "between" /\ links' = Tail(links)
    /\ IF step = "done"
       THEN rawDocs' = rawDocs \o SetToSeq(found) /\ UNCHANGED failures
       ELSE failures' = failures \cup {[of |-> 0, stage |-> "fetch"]} /\ UNCHANGED rawDocs
    /\ CloseRepo
    /\ UNCHANGED <<poolVars, notionVars>>

---------------------------------------------------------------------------
(* The documents *)

StartExtracting ==
    /\ at = "between" /\ links = <<>>
    /\ at' = "extracting"
    /\ results' = [i \in DOMAIN rawDocs |-> 0]
    /\ UNCHANGED <<links, rawDocs, failures, running, finished, chunks, notionVars, gitHubVars>>

Untaken == DOMAIN rawDocs \ (running \cup ToSet(finished))

\* A worker that is free takes the next document.
Take ==
    /\ at = "extracting" /\ Untaken # {} /\ Cardinality(running) < Workers
    /\ running' = running \cup {Min(Untaken)}
    /\ UNCHANGED <<at, links, rawDocs, failures, results, finished, chunks, notionVars, gitHubVars>>

\* extract_evidence: the sections the model chooses or, when it fails or chooses none,
\* those the rules find of value; none when the document has no value.
Extracted(i, n) ==
    /\ at = "extracting" /\ i \in running
    /\ running' = running \ {i} /\ finished' = Append(finished, i)
    /\ results' = [results EXCEPT ![i] = n]
    /\ UNCHANGED <<at, links, rawDocs, failures, chunks, notionVars, gitHubVars>>

ExtractFails(i) ==
    /\ at = "extracting" /\ i \in running
    /\ running' = running \ {i} /\ finished' = Append(finished, i)
    /\ failures' = failures \cup {[of |-> i, stage |-> "extract"]}
    /\ UNCHANGED <<at, links, rawDocs, results, chunks, notionVars, gitHubVars>>

\* Mutant: the chunks are put together as the workers end.
AsFinished == finished

InOrder == [i \in DOMAIN rawDocs |-> i]

ChunksOf(order) ==
    LET upTo[n \in 0..Len(order)] ==
            IF n = 0 THEN <<>>
            ELSE upTo[n - 1] \o [k \in 1..results[order[n]] |-> <<order[n], k>>]
    IN  upTo[Len(order)]

\* Splitting what is too long may fail as a whole.
Assemble(split) ==
    /\ at = "extracting" /\ Len(finished) = Len(rawDocs)
    /\ at' = "done"
    /\ IF split THEN chunks' = ChunksOf(InOrder) /\ UNCHANGED failures
       ELSE failures' = failures \cup {[of |-> 0, stage |-> "chunk"]} /\ UNCHANGED chunks
    /\ UNCHANGED <<links, rawDocs, running, results, finished, notionVars, gitHubVars>>

---------------------------------------------------------------------------
(* Specification *)

FetchNext ==
    \/ StartNotion \/ StartGitHub \/ SkipLink
    \/ Collecting
    \/ EndNotion \/ NotionRaises \/ EndGitHub
    \/ StartExtracting \/ Take
    \/ \E i \in running : ExtractFails(i) \/ \E n \in 0..Sections : Extracted(i, n)
    \/ \E split \in BOOLEAN : Assemble(split)

\* Every call ends: those of the services have a timeout.
FetchSpec == FetchInit /\ [][FetchNext]_fetchVars /\ WF_fetchVars(FetchNext)

---------------------------------------------------------------------------
(* Properties *)

Done == at = "done"

\* The chunks follow the order of the documents whichever worker ends first, and a
\* document that fails takes no other's chunks with it.
ChunksInOrder ==
    Done /\ [of |-> 0, stage |-> "chunk"] \notin failures =>
        /\ \A i, j \in DOMAIN chunks : i < j =>
              \/ chunks[i][1] < chunks[j][1]
              \/ chunks[i][1] = chunks[j][1] /\ chunks[i][2] < chunks[j][2]
        /\ ToSet(chunks) = {c \in (DOMAIN rawDocs) \X (1..Sections) : c[2] <= results[c[1]]}

(* The work left: links; what of the one under way; then the documents *)

\* Each page fetched is one less to fetch, and a list names only pages.
Lists(places) == {i \in DOMAIN places : places[i].at \notin PageAt}

NotionLeft == <<MaxPages - Cardinality(visited), Cardinality(Lists(todo)), Len(todo), 0>>

PagesLeft == IF author > Len(Authors) THEN 0
             ELSE Len(CommitsOf[Authors[author]]) + 1 - page

\* Each session is one less to open; the files have sessions of their own.
GitHubLeft ==
    LET sessions == 1 + MaxAttempts - attempt
    IN  CASE step = "root" -> <<sessions, 4, 0, 0>>
          [] step = "tree" -> <<sessions, 3, MaxDirs - Cardinality(dirs),
                                IF queue = <<>> THEN 0 ELSE 1>>
          [] step = "commits" -> <<sessions, 2, Len(Authors) + 1 - author, PagesLeft>>
          [] step = "details" -> <<sessions, 1, 0, 0>>
          [] step = "files" -> <<0, 1, MaxAttempts - attempt, 0>>
          [] OTHER -> <<0, 0, 0, 0>>

DocsLeft == <<Cardinality(DOMAIN rawDocs \ ToSet(finished)), Cardinality(Untaken), 0, 0>>

LeftInside == CASE at = "notion" -> NotionLeft
                [] at = "github" -> GitHubLeft
                [] at = "extracting" -> DocsLeft
                [] OTHER -> <<0, 0, 0, 0>>

Stages == CASE at = "between" -> 2 [] at = "done" -> 0 [] OTHER -> 1

WorkLeft == <<Len(links), Stages,
              LeftInside[1], LeftInside[2], LeftInside[3], LeftInside[4]>>

\* Smaller at the first place where they differ.
Lower(m, n) == \E i \in 1..6 : m[i] < n[i] /\ \A j \in 1..(i - 1) : m[j] = n[j]

\* Whatever a call answers and however often a session breaks, each step brings the end
\* nearer: the work left is less, in an order in which it cannot get less for ever.
CollectingAdvances == [][WorkLeft' \in [1..6 -> Nat] /\ Lower(WorkLeft', WorkLeft)]_fetchVars

\* However the services answer, pages that refer to each other and lists of commits that
\* are the same come to an end, and so does the collecting.
FetchEnds == <>Done
=============================================================================
