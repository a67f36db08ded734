------------------------------ MODULE NotionSource ------------------------------
(***************************************************************************)
(* Collecting one registered Notion link: pages are fetched depth first,   *)
(* the lists of a database are queried for the pages of their rows, and a  *)
(* call that fails, or brings nothing, leaves out what lies behind it.     *)
(* A place is a normalised address; a page that is a view of a database    *)
(* counts as two.                                                          *)
(***************************************************************************)
EXTENDS Naturals, Sequences, FiniteSets, SequencesExt

CONSTANTS PageAt,    \* addresses of pages
          Source,    \* data sources, queried for the pages of their rows
          View,      \* database views, queried too
          LinksAt,   \* LinksAt[p]: the places named at p, in the order they are tried
          MaxPages, MaxDepth

Place == PageAt \cup Source \cup View

\* Of a page: its pages, its data sources, itself as a view.  Of the others: pages.
ASSUME NotionAssumption ==
    /\ PageAt \cap (Source \cup View) = {}
    /\ LinksAt \in [Place -> Seq(Place)]
    /\ \A l \in Source \cup View : LinksAt[l] \in Seq(PageAt)
    /\ MaxPages \in Nat \ {0} /\ MaxDepth \in Nat

VARIABLES todo,     \* the places still to try, the next one first
          visited,  \* the pages fetched for this link
          asked,    \* history: the places a call was made for
          opened,   \* history: those whose answer was read, with their depth
          pages     \* the pages that gave a document

notionVars == <<todo, visited, asked, opened, pages>>

Visit == [at : Place, depth : Nat]

NotionInit == todo = <<>> /\ visited = {} /\ asked = {} /\ opened = {} /\ pages = <<>>

\* fetch_pages of one link
FetchPages(root) ==
    /\ todo' = <<[at |-> root, depth |-> 0]>>
    /\ visited' = {} /\ asked' = {} /\ opened' = {} /\ pages' = <<>>

Full == Cardinality(visited) >= MaxPages

\* A view is queried even when no page can be fetched any more: no row comes of it.
Useless(v) ==
    \/ v.depth > MaxDepth \/ v.at \in visited
    \/ Full /\ v.at \notin View

\* What the answer for v names, one level down.
Below(v) == [i \in DOMAIN LinksAt[v.at] |-> [at |-> LinksAt[v.at][i], depth |-> v.depth + 1]]

\* Mutant: a page is marked before its depth is looked at.
MarkTooDeep(v) == IF v.at \in PageAt THEN visited \cup {v.at} ELSE visited

\* The pages marked once v has been passed over.
MarkUseless(v) == visited

NotionSkip ==
    /\ todo # <<>> /\ Useless(Head(todo))
    /\ todo' = Tail(todo) /\ visited' = MarkUseless(Head(todo))
    /\ UNCHANGED <<asked, opened, pages>>

\* notion-fetch of a page, a query of a list.
NotionCall(answered) ==
    LET v == Head(todo)
    IN  /\ todo # <<>> /\ ~Useless(v)
        /\ visited' = visited \cup ({v.at} \cap PageAt) /\ asked' = asked \cup {v.at}
        /\ IF answered
           THEN /\ todo' = Below(v) \o Tail(todo)
                /\ opened' = opened \cup {v}
                /\ pages' = IF v.at \in PageAt THEN Append(pages, v.at) ELSE pages
           ELSE todo' = Tail(todo) /\ UNCHANGED <<opened, pages>>

NotionNext == NotionSkip \/ \E answered \in BOOLEAN : NotionCall(answered)

---------------------------------------------------------------------------

\* However the pages refer to each other, no more are fetched than allowed and none gives
\* its document twice; and while the limit is not reached, every place named by what was
\* read, and not too deep there, has been asked for.
NotionComplete ==
    /\ Cardinality(visited) <= MaxPages /\ IsInjective(pages)
    /\ todo = <<>> /\ ~Full =>
          \A v \in opened : v.depth < MaxDepth => ToSet(LinksAt[v.at]) \subseteq asked
=============================================================================
