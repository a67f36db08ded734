------------------------------ MODULE GitHubSource ------------------------------
(***************************************************************************)
(* Collecting one registered GitHub repository: its directories, level by  *)
(* level in batches; the commits of each name the author is known by, page *)
(* by page; what each commit changed; the contents of the files chosen of  *)
(* both.  The first three share a session, the files have one of their     *)
(* own; a session that is refused for the rate of calls is tried again     *)
(* from its start, a call that fails inside leaves out what it asked for.  *)
(***************************************************************************)
EXTENDS Naturals, Sequences, FiniteSets, SequencesExt, FiniteSetsExt

CONSTANTS Dir, Root,    \* directories, Root not among them
          DirsIn,       \* DirsIn[d]: the directories named in the answer for d, in order
          Level,        \* Level[d]: the slashes in its path
          FilesIn,      \* FilesIn[d]: the source files in d
          Ranked,       \* the source files, the most important first
          Authors,      \* the verified addresses and the login, in order
          CommitsOf,    \* CommitsOf[a]: the commits listed for a, newest first
          FilesOf,      \* FilesOf[c]: the source files commit c adds lines to
          MaxDirs, MaxLevel, Concurrency, MaxCommits, PageLimit, MaxFiles, MaxAttempts

Commits == UNION {ToSet(CommitsOf[a]) : a \in ToSet(Authors)}
File == ToSet(Ranked)

ASSUME GitHubAssumption ==
    /\ Root \notin Dir /\ DirsIn \in [Dir \cup {Root} -> Seq(Dir)]
    /\ \A d \in DOMAIN DirsIn : IsInjective(DirsIn[d])
    /\ Level \in [Dir -> Nat] /\ FilesIn \in [Dir \cup {Root} -> SUBSET File]
    /\ Ranked \in Seq(File) /\ \A c \in Commits : FilesOf[c] \subseteq File
    /\ Authors \in Seq(DOMAIN CommitsOf)
    /\ \A a \in ToSet(Authors) : CommitsOf[a] \in Seq(Commits) /\ IsInjective(CommitsOf[a])
    /\ {MaxDirs, Concurrency, MaxCommits, PageLimit, MaxAttempts} \subseteq Nat \ {0}
    /\ {MaxLevel, MaxFiles} \subseteq Nat

VARIABLES step,     \* what the repository is being asked for
          attempt,  \* sessions opened for it
          queue,    \* directories to look into
          dirs,     \* those asked for
          listed,   \* history: those that answered, with Root
          author,   \* the place in Authors whose commits are being listed
          page,     \* the page of them asked for next
          shas,     \* the commits listed
          missed,   \* history: a page of commits was not answered
          found     \* the documents made of the repository

gitHubVars == <<step, attempt, queue, dirs, listed, author, page, shas, missed, found>>

Step == {"off", "root", "tree", "commits", "details", "files", "raised", "done"}

\* A README, the lines a commit added to a file, a file as it is.
Readme == [is |-> "readme", commit |-> "none", file |-> "none"]
Patch(c, f) == [is |-> "patch", commit |-> c, file |-> f]
Code(f) == [is |-> "code", commit |-> "none", file |-> f]

GitHubInit ==
    /\ step = "off" /\ attempt = 0
    /\ queue = <<>> /\ dirs = {} /\ listed = {}
    /\ author = 1 /\ page = 1 /\ shas = <<>> /\ missed = FALSE
    /\ found = {}

\* The repository is done with.
CloseRepo ==
    /\ step' = "off" /\ attempt' = 0
    /\ queue' = <<>> /\ dirs' = {} /\ listed' = {}
    /\ author' = 1 /\ page' = 1 /\ shas' = <<>> /\ missed' = FALSE
    /\ found' = {}

\* A session is opened: everything collected in the one before is lost.
OpenSession(n) ==
    /\ step' = "root" /\ attempt' = n
    /\ queue' = <<>> /\ dirs' = {} /\ listed' = {}
    /\ author' = 1 /\ page' = 1 /\ shas' = <<>> /\ missed' = FALSE
    /\ found' = {}

\* fetch_repos of one link
FetchRepo == OpenSession(1)

\* Mutant: a session that broke does not count.
Uncounted(n) == n

NextAttempt(n) == n + 1

\* The session breaks: for the rate of calls, or for another reason.
RetrySession ==
    /\ step \in {"root", "tree", "commits", "details"} /\ attempt < MaxAttempts
    /\ OpenSession(NextAttempt(attempt))

RetryFiles ==
    /\ step = "files" /\ attempt < MaxAttempts
    /\ attempt' = NextAttempt(attempt)
    /\ UNCHANGED <<step, queue, dirs, listed, author, page, shas, missed, found>>

SessionRaises ==
    /\ step \in {"root", "tree", "commits", "details", "files"}
    /\ step' = "raised" /\ found' = {}
    /\ UNCHANGED <<attempt, queue, dirs, listed, author, page, shas, missed>>

---------------------------------------------------------------------------
\* What of s is not in D, in its order.
Without(s, D) ==
    LET kept[n \in 0..Len(s)] ==
            IF n = 0 THEN <<>>
            ELSE IF s[n] \in D THEN kept[n - 1] ELSE Append(kept[n - 1], s[n])
    IN  kept[Len(s)]

---------------------------------------------------------------------------
(* The directories *)

\* The directories the answer for d names; an error names none.
Named(d, answered) == IF answered THEN DirsIn[d] ELSE <<>>

\* search_repositories, the README and the root; a README that is not there gives no
\* document.
AskRoot(readme, answered) ==
    /\ step = "root" /\ step' = "tree"
    /\ found' = IF readme THEN {Readme} ELSE {}
    /\ queue' = Named(Root, answered)
    /\ listed' = IF answered THEN {Root} ELSE {}
    /\ UNCHANGED <<attempt, dirs, author, page, shas, missed>>

\* Of the queue, what is not passed over.
Wanted(q) == Without(q, dirs \cup {d \in Dir : Level[d] >= MaxLevel})

\* Mutant: the directories of the batch are not counted.
RoomForBatch == Concurrency

Room == IF MaxDirs - Cardinality(dirs) < Concurrency THEN MaxDirs - Cardinality(dirs)
        ELSE Concurrency

\* How many of the queue go: as many as fill the batch, or all.
Taken == Min({n \in 0..Len(queue) :
                 n = Len(queue) \/ Len(Wanted(SubSeq(queue, 1, n))) = Room})

Batch == Wanted(SubSeq(queue, 1, Taken))

\* What is left of the queue, with the directories named by those of the batch that
\* answered, not asked for and not waiting yet.
Requeued(answered) ==
    LET Known(n, q) == dirs \cup {Batch[m] : m \in 1..n} \cup ToSet(q)
        upTo[n \in 0..Len(Batch)] ==
            IF n = 0 THEN SubSeq(queue, Taken + 1, Len(queue))
            ELSE upTo[n - 1] \o Without(Named(Batch[n], Batch[n] \in answered),
                                       Known(n, upTo[n - 1]))
    IN  upTo[Len(Batch)]

TreeOpen == queue # <<>> /\ Cardinality(dirs) < MaxDirs

\* The calls of a batch are made together; one that fails names no directory.
AskBatch(answered) ==
    /\ step = "tree" /\ TreeOpen /\ answered \subseteq ToSet(Batch)
    /\ queue' = Requeued(answered)
    /\ dirs' = dirs \cup ToSet(Batch)
    /\ listed' = listed \cup answered
    /\ UNCHANGED <<step, attempt, author, page, shas, missed, found>>

TreeDone ==
    /\ step = "tree" /\ ~TreeOpen
    /\ step' = "commits" /\ queue' = <<>>
    /\ UNCHANGED <<attempt, dirs, listed, author, page, shas, missed, found>>

---------------------------------------------------------------------------
(* The commits *)

\* The commits, with those of a page that are new.
Merge(s, got) == s \o Without(got, ToSet(s))

CommitsOpen == author <= Len(Authors) /\ Len(shas) < MaxCommits

\* How many commits the next page may have: no more than are missing.
PerPage == Min({PageLimit, MaxCommits - Len(shas)})

\* list_commits: the service counts its pages in the size asked for.
PageOf(a) == LET last == Min({page * PerPage, Len(CommitsOf[a])})
             IN  SubSeq(CommitsOf[a], (page - 1) * PerPage + 1, last)

\* Mutant: a page that brings nothing new is taken for the last.
NothingNew(got) == Len(got) < PerPage \/ ToSet(got) \subseteq ToSet(shas)

LastPage(got) == got = <<>> \/ Len(got) < PerPage

AskCommits(answered) ==
    LET got == IF answered THEN PageOf(Authors[author]) ELSE <<>>
    IN  /\ step = "commits" /\ CommitsOpen
        /\ shas' = Merge(shas, got)
        /\ missed' = (missed \/ ~answered)
        /\ IF LastPage(got) THEN author' = author + 1 /\ page' = 1
           ELSE page' = page + 1 /\ UNCHANGED author
        /\ UNCHANGED <<step, attempt, queue, dirs, listed, found>>

CommitsDone ==
    /\ step = "commits" /\ ~CommitsOpen
    /\ step' = "details"
    /\ UNCHANGED <<attempt, queue, dirs, listed, author, page, shas, missed, found>>

---------------------------------------------------------------------------
(* What the commits changed, and the files *)

Candidates == UNION {FilesIn[d] : d \in listed}
TouchedBy(docs) == {d.file : d \in {x \in docs : x.is = "patch"}}

\* Files the user has changed first, then the others; MaxFiles = 0: all of them.
SelectPaths(touched) ==
    LET all == Without(Ranked, File \ (Candidates \cap touched))
                 \o Without(Ranked, File \ (Candidates \ touched))
    IN  IF MaxFiles = 0 THEN all ELSE SubSeq(all, 1, Min({MaxFiles, Len(all)}))

\* get_commit of all of them together, in a full patch each.
AskDetails(answered) ==
    /\ step = "details" /\ answered \subseteq ToSet(shas)
    /\ found' = found \cup UNION {{Patch(c, f) : f \in FilesOf[c]} : c \in answered}
    /\ IF SelectPaths(TouchedBy(found')) = <<>>
       THEN step' = "done" /\ UNCHANGED attempt
       ELSE step' = "files" /\ attempt' = 1
    /\ UNCHANGED <<queue, dirs, listed, author, page, shas, missed>>

\* The contents of the files, all together; one that is empty or too long gives none.
AskFiles(answered) ==
    /\ step = "files" /\ answered \subseteq ToSet(SelectPaths(TouchedBy(found)))
    /\ found' = found \cup {Code(f) : f \in answered}
    /\ step' = "done"
    /\ UNCHANGED <<attempt, queue, dirs, listed, author, page, shas, missed>>

GitHubNext ==
    \/ RetrySession \/ RetryFiles \/ SessionRaises
    \/ \E readme, answered \in BOOLEAN : AskRoot(readme, answered)
    \/ \E answered \in SUBSET Dir : AskBatch(answered)
    \/ TreeDone
    \/ \E answered \in BOOLEAN : AskCommits(answered)
    \/ CommitsDone
    \/ \E answered \in SUBSET Commits : AskDetails(answered)
    \/ \E answered \in SUBSET File : AskFiles(answered)

---------------------------------------------------------------------------
(* Properties *)

\* No more directories are asked for than allowed, a batch of calls included; when the
\* tree is done with fewer, none that was named above the depth limit was forgotten.
TreeComplete ==
    /\ Cardinality(dirs) <= MaxDirs
    /\ step \in {"commits", "details", "files", "done"} /\ Cardinality(dirs) < MaxDirs =>
          \A d \in listed : \A x \in ToSet(DirsIn[d]) : Level[x] < MaxLevel => x \in dirs

\* The commits of the first n names, none twice; then those of all.
CommitsOfFirst[n \in 0..Len(Authors)] ==
    IF n = 0 THEN <<>> ELSE Merge(CommitsOfFirst[n - 1], CommitsOf[Authors[n]])

AllCommits == CommitsOfFirst[Len(Authors)]

\* When every page was answered, the commits are the first of all there are up to the
\* limit, none left out and none twice, though the pages get smaller as the limit
\* comes near and the commits of two names are partly the same.
CommitsComplete ==
    step \in {"details", "files", "done"} /\ ~missed =>
        shas = SubSeq(AllCommits, 1, Min({MaxCommits, Len(AllCommits)}))
=============================================================================
