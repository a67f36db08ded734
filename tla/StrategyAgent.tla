----------------------------- MODULE StrategyAgent -----------------------------
(***************************************************************************)
(* The strategy of one interview: how hard the next main question is to    *)
(* be, and how it is made by the question generation graph, either when it *)
(* is asked for or ahead of time in the background thread, from a copy of  *)
(* the state and for a guessed difficulty.                                 *)
(*                                                                         *)
(* A text stands for its set of characters, which is what texts are        *)
(* compared by.  Every text the model could return may be returned.        *)
(***************************************************************************)
EXTENDS Naturals, Sequences, FiniteSets

CONSTANTS NumTopics,    \* the topics of the coverage map, those with most evidence first
          Weak,         \* CoverageMap.weak_topics
          WeakHistory,  \* weak_history_topics
          Text,         \* what the language model may return
          WellFormed,   \* the texts with one question mark, at the end
          Similar,      \* the pairs of texts _too_similar holds of
          Quality,      \* the judgements of the last answer of a set
          MaxQuestions, \* max_questions
          MaxAsked      \* bound of the model: main and derived questions together

Topic == 1..NumTopics

Difficulty == 1..3
EASY == 1
MEDIUM == 2
HARD == 3

Lowering == {"misconception", "confirm_negative", "unknown"}

ASSUME StrategyAssumption ==
    /\ NumTopics \in Nat \ {0} /\ MaxQuestions \in Nat \ {0} /\ MaxAsked \in Nat
    /\ Weak \subseteq Topic /\ WeakHistory \subseteq Topic
    /\ Text # {} /\ WellFormed \subseteq Text /\ Similar \subseteq Text \X Text
    /\ "none" \notin Quality

VARIABLES state,   \* StrategyAgent.state
          future,  \* _prefetch_future and _prefetch_difficulty
          behind,  \* jobs in the executor whose result was thrown away
          gen,     \* QuestionGenState of the question being made or made last
          main     \* where the call of next_question is

vars == <<state, future, behind, gen, main>>

\* last: the topic asked last; question_count is mains.
StrategyState ==
    [topics : SUBSET Topic, last : Topic \cup {0}, difficulties : Seq(Difficulty),
     texts : SUBSET Text, mains : Nat, qualities : Seq(Quality)]

Node == {"pick_topic", "retrieve_evidence", "generate", "validate", "polish_style", "END"}

\* strategy: the state it is made from; restyled: history: the style changed the text.
QuestionGenState ==
    [node : Node, strategy : StrategyState, difficulty : Difficulty,
     topic : Topic \cup {0}, tried : SUBSET Topic, retry_count : 0..3,
     text : Text, failed : BOOLEAN, restyled : BOOLEAN, regenerate_count : 0..1]

Future == [at : {"none", "pending", "failed"}, difficulty : Difficulty]
NoFuture == [at |-> "none", difficulty |-> EASY]

\* quality: the last signal's; difficulty: what it asks for.
Call == [at : {"idle", "waiting", "making", "raised", "closed"},
         quality : Quality \cup {"none"}, difficulty : Difficulty]

NewGeneration(s, d) ==
    [node |-> "pick_topic", strategy |-> s, difficulty |-> d, topic |-> 0, tried |-> {},
     retry_count |-> 0, text |-> CHOOSE t \in Text : TRUE, failed |-> FALSE,
     restyled |-> FALSE, regenerate_count |-> 0]

NewState == [topics |-> {}, last |-> 0, difficulties |-> <<>>, texts |-> {}, mains |-> 0,
             qualities |-> <<>>]

\* The first question is being made.
Init ==
    /\ state = NewState
    /\ future = NoFuture /\ behind = 0
    /\ gen = NewGeneration(NewState, EASY)
    /\ main = [at |-> "making", quality |-> "none", difficulty |-> EASY]

---------------------------------------------------------------------------
(* Difficulty *)

StepUp(d) == IF d = HARD THEN HARD ELSE d + 1

StepDown(d) == IF d = EASY THEN EASY ELSE d - 1

LastTwoAre(s, v) == Len(s) >= 2 /\ s[Len(s)] = v /\ s[Len(s) - 1] = v

HardNeverAsked(s) == \A i \in DOMAIN s.difficulties : s.difficulties[i] # HARD

\* difficulty.next_difficulty after a judgement q; the judgements before it are in s.
NextDifficulty(s, q) ==
    LET asked == s.difficulties
        current == IF asked = <<>> THEN EASY ELSE asked[Len(asked)]
    IN  IF q \in Lowering THEN StepDown(current)
        ELSE IF LastTwoAre(asked, EASY) THEN StepUp(current)
        ELSE IF s.mains >= 4 /\ HardNeverAsked(s) THEN HARD
        ELSE IF q = "sufficient" /\ LastTwoAre(s.qualities, "sufficient") THEN StepUp(current)
        ELSE current

\* The first question is easy.
Required(s, q) == IF q = "none" THEN EASY ELSE NextDifficulty(s, q)

\* _guess_next_difficulty: as if the answer earned bonus_available
Guess(s) == NextDifficulty(s, "bonus_available")

---------------------------------------------------------------------------
(* The question generation graph *)

\* Mutant: topics without evidence are not left out.
CandidatesAgain(tried) == IF Topic \ Weak # {} THEN Topic \ Weak ELSE Topic

Candidates(tried) ==
    IF Topic \ (Weak \cup tried) # {} THEN Topic \ (Weak \cup tried)
    ELSE IF Topic \ tried # {} THEN Topic \ tried ELSE Topic

Preferred(pool, wanted) == IF pool \cap wanted # {} THEN pool \cap wanted ELSE pool

\* Topics not asked yet, another one than the last, early on those that were weak in
\* former interviews, and of these the three with most evidence.
Pool(s, tried) ==
    LET unasked == Preferred(Candidates(tried), Topic \ s.topics)
        turned == Preferred(unasked, Topic \ {s.last})
        early == IF s.mains < 3 THEN Preferred(turned, WeakHistory) ELSE turned
    IN  {t \in early : Cardinality({u \in early : u < t}) < 3}

Resembles(t, texts) == \E u \in texts : <<t, u>> \in Similar

\* validate, for a text when these have been asked.
Passes(t, texts) == t \in WellFormed /\ ~Resembles(t, texts)

\* The thread that runs the graph: the caller's, or the background thread once the
\* jobs before are done.
Running == main.at = "making" \/ (future.at = "pending" /\ behind = 0)

At(node) == Running /\ gen.node = node
Goes(next) == gen' = next /\ UNCHANGED <<state, future, behind, main>>

\* Mutant: a retry is not counted.
RetriesUncounted == gen.retry_count
Retries == IF gen.topic = 0 THEN gen.retry_count ELSE gen.retry_count + 1

PickTopic ==
    LET tried == IF gen.topic = 0 THEN gen.tried ELSE gen.tried \cup {gen.topic}
    IN  /\ At("pick_topic")
        /\ \E t \in Pool(gen.strategy, tried) :
              Goes([gen EXCEPT !.node = "retrieve_evidence", !.topic = t, !.tried = tried,
                               !.retry_count = Retries])

RetrieveEvidence ==
    /\ At("retrieve_evidence")
    /\ \E found \in BOOLEAN :
          Goes([gen EXCEPT !.node = IF found \/ gen.retry_count >= 3 THEN "generate"
                                    ELSE "pick_topic"])

Generate ==
    /\ At("generate")
    /\ \E t \in Text :
          Goes([gen EXCEPT !.node = "validate", !.text = t, !.failed = FALSE,
                           !.regenerate_count = IF gen.failed THEN @ + 1 ELSE @])

Validate ==
    LET bad == ~Passes(gen.text, gen.strategy.texts)
    IN  /\ At("validate")
        /\ Goes([gen EXCEPT !.failed = bad,
                            !.node = IF bad /\ gen.regenerate_count < 1 THEN "generate"
                                     ELSE "polish_style"])

\* The style may be changed into any text; the result is not validated again.
PolishStyle ==
    /\ At("polish_style")
    /\ \E t \in Text :
          Goes([gen EXCEPT !.node = "END", !.text = t, !.restyled = t # gen.text])

\* The search raises.  An interview whose first question is not made never begins.
GenerationFails ==
    /\ At("retrieve_evidence")
    /\ IF main.at = "making"
       THEN /\ main' = [main EXCEPT !.at = IF state.mains = 0 THEN "closed" ELSE "raised"]
            /\ UNCHANGED future
       ELSE future' = [future EXCEPT !.at = "failed"] /\ UNCHANGED main
    /\ gen' = [gen EXCEPT !.node = "END"]
    /\ UNCHANGED <<state, behind>>

---------------------------------------------------------------------------
(* The agent *)

\* _record
Recorded(s, t, d, text) ==
    [s EXCEPT !.topics = @ \cup {t}, !.last = t, !.difficulties = Append(@, d),
              !.texts = @ \cup {text}]

\* next_follow_up, next_challenge, next_confirm_*, next_trap: about the topic of the
\* question being answered, while the next main question may be under way.
AskDerived ==
    /\ main.at = "idle" /\ Len(state.difficulties) < MaxAsked
    /\ \E d \in {EASY, MEDIUM}, t \in Text : state' = Recorded(state, state.last, d, t)
    /\ UNCHANGED <<future, behind, gen, main>>

\* The state with the main question that was made.
WithQuestion ==
    [Recorded(state, gen.topic, gen.difficulty, gen.text)
     EXCEPT !.mains = @ + 1,
            !.qualities = IF main.quality = "none" THEN @ ELSE Append(@, main.quality)]

\* Mutant: the prefetch is started before the question is recorded.
PrefetchedFromOld == state
PrefetchedFrom == WithQuestion

\* _record and _start_prefetch
Ask ==
    /\ state' = WithQuestion
    /\ future' = [at |-> "pending", difficulty |-> Guess(PrefetchedFrom)]
    /\ gen' = NewGeneration(PrefetchedFrom, Guess(PrefetchedFrom))
    /\ main' = [at |-> "idle", quality |-> "none", difficulty |-> EASY]
    /\ UNCHANGED behind

Unfinished == future.at = "pending" /\ gen.node # "END"

\* Mutant: a prefetch is used whatever difficulty it was made for.
FitsAny(d) == future.at # "none"
Fits(d) == future.at # "none" /\ future.difficulty = d

\* Mutant: what is made when asked for is made from the copy the prefetch had.
MadeFromCopy == gen.strategy
MadeFrom == state

\* next_question is called; a call that raised is made again with the same signal.
NextQuestion ==
    \E q \in IF main.at = "raised" THEN {main.quality} ELSE Quality :
        LET d == NextDifficulty(state, q)
        IN  /\ main.at \in {"idle", "raised"} /\ state.mains < MaxQuestions
            /\ Len(state.difficulties) < MaxAsked
            /\ main' = [at |-> IF Fits(d) THEN "waiting" ELSE "making",
                        quality |-> q, difficulty |-> d]
            /\ IF Fits(d) THEN UNCHANGED <<future, behind, gen>>
               ELSE /\ future' = NoFuture
                    /\ behind' = IF Unfinished THEN behind + 1 ELSE behind
                    /\ gen' = NewGeneration(MadeFrom, d)
            /\ UNCHANGED state

\* Mutant: what was asked since the prefetch began is not looked at.
RepeatsOld == Resembles(gen.text, gen.strategy.texts)
Repeats == Resembles(gen.text, state.texts)

\* _consume_prefetch: a question that came up in the meantime is dropped.
UsePrefetch ==
    /\ main.at = "waiting" /\ ~Unfinished
    /\ future.at = "pending" /\ ~Repeats
    /\ Ask

DropPrefetch ==
    /\ main.at = "waiting" /\ ~Unfinished
    /\ future.at = "failed" \/ Repeats
    /\ main' = [main EXCEPT !.at = "making"]
    /\ future' = NoFuture
    /\ gen' = NewGeneration(MadeFrom, main.difficulty)
    /\ UNCHANGED <<state, behind>>

UseMade ==
    /\ main.at = "making" /\ gen.node = "END"
    /\ Ask

\* A job whose result nobody wants runs to its end all the same.
DiscardedEnds ==
    /\ behind > 0
    /\ behind' = behind - 1
    /\ UNCHANGED <<state, future, gen, main>>

\* The interview is over: only the running job is left.
Close ==
    /\ main.at = "idle"
    /\ main' = [main EXCEPT !.at = "closed"]
    /\ future' = NoFuture
    /\ behind' = IF behind > 0 \/ Unfinished THEN 1 ELSE 0
    /\ UNCHANGED <<state, gen>>

GenerationStep ==
    PickTopic \/ RetrieveEvidence \/ Generate \/ Validate \/ PolishStyle \/ GenerationFails

Next ==
    \/ PickTopic \/ RetrieveEvidence \/ Generate \/ Validate \/ PolishStyle \/ GenerationFails
    \/ AskDerived \/ NextQuestion \/ UsePrefetch \/ DropPrefetch \/ UseMade
    \/ DiscardedEnds \/ Close

Spec == Init /\ [][Next]_vars

\* Calls of the language model and of the search end, and the threads go on.
Fairness ==
    /\ WF_vars(GenerationStep) /\ WF_vars(DiscardedEnds)
    /\ WF_vars(UsePrefetch \/ DropPrefetch \/ UseMade)

FairSpec == Spec /\ Fairness

---------------------------------------------------------------------------

\* The variables have their types.
TypeOK ==
    /\ state \in StrategyState /\ future \in Future /\ behind \in Nat
    /\ gen \in QuestionGenState /\ main \in Call

Asks == state'.mains > state.mains

\* Wherever a main question comes from, it is as hard as the last answer and the
\* questions asked by now demand, follow-ups asked since the prefetch included.
DifficultyIsRequired ==
    [][Asks => state'.difficulties[Len(state'.difficulties)]
                   = Required(state, main.quality)]_vars

\* A topic comes again only if each one that is not weak has been asked by now or was
\* tried without finding evidence, though the choice may be as old as the question before.
FreshTopicsFirst ==
    [][Asks /\ gen.topic \in state.topics => Topic \ Weak \subseteq state.topics \cup gen.tried]_vars

\* Made for now or ahead of time, after a failure or a second draft: a main question that
\* was found good, and kept its text since, still is good by all that is asked by now.
GoodWhenAsked ==
    [][Asks /\ ~gen.failed /\ ~gen.restyled => Passes(gen.text, state.texts)]_vars

\* A topic that had no evidence is tried again only when there is no other.
NoTopicTriedTwice == gen.topic \in gen.tried => gen.tried = Topic

\* A question that is asked for comes, or the call raises.
QuestionComes == main.at \in {"waiting", "making"} ~> main.at \notin {"waiting", "making"}
=============================================================================
