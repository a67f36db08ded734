-------------------------- MODULE StrategyAgentProofs --------------------------
(***************************************************************************)
(* Theorems about StrategyAgent, for all topics, texts, relations of       *)
(* resemblance and numbers of questions.                                   *)
(***************************************************************************)
EXTENDS StrategyAgent, TLAPS

\* The question under way is made from what the state still says of topics.
MadeFromNow ==
    main.at = "making" \/ future.at # "none" =>
        /\ gen.strategy.topics = state.topics /\ gen.strategy.last = state.last
        /\ gen.strategy.mains = state.mains

\* A question that was made, found good and not restyled.
EndSound ==
    gen.node = "END" /\ ~gen.failed /\ ~gen.restyled => Passes(gen.text, gen.strategy.texts)

\* The topic in hand is one that could be chosen; the counters follow the nodes.
GenerationSound ==
    /\ gen.topic # 0 => gen.topic \in Candidates(gen.tried)
    /\ gen.topic # 0 /\ gen.topic \in gen.strategy.topics =>
          Candidates(gen.tried) \subseteq gen.strategy.topics
    /\ gen.node # "pick_topic" => gen.topic # 0
    /\ gen.node = "pick_topic" => gen.retry_count < 3
    /\ gen.node \in {"pick_topic", "retrieve_evidence"} => ~gen.failed
    /\ gen.node = "generate" /\ gen.failed => gen.regenerate_count = 0
    /\ gen.node = "polish_style" /\ ~gen.failed => Passes(gen.text, gen.strategy.texts)

\* A text found good was so by the state it was made from, which is the present one if
\* somebody waits for it to be made.
CheckedSound ==
    /\ main.at = "making" => gen.strategy = state
    /\ main.at = "making" \/ future.at = "pending" => EndSound

\* Who waits for a question gets one of the difficulty that is required.
DifficultySound ==
    /\ main.at \in {"waiting", "making"} => main.difficulty = Required(state, main.quality)
    /\ main.at = "making" => gen.difficulty = main.difficulty
    /\ main.at = "waiting" => future.at # "none" /\ future.difficulty = main.difficulty
    /\ future.at = "pending" => gen.difficulty = future.difficulty

\* An interview that goes on has a question, and only the first comes without an answer.
Begun ==
    /\ main.at \in {"idle", "waiting", "raised"} => state.last \in state.topics
    /\ main.at \in {"waiting", "raised"} => main.quality # "none"
    /\ main.at = "making" /\ state.mains > 0 => main.quality # "none"
    /\ state.mains > 0 => state.last \in state.topics
    /\ main.at = "making" => future.at = "none"

Inv ==
    /\ TypeOK
    /\ MadeFromNow /\ GenerationSound /\ CheckedSound /\ DifficultySound /\ Begun

\* What pick_topic chooses from are candidates, none asked before if one was not.
LEMMA PoolIsFresh ==
    ASSUME NEW s, NEW tried, NEW t \in Pool(s, tried)
    PROVE  /\ t \in Candidates(tried)
           /\ t \in s.topics => Candidates(tried) \subseteq s.topics
<1>. DEFINE unasked == Preferred(Candidates(tried), Topic \ s.topics)
            turned == Preferred(unasked, Topic \ {s.last})
            early == IF s.mains < 3 THEN Preferred(turned, WeakHistory) ELSE turned
<1>1. t \in early  BY DEF Pool
<1>2. early \subseteq turned /\ turned \subseteq unasked  BY DEF Preferred
<1>3. unasked \subseteq Candidates(tried)  BY DEF Preferred
<1>4. Candidates(tried) \subseteq Topic  BY DEF Candidates
<1>5. t \in s.topics => Candidates(tried) \subseteq s.topics
    <2>1. t \in unasked  BY <1>1, <1>2
    <2>. HIDE DEF turned, early
    <2>. QED  BY <2>1, <1>4 DEF Preferred
<1>. QED  BY <1>1, <1>2, <1>3, <1>5

\* The rules of difficulty stay between the first and the last.
LEMMA DifficultyTyped ==
    ASSUME NEW s \in StrategyState, NEW q
    PROVE  NextDifficulty(s, q) \in Difficulty
<1>. DEFINE current == IF s.difficulties = <<>> THEN EASY
                       ELSE s.difficulties[Len(s.difficulties)]
<1>1. current \in Difficulty
    BY DEF StrategyState, Difficulty, EASY
<1>2. StepUp(current) \in Difficulty /\ StepDown(current) \in Difficulty /\ HARD \in Difficulty
    <2>. HIDE DEF current
    <2>. QED  BY <1>1 DEF StepUp, StepDown, Difficulty, EASY, HARD
<1>. HIDE DEF current
<1>3. NextDifficulty(s, q) \in {StepUp(current), StepDown(current), HARD, current}
    BY DEF NextDifficulty, current
<1>. QED  BY <1>1, <1>2, <1>3

\* A new generation has chosen nothing yet.
LEMMA NewGenerationTyped ==
    ASSUME NEW s \in StrategyState, NEW d \in Difficulty
    PROVE  /\ NewGeneration(s, d) \in QuestionGenState
           /\ NewGeneration(s, d).node = "pick_topic" /\ NewGeneration(s, d).topic = 0
           /\ NewGeneration(s, d).strategy = s /\ NewGeneration(s, d).difficulty = d
           /\ NewGeneration(s, d).retry_count = 0 /\ NewGeneration(s, d).failed = FALSE
<1>1. (CHOOSE t \in Text : TRUE) \in Text  BY StrategyAssumption
<1>. DEFINE x == CHOOSE t \in Text : TRUE
<1>2. x \in Text  BY <1>1
<1>. HIDE DEF x
<1>3. NewGeneration(s, d) =
        [node |-> "pick_topic", strategy |-> s, difficulty |-> d, topic |-> 0, tried |-> {},
         retry_count |-> 0, text |-> x, failed |-> FALSE, restyled |-> FALSE,
         regenerate_count |-> 0]
    BY DEF NewGeneration, x
<1>. QED  BY <1>2, <1>3 DEF QuestionGenState, Node

\* The first question is being made.
LEMMA Initially == Init => Inv
<1>. SUFFICES ASSUME Init PROVE Inv
    OBVIOUS
<1>1. NewState \in StrategyState
    BY DEF NewState, StrategyState
<1>2. EASY \in Difficulty /\ NoFuture \in Future
    BY DEF EASY, Difficulty, NoFuture, Future
<1>3. TypeOK
    BY <1>1, <1>2, NewGenerationTyped DEF Init, TypeOK, Call
<1>4. /\ gen.node = "pick_topic" /\ gen.topic = 0 /\ gen.strategy = state
      /\ gen.difficulty = EASY /\ gen.retry_count = 0 /\ gen.failed = FALSE
    BY <1>1, <1>2, NewGenerationTyped DEF Init
<1>5. MadeFromNow  BY <1>4 DEF MadeFromNow
<1>6. GenerationSound  BY <1>4 DEF GenerationSound
<1>7. state.mains = 0 /\ future.at = "none"  BY DEF Init, NewState, NoFuture
<1>8. DifficultySound  BY <1>4, <1>7 DEF Init, DifficultySound, Required
<1>9. Begun  BY <1>7 DEF Init, Begun
<1>10. CheckedSound  BY <1>4 DEF CheckedSound, EndSound
<1>. QED  BY <1>3, <1>5, <1>6, <1>8, <1>9, <1>10 DEF Inv

\* A step of the graph changes gen alone.
LEMMA GraphKeeps ==
    ASSUME Inv, UNCHANGED <<state, future, behind, main>>,
           gen' \in QuestionGenState, GenerationSound',
           gen'.strategy = gen.strategy, gen'.difficulty = gen.difficulty, EndSound'
    PROVE  Inv'
BY DEF Inv, TypeOK, MadeFromNow, CheckedSound, DifficultySound, Begun

\* Every node of the graph keeps the invariant.
LEMMA GenerationKeeps ==
    ASSUME Inv,
           PickTopic \/ RetrieveEvidence \/ Generate \/ Validate \/ PolishStyle
    PROVE  Inv'
<1>0. gen \in QuestionGenState /\ GenerationSound  BY DEF Inv, TypeOK
<1>1. CASE PickTopic
    <2>. DEFINE tried == IF gen.topic = 0 THEN gen.tried ELSE gen.tried \cup {gen.topic}
                n == Retries
    <2>1. PICK t \in Pool(gen.strategy, tried) :
              /\ gen.node = "pick_topic" /\ UNCHANGED <<state, future, behind, main>>
              /\ gen' = [gen EXCEPT !.node = "retrieve_evidence", !.topic = t,
                                    !.tried = tried, !.retry_count = n]
        BY <1>1 DEF PickTopic, At, Goes
    <2>2. /\ t \in Candidates(tried)
          /\ t \in gen.strategy.topics => Candidates(tried) \subseteq gen.strategy.topics
        BY PoolIsFresh
    <2>3. n \in 0..3  BY <1>0, <2>1 DEF Retries, GenerationSound, QuestionGenState
    <2>4. t \in Topic /\ 0 \notin Topic  BY <2>2 DEF Candidates, Topic
    <2>5. tried \in SUBSET Topic  BY <1>0 DEF QuestionGenState
    <2>. HIDE DEF tried, n
    <2>6. gen' \in QuestionGenState
        BY <1>0, <2>1, <2>3, <2>4, <2>5 DEF QuestionGenState, Node
    <2>7. /\ gen'.node = "retrieve_evidence" /\ gen'.topic = t /\ gen'.tried = tried
          /\ gen'.strategy = gen.strategy /\ gen'.difficulty = gen.difficulty
          /\ gen'.failed = gen.failed
        BY <1>0, <2>1 DEF QuestionGenState
    <2>8. GenerationSound'
        BY <1>0, <2>1, <2>2, <2>4, <2>7 DEF GenerationSound
    <2>9. EndSound'  BY <2>7 DEF EndSound
    <2>. QED  BY <2>1, <2>6, <2>7, <2>8, <2>9, GraphKeeps
<1>2. CASE RetrieveEvidence
    <2>1. PICK next \in {"generate", "pick_topic"} :
              /\ gen.node = "retrieve_evidence" /\ UNCHANGED <<state, future, behind, main>>
              /\ gen' = [gen EXCEPT !.node = next]
              /\ next = "pick_topic" => ~(gen.retry_count >= 3)
        BY <1>2 DEF RetrieveEvidence, At, Goes
    <2>2. gen' \in QuestionGenState /\ gen'.node = next /\ gen'.topic = gen.topic
          /\ gen'.tried = gen.tried /\ gen'.strategy = gen.strategy
          /\ gen'.difficulty = gen.difficulty /\ gen'.failed = gen.failed
          /\ gen'.retry_count = gen.retry_count
        BY <1>0, <2>1 DEF QuestionGenState, Node
    <2>3. GenerationSound'
        BY <1>0, <2>1, <2>2 DEF GenerationSound, QuestionGenState
    <2>4. EndSound'  BY <2>1, <2>2 DEF EndSound
    <2>. QED  BY <2>1, <2>2, <2>3, <2>4, GraphKeeps
<1>3. CASE Generate
    <2>. DEFINE n == IF gen.failed THEN gen.regenerate_count + 1 ELSE gen.regenerate_count
    <2>1. PICK t \in Text :
              /\ gen.node = "generate" /\ UNCHANGED <<state, future, behind, main>>
              /\ gen' = [gen EXCEPT !.node = "validate", !.text = t, !.failed = FALSE,
                                    !.regenerate_count = n]
        BY <1>3, <1>0 DEF Generate, At, Goes
    <2>2. n \in 0..1  BY <1>0, <2>1 DEF GenerationSound, QuestionGenState
    <2>. HIDE DEF n
    <2>3. gen' \in QuestionGenState
        BY <1>0, <2>1, <2>2 DEF QuestionGenState, Node
    <2>4. /\ gen'.node = "validate" /\ gen'.topic = gen.topic /\ gen'.tried = gen.tried
          /\ gen'.strategy = gen.strategy /\ gen'.difficulty = gen.difficulty
        BY <1>0, <2>1 DEF QuestionGenState
    <2>5. GenerationSound'
        BY <1>0, <2>1, <2>4 DEF GenerationSound
    <2>6. EndSound'  BY <2>4 DEF EndSound
    <2>. QED  BY <2>1, <2>3, <2>4, <2>5, <2>6, GraphKeeps
<1>4. CASE Validate
    <2>. DEFINE bad == ~Passes(gen.text, gen.strategy.texts)
    <2>1. PICK next \in {"generate", "polish_style"} :
              /\ gen.node = "validate" /\ UNCHANGED <<state, future, behind, main>>
              /\ gen' = [gen EXCEPT !.failed = bad, !.node = next]
              /\ next = "generate" => gen.regenerate_count < 1
        BY <1>4 DEF Validate, At, Goes
    <2>2. bad \in BOOLEAN  OBVIOUS
    <2>. HIDE DEF bad
    <2>3. gen' \in QuestionGenState
        BY <1>0, <2>1, <2>2 DEF QuestionGenState, Node
    <2>4. /\ gen'.node = next /\ gen'.topic = gen.topic /\ gen'.tried = gen.tried
          /\ gen'.strategy = gen.strategy /\ gen'.difficulty = gen.difficulty
          /\ gen'.regenerate_count = gen.regenerate_count
          /\ gen'.text = gen.text /\ gen'.failed = bad
        BY <1>0, <2>1 DEF QuestionGenState
    <2>5. gen.regenerate_count \in 0..1  BY <1>0 DEF QuestionGenState
    <2>6. GenerationSound'
        <3>1. ~bad => Passes(gen.text, gen.strategy.texts)'
            BY <2>4 DEF bad, Passes, Resembles
        <3>. QED  BY <1>0, <2>1, <2>4, <2>5, <3>1 DEF GenerationSound
    <2>7. EndSound'  BY <2>1, <2>4 DEF EndSound
    <2>. QED  BY <2>1, <2>3, <2>4, <2>6, <2>7, GraphKeeps
<1>5. CASE PolishStyle
    <2>1. PICK t \in Text :
              /\ gen.node = "polish_style" /\ UNCHANGED <<state, future, behind, main>>
              /\ gen' = [gen EXCEPT !.node = "END", !.text = t, !.restyled = t # gen.text]
        BY <1>5 DEF PolishStyle, At, Goes
    <2>2. gen' \in QuestionGenState
        BY <1>0, <2>1 DEF QuestionGenState, Node
    <2>3. /\ gen'.node = "END" /\ gen'.topic = gen.topic /\ gen'.tried = gen.tried
          /\ gen'.strategy = gen.strategy /\ gen'.difficulty = gen.difficulty
          /\ gen'.failed = gen.failed /\ gen'.text = t /\ gen'.restyled = (t # gen.text)
        BY <1>0, <2>1 DEF QuestionGenState
    <2>4. GenerationSound'
        BY <1>0, <2>1, <2>3 DEF GenerationSound
    <2>5. EndSound'  BY <1>0, <2>1, <2>3 DEF EndSound, GenerationSound
    <2>. QED  BY <2>1, <2>2, <2>3, <2>4, <2>5, GraphKeeps
<1>. QED  BY <1>1, <1>2, <1>3, <1>4, <1>5

\* The search may raise in either thread.
LEMMA FailureKeeps ==
    ASSUME Inv, GenerationFails
    PROVE  Inv'
<1>1. /\ gen \in QuestionGenState /\ main \in Call /\ future \in Future
      /\ gen.node = "retrieve_evidence" /\ UNCHANGED <<state, behind>>
      /\ gen' = [gen EXCEPT !.node = "END"]
    BY DEF Inv, TypeOK, GenerationFails, At
<1>2. /\ gen' \in QuestionGenState /\ gen'.node = "END" /\ gen'.topic = gen.topic
      /\ gen'.tried = gen.tried /\ gen'.strategy = gen.strategy
      /\ gen'.difficulty = gen.difficulty
    BY <1>1 DEF QuestionGenState, Node
<1>3. GenerationSound'
    BY <1>1, <1>2 DEF Inv, GenerationSound
<1>4. CASE main.at = "making"
    <2>. DEFINE p == IF state.mains = 0 THEN "closed" ELSE "raised"
    <2>1. main' = [main EXCEPT !.at = p] /\ future' = future
        BY <1>4 DEF GenerationFails
    <2>2. /\ main' \in Call /\ main'.at = p /\ main'.quality = main.quality
          /\ main'.difficulty = main.difficulty
        BY <1>1, <2>1 DEF Call
    <2>3. state.mains \in Nat /\ future.at = "none"
        BY <1>4 DEF Inv, TypeOK, StrategyState, Begun
    <2>4. TypeOK'  BY <1>1, <1>2, <2>1, <2>2 DEF Inv, TypeOK
    <2>5. MadeFromNow' /\ DifficultySound' /\ CheckedSound'
        BY <2>1, <2>2, <2>3 DEF MadeFromNow, DifficultySound, CheckedSound
    <2>6. state.mains > 0 => main.quality # "none"
        BY <1>4 DEF Inv, Begun
    <2>7. Begun'
        BY <1>1, <1>4, <2>1, <2>2, <2>3, <2>6 DEF Inv, Begun
    <2>. QED  BY <1>3, <2>4, <2>5, <2>7 DEF Inv
<1>5. CASE main.at # "making"
    <2>1. future' = [future EXCEPT !.at = "failed"] /\ main' = main
        BY <1>5 DEF GenerationFails
    <2>2. future' \in Future /\ future'.at = "failed" /\ future'.difficulty = future.difficulty
        BY <1>1, <2>1 DEF Future
    <2>3. TypeOK'  BY <1>1, <1>2, <2>1, <2>2 DEF Inv, TypeOK
    <2>. /\ future.at = "pending" /\ gen'.strategy = gen.strategy /\ state' = state
        BY <1>1, <1>2, <1>5 DEF GenerationFails, At, Running
    <2>4. MadeFromNow'
        BY <1>5, <2>1, <2>2 DEF Inv, MadeFromNow
    <2>5. DifficultySound' /\ Begun'
        BY <1>1, <1>2, <1>5, <2>1, <2>2 DEF Inv, DifficultySound, Begun
    <2>6. CheckedSound'  BY <1>5, <2>1, <2>2 DEF CheckedSound
    <2>. QED  BY <1>3, <2>3, <2>4, <2>5, <2>6 DEF Inv
<1>. QED  BY <1>4, <1>5

\* A derived question is about the topic that was asked last.
LEMMA DerivedKeeps ==
    ASSUME Inv, AskDerived
    PROVE  Inv'
<1>1. PICK d \in {EASY, MEDIUM}, t \in Text : state' = Recorded(state, state.last, d, t)
    BY DEF AskDerived
<1>2. state \in StrategyState /\ state.last \in state.topics /\ d \in Difficulty
      /\ main.at = "idle" /\ UNCHANGED <<future, behind, gen, main>>
    BY DEF Inv, TypeOK, Begun, AskDerived, EASY, MEDIUM, Difficulty
<1>3. state.topics \cup {state.last} = state.topics  BY <1>2
<1>4. state' = [state EXCEPT !.topics = state.topics, !.last = state.last,
                             !.difficulties = Append(state.difficulties, d),
                             !.texts = state.texts \cup {t}]
    BY <1>1, <1>3 DEF Recorded
<1>5. Append(state.difficulties, d) \in Seq(Difficulty)  BY <1>2 DEF StrategyState
<1>6. /\ state' \in StrategyState
      /\ state'.topics = state.topics /\ state'.last = state.last /\ state'.mains = state.mains
    BY <1>2, <1>4, <1>5 DEF StrategyState
<1>7. TypeOK'  BY <1>2, <1>6 DEF Inv, TypeOK
<1>8. MadeFromNow' /\ GenerationSound' /\ CheckedSound' /\ DifficultySound' /\ Begun'
    BY <1>2, <1>6
    DEF Inv, MadeFromNow, GenerationSound, CheckedSound, EndSound, DifficultySound, Begun
<1>. QED  BY <1>7, <1>8 DEF Inv

\* The state with the question that was made has its topic as the last.
LEMMA WithQuestionTyped ==
    ASSUME Inv, gen.topic # 0
    PROVE  /\ WithQuestion \in StrategyState
           /\ WithQuestion.last \in WithQuestion.topics
           /\ WithQuestion.mains = state.mains + 1
           /\ WithQuestion.difficulties = Append(state.difficulties, gen.difficulty)
<1>. DEFINE ds == Append(state.difficulties, gen.difficulty)
            qs == IF main.quality = "none" THEN state.qualities
                  ELSE Append(state.qualities, main.quality)
            ts == state.topics \cup {gen.topic}
            xs == state.texts \cup {gen.text}
            n == state.mains + 1
<1>1. /\ state \in StrategyState /\ gen.topic \in Topic /\ gen.text \in Text
      /\ gen.difficulty \in Difficulty /\ main.quality \in Quality \cup {"none"}
    BY DEF Inv, TypeOK, QuestionGenState, Call
<1>2. /\ ds \in Seq(Difficulty) /\ qs \in Seq(Quality) /\ ts \subseteq Topic
      /\ xs \subseteq Text /\ n \in Nat
    BY <1>1 DEF StrategyState
<1>3. gen.topic \in ts  OBVIOUS
<1>. DEFINE r == Recorded(state, gen.topic, gen.difficulty, gen.text)
<1>4. r = [state EXCEPT !.topics = ts, !.last = gen.topic, !.difficulties = ds, !.texts = xs]
    BY DEF Recorded
<1>. HIDE DEF ds, ts, xs, r
<1>5. /\ r \in StrategyState
      /\ r.topics = ts /\ r.last = gen.topic /\ r.difficulties = ds
      /\ r.mains = state.mains /\ r.qualities = state.qualities
    BY <1>1, <1>2, <1>4 DEF StrategyState
<1>6. WithQuestion = [r EXCEPT !.mains = n, !.qualities = qs]
    BY <1>5 DEF WithQuestion, r
<1>. HIDE DEF n, qs
<1>7. /\ WithQuestion \in StrategyState
      /\ WithQuestion.topics = ts /\ WithQuestion.last = gen.topic
      /\ WithQuestion.mains = n /\ WithQuestion.difficulties = ds
    BY <1>2, <1>5, <1>6 DEF StrategyState
<1>. QED  BY <1>3, <1>7 DEF n, ds

\* A question asked is recorded and the next one begun.
LEMMA AskKeeps ==
    ASSUME Inv, Ask, gen.topic # 0
    PROVE  Inv'
<1>. DEFINE d == Guess(WithQuestion)
<1>1. /\ state' = WithQuestion /\ WithQuestion \in StrategyState
      /\ future' = [at |-> "pending", difficulty |-> d]
      /\ gen' = NewGeneration(WithQuestion, d) /\ behind' = behind
      /\ main' = [at |-> "idle", quality |-> "none", difficulty |-> EASY]
    BY WithQuestionTyped DEF Ask, PrefetchedFrom
<1>2. d \in Difficulty  BY <1>1, DifficultyTyped DEF Guess
<1>. HIDE DEF d
<1>3. /\ gen' \in QuestionGenState /\ gen'.node = "pick_topic" /\ gen'.topic = 0
      /\ gen'.strategy = WithQuestion /\ gen'.difficulty = d
      /\ gen'.retry_count = 0 /\ gen'.failed = FALSE
    BY <1>1, <1>2, NewGenerationTyped
<1>4. TypeOK'
    BY <1>1, <1>2, <1>3 DEF Inv, TypeOK, Future, Call, Difficulty, EASY
<1>5. GenerationSound'  BY <1>3 DEF GenerationSound
<1>6. MadeFromNow' /\ DifficultySound' /\ Begun'
    BY <1>1, <1>3, WithQuestionTyped DEF MadeFromNow, DifficultySound, Begun
<1>7. CheckedSound'  BY <1>1, <1>3 DEF CheckedSound, EndSound
<1>. QED  BY <1>4, <1>5, <1>6, <1>7 DEF Inv

\* A question that is begun for the difficulty required is sound.
LEMMA MakingSound ==
    ASSUME Inv, NEW q \in Quality, NEW d \in Difficulty, q # "none",
           d = Required(state, q), state.last \in state.topics,
           main' = [at |-> "making", quality |-> q, difficulty |-> d],
           future' = NoFuture, behind' \in Nat, gen' = NewGeneration(state, d),
           state' = state
    PROVE  Inv'
<1>1. state \in StrategyState  BY DEF Inv, TypeOK
<1>2. /\ gen' \in QuestionGenState /\ gen'.node = "pick_topic" /\ gen'.topic = 0
      /\ gen'.strategy = state /\ gen'.difficulty = d
      /\ gen'.retry_count = 0 /\ gen'.failed = FALSE
    BY <1>1, NewGenerationTyped
<1>3. future' \in Future /\ future'.at = "none"
    BY DEF NoFuture, Future, Difficulty, EASY
<1>4. TypeOK'  BY <1>1, <1>2, <1>3 DEF TypeOK, Call
<1>5. GenerationSound'  BY <1>2 DEF GenerationSound
<1>6. MadeFromNow' /\ CheckedSound' /\ DifficultySound' /\ Begun'
    BY <1>2, <1>3 DEF MadeFromNow, CheckedSound, EndSound, DifficultySound, Begun
<1>. QED  BY <1>4, <1>5, <1>6 DEF Inv

\* A question is made for what the last answer asks of the state.
LEMMA CallKeeps ==
    ASSUME Inv, NextQuestion
    PROVE  Inv'
<1>1. PICK q \in IF main.at = "raised" THEN {main.quality} ELSE Quality :
          LET d == NextDifficulty(state, q)
          IN  /\ main.at \in {"idle", "raised"}
              /\ main' = [at |-> IF Fits(d) THEN "waiting" ELSE "making",
                          quality |-> q, difficulty |-> d]
              /\ IF Fits(d) THEN UNCHANGED <<future, behind, gen>>
                 ELSE /\ future' = NoFuture
                      /\ behind' = IF Unfinished THEN behind + 1 ELSE behind
                      /\ gen' = NewGeneration(state, d)
              /\ UNCHANGED state
    BY DEF NextQuestion, MadeFrom
<1>. DEFINE d == NextDifficulty(state, q)
<1>2. /\ state \in StrategyState /\ d \in Difficulty /\ d = NextDifficulty(state, q)
      /\ state.last \in state.topics /\ behind \in Nat
    BY <1>1, DifficultyTyped DEF Inv, TypeOK, Begun
<1>3. q \in Quality /\ q # "none"
    BY <1>1, StrategyAssumption DEF Inv, TypeOK, Call, Begun
<1>. HIDE DEF d
<1>4. d = Required(state, q)  BY <1>2, <1>3 DEF Required
<1>5. CASE Fits(d)
    <2>1. /\ main' = [at |-> "waiting", quality |-> q, difficulty |-> d]
          /\ UNCHANGED <<state, future, behind, gen>>
        BY <1>1, <1>2, <1>5
    <2>2. future.at # "none" /\ future.difficulty = d  BY <1>5 DEF Fits
    <2>3. TypeOK'  BY <1>2, <1>3, <2>1 DEF Inv, TypeOK, Call
    <2>4. MadeFromNow'  BY <2>1, <2>2 DEF Inv, MadeFromNow
    <2>5. GenerationSound'  BY <2>1 DEF Inv, GenerationSound
    <2>6. DifficultySound'  BY <1>4, <2>1, <2>2 DEF Inv, DifficultySound
    <2>7. Begun'  BY <1>2, <1>3, <2>1 DEF Inv, Begun
    <2>8. CheckedSound'
        BY <1>1, <2>1 DEF Inv, CheckedSound, EndSound
    <2>. QED  BY <2>3, <2>4, <2>5, <2>6, <2>7, <2>8 DEF Inv
<1>6. CASE ~Fits(d)
    <2>1. /\ main' = [at |-> "making", quality |-> q, difficulty |-> d]
          /\ future' = NoFuture /\ behind' \in Nat
          /\ gen' = NewGeneration(state, d) /\ state' = state
        BY <1>1, <1>2, <1>6
    <2>. QED  BY <1>2, <1>3, <1>4, <2>1, MakingSound
<1>. QED  BY <1>5, <1>6

\* What is dropped is made anew, for the same answer.
LEMMA DropKeeps ==
    ASSUME Inv, DropPrefetch
    PROVE  Inv'
<1>1. /\ main.at = "waiting" /\ main' = [main EXCEPT !.at = "making"]
      /\ future' = NoFuture /\ gen' = NewGeneration(state, main.difficulty)
      /\ state' = state /\ behind' = behind
    BY DEF DropPrefetch, MadeFrom
<1>2. main' = [at |-> "making", quality |-> main.quality, difficulty |-> main.difficulty]
    BY <1>1 DEF Inv, TypeOK, Call
<1>3. /\ state.last \in state.topics /\ main.quality # "none" /\ main.quality \in Quality
      /\ main.difficulty \in Difficulty /\ behind \in Nat
      /\ main.difficulty = Required(state, main.quality)
    BY <1>1 DEF Inv, TypeOK, Call, Begun, DifficultySound
<1>. QED  BY <1>1, <1>2, <1>3, MakingSound

\* A discarded job's end and the end of the interview disturb nothing.
LEMMA EndsKeep ==
    ASSUME Inv, DiscardedEnds \/ Close
    PROVE  Inv'
<1>1. CASE DiscardedEnds
    <2>1. behind' \in Nat /\ UNCHANGED <<state, future, gen, main>>
        BY <1>1 DEF Inv, TypeOK, DiscardedEnds
    <2>. QED
        BY <2>1 DEF Inv, TypeOK, MadeFromNow, GenerationSound, CheckedSound, EndSound,
                    DifficultySound, Begun
<1>2. CASE Close
    <2>1. /\ main' = [main EXCEPT !.at = "closed"] /\ future' = NoFuture
          /\ behind' \in Nat /\ UNCHANGED <<state, gen>>
        BY <1>2 DEF Close
    <2>2. main' \in Call /\ main'.at = "closed"  BY <2>1 DEF Inv, TypeOK, Call
    <2>3. future' \in Future /\ future'.at = "none"
        BY <2>1 DEF NoFuture, Future, Difficulty, EASY
    <2>4. TypeOK'  BY <2>1, <2>2, <2>3 DEF Inv, TypeOK
    <2>5. MadeFromNow' /\ GenerationSound' /\ CheckedSound' /\ DifficultySound' /\ Begun'
        BY <2>1, <2>2, <2>3
        DEF Inv, MadeFromNow, GenerationSound, CheckedSound, DifficultySound, Begun
    <2>. QED  BY <2>4, <2>5 DEF Inv
<1>. QED  BY <1>1, <1>2

\* Every step keeps the invariant.
LEMMA NextKeeps == Inv /\ [Next]_vars => Inv'
<1>1. ASSUME Inv, UNCHANGED vars PROVE Inv'
    BY <1>1 DEF vars, Inv, TypeOK, MadeFromNow, GenerationSound, CheckedSound, EndSound,
                DifficultySound, Begun
<1>2. ASSUME Inv, UsePrefetch \/ UseMade PROVE Inv'
    <2>1. Ask /\ gen.topic # 0
        <3>1. gen.node = "END"
            BY <1>2 DEF UsePrefetch, UseMade, Unfinished
        <3>. QED  BY <1>2, <3>1 DEF UsePrefetch, UseMade, Inv, GenerationSound
    <2>. QED  BY <1>2, <2>1, AskKeeps
<1>3. ASSUME Inv, Next PROVE Inv'
    BY <1>2, <1>3, GenerationKeeps, FailureKeeps, DerivedKeeps, CallKeeps, DropKeeps,
       EndsKeep DEF Next
<1>. QED  BY <1>1, <1>3

LEMMA Invariance == Spec => []Inv
<1>. QED  BY Initially, NextKeeps, PTL DEF Spec

\* For all topics, texts and numbers of questions, through retries, failures,
\* prefetches and follow-ups: the variables keep their types, so the retries and the
\* second drafts stay within their limits.
THEOREM TypeCorrect == Spec => []TypeOK
<1>1. Inv => TypeOK  BY DEF Inv
<1>. QED  BY <1>1, Invariance, PTL

\* However the search fails, a topic is tried twice for one question only when all
\* topics were tried.
THEOREM NoTopicTriedTwiceHolds == Spec => []NoTopicTriedTwice
<1>1. Inv => NoTopicTriedTwice
    <2>. SUFFICES ASSUME Inv, gen.topic \in gen.tried PROVE gen.tried = Topic
        BY DEF NoTopicTriedTwice
    <2>1. gen.tried \subseteq Topic  BY DEF Inv, TypeOK, QuestionGenState
    <2>2. gen.topic \in Candidates(gen.tried)
        BY <2>1 DEF Inv, GenerationSound, Topic
    <2>. QED  BY <2>1, <2>2 DEF Candidates
<1>. QED  BY <1>1, Invariance, PTL

\* Only the two ways to take a question that was made ask one.
LEMMA AsksByTaking ==
    ASSUME Inv, [Next]_vars, Asks
    PROVE  (UsePrefetch \/ UseMade) /\ Ask /\ gen.topic # 0
<1>1. state \in StrategyState /\ state.mains \in Nat  BY DEF Inv, TypeOK, StrategyState
<1>2. ~AskDerived
    <2>. SUFFICES ASSUME AskDerived PROVE FALSE
        OBVIOUS
    <2>1. PICK d \in {EASY, MEDIUM}, t \in Text : state' = Recorded(state, state.last, d, t)
        BY DEF AskDerived
    <2>2. state'.mains = state.mains  BY <1>1, <2>1 DEF Recorded, StrategyState
    <2>. QED  BY <1>1, <2>2 DEF Asks
<1>3. state' # state  BY <1>1 DEF Asks
<1>4. UsePrefetch \/ UseMade
    BY <1>2, <1>3 DEF Next, vars, PickTopic, RetrieveEvidence, Generate, Validate,
       PolishStyle, GenerationFails, Goes, NextQuestion, DropPrefetch, DiscardedEnds, Close
<1>5. gen.node = "END"  BY <1>4 DEF UsePrefetch, UseMade, Unfinished
<1>. QED  BY <1>4, <1>5 DEF UsePrefetch, UseMade, Inv, GenerationSound

\* Prefetched or made when asked for, a main question has the difficulty that the
\* last answer and everything asked by now demand.
THEOREM DifficultyIsRequiredHolds == Spec => DifficultyIsRequired
<1>1. ASSUME Inv, [Next]_vars, Asks
      PROVE  state'.difficulties[Len(state'.difficulties)] = Required(state, main.quality)
    <2>1. (UsePrefetch \/ UseMade) /\ Ask /\ gen.topic # 0  BY <1>1, AsksByTaking
    <2>2. gen.difficulty = Required(state, main.quality)
        BY <1>1, <2>1 DEF UsePrefetch, UseMade, Inv, DifficultySound
    <2>3. state'.difficulties = Append(state.difficulties, gen.difficulty)
        BY <1>1, <2>1, WithQuestionTyped DEF Ask
    <2>4. state.difficulties \in Seq(Difficulty) /\ gen.difficulty \in Difficulty
        BY <1>1 DEF Inv, TypeOK, StrategyState, QuestionGenState
    <2>. QED  BY <2>2, <2>3, <2>4
<1>2. Inv /\ [Next]_vars
        => [Asks => state'.difficulties[Len(state'.difficulties)]
                        = Required(state, main.quality)]_vars
    BY <1>1
<1>. QED  BY <1>2, Invariance, PTL DEF Spec, DifficultyIsRequired

\* The choice of a prefetched topic is as good as one made now: a topic is asked again
\* only if every one that is not weak was asked or found without evidence.
THEOREM FreshTopicsFirstHolds == Spec => FreshTopicsFirst
<1>1. ASSUME Inv, [Next]_vars, Asks, gen.topic \in state.topics
      PROVE  Topic \ Weak \subseteq state.topics \cup gen.tried
    <2>1. (UsePrefetch \/ UseMade) /\ Ask /\ gen.topic # 0  BY <1>1, AsksByTaking
    <2>2. gen.strategy.topics = state.topics
        BY <1>1, <2>1 DEF UsePrefetch, UseMade, Inv, MadeFromNow
    <2>3. Candidates(gen.tried) \subseteq state.topics
        BY <1>1, <2>1, <2>2 DEF Inv, GenerationSound
    <2>. QED  BY <2>3 DEF Candidates
<1>2. Inv /\ [Next]_vars
        => [Asks /\ gen.topic \in state.topics
                => Topic \ Weak \subseteq state.topics \cup gen.tried]_vars
    BY <1>1
<1>. QED  BY <1>2, Invariance, PTL DEF Spec, FreshTopicsFirst

\* Whatever is asked between the start of a prefetch and its use, and whichever draft,
\* failure or wait came before: a main question that was found good and kept its text is
\* good by all that is asked by now.
THEOREM GoodWhenAskedHolds == Spec => GoodWhenAsked
<1>1. ASSUME Inv, [Next]_vars, Asks, ~gen.failed, ~gen.restyled
      PROVE  Passes(gen.text, state.texts)
    <2>1. UsePrefetch \/ UseMade  BY <1>1, AsksByTaking
    <2>2. CASE UsePrefetch
        <3>1. EndSound /\ gen.node = "END"
            BY <1>1, <2>2 DEF UsePrefetch, Unfinished, Inv, CheckedSound
        <3>. QED  BY <1>1, <2>2, <3>1 DEF UsePrefetch, Repeats, EndSound, Passes
    <2>3. CASE UseMade
        <3>1. EndSound /\ gen.node = "END" /\ gen.strategy = state
            BY <1>1, <2>3 DEF UseMade, Inv, CheckedSound
        <3>. QED  BY <1>1, <3>1 DEF EndSound
    <2>. QED  BY <2>1, <2>2, <2>3
<1>2. Inv /\ [Next]_vars
        => [Asks /\ ~gen.failed /\ ~gen.restyled => Passes(gen.text, state.texts)]_vars
    BY <1>1
<1>. QED  BY <1>2, Invariance, PTL DEF Spec, GoodWhenAsked
=============================================================================
