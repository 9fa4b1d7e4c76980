---------------------------- MODULE PromptSources ----------------------------
(***************************************************************************)
(* Where prompts come from: the text channel of synthetic sessions with    *)
(* its growing shared prefix (generator/channel/text.py), samples of a     *)
(* corpus (trace/prompt_builder.py), the turns of recorded conversations   *)
(* (trace/conversation.py), and recorded texts and clips cut to a sampled  *)
(* length (trace/sharegpt.py, seed_tts_text.py, audio.py).  Tokens and     *)
(* words are numbers: the n-th one made, or the n-th of a text.            *)
(*                                                                         *)
(* The state is the record p: its task, and the fields of that task.       *)
(***************************************************************************)
EXTENDS Naturals, Sequences, FiniteSets, SequencesExt

CONSTANTS
    BodyLengths,   \* what the body length generator may return
    RatioNum, RatioDen,  \* shared_prefix_ratio
    Slack,         \* tokens more or less than asked for of a made text
    SuffixTokens,  \* tokens of the "Generate at least ..." instruction
    MaxPrompts,    \* bound: prompts made
    Corpora,       \* sequences of line lengths
    Samples,       \* sample sizes asked of a corpus
    MaxMessages,   \* bound: messages of a conversation
    TextLengths,   \* lengths of recorded texts
    MinLength, MaxLength  \* of a prompt cut from one

VARIABLE p

-----------------------------------------------------------------------------
(* The text channel.  cache is _shared_prefix_tokens.                       *)

StartText == p = [task |-> "text", pc |-> "run", cache |-> <<>>, fresh |-> 0, made |-> <<>>]

NewTokens(k) == [i \in 1 .. k |-> p.fresh + i]

\* PromptStringGenerator.generate() tiles whole encodings, at least one: a
\* few tokens (Slack) more or less than asked for.
Generated(k) == IF k = 0 THEN {0} ELSE {m \in 1 .. k + Slack : m + Slack >= k}

\* BUG: the cache is made anew instead of extended.
RegeneratedPrefix(k, got) == IF Len(p.cache) < k THEN NewTokens(k) ELSE p.cache

\* _generate_shared_prefix(): the cache, extended by what is missing.
ExtendedPrefix(k, got) ==
    IF Len(p.cache) < k THEN p.cache \o NewTokens(got) ELSE p.cache

Missing(k) == IF Len(p.cache) < k THEN k - Len(p.cache) ELSE 0

\* generate_content(): a root may begin with the shared prefix; the rest may
\* end with the instruction, if it is longer than that.
GenerateContent ==
    /\ p.task = "text" /\ Len(p.made) < MaxPrompts
    /\ \E length \in BodyLengths, root, lucky, asked \in BOOLEAN :
         LET shared == root /\ lucky /\ RatioNum > 0
             k == IF shared THEN (length * RatioNum) \div RatioDen ELSE 0
         IN  \E got \in Generated(Missing(k)) :
               LET cache == ExtendedPrefix(k, got)
               IN  p' = [p EXCEPT !.cache = cache, !.fresh = @ + got,
                          !.made = Append(@, [root |-> root, asked |-> k,
                              prefix |-> SubSeq(cache, 1, IF k < Len(cache) THEN k ELSE Len(cache)),
                              body |-> length - k, length |-> length,
                              suffix |-> asked /\ length - k > SuffixTokens])]

-----------------------------------------------------------------------------
(* A sample of a corpus.                                                    *)

\* Empty lines are dropped; no line at all, or only empty ones, is an error.
StartSample == \E lengths \in Corpora, n \in Samples :
    LET lines == SelectSeq(lengths, LAMBDA l : l > 0)
        begun == [task |-> "sample", pc |-> "done", lines |-> lines, asked |-> n,
                  remaining |-> n, order |-> <<>>, cursor |-> 1, out |-> <<>>]
    IN  p = [begun EXCEPT !.pc = IF n = 0 THEN "done" ELSE IF lines = <<>> THEN "refused" ELSE "shuffle"]

Orders == {o \in [DOMAIN p.lines -> DOMAIN p.lines] : IsInjective(o)}

Shuffle ==
    /\ p.task = "sample" /\ p.pc = "shuffle"
    /\ \E o \in Orders : p' = [p EXCEPT !.pc = "take", !.order = o, !.cursor = 1]

\* BUG: the lines are shuffled for every piece.
TakeAndShuffle ==
    /\ p.task = "sample" /\ p.pc = "take"
    /\ LET line == p.order[p.cursor]
           take == IF p.remaining < p.lines[line] THEN p.remaining ELSE p.lines[line]
       IN  p' = [p EXCEPT !.out = Append(@, <<line, take>>), !.remaining = @ - take,
                          !.pc = IF take = p.remaining THEN "done" ELSE "shuffle"]

\* A piece of the next line; after the last one the lines are shuffled again.
Take ==
    /\ p.task = "sample" /\ p.pc = "take"
    /\ LET line == p.order[p.cursor]
           take == IF p.remaining < p.lines[line] THEN p.remaining ELSE p.lines[line]
       IN  p' = [p EXCEPT !.out = Append(@, <<line, take>>), !.remaining = @ - take,
                          !.cursor = @ + 1,
                          !.pc = IF take = p.remaining THEN "done"
                                 ELSE IF p.cursor = Len(p.order) THEN "shuffle" ELSE "take"]

-----------------------------------------------------------------------------
(* The turns of a conversation.  at is the loop's index.                    *)

Role == {"user", "assistant", "other"}
StartTurns == \E n \in 0 .. MaxMessages : \E m \in [1 .. n -> Role] :
    p = [task |-> "turns", pc |-> "pairs", messages |-> m, at |-> 1,
         pairs |-> <<>>, history |-> <<>>, requests |-> <<>>]

IsTurn(i) ==
    /\ p.messages[i] = "user"
    /\ i < Len(p.messages) /\ p.messages[i + 1] = "assistant"

TakePair ==
    /\ p.task = "turns" /\ p.pc = "pairs" /\ p.at <= Len(p.messages)
    /\ IsTurn(p.at)
    /\ p' = [p EXCEPT !.pairs = Append(@, p.at), !.at = @ + 2]

\* BUG: whatever follows a message without an answer is skipped with it.
SkipMessageAndNext ==
    /\ p.task = "turns" /\ p.pc = "pairs" /\ p.at <= Len(p.messages)
    /\ ~IsTurn(p.at)
    /\ p' = [p EXCEPT !.at = @ + 2]

\* Leading messages that are not the user's, and all that are no turn.
SkipMessage ==
    /\ p.task = "turns" /\ p.pc = "pairs" /\ p.at <= Len(p.messages)
    /\ ~IsTurn(p.at)
    /\ p' = [p EXCEPT !.at = @ + 1]

PairsFound ==
    /\ p.task = "turns" /\ p.pc = "pairs" /\ p.at > Len(p.messages)
    /\ p' = [p EXCEPT !.pc = "requests", !.at = 1]

\* The next request has the history so far, which then gets its own two
\* messages; without any turn there is one empty request.
NextRequest ==
    /\ p.task = "turns" /\ p.pc = "requests"
    /\ p' = IF p.at <= Len(p.pairs)
            THEN LET i == p.pairs[p.at]
                 IN  [p EXCEPT !.at = @ + 1,
                        !.requests = Append(@, [prompt |-> i, history |-> p.history]),
                        !.history = @ \o <<i, i + 1>>]
            ELSE [p EXCEPT !.pc = "done",
                           !.requests = IF @ = <<>> THEN <<[prompt |-> 0, history |-> <<>>]>> ELSE @]

-----------------------------------------------------------------------------
(* Recorded texts cut to a sampled length: ShareGPT's by the tokenizer or   *)
(* in characters, Seed TTS's in words or characters, and audio clips with   *)
(* the words that end within a sampled duration.                            *)

\* The tokenizer of a text client is the model's own; the speech clients have
\* one that splits words and decodes a token to its number.
Sources == {[flavor |-> "sharegpt", unit |-> "tokens", tokenizer |-> t] : t \in {"own", "split"}}
           \cup {[flavor |-> f, unit |-> u, tokenizer |-> "split"] :
                   f \in {"sharegpt", "seed_tts"}, u \in {"chars", "words"}}
           \cup {[flavor |-> "audio", unit |-> "ms", tokenizer |-> "split"]}

TextOf(n) == [i \in 1 .. n |-> <<"word", i>>]
StartCut == \E source \in Sources, n \in TextLengths :
    p = [task |-> "cut", pc |-> "filter", source |-> source, text |-> TextOf(n),
         target |-> 0, prompt |-> <<>>]

\* The generator's load: too short a text is left out; an audio row stays.
Filter ==
    /\ p.task = "cut" /\ p.pc = "filter"
    /\ p' = [p EXCEPT !.pc = IF p.source.flavor # "audio" /\ Len(p.text) < MinLength
                             THEN "left out" ELSE "prepare"]

\* encode() numbers the words, decode() writes the numbers.
Decoded(tokenizer, words) ==
    IF tokenizer = "own" THEN words ELSE [i \in DOMAIN words |-> <<"number", i - 1>>]

\* BUG: the words that begin within the duration are kept.
FirstOfWithin(k) == IF k + 1 < Len(p.text) THEN SubSeq(p.text, 1, k + 1) ELSE p.text

FirstOf(k) == IF k < Len(p.text) THEN SubSeq(p.text, 1, k) ELSE p.text

\* prepare_session(): the length is drawn, the text is cut; a clip without a
\* word that ends in time is refused.
PrepareSession ==
    /\ p.task = "cut" /\ p.pc = "prepare"
    /\ \E target \in MinLength .. MaxLength :
         LET cut == IF p.source.unit = "tokens" /\ target < Len(p.text)
                    THEN Decoded(p.source.tokenizer, FirstOf(target)) ELSE FirstOf(target)
         IN  p' = [p EXCEPT !.target = target, !.prompt = cut,
                            !.pc = IF cut = <<>> THEN "refused" ELSE "done"]

-----------------------------------------------------------------------------
Init == StartText \/ StartSample \/ StartTurns \/ StartCut
Next == \/ GenerateContent \/ Shuffle \/ Take
        \/ TakePair \/ SkipMessage \/ PairsFound \/ NextRequest
        \/ Filter \/ PrepareSession
Spec == Init /\ [][Next]_p

-----------------------------------------------------------------------------
\* The prefixes of any two prompts agree as far as the shorter one goes, in
\* whatever order longer and shorter ones are asked for, so the later request
\* finds the earlier one's prefix cached; the slack of a cache made in several
\* pieces is that of one piece.
PrefixesNest ==
    \A i, j \in DOMAIN p.made :
        LET a == p.made[i]
            b == p.made[j]
        IN  /\ IsPrefix(a.prefix, b.prefix) \/ IsPrefix(b.prefix, a.prefix)
            /\ a.asked <= Len(a.prefix) + Slack /\ Len(a.prefix) <= a.asked
            /\ ~a.root => a.prefix = <<>>
            /\ a.suffix => a.body > SuffixTokens

\* A sample has exactly the tokens asked for, and no line of the corpus is used
\* a second time before every line was used.
Uses(line) == Cardinality({i \in DOMAIN p.out : p.out[i][1] = line})
SampleIsFair ==
    /\ p.pc = "done" => FoldSeq(LAMBDA piece, sum : piece[2] + sum, 0, p.out) = p.asked
    /\ \A a, b \in DOMAIN p.lines : Uses(a) <= Uses(b) + 1

\* The requests are exactly the user messages that were answered, in order,
\* each with the questions and answers of the requests before it.
TurnsAreComplete ==
    p.pc = "done" =>
        LET turns == {i \in DOMAIN p.messages : IsTurn(i)}
            asked == {p.requests[k].prompt : k \in DOMAIN p.requests}
        IN  /\ asked = IF turns = {} THEN {0} ELSE turns
            /\ \A k \in DOMAIN p.requests :
                 LET r == p.requests[k]
                     before == {i \in turns : i < r.prompt}
                 IN  /\ k = Cardinality(before) + 1
                     /\ ToSet(r.history) = before \cup {i + 1 : i \in before}
                     /\ \A x, y \in DOMAIN r.history : x < y => r.history[x] < r.history[y]

\* A prompt is a piece of its text, within the lengths asked for: except that a
\* speech client's ShareGPT text cut in tokens becomes a row of numbers.
CutIsPrefix ==
    p.pc = "done" =>
        /\ Len(p.prompt) <= MaxLength
        /\ p.source.flavor # "audio" => Len(p.prompt) >= MinLength
        /\ Len(p.prompt) = p.target \/ p.prompt = p.text
        /\ (p.source.unit = "tokens" => p.source.tokenizer = "own") => IsPrefix(p.prompt, p.text)

PromptsAreSound ==
    /\ p.task = "text" => PrefixesNest
    /\ p.task = "sample" => SampleIsFair
    /\ p.task = "turns" => TurnsAreComplete
    /\ p.task = "cut" => CutIsPrefix
=============================================================================
