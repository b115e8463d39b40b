----------------------------- MODULE Compaction -----------------------------
(***************************************************************************)
(* kodkod-core/src/compact.rs: the portable compaction of a transcript,    *)
(* as run_with_usage does it: image projection, the choice of the messages *)
(* kept verbatim, one summarizer request or a chain of bounded ones, and   *)
(* the splice of the summary into what is kept.  Indices start at 1.       *)
(*                                                                         *)
(* A message carries the originals it tells of (`covers`): itself, or, for *)
(* a summary, everything its summarizer requests showed the model.  What   *)
(* the model writes is not modelled: a summary tells of what it was shown. *)
(***************************************************************************)
EXTENDS Integers, Sequences, FiniteSets, SequencesExt, FiniteSetsExt, Selection

CONSTANTS
    Alphabet,           \* what the host and the agent may append
    CallIds,            \* ids of tool calls
    MaxMessages,        \* bound: messages appended
    MaxCompactions,     \* bound: compactions begun
    TailTokens,         \* CompactOptions::keep_tail_tokens, to choose from
    KeepImages,         \* retain_recent_tool_image_observations; NoLimit is None
    ImageTokens,        \* estimate of one image
    Overhead,           \* estimate of a summarizer request with no messages
    SummarySizes,       \* estimates of what the model may answer
    Budget              \* max_input_tokens; NoLimit when unknown

NoLimit == -1
ASSUME LimitAssumption ==
    /\ Budget \in Nat \cup {NoLimit} /\ KeepImages \subseteq Nat \cup {NoLimit}
    /\ {Overhead, ImageTokens} \cup TailTokens \cup SummarySizes \subseteq Nat

(* Only an assistant calls tools; the images that compaction may drop are  *)
(* those of tool results (conversation.rs:91).                             *)
ASSUME AlphabetAssumption ==
    \A letter \in Alphabet :
        /\ letter.kind \in {"user", "steer", "system", "assistant", "result"}
        /\ letter.calls \in Seq(CallIds) /\ letter.answers \in CallIds \cup {"none"}
        /\ letter.image \in BOOLEAN /\ letter.size \in Nat
        /\ letter.calls # <<>> => letter.kind = "assistant"
        /\ letter.image => letter.kind = "result"

VARIABLES
    transcript,         \* the conversation's messages
    said,               \* history: every message as it was appended
    phase,              \* "idle" | "whole" | "chunks"
    source,             \* the projected conversation being compacted
    plan,               \* CompactionPlan, with the input and the tail limit
    start,              \* messages of the input summarized so far
    upto,               \* where the outstanding request's messages end
    summary,            \* the summary so far, at most one message
    error,              \* how the last compaction ended
    compactions

vars == <<transcript, said, phase, source, plan, start, upto, summary, error,
          compactions>>
job == <<source, plan, start, upto, summary>>

-----------------------------------------------------------------------------
(* Costs and images.                                                       *)

Weight(msg) == msg.size + (IF msg.image THEN ImageTokens ELSE 0)

\* For every n, what the first n messages cost.
Costs(msgs) ==
    LET upTo[n \in 0 .. Len(msgs)] ==
            IF n = 0 THEN 0 ELSE upTo[n - 1] + Weight(msgs[n])
    IN  upTo

CostOf(msgs, from, to) == Costs(msgs)[to] - Costs(msgs)[from - 1]

RetainImages(msgs, keep) ==
    [i \in DOMAIN msgs |->
        [msgs[i] EXCEPT !.image =
            @ /\ Cardinality({j \in DOMAIN msgs : j > i /\ msgs[j].image}) < keep]]

Projected(msgs, keep) ==
    IF keep = NoLimit THEN msgs ELSE RetainImages(msgs, keep)

-----------------------------------------------------------------------------
(* The verbatim tail.                                                      *)

(* The longest suffix that costs at most `keep`.                           *)
TailByCost(msgs, keep) ==
    Min({s \in 1 .. Len(msgs) + 1 : CostOf(msgs, s, Len(msgs)) <= keep})

(* The walk over the exchange that the calls of message i open: where it   *)
(* breaks, if it does.                                                     *)
ExchangeFault(msgs, i) ==
    LET calls == msgs[i].calls
        Answers(j) ==
            /\ j <= Len(msgs) /\ msgs[j].kind = "result"
            /\ msgs[j].answers \in ToSet(calls)
            /\ \A k \in i + 1 .. j - 1 : msgs[k].answers # msgs[j].answers
        wrong == {j \in i + 1 .. i + Len(calls) : ~Answers(j)}
    IN  IF ~IsInjective(calls) THEN {i}
        ELSE IF wrong = {} THEN {}
        ELSE IF Min(wrong) <= Len(msgs) /\ msgs[Min(wrong)].kind = "result"
             THEN {Min(wrong)}
             ELSE {i}

(* Zero when the messages from `from` on break nothing.                    *)
FirstViolation(msgs, from) ==
    LET Walk[i \in 1 .. Len(msgs) + 1] ==
            IF i > Len(msgs) THEN 0
            ELSE IF msgs[i].kind = "result" THEN i
            ELSE IF ExchangeFault(msgs, i) # {} THEN Min(ExchangeFault(msgs, i))
            ELSE Walk[i + 1 + Len(msgs[i].calls)]
    IN  Walk[from]

(* An operator named X_Y is X with the mistake Y; nothing here uses it.    *)
SafeTailStart_OnlyFirst(msgs, from) ==
    LET violation == FirstViolation(msgs, from)
    IN  IF violation = 0 THEN from ELSE violation + 1

SafeTailStart(msgs, from) ==
    LET Skip[s \in 1 .. Len(msgs) + 1] ==
            LET violation == FirstViolation(msgs, s)
            IN  IF violation = 0 THEN s ELSE Skip[violation + 1]
    IN  Skip[from]

-----------------------------------------------------------------------------
(* What is kept, and what the summarizer is shown.                         *)

LatestSystem(msgs) ==
    {i \in DOMAIN msgs : /\ msgs[i].kind = "system"
                         /\ \A j \in DOMAIN msgs : j > i => msgs[j].kind # "system"}

LatestUser(msgs) ==
    {i \in DOMAIN msgs : /\ msgs[i].kind = "user"
                         /\ \A j \in DOMAIN msgs : j > i => msgs[j].kind # "user"}

Pinned_UserOnly(msgs) == LatestUser(msgs) \cup LatestSystem(msgs)

Pinned(msgs) ==
    LatestUser(msgs) \cup LatestSystem(msgs)
      \cup {i \in DOMAIN msgs : /\ msgs[i].kind = "steer"
                                /\ \E u \in LatestUser(msgs) : u < i}

Kept(msgs, tail) == Pinned(msgs) \cup tail .. Len(msgs)

SummarizerMessages(msgs, tail, kept) ==
    LET system == LatestSystem(msgs)
    IN  Select(msgs, {i \in 1 .. tail - 1 : i \notin kept \/ i \in system})
          \o Select(msgs, {i \in system : i >= tail})

FirstDropped(msgs, kept) == Min((DOMAIN msgs) \ kept)

Splice_BeforeTail(msgs, kept, text) ==
    Select(msgs, {i \in kept : \E j \in DOMAIN msgs \ kept : j > i}) \o <<text>>
      \o Select(msgs, {i \in kept : \A j \in DOMAIN msgs \ kept : j < i})

Splice(msgs, kept, text) ==
    LET first == FirstDropped(msgs, kept)
    IN  SubSeq(msgs, 1, first - 1) \o <<text>>
          \o Select(msgs, {i \in kept : i > first})

RetainedIndices_NoShift(msgs, kept) ==
    {<<i, Rank(kept, i)>> : i \in kept}

RetainedIndices(msgs, kept) ==
    {<<i, Rank(kept, i) + (IF i > FirstDropped(msgs, kept) THEN 1 ELSE 0)>> : i \in kept}

-----------------------------------------------------------------------------
(* Bounded summarizing.                                                    *)

Boundaries_AtEnd(msgs) == {Len(msgs)}

(* Where a chunk may end: no call made so far is still unanswered.         *)
Boundaries(msgs) ==
    {e \in DOMAIN msgs :
        \A i \in 1 .. e : \A id \in ToSet(msgs[i].calls) :
            \E j \in i + 1 .. e : msgs[j].kind = "result" /\ msgs[j].answers = id}

ChunkEnds_SummaryFree(msgs, done, sum) ==
    {e \in Boundaries(msgs) :
        e > done /\ Overhead + CostOf(msgs, done + 1, e) < Budget}
ChunkEnds_AnyEnd(msgs, done, sum) ==
    {e \in DOMAIN msgs : /\ e > done
                         /\ Overhead + CostOf(sum, 1, Len(sum))
                              + CostOf(msgs, done + 1, e) < Budget}
ChunkEnds_NoProgress(msgs, done, sum) ==
    {e \in Boundaries(msgs) \cup {0} :
        /\ e >= done
        /\ Overhead + CostOf(sum, 1, Len(sum)) + CostOf(msgs, done + 1, e) < Budget}

(* The boundaries that the next request can reach within the budget.       *)
ChunkEnds(msgs, done, sum) ==
    {e \in Boundaries(msgs) :
        /\ e > done
        /\ Overhead + CostOf(sum, 1, Len(sum)) + CostOf(msgs, done + 1, e) < Budget}

(* The messages of the outstanding request: system prompt and instruction  *)
(* are the overhead.                                                       *)
Request_NoSummary == SubSeq(plan.input, start + 1, upto)
Request == summary \o SubSeq(plan.input, start + 1, upto)

Told(msgs) == UNION {m.covers : m \in ToSet(msgs)}
SummaryOf(shown, size) ==
    [kind |-> "assistant", calls |-> <<>>, answers |-> "none", image |-> FALSE,
     size |-> size, summary |-> TRUE, covers |-> Told(shown)]

-----------------------------------------------------------------------------
(* The host, the agent and the summarizer.                                 *)

NoPlan == [kept |-> {}, tail |-> 1, input |-> <<>>, limit |-> 0]
EndJob ==
    /\ source' = <<>> /\ summary' = <<>>
    /\ plan' = NoPlan /\ start' = 0 /\ upto' = 0

Init ==
    /\ transcript = <<>> /\ said = <<>> /\ source = <<>> /\ summary = <<>>
    /\ plan = NoPlan /\ start = 0 /\ upto = 0
    /\ phase = "idle" /\ error = "none" /\ compactions = 0

Append1(letter) ==
    LET n == Len(said) + 1
        msg == [kind |-> letter.kind, calls |-> letter.calls,
                answers |-> letter.answers, image |-> letter.image,
                size |-> letter.size, summary |-> FALSE, covers |-> {n}]
    IN  /\ phase = "idle" /\ n <= MaxMessages
        /\ transcript' = Append(transcript, msg)
        /\ said' = Append(said, msg)
        /\ UNCHANGED <<phase, job, error, compactions>>

(* The next bounded request, or the error when no boundary can be reached. *)
AskChunk(msgs, done, sum) ==
    LET ends == ChunkEnds(msgs, done, sum)
    IN  IF ends = {}
        THEN phase' = "idle" /\ error' = "oversized" /\ upto' = done
        ELSE phase' = "chunks" /\ error' = "none" /\ upto' = Max(ends)

(* run_with_usage up to its first request.                                 *)
Begin(tailTokens, keepImages) ==
    LET msgs == Projected(transcript, keepImages)
        tail == SafeTailStart(msgs, TailByCost(msgs, tailTokens))
        kept == Kept(msgs, tail)
        input == SummarizerMessages(msgs, tail, kept)
    IN  /\ phase = "idle" /\ compactions < MaxCompactions
        /\ compactions' = compactions + 1
        /\ UNCHANGED said
        /\ IF kept = DOMAIN msgs
           THEN /\ transcript' = msgs /\ EndJob
                /\ error' = IF msgs # transcript THEN "none" ELSE "nothing"
                /\ UNCHANGED phase
           ELSE /\ source' = msgs
                /\ plan' = [kept |-> kept, tail |-> tail, input |-> input,
                            limit |-> tailTokens]
                /\ start' = 0 /\ summary' = <<>>
                /\ UNCHANGED transcript
                /\ IF Budget # NoLimit
                        /\ Overhead + CostOf(input, 1, Len(input)) >= Budget
                   THEN AskChunk(input, 0, <<>>)
                   ELSE phase' = "whole" /\ error' = "none" /\ upto' = Len(input)

(* summary_from_reply accepts the answer: the next chunk, or the splice.   *)
Reply(size) ==
    LET text == SummaryOf(Request, size)
    IN  /\ phase # "idle"
        /\ UNCHANGED <<said, compactions>>
        /\ IF upto < Len(plan.input)
           THEN /\ AskChunk(plan.input, upto, <<text>>)
                /\ summary' = <<text>> /\ start' = upto
                /\ UNCHANGED <<transcript, source, plan>>
           ELSE /\ transcript' = Splice(source, plan.kept, text)
                /\ phase' = "idle" /\ EndJob /\ UNCHANGED error

(* The request fails, or its answer is no summary: the source is dropped.  *)
Fail ==
    /\ phase # "idle"
    /\ phase' = "idle" /\ error' = "summarizer" /\ EndJob
    /\ UNCHANGED <<transcript, said, compactions>>

Next ==
    \/ \E letter \in Alphabet : Append1(letter)
    \/ \E t \in TailTokens, k \in KeepImages : Begin(t, k)
    \/ \E size \in SummarySizes : Reply(size)
    \/ Fail

Spec == Init /\ [][Next]_vars
(* No request stays outstanding for ever: it is answered, unless it fails. *)
FairSpec == Spec /\ WF_vars(\E size \in SummarySizes : Reply(size))

-----------------------------------------------------------------------------
(* What compaction promises.                                               *)

(* compact.rs:144 "without silently dropping old exchanges": through any   *)
(* number of compactions, every message ever appended is in the transcript *)
(* or was shown to the model that wrote a summary in the transcript.       *)
NothingForgotten == Told(transcript) = DOMAIN said

(* pinned_indices: the latest ordinary user message, the steers after it   *)
(* and the latest system message are still there word for word.            *)
LatestRequestVerbatim ==
    \A n \in DOMAIN said :
        \/ /\ said[n].kind = "user"
           /\ \A k \in DOMAIN said : k > n => said[k].kind # "user"
        \/ /\ said[n].kind = "steer"
           /\ \E k \in DOMAIN said : k < n /\ said[k].kind = "user"
           /\ \A k \in DOMAIN said : k > n => said[k].kind # "user"
        \/ /\ said[n].kind = "system"
           /\ \A k \in DOMAIN said : k > n => said[k].kind # "system"
        => said[n] \in ToSet(transcript)

(* splice_messages: messages keep their order, and a summary stands where  *)
(* the oldest message it replaces stood (the latest system message, which  *)
(* the summarizer is shown in any case, apart).                            *)
OrderKept ==
    LET Replaced(m) == {n \in m.covers : m.summary => said[n].kind # "system"}
    IN  \A p, q \in DOMAIN transcript :
            p < q /\ ~transcript[p].summary
              => \A n \in transcript[p].covers, k \in Replaced(transcript[q]) : n < k

(* A sequence in which every call is answered at once, in any order, and   *)
(* nothing else is answered.                                               *)
WellPaired(msgs) ==
    LET Window(i) == i + 1 .. i + Len(msgs[i].calls)
    IN  /\ \A i \in DOMAIN msgs :
             /\ IsInjective(msgs[i].calls)
             /\ Window(i) \subseteq DOMAIN msgs
             /\ {msgs[j].answers : j \in Window(i)} = ToSet(msgs[i].calls)
        /\ \A j \in DOMAIN msgs :
             msgs[j].kind = "result" <=> \E i \in DOMAIN msgs : j \in Window(i)

(* The verbatim tail is the longest suffix that is well paired and within  *)
(* keep_tail_tokens: no orphan survives, nothing is dropped without need.  *)
TailIsLeastSafe ==
    phase # "idle" =>
        LET Suffix(s) == SubSeq(source, s, Len(source))
            Fits(s) == CostOf(source, s, Len(source)) <= plan.limit
        IN  /\ WellPaired(Suffix(plan.tail)) /\ Fits(plan.tail)
            /\ \A s \in 1 .. plan.tail - 1 : ~(WellPaired(Suffix(s)) /\ Fits(s))

(* CompactionResult::retained_message_indices: the pairs name the same     *)
(* message before and after, and name every message kept, as the adapter   *)
(* needs that rebases its metadata by them.                                *)
RetainedIndicesAgree ==
    [][(phase # "idle" /\ transcript' # transcript) =>
        LET pairs == RetainedIndices(source, plan.kept)
        IN  /\ \A pair \in pairs :
                 /\ pair[2] \in DOMAIN transcript'
                 /\ transcript'[pair[2]] = source[pair[1]]
            /\ Cardinality(pairs) = Len(transcript') - 1]_vars

(* README.md:172 of kodkod-core, "bounded": a chunk's request stays below  *)
(* the budget, the summary it builds on included.                          *)
RequestsFit ==
    phase = "chunks" => Overhead + CostOf(Request, 1, Len(Request)) < Budget

(* README.md:172 of kodkod-core, "protocol-safe": if the transcript is     *)
(* well paired then so is every request made to summarize it.              *)
RequestsArePaired ==
    phase # "idle" /\ WellPaired(source) => WellPaired(Request)

(* The exchange that the message after `done` opens, and what it weighs.   *)
NextExchangeFits(done) ==
    Overhead + CostOf(summary, 1, Len(summary))
      + CostOf(plan.input, done + 1, done + 1 + Len(plan.input[done + 1].calls)) < Budget

(* A well-paired transcript is refused only when one exchange of it is     *)
(* itself too large for a request.                                         *)
RefusedForOneExchange ==
    error = "oversized" /\ WellPaired(source) => ~NextExchangeFits(upto)

(* A compaction ends: every chunk takes at least one message further.      *)
CompactionEnds == phase # "idle" ~> phase = "idle"
=============================================================================
