------------------------------ MODULE SmpcRuntime ------------------------------
(***************************************************************************)
(* The SMPC runtime (smpc-orchestrator/runtime, main.rs): the aggregate    *)
(* screening of three banks, and the endpoint that the encryption service  *)
(* calls for each entity of a transaction.  The service keeps no state and *)
(* its handlers share none: one request at a time is the general case.     *)
(***************************************************************************)
EXTENDS Integers, Sequences, FiniteSets, FiniteSetsExt, SequencesExt

Bag == INSTANCE BagsExt

CONSTANTS
    Parties,    \* the party records of requests
    Counts,     \* how many of them a request has
    MaxU32,     \* bound: stands for u32::MAX
    Entities,   \* entity ids
    Sanctioned, \* those on the sanctions list
    Amounts     \* amounts, 0 where a request has none

\* As for u32, the bound is high whatever number of scores it is divided by: a
\* request has at most 2 MB, axum's limit for its Json.
ASSUME RuntimeAssumption ==
    /\ Sanctioned \subseteq Entities /\ Amounts \subseteq Nat
    /\ Counts \subseteq Nat /\ MaxU32 \in Nat
    /\ \A p \in Parties :
         /\ IsFiniteSet(p.customers) /\ IsFiniteSet(p.counterparties)
         /\ p.scores \in Seq(0 .. MaxU32)
         /\ \A n \in Counts : 70 * (n * Len(p.scores)) <= MaxU32

VARIABLES
    request, \* the request that waits for its answer
    answer   \* the answer to it

vars == <<request, answer>>

NoRequest == [kind |-> "none"]

ThreeBankRequests ==
    {[kind |-> "three_bank", parties |-> ps]
       : ps \in UNION {[1 .. n -> Parties] : n \in Counts}}

ScreenRequests ==
    {[kind |-> "screen", entity |-> e, amount |-> a]
       : e \in Entities, a \in Amounts}

NoAnswer == [code |-> 0]

-----------------------------------------------------------------------------
(* validate_three_bank_request *)

Refs(party) == party.customers \union party.counterparties

Valid(parties) ==
    /\ Len(parties) = 3
    /\ \A i, j \in DOMAIN parties :
         i # j => parties[i].bank # parties[j].bank
    /\ \A i \in DOMAIN parties :
         Refs(parties[i]) # {} /\ parties[i].scores # <<>>

-----------------------------------------------------------------------------
(* aggregate_risk_scores, classify_risk *)

Scores(parties) == FlattenSeq([i \in DOMAIN parties |-> parties[i].scores])

\* Mutation of Add: u32 addition in a release build.
AddWrapping(a, b) == (a + b) % (MaxU32 + 1)

\* saturating_add
Add(a, b) == Min({a + b, MaxU32})

Aggregate(parties) ==
    LET scores == Scores(parties) IN
    IF scores = <<>> THEN 0
    ELSE FoldLeft(Add, 0, scores) \div Len(scores)

ClassifyRisk(score) ==
    CASE score \in 0 .. 39 -> "low"
      [] score \in 40 .. 69 -> "medium"
      [] OTHER -> "high"

-----------------------------------------------------------------------------
(* count_cross_bank_overlaps *)

\* One mention more of each of these references.
Mention(seen, refs) ==
    FoldSet(LAMBDA ref, bag : Bag!BagAdd(bag, ref), seen, refs)

\* Mutation of Seen: every mention counts, not every party.
SeenMentions(parties) ==
    FoldLeft(LAMBDA seen, party :
               Mention(Mention(seen, party.customers), party.counterparties),
             <<>>, parties)

\* How many parties mention each reference.
Seen(parties) ==
    FoldLeft(LAMBDA seen, party : Mention(seen, Refs(party)), <<>>, parties)

CrossBankOverlaps(parties) ==
    LET seen == Seen(parties)
    IN  Cardinality({ref \in DOMAIN seen : seen[ref] > 1})

-----------------------------------------------------------------------------
(* The handlers. *)

Refused == [code |-> 400]

ScreenedParties(parties) ==
    LET aggregate == Aggregate(parties)
        overlaps  == CrossBankOverlaps(parties)
    IN  [code |-> 200, aggregate |-> aggregate, overlaps |-> overlaps,
         level  |-> ClassifyRisk(aggregate),
         status |-> IF aggregate >= 70 \/ overlaps > 0
                      THEN "screened_watchlist_attention"
                      ELSE "screened_clear"]

ThreeBankScreen ==
    /\ request.kind = "three_bank" /\ answer = NoAnswer
    /\ answer' = IF Valid(request.parties)
                   THEN ScreenedParties(request.parties) ELSE Refused
    /\ UNCHANGED request

AmountScore(amount) ==
    CASE amount >= 100000 -> 58
      [] amount >= 10000 /\ amount < 100000 -> 42
      [] amount < 10000 -> 25

\* Whatever the entity.
CompatibilityScreening ==
    /\ request.kind = "screen" /\ answer = NoAnswer
    /\ answer' = [code |-> 200, status |-> "screened_clear", result |-> "clear",
                  score |-> AmountScore(request.amount),
                  level |-> ClassifyRisk(AmountScore(request.amount))]
    /\ UNCHANGED request

Init == request = NoRequest /\ answer = NoAnswer

Send ==
    /\ request = NoRequest
    /\ request' \in ThreeBankRequests \union ScreenRequests
    /\ UNCHANGED answer

\* The client has its answer.
Done ==
    /\ answer # NoAnswer
    /\ request' = NoRequest /\ answer' = NoAnswer

Next == Send \/ ThreeBankScreen \/ CompatibilityScreening \/ Done

Spec == Init /\ [][Next]_vars

-----------------------------------------------------------------------------
(* Properties *)

Screened ==
    /\ request.kind = "three_bank"
    /\ answer # NoAnswer /\ answer # Refused

\* The overlap count is that of a definition that counts nothing: the number
\* of references that two different parties know, in either list of theirs.
OverlapsAreShared ==
    Screened =>
      LET ps == request.parties IN
      answer.overlaps =
        Cardinality({ref \in UNION {Refs(ps[i]) : i \in 1 .. 3} :
                       \E i, j \in 1 .. 3 :
                         i # j /\ ref \in Refs(ps[i]) \intersect Refs(ps[j])})

LevelRank == [level \in {"low", "medium", "high"} |->
                CASE level = "low" -> 0 [] level = "medium" -> 1
                  [] level = "high" -> 2]

\* The mean is between its scores, at the integer arithmetic's edges too: the
\* level lies between those of the lowest and the highest score of any party,
\* and scores that are all high cannot, by their size, be screened clear.
LevelWithinScores ==
    Screened =>
      LET scores == {Scores(request.parties)[i]
                       : i \in DOMAIN Scores(request.parties)} IN
      /\ LevelRank[ClassifyRisk(Min(scores))] <= LevelRank[answer.level]
      /\ LevelRank[answer.level] <= LevelRank[ClassifyRisk(Max(scores))]
      /\ Min(scores) >= 70 => answer.status = "screened_watchlist_attention"

-----------------------------------------------------------------------------
(* What the integration test says, and the code does not do. *)

\* Screening a sanctioned entity gives a match.
SanctionedEntityMatches ==
    request.kind = "screen" /\ answer # NoAnswer
      => (request.entity \in Sanctioned => answer.result = "match")
=============================================================================
