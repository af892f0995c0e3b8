---------------------------- MODULE EntityMasking ----------------------------
(***************************************************************************)
(* From the spans that detectors report to the text that is masked: the    *)
(* numbers LocalRegexDetector and SpokenNumberDetector report and how they *)
(* score them, EntityMerger.merge, which resolves strong overlaps before   *)
(* the rules are evaluated, and MaskService.mask, which chooses again      *)
(* among what is left and replaces it from right to left.                  *)
(*                                                                         *)
(* A text is the positions 0..n; scores are in hundredths.                 *)
(***************************************************************************)
EXTENDS Integers, Sequences, FiniteSets, SequencesExt

(***************************************************************************)
(* Detectors: one number                                                   *)
(*                                                                         *)
(* A number is a record: how many digits it has, whether it starts with 0  *)
(* and whether its checksum is right, whether a dash stands after its      *)
(* tenth digit and whether a space or dash follows it (spaced); hint and said tell for each type how near one of its words *)
(* stands (2 within window_2, 1 within window_1, 0 farther), among the     *)
(* words the regex detector and the spoken detector know; and tail tells   *)
(* for each language how many characters of filler words follow it.        *)
(***************************************************************************)

Span(type, start, end, score, source, level) ==
    [type |-> type, start |-> start, end |-> end, score |-> score,
     source |-> source, level |-> level]

Written(number) == number.digits + (IF number.dash THEN 1 ELSE 0)

RegexSpan(number, type, end, scores) ==
    Span(type, 0, end, scores[number.hint[type] + 1], "local_regex",
         number.hint[type])

\* PHONE_PATTERN stops before a dash that more than one digit follows.
Phones(number) ==
    LET end == IF number.dash THEN 10 ELSE number.digits
    IN  IF number.zero /\ end \in {10, 11}
        THEN {RegexSpan(number, "PHONE", end, <<70, 80, 90>>)} ELSE {}

Cccds(number) ==
    IF number.digits = 12
    THEN {RegexSpan(number, "CCCD", 12, <<65, 85, 95>>)} ELSE {}

TaxIds(number) ==
    IF number.digits = (IF number.dash THEN 13 ELSE 10)
    THEN {RegexSpan(number, "TAX_ID", Written(number), <<65, 80, 90>>)} ELSE {}

\* CREDIT_CARD_CANDIDATE_PATTERN takes the space or dash behind the last digit along.
Cards(number) ==
    IF number.digits \in 13..19 /\ number.luhn
    THEN {Span("CREDIT_CARD", 0, Written(number) + (IF number.spaced THEN 1 ELSE 0),
               92, "local_regex", 0)} ELSE {}

\* LocalRegexDetector.scan of a number.
Regex(number) ==
    Phones(number) \cup Cccds(number) \cup TaxIds(number) \cup Cards(number)

\* SpokenNumberDetector._guess_type: a set of at most one type.
Guess(number) ==
    IF \/ number.digits = 12
       \/ number.digits = 13 /\ number.said["CCCD"] > 0 THEN {"CCCD"}
    ELSE IF number.digits \in {10, 13} /\ number.said["TAX_ID"] > 0 THEN {"TAX_ID"}
    ELSE IF number.digits \in {9, 10, 11} THEN {"PHONE"}
    ELSE {}

Least(a, b) == IF a < b THEN a ELSE b

SpokenScore(confidence, level) ==
    CASE level = 2 -> Least(95, confidence + 15)
      [] level = 1 -> Least(90, confidence + 8)
      [] OTHER -> IF confidence > 70 THEN confidence ELSE 70

\* SpokenNumberDetector.scan: digits are tokens of both languages' adapters, so a
\* written number is found again by each, up to the last filler word behind it.
Spoken(number) ==
    { Span(type, 0, Written(number) + number.tail[lang],
           SpokenScore(Least(99, 60 + 2 * number.digits), number.said[type]),
           "spoken_norm", number.said[type]) :
        type \in Guess(number), lang \in {"vi", "en"} }

(***************************************************************************)
(* EntityMerger                                                            *)
(***************************************************************************)

\* entity_type_priority and source_priority.
TypePriority(type) ==
    CASE type = "API_SECRET" -> 100 [] type = "CUSTOM_SECRET" -> 95
      [] type = "CREDIT_CARD" -> 90 [] type = "CCCD" -> 85
      [] type = "TAX_ID" -> 80 [] type = "EMAIL" -> 70
      [] type = "PHONE" -> 60 [] type = "ADDRESS" -> 50 [] OTHER -> 0

SourcePriority(source) ==
    CASE source = "local_regex" -> 40 [] source = "vn_address" -> 35
      [] source = "spoken_email" -> 30 [] source = "spoken_norm" -> 25
      [] source = "presidio" -> 20 [] OTHER -> 0

\* Tuples compare from the left, as in Python.
Greater(k, l) ==
    \E i \in DOMAIN k :
        /\ k[i] > l[i]
        /\ \A j \in 1..i - 1 : k[j] = l[j]

\* The longest span wins whatever its type.  (Used by a mutant.)
PrecedenceByLength(s) ==
    <<s.end - s.start, TypePriority(s.type), s.score, SourcePriority(s.source)>>

\* entity_precedence_key, and the same key in MaskService.
PrecedenceKey(s) ==
    <<TypePriority(s.type), s.end - s.start, s.score, SourcePriority(s.source)>>

\* The order in which ScanEngineLocal.scan lists what the detectors report.
ReportRank(source) ==
    CASE source = "local_regex" -> 5 [] source = "spoken_norm" -> 4
      [] source = "spoken_email" -> 3 [] source = "vn_address" -> 2
      [] source = "presidio" -> 1 [] OTHER -> 0

\* The order both classes sort spans in.  On equal keys the sort keeps the order
\* of the reports: that of the detectors, and in it that of the types.
Earlier(s, t) ==
    Greater(<<t.start, s.end, s.score, ReportRank(s.source), TypePriority(t.type)>>,
            <<s.start, t.end, t.score, ReportRank(t.source), TypePriority(s.type)>>)

Sorted(spans) ==
    [i \in 1..Cardinality(spans) |->
        CHOOSE s \in spans : Cardinality({t \in spans : Earlier(t, s)}) = i - 1]

Overlap(s, t) == s.start < t.end /\ t.start < s.end

Shared(s, t) ==
    Least(s.end, t.end) - (IF s.start > t.start THEN s.start ELSE t.start)

\* _overlap_ratio at or above the threshold of 0.8.
StrongOverlap(s, t) ==
    /\ Overlap(s, t)
    /\ 10 * Shared(s, t) >= 8 * Least(s.end - s.start, t.end - t.start)

PreferRank(source) ==
    CASE source = "local_regex" -> 0 [] source = "spoken_norm" -> 1
      [] source = "presidio" -> 2 [] OTHER -> 999

\* Phones and tax numbers are ranked like other types.  (Used by a mutant.)
ResolveByType(s, t) ==
    IF s.type = t.type THEN <<s.score, 999 - PreferRank(s.source)>>
    ELSE PrecedenceKey(s) \o <<999 - PreferRank(s.source)>>

\* What decides between two spans, most significant part first: _resolve_overlap,
\* _resolve_phone_tax_overlap and _prefer.  On equal keys the later span loses.
ResolveKey(s, t) ==
    IF s.type = t.type THEN <<s.score, 999 - PreferRank(s.source)>>
    ELSE LET general == PrecedenceKey(s) \o <<999 - PreferRank(s.source)>>
         IN  IF {s.type, t.type} = {"PHONE", "TAX_ID"}
             THEN <<s.score, s.level>> \o general ELSE general

Wins(s, t) == Greater(ResolveKey(s, t), ResolveKey(t, s))

MergeNext(merged, s) ==
    IF merged = <<>> \/ ~StrongOverlap(s, merged[Len(merged)]) THEN Append(merged, s)
    ELSE IF Wins(s, merged[Len(merged)]) THEN [merged EXCEPT ![Len(merged)] = s]
    ELSE merged

\* EntityMerger.merge of sorted items; only the last span kept is compared with the
\* next one.
MergeSorted(items) ==
    LET merged[i \in 0..Len(items)] ==
            IF i = 0 THEN <<>> ELSE MergeNext(merged[i - 1], items[i])
    IN  merged[Len(items)]

Merge(spans) == MergeSorted(Sorted(spans))

(***************************************************************************)
(* MaskService                                                             *)
(***************************************************************************)

Maskable == {"PHONE", "EMAIL", "TAX_ID", "CREDIT_CARD", "CCCD", "ADDRESS",
             "API_SECRET"}

Outranks(s, t) == Greater(PrecedenceKey(s), PrecedenceKey(t))

ChooseNext(chosen, s) ==
    IF chosen = <<>> \/ s.start >= chosen[Len(chosen)].end THEN Append(chosen, s)
    ELSE IF Outranks(s, chosen[Len(chosen)]) THEN [chosen EXCEPT ![Len(chosen)] = s]
    ELSE chosen

\* MaskService.mask of sorted spans: what is replaced by its label.
ChooseSorted(spans) ==
    LET chosen[i \in 0..Len(spans)] ==
            IF i = 0 THEN <<>> ELSE ChooseNext(chosen[i - 1], spans[i])
    IN  chosen[Len(spans)]

Chosen(merged) == ChooseSorted(Sorted({s \in ToSet(merged) : s.type \in Maskable}))

\* The characters of a text that a mask hides.
Hidden(chosen) == UNION {s.start..s.end - 1 : s \in ToSet(chosen)}

-----------------------------------------------------------------------------
(***************************************************************************)
(* What the two passes owe a report                                        *)
(***************************************************************************)

Rivals(S, s) == {t \in S \ {s} : t.type \in Maskable /\ Overlap(s, t)}

\* No two neighbours overlap: replacing one leaves the offsets of those before it.
Apart(chosen) == \A i \in 1..Len(chosen) - 1 : chosen[i].end <= chosen[i + 1].start

\* The maskable spans of S that beat all their rivals are hidden whole.
WinnersHidden(S, chosen) ==
    \A s \in {r \in S : r.type \in Maskable} :
       (\A t \in Rivals(S, s) : Wins(s, t) /\ Outranks(s, t))
          => s.start..s.end - 1 \subseteq Hidden(chosen)

ReportMasked(S) ==
    LET chosen == Chosen(Merge(S)) IN Apart(chosen) /\ WinnersHidden(S, chosen)

NumberMasked(number) ==
    LET found == Regex(number) \cup Spoken(number)
        chosen == Chosen(Merge(found))
    IN  /\ found # {} => chosen # <<>>
        /\ \A card \in Cards(number) : chosen = <<card>>
        /\ number.digits = 10 /\ number.hint = number.said =>
              (chosen[1].type = "TAX_ID" <=>
                  \/ ~number.zero /\ number.hint["TAX_ID"] > 0
                  \/ /\ number.hint["TAX_ID"] > 0
                     /\ number.hint["TAX_ID"] >= number.hint["PHONE"])
=============================================================================
