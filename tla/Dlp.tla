--------------------------------- MODULE Dlp ---------------------------------
(***************************************************************************)
(* One call of DLPScanner.evaluate (src/app/dlp.py): the text and what it  *)
(* decodes to are inspected breadth first within a budget, the findings    *)
(* are mapped back to the text, and the decision says what may leave.      *)
(*                                                                         *)
(* The text is the characters 1..len; a span   is the characters from its  *)
(* start up to, not including, its end.  The regular expressions are a     *)
(* free choice of what is found where in each view, and of whether there   *)
(* is anything to decode in it; a view is the text, or an escape, an       *)
(* entity or a Base64 token decoded, with the span it came from.           *)
(***************************************************************************)
EXTENDS Naturals, Sequences, FiniteSets

CONSTANTS
    Views,         \* views of the text; Whole is the text itself
    Whole,
    Decoded,       \* Decoded[v]: the views that _decoded_views may find in v
    Origin,        \* Origin[v]: the span of the text that v came from
    ViewSize,      \* ViewSize[v]: characters of v
    Candidates,    \* spans with a type and a class that a detector may report
    Removable,     \* redact_types
    MaxScan, MaxDepth, MaxViews, MaxChars    \* the budget

\* DataClass, by _CLASS_RANK, with the action of the default policy.
Public == 0
Internal == 1
Confidential == 2
HighlyConfidential == 3
E2eePrivate == 4
ActionFor(c) == <<"allow", "confirm", "redact", "block", "local_only">>[c + 1]

Spans == [start : 1..MaxScan, end : 2..MaxScan + 2,
          type : {c.type : c \in Candidates} \cup {"limit"}, class : Public..E2eePrivate]

Stretches == [start : 1..MaxScan, end : 2..MaxScan + 2]

\* A tax number is highly confidential (_CLASS_BY_TYPE), and neither it nor the
\* limit is a type that is only removed (_UNEDITABLE_REDACT_TYPES).
ASSUME DlpAssumption ==
    /\ MaxScan \in Nat \ {0} /\ MaxDepth \in Nat
    /\ Whole \in Views /\ Decoded \in [Views -> Seq(Views)] /\ ViewSize \in [Views -> Nat]
    /\ Origin \in [Views -> [start : 1..MaxScan, end : 2..MaxScan + 1]]
    /\ \A v \in Views : Origin[v].start < Origin[v].end
    /\ Candidates \subseteq Spans
    /\ \A f \in Candidates : /\ f.start < f.end
                             /\ f.type = "tax" => f.class = HighlyConfidential
    /\ "tax" \notin Removable /\ "limit" \notin Removable

VARIABLES
    len,           \* characters of the text
    finds,         \* what the detectors found in each view, mapped to the text
    decodes,       \* what each view was decoded to
    declared, confirmed,
    pc,
    toInspect,     \* pending: views to inspect, with their depth
    decoding,      \* what _decoded_views has still to yield, with its depth
    seen, total,
    spans,         \* the findings
    cut,           \* history: views that were not inspected for want of budget
    unmerged, merged,  \* _redact_spans: spans to merge, and the merged ones
    decision       \* the class, the action and the characters that may leave

dlpVars == <<len, finds, decodes, declared, confirmed, pc, toInspect, decoding, seen, total, spans,
             cut, unmerged, merged, decision>>

Undecided == [action |-> "none", class |-> Public, output |-> {}]

DlpTypeOK ==
    /\ len \in {0, MaxScan, MaxScan + 1}
    /\ finds \in [Views -> SUBSET Candidates] /\ decodes \in [Views -> Seq(Views)]
    /\ declared \in Public..E2eePrivate /\ confirmed \in BOOLEAN
    /\ pc \in {"scan", "decide", "redact", "done"}
    /\ toInspect \in Seq(Views \X (0..MaxDepth))
    /\ decoding \in Seq(Views \X (1..MaxDepth + 1))
    /\ seen \subseteq Views /\ total \in Nat
    /\ spans \subseteq Spans /\ unmerged \subseteq spans /\ cut \subseteq Views
    /\ merged \in Seq(Stretches)
    /\ decision \in [action : {"none", "allow", "confirm", "redact", "block", "local_only"},
                     class : Public..E2eePrivate, output : SUBSET (1..len)]

\* Mutation of LimitSpan: what is past a limit is passed over in silence.
NoSpan(from, upto) == {}

\* The span a limit finding covers.
LimitSpan(from, upto) == {[start |-> from, end |-> upto, type |-> "limit", class |-> HighlyConfidential]}

\* A text that is too long is not inspected at all, and an empty one has nothing.
DlpInit ==
    /\ len \in {0, MaxScan, MaxScan + 1}
    /\ finds = [v \in Views |-> {}] /\ decodes = [v \in Views |-> <<>>]
    /\ declared \in {Public, Internal, E2eePrivate} /\ confirmed \in BOOLEAN
    /\ \/ len > MaxScan /\ pc = "decide" /\ toInspect = <<>> /\ spans = LimitSpan(1, len + 1) /\ cut = {Whole}
       \/ len = 0 /\ pc = "decide" /\ toInspect = <<>> /\ spans = {} /\ cut = {}
       \/ len \in 1..MaxScan /\ pc = "scan" /\ toInspect = <<<<Whole, 0>>>> /\ spans = {} /\ cut = {}
    /\ seen = {Whole} /\ total = len /\ decoding = <<>>
    /\ unmerged = {} /\ merged = <<>> /\ decision = Undecided

Overlap(f, g) == f.start < g.end /\ g.start < f.end

\* _deduplicate_and_disambiguate: a phone number inside a tax number is not one.
Disambiguated(S) == {f \in S : ~(f.type = "phone" /\ \E g \in S : g.type = "tax" /\ Overlap(f, g))}

WithinBudget(v, depth) ==
    depth <= MaxDepth /\ Cardinality(seen) < MaxViews /\ total + ViewSize[v] <= MaxChars

\* What the detectors may report in a view, mapped by _source_span to where the
\* view came from; and what _decoded_views may find to decode in it.
Detected(v) == {f \in Candidates : Origin[v].start <= f.start /\ f.end <= Origin[v].end}
DecodedViews(v) == {<<>>, Decoded[v]}

\* One turn of the loop of _detect_spans: the detectors look at the next view.
ScanView ==
    LET v == toInspect[1][1]
        depth == toInspect[1][2]
    IN  /\ pc = "scan" /\ decoding = <<>> /\ toInspect # <<>>
        /\ \E found \in SUBSET Detected(v), ds \in DecodedViews(v) :
              /\ finds' = [finds EXCEPT ![v] = found] /\ decodes' = [decodes EXCEPT ![v] = ds]
              /\ spans' = spans \cup Disambiguated(found)
              /\ decoding' = [i \in 1..Len(ds) |-> <<ds[i], depth + 1>>]
        /\ toInspect' = Tail(toInspect)
        /\ UNCHANGED <<len, declared, confirmed, pc, seen, total, cut, unmerged, merged, decision>>

\* One turn of its loop over _decoded_views: skipped if seen, a limit finding if the
\* budget is spent, queued otherwise.
QueueView ==
    LET v == decoding[1][1]
        depth == decoding[1][2]
    IN  /\ pc = "scan" /\ decoding # <<>>
        /\ decoding' = Tail(decoding)
        /\ \/ /\ v \in seen
              /\ UNCHANGED <<toInspect, seen, total, spans, cut>>
           \/ /\ v \notin seen /\ ~WithinBudget(v, depth)
              /\ spans' = spans \cup LimitSpan(Origin[v].start, Origin[v].end)
              /\ cut' = cut \cup {v}
              /\ UNCHANGED <<toInspect, seen, total>>
           \/ /\ v \notin seen /\ WithinBudget(v, depth)
              /\ seen' = seen \cup {v} /\ total' = total + ViewSize[v]
              /\ toInspect' = Append(toInspect, <<v, depth>>)
              /\ UNCHANGED <<spans, cut>>
        /\ UNCHANGED <<len, finds, decodes, declared, confirmed, pc, unmerged, merged, decision>>

ScanEnds ==
    /\ pc = "scan" /\ decoding = <<>> /\ toInspect = <<>>
    /\ spans' = Disambiguated(spans)
    /\ pc' = "decide"
    /\ UNCHANGED <<len, finds, decodes, declared, confirmed, toInspect, decoding, seen, total, cut,
                   unmerged, merged, decision>>

\* evaluate: the stricter of the declared class and of the classes found.
StricterOf(S) == CHOOSE c \in S : \A d \in S : d <= c
EffectiveClass == StricterOf({declared} \cup {f.class : f \in {g \in spans : g.type \notin Removable}})

Decide ==
    LET class  == EffectiveClass
        action == IF ActionFor(class) = "confirm" /\ confirmed THEN "allow" ELSE ActionFor(class)
    IN  /\ pc = "decide"
        /\ decision' = [action |-> action, class |-> class, output |-> {}]
        /\ unmerged' = CASE action = "allow"  -> {f \in spans : f.type \in Removable}
                         [] action = "redact" -> spans
                         [] OTHER             -> {}
        /\ pc' = IF action \in {"allow", "redact"} THEN "redact" ELSE "done"
        /\ UNCHANGED <<len, finds, decodes, declared, confirmed, toInspect, decoding, seen, total, spans,
                       cut, merged>>

\* _redact_spans takes the spans in the order of start and end: a new one, or an
\* extension of the last.
Before(f, g) == f.start < g.start \/ (f.start = g.start /\ f.end <= g.end)
Extended(m, f) == [m EXCEPT ![Len(m)].end = IF f.end > @ THEN f.end ELSE @]

Merge(f) ==
    LET n == Len(merged)
    IN  /\ pc = "redact" /\ \A g \in unmerged : Before(f, g)
        /\ unmerged' = unmerged \ {f}
        /\ merged' = IF n = 0 \/ f.start > merged[n].end
                     THEN Append(merged, [start |-> f.start, end |-> f.end])
                     ELSE Extended(merged, f)
        /\ UNCHANGED <<len, finds, decodes, declared, confirmed, pc, toInspect, decoding, seen, total,
                       spans, cut, decision>>

\* The chunks between the merged spans: the i-th is from the end of the span before
\* it up to the next.
ChunkFrom(i) == IF i = 1 THEN 1 ELSE merged[i - 1].end
ChunkUpTo(i) == IF i = Len(merged) + 1 THEN len + 1 ELSE merged[i].start
Redacted == UNION {ChunkFrom(i)..(ChunkUpTo(i) - 1) : i \in 1..Len(merged) + 1}

Join ==
    /\ pc = "redact" /\ unmerged = {}
    /\ decision' = [decision EXCEPT !.output = Redacted]
    /\ pc' = "done"
    /\ UNCHANGED <<len, finds, decodes, declared, confirmed, toInspect, decoding, seen, total, spans,
                   cut, unmerged, merged>>

DlpNext == ScanView \/ QueueView \/ ScanEnds \/ Decide \/ (\E f \in unmerged : Merge(f)) \/ Join

DlpSpec == DlpInit /\ [][DlpNext]_dlpVars

-----------------------------------------------------------------------------
(* Properties.                                                             *)

Covers(f, c) == f.start <= c /\ c < f.end

\* What the inspection has not looked into: a view of another that was not seen.
Overlooked == {v \in Views : \E w \in seen : \E i \in 1..Len(decodes[w]) : decodes[w][i] = v} \ seen

\* "Limits fail closed instead of quietly passing an uninspected suffix": when
\* text leaves, everything it decodes to was inspected; a character that leaves
\* lies in no finding that must be removed and in none that is confidential; on
\* redaction every other character leaves; and no finding makes the declared
\* class less strict.
EgressIsInspected ==
    pc = "done" =>
        /\ decision.class >= declared
        /\ decision.output # {} => Overlooked = {} /\ len <= MaxScan
        /\ \A c \in decision.output, v \in seen : \A f \in Disambiguated(finds[v]) :
              Covers(f, c) => f.type \notin Removable /\ f.class < Confidential
        /\ decision.action = "redact" =>
              decision.output = {c \in 1..len : \A f \in spans : ~Covers(f, c)}

-----------------------------------------------------------------------------
(* The inductive invariant.                                                *)

\* What a view was decoded to was inspected, is about to be, or was cut off, and
\* then a limit finding stands for it.
NothingIsForgotten ==
    /\ \A w \in Views : \A i \in 1..Len(decodes[w]) :
          \/ decodes[w][i] \in seen \cup cut
          \/ \E j \in 1..Len(decoding) : decoding[j][1] = decodes[w][i]
    /\ pc # "scan" => decoding = <<>>
    /\ cut # {} \/ len > MaxScan => \E f \in spans : f.type = "limit" /\ f.class = HighlyConfidential

\* A finding is kept, or it is a telephone number inside a tax number that is.
FindingsAreKept ==
    \A v \in Views : \A f \in Disambiguated(finds[v]) :
        f \in spans \/ (f.type = "phone" /\ \E g \in spans : g.type = "tax")

SpansAreSound ==
    /\ \A f \in spans : f.start < f.end /\ (f.type = "tax" => f.class = HighlyConfidential)
    /\ len = 0 => spans = {} /\ pc # "scan"

\* The decision is as strict as what was declared and what was found.
DecisionIsStrict ==
    pc \in {"redact", "done"} =>
        /\ decision.class >= declared
        /\ \A f \in spans : f.type \notin Removable => f.class <= decision.class
        /\ decision.action = "allow" => decision.class <= Internal
        /\ decision.action = "redact" => decision.class = Confidential
        /\ pc = "redact" => decision.action \in {"allow", "redact"}
        /\ decision.output # {} => pc = "done" /\ decision.action \in {"allow", "redact"}

\* What is to be removed, and the merged spans of those that were taken.
ToRemove == IF decision.action = "redact" THEN spans ELSE {f \in spans : f.type \in Removable}
InMerged(m, c) == \E i \in 1..Len(m) : Covers(m[i], c)

\* Merged spans are in order, with a gap between any two.
Apart(m) ==
    /\ \A i \in 1..Len(m) : m[i].start < m[i].end
    /\ \A i, j \in 1..Len(m) : i < j => m[i].end < m[j].start

MergedSoFar ==
    /\ Apart(merged)
    /\ \A i \in 1..Len(merged), f \in unmerged : merged[i].start <= f.start
    /\ pc \in {"scan", "decide"} => merged = <<>> /\ unmerged = {}
    /\ pc = "redact" => /\ unmerged \subseteq ToRemove
                        /\ \A c \in 1..MaxScan + 1 :
                              InMerged(merged, c) <=> \E f \in ToRemove \ unmerged : Covers(f, c)
    /\ pc = "done" /\ decision.action \in {"allow", "redact"} =>
          decision.output = {c \in 1..len : \A f \in ToRemove : ~Covers(f, c)}

DlpIInv ==
    /\ DlpTypeOK /\ NothingIsForgotten /\ FindingsAreKept /\ SpansAreSound /\ DecisionIsStrict
    /\ MergedSoFar
=============================================================================
