------------------------- MODULE MetricsExtraction -------------------------
(***************************************************************************)
(* What the two scrapers make of one Prometheus page of a model server:    *)
(* the one the EPP runs (pkg/epp/backend/metrics/metrics.go) and the one   *)
(* of the new data layer (pkg/epp/datalayer/metrics).                      *)
(*                                                                         *)
(* A page is a record of three families; a family is the sequence of its   *)
(* series, << >> when the page does not have it.  Every series has kind,   *)
(* "gauge", "counter" or another type of metric, val, its value, and ok,   *)
(* whether its labels match the configured specification.  A series of a   *)
(* plain family has ts, its timestamp; one of the LoRA family has its max  *)
(* label and the names between the commas of its running and waiting       *)
(* labels, {} when the label is empty, and its value is its creation time. *)
(***************************************************************************)
EXTENDS Integers, Sequences

CONSTANT TrimSpace(_)    \* an adapter name without surrounding blanks

NoLabel == -1    \* the max label is the empty string
NotANumber == -2 \* the max label does not parse as an integer

NewMetricsState == [queue |-> 0, kv |-> 0, active |-> {}, waiting |-> {}, max |-> 0]

\* The first of the series at the wanted positions whose key is largest and
\* above floor, as a sequence of at most one.
LatestBy(series, key, wanted, floor) ==
    LET candidates == {i \in wanted : key[i] > floor}
        best == {i \in candidates :
                   \A j \in candidates : key[j] < key[i] \/ (key[j] = key[i] /\ i <= j)}
    IN  IF best = {} THEN << >> ELSE <<series[CHOOSE i \in best : TRUE]>>

\* GetGauge().GetValue() is zero for a metric of any other type; extractValue
\* also reads counters.
GaugeValue(s) == IF s.kind = "gauge" THEN s.val ELSE 0
ExtractValue(s) == IF s.kind \in {"gauge", "counter"} THEN s.val ELSE 0

Timestamps(family) == [i \in DOMAIN family |-> family[i].ts]
LabelsMatch(s) == s.ok
Matching(family) == {i \in DOMAIN family : LabelsMatch(family[i])}

-----------------------------------------------------------------------------
\* Specifications.  A string is "" when the metric is not wanted, "malformed"
\* when it is not a PromQL vector selector with a name, and "valid" otherwise.

parseStringToSpec(spec) ==
    CASE spec = "" -> "nil" [] spec = "malformed" -> "error" [] OTHER -> "spec"

\* An empty LoRA specification becomes a LoRASpec around nil, which finds
\* nothing on any page.
parseStringToLoRASpec(spec) == parseStringToSpec(spec)

\* The families with a specification; an error in any of them is an error of all.
NewMapping(specs) ==
    LET parsed == [f \in {"queue", "kv", "lora"} |->
                     IF f = "lora" THEN parseStringToLoRASpec(specs[f]) ELSE parseStringToSpec(specs[f])]
    IN  [err |-> \E f \in DOMAIN parsed : parsed[f] = "error",
         families |-> {f \in DOMAIN parsed : parsed[f] = "spec"}]

-----------------------------------------------------------------------------
\* The EPP's scraper.

\* The latest timestamp among the series whose labels match.
GetLatestMetric(family) == LatestBy(family, Timestamps(family), Matching(family), -1)

GaugeOr(found, old) == IF found = << >> THEN old ELSE GaugeValue(found[1])

HasAdapters(s) == s.running # {} \/ s.waiting # {}

GetLatestLoraMetricFirst(family) ==
    LET idle == SelectSeq(family, HasAdapters)
    IN  IF idle = << >> THEN << >> ELSE <<Head(idle)>>

\* Series without adapters are passed over, and a creation time of zero is
\* never the latest.
GetLatestLoraMetric(family) ==
    LatestBy(family, [i \in DOMAIN family |-> GaugeValue(family[i])],
             {i \in DOMAIN family : HasAdapters(family[i])}, 0)

\* strconv.Atoi: the assignment also happens when it fails, with zero.
AtoiOr(label, old) == IF label = NoLabel THEN old
                      ELSE IF label = NotANumber THEN 0 ELSE label

PromToPodMetrics(mapping, page, existing) ==
    LET lora == IF "lora" \in mapping THEN GetLatestLoraMetric(page.lora) ELSE << >>
        base == [existing EXCEPT
                   !.queue = IF "queue" \in mapping THEN GaugeOr(GetLatestMetric(page.queue), @) ELSE @,
                   !.kv = IF "kv" \in mapping THEN GaugeOr(GetLatestMetric(page.kv), @) ELSE @]
    IN  IF lora = << >>
          THEN base
          ELSE [base EXCEPT !.active = lora[1].running,
                            !.waiting = lora[1].waiting,
                            !.max = AtoiOr(lora[1].max, @)]

-----------------------------------------------------------------------------
\* The data layer's extractor.

\* Spec.getLatestMetric: the latest timestamp among the series whose labels
\* match, here too.
SpecGetLatestMetric(family) == LatestBy(family, Timestamps(family), Matching(family), -1)

ValueOr(found, old) == IF found = << >> THEN old ELSE ExtractValue(found[1])

\* LoRASpec.getLatestMetric: the largest creation time among the series whose
\* labels match, whether they name adapters or not.
LoRASpecGetLatestMetric(family) ==
    LatestBy(family, [i \in DOMAIN family |-> ExtractValue(family[i])], Matching(family), -1)

\* Blanks are cut off and names that are empty then are left out.
AddAdapters(names) == {TrimSpace(n) : n \in names} \ {""}

\* populateLoRAMetrics: a max label that does not parse leaves the old value.
PopulateLoRAMetrics(metrics, series) ==
    [metrics EXCEPT !.active = AddAdapters(series.running),
                    !.waiting = AddAdapters(series.waiting),
                    !.max = IF series.max < 0 THEN @ ELSE series.max]

\* Extract: whether anything was found, and the metrics with what was found.
\* An empty LoRA specification is an error on every page, never an update.
Extract(mapping, page, current) ==
    LET lora == IF "lora" \in mapping THEN LoRASpecGetLatestMetric(page.lora) ELSE << >>
        base == [current EXCEPT
                   !.queue = IF "queue" \in mapping THEN ValueOr(SpecGetLatestMetric(page.queue), @) ELSE @,
                   !.kv = IF "kv" \in mapping THEN ValueOr(SpecGetLatestMetric(page.kv), @) ELSE @]
    IN  [updated |-> \/ "queue" \in mapping /\ SpecGetLatestMetric(page.queue) # << >>
                     \/ "kv" \in mapping /\ SpecGetLatestMetric(page.kv) # << >>
                     \/ lora # << >>,
         metrics |-> IF lora = << >> THEN base ELSE PopulateLoRAMetrics(base, lora[1])]

-----------------------------------------------------------------------------
\* A page on which the two scrapers cannot differ: the series they read are
\* gauges, every creation time is positive, and the newest LoRA series names
\* adapters, in names that are neither empty nor have blanks around them,
\* carries the labels of the specification and has a max label that parses.
Unambiguous(page) ==
    /\ \A i \in Matching(page.queue) : page.queue[i].kind = "gauge"
    /\ \A i \in Matching(page.kv) : page.kv[i].kind = "gauge"
    /\ \A i \in DOMAIN page.lora :
         page.lora[i].kind = "gauge" /\ page.lora[i].val > 0 /\ page.lora[i].ok
    /\ \A i \in DOMAIN page.lora :
         (\A j \in DOMAIN page.lora : page.lora[j].val <= page.lora[i].val)
            => /\ HasAdapters(page.lora[i])
               /\ page.lora[i].max # NotANumber
               /\ \A n \in page.lora[i].running \union page.lora[i].waiting :
                      n # "" /\ TrimSpace(n) = n
=============================================================================
